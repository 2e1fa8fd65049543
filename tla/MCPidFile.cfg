SPECIFICATION FairSpec
CONSTANTS
  Managers = {m1, m2}
  Shutters = {s1}
  Inodes = {i1, i2}
  Pids = {p1, p2}
  NoMgr = NoMgr
  NoInode = NoInode
  NoPid = NoPid
  Empty = Empty
  PidReuse = "slow"
  Named = {TRUE, FALSE}
CHECK_DEADLOCK FALSE
INVARIANT SignalsOnlyManagers
PROPERTIES OwnershipStable RefusalMeansDuplicate EmptyFileIsTorn SignalledManagerEnds
