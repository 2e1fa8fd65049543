SPECIFICATION Spec
CONSTANTS
  Managers = {m1, m2}
  Shutters = {s1}
  Inodes = {i1, i2}
  Pids = {p1, p2, p3}
  NoMgr = NoMgr
  NoInode = NoInode
  NoPid = NoPid
  Empty = Empty
  PidReuse = "never"
  Named = {TRUE}
CHECK_DEADLOCK FALSE
INVARIANT SingleManager
