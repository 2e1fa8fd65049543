SPECIFICATION NodeSpec
CONSTANTS
  Managers = {m1, m2}
  Shutters = {s1}
  Inodes = {i1, i2}
  Pids = {1, 2, 3}
  NoMgr = NoMgr
  NoInode = NoInode
  NoPid = NoPid
  Empty = Empty
  PidReuse = "never"
  Named = {TRUE}
SYMMETRY Symmetry
CHECK_DEADLOCK FALSE
INVARIANT NoUnmanagedVmm
PROPERTIES SpawnsAlone OldSocketUnused
