SPECIFICATION Spec
CONSTANTS
  Node = {n1}
  Key = {k1}
  InvalidKey = {}
  Val = {v1}
  Ttl = {0}
  Caller = {c1, c2}
  Op = {"SetKV", "UnsetKV"}
  DirFlags = {FALSE}
  SnapCount = 1
  CanLose = FALSE
  MaxEmpty = 1
  MaxNow = 0
  MaxRestart = 0
INVARIANTS SnapshotKeepsWrites
CHECK_DEADLOCK FALSE
