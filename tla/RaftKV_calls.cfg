SPECIFICATION FairSpec
CONSTANTS
  Node = {n1}
  Key = {k1}
  InvalidKey = {}
  Val = {v1}
  Ttl = {0, 1}
  Caller = {c1, c2}
  Op = {"SetKV", "UnsetKV", "GetKV", "Range", "Expire"}
  DirFlags = {FALSE}
  SnapCount = 1
  CanLose = FALSE
  MaxEmpty = 1
  MaxNow = 1
  MaxRestart = 0
INVARIANTS AckIsCommitted CreateExclusiveInSequence ExpiryRemovesOnlyExpired
PROPERTIES EveryCallReturns
CHECK_DEADLOCK FALSE
