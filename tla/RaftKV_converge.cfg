SPECIFICATION Spec
CONSTANTS
  Node = {n1, n2}
  Key = {k1, bad}
  InvalidKey = {bad}
  Val = {v1}
  Ttl = {0}
  Caller = {c1, c2}
  Op = {"SetKV", "UnsetKV"}
  DirFlags = {FALSE, TRUE}
  SnapCount = 1
  CanLose = TRUE
  MaxEmpty = 0
  MaxNow = 0
  MaxRestart = 1
SYMMETRY NodeCallerSymmetry
INVARIANTS TypeOK Converged NotBehind PoisonIsUniform
CHECK_DEADLOCK FALSE
