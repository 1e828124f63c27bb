SPECIFICATION FairSpec
CONSTANTS
  Account = {u1, u2, root}
  Superadmin = {root}
  Known = {root}
  Limit = 2
  Cluster = c
  AppBinding = {b}
  None = None
  MaxLoad = 3
  MaxOther = 2
  OtherAccount = {u1}
  OtherBinding = {b}
INVARIANTS BindingsBelongToTarget OwnChangesShown
PROPERTIES NeverLocked
CHECK_DEADLOCK FALSE
