SPECIFICATION Spec
CONSTANTS
  Caller = {c1}
  Raw = {r1}
  NoRaw = NoRaw
  Op = {"Create", "Update", "Publish", "PublishAny", "Rollback", "Delete", "Compact"}
  KeepCount = 1
  CanFail = TRUE
  MaxVersion = 3
  MaxCalls = 7
PROPERTIES CompactionSpares
CHECK_DEADLOCK FALSE
