SPECIFICATION Spec
CONSTANTS
  Caller = {c1}
  Raw = {r1, r2}
  NoRaw = NoRaw
  Op = {"Create", "Update", "Publish", "PublishAny", "Rollback", "Delete"}
  KeepCount = 0
  CanFail = TRUE
  MaxVersion = 3
  MaxCalls = 8
INVARIANTS ServedVersionIntact NextStepPossible AuditTrail
PROPERTIES PublishedIsImmutable
CHECK_DEADLOCK FALSE
