SPECIFICATION FairSpec
CONSTANTS
  Key = {k}
  elementKey = k
  Raw = {"a", "b"}
  NoRaw = ""
  Target = {t}
  MaxVersion = 3
  VersionLimit = 2
  MaxOther = 2
  OtherOp = {"create", "update", "publish", "delete", "compact"}
  Seed <- MCSeed
INVARIANTS ReviewIsAccurate
PROPERTIES ServedWasReviewed Direction NeverLocked
CHECK_DEADLOCK FALSE
