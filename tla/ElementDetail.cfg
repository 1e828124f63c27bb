SPECIFICATION FairSpec
CONSTANTS
  Key = {"k1", "k2"}
  Raw = {"a", "bad"}
  NoRaw = ""
  Invalid = {"bad"}
  MaxVersion = 3
  MaxOther = 2
  MaxLoad = 3
  OtherOp = {"create", "update", "publish", "delete"}
  Seed <- MCSeed
INVARIANTS PageMatchesLocation
PROPERTIES PublishesOwnDraft NeverLocked
CHECK_DEADLOCK FALSE
