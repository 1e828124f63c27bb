SPECIFICATION FairSpec
CONSTANTS
  k = k
  d = d
  o1 = o1
  o2 = o2
  Key = {k}
  Directory <- MCDirectory
  Observer = {o1, o2}
  Topics <- MCTopics
  ChangeCap = 1
  WatchCap = 1
  ObserverCap = 1
  MaxChange = 3
INVARIANTS ToldInOrder NothingMissed
PROPERTIES ApplierNotBlocked
CHECK_DEADLOCK FALSE
