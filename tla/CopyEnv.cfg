SPECIFICATION FairSpec
CONSTANTS
  a1 = a1
  a2 = a2
  e1 = e1
  e2 = e2
  k1 = k1
  k2 = k2
  k3 = k3
  r1 = r1
  App = {a1, a2}
  Home = a1
  Env = {e1, e2}
  Key = {k1, k2, k3}
  Raw = {r1}
  Blank = Blank
  None = None
  workerCount = 2
  Seed <- MCSeed
  PageLimit = 2
  MaxChange = 1
  OtherWrite <- MCOtherWrite
  OtherEnv <- MCOtherEnv
  MaxLoad = 2
  MaxMove = 1
INVARIANTS ReportIsHonest ElementsMatchSource
PROPERTIES WritesOnlyIntoOwnEnv CopyEnds ImplementsTask
CHECK_DEADLOCK FALSE
