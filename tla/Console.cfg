SPECIFICATION FairSpec
CONSTANTS
  Place = {apps, a1, a2, e1, e2}
  AppPlace = apps
  EnvPlace = {a1, a2}
  ElementPlace = {e1, e2}
  Item = {1, 2, 3}
  EnvItem = {1, 2}
  Query = {0, 1}
  Match <- MCMatch
  PageSize = {1, 2}
  Seed <- MCSeed
  MaxLoad = 3
  MaxAppLoad = 4
  MaxOther = 1
  Instance = {1, 2}
  App = {0, 1}
  Text = {0, 1}
  MaxRequest = 7
  Topology <- MCTopology
  NoId = ""
  Unassigned = "unassigned"
  FallbackId <- MCFallbackId
  Threshold = 1
  MaxRefresh = 2
INVARIANTS ShownMatchesControls OwnChangesShown PagingIsSound GraphIsFaithful
PROPERTIES NeverLocked
CHECK_DEADLOCK FALSE
