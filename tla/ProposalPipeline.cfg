SPECIFICATION FairPipelineSpec
CONSTANTS
  Caller = {c1, c2, b1}
  Background = {b1}
  ProposeCap = 1
  CanCancel = TRUE
  CanRefuse = TRUE
INVARIANTS EveryoneAnswered OkIsApplied
PROPERTIES EveryCallReturns PatientShutdownStops
CHECK_DEADLOCK FALSE
