SPECIFICATION Spec
CONSTANTS
  Nodes <- TwoNodes
  ById <- TwoById
  Group = {"b"}
  Fires = {1}
  Manual = {}
  Policies <- EverySelector
  FailFast = FALSE
  Limit = 1
  Results = {"FAILED"}
  MaxTerm = 2
  Events = {"crash", "fault", "lost", "edit", "retry"}
  MaxEvents = 1
  MaxRuns = 1
  None = "none"
INVARIANTS
  LedgerAgrees
  SuccessIsBacked
  OneLoopPerRun
PROPERTIES
  DeposedWriteNothing
  KeepsPromise
CHECK_DEADLOCK FALSE
