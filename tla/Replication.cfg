SPECIFICATION Spec
CONSTANTS
  Nodes <- TwoNodes
  First = "a"
  Plans <- OneWayOrBoth
  Fires = {1}
  Manual = {2}
  Limit = 1
  MaxTerm = 2
  Events = {"expire","crash","fault","lost","edit","retry"}
  MaxEvents = 3
  MaxRuns = 1
  None = "none"
INVARIANTS
  SuccessIsStored
  ClaimedHasRun
PROPERTIES
  OwnerWrites
  KeepsPromise
CHECK_DEADLOCK FALSE
