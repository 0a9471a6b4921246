SPECIFICATION Spec
CONSTANTS
  Nodes <- TwoNodes
  ById <- TwoById
  Group = {"b"}
  Fires = {1}
  Manual = {2}
  Policies <- AllNodes
  FailFast = TRUE
  Limit = 2
  Results = {"FAILED"}
  MaxTerm = 2
  Events = {"crash", "lost"}
  MaxEvents = 1
  MaxRuns = 1
  None = "none"
PROPERTIES
  RunEnds
CHECK_DEADLOCK FALSE
