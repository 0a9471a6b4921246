SPECIFICATION Spec
CONSTANTS
  Batches <- OneBatch
  Targets <- TwoTargets
  BatchOf <- TwoBatchOf
  Remote = {"x", "y"}
  Handlers = {h1, h2}
  Concurrency = 2
  InitStatuses = {"PENDING", "FAILED"}
  Kinds = {"retry"}
  MaxRequests = 3
  MaxCancels = 1
  MaxCrashes = 0
  MaxCuts = 0
  NoBatch = NoBatch
INVARIANTS
  RunnerOwnsRow
SYMMETRY HandlerSymmetry
PROPERTIES
  SuccessSticks
CHECK_DEADLOCK FALSE
