SPECIFICATION LiveSpec
CONSTANTS
  Batches <- TwoBatches
  Targets <- TwoTargets
  BatchOf <- ApartBatchOf
  Remote = {"x"}
  Handlers = {h1}
  Concurrency = 1
  InitStatuses = {"PENDING", "FAILED"}
  Kinds = {}
  MaxRequests = 2
  MaxCancels = 0
  MaxCrashes = 2
  MaxCuts = 1
  NoBatch = NoBatch
PROPERTIES
  TargetsEnd
CHECK_DEADLOCK FALSE
