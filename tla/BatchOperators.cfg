SPECIFICATION Spec
CONSTANTS
  Batches <- OneBatch
  Targets <- OneTarget
  BatchOf <- OneBatchOf
  Remote = {"x"}
  Handlers = {h1, h2}
  Concurrency = 1
  InitStatuses = {"PENDING"}
  Kinds = {"retry", "replay"}
  MaxRequests = 4
  MaxCancels = 0
  MaxCrashes = 1
  MaxCuts = 1
  NoBatch = NoBatch
INVARIANTS
  TypeOK
  EffectOnceUnlessUnclear
  SuccessIsReal
  TwiceOnlyIfUnclear
SYMMETRY HandlerSymmetry
CHECK_DEADLOCK FALSE
