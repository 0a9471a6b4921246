SPECIFICATION Spec
CONSTANTS
  Procs <- TwoProcs
  Instances <- TwoInsts
  Proc <- TwoProcOf
  Ordinal <- TwoOrdinals
  Rank <- TwoRanks
  Policy <- RefusingPolicies
  Pids = {11, 12}
  Threads = {t1, t2}
  ProbeResults = {"UNHEALTHY"}
  ExitStatuses = {"nonzero"}
  FaultKinds = {"crash", "child", "commit"}
  InitSpec <- TwoSpecs
  InitDesired = "RUNNING"
  MaxInst = 1
  MaxBoot = 1
  FailCap = 0
  MaxOps = 1
  MaxFaults = 1
  NoPid = 0
  NoInst = "none"
  NoRow = NoRow
  NoThread = NoThread
INVARIANTS
  NotRunningIsHonest
SYMMETRY ThreadSymmetry
CHECK_DEADLOCK FALSE
