SPECIFICATION LiveSpec
CONSTANTS
  Procs <- OneProc
  Instances <- PairInsts
  Proc <- PairProcOf
  Ordinal <- PairOrdinals
  Rank <- OneRank
  Policy <- Unlimited
  Pids = {11, 12}
  Threads = {t1}
  ProbeResults = {"UNHEALTHY"}
  ExitStatuses = {"nonzero"}
  FaultKinds = {"crash", "child", "shim", "commit"}
  InitSpec <- OneSpec
  InitDesired = "RUNNING"
  MaxInst = 2
  MaxBoot = 1
  FailCap = 1
  MaxOps = 3
  MaxFaults = 1
  NoPid = 0
  NoInst = "none"
  NoRow = NoRow
  NoThread = NoThread
PROPERTIES
  SurplusGoes
