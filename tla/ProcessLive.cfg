SPECIFICATION LiveSpec
CONSTANTS
  Procs <- OneProc
  Instances <- OneInst
  Proc <- OneProcOf
  Ordinal <- OneOrdinal
  Rank <- OneRank
  Policy <- Unlimited
  Pids = {11, 12}
  Threads = {t1}
  ProbeResults = {"UNHEALTHY"}
  ExitStatuses = {"nonzero"}
  FaultKinds = {"crash", "child", "start", "cancel", "expire"}
  InitSpec <- OneSpec
  InitDesired = "RUNNING"
  MaxInst = 1
  MaxBoot = 2
  FailCap = 1
  MaxOps = 2
  MaxFaults = 2
  NoPid = 0
  NoInst = "none"
  NoRow = NoRow
  NoThread = NoThread
PROPERTIES
  StopConverges
  KeepsRunning
