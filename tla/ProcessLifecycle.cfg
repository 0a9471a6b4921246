SPECIFICATION Spec
CONSTANTS
  Procs <- OneProc
  Instances <- OneInst
  Proc <- OneProcOf
  Ordinal <- OneOrdinal
  Rank <- OneRank
  Policy <- OnePolicy
  Pids = {11, 12}
  Threads = {t1}
  ProbeResults = {"HEALTHY", "UNHEALTHY"}
  ExitStatuses = {"zero", "nonzero"}
  FaultKinds = {"crash", "child", "shim", "start", "cancel"}
  InitSpec <- OneSpec
  InitDesired = "RUNNING"
  MaxInst = 1
  MaxBoot = 2
  FailCap = 2
  MaxOps = 2
  MaxFaults = 3
  NoPid = 0
  NoInst = "none"
  NoRow = NoRow
  NoThread = NoThread
INVARIANTS
  TypeOK
  ChildrenBehindShims
  OneCopyUnlessShimLost
  NotRunningIsHonest
  CrashLoopBounded
