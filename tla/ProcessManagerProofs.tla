------------------------ MODULE ProcessManagerProofs ------------------------
(***************************************************************************)
(* What TLAPS proves of ProcessManager for every value of its constants:   *)
(* its type invariant; that no instance has two live children unless a     *)
(* shim died and left one behind; and that a row which says its instance   *)
(* is not running is right about the shim.                                 *)
(*                                                                         *)
(* TypeOK is proved one group of variables at a time: a lemma for each of  *)
(* the operators the actions are built from says which group it keeps.     *)
(***************************************************************************)
EXTENDS ProcessManager, TLAPS

Rows == [Instances -> Row \cup {NoRow}]

\* The groups of TypeOK.
HostOK ==
  /\ live \in [Pids -> Instances \cup {NoInst}]
  /\ shim \in [Instances -> Shim]
  /\ boot \in 1..MaxBoot

StoreOK ==
  /\ rt \in [Instances -> PidOrNone]
  /\ spec \in [Procs -> 0..MaxInst]
  /\ row \in Rows

MemOK ==
  /\ failures \in [Instances -> 0..FailCap]
  /\ nextTry \in [Instances -> BOOLEAN]
  /\ shimChk \in [Instances -> BOOLEAN]
  /\ retries \in [Instances -> 0..FailCap]

ThreadOK ==
  /\ mu \in Threads \cup {NoThread}
  /\ pc \in [Threads -> PCs]
  /\ job \in [Threads -> Jobs]
  /\ todo \in [Threads -> SUBSET Instances]
  /\ extra \in [Threads -> SUBSET Instances]
  /\ snap \in [Threads -> Rows]
  /\ at \in [Threads -> Instances]
  /\ cur \in [Threads -> Row]
  /\ after \in [Threads -> Afters]

BudgetOK == ops \in 0..MaxOps /\ faults \in 0..MaxFaults

HistOK == lost \in SUBSET Pids /\ unrec \in SUBSET Pids

\* TypeOK is the conjunction of its groups.
LEMMA TypeGroups ==
  TypeOK <=> /\ HostOK /\ StoreOK /\ MemOK /\ ThreadOK
             /\ agentUp \in BOOLEAN /\ BudgetOK /\ HistOK
BY DEF TypeOK, HostOK, StoreOK, MemOK, ThreadOK, BudgetOK, HistOK, Rows

-----------------------------------------------------------------------------
\* ApplyObserved stays within the observed states when its fallback does.
LEMMA ApplyObservedType ==
  ASSUME NEW c \in Observed, NEW ev, NEW f \in Observed
  PROVE  ApplyObserved(c, ev, f) \in Observed
BY DEF ApplyObserved, Legal

LEMMA NewRowType ==
  ASSUME NEW d \in Desired PROVE NewRow(d) \in Row
BY ConstantTypes DEF NewRow, Row, Desired, Observed, Health, PidOrNone, ExitCodes

\* The values of locals not in use.
LEMMA IdleValues ==
  AnyInst \in Instances /\ NoJob \in Jobs /\ NoRows \in Rows /\ NewRow("STOPPED") \in Row
<1>1. AnyInst \in Instances
  BY ConstantValues DEF AnyInst
<1>2. NoJob \in Jobs
  BY ConstantValues DEF NoJob, Jobs
<1>3. NoRows \in Rows
  BY DEF NoRows, Rows
<1>4. NewRow("STOPPED") \in Row
  BY NewRowType DEF Desired
<1> QED BY <1>1, <1>2, <1>3, <1>4

\* The rows handleExit, markOrphan, applyRunning and signalStop write.
LEMMA RowValueTypes ==
  ASSUME NEW r \in Row, NEW p \in PidOrNone, HostOK
  PROVE  /\ \A st \in ExitCodes : Exited(r, st) \in Row
         /\ Orphaned(r, p) \in Row
         /\ TakenOver(r, p) \in Row
         /\ Stopped(r) \in Row
         /\ \A st \in {"zero", "nonzero"} : StoppedByShim(r, st) \in Row
<1> USE DEF Row, PidOrNone
<1>0. /\ r.observed \in Observed
      /\ boot \in 0..MaxBoot
      /\ {"EXITED", "UNKNOWN", "RUNNING", "STOPPED"} \subseteq Observed
      /\ "UNKNOWN" \in Health
      /\ {"zero", "nonzero"} \subseteq ExitCodes
  BY ConstantTypes DEF HostOK, Observed, Health, ExitCodes
<1>1. \A st \in ExitCodes : Exited(r, st) \in Row
  BY <1>0, ApplyObservedType DEF Exited
<1>2. Orphaned(r, p) \in Row
  BY <1>0, ApplyObservedType DEF Orphaned
<1>3. TakenOver(r, p) \in Row
  BY <1>0, ApplyObservedType DEF TakenOver
<1>4. Stopped(r) \in Row
  BY <1>0 DEF Stopped
<1>5. \A st \in {"zero", "nonzero"} : StoppedByShim(r, st) \in Row
  BY <1>0, ApplyObservedType DEF StoppedByShim
<1> QED BY <1>1, <1>2, <1>3, <1>4, <1>5
-----------------------------------------------------------------------------
(***************************************************************************)
(* The operators the actions are built from, one group each.               *)
(***************************************************************************)
LEMMA PutType ==
  ASSUME StoreOK, NEW i \in Instances, NEW r \in Row \cup {NoRow}, Put(i, r)
  PROVE  row' \in Rows
BY DEF StoreOK, Put, Rows

LEMMA ForgetType ==
  ASSUME MemOK, NEW S, Forget(S) PROVE MemOK'
<1>1. failures' \in [Instances -> 0..FailCap] /\ retries' \in [Instances -> 0..FailCap]
  BY ConstantTypes DEF MemOK, Forget
<1>2. nextTry' \in [Instances -> BOOLEAN] /\ shimChk' \in [Instances -> BOOLEAN]
  BY Zenon DEF MemOK, Forget
<1> QED BY <1>1, <1>2 DEF MemOK

LEMMA BumpType ==
  ASSUME NEW n \in 0..FailCap PROVE Bump(n) \in 0..FailCap
BY ConstantTypes DEF Bump

LEMMA ReturnType ==
  ASSUME ThreadOK, NEW t \in Threads, Return(t) PROVE ThreadOK'
<1>1. "idle" \in PCs /\ "pass" \in Afters
  BY DEF PCs, Afters
<1> QED BY <1>1, IdleValues DEF ThreadOK, Return, SetLocals

LEMMA AdvanceType ==
  ASSUME ThreadOK, NEW t \in Threads, Advance(t) PROVE ThreadOK'
<1>1. "pass" \in PCs /\ "pass" \in Afters
  BY DEF PCs, Afters
<1> QED BY <1>1, IdleValues DEF ThreadOK, Advance

LEMMA GotoType ==
  ASSUME ThreadOK, NEW t \in Threads, NEW l \in PCs, NEW r \in Row, Goto(t, l, r)
  PROVE  ThreadOK'
BY DEF ThreadOK, Goto

LEMMA CallStopType ==
  ASSUME ThreadOK, NEW t \in Threads, NEW r \in Row, NEW a \in Afters, CallStop(t, r, a)
  PROVE  ThreadOK'
<1>1. "signal" \in PCs
  BY DEF PCs
<1> QED BY <1>1 DEF ThreadOK, CallStop

LEMMA EnterPassType ==
  ASSUME ThreadOK, NEW t \in Threads, NEW j \in Jobs, NEW rs \in Rows, EnterPass(t, j, rs)
  PROVE  ThreadOK'
<1>1. "pass" \in PCs /\ "pass" \in Afters
  BY DEF PCs, Afters
<1> QED BY <1>1, IdleValues DEF ThreadOK, EnterPass, SetLocals

LEMMA FaultType ==
  ASSUME BudgetOK, NEW k, Fault(k), ops' = ops PROVE BudgetOK'
BY ConstantTypes DEF BudgetOK, Fault

LEMMA RequestType ==
  ASSUME BudgetOK, Request, faults' = faults PROVE BudgetOK'
BY ConstantTypes DEF BudgetOK, Request

\* What a step leaves alone keeps its type.
LEMMA Unchanged ==
  /\ HostOK /\ UNCHANGED hostVars => HostOK'
  /\ StoreOK /\ UNCHANGED storeVars => StoreOK'
  /\ MemOK /\ UNCHANGED memVars => MemOK'
  /\ ThreadOK /\ UNCHANGED threadVars => ThreadOK'
  /\ HistOK /\ UNCHANGED histVars => HistOK'
  /\ BudgetOK /\ UNCHANGED <<ops, faults>> => BudgetOK'
BY DEF HostOK, StoreOK, MemOK, ThreadOK, HistOK, BudgetOK,
       hostVars, storeVars, memVars, threadVars, histVars

LEMMA LookedType ==
  ASSUME ThreadOK, MemOK, NEW t \in Threads, NEW r \in Row, Looked(t, r)
  PROVE  ThreadOK' /\ MemOK'
<1>1. ThreadOK'
  BY GotoType DEF Looked, PCs
<1>2. MemOK'
  BY DEF Looked, MemOK
<1> QED BY <1>1, <1>2

LEMMA HandleExitType ==
  ASSUME HostOK, StoreOK, MemOK, ThreadOK, NEW t \in Threads, NEW r \in Row,
         NEW st \in ExitCodes, HandleExit(t, r, st)
  PROVE  StoreOK' /\ MemOK' /\ ThreadOK'
<1>0. Exited(r, st) \in Row /\ at[t] \in Instances
  BY RowValueTypes DEF ThreadOK, PidOrNone
<1>1. StoreOK'
  BY <1>0, PutType DEF HandleExit, StoreOK
<1>2. MemOK'
  <2>1. failures' \in [Instances -> 0..FailCap]
    BY <1>0, BumpType DEF HandleExit, MemOK
  <2>2. /\ nextTry' \in [Instances -> BOOLEAN]
        /\ shimChk' \in [Instances -> BOOLEAN]
    BY <1>0, Zenon DEF HandleExit, MemOK, CountsAsFailure
  <2> QED BY <2>1, <2>2 DEF HandleExit, MemOK
<1>3. ThreadOK'
  BY <1>0, GotoType DEF HandleExit, PCs
<1> QED BY <1>1, <1>2, <1>3

LEMMA FoundOrphanType ==
  ASSUME HostOK, StoreOK, MemOK, ThreadOK, NEW t \in Threads, NEW r \in Row,
         NEW p \in PidOrNone, FoundOrphan(t, r, p)
  PROVE  StoreOK' /\ MemOK' /\ ThreadOK'
<1>0. Orphaned(r, p) \in Row /\ at[t] \in Instances
  BY RowValueTypes DEF ThreadOK
<1>1. [Orphaned(r, p) EXCEPT !.health = r.health] \in Row
  BY <1>0 DEF Row
<1>2. row' \in Rows
  BY <1>0, PutType DEF FoundOrphan
<1>3. rt' \in [Instances -> PidOrNone]
  BY <1>0 DEF FoundOrphan, StoreOK
<1> QED BY <1>1, <1>2, <1>3, LookedType DEF FoundOrphan, StoreOK

LEMMA NoShimStatusType ==
  ASSUME HostOK, StoreOK, MemOK, ThreadOK, NEW t \in Threads, NEW r \in Row,
         NoShimStatus(t, r)
  PROVE  StoreOK' /\ MemOK' /\ ThreadOK'
<1> DEFINE p == OrphanPid(at[t], r)
           r0 == [r EXCEPT !.pid = NoPid]
<1>0. at[t] \in Instances /\ p \in PidOrNone /\ r0 \in Row /\ "none" \in ExitCodes
  BY DEF ThreadOK, StoreOK, OrphanPid, Row, PidOrNone, ExitCodes
<1>1. CASE p # NoPid
  BY <1>0, <1>1, FoundOrphanType DEF NoShimStatus
<1>2. CASE p = NoPid /\ CountsAsFailure(r)
  BY <1>0, <1>2, HandleExitType DEF NoShimStatus
<1>3. CASE p = NoPid /\ ~CountsAsFailure(r)
  <2>1. Looked(t, r0) /\ UNCHANGED <<rt, spec>> /\ (Put(at[t], r0) \/ row' = row)
    BY <1>3 DEF NoShimStatus
  <2>2. row' \in Rows
    BY <2>1, <1>0, PutType DEF StoreOK
  <2> QED BY <2>1, <2>2, <1>0, LookedType DEF StoreOK
<1> QED BY <1>1, <1>2, <1>3

LEMMA AfterStopType ==
  ASSUME StoreOK, MemOK, ThreadOK, NEW t \in Threads, NEW r \in Row,
         NEW asked \in BOOLEAN, AfterStop(t, r, asked)
  PROVE  row' \in Rows /\ MemOK' /\ ThreadOK'
<1>0. at[t] \in Instances
  BY DEF ThreadOK
<1>1. row' \in Rows
  <2>1. [r EXCEPT !.observed = "FATAL", !.health = "UNHEALTHY"] \in Row
    BY DEF Row, Observed, Health
  <2> QED BY <2>1, <1>0, PutType DEF AfterStop
<1>2. MemOK'
  <2>1. CASE Forget({at[t]})
    BY <2>1, ForgetType
  <2>2. CASE /\ shimChk' = [shimChk EXCEPT ![at[t]] = @ /\ ~asked]
             /\ UNCHANGED <<failures, nextTry, retries>>
    BY <2>2, <1>0, Zenon DEF MemOK
  <2> QED BY <2>1, <2>2 DEF AfterStop
<1>3. ThreadOK'
  <2>1. Goto(t, "start", r) \/ Goto(t, "kill", r) \/ Advance(t)
    BY DEF AfterStop
  <2> QED BY <2>1, GotoType, AdvanceType DEF PCs
<1> QED BY <1>1, <1>2, <1>3

LEMMA StopErrorType ==
  ASSUME MemOK, ThreadOK, NEW t \in Threads, StopError(t)
  PROVE  MemOK' /\ ThreadOK'
BY Unchanged, ReturnType, AdvanceType DEF StopError

LEMMA ShimStopsType ==
  ASSUME HostOK, HistOK, NEW i \in Instances, NEW st \in {"zero", "nonzero"},
         ShimStops(i, st), boot' = boot
  PROVE  HostOK' /\ HistOK'
<1>1. CASE ShimAlive(i)
  <2>1. shim[i].child \in Pids
    BY <1>1 DEF ShimAlive, pidAlive
  <2>2. live' \in [Pids -> Instances \cup {NoInst}]
    BY <1>1, <2>1 DEF HostOK, ShimStops
  <2>3. shim' \in [Instances -> Shim]
    BY <1>1 DEF HostOK, ShimStops, Shim
  <2> QED BY <1>1, <2>2, <2>3 DEF HostOK, HistOK, ShimStops
<1>2. CASE ~ShimAlive(i)
  BY <1>2 DEF ShimStops, HostOK, HistOK
<1> QED BY <1>1, <1>2

LEMMA EnsureInstancesType ==
  ASSUME NEW p \in Procs, NEW n \in Nat, NEW rs \in Rows
  PROVE  EnsureInstances(p, n, rs) \in Rows
<1> DEFINE wants == \E i \in Instances : /\ Proc[i] = p /\ rs[i] # NoRow
                                         /\ Ordinal[i] < n /\ rs[i].desired = "RUNNING"
           d == IF wants THEN "RUNNING" ELSE "STOPPED"
           e(i) == IF Proc[i] # p THEN rs[i]
                   ELSE IF Ordinal[i] < n
                        THEN IF rs[i] = NoRow THEN NewRow(d) ELSE rs[i]
                   ELSE IF rs[i] = NoRow \/ extraInstanceDeletable(rs[i]) THEN NoRow
                   ELSE [rs[i] EXCEPT !.desired = "STOPPED"]
<1>1. NewRow(d) \in Row
  BY NewRowType DEF Desired
<1>2. \A i \in Instances : rs[i] \in Row \cup {NoRow}
  BY DEF Rows
<1>3. \A r \in Row : [r EXCEPT !.desired = "STOPPED"] \in Row
  BY DEF Row, Desired
<1> HIDE DEF d
<1>4. \A i \in Instances : e(i) \in Row \cup {NoRow}
  BY <1>1, <1>2, <1>3
<1>5. EnsureInstances(p, n, rs) = [i \in Instances |-> e(i)]
  BY DEF EnsureInstances, d
<1> HIDE DEF e
<1> QED BY <1>4, <1>5 DEF Rows

LEMMA WithDesiredType ==
  ASSUME StoreOK, NEW p \in Procs, NEW d \in Desired
  PROVE  WithDesired(p, d) \in Rows
<1>1. \A r \in Row : [r EXCEPT !.desired = d] \in Row
  BY DEF Row
<1> QED BY <1>1 DEF StoreOK, WithDesired, RowsOf, Rows
-----------------------------------------------------------------------------
(***************************************************************************)
(* Every action keeps TypeOK.                                              *)
(***************************************************************************)
LEMMA TypeGroupsPrime ==
  TypeOK' <=> /\ HostOK' /\ StoreOK' /\ MemOK' /\ ThreadOK'
              /\ agentUp' \in BOOLEAN /\ BudgetOK' /\ HistOK'
BY DEF TypeOK, HostOK, StoreOK, MemOK, ThreadOK, BudgetOK, HistOK, Rows

\* BeginReconcile, PickNext, EndPass: the loop of reconcileLocked.
LEMMA PassControlType ==
  ASSUME TypeOK, NEW t \in Threads, BeginReconcile(t) \/ PickNext(t) \/ EndPass(t)
  PROVE  TypeOK'
<1> USE TypeGroups, TypeGroupsPrime, Unchanged
<1>1. CASE BeginReconcile(t)
  <2>1. ThreadOK'
    BY <1>1, EnterPassType, IdleValues DEF BeginReconcile, StoreOK
  <2> QED BY <1>1, <2>1 DEF BeginReconcile
<1>2. CASE PickNext(t)
  <2>1. PICK i \in todo[t] :
          /\ snap[t][i] # NoRow
          /\ todo' = [todo EXCEPT ![t] = @ \ {i}]
          /\ at' = [at EXCEPT ![t] = i]
          /\ cur' = [cur EXCEPT ![t] = snap[t][i]]
          /\ pc' = [pc EXCEPT ![t] = IF i \in extra[t] THEN "signal" ELSE "refresh"]
          /\ after' = [after EXCEPT ![t] = IF i \in extra[t] THEN "surplus" ELSE "pass"]
    BY <1>2 DEF PickNext
  <2>2. i \in Instances /\ snap[t][i] \in Row
    BY <2>1 DEF ThreadOK, Rows
  <2>3. ThreadOK'
    BY <1>2, <2>1, <2>2 DEF ThreadOK, PickNext, PCs, Afters
  <2> QED BY <1>2, <2>3 DEF PickNext
<1>3. CASE EndPass(t)
  <2>1. \A r \in Row : [r EXCEPT !.desired = "RUNNING"] \in Row
    BY DEF Row, Desired
  <2>2. row' \in Rows
    BY <1>3, <2>1 DEF EndPass, StoreOK, Rows, RowsOf
  <2>3. StoreOK'
    BY <1>3, <2>2 DEF EndPass, StoreOK
  <2>4. ThreadOK'
    BY <1>3, ReturnType DEF EndPass
  <2> QED BY <1>3, <2>3, <2>4 DEF EndPass
<1> QED BY <1>1, <1>2, <1>3

\* The five outcomes of refresh.
LEMMA RefreshType ==
  ASSUME TypeOK, NEW t \in Threads,
         \/ RefreshFast(t) \/ RefreshNoSocket(t) \/ RefreshUnreachable(t)
         \/ RefreshAlive(t) \/ RefreshDead(t)
  PROVE  TypeOK'
<1> USE TypeGroups, TypeGroupsPrime, Unchanged
<1>0. /\ at[t] \in Instances /\ cur[t] \in Row
      /\ shim[at[t]] \in Shim
      /\ cur[t].pid \in PidOrNone
  BY DEF ThreadOK, HostOK, Row
<1>1. CASE RefreshFast(t)
  BY <1>0, <1>1, GotoType DEF RefreshFast, PCs
<1>2. CASE RefreshNoSocket(t)
  BY <1>0, <1>2, NoShimStatusType DEF RefreshNoSocket
<1>3. CASE RefreshUnreachable(t)
  <2>1. StoreOK' /\ MemOK' /\ ThreadOK'
    BY <1>0, <1>3, FoundOrphanType, LookedType DEF RefreshUnreachable
  <2> QED BY <1>3, <2>1 DEF RefreshUnreachable
<1>4. CASE RefreshAlive(t)
  <2> DEFINE x == [cur[t] EXCEPT !.pid = shim[at[t]].child,
                     !.observed = IF @ = "RUNNING" THEN @
                                  ELSE ApplyObserved(@, "START_OK", "RUNNING")]
  <2>1. shim[at[t]].child \in Pids
    BY <1>4 DEF RefreshAlive, ShimAlive, pidAlive
  <2>2. x \in Row
    BY <1>0, <2>1, ApplyObservedType DEF Row, PidOrNone, Observed
  <2>3. HistOK'
    BY <1>4, <2>1 DEF RefreshAlive, HistOK
  <2>4. StoreOK' /\ MemOK' /\ ThreadOK'
    <3>1. CASE sameBoot(cur[t].boot)
      <4>1. Put(at[t], x) /\ Looked(t, x) /\ UNCHANGED <<rt, spec>>
        BY <1>4, <3>1 DEF RefreshAlive
      <4> HIDE DEF x
      <4>2. row' \in Rows
        BY <4>1, <2>2, <1>0, PutType
      <4> QED BY <4>1, <4>2, <2>2, LookedType DEF StoreOK
    <3>2. CASE ~sameBoot(cur[t].boot)
      BY <1>0, <1>4, <3>2, NoShimStatusType DEF RefreshAlive
    <3> QED BY <3>1, <3>2
  <2> QED BY <1>4, <2>3, <2>4 DEF RefreshAlive
<1>5. CASE RefreshDead(t)
  <2>1. shim[at[t]].code \in ExitCodes
    BY <1>0 DEF Shim, ExitCodes
  <2>2. StoreOK' /\ MemOK' /\ ThreadOK'
    BY <1>0, <1>5, <2>1, LookedType, HandleExitType DEF RefreshDead
  <2> QED BY <1>5, <2>2 DEF RefreshDead
<1> QED BY <1>1, <1>2, <1>3, <1>4, <1>5

\* The branches of reconcileInstance after refresh.
LEMMA DecideType ==
  ASSUME TypeOK, NEW t \in Threads,
         \/ DecideNothing(t) \/ DecideStop(t) \/ DecideStart(t) \/ DecideFatal(t)
         \/ DecideBackoff(t) \/ DecideRetry(t) \/ DecideReset(t)
  PROVE  TypeOK'
<1> USE TypeGroups, TypeGroupsPrime, Unchanged
<1>0. at[t] \in Instances /\ cur[t] \in Row /\ cur[t].observed \in Observed
  BY DEF ThreadOK, Row
<1>1. CASE DecideNothing(t)
  BY <1>1, AdvanceType DEF DecideNothing
<1>2. CASE DecideStop(t)
  BY <1>0, <1>2, CallStopType DEF DecideStop, Afters
<1>3. CASE DecideStart(t)
  BY <1>0, <1>3, GotoType DEF DecideStart, PCs
<1>4. CASE DecideFatal(t)
  <2> DEFINE x == [cur[t] EXCEPT !.observed = ApplyObserved(@, "RETRIES_EXHAUSTED", "FATAL")]
  <2>1. x \in Row
    BY <1>0, ApplyObservedType DEF Row, Observed
  <2>2. Put(at[t], x)
    BY <1>4 DEF DecideFatal
  <2> HIDE DEF x
  <2>3. StoreOK'
    BY <1>0, <1>4, <2>1, <2>2, PutType DEF DecideFatal, StoreOK
  <2>4. MemOK'
    BY <1>0, <1>4, Zenon DEF DecideFatal, MemOK
  <2> QED BY <1>4, <2>3, <2>4, AdvanceType DEF DecideFatal
<1>5. CASE DecideBackoff(t)
  <2>1. MemOK'
    BY <1>0, <1>5, Zenon DEF DecideBackoff, MemOK
  <2> QED BY <1>5, <2>1, AdvanceType DEF DecideBackoff
<1>6. CASE DecideRetry(t)
  <2>1. [cur[t] EXCEPT !.observed = ApplyObserved(@, "RETRY", "STARTING")] \in Row
    BY <1>0, ApplyObservedType DEF Row, Observed
  <2>2. ThreadOK'
    BY <1>6, <2>1 DEF DecideRetry, ThreadOK, PCs, Afters
  <2>3. MemOK'
    BY <1>0, <1>6, Zenon DEF DecideRetry, MemOK
  <2> QED BY <1>6, <2>2, <2>3 DEF DecideRetry
<1>7. CASE DecideReset(t)
  <2>1. [cur[t] EXCEPT !.observed = "STOPPED"] \in Row
    BY <1>0 DEF Row, Observed
  <2>2. StoreOK'
    BY <1>0, <1>7, <2>1, PutType DEF DecideReset, StoreOK
  <2> QED BY <1>7, <2>2, AdvanceType DEF DecideReset
<1> QED BY <1>1, <1>2, <1>3, <1>4, <1>5, <1>6, <1>7

\* applyHealth.
LEMMA ProbeType ==
  ASSUME TypeOK, NEW t \in Threads,
         BeginProbe(t) \/ ProbeStale(t) \/ ProbeRecorded(t) \/ ProbeFailed(t)
  PROVE  TypeOK'
<1> USE TypeGroups, TypeGroupsPrime, Unchanged
<1>0. at[t] \in Instances
  BY DEF ThreadOK
<1>1. CASE BeginProbe(t)
  <2>1. ThreadOK'
    BY <1>1 DEF BeginProbe, ThreadOK, PCs
  <2> QED BY <1>1, <2>1 DEF BeginProbe
<1>2. CASE ProbeStale(t)
  BY <1>2, AdvanceType DEF ProbeStale
<1>3. CASE ProbeRecorded(t)
  <2>1. PICK h \in ProbeResults : Put(at[t], [row[at[t]] EXCEPT !.health = h])
    BY <1>3 DEF ProbeRecorded
  <2>2. [row[at[t]] EXCEPT !.health = h] \in Row
    BY <1>0, <1>3, <2>1, ConstantTypes DEF ProbeRecorded, StillProbed, StoreOK, Rows, Row
  <2>3. StoreOK'
    BY <1>0, <1>3, <2>1, <2>2, PutType DEF ProbeRecorded, StoreOK
  <2> QED BY <1>3, <2>3, AdvanceType DEF ProbeRecorded
<1>4. CASE ProbeFailed(t)
  <2> DEFINE r == [row[at[t]] EXCEPT !.health = "UNHEALTHY"]
             n == Bump(failures[at[t]])
             pol == Policy[Proc[at[t]]]
             a == IF pol.maxRetries > 0 /\ n >= pol.maxRetries THEN "fatal" ELSE "restart"
  <2>1. r \in Row
    BY <1>0, <1>4 DEF ProbeFailed, StillProbed, StoreOK, Rows, Row, Health
  <2>2. n \in 0..FailCap /\ a \in Afters
    BY <1>0, BumpType DEF MemOK, Afters
  <2>3. Put(at[t], r) /\ CallStop(t, r, a) /\ failures' = [failures EXCEPT ![at[t]] = n]
    BY <1>4 DEF ProbeFailed
  <2> HIDE DEF r, n, a
  <2>4. StoreOK'
    BY <1>0, <1>4, <2>1, <2>3, PutType DEF ProbeFailed, StoreOK
  <2>5. MemOK'
    BY <1>0, <1>4, <2>2, <2>3 DEF ProbeFailed, MemOK
  <2>6. ThreadOK'
    BY <2>1, <2>2, <2>3, CallStopType
  <2> QED BY <1>4, <2>4, <2>5, <2>6 DEF ProbeFailed
<1> QED BY <1>1, <1>2, <1>3, <1>4

\* signalStop and the shim's answer to it.
LEMMA StopType ==
  ASSUME TypeOK, NEW t \in Threads,
         \/ SignalAdoptRequired(t) \/ SignalIgnored(t) \/ SignalNobody(t) \/ SignalSend(t)
         \/ StopAnswered(t) \/ StopCancelled(t) \/ StopRefused(t) \/ StopFailed(t)
  PROVE  TypeOK'
<1> USE TypeGroups, TypeGroupsPrime, Unchanged
<1>0. /\ at[t] \in Instances /\ cur[t] \in Row /\ cur[t].observed \in Observed
      /\ shim[at[t]].code \in {"zero", "nonzero"}
      /\ NoPid \in PidOrNone
  BY DEF ThreadOK, HostOK, Row, Shim, PidOrNone
<1>1. CASE SignalAdoptRequired(t)
  BY <1>1, StopErrorType DEF SignalAdoptRequired
<1>2. CASE SignalIgnored(t)
  <2>1. row' \in Rows /\ MemOK' /\ ThreadOK'
    <3>1. CASE AfterStop(t, cur[t], FALSE)
      BY <1>0, <3>1, AfterStopType
    <3>2. CASE Advance(t) /\ UNCHANGED <<row, memVars>>
      BY <3>2, AdvanceType DEF StoreOK
    <3> QED BY <1>2, <3>1, <3>2 DEF SignalIgnored
  <2> QED BY <1>2, <2>1 DEF SignalIgnored, StoreOK
<1>3. CASE SignalNobody(t)
  <2>1. Stopped(cur[t]) \in Row
    BY <1>0, RowValueTypes
  <2>2. row' \in Rows /\ MemOK' /\ ThreadOK'
    BY <1>3, <2>1, AfterStopType DEF SignalNobody
  <2> QED BY <1>3, <2>2 DEF SignalNobody, StoreOK
<1>4. CASE SignalSend(t)
  <2> DEFINE r == IF Legal(cur[t].observed, "STOP")
                  THEN [cur[t] EXCEPT !.observed = ApplyObserved(@, "STOP", @)]
                  ELSE cur[t]
  <2>1. r \in Row
    BY <1>0, ApplyObservedType DEF Row
  <2>2. /\ row' = row \/ row' = [row EXCEPT ![at[t]] = r]
        /\ Goto(t, "stop", r)
    BY <1>4 DEF SignalSend
  <2> HIDE DEF r
  <2>3. StoreOK'
    BY <1>0, <1>4, <2>1, <2>2 DEF SignalSend, StoreOK, Rows
  <2>4. ThreadOK'
    BY <2>1, <2>2, GotoType DEF PCs
  <2>5. shim[at[t]].child \in Pids /\ HistOK'
    BY <1>4 DEF SignalSend, ShimAlive, pidAlive, HistOK
  <2> QED BY <1>4, <2>3, <2>4, <2>5 DEF SignalSend
<1>5. CASE StopAnswered(t)
  <2>1. PICK st \in ExitStatuses :
          /\ ShimStops(at[t], st)
          /\ AfterStop(t, StoppedByShim(cur[t], IF ShimAlive(at[t]) THEN st
                                                ELSE shim[at[t]].code), TRUE)
    BY <1>5 DEF StopAnswered
  <2>2. st \in {"zero", "nonzero"}
    BY ConstantTypes
  <2>3. StoppedByShim(cur[t], IF ShimAlive(at[t]) THEN st ELSE shim[at[t]].code) \in Row
    BY <1>0, <2>2, RowValueTypes
  <2>4. row' \in Rows /\ MemOK' /\ ThreadOK'
    BY <2>1, <2>3, AfterStopType
  <2>5. HostOK' /\ HistOK'
    BY <1>0, <1>5, <2>1, <2>2, ShimStopsType DEF StopAnswered
  <2> QED BY <1>5, <2>4, <2>5 DEF StopAnswered, StoreOK
<1>6. CASE StopCancelled(t)
  <2>1. PICK st \in ExitStatuses : ShimStops(at[t], st)
    BY <1>6 DEF StopCancelled
  <2>2. HostOK' /\ HistOK'
    BY <1>0, <1>6, <2>1, ShimStopsType, ConstantTypes DEF StopCancelled
  <2>3. MemOK'
    BY <1>0, <1>6, Zenon DEF StopCancelled, MemOK
  <2>4. ThreadOK' /\ BudgetOK'
    BY <1>6, ReturnType, FaultType DEF StopCancelled
  <2> QED BY <1>6, <2>2, <2>3, <2>4 DEF StopCancelled
<1>7. CASE StopRefused(t)
  <2>1. StoppedByShim(cur[t], "zero") \in Row
    BY <1>0, RowValueTypes
  <2>2. row' \in Rows /\ MemOK' /\ ThreadOK'
    BY <1>7, <2>1, AfterStopType DEF StopRefused
  <2> QED BY <1>7, <2>2 DEF StopRefused, StoreOK
<1>8. CASE StopFailed(t)
  BY <1>8, StopErrorType DEF StopFailed
<1> QED BY <1>1, <1>2, <1>3, <1>4, <1>5, <1>6, <1>7, <1>8

\* startInstance.
LEMMA StartType ==
  ASSUME TypeOK, NEW t \in Threads,
         \/ StartTakeOver(t) \/ StartLaunch(t) \/ StartSpawn(t) \/ StartCommit(t)
         \/ StartCommitFails(t) \/ StartFails(t) \/ StartAborted(t)
  PROVE  TypeOK'
<1> USE TypeGroups, TypeGroupsPrime, Unchanged
<1>0. /\ at[t] \in Instances /\ cur[t] \in Row
      /\ cur[t].observed \in Observed /\ cur[t].pid \in PidOrNone
      /\ shim[at[t]].child \in PidOrNone
  BY DEF ThreadOK, HostOK, Row, Shim
<1>1. CASE StartTakeOver(t)
  <2>1. TakenOver(cur[t], shim[at[t]].child) \in Row
    BY <1>0, RowValueTypes
  <2>2. row' \in Rows
    BY <1>0, <1>1, <2>1, PutType DEF StartTakeOver, StoreOK
  <2>3. StoreOK'
    BY <1>0, <1>1, <2>2 DEF StartTakeOver, StoreOK
  <2>4. shimChk' \in [Instances -> BOOLEAN]
    BY <1>0, <1>1, Zenon DEF StartTakeOver, MemOK
  <2>5. MemOK' /\ HistOK'
    BY <1>1, <2>4 DEF StartTakeOver, MemOK, HistOK
  <2> QED BY <1>1, <2>3, <2>5, AdvanceType DEF StartTakeOver
<1>2. CASE StartLaunch(t)
  <2>1. [NoShim EXCEPT !.sock = TRUE, !.up = TRUE] \in Shim
    BY DEF NoShim, Shim, PidOrNone
  <2>2. HostOK'
    BY <1>0, <1>2, <2>1 DEF StartLaunch, HostOK
  <2> QED BY <1>0, <1>2, <2>2, GotoType DEF StartLaunch, PCs
<1>3. CASE StartSpawn(t)
  <2>1. PICK p \in Pids :
          /\ live' = [live EXCEPT ![p] = at[t]]
          /\ shim' = [shim EXCEPT ![at[t]].child = p, ![at[t]].code = "zero"]
          /\ Goto(t, "spawned", [cur[t] EXCEPT !.pid = p, !.observed = "STARTING"])
    BY <1>3 DEF StartSpawn
  <2>2. [cur[t] EXCEPT !.pid = p, !.observed = "STARTING"] \in Row
    BY <1>0 DEF Row, PidOrNone, Observed
  <2>3. HostOK'
    <3>1. live' \in [Pids -> Instances \cup {NoInst}]
      BY <1>0, <2>1 DEF HostOK
    <3>2. shim' \in [Instances -> Shim]
      BY <1>0, <2>1 DEF HostOK, Shim, PidOrNone
    <3> QED BY <1>3, <3>1, <3>2 DEF StartSpawn, HostOK
  <2>4. ThreadOK'
    BY <2>1, <2>2, GotoType DEF PCs
  <2>5. MemOK'
    BY <1>0, <1>3, BumpType DEF StartSpawn, MemOK
  <2> QED BY <1>3, <2>3, <2>4, <2>5 DEF StartSpawn
<1>4. CASE StartCommit(t)
  <2> DEFINE x == [cur[t] EXCEPT !.exit = "none", !.boot = boot, !.health = "UNKNOWN",
                      !.observed = ApplyObserved(@, "START_OK", "RUNNING")]
  <2>0. /\ boot \in 0..MaxBoot /\ "none" \in ExitCodes /\ "UNKNOWN" \in Health
        /\ ApplyObserved(cur[t].observed, "START_OK", "RUNNING") \in Observed
    BY <1>0, ApplyObservedType, ConstantTypes DEF HostOK, ExitCodes, Health, Observed
  <2>1. x \in Row
    BY <1>0, <2>0 DEF Row
  <2>2. Put(at[t], x)
    BY <1>4 DEF StartCommit
  <2> HIDE DEF x
  <2>3. StoreOK'
    BY <1>0, <1>4, <2>1, <2>2, PutType DEF StartCommit, StoreOK
  <2>4. MemOK'
    BY <1>0, <1>4, Zenon DEF StartCommit, MemOK
  <2> QED BY <1>4, <2>3, <2>4, AdvanceType DEF StartCommit
<1>5. CASE StartCommitFails(t)
  <2>1. MemOK'
    BY <1>0, <1>5, Zenon DEF StartCommitFails, MemOK
  <2>2. HistOK'
    BY <1>5 DEF StartCommitFails, HistOK, pidAlive
  <2> QED BY <1>5, <2>1, <2>2, AdvanceType, FaultType DEF StartCommitFails
<1>6. CASE StartFails(t)
  <2> DEFINE x == [cur[t] EXCEPT !.observed = ApplyObserved("STARTING", "START_FAIL", "BACKOFF")]
  <2>1. x \in Row
    BY <1>0, ApplyObservedType DEF Row, Observed
  <2>2. Put(at[t], x)
    BY <1>6 DEF StartFails
  <2> HIDE DEF x
  <2>3. StoreOK'
    BY <1>0, <1>6, <2>1, <2>2, PutType DEF StartFails, StoreOK
  <2>4. MemOK'
    BY <1>0, <1>6, BumpType DEF StartFails, MemOK
  <2>5. BudgetOK'
    BY <1>6, FaultType DEF StartFails
  <2> QED BY <1>6, <2>3, <2>4, <2>5, AdvanceType DEF StartFails
<1>7. CASE StartAborted(t)
  <2>1. [cur[t] EXCEPT !.observed = "STARTING"] \in Row
    BY <1>0 DEF Row, Observed
  <2>2. StoreOK'
    BY <1>0, <1>7, <2>1, PutType DEF StartAborted, StoreOK
  <2>3. BudgetOK'
    BY <1>7, FaultType DEF StartAborted
  <2> QED BY <1>7, <2>2, <2>3, AdvanceType DEF StartAborted
<1> QED BY <1>1, <1>2, <1>3, <1>4, <1>5, <1>6, <1>7

\* Kill's own loop.
LEMMA KillType ==
  ASSUME TypeOK, NEW t \in Threads, KillNext(t) \/ KillPass(t)
  PROVE  TypeOK'
<1> USE TypeGroups, TypeGroupsPrime, Unchanged
<1>1. CASE KillNext(t)
  <2>1. PICK i \in todo[t] :
          /\ row[i] # NoRow
          /\ todo' = [todo EXCEPT ![t] = @ \ {i}]
          /\ at' = [at EXCEPT ![t] = i]
          /\ cur' = [cur EXCEPT ![t] = row[i]]
          /\ pc' = [pc EXCEPT ![t] = "signal"]
    BY <1>1 DEF KillNext
  <2>2. i \in Instances /\ row[i] \in Row
    BY <2>1 DEF ThreadOK, StoreOK, Rows
  <2>3. ThreadOK'
    BY <1>1, <2>1, <2>2 DEF ThreadOK, KillNext, PCs
  <2> QED BY <1>1, <2>3 DEF KillNext
<1>2. CASE KillPass(t)
  <2>1. job[t] \in Jobs /\ job[t].proc \in Procs
    BY DEF ThreadOK, Jobs
  <2>2. WithDesired(job[t].proc, "STOPPED") \in Rows
    BY <2>1, WithDesiredType DEF Desired
  <2>3. StoreOK'
    BY <1>2, <2>2 DEF KillPass, StoreOK
  <2>4. ThreadOK'
    BY <1>2, <2>1, <2>2, EnterPassType, ReturnType DEF KillPass
  <2> QED BY <1>2, <2>3, <2>4 DEF KillPass
<1> QED BY <1>1, <1>2

LEMMA RowsOfProc ==
  ASSUME NEW p PROVE RowsOf(p) \in SUBSET Instances
BY DEF RowsOf

\* Operator requests.
LEMMA OperatorType ==
  ASSUME TypeOK, OperatorStep PROVE TypeOK'
<1> USE TypeGroups, TypeGroupsPrime, Unchanged
<1>1. ASSUME NEW p \in Procs, NEW n \in 1..MaxInst, ApplySpec(p, n) PROVE TypeOK'
  <2>1. n \in 0..MaxInst /\ n \in Nat
    BY ConstantTypes
  <2>2. EnsureInstances(p, n, row) \in Rows
    BY <2>1, EnsureInstancesType DEF StoreOK
  <2>3. StoreOK'
    BY <1>1, <2>1, <2>2 DEF ApplySpec, StoreOK
  <2>4. MemOK'
    BY <1>1, ForgetType DEF ApplySpec
  <2> QED BY <1>1, <2>3, <2>4, RequestType DEF ApplySpec
<1>2. ASSUME NEW p \in Procs, DeleteSpec(p) PROVE TypeOK'
  <2>1. StoreOK'
    BY <1>2, ConstantTypes DEF DeleteSpec, StoreOK, Rows
  <2>2. MemOK'
    BY <1>2, ForgetType DEF DeleteSpec
  <2> QED BY <1>2, <2>1, <2>2, RequestType DEF DeleteSpec
<1>3. ASSUME NEW p \in Procs, NEW d \in Desired, SetDesired(p, d) PROVE TypeOK'
  <2>1. StoreOK'
    BY <1>3, WithDesiredType DEF SetDesired, StoreOK
  <2> QED BY <1>3, <2>1, RequestType DEF SetDesired
<1>4. ASSUME NEW p \in Procs, ResetFailure(p) PROVE TypeOK'
  <2>1. \A r \in Row : [r EXCEPT !.observed = "STOPPED"] \in Row
    BY DEF Row, Observed
  <2>2. StoreOK'
    BY <1>4, <2>1 DEF ResetFailure, StoreOK, Rows, RowsOf
  <2>3. failures' \in [Instances -> 0..FailCap] /\ retries' \in [Instances -> 0..FailCap]
    BY <1>4, ConstantTypes DEF ResetFailure, MemOK
  <2>4. nextTry' \in [Instances -> BOOLEAN]
    BY <1>4, Zenon DEF ResetFailure, MemOK
  <2>5. MemOK'
    BY <1>4, <2>3, <2>4 DEF ResetFailure, MemOK
  <2> QED BY <1>4, <2>2, <2>5, RequestType DEF ResetFailure
<1>5. ASSUME NEW p \in Procs, NEW t \in Threads, BeginKill(t, p) PROVE TypeOK'
  <2>1. [kind |-> "kill", proc |-> p] \in Jobs
    BY DEF Jobs
  <2>2. ThreadOK'
    BY <1>5, <2>1, IdleValues, RowsOfProc DEF BeginKill, SetLocals, ThreadOK, PCs, Afters
  <2> QED BY <1>5, <2>2, RequestType DEF BeginKill
<1>6. ASSUME NEW p \in Procs, NEW t \in Threads, BeginRestart(t, p) PROVE TypeOK'
  <2>1. [kind |-> "restart", proc |-> p] \in Jobs
    BY DEF Jobs
  <2>2. WithDesired(p, "STOPPED") \in Rows
    BY WithDesiredType DEF Desired
  <2>3. StoreOK'
    BY <1>6, <2>2 DEF BeginRestart, StoreOK
  <2>4. ThreadOK'
    BY <1>6, <2>1, <2>2, EnterPassType DEF BeginRestart
  <2> QED BY <1>6, <2>3, <2>4, RequestType DEF BeginRestart
<1>7. ASSUME NEW i \in Instances, NEW p \in Pids, Adopt(i, p) PROVE TypeOK'
  <2> DEFINE x == [row[i] EXCEPT !.pid = p, !.observed = "RUNNING",
                                 !.health = "UNKNOWN", !.boot = boot]
  <2>0. /\ row[i] \in Row /\ boot \in 0..MaxBoot
        /\ p \in PidOrNone /\ "RUNNING" \in Observed /\ "UNKNOWN" \in Health
    BY <1>7, ConstantTypes DEF Adopt, StoreOK, Rows, HostOK, PidOrNone, Observed, Health
  <2>1. x \in Row
    BY <2>0 DEF Row
  <2>2. Put(i, x)
    BY <1>7 DEF Adopt
  <2> HIDE DEF x
  <2>3. row' \in Rows
    BY <2>1, <2>2, PutType
  <2>4. StoreOK'
    BY <1>7, <2>0, <2>3 DEF Adopt, StoreOK
  <2> QED BY <1>7, <2>4, RequestType DEF Adopt
<1> QED BY <1>1, <1>2, <1>3, <1>4, <1>5, <1>6, <1>7 DEF OperatorStep

\* The agent's memory and threads after it is gone.
LEMMA AgentGoneType ==
  ASSUME MemOK, ThreadOK, AgentGone
  PROVE  MemOK' /\ ThreadOK' /\ agentUp' \in BOOLEAN
<1>1. MemOK'
  BY ForgetType DEF AgentGone
<1>2. ThreadOK'
  BY IdleValues DEF AgentGone, ThreadOK, PCs, Afters
<1> QED BY <1>1, <1>2 DEF AgentGone

\* The host and its processes.
LEMMA HostType ==
  ASSUME TypeOK, HostStep PROVE TypeOK'
<1> USE TypeGroups, TypeGroupsPrime, Unchanged
<1>1. CASE AgentCrash
  <2>1. HostOK' /\ HistOK'
    <3>1. ASSUME NEW t \in Threads, NEW st \in ExitStatuses, CanStop(t), ShimStops(at[t], st)
          PROVE  HostOK' /\ HistOK'
      BY <1>1, <3>1, ShimStopsType, ConstantTypes DEF AgentCrash, ThreadOK
    <3>2. CASE /\ UNCHANGED <<live, shim, lost>>
               /\ unrec' = unrec \cup {p \in Pids : pidAlive(p) /\ \E t \in Threads :
                                          pc[t] = "spawned" /\ cur[t].pid = p}
      BY <1>1, <3>2 DEF AgentCrash, HostOK, HistOK
    <3> QED BY <1>1, <3>1, <3>2 DEF AgentCrash
  <2> QED BY <1>1, <2>1, AgentGoneType, FaultType DEF AgentCrash
<1>2. CASE HostReboot
  <2>1. boot' \in 1..MaxBoot
    BY <1>2, ConstantTypes DEF HostReboot, HostOK
  <2>2. live' \in [Pids -> Instances \cup {NoInst}]
    BY <1>2 DEF HostReboot
  <2>3. shim' \in [Instances -> Shim]
    BY <1>2 DEF HostReboot, HostOK, NoShim, Shim, PidOrNone
  <2>4. HostOK' /\ HistOK'
    BY <1>2, <2>1, <2>2, <2>3 DEF HostReboot, HostOK, HistOK
  <2> QED BY <1>2, <2>4, AgentGoneType DEF HostReboot
<1>3. ASSUME NEW p \in Pids, NEW st \in ExitStatuses, ChildExit(p, st) PROVE TypeOK'
  <2>1. live[p] \in Instances /\ st \in {"zero", "nonzero"}
    BY <1>3, ConstantTypes DEF ChildExit, HostOK
  <2>2. live' \in [Pids -> Instances \cup {NoInst}]
    BY <1>3 DEF ChildExit, HostOK
  <2>3. shim' \in [Instances -> Shim]
    BY <1>3, <2>1 DEF ChildExit, HostOK, Shim
  <2>4. HostOK' /\ HistOK'
    BY <1>3, <2>2, <2>3 DEF ChildExit, HostOK, HistOK
  <2> QED BY <1>3, <2>4, FaultType DEF ChildExit
<1>4. ASSUME NEW i \in Instances, FailureExpires(i) PROVE TypeOK'
  <2>1. MemOK'
    BY <1>4, ConstantTypes DEF FailureExpires, MemOK
  <2> QED BY <1>4, <2>1 DEF FailureExpires
<1>5. ASSUME NEW i \in Instances, NEW k \in BOOLEAN, ShimDies(i, k) PROVE TypeOK'
  <2>1. [NoShim EXCEPT !.sock = k] \in Shim
    BY DEF NoShim, Shim, PidOrNone
  <2>2. HostOK'
    BY <1>5, <2>1 DEF ShimDies, HostOK
  <2>3. HistOK'
    BY <1>5 DEF ShimDies, HistOK, ShimAlive, pidAlive
  <2> QED BY <1>5, <2>2, <2>3, FaultType DEF ShimDies
<1> QED BY <1>1, <1>2, <1>3, <1>4, <1>5 DEF HostStep

LEMMA RecoveredType ==
  ASSUME HostOK, StoreOK, NEW i \in Instances, NEW r \in Row
  PROVE  Recovered(i, r) \in Row
<1> DEFINE x == [r EXCEPT !.pid = NoPid,
                          !.desired = IF hostRebooted(r.boot) /\ ~Policy[Proc[i]].autostart
                                      THEN "STOPPED" ELSE @,
                          !.observed = IF @ = "FATAL" THEN @ ELSE "STOPPED",
                          !.health = "UNKNOWN"]
<1>1. x \in Row
  BY DEF Row, PidOrNone, Desired, Observed, Health
<1>2. shim[i].child \in PidOrNone /\ OrphanPid(i, r) \in PidOrNone
  BY DEF HostOK, Shim, StoreOK, OrphanPid, Row, PidOrNone
<1>3. TakenOver(r, shim[i].child) \in Row /\ Orphaned(r, OrphanPid(i, r)) \in Row
  BY <1>2, RowValueTypes
<1> QED BY <1>1, <1>3 DEF Recovered

\* Agent start.
LEMMA RecoverType ==
  ASSUME TypeOK, Recover PROVE TypeOK'
<1> USE TypeGroups, TypeGroupsPrime, Unchanged
<1> DEFINE ens(i) == EnsureInstances(Proc[i], spec[Proc[i]], row)[i]
           visited == {i \in Instances : spec[Proc[i]] > 0 /\ ens(i) # NoRow}
<1>1. \A i \in Instances : ens(i) \in Row \cup {NoRow}
  <2> TAKE i \in Instances
  <2>1. Proc[i] \in Procs /\ spec[Proc[i]] \in Nat
    BY ConstantTypes DEF StoreOK
  <2>2. EnsureInstances(Proc[i], spec[Proc[i]], row) \in Rows
    BY <2>1, EnsureInstancesType DEF StoreOK
  <2> QED BY <2>2 DEF Rows
<1>2. /\ agentUp' = TRUE
      /\ row' = [i \in Instances |-> IF i \in visited THEN Recovered(i, ens(i))
                                     ELSE IF spec[Proc[i]] > 0 THEN NoRow ELSE row[i]]
      /\ rt' = [i \in Instances |->
                  IF i \in visited /\ Recovered(i, ens(i)).pid # NoPid
                  THEN Recovered(i, ens(i)).pid ELSE rt[i]]
      /\ spec' = spec /\ unrec' \subseteq unrec
      /\ UNCHANGED <<hostVars, memVars, threadVars, ops, faults, lost>>
  BY DEF Recover
<1> HIDE DEF ens
<1>3. \A i \in visited : Recovered(i, ens(i)) \in Row
  BY <1>1, RecoveredType
<1>4. \A i \in visited : Recovered(i, ens(i)).pid \in PidOrNone
  BY <1>3 DEF Row
<1> HIDE DEF visited
<1>5. row' \in Rows
  BY <1>2, <1>3 DEF StoreOK, Rows
<1>6. StoreOK'
  BY <1>2, <1>4, <1>5 DEF StoreOK
<1>7. HistOK'
  BY <1>2 DEF HistOK
<1> QED BY <1>2, <1>6, <1>7

-----------------------------------------------------------------------------
LEMMA InitType == Init => TypeOK
<1> SUFFICES ASSUME Init PROVE TypeOK
  OBVIOUS
<1>1. \A i \in Instances : NewRow(InitDesired) \in Row /\ NoShim \in Shim
  BY ConstantTypes, NewRowType DEF NoShim, Shim, PidOrNone
<1>2. HostOK
  BY <1>1, ConstantTypes DEF Init, HostOK
<1>3. StoreOK
  BY <1>1, ConstantTypes DEF Init, StoreOK, Rows, PidOrNone
<1>4. MemOK
  BY ConstantTypes DEF Init, MemOK
<1>5. ThreadOK
  BY IdleValues DEF Init, ThreadOK, PCs, Afters
<1> QED BY <1>2, <1>3, <1>4, <1>5, TypeGroups, ConstantTypes DEF Init, BudgetOK, HistOK

LEMMA NextType == TypeOK /\ [Next]_vars => TypeOK'
<1> SUFFICES ASSUME TypeOK, [Next]_vars PROVE TypeOK'
  OBVIOUS
<1>1. ASSUME NEW t \in Threads, BeginReconcile(t) \/ PassStep(t) PROVE TypeOK'
  BY <1>1, PassControlType, RefreshType, DecideType, ProbeType, StopType, StartType,
     KillType DEF PassStep
<1>2. CASE UNCHANGED vars
  BY <1>2 DEF vars, hostVars, storeVars, memVars, threadVars, histVars, TypeOK
<1> QED BY <1>1, <1>2, RecoverType, OperatorType, HostType DEF Next

\* Every reachable state of the process plane is well typed: whatever the
\* interleaving of passes, requests and faults, each row, runtime file, shim
\* record and thread local is a value the code can hold.
THEOREM TypeCorrect == Spec => []TypeOK
BY InitType, NextType, PTL DEF Spec

-----------------------------------------------------------------------------
(***************************************************************************)
(* OneCopyUnlessShimLost.  ChildrenBehindShims implies it and, with TypeOK,*)
(* is inductive: only a launch, a spawn, a stop, an exit, a shim's death   *)
(* and a reboot touch live, shim or lost.                                  *)
(***************************************************************************)
ChildVars == <<live, shim, lost>>

LEMMA ChildrenUnchanged ==
  ASSUME ChildrenBehindShims, UNCHANGED ChildVars PROVE ChildrenBehindShims'
BY DEF ChildrenBehindShims, ChildVars

\* What holds of shims and live children by their types.
LEMMA ChildTypes ==
  ASSUME TypeOK
  PROVE  /\ live \in [Pids -> Instances \cup {NoInst}]
         /\ shim \in [Instances -> Shim]
         /\ \A t \in Threads : at[t] \in Instances
         /\ \A p \in Pids : live[p] # NoInst => live[p] \in Instances
BY DEF TypeOK

\* A child dies and is forgotten, and its shim keeps serving.
LEMMA ChildDies ==
  ASSUME TypeOK, ChildrenBehindShims, NEW c \in Pids,
         live' = [live EXCEPT ![c] = NoInst], lost' = lost \ {c},
         \A i \in Instances : /\ shim'[i].up = shim[i].up /\ shim'[i].sock = shim[i].sock
                              /\ shim'[i].child = shim[i].child
  PROVE  ChildrenBehindShims'
<1>1. \A i \in Instances : shim'[i].up => shim'[i].sock
  BY Zenon DEF ChildrenBehindShims
<1>2. ASSUME NEW q \in Pids, live'[q] # NoInst
      PROVE  q \in lost' \/ (shim'[live'[q]].up /\ shim'[live'[q]].child = q)
  <2>1. q # c /\ live'[q] = live[q] /\ live[q] \in Instances
    BY <1>2, ChildTypes
  <2>2. q \in lost \/ (shim[live[q]].up /\ shim[live[q]].child = q)
    BY <1>2, <2>1, Zenon DEF ChildrenBehindShims
  <2>3. q \in lost => q \in lost'
    BY <2>1
  <2> QED BY <2>1, <2>2, <2>3, Zenon
<1> QED BY <1>1, <1>2, Zenon DEF ChildrenBehindShims

LEMMA ShimStopsChildren ==
  ASSUME TypeOK, ChildrenBehindShims, NEW i \in Instances, NEW st, ShimStops(i, st)
  PROVE  ChildrenBehindShims'
<1>1. CASE ShimAlive(i)
  <2>1. shim[i].child \in Pids
    BY <1>1 DEF ShimAlive, pidAlive
  <2>2. \A j \in Instances : /\ shim'[j].up = shim[j].up /\ shim'[j].sock = shim[j].sock
                             /\ shim'[j].child = shim[j].child
    BY <1>1, ChildTypes DEF ShimStops, Shim
  <2> QED BY <1>1, <2>1, <2>2, ChildDies DEF ShimStops
<1>2. CASE ~ShimAlive(i)
  BY <1>2, ChildrenUnchanged DEF ShimStops, ChildVars
<1> QED BY <1>1, <1>2

LEMMA PassStepChildren ==
  ASSUME TypeOK, ChildrenBehindShims, NEW t \in Threads, BeginReconcile(t) \/ PassStep(t)
  PROVE  ChildrenBehindShims'
<1>0. at[t] \in Instances
  BY DEF TypeOK
<1>1. CASE StopAnswered(t)
  BY <1>0, <1>1, ShimStopsChildren DEF StopAnswered
<1>2. CASE StopCancelled(t)
  BY <1>0, <1>2, ShimStopsChildren DEF StopCancelled
<1>3. CASE StartLaunch(t)
  <2>1. /\ live' = live /\ lost' = lost /\ ~(shim[at[t]].sock /\ shim[at[t]].up)
        /\ \A i \in Instances \ {at[t]} : shim'[i] = shim[i]
        /\ shim'[at[t]].sock
    BY <1>0, <1>3, ChildTypes DEF StartLaunch, Reconnects, NoShim, histVars
  <2>2. ~shim[at[t]].up
    BY <1>0, <2>1, Zenon DEF ChildrenBehindShims
  <2>3. \A i \in Instances : shim'[i].up => shim'[i].sock
    <3> TAKE i \in Instances
    <3>1. CASE i = at[t]
      BY <2>1, <3>1, Zenon
    <3>2. CASE i # at[t]
      BY <2>1, <3>2, Zenon DEF ChildrenBehindShims
    <3> QED BY <3>1, <3>2
  <2>4. ASSUME NEW p \in Pids, live'[p] # NoInst
        PROVE  p \in lost' \/ (shim'[live'[p]].up /\ shim'[live'[p]].child = p)
    <3>1. live'[p] = live[p] /\ live[p] \in Instances
      BY <2>1, <2>4, ChildTypes
    <3>2. p \in lost \/ (shim[live[p]].up /\ shim[live[p]].child = p)
      BY <2>4, <3>1, Zenon DEF ChildrenBehindShims
    <3>3. CASE live[p] = at[t]
      <4>1. p \in lost
        BY <2>2, <3>2, <3>3, Zenon
      <4>2. p \in lost'
        BY <2>1, <4>1
      <4> QED BY <4>2, Zenon
    <3>4. CASE live[p] # at[t]
      BY <2>1, <3>1, <3>2, <3>4, Zenon
    <3> QED BY <3>3, <3>4
  <2> QED BY <2>3, <2>4, Zenon DEF ChildrenBehindShims
<1>4. CASE StartSpawn(t)
  <2>1. PICK p \in Pids :
          /\ live[p] = NoInst
          /\ live' = [live EXCEPT ![p] = at[t]]
          /\ shim' = [shim EXCEPT ![at[t]].child = p, ![at[t]].code = "zero"]
    BY <1>4 DEF StartSpawn
  <2>2. lost' = lost /\ shim[at[t]].up /\ ~ShimAlive(at[t])
    BY <1>4 DEF StartSpawn, Connected, Reconnects, histVars
  <2>3. /\ \A i \in Instances : shim'[i].up = shim[i].up /\ shim'[i].sock = shim[i].sock
        /\ \A i \in Instances \ {at[t]} : shim'[i] = shim[i]
        /\ shim'[at[t]].child = p
    BY <1>0, <2>1 DEF TypeOK, Shim
  <2>4. ASSUME NEW q \in Pids, live'[q] # NoInst
        PROVE  q \in lost' \/ (shim'[live'[q]].up /\ shim'[live'[q]].child = q)
    <3>1. CASE q = p
      BY <1>0, <2>1, <2>2, <2>3, <3>1 DEF TypeOK
    <3>2. CASE q # p
      <4>1. live'[q] = live[q] /\ live[q] \in Instances
        BY <2>1, <2>4, <3>2 DEF TypeOK
      <4>2. live[q] = at[t] => q \in lost
        BY <2>2, <4>1, ConstantValues DEF ChildrenBehindShims, ShimAlive, pidAlive
      <4>3. q \in lost \/ (shim[live[q]].up /\ shim[live[q]].child = q)
        BY <2>4, <4>1, Zenon DEF ChildrenBehindShims
      <4>4. CASE live[q] = at[t]
        <5>1. q \in lost'
          BY <2>2, <4>2, <4>4
        <5> QED BY <5>1, Zenon
      <4>5. CASE live[q] # at[t]
        <5>1. shim'[live[q]] = shim[live[q]]
          BY <2>3, <4>1, <4>5
        <5> QED BY <2>2, <4>1, <4>3, <5>1, Zenon
      <4> QED BY <4>4, <4>5
    <3> QED BY <3>1, <3>2
  <2>5. \A i \in Instances : shim'[i].up => shim'[i].sock
    BY <2>3, Zenon DEF ChildrenBehindShims
  <2> QED BY <2>4, <2>5, Zenon DEF ChildrenBehindShims
<1>5. CASE \/ BeginReconcile(t) \/ PickNext(t) \/ EndPass(t)
           \/ RefreshFast(t) \/ RefreshNoSocket(t) \/ RefreshUnreachable(t)
           \/ RefreshAlive(t) \/ RefreshDead(t)
  BY <1>5, ChildrenUnchanged
     DEF ChildVars, hostVars, histVars, BeginReconcile, PickNext, EndPass, RefreshFast,
         RefreshNoSocket, RefreshUnreachable, RefreshAlive, RefreshDead
<1>6. CASE \/ DecideNothing(t) \/ DecideStop(t) \/ DecideStart(t) \/ DecideFatal(t)
           \/ DecideBackoff(t) \/ DecideRetry(t) \/ DecideReset(t)
           \/ BeginProbe(t) \/ ProbeStale(t) \/ ProbeRecorded(t) \/ ProbeFailed(t)
  BY <1>6, ChildrenUnchanged
     DEF ChildVars, hostVars, histVars, DecideNothing, DecideStop, DecideStart, DecideFatal,
         DecideBackoff, DecideRetry, DecideReset, BeginProbe, ProbeStale, ProbeRecorded,
         ProbeFailed
<1>7. CASE \/ SignalAdoptRequired(t) \/ SignalIgnored(t) \/ SignalNobody(t) \/ SignalSend(t)
           \/ StopRefused(t) \/ StopFailed(t)
           \/ StartTakeOver(t) \/ StartCommit(t) \/ StartCommitFails(t) \/ StartFails(t)
           \/ StartAborted(t) \/ KillNext(t) \/ KillPass(t)
  BY <1>7, ChildrenUnchanged
     DEF ChildVars, hostVars, histVars, SignalAdoptRequired, SignalIgnored, SignalNobody,
         SignalSend, StopRefused, StopFailed, StartTakeOver, StartCommit, StartCommitFails,
         StartFails, StartAborted, KillNext, KillPass
<1> QED BY <1>1, <1>2, <1>3, <1>4, <1>5, <1>6, <1>7 DEF PassStep

LEMMA HostStepChildren ==
  ASSUME TypeOK, ChildrenBehindShims, HostStep PROVE ChildrenBehindShims'
<1>1. CASE AgentCrash
  <2>1. ASSUME NEW t \in Threads, NEW st, ShimStops(at[t], st) PROVE ChildrenBehindShims'
    BY <2>1, ShimStopsChildren DEF TypeOK
  <2> QED BY <1>1, <2>1, ChildrenUnchanged DEF AgentCrash, ChildVars
<1>2. CASE HostReboot
  BY <1>2 DEF HostReboot, ChildrenBehindShims, NoShim, TypeOK, Shim
<1>3. ASSUME NEW p \in Pids, NEW st, ChildExit(p, st) PROVE ChildrenBehindShims'
  <2>1. /\ live' = [live EXCEPT ![p] = NoInst]
        /\ lost' = lost \ {p}
        /\ \A i \in Instances : /\ shim'[i].up = shim[i].up /\ shim'[i].sock = shim[i].sock
                                /\ shim'[i].child = shim[i].child
    BY <1>3 DEF ChildExit, TypeOK, Shim
  <2> QED BY <2>1, ChildDies
<1>4. ASSUME NEW i \in Instances, FailureExpires(i) PROVE ChildrenBehindShims'
  BY <1>4, ChildrenUnchanged DEF FailureExpires, ChildVars, hostVars, histVars
<1>5. ASSUME NEW i \in Instances, NEW k \in BOOLEAN, ShimDies(i, k) PROVE ChildrenBehindShims'
  <2>1. /\ shim' = [shim EXCEPT ![i] = [NoShim EXCEPT !.sock = k]]
        /\ live' = live
        /\ lost' = IF ShimAlive(i) THEN lost \cup {shim[i].child} ELSE lost
    BY <1>5 DEF ShimDies
  <2>2. \A p \in Pids : live[p] = i => p \in lost'
    BY <2>1, ConstantValues DEF ChildrenBehindShims, ShimAlive, pidAlive
  <2>3. ~shim'[i].up /\ \A j \in Instances \ {i} : shim'[j] = shim[j]
    BY <2>1, ChildTypes DEF NoShim
  <2>4. \A j \in Instances : shim'[j].up => shim'[j].sock
    <3> TAKE j \in Instances
    <3>1. CASE j = i
      BY <2>3, <3>1, Zenon
    <3>2. CASE j # i
      BY <2>3, <3>2, Zenon DEF ChildrenBehindShims
    <3> QED BY <3>1, <3>2
  <2>5. ASSUME NEW p \in Pids, live'[p] # NoInst
        PROVE  p \in lost' \/ (shim'[live'[p]].up /\ shim'[live'[p]].child = p)
    <3>1. live'[p] = live[p] /\ live[p] \in Instances /\ lost \subseteq lost'
      BY <2>1, <2>5, ChildTypes
    <3>2. p \in lost \/ (shim[live[p]].up /\ shim[live[p]].child = p)
      BY <2>5, <3>1, Zenon DEF ChildrenBehindShims
    <3>3. CASE live[p] = i
      <4>1. p \in lost'
        BY <2>2, <3>3
      <4> QED BY <4>1, Zenon
    <3>4. CASE live[p] # i
      <4>1. shim'[live[p]] = shim[live[p]]
        BY <2>3, <3>1, <3>4
      <4>2. p \in lost => p \in lost'
        BY <3>1
      <4> QED BY <3>1, <3>2, <4>1, <4>2, Zenon
    <3> QED BY <3>3, <3>4
  <2> QED BY <2>4, <2>5, Zenon DEF ChildrenBehindShims
<1> QED BY <1>1, <1>2, <1>3, <1>4, <1>5 DEF HostStep

LEMMA NextChildren ==
  TypeOK /\ ChildrenBehindShims /\ [Next]_vars => ChildrenBehindShims'
<1> SUFFICES ASSUME TypeOK, ChildrenBehindShims, [Next]_vars PROVE ChildrenBehindShims'
  OBVIOUS
<1>1. CASE Recover
  BY <1>1, ChildrenUnchanged DEF Recover, ChildVars, hostVars
<1>2. CASE OperatorStep
  BY <1>2, ChildrenUnchanged
     DEF OperatorStep, ApplySpec, DeleteSpec, SetDesired, ResetFailure, BeginKill, BeginRestart,
         Adopt, ChildVars, hostVars, histVars
<1>3. CASE UNCHANGED vars
  BY <1>3, ChildrenUnchanged DEF vars, ChildVars, hostVars, histVars
<1> QED BY <1>1, <1>2, <1>3, PassStepChildren, HostStepChildren DEF Next

\* Every live child is behind the serving shim of its instance unless that
\* shim died under it, whatever passes, requests, crashes and reboots do:
\* startInstance never replaces a shim that serves.
THEOREM ChildrenStayBehindShims == Spec => []ChildrenBehindShims
<1>1. Init => ChildrenBehindShims
  BY DEF Init, ChildrenBehindShims, NoShim
<1> QED BY <1>1, TypeCorrect, NextChildren, PTL DEF Spec

\* No instance has two live children unless a shim died and left one behind,
\* for any number of processes, instances, threads and faults.
THEOREM OneCopy == Spec => []OneCopyUnlessShimLost
<1>1. ChildrenBehindShims => OneCopyUnlessShimLost
  BY Zenon DEF OneCopyUnlessShimLost, ChildrenBehindShims
<1> QED BY <1>1, ChildrenStayBehindShims, PTL

-----------------------------------------------------------------------------
(***************************************************************************)
(* NotRunningIsHonest.  Exposed(i): the child behind the shim of i is one  *)
(* its row has to tell of.  The row does, unless a thread is about to      *)
(* write it; the rest says what each thread knows between its steps: that  *)
(* it holds the mutex, and what refresh and signalStop have left it with.  *)
(***************************************************************************)
Exposed(i) ==
  Behind(i) /\ shim[i].child \notin unrec /\ ~Policy[Proc[i]].badSignal

Vouched(i) ==
  row[i] # NoRow /\ row[i].observed \in {"RUNNING", "STOPPING"} /\ sameBoot(row[i].boot)

Unlocked == {"idle", "probe"}

ThreadHonest(t) ==
  /\ ~agentUp => pc[t] = "idle"
  /\ pc[t] \notin Unlocked => mu = t
  /\ pc[t] = "decide" /\ Exposed(at[t]) => cur[t].observed = "RUNNING"
  /\ pc[t] \in {"start", "launched"} => ~Exposed(at[t])
  /\ pc[t] = "spawned" /\ shim[at[t]].up => shim[at[t]].child = cur[t].pid

RowHonest(i) ==
  Exposed(i) => Vouched(i) \/ \E t \in Threads : pc[t] = "spawned" /\ at[t] = i

HonestInv ==
  (\A t \in Threads : ThreadHonest(t)) /\ \A i \in Instances : RowHonest(i)

\* A thread's step moves that thread only, which holds the mutex where it stands.
LEMMA PassMoves ==
  ASSUME TypeOK, HonestInv, NEW t \in Threads, BeginReconcile(t) \/ PassStep(t)
  PROVE  /\ agentUp /\ agentUp'
         /\ pc'[t] \notin Unlocked => mu' = t
         /\ \A u \in Threads \ {t} : pc[u] \in Unlocked /\ pc'[u] = pc[u]
<1>0. /\ pc \in [Threads -> PCs] /\ NoThread \notin Threads
      /\ \A u \in Threads : pc[u] \notin Unlocked => mu = u
  BY ConstantValues DEF TypeOK, HonestInv, ThreadHonest
<1> DEFINE Moved == \/ \E l \in {"idle", "probe"} : pc' = [pc EXCEPT ![t] = l]
                    \/ \E l : pc' = [pc EXCEPT ![t] = l] /\ mu' = t
                    \/ \E l : pc' = [pc EXCEPT ![t] = l] /\ mu' = mu /\ mu = t
           Entitled == mu = NoThread \/ mu = t
<1>1. ASSUME NEW r, Goto(t, "decide", r) \/ Goto(t, "start", r) \/ Goto(t, "stop", r) \/ Goto(t, "kill", r)
                    \/ Goto(t, "launched", r) \/ Goto(t, "spawned", r), mu = t
      PROVE  Moved
  BY <1>1 DEF Goto
<1>2. ASSUME Advance(t) \/ Return(t) PROVE Moved
  BY <1>2 DEF Advance, Return
<1>3. ASSUME NEW r, NEW asked, AfterStop(t, r, asked), mu = t PROVE Moved
  BY <1>1, <1>2, <1>3 DEF AfterStop
<1>4. ASSUME NEW r, NEW a, CallStop(t, r, a) PROVE Moved
  BY <1>4 DEF CallStop
<1>5. ASSUME StopError(t) PROVE Moved
  BY <1>2, <1>5 DEF StopError
<1>6. CASE BeginReconcile(t) \/ PickNext(t) \/ EndPass(t) \/ KillNext(t) \/ KillPass(t)
  <2>1. agentUp /\ agentUp' = agentUp /\ Entitled
    BY <1>0, <1>6 DEF BeginReconcile, PickNext, EndPass, KillNext, KillPass, Running, Unlocked
  <2>2. Moved
    BY <1>0, <1>2, <1>6
       DEF BeginReconcile, PickNext, EndPass, KillNext, KillPass, Running, Unlocked, EnterPass
  <2> QED BY <1>0, <2>1, <2>2 DEF Unlocked
<1>7. CASE \/ RefreshFast(t) \/ RefreshNoSocket(t) \/ RefreshUnreachable(t)
           \/ RefreshAlive(t) \/ RefreshDead(t)
  <2>1. agentUp /\ agentUp' = agentUp /\ mu = t
    BY <1>0, <1>7 DEF RefreshFast, RefreshNoSocket, RefreshUnreachable, RefreshAlive, RefreshDead,
                      Running, Unlocked
  <2>2. \E r : Goto(t, "decide", r)
    BY <1>7 DEF RefreshFast, RefreshNoSocket, RefreshUnreachable, RefreshAlive, RefreshDead,
                NoShimStatus, HandleExit, FoundOrphan, Looked
  <2>3. Moved
    BY <1>1, <2>1, <2>2
  <2> QED BY <1>0, <2>1, <2>3 DEF Unlocked
<1>8. CASE \/ DecideNothing(t) \/ DecideStop(t) \/ DecideStart(t) \/ DecideFatal(t)
           \/ DecideBackoff(t) \/ DecideRetry(t) \/ DecideReset(t) \/ BeginProbe(t)
  <2>1. agentUp /\ agentUp' = agentUp /\ mu = t
    BY <1>0, <1>8 DEF DecideNothing, DecideStop, DecideStart, DecideFatal, DecideBackoff, DecideRetry,
                      DecideReset, BeginProbe, Deciding, Running, Unlocked
  <2>2. Moved
    BY <1>1, <1>2, <1>4, <1>8, <2>1
       DEF DecideNothing, DecideStop, DecideStart, DecideFatal, DecideBackoff, DecideRetry,
           DecideReset, BeginProbe
  <2> QED BY <1>0, <2>1, <2>2 DEF Unlocked
<1>9. CASE ProbeStale(t) \/ ProbeRecorded(t) \/ ProbeFailed(t)
  <2>1. agentUp /\ agentUp' = agentUp /\ Entitled
    BY <1>9 DEF ProbeStale, ProbeRecorded, ProbeFailed, Running
  <2>2. Moved
    BY <1>2, <1>4, <1>9 DEF ProbeStale, ProbeRecorded, ProbeFailed
  <2> QED BY <1>0, <2>1, <2>2 DEF Unlocked
<1>10. CASE \/ SignalAdoptRequired(t) \/ SignalIgnored(t) \/ SignalNobody(t) \/ SignalSend(t)
            \/ StopAnswered(t) \/ StopCancelled(t) \/ StopRefused(t) \/ StopFailed(t)
  <2>1. agentUp /\ agentUp' = agentUp /\ mu = t
    BY <1>0, <1>10 DEF SignalAdoptRequired, SignalIgnored, SignalNobody, SignalSend, StopAnswered,
                       StopCancelled, StopRefused, StopFailed, CanStop, Running, Unlocked
  <2>2. Moved
    BY <1>1, <1>2, <1>3, <1>5, <1>10, <2>1
       DEF SignalAdoptRequired, SignalIgnored, SignalNobody, SignalSend, StopAnswered,
           StopCancelled, StopRefused, StopFailed
  <2> QED BY <1>0, <2>1, <2>2 DEF Unlocked
<1>11. CASE \/ StartTakeOver(t) \/ StartLaunch(t) \/ StartSpawn(t) \/ StartCommit(t)
            \/ StartCommitFails(t) \/ StartFails(t) \/ StartAborted(t)
  <2>1. agentUp /\ agentUp' = agentUp /\ mu = t
    BY <1>0, <1>11 DEF StartTakeOver, StartLaunch, StartSpawn, StartCommit, StartCommitFails,
                       StartFails, StartAborted, Connected, Running, Unlocked
  <2>2. Moved
    BY <1>1, <1>2, <1>11, <2>1
       DEF StartTakeOver, StartLaunch, StartSpawn, StartCommit, StartCommitFails, StartFails,
           StartAborted
  <2> QED BY <1>0, <2>1, <2>2 DEF Unlocked
<1> QED BY <1>6, <1>7, <1>8, <1>9, <1>10, <1>11 DEF PassStep

\* A row is honest after a step that exposes nothing and keeps what vouches for it.
LEMMA RowsKept ==
  ASSUME TypeOK, HonestInv, NEW t \in Threads, BeginReconcile(t) \/ PassStep(t),
         NEW i \in Instances, pc[t] = "spawned" => i # at[t],
         Exposed(i)' => Exposed(i), Vouched(i) => Vouched(i)'
  PROVE  RowHonest(i)'
<1> SUFFICES ASSUME Exposed(i)' PROVE Vouched(i)'
  BY DEF RowHonest
<1>1. ~\E u \in Threads : pc[u] = "spawned" /\ at[u] = i
  BY PassMoves DEF Unlocked
<1> QED BY <1>1 DEF HonestInv, RowHonest

\* What a thread that has moved on owes, where it is not told more.
LEMMA ThreadsKept ==
  ASSUME TypeOK, HonestInv, NEW t \in Threads, BeginReconcile(t) \/ PassStep(t),
         \/ pc'[t] \notin {"decide", "start", "launched", "spawned"}
         \/ pc'[t] = "decide" /\ (Exposed(at[t])' => cur'[t].observed = "RUNNING")
         \/ pc'[t] \in {"start", "launched"} /\ ~Exposed(at[t])'
         \/ pc'[t] = "spawned" /\ shim'[at'[t]].child = cur'[t].pid
  PROVE  \A u \in Threads : ThreadHonest(u)'
BY PassMoves DEF ThreadHonest, Unlocked

LEMMA ExposedFrame ==
  ASSUME NEW i \in Instances, ShimAlive(i)' => ShimAlive(i), shim'[i].up => shim[i].up,
         shim'[i].child = shim[i].child, shim[i].child \in unrec => shim[i].child \in unrec'
  PROVE  Exposed(i)' => Exposed(i)
BY DEF Exposed, Behind

\* Two shims do not share a live child.
LEMMA OwnChild ==
  ASSUME NEW i \in Instances, NEW j \in Instances, ShimAlive(i), ShimAlive(j),
         shim[i].child = shim[j].child
  PROVE  i = j
BY DEF ShimAlive

LEMMA AfterStopEffect ==
  ASSUME TypeOK, NEW t \in Threads, NEW r, NEW asked, AfterStop(t, r, asked)
  PROVE  /\ \A i \in Instances \ {at[t]} : row'[i] = row[i]
         /\ pc'[t] \in {"start", "kill", "pass"} /\ (pc'[t] = "start" => at' = at)
BY DEF AfterStop, Put, Goto, Advance, TypeOK

\* The rows that differ from that of i in the desired state only.
Redesired(i) == IF row[i] = NoRow THEN {} ELSE {[row[i] EXCEPT !.desired = d] : d \in Desired}

LEMMA RedesiredVouched ==
  ASSUME TypeOK, NEW i \in Instances, row'[i] \in {row[i]} \cup Redesired(i), boot' = boot
  PROVE  Vouched(i) => Vouched(i)'
<1>1. CASE row'[i] = row[i]
  BY <1>1 DEF Vouched, sameBoot
<1>2. ASSUME NEW d \in Desired, row[i] # NoRow, row'[i] = [row[i] EXCEPT !.desired = d]
      PROVE  Vouched(i) => Vouched(i)'
  <2>1. row[i] \in Row
    BY <1>2 DEF TypeOK
  <2>2. \A r \in Row : LET q == [r EXCEPT !.desired = d] IN
          q \in Row /\ q.observed = r.observed /\ q.boot = r.boot
    BY DEF Row
  <2>3. row'[i] \in Row /\ row'[i].observed = row[i].observed /\ row'[i].boot = row[i].boot
    BY <1>2, <2>1, <2>2
  <2> QED BY <1>2, <2>3, ConstantValues DEF Vouched, sameBoot
<1> QED BY <1>1, <1>2 DEF Redesired

LEMMA ControlHonest ==
  ASSUME TypeOK, HonestInv, NEW t \in Threads,
         BeginReconcile(t) \/ PickNext(t) \/ EndPass(t) \/ KillNext(t) \/ KillPass(t)
  PROVE  HonestInv'
<1>1. BeginReconcile(t) \/ PassStep(t)
  BY DEF PassStep
<1>2. UNCHANGED <<hostVars, unrec>> /\ pc[t] # "spawned"
      /\ pc'[t] \notin {"decide", "start", "launched", "spawned"}
  BY DEF BeginReconcile, PickNext, EndPass, KillNext, KillPass, EnterPass, Return, Running,
         histVars, TypeOK
<1>3. \A i \in Instances : Vouched(i) => Vouched(i)'
  <2>1. ASSUME NEW i \in Instances PROVE WithDesired(job[t].proc, "STOPPED")[i] \in {row[i]} \cup Redesired(i)
    BY <2>1 DEF WithDesired, RowsOf, Redesired, Desired
  <2>2. \A i \in Instances : row'[i] \in {row[i]} \cup Redesired(i)
    BY <2>1 DEF BeginReconcile, PickNext, EndPass, KillNext, KillPass, storeVars, RowsOf, Redesired, Desired
  <2> QED BY <1>2, <2>2, RedesiredVouched DEF hostVars
<1>4. \A i \in Instances : Exposed(i)' => Exposed(i)
  BY <1>2, ExposedFrame DEF hostVars, ShimAlive, pidAlive
<1> QED BY <1>1, <1>2, <1>3, <1>4, RowsKept, ThreadsKept DEF HonestInv

\* Whatever an instance was, it is RUNNING once it is known to have started.
LEMMA StartedRuns == \A c \in Observed : ApplyObserved(c, "START_OK", "RUNNING") = "RUNNING"
<1> SUFFICES ASSUME NEW c \in Observed PROVE ApplyObserved(c, "START_OK", "RUNNING") = "RUNNING"
  OBVIOUS
<1>1. \A n \in Observed : <<c, "START_OK", n>> \in observedTransitions => n = "RUNNING"
  BY DEF observedTransitions
<1>2. CASE Legal(c, "START_OK")
  <2>1. \E n \in Observed : <<c, "START_OK", n>> \in observedTransitions
    BY <1>2 DEF Legal
  <2>2. (CHOOSE n \in Observed : <<c, "START_OK", n>> \in observedTransitions) = "RUNNING"
    BY <1>1, <2>1
  <2> QED BY <1>2, <2>2 DEF ApplyObserved
<1>3. CASE ~Legal(c, "START_OK")
  BY <1>3 DEF ApplyObserved
<1> QED BY <1>2, <1>3

\* refresh leaves RUNNING rows and dead or unreachable children behind it.
LEMMA RefreshHonest ==
  ASSUME TypeOK, ChildrenBehindShims, HonestInv, NEW t \in Threads,
         \/ RefreshFast(t) \/ RefreshNoSocket(t) \/ RefreshUnreachable(t)
         \/ RefreshAlive(t) \/ RefreshDead(t)
  PROVE  HonestInv'
<1> PICK a \in Instances : a = at[t]
  BY DEF TypeOK
<1>0. /\ PassStep(t) /\ a = at[t] /\ cur[t] \in Row /\ pc[t] = "refresh"
      /\ cur \in [Threads -> Row] /\ row \in Rows /\ shim[a].child \in PidOrNone
  BY DEF PassStep, RefreshFast, RefreshNoSocket, RefreshUnreachable, RefreshAlive, RefreshDead,
         Running, TypeOK, Rows, Shim
<1>1. UNCHANGED hostVars /\ \E r : Goto(t, "decide", r)
  BY DEF RefreshFast, RefreshNoSocket, RefreshUnreachable, RefreshAlive, RefreshDead,
         NoShimStatus, HandleExit, FoundOrphan, Looked
<1>2. at' = at /\ pc'[t] = "decide"
  BY <1>1 DEF Goto, TypeOK
<1>3. \A i \in Instances \ {a} : row'[i] = row[i]
  BY <1>0 DEF RefreshFast, RefreshNoSocket, RefreshUnreachable, RefreshAlive, RefreshDead,
              NoShimStatus, HandleExit, FoundOrphan, Put, storeVars, Rows
<1>4. ASSUME NEW i \in Instances \ {a} PROVE Exposed(i)' => Exposed(i)
  <2>1. ShimAlive(i)' = ShimAlive(i) /\ shim'[i] = shim[i]
    BY <1>1 DEF hostVars, ShimAlive, pidAlive
  <2>2. CASE unrec \subseteq unrec'
    BY <2>1, <2>2, ExposedFrame
  <2>3. CASE RefreshAlive(t)
    <3>1. ShimAlive(a) /\ (unrec' = unrec \ {shim[a].child} \/ unrec \subseteq unrec')
      BY <2>3 DEF RefreshAlive
    <3>2. ShimAlive(i) => shim[i].child # shim[a].child
      BY <1>0, <3>1, OwnChild
    <3> QED BY <2>1, <3>1, <3>2 DEF Exposed, Behind
  <2> QED BY <2>2, <2>3
       DEF RefreshFast, RefreshNoSocket, RefreshUnreachable, RefreshDead, histVars
<1>5. \A i \in Instances \ {a} : RowHonest(i)'
  BY <1>0, <1>1, <1>3, <1>4, RowsKept DEF Vouched, sameBoot, hostVars
<1>6. Exposed(a)' => RefreshFast(t) \/ (RefreshAlive(t) /\ sameBoot(cur[t].boot))
  <2>1. CASE RefreshNoSocket(t) \/ RefreshUnreachable(t) \/ RefreshDead(t)
    BY <1>0, <1>1, <2>1
       DEF RefreshNoSocket, RefreshUnreachable, RefreshDead, Reconnects, Exposed, Behind,
           ShimAlive, pidAlive, hostVars, ChildrenBehindShims
  <2>2. CASE RefreshAlive(t) /\ ~sameBoot(cur[t].boot)
    BY <1>1, <2>2 DEF RefreshAlive, Exposed, hostVars
  <2> QED BY <2>1, <2>2
<1>7. CASE RefreshFast(t)
  <2>1. cur'[t].observed = "RUNNING" /\ UNCHANGED <<row, unrec>>
    BY <1>0, <1>7 DEF RefreshFast, Goto, storeVars, histVars
  <2>2. Exposed(a)' => Exposed(a)
    BY <1>0, <1>1, <2>1, ExposedFrame DEF hostVars, ShimAlive, pidAlive
  <2>3. Vouched(a) => Vouched(a)'
    BY <1>1, <2>1 DEF Vouched, sameBoot, hostVars
  <2>4. RowHonest(a)'
    BY <1>0, <2>2, <2>3, RowsKept
  <2> QED BY <1>0, <1>2, <1>5, <2>1, <2>4, ThreadsKept DEF HonestInv
<1>8. CASE RefreshAlive(t) /\ sameBoot(cur[t].boot)
  <2> DEFINE x == [cur[t] EXCEPT !.pid = shim[a].child,
                     !.observed = IF @ = "RUNNING" THEN @
                                  ELSE ApplyObserved(@, "START_OK", "RUNNING")]
  <2>1. row' = [row EXCEPT ![a] = x] /\ cur' = [cur EXCEPT ![t] = x]
    BY <1>8 DEF RefreshAlive, Put, Looked, Goto
  <2>2. x \in Row /\ x.observed = "RUNNING" /\ x.boot = cur[t].boot
    <3>1. \A c \in Observed : ApplyObserved(c, "START_OK", "RUNNING") = "RUNNING"
      BY StartedRuns
    <3>2. cur[t].observed \in Observed /\ "RUNNING" \in Observed
      BY <1>0 DEF Row, Observed
    <3> QED BY <1>0, <3>1, <3>2 DEF Row
  <2> HIDE DEF x
  <2>3. Vouched(a)' /\ cur'[t].observed = "RUNNING"
    BY <1>0, <1>1, <1>8, <2>1, <2>2, ConstantValues DEF Vouched, sameBoot, hostVars, Rows
  <2> QED BY <1>0, <1>2, <1>5, <2>3, ThreadsKept DEF HonestInv, RowHonest
<1>9. CASE ~Exposed(a)'
  BY <1>0, <1>2, <1>5, <1>9, ThreadsKept DEF HonestInv, RowHonest
<1> QED BY <1>6, <1>7, <1>8, <1>9

\* A row that reconcileInstance gives up or resets has no child to tell of.
LEMMA DecideHonest ==
  ASSUME TypeOK, HonestInv, NEW t \in Threads,
         \/ DecideNothing(t) \/ DecideStop(t) \/ DecideStart(t) \/ DecideFatal(t)
         \/ DecideBackoff(t) \/ DecideRetry(t) \/ DecideReset(t) \/ BeginProbe(t)
  PROVE  HonestInv'
<1> PICK a \in Instances : a = at[t]
  BY DEF TypeOK
<1>0. PassStep(t) /\ a = at[t] /\ pc[t] = "decide" /\ row \in Rows
      /\ (Exposed(a) => cur[t].observed = "RUNNING")
  BY DEF PassStep, DecideNothing, DecideStop, DecideStart, DecideFatal, DecideBackoff, DecideRetry,
         DecideReset, BeginProbe, Deciding, Running, HonestInv, ThreadHonest, TypeOK, Rows
<1>1. UNCHANGED <<hostVars, unrec>> /\ (row' = row \/ DecideFatal(t) \/ DecideReset(t))
  BY DEF DecideNothing, DecideStop, DecideStart, DecideFatal, DecideBackoff, DecideRetry,
         DecideReset, BeginProbe, storeVars, histVars
<1>2. \A i \in Instances : Exposed(i)' => Exposed(i)
  BY <1>1, ExposedFrame DEF hostVars, ShimAlive, pidAlive
<1>3. \/ pc'[t] \in {"pass", "signal", "probe"}
      \/ pc'[t] = "start" /\ at' = at /\ cur[t].observed # "RUNNING"
  BY DEF DecideNothing, DecideStop, DecideStart, DecideFatal, DecideBackoff, DecideRetry,
         DecideReset, BeginProbe, Deciding, Advance, CallStop, Goto, TypeOK
<1>4. \A u \in Threads : ThreadHonest(u)'
  BY <1>0, <1>2, <1>3, ThreadsKept
<1>5. ASSUME NEW i \in Instances PROVE RowHonest(i)'
  <2>1. CASE row'[i] = row[i]
    BY <1>0, <1>1, <1>2, <2>1, RowsKept DEF Vouched, sameBoot, hostVars
  <2>2. CASE row'[i] # row[i]
    <3>1. i = a /\ cur[t].observed # "RUNNING"
      BY <1>0, <1>1, <2>2 DEF DecideFatal, DecideReset, Deciding, Put, Rows
    <3> QED BY <1>0, <1>2, <3>1 DEF RowHonest
  <2> QED BY <2>1, <2>2
<1> QED BY <1>4, <1>5 DEF HonestInv

LEMMA ProbeHonest ==
  ASSUME TypeOK, HonestInv, NEW t \in Threads, ProbeStale(t) \/ ProbeRecorded(t) \/ ProbeFailed(t)
  PROVE  HonestInv'
<1>0. PassStep(t) /\ at[t] \in Instances /\ pc[t] = "probe" /\ row \in Rows
  BY DEF PassStep, ProbeStale, ProbeRecorded, ProbeFailed, Running, TypeOK, Rows
<1>1. UNCHANGED <<hostVars, unrec>> /\ pc'[t] \in {"pass", "signal"}
  BY DEF ProbeStale, ProbeRecorded, ProbeFailed, histVars, Advance, CallStop, TypeOK
<1>2. \A i \in Instances : Exposed(i)' => Exposed(i)
  BY <1>1, ExposedFrame DEF hostVars, ShimAlive, pidAlive
<1>3. ASSUME NEW i \in Instances PROVE Vouched(i) => Vouched(i)'
  <2>1. CASE row'[i] = row[i]
    BY <1>1, <2>1 DEF Vouched, sameBoot, hostVars
  <2>2. ASSUME NEW h \in Health, row[i] # NoRow, row'[i] = [row[i] EXCEPT !.health = h]
        PROVE  Vouched(i) => Vouched(i)'
    <3>1. row[i] \in Row
      BY <1>0, <2>2 DEF Rows
    <3>2. \A r \in Row : LET q == [r EXCEPT !.health = h] IN
            q \in Row /\ q.observed = r.observed /\ q.boot = r.boot
      BY DEF Row
    <3>3. row'[i] \in Row /\ row'[i].observed = row[i].observed /\ row'[i].boot = row[i].boot
      BY <2>2, <3>1, <3>2
    <3> QED BY <1>1, <2>2, <3>3, ConstantValues DEF Vouched, sameBoot, hostVars
  <2>3. row'[i] # row[i] => row[i] # NoRow /\ \E h \in Health : row'[i] = [row[i] EXCEPT !.health = h]
    <3>1. CASE ProbeStale(t)
      BY <3>1 DEF ProbeStale, storeVars
    <3>2. CASE ProbeRecorded(t)
      BY <1>0, <3>2, ConstantTypes DEF ProbeRecorded, StillProbed, Put, Rows
    <3>3. CASE ProbeFailed(t)
      BY <1>0, <3>3 DEF ProbeFailed, StillProbed, Put, Rows, Health
    <3> QED BY <3>1, <3>2, <3>3
  <2> QED BY <2>1, <2>2, <2>3
<1>4. \A i \in Instances : RowHonest(i)'
  BY <1>0, <1>2, <1>3, RowsKept
<1> QED BY <1>0, <1>1, <1>4, ThreadsKept DEF HonestInv

\* applyRunning writes RUNNING and the boot id of now.
LEMMA TakenOverRuns ==
  ASSUME TypeOK, NEW r \in Row, NEW p \in PidOrNone
  PROVE  TakenOver(r, p) \in Row /\ TakenOver(r, p).observed = "RUNNING" /\ TakenOver(r, p).boot = boot
<1>1. TakenOver(r, p) \in Row
  BY RowValueTypes, TypeGroups
<1>2. r.observed \in Observed
  BY DEF Row
<1>3. TakenOver(r, p).observed = (IF r.observed = "RUNNING" THEN r.observed
                                  ELSE ApplyObserved(r.observed, "START_OK", "RUNNING"))
      /\ TakenOver(r, p).boot = boot
  BY DEF TakenOver, Row
<1> QED BY <1>1, <1>2, <1>3, StartedRuns

\* A shim that has stopped its child, or had none that lives, exposes nothing.
LEMMA ShimStopsExposed ==
  ASSUME TypeOK, NEW a \in Instances, NEW st, ShimStops(a, st)
  PROVE  ~Exposed(a)' /\ \A i \in Instances : Exposed(i)' => Exposed(i)
<1>0. shim \in [Instances -> Shim] /\ live \in [Pids -> Instances \cup {NoInst}]
  BY DEF TypeOK
<1>1. CASE ShimAlive(a)
  <2> DEFINE c == shim[a].child
  <2>1. c \in Pids /\ live' = [live EXCEPT ![c] = NoInst] /\ unrec' = unrec \ {c}
    BY <1>1 DEF ShimStops, ShimAlive, pidAlive
  <2>2. \A i \in Instances : shim'[i].up = shim[i].up /\ shim'[i].child = shim[i].child
    BY <1>0, <1>1 DEF ShimStops, Shim
  <2> HIDE DEF c
  <2>3. ASSUME NEW i \in Instances PROVE ShimAlive(i)' => ShimAlive(i) /\ shim[i].child # c
    <3>1. ShimAlive(i)' => shim[i].child \in Pids /\ live'[shim[i].child] = i /\ i # NoInst
      BY <2>2, ConstantValues DEF ShimAlive, pidAlive
    <3> QED BY <1>0, <2>1, <3>1 DEF ShimAlive, pidAlive
  <2>4. ~ShimAlive(a)'
    BY <2>3 DEF c
  <2>5. ASSUME NEW i \in Instances, Exposed(i)' PROVE Exposed(i)
    <3>1. ShimAlive(i)' /\ shim'[i].up /\ shim'[i].child \notin unrec' /\ ~Policy[Proc[i]].badSignal
      BY <2>5 DEF Exposed, Behind
    <3> QED BY <2>1, <2>2, <2>3, <3>1 DEF Exposed, Behind
  <2> QED BY <2>4, <2>5 DEF Exposed, Behind
<1>2. CASE ~ShimAlive(a)
  BY <1>2 DEF ShimStops, Exposed, Behind, ShimAlive, pidAlive
<1> QED BY <1>1, <1>2

\* signalStop writes STOPPED only of a child that is gone, was never reached, or refuses.
LEMMA SignalHonest ==
  ASSUME TypeOK, ChildrenBehindShims, HonestInv, NEW t \in Threads,
         \/ SignalAdoptRequired(t) \/ SignalIgnored(t) \/ SignalNobody(t)
         \/ StopAnswered(t) \/ StopCancelled(t) \/ StopRefused(t) \/ StopFailed(t)
  PROVE  HonestInv'
<1> PICK a \in Instances : a = at[t]
  BY DEF TypeOK
<1>0. PassStep(t) /\ a = at[t] /\ pc[t] \in {"signal", "stop"} /\ boot' = boot
  BY DEF PassStep, SignalAdoptRequired, SignalIgnored, SignalNobody, StopAnswered, StopCancelled,
         StopRefused, StopFailed, CanStop, Running, hostVars
<1>1. \A i \in Instances : Exposed(i)' => Exposed(i)
  <2>1. CASE StopAnswered(t) \/ StopCancelled(t)
    BY <1>0, <2>1, ShimStopsExposed DEF StopAnswered, StopCancelled
  <2>2. CASE ~(StopAnswered(t) \/ StopCancelled(t))
    <3>1. UNCHANGED <<hostVars, unrec>>
      BY <2>2 DEF SignalAdoptRequired, SignalIgnored, SignalNobody, StopRefused, StopFailed, histVars
    <3> QED BY <3>1, ExposedFrame DEF hostVars, ShimAlive, pidAlive
  <2> QED BY <2>1, <2>2
<1>2. CASE row' = row /\ pc'[t] \in {"pass", "idle"}
  <2>1. \A i \in Instances : RowHonest(i)'
    BY <1>0, <1>1, <1>2, RowsKept DEF Vouched, sameBoot
  <2> QED BY <1>0, <1>2, <2>1, ThreadsKept DEF HonestInv
<1>3. ASSUME NEW r, NEW asked, AfterStop(t, r, asked), ~Exposed(a)' PROVE HonestInv'
  <2>1. \A i \in Instances \ {a} : row'[i] = row[i]
    BY <1>0, <1>3, AfterStopEffect
  <2>2. pc'[t] \in {"start", "kill", "pass"} /\ (pc'[t] = "start" => at'[t] = a)
    BY <1>0, <1>3, AfterStopEffect
  <2>3. \A i \in Instances \ {a} : RowHonest(i)'
    BY <1>0, <1>1, <2>1, RowsKept DEF Vouched, sameBoot
  <2>4. \A u \in Threads : ThreadHonest(u)'
    BY <1>0, <1>3, <2>2, ThreadsKept
  <2> QED BY <1>3, <2>3, <2>4 DEF HonestInv, RowHonest
<1>4. CASE SignalAdoptRequired(t) \/ StopFailed(t) \/ StopCancelled(t)
  <2>1. row' = row /\ (Advance(t) \/ Return(t))
    BY <1>4 DEF SignalAdoptRequired, StopFailed, StopCancelled, StopError, storeVars
  <2>2. pc'[t] \in {"pass", "idle"}
    BY <2>1 DEF Advance, Return, TypeOK
  <2> QED BY <1>2, <2>1, <2>2
<1>5. CASE SignalIgnored(t)
  <2>1. CASE Advance(t) /\ row' = row
    BY <1>2, <2>1 DEF Advance, TypeOK
  <2>2. CASE AfterStop(t, cur[t], FALSE)
    <3>1. ~shim[a].up
      BY <1>0, <1>5 DEF SignalIgnored, ChildrenBehindShims
    <3>2. ~Exposed(a)'
      BY <1>1, <3>1 DEF Exposed, Behind
    <3> QED BY <1>3, <2>2, <3>2
  <2> QED BY <1>5, <2>1, <2>2 DEF SignalIgnored
<1>6. CASE SignalNobody(t)
  <2>1. ~Behind(a)
    BY <1>0, <1>6 DEF SignalNobody, Reconnects, Behind, ChildrenBehindShims
  <2>2. ~Exposed(a)'
    BY <1>1, <2>1 DEF Exposed
  <2> QED BY <1>3, <1>6, <2>2 DEF SignalNobody
<1>7. CASE StopAnswered(t)
  <2>1. ~Exposed(a)'
    BY <1>0, <1>7, ShimStopsExposed DEF StopAnswered
  <2> QED BY <1>3, <1>7, <2>1 DEF StopAnswered
<1>8. CASE StopRefused(t)
  <2>1. ~Exposed(a)'
    BY <1>0, <1>8 DEF StopRefused, Exposed
  <2> QED BY <1>3, <1>8, <2>1 DEF StopRefused
<1> QED BY <1>4, <1>5, <1>6, <1>7, <1>8

\* A row marked STOPPING keeps its boot id, or its child is no longer relied on.
LEMMA SendHonest ==
  ASSUME TypeOK, HonestInv, NEW t \in Threads, SignalSend(t) PROVE HonestInv'
<1> PICK a \in Instances : a = at[t]
  BY DEF TypeOK
<1> DEFINE r == IF Legal(cur[t].observed, "STOP")
                THEN [cur[t] EXCEPT !.observed = ApplyObserved(@, "STOP", @)] ELSE cur[t]
<1>0. PassStep(t) /\ a = at[t] /\ pc[t] = "signal" /\ cur[t] \in Row /\ row \in Rows /\ unrec \subseteq unrec'
  BY DEF PassStep, SignalSend, Running, TypeOK, Rows
<1>1. UNCHANGED hostVars /\ pc'[t] = "stop"
  BY DEF SignalSend, Goto, TypeOK
<1>2. \A i \in Instances : Exposed(i)' => Exposed(i)
  BY <1>0, <1>1, ExposedFrame DEF hostVars, ShimAlive, pidAlive
<1>3. \/ row' = row
      \/ /\ Legal(cur[t].observed, "STOP") /\ row' = [row EXCEPT ![a] = r]
         /\ sameBoot(r.boot) \/ shim[a].child \in unrec'
  BY <1>0 DEF SignalSend
<1>4. Legal(cur[t].observed, "STOP") => r \in Row /\ r.observed = "STOPPING"
  <2>1. \A c \in Observed : Legal(c, "STOP") => ApplyObserved(c, "STOP", c) = "STOPPING"
    <3> SUFFICES ASSUME NEW c \in Observed, Legal(c, "STOP") PROVE ApplyObserved(c, "STOP", c) = "STOPPING"
      OBVIOUS
    <3>1. \A n \in Observed : <<c, "STOP", n>> \in observedTransitions => n = "STOPPING"
      BY DEF observedTransitions
    <3>2. \E n \in Observed : <<c, "STOP", n>> \in observedTransitions
      BY DEF Legal
    <3>3. (CHOOSE n \in Observed : <<c, "STOP", n>> \in observedTransitions) = "STOPPING"
      BY <3>1, <3>2
    <3> QED BY <3>3 DEF ApplyObserved
  <2>2. cur[t].observed \in Observed /\ "STOPPING" \in Observed
    BY <1>0 DEF Row, Observed
  <2> QED BY <1>0, <2>1, <2>2 DEF Row
<1> HIDE DEF r
<1>5. ASSUME NEW i \in Instances PROVE RowHonest(i)'
  <2>1. CASE row'[i] = row[i]
    BY <1>0, <1>1, <1>2, <2>1, RowsKept DEF Vouched, sameBoot, hostVars
  <2>2. CASE row'[i] # row[i]
    <3>1. i = a /\ row'[i] = r /\ r \in Row /\ r.observed = "STOPPING"
          /\ (sameBoot(r.boot) \/ shim[i].child \in unrec')
      BY <1>0, <1>3, <1>4, <2>2 DEF Rows
    <3>2. CASE sameBoot(r.boot)
      BY <1>1, <3>1, <3>2, ConstantValues DEF RowHonest, Vouched, sameBoot, hostVars
    <3>3. CASE shim[i].child \in unrec'
      BY <1>1, <3>3 DEF RowHonest, Exposed, hostVars
    <3> QED BY <3>1, <3>2, <3>3
  <2> QED BY <2>1, <2>2
<1> QED BY <1>0, <1>1, <1>5, ThreadsKept DEF HonestInv

\* startInstance: a shim is asked before it is given a child, and what is not committed
\* is not relied on.
LEMMA StartHonest ==
  ASSUME TypeOK, HonestInv, NEW t \in Threads,
         \/ StartTakeOver(t) \/ StartLaunch(t) \/ StartSpawn(t) \/ StartCommit(t)
         \/ StartCommitFails(t) \/ StartFails(t) \/ StartAborted(t)
  PROVE  HonestInv'
<1> PICK a \in Instances : a = at[t]
  BY DEF TypeOK
<1>0. /\ PassStep(t) /\ a = at[t] /\ cur[t] \in Row /\ row \in Rows /\ boot' = boot /\ boot # 0
      /\ shim \in [Instances -> Shim] /\ live \in [Pids -> Instances \cup {NoInst}]
      /\ pc[t] \in {"start", "launched", "spawned"}
  <2>1. PassStep(t) /\ boot' = boot
    BY DEF PassStep, StartTakeOver, StartLaunch, StartSpawn, StartCommit, StartCommitFails, StartFails,
           StartAborted, hostVars
  <2>2. pc[t] \in {"start", "launched", "spawned"}
    BY DEF StartTakeOver, StartLaunch, StartSpawn, StartCommit, StartCommitFails, StartFails,
           StartAborted, Connected, Running
  <2>3. boot # 0 /\ cur[t] \in Row /\ row \in Rows
        /\ shim \in [Instances -> Shim] /\ live \in [Pids -> Instances \cup {NoInst}]
    BY DEF TypeOK, Rows
  <2> QED BY <2>1, <2>2, <2>3
<1>1. /\ pc[t] \in {"start", "launched"} => ~Exposed(a)
      /\ pc[t] = "spawned" /\ shim[a].up => shim[a].child = cur[t].pid
  BY <1>0 DEF HonestInv, ThreadHonest
<1>2. \A i \in Instances \ {a} : row'[i] = row[i] /\ shim'[i] = shim[i]
  BY <1>0 DEF StartTakeOver, StartLaunch, StartSpawn, StartCommit, StartCommitFails, StartFails,
              StartAborted, Put, Rows, storeVars, hostVars
<1>3. ASSUME NEW i \in Instances \ {a} PROVE RowHonest(i)'
  <2>1. ShimAlive(i)' => ShimAlive(i)
    <3>1. live' = live \/ \E p \in Pids : live' = [live EXCEPT ![p] = a]
      BY <1>0 DEF StartTakeOver, StartLaunch, StartSpawn, StartCommit, StartCommitFails, StartFails,
                  StartAborted, hostVars
    <3> QED BY <1>0, <1>2, <3>1, ConstantValues DEF ShimAlive, pidAlive
  <2>2. CASE unrec \subseteq unrec'
    BY <1>0, <1>2, <2>1, <2>2, ExposedFrame, RowsKept DEF Vouched, sameBoot
  <2>3. CASE StartTakeOver(t)
    <3>1. ShimAlive(a) /\ (unrec' = unrec \ {shim[a].child} \/ unrec \subseteq unrec')
      BY <1>0, <2>3 DEF StartTakeOver
    <3>2. ShimAlive(i) => shim[i].child # shim[a].child
      BY <3>1, OwnChild
    <3>3. Exposed(i)' => Exposed(i)
      BY <1>2, <2>1, <3>1, <3>2 DEF Exposed, Behind
    <3> QED BY <1>0, <1>2, <3>3, RowsKept DEF Vouched, sameBoot
  <2> QED BY <2>2, <2>3
       DEF StartLaunch, StartSpawn, StartCommit, StartCommitFails, StartFails, StartAborted, histVars
<1>4. CASE StartLaunch(t)
  <2>1. shim'[a].child = NoPid /\ pc'[t] = "launched" /\ at'[t] = a
    BY <1>0, <1>4 DEF StartLaunch, NoShim, Goto, TypeOK
  <2>2. ~Exposed(a)'
    BY <2>1, ConstantValues DEF Exposed, Behind, ShimAlive, pidAlive
  <2> QED BY <1>0, <1>3, <2>1, <2>2, ThreadsKept DEF HonestInv, RowHonest
<1>5. CASE StartSpawn(t)
  <2>1. PICK p \in Pids : /\ shim' = [shim EXCEPT ![a].child = p, ![a].code = "zero"]
                          /\ Goto(t, "spawned", [cur[t] EXCEPT !.pid = p, !.observed = "STARTING"])
    BY <1>0, <1>5 DEF StartSpawn
  <2>2. shim'[a].child = p /\ pc'[t] = "spawned" /\ at'[t] = a /\ cur'[t].pid = p
    BY <1>0, <2>1 DEF Goto, TypeOK, Shim, Row
  <2> QED BY <1>0, <1>3, <2>2, ThreadsKept DEF HonestInv, RowHonest
<1>6. ASSUME pc'[t] = "pass", RowHonest(a)' PROVE HonestInv'
  BY <1>0, <1>3, <1>6, ThreadsKept DEF HonestInv
<1>7. CASE StartTakeOver(t)
  <2>1. pc'[t] = "pass" /\ UNCHANGED hostVars /\ ~Exposed(a)
    BY <1>0, <1>1, <1>7 DEF StartTakeOver, Advance, TypeOK, Running
  <2>2. CASE sameBoot(cur[t].boot)
    <3>1. row' = [row EXCEPT ![a] = TakenOver(cur[t], shim[a].child)]
      BY <1>0, <1>7, <2>2 DEF StartTakeOver, Put
    <3>2. TakenOver(cur[t], shim[a].child) \in Row
          /\ TakenOver(cur[t], shim[a].child).observed = "RUNNING"
          /\ TakenOver(cur[t], shim[a].child).boot = boot
      BY <1>0, TakenOverRuns DEF Shim
    <3>3. Vouched(a)'
      BY <1>0, <3>1, <3>2, ConstantValues DEF Vouched, sameBoot, Rows
    <3> QED BY <1>6, <2>1, <3>3 DEF RowHonest
  <2>3. CASE ~sameBoot(cur[t].boot)
    <3>1. UNCHANGED unrec
      BY <1>7, <2>3 DEF StartTakeOver
    <3>2. ~Exposed(a)'
      BY <2>1, <3>1, ExposedFrame DEF hostVars, ShimAlive, pidAlive
    <3> QED BY <1>6, <2>1, <3>2 DEF RowHonest
  <2> QED BY <2>2, <2>3
<1>8. CASE StartCommit(t)
  <2> DEFINE r == [cur[t] EXCEPT !.exit = "none", !.boot = boot, !.health = "UNKNOWN",
                      !.observed = ApplyObserved(@, "START_OK", "RUNNING")]
  <2>1. pc'[t] = "pass" /\ row' = [row EXCEPT ![a] = r]
    BY <1>0, <1>8 DEF StartCommit, Advance, TypeOK, Put
  <2>2. r \in Row /\ r.observed = "RUNNING" /\ r.boot = boot
    <3>1. cur[t].observed \in Observed /\ "RUNNING" \in Observed /\ "none" \in ExitCodes
          /\ "UNKNOWN" \in Health /\ boot \in 0..MaxBoot
      BY <1>0, ConstantTypes DEF Row, Observed, ExitCodes, Health, TypeOK
    <3> QED BY <1>0, <3>1, StartedRuns DEF Row
  <2> HIDE DEF r
  <2>3. Vouched(a)'
    BY <1>0, <2>1, <2>2, ConstantValues DEF Vouched, sameBoot, Rows
  <2> QED BY <1>6, <2>1, <2>3 DEF RowHonest
<1>9. CASE StartCommitFails(t)
  <2>1. pc'[t] = "pass" /\ UNCHANGED hostVars /\ pc[t] = "spawned"
        /\ unrec' = IF pidAlive(cur[t].pid) THEN unrec \cup {cur[t].pid} ELSE unrec
    BY <1>0, <1>9 DEF StartCommitFails, Advance, TypeOK, Running
  <2>2. ~Exposed(a)'
    BY <1>1, <2>1 DEF Exposed, Behind, ShimAlive, pidAlive, hostVars
  <2> QED BY <1>6, <2>1, <2>2 DEF RowHonest
<1>10. CASE StartFails(t) \/ StartAborted(t)
  <2>1. pc'[t] = "pass" /\ UNCHANGED <<hostVars, unrec>>
    BY <1>0, <1>10 DEF StartFails, StartAborted, Advance, TypeOK, histVars
  <2>2. ~Exposed(a)
    BY <1>0, <1>1, <1>10 DEF StartFails, StartAborted, Connected, Running, Exposed, Behind
  <2>3. ~Exposed(a)'
    BY <2>1, <2>2, ExposedFrame DEF hostVars, ShimAlive, pidAlive
  <2> QED BY <1>6, <2>1, <2>3 DEF RowHonest
<1> QED BY <1>4, <1>5, <1>7, <1>8, <1>9, <1>10

LEMMA PassHonest ==
  ASSUME TypeOK, ChildrenBehindShims, HonestInv, NEW t \in Threads, BeginReconcile(t) \/ PassStep(t)
  PROVE  HonestInv'
BY ControlHonest, RefreshHonest, DecideHonest, ProbeHonest, SignalHonest, SendHonest, StartHonest
   DEF PassStep

\* While nobody holds the mutex every row speaks for itself.
LEMMA UnlockedRows ==
  ASSUME HonestInv, \A t \in Threads : pc[t] \in Unlocked
  PROVE  \A i \in Instances : Exposed(i) => Vouched(i)
BY DEF HonestInv, RowHonest, Unlocked

LEMMA ExposedUnchanged ==
  ASSUME UNCHANGED <<hostVars, histVars>>, NEW i \in Instances PROVE Exposed(i)' = Exposed(i)
BY DEF hostVars, histVars, Exposed, Behind, ShimAlive, pidAlive

\* What a request owes: the rows that vouch for a child still do.
LEMMA RequestHonest ==
  ASSUME TypeOK, HonestInv, Request, UNCHANGED <<hostVars, histVars, agentUp>>,
         \A i \in Instances : Vouched(i) => Vouched(i)',
         \A t \in Threads : pc'[t] = pc[t] \/ (pc'[t] \in {"pass", "kill"} /\ mu' = t)
  PROVE  HonestInv'
<1>1. agentUp' /\ \A t \in Threads : pc[t] \in Unlocked
  BY ConstantValues DEF Request, HonestInv, ThreadHonest
<1>2. \A t \in Threads : ThreadHonest(t)'
  BY <1>1 DEF ThreadHonest, Unlocked
<1>3. \A i \in Instances : RowHonest(i)'
  BY <1>1, UnlockedRows, ExposedUnchanged DEF RowHonest
<1> QED BY <1>2, <1>3 DEF HonestInv

\* A row that vouches for a child is neither dropped nor replaced.
LEMMA EnsuredRows ==
  ASSUME TypeOK, NEW p \in Procs, NEW n \in Nat, NEW i \in Instances, Vouched(i)
  PROVE  EnsureInstances(p, n, row)[i] \in {row[i]} \cup Redesired(i)
<1>1. row[i] # NoRow /\ ~extraInstanceDeletable(row[i])
  BY DEF Vouched, extraInstanceDeletable
<1> DEFINE wants == \E j \in Instances : /\ Proc[j] = p /\ row[j] # NoRow
                                         /\ Ordinal[j] < n /\ row[j].desired = "RUNNING"
           d == IF wants THEN "RUNNING" ELSE "STOPPED"
<1>2. EnsureInstances(p, n, row)[i] =
        IF Proc[i] # p THEN row[i]
        ELSE IF Ordinal[i] < n
             THEN IF row[i] = NoRow THEN NewRow(d) ELSE row[i]
        ELSE IF row[i] = NoRow \/ extraInstanceDeletable(row[i]) THEN NoRow
        ELSE [row[i] EXCEPT !.desired = "STOPPED"]
  BY DEF EnsureInstances
<1> HIDE DEF d
<1> QED BY <1>1, <1>2 DEF Redesired, Desired

\* An operator's request takes no child's row from it.
LEMMA OperatorHonest ==
  ASSUME TypeOK, HonestInv, OperatorStep PROVE HonestInv'
<1>0. \A p \in Procs, d \in Desired, i \in Instances : WithDesired(p, d)[i] \in {row[i]} \cup Redesired(i)
  BY DEF WithDesired, RowsOf, Redesired
<1>1. ASSUME NEW p \in Procs, NEW n \in 1..MaxInst, ApplySpec(p, n) PROVE HonestInv'
  <2>1. n \in Nat
    OBVIOUS
  <2>2. \A i \in Instances : Vouched(i) => Vouched(i)'
    BY <1>1, <2>1, EnsuredRows, RedesiredVouched DEF ApplySpec, hostVars
  <2> QED BY <1>1, <2>2, RequestHonest DEF ApplySpec, threadVars
<1>2. ASSUME NEW p \in Procs, DeleteSpec(p) PROVE HonestInv'
  <2>1. \A i \in Instances : Vouched(i) => Vouched(i)'
    BY <1>2 DEF DeleteSpec, RowsOf, Vouched, sameBoot, hostVars
  <2> QED BY <1>2, <2>1, RequestHonest DEF DeleteSpec, threadVars
<1>3. ASSUME NEW p \in Procs, NEW d \in Desired, SetDesired(p, d) PROVE HonestInv'
  <2>1. \A i \in Instances : Vouched(i) => Vouched(i)'
    BY <1>0, <1>3, RedesiredVouched DEF SetDesired, hostVars
  <2> QED BY <1>3, <2>1, RequestHonest DEF SetDesired, threadVars
<1>4. ASSUME NEW p \in Procs, ResetFailure(p) PROVE HonestInv'
  <2>1. \A i \in Instances : Vouched(i) => Vouched(i)'
    BY <1>4 DEF ResetFailure, Vouched, sameBoot, hostVars
  <2> QED BY <1>4, <2>1, RequestHonest DEF ResetFailure, threadVars
<1>5. ASSUME NEW p \in Procs, NEW t \in Threads, BeginKill(t, p) PROVE HonestInv'
  <2>1. \A i \in Instances : Vouched(i) => Vouched(i)'
    BY <1>5 DEF BeginKill, Vouched, sameBoot, hostVars, storeVars
  <2>2. \A u \in Threads : pc'[u] = pc[u] \/ (pc'[u] \in {"pass", "kill"} /\ mu' = u)
    BY <1>5 DEF BeginKill, TypeOK
  <2> QED BY <1>5, <2>1, <2>2, RequestHonest DEF BeginKill
<1>6. ASSUME NEW p \in Procs, NEW t \in Threads, BeginRestart(t, p) PROVE HonestInv'
  <2>1. \A i \in Instances : Vouched(i) => Vouched(i)'
    BY <1>0, <1>6, RedesiredVouched DEF BeginRestart, hostVars, Desired
  <2>2. \A u \in Threads : pc'[u] = pc[u] \/ (pc'[u] \in {"pass", "kill"} /\ mu' = u)
    BY <1>6 DEF BeginRestart, EnterPass, threadVars, TypeOK
  <2> QED BY <1>6, <2>1, <2>2, RequestHonest DEF BeginRestart
<1>7. ASSUME NEW i \in Instances, NEW p \in Pids, Adopt(i, p) PROVE HonestInv'
  <2> DEFINE x == [row[i] EXCEPT !.pid = p, !.observed = "RUNNING",
                                 !.health = "UNKNOWN", !.boot = boot]
  <2>1. row[i] \in Row /\ boot \in 1..MaxBoot /\ boot' = boot /\ row' = [row EXCEPT ![i] = x]
    BY <1>7 DEF Adopt, Put, TypeOK, hostVars
  <2>2. boot \in 0..MaxBoot /\ p \in PidOrNone
    BY <2>1, ConstantTypes DEF PidOrNone
  <2>3. x \in Row /\ x.observed = "RUNNING" /\ x.boot = boot
    BY <2>1, <2>2 DEF Row, Observed, Health
  <2> HIDE DEF x
  <2>4. \A j \in Instances : Vouched(j) => Vouched(j)'
    BY <2>1, <2>3, ConstantValues DEF Vouched, sameBoot, TypeOK
  <2> QED BY <1>7, <2>4, RequestHonest DEF Adopt, threadVars
<1> QED BY <1>1, <1>2, <1>3, <1>4, <1>5, <1>6, <1>7 DEF OperatorStep

\* The agent is gone, its threads and their locks with it.
LEMMA GoneThreads == AgentGone => \A t \in Threads : pc'[t] = "idle" /\ ThreadHonest(t)'
BY DEF AgentGone, ThreadHonest, Unlocked

\* The host and its processes fail.
LEMMA HostHonest ==
  ASSUME TypeOK, HonestInv, HostStep PROVE HonestInv'
<1>0. /\ shim \in [Instances -> Shim] /\ live \in [Pids -> Instances \cup {NoInst}]
      /\ \A t \in Threads : at[t] \in Instances
  BY DEF TypeOK
<1>1. CASE AgentCrash
  <2>1. row' = row /\ boot' = boot /\ AgentGone
    BY <1>1 DEF AgentCrash, storeVars
  <2>2. \A i \in Instances : Vouched(i) => Vouched(i)'
    BY <2>1 DEF Vouched, sameBoot
  <2>3. ASSUME NEW i \in Instances, Exposed(i)' PROVE Vouched(i)
    <3>1. CASE /\ unrec' = unrec \cup {p \in Pids : pidAlive(p) /\ \E t \in Threads :
                                          pc[t] = "spawned" /\ cur[t].pid = p}
               /\ UNCHANGED <<live, shim, lost>>
      <4>1. Exposed(i) /\ ShimAlive(i) /\ shim[i].up /\ shim[i].child \notin unrec'
        BY <2>3, <3>1 DEF Exposed, Behind, ShimAlive, pidAlive
      <4>2. ASSUME NEW t \in Threads, pc[t] = "spawned", at[t] = i PROVE FALSE
        <5>1. ThreadHonest(t)
          BY DEF HonestInv
        <5>2. shim[i].child = cur[t].pid
          BY <4>1, <4>2, <5>1 DEF ThreadHonest
        <5> QED BY <3>1, <4>1, <4>2, <5>2 DEF ShimAlive, pidAlive
      <4>3. RowHonest(i)
        BY DEF HonestInv
      <4> QED BY <4>1, <4>2, <4>3 DEF RowHonest
    <3>2. ASSUME NEW t \in Threads, NEW st \in ExitStatuses, CanStop(t), ShimStops(at[t], st)
          PROVE  Vouched(i)
      <4>1. PICK a \in Instances : a = at[t]
        BY <1>0
      <4>2. Exposed(i)
        BY <2>3, <3>2, <4>1, ShimStopsExposed
      <4>3. \A u \in Threads : pc[u] # "spawned"
        BY <3>2 DEF CanStop, Running, HonestInv, ThreadHonest, Unlocked
      <4>4. RowHonest(i)
        BY DEF HonestInv
      <4> QED BY <4>2, <4>3, <4>4 DEF RowHonest
    <3> QED BY <1>1, <3>1, <3>2 DEF AgentCrash
  <2> QED BY <2>1, <2>2, <2>3, GoneThreads DEF HonestInv, RowHonest
<1>2. CASE HostReboot
  <2>1. \A i \in Instances : ~Exposed(i)'
    BY <1>2 DEF HostReboot, Exposed, Behind, ShimAlive, pidAlive
  <2> QED BY <1>2, <2>1, GoneThreads DEF HostReboot, HonestInv, RowHonest
<1>3. ASSUME UNCHANGED <<boot, storeVars, agentUp, threadVars>>,
             \A i \in Instances : /\ Exposed(i)' => Exposed(i)
                                  /\ shim'[i].up => shim[i].up /\ shim'[i].child = shim[i].child
      PROVE  HonestInv'
  <2>1. \A i \in Instances : Vouched(i) => Vouched(i)'
    BY <1>3 DEF Vouched, sameBoot, storeVars
  <2>2. ASSUME NEW i \in Instances PROVE RowHonest(i)'
    BY <1>3, <2>1 DEF HonestInv, RowHonest, threadVars
  <2>3. ASSUME NEW t \in Threads PROVE ThreadHonest(t)'
    <3>1. UNCHANGED <<pc[t], at[t], cur[t], mu, agentUp>> /\ ThreadHonest(t)
      BY <1>3 DEF threadVars, HonestInv
    <3>2. PICK a \in Instances : a = at[t]
      BY <1>0
    <3> QED BY <1>3, <3>1, <3>2 DEF ThreadHonest
  <2> QED BY <2>2, <2>3 DEF HonestInv
<1>4. ASSUME NEW p \in Pids, NEW st \in ExitStatuses, ChildExit(p, st) PROVE HonestInv'
  <2>1. \A i \in Instances : shim'[i].up = shim[i].up /\ shim'[i].child = shim[i].child
    BY <1>0, <1>4 DEF ChildExit, Shim
  <2>2. \A i \in Instances : ShimAlive(i)' => ShimAlive(i) /\ shim[i].child # p
    BY <1>0, <1>4, <2>1, ConstantValues DEF ChildExit, ShimAlive, pidAlive
  <2>3. \A i \in Instances : Exposed(i)' => Exposed(i)
    BY <1>4, <2>1, <2>2 DEF ChildExit, Exposed, Behind
  <2> QED BY <1>3, <1>4, <2>1, <2>3 DEF ChildExit
<1>5. ASSUME NEW i \in Instances, NEW k \in BOOLEAN, ShimDies(i, k) PROVE HonestInv'
  <2>1. /\ ~shim'[i].up
        /\ \A j \in Instances \ {i} : shim'[j] = shim[j]
    BY <1>0, <1>5 DEF ShimDies, NoShim
  <2>2. \A j \in Instances : Exposed(j)' => Exposed(j)
    BY <1>5, <2>1 DEF ShimDies, Exposed, Behind, ShimAlive, pidAlive
  <2> QED BY <1>3, <1>5, <2>1, <2>2 DEF ShimDies
<1>6. ASSUME NEW i \in Instances, FailureExpires(i) PROVE HonestInv'
  BY <1>3, <1>6, ExposedUnchanged DEF FailureExpires, hostVars
<1> QED BY <1>1, <1>2, <1>4, <1>5, <1>6 DEF HostStep

\* A row that vouches for a child still does when the agent is back.
LEMMA RecoverHonest ==
  ASSUME TypeOK, ChildrenBehindShims, HonestInv, Recover PROVE HonestInv'
<1> DEFINE ens(i) == EnsureInstances(Proc[i], spec[Proc[i]], row)[i]
           visited == {i \in Instances : spec[Proc[i]] > 0 /\ ens(i) # NoRow}
           taken == {j \in visited : Reconnects(j) /\ ShimAlive(j) /\ sameBoot(ens(j).boot)}
<1>1. /\ agentUp' = TRUE
      /\ row' = [i \in Instances |-> IF i \in visited THEN Recovered(i, ens(i))
                                     ELSE IF spec[Proc[i]] > 0 THEN NoRow ELSE row[i]]
      /\ unrec' = unrec \ {shim[i].child : i \in taken}
      /\ UNCHANGED <<hostVars, threadVars>>
  BY DEF Recover
<1>2. ASSUME NEW i \in Instances, Vouched(i) PROVE ens(i) \in {row[i]} \cup Redesired(i)
  <2>1. Proc[i] \in Procs /\ spec[Proc[i]] \in Nat
    BY ConstantTypes DEF TypeOK
  <2> QED BY <1>2, <2>1, EnsuredRows
<1>3. ASSUME NEW i \in Instances, ens(i) # NoRow PROVE ens(i) \in Row
  <2>1. Proc[i] \in Procs /\ spec[Proc[i]] \in Nat /\ row \in Rows
    BY ConstantTypes DEF TypeOK, Rows
  <2>2. EnsureInstances(Proc[i], spec[Proc[i]], row) \in Rows
    BY <2>1, EnsureInstancesType
  <2> QED BY <1>3, <2>2 DEF Rows
<1> HIDE DEF ens
<1>4. \A t \in Threads : pc[t] = "idle" /\ pc'[t] = "idle"
  BY <1>1 DEF HonestInv, ThreadHonest, threadVars, Recover
<1>5. ASSUME NEW i \in Instances, i \in taken PROVE Vouched(i)'
  <2>1. ens(i) \in Row /\ shim[i].child \in PidOrNone /\ row'[i] = TakenOver(ens(i), shim[i].child)
    BY <1>1, <1>3, <1>5 DEF Recovered, ShimAlive, pidAlive, PidOrNone
  <2> QED BY <1>1, <1>5, <2>1, TakenOverRuns, ConstantValues DEF Vouched, sameBoot, hostVars
<1>6. ASSUME NEW i \in Instances, Exposed(i)', i \notin taken PROVE Vouched(i)'
  <2>1. Behind(i) /\ ~Policy[Proc[i]].badSignal
    BY <1>1, <1>6 DEF Exposed, Behind, ShimAlive, pidAlive, hostVars
  <2>2. shim[i].child \notin unrec
    <3>1. ASSUME NEW j \in taken PROVE shim[i].child # shim[j].child
      BY <1>6, <2>1, <3>1, OwnChild DEF Behind
    <3> QED BY <1>1, <1>6, <3>1 DEF Exposed, hostVars
  <2>3. Vouched(i)
    BY <1>4, <2>1, <2>2 DEF HonestInv, RowHonest, Exposed
  <2>4. CASE spec[Proc[i]] > 0
    <3>1. ens(i) # NoRow /\ ens(i).boot = row[i].boot
      <4>1. row[i] \in Row
        BY <2>3 DEF Vouched, TypeOK
      <4>2. \A r \in Row, d \in Desired : LET q == [r EXCEPT !.desired = d] IN q \in Row /\ q.boot = r.boot
        BY DEF Row
      <4>3. CASE ens(i) = row[i]
        BY <4>1, <4>3, ConstantValues
      <4>4. ASSUME NEW d \in Desired, ens(i) = [row[i] EXCEPT !.desired = d] PROVE ens(i) \in Row /\ ens(i).boot = row[i].boot
        BY <4>1, <4>2, <4>4
      <4>5. ens(i) \in {row[i]} \cup {[row[i] EXCEPT !.desired = d] : d \in Desired}
        BY <1>2, <2>3, <4>1, ConstantValues DEF Redesired
      <4> QED BY <4>3, <4>4, <4>5, ConstantValues
    <3>2. shim[i].sock
      BY <2>1 DEF ChildrenBehindShims, Behind
    <3> QED BY <1>6, <2>1, <2>3, <2>4, <3>1, <3>2 DEF Behind, Reconnects, Vouched
  <2>5. CASE ~(spec[Proc[i]] > 0)
    BY <1>1, <2>3, <2>5 DEF Vouched, sameBoot, hostVars
  <2> QED BY <2>4, <2>5
<1>7. \A i \in Instances : RowHonest(i)'
  BY <1>5, <1>6 DEF RowHonest
<1>8. \A t \in Threads : ThreadHonest(t)'
  BY <1>4 DEF ThreadHonest, Unlocked
<1> QED BY <1>7, <1>8 DEF HonestInv

LEMMA NextHonest ==
  TypeOK /\ ChildrenBehindShims /\ HonestInv /\ [Next]_vars => HonestInv'
<1> SUFFICES ASSUME TypeOK, ChildrenBehindShims, HonestInv, [Next]_vars PROVE HonestInv'
  OBVIOUS
<1>1. CASE UNCHANGED vars
  <2>1. UNCHANGED <<hostVars, histVars>> /\ UNCHANGED <<row, boot, shim, agentUp, mu, pc, at, cur>>
    BY <1>1 DEF vars, hostVars, storeVars, threadVars, histVars
  <2>2. \A i \in Instances : Exposed(i)' = Exposed(i) /\ Vouched(i)' = Vouched(i)
    BY <2>1, ExposedUnchanged DEF Vouched, sameBoot
  <2>3. \A i \in Instances : RowHonest(i)'
    BY <2>1, <2>2 DEF HonestInv, RowHonest
  <2>4. ASSUME NEW t \in Threads PROVE ThreadHonest(t)'
    <3>1. PICK a \in Instances : a = at[t]
      BY DEF TypeOK
    <3>2. ThreadHonest(t)
      BY DEF HonestInv
    <3> QED BY <2>1, <2>2, <3>1, <3>2 DEF ThreadHonest
  <2> QED BY <2>3, <2>4 DEF HonestInv
<1> QED BY <1>1, PassHonest, RecoverHonest, OperatorHonest, HostHonest DEF Next

LEMMA InitHonest == Init => HonestInv
<1> SUFFICES ASSUME Init PROVE HonestInv
  OBVIOUS
<1>1. \A i \in Instances : ~Exposed(i)
  BY DEF Init, Exposed, Behind, NoShim
<1> QED BY <1>1 DEF Init, HonestInv, ThreadHonest, RowHonest, Unlocked

\* A row that says its instance is not running is right about the shim: the
\* inductive invariant adds that a row which does not say so is RUNNING or
\* STOPPING under the boot id of now, so that a restarted agent takes the child
\* over, and that a thread acts on its copy only while it holds the mutex
\* (refresh, startInstance, signalStop, recoverInstance).
THEOREM NotRunningHonest == Spec => []NotRunningIsHonest
<1>1. HonestInv => NotRunningIsHonest
  <2> SUFFICES ASSUME HonestInv, NEW i \in Instances,
                      row[i] # NoRow, row[i].observed \in NotRunning, shim[i].up, ShimAlive(i),
                      shim[i].child \notin unrec, ~Policy[Proc[i]].badSignal
               PROVE  \E t \in Threads : pc[t] = "spawned" /\ at[t] = i
    BY DEF NotRunningIsHonest
  <2>1. Exposed(i) /\ ~Vouched(i) /\ RowHonest(i)
    BY DEF Exposed, Behind, Vouched, NotRunning, HonestInv
  <2> QED BY <2>1 DEF RowHonest
<1> QED BY <1>1, InitHonest, NextHonest, TypeCorrect, ChildrenStayBehindShims, PTL DEF Spec
=============================================================================
