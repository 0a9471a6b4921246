--------------------------- MODULE CrashLoopProofs ---------------------------
(***************************************************************************)
(* What TLAPS proves of the crash-loop protection of ProcessManager: how   *)
(* often an instance is restarted automatically before its failure record  *)
(* is cleared.                                                             *)
(*                                                                         *)
(* The bound rests on each restart answering a failure of its own, so the  *)
(* theorem is about a manager that runs one pass at a time, commits the    *)
(* starts it makes and remembers the failures it has recorded.  Without    *)
(* that the code has no such bound: a pass whose rows are stale, or one    *)
(* that finds a start it never put, restarts an instance for the exit of a *)
(* child it has already replaced, which handleExit does not record.        *)
(***************************************************************************)
EXTENDS ProcessManagerProofs

Steady == (\E t : Threads = {t}) /\ "expire" \notin FaultKinds /\ "commit" \notin FaultKinds

Limit(i) == Policy[Proc[i]].maxRetries

\* Each restart of i since its record was cleared answers a recorded failure.
Answered(i) == retries[i] <= failures[i]

\* A row r of i from which a restart follows with no further failure recorded.
Due(i, r) ==
  /\ r # NoRow
  /\ \/ r.observed \in {"EXITED", "BACKOFF", "FATAL"}
     \/ r.observed = "UNKNOWN" /\ shim[i].up

IsLost(r) == r # NoRow /\ r.observed = "UNKNOWN"

AtRest == {"idle", "pass", "kill"}

\* What thread t knows of instance i while it visits it.
VisitCounts(t, i) ==
  /\ pc[t] \in {"refresh", "decide"} => after[t] = "pass"
  /\ pc[t] \in {"refresh", "decide", "start"} /\ IsLost(row[i]) =>
       IsLost(cur[t]) \/ after[t] = "restart"
  /\ pc[t] \in {"refresh", "decide", "signal", "stop"} /\ Due(i, cur[t]) => Answered(i)
  /\ pc[t] \in {"signal", "stop"} /\ after[t] = "fatal" => Answered(i)
  /\ pc[t] \in {"signal", "stop", "start", "launched"} /\ after[t] = "restart" =>
       Answered(i) /\ failures[i] < Limit(i)
  /\ pc[t] \in {"start", "launched"} => after[t] = "restart" \/ cur[t].observed = "STOPPED"

\* What it knows of the instances it has yet to visit.
TodoCounts(t, i) ==
  i \in todo[t] /\ snap[t][i] # NoRow =>
    /\ Due(i, snap[t][i]) => Answered(i)
    /\ IsLost(row[i]) => IsLost(snap[t][i])

LoopInv(t, i) ==
  /\ retries[i] <= Limit(i) /\ retries[i] <= failures[i] + 1
  /\ ~agentUp => Answered(i) /\ pc[t] = "idle"
  /\ Due(i, row[i]) => Answered(i) \/ (pc[t] = "spawned" /\ at[t] = i)
  /\ pc[t] = "idle" => todo[t] = {}
  /\ pc[t] = "kill" => after[t] = "kill"
  /\ TodoCounts(t, i)
  /\ at[t] = i => (pc[t] \notin AtRest => i \notin todo[t]) /\ VisitCounts(t, i)

CountInv ==
  \A t \in Threads, i \in Instances : Limit(i) > 0 => LoopInv(t, i)

-----------------------------------------------------------------------------
LEMMA CountTypes ==
  ASSUME TypeOK, NEW i \in Instances
  PROVE  /\ retries[i] \in Nat /\ failures[i] \in 0..FailCap /\ FailCap \in Nat
         /\ Limit(i) \in Nat /\ Limit(i) <= FailCap
         /\ shim[i] \in Shim /\ row[i] \in Row \cup {NoRow}
BY ConstantTypes, FailCapSuffices DEF TypeOK, Limit, Policies

\* One more failure answers for the restart that was one ahead.
LEMMA BumpAnswers ==
  ASSUME TypeOK, NEW i \in Instances, retries[i] <= Limit(i), retries[i] <= failures[i] + 1
  PROVE  Bump(failures[i]) \in Nat /\ retries[i] <= Bump(failures[i])
BY CountTypes DEF Bump

\* The state a stop leaves in the row, and that a signal announces.
LEMMA StopStates ==
  /\ \A c \in Observed : ApplyObserved(c, "STOPPED", "STOPPED") = "STOPPED"
  /\ \A c \in Observed : Legal(c, "STOP") => ApplyObserved(c, "STOP", c) = "STOPPING"
  /\ \A c \in Observed : ApplyObserved(c, "LOST", "UNKNOWN") = "UNKNOWN"
<1>1. ASSUME NEW c \in Observed, NEW e \in Events, NEW f \in Observed,
             \A n \in Observed : <<c, e, n>> \in observedTransitions => n = f
      PROVE  ApplyObserved(c, e, f) = f
  <2>1. CASE Legal(c, e)
    <3>1. \E n \in Observed : <<c, e, n>> \in observedTransitions
      BY <2>1 DEF Legal
    <3>2. (CHOOSE n \in Observed : <<c, e, n>> \in observedTransitions) = f
      BY <1>1, <3>1
    <3> QED BY <2>1, <3>2 DEF ApplyObserved
  <2>2. CASE ~Legal(c, e)
    BY <2>2 DEF ApplyObserved
  <2> QED BY <2>1, <2>2
<1>2. \A c \in Observed, n \in Observed :
        /\ <<c, "STOPPED", n>> \in observedTransitions => n = "STOPPED"
        /\ <<c, "STOP", n>> \in observedTransitions => n = "STOPPING"
        /\ <<c, "LOST", n>> \in observedTransitions => n = "UNKNOWN"
  BY DEF observedTransitions
<1>3. ASSUME NEW c \in Observed, Legal(c, "STOP") PROVE ApplyObserved(c, "STOP", c) = "STOPPING"
  BY <1>2, <1>3 DEF Legal, ApplyObserved
<1>4. "STOPPED" \in Observed /\ "UNKNOWN" \in Observed /\ "STOPPED" \in Events /\ "LOST" \in Events
  BY DEF Observed, Events
<1>5. ASSUME NEW c \in Observed PROVE ApplyObserved(c, "STOPPED", "STOPPED") = "STOPPED"
  <2>1. \A n \in Observed : <<c, "STOPPED", n>> \in observedTransitions => n = "STOPPED"
    BY <1>2
  <2> QED BY <1>1, <1>4, <2>1, Zenon
<1>6. ASSUME NEW c \in Observed PROVE ApplyObserved(c, "LOST", "UNKNOWN") = "UNKNOWN"
  <2>1. \A n \in Observed : <<c, "LOST", n>> \in observedTransitions => n = "UNKNOWN"
    BY <1>2
  <2> QED BY <1>1, <1>4, <2>1, Zenon
<1> QED BY <1>3, <1>5, <1>6

-----------------------------------------------------------------------------
(***************************************************************************)
(* A step of a visit moves the thread and touches the visited instance.    *)
(***************************************************************************)
Moves(t) ==
  \/ UNCHANGED <<todo, snap>> /\ at' = at /\ pc'[t] # "idle" /\ (pc'[t] = "kill" => after'[t] = "kill")
  \/ UNCHANGED <<todo, snap>> /\ pc'[t] = "pass"
  \/ pc'[t] = "idle" /\ todo'[t] = {}

\* Nothing but instance i changes.
Touches(i) ==
  \A j \in Instances \ {i} : /\ row'[j] = row[j] /\ shim'[j].up = shim[j].up
                             /\ retries'[j] = retries[j] /\ failures'[j] = failures[j]

Visits(t) == agentUp' = TRUE /\ pc[t] \notin AtRest /\ Moves(t) /\ Touches(at[t])

LEMMA MovesOf ==
  ASSUME TypeOK, NEW t \in Threads
  PROVE  /\ \A l, r : Goto(t, l, r) /\ l \notin {"idle", "kill"} => Moves(t)
         /\ \A r, a : CallStop(t, r, a) => Moves(t)
         /\ Advance(t) => Moves(t)
         /\ Return(t) => Moves(t)
BY DEF Moves, Goto, CallStop, Advance, Return, SetLocals, TypeOK

LEMMA TouchesOf ==
  ASSUME TypeOK, NEW i \in Instances, shim' = shim,
         row' = row \/ \E r : Put(i, r),
         retries' = retries \/ Forget({i}),
         failures' = failures \/ (\E n : failures' = [failures EXCEPT ![i] = n]) \/ Forget({i})
  PROVE  Touches(i)
<1>1. \A j \in Instances \ {i} : row'[j] = row[j]
  BY DEF Put, TypeOK
<1>2. \A j \in Instances \ {i} : retries'[j] = retries[j]
  BY DEF Forget, TypeOK
<1>3. \A j \in Instances \ {i} : failures'[j] = failures[j]
  BY DEF Forget, TypeOK
<1> QED BY <1>1, <1>2, <1>3 DEF Touches

\* AfterStop is such a step, and what it makes of the visited instance.
LEMMA AfterStopMoves ==
  ASSUME TypeOK, NEW t \in Threads, NEW r, NEW asked, AfterStop(t, r, asked)
  PROVE  /\ Moves(t)
         /\ \E x : Put(at[t], x)
         /\ UNCHANGED <<failures, retries>> \/ Forget({at[t]})
<1>1. Moves(t)
  BY MovesOf DEF AfterStop, Goto, Moves, TypeOK
<1> QED BY <1>1 DEF AfterStop

LEMMA StopErrorMoves ==
  ASSUME TypeOK, NEW t \in Threads, StopError(t)
  PROVE  Moves(t) /\ UNCHANGED <<failures, retries>>
BY MovesOf DEF StopError, memVars

\* Every step between refresh and the end of a visit.
VisitStep(t) ==
  \/ RefreshFast(t) \/ RefreshNoSocket(t) \/ RefreshUnreachable(t)
  \/ RefreshAlive(t) \/ RefreshDead(t)
  \/ DecideNothing(t) \/ DecideStop(t) \/ DecideStart(t) \/ DecideFatal(t)
  \/ DecideBackoff(t) \/ DecideRetry(t) \/ DecideReset(t)
  \/ BeginProbe(t) \/ ProbeStale(t) \/ ProbeRecorded(t) \/ ProbeFailed(t)
  \/ SignalAdoptRequired(t) \/ SignalIgnored(t) \/ SignalNobody(t) \/ SignalSend(t)
  \/ StopAnswered(t) \/ StopCancelled(t) \/ StopRefused(t) \/ StopFailed(t)
  \/ StartTakeOver(t) \/ StartLaunch(t) \/ StartSpawn(t) \/ StartCommit(t)
  \/ StartCommitFails(t) \/ StartFails(t) \/ StartAborted(t)

LEMMA VisitFrame ==
  ASSUME TypeOK, NEW t \in Threads, VisitStep(t)
  PROVE  Visits(t)
<1>0. at[t] \in Instances /\ pc \in [Threads -> PCs] /\ shim \in [Instances -> Shim]
  BY DEF TypeOK
<1>1. CASE \/ RefreshFast(t) \/ RefreshNoSocket(t) \/ RefreshUnreachable(t)
           \/ RefreshAlive(t) \/ RefreshDead(t)
  <2>1. agentUp' = TRUE /\ pc[t] \notin AtRest /\ shim' = shim
    BY <1>1 DEF RefreshFast, RefreshNoSocket, RefreshUnreachable, RefreshAlive, RefreshDead,
                Running, AtRest, hostVars
  <2>2. \E r : Goto(t, "decide", r)
    BY <1>1 DEF RefreshFast, RefreshNoSocket, RefreshUnreachable, RefreshAlive, RefreshDead,
                NoShimStatus, HandleExit, FoundOrphan, Looked
  <2>3. /\ row' = row \/ \E r : Put(at[t], r)
        /\ retries' = retries
        /\ failures' = failures \/ \E n : failures' = [failures EXCEPT ![at[t]] = n]
    BY <1>1 DEF RefreshFast, RefreshNoSocket, RefreshUnreachable, RefreshAlive, RefreshDead,
                NoShimStatus, HandleExit, FoundOrphan, Looked, storeVars, memVars
  <2> QED BY <1>0, <2>1, <2>2, <2>3, MovesOf, TouchesOf DEF Visits
<1>2. CASE \/ DecideNothing(t) \/ DecideStop(t) \/ DecideStart(t) \/ DecideFatal(t)
           \/ DecideBackoff(t) \/ DecideRetry(t) \/ DecideReset(t) \/ BeginProbe(t)
  <2>1. agentUp' = TRUE /\ pc[t] \notin AtRest /\ shim' = shim
    BY <1>2 DEF DecideNothing, DecideStop, DecideStart, DecideFatal, DecideBackoff, DecideRetry,
                DecideReset, BeginProbe, Deciding, Running, AtRest, hostVars
  <2>2. Moves(t)
    <3>1. CASE DecideRetry(t) \/ BeginProbe(t)
      BY <1>0, <3>1 DEF DecideRetry, BeginProbe, Moves
    <3> QED BY <1>2, <3>1, MovesOf
            DEF DecideNothing, DecideStop, DecideStart, DecideFatal, DecideBackoff, DecideReset
  <2>3. /\ row' = row \/ \E r : Put(at[t], r)
        /\ retries' = retries /\ failures' = failures
    BY <1>2 DEF DecideNothing, DecideStop, DecideStart, DecideFatal, DecideBackoff, DecideRetry,
                DecideReset, BeginProbe, storeVars, memVars
  <2> QED BY <1>0, <2>1, <2>2, <2>3, TouchesOf DEF Visits
<1>3. CASE ProbeStale(t) \/ ProbeRecorded(t) \/ ProbeFailed(t)
  <2>1. agentUp' = TRUE /\ pc[t] \notin AtRest /\ shim' = shim
    BY <1>3 DEF ProbeStale, ProbeRecorded, ProbeFailed, Running, AtRest, hostVars
  <2>2. Moves(t)
    BY <1>3, MovesOf DEF ProbeStale, ProbeRecorded, ProbeFailed
  <2>3. /\ row' = row \/ \E r : Put(at[t], r)
        /\ retries' = retries
        /\ failures' = failures \/ \E n : failures' = [failures EXCEPT ![at[t]] = n]
    BY <1>3 DEF ProbeStale, ProbeRecorded, ProbeFailed, storeVars, memVars
  <2> QED BY <1>0, <2>1, <2>2, <2>3, TouchesOf DEF Visits
<1>4. CASE SignalAdoptRequired(t) \/ SignalIgnored(t) \/ SignalNobody(t) \/ SignalSend(t)
           \/ StopCancelled(t) \/ StopFailed(t) \/ StopAnswered(t) \/ StopRefused(t)
  <2>1. agentUp' = TRUE /\ pc[t] \notin AtRest
    BY <1>4 DEF SignalAdoptRequired, SignalIgnored, SignalNobody, SignalSend, StopCancelled,
                StopFailed, StopAnswered, StopRefused, CanStop, Running, AtRest
  <2>2. \/ \E r, asked : AfterStop(t, r, asked)
        \/ StopError(t) /\ row' = row
        \/ (Advance(t) \/ Return(t) \/ \E r : Goto(t, "stop", r))
           /\ UNCHANGED <<failures, retries>> /\ (row' = row \/ \E r : Put(at[t], r))
    BY <1>4 DEF SignalAdoptRequired, SignalIgnored, SignalNobody, SignalSend, StopCancelled,
                StopFailed, StopAnswered, StopRefused, storeVars, memVars, Put
  <2>3. /\ Moves(t)
        /\ row' = row \/ \E r : Put(at[t], r)
        /\ UNCHANGED <<failures, retries>> \/ Forget({at[t]})
    BY <2>2, MovesOf, AfterStopMoves, StopErrorMoves
  <2>4. shim' = shim \/ \E st \in ExitStatuses : ShimStops(at[t], st)
    BY <1>4 DEF SignalAdoptRequired, SignalIgnored, SignalNobody, SignalSend, StopCancelled,
                StopFailed, StopAnswered, StopRefused, hostVars
  <2>5. \A j \in Instances : shim'[j].up = shim[j].up
    <3>1. ASSUME NEW st \in ExitStatuses, ShimStops(at[t], st)
          PROVE  shim' = shim \/ shim' = [shim EXCEPT ![at[t]].code = st]
      BY <3>1 DEF ShimStops
    <3>2. ASSUME NEW st \in ExitStatuses, shim' = [shim EXCEPT ![at[t]].code = st], NEW j \in Instances
          PROVE  shim'[j].up = shim[j].up
      BY <1>0, <3>2 DEF Shim
    <3> QED BY <2>4, <3>1, <3>2
  <2>6. \A j \in Instances \ {at[t]} : row'[j] = row[j]
    BY <2>3 DEF Put, TypeOK
  <2>7. \A j \in Instances \ {at[t]} : retries'[j] = retries[j] /\ failures'[j] = failures[j]
    BY <2>3 DEF Forget, TypeOK
  <2> QED BY <2>1, <2>3, <2>5, <2>6, <2>7 DEF Visits, Touches
<1>5. CASE \/ StartTakeOver(t) \/ StartLaunch(t) \/ StartSpawn(t) \/ StartCommit(t)
           \/ StartCommitFails(t) \/ StartFails(t) \/ StartAborted(t)
  <2>1. agentUp' = TRUE /\ pc[t] \notin AtRest
    BY <1>5 DEF StartTakeOver, StartLaunch, StartSpawn, StartCommit, StartCommitFails, StartFails,
                StartAborted, Connected, Running, AtRest
  <2>2. Advance(t) \/ \E l \in {"launched", "spawned"} : \E r : Goto(t, l, r)
    BY <1>5 DEF StartTakeOver, StartLaunch, StartSpawn, StartCommit, StartCommitFails, StartFails,
                StartAborted
  <2>3. \A j \in Instances \ {at[t]} : row'[j] = row[j]
    BY <1>5 DEF StartTakeOver, StartLaunch, StartSpawn, StartCommit, StartCommitFails, StartFails,
                StartAborted, Put, storeVars, TypeOK
  <2>4. \A j \in Instances \ {at[t]} : retries'[j] = retries[j] /\ failures'[j] = failures[j]
    BY <1>5 DEF StartTakeOver, StartLaunch, StartSpawn, StartCommit, StartCommitFails, StartFails,
                StartAborted, memVars, TypeOK
  <2>5. \A j \in Instances \ {at[t]} : shim'[j].up = shim[j].up
    BY <1>0, <1>5 DEF StartTakeOver, StartLaunch, StartSpawn, StartCommit, StartCommitFails, StartFails,
                StartAborted, hostVars
  <2>6. Moves(t)
    BY <2>2, MovesOf
  <2> QED BY <2>1, <2>3, <2>4, <2>5, <2>6 DEF Visits, Touches
<1> QED BY <1>1, <1>2, <1>3, <1>4, <1>5 DEF VisitStep

\* Instances that are not visited keep their counts.
LEMMA ElsewhereCounts ==
  ASSUME TypeOK, NEW t \in Threads, NEW i \in Instances, LoopInv(t, i), Visits(t), at[t] # i
  PROVE  LoopInv(t, i)'
<1>1. /\ agentUp' = TRUE /\ row'[i] = row[i] /\ shim'[i].up = shim[i].up
      /\ retries'[i] = retries[i] /\ failures'[i] = failures[i]
  BY DEF Visits, Touches
<1>2. Due(i, row[i])' => Answered(i)'
  BY <1>1 DEF LoopInv, Due, Answered
<1>3. TodoCounts(t, i)'
  BY <1>1 DEF Visits, Moves, LoopInv, TodoCounts, Due, Answered, IsLost
<1>4. at'[t] = i => pc'[t] = "pass" \/ pc'[t] = "idle"
  BY DEF Visits, Moves
<1>5. /\ pc'[t] = "idle" => todo'[t] = {}
      /\ pc'[t] = "kill" => after'[t] = "kill"
  BY DEF Visits, Moves
<1> QED BY <1>1, <1>2, <1>3, <1>4, <1>5 DEF LoopInv, VisitCounts, Limit, AtRest

\* What is left to show of the instance that is.
LEMMA HereCounts ==
  ASSUME TypeOK, NEW t \in Threads, NEW i \in Instances, LoopInv(t, i), Visits(t), at[t] = i,
         retries'[i] <= Limit(i), retries'[i] <= failures'[i] + 1,
         Due(i, row[i])' => Answered(i)' \/ (pc'[t] = "spawned" /\ at'[t] = i),
         pc'[t] \in AtRest \/ VisitCounts(t, i)'
  PROVE  LoopInv(t, i)'
<1>1. agentUp' = TRUE /\ i \notin todo[t] /\ i \notin todo'[t]
  BY DEF Visits, Moves, LoopInv
<1>2. TodoCounts(t, i)'
  BY <1>1 DEF TodoCounts
<1>3. /\ pc'[t] = "idle" => todo'[t] = {}
      /\ pc'[t] = "kill" => after'[t] = "kill"
  BY DEF Visits, Moves
<1>4. pc'[t] \in AtRest => VisitCounts(t, i)'
  BY DEF VisitCounts, AtRest
<1> QED BY <1>1, <1>2, <1>3, <1>4 DEF LoopInv, Limit

-----------------------------------------------------------------------------
(***************************************************************************)
(* The steps of a visit, for the visited instance.                         *)
(***************************************************************************)
LEMMA RefreshCounts ==
  ASSUME TypeOK, ChildrenBehindShims, NEW t \in Threads, NEW i \in Instances, Limit(i) > 0,
         LoopInv(t, i), at[t] = i,
         \/ RefreshFast(t) \/ RefreshNoSocket(t) \/ RefreshUnreachable(t)
         \/ RefreshAlive(t) \/ RefreshDead(t)
  PROVE  LoopInv(t, i)'
<1> DEFINE r == cur[t]
<1>0. /\ r \in Row /\ r # NoRow /\ r.observed \in Observed
      /\ pc \in [Threads -> PCs] /\ cur \in [Threads -> Row] /\ row \in Rows
      /\ failures \in [Instances -> 0..FailCap]
  BY ConstantValues DEF TypeOK, Row, Rows
<1>1. Visits(t) /\ pc[t] = "refresh"
  BY VisitFrame DEF VisitStep, RefreshFast, RefreshNoSocket, RefreshUnreachable, RefreshAlive,
                    RefreshDead, Running
<1>2. /\ shim' = shim /\ retries' = retries /\ at' = at /\ after' = after
      /\ pc' = [pc EXCEPT ![t] = "decide"]
  BY DEF RefreshFast, RefreshNoSocket, RefreshUnreachable, RefreshAlive, RefreshDead, NoShimStatus,
         HandleExit, FoundOrphan, Looked, Goto, hostVars, memVars
<1>3. /\ after[t] = "pass" /\ (Due(i, r) => Answered(i)) /\ (IsLost(row[i]) => IsLost(r))
      /\ (Due(i, row[i]) => Answered(i))
      /\ retries[i] <= Limit(i) /\ retries[i] <= failures[i] + 1
  BY <1>1 DEF LoopInv, VisitCounts, AtRest
<1> SUFFICES /\ retries[i] <= failures'[i] + 1
             /\ Due(i, row[i])' => Answered(i)'
             /\ Due(i, cur[t])' => Answered(i)'
             /\ IsLost(row[i])' => IsLost(cur[t])'
  BY <1>0, <1>1, <1>2, <1>3, HereCounts DEF VisitCounts
<1>4. CASE /\ failures' = failures
           /\ cur'[t] \in Row /\ cur'[t].observed = r.observed
           /\ row' = row \/ row'[i] = cur'[t]
  <2>1. cur'[t] # NoRow
    BY <1>4, ConstantValues
  <2>2. Due(i, cur[t])' => Due(i, r)
    BY <1>0, <1>2, <1>4 DEF Due
  <2>3. CASE row' = row
    BY <1>0, <1>2, <1>3, <1>4, <2>1, <2>2, <2>3 DEF Due, IsLost, Answered
  <2>4. CASE row'[i] = cur'[t]
    BY <1>2, <1>3, <1>4, <2>2, <2>4 DEF Due, IsLost, Answered
  <2> QED BY <1>4, <2>3, <2>4
<1>5. CASE /\ failures' = failures
           /\ row'[i] = cur'[t] /\ cur'[t].observed = "RUNNING"
  BY <1>3, <1>5 DEF Due, IsLost
<1>6. ASSUME NEW q \in Row, NEW st \in ExitCodes, HandleExit(t, q, st),
             CountsAsFailure(q) \/ Due(i, r)
      PROVE  /\ retries[i] <= failures'[i] + 1
             /\ Due(i, row[i])' => Answered(i)'
             /\ Due(i, cur[t])' => Answered(i)'
             /\ IsLost(row[i])' => IsLost(cur[t])'
  <2>1. row'[i] = cur'[t]
    BY <1>0, <1>6 DEF HandleExit, Put, Goto, Rows
  <2>2. failures'[i] = IF CountsAsFailure(q) THEN Bump(failures[i]) ELSE failures[i]
    BY <1>0, <1>6 DEF HandleExit
  <2>3. retries[i] <= failures'[i] /\ failures'[i] \in Nat
    BY <1>3, <1>6, <2>2, BumpAnswers, CountTypes DEF Answered
  <2> QED BY <1>2, <2>1, <2>3, CountTypes DEF Answered, IsLost
<1>7. ASSUME NEW p \in PidOrNone, FoundOrphan(t, r, p), ~shim[i].up
      PROVE  /\ retries[i] <= failures'[i] + 1
             /\ Due(i, row[i])' => Answered(i)'
             /\ Due(i, cur[t])' => Answered(i)'
             /\ IsLost(row[i])' => IsLost(cur[t])'
  <2> DEFINE o == Orphaned(r, p)
  <2>1. o \in Row /\ o.observed = "UNKNOWN"
    <3>1. o \in Row
      BY <1>0, RowValueTypes, TypeGroups
    <3> QED BY <1>0, <3>1, StopStates DEF Orphaned, Row
  <2>2. row'[i] = o /\ cur'[t] = [o EXCEPT !.health = r.health] /\ failures' = failures
    BY <1>0, <1>7 DEF FoundOrphan, Put, Looked, Goto, Rows
  <2> HIDE DEF o
  <2>3. cur'[t] \in Row /\ cur'[t].observed = "UNKNOWN"
    BY <1>0, <2>1, <2>2 DEF Row
  <2> QED BY <1>2, <1>3, <1>7, <2>1, <2>2, <2>3, ConstantValues DEF Due, IsLost
<1>8. ASSUME NoShimStatus(t, r), OrphanPid(i, r) # NoPid => ~shim[i].up
      PROVE  /\ retries[i] <= failures'[i] + 1
             /\ Due(i, row[i])' => Answered(i)'
             /\ Due(i, cur[t])' => Answered(i)'
             /\ IsLost(row[i])' => IsLost(cur[t])'
  <2> DEFINE r0 == [r EXCEPT !.pid = NoPid]
  <2>1. r0 \in Row /\ r0.observed = r.observed
    BY <1>0 DEF Row, PidOrNone
  <2>2. OrphanPid(i, r) \in PidOrNone
    BY DEF OrphanPid, PidOrNone, pidAlive
  <2>3. CASE OrphanPid(i, r) # NoPid
    BY <1>7, <1>8, <2>2, <2>3 DEF NoShimStatus
  <2>4. CASE OrphanPid(i, r) = NoPid /\ CountsAsFailure(r)
    <3>1. HandleExit(t, r0, "none") /\ CountsAsFailure(r0)
      BY <1>8, <2>1, <2>4 DEF NoShimStatus, CountsAsFailure
    <3> QED BY <1>6, <2>1, <3>1 DEF ExitCodes
  <2>5. CASE OrphanPid(i, r) = NoPid /\ ~CountsAsFailure(r)
    <3>1. cur'[t] = r0 /\ failures' = failures /\ (row' = row \/ row'[i] = r0)
      BY <1>0, <1>8, <2>5 DEF NoShimStatus, Looked, Goto, Put, Rows
    <3> QED BY <1>4, <2>1, <3>1
  <2> QED BY <2>3, <2>4, <2>5
<1>9. CASE RefreshFast(t)
  <2>1. failures' = failures /\ row' = row /\ cur'[t] = r
    BY <1>0, <1>9 DEF RefreshFast, Goto, memVars, storeVars
  <2> QED BY <1>0, <1>4, <2>1
<1>10. CASE RefreshNoSocket(t)
  BY <1>8, <1>10 DEF RefreshNoSocket, ChildrenBehindShims
<1>11. CASE RefreshUnreachable(t)
  <2>1. CASE pidAlive(r.pid) /\ sameBoot(r.boot)
    BY <1>7, <1>11, <2>1 DEF RefreshUnreachable, Reconnects, pidAlive, PidOrNone
  <2>2. CASE ~(pidAlive(r.pid) /\ sameBoot(r.boot))
    <3>1. failures' = failures /\ row' = row /\ cur'[t] = r
      BY <1>0, <1>11, <2>2 DEF RefreshUnreachable, Looked, Goto, storeVars
    <3> QED BY <1>0, <1>4, <3>1
  <2> QED BY <2>1, <2>2
<1>12. CASE RefreshAlive(t)
  <2>1. CASE sameBoot(r.boot)
    <3> DEFINE x == [r EXCEPT !.pid = shim[i].child,
                              !.observed = IF @ = "RUNNING" THEN @
                                           ELSE ApplyObserved(@, "START_OK", "RUNNING")]
    <3>1. x.observed = "RUNNING"
      BY <1>0, StartedRuns DEF Row
    <3>2. row'[i] = x /\ cur'[t] = x /\ failures' = failures
      BY <1>0, <1>12, <2>1 DEF RefreshAlive, Put, Looked, Goto, Rows
    <3> QED BY <1>5, <3>1, <3>2
  <2>2. CASE ~sameBoot(r.boot)
    BY <1>8, <1>12, <2>2 DEF RefreshAlive, OrphanPid
  <2> QED BY <2>1, <2>2
<1>13. CASE RefreshDead(t)
  <2>1. CASE r.observed = "STOPPED"
    <3>1. failures' = failures /\ row' = row /\ cur'[t] = r
      BY <1>0, <1>13, <2>1 DEF RefreshDead, Looked, Goto, storeVars
    <3> QED BY <1>0, <1>4, <3>1
  <2>2. CASE r.observed # "STOPPED"
    <3>1. HandleExit(t, r, shim[i].code) /\ shim[i].up
      BY <1>13, <2>2 DEF RefreshDead, Reconnects
    <3>2. shim[i].code \in ExitCodes
      BY CountTypes DEF Shim, ExitCodes
    <3>3. CountsAsFailure(r) \/ Due(i, r)
      BY <1>0, <2>2, <3>1 DEF CountsAsFailure, Due, Observed
    <3> QED BY <1>0, <1>6, <3>1, <3>2, <3>3
  <2> QED BY <2>1, <2>2
<1> QED BY <1>9, <1>10, <1>11, <1>12, <1>13

LEMMA DecideCounts ==
  ASSUME TypeOK, NEW t \in Threads, NEW i \in Instances, Limit(i) > 0,
         LoopInv(t, i), at[t] = i,
         \/ DecideNothing(t) \/ DecideStop(t) \/ DecideStart(t) \/ DecideFatal(t)
         \/ DecideBackoff(t) \/ DecideRetry(t) \/ DecideReset(t) \/ BeginProbe(t)
  PROVE  LoopInv(t, i)'
<1> DEFINE r == cur[t]
<1>0. /\ r \in Row /\ r # NoRow /\ pc \in [Threads -> PCs] /\ cur \in [Threads -> Row] /\ row \in Rows
      /\ after \in [Threads -> Afters]
  BY ConstantValues DEF TypeOK, Rows
<1>1. Visits(t) /\ pc[t] = "decide"
  BY VisitFrame DEF VisitStep, DecideNothing, DecideStop, DecideStart, DecideFatal, DecideBackoff,
                    DecideRetry, DecideReset, BeginProbe, Deciding, Running
<1>2. shim' = shim /\ retries' = retries /\ failures' = failures
  BY DEF DecideNothing, DecideStop, DecideStart, DecideFatal, DecideBackoff, DecideRetry, DecideReset,
         BeginProbe, hostVars, memVars
<1>3. /\ after[t] = "pass" /\ (Due(i, r) => Answered(i)) /\ (IsLost(row[i]) => IsLost(r))
      /\ (Due(i, row[i]) => Answered(i))
      /\ retries[i] <= Limit(i) /\ retries[i] <= failures[i] + 1
  BY <1>1 DEF LoopInv, VisitCounts, AtRest
<1> SUFFICES /\ Due(i, row[i])' => Answered(i)'
             /\ pc'[t] \in AtRest \/ VisitCounts(t, i)'
  BY <1>1, <1>2, <1>3, HereCounts
<1>4. ASSUME row' = row PROVE (Due(i, row[i])' => Answered(i)')
  BY <1>2, <1>3, <1>4 DEF Due, Answered
<1>5. CASE DecideNothing(t) \/ DecideBackoff(t)
  BY <1>0, <1>4, <1>5 DEF DecideNothing, DecideBackoff, Advance, storeVars, AtRest
<1>6. CASE DecideStop(t)
  <2>1. row' = row /\ pc'[t] = "signal" /\ cur'[t] = r /\ after'[t] = "pass"
    BY <1>0, <1>6 DEF DecideStop, CallStop, storeVars
  <2> QED BY <1>2, <1>3, <1>4, <2>1 DEF VisitCounts, Due, Answered
<1>7. CASE DecideStart(t)
  <2>1. row' = row /\ pc'[t] = "start" /\ cur'[t] = r /\ after'[t] = "pass" /\ r.observed = "STOPPED"
    BY <1>0, <1>3, <1>7 DEF DecideStart, Deciding, Goto, storeVars
  <2> QED BY <1>3, <1>4, <2>1 DEF VisitCounts, IsLost
<1>8. CASE DecideFatal(t)
  <2>1. pc'[t] = "pass" /\ Due(i, r)
    BY <1>0, <1>8 DEF DecideFatal, Deciding, Advance, Due
  <2> QED BY <1>2, <1>3, <2>1 DEF AtRest, Answered
<1>9. CASE DecideRetry(t)
  <2>1. row' = row /\ pc'[t] = "start" /\ after'[t] = "restart" /\ Due(i, r)
    BY <1>0, <1>9 DEF DecideRetry, Deciding, Due, storeVars
  <2>2. failures[i] < Limit(i)
    BY <1>9, CountTypes DEF DecideRetry, Verdict, DecideRestart, Limit
  <2> QED BY <1>2, <1>3, <1>4, <2>1, <2>2 DEF VisitCounts, Answered, Limit
<1>10. CASE DecideReset(t)
  <2>1. pc'[t] = "pass" /\ row'[i] = [r EXCEPT !.observed = "STOPPED"]
    BY <1>0, <1>10 DEF DecideReset, Advance, Put, Rows
  <2> QED BY <1>0, <2>1 DEF AtRest, Due, Row
<1>11. CASE BeginProbe(t)
  <2>1. row' = row /\ pc'[t] = "probe"
    BY <1>0, <1>11 DEF BeginProbe, storeVars
  <2> QED BY <1>4, <2>1 DEF VisitCounts
<1> QED BY <1>5, <1>6, <1>7, <1>8, <1>9, <1>10, <1>11

LEMMA ProbeCounts ==
  ASSUME TypeOK, NEW t \in Threads, NEW i \in Instances, Limit(i) > 0,
         LoopInv(t, i), at[t] = i, ProbeStale(t) \/ ProbeRecorded(t) \/ ProbeFailed(t)
  PROVE  LoopInv(t, i)'
<1>0. /\ pc \in [Threads -> PCs] /\ cur \in [Threads -> Row] /\ row \in Rows
      /\ after \in [Threads -> Afters] /\ failures \in [Instances -> 0..FailCap]
  BY DEF TypeOK, Rows
<1>1. Visits(t) /\ pc[t] = "probe"
  BY VisitFrame DEF VisitStep, ProbeStale, ProbeRecorded, ProbeFailed, Running
<1>2. shim' = shim /\ retries' = retries
  BY DEF ProbeStale, ProbeRecorded, ProbeFailed, hostVars, memVars
<1>3. /\ Due(i, row[i]) => Answered(i)
      /\ retries[i] <= Limit(i) /\ retries[i] <= failures[i] + 1
  BY <1>1 DEF LoopInv
<1>4. CASE ProbeStale(t)
  <2>1. row' = row /\ failures' = failures /\ pc'[t] = "pass"
    BY <1>0, <1>4 DEF ProbeStale, Advance, storeVars, memVars
  <2> QED BY <1>1, <1>2, <1>3, <2>1, HereCounts DEF Due, Answered, AtRest
<1>5. ASSUME StillProbed(t), NEW h \in Health, row'[i] = [row[i] EXCEPT !.health = h]
      PROVE  row'[i].observed = "RUNNING" /\ ~Due(i, row[i])'
  <2>1. row[i] \in Row /\ row[i].observed = "RUNNING"
    BY <1>0, <1>5 DEF StillProbed, Rows
  <2>2. row'[i].observed = "RUNNING"
    BY <1>5, <2>1 DEF Row
  <2> QED BY <2>2 DEF Due
<1>6. CASE ProbeRecorded(t)
  <2>1. \E h \in Health : row'[i] = [row[i] EXCEPT !.health = h]
    BY <1>0, <1>6, ConstantTypes DEF ProbeRecorded, Put, Rows
  <2>2. failures' = failures /\ pc'[t] = "pass" /\ StillProbed(t)
    BY <1>0, <1>6 DEF ProbeRecorded, Advance, memVars
  <2> QED BY <1>1, <1>2, <1>3, <1>5, <2>1, <2>2, HereCounts DEF AtRest
<1>7. CASE ProbeFailed(t)
  <2> DEFINE n == Bump(failures[i])
             q == [row[i] EXCEPT !.health = "UNHEALTHY"]
  <2>1. n \in Nat /\ retries[i] <= n
    BY <1>3, BumpAnswers
  <2>2. /\ row'[i] = q /\ cur'[t] = q /\ failures'[i] = n /\ pc'[t] = "signal"
        /\ after'[t] = (IF Limit(i) > 0 /\ n >= Limit(i) THEN "fatal" ELSE "restart")
    BY <1>0, <1>7 DEF ProbeFailed, Put, CallStop, Rows, Limit
  <2>3. row'[i].observed = "RUNNING" /\ ~Due(i, row[i])'
    BY <1>5, <1>7, <2>2 DEF ProbeFailed, Health
  <2> HIDE DEF n, q
  <2>4. ~Due(i, cur[t])'
    BY <2>2, <2>3 DEF Due
  <2>5. after'[t] = "restart" => n < Limit(i)
    BY <2>1, <2>2, CountTypes
  <2>6. VisitCounts(t, i)'
    BY <1>2, <2>1, <2>2, <2>4, <2>5 DEF VisitCounts, Answered, Limit
  <2> QED BY <1>1, <1>2, <1>3, <2>1, <2>2, <2>3, <2>6, CountTypes, HereCounts
<1> QED BY <1>4, <1>6, <1>7

\* What follows signalStop, when the local row owes nothing.
LEMMA AfterStopCounts ==
  ASSUME TypeOK, NEW t \in Threads, NEW i \in Instances, Limit(i) > 0, LoopInv(t, i), at[t] = i,
         NEW r \in Row, NEW asked, AfterStop(t, r, asked), Visits(t), pc[t] \in {"signal", "stop"},
         shim'[i].up = shim[i].up,
         r.observed = "STOPPED" \/ r.observed = cur[t].observed
  PROVE  LoopInv(t, i)'
<1>0. /\ pc \in [Threads -> PCs] /\ cur \in [Threads -> Row] /\ row \in Rows
      /\ retries \in [Instances -> 0..FailCap] /\ failures \in [Instances -> 0..FailCap]
      /\ after[t] \in Afters /\ r # NoRow /\ cur[t] \in Row /\ cur[t] # NoRow
  BY ConstantValues DEF TypeOK, Rows
<1>1. /\ Due(i, cur[t]) => Answered(i)
      /\ after[t] = "fatal" => Answered(i)
      /\ after[t] = "restart" => Answered(i) /\ failures[i] < Limit(i)
      /\ retries[i] <= Limit(i) /\ retries[i] <= failures[i] + 1
  BY DEF LoopInv, VisitCounts
<1>2. Due(i, r) => Answered(i)
  BY <1>0, <1>1 DEF Due
<1>3. CASE after[t] = "surplus" /\ extraInstanceDeletable(r)
  <2>1. row'[i] = NoRow /\ retries'[i] = 0 /\ failures'[i] = 0 /\ pc'[t] = "pass"
    BY <1>0, <1>3 DEF AfterStop, Put, Forget, Advance, Rows
  <2> QED BY <2>1, CountTypes, HereCounts DEF Due, AtRest
<1>4. CASE ~(after[t] = "surplus" /\ extraInstanceDeletable(r))
  <2>1. /\ retries' = retries /\ failures' = failures
        /\ row'[i] = IF after[t] = "fatal"
                     THEN [r EXCEPT !.observed = "FATAL", !.health = "UNHEALTHY"] ELSE r
    BY <1>0, <1>4 DEF AfterStop, Put, Rows
  <2>2. Due(i, row[i])' => Answered(i)'
    BY <1>1, <1>2, <2>1 DEF Due, Answered
  <2>3. CASE after[t] = "restart"
    <3>1. pc'[t] = "start" /\ after'[t] = "restart"
      BY <1>0, <2>3 DEF AfterStop, Goto
    <3>2. VisitCounts(t, i)'
      BY <1>1, <2>1, <2>3, <3>1 DEF VisitCounts, Answered, Limit
    <3> QED BY <1>1, <2>1, <2>2, <3>2, HereCounts
  <2>4. CASE after[t] # "restart"
    <3>1. pc'[t] \in AtRest
      BY <1>0, <2>4 DEF AfterStop, Goto, Advance, AtRest, Afters
    <3> QED BY <1>1, <2>1, <2>2, <3>1, HereCounts
  <2> QED BY <2>3, <2>4
<1> QED BY <1>3, <1>4

LEMMA SignalCounts ==
  ASSUME TypeOK, NEW t \in Threads, NEW i \in Instances, Limit(i) > 0, LoopInv(t, i), at[t] = i,
         \/ SignalAdoptRequired(t) \/ SignalIgnored(t) \/ SignalNobody(t) \/ SignalSend(t)
         \/ StopAnswered(t) \/ StopCancelled(t) \/ StopRefused(t) \/ StopFailed(t)
  PROVE  LoopInv(t, i)'
<1> DEFINE r == cur[t]
<1>0. /\ pc \in [Threads -> PCs] /\ cur \in [Threads -> Row] /\ row \in Rows
      /\ r \in Row /\ r # NoRow /\ r.observed \in Observed /\ shim \in [Instances -> Shim]
  BY ConstantValues DEF TypeOK, Rows, Row
<1>1. Visits(t) /\ pc[t] \in {"signal", "stop"}
  BY VisitFrame DEF VisitStep, SignalAdoptRequired, SignalIgnored, SignalNobody, SignalSend,
                    StopAnswered, StopCancelled, StopRefused, StopFailed, CanStop, Running
<1>2. /\ Due(i, row[i]) => Answered(i)
      /\ VisitCounts(t, i)
      /\ retries[i] <= Limit(i) /\ retries[i] <= failures[i] + 1
  BY <1>1 DEF LoopInv
<1>3. ASSUME NEW st \in ExitStatuses, ShimStops(at[t], st) PROVE shim'[i].up = shim[i].up
  <2>1. shim' = shim \/ shim' = [shim EXCEPT ![i].code = st]
    BY <1>3 DEF ShimStops
  <2> QED BY <1>0, <2>1 DEF Shim
<1>4. ASSUME NEW st \in {"zero", "nonzero"}
      PROVE  StoppedByShim(r, st) \in Row /\ StoppedByShim(r, st).observed = "STOPPED"
  <2>1. NoPid \in PidOrNone
    BY DEF PidOrNone
  <2>2. StoppedByShim(r, st) \in Row
    BY <1>0, <2>1, RowValueTypes, TypeGroups
  <2> QED BY <1>0, <2>2, StopStates DEF StoppedByShim, Row
<1>5. ASSUME row' = row, shim'[i].up = shim[i].up, UNCHANGED <<failures, retries>>, pc'[t] \in AtRest
      PROVE  LoopInv(t, i)'
  BY <1>1, <1>2, <1>5, HereCounts DEF Due, Answered
<1>6. CASE SignalAdoptRequired(t) \/ StopFailed(t)
  <2>1. pc'[t] \in AtRest /\ row' = row /\ shim' = shim /\ UNCHANGED <<failures, retries>>
    BY <1>0, <1>6 DEF SignalAdoptRequired, StopFailed, StopError, Return, Advance, AtRest, hostVars,
                      storeVars, memVars
  <2> QED BY <1>5, <2>1
<1>7. CASE SignalIgnored(t)
  <2>1. CASE AfterStop(t, r, FALSE)
    BY <1>0, <1>1, <1>7, <2>1, AfterStopCounts DEF SignalIgnored, hostVars
  <2>2. CASE Advance(t) /\ UNCHANGED <<row, memVars>>
    BY <1>0, <1>5, <1>7, <2>2 DEF SignalIgnored, Advance, AtRest, hostVars, memVars
  <2> QED BY <1>7, <2>1, <2>2 DEF SignalIgnored
<1>8. CASE SignalNobody(t)
  <2>1. Stopped(r) \in Row /\ Stopped(r).observed = "STOPPED"
    BY <1>0 DEF Stopped, Row, PidOrNone, Observed
  <2> QED BY <1>1, <1>8, <2>1, AfterStopCounts DEF SignalNobody, hostVars
<1>9. CASE SignalSend(t)
  <2>1. /\ shim' = shim /\ retries' = retries /\ failures' = failures
        /\ pc'[t] = "stop" /\ after' = after /\ pc[t] = "signal"
    BY <1>0, <1>9 DEF SignalSend, Goto, hostVars, memVars, Running
  <2>2. CASE Legal(r.observed, "STOP")
    <3> DEFINE q == [r EXCEPT !.observed = ApplyObserved(@, "STOP", @)]
    <3>1. q.observed = "STOPPING"
      BY <1>0, <2>2, StopStates DEF Row
    <3>2. row'[i] = q /\ cur'[t] = q
      BY <1>0, <1>9, <2>2 DEF SignalSend, Goto, Rows
    <3> HIDE DEF q
    <3>3. ~Due(i, row[i])' /\ ~Due(i, cur[t])'
      BY <3>1, <3>2 DEF Due
    <3>4. VisitCounts(t, i)'
      BY <1>2, <2>1, <3>3 DEF VisitCounts, Answered, Limit
    <3> QED BY <1>1, <1>2, <2>1, <3>3, <3>4, HereCounts
  <2>3. CASE ~Legal(r.observed, "STOP")
    <3>1. row' = row /\ cur'[t] = r
      BY <1>0, <1>9, <2>3 DEF SignalSend, Goto
    <3>2. Due(i, row[i])' => Answered(i)'
      BY <1>2, <2>1, <3>1 DEF Due, Answered
    <3>3. VisitCounts(t, i)'
      BY <1>2, <2>1, <3>1 DEF VisitCounts, Due, Answered, Limit
    <3> QED BY <1>1, <1>2, <2>1, <3>2, <3>3, HereCounts
  <2> QED BY <2>2, <2>3
<1>10. CASE StopAnswered(t)
  <2>1. PICK st \in ExitStatuses :
          /\ ShimStops(i, st)
          /\ AfterStop(t, StoppedByShim(r, IF ShimAlive(i) THEN st ELSE shim[i].code), TRUE)
    BY <1>10 DEF StopAnswered
  <2>2. (IF ShimAlive(i) THEN st ELSE shim[i].code) \in {"zero", "nonzero"}
    BY <1>0, ConstantTypes DEF Shim
  <2> QED BY <1>1, <1>3, <1>4, <2>1, <2>2, AfterStopCounts
<1>11. CASE StopCancelled(t)
  <2>1. row' = row /\ UNCHANGED <<failures, retries>> /\ pc'[t] \in AtRest
    BY <1>0, <1>11 DEF StopCancelled, Return, AtRest, storeVars
  <2> QED BY <1>3, <1>5, <1>11, <2>1 DEF StopCancelled
<1>12. CASE StopRefused(t)
  BY <1>1, <1>4, <1>12, AfterStopCounts DEF StopRefused, hostVars
<1> QED BY <1>6, <1>7, <1>8, <1>9, <1>10, <1>11, <1>12

LEMMA StartCounts ==
  ASSUME TypeOK, "commit" \notin FaultKinds, NEW t \in Threads, NEW i \in Instances, Limit(i) > 0,
         LoopInv(t, i), at[t] = i,
         \/ StartTakeOver(t) \/ StartLaunch(t) \/ StartSpawn(t) \/ StartCommit(t)
         \/ StartCommitFails(t) \/ StartFails(t) \/ StartAborted(t)
  PROVE  LoopInv(t, i)'
<1> DEFINE r == cur[t]
<1>0. /\ pc \in [Threads -> PCs] /\ cur \in [Threads -> Row] /\ row \in Rows
      /\ r \in Row /\ r # NoRow /\ r.observed \in Observed
      /\ retries \in [Instances -> 0..FailCap] /\ failures \in [Instances -> 0..FailCap]
  BY ConstantValues DEF TypeOK, Rows, Row
<1>1. Visits(t) /\ pc[t] \in {"start", "launched", "spawned"}
  BY VisitFrame DEF VisitStep, StartTakeOver, StartLaunch, StartSpawn, StartCommit, StartCommitFails,
                    StartFails, StartAborted, Connected, Running
<1>2. /\ Due(i, row[i]) => Answered(i) \/ pc[t] = "spawned"
      /\ VisitCounts(t, i)
      /\ retries[i] <= Limit(i) /\ retries[i] <= failures[i] + 1
  BY <1>1 DEF LoopInv
<1>3. CASE StartTakeOver(t)
  <2>1. pc[t] = "start" /\ pc'[t] \in AtRest /\ UNCHANGED <<shim, failures, retries>>
    BY <1>0, <1>3 DEF StartTakeOver, Running, Advance, AtRest, hostVars
  <2>2. row' = row \/ (row'[i] = TakenOver(r, shim[i].child))
    BY <1>0, <1>3 DEF StartTakeOver, Put, Rows
  <2>3. TakenOver(r, shim[i].child).observed = "RUNNING"
    BY <1>0, CountTypes, TakenOverRuns DEF Shim
  <2> QED BY <1>1, <1>2, <2>1, <2>2, <2>3, HereCounts DEF Due, Answered
<1>4. CASE StartLaunch(t)
  <2>1. /\ pc[t] = "start" /\ pc'[t] = "launched" /\ cur'[t] = r /\ after' = after
        /\ UNCHANGED <<row, failures, retries>>
    BY <1>0, <1>4 DEF StartLaunch, Running, Goto, storeVars, memVars
  <2>2. Due(i, row[i])' => Due(i, row[i]) \/ IsLost(row[i])
    BY <2>1 DEF Due, IsLost
  <2>3. IsLost(row[i]) => Answered(i)
    BY <1>2, <2>1 DEF VisitCounts, IsLost
  <2>4. VisitCounts(t, i)'
    BY <1>2, <2>1 DEF VisitCounts, Answered, Limit
  <2> QED BY <1>1, <1>2, <2>1, <2>2, <2>3, <2>4, HereCounts DEF Answered
<1>5. CASE StartSpawn(t)
  <2>1. /\ pc[t] \in {"start", "launched"} /\ pc'[t] = "spawned" /\ at' = at /\ failures' = failures
        /\ retries'[i] = IF after[t] = "restart" THEN Bump(retries[i]) ELSE retries[i]
    BY <1>0, <1>5 DEF StartSpawn, Connected, Running, Goto
  <2>2. after[t] = "restart" => retries[i] <= failures[i] /\ failures[i] < Limit(i)
    BY <1>2, <2>1 DEF VisitCounts, Answered
  <2>3. retries'[i] <= Limit(i) /\ retries'[i] <= failures'[i] + 1
    BY <1>2, <2>1, <2>2, CountTypes DEF Bump
  <2> QED BY <1>1, <2>1, <2>3, HereCounts DEF VisitCounts
<1>6. CASE StartCommit(t)
  <2> DEFINE q == [r EXCEPT !.exit = "none", !.boot = boot, !.health = "UNKNOWN",
                            !.observed = ApplyObserved(@, "START_OK", "RUNNING")]
  <2>1. q.observed = "RUNNING"
    BY <1>0, StartedRuns DEF Row
  <2>2. row'[i] = q /\ pc'[t] \in AtRest /\ UNCHANGED <<failures, retries>>
    BY <1>0, <1>6 DEF StartCommit, Put, Advance, AtRest, Rows
  <2> QED BY <1>1, <1>2, <2>1, <2>2, HereCounts DEF Due
<1>7. CASE StartCommitFails(t)
  BY <1>7 DEF StartCommitFails, Fault
<1>8. CASE StartFails(t)
  <2>1. pc'[t] \in AtRest /\ retries' = retries /\ failures'[i] = Bump(failures[i])
    BY <1>0, <1>8 DEF StartFails, Advance, AtRest
  <2>2. Bump(failures[i]) \in Nat /\ retries[i] <= Bump(failures[i])
    BY <1>2, BumpAnswers
  <2> QED BY <1>1, <1>2, <2>1, <2>2, CountTypes, HereCounts DEF Answered
<1>9. CASE StartAborted(t)
  <2>1. /\ pc[t] \in {"start", "launched"} /\ pc'[t] \in AtRest
        /\ UNCHANGED <<failures, retries>>
        /\ row'[i] = r \/ row'[i] = [r EXCEPT !.observed = "STARTING"]
    BY <1>0, <1>9 DEF StartAborted, Connected, Running, Advance, AtRest, Put, Rows, memVars
  <2>2. [r EXCEPT !.observed = "STARTING"].observed = "STARTING"
    BY <1>0 DEF Row
  <2>3. Answered(i) \/ r.observed = "STOPPED"
    BY <1>2, <2>1 DEF VisitCounts
  <2> QED BY <1>1, <1>2, <2>1, <2>2, <2>3, HereCounts DEF Due, Answered
<1> QED BY <1>3, <1>4, <1>5, <1>6, <1>7, <1>8, <1>9

\* A pass that begins, picks, or ends, and Kill between two of its instances.
LEMMA ControlCounts ==
  ASSUME TypeOK, NEW t \in Threads, NEW i \in Instances, Limit(i) > 0, LoopInv(t, i),
         BeginReconcile(t) \/ PickNext(t) \/ EndPass(t) \/ KillNext(t) \/ KillPass(t)
  PROVE  LoopInv(t, i)'
<1>0. /\ pc \in [Threads -> PCs] /\ row \in Rows /\ \A r \in Row : r # NoRow
      /\ todo \in [Threads -> SUBSET Instances] /\ snap \in [Threads -> Rows]
      /\ cur \in [Threads -> Row] /\ after \in [Threads -> Afters] /\ at \in [Threads -> Instances]
  BY ConstantValues DEF TypeOK, Rows
<1>1. /\ agentUp' = TRUE /\ shim' = shim /\ failures' = failures /\ retries' = retries
      /\ pc[t] \in AtRest
  BY DEF BeginReconcile, PickNext, EndPass, KillNext, KillPass, Running, hostVars, memVars, AtRest
<1>2. /\ Due(i, row[i]) => Answered(i)
      /\ retries[i] <= Limit(i) /\ retries[i] <= failures[i] + 1
      /\ pc[t] = "kill" => after[t] = "kill"
      /\ TodoCounts(t, i)
  BY <1>1 DEF LoopInv, AtRest
<1>3. ASSUME NEW r, r \in {row[i]} \cup Redesired(i)
      PROVE  /\ Due(i, r) => Due(i, row[i])
             /\ IsLost(r) => IsLost(row[i])
  <2>1. \A q \in Row, d \in Desired : [q EXCEPT !.desired = d].observed = q.observed
    BY DEF Row
  <2>2. r = row[i] \/ \E d \in Desired : row[i] # NoRow /\ r = [row[i] EXCEPT !.desired = d]
    BY <1>3 DEF Redesired
  <2>3. CASE r = row[i]
    BY <2>3
  <2>4. ASSUME NEW d \in Desired, row[i] # NoRow, r = [row[i] EXCEPT !.desired = d]
        PROVE  row[i] # NoRow /\ r.observed = row[i].observed
    BY <1>0, <2>1, <2>4 DEF Rows
  <2> QED BY <2>2, <2>3, <2>4 DEF Due, IsLost
<1>4. \A p \in Procs, d \in Desired : WithDesired(p, d)[i] \in {row[i]} \cup Redesired(i)
  BY DEF WithDesired, RowsOf, Redesired
<1>5. ASSUME NEW j, NEW rs \in Rows, EnterPass(t, j, rs), row' = rs, rs[i] \in {row[i]} \cup Redesired(i)
      PROVE  LoopInv(t, i)'
  <2>1. pc'[t] = "pass" /\ snap'[t] = rs
    BY <1>0, <1>5 DEF EnterPass, SetLocals
  <2>2. Due(i, rs[i]) => Answered(i)
    BY <1>2, <1>3, <1>5
  <2>3. TodoCounts(t, i)' /\ (Due(i, row[i])' => Answered(i)')
    BY <1>1, <1>5, <2>1, <2>2 DEF TodoCounts, Due, IsLost, Answered
  <2> QED BY <1>1, <1>2, <2>1, <2>3 DEF LoopInv, VisitCounts, AtRest, Limit
<1>6. CASE BeginReconcile(t)
  <2>1. row' = row
    BY <1>6 DEF BeginReconcile, storeVars
  <2> QED BY <1>0, <1>5, <1>6, <2>1 DEF BeginReconcile
<1>7. ASSUME Return(t), row'[i] \in {row[i]} \cup Redesired(i)
      PROVE  LoopInv(t, i)'
  <2>1. pc'[t] = "idle" /\ todo'[t] = {}
    BY <1>0, <1>7 DEF Return, SetLocals
  <2>2. Due(i, row[i])' => Answered(i)'
    BY <1>1, <1>2, <1>3, <1>7 DEF Due, Answered
  <2> QED BY <1>1, <1>2, <2>1, <2>2 DEF LoopInv, TodoCounts, VisitCounts, AtRest, Limit
<1>8. CASE EndPass(t)
  <2>1. row'[i] \in {row[i]} \cup Redesired(i)
    BY <1>8 DEF EndPass, RowsOf, Redesired, Desired
  <2> QED BY <1>7, <1>8, <2>1 DEF EndPass
<1>9. CASE KillPass(t)
  <2>1. row' = WithDesired(job[t].proc, "STOPPED") /\ job[t].proc \in Procs
    BY <1>9 DEF KillPass, TypeOK, Jobs
  <2>2. row' \in Rows
    BY <2>1, WithDesiredType, TypeGroups DEF Desired
  <2> QED BY <1>4, <1>5, <1>7, <1>9, <2>1, <2>2 DEF KillPass, Desired
<1>10. CASE PickNext(t) \/ KillNext(t)
  <2>1. PICK j \in todo[t] :
          /\ todo' = [todo EXCEPT ![t] = @ \ {j}]
          /\ at' = [at EXCEPT ![t] = j]
          /\ row' = row /\ snap' = snap
          /\ \/ /\ pc'[t] \in {"signal", "refresh"} /\ snap[t][j] # NoRow /\ cur'[t] = snap[t][j]
                /\ after'[t] = (IF pc'[t] = "signal" THEN "surplus" ELSE "pass")
             \/ pc'[t] = "signal" /\ cur'[t] = row[j] /\ after'[t] = after[t] /\ pc[t] = "kill"
    BY <1>0, <1>10 DEF PickNext, KillNext, Running, storeVars
  <2>2. at'[t] = j /\ todo'[t] = todo[t] \ {j} /\ (pc'[t] # "idle" /\ pc'[t] # "kill")
    BY <1>0, <2>1
  <2>3. TodoCounts(t, i)' /\ (Due(i, row[i])' => Answered(i)')
    BY <1>1, <1>2, <2>1, <2>2 DEF TodoCounts, Due, IsLost, Answered
  <2>4. ASSUME j = i PROVE VisitCounts(t, i)'
    <3>1. Due(i, cur[t])' => Answered(i)'
      BY <1>1, <1>2, <2>1, <2>4 DEF TodoCounts, Due, Answered
    <3>2. pc'[t] = "refresh" /\ IsLost(row[i])' => IsLost(cur[t])'
      BY <1>2, <2>1, <2>4 DEF TodoCounts, IsLost
    <3> QED BY <1>2, <2>1, <3>1, <3>2 DEF VisitCounts
  <2> QED BY <1>1, <1>2, <2>2, <2>3, <2>4 DEF LoopInv, Limit
<1> QED BY <1>6, <1>8, <1>9, <1>10

LEMMA PassCounts ==
  ASSUME TypeOK, ChildrenBehindShims, "commit" \notin FaultKinds, NEW t \in Threads,
         NEW i \in Instances, Limit(i) > 0, LoopInv(t, i), BeginReconcile(t) \/ PassStep(t)
  PROVE  LoopInv(t, i)'
<1>1. CASE VisitStep(t)
  <2>1. CASE at[t] # i
    BY <1>1, <2>1, VisitFrame, ElsewhereCounts
  <2>2. CASE at[t] = i
    BY <1>1, <2>2, RefreshCounts, DecideCounts, ProbeCounts, SignalCounts, StartCounts DEF VisitStep
  <2> QED BY <2>1, <2>2
<1>2. CASE ~VisitStep(t)
  BY <1>2, ControlCounts DEF PassStep, VisitStep
<1> QED BY <1>1, <1>2

-----------------------------------------------------------------------------
(***************************************************************************)
(* Requests, the agent's end and start, and the host.                      *)
(***************************************************************************)
\* What a request owes: it clears the record of i, or makes no row of it due.
LEMMA RequestCounts ==
  ASSUME TypeOK, HonestInv, NEW t \in Threads, NEW i \in Instances, Limit(i) > 0, LoopInv(t, i),
         Request, agentUp' = agentUp, shim' = shim,
         \/ UNCHANGED threadVars
         \/ /\ pc'[t] \in {"pass", "kill"} /\ (pc'[t] = "kill" => after'[t] = "kill")
            /\ \A j \in todo'[t] : snap'[t][j] \in {NoRow, row'[j]},
         UNCHANGED <<failures[i], retries[i]>> \/ (failures'[i] = 0 /\ retries'[i] = 0),
         Due(i, row[i])' => Due(i, row[i]) \/ Answered(i)',
         IsLost(row[i])' => IsLost(row[i])
  PROVE  LoopInv(t, i)'
<1>1. agentUp' = TRUE /\ pc[t] \in {"idle", "probe"} /\ failures[i] \in Nat /\ Limit(i) \in Nat
  BY CountTypes, ConstantValues DEF Request, HonestInv, ThreadHonest, Unlocked
<1>2. /\ Due(i, row[i]) => Answered(i)
      /\ retries[i] <= Limit(i) /\ retries[i] <= failures[i] + 1
      /\ TodoCounts(t, i)
  BY <1>1 DEF LoopInv
<1>3. retries'[i] <= Limit(i) /\ retries'[i] <= failures'[i] + 1 /\ (Answered(i) => Answered(i)')
  BY <1>1, <1>2 DEF Answered
<1>4. Due(i, row[i])' => Answered(i)'
  BY <1>2, <1>3
<1>5. CASE UNCHANGED threadVars
  <2>1. UNCHANGED <<pc[t], todo, snap, at, after>>
    BY <1>5 DEF threadVars
  <2>2. TodoCounts(t, i)'
    BY <1>2, <1>3, <2>1 DEF TodoCounts, Due, IsLost
  <2>3. /\ pc[t] = "idle" => todo[t] = {}
        /\ at[t] = i => (pc[t] \notin AtRest => i \notin todo[t])
    BY DEF LoopInv
  <2> QED BY <1>1, <1>3, <1>4, <2>1, <2>2, <2>3 DEF LoopInv, VisitCounts, Limit
<1>6. CASE /\ pc'[t] \in {"pass", "kill"} /\ (pc'[t] = "kill" => after'[t] = "kill")
           /\ \A j \in todo'[t] : snap'[t][j] \in {NoRow, row'[j]}
  <2>1. TodoCounts(t, i)'
    BY <1>4, <1>6 DEF TodoCounts, Due, IsLost
  <2> QED BY <1>1, <1>3, <1>4, <1>6, <2>1 DEF LoopInv, VisitCounts, AtRest, Limit
<1> QED BY <1>5, <1>6

LEMMA RedesiredCounts ==
  ASSUME TypeOK, NEW i \in Instances, row'[i] \in {row[i]} \cup Redesired(i), shim' = shim
  PROVE  (Due(i, row[i])' => Due(i, row[i])) /\ (IsLost(row[i])' => IsLost(row[i]))
<1>1. \A q \in Row, d \in Desired : [q EXCEPT !.desired = d].observed = q.observed
  BY DEF Row
<1>2. row'[i] = row[i] \/ \E d \in Desired : row[i] # NoRow /\ row'[i] = [row[i] EXCEPT !.desired = d]
  BY DEF Redesired
<1>3. ASSUME NEW d \in Desired, row[i] # NoRow, row'[i] = [row[i] EXCEPT !.desired = d]
      PROVE  row'[i].observed = row[i].observed
  BY <1>1, <1>3 DEF TypeOK
<1> QED BY <1>2, <1>3 DEF Due, IsLost

LEMMA OperatorCounts ==
  ASSUME TypeOK, HonestInv, NEW t \in Threads, Threads = {t}, NEW i \in Instances, Limit(i) > 0,
         LoopInv(t, i), OperatorStep
  PROVE  LoopInv(t, i)'
<1>0. /\ row \in Rows /\ pc \in [Threads -> PCs] /\ todo \in [Threads -> SUBSET Instances]
      /\ snap \in [Threads -> Rows] /\ after \in [Threads -> Afters]
      /\ retries \in [Instances -> 0..FailCap] /\ failures \in [Instances -> 0..FailCap]
      /\ \A p \in Procs, d \in Desired : WithDesired(p, d)[i] \in {row[i]} \cup Redesired(i)
  BY DEF TypeOK, Rows, WithDesired, RowsOf, Redesired
<1> DEFINE Owed == /\ Due(i, row[i])' => Due(i, row[i]) \/ Answered(i)'
                   /\ IsLost(row[i])' => IsLost(row[i])
<1>1. ASSUME NEW p \in Procs, NEW n \in 1..MaxInst, ApplySpec(p, n) PROVE LoopInv(t, i)'
  <2> DEFINE d == IF \E j \in Instances : /\ Proc[j] = p /\ row[j] # NoRow
                                          /\ Ordinal[j] < n /\ row[j].desired = "RUNNING"
                  THEN "RUNNING" ELSE "STOPPED"
  <2>1. row'[i] = IF Proc[i] # p THEN row[i]
                  ELSE IF Ordinal[i] < n
                       THEN IF row[i] = NoRow THEN NewRow(d) ELSE row[i]
                  ELSE IF row[i] = NoRow \/ extraInstanceDeletable(row[i]) THEN NoRow
                  ELSE [row[i] EXCEPT !.desired = "STOPPED"]
    BY <1>1 DEF ApplySpec, EnsureInstances
  <2>2. NewRow(d).observed = "STOPPED"
    BY DEF NewRow
  <2> HIDE DEF d
  <2>3. \/ row'[i] \in {row[i]} \cup Redesired(i)
        \/ row'[i] = NoRow \/ row'[i] = NewRow(d)
    BY <2>1 DEF Redesired, Desired
  <2>4. Owed
    BY <1>1, <2>2, <2>3, RedesiredCounts DEF Due, IsLost, ApplySpec, hostVars
  <2>5. UNCHANGED <<failures[i], retries[i]>> \/ (failures'[i] = 0 /\ retries'[i] = 0)
    BY <1>1 DEF ApplySpec, Forget
  <2> QED BY <1>1, <2>4, <2>5, RequestCounts DEF ApplySpec, hostVars
<1>2. ASSUME NEW p \in Procs, DeleteSpec(p) PROVE LoopInv(t, i)'
  <2>1. Owed
    BY <1>2 DEF DeleteSpec, Due, IsLost, hostVars
  <2>2. UNCHANGED <<failures[i], retries[i]>> \/ (failures'[i] = 0 /\ retries'[i] = 0)
    BY <1>2 DEF DeleteSpec, Forget
  <2> QED BY <1>2, <2>1, <2>2, RequestCounts DEF DeleteSpec, hostVars
<1>3. ASSUME NEW p \in Procs, NEW d \in Desired, SetDesired(p, d) PROVE LoopInv(t, i)'
  <2>1. Owed
    BY <1>0, <1>3, RedesiredCounts DEF SetDesired, hostVars
  <2> QED BY <1>3, <2>1, RequestCounts DEF SetDesired, hostVars, memVars
<1>4. ASSUME NEW p \in Procs, ResetFailure(p) PROVE LoopInv(t, i)'
  <2>1. row'[i] = row[i] \/ row'[i].observed = "STOPPED"
    BY <1>0, <1>4 DEF ResetFailure, RowsOf, Rows, Row
  <2>2. Owed
    BY <1>4, <2>1 DEF ResetFailure, Due, IsLost, hostVars
  <2>3. UNCHANGED <<failures[i], retries[i]>> \/ (failures'[i] = 0 /\ retries'[i] = 0)
    BY <1>4 DEF ResetFailure
  <2> QED BY <1>4, <2>2, <2>3, RequestCounts DEF ResetFailure, hostVars
<1>5. ASSUME NEW p \in Procs, BeginKill(t, p) PROVE LoopInv(t, i)'
  <2>1. pc'[t] = "kill" /\ after'[t] = "kill" /\ snap'[t] = NoRows
    BY <1>0, <1>5 DEF BeginKill, SetLocals
  <2>2. Owed /\ \A j \in todo'[t] : snap'[t][j] \in {NoRow, row'[j]}
    BY <1>5, <2>1, TypeGroups, TypeGroupsPrime, OperatorType
       DEF BeginKill, Due, IsLost, NoRows, hostVars, storeVars, ThreadOK, OperatorStep
  <2> QED BY <1>5, <2>1, <2>2, RequestCounts DEF BeginKill, hostVars, memVars
<1>6. ASSUME NEW p \in Procs, BeginRestart(t, p) PROVE LoopInv(t, i)'
  <2>1. row' = WithDesired(p, "STOPPED") /\ row'[i] \in {row[i]} \cup Redesired(i)
    BY <1>0, <1>6 DEF BeginRestart, Desired
  <2>2. Owed
    BY <1>6, <2>1, RedesiredCounts DEF BeginRestart, hostVars
  <2>3. UNCHANGED threadVars \/ (pc'[t] = "pass" /\ snap'[t] = row')
    BY <1>0, <1>6, <2>1 DEF BeginRestart, EnterPass, SetLocals
  <2> QED BY <1>6, <2>2, <2>3, RequestCounts DEF BeginRestart, hostVars, memVars
<1>7. ASSUME NEW j \in Instances, NEW p \in Pids, Adopt(j, p) PROVE LoopInv(t, i)'
  <2>1. row'[i] = row[i] \/ row'[i].observed = "RUNNING"
    BY <1>0, <1>7 DEF Adopt, Put, Rows, Row
  <2>2. Owed
    BY <1>7, <2>1 DEF Adopt, Due, IsLost, hostVars
  <2> QED BY <1>7, <2>2, RequestCounts DEF Adopt, hostVars, memVars
<1> QED BY <1>1, <1>2, <1>3, <1>4, <1>5, <1>6, <1>7 DEF OperatorStep

LEMMA HostCounts ==
  ASSUME TypeOK, NEW t \in Threads, NEW i \in Instances, Limit(i) > 0, LoopInv(t, i),
         "expire" \notin FaultKinds, HostStep
  PROVE  LoopInv(t, i)'
<1>0. /\ shim \in [Instances -> Shim] /\ Limit(i) \in Nat
      /\ live \in [Pids -> Instances \cup {NoInst}]
  BY CountTypes DEF TypeOK
<1>1. ASSUME AgentGone PROVE LoopInv(t, i)'
  <2>1. retries'[i] = 0 /\ failures'[i] = 0 /\ pc'[t] = "idle" /\ todo'[t] = {}
    BY <1>1 DEF AgentGone, Forget
  <2> QED BY <1>0, <2>1 DEF LoopInv, Answered, TodoCounts, VisitCounts, AtRest, Limit
<1>2. ASSUME UNCHANGED <<storeVars, agentUp, memVars, threadVars>>, shim'[i].up => shim[i].up
      PROVE  LoopInv(t, i)'
  <2>1. UNCHANGED <<row, agentUp, retries, failures, pc, at, todo, snap, after, cur>>
    BY <1>2 DEF storeVars, memVars, threadVars
  <2>2. \A r : Due(i, r)' => Due(i, r)
    BY <1>2 DEF Due
  <2>3. TodoCounts(t, i)' /\ (at[t] = i => VisitCounts(t, i)')
    BY <1>2, <2>1 DEF LoopInv, TodoCounts, VisitCounts, Answered, IsLost, Limit, Due
  <2> QED BY <1>2, <2>1, <2>3 DEF LoopInv, Answered, Limit, Due
<1>3. CASE AgentCrash \/ HostReboot
  BY <1>1, <1>3 DEF AgentCrash, HostReboot
<1>4. ASSUME NEW p \in Pids, NEW st \in ExitStatuses, ChildExit(p, st) PROVE LoopInv(t, i)'
  <2>1. shim'[i].up = shim[i].up
    BY <1>0, <1>4 DEF ChildExit, Shim
  <2> QED BY <1>2, <1>4, <2>1 DEF ChildExit
<1>5. ASSUME NEW j \in Instances, NEW k \in BOOLEAN, ShimDies(j, k) PROVE LoopInv(t, i)'
  <2>1. shim'[i].up => shim[i].up
    BY <1>0, <1>5 DEF ShimDies, NoShim
  <2> QED BY <1>2, <1>5, <2>1 DEF ShimDies
<1>6. ASSUME NEW j \in Instances, FailureExpires(j) PROVE LoopInv(t, i)'
  BY <1>6 DEF FailureExpires
<1> QED BY <1>3, <1>4, <1>5, <1>6 DEF HostStep

\* The agent that starts has an empty memory.
LEMMA RecoverCounts ==
  ASSUME TypeOK, NEW t \in Threads, NEW i \in Instances, LoopInv(t, i), Recover
  PROVE  LoopInv(t, i)'
<1>1. /\ ~agentUp /\ agentUp' = TRUE
      /\ UNCHANGED <<retries, failures, pc, todo>>
  BY DEF Recover, memVars, threadVars
<1>2. pc'[t] = "idle" /\ Answered(i)' /\ todo'[t] = {}
  BY <1>1 DEF LoopInv, Answered
<1> QED BY <1>1, <1>2 DEF LoopInv, TodoCounts, VisitCounts, AtRest, Limit

LEMMA NextCounts ==
  Steady => (TypeOK /\ ChildrenBehindShims /\ HonestInv /\ CountInv /\ [Next]_vars => CountInv')
<1> SUFFICES ASSUME Steady, TypeOK, ChildrenBehindShims, HonestInv, CountInv, [Next]_vars,
                    NEW t \in Threads, NEW i \in Instances, Limit(i) > 0
             PROVE  LoopInv(t, i)'
  BY DEF CountInv, Limit
<1>1. Threads = {t} /\ LoopInv(t, i) /\ "expire" \notin FaultKinds /\ "commit" \notin FaultKinds
  BY DEF Steady, CountInv
<1>2. CASE UNCHANGED vars
  <2>1. UNCHANGED <<row, shim, agentUp, retries, failures, pc, at, todo, snap, after, cur>>
    BY <1>2 DEF vars, hostVars, storeVars, memVars, threadVars
  <2> QED BY <1>1, <2>1 DEF LoopInv, TodoCounts, VisitCounts, Due, IsLost, Answered, Limit
<1>3. CASE \E u \in Threads : BeginReconcile(u) \/ PassStep(u)
  BY <1>1, <1>3, PassCounts
<1> QED BY <1>1, <1>2, <1>3, RecoverCounts, OperatorCounts, HostCounts DEF Next

LEMMA InitCounts == Init => CountInv
<1> SUFFICES ASSUME Init, NEW t \in Threads, NEW i \in Instances, Limit(i) > 0 PROVE LoopInv(t, i)
  BY DEF CountInv
<1>1. retries[i] = 0 /\ failures[i] = 0 /\ pc[t] = "idle" /\ todo[t] = {} /\ Limit(i) \in Nat
  BY InitType, CountTypes DEF Init
<1> QED BY <1>1 DEF LoopInv, Answered, TodoCounts, VisitCounts, AtRest

\* A manager that runs one pass at a time, commits its starts and forgets no
\* failure restarts an instance at most MaxRetries times until its record is
\* cleared (DecideRestart, handleExit, applyHealth): each restart but the last
\* answers a failure of its own, and the row that leads to another one says
\* that the last one has failed too.
THEOREM CrashLoopsEnd == Steady => (Spec => []CrashLoopBounded)
<1> SUFFICES ASSUME Steady PROVE Spec => []CrashLoopBounded
  OBVIOUS
<1>1. CountInv => CrashLoopBounded
  BY DEF Steady, CountInv, LoopInv, CrashLoopBounded, Limit
<1>2. TypeOK /\ ChildrenBehindShims /\ HonestInv /\ CountInv /\ [Next]_vars => CountInv'
  BY NextCounts
<1> QED BY <1>1, <1>2, InitCounts, InitHonest, NextHonest, TypeCorrect,
           ChildrenStayBehindShims, PTL DEF Spec
=============================================================================
