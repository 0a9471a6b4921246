-------------------------- MODULE ReplicationProofs -------------------------
(***************************************************************************)
(* Proofs about Replication for any nodes, plans, fires and runs, any      *)
(* number of elections and any events.                                     *)
(*                                                                         *)
(* Whatever commits, the ledger of runs and tasks takes one of six small   *)
(* steps (LedgerStep). Each action is shown to take one of them, and what  *)
(* the theorems say is shown for the six.                                  *)
(***************************************************************************)
EXTENDS Replication, RunLedgerProofs

-----------------------------------------------------------------------------
(* The inductive invariant. *)

\* A run that does not exist has no route and no owner.
BlankUntilOpen ==
  \A r \in Runs : runs[r].status = "absent" => runs[r].routes = {} /\ runTerm[r] = 0

\* The routes of a run are those that have a task.
PlanHasTasks ==
  \A r \in Runs, u \in Routes : IF u \in runs[r].routes THEN tasks[r][u].st # "none"
                                ELSE tasks[r][u] = NoTask

\* A run that has ended has an end for every route, and is what they add up to.
EndedIsComplete ==
  \A r \in Runs : runs[r].status \in TerminalRun =>
    /\ \A u \in runs[r].routes : tasks[r][u].st \in TerminalTask
    /\ runs[r].status = Verdict(Statuses(r), runs[r].routes)

Ledger ==
  /\ runs \in [Runs -> RunRecords]
  /\ tasks \in [Runs -> [Routes -> TaskRecords]]
  /\ runTerm \in [Runs -> Terms]
  /\ BlankUntilOpen /\ PlanHasTasks /\ EndedIsComplete

\* What a Tick carries along: a fire that is to be entered as claimed has its
\* run, runs to take over exist, and what is to be dispatched is of the plan.
Planned == {d \in [r : Runs, todo : SUBSET Todos] : \A x \in d.todo : x.u \in runs[d.r].routes}
LoopOK(l) ==
  /\ l.pc \in {"create", "enter", "skip"} => l.fire \in Fires
  /\ l.pc = "enter" => runs[l.fire].status # "absent"
  /\ \A r \in l.ids : runs[r].status # "absent"
  /\ l.out \in Seq(Planned)
StartOK(a) == a # NoStart => a.run \in Manual
JobOK(j) == \A x \in j.todo : j.run \in Runs /\ x.u \in runs[j.run].routes

\* A goroutine works on a route of its run; it pushes a snapshot it has, and it
\* believes in a success only while the target holds what it pushed.
WorkerOK(w) ==
  /\ w.u \in runs[w.r].routes
  /\ w.pc \in {"note", "push"} \/ w.req # 0 => w.snap # 0
  /\ w.pc \in {"finish", "last"} => w.st \in TerminalTask
  /\ w.st = "SUCCESS" => w.pc = "finish" /\ w.snap # 0 /\ replica[w.r][w.u] = w.snap

LoopsOK == loop \in [Nodes -> Loops] /\ \A n \in Nodes : LoopOK(loop[n])
StartsOK == api \in [Nodes -> Starts] /\ \A n \in Nodes : StartOK(api[n])
JobsOK == jobs \in [Nodes -> [Kinds -> Dispatches]] /\ \A n \in Nodes, k \in Kinds : JobOK(jobs[n][k])
WorkOK == work \subseteq Workers /\ \A w \in work : WorkerOK(w)

Plain ==
  /\ term \in Terms /\ leader \in Nodes \cup {None}
  /\ policy \in [routes : SUBSET Routes, rev : Nat, epoch : Nat]
  /\ fires \in [Fires -> {"none", "CLAIMED", "SKIPPED"}]
  /\ due \in Fires \cup {0} /\ used \in Nat
  /\ spec \in [Nodes -> Nat \ {0}]
  /\ taken \in [Runs -> [Nodes -> Nat]]
  /\ replica \in [Runs -> [Routes -> Nat]]

Inv ==
  /\ Plain /\ Ledger /\ LoopsOK /\ StartsOK /\ JobsOK /\ WorkOK
  /\ SuccessIsStored /\ ClaimedHasRun

-----------------------------------------------------------------------------
(* The steps the ledger takes. *)

Same == UNCHANGED <<runs, tasks, runTerm>>

Opens(r, ts, rev, t) ==
  /\ runs[r].status = "absent"
  /\ runs' = [runs EXCEPT ![r] = [status |-> "RUNNING", rev |-> rev, routes |-> ts,
                                  lease |-> TRUE, count |-> NoCount]]
  /\ runTerm' = [runTerm EXCEPT ![r] = t]
  /\ tasks' = [tasks EXCEPT ![r] = [u \in Routes |->
       IF u \in ts THEN [st |-> "PENDING", term |-> t, snap |-> 0] ELSE NoTask]]

\* The lease of a run begins, perhaps for another owner, or ends.
Leases(r, b, t) ==
  /\ t >= runTerm[r] /\ (runs[r].status = "absent" => t = runTerm[r])
  /\ runs' = [runs EXCEPT ![r].lease = b]
  /\ runTerm' = [runTerm EXCEPT ![r] = t]
  /\ tasks' = tasks

Begins(r, u, v, t) ==
  /\ BeginOK(r, u, v, t)
  /\ tasks' = [tasks EXCEPT ![r][u] =
       IF @.st = "RUNNING" THEN [@ EXCEPT !.snap = v] ELSE [st |-> "RUNNING", term |-> t, snap |-> v]]
  /\ UNCHANGED <<runs, runTerm>>

\* The end of a route; a success is one the target holds.
Settles(r, u, s, v, t) ==
  /\ u \in runs[r].routes /\ UpdateOK(r, u, t) /\ tasks[r][u].st \notin TerminalTask
  /\ s = "SUCCESS" => v # 0 /\ replica[r][u] = v
  /\ tasks' = [tasks EXCEPT ![r][u] =
       [st |-> s, term |-> t, snap |-> IF v = 0 THEN @.snap ELSE v]]
  /\ runTerm' = Newer(r, t)
  /\ runs' = [runs EXCEPT ![r] = Aggregated(@, [Statuses(r) EXCEPT ![u] = s], @.routes)]

Failed(r) == {u \in Routes : tasks[r][u].st \in RetryableTask}
Retries(r, t) ==
  /\ runs[r].status # "absent" /\ runTerm[r] <= t
  /\ tasks' = [tasks EXCEPT ![r] = [u \in Routes |->
       IF u \in Failed(r) THEN [@[u] EXCEPT !.st = "PENDING", !.term = t] ELSE @[u]]]
  /\ runs' = IF Failed(r) = {} THEN runs
             ELSE [runs EXCEPT ![r] = [@ EXCEPT !.status = "RUNNING", !.lease = TRUE,
                                                !.count = NoCount]]
  /\ runTerm' = Newer(r, t)

LedgerStep ==
  \/ Same
  \/ \E r \in Runs, ts \in SUBSET Routes, rev \in Nat, t \in Terms : Opens(r, ts, rev, t)
  \/ \E r \in Runs, b \in BOOLEAN, t \in Terms : Leases(r, b, t)
  \/ \E r \in Runs, u \in Routes, v \in Nat, t \in Terms : Begins(r, u, v, t)
  \/ \E r \in Runs, u \in Routes, s \in TerminalTask, v \in Nat, t \in Terms : Settles(r, u, s, v, t)
  \/ \E r \in Runs, t \in Terms : Retries(r, t)

\* Runs stay, with their routes; what a target holds stays.
Grows ==
  \A r \in Runs : /\ runs[r].status # "absent" => runs'[r].status # "absent"
                  /\ runs[r].routes \subseteq runs'[r].routes
ReplicaStays ==
  \A r \in Runs, u \in Routes : replica[r][u] # 0 => replica'[r][u] = replica[r][u]
\* A fire is entered as claimed only when its run exists.
FiresFollowRuns ==
  \A f \in Fires : fires'[f] = "CLAIMED" => fires[f] = "CLAIMED" \/ runs[f].status # "absent"

-----------------------------------------------------------------------------
(* What the six steps keep. *)

LEMMA RoutesFinite == \A S \in SUBSET Routes : IsFiniteSet(S)
BY ReplicationConstants, FS_Product, FS_Subset DEF ReplicationConstants

LEMMA TermsAreNats == Terms \subseteq Nat /\ 0 \in Terms
BY ReplicationConstants DEF ReplicationConstants, Terms

LEMMA NodesOfRoute == \A u \in Routes : u[1] \in Nodes /\ u[2] \in Nodes
BY ReplicationConstants DEF ReplicationConstants

\* An update that does not complete the run's routes leaves the run as it is;
\* one that does gives it the status they add up to.
LEMMA AggregatedRun ==
  ASSUME NEW run \in RunRecords, NEW st
  PROVE  /\ Aggregated(run, st, run.routes) \in RunRecords
         /\ Aggregated(run, st, run.routes).routes = run.routes
         /\ run.status \notin TerminalRun /\ run.routes # {} =>
              Aggregated(run, st, run.routes).status =
                IF \A u \in run.routes : st[u] \in TerminalTask THEN Verdict(st, run.routes)
                ELSE run.status
<1>1. Counted(st, run.routes) \in Counts
  BY RoutesFinite, CountedType DEF RunRecords
<1>2. Verdict(st, run.routes) \in RunStatus
  BY VerdictType DEF RunStatus
<1> QED
  BY <1>1, <1>2 DEF Aggregated, RunRecords

LEMMA OpensKeeps ==
  ASSUME Ledger, NEW r \in Runs, NEW ts \in SUBSET Routes, NEW rev \in Nat, NEW t \in Terms,
         Opens(r, ts, rev, t)
  PROVE  Ledger'
<1> DEFINE run == [status |-> "RUNNING", rev |-> rev, routes |-> ts, lease |-> TRUE, count |-> NoCount]
           row == [u \in Routes |-> IF u \in ts THEN [st |-> "PENDING", term |-> t, snap |-> 0] ELSE NoTask]
<1>1. run \in RunRecords /\ run.status = "RUNNING" /\ run.routes = ts
  BY NoCountType DEF RunRecords, RunStatus
<1>2. 0 \in Terms
  BY ReplicationConstants DEF ReplicationConstants, Terms
<1>3. /\ row \in [Routes -> TaskRecords]
      /\ \A u \in Routes : IF u \in ts THEN row[u].st # "none" ELSE row[u] = NoTask
  BY <1>2 DEF TaskRecords, TaskStatus, NoTask
<1> HIDE DEF run, row
<1>4. /\ runs' = [runs EXCEPT ![r] = run] /\ tasks' = [tasks EXCEPT ![r] = row]
      /\ runTerm' = [runTerm EXCEPT ![r] = t]
  BY DEF Opens, run, row
<1>5. /\ runs' \in [Runs -> RunRecords] /\ tasks' \in [Runs -> [Routes -> TaskRecords]]
      /\ runTerm' \in [Runs -> Terms]
  BY <1>1, <1>3, <1>4 DEF Ledger
<1>6. BlankUntilOpen'
  BY <1>1, <1>4 DEF Ledger, BlankUntilOpen
<1>7. PlanHasTasks'
  BY <1>1, <1>3, <1>4 DEF Ledger, PlanHasTasks
<1>8. EndedIsComplete'
  <2> SUFFICES ASSUME NEW q \in Runs, runs'[q].status \in TerminalRun
               PROVE  /\ \A u \in runs'[q].routes : tasks'[q][u].st \in TerminalTask
                      /\ runs'[q].status = Verdict([u \in Routes |-> tasks'[q][u].st], runs'[q].routes)
    BY DEF EndedIsComplete, Statuses
  <2>1. q # r
    BY <1>1, <1>4, Words DEF Ledger
  <2>2. runs'[q] = runs[q] /\ tasks'[q] = tasks[q]
    BY <2>1, <1>4 DEF Ledger
  <2> QED
    BY <2>2 DEF Ledger, EndedIsComplete, Statuses
<1> QED
  BY <1>5, <1>6, <1>7, <1>8 DEF Ledger

LEMMA LeasesKeeps ==
  ASSUME Ledger, NEW r \in Runs, NEW b \in BOOLEAN, NEW t \in Terms, Leases(r, b, t)
  PROVE  Ledger'
<1>1. runs' \in [Runs -> RunRecords]
  BY DEF Ledger, Leases, RunRecords
<1>2. \A q \in Runs : runs'[q].status = runs[q].status /\ runs'[q].routes = runs[q].routes
  BY DEF Ledger, Leases, RunRecords
<1>3. runTerm' \in [Runs -> Terms] /\ tasks' = tasks
  BY DEF Ledger, Leases
<1>4. BlankUntilOpen'
  BY <1>2 DEF Ledger, Leases, BlankUntilOpen
<1>5. PlanHasTasks'
  BY <1>2, <1>3 DEF Ledger, PlanHasTasks
<1>6. EndedIsComplete'
  BY <1>2, <1>3 DEF Ledger, EndedIsComplete, Statuses
<1> QED
  BY <1>1, <1>3, <1>4, <1>5, <1>6 DEF Ledger

LEMMA BeginsKeeps ==
  ASSUME Ledger, NEW r \in Runs, NEW u \in Routes, NEW v \in Nat, NEW t \in Terms, Begins(r, u, v, t)
  PROVE  Ledger'
<1> DEFINE c == tasks[r][u]
           d == IF c.st = "RUNNING" THEN [c EXCEPT !.snap = v] ELSE [st |-> "RUNNING", term |-> t, snap |-> v]
<1>1. c \in TaskRecords
  BY DEF Ledger
<1>2. d \in TaskRecords /\ d.st = "RUNNING"
  BY <1>1 DEF TaskRecords, TaskStatus
<1>3. runs[r].status = "RUNNING" /\ c.st # "none"
  BY Words DEF Begins, BeginOK, Retryable, RetryableTask
<1> HIDE DEF d
<1>4. /\ tasks' = [tasks EXCEPT ![r][u] = d] /\ runs' = runs /\ runTerm' = runTerm
  BY DEF Begins, d
<1>5. tasks' \in [Runs -> [Routes -> TaskRecords]]
  BY <1>2, <1>4 DEF Ledger
<1>6. \A q \in Runs, x \in Routes : tasks'[q][x] = IF q = r /\ x = u THEN d ELSE tasks[q][x]
  BY <1>4 DEF Ledger
<1>7. PlanHasTasks'
  <2>1. u \in runs[r].routes
    BY <1>3 DEF Ledger, PlanHasTasks, NoTask
  <2> QED
    BY <1>2, <1>4, <1>6, <2>1 DEF Ledger, PlanHasTasks
<1>8. EndedIsComplete'
  <2> SUFFICES ASSUME NEW q \in Runs, runs[q].status \in TerminalRun
               PROVE  /\ \A x \in runs[q].routes : tasks'[q][x].st \in TerminalTask
                      /\ runs[q].status = Verdict([x \in Routes |-> tasks'[q][x].st], runs[q].routes)
    BY <1>4 DEF EndedIsComplete, Statuses
  <2>1. q # r
    BY <1>3, Words
  <2>2. tasks'[q] = tasks[q]
    BY <2>1, <1>4 DEF Ledger
  <2> QED
    BY <2>2 DEF Ledger, EndedIsComplete, Statuses
<1> QED
  BY <1>4, <1>5, <1>7, <1>8 DEF Ledger, BlankUntilOpen

LEMMA SettlesKeeps ==
  ASSUME Ledger, NEW r \in Runs, NEW u \in Routes, NEW s \in TerminalTask, NEW v \in Nat,
         NEW t \in Terms, Settles(r, u, s, v, t)
  PROVE  Ledger'
<1> DEFINE c == tasks[r][u]
           d == [st |-> s, term |-> t, snap |-> IF v = 0 THEN c.snap ELSE v]
           st == [Statuses(r) EXCEPT ![u] = s]
           run == Aggregated(runs[r], st, runs[r].routes)
<1>1. c \in TaskRecords /\ runs[r] \in RunRecords
  BY DEF Ledger
<1>2. d \in TaskRecords /\ d.st = s /\ s # "none"
  BY <1>1, Words DEF TaskRecords
<1>3. st = [x \in Routes |-> IF x = u THEN s ELSE tasks[r][x].st]
  BY DEF Statuses
<1> HIDE DEF d, st, run
<1>4. /\ tasks' = [tasks EXCEPT ![r][u] = d] /\ runs' = [runs EXCEPT ![r] = run]
      /\ runTerm' = [runTerm EXCEPT ![r] = IF t > @ THEN t ELSE @]
  BY DEF Settles, Newer, d, run, st
<1>5. /\ u \in runs[r].routes /\ runs[r].status \notin TerminalRun
      /\ runs[r].status # "absent"
  BY DEF Settles, Ledger, EndedIsComplete, BlankUntilOpen
<1>6. /\ run \in RunRecords /\ run.routes = runs[r].routes
      /\ run.status = IF \A x \in run.routes : st[x] \in TerminalTask THEN Verdict(st, run.routes)
                      ELSE runs[r].status
  BY <1>1, <1>5, AggregatedRun DEF run
<1>7. \A q \in Runs, x \in Routes : tasks'[q][x] = IF q = r /\ x = u THEN d ELSE tasks[q][x]
  BY <1>4 DEF Ledger
<1>8. \A q \in Runs : runs'[q] = IF q = r THEN run ELSE runs[q]
  BY <1>4 DEF Ledger
<1>9. /\ runs' \in [Runs -> RunRecords] /\ tasks' \in [Runs -> [Routes -> TaskRecords]]
      /\ runTerm' \in [Runs -> Terms]
  BY <1>2, <1>4, <1>6 DEF Ledger
<1>10. BlankUntilOpen'
  <2>1. run.status # "absent"
    BY <1>5, <1>6, VerdictType, Words
  <2>2. \A q \in Runs : q # r => runTerm'[q] = runTerm[q]
    BY <1>4 DEF Ledger
  <2> QED
    BY <1>8, <2>1, <2>2 DEF Ledger, BlankUntilOpen
<1>11. PlanHasTasks'
  BY <1>2, <1>5, <1>6, <1>7, <1>8 DEF Ledger, PlanHasTasks
<1>12. EndedIsComplete'
  <2> SUFFICES ASSUME NEW q \in Runs, runs'[q].status \in TerminalRun
               PROVE  /\ \A x \in runs'[q].routes : tasks'[q][x].st \in TerminalTask
                      /\ runs'[q].status = Verdict([x \in Routes |-> tasks'[q][x].st], runs'[q].routes)
    BY DEF EndedIsComplete, Statuses
  <2>1. CASE q # r
    <3>1. tasks'[q] = tasks[q] /\ runs'[q] = runs[q]
      BY <2>1, <1>4 DEF Ledger
    <3> QED
      BY <3>1 DEF Ledger, EndedIsComplete, Statuses
  <2>2. CASE q = r
    <3>1. [x \in Routes |-> tasks'[q][x].st] = st
      BY <1>2, <1>3, <1>7, <2>2
    <3>2. run.routes \subseteq Routes
      BY <1>6 DEF RunRecords
    <3>3. \A x \in run.routes : tasks'[q][x].st = st[x]
      BY <1>2, <1>3, <1>7, <2>2, <3>2
    <3> QED
      BY <1>5, <1>6, <1>8, <2>2, <3>1, <3>3
  <2> QED
    BY <2>1, <2>2
<1> QED
  BY <1>9, <1>10, <1>11, <1>12 DEF Ledger

LEMMA RetriesKeeps ==
  ASSUME Ledger, NEW r \in Runs, NEW t \in Terms, Retries(r, t)
  PROVE  Ledger'
<1> DEFINE row == [u \in Routes |-> IF u \in Failed(r) THEN [tasks[r][u] EXCEPT !.st = "PENDING", !.term = t]
                                    ELSE tasks[r][u]]
           run == [runs[r] EXCEPT !.status = "RUNNING", !.lease = TRUE, !.count = NoCount]
<1>1. runs[r] \in RunRecords /\ tasks[r] \in [Routes -> TaskRecords]
  BY DEF Ledger
<1>2. run \in RunRecords /\ run.status = "RUNNING" /\ run.routes = runs[r].routes
  BY <1>1, NoCountType DEF RunRecords, RunStatus
<1>3. row \in [Routes -> TaskRecords]
  BY <1>1 DEF TaskRecords, TaskStatus
<1>4. \A u \in Routes : IF u \in runs[r].routes THEN row[u].st # "none" ELSE row[u] = NoTask
  BY <1>1 DEF TaskRecords, Failed, RetryableTask, Ledger, PlanHasTasks, NoTask
<1>5. Failed(r) = {} => row = tasks[r]
  BY <1>1
<1> HIDE DEF row, run
<1>6. /\ tasks' = [tasks EXCEPT ![r] = row]
      /\ runs' = IF Failed(r) = {} THEN runs ELSE [runs EXCEPT ![r] = run]
      /\ runTerm' = [runTerm EXCEPT ![r] = IF t > @ THEN t ELSE @]
      /\ runs[r].status # "absent"
  BY DEF Retries, Newer, row, run
<1>7. /\ runs' \in [Runs -> RunRecords] /\ tasks' \in [Runs -> [Routes -> TaskRecords]]
      /\ runTerm' \in [Runs -> Terms]
  BY <1>2, <1>3, <1>6 DEF Ledger
<1>8. \A q \in Runs : q # r => runs'[q] = runs[q] /\ tasks'[q] = tasks[q] /\ runTerm'[q] = runTerm[q]
  BY <1>6 DEF Ledger
<1>9. /\ tasks'[r] = row /\ runs'[r] = IF Failed(r) = {} THEN runs[r] ELSE run
  BY <1>6 DEF Ledger
<1>10. BlankUntilOpen'
  BY <1>2, <1>6, <1>8, <1>9 DEF Ledger, BlankUntilOpen
<1>11. PlanHasTasks'
  BY <1>2, <1>4, <1>8, <1>9 DEF Ledger, PlanHasTasks
<1>12. EndedIsComplete'
  <2> SUFFICES ASSUME NEW q \in Runs, runs'[q].status \in TerminalRun
               PROVE  /\ \A x \in runs'[q].routes : tasks'[q][x].st \in TerminalTask
                      /\ runs'[q].status = Verdict([x \in Routes |-> tasks'[q][x].st], runs'[q].routes)
    BY DEF EndedIsComplete, Statuses
  <2>1. runs'[q] = runs[q] /\ tasks'[q] = tasks[q]
    BY <1>2, <1>5, <1>8, <1>9, Words
  <2> QED
    BY <2>1 DEF Ledger, EndedIsComplete, Statuses
<1> QED
  BY <1>7, <1>10, <1>11, <1>12 DEF Ledger

LEMMA LedgerKept ==
  ASSUME Ledger, LedgerStep
  PROVE  Ledger'
<1>1. CASE Same
  BY <1>1 DEF Same, Ledger, BlankUntilOpen, PlanHasTasks, EndedIsComplete, Statuses
<1> QED
  BY <1>1, OpensKeeps, LeasesKeeps, BeginsKeeps, SettlesKeeps, RetriesKeeps DEF LedgerStep

\* No run is undone and no route leaves a plan.
LEMMA LedgerGrows ==
  ASSUME Ledger, LedgerStep
  PROVE  Grows
<1> SUFFICES ASSUME NEW q \in Runs
             PROVE  /\ runs[q].status # "absent" => runs'[q].status # "absent"
                    /\ runs[q].routes \subseteq runs'[q].routes
  BY DEF Grows
<1>0. runs[q] \in RunRecords
  BY DEF Ledger
<1>1. CASE Same
  BY <1>1 DEF Same
<1>2. ASSUME NEW r \in Runs, NEW ts \in SUBSET Routes, NEW rev \in Nat, NEW t \in Terms,
             Opens(r, ts, rev, t)
      PROVE  /\ runs[q].status # "absent" => runs'[q].status # "absent"
             /\ runs[q].routes \subseteq runs'[q].routes
  <2>1. CASE q = r
    BY <1>2, <2>1 DEF Ledger, Opens, BlankUntilOpen
  <2>2. CASE q # r
    BY <1>2, <2>2 DEF Ledger, Opens
  <2> QED
    BY <2>1, <2>2
<1>3. ASSUME NEW r \in Runs, NEW b \in BOOLEAN, NEW t \in Terms, Leases(r, b, t)
      PROVE  /\ runs[q].status # "absent" => runs'[q].status # "absent"
             /\ runs[q].routes \subseteq runs'[q].routes
  BY <1>0, <1>3 DEF Ledger, Leases, RunRecords
<1>4. ASSUME NEW r \in Runs, NEW u \in Routes, NEW s \in TerminalTask, NEW v \in Nat,
             NEW t \in Terms, Settles(r, u, s, v, t)
      PROVE  /\ runs[q].status # "absent" => runs'[q].status # "absent"
             /\ runs[q].routes \subseteq runs'[q].routes
  <2>1. CASE q = r
    <3> DEFINE st == [Statuses(q) EXCEPT ![u] = s]
    <3>1. runs'[q] = Aggregated(runs[q], st, runs[q].routes)
      BY <1>4, <2>1 DEF Ledger, Settles
    <3>2. runs[q].status \notin TerminalRun /\ runs[q].routes # {}
      BY <1>4, <2>1 DEF Ledger, Settles, EndedIsComplete
    <3> HIDE DEF st
    <3>3. /\ runs'[q].routes = runs[q].routes
          /\ runs'[q].status \in TerminalRun \cup {runs[q].status}
      <4>1. Verdict(st, runs[q].routes) \in TerminalRun
        BY VerdictType
      <4> QED
        <5>1. /\ Aggregated(runs[q], st, runs[q].routes).routes = runs[q].routes
              /\ runs[q].status \notin TerminalRun /\ runs[q].routes # {} =>
                   Aggregated(runs[q], st, runs[q].routes).status =
                     IF \A x \in runs[q].routes : st[x] \in TerminalTask
                     THEN Verdict(st, runs[q].routes) ELSE runs[q].status
          BY <1>0, AggregatedRun
        <5> QED
          BY <3>1, <3>2, <4>1, <5>1
    <3> QED
      BY <3>3 DEF TerminalRun
  <2>2. CASE q # r
    BY <1>4, <2>2 DEF Ledger, Settles
  <2> QED
    BY <2>1, <2>2
<1>5. ASSUME NEW r \in Runs, NEW t \in Terms, Retries(r, t)
      PROVE  /\ runs[q].status # "absent" => runs'[q].status # "absent"
             /\ runs[q].routes \subseteq runs'[q].routes
  BY <1>0, <1>5 DEF Ledger, Retries, RunRecords
<1> QED
  BY <1>1, <1>2, <1>3, <1>4, <1>5 DEF LedgerStep, Begins

\* What OwnerWrites says of one task.
OwnerWrote(r, u) ==
  tasks'[r][u] # tasks[r][u] =>
    /\ tasks'[r][u].st # tasks[r][u].st => tasks'[r][u].term = runTerm'[r]
    /\ tasks[r][u].snap \notin {0, tasks'[r][u].snap} =>
         /\ tasks'[r][u].snap # 0
         /\ tasks[r][u].st \notin TerminalTask /\ tasks'[r][u].st \in TerminalTask
    /\ runTerm'[r] >= runTerm[r]

LEMMA LedgerOwned ==
  ASSUME Ledger, LedgerStep, NEW q \in Runs, NEW x \in Routes
  PROVE  OwnerWrote(q, x)
<1>0. tasks[q][x] \in TaskRecords /\ runTerm[q] \in Nat
  BY TermsAreNats DEF Ledger
<1>1. CASE Same
  BY <1>1 DEF Same, OwnerWrote
<1>2. ASSUME NEW r \in Runs, NEW ts \in SUBSET Routes, NEW rev \in Nat, NEW t \in Terms,
             Opens(r, ts, rev, t)
      PROVE  OwnerWrote(q, x)
  <2>1. CASE q = r
    <3>1. runTerm[q] = 0 /\ tasks[q][x] = NoTask /\ t \in Nat
      BY <1>2, <2>1, TermsAreNats DEF Ledger, Opens, BlankUntilOpen, PlanHasTasks
    <3>2. runTerm'[q] = t /\ tasks'[q][x] = IF x \in ts THEN [st |-> "PENDING", term |-> t, snap |-> 0] ELSE NoTask
      BY <1>2, <2>1 DEF Ledger, Opens
    <3> QED
      BY <1>0, <3>1, <3>2 DEF OwnerWrote, NoTask
  <2>2. CASE q # r
    BY <1>2, <2>2 DEF Ledger, Opens, OwnerWrote
  <2> QED
    BY <2>1, <2>2
<1>3. ASSUME NEW r \in Runs, NEW b \in BOOLEAN, NEW t \in Terms, Leases(r, b, t)
      PROVE  OwnerWrote(q, x)
  BY <1>3 DEF Leases, OwnerWrote
<1>4. ASSUME NEW r \in Runs, NEW u \in Routes, NEW v \in Nat, NEW t \in Terms, Begins(r, u, v, t)
      PROVE  OwnerWrote(q, x)
  <2>1. CASE q = r /\ x = u
    <3>1. tasks'[q][x] = IF tasks[q][x].st = "RUNNING" THEN [tasks[q][x] EXCEPT !.snap = v]
                         ELSE [st |-> "RUNNING", term |-> t, snap |-> v]
      BY <1>4, <2>1 DEF Ledger, Begins
    <3>2. tasks[q][x].snap \in {0, v} /\ runTerm[q] = t /\ runTerm' = runTerm
      BY <1>4, <2>1 DEF Begins, BeginOK
    <3> QED
      BY <1>0, <3>1, <3>2 DEF OwnerWrote, TaskRecords
  <2>2. CASE ~(q = r /\ x = u)
    BY <1>4, <2>2 DEF Ledger, Begins, OwnerWrote
  <2> QED
    BY <2>1, <2>2
<1>5. ASSUME NEW r \in Runs, NEW u \in Routes, NEW s \in TerminalTask, NEW v \in Nat,
             NEW t \in Terms, Settles(r, u, s, v, t)
      PROVE  OwnerWrote(q, x)
  <2>1. CASE q = r /\ x = u
    <3>1. tasks'[q][x] = [st |-> s, term |-> t, snap |-> IF v = 0 THEN tasks[q][x].snap ELSE v]
      BY <1>5, <2>1 DEF Ledger, Settles
    <3>2. tasks[q][x].st \notin TerminalTask
      BY <1>5, <2>1 DEF Settles
    <3>3. runTerm'[q] = t /\ t >= runTerm[q]
      <4>1. t \in Nat
        BY TermsAreNats
      <4>2. runTerm' = [runTerm EXCEPT ![q] = IF t > @ THEN t ELSE @] /\ t >= runTerm[q]
        BY <1>5, <2>1 DEF Settles, UpdateOK, Newer
      <4>3. runTerm'[q] = IF t > runTerm[q] THEN t ELSE runTerm[q]
        BY <4>2 DEF Ledger
      <4> QED
        BY <1>0, <4>1, <4>2, <4>3
    <3> QED
      BY <1>0, <3>1, <3>2, <3>3 DEF OwnerWrote, TaskRecords
  <2>2. CASE ~(q = r /\ x = u)
    BY <1>5, <2>2 DEF Ledger, Settles, OwnerWrote
  <2> QED
    BY <2>1, <2>2
<1>6. ASSUME NEW r \in Runs, NEW t \in Terms, Retries(r, t)
      PROVE  OwnerWrote(q, x)
  <2>1. CASE q = r
    <3>1. tasks'[q][x] = IF x \in Failed(q) THEN [tasks[q][x] EXCEPT !.st = "PENDING", !.term = t]
                         ELSE tasks[q][x]
      BY <1>6, <2>1 DEF Ledger, Retries
    <3>2. runTerm'[q] = t /\ t >= runTerm[q]
      <4>1. t \in Nat
        BY TermsAreNats
      <4>2. runTerm' = [runTerm EXCEPT ![q] = IF t > @ THEN t ELSE @] /\ t >= runTerm[q]
        BY <1>0, <1>6, <2>1, <4>1 DEF Retries, Newer
      <4>3. runTerm'[q] = IF t > runTerm[q] THEN t ELSE runTerm[q]
        BY <4>2 DEF Ledger
      <4> QED
        BY <1>0, <4>1, <4>2, <4>3
    <3> QED
      BY <1>0, <3>1, <3>2 DEF OwnerWrote, TaskRecords
  <2>2. CASE q # r
    BY <1>6, <2>2 DEF Ledger, Retries, OwnerWrote
  <2> QED
    BY <2>1, <2>2
<1> QED
  BY <1>1, <1>2, <1>3, <1>4, <1>5, <1>6 DEF LedgerStep

\* A success is recorded only of what the target holds, and for good.
LEMMA SuccessKept ==
  ASSUME Ledger, LedgerStep, SuccessIsStored, ReplicaStays
  PROVE  SuccessIsStored'
<1> SUFFICES ASSUME NEW q \in Runs, NEW x \in Routes, tasks'[q][x].st = "SUCCESS"
             PROVE  tasks'[q][x].snap # 0 /\ replica[q][x] = tasks'[q][x].snap
  BY DEF SuccessIsStored, ReplicaStays
<1>0. tasks[q][x] \in TaskRecords
  BY DEF Ledger
<1>1. CASE tasks'[q][x] = tasks[q][x]
  BY <1>1 DEF SuccessIsStored
<1>2. ASSUME NEW r \in Runs, NEW ts \in SUBSET Routes, NEW rev \in Nat, NEW t \in Terms,
             Opens(r, ts, rev, t)
      PROVE  tasks'[q][x] = tasks[q][x]
  BY <1>2 DEF Ledger, Opens, NoTask
<1>3. ASSUME NEW r \in Runs, NEW u \in Routes, NEW v \in Nat, NEW t \in Terms, Begins(r, u, v, t)
      PROVE  tasks'[q][x] = tasks[q][x]
  <2>1. CASE q = r /\ x = u
    BY <1>0, <1>3, <2>1 DEF Ledger, Begins, TaskRecords
  <2>2. CASE ~(q = r /\ x = u)
    BY <1>3, <2>2 DEF Ledger, Begins
  <2> QED
    BY <2>1, <2>2
<1>4. ASSUME NEW r \in Runs, NEW u \in Routes, NEW s \in TerminalTask, NEW v \in Nat,
             NEW t \in Terms, Settles(r, u, s, v, t)
      PROVE  \/ tasks'[q][x] = tasks[q][x]
             \/ tasks'[q][x].snap # 0 /\ replica[q][x] = tasks'[q][x].snap
  <2>1. CASE q = r /\ x = u
    BY <1>4, <2>1 DEF Ledger, Settles
  <2>2. CASE ~(q = r /\ x = u)
    BY <1>4, <2>2 DEF Ledger, Settles
  <2> QED
    BY <2>1, <2>2
<1>5. ASSUME NEW r \in Runs, NEW t \in Terms, Retries(r, t)
      PROVE  tasks'[q][x] = tasks[q][x]
  BY <1>0, <1>5 DEF Ledger, Retries, TaskRecords
<1>6. CASE Same \/ \E r \in Runs, b \in BOOLEAN, t \in Terms : Leases(r, b, t)
  BY <1>1, <1>6 DEF Same, Leases
<1> QED
  BY <1>1, <1>2, <1>3, <1>4, <1>5, <1>6 DEF LedgerStep

-----------------------------------------------------------------------------
(* The promise made to the readers of a run. *)

LEMMA PromiseBegins ==
  ASSUME Init
  PROVE  Promise!Init
BY DEF Init, Promise!Init, NoRun, NoTask, ReportOf, RetryableTask

\* A step of the ledger is a step of the promise: opening a run opens it, the
\* end of a route reports it, beginning or retrying failed routes redoes them,
\* and owners and leases are not seen.
LEMMA OpensIsOpen ==
  ASSUME Ledger, NEW r \in Runs, NEW ts \in SUBSET Routes, NEW rev \in Nat, NEW t \in Terms,
         Opens(r, ts, rev, t)
  PROVE  Promise!Open(r, ts)
<1> DEFINE run == [status |-> "RUNNING", rev |-> rev, routes |-> ts, lease |-> TRUE, count |-> NoCount]
<1>1. run.status = "RUNNING" /\ run.routes = ts
  OBVIOUS
<1> HIDE DEF run
<1>2. \A q \in Runs : runs'[q] = IF q = r THEN run ELSE runs[q]
  BY DEF Ledger, Opens, run
<1>3. \A q \in Runs, u \in Routes : ReportOf(tasks'[q][u].st) = ReportOf(tasks[q][u].st)
  <2>1. \A u \in Routes : tasks'[r][u].st \in {"PENDING", "none"} /\ tasks[r][u].st = "none"
    BY DEF Ledger, Opens, BlankUntilOpen, PlanHasTasks, NoTask
  <2>2. \A q \in Runs : q # r => tasks'[q] = tasks[q]
    BY DEF Ledger, Opens
  <2> QED
    BY <2>1, <2>2 DEF ReportOf, RetryableTask
<1>4. runs[r].status = "absent"
  BY DEF Opens
<1> QED
  BY <1>1, <1>2, <1>3, <1>4 DEF Promise!Open

LEMMA SettlesIsReport ==
  ASSUME Ledger, NEW r \in Runs, NEW u \in Routes, NEW s \in TerminalTask, NEW v \in Nat,
         NEW t \in Terms, Settles(r, u, s, v, t)
  PROVE  u \in runs[r].routes /\ ReportOf(s) \in {"good", "bad"} /\ Promise!Report(r, u, ReportOf(s))
<1> DEFINE st == [Statuses(r) EXCEPT ![u] = s]
           run == Aggregated(runs[r], st, runs[r].routes)
           rep(q) == [x \in Routes |-> ReportOf(tasks[q][x].st)]
<1>1. u \in runs[r].routes /\ tasks[r][u].st \notin TerminalTask
  BY DEF Settles
<1>2. runs[r] \in RunRecords /\ runs[r].status = "RUNNING" /\ runs[r].routes \subseteq Routes
  BY <1>1 DEF Ledger, RunRecords, RunStatus, EndedIsComplete, BlankUntilOpen
<1>3. st = [x \in Routes |-> IF x = u THEN s ELSE tasks[r][x].st]
  BY DEF Statuses
<1> HIDE DEF st, run
<1>4. /\ run.routes = runs[r].routes
      /\ run.status = IF \A x \in runs[r].routes : st[x] \in TerminalTask
                      THEN Verdict(st, runs[r].routes) ELSE runs[r].status
  BY <1>1, <1>2, AggregatedRun, Words DEF run
<1>5. \A q \in Runs : runs'[q] = IF q = r THEN run ELSE runs[q]
  BY DEF Ledger, Settles, run, st
<1>6. \A q \in Runs, x \in Routes : tasks'[q][x].st = IF q = r /\ x = u THEN s ELSE tasks[q][x].st
  BY DEF Ledger, Settles
<1>7. \A x \in Routes : rep(r)'[x] = ReportOf(st[x])
  BY <1>3, <1>6
<1>8. \A q \in Runs : q # r => rep(q)' = rep(q)
  BY <1>6
<1>9. rep(r)' = [rep(r) EXCEPT ![u] = ReportOf(s)]
  BY <1>6
<1>12. rep(r)[u] = "none"
  BY <1>1, Reports
<1> HIDE DEF rep
<1>10. \A x \in runs[r].routes : /\ rep(r)'[x] # "none" <=> st[x] \in TerminalTask
                                 /\ rep(r)'[x] = "good" <=> st[x] = "SUCCESS"
  <2>1. \A x \in Routes : /\ ReportOf(st[x]) # "none" <=> st[x] \in TerminalTask
                          /\ ReportOf(st[x]) = "good" <=> st[x] = "SUCCESS"
    BY Reports
  <2> QED
    BY <1>2, <1>7, <2>1
<1>11. Promise!Sum(rep(r)', runs[r].routes) = Verdict(st, runs[r].routes)
  BY <1>10 DEF Promise!Sum, Verdict
<1> DEFINE R == [q \in Runs |-> rep(q)]
           V == [q \in Runs |-> runs[q].status]
           P == [q \in Runs |-> runs[q].routes]
<1>13. R' = [R EXCEPT ![r] = [R[r] EXCEPT ![u] = ReportOf(s)]]
  BY <1>8, <1>9
<1>14. V' = IF \A x \in P[r] : R'[r][x] # "none"
            THEN [V EXCEPT ![r] = Promise!Sum(R'[r], P[r])] ELSE V
  BY <1>4, <1>5, <1>10, <1>11
<1>15. P' = P
  BY <1>4, <1>5
<1>16. V[r] = "RUNNING" /\ R[r][u] = "none"
  BY <1>2, <1>12
<1> QED
  BY <1>1, <1>13, <1>14, <1>15, <1>16, Reports DEF Promise!Report, rep

LEMMA RetriesIsRedo ==
  ASSUME Ledger, NEW r \in Runs, NEW t \in Terms, Retries(r, t), NEW F, F = Failed(r)
  PROVE  \/ UNCHANGED Promise!vars
         \/ /\ F \subseteq {u \in runs[r].routes : ReportOf(tasks[r][u].st) = "bad"}
            /\ Promise!Redo(r, F)
<1>0. runs[r] \in RunRecords /\ tasks[r] \in [Routes -> TaskRecords]
  BY DEF Ledger
<1>a. F = {u \in Routes : tasks[r][u].st \in RetryableTask}
  BY DEF Failed
<1>1. \A u \in Routes : tasks'[r][u].st = IF u \in F THEN "PENDING" ELSE tasks[r][u].st
  BY <1>0 DEF Ledger, Retries, TaskRecords
<1>2. \A q \in Runs : q # r => tasks'[q] = tasks[q] /\ runs'[q] = runs[q]
  BY DEF Ledger, Retries
<1>3. \A u \in Routes : ReportOf(tasks'[r][u].st) = IF u \in F THEN "none" ELSE ReportOf(tasks[r][u].st)
  BY <1>1 DEF ReportOf, RetryableTask
<1>4. CASE F = {}
  <2>1. runs' = runs
    BY <1>4 DEF Retries
  <2>2. \A q \in Runs, u \in Routes : ReportOf(tasks'[q][u].st) = ReportOf(tasks[q][u].st)
    BY <1>2, <1>3, <1>4
  <2> QED
    BY <2>1, <2>2 DEF Promise!vars
<1>5. CASE F # {}
  <2>1. runs'[r].status = "RUNNING" /\ runs'[r].routes = runs[r].routes
    BY <1>0, <1>5 DEF Ledger, Retries, RunRecords
  <2>2. \A u \in F : u \in runs[r].routes /\ ReportOf(tasks[r][u].st) = "bad"
    BY <1>a, Reports DEF Ledger, PlanHasTasks, NoTask, RetryableTask
  <2>3. Promise!Redo(r, F)
    BY <1>2, <1>3, <1>5, <2>1 DEF Promise!Redo
  <2> QED
    BY <2>2, <2>3
<1> QED
  BY <1>4, <1>5

LEMMA BeginsIsRedo ==
  ASSUME Ledger, NEW r \in Runs, NEW u \in Routes, NEW v \in Nat, NEW t \in Terms, Begins(r, u, v, t)
  PROVE  \/ UNCHANGED Promise!vars
         \/ /\ {u} \subseteq {x \in runs[r].routes : ReportOf(tasks[r][x].st) = "bad"}
            /\ Promise!Redo(r, {u})
<1>0. tasks[r][u] \in TaskRecords
  BY DEF Ledger
<1>1. \A q \in Runs, x \in Routes :
        tasks'[q][x].st = IF q = r /\ x = u THEN "RUNNING" ELSE tasks[q][x].st
  BY <1>0 DEF Ledger, Begins, TaskRecords
<1>2. \A q \in Runs, x \in Routes :
        ReportOf(tasks'[q][x].st) = IF q = r /\ x = u THEN "none" ELSE ReportOf(tasks[q][x].st)
  BY <1>1 DEF ReportOf, RetryableTask
<1>3. runs' = runs /\ runs[r].status = "RUNNING"
  BY DEF Begins, BeginOK
<1>4. CASE tasks[r][u].st \notin RetryableTask
  <2>1. ReportOf(tasks[r][u].st) = "none"
    BY <1>4 DEF Begins, BeginOK, Retryable, ReportOf
  <2> QED
    BY <1>2, <1>3, <2>1 DEF Promise!vars
<1>5. CASE tasks[r][u].st \in RetryableTask
  <2>1. u \in runs[r].routes /\ ReportOf(tasks[r][u].st) = "bad"
    BY <1>5, Reports DEF Ledger, PlanHasTasks, NoTask, RetryableTask
  <2>2. Promise!Redo(r, {u})
    BY <1>2, <1>3 DEF Promise!Redo
  <2> QED
    BY <2>1, <2>2
<1> QED
  BY <1>4, <1>5

LEMMA RedoIsNext ==
  ASSUME NEW r \in Runs, NEW U, U \subseteq {x \in runs[r].routes : ReportOf(tasks[r][x].st) = "bad"},
         runs[r].routes \subseteq Routes, Promise!Redo(r, U)
  PROVE  Promise!Next
<1> DEFINE P == [q \in Runs |-> runs[q].routes]
           R == [q \in Runs |-> [u \in Routes |-> ReportOf(tasks[q][u].st)]]
<1>1. U \in SUBSET {u \in P[r] : R[r][u] = "bad"}
  OBVIOUS
<1> QED
  BY <1>1 DEF Promise!Next

LEMMA LedgerKeepsPromise ==
  ASSUME Ledger, LedgerStep
  PROVE  [Promise!Next]_(Promise!vars)
<1>1. CASE Same
  BY <1>1 DEF Same, Promise!vars
<1>2. ASSUME NEW r \in Runs, NEW ts \in SUBSET Routes, NEW rev \in Nat, NEW t \in Terms,
             Opens(r, ts, rev, t)
      PROVE  Promise!Next
  BY <1>2, OpensIsOpen DEF Promise!Next
<1>3. ASSUME NEW r \in Runs, NEW b \in BOOLEAN, NEW t \in Terms, Leases(r, b, t)
      PROVE  UNCHANGED Promise!vars
  <2>1. \A q \in Runs : runs'[q].status = runs[q].status /\ runs'[q].routes = runs[q].routes
    BY <1>3 DEF Ledger, Leases, RunRecords
  <2>2. tasks' = tasks
    BY <1>3 DEF Leases
  <2> QED
    BY <2>1, <2>2 DEF Promise!vars
<1>4. ASSUME NEW r \in Runs, NEW u \in Routes, NEW v \in Nat, NEW t \in Terms, Begins(r, u, v, t)
      PROVE  [Promise!Next]_(Promise!vars)
  <2>1. runs[r].routes \subseteq Routes
    BY DEF Ledger, RunRecords
  <2> QED
    BY <1>4, <2>1, BeginsIsRedo, RedoIsNext
<1>5. ASSUME NEW r \in Runs, NEW u \in Routes, NEW s \in TerminalTask, NEW v \in Nat,
             NEW t \in Terms, Settles(r, u, s, v, t)
      PROVE  Promise!Next
  BY <1>5, SettlesIsReport DEF Promise!Next
<1>6. ASSUME NEW r \in Runs, NEW t \in Terms, Retries(r, t)
      PROVE  [Promise!Next]_(Promise!vars)
  <2>1. runs[r].routes \subseteq Routes
    BY DEF Ledger, RunRecords
  <2>0. PICK F \in SUBSET Routes : F = Failed(r)
    BY DEF Failed
  <2>2. \/ UNCHANGED Promise!vars
        \/ F \subseteq {u \in runs[r].routes : ReportOf(tasks[r][u].st) = "bad"} /\ Promise!Redo(r, F)
    BY <1>6, <2>0, RetriesIsRedo
  <2> QED
    BY <2>1, <2>2, RedoIsNext
<1> QED
  BY <1>1, <1>2, <1>3, <1>4, <1>5, <1>6 DEF LedgerStep

-----------------------------------------------------------------------------
(* What agents carry along stays true while others step. *)

LEMMA PlannedGrows ==
  ASSUME Grows
  PROVE  Planned \subseteq Planned'
BY DEF Grows, Planned

LEMMA SeqGrows ==
  ASSUME NEW S, NEW T, S \subseteq T, NEW s \in Seq(S)
  PROVE  s \in Seq(T)
OBVIOUS

LEMMA LoopOKKept ==
  ASSUME Grows, NEW l \in Loops, LoopOK(l)
  PROVE  LoopOK(l)'
<1>1. l.out \in Seq(Planned)'
  BY PlannedGrows, SeqGrows DEF LoopOK
<1>2. \A r \in Runs : runs[r].status # "absent" => runs'[r].status # "absent"
  BY DEF Grows
<1>3. l.ids \subseteq Runs /\ (l.pc = "enter" => l.fire \in Runs)
  BY DEF Loops, LoopOK, Runs
<1> QED
  BY <1>1, <1>2, <1>3 DEF LoopOK

LEMMA JobOKKept ==
  ASSUME Grows, NEW j, JobOK(j)
  PROVE  JobOK(j)'
BY DEF Grows, JobOK

LEMMA WorkerOKKept ==
  ASSUME Grows, ReplicaStays, NEW w \in Workers, WorkerOK(w)
  PROVE  WorkerOK(w)'
<1>1. w.r \in Runs /\ w.u \in Routes
  BY DEF Workers
<1> QED
  BY <1>1 DEF WorkerOK, Grows, ReplicaStays

LEMMA LoopsKept ==
  ASSUME Grows, LoopsOK, UNCHANGED loop
  PROVE  LoopsOK'
<1> SUFFICES ASSUME NEW n \in Nodes PROVE LoopOK(loop[n])'
  BY DEF LoopsOK
<1>1. PICK l \in Loops : l = loop[n] /\ LoopOK(l)
  BY DEF LoopsOK
<1>2. LoopOK(l)'
  BY <1>1, LoopOKKept
<1> QED
  BY <1>1, <1>2 DEF LoopOK

\* One Tick went on to l.
LEMMA LoopsMoved ==
  ASSUME Grows, LoopsOK, NEW n \in Nodes, NEW l \in Loops, loop' = [loop EXCEPT ![n] = l], LoopOK(l)'
  PROVE  LoopsOK'
<1>1. loop' \in [Nodes -> Loops]
  BY DEF LoopsOK
<1> SUFFICES ASSUME NEW m \in Nodes PROVE LoopOK(loop[m])'
  BY <1>1 DEF LoopsOK
<1>2. CASE m = n
  <2>1. loop'[m] = l
    BY <1>2 DEF LoopsOK
  <2> QED
    BY <2>1 DEF LoopOK
<1>3. CASE m # n
  <2>1. PICK k \in Loops : k = loop[m] /\ LoopOK(k)
    BY DEF LoopsOK
  <2>2. LoopOK(k)' /\ loop'[m] = k
    BY <1>3, <2>1, LoopOKKept DEF LoopsOK
  <2> QED
    BY <2>2 DEF LoopOK
<1> QED
  BY <1>2, <1>3

LEMMA JobsKept ==
  ASSUME Grows, JobsOK, UNCHANGED jobs
  PROVE  JobsOK'
<1> SUFFICES ASSUME NEW n \in Nodes, NEW k \in Kinds PROVE JobOK(jobs[n][k])'
  BY DEF JobsOK
<1>1. PICK j : j = jobs[n][k] /\ JobOK(j)
  BY DEF JobsOK
<1>2. JobOK(j)'
  BY <1>1, JobOKKept
<1> QED
  BY <1>1, <1>2 DEF JobOK

\* One dispatch is j now.
LEMMA JobsMoved ==
  ASSUME Grows, JobsOK, NEW n \in Nodes, NEW k \in Kinds, NEW j \in Dispatches,
         jobs' = [jobs EXCEPT ![n][k] = j], JobOK(j)'
  PROVE  JobsOK'
<1>1. jobs' \in [Nodes -> [Kinds -> Dispatches]]
  BY DEF JobsOK
<1> SUFFICES ASSUME NEW m \in Nodes, NEW h \in Kinds PROVE JobOK(jobs[m][h])'
  BY <1>1 DEF JobsOK
<1>2. CASE m = n /\ h = k
  <2>1. jobs'[m][h] = j
    BY <1>2 DEF JobsOK
  <2> QED
    BY <2>1 DEF JobOK
<1>3. CASE ~(m = n /\ h = k)
  <2>1. PICK i : i = jobs[m][h] /\ JobOK(i)
    BY DEF JobsOK
  <2>2. JobOK(i)'
    BY <2>1, JobOKKept
  <2>3. jobs'[m][h] = i
    BY <1>3, <2>1 DEF JobsOK
  <2> QED
    BY <2>2, <2>3 DEF JobOK
<1> QED
  BY <1>2, <1>3

\* Goroutines that were there stay right, and so do new ones that are.
LEMMA WorkMoved ==
  ASSUME Grows, ReplicaStays, WorkOK, NEW N,
         work' \subseteq work \cup N, N \subseteq Workers, \A w \in N : WorkerOK(w)'
  PROVE  WorkOK'
<1>1. \A w \in work : w \in Workers /\ WorkerOK(w)
  BY DEF WorkOK
<1>2. \A w \in work : w \in Workers /\ WorkerOK(w)'
  BY <1>1, WorkerOKKept
<1> QED
  BY <1>2 DEF WorkOK

LEMMA WorkKept ==
  ASSUME Grows, ReplicaStays, WorkOK, work' \subseteq work
  PROVE  WorkOK'
<1>1. \A w \in work : w \in Workers /\ WorkerOK(w)
  BY DEF WorkOK
<1>2. \A w \in work : w \in Workers /\ WorkerOK(w)'
  BY <1>1, WorkerOKKept
<1> QED
  BY <1>2 DEF WorkOK

LEMMA WorkOneMoved ==
  ASSUME Grows, ReplicaStays, WorkOK, NEW x \in Workers, WorkerOK(x)', work' \subseteq work \cup {x}
  PROVE  WorkOK'
<1> DEFINE N == {x}
<1>1. work' \subseteq work \cup N /\ N \subseteq Workers
  OBVIOUS
<1>2. \A w \in N : WorkerOK(w)'
  BY DEF WorkerOK
<1> HIDE DEF N
<1> QED
  BY <1>1, <1>2, WorkMoved

LEMMA StartsKept ==
  ASSUME StartsOK, UNCHANGED api
  PROVE  StartsOK'
BY DEF StartsOK, StartOK

\* The runs of the ledger before and after an Apply.
LEMMA SameGrows ==
  ASSUME Same
  PROVE  LedgerStep /\ Grows
BY DEF Same, LedgerStep, Grows

-----------------------------------------------------------------------------
(* Each action takes one of the steps, and leaves the agents right. *)

StepOK ==
  /\ LedgerStep /\ FiresFollowRuns /\ ReplicaStays /\ Plain'
  /\ LoopsOK' /\ StartsOK' /\ JobsOK' /\ WorkOK'

LEMMA IdleOK == Idle \in Loops /\ LoopOK(Idle) /\ LoopOK(Idle)'
<1>1. Idle \in Loops
  BY TermsAreNats DEF Idle, Loops
<1> QED
  BY <1>1 DEF Idle, LoopOK

\* A Tick that has looked for runs to take over.
LEMMA LookedOK ==
  ASSUME Ledger, NEW l \in Loops, LoopOK(l)
  PROVE  Looked(l) \in Loops /\ LoopOK(Looked(l))
<1> DEFINE T == Takeovers(l.t)
<1>1. T \subseteq Runs /\ \A r \in T : runs[r].status # "absent"
  BY DEF Takeovers, Running
<1> HIDE DEF T
<1>2. Looked(l) = [l EXCEPT !.pc = "take", !.ids = T]
  BY DEF Looked, T
<1>3. Looked(l) \in Loops
  BY <1>1, <1>2 DEF Loops
<1>4. Looked(l).pc = "take" /\ Looked(l).ids = T /\ Looked(l).out = l.out
  BY <1>2 DEF Loops
<1> QED
  BY <1>1, <1>3, <1>4 DEF LoopOK

\* An action that commits nothing and moves the Tick of n.
LEMMA LoopOnly ==
  ASSUME Inv, NEW n \in Nodes, NEW l \in Loops, LoopOK(l), Go(n, l),
         UNCHANGED <<raftVars, control, due, api, jobs, work, stores, used>>
  PROVE  StepOK
<1>1. Same /\ UNCHANGED <<fires, replica>> /\ FiresFollowRuns /\ ReplicaStays
  BY DEF Same, control, stores, FiresFollowRuns, ReplicaStays
<1>2. Plain'
  BY DEF Inv, Plain, control, stores, raftVars
<1>3. LoopsOK'
  BY <1>1, SameGrows, LoopOKKept, LoopsMoved DEF Inv, Go
<1>4. StartsOK' /\ JobsOK' /\ WorkOK'
  BY <1>1, SameGrows, StartsKept, JobsKept, WorkKept DEF Inv
<1> QED
  BY <1>1, <1>2, <1>3, <1>4, SameGrows DEF StepOK

LEMMA TickBeginStep ==
  ASSUME Inv, NEW n \in Nodes, TickBegin(n)
  PROVE  StepOK
<1>0. policy.routes \subseteq Routes /\ policy.rev \in Nat /\ term \in Terms /\ due \in Fires \cup {0}
  BY DEF Inv, Plain
<1>1. CASE DueFire(due)
  <2> DEFINE l == [Idle EXCEPT !.pc = FireStep(due), !.t = term, !.fire = due,
                               !.routes = policy.routes, !.rev = policy.rev]
  <2>1. due \in Fires
    BY <1>0, <1>1 DEF DueFire
  <2>2. /\ FireStep(due) \in {"create", "enter", "skip"}
        /\ FireStep(due) = "enter" => runs[due].status # "absent"
    BY DEF FireStep
  <2>3. l \in Loops
    BY <1>0, <2>1, <2>2, IdleOK DEF Loops
  <2>4. l.pc = FireStep(due) /\ l.fire = due /\ l.ids = {} /\ l.out = << >>
    BY DEF Idle
  <2> HIDE DEF l
  <2>5. LoopOK(l)
    BY <2>1, <2>2, <2>4 DEF LoopOK
  <2>6. Go(n, l) /\ UNCHANGED <<raftVars, control, due, api, jobs, work, stores, used>>
    BY <1>1 DEF TickBegin, l
  <2>7. PICK k \in Loops : k = l
    BY <2>3
  <2> QED
    BY <2>5, <2>6, <2>7, LoopOnly DEF Go, LoopOK
<1>2. CASE ~DueFire(due)
  <2> DEFINE i == [Idle EXCEPT !.t = term]
             l == Looked(i)
  <2>1. i \in Loops /\ LoopOK(i)
    BY <1>0, IdleOK DEF Loops, LoopOK, Idle
  <2> HIDE DEF i
  <2>2. l \in Loops /\ LoopOK(l)
    BY <2>1, LookedOK DEF Inv
  <2>3. Go(n, l) /\ UNCHANGED <<raftVars, control, due, api, jobs, work, stores, used>>
    BY <1>2 DEF TickBegin, i
  <2> HIDE DEF l
  <2>4. PICK k \in Loops : k = l
    BY <2>2
  <2> QED
    BY <2>2, <2>3, <2>4, LoopOnly DEF Go, LoopOK
<1> QED
  BY <1>1, <1>2

\* A command that creates a run, or finds it, or is refused or lost.
LEMMA CreateStep ==
  ASSUME Inv, NEW r \in Runs, NEW ts \in SUBSET Routes, NEW rev \in Nat, NEW t \in Terms,
         UNCHANGED control \/ (CreateOK(r, ts, rev) /\ CreateRun(r, ts, rev, t))
  PROVE  /\ LedgerStep /\ UNCHANGED <<policy, fires>>
         /\ CreateOK(r, ts, rev) /\ CreateRun(r, ts, rev, t) =>
              runs'[r].status # "absent" /\ runs'[r].routes = ts
<1>0. runs \in [Runs -> RunRecords]
  BY DEF Inv, Ledger
<1>1. CASE UNCHANGED control
  <2>1. Same /\ UNCHANGED <<policy, fires>>
    BY <1>1 DEF control, Same
  <2>2. runs[r].status # "absent" /\ CreateOK(r, ts, rev) => runs'[r].routes = ts
    BY <2>1 DEF CreateOK, Same
  <2>3. runs[r].status = "absent" /\ CreateRun(r, ts, rev, t) => runs'[r].status = "RUNNING"
    BY <1>0 DEF CreateRun
  <2>4. ~(runs[r].status = "absent" /\ CreateRun(r, ts, rev, t))
    BY <2>1, <2>3 DEF Same
  <2> QED
    BY <2>1, <2>2, <2>4, SameGrows DEF Same
<1>2. CASE runs[r].status = "absent" /\ CreateRun(r, ts, rev, t)
  <2>1. Opens(r, ts, rev, t) /\ UNCHANGED <<policy, fires>>
    BY <1>2 DEF CreateRun, Opens
  <2>2. runs'[r].status = "RUNNING" /\ runs'[r].routes = ts
    BY <1>0, <2>1 DEF Opens
  <2> QED
    BY <2>1, <2>2 DEF LedgerStep
<1> QED
  BY <1>1, <1>2 DEF CreateRun

LEMMA FireCreateStep ==
  ASSUME Inv, NEW n \in Nodes, FireCreate(n)
  PROVE  StepOK
<1>1. PICK l \in Loops : l = loop[n] /\ LoopOK(l)
  BY DEF Inv, LoopsOK
<1>2. l.pc = "create" /\ l.fire \in Fires /\ l.fire \in Runs /\ l.routes \in SUBSET Routes /\ l.rev \in Nat /\ l.t \in Terms
  BY <1>1 DEF FireCreate, LoopOK, Loops, Runs
<1>3. PICK ok \in BOOLEAN :
        /\ Apply(n, ok, CreateOK(l.fire, l.routes, l.rev), CreateRun(l.fire, l.routes, l.rev, l.t))
        /\ Go(n, IF ok THEN [l EXCEPT !.pc = "enter", !.out = <<[r |-> l.fire, todo |-> Fresh(l.routes)]>>]
                 ELSE Looked(l))
  BY <1>1 DEF FireCreate
<1>4. /\ UNCHANGED control \/ (CreateOK(l.fire, l.routes, l.rev) /\ CreateRun(l.fire, l.routes, l.rev, l.t))
      /\ ok => CreateOK(l.fire, l.routes, l.rev) /\ CreateRun(l.fire, l.routes, l.rev, l.t)
      /\ used' \in Nat
  BY <1>3 DEF Apply, Spend, Inv, Plain
<1>5. /\ LedgerStep /\ UNCHANGED <<policy, fires>>
      /\ ok => runs'[l.fire].status # "absent" /\ runs'[l.fire].routes = l.routes
  BY <1>2, <1>4, CreateStep
<1>6. Grows
  BY <1>5, LedgerGrows DEF Inv
<1>7. FiresFollowRuns /\ ReplicaStays /\ Plain'
  BY <1>4, <1>5 DEF FireCreate, FiresFollowRuns, ReplicaStays, stores, Plain, Inv, raftVars
<1>8. StartsOK' /\ JobsOK' /\ WorkOK'
  BY <1>6, <1>7, StartsKept, JobsKept, WorkKept DEF Inv, FireCreate
<1>9. LoopsOK'
  <2>1. CASE ok
    <3> DEFINE d == [r |-> l.fire, todo |-> Fresh(l.routes)]
               k == [l EXCEPT !.pc = "enter", !.out = <<d>>]
    <3>1. Fresh(l.routes) \subseteq Todos /\ \A x \in Fresh(l.routes) : x.u \in l.routes
      BY <1>2 DEF Fresh, Todos
    <3>2. d \in [r : Runs, todo : SUBSET Todos] /\ d.r = l.fire /\ d.todo = Fresh(l.routes)
      BY <1>2, <3>1
    <3> HIDE DEF d
    <3>3. d \in Planned'
      BY <1>5, <2>1, <3>1, <3>2 DEF Planned
    <3>10. <<d>> \in Seq([r : Runs, todo : SUBSET Todos])
      BY <3>2
    <3>4. k \in Loops
      BY <3>10 DEF Loops
    <3>5. k.pc = "enter" /\ k.fire = l.fire /\ k.ids = l.ids /\ k.out = <<d>>
      BY DEF Loops
    <3>0. l.ids \subseteq Runs
      BY DEF Loops
    <3>6. \A q \in l.ids : runs'[q].status # "absent"
      BY <1>1, <1>6, <3>0 DEF LoopOK, Grows
    <3>7. <<d>> \in Seq(Planned')
      BY <3>3
    <3>8. Go(n, k)
      BY <1>3, <2>1 DEF d
    <3> HIDE DEF k
    <3>9. LoopOK(k)'
      BY <1>2, <1>5, <2>1, <3>5, <3>6, <3>7 DEF LoopOK
    <3> QED
      BY <1>6, <3>4, <3>8, <3>9, LoopsMoved DEF Go, Inv
  <2>2. CASE ~ok
    <3>1. PICK k \in Loops : k = Looked(l) /\ LoopOK(k)
      BY <1>1, LookedOK DEF Inv
    <3>2. LoopOK(k)'
      BY <1>6, <3>1, LoopOKKept
    <3> QED
      BY <1>3, <1>6, <2>2, <3>1, <3>2, LoopsMoved DEF Go, Inv
  <2> QED
    BY <2>1, <2>2
<1> QED
  BY <1>5, <1>7, <1>8, <1>9 DEF StepOK

LEMMA FireEnterStep ==
  ASSUME Inv, NEW n \in Nodes, FireEnter(n)
  PROVE  StepOK
<1>1. PICK l \in Loops : l = loop[n] /\ LoopOK(l)
  BY DEF Inv, LoopsOK
<1>2. /\ l.pc \in {"enter", "skip"} /\ l.fire \in Fires
      /\ l.pc = "enter" => runs[l.fire].status # "absent"
  BY <1>1 DEF FireEnter, LoopOK
<1> DEFINE s == IF l.pc = "skip" THEN "SKIPPED" ELSE "CLAIMED"
<1>3. /\ UNCHANGED control \/ EnterFire(l.fire, s)
      /\ used' \in Nat
  BY <1>1 DEF FireEnter, Apply, Spend, Inv, Plain
<1>4. Same /\ UNCHANGED policy /\ \/ fires' = fires
                                  \/ fires' = [fires EXCEPT ![l.fire] = IF @ = "none" THEN s ELSE @]
  BY <1>3 DEF EnterFire, control, Same
<1>5. LedgerStep /\ Grows
  BY <1>4, SameGrows
<1>6. FiresFollowRuns /\ ReplicaStays
  BY <1>2, <1>4 DEF FireEnter, FiresFollowRuns, ReplicaStays, stores, Inv, Plain
<1>7. Plain'
  BY <1>2, <1>3, <1>4 DEF FireEnter, stores, Plain, Inv, raftVars
<1>8. StartsOK' /\ JobsOK' /\ WorkOK'
  BY <1>5, <1>6, StartsKept, JobsKept, WorkKept DEF Inv, FireEnter
<1>9. LoopsOK'
  <2>1. PICK k \in Loops : k = Looked(l) /\ LoopOK(k)
    BY <1>1, LookedOK DEF Inv
  <2>2. LoopOK(k)'
    BY <1>5, <2>1, LoopOKKept
  <2> QED
    BY <1>1, <1>5, <2>1, <2>2, LoopsMoved DEF FireEnter, Go, Inv
<1> QED
  BY <1>5, <1>6, <1>7, <1>8, <1>9 DEF StepOK

\* ClaimRun on a run that exists.
LEMMA ClaimStep ==
  ASSUME Inv, NEW r \in Runs, runs[r].status # "absent", NEW t \in Terms,
         UNCHANGED control \/ ClaimRun(r, t)
  PROVE  LedgerStep /\ UNCHANGED <<policy, fires>>
<1>1. CASE UNCHANGED control
  BY <1>1, SameGrows DEF control, Same
<1>2. CASE ~UNCHANGED control
  <2>1. ClaimRun(r, t) /\ ~(t < runTerm[r])
    BY <1>2 DEF ClaimRun
  <2>2. runTerm[r] \in Nat /\ t \in Nat
    BY TermsAreNats DEF Inv, Ledger
  <2>3. Leases(r, TRUE, t) /\ UNCHANGED <<policy, fires>>
    BY <1>2, <2>1, <2>2 DEF ClaimRun, Leases
  <2> QED
    BY <2>3 DEF LedgerStep
<1> QED
  BY <1>1, <1>2

LEMMA TakeOverStep ==
  ASSUME Inv, NEW n \in Nodes, NEW r \in Runs, TakeOver(n, r)
  PROVE  StepOK
<1>1. PICK l \in Loops : l = loop[n] /\ LoopOK(l)
  BY DEF Inv, LoopsOK
<1> DEFINE todo == Frozen(r)
           next == [l EXCEPT !.ids = @ \ {r}]
           d == [r |-> r, todo |-> todo]
<1>2. l.pc = "take" /\ r \in l.ids /\ l.t \in Terms /\ runs[r].status # "absent"
  BY <1>1 DEF TakeOver, LoopOK, Loops
<1>3. PICK ok \in BOOLEAN :
        /\ Apply(n, ok, TRUE, ClaimRun(r, l.t))
        /\ Go(n, IF ok /\ todo # {} THEN [next EXCEPT !.out = Append(@, d)] ELSE next)
  BY <1>1 DEF TakeOver
<1>4. (UNCHANGED control \/ ClaimRun(r, l.t)) /\ used' \in Nat
  BY <1>3 DEF Apply, Spend, Inv, Plain
<1>5. LedgerStep /\ UNCHANGED <<policy, fires>>
  BY <1>2, <1>4, ClaimStep
<1>6. Grows
  BY <1>5, LedgerGrows DEF Inv
<1>7. FiresFollowRuns /\ ReplicaStays /\ Plain'
  BY <1>4, <1>5 DEF TakeOver, FiresFollowRuns, ReplicaStays, stores, Plain, Inv, raftVars
<1>8. StartsOK' /\ JobsOK' /\ WorkOK'
  BY <1>6, <1>7, StartsKept, JobsKept, WorkKept DEF Inv, TakeOver
<1>9. LoopsOK'
  <2>1. todo \subseteq Todos /\ \A x \in todo : x.u \in runs[r].routes
    BY DEF Frozen, Todos, Inv, Ledger, RunRecords, TaskRecords
  <2>2. d \in Planned
    <3>1. d \in [r : Runs, todo : SUBSET Todos] /\ d.r = r /\ d.todo = todo
      BY <2>1
    <3> HIDE DEF d, todo
    <3> QED
      BY <2>1, <3>1 DEF Planned
  <2> HIDE DEF d, todo
  <2>3. next \in Loops /\ next.pc = "take" /\ next.ids = l.ids \ {r} /\ next.out = l.out
    BY <1>2 DEF Loops
  <2>4. LoopOK(next)
    BY <1>1, <2>3 DEF LoopOK
  <2> HIDE DEF next
  <2>5. Append(l.out, d) \in Seq(Planned)
    BY <1>1, <2>2 DEF LoopOK
  <2>6. Append(l.out, d) \in Seq([r : Runs, todo : SUBSET Todos])
    BY <2>2 DEF Planned, Loops
  <2> DEFINE a == Append(l.out, d)
             far == [next EXCEPT !.out = a]
  <2> HIDE DEF a
  <2>7. far \in Loops /\ far.pc = "take" /\ far.ids = next.ids /\ far.out = a
    BY <2>3, <2>6 DEF Loops, a
  <2>8. LoopOK(far)
    BY <2>4, <2>5, <2>7 DEF LoopOK, a
  <2>9. Go(n, far) \/ Go(n, next)
    <3>1. [next EXCEPT !.out = Append(@, d)] = far
      BY <2>3 DEF a
    <3> QED
      BY <1>3, <3>1
  <2> HIDE DEF far
  <2>10. PICK k \in Loops : Go(n, k) /\ LoopOK(k)
    BY <2>3, <2>4, <2>7, <2>8, <2>9 DEF Go, LoopOK
  <2> QED
    BY <1>6, <2>10, LoopOKKept, LoopsMoved DEF Go, Inv
<1> QED
  BY <1>5, <1>7, <1>8, <1>9 DEF StepOK

\* Nothing is committed and the dispatch k of n becomes j.
LEMMA JobOnly ==
  ASSUME Inv, NEW n \in Nodes, NEW k \in Kinds, NEW j \in Dispatches, JobOK(j),
         jobs' = [jobs EXCEPT ![n][k] = j], Same
  PROVE  JobsOK'
<1>1. Grows
  BY SameGrows
<1>2. JobOK(j)'
  BY <1>1, JobOKKept
<1> QED
  BY <1>1, <1>2, JobsMoved DEF Inv

LEMMA DispatchNextStep ==
  ASSUME Inv, NEW n \in Nodes, DispatchNext(n)
  PROVE  StepOK
<1>1. PICK l \in Loops : l = loop[n] /\ LoopOK(l)
  BY DEF Inv, LoopsOK
<1>2. Same /\ Grows /\ LedgerStep
  BY SameGrows DEF DispatchNext, Same, control
<1>3. FiresFollowRuns /\ ReplicaStays /\ Plain'
  BY DEF DispatchNext, FiresFollowRuns, ReplicaStays, stores, control, Plain, Inv, raftVars
<1>4. StartsOK' /\ WorkOK'
  BY <1>2, <1>3, StartsKept, WorkKept DEF Inv, DispatchNext
<1>5. CASE l.out = << >>
  <2>1. loop' = [loop EXCEPT ![n] = Idle] /\ UNCHANGED jobs
    BY <1>1, <1>5 DEF DispatchNext, Go
  <2>2. LoopsOK'
    BY <1>2, <2>1, IdleOK, LoopsMoved DEF Inv
  <2>3. JobsOK'
    BY <1>2, <2>1, JobsKept DEF Inv
  <2> QED
    BY <1>2, <1>3, <1>4, <2>2, <2>3 DEF StepOK
<1>6. CASE l.out # << >>
  <2>1. l.out \in Seq(Planned) /\ Head(l.out) \in Planned /\ Tail(l.out) \in Seq(Planned)
    BY <1>1, <1>6 DEF LoopOK
  <2>2. Tail(l.out) \in Seq([r : Runs, todo : SUBSET Todos])
    BY <1>6 DEF Loops
  <2>3. PICK d \in Planned : d = Head(l.out)
    BY <2>1
  <2>4. d.r \in Runs /\ d.todo \subseteq Todos /\ \A x \in d.todo : x.u \in runs[d.r].routes
    BY <2>3 DEF Planned
  <2> DEFINE a == Tail(l.out)
             next == [l EXCEPT !.out = a]
             j == [run |-> d.r, term |-> l.t, todo |-> d.todo]
  <2> HIDE DEF a
  <2>5. next \in Loops /\ next.pc = l.pc /\ next.fire = l.fire /\ next.ids = l.ids /\ next.out = a
    BY <2>2 DEF Loops, a
  <2>6. LoopOK(next)
    BY <1>1, <2>1, <2>5 DEF LoopOK, a
  <2>7. Go(n, next)
    BY <1>1, <1>6 DEF DispatchNext, a, Loops
  <2>8. j \in Dispatches /\ j.run = d.r /\ j.todo = d.todo
    BY <2>4 DEF Dispatches, Loops
  <2>9. jobs' = [jobs EXCEPT ![n]["loop"] = j] \/ UNCHANGED jobs
    BY <1>1, <1>6, <2>3 DEF DispatchNext, Dispatched
  <2> HIDE DEF next, j
  <2>10. JobOK(j)
    BY <2>4, <2>8 DEF JobOK
  <2>11. JobsOK'
    BY <1>2, <2>8, <2>9, <2>10, JobOnly, JobsKept DEF Inv, Kinds
  <2>12. LoopsOK'
    BY <1>2, <2>5, <2>6, <2>7, LoopOKKept, LoopsMoved DEF Inv, Go
  <2> QED
    BY <1>2, <1>3, <1>4, <2>11, <2>12 DEF StepOK
<1> QED
  BY <1>5, <1>6

LEMMA TakeStep ==
  ASSUME Inv, NEW n \in Nodes, NEW k \in Kinds, Take(n, k)
  PROVE  StepOK
<1>1. PICK j \in Dispatches : j = jobs[n][k] /\ JobOK(j)
  BY DEF Inv, JobsOK
<1>2. Same /\ Grows /\ LedgerStep
  BY SameGrows DEF Take, Same, control
<1>3. FiresFollowRuns /\ ReplicaStays /\ Plain'
  BY DEF Take, FiresFollowRuns, ReplicaStays, stores, control, Plain, Inv, raftVars
<1>4. StartsOK' /\ LoopsOK'
  BY <1>2, StartsKept, LoopsKept DEF Inv, Take
<1>5. PICK x \in j.todo :
        /\ work' = work \cup {Worker(n, k, j, x)}
        /\ jobs' = [jobs EXCEPT ![n][k] = IF j.todo = {x} THEN NoJob ELSE [j EXCEPT !.todo = @ \ {x}]]
  BY <1>1 DEF Take
<1>6. x.u \in Routes /\ x.snap \in Nat /\ j.run \in Runs /\ x.u \in runs[j.run].routes /\ j.term \in Terms
  BY <1>1 DEF JobOK, Dispatches, Todos
<1>7. JobsOK'
  <2> DEFINE i == IF j.todo = {x} THEN NoJob ELSE [j EXCEPT !.todo = @ \ {x}]
  <2>0. NoJob \in Dispatches /\ NoJob.todo = {}
    BY TermsAreNats DEF Dispatches, NoJob
  <2>1. i \in Dispatches /\ i.todo \subseteq j.todo /\ (i.todo # {} => i.run = j.run)
    <3>1. CASE j.todo = {x}
      BY <2>0, <3>1
    <3>2. CASE j.todo # {x}
      BY <3>2 DEF Dispatches
    <3> QED
      BY <3>1, <3>2
  <2> HIDE DEF i
  <2>2. JobOK(i)
    BY <1>1, <2>1 DEF JobOK
  <2>3. jobs' = [jobs EXCEPT ![n][k] = i]
    BY <1>5 DEF i
  <2> QED
    BY <1>2, <2>1, <2>2, <2>3, JobOnly
<1>8. WorkOK'
  <2> DEFINE w == Worker(n, k, j, x)
  <2>1. w \in Workers
    BY <1>6 DEF Worker, Workers
  <2>2. /\ w.r = j.run /\ w.u = x.u /\ w.req = x.snap /\ w.snap = x.snap
        /\ w.pc = "begin" /\ w.st = "none"
    BY DEF Worker
  <2> HIDE DEF w
  <2>3. WorkerOK(w)'
    BY <1>2, <1>6, <2>2 DEF WorkerOK, Same
  <2>4. work' \subseteq work \cup {w}
    BY <1>5 DEF w
  <2> QED
    BY <1>2, <1>3, <2>1, <2>3, <2>4, WorkOneMoved DEF Inv
<1> QED
  BY <1>2, <1>3, <1>4, <1>7, <1>8 DEF StepOK

-----------------------------------------------------------------------------
(* The goroutines of routes. *)

\* A goroutine moved on to x or ended, with whatever it committed or stored.
LEMMA WorkStepOK ==
  ASSUME Inv, LedgerStep, UNCHANGED <<policy, fires>>, used' \in Nat, UNCHANGED workOnly, UNCHANGED spec,
         taken' \in [Runs -> [Nodes -> Nat]], replica' \in [Runs -> [Routes -> Nat]], ReplicaStays,
         NEW x \in Workers, work' \subseteq work \/ (WorkerOK(x)' /\ work' \subseteq work \cup {x})
  PROVE  StepOK
<1>1. Grows
  BY LedgerGrows DEF Inv
<1>2. FiresFollowRuns
  BY DEF FiresFollowRuns
<1>3. Plain'
  BY DEF Plain, Inv, workOnly, raftVars
<1>4. StartsOK' /\ JobsOK' /\ LoopsOK'
  BY <1>1, StartsKept, JobsKept, LoopsKept DEF Inv, workOnly
<1>5. WorkOK'
  BY <1>1, WorkKept, WorkOneMoved DEF Inv
<1> QED
  BY <1>2, <1>3, <1>4, <1>5 DEF StepOK

LEMMA BeginCommit ==
  ASSUME Inv, NEW r \in Runs, NEW u \in Routes, NEW v \in Nat, NEW t \in Terms,
         UNCHANGED control \/ (BeginOK(r, u, v, t) /\ Begin(r, u, v, t))
  PROVE  LedgerStep /\ UNCHANGED <<policy, fires>>
<1>1. CASE UNCHANGED control
  BY <1>1, SameGrows DEF control, Same
<1>2. CASE BeginOK(r, u, v, t) /\ Begin(r, u, v, t)
  <2>1. Begins(r, u, v, t) /\ UNCHANGED <<policy, fires>>
    BY <1>2 DEF Begin, Begins
  <2> QED
    BY <2>1 DEF LedgerStep
<1> QED
  BY <1>1, <1>2

LEMMA UpdateCommit ==
  ASSUME Inv, NEW w \in Workers, WorkerOK(w), w.pc \in {"finish", "last"},
         UNCHANGED control \/ (UpdateOK(w.r, w.u, w.t) /\ UpdateTask(w.r, w.u, w.st, w.snap, w.t))
  PROVE  LedgerStep /\ UNCHANGED <<policy, fires>>
<1>0. /\ w.r \in Runs /\ w.u \in Routes /\ w.t \in Terms /\ w.snap \in Nat /\ w.st \in TerminalTask
  BY DEF Workers, WorkerOK
<1>1. CASE UNCHANGED control
  BY <1>1, SameGrows DEF control, Same
<1>2. CASE /\ UpdateOK(w.r, w.u, w.t) /\ UpdateTask(w.r, w.u, w.st, w.snap, w.t)
           /\ tasks[w.r][w.u].st \notin TerminalTask
  <2>1. Settles(w.r, w.u, w.st, w.snap, w.t) /\ UNCHANGED <<policy, fires>>
    BY <1>2 DEF UpdateTask, Settles, WorkerOK
  <2> QED
    BY <1>0, <2>1 DEF LedgerStep
<1> QED
  BY <1>1, <1>2 DEF UpdateTask

\* What every goroutine that moved has in common with what it was.
Continues(w, x) ==
  /\ x \in Workers /\ x.r = w.r /\ x.u = w.u /\ x.req = w.req

LEMMA BeginTaskStep ==
  ASSUME Inv, NEW w \in work, BeginTask(w)
  PROVE  StepOK
<1>0. w \in Workers /\ WorkerOK(w)
  BY DEF Inv, WorkOK
<1>1. w.r \in Runs /\ w.u \in Routes /\ w.snap \in Nat /\ w.t \in Terms
  BY <1>0 DEF Workers
<1> DEFINE x == [w EXCEPT !.pc = "run"]
<1>2. Continues(w, x) /\ x.pc = "run" /\ x.snap = w.snap /\ x.st = w.st
  BY <1>0 DEF Workers, Continues
<1>3. /\ UNCHANGED control \/ (BeginOK(w.r, w.u, w.snap, w.t) /\ Begin(w.r, w.u, w.snap, w.t))
      /\ used' \in Nat
      /\ work' \subseteq work \cup {x}
  BY DEF BeginTask, Apply, Spend, Inv, Plain, Move, End
<1>4. UNCHANGED workOnly /\ UNCHANGED <<spec, taken, replica>> /\ w.pc = "begin"
  BY DEF BeginTask, stores
<1> HIDE DEF x
<1>5. LedgerStep /\ UNCHANGED <<policy, fires>>
  BY <1>1, <1>3, BeginCommit
<1>6. ReplicaStays
  BY <1>4 DEF ReplicaStays
<1>7. WorkerOK(w)'
  BY <1>0, <1>5, <1>6, LedgerGrows, WorkerOKKept DEF Inv
<1>8. WorkerOK(x)'
  BY <1>2, <1>4, <1>7, Words DEF WorkerOK, Continues
<1> QED
  BY <1>2, <1>3, <1>4, <1>5, <1>6, <1>8, WorkStepOK DEF Inv, Plain, Continues

LEMMA NoteCapturedStep ==
  ASSUME Inv, NEW w \in work, NoteCaptured(w)
  PROVE  StepOK
<1>0. w \in Workers /\ WorkerOK(w)
  BY DEF Inv, WorkOK
<1>1. w.r \in Runs /\ w.u \in Routes /\ w.snap \in Nat /\ w.t \in Terms
  BY <1>0 DEF Workers
<1> DEFINE x == [w EXCEPT !.pc = "push"]
<1>2. Continues(w, x) /\ x.pc = "push" /\ x.snap = w.snap /\ x.st = w.st
  BY <1>0 DEF Workers, Continues
<1>3. /\ UNCHANGED control \/ (BeginOK(w.r, w.u, w.snap, w.t) /\ Begin(w.r, w.u, w.snap, w.t))
      /\ used' \in Nat
      /\ work' \subseteq work \cup {x}
  BY DEF NoteCaptured, Apply, Spend, Inv, Plain, Move
<1>4. UNCHANGED workOnly /\ UNCHANGED <<spec, taken, replica>> /\ w.pc = "note"
  BY DEF NoteCaptured, stores
<1> HIDE DEF x
<1>5. LedgerStep /\ UNCHANGED <<policy, fires>>
  BY <1>1, <1>3, BeginCommit
<1>6. ReplicaStays
  BY <1>4 DEF ReplicaStays
<1>7. WorkerOK(w)'
  BY <1>0, <1>5, <1>6, LedgerGrows, WorkerOKKept DEF Inv
<1>8. WorkerOK(x)'
  BY <1>2, <1>4, <1>7, Words DEF WorkerOK, Continues
<1> QED
  BY <1>2, <1>3, <1>4, <1>5, <1>6, <1>8, WorkStepOK DEF Inv, Plain, Continues

LEMMA AbortStep ==
  ASSUME Inv, NEW w \in work, Abort(w)
  PROVE  StepOK
<1>0. w \in Workers /\ WorkerOK(w)
  BY DEF Inv, WorkOK
<1> DEFINE x == [w EXCEPT !.pc = "last", !.st = "TIMEOUT"]
<1>2. Continues(w, x) /\ x.pc = "last" /\ x.snap = w.snap /\ x.st = "TIMEOUT"
  BY <1>0 DEF Workers, Continues, TerminalTask, RetryableTask
<1>3. work' \subseteq work \cup {x}
  BY DEF Abort, Move
<1>4. /\ UNCHANGED workOnly /\ UNCHANGED <<spec, taken, replica, used, policy, fires>>
      /\ Same /\ w.pc = "run"
  BY DEF Abort, stores, control, Same
<1> HIDE DEF x
<1>6. ReplicaStays
  BY <1>4 DEF ReplicaStays
<1>7. WorkerOK(w)'
  BY <1>0, <1>4, <1>6, SameGrows, WorkerOKKept
<1>8. WorkerOK(x)'
  BY <1>2, <1>4, <1>7 DEF WorkerOK, Continues, TerminalTask, RetryableTask
<1> QED
  BY <1>2, <1>3, <1>4, <1>6, <1>8, SameGrows, WorkStepOK DEF Inv, Plain, Continues

\* A capture always ends with a snapshot, whatever retention drops.
LEMMA CaptureType ==
  ASSUME Inv, NEW w \in Workers
  PROVE  /\ Captured(w) \in Nat \ {0}
         /\ Capture(w) => taken' \in [Runs -> [Nodes -> Nat]]
<1>1. w.r \in Runs /\ w.u \in Routes
  BY DEF Workers
<1>2. w.u[1] \in Nodes
  BY <1>1, NodesOfRoute
<1>3. taken \in [Runs -> [Nodes -> Nat]] /\ spec \in [Nodes -> Nat \ {0}]
  BY DEF Inv, Plain
<1>4. Captured(w) \in Nat \ {0}
  BY <1>1, <1>2, <1>3 DEF Captured
<1>5. ASSUME Capture(w) PROVE taken' \in [Runs -> [Nodes -> Nat]]
  <2>1. PICK gone : taken' = [r \in Runs |-> [taken[r] EXCEPT ![w.u[1]] =
                       IF r = w.r THEN Captured(w) ELSE IF r \in gone THEN 0 ELSE @]]
    BY <1>5 DEF Capture
  <2> DEFINE c == Captured(w)
             m == w.u[1]
  <2>2. c \in Nat /\ m \in Nodes
    BY <1>2, <1>4
  <2> HIDE DEF c, m
  <2>3. taken' = [r \in Runs |-> [taken[r] EXCEPT ![m] = IF r = w.r THEN c ELSE IF r \in gone THEN 0 ELSE @]]
    BY <2>1 DEF c, m
  <2>4. \A r \in Runs : [taken[r] EXCEPT ![m] = IF r = w.r THEN c ELSE IF r \in gone THEN 0 ELSE @] \in [Nodes -> Nat]
    BY <1>3, <2>2
  <2> QED
    BY <2>3, <2>4
<1> QED
  BY <1>4, <1>5

\* A goroutine that is done with the route: finished with s and snapshot v.
LEMMA FinishOK ==
  ASSUME Grows, ReplicaStays, NEW w \in Workers, WorkerOK(w), w.st # "SUCCESS" \/ w.pc = "finish",
         NEW s \in TerminalTask, NEW v \in Nat, v = w.snap \/ w.req = 0,
         s = "SUCCESS" => v # 0 /\ replica'[w.r][w.u] = v
  PROVE  /\ [w EXCEPT !.pc = "finish", !.st = s, !.snap = v] \in Workers
         /\ WorkerOK([w EXCEPT !.pc = "finish", !.st = s, !.snap = v])'
<1> DEFINE x == [w EXCEPT !.pc = "finish", !.st = s, !.snap = v]
<1>1. x \in Workers
  BY DEF Workers
<1>2. x.r = w.r /\ x.u = w.u /\ x.req = w.req /\ x.pc = "finish" /\ x.st = s /\ x.snap = v
  BY DEF Workers
<1> HIDE DEF x
<1>3. WorkerOK(w)'
  BY WorkerOKKept
<1>4. WorkerOK(x)'
  BY <1>2, <1>3 DEF WorkerOK
<1> QED
  BY <1>1, <1>4 DEF x

\* A goroutine that goes on to push the snapshot v.
LEMMA PushOK ==
  ASSUME Grows, ReplicaStays, NEW w \in Workers, WorkerOK(w), w.st # "SUCCESS", w.pc \notin {"finish", "last"},
         NEW p \in {"run", "note", "push"}, NEW v \in Nat \ {0}
  PROVE  /\ [w EXCEPT !.pc = p, !.snap = v] \in Workers
         /\ WorkerOK([w EXCEPT !.pc = p, !.snap = v])'
<1> DEFINE x == [w EXCEPT !.pc = p, !.snap = v]
<1>1. x \in Workers
  BY DEF Workers
<1>2. x.r = w.r /\ x.u = w.u /\ x.req = w.req /\ x.pc = p /\ x.st = w.st /\ x.snap = v
  BY DEF Workers
<1> HIDE DEF x
<1>3. WorkerOK(w)'
  BY WorkerOKKept
<1>4. WorkerOK(x)'
  BY <1>2, <1>3 DEF WorkerOK
<1> QED
  BY <1>1, <1>4 DEF x

LEMMA FailureType ==
  ASSUME NEW w, NEW s \in TerminalTask \ {"SUCCESS"}
  PROVE  Failure(w, s) \in TerminalTask \ {"SUCCESS"}
BY DEF Failure, TerminalTask, RetryableTask

\* The goroutine that is what it was but for where it is.
LEMMA SamePush ==
  ASSUME NEW w \in Workers, NEW p
  PROVE  [w EXCEPT !.pc = p] = [w EXCEPT !.pc = p, !.snap = w.snap]
BY DEF Workers

LEMMA CaptureHereStep ==
  ASSUME Inv, NEW w \in work, CaptureHere(w)
  PROVE  StepOK
<1>0. w \in Workers /\ WorkerOK(w)
  BY DEF Inv, WorkOK
<1>1. /\ UNCHANGED workOnly /\ UNCHANGED <<spec, replica, policy, fires>>
      /\ Same /\ w.pc = "run" /\ w.snap \in Nat /\ w.st # "SUCCESS" /\ used' \in Nat
  BY <1>0 DEF CaptureHere, control, Same, Workers, WorkerOK, Inv, Plain, Spend
<1>2. ReplicaStays /\ Grows /\ LedgerStep
  BY <1>1, SameGrows DEF ReplicaStays
<1>3. replica' \in [Runs -> [Routes -> Nat]] /\ taken \in [Runs -> [Nodes -> Nat]]
  BY <1>1 DEF Inv, Plain
<1>4. CASE w.snap # 0 /\ Move(w, [w EXCEPT !.pc = "push"]) /\ UNCHANGED taken
  <2>1. PICK x \in Workers : x = [w EXCEPT !.pc = "push"] /\ WorkerOK(x)'
    BY <1>0, <1>1, <1>2, <1>4, PushOK, SamePush
  <2>2. work' \subseteq work \cup {x}
    BY <1>4, <2>1 DEF Move
  <2> QED
    BY <1>1, <1>2, <1>3, <1>4, <2>1, <2>2, WorkStepOK
<1>5. CASE w.snap = 0 /\ Capture(w) /\ Move(w, [w EXCEPT !.pc = "note", !.snap = Captured(w)])
  <2>1. Captured(w) \in Nat \ {0} /\ taken' \in [Runs -> [Nodes -> Nat]]
    BY <1>0, <1>5, CaptureType
  <2>2. PICK x \in Workers : x = [w EXCEPT !.pc = "note", !.snap = Captured(w)] /\ WorkerOK(x)'
    BY <1>0, <1>1, <1>2, <2>1, PushOK
  <2>3. work' \subseteq work \cup {x}
    BY <1>5, <2>2 DEF Move
  <2> QED
    BY <1>1, <1>2, <1>3, <2>1, <2>2, <2>3, WorkStepOK
<1>6. ASSUME NEW s \in {"TIMEOUT", "UNAVAILABLE"}, w.snap = 0, Finish(w, s, 0), UNCHANGED taken
      PROVE  StepOK
  <2>1. s \in TerminalTask \ {"SUCCESS"}
    BY DEF TerminalTask, RetryableTask
  <2>2. PICK x \in Workers : x = [w EXCEPT !.pc = "finish", !.st = s, !.snap = 0] /\ WorkerOK(x)'
    BY <1>0, <1>1, <1>2, <1>6, <2>1, FinishOK
  <2>3. work' \subseteq work \cup {x}
    BY <1>6, <2>2 DEF Move, Finish
  <2> QED
    BY <1>1, <1>2, <1>3, <1>6, <2>2, <2>3, WorkStepOK
<1> QED
  BY <1>4, <1>5, <1>6 DEF CaptureHere

LEMMA CallSourceStep ==
  ASSUME Inv, NEW w \in work, CallSource(w)
  PROVE  StepOK
<1>0. w \in Workers /\ WorkerOK(w)
  BY DEF Inv, WorkOK
<1>1. /\ UNCHANGED workOnly /\ UNCHANGED <<spec, replica, policy, fires>>
      /\ Same /\ w.pc = "run" /\ w.snap \in Nat /\ w.st # "SUCCESS" /\ used' \in Nat
  BY <1>0 DEF CallSource, control, Same, Workers, WorkerOK, Inv, Plain, Spend
<1>2. ReplicaStays /\ Grows /\ LedgerStep
  BY <1>1, SameGrows DEF ReplicaStays
<1>3. replica' \in [Runs -> [Routes -> Nat]] /\ taken \in [Runs -> [Nodes -> Nat]]
  BY <1>1 DEF Inv, Plain
<1>4. CASE w.req # 0 /\ Move(w, [w EXCEPT !.pc = "push"]) /\ UNCHANGED taken
  <2>0. w.snap # 0
    BY <1>0, <1>4 DEF WorkerOK
  <2>1. PICK x \in Workers : x = [w EXCEPT !.pc = "push"] /\ WorkerOK(x)'
    BY <1>0, <1>1, <1>2, <2>0, PushOK, SamePush
  <2>2. work' \subseteq work \cup {x}
    BY <1>4, <2>1 DEF Move
  <2> QED
    BY <1>1, <1>2, <1>3, <1>4, <2>1, <2>2, WorkStepOK
<1>5. CASE Capture(w) /\ Move(w, [w EXCEPT !.pc = "push", !.snap = Captured(w)])
  <2>1. Captured(w) \in Nat \ {0} /\ taken' \in [Runs -> [Nodes -> Nat]]
    BY <1>0, <1>5, CaptureType
  <2>2. PICK x \in Workers : x = [w EXCEPT !.pc = "push", !.snap = Captured(w)] /\ WorkerOK(x)'
    BY <1>0, <1>1, <1>2, <2>1, PushOK
  <2>3. work' \subseteq work \cup {x}
    BY <1>5, <2>2 DEF Move
  <2> QED
    BY <1>1, <1>2, <1>3, <2>1, <2>2, <2>3, WorkStepOK
<1>6. ASSUME NEW s \in {"FAILED", "UNAVAILABLE"}, Finish(w, Failure(w, s), w.snap), UNCHANGED taken
      PROVE  StepOK
  <2>1. s \in TerminalTask \ {"SUCCESS"}
    BY DEF TerminalTask, RetryableTask
  <2>2. PICK z \in TerminalTask \ {"SUCCESS"} : z = Failure(w, s)
    BY <2>1, FailureType
  <2>3. PICK x \in Workers : x = [w EXCEPT !.pc = "finish", !.st = z, !.snap = w.snap] /\ WorkerOK(x)'
    BY <1>0, <1>1, <1>2, <2>2, FinishOK
  <2>4. work' \subseteq work \cup {x}
    BY <1>6, <2>2, <2>3 DEF Move, Finish
  <2> QED
    BY <1>1, <1>2, <1>3, <1>6, <2>3, <2>4, WorkStepOK
<1> QED
  BY <1>4, <1>5, <1>6 DEF CallSource

LEMMA PushStep ==
  ASSUME Inv, NEW w \in work, Push(w)
  PROVE  StepOK
<1>0. w \in Workers /\ WorkerOK(w)
  BY DEF Inv, WorkOK
<1>1. /\ UNCHANGED workOnly /\ UNCHANGED <<spec, taken, policy, fires>>
      /\ Same /\ w.pc = "push" /\ w.snap \in Nat \ {0} /\ w.st # "SUCCESS" /\ used' \in Nat
  BY <1>0 DEF Push, control, Same, Workers, WorkerOK, Inv, Plain, Spend
<1>2. Grows /\ LedgerStep
  BY <1>1, SameGrows
<1>3. replica \in [Runs -> [Routes -> Nat]] /\ taken' \in [Runs -> [Nodes -> Nat]]
  BY <1>1 DEF Inv, Plain
<1>4. w.r \in Runs /\ w.u \in Routes
  BY <1>0 DEF Workers
<1>5. \/ UNCHANGED replica
      \/ /\ replica[w.r][w.u] \in {0, w.snap} /\ Stored(w)
  BY DEF Push
<1>6. replica' \in [Runs -> [Routes -> Nat]] /\ ReplicaStays
  <2>1. CASE UNCHANGED replica
    BY <1>3, <2>1 DEF ReplicaStays
  <2>2. CASE Stored(w)
    <3>1. replica' = [replica EXCEPT ![w.r][w.u] = IF @ = 0 THEN w.snap ELSE @]
      BY <2>2 DEF Stored
    <3> QED
      BY <1>1, <1>3, <1>4, <3>1 DEF ReplicaStays
  <2> QED
    BY <1>5, <2>1, <2>2
<1>7. ASSUME NEW s \in TerminalTask \ {"SUCCESS"}, Finish(w, Failure(w, s), w.snap)
      PROVE  StepOK
  <2>2. PICK z \in TerminalTask \ {"SUCCESS"} : z = Failure(w, s)
    BY FailureType
  <2>3. PICK x \in Workers : x = [w EXCEPT !.pc = "finish", !.st = z, !.snap = w.snap] /\ WorkerOK(x)'
    BY <1>0, <1>1, <1>2, <1>6, <2>2, FinishOK
  <2>4. work' \subseteq work \cup {x}
    BY <1>7, <2>2, <2>3 DEF Move, Finish
  <2> QED
    BY <1>1, <1>2, <1>3, <1>6, <2>3, <2>4, WorkStepOK
<1>8. ASSUME ~w.live, Finish(w, "TIMEOUT", w.snap)
      PROVE  StepOK
  <2>1. "TIMEOUT" \in TerminalTask \ {"SUCCESS"} /\ Failure(w, "TIMEOUT") = "TIMEOUT"
    BY DEF Failure, TerminalTask, RetryableTask
  <2> QED
    BY <1>7, <1>8, <2>1
<1>9. ASSUME Move(w, [w EXCEPT !.pc = "run"])
      PROVE  StepOK
  <2>1. PICK x \in Workers : x = [w EXCEPT !.pc = "run"] /\ WorkerOK(x)'
    BY <1>0, <1>1, <1>2, <1>6, PushOK, SamePush
  <2>2. work' \subseteq work \cup {x}
    BY <1>9, <2>1 DEF Move
  <2> QED
    BY <1>1, <1>2, <1>3, <1>6, <2>1, <2>2, WorkStepOK
<1>10. ASSUME replica[w.r][w.u] \in {0, w.snap}, Stored(w), Finish(w, "SUCCESS", w.snap)
       PROVE  StepOK
  <2>1. replica'[w.r][w.u] = w.snap
    BY <1>1, <1>3, <1>4, <1>10 DEF Stored
  <2>2. "SUCCESS" \in TerminalTask
    BY DEF TerminalTask
  <2>3. PICK x \in Workers : x = [w EXCEPT !.pc = "finish", !.st = "SUCCESS", !.snap = w.snap] /\ WorkerOK(x)'
    BY <1>0, <1>1, <1>2, <1>6, <2>1, <2>2, FinishOK
  <2>4. work' \subseteq work \cup {x}
    BY <1>10, <2>3 DEF Move, Finish
  <2> QED
    BY <1>1, <1>2, <1>3, <1>6, <2>3, <2>4, WorkStepOK
<1>11. {"FAILED", "UNAVAILABLE"} \subseteq TerminalTask \ {"SUCCESS"}
  BY DEF TerminalTask, RetryableTask
<1> QED
  BY <1>7, <1>8, <1>9, <1>10, <1>11 DEF Push

LEMMA FinishTaskStep ==
  ASSUME Inv, NEW w \in work, FinishTask(w)
  PROVE  StepOK
<1>0. w \in Workers /\ WorkerOK(w) /\ w.pc = "finish"
  BY DEF Inv, WorkOK, FinishTask
<1>1. PICK ok \in BOOLEAN :
       /\ Apply(w.n, ok, UpdateOK(w.r, w.u, w.t), UpdateTask(w.r, w.u, w.st, w.snap, w.t))
       /\ IF ok THEN End(w)
          ELSE Move(w, [w EXCEPT !.pc = "last",
                 !.st = Failure(w, IF UpdateOK(w.r, w.u, w.t) THEN "UNAVAILABLE" ELSE "FAILED"),
                 !.snap = IF w.st = "SUCCESS" THEN w.req ELSE @])
  BY DEF FinishTask
<1>2. /\ UNCHANGED control \/ (UpdateOK(w.r, w.u, w.t) /\ UpdateTask(w.r, w.u, w.st, w.snap, w.t))
      /\ used' \in Nat
  BY <1>1 DEF Apply, Spend, Inv, Plain
<1>3. LedgerStep /\ UNCHANGED <<policy, fires>>
  BY <1>0, <1>2, UpdateCommit
<1>4. UNCHANGED workOnly /\ UNCHANGED <<spec, taken, replica>>
  BY DEF FinishTask, stores
<1>5. ReplicaStays /\ taken' \in [Runs -> [Nodes -> Nat]] /\ replica' \in [Runs -> [Routes -> Nat]]
  BY <1>4 DEF ReplicaStays, Inv, Plain
<1>6. PICK z \in TerminalTask \ {"SUCCESS"} :
        z = Failure(w, IF UpdateOK(w.r, w.u, w.t) THEN "UNAVAILABLE" ELSE "FAILED")
  BY FailureType DEF TerminalTask, RetryableTask
<1>7. PICK v \in Nat : v = (IF w.st = "SUCCESS" THEN w.req ELSE w.snap) /\ (w.req # 0 => v # 0)
  BY <1>0 DEF Workers, WorkerOK
<1> DEFINE x == [w EXCEPT !.pc = "last", !.st = z, !.snap = v]
<1>8. Continues(w, x) /\ x.pc = "last" /\ x.st = z /\ x.snap = v
  BY <1>0 DEF Workers, Continues
<1>9. work' \subseteq work \cup {x}
  <2>1. CASE ok
    BY <1>1, <2>1 DEF End
  <2>2. CASE ~ok
    <3>1. x = [w EXCEPT !.pc = "last", !.st = z, !.snap = IF w.st = "SUCCESS" THEN w.req ELSE @]
      BY <1>0, <1>7 DEF Workers
    <3> QED
      BY <1>1, <1>6, <2>2, <3>1 DEF Move
  <2> QED
    BY <2>1, <2>2
<1> HIDE DEF x
<1>10. WorkerOK(w)'
  BY <1>0, <1>3, <1>5, LedgerGrows, WorkerOKKept DEF Inv
<1>11. WorkerOK(x)'
  BY <1>7, <1>8, <1>10 DEF WorkerOK, Continues
<1> QED
  BY <1>2, <1>3, <1>4, <1>5, <1>8, <1>9, <1>11, WorkStepOK DEF Continues

LEMMA LastWordStep ==
  ASSUME Inv, NEW w \in work, LastWord(w)
  PROVE  StepOK
<1>0. w \in Workers /\ WorkerOK(w) /\ w.pc = "last"
  BY DEF Inv, WorkOK, LastWord
<1>2. /\ UNCHANGED control \/ (UpdateOK(w.r, w.u, w.t) /\ UpdateTask(w.r, w.u, w.st, w.snap, w.t))
      /\ used' \in Nat
  BY DEF LastWord, Apply, Spend, Inv, Plain
<1>3. LedgerStep /\ UNCHANGED <<policy, fires>>
  BY <1>0, <1>2, UpdateCommit
<1>4. UNCHANGED workOnly /\ UNCHANGED <<spec, taken, replica>> /\ work' \subseteq work
  BY DEF LastWord, stores, End
<1>5. ReplicaStays /\ taken' \in [Runs -> [Nodes -> Nat]] /\ replica' \in [Runs -> [Routes -> Nat]]
  BY <1>4 DEF ReplicaStays, Inv, Plain
<1> QED
  BY <1>0, <1>2, <1>3, <1>4, <1>5, WorkStepOK

-----------------------------------------------------------------------------
(* Everything else. *)

\* A step that leaves the ledger and what the agents carry alone.
LEMMA QuietStep ==
  ASSUME Inv, Plain', ReplicaStays, UNCHANGED <<runs, tasks, runTerm, fires, loop, api, jobs, work>>
  PROVE  StepOK
<1>1. Same /\ LedgerStep /\ Grows /\ FiresFollowRuns
  BY SameGrows DEF Same, FiresFollowRuns
<1>2. LoopsOK' /\ StartsOK' /\ JobsOK' /\ WorkOK'
  BY <1>1, LoopsKept, StartsKept, JobsKept, WorkKept DEF Inv
<1> QED
  BY <1>1, <1>2 DEF StepOK

LEMMA LatePutStep ==
  ASSUME Inv, NEW r \in Runs, NEW u \in Routes, LatePut(r, u)
  PROVE  StepOK
<1>1. UNCHANGED <<runs, tasks, runTerm, fires, loop, api, jobs, work>>
  BY DEF LatePut, control
<1>2. u[1] \in Nodes
  BY NodesOfRoute
<1>3. ReplicaStays
  BY DEF LatePut, ReplicaStays, Inv, Plain
<1>4. replica' \in [Runs -> [Routes -> Nat]]
  BY <1>2 DEF LatePut, Inv, Plain
<1>5. Plain'
  BY <1>1, <1>4 DEF LatePut, Inv, Plain, raftVars, control, Spend
<1> QED
  BY <1>1, <1>3, <1>5, QuietStep

LEMMA PolicyStep ==
  ASSUME Inv, DeletePolicy \/ \E p \in Plans : PutPolicy(p)
  PROVE  StepOK
<1>1. UNCHANGED <<runs, tasks, runTerm, fires, loop, api, jobs, work>> /\ UNCHANGED <<raftVars, due, stores>>
      /\ used' = used + 1
  BY DEF PutPolicy, DeletePolicy, apiVars, Spend
<1>2. policy' \in [routes : SUBSET Routes, rev : Nat, epoch : Nat]
  <2>1. CASE DeletePolicy
    BY <2>1 DEF DeletePolicy, Inv, Plain
  <2>2. ASSUME NEW p \in Plans, PutPolicy(p)
        PROVE  policy' \in [routes : SUBSET Routes, rev : Nat, epoch : Nat]
    <3>1. p \subseteq Routes /\ due \in Nat /\ policy.rev + 1 \in Nat
      BY ReplicationConstants DEF ReplicationConstants, Routes, Inv, Plain
    <3> QED
      BY <2>2, <3>1 DEF PutPolicy
  <2> QED
    BY <2>1, <2>2
<1>3. Plain' /\ ReplicaStays
  BY <1>1, <1>2 DEF Inv, Plain, raftVars, stores, ReplicaStays
<1> QED
  BY <1>1, <1>3, QuietStep

LEMMA ElectStep ==
  ASSUME Inv, NEW n \in Nodes, Elect(n)
  PROVE  StepOK
<1>1. UNCHANGED <<runs, tasks, runTerm, fires, loop, api, jobs, work>>
  BY DEF Elect, control
<1>2. term' \in Terms
  BY ReplicationConstants DEF Elect, ReplicationConstants, Inv, Plain, Terms
<1>3. Plain' /\ ReplicaStays
  BY <1>1, <1>2 DEF Elect, Inv, Plain, control, stores, ReplicaStays
<1> QED
  BY <1>1, <1>3, QuietStep

LEMMA NextFireStep ==
  ASSUME Inv, NextFire
  PROVE  StepOK
<1>1. UNCHANGED <<runs, tasks, runTerm, fires, loop, api, jobs, work>>
  BY DEF NextFire, control
<1>2. Plain' /\ ReplicaStays
  BY <1>1 DEF NextFire, Inv, Plain, control, raftVars, stores, ReplicaStays
<1> QED
  BY <1>1, <1>2, QuietStep

LEMMA EditSpecStep ==
  ASSUME Inv, NEW n \in Nodes, EditSpec(n)
  PROVE  StepOK
<1>1. UNCHANGED <<runs, tasks, runTerm, fires, loop, api, jobs, work>>
  BY DEF EditSpec, control
<1>2. spec' \in [Nodes -> Nat \ {0}]
  BY DEF EditSpec, Inv, Plain
<1>3. Plain' /\ ReplicaStays
  BY <1>1, <1>2 DEF EditSpec, Inv, Plain, control, raftVars, ReplicaStays, Spend
<1> QED
  BY <1>1, <1>3, QuietStep

LEMMA NoStartOK == NoStart \in Starts
BY TermsAreNats DEF NoStart, Starts

LEMMA CrashStep ==
  ASSUME Inv, NEW n \in Nodes, Crash(n)
  PROVE  StepOK
<1>1. Same /\ LedgerStep /\ Grows
  BY SameGrows DEF Crash, control, Same
<1>2. FiresFollowRuns /\ ReplicaStays /\ Plain'
  BY DEF Crash, control, FiresFollowRuns, ReplicaStays, stores, Inv, Plain, Spend
<1>3. LoopsOK'
  BY <1>1, IdleOK, LoopsMoved DEF Inv, Crash
<1>4. StartsOK'
  BY NoStartOK DEF Inv, Crash, StartsOK, StartOK
<1>5. WorkOK'
  BY <1>1, <1>2, WorkKept DEF Inv, Crash
<1>6. JobsOK'
  <2> DEFINE row == [k \in Kinds |-> NoJob]
  <2>1. NoJob \in Dispatches /\ NoJob.todo = {}
    BY TermsAreNats DEF Dispatches, NoJob
  <2>2. jobs' = [jobs EXCEPT ![n] = row]
    BY DEF Crash
  <2>3. jobs' \in [Nodes -> [Kinds -> Dispatches]]
    BY <2>1, <2>2 DEF Inv, JobsOK
  <2>4. \A m \in Nodes, k \in Kinds : jobs'[m][k] = IF m = n THEN NoJob ELSE jobs[m][k]
    BY <2>2 DEF Inv, JobsOK
  <2>5. \A m \in Nodes, k \in Kinds : JobOK(jobs[m][k])'
    BY <1>1, <2>1, <2>4 DEF Inv, JobsOK, JobOK, Same
  <2> QED
    BY <2>3, <2>5 DEF JobsOK
<1> QED
  BY <1>1, <1>2, <1>3, <1>4, <1>5, <1>6 DEF StepOK

LEMMA ExpireRunStep ==
  ASSUME Inv, NEW r \in Runs, ExpireRun(r)
  PROVE  StepOK
<1>0. /\ runs' = [runs EXCEPT ![r].lease = FALSE] /\ used' = used + 1
      /\ UNCHANGED <<term, leader, policy, fires, tasks, runTerm, due, loop, api, spec, taken, replica>>
  BY DEF ExpireRun, Spend, raftVars, stores
<1>1. Leases(r, FALSE, runTerm[r]) /\ runTerm[r] \in Terms
  <2>1. runTerm \in [Runs -> Terms] /\ runTerm[r] \in Nat
    BY TermsAreNats DEF Inv, Ledger
  <2>2. runTerm = [runTerm EXCEPT ![r] = runTerm[r]]
    BY <2>1
  <2> QED
    BY <1>0, <2>1, <2>2 DEF Leases
<1>2. LedgerStep
  BY <1>1 DEF LedgerStep
<1>3. Grows
  BY <1>2, LedgerGrows DEF Inv
<1>4. FiresFollowRuns /\ ReplicaStays /\ Plain'
  BY <1>0 DEF FiresFollowRuns, ReplicaStays, Inv, Plain
<1>5. LoopsOK' /\ StartsOK'
  BY <1>3, LoopsKept, StartsKept DEF Inv, ExpireRun
<1>6. JobsOK'
  <2>1. NoJob \in Dispatches /\ NoJob.todo = {}
    BY TermsAreNats DEF Dispatches, NoJob
  <2>2. jobs' = [n \in Nodes |-> [k \in Kinds |-> IF jobs[n][k].run = r THEN NoJob ELSE jobs[n][k]]]
    BY DEF ExpireRun
  <2>3. jobs' \in [Nodes -> [Kinds -> Dispatches]]
    BY <2>1, <2>2 DEF Inv, JobsOK
  <2>4. \A n \in Nodes, k \in Kinds : jobs'[n][k] \in {NoJob, jobs[n][k]}
    BY <2>2
  <2>5. \A n \in Nodes, k \in Kinds : JobOK(jobs[n][k])'
    BY <1>3, <2>1, <2>4 DEF Inv, JobsOK, JobOK, Grows
  <2> QED
    BY <2>3, <2>5 DEF JobsOK
<1>7. WorkOK'
  <2> DEFINE F(w) == [w EXCEPT !.live = FALSE, !.k = IF jobs[w.n][@].run = r THEN "left" ELSE @]
  <2>1. work' \subseteq work \cup {F(w) : w \in work}
    BY DEF ExpireRun
  <2>2. \A w \in work : w \in Workers /\ WorkerOK(w)
    BY DEF Inv, WorkOK
  <2>3. \A w \in work : WorkerOK(w)'
    BY <1>3, <1>4, <2>2, WorkerOKKept
  <2>4. \A w \in work : F(w) \in Workers
    BY <2>2 DEF Workers
  <2>5. \A w \in work : /\ F(w).r = w.r /\ F(w).u = w.u /\ F(w).pc = w.pc /\ F(w).st = w.st
                        /\ F(w).snap = w.snap /\ F(w).req = w.req
    BY <2>2 DEF Workers
  <2> HIDE DEF F
  <2>6. ASSUME NEW x \in work'
        PROVE  x \in Workers /\ WorkerOK(x)'
    <3>1. CASE x \in work
      BY <2>2, <2>3, <3>1
    <3>2. ASSUME NEW w \in work, x = F(w)
          PROVE  x \in Workers /\ WorkerOK(x)'
      <4>1. /\ x.r = w.r /\ x.u = w.u /\ x.pc = w.pc /\ x.st = w.st /\ x.snap = w.snap /\ x.req = w.req
            /\ x \in Workers
        BY <2>4, <2>5, <3>2
      <4>2. WorkerOK(w)'
        BY <2>3
      <4> QED
        BY <4>1, <4>2 DEF WorkerOK
    <3> QED
      BY <2>1, <3>1, <3>2
  <2> QED
    BY <2>6 DEF WorkOK
<1> QED
  BY <1>2, <1>4, <1>5, <1>6, <1>7 DEF StepOK

LEMMA StartLookStep ==
  ASSUME Inv, NEW n \in Nodes, NEW r \in Manual, StartLook(n, r)
  PROVE  StepOK
<1>1. Same /\ LedgerStep /\ Grows
  BY SameGrows DEF StartLook, control, Same
<1>2. FiresFollowRuns /\ ReplicaStays /\ Plain'
  BY DEF StartLook, control, apiVars, FiresFollowRuns, ReplicaStays, stores, raftVars, Inv, Plain
<1>3. LoopsOK' /\ JobsOK' /\ WorkOK'
  BY <1>1, <1>2, LoopsKept, JobsKept, WorkKept DEF Inv, StartLook, apiVars
<1>4. StartsOK'
  <2> DEFINE a == [run |-> r, t |-> term, routes |-> policy.routes, rev |-> policy.rev]
  <2>1. a \in Starts /\ a.run = r
    BY DEF Starts, Inv, Plain
  <2> HIDE DEF a
  <2>2. api' = [api EXCEPT ![n] = a]
    BY DEF StartLook, a
  <2> QED
    BY <2>1, <2>2 DEF Inv, StartsOK, StartOK
<1> QED
  BY <1>1, <1>2, <1>3, <1>4 DEF StepOK

LEMMA StartRunStep ==
  ASSUME Inv, NEW n \in Nodes, StartRun(n)
  PROVE  StepOK
<1>1. PICK a \in Starts : a = api[n] /\ a.run \in Runs
  BY DEF StartRun, Inv, StartsOK, StartOK, Runs
<1>2. a.routes \in SUBSET Routes /\ a.rev \in Nat /\ a.t \in Terms
  BY DEF Starts
<1>3. PICK ok \in BOOLEAN :
       /\ Apply(n, ok, CreateOK(a.run, a.routes, a.rev), CreateRun(a.run, a.routes, a.rev, a.t))
       /\ IF ok THEN Dispatched(n, "api", a.run, a.t, Fresh(a.routes), TRUE) ELSE UNCHANGED jobs
  BY <1>1 DEF StartRun
<1>4. /\ UNCHANGED control \/ (CreateOK(a.run, a.routes, a.rev) /\ CreateRun(a.run, a.routes, a.rev, a.t))
      /\ ok => CreateOK(a.run, a.routes, a.rev) /\ CreateRun(a.run, a.routes, a.rev, a.t)
      /\ used' \in Nat
  BY <1>3 DEF Apply, Spend, Inv, Plain
<1>5. /\ LedgerStep /\ UNCHANGED <<policy, fires>>
      /\ ok => runs'[a.run].routes = a.routes
  BY <1>1, <1>2, <1>4, CreateStep
<1>6. Grows
  BY <1>5, LedgerGrows DEF Inv
<1>7. FiresFollowRuns /\ ReplicaStays /\ Plain'
  BY <1>4, <1>5 DEF StartRun, apiVars, FiresFollowRuns, ReplicaStays, stores, Plain, Inv, raftVars
<1>8. LoopsOK' /\ WorkOK'
  BY <1>6, <1>7, LoopsKept, WorkKept DEF Inv, StartRun, apiVars
<1>9. StartsOK'
  BY NoStartOK DEF Inv, StartRun, StartsOK, StartOK
<1>10. JobsOK'
  <2>1. CASE ok
    <3> DEFINE F == Fresh(a.routes)
               j == [run |-> a.run, term |-> a.t, todo |-> F]
    <3>1. F \subseteq Todos /\ \A x \in F : x.u \in a.routes
      BY <1>2 DEF Fresh, Todos
    <3>2. jobs' = [jobs EXCEPT ![n]["api"] = j]
      BY <1>3, <2>1 DEF Dispatched
    <3> HIDE DEF F
    <3>3. j \in Dispatches /\ j.run = a.run /\ j.todo = F
      BY <1>1, <1>2, <3>1 DEF Dispatches
    <3> HIDE DEF j
    <3>4. JobOK(j)'
      BY <1>1, <1>5, <2>1, <3>1, <3>3 DEF JobOK
    <3> QED
      BY <1>6, <3>2, <3>3, <3>4, JobsMoved DEF Inv, Kinds
  <2>2. CASE ~ok
    BY <1>3, <1>6, <2>2, JobsKept DEF Inv
  <2> QED
    BY <2>1, <2>2
<1> QED
  BY <1>5, <1>7, <1>8, <1>9, <1>10 DEF StepOK

LEMMA RetryRoutesStep ==
  ASSUME Inv, NEW n \in Nodes, NEW r \in Runs, RetryRoutes(n, r)
  PROVE  StepOK
<1>1. term \in Terms /\ UNCHANGED <<policy, fires>> /\ used' \in Nat
  <2>1. RetryFailedTasks(r, term) /\ used' = used + 1
    BY DEF RetryRoutes, Spend
  <2> QED
    <3>1. UNCHANGED <<policy, fires>>
      BY <2>1 DEF RetryFailedTasks
    <3>2. term \in Terms /\ used \in Nat
      BY DEF Inv, Plain
    <3> QED
      BY <2>1, <3>1, <3>2
<1>2. Retries(r, term)
  BY DEF RetryRoutes, RetryFailedTasks, Retries, Failed
<1>3. LedgerStep
  BY <1>1, <1>2 DEF LedgerStep
<1>4. Grows /\ Ledger'
  BY <1>3, LedgerGrows, LedgerKept DEF Inv
<1>5. FiresFollowRuns /\ ReplicaStays /\ Plain'
  BY <1>1 DEF RetryRoutes, apiVars, FiresFollowRuns, ReplicaStays, stores, Plain, Inv, raftVars
<1>6. LoopsOK' /\ WorkOK' /\ StartsOK'
  BY <1>4, <1>5, LoopsKept, WorkKept, StartsKept DEF Inv, RetryRoutes, apiVars
<1>7. JobsOK'
  <2> DEFINE todo == {[u |-> u, snap |-> tasks'[r][u].snap] :
                 u \in {x \in runs[r].routes : tasks'[r][x].st = "PENDING"}}
             j == [run |-> r, term |-> term, todo |-> todo]
  <2>1. jobs' = [jobs EXCEPT ![n]["api"] = j] \/ UNCHANGED jobs
    BY DEF RetryRoutes, Dispatched
  <2>2. runs[r].routes \subseteq Routes /\ runs[r].routes \subseteq runs'[r].routes
    BY <1>4 DEF Grows, Inv, Ledger, RunRecords
  <2>3. \A u \in Routes : tasks'[r][u].snap \in Nat
    BY <1>4 DEF Ledger, TaskRecords
  <2>4. todo \subseteq Todos /\ \A x \in todo : x.u \in runs'[r].routes
    BY <2>2, <2>3 DEF Todos
  <2> HIDE DEF todo
  <2>5. j \in Dispatches /\ j.run = r /\ j.todo = todo
    BY <1>1, <2>4 DEF Dispatches
  <2> HIDE DEF j
  <2>6. PICK i \in Dispatches : i = j
    BY <2>5
  <2>7. JobOK(i)'
    BY <2>4, <2>5, <2>6 DEF JobOK
  <2> QED
    BY <1>4, <2>1, <2>6, <2>7, JobsMoved, JobsKept DEF Inv, Kinds
<1> QED
  BY <1>3, <1>5, <1>6, <1>7 DEF StepOK

-----------------------------------------------------------------------------
(* The theorems. *)

LEMMA InitInv ==
  ASSUME Init
  PROVE  Inv
<1>1. Plain
  <2>1. 1 \in Terms
    BY ReplicationConstants DEF ReplicationConstants, Terms
  <2>2. policy \in [routes : SUBSET Routes, rev : Nat, epoch : Nat]
    BY DEF Init, Routes
  <2> QED
    BY <2>1, <2>2, ReplicationConstants DEF Init, Plain, ReplicationConstants
<1>2. Ledger
  <2>1. NoRun \in RunRecords /\ NoRun.status = "absent" /\ NoRun.routes = {}
    BY NoCountType DEF NoRun, RunRecords
  <2>2. NoTask \in TaskRecords
    BY TermsAreNats DEF NoTask, TaskRecords
  <2>3. runs = [r \in Runs |-> NoRun] /\ tasks = [r \in Runs |-> [u \in Routes |-> NoTask]]
        /\ runTerm = [r \in Runs |-> 0]
    BY DEF Init
  <2>4. runs \in [Runs -> RunRecords] /\ tasks \in [Runs -> [Routes -> TaskRecords]]
        /\ runTerm \in [Runs -> Terms]
    BY <2>1, <2>2, <2>3, TermsAreNats
  <2>5. BlankUntilOpen /\ PlanHasTasks
    BY <2>1, <2>3 DEF BlankUntilOpen, PlanHasTasks
  <2>6. EndedIsComplete
    BY <2>1, <2>3 DEF EndedIsComplete, TerminalRun
  <2> QED
    BY <2>4, <2>5, <2>6 DEF Ledger
<1>3. LoopsOK /\ StartsOK
  BY IdleOK, NoStartOK DEF Init, LoopsOK, StartsOK, StartOK
<1>4. JobsOK /\ WorkOK
  <2>1. NoJob \in Dispatches /\ NoJob.todo = {}
    BY TermsAreNats DEF Dispatches, NoJob
  <2> QED
    BY <2>1 DEF Init, JobsOK, JobOK, WorkOK
<1>5. SuccessIsStored /\ ClaimedHasRun
  BY DEF Init, SuccessIsStored, ClaimedHasRun, NoTask
<1> QED
  BY <1>1, <1>2, <1>3, <1>4, <1>5 DEF Inv

LEMMA WorkerStepOK ==
  ASSUME Inv, NEW w \in work, WorkStep(w)
  PROVE  StepOK
BY BeginTaskStep, AbortStep, CaptureHereStep, NoteCapturedStep, CallSourceStep, PushStep,
   FinishTaskStep, LastWordStep DEF WorkStep

LEMMA NextStep ==
  ASSUME Inv, Next
  PROVE  StepOK
<1>1. ASSUME NEW n \in Nodes, TickBegin(n) \/ FireCreate(n) \/ FireEnter(n) \/ DispatchNext(n)
      PROVE  StepOK
  BY <1>1, TickBeginStep, FireCreateStep, FireEnterStep, DispatchNextStep
<1>2. ASSUME NEW n \in Nodes, StartRun(n) \/ Elect(n) \/ Crash(n) \/ EditSpec(n)
      PROVE  StepOK
  BY <1>2, StartRunStep, ElectStep, CrashStep, EditSpecStep
<1>3. ASSUME NEW n \in Nodes, NEW r \in Runs, TakeOver(n, r) \/ RetryRoutes(n, r)
      PROVE  StepOK
  BY <1>3, TakeOverStep, RetryRoutesStep
<1> QED
  BY <1>1, <1>2, <1>3, StartLookStep, TakeStep, WorkerStepOK, ExpireRunStep, LatePutStep, PolicyStep,
     NextFireStep DEF Next

LEMMA StepKeepsInv ==
  ASSUME Inv, StepOK
  PROVE  Inv'
<1>1. Ledger' /\ SuccessIsStored'
  BY LedgerKept, SuccessKept DEF Inv, StepOK
<1>2. ClaimedHasRun'
  BY LedgerGrows DEF Inv, StepOK, ClaimedHasRun, FiresFollowRuns, Grows, Runs
<1> QED
  BY <1>1, <1>2 DEF Inv, StepOK

LEMMA StutterKeepsInv ==
  ASSUME Inv, UNCHANGED vars
  PROVE  StepOK
<1>1. UNCHANGED <<runs, tasks, runTerm, fires, loop, api, jobs, work>>
  BY DEF vars, control
<1>2. Plain' /\ ReplicaStays
  BY DEF vars, Inv, Plain, control, raftVars, stores, ReplicaStays
<1> QED
  BY <1>1, <1>2, QuietStep

LEMMA Invariance == Spec => []Inv
<1>1. Init => Inv
  BY InitInv
<1>2. Inv /\ [Next]_vars => Inv'
  BY NextStep, StutterKeepsInv, StepKeepsInv
<1> QED
  BY <1>1, <1>2, PTL DEF Spec

\* The state of the coordinators, the API, the goroutines and the committed
\* records is well typed.
THEOREM ReplicationTypeCorrect == Spec => []TypeOK
<1>1. Inv => TypeOK
  BY DEF Inv, Plain, Ledger, LoopsOK, StartsOK, JobsOK, WorkOK, TypeOK
<1> QED
  BY <1>1, Invariance, PTL

\* A route recorded as done has its target hold the snapshot the record names:
\* for any number of runs, leaders, lost answers and repeated dispatches.
THEOREM SuccessesAreStored == Spec => []SuccessIsStored
<1>1. Inv => SuccessIsStored
  BY DEF Inv
<1> QED
  BY <1>1, Invariance, PTL

\* A fire entered as claimed has its run, whoever created it.
THEOREM ClaimedFiresHaveRuns == Spec => []ClaimedHasRun
<1>1. Inv => ClaimedHasRun
  BY DEF Inv
<1> QED
  BY <1>1, Invariance, PTL

\* Tasks change only in the hands of the term that owns their run, and begin
\* and retry keep the snapshot they had.
THEOREM OnlyOwnersWrite == Spec => OwnerWrites
<1>1. Inv /\ [Next]_vars =>
        [\A r \in Runs, u \in Routes :
           tasks'[r][u] # tasks[r][u] =>
             /\ tasks'[r][u].st # tasks[r][u].st => tasks'[r][u].term = runTerm'[r]
             /\ tasks[r][u].snap \notin {0, tasks'[r][u].snap} =>
                  /\ tasks'[r][u].snap # 0
                  /\ tasks[r][u].st \notin TerminalTask /\ tasks'[r][u].st \in TerminalTask
             /\ runTerm'[r] >= runTerm[r]]_vars
  BY NextStep, LedgerOwned DEF Inv, StepOK, OwnerWrote
<1> QED
  BY <1>1, Invariance, PTL DEF Spec, OwnerWrites

\* Every replication run refines RunPromise: what its readers see opens once
\* with its routes frozen, a good report is final, and the verdict is what the
\* reports add up to.
THEOREM ReplicationKeepsPromise == Spec => KeepsPromise
<1>1. Init => Promise!Init
  BY PromiseBegins
<1>2. Inv /\ [Next]_vars => [Promise!Next]_(Promise!vars)
  BY NextStep, StutterKeepsInv, LedgerKeepsPromise DEF Inv, StepOK
<1> QED
  BY <1>1, <1>2, Invariance, PTL DEF Spec, KeepsPromise, Promise!Spec

=============================================================================
