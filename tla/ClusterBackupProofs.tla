------------------------- MODULE ClusterBackupProofs ------------------------
(***************************************************************************)
(* Proofs about ClusterBackup for any nodes, policies, fires and runs, any *)
(* number of elections and any events.                                     *)
(*                                                                         *)
(* Whatever commits, the ledger of fires, runs and tasks takes one of six  *)
(* small steps (LedgerStep); what the theorems say of the ledger is shown  *)
(* for the six, and each action is shown to take one of them.              *)
(***************************************************************************)
EXTENDS ClusterBackup, RunLedgerProofs

-----------------------------------------------------------------------------
(* The inductive invariant. *)

\* A run that does not exist has no target and no owner.
BlankUntilCreated ==
  \A r \in Runs : runs[r].status = "absent" => runs[r].targets = << >> /\ runTerm[r] = 0

\* Only targets of a run have a task in it.
TasksOfTargets ==
  \A r \in Runs, n \in Nodes : tasks[r][n].st # "none" => n \in Targets(r)

Ledger ==
  /\ fires \in [Fires -> FireRecords]
  /\ runs \in [Runs -> RunRecords]
  /\ tasks \in [Runs -> [Nodes -> TaskRecords]]
  /\ runTerm \in [Runs -> Terms]
  /\ BlankUntilCreated /\ TasksOfTargets /\ LedgerAgrees

\* The term of the last claim of a run: that of its fire if it has one.
Claimed(r) == IF r \in Fires THEN fires[r].term ELSE runTerm[r]

\* What a Tick carries along: runs that exist, places in their lists of targets,
\* and claims it made in its own term.
LoopOK(l) ==
  /\ l.pc = "claim" => l.fire \in Fires
  /\ \A r \in l.ids : runs[r].status # "absent"
  /\ \A d \in l.out : /\ runs[d[1]].status # "absent"
                      /\ d[2] \subseteq DOMAIN runs[d[1]].targets
                      /\ l.t # 0 /\ l.t <= Claimed(d[1])

\* A goroutine works on a target of its run, and believes in a success only
\* while the target's disk holds the snapshot.
WorkerOK(r, w) ==
  /\ w.n \in Targets(r)
  /\ w.pc \in {"persist", "fallback"} => w.st \in TerminalTask
  /\ w.st = "SUCCESS" => w.pc = "persist" /\ w.snap # 0 /\ disk[r][w.n] = w.snap

JobOK(j) ==
  \/ j = NoJob
  \/ /\ j.run \in Runs /\ runs[j.run].status # "absent"
     /\ j.todo \subseteq DOMAIN runs[j.run].targets
     /\ \A w \in j.act : WorkerOK(j.run, w)

LoopsOK == loop \in [Nodes -> Loops] /\ \A n \in Nodes : LoopOK(loop[n])
JobsOK == jobs \in [Nodes -> [Kinds -> Dispatches]] /\ \A n \in Nodes, k \in Kinds : JobOK(jobs[n][k])

\* A term has one leader, so no two main loops are in a Tick of one term.
OneTickPerTerm ==
  /\ \A n \in Nodes : loop[n].t <= term /\ (loop[n].t = term => leader \in {n, None})
  /\ \A n, m \in Nodes : loop[n].t # 0 /\ loop[n].t = loop[m].t => n = m

\* A live dispatch of a main loop has the run's lease.
LiveHasLease ==
  \A n \in Nodes : jobs[n]["loop"].live => runs[jobs[n]["loop"].run].lease

\* A Tick that will dispatch a run it claimed, and still owns, is the only one.
ClaimedAlone ==
  \A n, m \in Nodes : \A d \in loop[n].out :
    /\ runTerm[d[1]] = loop[n].t
    /\ jobs[m]["loop"].live /\ jobs[m]["loop"].run = d[1]
    => n = m

Race == OneTickPerTerm /\ LiveHasLease /\ ClaimedAlone /\ OneLoopPerRun

Plain ==
  /\ term \in Terms \ {0} /\ leader \in Nodes \cup {None}
  /\ policy \in [sel : {"EXPLICIT", "GROUP", "ALL"}, ids : Seq(Nodes), rev : Nat]
  /\ admitted \subseteq Nodes
  /\ due \in Fires \cup {0} /\ used \in Nat
  /\ memo \in [Nodes -> [Fires -> Terms]]
  /\ spec \in [Nodes -> Nat \ {0}]
  /\ disk \in [Runs -> [Nodes -> Nat]]

Inv == Plain /\ Ledger /\ LoopsOK /\ JobsOK /\ SuccessIsBacked /\ Race

-----------------------------------------------------------------------------
(* The steps the ledger takes. *)

Same == UNCHANGED <<fires, runs, tasks, runTerm>>

Creates(r, ts, rev, t) ==
  /\ runs[r].status = "absent"
  /\ runs' = [runs EXCEPT ![r] = [status |-> "RUNNING", rev |-> rev, targets |-> ts,
                                  lease |-> TRUE, count |-> NoCount]]
  /\ runTerm' = [runTerm EXCEPT ![r] = t]
  /\ fires' = IF r \in Fires THEN [fires EXCEPT ![r] = [status |-> "CLAIMED", term |-> t]] ELSE fires
  /\ tasks' = tasks

\* An expired run changes its owner.
Takes(r, t) ==
  /\ runs[r].status = "RUNNING" /\ ~runs[r].lease /\ t > Claimed(r)
  /\ runs' = [runs EXCEPT ![r].lease = TRUE]
  /\ runTerm' = [runTerm EXCEPT ![r] = t]
  /\ fires' = IF r \in Fires THEN [fires EXCEPT ![r] = [status |-> "CLAIMED", term |-> t]] ELSE fires
  /\ tasks' = tasks

Expires(r) ==
  /\ runs' = [runs EXCEPT ![r].lease = FALSE]
  /\ UNCHANGED <<fires, tasks, runTerm>>

\* The end of a task; a success is one that is on the target's disk.
Settles(r, n, s, v, t) ==
  /\ n \in Targets(r) /\ ~StaleTask(r, n, t) /\ tasks[r][n].st \notin TerminalTask
  /\ s = "SUCCESS" => v # 0 /\ disk[r][n] = v
  /\ tasks' = [tasks EXCEPT ![r][n] = [st |-> s, term |-> t, snap |-> v]]
  /\ runTerm' = Newer(r, t)
  /\ LET run == Aggregated(runs[r], [TaskStatuses(r) EXCEPT ![n] = s], Targets(r)) IN
       /\ runs' = [runs EXCEPT ![r] = run]
       /\ fires' = IF run.status \in TerminalRun THEN Synced(r, t, run.status) ELSE fires

Failed(r) == {n \in Nodes : tasks[r][n].st \in RetryableTask}
Retries(r, t) ==
  /\ runs[r].status # "absent" /\ runTerm[r] <= t
  /\ tasks' = [tasks EXCEPT ![r] = [n \in Nodes |->
       IF n \in Failed(r) THEN [st |-> "PENDING", term |-> t, snap |-> 0] ELSE @[n]]]
  /\ runs' = IF Failed(r) = {} THEN runs
             ELSE [runs EXCEPT ![r] = [@ EXCEPT !.status = "RUNNING", !.lease = TRUE,
                                                !.count = NoCount]]
  /\ fires' = IF Failed(r) = {} THEN fires ELSE Synced(r, t, "CLAIMED")
  /\ runTerm' = Newer(r, t)

\* Every step but the end of a lease.
LeasedStep ==
  \/ Same
  \/ \E r \in Runs, ts \in Seq(Nodes), rev \in Nat, t \in Terms : Creates(r, ts, rev, t)
  \/ \E r \in Runs, t \in Terms : Takes(r, t)
  \/ \E r \in Runs, n \in Nodes, s \in TerminalTask, v \in Nat, t \in Terms : Settles(r, n, s, v, t)
  \/ \E r \in Runs, t \in Terms : Retries(r, t)
LedgerStep == LeasedStep \/ \E r \in Runs : Expires(r)

\* Runs stay, with their targets; what a disk holds stays; claims get newer.
Grows ==
  \A r \in Runs : runs[r].status # "absent" =>
    runs'[r].status # "absent" /\ runs'[r].targets = runs[r].targets
DiskStays ==
  \A r \in Runs, n \in Nodes : disk[r][n] # 0 => disk'[r][n] = disk[r][n]
ClaimsGrow ==
  \A r \in Runs : Claimed(r)' >= Claimed(r)

-----------------------------------------------------------------------------
(* What the six steps keep. *)

LEMMA TermsAreNats == Terms \subseteq Nat /\ 0 \in Terms /\ 1 \in Terms
BY BackupConstants DEF BackupConstants, Terms

LEMMA RunsNotZero == 0 \notin Runs /\ Fires \subseteq Runs /\ Manual \subseteq Runs
BY BackupConstants DEF BackupConstants, Runs

\* The nodes of a list of targets.
LEMMA ListNodes ==
  ASSUME NEW ts \in Seq(Nodes)
  PROVE  /\ ToSet(ts) \subseteq Nodes /\ IsFiniteSet(ToSet(ts))
         /\ DOMAIN ts \subseteq Nat
         /\ \A i \in DOMAIN ts : ts[i] \in ToSet(ts)
<1>1. ToSet(ts) \subseteq Nodes
  BY DEF ToSet
<1>2. IsFiniteSet(ToSet(ts))
  BY <1>1, FS_Subset, BackupConstants DEF BackupConstants
<1> QED
  BY <1>1, <1>2 DEF ToSet

LEMMA NoTargets == ToSet(<< >>) = {}
BY DEF ToSet

\* An update that does not complete the run's targets leaves the run as it is;
\* one that does gives it the status and counters they add up to.
LEMMA AggregatedRun ==
  ASSUME NEW run \in RunRecords, NEW st, run.status \notin TerminalRun, ToSet(run.targets) # {}
  PROVE  LET U == ToSet(run.targets)
             new == Aggregated(run, st, U)
         IN  /\ new \in RunRecords
             /\ new.targets = run.targets /\ new.lease = run.lease
             /\ IF \A u \in U : st[u] \in TerminalTask
                THEN new.status = Verdict(st, U) /\ new.count = Counted(st, U)
                ELSE new = run
<1> DEFINE U == ToSet(run.targets)
<1>1. Counted(st, U) \in Counts
  BY ListNodes, CountedType DEF RunRecords
<1>2. Verdict(st, U) \in RunStatus
  BY VerdictType DEF RunStatus
<1> HIDE DEF U
<1>3. /\ Aggregated(run, st, U) \in RunRecords
      /\ Aggregated(run, st, U).targets = run.targets /\ Aggregated(run, st, U).lease = run.lease
      /\ IF \A u \in U : st[u] \in TerminalTask
         THEN Aggregated(run, st, U).status = Verdict(st, U) /\ Aggregated(run, st, U).count = Counted(st, U)
         ELSE Aggregated(run, st, U) = run
  BY <1>1, <1>2 DEF Aggregated, RunRecords, U
<1> QED
  BY <1>3 DEF U

\* LedgerAgrees, run by run.
EndAddsUp(r) ==
  runs[r].status \in TerminalRun =>
    /\ \A n \in Targets(r) : tasks[r][n].st \in TerminalTask
    /\ runs[r].status = Verdict(TaskStatuses(r), Targets(r))
    /\ runs[r].count = Counted(TaskStatuses(r), Targets(r))
FireWord(s) == IF s = "absent" THEN "none" ELSE IF s = "RUNNING" THEN "CLAIMED" ELSE s
FireAgrees(r) ==
  r \in Fires => fires[r].status = FireWord(runs[r].status) /\ fires[r].term <= runTerm[r]

LEMMA RowByRow == LedgerAgrees <=> \A r \in Runs : EndAddsUp(r) /\ FireAgrees(r)
<1>1. ASSUME NEW r \in Runs
      PROVE  FireWord(runs[r].status) = CASE runs[r].status = "absent" -> "none"
                                          [] runs[r].status = "RUNNING" -> "CLAIMED"
                                          [] OTHER -> runs[r].status
  BY DEF FireWord
<1> QED
  BY <1>1 DEF LedgerAgrees, EndAddsUp, FireAgrees

LEMMA RowByRowNext ==
  ASSUME \A r \in Runs : EndAddsUp(r)' /\ FireAgrees(r)'
  PROVE  LedgerAgrees'
<1>1. ASSUME NEW r \in Runs
      PROVE  FireWord(runs'[r].status) = CASE runs'[r].status = "absent" -> "none"
                                           [] runs'[r].status = "RUNNING" -> "CLAIMED"
                                           [] OTHER -> runs'[r].status
  BY DEF FireWord
<1> QED
  BY <1>1 DEF LedgerAgrees, EndAddsUp, FireAgrees

\* A run none of whose rows change agrees as before.
LEMMA RowStays ==
  ASSUME Ledger, NEW q \in Runs, runs'[q] = runs[q], tasks'[q] = tasks[q], runTerm'[q] = runTerm[q],
         q \in Fires => fires'[q] = fires[q]
  PROVE  EndAddsUp(q)' /\ FireAgrees(q)'
<1>1. EndAddsUp(q) /\ FireAgrees(q)
  BY RowByRow DEF Ledger
<1>2. Targets(q)' = Targets(q) /\ TaskStatuses(q)' = TaskStatuses(q)
  BY DEF Targets, TaskStatuses
<1> QED
  BY <1>1, <1>2 DEF EndAddsUp, FireAgrees

LEMMA CreatesKeeps ==
  ASSUME Ledger, NEW r \in Runs, NEW ts \in Seq(Nodes), NEW rev \in Nat, NEW t \in Terms,
         Creates(r, ts, rev, t)
  PROVE  Ledger'
<1> DEFINE run == [status |-> "RUNNING", rev |-> rev, targets |-> ts, lease |-> TRUE, count |-> NoCount]
           fire == [status |-> "CLAIMED", term |-> t]
<1>1. run \in RunRecords /\ run.status = "RUNNING" /\ run.targets = ts
  BY NoCountType DEF RunRecords, RunStatus
<1>2. fire \in FireRecords /\ fire.status = "CLAIMED" /\ fire.term = t
  BY DEF FireRecords
<1> HIDE DEF run, fire
<1>3. /\ runs' = [runs EXCEPT ![r] = run] /\ tasks' = tasks
      /\ runTerm' = [runTerm EXCEPT ![r] = t]
      /\ fires' = IF r \in Fires THEN [fires EXCEPT ![r] = fire] ELSE fires
      /\ runs[r].status = "absent"
  BY DEF Creates, run, fire
<1>4. /\ runs' \in [Runs -> RunRecords] /\ tasks' \in [Runs -> [Nodes -> TaskRecords]]
      /\ runTerm' \in [Runs -> Terms] /\ fires' \in [Fires -> FireRecords]
  BY <1>1, <1>2, <1>3 DEF Ledger
<1>5. \A q \in Runs : q # r => /\ runs'[q] = runs[q] /\ runTerm'[q] = runTerm[q]
                               /\ q \in Fires => fires'[q] = fires[q]
  BY <1>3 DEF Ledger
<1>6. /\ runs'[r] = run /\ runTerm'[r] = t /\ (r \in Fires => fires'[r] = fire)
  BY <1>3 DEF Ledger
<1>7. BlankUntilCreated'
  BY <1>1, <1>5, <1>6 DEF Ledger, BlankUntilCreated
<1>8. TasksOfTargets'
  <2> SUFFICES ASSUME NEW q \in Runs, NEW n \in Nodes, tasks[q][n].st # "none"
               PROVE  n \in ToSet(runs'[q].targets)
    BY <1>3 DEF TasksOfTargets, Targets
  <2>1. n \in ToSet(runs[q].targets)
    BY DEF Ledger, TasksOfTargets, Targets
  <2>2. q # r
    BY <1>3, <2>1, NoTargets DEF Ledger, BlankUntilCreated
  <2> QED
    BY <1>5, <2>1, <2>2
<1>9. \A q \in Runs : EndAddsUp(q)' /\ FireAgrees(q)'
  <2> TAKE q \in Runs
  <2>1. CASE q # r
    BY <1>3, <1>5, <2>1, RowStays
  <2>2. CASE q = r
    <3>1. EndAddsUp(q)'
      BY <1>1, <1>6, <2>2, Words DEF EndAddsUp
    <3>2. FireAgrees(q)'
      BY <1>1, <1>2, <1>6, <2>2, TermsAreNats DEF FireAgrees, FireWord
    <3> QED
      BY <3>1, <3>2
  <2> QED
    BY <2>1, <2>2
<1> QED
  BY <1>4, <1>7, <1>8, <1>9, RowByRowNext DEF Ledger

LEMMA TakesKeeps ==
  ASSUME Ledger, NEW r \in Runs, NEW t \in Terms, Takes(r, t)
  PROVE  Ledger'
<1> DEFINE fire == [status |-> "CLAIMED", term |-> t]
<1>1. fire \in FireRecords /\ fire.status = "CLAIMED" /\ fire.term = t
  BY DEF FireRecords
<1> HIDE DEF fire
<1>2. /\ runs' = [runs EXCEPT ![r].lease = TRUE] /\ tasks' = tasks
      /\ runTerm' = [runTerm EXCEPT ![r] = t]
      /\ fires' = IF r \in Fires THEN [fires EXCEPT ![r] = fire] ELSE fires
      /\ runs[r].status = "RUNNING"
  BY DEF Takes, fire
<1>3. /\ runs' \in [Runs -> RunRecords]
      /\ \A q \in Runs : runs'[q].status = runs[q].status /\ runs'[q].targets = runs[q].targets
  BY <1>2 DEF Ledger, RunRecords
<1>4. /\ tasks' \in [Runs -> [Nodes -> TaskRecords]]
      /\ runTerm' \in [Runs -> Terms] /\ fires' \in [Fires -> FireRecords]
  BY <1>1, <1>2 DEF Ledger
<1>5. \A q \in Runs : q # r => /\ runs'[q] = runs[q] /\ runTerm'[q] = runTerm[q]
                               /\ q \in Fires => fires'[q] = fires[q]
  BY <1>2 DEF Ledger
<1>6. runTerm'[r] = t /\ (r \in Fires => fires'[r] = fire)
  BY <1>2 DEF Ledger
<1>7. BlankUntilCreated'
  BY <1>2, <1>3, <1>5 DEF Ledger, BlankUntilCreated
<1>8. TasksOfTargets'
  BY <1>2, <1>3 DEF Ledger, TasksOfTargets, Targets
<1>9. \A q \in Runs : EndAddsUp(q)' /\ FireAgrees(q)'
  <2> TAKE q \in Runs
  <2>1. CASE q # r
    BY <1>2, <1>5, <2>1, RowStays
  <2>2. CASE q = r
    <3>1. EndAddsUp(q)'
      BY <1>2, <1>3, <2>2, Words DEF EndAddsUp
    <3>2. FireAgrees(q)'
      BY <1>1, <1>2, <1>3, <1>6, <2>2, TermsAreNats DEF FireAgrees, FireWord
    <3> QED
      BY <3>1, <3>2
  <2> QED
    BY <2>1, <2>2
<1> QED
  BY <1>3, <1>4, <1>7, <1>8, <1>9, RowByRowNext DEF Ledger

LEMMA ExpiresKeeps ==
  ASSUME Ledger, NEW r \in Runs, Expires(r)
  PROVE  Ledger'
<1>1. /\ runs' \in [Runs -> RunRecords]
      /\ \A q \in Runs : /\ runs'[q].status = runs[q].status /\ runs'[q].targets = runs[q].targets
                         /\ runs'[q].count = runs[q].count
  BY DEF Ledger, RunRecords, Expires
<1>2. UNCHANGED <<fires, tasks, runTerm>>
  BY DEF Expires
<1>3. BlankUntilCreated' /\ TasksOfTargets'
  BY <1>1, <1>2 DEF Ledger, BlankUntilCreated, TasksOfTargets, Targets
<1>4. \A q \in Runs : EndAddsUp(q)' /\ FireAgrees(q)'
  <2> TAKE q \in Runs
  <2>1. Targets(q)' = Targets(q) /\ TaskStatuses(q)' = TaskStatuses(q)
    BY <1>1, <1>2 DEF Targets, TaskStatuses
  <2>2. EndAddsUp(q) /\ FireAgrees(q)
    BY RowByRow DEF Ledger
  <2> QED
    BY <1>1, <1>2, <2>1, <2>2 DEF EndAddsUp, FireAgrees
<1> QED
  BY <1>1, <1>2, <1>3, <1>4, RowByRowNext DEF Ledger

\* What the ledger's terms become.
LEMMA NewerTerm ==
  ASSUME Ledger, NEW r \in Runs, NEW t \in Terms, runTerm' = Newer(r, t), runTerm[r] <= t
  PROVE  /\ runTerm' \in [Runs -> Terms] /\ runTerm'[r] = t
         /\ \A q \in Runs : q # r => runTerm'[q] = runTerm[q]
<1>1. runTerm[r] \in Nat /\ t \in Nat
  BY TermsAreNats DEF Ledger
<1>2. (IF t > runTerm[r] THEN t ELSE runTerm[r]) = t
  BY <1>1
<1>3. runTerm' = [runTerm EXCEPT ![r] = t]
  BY <1>2 DEF Newer
<1> QED
  BY <1>3 DEF Ledger

\* What syncBackupFire does, for a run that exists.
LEMMA SyncedFire ==
  ASSUME Ledger, NEW r \in Runs, runs[r].status # "absent", NEW t \in Terms, runTerm[r] <= t,
         NEW s \in {"CLAIMED"} \cup TerminalRun, fires' = Synced(r, t, s)
  PROVE  /\ fires' \in [Fires -> FireRecords]
         /\ r \in Fires => /\ fires'[r].status = s /\ fires'[r].term <= t
                           /\ fires'[r].term >= fires[r].term
         /\ \A q \in Fires : q # r => fires'[q] = fires[q]
<1>1. CASE r \notin Fires
  BY <1>1 DEF Synced, Ledger
<1>2. CASE r \in Fires
  <2>1. /\ fires[r] \in FireRecords /\ fires[r].status = FireWord(runs[r].status)
        /\ fires[r].term <= runTerm[r]
    BY <1>2, RowByRow DEF Ledger, FireAgrees
  <2>2. runs[r].status \in RunStatus
    BY DEF Ledger, RunRecords
  <2>3. fires[r].status # "none"
    BY <2>1, <2>2 DEF FireWord, RunStatus, TerminalRun
  <2>4. fires[r].term \in Nat /\ t \in Nat /\ runTerm[r] \in Nat /\ fires[r].term \in Terms
    BY <2>1, TermsAreNats DEF FireRecords, Ledger
  <2> DEFINE x == [status |-> s, term |-> IF t > fires[r].term THEN t ELSE fires[r].term]
  <2>5. x \in FireRecords /\ x.status = s /\ x.term <= t /\ x.term >= fires[r].term
    BY <2>1, <2>4 DEF FireRecords
  <2>6. fires' = [fires EXCEPT ![r] = x]
    BY <1>2, <2>3 DEF Synced
  <2> HIDE DEF x
  <2> QED
    BY <1>2, <2>5, <2>6 DEF Ledger
<1> QED
  BY <1>1, <1>2

LEMMA SettlesKeeps ==
  ASSUME Ledger, NEW r \in Runs, NEW n \in Nodes, NEW s \in TerminalTask, NEW v \in Nat,
         NEW t \in Terms, Settles(r, n, s, v, t)
  PROVE  Ledger'
<1> DEFINE c == [st |-> s, term |-> t, snap |-> v]
           st == [TaskStatuses(r) EXCEPT ![n] = s]
           U == ToSet(runs[r].targets)
           run == Aggregated(runs[r], st, U)
<1>1. c \in TaskRecords /\ c.st = s /\ s # "none"
  BY Words DEF TaskRecords
<1>2. st = [x \in Nodes |-> IF x = n THEN s ELSE tasks[r][x].st]
  BY DEF TaskStatuses
<1>3. U = Targets(r)
  BY DEF Targets
<1> HIDE DEF c, st, U, run
<1>4. /\ tasks' = [tasks EXCEPT ![r][n] = c] /\ runs' = [runs EXCEPT ![r] = run]
      /\ runTerm' = Newer(r, t)
      /\ fires' = IF run.status \in TerminalRun THEN Synced(r, t, run.status) ELSE fires
      /\ n \in U /\ tasks[r][n].st \notin TerminalTask
  BY <1>3 DEF Settles, c, run, st
<1>5. runTerm[r] <= t
  <2>1. ~(runTerm[r] > t)
    BY DEF Settles, StaleTask
  <2>2. runTerm[r] \in Nat /\ t \in Nat
    BY TermsAreNats DEF Ledger
  <2> QED
    BY <2>1, <2>2
<1>6. runs[r].status \notin TerminalRun /\ runs[r].status # "absent" /\ U # {}
  BY <1>3, <1>4, RowByRow, NoTargets DEF Ledger, EndAddsUp, BlankUntilCreated, U
<1>7. /\ run \in RunRecords /\ run.targets = runs[r].targets
      /\ IF \A x \in U : st[x] \in TerminalTask
         THEN run.status = Verdict(st, U) /\ run.count = Counted(st, U)
         ELSE run = runs[r]
  <2>1. runs[r] \in RunRecords
    BY DEF Ledger
  <2> QED
    BY <1>6, <2>1, AggregatedRun DEF run, U
<1>8. /\ runTerm' \in [Runs -> Terms] /\ runTerm'[r] = t
      /\ \A q \in Runs : q # r => runTerm'[q] = runTerm[q]
  BY <1>4, <1>5, NewerTerm
<1>9. /\ fires' \in [Fires -> FireRecords]
      /\ r \in Fires => /\ fires'[r].status = IF run.status \in TerminalRun THEN run.status ELSE fires[r].status
                        /\ fires'[r].term <= t
      /\ \A q \in Fires : q # r => fires'[q] = fires[q]
  <2>1. CASE run.status \in TerminalRun
    BY <1>4, <1>5, <1>6, <2>1, SyncedFire
  <2>2. CASE run.status \notin TerminalRun
    <3>1. r \in Fires => /\ fires[r].term \in Nat /\ fires[r].term <= runTerm[r]
                         /\ runTerm[r] \in Nat /\ t \in Nat
      BY RowByRow, TermsAreNats DEF Ledger, FireAgrees, FireRecords
    <3> QED
      BY <1>4, <1>5, <2>2, <3>1 DEF Ledger
  <2> QED
    BY <2>1, <2>2
<1>10. /\ runs' \in [Runs -> RunRecords] /\ runs'[r] = run
       /\ \A q \in Runs : q # r => runs'[q] = runs[q]
  BY <1>4, <1>7 DEF Ledger
<1>11. /\ tasks' \in [Runs -> [Nodes -> TaskRecords]]
       /\ \A q \in Runs : q # r => tasks'[q] = tasks[q]
       /\ \A x \in Nodes : tasks'[r][x] = IF x = n THEN c ELSE tasks[r][x]
  BY <1>1, <1>4 DEF Ledger
<1>12. run.status # "absent"
  BY <1>6, <1>7, VerdictType, Words
<1>13. BlankUntilCreated'
  BY <1>8, <1>10, <1>12 DEF Ledger, BlankUntilCreated
<1>14. TasksOfTargets'
  <2> SUFFICES ASSUME NEW q \in Runs, NEW x \in Nodes, tasks'[q][x].st # "none"
               PROVE  x \in ToSet(runs'[q].targets)
    BY DEF TasksOfTargets, Targets
  <2>1. CASE q = r /\ x = n
    BY <1>4, <1>7, <1>10, <2>1 DEF U
  <2>2. CASE ~(q = r /\ x = n)
    <3>1. tasks[q][x].st # "none"
      BY <1>11, <2>2
    <3>2. x \in ToSet(runs[q].targets)
      BY <3>1 DEF Ledger, TasksOfTargets, Targets
    <3> QED
      BY <1>7, <1>10, <3>2
  <2> QED
    BY <2>1, <2>2
<1>15. \A q \in Runs : EndAddsUp(q)' /\ FireAgrees(q)'
  <2> TAKE q \in Runs
  <2>1. CASE q # r
    BY <1>8, <1>9, <1>10, <1>11, <2>1, RowStays
  <2>2. CASE q = r
    <3>1. EndAddsUp(q)'
      <4>1. [x \in Nodes |-> tasks'[q][x].st] = st
        BY <1>1, <1>2, <1>11, <2>2
      <4>2. \A x \in U : tasks'[q][x].st = st[x]
        <5>1. U \subseteq Nodes
          BY ListNodes DEF Ledger, RunRecords, U
        <5> QED
          BY <1>1, <1>2, <1>11, <2>2, <5>1
      <4>3. TaskStatuses(q)' = st /\ Targets(q)' = U
        BY <4>1, <1>7, <1>10, <2>2 DEF TaskStatuses, Targets, U
      <4>4. runs'[q] = run
        BY <1>10, <2>2
      <4> QED
        BY <1>6, <1>7, <2>2, <4>2, <4>3, <4>4 DEF EndAddsUp
    <3>2. FireAgrees(q)'
      <4>1. FireAgrees(q)
        BY RowByRow DEF Ledger
      <4>2. run.status \in TerminalRun \/ run.status = runs[r].status
        BY <1>7, VerdictType
      <4>3. ASSUME q \in Fires
            PROVE  fires'[q].status = FireWord(run.status)
        BY <1>9, <2>2, <4>1, <4>2, <4>3 DEF FireAgrees, FireWord, TerminalRun
      <4> QED
        BY <1>8, <1>9, <1>10, <2>2, <4>3 DEF FireAgrees
    <3> QED
      BY <3>1, <3>2
  <2> QED
    BY <2>1, <2>2
<1> QED
  BY <1>8, <1>9, <1>10, <1>11, <1>13, <1>14, <1>15, RowByRowNext DEF Ledger

LEMMA RetriesKeeps ==
  ASSUME Ledger, NEW r \in Runs, NEW t \in Terms, Retries(r, t)
  PROVE  Ledger'
<1> DEFINE row == [n \in Nodes |-> IF n \in Failed(r) THEN [st |-> "PENDING", term |-> t, snap |-> 0]
                                   ELSE tasks[r][n]]
           run == IF Failed(r) = {} THEN runs[r]
                  ELSE [runs[r] EXCEPT !.status = "RUNNING", !.lease = TRUE, !.count = NoCount]
<1>1. runs[r] \in RunRecords /\ tasks[r] \in [Nodes -> TaskRecords] /\ runs[r].status # "absent"
  BY DEF Ledger, Retries
<1>2. /\ row \in [Nodes -> TaskRecords]
      /\ \A n \in Nodes : row[n].st # "none" => tasks[r][n].st # "none"
      /\ Failed(r) = {} => row = tasks[r]
  BY <1>1, Words DEF TaskRecords, TaskStatus, Failed
<1>3. /\ run \in RunRecords /\ run.targets = runs[r].targets
      /\ run.status = IF Failed(r) = {} THEN runs[r].status ELSE "RUNNING"
      /\ Failed(r) = {} => run = runs[r]
  BY <1>1, NoCountType DEF RunRecords, RunStatus
<1>4. runs' = [runs EXCEPT ![r] = run]
  <2>1. CASE Failed(r) = {}
    BY <2>1 DEF Retries, Ledger
  <2>2. CASE Failed(r) # {}
    BY <2>2 DEF Retries, Ledger
  <2> QED
    BY <2>1, <2>2
<1>5. tasks' = [tasks EXCEPT ![r] = row]
  BY DEF Retries
<1>6. /\ fires' = IF Failed(r) = {} THEN fires ELSE Synced(r, t, "CLAIMED")
      /\ runTerm' = Newer(r, t) /\ runTerm[r] <= t
  BY DEF Retries
<1> HIDE DEF row, run
<1>7. /\ runTerm' \in [Runs -> Terms] /\ runTerm'[r] = t
      /\ \A q \in Runs : q # r => runTerm'[q] = runTerm[q]
  BY <1>6, NewerTerm
<1>8. /\ fires' \in [Fires -> FireRecords]
      /\ r \in Fires => /\ fires'[r].status = IF Failed(r) = {} THEN fires[r].status ELSE "CLAIMED"
                        /\ fires'[r].term <= t
      /\ \A q \in Fires : q # r => fires'[q] = fires[q]
  <2>1. CASE Failed(r) # {}
    BY <1>1, <1>6, <2>1, SyncedFire
  <2>2. CASE Failed(r) = {}
    <3>1. r \in Fires => /\ fires[r].term \in Nat /\ fires[r].term <= runTerm[r]
                         /\ runTerm[r] \in Nat /\ t \in Nat
      BY RowByRow, TermsAreNats DEF Ledger, FireAgrees, FireRecords
    <3> QED
      BY <1>6, <2>2, <3>1 DEF Ledger
  <2> QED
    BY <2>1, <2>2
<1>9. /\ runs' \in [Runs -> RunRecords] /\ runs'[r] = run
      /\ \A q \in Runs : q # r => runs'[q] = runs[q]
  BY <1>3, <1>4 DEF Ledger
<1>10. /\ tasks' \in [Runs -> [Nodes -> TaskRecords]] /\ tasks'[r] = row
       /\ \A q \in Runs : q # r => tasks'[q] = tasks[q]
  BY <1>2, <1>5 DEF Ledger
<1>11. BlankUntilCreated'
  BY <1>1, <1>3, <1>7, <1>9 DEF Ledger, BlankUntilCreated
<1>12. TasksOfTargets'
  <2> SUFFICES ASSUME NEW q \in Runs, NEW x \in Nodes, tasks'[q][x].st # "none"
               PROVE  x \in ToSet(runs'[q].targets)
    BY DEF TasksOfTargets, Targets
  <2>1. tasks[q][x].st # "none"
    BY <1>2, <1>10
  <2>2. x \in ToSet(runs[q].targets)
    BY <2>1 DEF Ledger, TasksOfTargets, Targets
  <2> QED
    BY <1>3, <1>9, <2>2
<1>13. \A q \in Runs : EndAddsUp(q)' /\ FireAgrees(q)'
  <2> TAKE q \in Runs
  <2>1. CASE q # r
    BY <1>7, <1>8, <1>9, <1>10, <2>1, RowStays
  <2>2. CASE q = r /\ Failed(r) # {}
    <3>1. EndAddsUp(q)'
      BY <1>3, <1>9, <2>2, Words DEF EndAddsUp
    <3>2. FireAgrees(q)'
      BY <1>3, <1>7, <1>8, <1>9, <2>2 DEF FireAgrees, FireWord
    <3> QED
      BY <3>1, <3>2
  <2>3. CASE q = r /\ Failed(r) = {}
    <3>1. runs'[q] = runs[q] /\ tasks'[q] = tasks[q]
      BY <1>2, <1>3, <1>9, <1>10, <2>3
    <3>2. Targets(q)' = Targets(q) /\ TaskStatuses(q)' = TaskStatuses(q)
      BY <3>1 DEF Targets, TaskStatuses
    <3>3. EndAddsUp(q) /\ FireAgrees(q)
      BY RowByRow DEF Ledger
    <3>4. EndAddsUp(q)'
      BY <3>1, <3>2, <3>3 DEF EndAddsUp
    <3>5. FireAgrees(q)'
      BY <1>7, <1>8, <2>3, <3>1, <3>3 DEF FireAgrees
    <3> QED
      BY <3>4, <3>5
  <2> QED
    BY <2>1, <2>2, <2>3
<1> QED
  BY <1>7, <1>8, <1>9, <1>10, <1>11, <1>12, <1>13, RowByRowNext DEF Ledger

LEMMA LedgerKept ==
  ASSUME Ledger, LedgerStep
  PROVE  Ledger'
<1>1. CASE Same
  <2>1. \A q \in Runs : EndAddsUp(q)' /\ FireAgrees(q)'
    BY <1>1, RowStays DEF Same
  <2>2. BlankUntilCreated' /\ TasksOfTargets'
    BY <1>1 DEF Same, Ledger, BlankUntilCreated, TasksOfTargets, Targets
  <2> QED
    BY <1>1, <2>1, <2>2, RowByRowNext DEF Same, Ledger
<1> QED
  BY <1>1, CreatesKeeps, TakesKeeps, ExpiresKeeps, SettlesKeeps, RetriesKeeps DEF LedgerStep, LeasedStep

-----------------------------------------------------------------------------
(* What the six steps never do. *)

\* What one step may do to the row of a run.
RowMoves(q) ==
  /\ runs[q].status # "absent" =>
       runs'[q].status # "absent" /\ runs'[q].targets = runs[q].targets
  /\ Claimed(q)' >= Claimed(q)
  /\ runTerm'[q] < runTerm[q] => /\ q \in Fires /\ ~runs[q].lease /\ Claimed(q)' > Claimed(q)
                                 /\ tasks'[q] = tasks[q]
  /\ \A n \in Nodes : tasks'[q][n] # tasks[q][n] => tasks'[q][n].term = runTerm'[q]

\* A new term is the term of a claim or newer than the one before.
TermMoves(q) == runTerm'[q] > runTerm[q] \/ runTerm'[q] = runTerm[q] \/ runTerm'[q] > Claimed(q)

LEMMA RowTypes ==
  ASSUME Ledger, NEW q \in Runs
  PROVE  /\ runs[q] \in RunRecords /\ runTerm[q] \in Nat /\ Claimed(q) \in Nat
         /\ Claimed(q) <= runTerm[q]
         /\ q \in Fires => fires[q] \in FireRecords
<1>1. runs[q] \in RunRecords /\ runTerm[q] \in Nat /\ (q \in Fires => fires[q] \in FireRecords)
  BY TermsAreNats DEF Ledger
<1>2. q \in Fires => fires[q].term \in Nat /\ fires[q].term <= runTerm[q]
  BY <1>1, TermsAreNats, RowByRow DEF Ledger, FireAgrees, FireRecords
<1> QED
  BY <1>1, <1>2 DEF Claimed

LEMMA RowUnmoved ==
  ASSUME Ledger, NEW q \in Runs, runs'[q] = runs[q], tasks'[q] = tasks[q], runTerm'[q] = runTerm[q],
         q \in Fires => fires'[q] = fires[q]
  PROVE  RowMoves(q) /\ TermMoves(q)
<1>1. Claimed(q)' = Claimed(q)
  BY DEF Claimed
<1> QED
  BY <1>1, RowTypes DEF RowMoves, TermMoves

LEMMA CreatesMoves ==
  ASSUME Ledger, NEW r \in Runs, NEW ts \in Seq(Nodes), NEW rev \in Nat, NEW t \in Terms,
         Creates(r, ts, rev, t), NEW q \in Runs
  PROVE  RowMoves(q) /\ TermMoves(q)
<1>1. CASE q # r
  <2>1. /\ runs'[q] = runs[q] /\ tasks'[q] = tasks[q] /\ runTerm'[q] = runTerm[q]
        /\ q \in Fires => fires'[q] = fires[q]
    BY <1>1 DEF Creates, Ledger
  <2> QED
    BY <2>1, RowUnmoved
<1>2. CASE q = r
  <2>1. runTerm[q] = 0 /\ runs[q].status = "absent" /\ t \in Nat
    BY <1>2, TermsAreNats DEF Ledger, BlankUntilCreated, Creates
  <2>2. Claimed(q) = 0
    BY <2>1, RowTypes
  <2>3. /\ runTerm'[q] = t /\ tasks' = tasks
        /\ q \in Fires => fires'[q] = [status |-> "CLAIMED", term |-> t]
    BY <1>2 DEF Creates, Ledger
  <2>4. Claimed(q)' = t
    BY <2>3 DEF Claimed
  <2> QED
    BY <2>1, <2>2, <2>3, <2>4 DEF RowMoves, TermMoves
<1> QED
  BY <1>1, <1>2

LEMMA TakesMoves ==
  ASSUME Ledger, NEW r \in Runs, NEW t \in Terms, Takes(r, t), NEW q \in Runs
  PROVE  RowMoves(q) /\ TermMoves(q)
<1>1. CASE q # r
  <2>1. /\ runs'[q] = runs[q] /\ tasks'[q] = tasks[q] /\ runTerm'[q] = runTerm[q]
        /\ q \in Fires => fires'[q] = fires[q]
    BY <1>1 DEF Takes, Ledger
  <2> QED
    BY <2>1, RowUnmoved
<1>2. CASE q = r
  <2>1. /\ runTerm'[q] = t /\ tasks' = tasks /\ t \in Nat /\ t > Claimed(q) /\ ~runs[q].lease
        /\ q \in Fires => fires'[q] = [status |-> "CLAIMED", term |-> t]
        /\ runs' = [runs EXCEPT ![q].lease = TRUE]
    BY <1>2, TermsAreNats DEF Takes, Ledger
  <2>2. Claimed(q)' = t
    BY <2>1 DEF Claimed
  <2>3. runs'[q].status = runs[q].status /\ runs'[q].targets = runs[q].targets
    BY <2>1 DEF Ledger, RunRecords
  <2>4. q \notin Fires => Claimed(q) = runTerm[q]
    BY DEF Claimed
  <2> QED
    BY <2>1, <2>2, <2>3, <2>4, RowTypes DEF RowMoves, TermMoves
<1> QED
  BY <1>1, <1>2

LEMMA ExpiresMoves ==
  ASSUME Ledger, NEW r \in Runs, Expires(r), NEW q \in Runs
  PROVE  RowMoves(q) /\ TermMoves(q)
<1>1. runs'[q].status = runs[q].status /\ runs'[q].targets = runs[q].targets
  BY DEF Expires, Ledger, RunRecords
<1>2. UNCHANGED <<fires, tasks, runTerm>>
  BY DEF Expires
<1>3. Claimed(q)' = Claimed(q)
  BY <1>2 DEF Claimed
<1> QED
  BY <1>1, <1>2, <1>3, RowTypes DEF RowMoves, TermMoves

\* What an update leaves of the run it is for, and that it keeps the lease.
LEMMA SettlesRun ==
  ASSUME Ledger, NEW r \in Runs, NEW n \in Nodes, NEW s \in TerminalTask, NEW v \in Nat,
         NEW t \in Terms, Settles(r, n, s, v, t)
  PROVE  /\ runTerm[r] <= t /\ runs[r].status = "RUNNING"
         /\ runs'[r] \in RunRecords /\ runs'[r].status # "absent"
         /\ runs'[r].targets = runs[r].targets /\ runs'[r].lease = runs[r].lease
         /\ \A q \in Runs : q # r => runs'[q] = runs[q] /\ tasks'[q] = tasks[q]
         /\ \A q \in Fires : q # r => fires'[q] = fires[q]
         /\ r \in Fires => fires'[r].term >= fires[r].term
<1> DEFINE st == [TaskStatuses(r) EXCEPT ![n] = s]
           U == ToSet(runs[r].targets)
           run == Aggregated(runs[r], st, U)
<1>1. U = Targets(r)
  BY DEF Targets
<1> HIDE DEF st, U, run
<1>2. /\ runs' = [runs EXCEPT ![r] = run] /\ n \in U /\ tasks[r][n].st \notin TerminalTask
      /\ fires' = IF run.status \in TerminalRun THEN Synced(r, t, run.status) ELSE fires
      /\ tasks' = [tasks EXCEPT ![r][n] = [st |-> s, term |-> t, snap |-> v]]
  BY <1>1 DEF Settles, run, st
<1>3. runs[r].status \notin TerminalRun /\ runs[r].status # "absent" /\ U # {}
  BY <1>1, <1>2, RowByRow, NoTargets DEF Ledger, EndAddsUp, BlankUntilCreated, U
<1>4. runs[r].status = "RUNNING"
  BY <1>3 DEF Ledger, RunRecords, RunStatus
<1>5. /\ run \in RunRecords /\ run.targets = runs[r].targets /\ run.lease = runs[r].lease
      /\ IF \A x \in U : st[x] \in TerminalTask THEN run.status = Verdict(st, U) ELSE run = runs[r]
  <2>1. runs[r] \in RunRecords
    BY DEF Ledger
  <2> QED
    BY <1>3, <2>1, AggregatedRun DEF run, U
<1>6. run.status # "absent"
  BY <1>3, <1>5, VerdictType, Words
<1>7. runTerm[r] <= t
  <2>1. ~(runTerm[r] > t)
    BY DEF Settles, StaleTask
  <2>2. runTerm[r] \in Nat /\ t \in Nat
    BY TermsAreNats DEF Ledger
  <2> QED
    BY <2>1, <2>2
<1>8. runs'[r] = run /\ \A q \in Runs : q # r => runs'[q] = runs[q] /\ tasks'[q] = tasks[q]
  BY <1>2 DEF Ledger
<1>9. /\ \A q \in Fires : q # r => fires'[q] = fires[q]
      /\ r \in Fires => fires'[r].term >= fires[r].term
  <2>1. CASE run.status \in TerminalRun
    BY <1>2, <1>3, <1>7, <2>1, SyncedFire
  <2>2. CASE run.status \notin TerminalRun
    <3>1. r \in Fires => fires[r].term \in Nat
      BY TermsAreNats DEF Ledger, FireRecords
    <3> QED
      BY <1>2, <2>2, <3>1
  <2> QED
    BY <2>1, <2>2
<1> QED
  BY <1>4, <1>5, <1>6, <1>7, <1>8, <1>9

LEMMA SettlesMoves ==
  ASSUME Ledger, NEW r \in Runs, NEW n \in Nodes, NEW s \in TerminalTask, NEW v \in Nat,
         NEW t \in Terms, Settles(r, n, s, v, t), NEW q \in Runs
  PROVE  RowMoves(q) /\ TermMoves(q)
<1>0. /\ runTerm[r] <= t /\ runs[r].status = "RUNNING"
      /\ runs'[r].status # "absent" /\ runs'[r].targets = runs[r].targets
      /\ \A p \in Runs : p # r => runs'[p] = runs[p] /\ tasks'[p] = tasks[p]
      /\ \A p \in Fires : p # r => fires'[p] = fires[p]
      /\ r \in Fires => fires'[r].term >= fires[r].term
  BY SettlesRun
<1>1. /\ runTerm'[r] = t /\ \A p \in Runs : p # r => runTerm'[p] = runTerm[p]
  <2>1. runTerm' = Newer(r, t)
    BY DEF Settles
  <2> QED
    BY <1>0, <2>1, NewerTerm
<1>2. CASE q # r
  BY <1>0, <1>1, <1>2, RowUnmoved
<1>3. CASE q = r
  <2>1. t \in Nat
    BY TermsAreNats
  <2>2. Claimed(q)' >= Claimed(q)
    BY <1>0, <1>1, <1>3 DEF Claimed
  <2>3. \A x \in Nodes : tasks'[q][x] = IF x = n THEN [st |-> s, term |-> t, snap |-> v] ELSE tasks[q][x]
    BY <1>3 DEF Settles, Ledger
  <2> QED
    BY <1>0, <1>1, <1>3, <2>1, <2>2, <2>3, RowTypes DEF RowMoves, TermMoves
<1> QED
  BY <1>2, <1>3

LEMMA RetriesMoves ==
  ASSUME Ledger, NEW r \in Runs, NEW t \in Terms, Retries(r, t), NEW q \in Runs
  PROVE  RowMoves(q) /\ TermMoves(q)
<1>1. runTerm[r] <= t /\ runs[r].status # "absent" /\ t \in Nat
  BY TermsAreNats DEF Retries
<1>2. /\ runTerm'[r] = t /\ \A p \in Runs : p # r => runTerm'[p] = runTerm[p]
  <2>1. runTerm' = Newer(r, t)
    BY DEF Retries
  <2> QED
    BY <1>1, <2>1, NewerTerm
<1>3. /\ \A p \in Fires : p # r => fires'[p] = fires[p]
      /\ r \in Fires => fires'[r].term >= fires[r].term
  <2>1. CASE Failed(r) # {}
    <3>1. fires' = Synced(r, t, "CLAIMED")
      BY <2>1 DEF Retries
    <3> QED
      BY <1>1, <3>1, SyncedFire
  <2>2. CASE Failed(r) = {}
    <3>1. r \in Fires => fires[r].term \in Nat
      BY TermsAreNats DEF Ledger, FireRecords
    <3> QED
      BY <2>2, <3>1 DEF Retries
  <2> QED
    BY <2>1, <2>2
<1>4. /\ runs'[r].status # "absent" /\ runs'[r].targets = runs[r].targets
      /\ \A p \in Runs : p # r => runs'[p] = runs[p]
  <2>1. CASE Failed(r) # {}
    BY <2>1 DEF Retries, Ledger, RunRecords
  <2>2. CASE Failed(r) = {}
    BY <2>2 DEF Retries
  <2> QED
    BY <2>1, <2>2
<1>5. /\ \A p \in Runs : p # r => tasks'[p] = tasks[p]
      /\ \A x \in Nodes : tasks'[r][x] = IF x \in Failed(r) THEN [st |-> "PENDING", term |-> t, snap |-> 0]
                                         ELSE tasks[r][x]
  BY DEF Retries, Ledger
<1>6. CASE q # r
  BY <1>2, <1>3, <1>4, <1>5, <1>6, RowUnmoved
<1>7. CASE q = r
  <2>1. Claimed(q)' >= Claimed(q)
    BY <1>1, <1>2, <1>3, <1>7 DEF Claimed
  <2> QED
    BY <1>1, <1>2, <1>4, <1>5, <1>7, <2>1, RowTypes DEF RowMoves, TermMoves
<1> QED
  BY <1>6, <1>7

LEMMA LedgerMoves ==
  ASSUME Ledger, LedgerStep
  PROVE  \A q \in Runs : RowMoves(q) /\ TermMoves(q)
<1> TAKE q \in Runs
<1>1. CASE Same
  BY <1>1, RowUnmoved DEF Same
<1> QED
  BY <1>1, CreatesMoves, TakesMoves, ExpiresMoves, SettlesMoves, RetriesMoves DEF LedgerStep, LeasedStep

LEMMA LedgerGrows ==
  ASSUME Ledger, LedgerStep
  PROVE  Grows /\ ClaimsGrow
BY LedgerMoves DEF Grows, ClaimsGrow, RowMoves

\* A lease ends in no step but Expires.
LEMMA LeasesStay ==
  ASSUME Ledger, LeasedStep, NEW q \in Runs, runs[q].lease
  PROVE  runs'[q].lease
<1>1. CASE Same
  BY <1>1 DEF Same
<1>2. ASSUME NEW r \in Runs, NEW ts \in Seq(Nodes), NEW rev \in Nat, NEW t \in Terms,
             Creates(r, ts, rev, t)
      PROVE  runs'[q].lease
  BY <1>2 DEF Creates, Ledger
<1>3. ASSUME NEW r \in Runs, NEW t \in Terms, Takes(r, t)
      PROVE  runs'[q].lease
  BY <1>3 DEF Takes, Ledger, RunRecords
<1>4. ASSUME NEW r \in Runs, NEW n \in Nodes, NEW s \in TerminalTask, NEW v \in Nat,
             NEW t \in Terms, Settles(r, n, s, v, t)
      PROVE  runs'[q].lease
  <2>1. runs'[r].lease = runs[r].lease /\ (q # r => runs'[q] = runs[q])
    BY <1>4, SettlesRun
  <2> QED
    BY <2>1
<1>5. ASSUME NEW r \in Runs, NEW t \in Terms, Retries(r, t)
      PROVE  runs'[q].lease
  BY <1>5 DEF Retries, Ledger, RunRecords
<1> QED
  BY <1>1, <1>2, <1>3, <1>4, <1>5 DEF LeasedStep

\* A success is recorded with the snapshot on the disk, and both stay.
LEMMA BackedKept ==
  ASSUME Ledger, LedgerStep, SuccessIsBacked, DiskStays
  PROVE  SuccessIsBacked'
<1> SUFFICES ASSUME NEW q \in Runs, NEW x \in Nodes, tasks'[q][x].st = "SUCCESS"
             PROVE  tasks'[q][x].snap # 0 /\ disk'[q][x] = tasks'[q][x].snap
  BY DEF SuccessIsBacked
<1>1. CASE tasks'[q][x] = tasks[q][x]
  BY <1>1 DEF SuccessIsBacked, DiskStays
<1>2. CASE tasks'[q][x] # tasks[q][x]
  <2>1. ASSUME NEW r \in Runs, NEW n \in Nodes, NEW s \in TerminalTask, NEW v \in Nat,
               NEW t \in Terms, Settles(r, n, s, v, t)
        PROVE  tasks'[q][x].snap # 0 /\ disk'[q][x] = tasks'[q][x].snap
    <3>1. q = r /\ x = n
      BY <1>2, <2>1 DEF Settles, Ledger
    <3>2. tasks'[q][x] = [st |-> s, term |-> t, snap |-> v]
      BY <2>1, <3>1 DEF Settles, Ledger
    <3>3. v # 0 /\ disk[q][x] = v
      BY <2>1, <3>1, <3>2 DEF Settles
    <3> QED
      BY <3>2, <3>3 DEF DiskStays
  <2>2. ASSUME NEW r \in Runs, NEW t \in Terms, Retries(r, t)
        PROVE  FALSE
    <3>1. q = r
      BY <1>2, <2>2 DEF Retries, Ledger
    <3>2. tasks'[q][x] = [st |-> "PENDING", term |-> t, snap |-> 0]
      BY <1>2, <2>2, <3>1 DEF Retries, Ledger
    <3> QED
      BY <3>2
  <2> QED
    BY <1>2, <2>1, <2>2 DEF LedgerStep, LeasedStep, Same, Creates, Takes, Expires
<1> QED
  BY <1>1, <1>2

-----------------------------------------------------------------------------
(* What the six steps are to the readers of a run. *)

LEMMA CreatesIsOpen ==
  ASSUME Ledger, NEW r \in Runs, NEW ts \in Seq(Nodes), NEW rev \in Nat, NEW t \in Terms,
         Creates(r, ts, rev, t), NEW P, P = ToSet(ts)
  PROVE  P \in SUBSET Nodes /\ Promise!Open(r, P)
<1>1. \A q \in Runs : runs'[q].status = IF q = r THEN "RUNNING" ELSE runs[q].status
  BY DEF Creates, Ledger
<1>2. \A q \in Runs : ToSet(runs'[q].targets) = IF q = r THEN P ELSE ToSet(runs[q].targets)
  BY DEF Creates, Ledger
<1>3. tasks' = tasks /\ runs[r].status = "absent"
  BY DEF Creates
<1>4. P \in SUBSET Nodes
  BY ListNodes
<1> QED
  BY <1>1, <1>2, <1>3, <1>4 DEF Promise!Open, Targets

LEMMA SettlesIsReport ==
  ASSUME Ledger, NEW r \in Runs, NEW n \in Nodes, NEW s \in TerminalTask, NEW v \in Nat,
         NEW t \in Terms, Settles(r, n, s, v, t)
  PROVE  n \in Targets(r) /\ ReportOf(s) \in {"good", "bad"} /\ Promise!Report(r, n, ReportOf(s))
<1> DEFINE st == [TaskStatuses(r) EXCEPT ![n] = s]
           U == ToSet(runs[r].targets)
           run == Aggregated(runs[r], st, U)
           rep(q) == [x \in Nodes |-> ReportOf(tasks[q][x].st)]
<1>0. U = Targets(r)
  BY DEF Targets
<1>1. n \in U /\ tasks[r][n].st \notin TerminalTask
  BY <1>0 DEF Settles
<1>2. /\ runs[r] \in RunRecords /\ runs[r].status = "RUNNING" /\ U \subseteq Nodes
      /\ runs'[r].targets = runs[r].targets
      /\ \A q \in Runs : q # r => runs'[q] = runs[q]
  BY SettlesRun, ListNodes DEF Ledger, RunRecords
<1>3. st = [x \in Nodes |-> IF x = n THEN s ELSE tasks[r][x].st]
  BY DEF TaskStatuses
<1>4. run.status = IF \A x \in U : st[x] \in TerminalTask THEN Verdict(st, U) ELSE runs[r].status
  BY <1>1, <1>2, AggregatedRun, Words
<1>5. runs'[r] = run
  BY <1>0 DEF Settles, Ledger
<1> HIDE DEF st, run, U
<1>6. \A q \in Runs, x \in Nodes : tasks'[q][x].st = IF q = r /\ x = n THEN s ELSE tasks[q][x].st
  BY DEF Ledger, Settles
<1>7. \A x \in Nodes : rep(r)'[x] = ReportOf(st[x])
  BY <1>3, <1>6
<1>8. \A q \in Runs : q # r => rep(q)' = rep(q)
  BY <1>6
<1>9. rep(r)' = [rep(r) EXCEPT ![n] = ReportOf(s)]
  BY <1>6
<1>10. rep(r)[n] = "none"
  BY <1>1, Reports
<1> HIDE DEF rep
<1>11. \A x \in U : /\ rep(r)'[x] # "none" <=> st[x] \in TerminalTask
                    /\ rep(r)'[x] = "good" <=> st[x] = "SUCCESS"
  <2>1. \A x \in Nodes : /\ ReportOf(st[x]) # "none" <=> st[x] \in TerminalTask
                         /\ ReportOf(st[x]) = "good" <=> st[x] = "SUCCESS"
    BY Reports
  <2> QED
    BY <1>2, <1>7, <2>1
<1>12. Promise!Sum(rep(r)', U) = Verdict(st, U)
  BY <1>11 DEF Promise!Sum, Verdict
<1> DEFINE R == [q \in Runs |-> rep(q)]
           V == [q \in Runs |-> runs[q].status]
           P == [q \in Runs |-> Targets(q)]
<1>13. R' = [R EXCEPT ![r] = [R[r] EXCEPT ![n] = ReportOf(s)]]
  BY <1>8, <1>9
<1>14. P' = P /\ P[r] = U
  BY <1>0, <1>2 DEF Targets
<1>15. V' = IF \A x \in P[r] : R'[r][x] # "none"
            THEN [V EXCEPT ![r] = Promise!Sum(R'[r], P[r])] ELSE V
  BY <1>2, <1>4, <1>5, <1>11, <1>12, <1>14
<1>16. V[r] = "RUNNING" /\ R[r][n] = "none"
  BY <1>2, <1>10
<1> QED
  BY <1>0, <1>1, <1>13, <1>14, <1>15, <1>16, Reports DEF Promise!Report, rep

LEMMA RetriesIsRedo ==
  ASSUME Ledger, NEW r \in Runs, NEW t \in Terms, Retries(r, t), NEW F, F = Failed(r)
  PROVE  \/ UNCHANGED Promise!vars
         \/ /\ F \subseteq {n \in Targets(r) : ReportOf(tasks[r][n].st) = "bad"}
            /\ Promise!Redo(r, F)
<1>0. runs[r] \in RunRecords /\ tasks[r] \in [Nodes -> TaskRecords]
  BY DEF Ledger
<1>a. F = {n \in Nodes : tasks[r][n].st \in RetryableTask}
  BY DEF Failed
<1>1. \A n \in Nodes : tasks'[r][n].st = IF n \in F THEN "PENDING" ELSE tasks[r][n].st
  BY <1>0 DEF Ledger, Retries
<1>2. \A q \in Runs : q # r => tasks'[q] = tasks[q] /\ runs'[q] = runs[q]
  BY DEF Ledger, Retries
<1>3. \A n \in Nodes : ReportOf(tasks'[r][n].st) = IF n \in F THEN "none" ELSE ReportOf(tasks[r][n].st)
  BY <1>1 DEF ReportOf, RetryableTask
<1>4. CASE F = {}
  <2>1. runs' = runs
    BY <1>4 DEF Retries
  <2>2. \A q \in Runs, n \in Nodes : ReportOf(tasks'[q][n].st) = ReportOf(tasks[q][n].st)
    BY <1>2, <1>3, <1>4
  <2> QED
    BY <2>1, <2>2 DEF Promise!vars, Targets
<1>5. CASE F # {}
  <2>1. runs'[r].status = "RUNNING" /\ runs'[r].targets = runs[r].targets
    BY <1>0, <1>5 DEF Ledger, Retries, RunRecords
  <2>2. \A n \in F : n \in Targets(r) /\ ReportOf(tasks[r][n].st) = "bad"
    BY <1>a, Reports DEF Ledger, TasksOfTargets, RetryableTask
  <2>3. \A q \in Runs : runs'[q].targets = runs[q].targets
    BY <1>2, <2>1
  <2> DEFINE P == [q \in Runs |-> Targets(q)]
             R == [q \in Runs |-> [n \in Nodes |-> ReportOf(tasks[q][n].st)]]
             V == [q \in Runs |-> runs[q].status]
  <2>4. P' = P
    BY <2>3 DEF Targets
  <2>5. R' = [R EXCEPT ![r] = [n \in Nodes |-> IF n \in F THEN "none" ELSE @[n]]]
    BY <1>2, <1>3
  <2>6. V' = [V EXCEPT ![r] = "RUNNING"]
    BY <1>2, <2>1
  <2>7. Promise!Redo(r, F)
    BY <1>5, <2>4, <2>5, <2>6 DEF Promise!Redo
  <2> QED
    BY <2>2, <2>7
<1> QED
  BY <1>4, <1>5

LEMMA RedoIsNext ==
  ASSUME NEW r \in Runs, NEW F, F \subseteq {n \in Targets(r) : ReportOf(tasks[r][n].st) = "bad"},
         Targets(r) \subseteq Nodes, Promise!Redo(r, F)
  PROVE  Promise!Next
<1> DEFINE P == [q \in Runs |-> Targets(q)]
           R == [q \in Runs |-> [n \in Nodes |-> ReportOf(tasks[q][n].st)]]
<1>1. F \in SUBSET {n \in P[r] : R[r][n] = "bad"}
  OBVIOUS
<1> QED
  BY <1>1 DEF Promise!Next

LEMMA LeaseUnread ==
  ASSUME Ledger, tasks' = tasks, NEW r \in Runs, NEW b, runs' = [runs EXCEPT ![r].lease = b]
  PROVE  UNCHANGED Promise!vars
<1>1. \A q \in Runs : runs'[q].status = runs[q].status /\ runs'[q].targets = runs[q].targets
  BY DEF Ledger, RunRecords
<1> QED
  BY <1>1 DEF Promise!vars, Targets

LEMMA LedgerKeepsPromise ==
  ASSUME Ledger, LedgerStep
  PROVE  [Promise!Next]_(Promise!vars)
<1>0. \A r \in Runs : Targets(r) \subseteq Nodes
  BY ListNodes DEF Ledger, RunRecords, Targets
<1>1. CASE Same
  BY <1>1 DEF Same, Promise!vars, Targets
<1>2. ASSUME NEW r \in Runs, NEW ts \in Seq(Nodes), NEW rev \in Nat, NEW t \in Terms,
             Creates(r, ts, rev, t)
      PROVE  Promise!Next
  <2>1. PICK P : P = ToSet(ts)
    OBVIOUS
  <2>2. P \in SUBSET Nodes /\ Promise!Open(r, P)
    BY <1>2, <2>1, CreatesIsOpen
  <2> QED
    BY <2>2 DEF Promise!Next
<1>3. ASSUME NEW r \in Runs, NEW t \in Terms, Takes(r, t)
      PROVE  UNCHANGED Promise!vars
  BY <1>3, LeaseUnread DEF Takes
<1>4. ASSUME NEW r \in Runs, Expires(r)
      PROVE  UNCHANGED Promise!vars
  BY <1>4, LeaseUnread DEF Expires
<1>5. ASSUME NEW r \in Runs, NEW n \in Nodes, NEW s \in TerminalTask, NEW v \in Nat,
             NEW t \in Terms, Settles(r, n, s, v, t)
      PROVE  Promise!Next
  <2> DEFINE P == [q \in Runs |-> Targets(q)]
  <2>1. n \in P[r] /\ ReportOf(s) \in {"good", "bad"} /\ Promise!Report(r, n, ReportOf(s))
    BY <1>5, SettlesIsReport
  <2> QED
    BY <2>1 DEF Promise!Next
<1>6. ASSUME NEW r \in Runs, NEW t \in Terms, Retries(r, t)
      PROVE  [Promise!Next]_(Promise!vars)
  <2>1. PICK F \in SUBSET Nodes : F = Failed(r)
    BY DEF Failed
  <2>2. \/ UNCHANGED Promise!vars
        \/ F \subseteq {n \in Targets(r) : ReportOf(tasks[r][n].st) = "bad"} /\ Promise!Redo(r, F)
    BY <1>6, <2>1, RetriesIsRedo
  <2> QED
    BY <1>0, <2>2, RedoIsNext
<1> QED
  BY <1>1, <1>2, <1>3, <1>4, <1>5, <1>6 DEF LedgerStep, LeasedStep

-----------------------------------------------------------------------------
(* What agents carry along stays true while others step. *)

LEMMA LoopOKKept ==
  ASSUME Grows, ClaimsGrow, Ledger, Ledger', NEW l \in Loops, LoopOK(l)
  PROVE  LoopOK(l)'
<1>1. l.ids \subseteq Runs /\ (\A d \in l.out : d[1] \in Runs) /\ l.t \in Nat
  BY TermsAreNats DEF Loops
<1>2. \A r \in Runs : Claimed(r) \in Nat /\ Claimed(r)' \in Nat /\ Claimed(r)' >= Claimed(r)
  <2> TAKE r \in Runs
  <2>1. Claimed(r) \in Nat /\ Claimed(r)' \in Nat
    BY TermsAreNats DEF Ledger, Claimed, FireRecords
  <2> QED
    BY <2>1 DEF ClaimsGrow
<1>3. \A d \in l.out : l.t <= Claimed(d[1])'
  BY <1>1, <1>2 DEF LoopOK
<1> QED
  BY <1>1, <1>3 DEF LoopOK, Grows

LEMMA WorkerOKKept ==
  ASSUME Grows, DiskStays, NEW r \in Runs, runs[r].status # "absent", NEW w \in Workers, WorkerOK(r, w)
  PROVE  WorkerOK(r, w)'
<1>1. w.n \in Nodes /\ runs'[r].targets = runs[r].targets
  BY DEF Workers, Grows
<1> QED
  BY <1>1 DEF WorkerOK, Targets, DiskStays

LEMMA JobOKKept ==
  ASSUME Grows, DiskStays, NEW j \in Dispatches, JobOK(j)
  PROVE  JobOK(j)'
<1>1. CASE j = NoJob
  BY <1>1 DEF JobOK
<1>2. CASE j # NoJob
  <2>1. j.run \in Runs /\ runs[j.run].status # "absent" /\ j.act \subseteq Workers
    BY <1>2 DEF JobOK, Dispatches
  <2>2. \A w \in j.act : WorkerOK(j.run, w)
    BY <1>2 DEF JobOK
  <2>3. \A w \in j.act : WorkerOK(j.run, w)'
    BY <2>1, <2>2, WorkerOKKept
  <2> QED
    BY <1>2, <2>1, <2>3 DEF JobOK, Grows
<1> QED
  BY <1>1, <1>2

LEMMA LoopsKept ==
  ASSUME Grows, ClaimsGrow, Ledger, Ledger', LoopsOK, UNCHANGED loop
  PROVE  LoopsOK'
<1> SUFFICES ASSUME NEW n \in Nodes PROVE LoopOK(loop[n])'
  BY DEF LoopsOK
<1>1. PICK l \in Loops : l = loop[n] /\ LoopOK(l)
  BY DEF LoopsOK
<1>2. LoopOK(l)'
  BY <1>1, LoopOKKept
<1> QED
  BY <1>1, <1>2 DEF LoopOK, Claimed

\* One Tick went on to l.
LEMMA LoopsMoved ==
  ASSUME Grows, ClaimsGrow, Ledger, Ledger', LoopsOK, NEW n \in Nodes, NEW l \in Loops,
         loop' = [loop EXCEPT ![n] = l], LoopOK(l)'
  PROVE  LoopsOK'
<1>1. loop' \in [Nodes -> Loops]
  BY DEF LoopsOK
<1> SUFFICES ASSUME NEW m \in Nodes PROVE LoopOK(loop[m])'
  BY <1>1 DEF LoopsOK
<1>2. CASE m = n
  <2>1. loop'[m] = l
    BY <1>2 DEF LoopsOK
  <2> QED
    BY <2>1 DEF LoopOK, Claimed
<1>3. CASE m # n
  <2>1. PICK k \in Loops : k = loop[m] /\ LoopOK(k)
    BY DEF LoopsOK
  <2>2. LoopOK(k)' /\ loop'[m] = k
    BY <1>3, <2>1, LoopOKKept DEF LoopsOK
  <2> QED
    BY <2>2 DEF LoopOK, Claimed
<1> QED
  BY <1>2, <1>3

LEMMA JobsKept ==
  ASSUME Grows, DiskStays, JobsOK, UNCHANGED jobs
  PROVE  JobsOK'
<1> SUFFICES ASSUME NEW n \in Nodes, NEW k \in Kinds PROVE JobOK(jobs[n][k])'
  BY DEF JobsOK
<1>1. PICK j \in Dispatches : j = jobs[n][k] /\ JobOK(j)
  BY DEF JobsOK
<1>2. JobOK(j)'
  BY <1>1, JobOKKept
<1> QED
  BY <1>1, <1>2 DEF JobOK, WorkerOK, Targets

\* One dispatch is j now.
LEMMA JobsMoved ==
  ASSUME Grows, DiskStays, JobsOK, NEW n \in Nodes, NEW k \in Kinds, NEW j \in Dispatches,
         jobs' = [jobs EXCEPT ![n][k] = j], JobOK(j)'
  PROVE  JobsOK'
<1>1. jobs' \in [Nodes -> [Kinds -> Dispatches]]
  BY DEF JobsOK
<1> SUFFICES ASSUME NEW m \in Nodes, NEW h \in Kinds PROVE JobOK(jobs[m][h])'
  BY <1>1 DEF JobsOK
<1>2. CASE m = n /\ h = k
  <2>1. jobs'[m][h] = j
    BY <1>2 DEF JobsOK
  <2> QED
    BY <2>1 DEF JobOK, WorkerOK, Targets
<1>3. CASE ~(m = n /\ h = k)
  <2>1. PICK i \in Dispatches : i = jobs[m][h] /\ JobOK(i)
    BY DEF JobsOK
  <2>2. JobOK(i)'
    BY <2>1, JobOKKept
  <2>3. jobs'[m][h] = i
    BY <1>3, <2>1 DEF JobsOK
  <2> QED
    BY <2>2, <2>3 DEF JobOK, WorkerOK, Targets
<1> QED
  BY <1>2, <1>3

LEMMA IdleOK == Idle \in Loops /\ Idle.t = 0 /\ Idle.out = {} /\ LoopOK(Idle) /\ LoopOK(Idle)'
<1>1. << >> \in Seq(Nodes)
  OBVIOUS
<1>2. Idle \in Loops /\ Idle.pc = "idle" /\ Idle.t = 0 /\ Idle.ids = {} /\ Idle.out = {}
  BY <1>1, TermsAreNats DEF Idle, Loops
<1> QED
  BY <1>2 DEF LoopOK

LEMMA NoJobOK == NoJob \in Dispatches /\ ~NoJob.live /\ JobOK(NoJob) /\ JobOK(NoJob)' /\ NoJob.run = 0
BY TermsAreNats DEF NoJob, Dispatches, JobOK

-----------------------------------------------------------------------------
(* Main loops that race for a run. *)

\* No main loop starts a dispatch that is live, none claims a run to dispatch.
NoNewLive ==
  \A m \in Nodes : jobs'[m]["loop"].live =>
    jobs[m]["loop"].live /\ jobs'[m]["loop"].run = jobs[m]["loop"].run
NoNewClaim ==
  \A n \in Nodes : loop'[n].out \subseteq loop[n].out /\ (loop'[n].out # {} => loop'[n].t = loop[n].t)
LiveRunsKeepLease ==
  \A m \in Nodes : jobs'[m]["loop"].live => runs'[jobs'[m]["loop"].run].lease

\* A claim that is to be dispatched still stands only if it stood before.
LEMMA ClaimStood ==
  ASSUME Ledger, LedgerStep, LoopsOK, NEW n \in Nodes, NEW d \in loop[n].out,
         runTerm'[d[1]] = loop[n].t
  PROVE  runTerm[d[1]] = loop[n].t
<1>1. d[1] \in Runs /\ loop[n].t \in Nat /\ loop[n].t <= Claimed(d[1])
  <2>1. loop[n] \in Loops /\ LoopOK(loop[n])
    BY DEF LoopsOK
  <2>2. d[1] \in Runs /\ loop[n].t \in Nat
    BY <2>1, TermsAreNats DEF Loops
  <2> QED
    BY <2>1, <2>2 DEF LoopOK
<1>2. TermMoves(d[1]) /\ RowMoves(d[1])
  BY <1>1, LedgerMoves
<1>3. runTerm[d[1]] \in Nat /\ Claimed(d[1]) \in Nat /\ Claimed(d[1]) <= runTerm[d[1]]
  BY <1>1, RowTypes
<1> QED
  BY <1>1, <1>2, <1>3 DEF TermMoves

LEMMA DispatchesKept ==
  ASSUME Inv, LedgerStep, NoNewLive, NoNewClaim, LiveRunsKeepLease
  PROVE  LiveHasLease' /\ ClaimedAlone' /\ OneLoopPerRun'
<1>1. LiveHasLease'
  BY DEF LiveHasLease, LiveRunsKeepLease
<1>2. OneLoopPerRun'
  BY DEF OneLoopPerRun, NoNewLive, Inv, Race
<1>3. ClaimedAlone'
  <2> SUFFICES ASSUME NEW n \in Nodes, NEW m \in Nodes, NEW d \in loop'[n].out,
                      runTerm'[d[1]] = loop'[n].t, jobs'[m]["loop"].live, jobs'[m]["loop"].run = d[1]
               PROVE  n = m
    BY DEF ClaimedAlone
  <2>1. d \in loop[n].out /\ loop'[n].t = loop[n].t
    BY DEF NoNewClaim
  <2>2. runTerm[d[1]] = loop[n].t
    BY <2>1, ClaimStood DEF Inv
  <2>3. jobs[m]["loop"].live /\ jobs[m]["loop"].run = d[1]
    BY DEF NoNewLive
  <2> QED
    BY <2>1, <2>2, <2>3 DEF Inv, Race, ClaimedAlone
<1> QED
  BY <1>1, <1>2, <1>3

LEMMA LeasedKeeps ==
  ASSUME Inv, LeasedStep, NoNewLive
  PROVE  LiveRunsKeepLease
<1> SUFFICES ASSUME NEW m \in Nodes, jobs'[m]["loop"].live
             PROVE  runs'[jobs'[m]["loop"].run].lease
  BY DEF LiveRunsKeepLease
<1>1. jobs[m]["loop"].live /\ jobs'[m]["loop"].run = jobs[m]["loop"].run
  BY DEF NoNewLive
<1>2. jobs[m]["loop"].run \in Runs
  <2>1. JobOK(jobs[m]["loop"])
    BY DEF Inv, JobsOK, Kinds
  <2> QED
    BY <1>1, <2>1, NoJobOK DEF JobOK
<1>3. runs[jobs[m]["loop"].run].lease
  BY <1>1 DEF Inv, Race, LiveHasLease
<1> QED
  BY <1>1, <1>2, <1>3, LeasesStay DEF Inv

\* Terms have one leader each as long as no Tick begins.
LEMMA TicksKept ==
  ASSUME Inv, term' = term, leader' \in {leader, None},
         \A n \in Nodes : loop'[n].t \in {loop[n].t, 0}
  PROVE  OneTickPerTerm'
<1>1. term \in Nat /\ term # 0 /\ \A n \in Nodes : loop[n].t \in Nat
  BY TermsAreNats DEF Inv, Plain, LoopsOK, Loops
<1> QED
  BY <1>1 DEF Inv, Race, OneTickPerTerm

-----------------------------------------------------------------------------
(* Each action takes one of the steps, and leaves the agents right. *)

StepOK == LedgerStep /\ DiskStays /\ Plain' /\ LoopsOK' /\ JobsOK' /\ Race'

\* What follows from a step of the ledger alone.
LEMMA LedgerFacts ==
  ASSUME Inv, LedgerStep
  PROVE  Ledger /\ Ledger' /\ Grows /\ ClaimsGrow
BY LedgerKept, LedgerGrows DEF Inv

LEMMA SameStep ==
  ASSUME Same
  PROVE  LeasedStep /\ LedgerStep
BY DEF LeasedStep, LedgerStep

\* A step that starts no live dispatch in a main loop and claims nothing for one.
LEMMA CalmStep ==
  ASSUME Inv, LeasedStep, DiskStays, Plain', LoopsOK', JobsOK', NoNewLive, NoNewClaim, OneTickPerTerm'
  PROVE  StepOK
<1>1. LedgerStep
  BY DEF LedgerStep
<1>2. LiveRunsKeepLease
  BY LeasedKeeps
<1> QED
  BY <1>1, <1>2, DispatchesKept DEF StepOK, Race

LEMMA QuietStep ==
  ASSUME Inv, LeasedStep, DiskStays, Plain', UNCHANGED <<loop, jobs>>, OneTickPerTerm'
  PROVE  StepOK
<1>1. LedgerStep
  BY DEF LedgerStep
<1>2. LoopsOK' /\ JobsOK'
  BY <1>1, LedgerFacts, LoopsKept, JobsKept DEF Inv
<1>3. NoNewLive /\ NoNewClaim
  BY DEF NoNewLive, NoNewClaim
<1> QED
  BY <1>2, <1>3, CalmStep

LEMMA DiskUnchanged ==
  ASSUME UNCHANGED disk
  PROVE  DiskStays
BY DEF DiskStays

\* Without an election or a new Tick.
LEMMA TicksUnchanged ==
  ASSUME Inv, UNCHANGED <<term, leader, loop>>
  PROVE  OneTickPerTerm'
BY DEF Inv, Race, OneTickPerTerm

LEMMA PolicyStep ==
  ASSUME Inv, \/ \E p \in Policies : PutPolicy(p)
              \/ DeletePolicy
              \/ \E m \in Nodes : RemoveMember(m)
  PROVE  StepOK
<1>1. UNCHANGED <<term, leader, fires, runs, tasks, runTerm, due, memo, loop, jobs, spec, disk>>
  BY DEF PutPolicy, DeletePolicy, RemoveMember, raftVars, loopVars, agentVars
<1>2. used' = used + 1
  BY DEF PutPolicy, DeletePolicy, RemoveMember, Spend
<1>3. /\ policy' \in [sel : {"EXPLICIT", "GROUP", "ALL"}, ids : Seq(Nodes), rev : Nat]
      /\ admitted' \subseteq Nodes
  <2>1. ASSUME NEW p \in Policies, PutPolicy(p)
        PROVE  /\ policy' \in [sel : {"EXPLICIT", "GROUP", "ALL"}, ids : Seq(Nodes), rev : Nat]
               /\ admitted' = admitted
    <3>1. p.sel \in {"EXPLICIT", "GROUP", "ALL"} /\ p.ids \in Seq(Nodes)
      BY BackupConstants DEF BackupConstants, Selections
    <3>2. policy.rev + 1 \in Nat
      BY DEF Inv, Plain
    <3> QED
      BY <2>1, <3>1, <3>2 DEF PutPolicy
  <2>2. ASSUME DeletePolicy
        PROVE  /\ policy' \in [sel : {"EXPLICIT", "GROUP", "ALL"}, ids : Seq(Nodes), rev : Nat]
               /\ admitted' = admitted
    BY <2>2 DEF DeletePolicy, Inv, Plain
  <2>3. ASSUME NEW m \in Nodes, RemoveMember(m)
        PROVE  policy' = policy /\ admitted' \subseteq admitted
    BY <2>3 DEF RemoveMember
  <2> QED
    BY <2>1, <2>2, <2>3 DEF Inv, Plain
<1>4. Plain'
  BY <1>1, <1>2, <1>3 DEF Inv, Plain
<1>5. Same
  BY <1>1 DEF Same
<1> QED
  BY <1>1, <1>4, <1>5, SameStep, DiskUnchanged, TicksUnchanged, QuietStep

LEMMA NextFireStep ==
  ASSUME Inv, NextFire
  PROVE  StepOK
<1>1. UNCHANGED <<term, leader, policy, admitted, fires, runs, tasks, runTerm, memo, loop, jobs, spec, disk, used>>
  BY DEF NextFire, raftVars, control, agentVars
<1>2. due' \in Fires
  BY DEF NextFire
<1>3. Plain' /\ Same
  BY <1>1, <1>2 DEF Inv, Plain, Same
<1> QED
  BY <1>1, <1>3, SameStep, DiskUnchanged, TicksUnchanged, QuietStep

LEMMA EditSpecStep ==
  ASSUME Inv, NEW n \in Nodes, EditSpec(n)
  PROVE  StepOK
<1>1. UNCHANGED <<term, leader, policy, admitted, fires, runs, tasks, runTerm, due, memo, loop, jobs, disk>>
  BY DEF EditSpec, raftVars, control, loopVars
<1>2. used' = used + 1 /\ spec' = [spec EXCEPT ![n] = @ + 1]
  BY DEF EditSpec, Spend
<1>3. spec' \in [Nodes -> Nat \ {0}]
  BY <1>2 DEF Inv, Plain
<1>4. Plain' /\ Same
  BY <1>1, <1>2, <1>3 DEF Inv, Plain, Same
<1> QED
  BY <1>1, <1>4, SameStep, DiskUnchanged, TicksUnchanged, QuietStep

LEMMA ElectStep ==
  ASSUME Inv, NEW n \in Nodes, Elect(n)
  PROVE  StepOK
<1>1. UNCHANGED <<policy, admitted, fires, runs, tasks, runTerm, due, memo, loop, jobs, spec, disk, used>>
  BY DEF Elect, control, loopVars, agentVars
<1>2. term' = term + 1 /\ leader' = n /\ term < MaxTerm
  BY DEF Elect
<1>3. term' \in Terms \ {0} /\ term \in Nat
  BY <1>2, BackupConstants DEF Inv, Plain, Terms, BackupConstants
<1>4. Plain' /\ Same
  BY <1>1, <1>2, <1>3 DEF Inv, Plain, Same
<1>5. OneTickPerTerm'
  <2>1. \A m \in Nodes : loop[m].t \in Nat
    BY TermsAreNats DEF Inv, LoopsOK, Loops
  <2> QED
    BY <1>1, <1>2, <1>3, <2>1 DEF Inv, Race, OneTickPerTerm
<1> QED
  BY <1>1, <1>4, <1>5, SameStep, DiskUnchanged, QuietStep

LEMMA CrashStep ==
  ASSUME Inv, NEW n \in Nodes, Crash(n)
  PROVE  StepOK
<1>1. UNCHANGED <<term, policy, admitted, fires, runs, tasks, runTerm, due, spec, disk>>
  BY DEF Crash, control, agentVars
<1>2. /\ used' = used + 1 /\ leader' \in {leader, None}
      /\ memo' = [memo EXCEPT ![n] = [f \in Fires |-> 0]]
      /\ loop' = [loop EXCEPT ![n] = Idle]
      /\ jobs' = [jobs EXCEPT ![n] = [k \in Kinds |-> NoJob]]
  BY DEF Crash, Spend
<1>3. memo' \in [Nodes -> [Fires -> Terms]]
  BY <1>2, TermsAreNats DEF Inv, Plain
<1>4. Plain' /\ Same
  BY <1>1, <1>2, <1>3 DEF Inv, Plain, Same
<1>5. LeasedStep /\ DiskStays /\ Ledger /\ Ledger' /\ Grows /\ ClaimsGrow
  BY <1>1, <1>4, SameStep, DiskUnchanged, LedgerFacts
<1>6. LoopsOK'
  BY <1>2, <1>5, IdleOK, LoopsMoved DEF Inv
<1>7. JobsOK'
  <2>1. jobs' \in [Nodes -> [Kinds -> Dispatches]]
    BY <1>2, NoJobOK DEF Inv, JobsOK
  <2> SUFFICES ASSUME NEW m \in Nodes, NEW h \in Kinds PROVE JobOK(jobs[m][h])'
    BY <2>1 DEF JobsOK
  <2>2. CASE m = n
    <3>1. jobs'[m][h] = NoJob
      BY <1>2, <2>2 DEF Inv, JobsOK
    <3> QED
      BY <3>1 DEF JobOK
  <2>3. CASE m # n
    <3>1. PICK i \in Dispatches : i = jobs[m][h] /\ JobOK(i)
      BY DEF Inv, JobsOK
    <3>2. JobOK(i)' /\ jobs'[m][h] = i
      BY <1>2, <1>5, <2>3, <3>1, JobOKKept DEF Inv, JobsOK
    <3> QED
      BY <3>2 DEF JobOK, WorkerOK, Targets
  <2> QED
    BY <2>2, <2>3
<1>8. \A m \in Nodes : IF m = n THEN loop'[m] = Idle ELSE loop'[m] = loop[m]
  BY <1>2 DEF Inv, LoopsOK
<1>9. NoNewLive /\ NoNewClaim
  <2>1. \A m \in Nodes : IF m = n THEN jobs'[m]["loop"] = NoJob ELSE jobs'[m] = jobs[m]
    BY <1>2 DEF Inv, JobsOK, Kinds
  <2> QED
    BY <1>8, <2>1, IdleOK, NoJobOK DEF NoNewLive, NoNewClaim
<1>10. OneTickPerTerm'
  BY <1>1, <1>2, <1>8, IdleOK, TicksKept
<1> QED
  BY <1>4, <1>5, <1>6, <1>7, <1>9, <1>10, CalmStep

LEMMA RetryCommit ==
  ASSUME Inv, NEW r \in Runs, runs[r].status # "absent", runTerm[r] <= term, RetryFailedTasks(r, term)
  PROVE  Retries(r, term) /\ LeasedStep /\ UNCHANGED <<policy, admitted>>
<1>1. Retries(r, term) /\ UNCHANGED <<policy, admitted>>
  BY DEF RetryFailedTasks, Retries, Failed
<1>2. term \in Terms
  BY DEF Inv, Plain
<1> QED
  BY <1>1, <1>2 DEF LeasedStep

LEMMA RetryRunLostStep ==
  ASSUME Inv, NEW r \in Runs, RetryRunLost(r)
  PROVE  StepOK
<1>1. UNCHANGED <<term, leader, due, memo, loop, jobs, spec, disk>>
  BY DEF RetryRunLost, raftVars, loopVars, agentVars
<1>2. used' = used + 1 /\ LeasedStep /\ UNCHANGED <<policy, admitted>>
  BY RetryCommit DEF RetryRunLost, Spend
<1>3. Plain'
  BY <1>1, <1>2 DEF Inv, Plain
<1> QED
  BY <1>1, <1>2, <1>3, DiskUnchanged, TicksUnchanged, QuietStep

-----------------------------------------------------------------------------
(* Dispatches. *)

\* One dispatch went on to x. A main loop's keeps its run and its lease, if any.
LEMMA JobMoveStep ==
  ASSUME Inv, LeasedStep, DiskStays, Plain', UNCHANGED <<term, leader, loop>>,
         NEW n \in Nodes, NEW k \in Kinds, NEW x \in Dispatches,
         jobs' = [jobs EXCEPT ![n][k] = x], JobOK(x)',
         k = "api" \/ (x.live => jobs[n][k].live /\ x.run = jobs[n][k].run)
  PROVE  StepOK
<1>1. LedgerStep
  BY DEF LedgerStep
<1>2. LoopsOK' /\ JobsOK'
  BY <1>1, LedgerFacts, LoopsKept, JobsMoved DEF Inv
<1>3. NoNewLive
  <2> SUFFICES ASSUME NEW m \in Nodes, jobs'[m]["loop"].live
               PROVE  jobs[m]["loop"].live /\ jobs'[m]["loop"].run = jobs[m]["loop"].run
    BY DEF NoNewLive
  <2>1. CASE m = n /\ k = "loop"
    <3>1. jobs'[m]["loop"] = x
      BY <2>1 DEF Inv, JobsOK
    <3> QED
      BY <2>1, <3>1
  <2>2. CASE ~(m = n /\ k = "loop")
    <3>1. jobs'[m]["loop"] = jobs[m]["loop"]
      BY <2>2 DEF Inv, JobsOK, Kinds
    <3> QED
      BY <3>1
  <2> QED
    BY <2>1, <2>2
<1>4. NoNewClaim
  BY DEF NoNewClaim
<1> QED
  BY <1>2, <1>3, <1>4, TicksUnchanged, CalmStep

LEMMA ExpireJobStep ==
  ASSUME Inv, NEW n \in Nodes, NEW k \in Kinds, ExpireJob(n, k)
  PROVE  StepOK
<1>1. UNCHANGED <<term, leader, policy, admitted, fires, runs, tasks, runTerm, due, memo, loop, spec, disk, used>>
  BY DEF ExpireJob, raftVars, control, loopVars, agentVars
<1>2. PICK j \in Dispatches : j = jobs[n][k] /\ JobOK(j)
  BY DEF Inv, JobsOK
<1> DEFINE x == [j EXCEPT !.live = FALSE]
<1>3. x \in Dispatches /\ ~x.live /\ x.run = j.run /\ x.todo = j.todo /\ x.act = j.act
  BY DEF Dispatches
<1>4. jobs' = [jobs EXCEPT ![n][k] = x]
  BY <1>2 DEF ExpireJob, Inv, JobsOK
<1> HIDE DEF x
<1>5. Plain' /\ Same
  BY <1>1 DEF Inv, Plain, Same
<1>6. LeasedStep /\ DiskStays /\ Grows
  BY <1>1, <1>5, SameStep, DiskUnchanged, LedgerFacts
<1>7. j # NoJob
  BY <1>2, NoJobOK DEF ExpireJob
<1>8. JobOK(x)'
  <2>1. JobOK(j)'
    BY <1>2, <1>6, JobOKKept
  <2> QED
    BY <1>3, <1>7, <2>1 DEF JobOK
<1> QED
  BY <1>1, <1>3, <1>4, <1>5, <1>6, <1>8, JobMoveStep

LEMMA ExpireRunStep ==
  ASSUME Inv, NEW r \in Runs, ExpireRun(r)
  PROVE  StepOK
<1>1. UNCHANGED <<term, leader, policy, admitted, due, memo, loop, jobs, spec, disk, used>>
  BY DEF ExpireRun, raftVars, loopVars, agentVars
<1>2. Expires(r)
  BY DEF ExpireRun, Expires
<1>3. LedgerStep
  BY <1>2 DEF LedgerStep
<1>4. Plain' /\ DiskStays
  BY <1>1, DiskUnchanged DEF Inv, Plain
<1>5. LoopsOK' /\ JobsOK'
  BY <1>1, <1>3, <1>4, LedgerFacts, LoopsKept, JobsKept DEF Inv
<1>6. NoNewLive /\ NoNewClaim
  BY <1>1 DEF NoNewLive, NoNewClaim
<1>7. LiveRunsKeepLease
  <2> SUFFICES ASSUME NEW m \in Nodes, jobs[m]["loop"].live
               PROVE  runs'[jobs[m]["loop"].run].lease
    BY <1>1 DEF LiveRunsKeepLease
  <2>1. jobs[m]["loop"].run # r
    BY DEF ExpireRun, Kinds
  <2>2. runs[jobs[m]["loop"].run].lease
    BY DEF Inv, Race, LiveHasLease
  <2> QED
    BY <1>2, <2>1, <2>2 DEF Expires, Inv, Ledger
<1>8. OneTickPerTerm'
  BY <1>1, TicksUnchanged
<1> QED
  BY <1>3, <1>4, <1>5, <1>6, <1>7, <1>8, DispatchesKept DEF StepOK, Race

\* A dispatch with something left to do is of a run that exists.
LEMMA BusyJob ==
  ASSUME Inv, NEW n \in Nodes, NEW k \in Kinds, NEW j, j = jobs[n][k]
  PROVE  /\ j \in Dispatches /\ JobOK(j)
         /\ j # NoJob => /\ j.run \in Runs /\ runs[j.run].status # "absent" /\ j.term \in Terms
                         /\ \A i \in j.todo : At(j, i) \in Nodes /\ At(j, i) \in Targets(j.run)
                         /\ \A w \in j.act : w \in Workers /\ w.n \in Nodes /\ WorkerOK(j.run, w)
<1>1. j \in Dispatches /\ JobOK(j)
  BY DEF Inv, JobsOK
<1>2. ASSUME j # NoJob
      PROVE  /\ j.run \in Runs /\ runs[j.run].status # "absent" /\ j.term \in Terms
             /\ \A i \in j.todo : At(j, i) \in Nodes /\ At(j, i) \in Targets(j.run)
             /\ \A w \in j.act : w \in Workers /\ w.n \in Nodes /\ WorkerOK(j.run, w)
  <2>1. /\ j.run \in Runs /\ runs[j.run].status # "absent" /\ j.term \in Terms
        /\ j.todo \subseteq DOMAIN runs[j.run].targets
        /\ \A w \in j.act : w \in Workers /\ WorkerOK(j.run, w)
    BY <1>1, <1>2 DEF JobOK, Dispatches
  <2>2. runs[j.run].targets \in Seq(Nodes)
    BY <2>1 DEF Inv, Ledger, RunRecords
  <2>3. \A i \in j.todo : At(j, i) \in ToSet(runs[j.run].targets)
    BY <2>1, <2>2, ListNodes DEF At
  <2>4. ToSet(runs[j.run].targets) \subseteq Nodes
    BY <2>2, ListNodes
  <2>5. \A w \in Workers : w.n \in Nodes
    BY DEF Workers
  <2> QED
    BY <2>1, <2>3, <2>4, <2>5 DEF Targets
<1> QED
  BY <1>1, <1>2

\* A worker moved on to the workers W.
LEMMA MovedOK ==
  ASSUME NEW j \in Dispatches, JobOK(j)', j # NoJob, NEW w \in j.act, NEW W \in SUBSET Workers,
         \A x \in W : WorkerOK(j.run, x)', NEW ff \in BOOLEAN
  PROVE  /\ Moved(j, w, W, ff) \in Dispatches /\ JobOK(Moved(j, w, W, ff))'
         /\ Moved(j, w, W, ff).live => j.live /\ Moved(j, w, W, ff).run = j.run
<1> DEFINE x == [j EXCEPT !.act = (@ \ {w}) \cup W, !.ff = @ \/ ff]
<1>1. /\ x \in Dispatches /\ x.run = j.run /\ x.todo = j.todo /\ x.live = j.live
      /\ x.act = (j.act \ {w}) \cup W
  BY DEF Dispatches
<1>2. Moved(j, w, W, ff) = IF Done(x) THEN NoJob ELSE x
  BY DEF Moved
<1> HIDE DEF x
<1>3. \A v \in x.act : WorkerOK(j.run, v)'
  BY <1>1 DEF JobOK
<1>4. JobOK(x)'
  BY <1>1, <1>3 DEF JobOK
<1>5. CASE Done(x)
  BY <1>2, <1>5, NoJobOK
<1>6. CASE ~Done(x)
  <2>1. Moved(j, w, W, ff) = x
    BY <1>2, <1>6
  <2> QED
    BY <1>1, <1>4, <2>1
<1> QED
  BY <1>5, <1>6

\* What a command that writes a task does, whatever its caller is told.
LEMMA WriteCommit ==
  ASSUME Inv, NEW n \in Nodes, NEW r \in Runs, NEW m \in Nodes, m \in Targets(r),
         NEW s \in TerminalTask, NEW v \in Nat, NEW t \in Terms, s = "SUCCESS" => v # 0 /\ disk[r][m] = v,
         NEW ok \in BOOLEAN, WriteTask(n, r, m, s, v, t, ok)
  PROVE  LeasedStep /\ UNCHANGED <<policy, admitted>> /\ used' \in Nat
<1>1. used' \in Nat
  BY DEF Inv, Plain, WriteTask, Spend
<1>2. CASE UNCHANGED control
  <2>1. Same /\ UNCHANGED <<policy, admitted>>
    BY <1>2 DEF Same, control
  <2> QED
    BY <1>1, <2>1, SameStep
<1>3. CASE ~StaleTask(r, m, t) /\ UpdateTask(r, m, s, v, t)
  <2>1. CASE tasks[r][m].st \in TerminalTask
    BY <1>2, <1>3, <2>1 DEF UpdateTask
  <2>2. CASE tasks[r][m].st \notin TerminalTask
    <3>1. Settles(r, m, s, v, t) /\ UNCHANGED <<policy, admitted>>
      BY <1>3, <2>2 DEF UpdateTask, Settles
    <3> QED
      BY <1>1, <3>1 DEF LeasedStep
  <2> QED
    BY <2>1, <2>2
<1>4. UNCHANGED control \/ (~StaleTask(r, m, t) /\ UpdateTask(r, m, s, v, t))
  BY DEF WriteTask, control
<1> QED
  BY <1>2, <1>3, <1>4

LEMMA CanceledWord ==
  ASSUME NEW j
  PROVE  CanceledStatus(j) \in TerminalTask /\ CanceledStatus(j) # "SUCCESS"
BY DEF CanceledStatus, TerminalTask, RetryableTask

LEMMA TakeStep ==
  ASSUME Inv, NEW n \in Nodes, NEW k \in Kinds, Take(n, k)
  PROVE  StepOK
<1>1. UNCHANGED <<term, leader, policy, admitted, fires, runs, tasks, runTerm, due, memo, loop, spec, disk, used>>
  BY DEF Take, raftVars, control, loopVars, agentVars
<1>2. PICK j : j = jobs[n][k]
  OBVIOUS
<1>3. PICK i \in j.todo : jobs' = [jobs EXCEPT ![n][k] = [j EXCEPT !.todo = @ \ {i},
                             !.act = @ \cup {Worker(At(j, i), "call", "none", 0)}]]
  BY <1>2 DEF Take, SetJob
<1>4. j # NoJob
  BY <1>3 DEF NoJob
<1>5. /\ j \in Dispatches /\ JobOK(j) /\ j.run \in Runs
      /\ At(j, i) \in Nodes /\ At(j, i) \in Targets(j.run)
  BY <1>2, <1>4, BusyJob
<1>a. PICK w : w = Worker(At(j, i), "call", "none", 0)
  OBVIOUS
<1>6. w \in Workers /\ w.n = At(j, i) /\ w.pc = "call" /\ w.st = "none"
  BY <1>5, <1>a DEF Worker, Workers
<1> DEFINE x == [j EXCEPT !.todo = @ \ {i}, !.act = @ \cup {w}]
<1>7. /\ x \in Dispatches /\ x.run = j.run /\ x.todo = j.todo \ {i} /\ x.act = j.act \cup {w}
      /\ x.live = j.live
  BY <1>5, <1>6 DEF Dispatches
<1>8. jobs' = [jobs EXCEPT ![n][k] = x]
  BY <1>3, <1>a
<1> HIDE DEF x
<1>9. Plain' /\ Same
  BY <1>1 DEF Inv, Plain, Same
<1>10. LeasedStep /\ DiskStays /\ Grows
  BY <1>1, <1>9, SameStep, DiskUnchanged, LedgerFacts
<1>11. WorkerOK(j.run, w)
  BY <1>5, <1>6 DEF WorkerOK
<1>12. WorkerOK(j.run, w)'
  BY <1>1, <1>11 DEF WorkerOK, Targets
<1>13. JobOK(x)'
  <2>1. JobOK(j)'
    BY <1>5, <1>10, JobOKKept
  <2> QED
    BY <1>4, <1>7, <1>12, <2>1 DEF JobOK
<1> QED
  BY <1>1, <1>2, <1>7, <1>8, <1>9, <1>10, <1>13, JobMoveStep

LEMMA CancelNextStep ==
  ASSUME Inv, NEW n \in Nodes, NEW k \in Kinds, CancelNext(n, k)
  PROVE  StepOK
<1>1. UNCHANGED <<term, leader, due, memo, loop, spec, disk>>
  BY DEF CancelNext, raftVars, loopVars, agentVars
<1>2. PICK j : j = jobs[n][k]
  OBVIOUS
<1> DEFINE y(i) == [j EXCEPT !.todo = @ \ {i}]
<1>3. PICK i \in j.todo, ok \in BOOLEAN :
        /\ WriteTask(n, j.run, At(j, i), CanceledStatus(j), 0, j.term, ok)
        /\ jobs' = [jobs EXCEPT ![n][k] = IF Done(y(i)) THEN NoJob ELSE y(i)]
  BY <1>2 DEF CancelNext, SetJob
<1>4. j # NoJob
  BY <1>3 DEF NoJob
<1>5. /\ j \in Dispatches /\ JobOK(j) /\ j.run \in Runs /\ j.term \in Terms
      /\ At(j, i) \in Nodes /\ At(j, i) \in Targets(j.run)
  BY <1>2, <1>4, BusyJob
<1>6. LeasedStep /\ UNCHANGED <<policy, admitted>> /\ used' \in Nat
  BY <1>3, <1>5, CanceledWord, WriteCommit
<1>7. Plain' /\ DiskStays
  BY <1>1, <1>6, DiskUnchanged DEF Inv, Plain
<1>8. Grows
  BY <1>6, LedgerFacts DEF LedgerStep
<1> DEFINE z == y(i)
<1>9. z \in Dispatches /\ z.run = j.run /\ z.todo = j.todo \ {i} /\ z.act = j.act /\ z.live = j.live
  BY <1>5 DEF Dispatches
<1>10. jobs' = [jobs EXCEPT ![n][k] = IF Done(z) THEN NoJob ELSE z]
  BY <1>3
<1> HIDE DEF y, z
<1>11. JobOK(z)'
  <2>1. JobOK(j)'
    BY <1>5, <1>7, <1>8, JobOKKept
  <2> QED
    BY <1>4, <1>9, <2>1 DEF JobOK
<1>12. CASE Done(z)
  BY <1>1, <1>6, <1>7, <1>10, <1>12, NoJobOK, JobMoveStep
<1>13. CASE ~Done(z)
  BY <1>1, <1>2, <1>6, <1>7, <1>9, <1>10, <1>11, <1>13, JobMoveStep
<1> QED
  BY <1>12, <1>13

\* A worker of dispatch k of agent n moved on to W, in a step that changes the
\* ledger at most.
LEMMA WorkerMoves ==
  ASSUME Inv, LeasedStep, DiskStays, Plain', UNCHANGED <<term, leader, loop>>,
         NEW n \in Nodes, NEW k \in Kinds, NEW j, j = jobs[n][k], NEW w \in j.act,
         NEW W \in SUBSET Workers, \A x \in W : WorkerOK(j.run, x)', NEW ff \in BOOLEAN,
         SetJob(n, k, Moved(j, w, W, ff))
  PROVE  StepOK
<1>1. j # NoJob
  BY DEF NoJob
<1>2. j \in Dispatches /\ JobOK(j) /\ j.run \in Runs
  BY <1>1, BusyJob
<1>3. Grows
  BY LedgerFacts DEF LedgerStep
<1>4. JobOK(j)'
  BY <1>2, <1>3, JobOKKept
<1>5. PICK x : x = Moved(j, w, W, ff)
  OBVIOUS
<1>6. x \in Dispatches /\ (x.live => j.live /\ x.run = j.run)
  BY <1>1, <1>2, <1>4, <1>5, MovedOK
<1>7. JobOK(Moved(j, w, W, ff))'
  BY <1>1, <1>2, <1>4, MovedOK
<1>8. JobOK(x)'
  BY <1>5, <1>7
<1>9. jobs' = [jobs EXCEPT ![n][k] = x]
  BY <1>5 DEF SetJob
<1> QED
  BY <1>6, <1>8, <1>9, JobMoveStep

LEMMA SkipStep ==
  ASSUME Inv, NEW n \in Nodes, NEW k \in Kinds, NEW w \in jobs[n][k].act, Skip(n, k, w)
  PROVE  StepOK
<1>1. UNCHANGED <<term, leader, policy, admitted, fires, runs, tasks, runTerm, due, memo, loop, spec, disk, used>>
  BY DEF Skip, raftVars, control, loopVars, agentVars
<1>2. Plain' /\ Same
  BY <1>1 DEF Inv, Plain, Same
<1>3. PICK j : j = jobs[n][k]
  OBVIOUS
<1>4. PICK ff \in BOOLEAN : SetJob(n, k, Moved(j, w, {}, ff))
  BY <1>3 DEF Skip, Ends
<1> QED
  BY <1>1, <1>2, <1>3, <1>4, SameStep, DiskUnchanged, WorkerMoves

\* The answer of an agent that took the task is true of its disk.
LEMMA Answers ==
  ASSUME Inv, NEW r \in Runs, NEW m \in Nodes, NEW s \in {"SUCCESS", "FAILED"} \cup Results,
         NEW v, RunTask(r, m, s, v)
  PROVE  /\ v \in Nat /\ s \in TerminalTask /\ disk' \in [Runs -> [Nodes -> Nat]] /\ DiskStays
         /\ s = "SUCCESS" => v # 0 /\ disk'[r][m] = v
<1>1. s \in TerminalTask
  BY BackupConstants DEF BackupConstants, TerminalTask, RetryableTask
<1>2. disk \in [Runs -> [Nodes -> Nat]] /\ spec[m] \in Nat /\ spec[m] # 0
  BY DEF Inv, Plain
<1>3. CASE disk[r][m] # 0
  <2>1. disk' = disk /\ v = IF disk[r][m] = spec[m] THEN spec[m] ELSE 0
    BY <1>3 DEF RunTask
  <2>2. s = "SUCCESS" => disk[r][m] = spec[m]
    BY <1>3 DEF RunTask
  <2> QED
    BY <1>1, <1>2, <2>1, <2>2 DEF DiskStays
<1>4. CASE disk[r][m] = 0
  <2>1. \/ v = spec[m] /\ disk' = [disk EXCEPT ![r][m] = spec[m]]
        \/ s # "SUCCESS" /\ v = 0 /\ disk' = disk
    BY <1>4 DEF RunTask
  <2>2. CASE v = spec[m] /\ disk' = [disk EXCEPT ![r][m] = spec[m]]
    BY <1>1, <1>2, <1>4, <2>2 DEF DiskStays
  <2>3. CASE s # "SUCCESS" /\ v = 0 /\ disk' = disk
    BY <1>1, <1>2, <2>3 DEF DiskStays
  <2> QED
    BY <2>1, <2>2, <2>3
<1> QED
  BY <1>3, <1>4

LEMMA LostWorker ==
  ASSUME NEW m \in Nodes
  PROVE  LET w == Worker(m, "fallback", "UNAVAILABLE", 0) IN
           w \in Workers /\ w.n = m /\ w.pc = "fallback" /\ w.st = "UNAVAILABLE"
BY DEF Worker, Workers, TerminalTask, RetryableTask

LEMMA CallStep ==
  ASSUME Inv, NEW n \in Nodes, NEW k \in Kinds, NEW w \in jobs[n][k].act, Call(n, k, w)
  PROVE  StepOK
<1>1. UNCHANGED <<term, leader, policy, admitted, fires, runs, tasks, runTerm, due, memo, loop, spec>>
  BY DEF Call, raftVars, control, loopVars
<1>2. PICK j : j = jobs[n][k]
  OBVIOUS
<1>3. j # NoJob
  BY <1>2 DEF NoJob
<1>4. j.run \in Runs /\ w \in Workers /\ w.n \in Nodes /\ WorkerOK(j.run, w)
  BY <1>2, <1>3, BusyJob
<1>5. PICK lost : lost = Worker(w.n, "fallback", "UNAVAILABLE", 0)
  OBVIOUS
<1>6. lost \in Workers /\ lost.n = w.n /\ lost.pc = "fallback" /\ lost.st = "UNAVAILABLE"
  BY <1>4, <1>5, LostWorker
<1>7. used' \in Nat
  <2>1. used' = used \/ used' = used + 1
    BY Zenon DEF Call, Spend
  <2>2. used \in Nat
    BY DEF Inv, Plain
  <2> QED
    BY <2>1, <2>2
<1>8. Same /\ LeasedStep
  BY <1>1, SameStep DEF Same
<1>9. w.n \in Targets(j.run) /\ Targets(j.run)' = Targets(j.run)
  BY <1>1, <1>4 DEF WorkerOK, Targets
<1>10. WorkerOK(j.run, lost)'
  BY <1>6, <1>9 DEF WorkerOK, TerminalTask, RetryableTask
<1>11. CASE /\ UNCHANGED disk
            /\ SetJob(n, k, Moved(j, w, {lost}, FALSE))
  <2>1. Plain' /\ DiskStays
    BY <1>1, <1>7, <1>11, DiskUnchanged DEF Inv, Plain
  <2>2. \A x \in {lost} : WorkerOK(j.run, x)'
    BY <1>10
  <2> QED
    BY <1>1, <1>2, <1>6, <1>8, <1>11, <2>1, <2>2, WorkerMoves
<1>12. ASSUME NEW s \in {"SUCCESS", "FAILED"} \cup Results, NEW v, RunTask(j.run, w.n, s, v),
              \/ SetJob(n, k, Moved(j, w, {Worker(w.n, "persist", s, v)}, FALSE))
              \/ SetJob(n, k, Moved(j, w, {lost}, FALSE))
       PROVE  StepOK
  <2>1. /\ v \in Nat /\ s \in TerminalTask /\ disk' \in [Runs -> [Nodes -> Nat]] /\ DiskStays
        /\ s = "SUCCESS" => v # 0 /\ disk'[j.run][w.n] = v
    BY <1>4, <1>12, Answers
  <2>2. Plain'
    BY <1>1, <1>7, <2>1 DEF Inv, Plain
  <2>3. PICK y : y = Worker(w.n, "persist", s, v)
    OBVIOUS
  <2>4. y \in Workers /\ y.n = w.n /\ y.pc = "persist" /\ y.st = s /\ y.snap = v
    BY <1>4, <2>1, <2>3 DEF Worker, Workers
  <2>5. WorkerOK(j.run, y)'
    BY <1>9, <2>1, <2>4 DEF WorkerOK
  <2>6. PICK x \in {y, lost} : SetJob(n, k, Moved(j, w, {x}, FALSE))
    BY <1>12, <2>3
  <2>7. {x} \in SUBSET Workers /\ \A z \in {x} : WorkerOK(j.run, z)'
    BY <1>6, <1>10, <2>4, <2>5, <2>6
  <2> QED
    BY <1>1, <1>2, <1>8, <2>1, <2>2, <2>6, <2>7, WorkerMoves
<1> QED
  BY <1>2, <1>5, <1>11, <1>12 DEF Call

LEMMA PersistStep ==
  ASSUME Inv, NEW n \in Nodes, NEW k \in Kinds, NEW w \in jobs[n][k].act, Persist(n, k, w)
  PROVE  StepOK
<1>1. UNCHANGED <<term, leader, due, memo, loop, spec, disk>> /\ w.pc = "persist"
  BY DEF Persist, raftVars, loopVars, agentVars
<1>2. PICK j : j = jobs[n][k]
  OBVIOUS
<1>3. j # NoJob
  BY <1>2 DEF NoJob
<1>4. /\ j.run \in Runs /\ j.term \in Terms /\ w \in Workers /\ w.n \in Nodes /\ WorkerOK(j.run, w)
      /\ runs[j.run].status # "absent"
  BY <1>2, <1>3, BusyJob
<1>5. PICK lost : lost = Worker(w.n, "fallback", "UNAVAILABLE", 0)
  OBVIOUS
<1>6. lost \in Workers /\ lost.n = w.n /\ lost.pc = "fallback" /\ lost.st = "UNAVAILABLE"
  BY <1>4, <1>5, LostWorker
<1>7. PICK ok \in BOOLEAN : /\ WriteTask(n, j.run, w.n, w.st, w.snap, j.term, ok)
                            /\ SetJob(n, k, IF ok THEN Moved(j, w, {}, Ends(w.st))
                                            ELSE Moved(j, w, {lost}, FALSE))
  BY <1>2, <1>5 DEF Persist
<1>8. /\ w.n \in Targets(j.run) /\ w.st \in TerminalTask /\ w.snap \in Nat
      /\ w.st = "SUCCESS" => w.snap # 0 /\ disk[j.run][w.n] = w.snap
  BY <1>1, <1>4 DEF WorkerOK, Workers
<1>9. LeasedStep /\ UNCHANGED <<policy, admitted>> /\ used' \in Nat
  BY <1>4, <1>7, <1>8, WriteCommit
<1>10. Plain' /\ DiskStays
  BY <1>1, <1>9, DiskUnchanged DEF Inv, Plain
<1>11. Grows
  BY <1>9, LedgerFacts DEF LedgerStep
<1>12. WorkerOK(j.run, lost)
  BY <1>6, <1>8 DEF WorkerOK, TerminalTask, RetryableTask
<1>13. WorkerOK(j.run, lost)'
  BY <1>4, <1>6, <1>10, <1>11, <1>12, WorkerOKKept
<1>14. CASE ok
  <2>1. SetJob(n, k, Moved(j, w, {}, Ends(w.st))) /\ Ends(w.st) \in BOOLEAN
    BY <1>7, <1>14 DEF Ends
  <2> QED
    BY <1>1, <1>2, <1>9, <1>10, <2>1, WorkerMoves
<1>15. CASE ~ok
  <2>1. SetJob(n, k, Moved(j, w, {lost}, FALSE))
    BY <1>7, <1>15
  <2>2. \A x \in {lost} : WorkerOK(j.run, x)'
    BY <1>13
  <2> QED
    BY <1>1, <1>2, <1>6, <1>9, <1>10, <2>1, <2>2, WorkerMoves
<1> QED
  BY <1>14, <1>15

LEMMA FallbackStep ==
  ASSUME Inv, NEW n \in Nodes, NEW k \in Kinds, NEW w \in jobs[n][k].act, Fallback(n, k, w)
  PROVE  StepOK
<1>1. UNCHANGED <<term, leader, due, memo, loop, spec, disk>> /\ w.pc = "fallback"
  BY DEF Fallback, raftVars, loopVars, agentVars
<1>2. PICK j : j = jobs[n][k]
  OBVIOUS
<1>3. j # NoJob
  BY <1>2 DEF NoJob
<1>4. j.run \in Runs /\ j.term \in Terms /\ w \in Workers /\ w.n \in Nodes /\ WorkerOK(j.run, w)
  BY <1>2, <1>3, BusyJob
<1>5. PICK s : s = IF j.live /\ ~j.ff THEN w.st ELSE CanceledStatus(j)
  OBVIOUS
<1>6. s \in TerminalTask /\ s # "SUCCESS" /\ w.n \in Targets(j.run)
  BY <1>1, <1>4, <1>5, CanceledWord DEF WorkerOK
<1>7. PICK ok \in BOOLEAN : WriteTask(n, j.run, w.n, s, 0, j.term, ok)
  BY <1>2, <1>5 DEF Fallback
<1>8. LeasedStep /\ UNCHANGED <<policy, admitted>> /\ used' \in Nat
  BY <1>4, <1>6, <1>7, WriteCommit
<1>9. Plain' /\ DiskStays
  BY <1>1, <1>8, DiskUnchanged DEF Inv, Plain
<1>10. PICK ff \in BOOLEAN : SetJob(n, k, Moved(j, w, {}, ff))
  <2>1. SetJob(n, k, Moved(j, w, {}, FailFast /\ s # "TIMEOUT"))
    BY <1>2, <1>5 DEF Fallback
  <2> QED
    BY <2>1
<1> QED
  BY <1>1, <1>2, <1>8, <1>9, <1>10, WorkerMoves

-----------------------------------------------------------------------------
(* Requests to the API. *)

\* Whatever a policy selects is a list of agents.
LEMMA ResolveType ==
  ASSUME Plain
  PROVE  Resolve(policy) \in Seq(Nodes)
<1>1. policy.sel \in {"EXPLICIT", "GROUP", "ALL"} /\ policy.ids \in Seq(Nodes)
  BY DEF Plain
<1>2. admitted \in SUBSET Nodes /\ (Group \cap admitted) \in SUBSET Nodes
  BY DEF Plain
<1>3. ById[admitted] \in Seq(Nodes) /\ ById[Group \cap admitted] \in Seq(Nodes)
  BY <1>2, BackupConstants DEF BackupConstants
<1>4. CASE policy.sel = "EXPLICIT"
  BY <1>1, <1>4 DEF Resolve
<1>5. CASE policy.sel = "GROUP"
  BY <1>3, <1>5 DEF Resolve
<1>6. CASE policy.sel = "ALL"
  BY <1>3, <1>6 DEF Resolve
<1> QED
  BY <1>1, <1>4, <1>5, <1>6

\* A dispatch as it begins.
LEMMA NewJob ==
  ASSUME Ledger', NEW r \in Runs, runs'[r].status # "absent", NEW x, x.run = r,
         x.todo \subseteq DOMAIN runs'[r].targets, x.act = {}, x.ff = FALSE,
         x.term \in Terms, x.live \in BOOLEAN,
         x = [run |-> r, term |-> x.term, live |-> x.live, todo |-> x.todo, act |-> {}, ff |-> FALSE]
  PROVE  x \in Dispatches /\ JobOK(x)'
<1>1. runs'[r].targets \in Seq(Nodes)
  BY DEF Ledger, RunRecords
<1>2. DOMAIN runs'[r].targets \subseteq Nat
  BY <1>1
<1>3. x.todo \in SUBSET Nat
  BY <1>2
<1>4. x \in Dispatches
  BY <1>3 DEF Dispatches
<1>5. JobOK(x)'
  BY <1>4 DEF JobOK
<1> QED
  BY <1>4, <1>5

LEMMA StartRunStep ==
  ASSUME Inv, NEW r \in Manual, StartRun(r)
  PROVE  StepOK
<1>1. UNCHANGED <<term, leader, policy, admitted, fires, tasks, due, memo, loop, spec, disk>>
  BY DEF StartRun, raftVars, loopVars, agentVars
<1>2. PICK ts \in Seq(Nodes) : ts = Resolve(policy)
  BY ResolveType DEF Inv
<1>3. r \in Runs /\ r \notin Fires
  BY BackupConstants DEF BackupConstants, Runs
<1>4. leader \in Nodes /\ term \in Terms /\ policy.rev \in Nat
  BY DEF StartRun, Inv, Plain
<1>5. Creates(r, ts, policy.rev, term)
  BY <1>1, <1>2, <1>3 DEF StartRun, CreateRun, Creates
<1>6. LeasedStep
  BY <1>3, <1>4, <1>5 DEF LeasedStep
<1>7. used' \in Nat
  <2>1. used' = used \/ used' = used + 1
    BY Zenon DEF StartRun, Spend
  <2> QED
    BY <2>1 DEF Inv, Plain
<1>8. Plain' /\ DiskStays
  BY <1>1, <1>7, DiskUnchanged DEF Inv, Plain
<1>9. CASE StartJob(leader, "api", r, DOMAIN ts, term, TRUE)
  <2>1. PICK t \in Terms : t = term
    BY <1>4
  <2>2. PICK x : x = [run |-> r, term |-> t, live |-> TRUE, todo |-> DOMAIN ts, act |-> {}, ff |-> FALSE]
    OBVIOUS
  <2>3. Ledger'
    BY <1>6, LedgerFacts DEF LedgerStep
  <2>4. runs'[r].status # "absent" /\ runs'[r].targets = ts
    BY <1>3, <1>5 DEF Creates, Inv, Ledger
  <2>5. x \in Dispatches /\ JobOK(x)'
    BY <1>3, <2>2, <2>3, <2>4, NewJob
  <2>6. "api" \in Kinds /\ jobs' = [jobs EXCEPT ![leader]["api"] = x]
    BY <1>9, <2>1, <2>2, <2>5 DEF Kinds, StartJob
  <2> QED
    BY <1>1, <1>4, <1>6, <1>8, <2>5, <2>6, JobMoveStep
<1>10. CASE UNCHANGED jobs
  BY <1>1, <1>6, <1>8, <1>10, TicksUnchanged, QuietStep
<1> QED
  BY <1>2, <1>9, <1>10 DEF StartRun

LEMMA RetryRunStep ==
  ASSUME Inv, NEW r \in Runs, RetryRun(r)
  PROVE  StepOK
<1>1. UNCHANGED <<term, leader, due, memo, loop, spec, disk>> /\ used' = used + 1
  BY DEF RetryRun, Spend, raftVars, loopVars, agentVars
<1>2. leader \in Nodes /\ term \in Terms /\ runs[r].status # "absent"
  BY DEF RetryRun, Inv, Plain
<1>3. LeasedStep /\ UNCHANGED <<policy, admitted>>
  BY RetryCommit DEF RetryRun
<1>4. Plain' /\ DiskStays
  BY <1>1, <1>3, DiskUnchanged DEF Inv, Plain
<1>5. PICK pending : pending = {i \in DOMAIN runs[r].targets : tasks'[r][runs[r].targets[i]].st = "PENDING"}
  OBVIOUS
<1>6. CASE UNCHANGED jobs
  BY <1>1, <1>3, <1>4, <1>6, TicksUnchanged, QuietStep
<1>7. CASE StartJob(leader, "api", r, pending, term, TRUE)
  <2>1. PICK t \in Terms : t = term
    BY <1>2
  <2>2. PICK x : x = [run |-> r, term |-> t, live |-> TRUE, todo |-> pending, act |-> {}, ff |-> FALSE]
    OBVIOUS
  <2>3. Ledger' /\ Grows
    BY <1>3, LedgerFacts DEF LedgerStep
  <2>4. runs'[r].status # "absent" /\ pending \subseteq DOMAIN runs'[r].targets
    BY <1>2, <1>5, <2>3 DEF Grows
  <2>5. x \in Dispatches /\ JobOK(x)'
    BY <2>2, <2>3, <2>4, NewJob
  <2>6. "api" \in Kinds /\ jobs' = [jobs EXCEPT ![leader]["api"] = x]
    BY <1>7, <2>1, <2>2, <2>5 DEF Kinds, StartJob
  <2> QED
    BY <1>1, <1>2, <1>3, <1>4, <2>5, <2>6, JobMoveStep
<1> QED
  BY <1>5, <1>6, <1>7 DEF RetryRun

-----------------------------------------------------------------------------
(* Ticks. *)

\* The Tick of n went on to l, which holds no more claims than before.
LEMMA LoopMoveStep ==
  ASSUME Inv, LeasedStep, DiskStays, Plain', UNCHANGED jobs, OneTickPerTerm',
         NEW n \in Nodes, NEW l \in Loops, loop' = [loop EXCEPT ![n] = l], LoopOK(l)',
         l.out \subseteq loop[n].out, l.out # {} => l.t = loop[n].t
  PROVE  StepOK
<1>1. LedgerStep
  BY DEF LedgerStep
<1>2. LoopsOK' /\ JobsOK'
  BY <1>1, LedgerFacts, LoopsMoved, JobsKept DEF Inv
<1>3. NoNewLive
  BY DEF NoNewLive
<1>4. NoNewClaim
  <2> SUFFICES ASSUME NEW m \in Nodes
               PROVE  loop'[m].out \subseteq loop[m].out /\ (loop'[m].out # {} => loop'[m].t = loop[m].t)
    BY DEF NoNewClaim
  <2>1. loop'[m] = IF m = n THEN l ELSE loop[m]
    BY DEF Inv, LoopsOK
  <2> QED
    BY <2>1
<1> QED
  BY <1>2, <1>3, <1>4, CalmStep

\* No Tick begins where one goes on or ends.
LEMMA SameTick ==
  ASSUME Inv, UNCHANGED <<term, leader>>, NEW n \in Nodes, NEW l \in Loops,
         loop' = [loop EXCEPT ![n] = l], l.t \in {loop[n].t, 0}
  PROVE  OneTickPerTerm'
<1>1. ASSUME NEW m \in Nodes PROVE loop'[m].t \in {loop[m].t, 0}
  <2>1. loop'[m] = IF m = n THEN l ELSE loop[m]
    BY DEF Inv, LoopsOK
  <2> QED
    BY <2>1
<1> QED
  BY <1>1, TicksKept

LEMMA BackToIdle ==
  ASSUME Inv, LeasedStep, UNCHANGED <<term, leader, jobs, disk>>, Plain', NEW n \in Nodes, Go(n, Idle)
  PROVE  StepOK
<1>1. PICK l \in Loops : l = Idle /\ l.t = 0 /\ l.out = {} /\ LoopOK(l)'
  BY IdleOK
<1>2. loop' = [loop EXCEPT ![n] = l]
  BY <1>1 DEF Go
<1>3. OneTickPerTerm'
  BY <1>1, <1>2, SameTick
<1> QED
  BY <1>1, <1>2, <1>3, DiskUnchanged, LoopMoveStep

LEMMA TickEndStep ==
  ASSUME Inv, NEW n \in Nodes, TickEnd(n)
  PROVE  StepOK
<1>1. UNCHANGED <<term, leader, policy, admitted, fires, runs, tasks, runTerm, due, memo, jobs, spec, disk, used>>
  BY DEF TickEnd, raftVars, control, agentVars
<1>2. Plain' /\ Same /\ Go(n, Idle)
  BY <1>1 DEF Inv, Plain, Same, TickEnd
<1> QED
  BY <1>1, <1>2, SameStep, BackToIdle

LEMMA TickBeginStep ==
  ASSUME Inv, NEW n \in Nodes, TickBegin(n)
  PROVE  StepOK
<1>1. /\ UNCHANGED <<term, leader, policy, admitted, fires, runs, tasks, runTerm, due, memo, jobs, spec, disk, used>>
      /\ leader = n
  BY DEF TickBegin, raftVars, control, agentVars
<1>2. Plain' /\ Same
  BY <1>1 DEF Inv, Plain, Same
<1>3. PICK l : l = [Idle EXCEPT !.pc = "recover", !.t = term, !.fire = due, !.ids = Recoverable(term)]
  OBVIOUS
<1>4. loop' = [loop EXCEPT ![n] = l]
  BY <1>3 DEF TickBegin, Go
<1>5. /\ l \in Loops /\ l.pc = "recover" /\ l.t = term /\ l.out = {} /\ l.ids = Recoverable(term)
  <2>1. term \in Terms /\ due \in Fires \cup {0} /\ Recoverable(term) \in SUBSET Runs
    BY DEF Inv, Plain, Recoverable
  <2>2. << >> \in Seq(Nodes)
    OBVIOUS
  <2> QED
    BY <1>3, <2>1, <2>2 DEF Idle, Loops
<1>6. \A r \in l.ids : runs'[r].status # "absent"
  BY <1>1, <1>5 DEF Recoverable
<1>7. LoopOK(l)'
  BY <1>5, <1>6 DEF LoopOK
<1>8. OneTickPerTerm'
  <2>1. None # n
    BY BackupConstants DEF BackupConstants
  <2>2. term \in Nat /\ OneTickPerTerm
    BY TermsAreNats DEF Inv, Plain, Race
  <2>3. \A m \in Nodes : loop'[m] = IF m = n THEN l ELSE loop[m]
    BY <1>4 DEF Inv, LoopsOK
  <2>4. \A m \in Nodes \ {n} : loop[m].t # term
    BY <1>1, <2>1, <2>2 DEF OneTickPerTerm
  <2> QED
    BY <1>1, <1>5, <2>2, <2>3, <2>4 DEF OneTickPerTerm
<1> QED
  BY <1>1, <1>2, <1>4, <1>5, <1>7, <1>8, SameStep, DiskUnchanged, LoopMoveStep

LEMMA ReadPoliciesStep ==
  ASSUME Inv, NEW n \in Nodes, ReadPolicies(n)
  PROVE  StepOK
<1>1. UNCHANGED <<term, leader, policy, admitted, fires, runs, tasks, runTerm, due, memo, jobs, spec, disk, used>>
  BY DEF ReadPolicies, raftVars, control, agentVars
<1>2. Plain' /\ Same
  BY <1>1 DEF Inv, Plain, Same
<1>3. CASE Go(n, Idle)
  BY <1>1, <1>2, <1>3, SameStep, BackToIdle
<1>4. PICK k \in Loops : k = loop[n] /\ LoopOK(k)
  BY DEF Inv, LoopsOK
<1>5. PICK l : l = [k EXCEPT !.pc = "claim", !.rev = policy.rev, !.view = ById[ToSet(Resolve(policy))]]
  OBVIOUS
<1>6. CASE Go(n, l) /\ k.fire # 0
  <2>1. loop' = [loop EXCEPT ![n] = l]
    BY <1>6 DEF Go
  <2>2. ToSet(Resolve(policy)) \in SUBSET Nodes
    BY ResolveType, ListNodes DEF Inv
  <2>3. policy.rev \in Nat /\ ById[ToSet(Resolve(policy))] \in Seq(Nodes)
    BY <2>2, BackupConstants DEF BackupConstants, Inv, Plain
  <2>4. /\ l \in Loops /\ l.t = k.t /\ l.out = k.out /\ l.ids = k.ids /\ l.fire = k.fire /\ k.fire \in Fires
    BY <1>4, <1>5, <1>6, <2>3 DEF Loops
  <2>5. LoopOK(l)
    BY <1>4, <2>4 DEF LoopOK
  <2>6. LoopOK(l)'
    BY <1>2, <2>4, <2>5, SameStep, LedgerFacts, LoopOKKept
  <2>7. OneTickPerTerm'
    BY <1>1, <1>4, <2>1, <2>4, SameTick
  <2> QED
    BY <1>1, <1>2, <1>4, <2>1, <2>4, <2>6, <2>7, SameStep, DiskUnchanged, LoopMoveStep
<1> QED
  BY <1>3, <1>4, <1>5, <1>6 DEF ReadPolicies

\* A run whose lease has run out is dispatched by no main loop.
LEMMA NoLiveDispatch ==
  ASSUME Inv, NEW r \in Runs, ~runs[r].lease \/ runs[r].status = "absent", NEW m \in Nodes,
         jobs[m]["loop"].live
  PROVE  jobs[m]["loop"].run # r
<1>1. runs[jobs[m]["loop"].run].lease
  BY DEF Inv, Race, LiveHasLease
<1>2. JobOK(jobs[m]["loop"])
  BY DEF Inv, JobsOK, Kinds
<1>3. jobs[m]["loop"] # NoJob
  BY NoJobOK
<1>4. runs[jobs[m]["loop"].run].status # "absent"
  BY <1>2, <1>3 DEF JobOK
<1> QED
  BY <1>1, <1>4

LEMMA ClaimRunCommit ==
  ASSUME Inv, NEW r \in Runs, runs[r].status # "absent", NEW t \in Terms, RunClaimable(r, t), ClaimRun(r, t)
  PROVE  Takes(r, t) /\ LeasedStep /\ Claimed(r)' = t /\ UNCHANGED <<policy, admitted>>
<1>1. /\ runs[r] \in RunRecords /\ runTerm[r] \in Nat /\ Claimed(r) \in Nat /\ Claimed(r) <= runTerm[r]
      /\ r \in Fires => fires[r] \in FireRecords
  BY RowTypes DEF Inv
<1>2. t \in Nat /\ t > runTerm[r] /\ ~runs[r].lease /\ runs[r].status \notin TerminalRun
  BY TermsAreNats DEF RunClaimable
<1>3. runs[r].status = "RUNNING"
  BY <1>1, <1>2, Words DEF RunRecords, RunStatus
<1>4. t > Claimed(r)
  BY <1>1, <1>2
<1>5. r \in Fires => fires[r].status = "CLAIMED" /\ t > fires[r].term
  BY <1>3, <1>4, RowByRow DEF Inv, Ledger, FireAgrees, FireWord, Claimed
<1>6. fires' = IF r \in Fires THEN [fires EXCEPT ![r] = [status |-> "CLAIMED", term |-> t]] ELSE fires
  <2>1. fires' = Synced(r, t, "CLAIMED")
    BY DEF ClaimRun
  <2> QED
    BY <1>5, <2>1 DEF Synced
<1>7. Takes(r, t) /\ UNCHANGED <<policy, admitted>>
  BY <1>2, <1>3, <1>4, <1>6 DEF Takes, ClaimRun
<1>8. Claimed(r)' = t
  <2>1. r \in Fires => fires'[r].term = t
    BY <1>6 DEF Inv, Ledger
  <2>2. runTerm'[r] = t
    BY <1>7 DEF Takes, Inv, Ledger
  <2> QED
    BY <2>1, <2>2 DEF Claimed
<1> QED
  BY <1>7, <1>8 DEF LeasedStep

\* The places of the targets still to be done are places of targets.
LEMMA UnfinishedPlaces ==
  ASSUME Inv, NEW r \in Runs
  PROVE  Unfinished(r) \subseteq DOMAIN runs[r].targets /\ DOMAIN runs[r].targets \subseteq Nat
<1>1. runs[r].targets \in Seq(Nodes)
  BY DEF Inv, Ledger, RunRecords
<1> QED
  BY <1>1 DEF Unfinished, Places

\* A Tick claims an expired run and will dispatch it: no main loop is at it.
LEMMA ClaimStep ==
  ASSUME Inv, NEW r \in Runs, NEW t \in Terms, Takes(r, t), UNCHANGED <<term, leader, jobs, disk>>, Plain',
         NEW n \in Nodes, NEW l \in Loops, loop' = [loop EXCEPT ![n] = l], LoopOK(l)',
         l.t = loop[n].t, NEW todo, l.out \subseteq loop[n].out \cup {<<r, todo>>}
  PROVE  StepOK
<1>1. LeasedStep /\ LedgerStep
  BY DEF LeasedStep, LedgerStep
<1>2. LoopsOK' /\ JobsOK'
  BY <1>1, LedgerFacts, LoopsMoved, JobsKept, DiskUnchanged DEF Inv
<1>3. NoNewLive
  BY DEF NoNewLive
<1>4. LiveHasLease'
  BY <1>1, <1>3, LeasedKeeps DEF LiveHasLease, LiveRunsKeepLease
<1>5. OneLoopPerRun'
  BY DEF Inv, Race, OneLoopPerRun
<1>6. ClaimedAlone'
  <2> SUFFICES ASSUME NEW i \in Nodes, NEW m \in Nodes, NEW d \in loop'[i].out,
                      runTerm'[d[1]] = loop'[i].t, jobs[m]["loop"].live, jobs[m]["loop"].run = d[1]
               PROVE  i = m
    BY DEF ClaimedAlone
  <2>1. loop'[i] = IF i = n THEN l ELSE loop[i]
    BY DEF Inv, LoopsOK
  <2>2. d[1] # r
    BY NoLiveDispatch DEF Takes
  <2>3. d \in loop[i].out /\ loop'[i].t = loop[i].t
    BY <2>1, <2>2
  <2>4. runTerm[d[1]] = loop[i].t
    BY <1>1, <2>3, ClaimStood DEF Inv
  <2> QED
    BY <2>3, <2>4 DEF Inv, Race, ClaimedAlone
<1>7. OneTickPerTerm'
  BY SameTick
<1> QED
  BY <1>1, <1>2, <1>4, <1>5, <1>6, <1>7, DiskUnchanged DEF StepOK, Race

LEMMA RecoverOneStep ==
  ASSUME Inv, NEW n \in Nodes, NEW r \in loop[n].ids, RecoverOne(n, r)
  PROVE  StepOK
<1>1. UNCHANGED <<term, leader, due, memo, jobs, spec, disk>>
  BY DEF RecoverOne, raftVars, agentVars
<1>2. PICK l \in Loops : l = loop[n] /\ LoopOK(l)
  BY DEF Inv, LoopsOK
<1>3. r \in Runs /\ runs[r].status # "absent" /\ l.t \in Terms
  BY <1>2 DEF LoopOK, Loops
<1>4. PICK todo : todo = Unfinished(r)
  OBVIOUS
<1>5. todo \subseteq DOMAIN runs[r].targets /\ todo \in SUBSET Nat
  BY <1>3, <1>4, UnfinishedPlaces
<1>6. used' \in Nat
  <2>1. used' = used \/ used' = used + 1
    BY Zenon DEF RecoverOne, Spend
  <2> QED
    BY <2>1 DEF Inv, Plain
<1>7. \/ UNCHANGED control
      \/ RunClaimable(r, l.t) /\ ClaimRun(r, l.t)
  BY <1>2, Zenon DEF RecoverOne
<1>8. LeasedStep /\ UNCHANGED <<policy, admitted>>
  <2>1. CASE UNCHANGED control
    BY <2>1, SameStep DEF control, Same
  <2> QED
    BY <1>3, <1>7, <2>1, ClaimRunCommit
<1>9. Plain' /\ DiskStays
  BY <1>1, <1>6, <1>8, DiskUnchanged DEF Inv, Plain
<1>10. CASE Go(n, Idle)
  BY <1>1, <1>8, <1>9, <1>10, BackToIdle
<1>11. PICK x : x = [l EXCEPT !.ids = @ \ {r},
                              !.out = IF RunClaimable(r, l.t) /\ todo # {} THEN @ \cup {<<r, todo>>} ELSE @]
  OBVIOUS
<1>12. CASE Go(n, x)
  <2>1. loop' = [loop EXCEPT ![n] = x]
    BY <1>12 DEF Go
  <2>2. /\ x \in Loops /\ x.t = l.t /\ x.ids = l.ids \ {r} /\ x.pc = l.pc /\ x.fire = l.fire
        /\ x.out = IF RunClaimable(r, l.t) /\ todo # {} THEN l.out \cup {<<r, todo>>} ELSE l.out
    <3>1. <<r, todo>> \in Runs \X SUBSET Nat
      BY <1>3, <1>5
    <3>2. (IF RunClaimable(r, l.t) /\ todo # {} THEN l.out \cup {<<r, todo>>} ELSE l.out)
            \in SUBSET (Runs \X SUBSET Nat)
      BY <3>1 DEF Loops
    <3> QED
      BY <1>11, <3>2 DEF Loops
  <2>3. LoopOK(l)' /\ Grows
    BY <1>2, <1>8, LedgerFacts, LoopOKKept DEF LedgerStep
  <2>4. CASE x.out = l.out
    <3>1. LoopOK(x)'
      BY <2>2, <2>3, <2>4 DEF LoopOK
    <3>2. OneTickPerTerm'
      BY <1>1, <1>2, <2>1, <2>2, SameTick
    <3> QED
      BY <1>1, <1>2, <1>8, <1>9, <2>1, <2>2, <2>4, <3>1, <3>2, LoopMoveStep
  <2>5. CASE RunClaimable(r, l.t) /\ x.out = l.out \cup {<<r, todo>>} /\ ClaimRun(r, l.t)
    <3>1. Takes(r, l.t) /\ Claimed(r)' = l.t
      BY <1>3, <2>5, ClaimRunCommit
    <3>2. l.t # 0 /\ l.t <= l.t
      <4>1. l.t \in Nat /\ runTerm[r] \in Nat /\ l.t > runTerm[r]
        BY <1>3, <2>5, TermsAreNats, RowTypes DEF Inv, RunClaimable
      <4> QED
        BY <4>1
    <3>3. runs'[r].status # "absent" /\ todo \subseteq DOMAIN runs'[r].targets
      BY <1>3, <1>5, <2>3 DEF Grows
    <3>4. LoopOK(x)'
      BY <2>2, <2>3, <2>5, <3>1, <3>2, <3>3 DEF LoopOK
    <3> QED
      BY <1>1, <1>2, <1>3, <1>9, <2>1, <2>2, <2>5, <3>1, <3>4, ClaimStep
  <2>6. CASE RunClaimable(r, l.t) /\ x.out = l.out \cup {<<r, todo>>} /\ ~ClaimRun(r, l.t)
    <3>1. Go(n, Idle)
      BY <1>2, <2>6, Zenon DEF RecoverOne
    <3> QED
      BY <1>10, <3>1
  <2> QED
    BY <2>2, <2>4, <2>5, <2>6
<1>13. Go(n, Idle) \/ Go(n, x)
  BY <1>2, <1>4, <1>11, Zenon DEF RecoverOne
<1> QED
  BY <1>10, <1>12, <1>13

\* A main loop starts a live dispatch: no other may be at the run, or be going to.
LEMMA DispatchStep ==
  ASSUME Inv, LeasedStep, UNCHANGED <<term, leader, disk>>, Plain', OneTickPerTerm', NEW n \in Nodes,
         NEW l \in Loops, loop' = [loop EXCEPT ![n] = l], LoopOK(l)', l.out \subseteq loop[n].out,
         l.out # {} => l.t = loop[n].t,
         NEW x \in Dispatches, jobs' = [jobs EXCEPT ![n]["loop"] = x], JobOK(x)', x.run \in Runs,
         x.live => /\ runs'[x.run].lease
                   /\ \A m \in Nodes \ {n} : ~(jobs[m]["loop"].live /\ jobs[m]["loop"].run = x.run)
                   /\ runTerm'[x.run] = loop[n].t
  PROVE  StepOK
<1>1. LedgerStep
  BY DEF LedgerStep
<1>2. "loop" \in Kinds
  BY DEF Kinds
<1>3. LoopsOK' /\ JobsOK'
  BY <1>1, <1>2, LedgerFacts, LoopsMoved, JobsMoved, DiskUnchanged DEF Inv
<1>4. ASSUME NEW m \in Nodes
      PROVE  /\ loop'[m] = IF m = n THEN l ELSE loop[m]
             /\ jobs'[m]["loop"] = IF m = n THEN x ELSE jobs[m]["loop"]
  BY <1>2 DEF Inv, LoopsOK, JobsOK
<1>5. LiveHasLease'
  <2> SUFFICES ASSUME NEW m \in Nodes, jobs'[m]["loop"].live
               PROVE  runs'[jobs'[m]["loop"].run].lease
    BY DEF LiveHasLease
  <2>1. CASE m = n
    BY <1>4, <2>1
  <2>2. CASE m # n
    <3>1. jobs'[m]["loop"] = jobs[m]["loop"] /\ jobs[m]["loop"].live
      BY <1>4, <2>2
    <3>2. runs[jobs[m]["loop"].run].lease
      BY <3>1 DEF Inv, Race, LiveHasLease
    <3>3. jobs[m]["loop"].run \in Runs
      <4>1. JobOK(jobs[m]["loop"])
        BY <1>2 DEF Inv, JobsOK
      <4> QED
        BY <3>1, <4>1, NoJobOK DEF JobOK
    <3> QED
      BY <3>1, <3>2, <3>3, LeasesStay DEF Inv
  <2> QED
    BY <2>1, <2>2
<1>6. OneLoopPerRun'
  <2>1. OneLoopPerRun
    BY DEF Inv, Race
  <2> QED
    BY <1>4, <2>1 DEF OneLoopPerRun
<1>7. ClaimedAlone'
  <2> SUFFICES ASSUME NEW i \in Nodes, NEW m \in Nodes, NEW d \in loop'[i].out,
                      runTerm'[d[1]] = loop'[i].t, jobs'[m]["loop"].live, jobs'[m]["loop"].run = d[1]
               PROVE  i = m
    BY DEF ClaimedAlone
  <2>1. d \in loop[i].out /\ loop'[i].t = loop[i].t
    BY <1>4
  <2>2. runTerm[d[1]] = loop[i].t
    BY <1>1, <2>1, ClaimStood DEF Inv
  <2>3. CASE m # n
    BY <1>4, <2>1, <2>2, <2>3 DEF Inv, Race, ClaimedAlone
  <2>4. CASE m = n
    <3>1. d[1] = x.run /\ x.live
      BY <1>4, <2>4
    <3>2. loop[i].t = loop[n].t
      BY <2>1, <3>1
    <3>3. loop[i].t # 0
      BY <2>1 DEF Inv, LoopsOK, LoopOK
    <3> QED
      BY <2>4, <3>2, <3>3 DEF Inv, Race, OneTickPerTerm
  <2> QED
    BY <2>3, <2>4
<1> QED
  BY <1>1, <1>3, <1>5, <1>6, <1>7, DiskUnchanged DEF StepOK, Race

LEMMA RecoverDispatchStep ==
  ASSUME Inv, NEW n \in Nodes, RecoverDispatch(n)
  PROVE  StepOK
<1>1. UNCHANGED <<term, leader, policy, admitted, fires, runs, tasks, runTerm, due, memo, spec, disk, used>>
  BY DEF RecoverDispatch, raftVars, control, agentVars
<1>2. Plain' /\ Same
  BY <1>1 DEF Inv, Plain, Same
<1>3. LeasedStep /\ Ledger' /\ Grows /\ ClaimsGrow /\ Ledger
  BY <1>2, SameStep, LedgerFacts
<1>4. PICK k \in Loops : k = loop[n] /\ LoopOK(k)
  BY DEF Inv, LoopsOK
<1>5. PICK d \in k.out :
        /\ StartJob(n, "loop", d[1], d[2], k.t, runs[d[1]].lease /\ runTerm[d[1]] = k.t)
        /\ Go(n, [k EXCEPT !.out = @ \ {d}])
  BY <1>4 DEF RecoverDispatch
<1>6. PICK l : l = [k EXCEPT !.out = @ \ {d}]
  OBVIOUS
<1>7. /\ l \in Loops /\ l.out = k.out \ {d} /\ l.t = k.t /\ l.ids = k.ids /\ l.pc = k.pc /\ l.fire = k.fire
      /\ loop' = [loop EXCEPT ![n] = l]
  BY <1>5, <1>6 DEF Loops, Go
<1>8. LoopOK(l)'
  <2>1. LoopOK(k)'
    BY <1>3, <1>4, LoopOKKept
  <2> QED
    BY <1>7, <2>1 DEF LoopOK
<1>9. /\ d[1] \in Runs /\ k.t \in Terms
      /\ runs'[d[1]].status # "absent" /\ d[2] \subseteq DOMAIN runs'[d[1]].targets
  BY <1>1, <1>4, <1>5 DEF LoopOK, Loops
<1>10. PICK x : x = [run |-> d[1], term |-> k.t, live |-> (runs[d[1]].lease /\ runTerm[d[1]] = k.t),
                     todo |-> d[2], act |-> {}, ff |-> FALSE]
  OBVIOUS
<1>11. jobs' = [jobs EXCEPT ![n]["loop"] = x]
  BY <1>5, <1>10 DEF StartJob
<1>12. /\ x.run = d[1] /\ x.live = (runs[d[1]].lease /\ runTerm[d[1]] = k.t)
       /\ x \in Dispatches /\ JobOK(x)'
  <2>1. (runs[d[1]].lease /\ runTerm[d[1]] = k.t) \in BOOLEAN
    OBVIOUS
  <2>2. x.live = (runs[d[1]].lease /\ runTerm[d[1]] = k.t) /\ x.run = d[1]
    BY <1>10
  <2>3. x \in Dispatches /\ JobOK(x)'
    BY <1>3, <1>9, <1>10, <2>1, NewJob
  <2> QED
    BY <2>2, <2>3
<1>13. x.live => /\ runs'[x.run].lease
                 /\ \A m \in Nodes \ {n} : ~(jobs[m]["loop"].live /\ jobs[m]["loop"].run = x.run)
                 /\ runTerm'[x.run] = loop[n].t
  <2>1. ClaimedAlone
    BY DEF Inv, Race
  <2> QED
    BY <1>1, <1>4, <1>12, <2>1 DEF ClaimedAlone
<1>14. OneTickPerTerm'
  BY <1>1, <1>4, <1>7, SameTick
<1> QED
  BY <1>1, <1>2, <1>3, <1>4, <1>7, <1>8, <1>9, <1>11, <1>12, <1>13, <1>14, DispatchStep

\* Committing the claim of a fire creates its run or takes an expired one over.
LEMMA ClaimFireCommit ==
  ASSUME Inv, NEW f \in Fires, NEW ts \in Seq(Nodes), NEW rev \in Nat, NEW t \in Terms,
         ClaimAcquires(f, ts, rev, t), ClaimScheduledRun(f, ts, rev, t)
  PROVE  /\ LeasedStep /\ UNCHANGED <<policy, admitted>>
         /\ ~runs[f].lease \/ runs[f].status = "absent"
         /\ runs'[f].lease /\ runs'[f].status # "absent" /\ runTerm'[f] = t
         /\ runs'[f].targets = IF FirstClaim(f) THEN ts ELSE runs[f].targets
<1>1. f \in Runs
  BY RunsNotZero
<1>2. runs[f] \in RunRecords /\ fires[f] \in FireRecords /\ FireAgrees(f)
  BY <1>1, RowTypes, RowByRow DEF Inv, Ledger
<1>3. UNCHANGED <<policy, admitted>>
  BY DEF ClaimScheduledRun
<1>4. CASE FirstClaim(f)
  <2>1. runs[f].status = "absent"
    <3>1. FireWord(runs[f].status) = "none"
      BY <1>2, <1>4 DEF FirstClaim, FireAgrees
    <3>2. runs[f].status \in {"absent", "RUNNING", "SUCCEEDED", "PARTIAL", "FAILED"}
      BY <1>2 DEF RunRecords, RunStatus, TerminalRun
    <3> QED
      BY <3>1, <3>2 DEF FireWord
  <2>2. Creates(f, ts, rev, t)
    BY <1>4, <2>1 DEF ClaimScheduledRun, CreateRun, Creates
  <2>3. runs'[f].lease /\ runs'[f].status # "absent" /\ runTerm'[f] = t /\ runs'[f].targets = ts
    BY <1>1, <2>2 DEF Creates, Inv, Ledger
  <2> QED
    BY <1>1, <1>3, <1>4, <2>1, <2>2, <2>3 DEF LeasedStep
<1>5. CASE ~FirstClaim(f)
  <2>1. runs[f].status \notin TerminalRun /\ ~runs[f].lease /\ t > fires[f].term
    BY <1>5 DEF ClaimAcquires, Claimable
  <2>2. runs[f].status = "RUNNING"
    BY <1>2, <1>5, <2>1, Words DEF FirstClaim, FireAgrees, FireWord, RunRecords, RunStatus
  <2>3. Takes(f, t)
    BY <1>5, <2>1, <2>2 DEF ClaimScheduledRun, Takes, Claimed
  <2>4. /\ runs'[f].lease /\ runs'[f].status # "absent" /\ runTerm'[f] = t
        /\ runs'[f].targets = runs[f].targets
    BY <1>1, <2>2, <2>3 DEF Takes, Inv, Ledger, RunRecords
  <2> QED
    BY <1>1, <1>3, <1>5, <2>1, <2>3, <2>4 DEF LeasedStep
<1> QED
  BY <1>4, <1>5

LEMMA ClaimFireStep ==
  ASSUME Inv, NEW n \in Nodes, ClaimFire(n)
  PROVE  StepOK
<1>1. UNCHANGED <<term, leader, due, spec, disk>>
  BY DEF ClaimFire, raftVars, agentVars
<1>2. PICK l \in Loops : l = loop[n] /\ LoopOK(l)
  BY DEF Inv, LoopsOK
<1>3. l.fire \in Fires /\ l.t \in Terms /\ l.view \in Seq(Nodes) /\ l.rev \in Nat
  BY <1>2 DEF ClaimFire, LoopOK, Loops
<1>4. l.fire \in Runs
  BY <1>3, RunsNotZero
<1>5. used' \in Nat
  <2>1. used' = used \/ used' = used + 1
    BY Zenon DEF ClaimFire, Spend
  <2> QED
    BY <2>1 DEF Inv, Plain
<1>6. \/ UNCHANGED control
      \/ ClaimAcquires(l.fire, l.view, l.rev, l.t) /\ ClaimScheduledRun(l.fire, l.view, l.rev, l.t)
  BY <1>2, Zenon DEF ClaimFire
<1>7. LeasedStep /\ UNCHANGED <<policy, admitted>>
  <2>1. CASE UNCHANGED control
    BY <2>1, SameStep DEF control, Same
  <2> QED
    BY <1>3, <1>6, <2>1, ClaimFireCommit
<1>8. CASE Go(n, Idle) /\ UNCHANGED <<memo, jobs>>
  <2>1. Plain'
    BY <1>1, <1>5, <1>7, <1>8 DEF Inv, Plain
  <2> QED
    BY <1>1, <1>7, <1>8, <2>1, BackToIdle
<1>9. PICK places :
        places = DOMAIN (IF FirstClaim(l.fire) THEN l.view ELSE runs[l.fire].targets)
  OBVIOUS
<1>10. CASE /\ ClaimAcquires(l.fire, l.view, l.rev, l.t) /\ ClaimScheduledRun(l.fire, l.view, l.rev, l.t)
            /\ memo' = [memo EXCEPT ![n][l.fire] = l.t]
            /\ StartJob(n, "loop", l.fire, places, l.t, TRUE)
            /\ Go(n, [Idle EXCEPT !.pc = "wait"])
  <2>1. /\ ~runs[l.fire].lease \/ runs[l.fire].status = "absent"
        /\ runs'[l.fire].lease /\ runs'[l.fire].status # "absent" /\ runTerm'[l.fire] = l.t
        /\ runs'[l.fire].targets = IF FirstClaim(l.fire) THEN l.view ELSE runs[l.fire].targets
    BY <1>3, <1>10, ClaimFireCommit
  <2>2. memo' \in [Nodes -> [Fires -> Terms]]
    BY <1>3, <1>10 DEF Inv, Plain
  <2>3. Plain' /\ Ledger'
    BY <1>1, <1>5, <1>7, <2>2, LedgerFacts DEF Inv, Plain, LedgerStep
  <2>4. PICK x : x = [run |-> l.fire, term |-> l.t, live |-> TRUE, todo |-> places, act |-> {}, ff |-> FALSE]
    OBVIOUS
  <2>5. jobs' = [jobs EXCEPT ![n]["loop"] = x] /\ x.run = l.fire
    BY <1>10, <2>4 DEF StartJob
  <2>6. x \in Dispatches /\ JobOK(x)'
    <3>1. places \subseteq DOMAIN runs'[l.fire].targets
      BY <1>9, <2>1
    <3> QED
      BY <1>3, <1>4, <2>1, <2>3, <2>4, <3>1, NewJob
  <2>7. PICK k : k = [Idle EXCEPT !.pc = "wait"]
    OBVIOUS
  <2>8. k \in Loops /\ k.t = 0 /\ k.out = {} /\ k.ids = {} /\ k.pc = "wait"
    BY <2>7, IdleOK DEF Idle, Loops
  <2>9. loop' = [loop EXCEPT ![n] = k] /\ LoopOK(k)'
    BY <1>10, <2>7, <2>8 DEF Go, LoopOK
  <2>10. OneTickPerTerm'
    BY <1>1, <2>8, <2>9, SameTick
  <2>11. \A m \in Nodes \ {n} : ~(jobs[m]["loop"].live /\ jobs[m]["loop"].run = x.run)
    BY <1>4, <2>1, <2>5, NoLiveDispatch
  <2> QED
    BY <1>1, <1>2, <1>4, <1>7, <2>1, <2>3, <2>5, <2>6, <2>8, <2>9, <2>10, <2>11, DispatchStep
<1> QED
  BY <1>2, <1>8, <1>9, <1>10, Zenon DEF ClaimFire

-----------------------------------------------------------------------------
(* The theorems. *)

LEMMA InitInv ==
  ASSUME Init
  PROVE  Inv
<1>1. Plain
  <2>1. term \in Terms \ {0} /\ leader \in Nodes
    <3>1. ById[Nodes] \in Seq(Nodes) /\ ToSet(ById[Nodes]) = Nodes /\ Nodes # {}
      BY BackupConstants DEF BackupConstants
    <3>2. ById[Nodes] # << >>
      BY <3>1, NoTargets
    <3>3. Head(ById[Nodes]) \in Nodes
      BY <3>1, <3>2
    <3> QED
      BY <3>3, TermsAreNats DEF Init
  <2>2. policy \in [sel : {"EXPLICIT", "GROUP", "ALL"}, ids : Seq(Nodes), rev : Nat]
    <3>1. PICK p \in Policies : policy = [sel |-> p.sel, ids |-> p.ids, rev |-> 1]
      BY DEF Init
    <3>2. p.sel \in {"EXPLICIT", "GROUP", "ALL"} /\ p.ids \in Seq(Nodes)
      BY BackupConstants DEF BackupConstants, Selections
    <3> QED
      BY <3>1, <3>2
  <2> QED
    BY <2>1, <2>2, TermsAreNats DEF Init, Plain
<1>2. Ledger
  <2>1. NoRun \in RunRecords /\ NoRun.status = "absent" /\ NoRun.targets = << >>
    <3>1. << >> \in Seq(Nodes)
      OBVIOUS
    <3> QED
      BY <3>1, NoCountType DEF NoRun, RunRecords
  <2>2. NoTask \in TaskRecords /\ NoTask.st = "none"
    BY TermsAreNats DEF NoTask, TaskRecords
  <2>3. /\ runs = [r \in Runs |-> NoRun] /\ tasks = [r \in Runs |-> [n \in Nodes |-> NoTask]]
        /\ runTerm = [r \in Runs |-> 0] /\ fires = [f \in Fires |-> [status |-> "none", term |-> 0]]
    BY DEF Init
  <2>4. /\ runs \in [Runs -> RunRecords] /\ tasks \in [Runs -> [Nodes -> TaskRecords]]
        /\ runTerm \in [Runs -> Terms]
    BY <2>1, <2>2, <2>3, TermsAreNats
  <2>5. fires \in [Fires -> FireRecords]
    BY <2>3, TermsAreNats DEF FireRecords
  <2>6. BlankUntilCreated /\ TasksOfTargets
    BY <2>1, <2>2, <2>3 DEF BlankUntilCreated, TasksOfTargets
  <2>7. LedgerAgrees
    <3>1. ASSUME NEW r \in Runs PROVE EndAddsUp(r) /\ FireAgrees(r)
      BY <2>1, <2>3 DEF EndAddsUp, FireAgrees, FireWord, TerminalRun
    <3> QED
      BY <3>1, RowByRow
  <2> QED
    BY <2>4, <2>5, <2>6, <2>7 DEF Ledger
<1>3. LoopsOK
  BY IdleOK DEF Init, LoopsOK
<1>4. JobsOK
  BY NoJobOK DEF Init, JobsOK
<1>5. SuccessIsBacked
  BY DEF Init, SuccessIsBacked, NoTask
<1>6. Race
  <2>1. \A n \in Nodes : loop[n] = Idle /\ jobs[n]["loop"] = NoJob
    BY DEF Init, Kinds
  <2>2. term = 1
    BY DEF Init
  <2>3. OneTickPerTerm
    BY <2>1, <2>2, IdleOK DEF OneTickPerTerm
  <2>4. LiveHasLease /\ ClaimedAlone /\ OneLoopPerRun
    BY <2>1, IdleOK, NoJobOK DEF LiveHasLease, ClaimedAlone, OneLoopPerRun
  <2> QED
    BY <2>3, <2>4 DEF Race
<1> QED
  BY <1>1, <1>2, <1>3, <1>4, <1>5, <1>6 DEF Inv

LEMMA LoopsStep ==
  ASSUME Inv, NEW n \in Nodes, LoopStep(n)
  PROVE  StepOK
BY TickBeginStep, RecoverDispatchStep, ReadPoliciesStep, ClaimFireStep, TickEndStep, RecoverOneStep
   DEF LoopStep

LEMMA JobsStep ==
  ASSUME Inv, NEW n \in Nodes, NEW k \in Kinds, JobStep(n, k)
  PROVE  StepOK
BY TakeStep, CancelNextStep, SkipStep, CallStep, PersistStep, FallbackStep DEF JobStep

LEMMA NextStep ==
  ASSUME Inv, Next
  PROVE  StepOK
<1>1. ASSUME NEW n \in Nodes, LoopStep(n) \/ Elect(n) \/ Crash(n) \/ EditSpec(n) \/ RemoveMember(n)
      PROVE  StepOK
  BY <1>1, LoopsStep, ElectStep, CrashStep, EditSpecStep, PolicyStep
<1>2. ASSUME NEW n \in Nodes, NEW k \in Kinds, JobStep(n, k) \/ ExpireJob(n, k)
      PROVE  StepOK
  BY <1>2, JobsStep, ExpireJobStep
<1>3. ASSUME NEW r \in Runs, RetryRun(r) \/ RetryRunLost(r) \/ ExpireRun(r)
      PROVE  StepOK
  BY <1>3, RetryRunStep, RetryRunLostStep, ExpireRunStep
<1> QED
  BY <1>1, <1>2, <1>3, StartRunStep, PolicyStep, NextFireStep DEF Next

LEMMA StepKeepsInv ==
  ASSUME Inv, StepOK
  PROVE  Inv'
<1>1. Ledger' /\ SuccessIsBacked'
  BY LedgerKept, BackedKept DEF Inv, StepOK
<1> QED
  BY <1>1 DEF Inv, StepOK

LEMMA StutterKeepsInv ==
  ASSUME Inv, UNCHANGED vars
  PROVE  StepOK
<1>1. UNCHANGED <<term, leader, policy, admitted, fires, runs, tasks, runTerm, due, memo, loop, jobs,
                  spec, disk, used>>
  BY DEF vars, control
<1>2. Plain' /\ Same
  BY <1>1 DEF Inv, Plain, Same
<1> QED
  BY <1>1, <1>2, SameStep, DiskUnchanged, TicksUnchanged, QuietStep

LEMMA Invariance == Spec => []Inv
<1>1. Init => Inv
  BY InitInv
<1>2. Inv /\ [Next]_vars => Inv'
  BY NextStep, StutterKeepsInv, StepKeepsInv
<1> QED
  BY <1>1, <1>2, PTL DEF Spec

\* The committed records and what every agent's main loop, dispatches and
\* workers carry are well typed.
THEOREM BackupTypeCorrect == Spec => []TypeOK
<1>1. Inv => TypeOK
  BY DEF Inv, Plain, Ledger, LoopsOK, JobsOK, TypeOK
<1> QED
  BY <1>1, Invariance, PTL

\* Runs, tasks and the ledger of fires agree: a run has ended only when every
\* target has, with the status and counters their ends add up to, and its fire
\* says the same (aggregateTerminalRun, syncBackupFire).
THEOREM LedgersAgree == Spec => []LedgerAgrees
<1>1. Inv => LedgerAgrees
  BY DEF Inv, Ledger
<1> QED
  BY <1>1, Invariance, PTL

\* A target recorded as done has the recorded snapshot on its disk, for any
\* number of lost answers, repeated calls, takeovers and retries.
THEOREM SuccessesAreBacked == Spec => []SuccessIsBacked
<1>1. Inv => SuccessIsBacked
  BY DEF Inv
<1> QED
  BY <1>1, Invariance, PTL

\* No run is ever in the hands of two main loops whose leases are live: a claim
\* needs the run's lease to have run out and a newer term (ClaimRun,
\* ClaimScheduledRun), and a Tick dispatches what it claimed only while its term
\* still owns the run.
THEOREM OneLoopWorksOnARun == Spec => []OneLoopPerRun
<1>1. Inv => OneLoopPerRun
  BY DEF Inv, Race
<1> QED
  BY <1>1, Invariance, PTL

\* What a leader of an older term still writes: nothing but what the run's owner
\* could have (applyUpdateTask, ClaimScheduledRun, RetryFailedTasks).
THEOREM DeposedLeadersWriteNothing == Spec => DeposedWriteNothing
<1>1. ASSUME Inv, StepOK, NEW r \in Runs
      PROVE  /\ runs[r].status # "absent" => runs'[r].targets = runs[r].targets
             /\ \A n \in Nodes : tasks'[r][n] # tasks[r][n] => tasks'[r][n].term = runTerm'[r]
             /\ r \in Fires => fires'[r].term >= fires[r].term
             /\ runTerm'[r] < runTerm[r] =>
                  /\ r \in Fires /\ ~runs[r].lease /\ fires'[r].term > fires[r].term
                  /\ tasks'[r] = tasks[r]
  <2>1. RowMoves(r)
    BY <1>1, LedgerMoves DEF Inv, StepOK
  <2>2. r \in Fires => Claimed(r) = fires[r].term /\ Claimed(r)' = fires'[r].term
    BY DEF Claimed
  <2> QED
    BY <2>1, <2>2 DEF RowMoves
<1>2. Inv /\ [Next]_vars =>
        [\A r \in Runs :
           /\ runs[r].status # "absent" => runs'[r].targets = runs[r].targets
           /\ \A n \in Nodes : tasks'[r][n] # tasks[r][n] => tasks'[r][n].term = runTerm'[r]
           /\ r \in Fires => fires'[r].term >= fires[r].term
           /\ runTerm'[r] < runTerm[r] =>
                /\ r \in Fires /\ ~runs[r].lease /\ fires'[r].term > fires[r].term
                /\ tasks'[r] = tasks[r]]_vars
  BY <1>1, NextStep, StutterKeepsInv
<1> QED
  BY <1>2, Invariance, PTL DEF Spec, DeposedWriteNothing

\* Every backup run refines RunPromise: it opens once with its targets frozen, a
\* good report is final, and the verdict is what the reports add up to.
THEOREM BackupKeepsPromise == Spec => KeepsPromise
<1>1. Init => Promise!Init
  BY NoTargets DEF Init, Promise!Init, NoRun, NoTask, ReportOf, RetryableTask, Targets
<1>2. Inv /\ [Next]_vars => [Promise!Next]_(Promise!vars)
  BY NextStep, StutterKeepsInv, LedgerKeepsPromise DEF Inv, StepOK
<1> QED
  BY <1>1, <1>2, Invariance, PTL DEF Spec, KeepsPromise, Promise!Spec
=============================================================================
