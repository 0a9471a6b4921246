--------------------------- MODULE ClusterBackup ----------------------------
(***************************************************************************)
(* Cluster backup runs: the committed control.State (policy, fire ledger,  *)
(* runs, tasks and the term that owns each run), the Coordinator every     *)
(* agent runs in its main loop, the API's StartRun and RetryFailedTasks,   *)
(* the dispatch goroutines, and the agents that take the snapshots.        *)
(*                                                                         *)
(* Raft is external: one committed state, a leader whose Apply commits,    *)
(* followers that learn of a new term later. A command may also be         *)
(* committed and still be reported to its caller as failed. Time is left   *)
(* out: a lease is live until it is not, and the leases a dispatch holds   *)
(* run out no later than the run's own.                                    *)
(***************************************************************************)
EXTENDS RunLedger, Sequences, SequencesExt

CONSTANTS
  Nodes,           \* admitted agents
  ById,            \* ById[S]: the agents of S in the order of their ids
  Group,           \* members of the agent group a policy may select
  Fires,           \* scheduled fires, numbered 1..n; a fire's run has its number
  Manual,          \* runs StartRun may create
  Policies,        \* [sel, ids] an operator may store
  FailFast,        \* unavailable_policy is FAIL_FAST
  Limit,           \* max_concurrency, at least 1
  Results,         \* how a backup may end on its agent besides SUCCESS
  MaxTerm,         \* bound: elections
  Events,          \* of "crash" (an agent stops), "fault" (a command's caller is
                   \* told it failed), "lost" (a call to an agent does not come
                   \* back), "edit" (of policy, members or specs), "retry"
  MaxEvents,       \* bound: events in a behaviour
  MaxRuns,         \* bound: runs in a behaviour
  None

Runs == Fires \cup Manual
Kinds == {"loop", "api"}  \* dispatches of the main loop; of an API request
Selections == [sel : {"EXPLICIT", "GROUP", "ALL"}, ids : Seq(Nodes)]

ASSUME BackupConstants ==
  /\ IsFiniteSet(Nodes) /\ Nodes # {} /\ None \notin Nodes
  /\ ById \in [SUBSET Nodes -> Seq(Nodes)] /\ \A S \in SUBSET Nodes : ToSet(ById[S]) = S
  /\ Group \subseteq Nodes
  /\ Fires \subseteq Nat \ {0} /\ 0 \notin Manual /\ Fires \cap Manual = {}
  /\ Policies \subseteq Selections
  /\ Limit \in Nat \ {0} /\ FailFast \in BOOLEAN
  /\ Results \subseteq RetryableTask
  /\ MaxTerm \in Nat \ {0} /\ MaxEvents \in Nat

VARIABLES
  \* --- raft ---------------------------------------------------------------
  term, leader,  \* the latest term and its leader, None while there is none
  \* --- control.State --------------------------------------------------------
  policy,        \* the backup policy [sel, ids, rev], rev = 0 when deleted
  admitted,
  fires,         \* fires[f]: ledger entry [status, term]
  runs,          \* runs[r]: [status, rev, targets, lease, count]
  tasks,         \* tasks[r][n]: [st, term, snap]
  runTerm,       \* BackupRunTerms
  \* --- agents ---------------------------------------------------------------
  due,           \* the latest fire that is not in the future, 0 if none
  memo,          \* memo[n]: Coordinator.dispatch, the term per fire
  loop,          \* loop[n]: where agent n's Tick is
  jobs,          \* jobs[n][k]: a dispatchFrozenTargets in progress
  spec,          \* spec[n]: version of n's process specs
  disk,          \* disk[r][n]: version n's backup index holds for run r
  used           \* events so far

control == <<policy, admitted, fires, runs, tasks, runTerm>>
vars == <<term, leader, control, due, memo, loop, jobs, spec, disk, used>>

NoTask == [st |-> "none", term |-> 0, snap |-> 0]
NoRun == [status |-> "absent", rev |-> 0, targets |-> << >>, lease |-> FALSE, count |-> NoCount]
NoJob == [run |-> 0, term |-> 0, live |-> FALSE, todo |-> {}, act |-> {}, ff |-> FALSE]
Idle == [pc |-> "idle", t |-> 0, fire |-> 0, ids |-> {}, out |-> {}, view |-> << >>, rev |-> 0]

Budget(e) == e \in Events /\ used < MaxEvents
Spend(e) == Budget(e) /\ used' = used + 1
Opened == due + Cardinality({r \in Manual : runs[r].status # "absent"})

Init ==
  /\ term = 1 /\ leader = Head(ById[Nodes])
  /\ \E p \in Policies : policy = [sel |-> p.sel, ids |-> p.ids, rev |-> 1]
  /\ admitted = Nodes
  /\ fires = [f \in Fires |-> [status |-> "none", term |-> 0]]
  /\ runs = [r \in Runs |-> NoRun]
  /\ tasks = [r \in Runs |-> [n \in Nodes |-> NoTask]]
  /\ runTerm = [r \in Runs |-> 0]
  /\ due = 0
  /\ memo = [n \in Nodes |-> [f \in Fires |-> 0]]
  /\ loop = [n \in Nodes |-> Idle]
  /\ jobs = [n \in Nodes |-> [k \in Kinds |-> NoJob]]
  /\ spec = [n \in Nodes |-> 1]
  /\ disk = [r \in Runs |-> [n \in Nodes |-> 0]]
  /\ used = 0

-----------------------------------------------------------------------------
(* Targets. *)

Targets(r) == ToSet(runs[r].targets)
TaskStatuses(r) == [n \in Nodes |-> tasks[r][n].st]
\* The places, in the run's list of targets, of those with a status in S.
Places(r, S) == {i \in DOMAIN runs[r].targets : tasks[r][runs[r].targets[i]].st \in S}

\* resolveBackupTargets: explicit ids as stored, the rest by id.
Resolve(p) ==
  CASE p.sel = "EXPLICIT" -> p.ids
    [] p.sel = "GROUP"    -> ById[Group \cap admitted]
    [] p.sel = "ALL"      -> ById[admitted]

\* validateRunTargets: explicit ids are compared in their stored order.
ValidTargets(ts) ==
  IF policy.sel = "EXPLICIT" THEN ts = policy.ids ELSE ToSet(ts) = ToSet(Resolve(policy))

\* Mutant: a target nobody has reported for is not unfinished.
UnfinishedReported(r) == Places(r, {"PENDING", "RUNNING"})
\* unfinishedBackupTargets
Unfinished(r) == Places(r, {"none", "PENDING", "RUNNING"})

-----------------------------------------------------------------------------
(* Commands of the replicated state machine: what committing one does.     *)

\* syncBackupFire, for a run that a fire created.
Synced(r, t, s) ==
  IF r \notin Fires \/ fires[r].status = "none" THEN fires
  ELSE [fires EXCEPT ![r] = [status |-> s, term |-> IF t > @.term THEN t ELSE @.term]]

Newer(r, t) == [runTerm EXCEPT ![r] = IF t > @ THEN t ELSE @]

\* applyCreateRun, for a run that does not exist.
CreateRunOK(ts, rev) == policy.rev # 0 /\ rev = policy.rev /\ ValidTargets(ts)

CreateRun(r, ts, rev, t) ==
  /\ runs' = [runs EXCEPT ![r] = [status |-> "RUNNING", rev |-> rev, targets |-> ts,
                                  lease |-> TRUE, count |-> NoCount]]
  /\ runTerm' = [runTerm EXCEPT ![r] = t]

\* ClaimScheduledRun: a first claim creates ledger entry and run together; a
\* later one takes over from an older term whose lease has run out.
FirstClaim(f) == fires[f].status = "none"
\* Mutant: a newer term does not wait for the lease.
ClaimableLeased(f, t) == runs[f].status \notin TerminalRun /\ t > fires[f].term
Claimable(f, t) ==
  runs[f].status \notin TerminalRun /\ ~runs[f].lease /\ t > fires[f].term
ClaimAcquires(f, ts, rev, t) ==
  IF FirstClaim(f) THEN CreateRunOK(ts, rev) ELSE Claimable(f, t)

ClaimScheduledRun(f, ts, rev, t) ==
  /\ fires' = [fires EXCEPT ![f] = [status |-> "CLAIMED", term |-> t]]
  /\ IF FirstClaim(f) THEN CreateRun(f, ts, rev, t)
     ELSE /\ runs' = [runs EXCEPT ![f].lease = TRUE]
          /\ runTerm' = [runTerm EXCEPT ![f] = t]
  /\ UNCHANGED <<policy, admitted, tasks>>

\* ClaimRun
RunClaimable(r, t) == runs[r].status \notin TerminalRun /\ ~runs[r].lease /\ t > runTerm[r]

ClaimRun(r, t) ==
  /\ runs' = [runs EXCEPT ![r].lease = TRUE]
  /\ runTerm' = [runTerm EXCEPT ![r] = t]
  /\ fires' = Synced(r, t, "CLAIMED")
  /\ UNCHANGED <<policy, admitted, tasks>>

\* Mutant: the terms are not compared.
StaleNever(r, n, t) == FALSE
\* applyUpdateTask: refused to an older term than the run's or the task's.
StaleTask(r, n, t) == runTerm[r] > t \/ tasks[r][n].term > t

\* Mutant: the end of the run does not reach its fire.
UpdateTaskFireLost(r, n, s, v, t) ==
  IF tasks[r][n].st \in TerminalTask THEN UNCHANGED control
  ELSE /\ tasks' = [tasks EXCEPT ![r][n] = [st |-> s, term |-> t, snap |-> v]]
       /\ runTerm' = Newer(r, t)
       /\ runs' = [runs EXCEPT ![r] = Aggregated(@, [TaskStatuses(r) EXCEPT ![n] = s], Targets(r))]
       /\ UNCHANGED <<policy, admitted, fires>>
UpdateTask(r, n, s, v, t) ==
  IF tasks[r][n].st \in TerminalTask THEN UNCHANGED control
  ELSE /\ tasks' = [tasks EXCEPT ![r][n] = [st |-> s, term |-> t, snap |-> v]]
       /\ runTerm' = Newer(r, t)
       /\ LET run == Aggregated(runs[r], [TaskStatuses(r) EXCEPT ![n] = s], Targets(r)) IN
            /\ runs' = [runs EXCEPT ![r] = run]
            /\ fires' = IF run.status \in TerminalRun THEN Synced(r, t, run.status) ELSE fires
       /\ UNCHANGED <<policy, admitted>>

\* Mutant: what succeeded is retried as well.
RetryEndedTasks(r, t) ==
  /\ tasks' = [tasks EXCEPT ![r] = [n \in Nodes |->
       IF @[n].st \in TerminalTask THEN [st |-> "PENDING", term |-> t, snap |-> 0] ELSE @[n]]]
  /\ runs' = [runs EXCEPT ![r] = [@ EXCEPT !.status = "RUNNING", !.lease = TRUE, !.count = NoCount]]
  /\ fires' = Synced(r, t, "CLAIMED")
  /\ runTerm' = Newer(r, t)
  /\ UNCHANGED <<policy, admitted>>
\* applyRetryFailedTasks: the run's term moves on even if nothing is retried.
RetryFailedTasks(r, t) ==
  LET failed == {n \in Nodes : tasks[r][n].st \in RetryableTask} IN
    /\ tasks' = [tasks EXCEPT ![r] =
         [n \in Nodes |-> IF n \in failed THEN [st |-> "PENDING", term |-> t, snap |-> 0] ELSE @[n]]]
    /\ IF failed = {} THEN UNCHANGED <<runs, fires>>
       ELSE /\ runs' = [runs EXCEPT ![r] = [@ EXCEPT !.status = "RUNNING", !.lease = TRUE,
                                                     !.count = NoCount]]
            /\ fires' = Synced(r, t, "CLAIMED")
    /\ runTerm' = Newer(r, t)
    /\ UNCHANGED <<policy, admitted>>

-----------------------------------------------------------------------------
(* Coordinator.Tick on agent n: claim expired runs of older terms and      *)
(* dispatch them one after the other, then claim the due fire.             *)

raftVars == <<term, leader>>
agentVars == <<spec, disk>>

Recoverable(t) == {r \in Runs : runs[r].status = "RUNNING" /\ ~runs[r].lease /\ runTerm[r] < t}
Free(n, k) == jobs[n][k] = NoJob
\* A dispatch of the targets at the places in the run's list of them.
StartJob(n, k, r, places, t, live) ==
  jobs' = [jobs EXCEPT ![n][k] = [run |-> r, term |-> t, live |-> live,
                                  todo |-> places, act |-> {}, ff |-> FALSE]]
Go(n, rec) == loop' = [loop EXCEPT ![n] = rec]

TickBegin(n) ==
  /\ loop[n].pc = "idle" /\ leader = n /\ Free(n, "loop")
  /\ Recoverable(term) # {} \/ (policy.rev # 0 /\ due # 0 /\ memo[n][due] # term)
  /\ Go(n, [Idle EXCEPT !.pc = "recover", !.t = term, !.fire = due, !.ids = Recoverable(term)])
  /\ UNCHANGED <<raftVars, control, due, memo, jobs, agentVars, used>>

\* One ClaimRun of ClaimRecoverableRuns. An error ends the Tick and drops the
\* runs it has claimed already.
RecoverOne(n, r) ==
  LET l == loop[n]
      claims == RunClaimable(r, l.t)
      todo == Unfinished(r)
      next == [l EXCEPT !.ids = @ \ {r},
                        !.out = IF claims /\ todo # {} THEN @ \cup {<<r, todo>>} ELSE @]
  IN
  /\ l.pc = "recover" /\ r \in l.ids
  /\ \/ /\ leader = n
        /\ Go(n, next)
        /\ IF claims THEN ClaimRun(r, l.t) ELSE UNCHANGED control
        /\ UNCHANGED used
     \/ /\ leader # n
        /\ Go(n, Idle)
        /\ UNCHANGED <<control, used>>
     \/ /\ leader = n /\ Spend("fault")
        /\ Go(n, Idle)
        /\ \/ claims /\ ClaimRun(r, l.t)
           \/ UNCHANGED control
  /\ UNCHANGED <<raftVars, due, memo, jobs, agentVars>>

\* A dispatch has the lease of its claim, which may have run out by now.
RecoverDispatch(n) ==
  /\ loop[n].pc = "recover" /\ loop[n].ids = {} /\ Free(n, "loop")
  /\ \E d \in loop[n].out :
       /\ StartJob(n, "loop", d[1], d[2], loop[n].t,
                   runs[d[1]].lease /\ runTerm[d[1]] = loop[n].t)
       /\ Go(n, [loop[n] EXCEPT !.out = @ \ {d}])
  /\ UNCHANGED <<raftVars, control, due, memo, agentVars, used>>

\* ListEnabledBackupPolicies, and the fire the Tick found when it began.
ReadPolicies(n) ==
  LET l == loop[n] IN
  /\ l.pc = "recover" /\ l.ids = {} /\ l.out = {} /\ Free(n, "loop")
  /\ IF policy.rev = 0 \/ l.fire = 0 \/ memo[n][l.fire] = l.t THEN Go(n, Idle)
     ELSE Go(n, [l EXCEPT !.pc = "claim", !.rev = policy.rev,
                          !.view = ById[ToSet(Resolve(policy))]])
  /\ UNCHANGED <<raftVars, control, due, memo, jobs, agentVars, used>>

ClaimFire(n) ==
  LET l == loop[n]
      acquires == ClaimAcquires(l.fire, l.view, l.rev, l.t)
      frozen == IF FirstClaim(l.fire) THEN l.view ELSE runs[l.fire].targets
  IN
  /\ l.pc = "claim"
  /\ \/ /\ leader = n /\ acquires
        /\ ClaimScheduledRun(l.fire, l.view, l.rev, l.t)
        /\ memo' = [memo EXCEPT ![n][l.fire] = l.t]
        /\ StartJob(n, "loop", l.fire, DOMAIN frozen, l.t, TRUE)
        /\ Go(n, [Idle EXCEPT !.pc = "wait"])
        /\ UNCHANGED used
     \/ /\ leader # n \/ ~acquires
        /\ Go(n, Idle)
        /\ UNCHANGED <<control, memo, jobs, used>>
     \/ /\ leader = n /\ Spend("fault")
        /\ Go(n, Idle)
        /\ \/ acquires /\ ClaimScheduledRun(l.fire, l.view, l.rev, l.t)
           \/ UNCHANGED control
        /\ UNCHANGED <<memo, jobs>>
  /\ UNCHANGED <<raftVars, due, agentVars>>

TickEnd(n) ==
  /\ loop[n].pc = "wait" /\ Free(n, "loop") /\ Go(n, Idle)
  /\ UNCHANGED <<raftVars, control, due, memo, jobs, agentVars, used>>

-----------------------------------------------------------------------------
(* dispatchFrozenTargets: job k of agent n, a goroutine per target.        *)

loopVars == <<due, memo, loop>>
Worker(m, pc, s, v) == [n |-> m, pc |-> pc, st |-> s, snap |-> v]
Done(j) == j.todo = {} /\ j.act = {}
At(j, i) == runs[j.run].targets[i]
Foremost(j, i) == \A h \in j.todo : i <= h  \* targets are taken in their order
Ends(s) == s # "SUCCESS" /\ FailFast  \* markFailFast

\* The job after worker w moved on to the workers W, or failed fast.
Moved(j, w, W, ff) ==
  LET next == [j EXCEPT !.act = (@ \ {w}) \cup W, !.ff = @ \/ ff]
  IN IF Done(next) THEN NoJob ELSE next
SetJob(n, k, j) == jobs' = [jobs EXCEPT ![n][k] = j]

\* statusAfterCancel
CanceledStatus(j) == IF ~j.live THEN "TIMEOUT" ELSE "SKIPPED"

\* A command of agent n that writes a task; ok says what its caller is told.
WriteTask(n, r, m, s, v, t, ok) ==
  \/ /\ ok /\ leader = n /\ ~StaleTask(r, m, t)
     /\ UpdateTask(r, m, s, v, t)
     /\ UNCHANGED used
  \/ /\ ~ok /\ (leader # n \/ StaleTask(r, m, t))
     /\ UNCHANGED <<control, used>>
  \/ /\ ~ok /\ leader = n /\ Spend("fault")
     /\ \/ ~StaleTask(r, m, t) /\ UpdateTask(r, m, s, v, t)
        \/ UNCHANGED control

Take(n, k) ==
  LET j == jobs[n][k] IN
  /\ j.live /\ ~j.ff /\ Cardinality(j.act) < Limit
  /\ \E i \in j.todo :
       /\ Foremost(j, i)
       /\ SetJob(n, k, [j EXCEPT !.todo = @ \ {i},
                                 !.act = @ \cup {Worker(At(j, i), "call", "none", 0)}])
  /\ UNCHANGED <<raftVars, control, loopVars, agentVars, used>>

\* updateCanceled, for the next of the targets the loop will not start.
CancelNext(n, k) ==
  LET j == jobs[n][k] IN
  /\ ~j.live \/ j.ff
  /\ \E i \in j.todo, ok \in BOOLEAN :
       /\ Foremost(j, i)
       /\ WriteTask(n, j.run, At(j, i), CanceledStatus(j), 0, j.term, ok)
       /\ SetJob(n, k, LET next == [j EXCEPT !.todo = @ \ {i}] IN IF Done(next) THEN NoJob ELSE next)
  /\ UNCHANGED <<raftVars, loopVars, agentVars>>

\* authorizeClusterBackupTask on the target, which an agent does not ask of
\* itself. A follower decides by its own copy of term, members and policy,
\* which may be older than the committed one; a leader's is not.
Current(j, m) == j.term = term /\ m \in admitted /\ policy.rev = runs[j.run].rev
Accepts(n, j, m) == m = n \/ (j.live /\ (leader = m => Current(j, m)))
Refuses(n, j, m) == m # n /\ ~(j.live /\ Current(j, m) /\ (leader = m \/ term = 1))

\* Mutant: a repeated task answers for the specs as they are now.
RunTaskUnchecked(r, m, s, v) ==
  IF disk[r][m] # 0
  THEN s = "SUCCESS" /\ v = spec[m] /\ UNCHANGED disk
  ELSE /\ s = "SUCCESS" /\ v = spec[m]
       /\ disk' = [disk EXCEPT ![r][m] = spec[m]]
\* RunClusterTask: a repeated task answers with the snapshot it has, unless
\* the specs have changed since.
RunTask(r, m, s, v) ==
  IF disk[r][m] # 0
  THEN /\ IF disk[r][m] = spec[m]
          THEN s \in {"SUCCESS", "RETENTION_FAILED"} /\ s \in Results \cup {"SUCCESS"}
          ELSE s = "FAILED"
       /\ v = IF disk[r][m] = spec[m] THEN spec[m] ELSE 0
       /\ UNCHANGED disk
  ELSE \/ /\ s \in {"SUCCESS"} \cup (Results \cap {"RETENTION_FAILED"}) /\ v = spec[m]
          /\ disk' = [disk EXCEPT ![r][m] = spec[m]]
       \/ /\ s \in Results \cap {"FAILED", "CONFIG_MISSING"} /\ v = 0
          /\ UNCHANGED disk

\* DispatchBackupTask looks for a final status in n's copy of the state, which
\* is behind once n is no longer leader.
SeesEnd(n, j, m) == tasks[j.run][m].st \in TerminalTask /\ leader = n

Skip(n, k, w) ==
  LET j == jobs[n][k]
      s == tasks[j.run][w.n].st
  IN
  /\ w.pc = "call" /\ s \in TerminalTask
  /\ SetJob(n, k, Moved(j, w, {}, Ends(s)))
  /\ UNCHANGED <<raftVars, control, loopVars, agentVars, used>>

\* The call: the agent runs the task and answers, or runs it and the answer
\* is lost, or is not reached or refuses.
Call(n, k, w) ==
  LET j == jobs[n][k]
      lost == Worker(w.n, "fallback", "UNAVAILABLE", 0)
  IN
  /\ w.pc = "call" /\ ~SeesEnd(n, j, w.n)
  /\ \/ \E s \in {"SUCCESS", "FAILED"} \cup Results, v \in 0..MaxEvents + 1 :
          /\ Accepts(n, j, w.n) /\ RunTask(j.run, w.n, s, v)
          /\ \/ SetJob(n, k, Moved(j, w, {Worker(w.n, "persist", s, v)}, FALSE)) /\ UNCHANGED used
             \/ w.n # n /\ Spend("lost") /\ SetJob(n, k, Moved(j, w, {lost}, FALSE))
     \/ /\ \/ Refuses(n, j, w.n) /\ UNCHANGED used
           \/ w.n # n /\ Spend("lost")
        /\ SetJob(n, k, Moved(j, w, {lost}, FALSE))
        /\ UNCHANGED disk
  /\ UNCHANGED <<raftVars, control, loopVars, spec>>

\* persistResult; when the write fails the goroutine falls back to a status
\* of its own.
Persist(n, k, w) ==
  LET j == jobs[n][k] IN
  /\ w.pc = "persist"
  /\ \E ok \in BOOLEAN :
       /\ WriteTask(n, j.run, w.n, w.st, w.snap, j.term, ok)
       /\ SetJob(n, k, IF ok THEN Moved(j, w, {}, Ends(w.st))
                       ELSE Moved(j, w, {Worker(w.n, "fallback", "UNAVAILABLE", 0)}, FALSE))
  /\ UNCHANGED <<raftVars, loopVars, agentVars>>

Fallback(n, k, w) ==
  LET j == jobs[n][k]
      s == IF j.live /\ ~j.ff THEN w.st ELSE CanceledStatus(j)
  IN
  /\ w.pc = "fallback"
  /\ \E ok \in BOOLEAN : WriteTask(n, j.run, w.n, s, 0, j.term, ok)
  /\ SetJob(n, k, Moved(j, w, {}, FailFast /\ s # "TIMEOUT"))
  /\ UNCHANGED <<raftVars, loopVars, agentVars>>

JobStep(n, k) ==
  \/ Take(n, k) \/ CancelNext(n, k)
  \/ \E w \in jobs[n][k].act : Skip(n, k, w) \/ Call(n, k, w) \/ Persist(n, k, w) \/ Fallback(n, k, w)

-----------------------------------------------------------------------------
(* ClusterBackupAPI on the leader: policies, StartRun, RetryFailedTasks.   *)

\* Put creates or changes the policy; validateExplicitTargets.
PutPolicy(p) ==
  /\ Spend("edit")
  /\ leader # None /\ ToSet(p.ids) \subseteq admitted
  /\ policy' = [sel |-> p.sel, ids |-> p.ids, rev |-> policy.rev + 1]
  /\ UNCHANGED <<raftVars, admitted, fires, runs, tasks, runTerm, loopVars, jobs, agentVars>>

\* A deleted policy takes its revision with it: the next one starts at 1.
DeletePolicy ==
  /\ Spend("edit")
  /\ leader # None /\ policy.rev # 0
  /\ policy' = [policy EXCEPT !.rev = 0]
  /\ UNCHANGED <<raftVars, admitted, fires, runs, tasks, runTerm, loopVars, jobs, agentVars>>

RemoveMember(m) ==
  /\ Spend("edit")
  /\ leader # None /\ m \in admitted
  /\ admitted' = admitted \ {m}
  /\ UNCHANGED <<raftVars, policy, fires, runs, tasks, runTerm, loopVars, jobs, agentVars>>

StartRun(r) ==
  LET ts == Resolve(policy) IN
  /\ Opened < MaxRuns /\ leader # None /\ Free(leader, "api")
  /\ runs[r].status = "absent" /\ policy.rev # 0 /\ ts # << >>
  /\ CreateRun(r, ts, policy.rev, term)
  /\ \/ StartJob(leader, "api", r, DOMAIN ts, term, TRUE) /\ UNCHANGED used
     \/ Spend("fault") /\ UNCHANGED jobs
  /\ UNCHANGED <<raftVars, policy, admitted, fires, tasks, loopVars, agentVars>>

RetryRun(r) ==
  LET ts == runs[r].targets
      pending == {i \in DOMAIN ts : tasks'[r][ts[i]].st = "PENDING"}
  IN
  /\ Spend("retry")
  /\ leader # None /\ Free(leader, "api") /\ runs[r].status # "absent"
  /\ runTerm[r] <= term
  /\ RetryFailedTasks(r, term)
  /\ IF pending = {} THEN UNCHANGED jobs ELSE StartJob(leader, "api", r, pending, term, TRUE)
  /\ UNCHANGED <<raftVars, loopVars, agentVars>>

\* The same command, committed, of a caller that is told it failed.
RetryRunLost(r) ==
  /\ Budget("fault") /\ Spend("retry")
  /\ leader # None /\ runs[r].status # "absent" /\ runTerm[r] <= term
  /\ RetryFailedTasks(r, term)
  /\ UNCHANGED <<raftVars, loopVars, jobs, agentVars>>

-----------------------------------------------------------------------------
(* Elections, crashes, leases, and the agents' own edits.                  *)

Elect(n) ==
  /\ term < MaxTerm
  /\ term' = term + 1 /\ leader' = n
  /\ UNCHANGED <<control, loopVars, jobs, agentVars, used>>

\* The agent stops: its Tick and its dispatches are gone, and so is the term
\* it led.
Crash(n) ==
  /\ Spend("crash")
  /\ term < MaxTerm
  /\ leader' = IF leader = n THEN None ELSE leader
  /\ memo' = [memo EXCEPT ![n] = [f \in Fires |-> 0]]
  /\ loop' = [loop EXCEPT ![n] = Idle]
  /\ jobs' = [jobs EXCEPT ![n] = [k \in Kinds |-> NoJob]]
  /\ UNCHANGED <<term, control, due, agentVars>>

ExpireJob(n, k) ==
  /\ jobs[n][k].live /\ jobs' = [jobs EXCEPT ![n][k].live = FALSE]
  /\ UNCHANGED <<raftVars, control, loopVars, agentVars, used>>

ExpireRun(r) ==
  /\ runs[r].lease
  /\ \A n \in Nodes, k \in Kinds : jobs[n][k].run = r => ~jobs[n][k].live
  /\ runs' = [runs EXCEPT ![r].lease = FALSE]
  /\ UNCHANGED <<raftVars, policy, admitted, fires, tasks, runTerm, loopVars, jobs, agentVars, used>>

NextFire ==
  /\ Opened < MaxRuns /\ due + 1 \in Fires /\ due' = due + 1
  /\ UNCHANGED <<raftVars, control, memo, loop, jobs, agentVars, used>>

EditSpec(n) ==
  /\ Spend("edit")
  /\ spec' = [spec EXCEPT ![n] = @ + 1]
  /\ UNCHANGED <<raftVars, control, loopVars, jobs, disk>>

LoopStep(n) ==
  \/ TickBegin(n) \/ RecoverDispatch(n) \/ ReadPolicies(n) \/ ClaimFire(n) \/ TickEnd(n)
  \/ \E r \in loop[n].ids : RecoverOne(n, r)

Next ==
  \/ \E n \in Nodes : LoopStep(n) \/ Elect(n) \/ Crash(n) \/ EditSpec(n) \/ RemoveMember(n)
  \/ \E n \in Nodes, k \in Kinds : JobStep(n, k) \/ ExpireJob(n, k)
  \/ \E r \in Runs : RetryRun(r) \/ RetryRunLost(r) \/ ExpireRun(r)
  \/ \E r \in Manual : StartRun(r)
  \/ \E p \in Policies : PutPolicy(p)
  \/ DeletePolicy \/ NextFire

\* Goroutines and the one-second loop run, leases are timers, and a cluster
\* without a leader elects one. Fairness of some step of each sort is enough.
Fairness ==
  /\ WF_vars(\E n \in Nodes : LoopStep(n))
  /\ WF_vars(\E n \in Nodes, k \in Kinds : JobStep(n, k))
  /\ WF_vars(\E n \in Nodes, k \in Kinds : ExpireJob(n, k))
  /\ WF_vars(\E r \in Runs : ExpireRun(r))
  /\ WF_vars(leader = None /\ \E n \in Nodes : Elect(n))

Spec == Init /\ [][Next]_vars /\ Fairness

-----------------------------------------------------------------------------
(* Properties. *)

Terms == 0..MaxTerm
FireRecords == [status : {"none", "CLAIMED"} \cup TerminalRun, term : Terms]
RunRecords == [status : {"absent"} \cup RunStatus, rev : Nat, targets : Seq(Nodes),
               lease : BOOLEAN, count : Counts]
TaskRecords == [st : {"none"} \cup TaskStatus, term : Terms, snap : Nat]
Workers == [n : Nodes, pc : {"call", "persist", "fallback"}, st : {"none"} \cup TerminalTask, snap : Nat]
Dispatches == [run : Runs \cup {0}, term : Terms, live : BOOLEAN, todo : SUBSET Nat,
               act : SUBSET Workers, ff : BOOLEAN]
Loops == [pc : {"idle", "recover", "claim", "wait"}, t : Terms, fire : Fires \cup {0},
          ids : SUBSET Runs, out : SUBSET (Runs \X SUBSET Nat), view : Seq(Nodes), rev : Nat]

TypeOK ==
  /\ term \in Terms \ {0} /\ leader \in Nodes \cup {None}
  /\ policy \in [sel : {"EXPLICIT", "GROUP", "ALL"}, ids : Seq(Nodes), rev : Nat]
  /\ admitted \subseteq Nodes
  /\ fires \in [Fires -> FireRecords]
  /\ runs \in [Runs -> RunRecords]
  /\ tasks \in [Runs -> [Nodes -> TaskRecords]]
  /\ runTerm \in [Runs -> Terms]
  /\ due \in Fires \cup {0}
  /\ memo \in [Nodes -> [Fires -> Terms]]
  /\ loop \in [Nodes -> Loops]
  /\ jobs \in [Nodes -> [Kinds -> Dispatches]]
  /\ spec \in [Nodes -> Nat \ {0}]
  /\ disk \in [Runs -> [Nodes -> Nat]]
  /\ used \in Nat

\* A run that has ended has an end for every target, its status and counters
\* are what those ends add up to, and the ledger of fires says the same; a run
\* that has not ended has its fire still claimed.
LedgerAgrees ==
  \A r \in Runs :
    /\ runs[r].status \in TerminalRun =>
         /\ \A n \in Targets(r) : tasks[r][n].st \in TerminalTask
         /\ runs[r].status = Verdict(TaskStatuses(r), Targets(r))
         /\ runs[r].count = Counted(TaskStatuses(r), Targets(r))
    /\ r \in Fires =>
         /\ fires[r].status = CASE runs[r].status = "absent" -> "none"
                               [] runs[r].status = "RUNNING" -> "CLAIMED"
                               [] OTHER -> runs[r].status
         /\ fires[r].term <= runTerm[r]

\* A target recorded as done has on its disk the very snapshot the record
\* names, whatever was lost, repeated or taken over in between.
SuccessIsBacked ==
  \A r \in Runs, n \in Nodes :
    tasks[r][n].st = "SUCCESS" => tasks[r][n].snap # 0 /\ disk[r][n] = tasks[r][n].snap

\* Two main loops never work on one run under live leases: a takeover waits
\* for the lease of the dispatch it replaces.
OneLoopPerRun ==
  \A n, m \in Nodes :
    /\ jobs[n]["loop"].live /\ jobs[m]["loop"].live
    /\ jobs[n]["loop"].run = jobs[m]["loop"].run
    => n = m

\* Whatever a leader that was deposed still writes: the targets stay those the
\* run was created with, no task changes but under the run's own term, the term
\* of a fire never goes back, and a run's only when the fire of an expired run is
\* claimed by a Tick that began after the claim before. (A retry that finds
\* nothing to retry moves the run's term on and not the fire's.)
DeposedWriteNothing ==
  [][\A r \in Runs :
       /\ runs[r].status # "absent" => runs'[r].targets = runs[r].targets
       /\ \A n \in Nodes : tasks'[r][n] # tasks[r][n] => tasks'[r][n].term = runTerm'[r]
       /\ r \in Fires => fires'[r].term >= fires[r].term
       /\ runTerm'[r] < runTerm[r] =>
            /\ r \in Fires /\ ~runs[r].lease /\ fires'[r].term > fires[r].term
            /\ tasks'[r] = tasks[r]
    ]_vars

\* Every run refines the promise made to its readers.
Promise == INSTANCE RunPromise WITH
  Units <- Nodes,
  plan <- [r \in Runs |-> Targets(r)],
  report <- [r \in Runs |-> [n \in Nodes |-> ReportOf(tasks[r][n].st)]],
  verdict <- [r \in Runs |-> runs[r].status]
KeepsPromise == Promise!Spec

\* Every run ends, however its dispatcher lost its leadership or stopped: an
\* expired run of an older term is taken over. Commands that are reported as
\* failed, edits and retries are left out: each of them can leave a run RUNNING.
RunEnds == \A r \in Runs : (runs[r].status = "RUNNING") ~> (runs[r].status \in TerminalRun)
=============================================================================
