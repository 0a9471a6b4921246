---------------------------- MODULE Replication -----------------------------
(***************************************************************************)
(* Disaster replication: each run copies, over every route <<source,       *)
(* target>> its policy had, one snapshot of the source's process specs to  *)
(* the target. The committed control.State, the ReplicationCoordinator in  *)
(* each agent's main loop, the API's StartRun and RetryFailedRoutes, the   *)
(* goroutine of each route, and the sources and targets.                   *)
(*                                                                         *)
(* Raft and time are as in ClusterBackup. Here a fire takes two commands   *)
(* (create the run, enter the fire), a leader may claim its own run again  *)
(* after the lease, and the snapshot is taken on the way.                  *)
(***************************************************************************)
EXTENDS RunLedger, Sequences

CONSTANTS
  Nodes,
  First,      \* the leader of term 1
  Plans,      \* sets of routes a policy may have
  Fires,      \* scheduled fires, numbered 1..n; a fire's run has its number
  Manual,     \* runs StartRun may create
  Limit,      \* max_concurrency, at least 1
  MaxTerm,    \* bound: elections
  Events,     \* of "crash", "expire" (of a lease), "fault" (a command's caller is told
              \* it failed, a capture cannot be stored), "lost" (a call does not come
              \* back, or meets a source that lags), "edit", "retry"
  MaxEvents,  \* bound: events and routes of the policy together
  MaxRuns,    \* bound: runs in a behaviour
  None

Runs == Fires \cup Manual
Routes == UNION Plans
Kinds == {"loop", "api"}

ASSUME ReplicationConstants ==
  /\ IsFiniteSet(Nodes) /\ First \in Nodes /\ None \notin Nodes
  /\ Routes \subseteq Nodes \X Nodes /\ \A u \in Routes : u[1] # u[2]
  /\ Fires \subseteq Nat \ {0}
  /\ Limit \in Nat \ {0} /\ MaxTerm \in Nat \ {0}

VARIABLES
  term, leader,
  \* --- control.State --------------------------------------------------------
  policy,   \* [routes, rev, epoch]; rev = 0 when deleted, epoch: fires up to it are past
  fires,    \* fires[f]: "none", "CLAIMED" or "SKIPPED"; entries are durable
  runs,     \* runs[r]: [status, rev, routes, lease, count]
  tasks,    \* tasks[r][u]: [st, term, snap]
  runTerm,  \* ReplicationRunTerms
  \* --- agents ---------------------------------------------------------------
  due,      \* the latest fire that is not in the future, 0 if none
  loop,     \* loop[n]: where agent n's Tick is
  api,      \* api[n]: a StartRun of agent n between its look and its command
  jobs,     \* jobs[n][k]: a DispatchRun in progress
  work,     \* route goroutines
  spec,     \* spec[n]: version of n's process specs
  taken,    \* taken[r][n]: version of the snapshot n took for run r, 0 if none
  replica,  \* replica[r][u]: version the target holds, 0 if none
  used      \* events so far

control == <<policy, fires, runs, tasks, runTerm>>
raftVars == <<term, leader>>
stores == <<spec, taken, replica>>
vars == <<raftVars, control, due, loop, api, jobs, work, stores, used>>

NoTask == [st |-> "none", term |-> 0, snap |-> 0]
NoRun == [status |-> "absent", rev |-> 0, routes |-> {}, lease |-> FALSE, count |-> NoCount]
NoJob == [run |-> 0, term |-> 0, todo |-> {}]
NoStart == [run |-> 0, t |-> 0, routes |-> {}, rev |-> 0]
Idle == [pc |-> "idle", t |-> 0, fire |-> 0, routes |-> {}, rev |-> 0, ids |-> {}, out |-> << >>]

\* Runs that exist or are about to.
Opened == {r \in Runs : \/ runs[r].status # "absent"
                        \/ \E n \in Nodes : api[n].run = r \/ (loop[n].pc = "create" /\ loop[n].fire = r)}
Spend(e) == e \in Events /\ used + Cardinality(policy.routes) < MaxEvents /\ used' = used + 1

Init ==
  /\ term = 1 /\ leader = First
  /\ \E p \in Plans : policy = [routes |-> p, rev |-> 1, epoch |-> 0]
  /\ fires = [f \in Fires |-> "none"]
  /\ runs = [r \in Runs |-> NoRun]
  /\ tasks = [r \in Runs |-> [u \in Routes |-> NoTask]]
  /\ runTerm = [r \in Runs |-> 0]
  /\ due = 0
  /\ loop = [n \in Nodes |-> Idle]
  /\ api = [n \in Nodes |-> NoStart]
  /\ jobs = [n \in Nodes |-> [k \in Kinds |-> NoJob]]
  /\ work = {}
  /\ spec = [n \in Nodes |-> 1]
  /\ taken = [r \in Runs |-> [n \in Nodes |-> 0]]
  /\ replica = [r \in Runs |-> [u \in Routes |-> 0]]
  /\ used = 0

-----------------------------------------------------------------------------
(* Commands of the replicated state machine. *)

\* One Apply on agent n: effect A if the state machine finds the command valid;
\* ok is what the caller is told.
Apply(n, ok, valid, A) ==
  \/ ok /\ leader = n /\ valid /\ A /\ UNCHANGED used
  \/ ~ok /\ (leader # n \/ ~valid) /\ UNCHANGED <<control, used>>
  \/ ~ok /\ leader = n /\ Spend("fault") /\ ((valid /\ A) \/ UNCHANGED control)

Newer(r, t) == [runTerm EXCEPT ![r] = IF t > @ THEN t ELSE @]
Statuses(r) == [u \in Routes |-> tasks[r][u].st]
Retryable == RetryableTask \cup {"PENDING"}

\* applyCreateRun: the same run again is no error and no change.
CreateOK(r, ts, rev) ==
  /\ policy.rev # 0 /\ rev = policy.rev /\ ts = policy.routes
  /\ runs[r].status = "absent" \/ (runs[r].rev = rev /\ runs[r].routes = ts)

CreateRun(r, ts, rev, t) ==
  IF runs[r].status # "absent" THEN UNCHANGED control
  ELSE /\ runs' = [runs EXCEPT ![r] = [status |-> "RUNNING", rev |-> rev, routes |-> ts,
                                       lease |-> TRUE, count |-> NoCount]]
       /\ runTerm' = [runTerm EXCEPT ![r] = t]
       /\ tasks' = [tasks EXCEPT ![r] = [u \in Routes |->
            IF u \in ts THEN [st |-> "PENDING", term |-> t, snap |-> 0] ELSE NoTask]]
       /\ UNCHANGED <<policy, fires>>

\* ClaimFire with a durable entry: the first one stays.
EnterFire(f, s) ==
  /\ fires' = [fires EXCEPT ![f] = IF @ = "none" THEN s ELSE @]
  /\ UNCHANGED <<policy, runs, tasks, runTerm>>

\* ClaimRun of a replication run: not being able to claim is no error, and the
\* owner itself may claim again.
ClaimRun(r, t) ==
  IF runs[r].status \in TerminalRun \/ runs[r].lease \/ t < runTerm[r] THEN UNCHANGED control
  ELSE /\ runs' = [runs EXCEPT ![r].lease = TRUE]
       /\ runTerm' = [runTerm EXCEPT ![r] = t]
       /\ UNCHANGED <<policy, fires, tasks>>

\* Mutant: whoever held the run before may begin its tasks.
BeginAnyTerm(r, u, v, t) ==
  /\ runs[r].status = "RUNNING" /\ runs[r].lease
  /\ tasks[r][u].snap \in {0, v}
  /\ tasks[r][u].st \in Retryable \cup {"RUNNING"}
\* applyBeginReplicationTask: only the run's owner, under its lease, and only
\* for the snapshot the task has, or its first one.
BeginOK(r, u, v, t) ==
  /\ runTerm[r] = t /\ runs[r].status = "RUNNING" /\ runs[r].lease
  /\ tasks[r][u].snap \in {0, v}
  /\ tasks[r][u].st \in Retryable \cup {"RUNNING"}

Begin(r, u, v, t) ==
  /\ tasks' = [tasks EXCEPT ![r][u] =
       IF @.st = "RUNNING" THEN [@ EXCEPT !.snap = v] ELSE [st |-> "RUNNING", term |-> t, snap |-> v]]
  /\ UNCHANGED <<policy, fires, runs, runTerm>>

\* applyUpdateTask with a final status.
UpdateOK(r, u, t) == t >= runTerm[r] /\ t >= tasks[r][u].term

\* Mutant: a final status is overwritten.
UpdateTaskAlways(r, u, s, v, t) ==
  /\ tasks' = [tasks EXCEPT ![r][u] = [st |-> s, term |-> t, snap |-> IF v = 0 THEN @.snap ELSE v]]
  /\ runTerm' = Newer(r, t)
  /\ runs' = [runs EXCEPT ![r] = Aggregated(@, [Statuses(r) EXCEPT ![u] = s], @.routes)]
  /\ UNCHANGED <<policy, fires>>
\* A task that has ended stays as it is; an update without a snapshot keeps
\* the one recorded.
UpdateTask(r, u, s, v, t) ==
  IF tasks[r][u].st \in TerminalTask THEN UNCHANGED control
  ELSE /\ tasks' = [tasks EXCEPT ![r][u] =
            [st |-> s, term |-> t, snap |-> IF v = 0 THEN @.snap ELSE v]]
       /\ runTerm' = Newer(r, t)
       /\ runs' = [runs EXCEPT ![r] = Aggregated(@, [Statuses(r) EXCEPT ![u] = s], @.routes)]
       /\ UNCHANGED <<policy, fires>>

\* applyRetryFailedTasks: a replication task keeps its snapshot.
RetryFailedTasks(r, t) ==
  LET failed == {u \in Routes : tasks[r][u].st \in RetryableTask} IN
    /\ tasks' = [tasks EXCEPT ![r] = [u \in Routes |->
         IF u \in failed THEN [@[u] EXCEPT !.st = "PENDING", !.term = t] ELSE @[u]]]
    /\ runs' = IF failed = {} THEN runs
               ELSE [runs EXCEPT ![r] = [@ EXCEPT !.status = "RUNNING", !.lease = TRUE,
                                                  !.count = NoCount]]
    /\ runTerm' = Newer(r, t)
    /\ UNCHANGED <<policy, fires>>

-----------------------------------------------------------------------------
(* ReplicationCoordinator.Tick on agent n: ClaimReplicationRuns, then a    *)
(* DispatchRun for each run it returned, one after the other.              *)

Running == {r \in Runs : runs[r].status = "RUNNING"}
Frozen(r) == {[u |-> u, snap |-> tasks[r][u].snap] :
                u \in {x \in runs[r].routes : tasks[r][x].st \in Retryable}}
Fresh(ts) == {[u |-> u, snap |-> 0] : u \in ts}
Go(n, rec) == loop' = [loop EXCEPT ![n] = rec]
Free(n, k) == jobs[n][k] = NoJob /\ \A w \in work : w.n # n \/ w.k # k

\* listDueReplicationFires: what is to be done about fire f.
FireStep(f) ==
  IF runs[f].status # "absent" THEN "enter"
  ELSE IF Running # {} THEN "skip" ELSE "create"

DueFire(f) == f # 0 /\ policy.rev # 0 /\ f > policy.epoch /\ fires[f] = "none"
\* runnableReplicationRuns, and the rest of the Tick that goes through them.
Takeovers(t) == {r \in Running : runTerm[r] < t \/ ~runs[r].lease}
Looked(l) == [l EXCEPT !.pc = "take", !.ids = Takeovers(l.t)]

TickBegin(n) ==
  /\ loop[n].pc = "idle" /\ leader = n /\ Free(n, "loop")
  /\ DueFire(due) \/ Takeovers(term) # {}
  /\ DueFire(due) /\ FireStep(due) = "create" => Cardinality(Opened) < MaxRuns
  /\ IF DueFire(due)
     THEN Go(n, [Idle EXCEPT !.pc = FireStep(due), !.t = term, !.fire = due,
                             !.routes = policy.routes, !.rev = policy.rev])
     ELSE Go(n, Looked([Idle EXCEPT !.t = term]))
  /\ UNCHANGED <<raftVars, control, due, api, jobs, work, stores, used>>

\* Mutant: the fire is entered although its run could not be created.
FireCreateBlind(n) ==
  LET l == loop[n] IN
  /\ l.pc = "create"
  /\ \E ok \in BOOLEAN :
       Apply(n, ok, CreateOK(l.fire, l.routes, l.rev), CreateRun(l.fire, l.routes, l.rev, l.t))
  /\ Go(n, [l EXCEPT !.pc = "enter", !.out = <<[r |-> l.fire, todo |-> Fresh(l.routes)]>>])
  /\ UNCHANGED <<raftVars, due, api, jobs, work, stores>>
FireCreate(n) ==
  LET l == loop[n] IN
  /\ l.pc = "create"
  /\ \E ok \in BOOLEAN :
       /\ Apply(n, ok, CreateOK(l.fire, l.routes, l.rev), CreateRun(l.fire, l.routes, l.rev, l.t))
       /\ Go(n, IF ok THEN [l EXCEPT !.pc = "enter", !.out = <<[r |-> l.fire, todo |-> Fresh(l.routes)]>>]
                ELSE Looked(l))
  /\ UNCHANGED <<raftVars, due, api, jobs, work, stores>>

\* claimReplicationFire; an error is reported and nothing else.
FireEnter(n) ==
  LET l == loop[n] IN
  /\ l.pc \in {"enter", "skip"}
  /\ \E ok \in BOOLEAN :
       Apply(n, ok, TRUE, EnterFire(l.fire, IF l.pc = "skip" THEN "SKIPPED" ELSE "CLAIMED"))
  /\ Go(n, Looked(l))
  /\ UNCHANGED <<raftVars, due, api, jobs, work, stores>>

\* The tasks of a run are taken along even if the claim did not succeed.
TakeOver(n, r) ==
  LET l == loop[n]
      todo == Frozen(r)
      next == [l EXCEPT !.ids = @ \ {r}]
  IN
  /\ l.pc = "take" /\ r \in l.ids
  /\ \E ok \in BOOLEAN :
       /\ Apply(n, ok, TRUE, ClaimRun(r, l.t))
       /\ Go(n, IF ok /\ todo # {} THEN [next EXCEPT !.out = Append(@, [r |-> r, todo |-> todo])]
                ELSE next)
  /\ UNCHANGED <<raftVars, due, api, jobs, work, stores>>

\* DispatchRun returns at once when the lease is over.
Dispatched(n, k, r, t, todo, lease) ==
  jobs' = IF lease
          THEN [jobs EXCEPT ![n][k] = [run |-> r, term |-> t, todo |-> todo]]
          ELSE jobs

DispatchNext(n) ==
  LET l == loop[n] IN
  /\ l.pc = "take" /\ l.ids = {} /\ Free(n, "loop")
  /\ IF l.out = << >> THEN Go(n, Idle) /\ UNCHANGED jobs
     ELSE /\ Go(n, [l EXCEPT !.out = Tail(@)])
          /\ Dispatched(n, "loop", Head(l.out).r, l.t, Head(l.out).todo,
                        runs[Head(l.out).r].lease)
  /\ UNCHANGED <<raftVars, control, due, api, work, stores, used>>

-----------------------------------------------------------------------------
(* DispatchRun: the loop over the tasks, and a goroutine per route.        *)

Worker(n, k, j, x) ==
  [n |-> n, k |-> k, r |-> j.run, t |-> j.term, live |-> TRUE, u |-> x.u, req |-> x.snap,
   snap |-> x.snap, pc |-> "begin", st |-> "none"]
Mine(n, k) == {w \in work : w.n = n /\ w.k = k}
Move(w, next) == work' = (work \ {w}) \cup {next}
End(w) == work' = work \ {w}
workOnly == <<raftVars, due, loop, api, jobs>>

Take(n, k) ==
  LET j == jobs[n][k] IN
  /\ Cardinality(Mine(n, k)) < Limit
  /\ \E x \in j.todo :
       /\ work' = work \cup {Worker(n, k, j, x)}
       /\ jobs' = [jobs EXCEPT ![n][k] = IF j.todo = {x} THEN NoJob ELSE [j EXCEPT !.todo = @ \ {x}]]
  /\ UNCHANGED <<raftVars, control, due, loop, api, stores, used>>

\* BeginReplicationTask: on any error the goroutine is done.
BeginTask(w) ==
  /\ w.pc = "begin"
  /\ \/ \E ok \in BOOLEAN :
          /\ w.live
          /\ Apply(w.n, ok, BeginOK(w.r, w.u, w.snap, w.t), Begin(w.r, w.u, w.snap, w.t))
          /\ IF ok THEN Move(w, [w EXCEPT !.pc = "run"]) ELSE End(w)
     \/ ~w.live /\ End(w) /\ UNCHANGED <<control, used>>
  /\ UNCHANGED <<workOnly, stores>>

\* ClassifyReplicationFailure
Failure(w, s) == IF w.live THEN s ELSE "TIMEOUT"
Finish(w, s, v) == Move(w, [w EXCEPT !.pc = "finish", !.st = s, !.snap = v])

\* The lease is over before anything was sent.
Abort(w) ==
  /\ w.pc = "run" /\ ~w.live
  /\ Move(w, [w EXCEPT !.pc = "last", !.st = "TIMEOUT"])
  /\ UNCHANGED <<workOnly, control, stores, used>>

\* CaptureReplicationSnapshot: one snapshot per run and source, however often
\* it is asked for and whatever became of the specs.
Captured(w) == IF taken[w.r][w.u[1]] # 0 THEN taken[w.r][w.u[1]] ELSE spec[w.u[1]]
\* The replica retention that follows may drop what this source took for other
\* runs, except what it is pushing.
Capture(w) ==
  \E gone \in SUBSET {r \in Runs \ {w.r} : taken[r][w.u[1]] # 0
                        /\ \A x \in work : x.pc = "push" => x.r # r \/ x.u[1] # w.u[1]} :
    taken' = [r \in Runs |-> [taken[r] EXCEPT ![w.u[1]] =
                IF r = w.r THEN Captured(w) ELSE IF r \in gone THEN 0 ELSE @]]

\* captureLocalReplicationSnapshot, up to the note of it in the task. It may
\* fail, on a full disk or at the end of the lease.
CaptureHere(w) ==
  /\ w.pc = "run" /\ w.u[1] = w.n
  /\ \/ w.snap # 0 /\ Move(w, [w EXCEPT !.pc = "push"]) /\ UNCHANGED <<taken, used>>
     \/ /\ w.snap = 0 /\ Capture(w) /\ UNCHANGED used
        /\ Move(w, [w EXCEPT !.pc = "note", !.snap = Captured(w)])
     \/ /\ w.snap = 0 /\ UNCHANGED taken
        /\ \/ ~w.live /\ Finish(w, "TIMEOUT", 0) /\ UNCHANGED used
           \/ w.live /\ Spend("fault") /\ Finish(w, "UNAVAILABLE", 0)
  /\ UNCHANGED <<workOnly, control, spec, replica>>

\* The note is a second Begin whose error is ignored.
NoteCaptured(w) ==
  /\ w.pc = "note"
  /\ \/ \E ok \in BOOLEAN :
          w.live /\ Apply(w.n, ok, BeginOK(w.r, w.u, w.snap, w.t), Begin(w.r, w.u, w.snap, w.t))
     \/ ~w.live /\ UNCHANGED <<control, used>>
  /\ Move(w, [w EXCEPT !.pc = "push"])
  /\ UNCHANGED <<workOnly, stores>>

\* authorizeReplicationTask on the source: by its own copy of the state, which
\* may be older than the committed one.
Exact(w) ==
  /\ w.t = term /\ leader = w.n /\ runTerm[w.r] = w.t
  /\ tasks[w.r][w.u].st \in {"PENDING", "RUNNING"} /\ tasks[w.r][w.u].snap = w.req

\* ReplicateSnapshot sent to the source: it captures and goes on to push, or
\* refuses, or the call is lost. Lost calls are repeated or given up; a source
\* that does not know the term yet refuses an exact one ("stale replication
\* lease"), and that is not repeated.
CallSource(w) ==
  /\ w.pc = "run" /\ w.u[1] # w.n
  /\ \/ /\ w.live /\ leader # w.u[1]
        /\ IF w.req = 0 THEN Capture(w) /\ Move(w, [w EXCEPT !.pc = "push", !.snap = Captured(w)])
           ELSE Move(w, [w EXCEPT !.pc = "push"]) /\ UNCHANGED taken
        /\ UNCHANGED used
     \/ /\ ~(w.live /\ Exact(w)) /\ UNCHANGED <<taken, used>>
        /\ Finish(w, Failure(w, "FAILED"), w.snap)
     \/ /\ Spend("lost") /\ UNCHANGED taken
        /\ \E s \in {"FAILED", "UNAVAILABLE"} : Finish(w, Failure(w, s), w.snap)
  /\ UNCHANGED <<workOnly, control, spec, replica>>

\* authorizePeerOperation for PUT on the target, by its own copy as well.
PutAllowed(w) ==
  /\ runs[w.r].status = "RUNNING" /\ runTerm[w.r] = term
  /\ tasks[w.r][w.u].st \in {"PENDING", "RUNNING"} /\ tasks[w.r][w.u].snap \in {0, w.snap}

\* Mutant: a target that refuses a snapshot answers as if it had stored it.
StoredUnchecked(w) == replica' = replica
\* ReceiveWithMetadata; a snapshot the target has is not written again.
Stored(w) == replica' = [replica EXCEPT ![w.r][w.u] = IF @ = 0 THEN w.snap ELSE @]

\* The source pushes its snapshot. Answered: stored, refused, or in conflict
\* with another snapshot of that name there or here; or the answer is lost, and a leader that
\* called the source may call it again.
Push(w) ==
  /\ w.pc = "push"
  /\ \/ /\ runs[w.r].lease /\ (leader = w.u[2] => PutAllowed(w))
        /\ taken[w.r][w.u[1]] = w.snap /\ replica[w.r][w.u] \in {0, w.snap}
        /\ Stored(w)
        /\ \/ Finish(w, "SUCCESS", w.snap) /\ UNCHANGED used
           \/ /\ Spend("lost")
              /\ \/ Finish(w, Failure(w, "UNAVAILABLE"), w.snap)
                 \/ w.live /\ w.u[1] # w.n /\ Move(w, [w EXCEPT !.pc = "run"])
           \/ ~w.live /\ Finish(w, "TIMEOUT", w.snap) /\ UNCHANGED used
     \/ /\ \/ replica[w.r][w.u] \notin {0, w.snap}
           \/ taken[w.r][w.u[1]] \notin {0, w.snap}
        /\ Finish(w, Failure(w, "FAILED"), w.snap)
        /\ UNCHANGED <<replica, used>>
     \/ /\ ~(runs[w.r].lease /\ PutAllowed(w)) \/ ~w.live \/ taken[w.r][w.u[1]] = 0
        /\ Finish(w, Failure(w, "UNAVAILABLE"), w.snap)
        /\ UNCHANGED <<replica, used>>
     \/ Spend("lost") /\ Finish(w, Failure(w, "UNAVAILABLE"), w.snap) /\ UNCHANGED replica
  /\ UNCHANGED <<workOnly, control, spec, taken>>

\* finishReplicationTask; if the write fails the coordinator tries once more, to
\* record a failure, with the snapshot it had asked for if the route had worked.
FinishTask(w) ==
  /\ w.pc = "finish"
  /\ \E ok \in BOOLEAN :
       /\ Apply(w.n, ok, UpdateOK(w.r, w.u, w.t), UpdateTask(w.r, w.u, w.st, w.snap, w.t))
       /\ IF ok THEN End(w)
          ELSE Move(w, [w EXCEPT !.pc = "last",
                 !.st = Failure(w, IF UpdateOK(w.r, w.u, w.t) THEN "UNAVAILABLE" ELSE "FAILED"),
                 !.snap = IF w.st = "SUCCESS" THEN w.req ELSE @])
  /\ UNCHANGED <<workOnly, stores>>

\* The last word of the goroutine, whose error nobody sees.
LastWord(w) ==
  /\ w.pc = "last"
  /\ \E ok \in BOOLEAN :
       Apply(w.n, ok, UpdateOK(w.r, w.u, w.t), UpdateTask(w.r, w.u, w.st, w.snap, w.t))
  /\ End(w)
  /\ UNCHANGED <<workOnly, stores>>

\* A push whose caller has given up arrives late.
LatePut(r, u) ==
  /\ Spend("lost")
  /\ taken[r][u[1]] # 0 /\ replica[r][u] = 0
  /\ runs[r].status = "RUNNING" /\ runs[r].lease /\ runTerm[r] = term
  /\ tasks[r][u].st \in {"PENDING", "RUNNING"} /\ tasks[r][u].snap \in {0, taken[r][u[1]]}
  /\ replica' = [replica EXCEPT ![r][u] = taken[r][u[1]]]
  /\ UNCHANGED <<raftVars, control, due, loop, api, jobs, work, spec, taken>>

WorkStep(w) ==
  \/ BeginTask(w) \/ Abort(w) \/ CaptureHere(w) \/ NoteCaptured(w)
  \/ CallSource(w) \/ Push(w) \/ FinishTask(w) \/ LastWord(w)

-----------------------------------------------------------------------------
(* DisasterReplicationAPI on the leader. *)

apiVars == <<raftVars, due, loop, work, stores>>

\* ApplyPolicyDraft and UpdatePolicy: every write starts a new schedule epoch.
PutPolicy(p) ==
  /\ Spend("edit")
  /\ leader # None
  /\ policy' = [routes |-> p, rev |-> policy.rev + 1, epoch |-> due]
  /\ UNCHANGED <<apiVars, fires, runs, tasks, runTerm, api, jobs>>

DeletePolicy ==
  /\ Spend("edit")
  /\ leader # None /\ policy.rev # 0
  /\ policy' = [policy EXCEPT !.rev = 0]
  /\ UNCHANGED <<apiVars, fires, runs, tasks, runTerm, api, jobs>>

\* StartRun looks for a run in progress first ...
StartLook(n, r) ==
  /\ leader = n /\ api[n] = NoStart /\ Free(n, "api") /\ Cardinality(Opened) < MaxRuns
  /\ runs[r].status = "absent" /\ policy.rev # 0 /\ policy.routes # {} /\ Running = {}
  /\ api' = [api EXCEPT ![n] = [run |-> r, t |-> term, routes |-> policy.routes, rev |-> policy.rev]]
  /\ UNCHANGED <<apiVars, control, jobs, used>>

\* ... and creates its run in a command of its own.
StartRun(n) ==
  LET a == api[n] IN
  /\ a # NoStart
  /\ \E ok \in BOOLEAN :
       /\ Apply(n, ok, CreateOK(a.run, a.routes, a.rev), CreateRun(a.run, a.routes, a.rev, a.t))
       /\ IF ok THEN Dispatched(n, "api", a.run, a.t, Fresh(a.routes), TRUE) ELSE UNCHANGED jobs
  /\ api' = [api EXCEPT ![n] = NoStart]
  /\ UNCHANGED apiVars

RetryRoutes(n, r) ==
  LET todo == {[u |-> u, snap |-> tasks'[r][u].snap] :
                 u \in {x \in runs[r].routes : tasks'[r][x].st = "PENDING"}} IN
  /\ leader = n /\ Free(n, "api") /\ api[n] = NoStart /\ Spend("retry")
  /\ runs[r].status # "absent" /\ runTerm[r] <= term
  /\ RetryFailedTasks(r, term)
  /\ IF todo # {} THEN Dispatched(n, "api", r, term, todo, runs'[r].lease) ELSE UNCHANGED jobs
  /\ UNCHANGED <<apiVars, api>>

-----------------------------------------------------------------------------
(* Elections, crashes, leases, and the agents' own edits.                  *)

Elect(n) ==
  /\ term < MaxTerm
  /\ term' = term + 1 /\ leader' = n
  /\ UNCHANGED <<control, due, loop, api, jobs, work, stores, used>>

Crash(n) ==
  /\ Spend("crash")
  /\ term < MaxTerm
  /\ leader' = IF leader = n THEN None ELSE leader
  /\ loop' = [loop EXCEPT ![n] = Idle]
  /\ api' = [api EXCEPT ![n] = NoStart]
  /\ jobs' = [jobs EXCEPT ![n] = [k \in Kinds |-> NoJob]]
  /\ work' = {w \in work : w.n # n}
  /\ UNCHANGED <<term, control, due, stores>>

\* The lease of a run ends, and with it those of its dispatches: a DispatchRun
\* with tasks left returns without waiting for its goroutines, which go on with
\* a context that is done.
ExpireRun(r) ==
  /\ Spend("expire")
  /\ runs[r].lease
  /\ runs' = [runs EXCEPT ![r].lease = FALSE]
  /\ jobs' = [n \in Nodes |-> [k \in Kinds |-> IF jobs[n][k].run = r THEN NoJob ELSE jobs[n][k]]]
  /\ work' = {IF w.r # r THEN w
              ELSE [w EXCEPT !.live = FALSE, !.k = IF jobs[w.n][@].run = r THEN "left" ELSE @] :
                w \in {x \in work : x.k # "left"}} \cup {x \in work : x.k = "left"}
  /\ UNCHANGED <<raftVars, policy, fires, tasks, runTerm, due, loop, api, stores>>

NextFire ==
  /\ due + 1 \in Fires /\ due' = due + 1
  /\ UNCHANGED <<raftVars, control, loop, api, jobs, work, stores, used>>

EditSpec(n) ==
  /\ Spend("edit")
  /\ spec' = [spec EXCEPT ![n] = @ + 1]
  /\ UNCHANGED <<raftVars, control, due, loop, api, jobs, work, taken, replica>>

Next ==
  \/ \E n \in Nodes :
       \/ TickBegin(n) \/ FireCreate(n) \/ FireEnter(n) \/ DispatchNext(n)
       \/ StartRun(n) \/ Elect(n) \/ Crash(n) \/ EditSpec(n)
       \/ \E r \in Runs : TakeOver(n, r) \/ RetryRoutes(n, r)
       \/ \E r \in Manual : StartLook(n, r)
       \/ \E k \in Kinds : Take(n, k)
  \/ \E w \in work : WorkStep(w)
  \/ \E r \in Runs : ExpireRun(r)
  \/ \E r \in Runs, u \in Routes : LatePut(r, u)
  \/ \E p \in Plans : PutPolicy(p)
  \/ DeletePolicy \/ NextFire

Spec == Init /\ [][Next]_vars

-----------------------------------------------------------------------------
(* Properties. *)

Terms == 0..MaxTerm
\* A route to copy, with the snapshot its task had when it was looked at.
Todos == [u : Routes, snap : Nat]
RunRecords == [status : {"absent"} \cup RunStatus, rev : Nat, routes : SUBSET Routes,
               lease : BOOLEAN, count : Counts]
TaskRecords == [st : {"none"} \cup TaskStatus, term : Terms, snap : Nat]
Starts == [run : Manual \cup {0}, t : Terms, routes : SUBSET Routes, rev : Nat]
Dispatches == [run : Runs \cup {0}, term : Terms, todo : SUBSET Todos]
Loops == [pc : {"idle", "create", "enter", "skip", "take"}, t : Terms, fire : Fires \cup {0},
          routes : SUBSET Routes, rev : Nat, ids : SUBSET Runs,
          out : Seq([r : Runs, todo : SUBSET Todos])]
Workers == [n : Nodes, k : Kinds \cup {"left"}, r : Runs, t : Terms, live : BOOLEAN, u : Routes,
            req : Nat, snap : Nat, pc : {"begin", "run", "note", "push", "finish", "last"},
            st : {"none"} \cup TerminalTask]

TypeOK ==
  /\ term \in Terms /\ leader \in Nodes \cup {None}
  /\ policy \in [routes : SUBSET Routes, rev : Nat, epoch : Nat]
  /\ fires \in [Fires -> {"none", "CLAIMED", "SKIPPED"}]
  /\ runs \in [Runs -> RunRecords]
  /\ tasks \in [Runs -> [Routes -> TaskRecords]]
  /\ runTerm \in [Runs -> Terms]
  /\ due \in Fires \cup {0} /\ used \in Nat
  /\ loop \in [Nodes -> Loops]
  /\ api \in [Nodes -> Starts]
  /\ jobs \in [Nodes -> [Kinds -> Dispatches]]
  /\ work \subseteq Workers
  /\ spec \in [Nodes -> Nat \ {0}]
  /\ taken \in [Runs -> [Nodes -> Nat]]
  /\ replica \in [Runs -> [Routes -> Nat]]

\* A route recorded as done has its target hold the very snapshot the record
\* names, whatever was lost, repeated, edited or taken over in between.
SuccessIsStored ==
  \A r \in Runs, u \in Routes :
    tasks[r][u].st = "SUCCESS" =>
      tasks[r][u].snap # 0 /\ replica[r][u] = tasks[r][u].snap

\* A fire has its run before it is entered as claimed, although the two are
\* commands of their own that may be repeated by another leader.
ClaimedHasRun == \A f \in Fires : fires[f] = "CLAIMED" => runs[f].status # "absent"

\* A task changes only in the hands of the term that owns its run. The snapshot
\* it has is not lost, and no begin or retry exchanges it: that takes the end of
\* a goroutine that was at work, with the snapshot it pushed.
OwnerWrites ==
  [][\A r \in Runs, u \in Routes :
       tasks'[r][u] # tasks[r][u] =>
         /\ tasks'[r][u].st # tasks[r][u].st => tasks'[r][u].term = runTerm'[r]
         /\ tasks[r][u].snap \notin {0, tasks'[r][u].snap} =>
              /\ tasks'[r][u].snap # 0
              /\ tasks[r][u].st \notin TerminalTask /\ tasks'[r][u].st \in TerminalTask
         /\ runTerm'[r] >= runTerm[r]]_vars

\* Every replication run refines the promise made to its readers.
Promise == INSTANCE RunPromise WITH
  Units <- Routes,
  plan <- [r \in Runs |-> runs[r].routes],
  report <- [r \in Runs |-> [u \in Routes |-> ReportOf(tasks[r][u].st)]],
  verdict <- [r \in Runs |-> runs[r].status]
KeepsPromise == Promise!Spec

=============================================================================
