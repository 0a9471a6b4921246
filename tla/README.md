# ProcMesh: TLA+ verification project

ProcMesh is a mesh of agents, one per host. Each agent keeps business processes
running through small per-instance *shim* processes, so that the agent itself
may crash, restart or be upgraded without touching them. Agents gossip their
state, share a replicated control plane (raft) for users, admission, policies
and backup runs, and offer batches, updates, alerts and backups on top.

This directory models the parts of that system whose correctness depends on
the order in which things happen, checks the models with TLC on small
instances, and proves the central facts with TLAPS for every instance.

All paths below are relative to the repository (`src/` here).

## 1. Inventory

| Component (source) | State | Operations | Interaction | What makes it hard | Correct means |
|---|---|---|---|---|---|
| Process manager (`internal/process/manager.go`, `reconcile.go`, `recover.go`) | instance rows in SQLite, runtime files, in-memory failure records | `Reconcile`, `Recover`, `ApplySpec`, `Rollback`, `DeleteSpec`, `SetDesired`, `Kill`, `Restart`, `ResetFailure`, `Adopt` | one mutex shared by the agent's loop and the API handlers; sockets to shims | the mutex is released inside a pass; crashes between fork and put; dead shims over live children; stale snapshots | one copy of an instance; rows do not lie; stops and starts take effect; crash loops are bounded |
| Observed-state machine and restart policy (`machine.go`, `restart.go`, `types.go`) | none | `ApplyObserved`, `DecideRestart` | called by the manager | callers ignore or replace the error | as the manager's |
| Shim (`internal/shim`) | child pid, exit code, socket | `Start`, `Stop`, `Status`, (`Signal`, `Wait`) | one connection at a time | dies with or without its socket file; a stop outlives the request | at most one child; stop ends the child |
| Dependencies (`deps.go`), health (`internal/health`) | probe counters | `StartupOrder`, `DepsReady`, `RejectCycle`, tracker | called by a pass | a missing dependency fails every pass | order respects dependencies; thresholds |
| Spec store, operation journal (`internal/store/spec.go`, `journal.go`) | revisions, operations | `PutSpec` (compare-and-set), `RollbackSpec`, `DeleteSpec`, `BeginOperation`, `FinishOperation` | SQLite transactions under the manager | replays, crashes between begin and finish | no lost update; an operation takes effect once |
| Batch engine (`internal/batch`) | batches, targets, one queue | `Create`, worker, `RetryFailed`, `ReplayTimeout`, `Resume` | executes on remote managers | retry against the worker's last write | every target ends; SUCCESS is never run again |
| Update engine (`internal/update`, `store/update_job.go`, `api/update_job_api.go`) | jobs, targets, the entry's principals | `Create`, `CancelRemaining`, `Retry`, `Resume`, `runJob` | applies a release node by node, the leader and the entry itself last | two creators; cancel and retry against the worker; late applies; the entry restarts itself | one running job; a node only after the ones before it; no job forgotten |
| Mesh and workload sync (`internal/cluster`) | member metadata, epochs, hints | gossip events, push/pull, on-demand fetch | memberlist callbacks, RPC fetches | messages late, lost, reordered; node restarts | newest state wins; FAILED and LEFT stick |
| Control plane (`internal/control/fsm.go`) | users, sessions, tokens, members, policies, runs | one `apply*` per command | replicated by hashicorp/raft | commands are checked before and applied after a leader change | never without an administrator; a run is owned by one term |
| Membership (`control/admission.go`, `capability.go`, `raft.go`, `api/clusterapi.go`, `api/node.go`, `agent/raft.go`) | members, join attempts, tokens, revoked certificates, capabilities, the raft configuration, the joiner's files | join, remove, promote, reconcile | the leader's mutex, raft, calls to the joiner and the promoted node | join in two commands, promotion in six steps, restarts and elections in between | a token is spent once per node; every voter holds the CA key; a removed node stays out; the configuration follows the members |
| Backup and disaster replication (`internal/backup`, `internal/agent/*_scheduler.go`) | fires, runs, tasks, leases, snapshots | `ClaimScheduledRun`, `ClaimRun`, `UpdateTask`, `FinishRun`, retention | leader dispatches to agents | leader changes, late results, retries | one run per fire; terminal states stick; the last copy is never retired |
| Alert engine (`internal/alert`) | alert records | `Observe`, `dispatch`, scanners | several scanners share one store | duplicate observations, failed sends | one open record per fingerprint |
| Authentication (`internal/auth`), break-glass (`internal/breakglass`) | sessions in the control plane, an audit log | login, logout, token checks, emergency calls | control-plane commands | a disabled user's open session | a revoked credential stops working; no act without audit |
| Log manager (`internal/logmgr`), metrics, HTTP/RPC/CLI, web | files, samples | rotation, sampling, translation | – | I/O | not planned |

## 2. Plan

Done:

1. **Process plane** (`ProcessTypes`, `ProcessManager`), section 3, with proofs.
2. **Batch engine** (`BatchEngine`) with the owners' operation journals,
   section 4, with proofs.
3. **Backup runs** (`ClusterBackup`) and **disaster replication** (`Replication`)
   over the control plane's commands, with elections, leases and late results,
   both shown to implement one abstract specification (`RunPromise`), sections
   5 and 6.
4. **Membership** (`Membership`): join, promotion, removal, reconciler, section 7.
5. **Rolling update** (`UpdateEngine`), section 8.

6. **Proofs** of every safety and action property of the six models and of both
   refinements of `RunPromise`, sections 3 to 8; section 9 lists them.

Next, in this order:

7. Mesh and workload sync: versions, epochs, hints and fetches out of order.
8. Spec store under the manager's requests: revisions, rollback, and what a
   crash between two rows of one journaled operation leaves.
9. Users, roles and sessions: a login racing the end of its account, the last
   administrator; the alert engine's one open record per fingerprint.

## 3. The process plane

### Modules

* `ProcessTypes` – desired, observed and health states, the transition table
  (`observedTransitions`, `ApplyObserved`) and `DecideRestart`. `ApplyObserved`
  takes the value the caller falls back to when the transition is illegal,
  because each caller has its own.
* `ProcessManager` – the manager with its store, its shims and the host.
* `ProcessManagerProofs` – the theorems; `CrashLoopProofs` – the one about automatic
  restarts, which rests on them.
* `MCProcessManager` and the `Process*.cfg` – finite instances.

### State

| Variable | Code |
|---|---|
| `live`, `boot` | the kernel: which instance's child has which pid; boot id |
| `shim[i]` | the shim of instance `i`: socket file, serving, child, last exit code (`shim.server`) |
| `rt[i]` | pid in `runtime/<instance>.json` |
| `spec[p]` | instance count of the latest spec revision, 0 if none |
| `row[i]` | `process_instances` row: desired, observed, health, pid, exit code, boot id |
| `failures`, `nextTry`, `shimChk` | `Manager.failures`, `nextTry`, `lastShimCheck` |
| `mu` | holder of `Manager.mu` |
| `pc`, `job`, `todo`, `extra`, `snap`, `at`, `cur`, `after` | each thread: program point, the operation, the instances its pass still has to visit, those that are surplus, the rows it read when it began, the instance it is at, its local copy of the row, and what follows the `signalStop` it is in |
| `retries`, `lost`, `unrec` | history: automatic restarts since the failure record was cleared; live pids whose shim died; live pids that no row may be relied on to name |

### Actions

A pass (`reconcileLocked`) is cut at each call that leaves the agent: a shim is
asked, launched, told to start or stop, a probe is run. Between two such points
the code runs under the mutex without anyone else's interference except that of
the kernel, so each is one step. `PickNext` takes the instances in startup
order from the snapshot; `Refresh*` are the outcomes of `refresh`; `Decide*`
the branches of `reconcileInstance`; `BeginProbe`/`Probe*` the health check with
the mutex released; `Signal*` and `Stop*` are `signalStop` before and after the
shim's answer; `Start*` is `startInstance`. Operator requests are one step each
(`ApplySpec`, which is also `Rollback`'s effect on instances, `DeleteSpec`,
`SetDesired`, `ResetFailure`, `Adopt`), or begin a pass (`BeginKill`,
`BeginRestart`). `Recover` is the agent's start. `AgentCrash`, `HostReboot`,
`ChildExit`, `ShimDies` and `FailureExpires` are the environment.

Assumptions: time is not a clock (a backoff has elapsed or not, a probe interval
has passed or not: either may happen); a serving shim always answers (it serves
one connection at a time, a second client waits); the pid the kernel hands out is
free; the rows of one request are put in one step.

### Runs

| Run | Instance | Shows |
|---|---|---|
| `process_lifecycle` | one instance, one thread, 2 requests, 3 faults of crash, child exit, shim death, failed start, cancelled stop, one reboot; retries limited to 1 | `TypeOK`, `ChildrenBehindShims`, `OneCopyUnlessShimLost`, `NotRunningIsHonest`, `CrashLoopBounded` |
| `process_stale_pass` | two threads, web depends on db, db's stop signal is one its shim cannot parse, 1 request, 1 fault (agent crash, child exit or a start that is not committed) | a pass that goes on with rows another thread has replaced keeps `NotRunningIsHonest` (`OneCopyUnlessShimLost` is proved for any number of threads) |
| `process_scale` | two instances of one process, scaled 1–2, 3 requests, 1 fault (crash, child exit, shim death, uncommitted start) | `SurplusGoes` |
| `process_live` | 2 requests, 2 faults (crash, child exit, failed start, cancelled stop, failures leaving the window), one reboot, unlimited retries | `StopConverges`, `KeepsRunning` |

Bounds. Three faults allow a crash during the recovery from a crash, or a
dead shim, a dead child and a failed start in one history; two requests allow
stop-then-start and every pair of conflicting requests; two pids are enough for
an orphan and its successor, and a third start finds no pid (the shim's fork
fails). Two threads are needed for a pass to be overtaken at its probe; a third
thread adds no new kind of interleaving because everything else holds the mutex.
`CrashLoopBounded` is checked without `commit` and `expire` faults: a start
whose runtime file cannot be written is not counted by the code, and failures
that leave `RetryWindow` are meant to be forgiven. It is also checked with one
thread: a pass whose rows are stale may restart an instance for the exit of a child
that another pass has replaced, and `handleExit` does not record that exit. `NotRunningIsHonest` excepts
the process whose stop signal is refused: its row says STOPPED of a running
child, and no second copy is started even so.

Deadlock is checked except in `process_stale_pass`: there a `DeleteSpec` of db
leaves web with a dependency that has no spec, `StartupOrder` fails, and no pass
begins until an operator acts. That is what the code does (it is a listed
hazard), not a bound.

Fairness (`LiveSpec`): the agent's loop runs a pass every second and each pass
goes on (`WF` of `BeginReconcile \/ PassStep`); a backoff that is looked at
again and again has elapsed some time (`SF` of `DecideRetry`); the service
manager restarts a dead agent (`WF` of `Recover`, `deployments/systemd`). No
fairness is assumed of faults, probes' outcomes or operators. With two threads
the loop alone would be enough; the live runs use one.

### Where the code and its documents differ

All of these are behaviours of the model; the properties checked are the part of
each promise that holds.

* Second copy. The shim dies, its child lives on. If the operator stops and
  starts the instance before a pass has marked it UNKNOWN, `signalStop`
  (`reconcile.go:501`) takes the failed `Reconnect` for "nobody to stop", writes
  STOPPED with pid 0, and the next pass launches a second copy.
  `docs/superpowers/specs/2026-08-13-v1-mvp-architecture-design.md:275` says the
  agent never does that. `OneCopyUnlessShimLost` is the part that holds.
* Lost stop. A thread probes db with the mutex released (`reconcile.go:610`); an
  operator stops web; the thread goes on to web with the row it read before, and
  its put writes desired RUNNING back
  (`docs/superpowers/plans/2026-08-13-p0-local-process-plane.md:1253`: "do not change
  desired").
* Dead and RUNNING. A killed shim leaves its socket file and its child dies:
  `refresh` (`reconcile.go:213`) cannot reconnect, sees a dead pid and returns
  without touching the row, which stays RUNNING for ever (the same design, line
  276, has it started again). `KeepsRunning` is therefore checked without shim
  deaths.
* FATAL reopened. A child exits, retries are exhausted, the row becomes FATAL;
  its shim still serves, so the next `refresh` calls `handleExit` and the row is
  EXITED again, although `reconcile.go:110` says FATAL stays FATAL until
  `ResetFailure`. It becomes FATAL again in the same pass only while the failures
  are in memory and in the window; `RefreshDead` models it.

* Stale boot id. A stale put may bring back the row of a deleted spec, still RUNNING;
  the host reboots, and `Recover` does not visit a row without a spec. When the spec is
  applied again with fewer instances the row is surplus to a pass, which waits at a
  probe while the operator scales up and another pass starts the instance. The first
  pass then stops it by its copy, whose boot id is the old one, and puts that copy as
  STOPPING before the signal goes out (`reconcile.go:515`). If the agent dies before the
  answer, `Recover` writes STOPPED although the shim serves. `SignalSend` enters such a child in
  `unrec`, which `NotRunningIsHonest` excepts. It takes two threads, a reboot, a crash and
  several requests, more than the runs have: the proof of `NotRunningHonest` failed at this
  step.

### Proofs

`ProcessManagerProofs` proves, for any instances, processes, pids, threads,
policies and bounds that satisfy the named assumptions of `ProcessManager`:

* `TypeCorrect`: `Spec => []TypeOK`, one lemma per group of actions.
* `ChildrenStayBehindShims`: `Spec => []ChildrenBehindShims`. This is the
  inductive invariant: every live child is the child of its instance's serving
  shim unless it is in `lost`, and a serving shim has its socket file.
* `OneCopy`: `Spec => []OneCopyUnlessShimLost`.

`OneCopyUnlessShimLost` is not inductive: nothing in it forbids two shims' worth
of children to arise from a start that replaces a serving shim. The strengthening
says where a child can be. A start (`StartSpawn`) goes to a shim whose child is
dead, so the new child is the only one behind it; `StartLaunch` replaces a shim
only if `Reconnect` failed, that is when the socket file is missing or the shim
is down, and a shim that is up has its file, so nothing is orphaned by it;
`ShimDies` moves the child to `lost`; crashes of the agent change neither.
If two children of one instance were both outside `lost` they would both be the
one child of the same shim.

* `NotRunningHonest`: `Spec => []NotRunningIsHonest`, for any number of threads. A
  child is `Exposed` when it lives behind a serving shim and its row has to tell of it.
  The invariant `HonestInv` adds what the property leaves open: the row of an exposed
  child says RUNNING or STOPPING under the boot id of now (`Vouched`), or a thread stands
  between the spawn and the put. The boot id is what `Recover` goes by: with it, a
  restarted agent takes the child over, and without it, writes STOPPED. The rest says what a
  thread knows where it stands (`ThreadHonest`): it holds the mutex unless it is idle or
  probing; past a refresh, an exposed child's copy says RUNNING; nobody launches over an
  exposed child; a spawned child is the one the thread will put.

`CrashLoopProofs` proves `CrashLoopsEnd`: `Steady => (Spec => []CrashLoopBounded)`, for any
instances, policies, pids and numbers of requests and faults. `Steady` says there is one
thread, no `expire` and no `commit` fault, which is what the run has and why is said
under "Bounds". The count of restarts alone is not inductive, since it does not say why
no further restart comes. `LoopInv` relates it to the failures recorded: restarts are
at most one ahead of failures, and not ahead (`Answered`) whenever a row, or a copy of it
in the thread's hands or snapshot, leads to another restart with no further failure
recorded (`Due`: EXITED, BACKOFF or FATAL, or UNKNOWN with its shim serving). Since `DecideRestart`
restarts only while failures are below `MaxRetries`, the restart that follows stays within it. An
agent's crash clears both.

Only model-checked: the liveness properties.


## 4. The batch engine

An operator's batch is stored on the agent it was sent to (the entry agent). One
worker there takes batches off a queue and runs a goroutine per target, which
sends the operation to the target's owner under the operation id in the target
row. `RetryFailed` gives targets that failed a new id; `ReplayTimeout` sends a
target that timed out again under the old id, relying on the owner's journal to
answer what was already done. `Resume` enqueues unfinished batches when the agent
starts.

### Modules and state

`BatchEngine` is the engine with its API handlers, its store and the owners;
`BatchEngineProofs` holds the theorems; `MCBatchEngine` and the `Batch*.cfg` are
the instances.

| Variable | Code |
|---|---|
| `status[b]` | `batches.status`; `"none"` before `InsertBatch` |
| `st[x]`, `gen[x]` | `batch_targets`: status, and which of the ids minted for the target the row has |
| `queue[b]` | how often the batch id is in `Engine.jobs` or in a goroutine waiting to put it there |
| `ident` | operation ids in `BatchAPI.idents` (in memory: a restart loses them) |
| `wpc`, `wb`, `wstat` | the worker in `runBatch`: point, batch, the status rolled up and not yet written |
| `run[x]` | the target's goroutine: waiting for a slot or executing, the id it holds, its request, the answer that has come |
| `hpc`, `hb`, `hkind`, `htodo`, `hdone`, `hgen` | each API handler: point, batch, retry or replay, rows left and done, the ids it read and minted |
| `sent`, `flight`, `busy` | requests sent per operation; under way; being carried out by the owner |
| `jour`, `effects` | the owner's `operation_journal`; how often the operation was carried out |
| `unclear` | history: operations of which an execution was cut, overlapped another, or was answered with an error after it was done |

FAILED stands for FAILED, DENIED, CONFLICT and INVALID, which the engine treats
alike. Selector expansion is a choice of initial statuses (`InitStatuses`); the
summary counters, listing and export are left out.

### Actions

Each SQL statement of a handler or of the worker is a step, because others may
come between: a handler reads (`BeginReset`), resets row by row (`ResetTarget`;
`ResetRefused` when the id is gone), binds the caller (`EndReset`), sets RUNNING
(`MarkRunning`), enqueues (`Enqueue`), remembers the caller for what it returns
(`Remember`). `RequestCancelled` ends a request between two of them. `runBatch` is
`WorkerTakes`, `WorkerReads`, `WorkerMarks`, the goroutines, `WorkerCounts`,
`WorkerWrites`. `runTarget` is `TargetStarts` or `TargetGone`, then one of
`TargetAnswered`, `TargetUnavailable`, `TargetTimesOut`. A request that has timed
out stays under way and may still arrive. A remote target without a remembered
principal is not sent and times out (`remoteMissingPrincipal`).

The owner refuses before it looks (`OwnerDenies`), answers from the journal
(`OwnerRepeats`), or begins; `Finished` is `beginOp`'s test, which a PENDING entry
does not pass. An execution ends journaled and answered (`OwnerSucceeds`,
`OwnerRefuses`), journaled SUCCESS and answered with an error because the
`Reconcile` after it failed (`ReconcileFails`), or cut with the entry PENDING
(`OwnerCut`). Two executions of one operation may overlap, since a pass releases
the manager's mutex. `AgentStops` loses everything in memory and cuts what the
entry agent was carrying out itself; `AgentStarts` is `Start` and `Resume`.

### Runs

| Run | Instance | Shows |
|---|---|---|
| `batch_run` | two batches, one remote and one local target, 2 restarts, 1 cut, creates only | `TargetsEnd` |
| `batch_operators` | one remote target, two handlers, 4 requests of either kind, 1 restart, 1 cut | `TypeOK`, `EffectOnceUnlessUnclear`, `SuccessIsReal`, `TwiceOnlyIfUnclear` |
| `batch_retries` | two remote targets, two handlers, 3 requests (create, retry), one of them cancelled | `RunnerOwnsRow`, `SuccessSticks` |

Bounds. `TargetsEnd` needs two restarts (one during the recovery from the other)
and two batches (a resumed one behind another). Three requests with two handlers
are a create and two resets at the same time: enough for every race of two resets
with each other and with the worker. A fourth lets a stale replay meet a completed
replay and a retry, the longest of these races and the only way for a goroutine to
find its row gone (`TargetGone`). Deadlock is not checked: when all batches have ended and nobody asks
for anything, the engine rests. `Kinds` restricts the requests: `TargetsEnd` is
stated for batches nobody retries, because a retry can be lost (below), and
`RunnerOwnsRow` and `SuccessSticks` for retries only, because a
stale replay breaks both.

Fairness (`LiveSpec`): the worker and the goroutines go on, an executing target
ends because its context has a deadline, a handler goes on, and the service
manager starts a dead agent. Owners and the network owe nothing.

### Where the code and its documents differ

All of these are behaviours of the model.

* Lost retry. The worker rolls up FAILED; a retry resets the target, sets the
  batch RUNNING and enqueues it; the worker writes FAILED (`engine.go:267`); taking
  the batch off the queue it finds it ended and drops it. `batch/types.go:94` says
  "Any PENDING/RUNNING keeps the batch RUNNING".
* Stale replay. Two replays read TIMEOUT, the first runs to SUCCESS, the second
  sets the row PENDING and sends it again (`engine.go:406`), although
  `docs/superpowers/plans/2026-08-16-q2-batch-operations.md:45` says SUCCESS is never
  replayed. The owner's journal answers it: `EffectOnceUnlessUnclear` holds.
* An execution is cut before `finishOp`; a replay finds the journal PENDING and
  carries the operation out again, although
  `docs/superpowers/plans/2026-08-14-p1-connectrpc-cli.md:49` rules a repeat out.
  `EffectOnceUnlessUnclear` is the part that holds.
* The connection breaks after the owner acted; `MapCallError` says UNAVAILABLE,
  which counts as definite and is retried under a new id, although
  `2026-08-16-v1.1-architecture-design.md:246` makes every unknown outcome
  TIMEOUT. `TwiceOnlyIfUnclear` is the part that holds.
* The agent stops after the last target ended and before the batch's status is
  written; `Resume` looks for unfinished targets only and the batch stays RUNNING.

### Proofs

`BatchEngineProofs` proves, for any batches, targets, handlers and bounds that
satisfy `BatchConstants`:

* `BatchTypeCorrect`: `Spec => []TypeOK`.
* `CarriedOutOnce`: `Spec => []EffectOnceUnlessUnclear`. The inductive invariant
  `Journaled` says that, for an operation of which nothing was lost, the journal
  tells how often it was carried out (once if SUCCESS, else never), that at most
  one request of it is being carried out, and that the entry is then PENDING.
  The middle part is what makes it inductive: without it a second execution
  could finish after the first.
* `SuccessReal`: `Spec => []SuccessIsReal`, by `Real`: a SUCCESS in the journal, in an
  answer on its way, or in a row stands for an effect under that id. A row's id
  changes only together with its status.

* `TwiceOnlyIfLost`: `Spec => []TwiceOnlyIfUnclear`, for requests of both kinds. The
  invariant is `OnceInv`. Requests are numbered and none is sent under an id the row has
  not had (`Numbered`); the owner has no entry for an operation whose one request has not
  arrived (`Unopened`); and, for a target nothing of which was lost or sent twice
  (`OneLives`), every id but the row's present one is dead: it was not carried out and
  no request of it is left. A retry may give an id up only when it is dead
  (`DeadWhenRetried`), because the row says FAILED or UNAVAILABLE by an answer, and it stays
  dead because a goroutine sends only under the id the row still has (`TargetStarts`).
* `RunnersOwnRows` and `SuccessesStick`: `RunnerOwnsRow` and `SuccessSticks` (an action
  property) where operators only retry, `Kinds \subseteq {"retry"}`, for any number of them.
  With replays both are false (stale replay, above). By `RunsInv`: a row with a goroutine is open and
  under the goroutine's id, a row that some retry may still reset has failed, and two
  retries are kept apart by the new id the first one mints, which the second has not
  read.

Only model-checked: `TargetsEnd`.


## 5. Cluster backup runs

A policy says which nodes to back up and when. The raft leader's agent looks at it
every second (`Coordinator.Tick`): it takes over runs of older terms whose lease has
run out, then claims the due fire, which creates the run with its targets frozen,
and dispatches a task to each target. Operators start runs and retry failed tasks
through the API, whose dispatches run beside the loop's. All of it is recorded in
the replicated `control.State`.

### Modules and state

`RunLedger` has the words for the statuses of runs and tasks and
`aggregateTerminalRun`; `RunPromise` is the abstract specification; `ClusterBackup` is
the detailed one; `MCClusterBackup` and two cfgs are the instances;
`RunLedgerProofs` (shared with replication) and `ClusterBackupProofs` are the proofs.

| Variable | Code |
|---|---|
| `term`, `leader` | hashicorp/raft (external) |
| `policy`, `admitted` | `BackupPolicies` (one), `Members` |
| `fires[f]` | the fire ledger (`FireRecord`): status and term |
| `runs[r]`, `tasks[r][n]`, `runTerm[r]` | `BackupRuns`, `BackupTasks`, `BackupRunTerms`: status, revision, targets, lease, counters; status, term and snapshot of each task |
| `due`, `memo[n]` | the latest fire the schedule gives; `Coordinator.dispatch` |
| `loop[n]` | where agent `n`'s `Tick` is, with what it has read |
| `jobs[n][k]` | a `dispatchFrozenTargets` of the loop or of the API: targets left, a worker per target under way, its lease, fail-fast |
| `spec[n]`, `disk[r][n]` | version of the node's process specs; the version its backup index holds for the run |

Actions: `TickBegin`, `RecoverOne`, `RecoverDispatch`, `ReadPolicies`, `ClaimFire`, `TickEnd`
are `Tick`; `Take`, `CancelNext`, `Skip`, `Call`, `Persist`, `Fallback` are the dispatch loop
and its goroutines up to the agent's `RunClusterTask`; `PutPolicy`, `DeletePolicy`,
`RemoveMember`, `StartRun`, `RetryRun` are the API. Each raft command is a step, because
an election may come between two. A command of an agent that no longer leads fails;
one may also be committed and still be reported as failed (`"fault"`). A follower that
authorizes a task looks at its own copy of the state, which may be older; a leader's
is not. Leases are states, not clocks: a lease ends when it ends, but a dispatch's
never outlives its run's.

The targets of a run are a list, in the order of the node ids (`ById`) where the code
sorts them and in the order of the request where it does not; what a dispatch has
left is a set of places in that list, taken from the foremost on.

### The promise, and the refinement

`RunPromise` says what a reader of a run's record may rely on: a run opens once with a
frozen plan; each unit reports good or bad; the last report and the verdict are
written together, and the verdict is the sum of the reports; good reports are never
withdrawn, bad ones only by reopening the run. No term, lease or message appears in
it. `KeepsPromise` is `Promise!Spec` under the mapping of targets to units, of task
statuses to reports (`ReportOf`) and of the run's status to the verdict. A late write of
a deposed leader, a second claim or a retry that crosses a result would show as a
step the promise has no action for. `Replication` implements the same promise with
its routes as units.

### Runs

| Run | Instance | Shows |
|---|---|---|
| `backup_run` | two nodes, each selector of targets (explicit ids out of order included), one fire, two terms, one event of crash, fault, lost call, edit or retry | `LedgerAgrees`, `SuccessIsBacked`, `OneLoopPerRun`, `DeposedWriteNothing`, `KeepsPromise` |
| `backup_live` | a fire or a manual run, fail-fast, both targets at a time, two terms, one crash or lost call | `RunEnds` |

Two terms are one change of leader, with the old leader's loop and dispatch still
going; one event on top of it is a crash during the takeover, a retry between
takeover and late result, or an answer lost on either side. Deadlock is not checked:
when all is done the cluster waits for the next fire.

Fairness (`Spec`): goroutines and the one-second loop go on, leases are timers, and a
cluster without a leader elects one. Nothing is assumed of calls, answers or
operators. `RunEnds` leaves faults, edits and retries out because each of them can
leave a run RUNNING, see below.

### Where the code and its documents differ

* A takeover claims runs one after the other and returns on the first error
  (`agent/backup_scheduler.go:121`): the runs already claimed have a fresh lease and this
  term, and nobody dispatches them before a newer term.
* The last `UpdateTask` of a goroutine may fail and its error is dropped
  (`backup/coordinator.go:301`, `:339`): the task stays open and the run RUNNING until a
  newer term takes it over.
* `RetryFailedTasks` of a RUNNING run moves the run's term on even if nothing is retried
  (`control/fsm.go:1823`); its dispatcher is refused from then on and the takeover, which
  asks for an older term, passes the run by.
* A policy edited in the middle of a run makes its targets refuse the remaining tasks
  (`authorizeClusterBackupTask` compares revisions), although the design
  (`2026-08-19-cluster-backup-disaster-replication-design.md:500`) says the run goes on
  with the revision it froze. A deleted and recreated policy starts again at revision
  1, so the comparison may also pass for another policy.
* `validateRunTargets` compares explicit ids in their stored order while the
  scheduler sorts them: such a policy's fires are refused for ever, and the error ends
  the `Tick`, so that the policies after it are not looked at (`coordinator.go:197`).
* `RunClusterTask` "returns the existing result" when repeated (`backup/engine.go:1134`);
  it fails when the specs have changed in between. `SuccessIsBacked` holds either way.
* `FinishRun`, `PruneRunMetadata` and the two-step `ClaimFire` of the coordinator are never
  reached in production and are not modelled.
* The term of a run may go back. A retry that finds nothing to retry moves the run's
  term on and leaves its fire's (`control/fsm.go:1829`); a `Tick` that began in a term
  between the two then claims the fire of the expired run, which compares terms with
  the fire only (`fsm.go:1391-1415`), and sets the run's term to its own. Three terms are
  needed for it, so the two-term instance does not show it; the proof attempt did.
  `DeposedWriteNothing` says exactly when it may happen, and that no task changes in
  that step.

### Proofs

`ClusterBackupProofs` proves, for any finite set of nodes, any fires, runs, terms and
events that satisfy `BackupConstants`:

* `BackupTypeCorrect`, `LedgersAgree` (`LedgerAgrees`), `SuccessesAreBacked`,
  `OneLoopWorksOnARun` (`OneLoopPerRun`), `DeposedLeadersWriteNothing`;
* `BackupKeepsPromise`: `Spec => KeepsPromise`, the whole refinement of `RunPromise`.

Whatever commits, the ledger of fires, runs and tasks takes one of six steps
(`LedgerStep`): nothing, a run is created, taken over, or loses its lease, a task ends,
a run is retried. What the theorems say of the ledger is shown once for the six, and
each action is shown to take one of them; the refinement maps the six to the steps
of the promise. The inductive invariant `Inv` adds:

* to `LedgerAgrees`, that a run that does not exist has no targets and no owner
  (`BlankUntilCreated`) and that only targets have tasks (`TasksOfTargets`), else the
  last task to end would not be the last;
* to `SuccessIsBacked`, that a goroutine that is about to record a success has seen
  the target's answer and the disk still holds that snapshot (`WorkerOK`);
* to `OneLoopPerRun`, which concerns two agents that both think they lead, the
  argument `Race`: a term has one leader, so two Ticks have different terms
  (`OneTickPerTerm`); a live dispatch means the run's lease is live (`LiveHasLease`),
  and a claim asks for an expired lease; what is left is a Tick that has claimed a
  run and not dispatched it yet, and `ClaimedAlone` says that, while the run is still of
  its term, no other loop works on it. If the term has moved on, its dispatch finds
  the lease refused.

TLC checks `Inv` too: on the instance of `backup_run`, and by simulation with three terms,
a manual run, fail-fast and two events.

Only model-checked: `RunEnds`.


## 6. Disaster replication

A replication run copies, over each route of its policy, one snapshot of the source's
specs to the target. It shares the ledger's commands with backups but not their use:
a fire takes two commands (create the run, enter the fire), a leader may claim its
own run again after the lease, a task is begun before it is dispatched, and the
snapshot is captured on the way and noted in the task.

`Replication` has `fires`, `runs`, `tasks`, `runTerm` as above; `loop[n]` is
`ClaimReplicationRuns` followed by one `DispatchRun` after the other; `api[n]` is a `StartRun`
between its look for a running run and its command; `work` is the set of route
goroutines (which outlive the `DispatchRun` whose lease ended); `taken` and `replica` are the
snapshots at source and target. `Apply` is one command of an agent with what its
caller is told. `CaptureHere`/`NoteCaptured` and `CallSource` are the local and the remote way
of a capture, `Push` and `LatePut` the transfer, `FinishTask` and `LastWord` the two attempts to
record the end.

`replication` checks, on two nodes with one or both routes, a fire or a manual run, two
terms and up to two events (lease, crash, fault, lost or late call, edit, retry; a fault
is also a capture that cannot be stored, a lost call one that meets a lagging source; one
event less with both routes): `SuccessIsStored`, `ClaimedHasRun`, `OwnerWrites`,
`KeepsPromise`. One run at a time is enough for these, since no action reads another
run's tasks except to skip a fire; the interesting orders are those of two owners, or
of one owner before and after its lease, on the same tasks.

`OwnerWrites` says of each change of a task that its status changes only under the
run's own term, and that a snapshot once noted is neither lost nor exchanged by a
begin or a retry: the only thing that may replace it is the end of a goroutine, which
records what it pushed.

Where the code and its documents differ:

* A task that was RUNNING when its leader stopped, or whose `LastWord` failed
  (`backup/replication_coordinator.go:184`), is not retryable
  (`agent/replication_scheduler.go:303`): takeovers claim the run and leave the task, the
  run stays RUNNING, and every later fire of its policy is SKIPPED. No liveness
  property of runs holds, and none is stated.
* `StartRun` and the scheduler look for a RUNNING run first and create theirs in a
  later command (`api/disaster_replication.go:557`): two runs of a policy may be RUNNING,
  although the design (line 304) allows one.
* A takeover begins FAILED tasks directly, while the design (line 345) has them made
  PENDING first.
* A retry whose snapshot the source's retention has dropped pushes the name it has
  and fails; the design (line 308) has it captured again.

### Proofs

`ReplicationProofs` proves, under `ReplicationConstants`, `ReplicationTypeCorrect`,
`SuccessesAreStored` (`SuccessIsStored`), `ClaimedFiresHaveRuns`, `OnlyOwnersWrite`
(`OwnerWrites`) and `ReplicationKeepsPromise`, the refinement of `RunPromise`. The argument
is that of section 5: six steps of the ledger (`Opens`, `Leases`, `Begins`, `Settles`,
`Retries`, none), each action shown to take one. The inductive invariant adds what the
processes carry: a goroutine works on a route of its run and believes in a success
only while the replica is what it pushed (`WorkerOK`); a fire on its way to be entered
as claimed has its run (`LoopOK`), which no later command removes.


## 7. Membership

A node joins with a token: the leader signs its request, `join_prepare` spends the token
and makes it JOINING, raft gets it as a nonvoter, `join_complete` makes it ADMITTED, and
the joiner installs the certificate. Promotion prepares a capability, transfers the CA
key, marks it READY and adds the vote. Removal marks the member and drops it from
raft. The leader's reconciler repairs what an interrupted operation has left.

| Variable | Code |
|---|---|
| `term`, `leader`, `config` | hashicorp/raft (external) |
| `members`, `attempts`, `tokens`, `crl`, `caps`, `group` | `State.Members`, `JoinAttempts`, `JoinTokens`, the revoked serials, `AdmissionCapability.Nodes`, an agent group |
| `op[l]` | the one operation that holds `membershipMu` on agent `l`, where it is and what it has read |
| `boot` | the founder's start is in `ensureLocalMemberAdmitted` |
| `pending`, `bundle`, `key` | `join.pending.json`; `agent.crt` with its key; `ca.key` |
| `wait[n]` | whom the joiner's call waits for |

Each command, configuration change and call is a step of `op[l]`; the operation goes on
across its leader's term and fails at the next thing only a leader can do. A fault is
a command that fails or only seems to. A certificate is the request it was made for
and a number, so that a retry can be answered with the wrong one.

`membership` checks three nodes, one token with two uses, two join calls, two requests of
administrators (remove, promote, revoke a token, change a group), elections up to term
3 and one event (restart, fault, expiry, mixed versions): `TokenSpentOnce`,
`CertIsTheMembers`, `AdmittedIsConfigured`, `VoterHoldsKey`, `GroupIsAdmitted`, `RevokedStays`,
`Converges`. Three nodes are a founder, a node that becomes voter and leader, and one that
joins through either; two calls are a retry or two joiners; two requests are a
promotion and a removal, or a removal during a join. Fairness (`LiveSpec`): an
operation goes on until it ends, the leader's ticker starts passes, raft elects a
leader when there is none. Requests and events are bounded, so that `Converges` says
what happens once they stop.

Where code and documents differ, or the code may surprise:

* The founder, removed and restarted, admits itself again if it is elected while it
  waits (`agent/raft.go:267`; `AdmitBootstrapMember` does not look at REVOKED and is outside
  the mutex). `RevokedStays` and `AdmittedIsConfigured` leave it out.
* Promoting a voter again replaces its READY entry (`control/capability.go:493`); until the
  promotion ends, that node as leader can admit nobody.
* A removed node that is the only voter is never dropped.

### Proofs

`MembershipProofs` proves, for any finite set of nodes, any tokens, calls, terms and
events that satisfy `MembershipConstants` and `NoneIsNoRecord`: `MembershipTypeCorrect`, `TokensSpentOncePerNode`
(`TokenSpentOnce`), `CertificatesFollowMembers` (`CertIsTheMembers`),
`AdmittedNodesAreConfigured`, `VotersHoldTheKey`, `GroupsHoldAdmitted`, `RevokedForGood`
(`RevokedStays`). What the inductive invariant `Inv` adds to them and to the types:

* an operation that reads and goes on later still holds what it read. A join past its
  prepare goes on with the certificate of the attempt (`JoinHasAttempt`); one about to
  complete is of a node raft has, or that was REVOKED meanwhile
  (`CompletesConfigured`), which `AdmittedIsConfigured` needs because the two commands are
  apart; a promotion past the transfer is of a node with the key (`TransferFirst`),
  which is what `VoterHoldsKey` rests on when the vote is added; what removal and
  reconciler drop is REVOKED (`DropsRevoked`).
* the joiner and the leader agree: whom a joiner waits for runs the join of the
  `join.pending.json` it keeps (`WaitsForItsJoin`), so the answer it installs is that of its
  own request. Without it a retry could install the certificate of the call before.
* `RevokedStays` is an action property; it follows from the same invariant, one step per
  action.

Only model-checked: `Converges`.


## 8. The rolling update

The entry agent keeps update jobs in its database. One worker takes a job, and node
after node, in the order fixed when the job was made (others, the leader, the entry
last), calls the node's `Apply` and waits until gossip shows it alive on the pinned
release. `Create`, `CancelRemaining` and `Retry` are requests of their own.

| Variable | Code |
|---|---|
| `jobs` | `update_jobs`, `update_job_targets`: status, release, request, cancel flag, order (`order_index`, a numbering of the nodes); per target status and operation id |
| `queue`, `worker` | `Engine.jobs`; `runJob`: the places of the order it has still to visit, the operation id it read for each node, the status it is about to write |
| `hs[h]` | API handlers between two database calls; what a `Retry` has still to replace is a set of places with the operation ids it read |
| `idents` | principals the entry holds per operation (`bindTargets`), lost with the process |
| `node[n]` | up, running and installed release, the `Apply` under way and whether its caller still waits |
| `seen[n]` | what gossip shows the entry |
| `ran`, `raced`, `late` | history: releases a node has run; jobs two retries read before either set them RUNNING; targets begun after the cancel flag |

The order of a job is the one member of `OrderTargets`: eligible nodes by rank, then the
skipped ones, each by host name. `Target` is the node at the first place the worker has
left, and `OwnTarget` says that the row there is still the one it read. `PickTarget` reads the
job again before every target, as `runJob` does, and when it finds the cancel flag the
places left become those that are PENDING at that moment (`cancelPending`).
Each SQL statement, remote call and event is a step. TIMEOUT and CONFLICT are written
FAILED, since the engine treats the three alike. A failing database write is not
modelled. So the pass that `runJob` gives up when it cannot write the end of a row it
found in flight (`engine.go:397`) does not occur: no request replaces such a row, because
a `Retry` is refused as long as one is in flight and no handler outlives the restart that
leaves it. `Create`'s probes and look-ups are one step: its insert meets whatever
has changed since by the unique indexes. `rememberPrincipal` binds the ids that were read with the
job (`minted`), which a retry may have replaced by then.

`update_roll` checks two nodes, two jobs and requests, two handlers, three requests, one
event (crash or an apply by hand), with handlers and requests symmetric:
`OneJobInFlight`, `RollsOneByOne`, `OwnRestartLosesNothing`, `WorkerOwnsTarget`,
`CancelStopsTheRoll`, `NoOrphanJob`, `SuccessKept`. Three requests with two handlers are a
create, a cancel and a retry, or a create and two retries in every order; the crash
comes on top. The entry's own update is a restart that costs no event. Deadlock is not
checked: with all jobs ended the engine rests.

Five of the properties except jobs in `raced`. Two `Retry` requests of one job may both read it
ended (`engine.go:262-325`); the second can then replace a row (`:293`) under the worker
the first has started. The write of the row's end finds nothing and its error is
dropped (`:496`), so `haltRemaining` does not see a failure and the next node is begun,
although `docs/QUICKSTART_ZH.md:882` says the updater waits for each node; a SUCCESS may be
put back, although `engine.go:261` says it is left unchanged; and a job may stay RUNNING
with nobody to run it until the agent restarts. After a restart of the entry remote
targets that are left have no principal and end TIMEOUT.

A new job skips a node as BUSY while an apply that an earlier job gave up on still goes
on there (`update/status.go:148`): two nodes may then restart at the same time.

### Proofs

`UpdateEngineProofs` proves, for any finite set of nodes, any jobs, releases, requests and
handlers and any number of calls and events that satisfy `ConstantsAssumption`, the type
invariant (`UpdateTypeCorrect`) and every property of the run: `UpdateOneJobInFlight`,
`UpdateRollsOneByOne`, `UpdateOwnRestartLosesNothing`, `UpdateWorkerOwnsTarget`,
`UpdateCancelStopsTheRoll`, `UpdateNoOrphanJob` and, as an action property of the same
invariant, `UpdateSuccessKept`. The invariant `Inv` has two parts.

`Common` holds of every job, the ones two retries raced for included:

* one job is RUNNING at most (`OneRunning`, the unique index) and a row in flight is one
  of a RUNNING job (`RunningRowRunningJob`); together they are `OneJobInFlight`. The second is
  inductive only because the worker works on a RUNNING job and writes its end after it
  saw no row in flight (`WorkerOn`), which is why `settle` carries what was read.
* the one node whose `Apply` has a caller is the worker's target (`CallerIsWorker`), so an
  answer or a restart moves the worker on only where it waits.
* what a node runs and what gossip shows has run there, and what is being installed is
  a release (`HasRun`); hence a SUCCESS, which `waitReady` takes from gossip, has run
  (`SuccessHasRun`). `RollsOneByOne` needs it for the nodes before the target.
* a target begun under the cancel flag is the last until the flag is cleared
  (`LateOnce`): the worker in `start` has not begun one.
* a handler between two calls goes on with a job that exists and an order that was
  computed (`HandlerOK`).

`Sound(j)` holds of a job as long as no two of its retries overlapped:

* skipped rows come last and nothing but skipped ones after the entry's own
  (`SkippedLast`); what is before a row in flight has succeeded (`SuccessBefore`). The two
  give `RollsOneByOne` and `OwnRestartLosesNothing`.
* cancelled rows of a RUNNING job exist only under its flag (`RunSound`). This is what
  `SuccessBefore` needs of a retry: it clears the flag (`ClearCancel`) only after it has
  put every cancelled row back, since it is alone with a job that does not run
  (`RetrySound`).
* the worker finds the rows as it left them (`WorkerSound`): its operation ids are those
  of the table, what it has passed is neither PENDING nor in flight, the target it
  starts is PENDING and nothing has failed before. It rests on `RetrySound`: no retry
  replaces a row of a RUNNING job.
* somebody will take a RUNNING job on (`Cared`, which is `NoOrphanJob`). For a worker that
  puts a job back RUNNING (`Finalize` with a row in flight) it needs `WorkerSound` again:
  there is no such row. A job made with nothing eligible is never queued and has
  nothing to do (`BindSound`), so a retry of it finds no row.

Without the exception of `raced` jobs, `Sound` is false; the behaviours are those described
above.


## 9. What is proved and what is only checked

Proved with TLAPS, for all values of the constants that satisfy the named assumptions:

| Module | Theorems | Inductive invariant |
|---|---|---|
| `ProcessManagerProofs` | `TypeCorrect`, `ChildrenStayBehindShims`, `OneCopy`, `NotRunningHonest` | `TypeOK`, `ChildrenBehindShims`, `HonestInv` |
| `CrashLoopProofs` | `CrashLoopsEnd` | `CountInv`, with the ones above |
| `BatchEngineProofs` | `BatchTypeCorrect`, `CarriedOutOnce`, `SuccessReal`, `TwiceOnlyIfLost`, `RunnersOwnRows`, `SuccessesStick` | `TypeOK` with `Journaled`, `Real`, `OnceInv`, `RunsInv` |
| `ClusterBackupProofs` | `BackupTypeCorrect`, `LedgersAgree`, `SuccessesAreBacked`, `OneLoopWorksOnARun`, `DeposedLeadersWriteNothing`, `BackupKeepsPromise` | `Inv`: the ledger, what loops and dispatches carry, `SuccessIsBacked`, `Race` |
| `ReplicationProofs` | `ReplicationTypeCorrect`, `SuccessesAreStored`, `ClaimedFiresHaveRuns`, `OnlyOwnersWrite`, `ReplicationKeepsPromise` | `Inv`: the ledger, what the goroutines carry, `SuccessIsStored`, `ClaimedHasRun` |
| `MembershipProofs` | `MembershipTypeCorrect`, `TokensSpentOncePerNode`, `CertificatesFollowMembers`, `AdmittedNodesAreConfigured`, `VotersHoldTheKey`, `GroupsHoldAdmitted`, `RevokedForGood` | `Inv` |
| `UpdateEngineProofs` | `UpdateTypeCorrect`, `UpdateOneJobInFlight`, `UpdateRollsOneByOne`, `UpdateOwnRestartLosesNothing`, `UpdateWorkerOwnsTarget`, `UpdateCancelStopsTheRoll`, `UpdateNoOrphanJob`, `UpdateSuccessKept` | `Inv`: `Common`, and `Sound` of jobs whose retries do not overlap |

`RunLedgerProofs` holds the lemmas on counters and verdicts that backups and
replication share. `RunPromise` is proved to be refined by both.

Every safety invariant and every action property of the runs is among them, stated as the
run states it. Three carry the restriction of their run as a hypothesis, since the code
breaks them beyond it: `CrashLoopBounded` (`Steady`, section 3), `RunnerOwnsRow` and
`SuccessSticks` (retries only, section 4). The same properties are checked by TLC on the instances above, which is how a wrong one was
found before a proof of it was tried; the invariants of the proofs were checked the same
way.

What stays with TLC:

* Liveness: `StopConverges`, `KeepsRunning`, `SurplusGoes`, `TargetsEnd`, `RunEnds`, `Converges`. Fairness
  and ENABLED are outside the prover's reach.

Every property of a run has a mutant, an operator with the name of the code's mistake
next to the definition it replaces; the run must fail with it.


## 10. Not modelled

* Spec revisions, the mesh and workload sync, users, roles and sessions, the alert
  engine: in reach, next in the plan. Known hazards there: a late push/pull stored
  under a newer version (`store`, `cluster/mesh.go:643`); `RollbackSpec` (`store/spec.go:285`) does not
  run the cycle check; a login that races disabling and enabling its user
  (`auth/auth.go:105`).
* Contents of snapshots, sinks, retention, restore, route generation: archives, files
  and sorting, with no interleaving of their own.
* Probing, downloads, installation: I/O whose outcome is a free choice in the models.
* Raft (hashicorp/raft), memberlist and SQLite: external, modelled by what the code
  relies on.
* Log manager, metrics, HTTP/RPC/CLI front ends, break-glass, web: I/O and translation.
