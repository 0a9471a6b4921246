---------------------------- MODULE BatchEngine ----------------------------
(***************************************************************************)
(* internal/batch.Engine on its entry agent: the store's batch and target  *)
(* rows, the job queue, the one worker with a goroutine per target, the    *)
(* API handlers that create, retry and replay, and the owners the targets  *)
(* are sent to, each with its operation journal.                           *)
(*                                                                         *)
(* An operation id is a pair <<x, g>>: the g-th id minted for target x.    *)
(* Target statuses the engine treats alike share a name: FAILED stands for *)
(* FAILED, DENIED, CONFLICT and INVALID.                                   *)
(***************************************************************************)
EXTENDS Naturals, FiniteSets

CONSTANTS
  Batches,
  Targets,
  BatchOf,      \* BatchOf[x]: the batch of target x
  Remote,       \* targets whose owner is another node
  Handlers,     \* API handlers that may run at the same time
  Concurrency,  \* Engine.Concurrency, clamped
  InitStatuses, \* statuses Expand may give a new target
  Kinds,        \* requests operators make besides create
  MaxRequests,  \* bound: create, retry and replay requests
  MaxCancels,   \* bound: requests whose context ends
  MaxCrashes,   \* bound: agent restarts
  MaxCuts,      \* bound: executions and answers lost on the owner's side
  NoBatch

MaxGen == MaxRequests + 1
Gens == 1..MaxGen

Open == {"PENDING", "RUNNING"}
TargetStatus == Open \cup {"SUCCESS", "FAILED", "UNAVAILABLE", "TIMEOUT"}
Ended == {"COMPLETED", "PARTIAL", "FAILED"}
Status == Open \cup Ended

ASSUME BatchConstants ==
  /\ BatchOf \in [Targets -> Batches]
  /\ Remote \subseteq Targets
  /\ Concurrency \in Nat \ {0}
  /\ InitStatuses \subseteq {"PENDING", "FAILED", "UNAVAILABLE"}
  /\ Kinds \subseteq {"retry", "replay"}
  /\ MaxRequests \in Nat /\ MaxCancels \in Nat /\ MaxCrashes \in Nat /\ MaxCuts \in Nat
  /\ NoBatch \notin Batches
  /\ IsFiniteSet(Targets)

VARIABLES
  \* --- store of the entry agent -----------------------------------------
  status,   \* status[b]: batches row, "none" before it is inserted
  gen, st,  \* gen[x], st[x]: operation id and status of the target row
  \* --- memory of the entry agent ----------------------------------------
  up,
  queue,    \* queue[b]: ids of b in Engine.jobs or on their way into it
  ident,    \* operations whose principal BatchAPI.idents holds
  wpc, wb, wstat,  \* the worker: where, which batch, the status it computed
  run,      \* run[x]: the goroutine of target x, its operation and request
  hpc, hb, hkind, \* each handler: where, which batch, retry or replay,
  htodo, hdone,   \* targets left to reset, targets reset,
  hgen,           \* ids it read and minted
  \* --- owners and network -----------------------------------------------
  sent,     \* sent[x][g]: requests sent for operation <<x, g>>
  flight,   \* requests <<x, g, n>> that have not reached the owner
  busy,     \* requests the owner is carrying out
  jour,     \* jour[x][g]: the owner's operation_journal
  effects,  \* effects[x][g]: times the operation was carried out
  unclear,  \* operations whose journal entry or answer was lost (history)
  \* --- budgets ----------------------------------------------------------
  requests, cancels, crashes, cuts

storeVars   == <<status, gen, st>>
workerVars  == <<wpc, wb, wstat>>
handlerVars == <<hpc, hb, hkind, htodo, hdone, hgen>>
ownerVars   == <<sent, flight, busy, jour, effects, unclear>>
budgets     == <<requests, cancels, crashes, cuts>>
vars == <<storeVars, up, queue, ident, workerVars, run, handlerVars, ownerVars, budgets>>

Ops == Targets \X Gens
Requests == Targets \X Gens \X Nat
Answers == {"none", "SUCCESS", "FAILED", "UNAVAILABLE"}
Idle == [s |-> "none", g |-> 1, n |-> 0, a |-> "none"]
Run == [s : {"none", "queued", "exec"}, g : Gens, n : Nat, a : Answers]

TypeOK ==
  /\ status \in [Batches -> Status \cup {"none"}]
  /\ gen \in [Targets -> Gens]
  /\ st \in [Targets -> TargetStatus]
  /\ up \in BOOLEAN
  /\ queue \in [Batches -> Nat]
  /\ ident \subseteq Ops
  /\ wpc \in {"idle", "look", "mark", "wait", "write"}
  /\ wb \in Batches \cup {NoBatch}
  /\ wstat \in Status
  /\ run \in [Targets -> Run]
  /\ hpc \in [Handlers -> {"idle", "reset", "mark", "enqueue", "return"}]
  /\ hb \in [Handlers -> Batches \cup {NoBatch}]
  /\ hkind \in [Handlers -> {"retry", "replay"}]
  /\ htodo \in [Handlers -> SUBSET Targets]
  /\ hdone \in [Handlers -> SUBSET Targets]
  /\ hgen \in [Handlers -> [Targets -> Gens]]
  /\ sent \in [Targets -> [Gens -> Nat]]
  /\ flight \subseteq Requests
  /\ busy \subseteq Requests
  /\ jour \in [Targets -> [Gens -> {"none", "PENDING", "SUCCESS", "FAILED"}]]
  /\ effects \in [Targets -> [Gens -> Nat]]
  /\ unclear \subseteq Ops
  /\ requests \in 0..MaxRequests
  /\ cancels \in 0..MaxCancels
  /\ crashes \in 0..MaxCrashes
  /\ cuts \in 0..MaxCuts

TargetsOf(b) == {x \in Targets : BatchOf[x] = b}
FirstGens == [x \in Targets |-> 1]

Init ==
  /\ status = [b \in Batches |-> "none"]
  /\ gen = FirstGens
  /\ st = [x \in Targets |-> "PENDING"]
  /\ up = TRUE
  /\ queue = [b \in Batches |-> 0]
  /\ ident = {}
  /\ wpc = "idle" /\ wb = NoBatch /\ wstat = "PENDING"
  /\ run = [x \in Targets |-> Idle]
  /\ hpc = [h \in Handlers |-> "idle"]
  /\ hb = [h \in Handlers |-> NoBatch]
  /\ hkind = [h \in Handlers |-> "retry"]
  /\ htodo = [h \in Handlers |-> {}]
  /\ hdone = [h \in Handlers |-> {}]
  /\ hgen = [h \in Handlers |-> FirstGens]
  /\ sent = [x \in Targets |-> [g \in Gens |-> 0]]
  /\ flight = {}
  /\ busy = {}
  /\ jour = [x \in Targets |-> [g \in Gens |-> "none"]]
  /\ effects = [x \in Targets |-> [g \in Gens |-> 0]]
  /\ unclear = {}
  /\ requests = 0 /\ cancels = 0 /\ crashes = 0 /\ cuts = 0

-----------------------------------------------------------------------------
(***************************************************************************)
(* Requests.                                                               *)
(***************************************************************************)
\* The handler is back at rest.
HandlerReturns(h) ==
  /\ hpc' = [hpc EXCEPT ![h] = "idle"]
  /\ hb' = [hb EXCEPT ![h] = NoBatch]
  /\ htodo' = [htodo EXCEPT ![h] = {}]
  /\ hdone' = [hdone EXCEPT ![h] = {}]
  /\ hgen' = [hgen EXCEPT ![h] = FirstGens]
  /\ hkind' = [hkind EXCEPT ![h] = "retry"]

Request(h) ==
  up /\ hpc[h] = "idle" /\ requests < MaxRequests /\ requests' = requests + 1

\* CreateWithExpand: one transaction inserts the batch and its targets.
CreateBatch(h, b) ==
  /\ Request(h)
  /\ status[b] = "none"
  /\ \E f \in [TargetsOf(b) -> InitStatuses] :
       st' = [x \in Targets |-> IF BatchOf[x] = b THEN f[x] ELSE st[x]]
  /\ status' = [status EXCEPT ![b] = "PENDING"]
  /\ ident' = ident \cup {<<x, gen[x]>> : x \in TargetsOf(b)}
  /\ hpc' = [hpc EXCEPT ![h] = "enqueue"]
  /\ hb' = [hb EXCEPT ![h] = b]
  /\ UNCHANGED <<gen, up, queue, workerVars, run, hkind, htodo, hdone, hgen,
                 ownerVars, cancels, crashes, cuts>>

\* Mutant of isRetryableTarget: a target that timed out is retried too.
RetryableOrTimeout(s) == s \in {"FAILED", "UNAVAILABLE", "TIMEOUT"}

isRetryableTarget(s) == s \in {"FAILED", "UNAVAILABLE"}

Picked(kind, s) == IF kind = "retry" THEN isRetryableTarget(s) ELSE s = "TIMEOUT"

\* RetryFailed and ReplayTimeout: one read of the target rows; a batch with
\* nothing to reset is refused.
BeginReset(h, b, kind) ==
  /\ Request(h)
  /\ status[b] # "none"
  /\ LET todo == {x \in TargetsOf(b) : Picked(kind, st[x])} IN
       /\ todo # {}
       /\ htodo' = [htodo EXCEPT ![h] = todo]
  /\ hgen' = [hgen EXCEPT ![h] = gen]
  /\ hkind' = [hkind EXCEPT ![h] = kind]
  /\ hb' = [hb EXCEPT ![h] = b]
  /\ hpc' = [hpc EXCEPT ![h] = "reset"]
  /\ UNCHANGED <<storeVars, up, queue, ident, workerVars, run, ownerVars,
                 hdone, cancels, crashes, cuts>>

\* Mutant of RowFound: the row is found by target, whatever its operation id.
RowAlwaysFound(h, x) == gen[x] < MaxGen

\* ReplaceTargetOp and UpdateTarget find their row by the operation id.
RowFound(h, x) == gen[x] = hgen[h][x]

\* One turn of the loop: PENDING under a new id, or under the old one.
ResetTarget(h, x) ==
  LET g == IF hkind[h] = "retry" THEN gen[x] + 1 ELSE gen[x] IN
  /\ up /\ hpc[h] = "reset" /\ x \in htodo[h]
  /\ RowFound(h, x)
  /\ g \in Gens
  /\ st' = [st EXCEPT ![x] = "PENDING"]
  /\ gen' = [gen EXCEPT ![x] = g]
  /\ htodo' = [htodo EXCEPT ![h] = @ \ {x}]
  /\ hdone' = [hdone EXCEPT ![h] = @ \cup {x}]
  /\ hgen' = [hgen EXCEPT ![h][x] = g]
  /\ UNCHANGED <<status, up, queue, ident, workerVars, run, hpc, hb, hkind,
                 ownerVars, budgets>>

\* The row has another id by now: NOT_FOUND ends the request where it is.
ResetRefused(h, x) ==
  /\ up /\ hpc[h] = "reset" /\ x \in htodo[h]
  /\ ~RowFound(h, x)
  /\ HandlerReturns(h)
  /\ UNCHANGED <<storeVars, up, queue, ident, workerVars, run, ownerVars, budgets>>

\* The request's context ends between two statements; the last Get of a
\* batch already enqueued may fail so, too.
RequestCancelled(h) ==
  /\ up /\ hpc[h] \in {"reset", "mark", "return"}
  /\ cancels < MaxCancels /\ cancels' = cancels + 1
  /\ HandlerReturns(h)
  /\ UNCHANGED <<storeVars, up, queue, ident, workerVars, run, ownerVars,
                 requests, crashes, cuts>>

\* bindTargets on the targets that were reset.
EndReset(h) ==
  /\ up /\ hpc[h] = "reset" /\ htodo[h] = {}
  /\ ident' = ident \cup {<<x, hgen[h][x]>> : x \in hdone[h]}
  /\ hpc' = [hpc EXCEPT ![h] = "mark"]
  /\ UNCHANGED <<storeVars, up, queue, workerVars, run, hb, hkind, htodo, hdone, hgen,
                 ownerVars, budgets>>

\* requeueBatch: the batch is RUNNING again, whatever it was.
MarkRunning(h) ==
  /\ up /\ hpc[h] = "mark"
  /\ status' = [status EXCEPT ![hb[h]] = "RUNNING"]
  /\ hpc' = [hpc EXCEPT ![h] = "enqueue"]
  /\ UNCHANGED <<gen, st, up, queue, ident, workerVars, run, hb, hkind, htodo, hdone, hgen,
                 ownerVars, budgets>>

Enqueue(h) ==
  /\ up /\ hpc[h] = "enqueue"
  /\ queue' = [queue EXCEPT ![hb[h]] = @ + 1]
  /\ hpc' = [hpc EXCEPT ![h] = "return"]
  /\ UNCHANGED <<storeVars, up, ident, workerVars, run, hb, hkind, htodo, hdone, hgen,
                 ownerVars, budgets>>

\* rememberPrincipal: the caller stands for every target of the batch returned.
Remember(h) ==
  /\ up /\ hpc[h] = "return"
  /\ ident' = ident \cup {<<x, gen[x]>> : x \in TargetsOf(hb[h])}
  /\ HandlerReturns(h)
  /\ UNCHANGED <<storeVars, up, queue, workerVars, run, ownerVars, budgets>>

-----------------------------------------------------------------------------
(***************************************************************************)
(* The worker.                                                             *)
(***************************************************************************)
Rollup(b) ==
  LET s == {st[x] : x \in TargetsOf(b)} IN
  IF s \cap Open # {} THEN "RUNNING"
  ELSE IF s \subseteq {"SUCCESS"} THEN "COMPLETED"
  ELSE IF s \cap {"SUCCESS", "TIMEOUT"} = {} THEN "FAILED"
  ELSE "PARTIAL"

\* Take an id off the queue; a batch that has ended is dropped.
WorkerTakes(b) ==
  /\ up /\ wpc = "idle" /\ queue[b] > 0
  /\ queue' = [queue EXCEPT ![b] = @ - 1]
  /\ IF status[b] \in Ended
     THEN UNCHANGED workerVars
     ELSE wpc' = "look" /\ wb' = b /\ UNCHANGED wstat
  /\ UNCHANGED <<storeVars, up, ident, run, handlerVars, ownerVars, budgets>>

\* The second query of GetBatch: the targets still PENDING or RUNNING.
WorkerReads ==
  /\ up /\ wpc = "look"
  /\ run' = [x \in Targets |-> IF BatchOf[x] = wb /\ st[x] \in Open
                               THEN [Idle EXCEPT !.s = "queued", !.g = gen[x]]
                               ELSE run[x]]
  /\ wpc' = "mark"
  /\ UNCHANGED <<storeVars, up, queue, ident, wb, wstat, handlerVars, ownerVars, budgets>>

WorkerMarks ==
  /\ up /\ wpc = "mark"
  /\ status' = [status EXCEPT ![wb] = "RUNNING"]
  /\ wpc' = "wait"
  /\ UNCHANGED <<gen, st, up, queue, ident, wb, wstat, run, handlerVars, ownerVars, budgets>>

\* After wg.Wait: read the targets again and compute the status ...
WorkerCounts ==
  /\ up /\ wpc = "wait"
  /\ \A x \in Targets : run[x].s = "none"
  /\ wstat' = Rollup(wb)
  /\ wpc' = "write"
  /\ UNCHANGED <<storeVars, up, queue, ident, wb, run, handlerVars, ownerVars, budgets>>

\* ... and write it.
WorkerWrites ==
  /\ up /\ wpc = "write"
  /\ status' = [status EXCEPT ![wb] = wstat]
  /\ wpc' = "idle" /\ wb' = NoBatch /\ wstat' = "PENDING"
  /\ UNCHANGED <<gen, st, up, queue, ident, run, handlerVars, ownerVars, budgets>>

-----------------------------------------------------------------------------
(***************************************************************************)
(* runTarget and the owner's side of its request.                          *)
(***************************************************************************)
\* The goroutine still finds its row (UpdateTarget, by operation id).
OwnsRow(x) == gen[x] = run[x].g

\* UpdateTarget; a row that is not found is left alone.
Record(x, s) == st' = IF OwnsRow(x) THEN [st EXCEPT ![x] = s] ELSE st

\* The goroutine of x ends and its slot is free.
TargetEnds(x) == run' = [run EXCEPT ![x] = Idle]

\* A slot is free: the row is RUNNING and the request goes out, unless the
\* owner is remote and nobody remembers on whose behalf to call it.
TargetStarts(x) ==
  LET g == run[x].g
      n == IF x \in Remote /\ <<x, g>> \notin ident THEN 0 ELSE sent[x][g] + 1
  IN
  /\ up /\ wpc = "wait" /\ run[x].s = "queued" /\ OwnsRow(x)
  /\ Cardinality({y \in Targets : run[y].s = "exec"}) < Concurrency
  /\ Record(x, "RUNNING")
  /\ run' = [run EXCEPT ![x] = [@ EXCEPT !.s = "exec", !.n = n]]
  /\ sent' = [sent EXCEPT ![x][g] = IF n = 0 THEN @ ELSE n]
  /\ flight' = IF n = 0 THEN flight ELSE flight \cup {<<x, g, n>>}
  /\ UNCHANGED <<status, gen, up, queue, ident, workerVars, handlerVars, busy, jour,
                 effects, unclear, budgets>>

\* The row has another id by now: nothing is sent.
TargetGone(x) ==
  /\ up /\ wpc = "wait" /\ run[x].s = "queued" /\ ~OwnsRow(x)
  /\ TargetEnds(x)
  /\ UNCHANGED <<storeVars, up, queue, ident, workerVars, handlerVars, ownerVars, budgets>>

Executing(x) == up /\ run[x].s = "exec"

Waiting(m) == Executing(m[1]) /\ run[m[1]].g = m[2] /\ run[m[1]].n = m[3]

\* The answer a reaches the goroutine that waits for it, if it still does.
Answer(m, a) ==
  run' = IF Waiting(m) THEN [run EXCEPT ![m[1]] = [@ EXCEPT !.a = a]] ELSE run

\* Mutant of TargetAnswered: an answer that has not come is recorded.
TargetUnanswered(x) ==
  /\ Executing(x)
  /\ Record(x, run[x].a)
  /\ TargetEnds(x)
  /\ UNCHANGED <<status, gen, up, queue, ident, workerVars, handlerVars, ownerVars, budgets>>

TargetAnswered(x) ==
  /\ Executing(x) /\ run[x].a # "none"
  /\ Record(x, run[x].a)
  /\ TargetEnds(x)
  /\ UNCHANGED <<status, gen, up, queue, ident, workerVars, handlerVars, ownerVars, budgets>>

\* Connection refused, no route, certificate refused: nothing was delivered.
TargetUnavailable(x) ==
  LET m == <<x, run[x].g, run[x].n>> IN
  /\ Executing(x) /\ x \in Remote
  /\ m \in flight
  /\ flight' = flight \ {m}
  /\ Record(x, "UNAVAILABLE")
  /\ TargetEnds(x)
  /\ UNCHANGED <<status, gen, up, queue, ident, workerVars, handlerVars, sent, busy, jour,
                 effects, unclear, budgets>>

\* Mutant of TargetTimesOut: the deadline is taken for an answer.
TimeoutIsSuccess(x) ==
  /\ Executing(x)
  /\ Record(x, "SUCCESS")
  /\ TargetEnds(x)
  /\ UNCHANGED <<status, gen, up, queue, ident, workerVars, handlerVars, ownerVars, budgets>>

\* TargetTimeout passed, or there was no principal to call with.
TargetTimesOut(x) ==
  /\ Executing(x)
  /\ Record(x, "TIMEOUT")
  /\ TargetEnds(x)
  /\ UNCHANGED <<status, gen, up, queue, ident, workerVars, handlerVars, ownerVars, budgets>>

-----------------------------------------------------------------------------
(***************************************************************************)
(* The owner: process.Manager's beginOp, the operation, finishOp.          *)
(***************************************************************************)
Op(m) == <<m[1], m[2]>>
Journal(m, s) == jour' = [jour EXCEPT ![m[1]][m[2]] = s]
CarryOut(m) == effects' = [effects EXCEPT ![m[1]][m[2]] = @ + 1]
Cut == cuts < MaxCuts /\ cuts' = cuts + 1

ownerUnchanged == <<storeVars, up, queue, ident, workerVars, handlerVars, sent,
                    requests, cancels, crashes>>

\* Mutant of Finished: only a failure is answered from the journal.
FinishedIfFailed(m) == jour[m[1]][m[2]] = "FAILED"

\* beginOp: the journal answers for an operation that has ended.
Finished(m) == jour[m[1]][m[2]] \in {"SUCCESS", "FAILED"}

\* The request reaches the owner, possibly long after its deadline.
OwnerRepeats(m) ==
  /\ m \in flight
  /\ Finished(m)
  /\ flight' = flight \ {m}
  /\ Answer(m, jour[m[1]][m[2]])
  /\ UNCHANGED <<ownerUnchanged, busy, jour, effects, unclear, cuts>>

\* Refused before the journal is asked: no permission, degraded, no spec.
OwnerDenies(m) ==
  /\ m \in flight
  /\ flight' = flight \ {m}
  /\ Answer(m, "FAILED")
  /\ UNCHANGED <<ownerUnchanged, busy, jour, effects, unclear, cuts>>

\* A journal entry still PENDING does not stop a second execution; it may
\* even overlap the first, for a pass releases the manager's mutex.
OwnerBegins(m) ==
  /\ m \in flight
  /\ ~Finished(m)
  /\ flight' = flight \ {m}
  /\ busy' = busy \cup {m}
  /\ Journal(m, "PENDING")
  /\ unclear' = IF \E k \in busy : Op(k) = Op(m) THEN unclear \cup {Op(m)} ELSE unclear
  /\ UNCHANGED <<ownerUnchanged, run, effects, cuts>>

\* finishOp and the answer.
OwnerSucceeds(m) ==
  /\ m \in busy
  /\ busy' = busy \ {m}
  /\ CarryOut(m)
  /\ Journal(m, "SUCCESS")
  /\ Answer(m, "SUCCESS")
  /\ UNCHANGED <<ownerUnchanged, flight, unclear, cuts>>

OwnerRefuses(m) ==
  /\ m \in busy
  /\ busy' = busy \ {m}
  /\ Journal(m, "FAILED")
  /\ Answer(m, "FAILED")
  /\ UNCHANGED <<ownerUnchanged, flight, effects, unclear, cuts>>

\* The operation is journaled SUCCESS and the Reconcile after it fails.
ReconcileFails(m) ==
  /\ m \in busy /\ Cut
  /\ busy' = busy \ {m}
  /\ CarryOut(m)
  /\ Journal(m, "SUCCESS")
  /\ Answer(m, "FAILED")
  /\ unclear' = unclear \cup {Op(m)}
  /\ UNCHANGED <<ownerUnchanged, flight>>

\* The owner dies or the connection to it, or finishOp fails on a context that
\* has ended: the operation may be done and its journal entry stays PENDING.
OwnerCut(m) ==
  /\ m \in busy /\ Cut
  /\ busy' = busy \ {m}
  /\ CarryOut(m) \/ UNCHANGED effects
  /\ \E a \in IF m[1] \in Remote THEN {"UNAVAILABLE", "FAILED"} ELSE {"FAILED"} : Answer(m, a)
  /\ unclear' = unclear \cup {Op(m)}
  /\ UNCHANGED <<ownerUnchanged, flight, jour>>

-----------------------------------------------------------------------------
Local(M) == {m \in M : m[1] \notin Remote}

\* The agent stops: everything but the store and the other owners is gone.
\* Target rows are left as they are (runTarget returns when its parent is
\* cancelled); what the agent was carrying out itself is cut.
AgentStops ==
  /\ up /\ crashes < MaxCrashes /\ crashes' = crashes + 1
  /\ up' = FALSE
  /\ queue' = [b \in Batches |-> 0]
  /\ ident' = {}
  /\ wpc' = "idle" /\ wb' = NoBatch /\ wstat' = "PENDING"
  /\ run' = [x \in Targets |-> Idle]
  /\ hpc' = [h \in Handlers |-> "idle"]
  /\ hb' = [h \in Handlers |-> NoBatch]
  /\ hkind' = [h \in Handlers |-> "retry"]
  /\ htodo' = [h \in Handlers |-> {}]
  /\ hdone' = [h \in Handlers |-> {}]
  /\ hgen' = [h \in Handlers |-> FirstGens]
  /\ flight' = flight \ Local(flight)
  /\ busy' = busy \ Local(busy)
  /\ unclear' = unclear \cup {Op(m) : m \in Local(busy)}
  /\ \E done \in SUBSET Local(busy) :
       effects' = [x \in Targets |-> [g \in Gens |->
                     IF \E m \in done : Op(m) = <<x, g>> THEN effects[x][g] + 1
                                                     ELSE effects[x][g]]]
  /\ UNCHANGED <<storeVars, sent, jour, requests, cancels, cuts>>

\* Mutant of ListIncompleteTargets: a target left RUNNING is not listed.
ListPendingTargets == {x \in Targets : status[BatchOf[x]] # "none" /\ st[x] = "PENDING"}

ListIncompleteTargets == {x \in Targets : status[BatchOf[x]] # "none" /\ st[x] \in Open}

\* The agent starts: Start, then Resume, before it serves requests.
AgentStarts ==
  /\ ~up /\ up' = TRUE
  /\ queue' = [b \in Batches |-> IF \E x \in ListIncompleteTargets : BatchOf[x] = b
                                  THEN 1 ELSE 0]
  /\ UNCHANGED <<storeVars, ident, workerVars, run, handlerVars, ownerVars, budgets>>

-----------------------------------------------------------------------------
WorkerStep ==
  \/ \E b \in Batches : WorkerTakes(b)
  \/ WorkerReads \/ WorkerMarks \/ WorkerCounts \/ WorkerWrites

TargetStep(x) ==
  \/ TargetStarts(x) \/ TargetGone(x)
  \/ TargetAnswered(x) \/ TargetUnavailable(x) \/ TargetTimesOut(x)

OwnerStep(m) ==
  \/ OwnerRepeats(m) \/ OwnerDenies(m) \/ OwnerBegins(m) \/ OwnerSucceeds(m) \/ OwnerRefuses(m)
  \/ ReconcileFails(m) \/ OwnerCut(m)

\* What a handler that has begun does next.
HandlerStep(h) ==
  \/ \E x \in Targets : ResetTarget(h, x) \/ ResetRefused(h, x)
  \/ EndReset(h) \/ MarkRunning(h) \/ Enqueue(h) \/ Remember(h)

NewRequest(h) ==
  \E b \in Batches : \/ CreateBatch(h, b)
                     \/ \E kind \in Kinds : BeginReset(h, b, kind)

Next ==
  \/ WorkerStep
  \/ \E x \in Targets : TargetStep(x)
  \/ \E h \in Handlers : NewRequest(h) \/ HandlerStep(h) \/ RequestCancelled(h)
  \/ \E m \in flight \cup busy : OwnerStep(m)
  \/ AgentStops \/ AgentStarts

Spec == Init /\ [][Next]_vars

\* The worker and each goroutine run on; a request has a deadline; a handler
\* finishes; the service manager starts a dead agent.  Owners owe nothing.
Fairness ==
  /\ WF_vars(WorkerStep)
  /\ \A x \in Targets : WF_vars(TargetStep(x))
  /\ \A h \in Handlers : WF_vars(HandlerStep(h))
  /\ WF_vars(AgentStarts)

LiveSpec == Spec /\ Fairness

-----------------------------------------------------------------------------
(***************************************************************************)
(* Properties.                                                             *)
(***************************************************************************)
\* An operation id is carried out at most once, however often it is sent:
\* replays, resumed targets and requests that arrive after their deadline
\* meet the owner's journal (beginOp), unless an execution of it was cut
\* before the journal had its result, or two overlapped.
EffectOnceUnlessUnclear ==
  \A x \in Targets, g \in Gens : <<x, g>> \notin unclear => effects[x][g] <= 1

\* A target recorded SUCCESS was carried out under the id its row shows,
\* through any mix of retries, replays, restarts and late answers (runTarget,
\* MapExecError, beginOp).
SuccessIsReal ==
  \A x \in Targets : st[x] = "SUCCESS" => effects[x][gen[x]] > 0

\* A target is carried out under two ids only if an operation of it was sent
\* twice, or an answer or journal entry of it was lost: RetryFailed mints a
\* new id for definite outcomes only and leaves TIMEOUT alone
\* (isRetryableTarget).
TwiceOnlyIfUnclear ==
  \A x \in Targets, g, k \in Gens :
    g # k /\ effects[x][g] > 0 /\ effects[x][k] > 0
    => \E j \in Gens : sent[x][j] > 1 \/ <<x, j>> \in unclear

\* The result of a running target has a row to go to: where operators only
\* retry, no request gives the row of an executing target another operation
\* id (ReplaceTargetOp). A replay that read the row earlier does.
RunnerOwnsRow == \A x \in Targets : run[x].s # "none" => gen[x] = run[x].g

\* A target that succeeded is left alone from then on, where operators only
\* retry (RetryFailed). A replay that read the row as TIMEOUT earlier resets
\* it (ReplayTimeout).
SuccessSticks ==
  [][\A x \in Targets :
       st[x] = "SUCCESS" => st'[x] = "SUCCESS" /\ gen'[x] = gen[x]]_vars

\* Every target of a batch that was inserted ends, across agent restarts at
\* any point (enqueue, runBatch, Resume).
TargetsEnd ==
  \A x \in Targets : status[BatchOf[x]] # "none" /\ st[x] \in Open ~> st[x] \notin Open

=============================================================================
