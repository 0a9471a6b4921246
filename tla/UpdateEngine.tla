---------------------------- MODULE UpdateEngine ----------------------------
(***************************************************************************)
(* The cluster rolling update (internal/update, internal/store/update_job, *)
(* internal/api/update_job_api).  One agent, the Entry, keeps the jobs in  *)
(* its database and one worker goroutine runs them: node after node, in    *)
(* the order fixed when the job was made, it applies the pinned release    *)
(* and waits until gossip shows the node alive on it.  Operators create,   *)
(* cancel and retry jobs at any time, each request a handler of its own    *)
(* that makes several database calls; applying an update restarts the      *)
(* node, and the last node to be updated is the Entry itself.              *)
(*                                                                         *)
(* A step is one database call, one remote call or one event.  TIMEOUT and *)
(* CONFLICT are written FAILED here: haltRemaining, RollupJob and          *)
(* retryableTarget treat the three alike.  A release is a number, its      *)
(* checksum and archive are left out; whether a download, an installation  *)
(* or a restart goes well is a free choice.                                *)
(***************************************************************************)
EXTENDS Integers, FiniteSets, Sequences, SequencesExt

CONSTANTS
    Nodes,        \* the members, numbered in the order of their hostnames
    Entry,        \* the agent that keeps and runs the jobs
    Leader,       \* the control leader
    Jobs,         \* ids a new job may get, numbered
    Requests,     \* operation ids the clients send with Create
    Tags,         \* releases a job may pin
    Handlers,     \* requests that may be under way at once
    MaxCalls,     \* bound: operator requests
    MaxEvents     \* bound: crashes of an agent, and ApplyNode calls outside any job

ASSUME ConstantsAssumption ==
    /\ Nodes \subseteq Nat /\ IsFiniteSet(Nodes)
    /\ Entry \in Nodes /\ Leader \in Nodes
    /\ Jobs \subseteq Nat \ {0} /\ Tags \subseteq Nat \ {0, 1}
    /\ MaxCalls \in Nat /\ MaxEvents \in Nat

VARIABLES
    jobs,      \* the update_jobs and update_job_targets tables of the Entry
    queue,     \* the channel the worker reads
    worker,    \* the worker goroutine
    hs,        \* the request handlers
    idents,    \* <<job, node, op>> the Entry holds a principal for
    node,      \* each agent: running and installed release, apply under way
    seen,      \* the release gossip shows at the Entry, 0 when not LIVE
    ran,       \* history: the releases a node has run
    raced,     \* history: jobs two retries read before either had it running
    late,      \* history: targets begun while the job's cancel flag was set
    calls, events
vars == <<jobs, queue, worker, hs, idents, node, seen, ran, raced, late, calls, events>>
memory == <<queue, worker, hs, idents>>
history == <<ran, raced, late>>
bounds == <<calls, events>>

-----------------------------------------------------------------------------
(* The tables.                                                             *)

JobSt == {"NONE", "RUNNING", "COMPLETED", "PARTIAL", "FAILED"}
TargetSt == {"PENDING", "RUNNING", "SUCCESS", "FAILED", "SKIPPED", "CANCELLED"}

NoJob == 0

Row(j, n) == jobs[j].row[n]
At(j, i) == jobs[j].order[i]
Inserted == {j \in Jobs : jobs[j].st # "NONE"}
HasRow(j, st) == \E n \in Nodes : Row(j, n).st = st

\* a RUNNING job or one with a target in flight (HasRunningUpdateJob)
HasRunningUpdateJob(j) == jobs[j].st = "RUNNING" \/ HasRow(j, "RUNNING")

\* mutant: only the job ids are unique
OneRunningIndex_Missing(j) == TRUE

\* the partial unique index update_jobs_one_running
OneRunningIndex(j) == \A k \in Jobs \ {j} : jobs[k].st # "RUNNING"

\* the partial unique index update_jobs_operation_id
OperationIndex(r) == \A k \in Inserted : jobs[k].req # r

\* the row read earlier, by its operation id
StillThere(j, n, op) == Row(j, n).op = op

\* an update of a row that was replaced meanwhile finds nothing (NOT_FOUND, ignored)
UpdateUpdateJobTarget(j, n, op, st) ==
    jobs' = IF StillThere(j, n, op) THEN [jobs EXCEPT ![j].row[n].st = st] ELSE jobs

-----------------------------------------------------------------------------
(* Pure parts of the engine.                                               *)

\* mutant: the entry has no place of its own
targetRank_NoEntry(n, leader) == IF n = leader THEN 1 ELSE 0

\* others first, the live leader next, this entry last (targetRank)
targetRank(n, leader) ==
    IF n = Entry THEN 2 ELSE IF n = leader THEN 1 ELSE 0

\* the places of an order (OrderIndex)
Places == 1..Cardinality(Nodes)
Orders == Bijection(Places, Nodes)

\* eligible nodes by rank, then the skipped ones, each by hostname
Precedes(a, b, elig, leader) ==
    \/ a \in elig /\ b \notin elig
    \/ /\ a \in elig /\ b \in elig
       /\ targetRank(a, leader) < targetRank(b, leader)
    \/ /\ a \in elig <=> b \in elig
       /\ a \in elig => targetRank(a, leader) = targetRank(b, leader)
       /\ a < b

\* the order of the targets, the one member of this set
OrderTargets(elig, leader) ==
    {order \in Orders : \A i, k \in Places : i < k => Precedes(order[i], order[k], elig, leader)}

\* mutant: a failed target does not stop the job
haltRemaining_Never(j) == FALSE

\* the job stops at the first target that did not make it
haltRemaining(j) == HasRow(j, "FAILED")

\* mutant: everything that ended is run again
retryableTarget_Ended(st) == st \in {"FAILED", "PENDING", "CANCELLED", "SUCCESS"}

retryableTarget(st) == st \in {"FAILED", "PENDING", "CANCELLED"}

RollupJob(j) ==
    IF HasRow(j, "RUNNING") THEN "RUNNING"
    ELSE IF ~HasRow(j, "FAILED") THEN "COMPLETED"
    ELSE IF HasRow(j, "SUCCESS") THEN "PARTIAL" ELSE "FAILED"

\* gossip shows the node ALIVE, LIVE and on the pinned release
memberReady(n, tag) == seen[n] = tag

\* what collectTargets may find eligible: LIVE, answering, idle and behind
MayBeEligible(tag) ==
    {n \in Nodes : seen[n] # 0 /\ node[n].up /\ node[n].phase = "idle" /\ node[n].ver < tag}

-----------------------------------------------------------------------------
(* The state.                                                              *)

HIdle == [pc |-> "idle", req |-> NoJob, tag |-> 0, job |-> NoJob, order |-> <<>>,
          elig |-> {}, todo |-> {}, minted |-> {}]
WIdle == [pc |-> "idle", job |-> NoJob, left |-> {}, ops |-> [n \in Nodes |-> 0], end |-> "NONE"]
NIdle(r) == [up |-> TRUE, ver |-> r, disk |-> r, phase |-> "idle", pin |-> 0, waited |-> FALSE]

AgentUp == node[Entry].up

TargetType == [st : TargetSt, op : Nat]
JobType == [st : JobSt, tag : Tags \cup {0}, req : Requests \cup {NoJob}, cancel : BOOLEAN,
            order : Orders \cup {<<>>}, row : [Nodes -> TargetType]]
WorkerType == [pc : {"idle", "pick", "start", "apply", "wait", "cancel", "finalize", "settle"},
               job : Jobs \cup {NoJob}, left : SUBSET Places, ops : [Nodes -> Nat], end : JobSt]
HandlerType == [pc : {"idle", "insert", "bind", "remember", "flag", "replace", "clear", "rerun",
                      "enqueue"},
                req : Requests \cup {NoJob}, tag : Tags \cup {0}, job : Jobs \cup {NoJob},
                order : Orders \cup {<<>>}, elig : SUBSET Nodes,
                todo : SUBSET (Places \X Nat), minted : SUBSET (Jobs \X Nodes \X Nat)]
NodeType == [up : BOOLEAN, ver : Tags \cup {1}, disk : Tags \cup {1},
             phase : {"idle", "install", "restart"}, pin : Tags \cup {0}, waited : BOOLEAN]

TypeOK ==
    /\ jobs \in [Jobs -> JobType]
    /\ queue \in Seq(Jobs) /\ worker \in WorkerType
    /\ hs \in [Handlers -> HandlerType]
    /\ idents \subseteq Jobs \X Nodes \X Nat
    /\ node \in [Nodes -> NodeType]
    /\ seen \in [Nodes -> Tags \cup {0, 1}]
    /\ ran \in [Nodes -> SUBSET (Tags \cup {1})]
    /\ raced \subseteq Jobs /\ late \in [Jobs -> Nat]
    /\ calls \in Nat /\ events \in Nat

Init ==
    /\ jobs = [j \in Jobs |-> [st |-> "NONE", tag |-> 0, req |-> NoJob, cancel |-> FALSE,
                               order |-> <<>>, row |-> [n \in Nodes |-> [st |-> "SKIPPED", op |-> 0]]]]
    /\ queue = <<>> /\ worker = WIdle
    /\ hs = [h \in Handlers |-> HIdle]
    /\ idents = {}
    /\ node = [n \in Nodes |-> NIdle(1)]
    /\ seen = [n \in Nodes |-> 1]
    /\ ran = [n \in Nodes |-> {1}]
    /\ raced = {} /\ late = [j \in Jobs |-> 0]
    /\ calls = 0 /\ events = 0

-----------------------------------------------------------------------------
(* CreateClusterUpdate and Engine.Create.                                  *)

Become(h, pc) == hs' = [hs EXCEPT ![h].pc = pc]
Answer(h) == hs' = [hs EXCEPT ![h] = HIdle]

\* the job this request made the first time (existingByOperationID)
Existing(r) == {j \in Inserted : jobs[j].req = r}

\* the ids bindTargets finds on the targets of a job
Principals(j) == {<<j, n, Row(j, n).op>> : n \in Nodes}

Remember(h, j) ==
    hs' = [hs EXCEPT ![h].pc = "remember", ![h].job = j, ![h].minted = Principals(j)]

\* The request's reads: the targets are probed and ordered, a repeated request gets its job
\* back, and a job in flight refuses a new one.  The insert below meets whatever has changed.
CreateClusterUpdate(h) ==
    /\ AgentUp /\ hs[h].pc = "idle" /\ calls < MaxCalls
    /\ \E r \in Requests :
         \/ \E j \in Existing(r) : Remember(h, j)
         \/ /\ Existing(r) = {}
            /\ \E tag \in Tags, leader \in {Leader, NoJob} :
                 \E elig \in SUBSET MayBeEligible(tag) : \E order \in OrderTargets(elig, leader) :
                   /\ elig = {} \/ ~\E j \in Inserted : HasRunningUpdateJob(j)
                   /\ hs' = [hs EXCEPT ![h] =
                         [HIdle EXCEPT !.pc = "insert", !.req = r, !.tag = tag, !.elig = elig,
                                       !.order = order]]
    /\ calls' = calls + 1
    /\ UNCHANGED <<jobs, queue, worker, idents, node, seen, history, events>>

\* one transaction; a unique index that refuses it leads to the existing job or to CONFLICT
InsertUpdateJob(h) ==
    LET running == hs[h].elig # {} IN
    /\ hs[h].pc = "insert"
    /\ \E j \in Jobs \ Inserted :
         /\ \A k \in Jobs \ Inserted : j <= k
         /\ IF OperationIndex(hs[h].req) /\ (running => OneRunningIndex(j))
            THEN /\ jobs' = [jobs EXCEPT ![j] =
                        [st |-> IF running THEN "RUNNING" ELSE "COMPLETED", tag |-> hs[h].tag,
                         req |-> hs[h].req, cancel |-> FALSE, order |-> hs[h].order,
                         row |-> [n \in Nodes |->
                            [st |-> IF n \in hs[h].elig THEN "PENDING" ELSE "SKIPPED", op |-> 1]]]]
                 /\ hs' = [hs EXCEPT ![h].pc = "bind", ![h].job = j,
                                     ![h].minted = {<<j, n, 1>> : n \in Nodes}]
            ELSE /\ UNCHANGED jobs
                 /\ IF Existing(hs[h].req) = {} THEN Answer(h)
                    ELSE \E k \in Existing(hs[h].req) : Remember(h, k)
    /\ UNCHANGED <<queue, worker, idents, node, seen, history, bounds>>

\* bindTargets keeps the caller's principal for each new operation id, then the job is queued
\* (rememberPrincipal then binds the same targets once more)
BindAndEnqueue(h) ==
    /\ hs[h].pc = "bind"
    /\ idents' = idents \cup hs[h].minted
    /\ queue' = IF hs[h].elig # {} THEN Append(queue, hs[h].job) ELSE queue
    /\ Answer(h)
    /\ UNCHANGED <<jobs, worker, node, seen, history, bounds>>

\* rememberPrincipal binds the targets of the job it is given, as they were when it was read
RememberPrincipal(h) ==
    /\ hs[h].pc = "remember"
    /\ idents' = idents \cup hs[h].minted
    /\ Answer(h)
    /\ UNCHANGED <<jobs, queue, worker, node, seen, history, bounds>>

-----------------------------------------------------------------------------
(* CancelRemaining.                                                        *)

CancelRemaining(h) ==
    /\ AgentUp /\ hs[h].pc = "idle" /\ calls < MaxCalls
    /\ \E j \in Inserted : /\ jobs[j].st = "RUNNING"
                           /\ hs' = [hs EXCEPT ![h].pc = "flag", ![h].job = j]
    /\ calls' = calls + 1
    /\ UNCHANGED <<jobs, queue, worker, idents, node, seen, history, events>>

\* the flag is set whatever became of the job since it was read
SetUpdateJobCancelRemaining(h) ==
    /\ hs[h].pc = "flag"
    /\ jobs' = [jobs EXCEPT ![hs[h].job].cancel = TRUE]
    /\ Answer(h)
    /\ UNCHANGED <<queue, worker, idents, node, seen, history, bounds>>

-----------------------------------------------------------------------------
(* Retry.                                                                  *)

\* the retryable rows: their places in the job's order, with the operation ids just read
RetryRows(j) ==
    {<<i, Row(j, At(j, i)).op>> : i \in {i \in Places : retryableTarget(Row(j, At(j, i)).st)}}

Retrying(h, j) == hs[h].job = j /\ hs[h].pc \in {"replace", "clear", "rerun"}

\* mutant: a retry of a job that is running
Retry_AnyJob(h) ==
    /\ AgentUp /\ hs[h].pc = "idle" /\ calls < MaxCalls
    /\ \E j \in Inserted :
         /\ RetryRows(j) # {}
         /\ hs' = [hs EXCEPT ![h].pc = "replace", ![h].job = j, ![h].todo = RetryRows(j)]
         /\ raced' = IF \E k \in Handlers : Retrying(k, j) THEN raced \cup {j} ELSE raced
    /\ calls' = calls + 1
    /\ UNCHANGED <<jobs, queue, worker, idents, node, seen, ran, late, events>>

\* the job is read and is not running, and neither is another
Retry(h) ==
    /\ AgentUp /\ hs[h].pc = "idle" /\ calls < MaxCalls
    /\ \E j \in Inserted :
         /\ jobs[j].st # "RUNNING" /\ ~\E k \in Inserted : HasRunningUpdateJob(k)
         /\ RetryRows(j) # {}
         /\ hs' = [hs EXCEPT ![h].pc = "replace", ![h].job = j, ![h].todo = RetryRows(j)]
         /\ raced' = IF \E k \in Handlers : Retrying(k, j) THEN raced \cup {j} ELSE raced
    /\ calls' = calls + 1
    /\ UNCHANGED <<jobs, queue, worker, idents, node, seen, ran, late, events>>

\* the row the handler read is deleted by its operation id and put back PENDING under a new one
ReplaceUpdateJobTargetOp(h) ==
    LET j == hs[h].job IN
    /\ hs[h].pc = "replace"
    /\ \E x \in hs[h].todo :
         LET n == At(j, x[1])
             rest == hs[h].todo \ {x}
         IN
         /\ \A y \in hs[h].todo : x[1] <= y[1]
         /\ IF StillThere(j, n, x[2])
            THEN /\ jobs' = [jobs EXCEPT ![j].row[n] = [st |-> "PENDING", op |-> x[2] + 1]]
                 /\ hs' = [hs EXCEPT ![h].todo = rest, ![h].minted = @ \cup {<<j, n, x[2] + 1>>},
                                     ![h].pc = IF rest = {} THEN "clear" ELSE "replace"]
            ELSE Answer(h) /\ UNCHANGED jobs
    /\ UNCHANGED <<queue, worker, idents, node, seen, history, bounds>>

\* the new ids are bound and the cancel flag is taken away
ClearCancel(h) ==
    /\ hs[h].pc = "clear"
    /\ idents' = idents \cup hs[h].minted
    /\ jobs' = [jobs EXCEPT ![hs[h].job].cancel = FALSE]
    /\ late' = [late EXCEPT ![hs[h].job] = 0]
    /\ Become(h, "rerun")
    /\ UNCHANGED <<queue, worker, node, seen, ran, raced, bounds>>

\* RUNNING again unless another job took the place meanwhile
RerunJob(h) ==
    LET j == hs[h].job IN
    /\ hs[h].pc = "rerun"
    /\ IF OneRunningIndex(j)
       THEN jobs' = [jobs EXCEPT ![j].st = "RUNNING"] /\ Become(h, "enqueue")
       ELSE UNCHANGED jobs /\ Answer(h)
    /\ UNCHANGED <<queue, worker, idents, node, seen, history, bounds>>

EnqueueRetry(h) ==
    /\ hs[h].pc = "enqueue"
    /\ queue' = Append(queue, hs[h].job)
    /\ idents' = idents \cup Principals(hs[h].job)
    /\ Answer(h)
    /\ UNCHANGED <<jobs, worker, node, seen, history, bounds>>

-----------------------------------------------------------------------------
(* The worker: workerLoop, runJob, runTarget, reconcileRunningTarget.      *)

Job == worker.job

\* of the places left the first, the node there, and the operation id read for it
First(S) == CHOOSE i \in S : \A k \in S : i <= k
Target == At(Job, First(worker.left))
TargetOp == worker.ops[Target]
OwnTarget == StillThere(Job, Target, TargetOp)

Rest == worker.left \ {First(worker.left)}
Goto(pc) == worker' = [worker EXCEPT !.pc = pc]
NextTarget == worker' = [worker EXCEPT !.pc = "pick", !.left = Rest]
WriteTarget(st) == UpdateUpdateJobTarget(Job, Target, TargetOp, st)

\* the operation ids of a job's rows (Get)
Ops(j) == [n \in Nodes |-> Row(j, n).op]

\* the next job is taken and read; one that ended before its turn came is left alone
RunJob ==
    LET j == Head(queue) IN
    /\ AgentUp /\ worker.pc = "idle" /\ queue # <<>>
    /\ queue' = Tail(queue)
    /\ worker' = IF HasRunningUpdateJob(j)
                 THEN [WIdle EXCEPT !.pc = "pick", !.job = j, !.left = Places, !.ops = Ops(j)]
                 ELSE worker
    /\ UNCHANGED <<jobs, hs, idents, node, seen, history, bounds>>

\* a target that is gone or has ended is passed over, one in flight is awaited
PassOver ==
    /\ worker.left # {} /\ (OwnTarget => Row(Job, Target).st \notin {"RUNNING", "PENDING"})
    /\ NextTarget
InFlightStill ==
    /\ worker.left # {} /\ OwnTarget /\ Row(Job, Target).st = "RUNNING"
    /\ Goto("wait")
NextPending == worker.left # {} /\ OwnTarget /\ Row(Job, Target).st = "PENDING"

\* mutant: the cancel flag is not read again
PickTarget_CancelUnread ==
    /\ worker.pc = "pick"
    /\ \/ worker.left = {} /\ Goto("finalize")
       \/ PassOver
       \/ InFlightStill
       \/ NextPending /\ Goto(IF haltRemaining(Job) THEN "finalize" ELSE "start")
    /\ UNCHANGED <<jobs, queue, hs, idents, node, seen, history, bounds>>

\* the job is read again before every target; what is to be cancelled is what is PENDING now
PickTarget ==
    /\ worker.pc = "pick"
    /\ \/ worker.left = {} /\ Goto("finalize")
       \/ PassOver
       \/ InFlightStill
       \/ /\ NextPending
          /\ IF jobs[Job].cancel
             THEN worker' = [worker EXCEPT !.pc = "cancel", !.ops = Ops(Job),
                               !.left = {i \in Places : Row(Job, At(Job, i)).st = "PENDING"}]
             ELSE Goto(IF haltRemaining(Job) THEN "finalize" ELSE "start")
    /\ UNCHANGED <<jobs, queue, hs, idents, node, seen, history, bounds>>

\* runTarget: RUNNING is on disk before the node is called, or the target is passed over
StartTarget ==
    /\ worker.pc = "start"
    /\ WriteTarget("RUNNING")
    /\ IF OwnTarget
       THEN /\ late' = IF jobs[Job].cancel THEN [late EXCEPT ![Job] = @ + 1] ELSE late
            /\ Goto("apply")
       ELSE NextTarget /\ UNCHANGED late
    /\ UNCHANGED <<queue, hs, idents, node, seen, ran, raced, bounds>>

\* a remote node is not called without the operator's principal, which a restart forgets
remoteMissingPrincipal ==
    Target # Entry /\ <<Job, Target, TargetOp>> \notin idents

MissingPrincipal ==
    /\ worker.pc = "apply" /\ remoteMissingPrincipal
    /\ Goto("wait")
    /\ UNCHANGED <<jobs, queue, hs, idents, node, seen, history, bounds>>

\* an error that is not a lost confirmation ends the target; after anything else the node is awaited
EndCall(failed) ==
    IF failed THEN WriteTarget("FAILED") /\ NextTarget
    ELSE UNCHANGED jobs /\ Goto("wait")

\* the node answers at once: CONFLICT while an apply is under way, a refusal, or nothing to do
ApplyAnswered ==
    /\ worker.pc = "apply" /\ ~remoteMissingPrincipal
    /\ node[Target].up /\ ~node[Target].waited
    /\ \/ EndCall(TRUE)
       \/ node[Target].phase = "idle" /\ node[Target].ver = jobs[Job].tag /\ EndCall(FALSE)
    /\ UNCHANGED <<queue, hs, idents, node, seen, history, bounds>>

ApplyBegins ==
    /\ worker.pc = "apply" /\ ~remoteMissingPrincipal
    /\ node[Target].up /\ node[Target].phase = "idle" /\ node[Target].ver # jobs[Job].tag
    /\ node' = [node EXCEPT ![Target].phase = "install", ![Target].pin = jobs[Job].tag,
                            ![Target].waited = TRUE]
    /\ UNCHANGED <<jobs, memory, seen, history, bounds>>

\* the remote call times out or cannot be made; what the node does about it goes on
CallCut ==
    /\ worker.pc = "apply" /\ Target # Entry
    /\ Goto("wait")
    /\ node' = [node EXCEPT ![Target].waited = FALSE]
    /\ UNCHANGED <<jobs, queue, hs, idents, seen, history, bounds>>

\* waitReady, for a target just applied and for one found RUNNING after a restart.  For the
\* latter the code ends the pass when the write fails; only a database error makes it fail,
\* because no request replaces a row that is in flight.
WaitReady ==
    /\ worker.pc = "wait"
    /\ WriteTarget(IF memberReady(Target, jobs[Job].tag) THEN "SUCCESS" ELSE "FAILED")
    /\ NextTarget
    /\ UNCHANGED <<queue, hs, idents, node, seen, history, bounds>>

\* cancelPending, a row at a time; a row that was replaced ends it
CancelPending ==
    /\ worker.pc = "cancel"
    /\ IF worker.left = {} \/ ~OwnTarget THEN Goto("finalize") /\ UNCHANGED jobs
       ELSE WriteTarget("CANCELLED") /\ worker' = [worker EXCEPT !.left = Rest]
    /\ UNCHANGED <<queue, hs, idents, node, seen, history, bounds>>

\* finalize reads the targets, then writes the job's status
Finalize ==
    /\ worker.pc = "finalize"
    /\ worker' = IF RollupJob(Job) = "RUNNING" THEN WIdle
                 ELSE [worker EXCEPT !.pc = "settle", !.end = RollupJob(Job)]
    /\ UNCHANGED <<jobs, queue, hs, idents, node, seen, history, bounds>>

SettleJob ==
    /\ worker.pc = "settle"
    /\ jobs' = [jobs EXCEPT ![Job].st = worker.end]
    /\ worker' = WIdle
    /\ UNCHANGED <<queue, hs, idents, node, seen, history, bounds>>

-----------------------------------------------------------------------------
(* The agents: Applier.Apply, restarts, crashes, gossip.                   *)

\* Apply on n returns an error: its caller, if still there, gets it
ApplyFails(n, installed) ==
    /\ node' = [node EXCEPT ![n].phase = "idle", ![n].waited = FALSE, ![n].pin = 0,
                            ![n].disk = IF installed THEN node[n].pin ELSE @]
    /\ \/ ~node[n].waited /\ UNCHANGED <<jobs, worker>>
       \/ node[n].waited /\ \E failed \in BOOLEAN : EndCall(failed)
    /\ UNCHANGED <<queue, hs, idents>>

\* download, check and install; an installation that fails may already have replaced
\* the agent's binary
Install(n) ==
    /\ node[n].phase = "install"
    /\ \/ \E replaced \in BOOLEAN : ApplyFails(n, replaced)
       \/ /\ node' = [node EXCEPT ![n].phase = "restart", ![n].disk = node[n].pin]
          /\ UNCHANGED <<jobs, memory>>
    /\ UNCHANGED <<seen, history, bounds>>

\* the process ends: with the Entry go its worker, its requests and its principals
Down(n) ==
    /\ node' = [m \in Nodes |->
         IF m = n THEN [node[n] EXCEPT !.up = FALSE, !.phase = "idle", !.pin = 0, !.waited = FALSE]
         ELSE [node[m] EXCEPT !.waited = @ /\ n # Entry]]
    /\ IF n = Entry
       THEN /\ worker' = WIdle /\ queue' = <<>> /\ idents' = {}
            /\ hs' = [h \in Handlers |-> HIdle]
       ELSE /\ IF node[n].waited THEN Goto("wait") ELSE UNCHANGED worker
            /\ UNCHANGED <<queue, idents, hs>>
    /\ UNCHANGED jobs

\* the restart that ends an Apply, or its failure (UNAVAILABLE, so the node is awaited)
Restart(n) ==
    /\ node[n].phase = "restart"
    /\ \/ Down(n)
       \/ /\ node' = [node EXCEPT ![n].phase = "idle", ![n].waited = FALSE, ![n].pin = 0]
          /\ IF node[n].waited THEN Goto("wait") ELSE UNCHANGED worker
          /\ UNCHANGED <<jobs, queue, hs, idents>>
    /\ UNCHANGED <<seen, history, bounds>>

Crash(n) ==
    /\ node[n].up /\ events < MaxEvents
    /\ events' = events + 1
    /\ Down(n)
    /\ UNCHANGED <<seen, history, calls>>

\* mutant: the jobs in flight are not queued again
Resume_Nothing(n) ==
    /\ ~node[n].up
    /\ node' = [node EXCEPT ![n].up = TRUE, ![n].ver = node[n].disk]
    /\ ran' = [ran EXCEPT ![n] = @ \cup {node[n].disk}]
    /\ UNCHANGED queue
    /\ UNCHANGED <<jobs, worker, hs, idents, seen, raced, late, bounds>>

\* the jobs in flight, oldest first (ListRunningUpdateJobIDs)
InFlight == {j \in Inserted : HasRunningUpdateJob(j)}
ListRunningUpdateJobIDs ==
    {q \in [1..Cardinality(InFlight) -> InFlight] :
        ToSet(q) = InFlight /\ \A i, k \in DOMAIN q : i < k => q[i] < q[k]}

\* an agent comes up on the installed release; the Entry resumes the jobs in flight
Resume(n) ==
    /\ ~node[n].up
    /\ node' = [node EXCEPT ![n].up = TRUE, ![n].ver = node[n].disk]
    /\ ran' = [ran EXCEPT ![n] = @ \cup {node[n].disk}]
    /\ IF n = Entry THEN queue' \in ListRunningUpdateJobIDs ELSE UNCHANGED queue
    /\ UNCHANGED <<jobs, worker, hs, idents, seen, raced, late, bounds>>

Gossip(n) ==
    /\ AgentUp
    /\ seen[n] # (IF node[n].up THEN node[n].ver ELSE 0)
    /\ seen' = [seen EXCEPT ![n] = IF node[n].up THEN node[n].ver ELSE 0]
    /\ UNCHANGED <<jobs, memory, node, history, bounds>>

\* an operator updates one node by hand
ApplyNode(n) ==
    /\ events < MaxEvents
    /\ node[n].up /\ node[n].phase = "idle"
    /\ \E tag \in Tags \ {node[n].ver} :
         node' = [node EXCEPT ![n].phase = "install", ![n].pin = tag]
    /\ events' = events + 1
    /\ UNCHANGED <<jobs, memory, seen, history, calls>>

-----------------------------------------------------------------------------
WorkerStep ==
    \/ RunJob \/ PickTarget \/ StartTarget \/ MissingPrincipal
    \/ ApplyAnswered \/ ApplyBegins \/ CallCut \/ WaitReady
    \/ CancelPending \/ Finalize \/ SettleJob

HandlerStep(h) ==
    \/ InsertUpdateJob(h) \/ BindAndEnqueue(h) \/ RememberPrincipal(h)
    \/ SetUpdateJobCancelRemaining(h)
    \/ ReplaceUpdateJobTargetOp(h)
    \/ ClearCancel(h) \/ RerunJob(h) \/ EnqueueRetry(h)

NodeStep(n) == Install(n) \/ Restart(n) \/ Resume(n)

Next ==
    \/ WorkerStep
    \/ \E h \in Handlers : HandlerStep(h) \/ CreateClusterUpdate(h) \/ CancelRemaining(h) \/ Retry(h)
    \/ \E n \in Nodes : NodeStep(n) \/ Crash(n) \/ Gossip(n) \/ ApplyNode(n)

Spec == Init /\ [][Next]_vars

-----------------------------------------------------------------------------
(* Properties.                                                             *)

\* Two requests that both found no job running never leave two jobs in
\* flight: the database's index settles the race Create and Retry lose
\* between their check and their write.
OneJobInFlight ==
    \A j, k \in Inserted : HasRunningUpdateJob(j) /\ HasRunningUpdateJob(k) => j = k

Before(j, n) == {At(j, i) : i \in {i \in Places : \E k \in Places : k > i /\ At(j, k) = n}}

\* A node is called only when every node before it in the job's order is
\* recorded a success and has really run the pinned release: across
\* time-outs, lost answers, restarts of the entry, cancels and retries, as
\* long as no two retries of the job were answered at the same time.
RollsOneByOne ==
    worker.pc = "apply" /\ Job \notin raced =>
        \A n \in Before(Job, Target) : Row(Job, n).st = "SUCCESS" /\ jobs[Job].tag \in ran[n]

\* The entry's own update, which ends its process and with it the principals
\* the other targets need, begins when no other target has anything left to
\* do, under the same condition.
OwnRestartLosesNothing ==
    worker.pc = "apply" /\ Target = Entry /\ Job \notin raced =>
        \A n \in Nodes \ {Entry} : Row(Job, n).st \in {"SUCCESS", "SKIPPED"}

\* The target the worker is busy with stays its own: a retry that read the
\* job before it was running again replaces no row under the worker, unless
\* two retries of the job overlapped.
WorkerOwnsTarget ==
    worker.pc \in {"apply", "wait"} /\ Job \notin raced =>
        /\ jobs[Job].st = "RUNNING"
        /\ Row(Job, Target).st = "RUNNING"
        /\ OwnTarget

\* Once CancelRemaining has set the flag at most one more node is begun (the
\* one the worker had already chosen), until a retry takes the flag away.
CancelStopsTheRoll == \A j \in Jobs : late[j] <= 1

\* A target that succeeded is never put back, whatever cancels, crashes and
\* retries that do not overlap do.
SuccessKept ==
    [][\A j \in Inserted \ raced : \A n \in Nodes : Row(j, n).st = "SUCCESS" => Row(j, n)' = Row(j, n)]_vars

\* A running job always has somebody who will take it on: the worker, its
\* queue or the request about to queue it, through restarts of the entry (its
\* own update included), requests cut half way and targets left in flight,
\* unless two of its retries overlapped.
NoOrphanJob ==
    AgentUp => \A j \in Jobs \ raced : jobs[j].st = "RUNNING" =>
        \/ j \in ToSet(queue) \/ worker.job = j
        \/ \E h \in Handlers : hs[h].job = j /\ hs[h].pc \in {"bind", "enqueue"}

=============================================================================
