------------------------- MODULE UpdateEngineProofs -------------------------
(***************************************************************************)
(* Proofs about UpdateEngine for any nodes, jobs, releases, requests and   *)
(* handlers, and any number of calls and events.                           *)
(***************************************************************************)
EXTENDS UpdateEngine, TLAPS, FiniteSetTheorems, WellFoundedInduction

-----------------------------------------------------------------------------
(* The inductive invariant: what holds of every job. *)

\* The status of the row at a place of the job's order.
StAt(j, i) == Row(j, At(j, i)).st
Busy(j) == worker.pc # "idle" /\ Job = j

\* A job that was not inserted is blank; one that was has its order and its release.
Blank(j) ==
  /\ jobs[j].st = "NONE" => late[j] = 0 /\ jobs[j].cancel = FALSE /\ ~HasRow(j, "RUNNING")
                            /\ ~HasRow(j, "SUCCESS")
  /\ jobs[j].st # "NONE" => jobs[j].order \in Orders /\ jobs[j].tag \in Tags

\* A row in flight is one of a running job, and one job is running.
RunningRowRunningJob(j) == HasRow(j, "RUNNING") => jobs[j].st = "RUNNING"
OneRunning == \A j, k \in Jobs : jobs[j].st = "RUNNING" /\ jobs[k].st = "RUNNING" => j = k

\* The worker is on a running job; the status it is about to write is the sum of rows of
\* which none is in flight.
WorkerOn ==
  /\ worker.pc = "idle" => worker = WIdle
  /\ worker.pc # "idle" => Job \in Jobs /\ jobs[Job].st = "RUNNING"
  /\ worker.pc \in {"start", "apply", "wait"} => worker.left # {}
  /\ worker.pc = "settle" => worker.end \in {"COMPLETED", "PARTIAL", "FAILED"} /\ ~HasRow(Job, "RUNNING")

\* A node whose Apply has a caller is the worker's target, called with its principal.
CallerIsWorker(n) ==
  node[n].waited => worker.pc = "apply" /\ Target = n /\ ~remoteMissingPrincipal

\* A node runs, and gossip shows, what it has run; so does the target of a success.  What
\* it installs is a release.
HasRun(n) ==
  /\ node[n].ver \in ran[n] /\ (seen[n] # 0 => seen[n] \in ran[n])
  /\ node[n].phase = "install" => node[n].pin \in Tags
SuccessHasRun(j) == \A n \in Nodes : Row(j, n).st = "SUCCESS" => jobs[j].tag \in ran[n]

\* Once a target was begun under the flag, the flag is there and no other is begun.
LateOnce(j) ==
  /\ late[j] <= 1 /\ (late[j] # 0 => jobs[j].cancel)
  /\ worker.pc = "start" /\ Job = j => late[j] = 0

HandlerOK(h) ==
  /\ hs[h].pc = "insert" =>
       /\ hs[h].req \in Requests /\ hs[h].tag \in Tags
       /\ \E leader \in {Leader, NoJob} : hs[h].order \in OrderTargets(hs[h].elig, leader)
  /\ hs[h].pc \notin {"idle", "insert"} => hs[h].job \in Inserted

Common ==
  /\ \A j \in Jobs : Blank(j) /\ RunningRowRunningJob(j) /\ SuccessHasRun(j) /\ LateOnce(j)
  /\ OneRunning /\ WorkerOn
  /\ \A n \in Nodes : CallerIsWorker(n) /\ HasRun(n)
  /\ \A h \in Handlers : HandlerOK(h)

-----------------------------------------------------------------------------
(* The inductive invariant: what holds of a job none of whose retries overlapped. *)

\* Skipped rows come last, and nothing but skipped rows after the entry's own.
SkippedLast(j) ==
  jobs[j].st # "NONE" =>
    \A i, k \in Places : i < k /\ (StAt(j, i) = "SKIPPED" \/ At(j, i) = Entry) => StAt(j, k) = "SKIPPED"

\* What is before a target in flight has succeeded.
SuccessBefore(j) ==
  jobs[j].st # "NONE" =>
    \A i, k \in Places : i < k /\ StAt(j, k) = "RUNNING" => StAt(j, i) = "SUCCESS"

\* A running job has something to do, and cancelled rows only while its flag is set.
RunSound(j) ==
  jobs[j].st = "RUNNING" =>
    /\ \E i \in Places : StAt(j, i) # "SKIPPED"
    /\ \A i \in Places : StAt(j, i) = "CANCELLED" => jobs[j].cancel

\* A retry is alone with a job that is not running: the rows it has not replaced yet are
\* as it read them, and are all there is of cancelled ones.
RetrySound(h, j) ==
  /\ jobs[j].st # "RUNNING"
  /\ \A k \in Handlers : Retrying(k, j) => k = h
  /\ \A x \in hs[h].todo : Row(j, At(j, x[1])).op = x[2] /\ retryableTarget(StAt(j, x[1]))
  /\ \A i \in Places : StAt(j, i) = "CANCELLED" => \E x \in hs[h].todo : x[1] = i
  /\ \E i \in Places : StAt(j, i) # "SKIPPED"
  /\ hs[h].pc # "replace" => hs[h].todo = {}

\* A job made with nothing eligible has nothing to do.
BindSound(h, j) ==
  hs[h].pc = "bind" /\ hs[h].job = j /\ hs[h].elig = {} => \A i \in Places : StAt(j, i) = "SKIPPED"

\* The worker finds the rows as it left them.
WorkerSound(j) ==
  /\ worker.ops = Ops(j)
  /\ worker.pc \in {"pick", "start", "apply", "wait"} =>
       \A i \in Places \ worker.left : StAt(j, i) \notin {"PENDING", "RUNNING"}
  /\ worker.pc = "start" =>
       /\ Row(j, Target).st = "PENDING"
       /\ \A i \in Places : StAt(j, i) \notin {"FAILED", "CANCELLED"}
  /\ worker.pc \in {"apply", "wait"} => Row(j, Target).st = "RUNNING"
  /\ worker.pc \in {"cancel", "finalize", "settle"} => \A i \in Places : StAt(j, i) # "RUNNING"
  /\ worker.pc = "cancel" => jobs[j].cancel /\ \A i \in worker.left : StAt(j, i) = "PENDING"

\* Somebody will take a running job on.
Cared(j) ==
  AgentUp /\ jobs[j].st = "RUNNING" =>
    \/ j \in ToSet(queue) \/ worker.job = j
    \/ \E h \in Handlers : hs[h].job = j /\ hs[h].pc \in {"bind", "enqueue"}

Sound(j) ==
  /\ SkippedLast(j) /\ SuccessBefore(j) /\ RunSound(j) /\ Cared(j)
  /\ \A h \in Handlers : BindSound(h, j) /\ (Retrying(h, j) => RetrySound(h, j))
  /\ Busy(j) => WorkerSound(j)

Inv == TypeOK /\ Common /\ \A j \in Jobs \ raced : Sound(j)

-----------------------------------------------------------------------------
(* Places, orders and the worker's target. *)

LEMMA FirstIsIn ==
  ASSUME NEW S \in SUBSET Places, S # {}
  PROVE  First(S) \in S /\ \A k \in S : First(S) <= k
<1> DEFINE R == {p \in Nat \X Nat : p[1] < p[2]}
<1>1. S \subseteq Nat
  <2>1. Cardinality(Nodes) \in Nat
    BY FS_CardinalityType, ConstantsAssumption DEF ConstantsAssumption
  <2> QED BY <2>1 DEF Places
<1>2. IsWellFoundedOn(R, Nat)
  BY NatLessThanWellFounded DEF OpToRel
<1>3. \E x \in S : \A y \in S : ~(<<y, x>> \in R)
  <2> HIDE DEF R
  <2> QED BY <1>1, <1>2, WFMin
<1>4. PICK x \in S : \A y \in S : ~(<<y, x>> \in R)
  BY <1>3
<1>5. \A y \in S : x <= y
  <2> TAKE y \in S
  <2>1. <<y, x>> \in Nat \X Nat /\ <<y, x>>[1] = y /\ <<y, x>>[2] = x
    BY <1>1
  <2>2. ~(y < x)
    BY <1>4, <2>1
  <2> QED BY <1>1, <2>2
<1> QED BY <1>5 DEF First

LEMMA PlacesAreNats == Places \subseteq Nat
<1>1. Cardinality(Nodes) \in Nat
  BY FS_CardinalityType, ConstantsAssumption DEF ConstantsAssumption
<1> QED BY <1>1 DEF Places

\* An order has every node at one place.
LEMMA OrderPlaces ==
  ASSUME NEW o \in Orders
  PROVE  /\ \A i \in Places : o[i] \in Nodes
         /\ \A i, k \in Places : o[i] = o[k] => i = k
         /\ \A n \in Nodes : \E i \in Places : o[i] = n
BY DEF Orders, Bijection, Injection, Surjection, IsInjective

LEMMA InsertedOrder ==
  ASSUME Common, NEW j \in Jobs, jobs[j].st # "NONE"
  PROVE  /\ jobs[j].order \in Orders /\ jobs[j].tag \in Tags
         /\ \A i \in Places : At(j, i) \in Nodes
         /\ \A i, k \in Places : At(j, i) = At(j, k) => i = k
         /\ \A n \in Nodes : \E i \in Places : At(j, i) = n
<1>1. jobs[j].order \in Orders /\ jobs[j].tag \in Tags
  BY DEF Common, Blank
<1> QED BY <1>1, OrderPlaces DEF At

\* The worker's target, where there is one.
LEMMA TargetIsPlace ==
  ASSUME TypeOK, Common, worker.pc # "idle", worker.left # {}
  PROVE  /\ First(worker.left) \in worker.left /\ worker.left \subseteq Places
         /\ \A k \in worker.left : First(worker.left) <= k
         /\ Job \in Jobs /\ jobs[Job].st = "RUNNING" /\ Target \in Nodes
         /\ TargetOp \in Nat /\ worker.ops \in [Nodes -> Nat]
         /\ \A i \in Places : At(Job, i) = Target <=> i = First(worker.left)
<1>1. Job \in Jobs /\ jobs[Job].st = "RUNNING"
  BY DEF Common, WorkerOn
<1>2. worker.left \subseteq Places /\ worker.ops \in [Nodes -> Nat]
  BY DEF TypeOK, WorkerType
<1>3. First(worker.left) \in worker.left /\ \A k \in worker.left : First(worker.left) <= k
  BY <1>2, FirstIsIn
<1>4. /\ \A i \in Places : At(Job, i) \in Nodes
      /\ \A i, k \in Places : At(Job, i) = At(Job, k) => i = k
  BY <1>1, InsertedOrder
<1>5. Target \in Nodes /\ \A i \in Places : At(Job, i) = Target <=> i = First(worker.left)
  BY <1>2, <1>3, <1>4 DEF Target
<1> QED BY <1>1, <1>2, <1>3, <1>5 DEF TargetOp

-----------------------------------------------------------------------------
(* What the writes to the tables do. *)

\* A write of a row's status.
RowSet(j, n, s) == jobs' = [jobs EXCEPT ![j].row[n].st = s]
\* A row is put back under a new operation id.
RowNew(j, n, op) == jobs' = [jobs EXCEPT ![j].row[n] = [st |-> "PENDING", op |-> op]]

\* Only job j changes; it keeps its release, its request and its order.
OnlyJob(j) ==
  /\ \A k \in Jobs \ {j} : jobs'[k] = jobs[k]
  /\ jobs'[j].tag = jobs[j].tag /\ jobs'[j].req = jobs[j].req /\ jobs'[j].order = jobs[j].order

LEMMA RowSetEffect ==
  ASSUME jobs \in [Jobs -> JobType], NEW j \in Jobs, NEW n \in Nodes, NEW s \in TargetSt, RowSet(j, n, s)
  PROVE  /\ jobs' \in [Jobs -> JobType] /\ OnlyJob(j)
         /\ jobs'[j].st = jobs[j].st /\ jobs'[j].cancel = jobs[j].cancel
         /\ Row(j, n)'.st = s /\ Row(j, n)'.op = Row(j, n).op
         /\ \A m \in Nodes \ {n} : Row(j, m)' = Row(j, m)
<1>1. jobs[j] \in JobType /\ jobs[j].row \in [Nodes -> TargetType]
  BY DEF JobType
<1>2. [jobs[j].row EXCEPT ![n].st = s] \in [Nodes -> TargetType]
  BY <1>1 DEF TargetType
<1>3. jobs' = [jobs EXCEPT ![j] = [jobs[j] EXCEPT !.row = [jobs[j].row EXCEPT ![n].st = s]]]
  BY <1>1 DEF RowSet, JobType
<1>4. [jobs[j] EXCEPT !.row = [jobs[j].row EXCEPT ![n].st = s]] \in JobType
  BY <1>1, <1>2 DEF JobType
<1>5. jobs'[j].row = [jobs[j].row EXCEPT ![n].st = s]
  BY <1>1, <1>3 DEF JobType
<1>6. jobs' \in [Jobs -> JobType] /\ OnlyJob(j) /\ jobs'[j].st = jobs[j].st /\ jobs'[j].cancel = jobs[j].cancel
  BY <1>1, <1>3, <1>4 DEF JobType, OnlyJob
<1> QED BY <1>1, <1>5, <1>6 DEF Row, TargetType

LEMMA RowNewEffect ==
  ASSUME jobs \in [Jobs -> JobType], NEW j \in Jobs, NEW n \in Nodes, NEW op \in Nat, RowNew(j, n, op)
  PROVE  /\ jobs' \in [Jobs -> JobType] /\ OnlyJob(j)
         /\ jobs'[j].st = jobs[j].st /\ jobs'[j].cancel = jobs[j].cancel
         /\ Row(j, n)'.st = "PENDING" /\ Row(j, n)'.op = op
         /\ \A m \in Nodes \ {n} : Row(j, m)' = Row(j, m)
<1>1. jobs[j] \in JobType /\ jobs[j].row \in [Nodes -> TargetType]
  BY DEF JobType
<1> DEFINE t == [st |-> "PENDING", op |-> op]
<1>2. t \in TargetType
  BY DEF TargetType, TargetSt
<1>0. t.st = "PENDING" /\ t.op = op
  OBVIOUS
<1> HIDE DEF t
<1>3. jobs' = [jobs EXCEPT ![j] = [jobs[j] EXCEPT !.row = [jobs[j].row EXCEPT ![n] = t]]]
  BY <1>1 DEF RowNew, JobType, t
<1>4. [jobs[j] EXCEPT !.row = [jobs[j].row EXCEPT ![n] = t]] \in JobType
  BY <1>1, <1>2 DEF JobType
<1>5. jobs'[j].row = [jobs[j].row EXCEPT ![n] = t]
  BY <1>1, <1>3 DEF JobType
<1>6. jobs' \in [Jobs -> JobType] /\ OnlyJob(j) /\ jobs'[j].st = jobs[j].st /\ jobs'[j].cancel = jobs[j].cancel
  BY <1>1, <1>3, <1>4 DEF JobType, OnlyJob
<1> QED BY <1>0, <1>1, <1>5, <1>6 DEF Row

\* A write of the cancel flag or of the job's status.
LEMMA FlagSetEffect ==
  ASSUME jobs \in [Jobs -> JobType], NEW j \in Jobs,
         NEW b \in BOOLEAN, jobs' = [jobs EXCEPT ![j].cancel = b]
  PROVE  /\ jobs' \in [Jobs -> JobType] /\ OnlyJob(j)
         /\ jobs'[j].st = jobs[j].st /\ jobs'[j].cancel = b /\ jobs'[j].row = jobs[j].row
BY DEF JobType, OnlyJob

LEMMA StatusSetEffect ==
  ASSUME jobs \in [Jobs -> JobType], NEW j \in Jobs,
         NEW s \in JobSt, jobs' = [jobs EXCEPT ![j].st = s]
  PROVE  /\ jobs' \in [Jobs -> JobType] /\ OnlyJob(j)
         /\ jobs'[j].st = s /\ jobs'[j].cancel = jobs[j].cancel /\ jobs'[j].row = jobs[j].row
BY DEF JobType, OnlyJob

-----------------------------------------------------------------------------
(* Types. *)

\* The groups of TypeOK.
HandlersType == hs \in [Handlers -> HandlerType]
RestType ==
  /\ node \in [Nodes -> NodeType] /\ seen \in [Nodes -> Tags \cup {0, 1}]
  /\ ran \in [Nodes -> SUBSET (Tags \cup {1})]
  /\ raced \subseteq Jobs /\ late \in [Jobs -> Nat] /\ calls \in Nat /\ events \in Nat
QueueType == queue \in Seq(Jobs)
IdentsType == idents \subseteq Jobs \X Nodes \X Nat
JobsType == jobs \in [Jobs -> JobType]

LEMMA TypeGroups ==
  TypeOK <=> JobsType /\ QueueType /\ worker \in WorkerType /\ HandlersType /\ IdentsType /\ RestType
BY DEF TypeOK, JobsType, QueueType, HandlersType, IdentsType, RestType

LEMMA TypeGroupsNext ==
  TypeOK' <=> JobsType' /\ QueueType' /\ worker' \in WorkerType /\ HandlersType' /\ IdentsType' /\ RestType'
BY DEF TypeOK, JobsType, QueueType, HandlersType, IdentsType, RestType

LEMMA HIdleType == HIdle \in HandlerType /\ HIdle.pc = "idle"
BY DEF HIdle, HandlerType, NoJob

LEMMA WIdleType == WIdle \in WorkerType /\ WIdle.pc = "idle" /\ WIdle.job = NoJob
BY DEF WIdle, WorkerType, JobSt

LEMMA NoJobIsNone == NoJob \notin Jobs
BY ConstantsAssumption DEF ConstantsAssumption, NoJob

Pcs == {"idle", "insert", "bind", "remember", "flag", "replace", "clear", "rerun", "enqueue"}

\* A handler goes on, or its answer is given.
LEMMA BecomeEffect ==
  ASSUME HandlersType, NEW h \in Handlers, NEW pc \in Pcs, Become(h, pc)
  PROVE  /\ HandlersType'
         /\ hs'[h].pc = pc /\ hs'[h].job = hs[h].job /\ hs'[h].elig = hs[h].elig
         /\ hs'[h].todo = hs[h].todo /\ hs'[h].order = hs[h].order
         /\ \A k \in Handlers \ {h} : hs'[k] = hs[k]
<1>1. hs[h] \in HandlerType
  BY DEF HandlersType
<1>2. [hs[h] EXCEPT !.pc = pc] \in HandlerType
  BY <1>1 DEF HandlerType, Pcs
<1>3. hs' = [hs EXCEPT ![h] = [hs[h] EXCEPT !.pc = pc]]
  BY DEF Become
<1> DEFINE c == [hs[h] EXCEPT !.pc = pc]
<1>4. c.pc = pc /\ c.job = hs[h].job /\ c.elig = hs[h].elig /\ c.todo = hs[h].todo /\ c.order = hs[h].order
  BY <1>1 DEF HandlerType
<1> HIDE DEF c
<1>5. c \in HandlerType /\ hs' = [hs EXCEPT ![h] = c]
  BY <1>2, <1>3 DEF c
<1> QED BY <1>4, <1>5 DEF HandlersType

LEMMA AnswerEffect ==
  ASSUME HandlersType, NEW h \in Handlers, Answer(h)
  PROVE  HandlersType' /\ hs'[h] = HIdle /\ hs'[h].pc = "idle" /\ \A k \in Handlers \ {h} : hs'[k] = hs[k]
BY HIdleType DEF HandlersType, Answer

\* A handler takes up a job.
LEMMA TakesJob ==
  ASSUME HandlersType, NEW h \in Handlers, NEW pc \in Pcs, NEW j \in Jobs,
         hs' = [hs EXCEPT ![h].pc = pc, ![h].job = j]
  PROVE  /\ HandlersType'
         /\ hs'[h].pc = pc /\ hs'[h].job = j
         /\ \A k \in Handlers \ {h} : hs'[k] = hs[k]
<1>1. hs[h] \in HandlerType
  BY DEF HandlersType
<1> DEFINE c == [hs[h] EXCEPT !.pc = pc, !.job = j]
<1>2. c \in HandlerType /\ c.pc = pc /\ c.job = j
  BY <1>1 DEF HandlerType, Pcs
<1>3. hs' = [hs EXCEPT ![h] = c]
  OBVIOUS
<1> HIDE DEF c
<1> QED BY <1>2, <1>3 DEF HandlersType

\* The worker goes on, or passes to the next target.
WPcs == {"idle", "pick", "start", "apply", "wait", "cancel", "finalize", "settle"}

LEMMA GotoEffect ==
  ASSUME worker \in WorkerType, NEW pc \in WPcs, Goto(pc)
  PROVE  /\ worker' \in WorkerType /\ worker'.pc = pc
         /\ worker'.job = worker.job /\ worker'.left = worker.left /\ worker'.ops = worker.ops
         /\ worker'.end = worker.end
BY DEF WorkerType, WPcs, Goto

LEMMA NextTargetEffect ==
  ASSUME worker \in WorkerType, NextTarget
  PROVE  /\ worker' \in WorkerType /\ worker'.pc = "pick"
         /\ worker'.job = worker.job /\ worker'.left = Rest /\ worker'.ops = worker.ops
BY DEF WorkerType, NextTarget, Rest

-----------------------------------------------------------------------------
(* What holds of every job: frames. *)

Tables ==
  /\ \A j \in Jobs : Blank(j) /\ RunningRowRunningJob(j) /\ SuccessHasRun(j)
  /\ OneRunning
Lates == \A j \in Jobs : LateOnce(j)
Callers == \A n \in Nodes : CallerIsWorker(n)
Runs == \A n \in Nodes : HasRun(n)
Handled == \A h \in Handlers : HandlerOK(h)

LEMMA CommonGroups == Common <=> Tables /\ Lates /\ WorkerOn /\ Callers /\ Runs /\ Handled
BY DEF Common, Tables, Lates, Callers, Runs, Handled

LEMMA CommonGroupsNext ==
  Common' <=> Tables' /\ Lates' /\ WorkerOn' /\ Callers' /\ Runs' /\ Handled'
BY DEF Common, Tables, Lates, Callers, Runs, Handled

RanGrows == \A n \in Nodes : ran[n] \subseteq ran'[n]

LEMMA TablesFrame ==
  ASSUME Tables, UNCHANGED <<jobs, late>>, RanGrows
  PROVE  Tables'
BY DEF Tables, Blank, RunningRowRunningJob, SuccessHasRun, OneRunning, HasRow, Row, RanGrows

LEMMA LatesFrame ==
  ASSUME Lates, UNCHANGED <<jobs, late>>, worker'.pc # "start" \/ worker' = worker
  PROVE  Lates'
BY DEF Lates, LateOnce, Job

LEMMA RunsFrame ==
  ASSUME Runs, UNCHANGED <<node, seen>>, RanGrows
  PROVE  Runs'
BY DEF Runs, HasRun, RanGrows

\* Jobs stay.
JobsStay == \A j \in Jobs : jobs[j].st # "NONE" => jobs'[j].st # "NONE" /\ jobs'[j].order = jobs[j].order

LEMMA HandledFrame ==
  ASSUME Handled, JobsStay, NEW h \in Handlers, hs'[h] = hs[h]
  PROVE  HandlerOK(h)'
BY DEF Handled, HandlerOK, JobsStay, Inserted

LEMMA CallersFrame ==
  ASSUME Callers, WorkerOn, JobsStay, UNCHANGED <<node, worker>>, idents \subseteq idents'
  PROVE  Callers'
<1> SUFFICES ASSUME NEW n \in Nodes, node[n].waited
             PROVE  CallerIsWorker(n)'
  BY DEF Callers, CallerIsWorker
<1>1. worker.pc = "apply" /\ Target = n /\ ~remoteMissingPrincipal
  BY DEF Callers, CallerIsWorker
<1>2. jobs'[Job].order = jobs[Job].order
  BY <1>1 DEF WorkerOn, JobsStay
<1>3. Target' = Target /\ TargetOp' = TargetOp /\ Job' = Job
  BY <1>2 DEF Target, TargetOp, Job, At
<1> QED BY <1>1, <1>3 DEF CallerIsWorker, remoteMissingPrincipal

LEMMA WorkerOnFrame ==
  ASSUME WorkerOn, UNCHANGED <<jobs, worker>>
  PROVE  WorkerOn'
BY DEF WorkerOn, Job, HasRow, Row

\* A step that touches neither the tables nor the worker.
LEMMA QuietCommon ==
  ASSUME Common, UNCHANGED <<jobs, worker, node, seen, ran, late>>, idents \subseteq idents',
         Handled'
  PROVE  Common'
<1>1. RanGrows /\ JobsStay
  BY DEF RanGrows, JobsStay
<1> QED
  BY <1>1, CommonGroups, CommonGroupsNext, TablesFrame, LatesFrame, RunsFrame, CallersFrame, WorkerOnFrame

-----------------------------------------------------------------------------
(* The requests: types, and what holds of every job. *)

\* All handlers but one stay, and that one is sound.
LEMMA OneHandler ==
  ASSUME Handled, JobsStay, NEW h \in Handlers, \A k \in Handlers \ {h} : hs'[k] = hs[k], HandlerOK(h)'
  PROVE  Handled'
<1>1. \A k \in Handlers \ {h} : HandlerOK(k)'
  BY HandledFrame
<1> QED BY <1>1 DEF Handled

\* A step of a handler that leaves the tables, the worker and the nodes alone.
LEMMA QuietStep ==
  ASSUME TypeOK, Common, NEW h \in Handlers,
         HandlersType', \A k \in Handlers \ {h} : hs'[k] = hs[k], HandlerOK(h)',
         QueueType', IdentsType', idents \subseteq idents',
         UNCHANGED <<jobs, worker, node, seen, ran, late, events>>,
         calls' \in Nat, raced' \subseteq Jobs
  PROVE  TypeOK' /\ Common'
<1>1. JobsStay
  BY DEF JobsStay
<1>2. Handled'
  BY <1>1, OneHandler, CommonGroups
<1>3. TypeOK'
  BY TypeGroups, TypeGroupsNext DEF RestType, JobsType
<1> QED BY <1>2, <1>3, QuietCommon

LEMMA PrincipalsType ==
  ASSUME TypeOK, NEW j \in Jobs
  PROVE  Principals(j) \subseteq Jobs \X Nodes \X Nat
BY DEF TypeOK, JobType, TargetType, Principals, Row

\* A handler takes up a job to bind its targets.
LEMMA RememberEffect ==
  ASSUME TypeOK, NEW h \in Handlers, NEW j \in Jobs, Remember(h, j)
  PROVE  /\ HandlersType'
         /\ hs'[h].pc = "remember" /\ hs'[h].job = j
         /\ \A k \in Handlers \ {h} : hs'[k] = hs[k]
<1> DEFINE c == [hs[h] EXCEPT !.pc = "remember", !.job = j, !.minted = Principals(j)]
<1>1. hs[h] \in HandlerType /\ hs \in [Handlers -> HandlerType]
  BY DEF TypeOK
<1>2. c \in HandlerType /\ c.pc = "remember" /\ c.job = j
  BY <1>1, PrincipalsType DEF HandlerType, Pcs
<1>3. hs' = [hs EXCEPT ![h] = c]
  BY DEF Remember
<1> HIDE DEF c
<1> QED BY <1>1, <1>2, <1>3 DEF HandlersType

LEMMA CallsCount == ASSUME TypeOK PROVE calls + 1 \in Nat
BY DEF TypeOK

LEMMA CreateEffect ==
  ASSUME TypeOK, Common, NEW h \in Handlers, CreateClusterUpdate(h)
  PROVE  /\ HandlersType' /\ (\A k \in Handlers \ {h} : hs'[k] = hs[k]) /\ HandlerOK(h)'
         /\ hs'[h].pc \in {"remember", "insert"}
<1>1. CASE \E r \in Requests : \E j \in Existing(r) : Remember(h, j)
  <2>1. PICK j \in Inserted : Remember(h, j)
    BY <1>1 DEF Existing
  <2>2. j \in Jobs
    BY DEF Inserted
  <2>3. /\ HandlersType' /\ hs'[h].pc = "remember" /\ hs'[h].job = j
        /\ \A k \in Handlers \ {h} : hs'[k] = hs[k]
    BY <2>1, <2>2, RememberEffect
  <2>4. j \in Inserted'
    BY DEF CreateClusterUpdate, Inserted
  <2> QED BY <2>3, <2>4 DEF HandlerOK
<1>2. CASE \E r \in Requests, tag \in Tags, leader \in {Leader, NoJob} :
             \E elig \in SUBSET MayBeEligible(tag) : \E order \in OrderTargets(elig, leader) :
                hs' = [hs EXCEPT ![h] = [HIdle EXCEPT !.pc = "insert", !.req = r, !.tag = tag,
                                                      !.elig = elig, !.order = order]]
  <2>1. PICK r \in Requests, tag \in Tags, leader \in {Leader, NoJob} :
             \E elig \in SUBSET MayBeEligible(tag) : \E order \in OrderTargets(elig, leader) :
                hs' = [hs EXCEPT ![h] = [HIdle EXCEPT !.pc = "insert", !.req = r, !.tag = tag,
                                                      !.elig = elig, !.order = order]]
    BY <1>2
  <2>9. PICK elig \in SUBSET Nodes : \E order \in OrderTargets(elig, leader) :
                hs' = [hs EXCEPT ![h] = [HIdle EXCEPT !.pc = "insert", !.req = r, !.tag = tag,
                                                      !.elig = elig, !.order = order]]
    BY <2>1 DEF MayBeEligible
  <2>2. PICK order \in OrderTargets(elig, leader) :
                hs' = [hs EXCEPT ![h] = [HIdle EXCEPT !.pc = "insert", !.req = r, !.tag = tag,
                                                      !.elig = elig, !.order = order]]
    BY <2>9
  <2> DEFINE c == [HIdle EXCEPT !.pc = "insert", !.req = r, !.tag = tag, !.elig = elig, !.order = order]
  <2>3. order \in Orders
    BY DEF OrderTargets
  <2>4. /\ c \in HandlerType /\ c.pc = "insert" /\ c.req = r /\ c.tag = tag
        /\ c.elig = elig /\ c.order = order
    BY <2>3, HIdleType DEF HandlerType
  <2>5. hs' = [hs EXCEPT ![h] = c]
    BY <2>2
  <2> HIDE DEF c
  <2>6. HandlersType' /\ hs'[h] = c /\ \A k \in Handlers \ {h} : hs'[k] = hs[k]
    BY <2>4, <2>5, TypeGroups DEF HandlersType
  <2>7. order \in OrderTargets(elig, leader)'
    BY DEF OrderTargets, Precedes, targetRank, Orders, Places
  <2>8. HandlerOK(h)'
    BY <2>4, <2>6, <2>7 DEF HandlerOK
  <2> QED BY <2>4, <2>6, <2>8
<1>3. PICK r \in Requests :
       \/ \E j \in Existing(r) : Remember(h, j)
       \/ /\ Existing(r) = {}
          /\ \E tag \in Tags, leader \in {Leader, NoJob} :
               \E elig \in SUBSET MayBeEligible(tag) : \E order \in OrderTargets(elig, leader) :
                 /\ elig = {} \/ ~\E j \in Inserted : HasRunningUpdateJob(j)
                 /\ hs' = [hs EXCEPT ![h] =
                       [HIdle EXCEPT !.pc = "insert", !.req = r, !.tag = tag, !.elig = elig,
                                     !.order = order]]
  BY Zenon DEF CreateClusterUpdate
<1>4. CASE \E j \in Existing(r) : Remember(h, j)
  BY <1>1, <1>4, Zenon
<1>5. CASE \E tag \in Tags, leader \in {Leader, NoJob} :
               \E elig \in SUBSET MayBeEligible(tag) : \E order \in OrderTargets(elig, leader) :
                 /\ elig = {} \/ ~\E j \in Inserted : HasRunningUpdateJob(j)
                 /\ hs' = [hs EXCEPT ![h] =
                       [HIdle EXCEPT !.pc = "insert", !.req = r, !.tag = tag, !.elig = elig,
                                     !.order = order]]
  <2>1. \E q \in Requests, tag \in Tags, leader \in {Leader, NoJob} :
             \E elig \in SUBSET MayBeEligible(tag) : \E order \in OrderTargets(elig, leader) :
                hs' = [hs EXCEPT ![h] = [HIdle EXCEPT !.pc = "insert", !.req = q, !.tag = tag,
                                                      !.elig = elig, !.order = order]]
    BY <1>5, Zenon
  <2> QED BY <1>2, <2>1, Zenon
<1> QED BY <1>3, <1>4, <1>5, Zenon

LEMMA CreateCommon ==
  ASSUME TypeOK, Common, NEW h \in Handlers, CreateClusterUpdate(h)
  PROVE  TypeOK' /\ Common'
<1>1. QueueType' /\ IdentsType' /\ calls' \in Nat /\ raced' \subseteq Jobs
  BY TypeGroups, CallsCount DEF CreateClusterUpdate, QueueType, IdentsType, RestType, history
<1>2. HandlersType' /\ (\A k \in Handlers \ {h} : hs'[k] = hs[k]) /\ HandlerOK(h)'
  BY CreateEffect
<1> QED
  BY <1>1, <1>2, QuietStep DEF CreateClusterUpdate, history

LEMMA BindCommon ==
  ASSUME TypeOK, Common, NEW h \in Handlers, BindAndEnqueue(h)
  PROVE  TypeOK' /\ Common'
<1>1. hs[h].job \in Jobs /\ hs[h].minted \subseteq Jobs \X Nodes \X Nat
  BY CommonGroups DEF Handled, HandlerOK, Inserted, BindAndEnqueue, TypeOK, HandlerType
<1>2. QueueType' /\ IdentsType' /\ idents \subseteq idents'
  BY <1>1, TypeGroups DEF BindAndEnqueue, QueueType, IdentsType
<1>3. HandlersType' /\ (\A k \in Handlers \ {h} : hs'[k] = hs[k]) /\ HandlerOK(h)'
  BY AnswerEffect, TypeGroups DEF BindAndEnqueue, HandlerOK
<1>4. calls' \in Nat /\ raced' \subseteq Jobs
  BY TypeGroups DEF BindAndEnqueue, history, bounds, RestType
<1> QED
  BY <1>2, <1>3, <1>4, QuietStep DEF BindAndEnqueue, history, bounds

LEMMA RememberCommon ==
  ASSUME TypeOK, Common, NEW h \in Handlers, RememberPrincipal(h) \/ EnqueueRetry(h)
  PROVE  TypeOK' /\ Common'
<1>0. /\ hs[h].pc \in {"remember", "enqueue"} /\ Answer(h)
      /\ queue' = queue \/ queue' = Append(queue, hs[h].job)
      /\ \E new \in {hs[h].minted, Principals(hs[h].job)} : idents' = idents \cup new
  BY DEF RememberPrincipal, EnqueueRetry
<1>1. hs[h].job \in Jobs /\ hs[h].minted \subseteq Jobs \X Nodes \X Nat
  BY <1>0, CommonGroups DEF Handled, HandlerOK, Inserted, TypeOK, HandlerType
<1>2. QueueType' /\ IdentsType' /\ idents \subseteq idents'
  BY <1>0, <1>1, PrincipalsType, TypeGroups DEF QueueType, IdentsType
<1>3. HandlersType' /\ (\A k \in Handlers \ {h} : hs'[k] = hs[k]) /\ HandlerOK(h)'
  BY <1>0, AnswerEffect, TypeGroups DEF HandlerOK
<1>4. UNCHANGED <<jobs, worker, node, seen, history, bounds>>
  BY DEF RememberPrincipal, EnqueueRetry
<1>5. calls' \in Nat /\ raced' \subseteq Jobs
  BY <1>4, TypeGroups DEF history, bounds, RestType
<1> QED
  BY <1>2, <1>3, <1>4, <1>5, QuietStep DEF history, bounds

LEMMA CancelRequestCommon ==
  ASSUME TypeOK, Common, NEW h \in Handlers, CancelRemaining(h)
  PROVE  TypeOK' /\ Common'
<1>1. PICK j \in Inserted : hs' = [hs EXCEPT ![h].pc = "flag", ![h].job = j]
  BY DEF CancelRemaining
<1>0. jobs' = jobs
  BY Zenon DEF CancelRemaining
<1>2. j \in Jobs /\ "flag" \in Pcs /\ j \in Inserted'
  BY <1>0 DEF Inserted, Pcs
<1>5. /\ HandlersType' /\ hs'[h].pc = "flag" /\ hs'[h].job = j
      /\ \A k \in Handlers \ {h} : hs'[k] = hs[k]
  BY <1>1, <1>2, TakesJob, TypeGroups
<1>3. HandlersType' /\ (\A k \in Handlers \ {h} : hs'[k] = hs[k]) /\ HandlerOK(h)'
  BY <1>2, <1>5 DEF HandlerOK
<1>4. QueueType' /\ IdentsType' /\ calls' \in Nat /\ raced' \subseteq Jobs
  BY TypeGroups, CallsCount DEF CancelRemaining, QueueType, IdentsType, RestType, history
<1> QED
  BY <1>3, <1>4, QuietStep DEF CancelRemaining, history

LEMMA RetryCommon ==
  ASSUME TypeOK, Common, NEW h \in Handlers, Retry(h)
  PROVE  TypeOK' /\ Common'
<1>1. PICK j \in Inserted :
        /\ hs' = [hs EXCEPT ![h].pc = "replace", ![h].job = j, ![h].todo = RetryRows(j)]
        /\ raced' = IF \E k \in Handlers : Retrying(k, j) THEN raced \cup {j} ELSE raced
  BY DEF Retry
<1>2. j \in Jobs /\ j \in Inserted' /\ raced' \subseteq Jobs
  BY <1>1, TypeGroups DEF Retry, Inserted, RestType
<1>3. \A i \in Places : Row(j, At(j, i)).op \in Nat
  BY <1>2, CommonGroups, InsertedOrder DEF Inserted, TypeOK, JobType, TargetType, Row
<1>4. RetryRows(j) \in SUBSET (Places \X Nat)
  BY <1>3 DEF RetryRows
<1> DEFINE c == [hs[h] EXCEPT !.pc = "replace", !.job = j, !.todo = RetryRows(j)]
<1>5. c \in HandlerType /\ c.pc = "replace" /\ c.job = j
  <2>1. hs[h] \in HandlerType
    BY DEF TypeOK
  <2> QED BY <1>2, <1>4, <2>1 DEF HandlerType
<1>6. hs' = [hs EXCEPT ![h] = c]
  BY <1>1
<1> HIDE DEF c
<1>7. HandlersType' /\ (\A k \in Handlers \ {h} : hs'[k] = hs[k]) /\ HandlerOK(h)'
  BY <1>2, <1>5, <1>6, TypeGroups DEF HandlersType, HandlerOK
<1>8. QueueType' /\ IdentsType' /\ calls' \in Nat
  BY TypeGroups, CallsCount DEF Retry, QueueType, IdentsType, RestType
<1> QED
  BY <1>2, <1>7, <1>8, QuietStep DEF Retry

Table(j) == Blank(j) /\ RunningRowRunningJob(j) /\ SuccessHasRun(j)

LEMMA OtherTables ==
  ASSUME Tables, NEW k \in Jobs, jobs'[k] = jobs[k], late'[k] = late[k], RanGrows
  PROVE  Table(k)'
BY DEF Tables, Table, Blank, RunningRowRunningJob, SuccessHasRun, HasRow, Row, RanGrows

LEMMA OtherJobs ==
  ASSUME Tables, NEW j \in Jobs, OnlyJob(j), \A k \in Jobs \ {j} : late'[k] = late[k], RanGrows, Table(j)'
  PROVE  \A k \in Jobs : Table(k)'
<1> TAKE k \in Jobs
<1>1. CASE k = j
  BY <1>1
<1>2. CASE k # j
  <2>1. jobs'[k] = jobs[k] /\ late'[k] = late[k]
    BY <1>2 DEF OnlyJob
  <2> QED BY <2>1, OtherTables
<1> QED BY <1>1, <1>2

\* An inserted job whose rows stay, and that goes on running if a row is in flight.
LEMMA SameRows ==
  ASSUME Tables, NEW j \in Jobs, OnlyJob(j), jobs'[j].row = jobs[j].row, RanGrows,
         jobs[j].st # "NONE", jobs'[j].st # "NONE",
         jobs[j].st = "RUNNING" => jobs'[j].st = "RUNNING"
  PROVE  Table(j)'
<1>1. /\ jobs[j].order \in Orders /\ jobs[j].tag \in Tags
      /\ RunningRowRunningJob(j) /\ SuccessHasRun(j)
  BY DEF Tables, Blank
<1>2. \A n \in Nodes : Row(j, n)' = Row(j, n)
  BY DEF Row
<1>3. Blank(j)'
  BY <1>1 DEF Blank, OnlyJob, Orders, Places
<1>4. HasRow(j, "RUNNING")' => HasRow(j, "RUNNING")
  BY <1>2 DEF HasRow
<1>5. RunningRowRunningJob(j)'
  BY <1>1, <1>4 DEF RunningRowRunningJob
<1>6. SuccessHasRun(j)'
  BY <1>1, <1>2 DEF SuccessHasRun, OnlyJob, RanGrows
<1> QED BY <1>3, <1>5, <1>6 DEF Table

LEMMA TablesNext ==
  ASSUME \A k \in Jobs : Table(k)', OneRunning'
  PROVE  Tables'
BY DEF Tables, Table

LEMMA WorkerOnKept ==
  ASSUME WorkerOn, worker' = worker,
         \A j \in Jobs : /\ jobs[j].st = "RUNNING" => jobs'[j].st = "RUNNING"
                         /\ HasRow(j, "RUNNING")' => HasRow(j, "RUNNING")
  PROVE  WorkerOn'
BY DEF WorkerOn, Job

\* A step of a handler that changes the tables and leaves the worker and the nodes alone.
LEMMA WritingStep ==
  ASSUME TypeOK, Common, NEW h \in Handlers,
         HandlersType', \A k \in Handlers \ {h} : hs'[k] = hs[k], HandlerOK(h)',
         JobsType', IdentsType', idents \subseteq idents', late' \in [Jobs -> Nat],
         UNCHANGED <<queue, worker, node, seen, ran, raced, calls, events>>,
         JobsStay, Tables', Lates',
         \A j \in Jobs : /\ jobs[j].st = "RUNNING" => jobs'[j].st = "RUNNING"
                         /\ HasRow(j, "RUNNING")' => HasRow(j, "RUNNING")
  PROVE  TypeOK' /\ Common'
<1>1. Handled'
  BY OneHandler, CommonGroups
<1>2. TypeOK'
  BY TypeGroups, TypeGroupsNext DEF RestType, QueueType
<1>3. WorkerOn' /\ Callers'
  BY WorkerOnKept, CallersFrame, CommonGroups
<1>4. RanGrows
  BY DEF RanGrows
<1>5. Runs'
  BY <1>4, RunsFrame, CommonGroups
<1> QED BY <1>1, <1>2, <1>3, <1>5, CommonGroupsNext

\* The job a handler works on.
LEMMA HandlersJob ==
  ASSUME Common, NEW h \in Handlers, hs[h].pc \notin {"idle", "insert"}
  PROVE  hs[h].job \in Jobs /\ hs[h].job \in Inserted /\ jobs[hs[h].job].st # "NONE"
BY DEF Common, HandlerOK, Inserted

LEMMA FlagCommon ==
  ASSUME TypeOK, Common, NEW h \in Handlers, SetUpdateJobCancelRemaining(h)
  PROVE  TypeOK' /\ Common'
<1>0. PICK j \in Jobs : j = hs[h].job /\ jobs[j].st # "NONE"
  BY HandlersJob DEF SetUpdateJobCancelRemaining
<1>1. /\ jobs' = [jobs EXCEPT ![j].cancel = TRUE] /\ Answer(h)
      /\ UNCHANGED <<queue, worker, idents, node, seen, ran, raced, late, calls, events>>
  BY <1>0 DEF SetUpdateJobCancelRemaining, history, bounds
<1>3. /\ jobs' \in [Jobs -> JobType] /\ OnlyJob(j)
      /\ jobs'[j].st = jobs[j].st /\ jobs'[j].cancel = TRUE /\ jobs'[j].row = jobs[j].row
  BY <1>1, <1>0, FlagSetEffect, TypeGroups DEF JobsType
<1>4. HandlersType' /\ (\A k \in Handlers \ {h} : hs'[k] = hs[k]) /\ HandlerOK(h)'
  BY <1>1, AnswerEffect, TypeGroups DEF HandlerOK
<1>5. RanGrows /\ JobsStay
  BY <1>1, <1>3 DEF RanGrows, JobsStay, OnlyJob
<1>6. \A k \in Jobs : Table(k)'
  <2>0. Tables
    BY CommonGroups
  <2>1. Table(j)'
    BY <1>0, <1>3, <1>5, <2>0, SameRows
  <2> QED BY <1>1, <1>0, <1>3, <1>5, <2>0, <2>1, OtherJobs
<1>7. OneRunning'
  BY <1>3, CommonGroups DEF Tables, OneRunning, OnlyJob
<1>8. Tables'
  BY <1>6, <1>7, TablesNext
<1>9. Lates'
  BY <1>1, <1>0, <1>3, CommonGroups DEF Lates, LateOnce, OnlyJob, Job
<1>10. \A k \in Jobs : /\ jobs[k].st = "RUNNING" => jobs'[k].st = "RUNNING"
                       /\ HasRow(k, "RUNNING")' => HasRow(k, "RUNNING")
  BY <1>3 DEF OnlyJob, HasRow, Row
<1>11. late' \in [Jobs -> Nat] /\ IdentsType'
  BY <1>1, TypeGroups DEF RestType, IdentsType
<1> QED
  BY <1>1, <1>3, <1>4, <1>5, <1>8, <1>9, <1>10, <1>11, WritingStep DEF JobsType

LEMMA ClearCommon ==
  ASSUME TypeOK, Common, NEW h \in Handlers, ClearCancel(h)
  PROVE  TypeOK' /\ Common'
<1>0. PICK j \in Jobs : j = hs[h].job /\ jobs[j].st # "NONE"
  BY HandlersJob DEF ClearCancel
<1>1. /\ jobs' = [jobs EXCEPT ![j].cancel = FALSE] /\ Become(h, "rerun")
      /\ idents' = idents \cup hs[h].minted /\ late' = [late EXCEPT ![j] = 0]
      /\ UNCHANGED <<queue, worker, node, seen, ran, raced, calls, events>>
  BY <1>0 DEF ClearCancel, bounds
<1>12. IdentsType' /\ idents \subseteq idents' /\ late' \in [Jobs -> Nat]
  <2>1. hs[h].minted \subseteq Jobs \X Nodes \X Nat
    BY DEF TypeOK, HandlerType
  <2> QED BY <1>1, <1>0, <2>1, TypeGroups DEF RestType, IdentsType
<1>13. late'[j] = 0 /\ \A k \in Jobs \ {j} : late'[k] = late[k]
  BY <1>1, <1>0, TypeGroups DEF RestType
<1>3. /\ jobs' \in [Jobs -> JobType] /\ OnlyJob(j)
      /\ jobs'[j].st = jobs[j].st /\ jobs'[j].cancel = FALSE /\ jobs'[j].row = jobs[j].row
  BY <1>1, <1>0, FlagSetEffect, TypeGroups DEF JobsType
<1>4. HandlersType' /\ (\A k \in Handlers \ {h} : hs'[k] = hs[k]) /\ HandlerOK(h)'
  <2>1. /\ HandlersType' /\ hs'[h].pc = "rerun" /\ hs'[h].job = j
        /\ \A k \in Handlers \ {h} : hs'[k] = hs[k]
    BY <1>0, <1>1, BecomeEffect, TypeGroups DEF Pcs
  <2> QED BY <1>0, <1>3, <2>1 DEF HandlerOK, Inserted
<1>5. RanGrows /\ JobsStay
  BY <1>1, <1>3 DEF RanGrows, JobsStay, OnlyJob
<1>6. \A k \in Jobs : Table(k)'
  <2>0. Tables
    BY CommonGroups
  <2>1. Table(j)'
    BY <1>0, <1>3, <1>5, <2>0, SameRows
  <2> QED BY <1>0, <1>3, <1>5, <1>13, <2>0, <2>1, OtherJobs
<1>7. OneRunning'
  BY <1>3, CommonGroups DEF Tables, OneRunning, OnlyJob
<1>8. Tables'
  BY <1>6, <1>7, TablesNext
<1>9. Lates'
  BY <1>1, <1>0, <1>3, <1>13, CommonGroups DEF Lates, LateOnce, OnlyJob, Job
<1>10. \A k \in Jobs : /\ jobs[k].st = "RUNNING" => jobs'[k].st = "RUNNING"
                       /\ HasRow(k, "RUNNING")' => HasRow(k, "RUNNING")
  BY <1>3 DEF OnlyJob, HasRow, Row
<1> QED
  BY <1>1, <1>3, <1>4, <1>5, <1>8, <1>9, <1>10, <1>12, WritingStep DEF JobsType

LEMMA RerunCommon ==
  ASSUME TypeOK, Common, NEW h \in Handlers, RerunJob(h)
  PROVE  TypeOK' /\ Common'
<1>0. PICK j \in Jobs : j = hs[h].job /\ jobs[j].st # "NONE"
  BY HandlersJob DEF RerunJob
<1>1. /\ \/ OneRunningIndex(j) /\ jobs' = [jobs EXCEPT ![j].st = "RUNNING"] /\ Become(h, "enqueue")
         \/ jobs' = jobs /\ Answer(h)
      /\ UNCHANGED <<queue, worker, idents, node, seen, ran, raced, late, calls, events>>
  BY <1>0 DEF RerunJob, history, bounds
<1>11. late' \in [Jobs -> Nat] /\ IdentsType' /\ JobsType /\ HandlersType
  BY <1>1, TypeGroups DEF RestType, IdentsType
<1>12. CASE jobs' = jobs /\ Answer(h)
  <2>1. HandlersType' /\ (\A k \in Handlers \ {h} : hs'[k] = hs[k]) /\ HandlerOK(h)'
    BY <1>11, <1>12, AnswerEffect DEF HandlerOK
  <2>2. QueueType' /\ calls' \in Nat /\ raced' \subseteq Jobs
    BY <1>1, TypeGroups DEF QueueType, RestType
  <2> QED BY <1>1, <1>11, <1>12, <2>1, <2>2, QuietStep
<1>13. CASE OneRunningIndex(j) /\ jobs' = [jobs EXCEPT ![j].st = "RUNNING"] /\ Become(h, "enqueue")
  <2>1. /\ HandlersType' /\ hs'[h].pc = "enqueue" /\ hs'[h].job = j
        /\ \A k \in Handlers \ {h} : hs'[k] = hs[k]
    BY <1>0, <1>11, <1>13, BecomeEffect DEF Pcs
  <2>3. /\ jobs' \in [Jobs -> JobType] /\ OnlyJob(j)
        /\ jobs'[j].st = "RUNNING" /\ jobs'[j].cancel = jobs[j].cancel /\ jobs'[j].row = jobs[j].row
    BY <1>0, <1>11, <1>13, StatusSetEffect DEF JobsType, JobSt
  <2>4. HandlerOK(h)'
    BY <1>0, <2>1, <2>3 DEF HandlerOK, Inserted
  <2>5. RanGrows /\ JobsStay
    BY <1>1, <2>3 DEF RanGrows, JobsStay, OnlyJob
  <2>6. \A k \in Jobs : Table(k)'
    <3>0. Tables
      BY CommonGroups
    <3>1. Table(j)'
      BY <1>0, <2>3, <2>5, <3>0, SameRows
    <3> QED BY <1>1, <1>0, <2>3, <2>5, <3>0, <3>1, OtherJobs
  <2>7. OneRunning'
    BY <1>13, <2>3, CommonGroups DEF Tables, OneRunning, OnlyJob, OneRunningIndex
  <2>8. Tables'
    BY <2>6, <2>7, TablesNext
  <2>9. Lates'
    BY <1>1, <2>3, CommonGroups DEF Lates, LateOnce, OnlyJob, Job
  <2>10. \A k \in Jobs : /\ jobs[k].st = "RUNNING" => jobs'[k].st = "RUNNING"
                         /\ HasRow(k, "RUNNING")' => HasRow(k, "RUNNING")
    BY <2>3 DEF OnlyJob, HasRow, Row
  <2> QED
    BY <1>1, <1>11, <2>1, <2>3, <2>4, <2>5, <2>8, <2>9, <2>10, WritingStep DEF JobsType
<1> QED BY <1>1, <1>12, <1>13

LEMMA ReplaceCommon ==
  ASSUME TypeOK, Common, NEW h \in Handlers, ReplaceUpdateJobTargetOp(h)
  PROVE  TypeOK' /\ Common'
<1>0. PICK j \in Jobs : j = hs[h].job /\ jobs[j].st # "NONE"
  BY HandlersJob DEF ReplaceUpdateJobTargetOp
<1>1. PICK x \in hs[h].todo :
        IF StillThere(j, At(j, x[1]), x[2])
        THEN /\ RowNew(j, At(j, x[1]), x[2] + 1)
             /\ hs' = [hs EXCEPT ![h].todo = hs[h].todo \ {x},
                                 ![h].minted = @ \cup {<<j, At(j, x[1]), x[2] + 1>>},
                                 ![h].pc = IF hs[h].todo \ {x} = {} THEN "clear" ELSE "replace"]
        ELSE Answer(h) /\ UNCHANGED jobs
  BY <1>0 DEF ReplaceUpdateJobTargetOp, RowNew
<1>2. UNCHANGED <<queue, worker, idents, node, seen, ran, raced, late, calls, events>>
  BY DEF ReplaceUpdateJobTargetOp, history, bounds
<1>3. hs[h] \in HandlerType /\ x \in Places \X Nat
  BY DEF TypeOK, HandlerType
<1>4. PICK n \in Nodes : n = At(j, x[1])
  BY <1>0, <1>3, InsertedOrder
<1>5. late' \in [Jobs -> Nat] /\ IdentsType' /\ JobsType /\ HandlersType
  BY <1>2, TypeGroups DEF RestType, IdentsType
<1>6. CASE jobs' = jobs /\ Answer(h)
  <2>1. HandlersType' /\ (\A k \in Handlers \ {h} : hs'[k] = hs[k]) /\ HandlerOK(h)'
    BY <1>5, <1>6, AnswerEffect DEF HandlerOK
  <2>2. QueueType' /\ calls' \in Nat /\ raced' \subseteq Jobs
    BY <1>2, TypeGroups DEF QueueType, RestType
  <2> QED BY <1>2, <1>5, <1>6, <2>1, <2>2, QuietStep
<1>7. CASE StillThere(j, At(j, x[1]), x[2])
  <2> DEFINE c == [hs[h] EXCEPT !.todo = hs[h].todo \ {x},
                                !.minted = @ \cup {<<j, n, x[2] + 1>>},
                                !.pc = IF hs[h].todo \ {x} = {} THEN "clear" ELSE "replace"]
  <2>1. RowNew(j, n, x[2] + 1) /\ hs' = [hs EXCEPT ![h] = c]
    BY <1>1, <1>4, <1>7
  <2>2. c \in HandlerType /\ c.pc \in {"clear", "replace"} /\ c.job = j
    <3> DEFINE rest == hs[h].todo \ {x}
               more == hs[h].minted \cup {<<j, n, x[2] + 1>>}
    <3>1. rest \in SUBSET (Places \X Nat) /\ more \in SUBSET (Jobs \X Nodes \X Nat)
      BY <1>3 DEF HandlerType
    <3>2. c = [hs[h] EXCEPT !.todo = rest, !.minted = more, !.pc = IF rest = {} THEN "clear" ELSE "replace"]
      BY <1>3 DEF HandlerType
    <3> HIDE DEF c, rest, more
    <3> QED BY <1>0, <1>3, <3>1, <3>2 DEF HandlerType
  <2> HIDE DEF c
  <2>3. /\ jobs' \in [Jobs -> JobType] /\ OnlyJob(j)
        /\ jobs'[j].st = jobs[j].st /\ jobs'[j].cancel = jobs[j].cancel
        /\ Row(j, n)'.st = "PENDING"
        /\ \A m \in Nodes \ {n} : Row(j, m)' = Row(j, m)
    BY <1>3, <1>5, <2>1, RowNewEffect DEF JobsType
  <2>4. HandlersType' /\ hs'[h] = c /\ (\A k \in Handlers \ {h} : hs'[k] = hs[k])
    BY <1>5, <2>1, <2>2 DEF HandlersType
  <2>5. HandlerOK(h)'
    BY <1>0, <2>2, <2>3, <2>4 DEF HandlerOK, Inserted
  <2>6. RanGrows /\ JobsStay
    BY <1>2, <2>3 DEF RanGrows, JobsStay, OnlyJob
  <2>7. Tables
    BY CommonGroups
  <2>8. \A s : HasRow(j, s)' => HasRow(j, s) \/ s = "PENDING"
    BY <2>3 DEF HasRow
  <2>9. Table(j)'
    <3>1. Blank(j)' /\ RunningRowRunningJob(j)'
      BY <1>0, <2>3, <2>7, <2>8 DEF Tables, Blank, RunningRowRunningJob, OnlyJob, Orders, Places
    <3>2. SuccessHasRun(j)'
      BY <2>3, <2>6, <2>7 DEF Tables, SuccessHasRun, OnlyJob, RanGrows
    <3> QED BY <3>1, <3>2 DEF Table
  <2>10. \A k \in Jobs : Table(k)'
    BY <1>2, <2>3, <2>6, <2>7, <2>9, OtherJobs
  <2>11. OneRunning'
    BY <2>3, <2>7 DEF Tables, OneRunning, OnlyJob
  <2>12. Tables'
    BY <2>10, <2>11, TablesNext
  <2>13. Lates'
    BY <1>2, <2>3, CommonGroups DEF Lates, LateOnce, OnlyJob, Job
  <2>14. \A k \in Jobs : /\ jobs[k].st = "RUNNING" => jobs'[k].st = "RUNNING"
                         /\ HasRow(k, "RUNNING")' => HasRow(k, "RUNNING")
    <3> TAKE k \in Jobs
    <3>1. CASE k = j BY <2>3, <2>8, <3>1
    <3>2. CASE k # j BY <2>3, <3>2 DEF OnlyJob, HasRow, Row
    <3> QED BY <3>1, <3>2
  <2> QED
    BY <1>2, <1>5, <2>3, <2>4, <2>5, <2>6, <2>12, <2>13, <2>14, WritingStep DEF JobsType
<1> QED BY <1>1, <1>6, <1>7

\* The record of a new job.
NewJob(h) ==
  [st |-> IF hs[h].elig # {} THEN "RUNNING" ELSE "COMPLETED", tag |-> hs[h].tag,
   req |-> hs[h].req, cancel |-> FALSE, order |-> hs[h].order,
   row |-> [n \in Nodes |-> [st |-> IF n \in hs[h].elig THEN "PENDING" ELSE "SKIPPED", op |-> 1]]]

LEMMA NewJobRecord ==
  ASSUME TypeOK, Common, NEW h \in Handlers, hs[h].pc = "insert"
  PROVE  /\ NewJob(h) \in JobType /\ hs[h].order \in Orders
         /\ NewJob(h).st = IF hs[h].elig # {} THEN "RUNNING" ELSE "COMPLETED"
         /\ NewJob(h).tag = hs[h].tag /\ hs[h].tag \in Tags /\ NewJob(h).order = hs[h].order
         /\ NewJob(h).cancel = FALSE
         /\ \A n \in Nodes : NewJob(h).row[n].st = IF n \in hs[h].elig THEN "PENDING" ELSE "SKIPPED"
<1>1. /\ hs[h].req \in Requests /\ hs[h].tag \in Tags
      /\ \E leader \in {Leader, NoJob} : hs[h].order \in OrderTargets(hs[h].elig, leader)
  BY DEF Common, HandlerOK
<1>2. hs[h].order \in Orders
  BY <1>1 DEF OrderTargets
<1>3. [n \in Nodes |-> [st |-> IF n \in hs[h].elig THEN "PENDING" ELSE "SKIPPED", op |-> 1]]
        \in [Nodes -> TargetType]
  BY DEF TargetType, TargetSt
<1> QED BY <1>1, <1>2, <1>3 DEF NewJob, JobType, JobSt

\* What an insert that is refused does, and one that is not.
InsertRefused(h) ==
  /\ UNCHANGED jobs
  /\ \/ Answer(h)
     \/ \E k \in Inserted : Remember(h, k)
InsertDone(h, j) ==
  /\ hs[h].elig # {} => OneRunningIndex(j)
  /\ jobs' = [jobs EXCEPT ![j] = NewJob(h)]
  /\ hs' = [hs EXCEPT ![h].pc = "bind", ![h].job = j, ![h].minted = {<<j, n, 1>> : n \in Nodes}]

LEMMA InsertCases ==
  ASSUME NEW h \in Handlers, InsertUpdateJob(h)
  PROVE  InsertRefused(h) \/ \E j \in Jobs : jobs[j].st = "NONE" /\ InsertDone(h, j)
<1>1. PICK j \in Jobs \ Inserted :
         IF OperationIndex(hs[h].req) /\ (hs[h].elig # {} => OneRunningIndex(j))
         THEN /\ jobs' = [jobs EXCEPT ![j] =
                        [st |-> IF hs[h].elig # {} THEN "RUNNING" ELSE "COMPLETED", tag |-> hs[h].tag,
                         req |-> hs[h].req, cancel |-> FALSE, order |-> hs[h].order,
                         row |-> [n \in Nodes |->
                            [st |-> IF n \in hs[h].elig THEN "PENDING" ELSE "SKIPPED", op |-> 1]]]]
              /\ hs' = [hs EXCEPT ![h].pc = "bind", ![h].job = j,
                                  ![h].minted = {<<j, n, 1>> : n \in Nodes}]
         ELSE /\ UNCHANGED jobs
              /\ IF Existing(hs[h].req) = {} THEN Answer(h)
                 ELSE \E k \in Existing(hs[h].req) : Remember(h, k)
  BY Zenon DEF InsertUpdateJob
<1>2. jobs[j].st = "NONE"
  BY DEF Inserted
<1>3. CASE OperationIndex(hs[h].req) /\ (hs[h].elig # {} => OneRunningIndex(j))
  <2>1. InsertDone(h, j)
    BY <1>1, <1>3, Zenon DEF InsertDone, NewJob
  <2> QED BY <1>2, <2>1
<1>4. CASE ~(OperationIndex(hs[h].req) /\ (hs[h].elig # {} => OneRunningIndex(j)))
  <2>1. /\ UNCHANGED jobs
        /\ IF Existing(hs[h].req) = {} THEN Answer(h)
           ELSE \E k \in Existing(hs[h].req) : Remember(h, k)
    BY <1>1, <1>4, Zenon
  <2>2. Existing(hs[h].req) \subseteq Inserted
    BY DEF Existing
  <2> HIDE DEF Existing
  <2> QED BY <2>1, <2>2, Zenon DEF InsertRefused
<1> QED BY <1>3, <1>4

LEMMA InsertCommon ==
  ASSUME TypeOK, Common, NEW h \in Handlers, InsertUpdateJob(h)
  PROVE  TypeOK' /\ Common'
<1>1. /\ UNCHANGED <<queue, worker, idents, node, seen, ran, raced, late, calls, events>>
      /\ hs[h].pc = "insert"
  BY DEF InsertUpdateJob, history, bounds
<1>2. /\ late' \in [Jobs -> Nat] /\ IdentsType' /\ JobsType /\ HandlersType
      /\ QueueType' /\ calls' \in Nat /\ raced' \subseteq Jobs
  BY <1>1, TypeGroups DEF RestType, IdentsType, QueueType
<1>3. CASE InsertRefused(h)
  <2>1. HandlersType' /\ (\A k \in Handlers \ {h} : hs'[k] = hs[k]) /\ HandlerOK(h)'
    <3>1. CASE Answer(h)
      BY <1>2, <3>1, AnswerEffect DEF HandlerOK
    <3>2. CASE \E k \in Inserted : Remember(h, k)
      <4>1. PICK k \in Jobs : jobs[k].st # "NONE" /\ Remember(h, k)
        BY <3>2 DEF Inserted
      <4>2. /\ HandlersType' /\ hs'[h].pc = "remember" /\ hs'[h].job = k
            /\ \A i \in Handlers \ {h} : hs'[i] = hs[i]
        BY <4>1, RememberEffect
      <4> QED BY <1>3, <4>1, <4>2 DEF HandlerOK, Inserted, InsertRefused
    <3> QED BY <1>3, <3>1, <3>2 DEF InsertRefused
  <2> QED BY <1>1, <1>2, <1>3, <2>1, QuietStep DEF InsertRefused
<1>4. ASSUME NEW j \in Jobs, jobs[j].st = "NONE", InsertDone(h, j)
      PROVE  TypeOK' /\ Common'
  <2> DEFINE c == [hs[h] EXCEPT !.pc = "bind", !.job = j, !.minted = {<<j, n, 1>> : n \in Nodes}]
  <2>1. hs' = [hs EXCEPT ![h] = c]
    BY <1>4 DEF InsertDone
  <2>2. c \in HandlerType /\ c.pc = "bind" /\ c.job = j
    <3>1. hs[h] \in HandlerType /\ {<<j, n, 1>> : n \in Nodes} \subseteq Jobs \X Nodes \X Nat
      BY DEF TypeOK
    <3> QED BY <3>1 DEF HandlerType
  <2> HIDE DEF c
  <2>3. HandlersType' /\ hs'[h] = c /\ (\A k \in Handlers \ {h} : hs'[k] = hs[k])
    BY <1>2, <2>1, <2>2 DEF HandlersType
  <2>4. /\ jobs'[j] = NewJob(h) /\ JobsType' /\ \A k \in Jobs \ {j} : jobs'[k] = jobs[k]
    BY <1>1, <1>2, <1>4, NewJobRecord DEF InsertDone, JobsType
  <2>5. jobs'[j].st # "NONE"
    BY <1>1, <2>4, NewJobRecord
  <2>6. HandlerOK(h)'
    BY <2>2, <2>3, <2>5 DEF HandlerOK, Inserted
  <2>7. RanGrows /\ JobsStay
    BY <1>1, <1>4, <2>4 DEF RanGrows, JobsStay
  <2>8. Tables
    BY CommonGroups
  <2>9. \A n \in Nodes : Row(j, n)'.st \in {"PENDING", "SKIPPED"}
    <3>1. \A n \in Nodes : Row(j, n)' = NewJob(h).row[n]
      BY <2>4 DEF Row
    <3>2. \A n \in Nodes : NewJob(h).row[n].st \in {"PENDING", "SKIPPED"}
      BY <1>1, NewJobRecord
    <3> QED BY <3>1, <3>2
  <2>10. Table(j)'
    <3>1. ~HasRow(j, "RUNNING")' /\ ~HasRow(j, "SUCCESS")'
      BY <2>9 DEF HasRow
    <3>2. Blank(j)' /\ RunningRowRunningJob(j)'
      BY <1>1, <2>4, <2>5, <3>1, NewJobRecord DEF Blank, RunningRowRunningJob, Orders, Places
    <3>3. SuccessHasRun(j)'
      BY <2>9 DEF SuccessHasRun
    <3> QED BY <3>2, <3>3 DEF Table
  <2>11. \A k \in Jobs : Table(k)'
    <3> TAKE k \in Jobs
    <3>1. CASE k = j BY <2>10, <3>1
    <3>2. CASE k # j
      <4>1. jobs'[k] = jobs[k] /\ late'[k] = late[k]
        BY <1>1, <2>4, <3>2
      <4> QED BY <2>7, <2>8, <4>1, OtherTables
    <3> QED BY <3>1, <3>2
  <2>12. OneRunning'
    <3>1. OneRunning /\ (NewJob(h).st = "RUNNING" => \A k \in Jobs \ {j} : jobs[k].st # "RUNNING")
      <4>1. NewJob(h).st = IF hs[h].elig # {} THEN "RUNNING" ELSE "COMPLETED"
        BY <1>1, NewJobRecord
      <4> QED BY <1>4, <2>8, <4>1 DEF Tables, InsertDone, OneRunningIndex
    <3> QED BY <2>4, <3>1 DEF OneRunning
  <2>13. Tables'
    BY <2>11, <2>12, TablesNext
  <2>14. late[j] = 0
    BY <1>4, <2>8 DEF Tables, Blank
  <2>15. Lates'
    BY <1>1, <2>4, <2>14, CommonGroups DEF Lates, LateOnce, Job
  <2>16. \A k \in Jobs : /\ jobs[k].st = "RUNNING" => jobs'[k].st = "RUNNING"
                         /\ HasRow(k, "RUNNING")' => HasRow(k, "RUNNING")
    <3> TAKE k \in Jobs
    <3>1. CASE k = j BY <1>4, <2>9, <3>1 DEF HasRow
    <3>2. CASE k # j BY <2>4, <3>2 DEF HasRow, Row
    <3> QED BY <3>1, <3>2
  <2> QED
    BY <1>1, <1>2, <2>3, <2>4, <2>6, <2>7, <2>13, <2>15, <2>16, WritingStep
<1> QED BY <1>3, <1>4, InsertCases

-----------------------------------------------------------------------------
(* The worker: types, and what holds of every job. *)

\* What the worker's write of its target's row does to the tables.
LEMMA WriteCases ==
  ASSUME TypeOK, Common, worker.pc # "idle", worker.left # {}, NEW s \in TargetSt, WriteTarget(s)
  PROVE  IF OwnTarget THEN RowSet(Job, Target, s) ELSE jobs' = jobs
BY DEF WriteTarget, UpdateUpdateJobTarget, OwnTarget, RowSet

LEMMA WriteTables ==
  ASSUME TypeOK, Common, worker.pc # "idle", worker.left # {},
         NEW s \in {"RUNNING", "FAILED", "SUCCESS", "CANCELLED"}, WriteTarget(s),
         s = "SUCCESS" => jobs[Job].tag \in ran[Target],
         RanGrows, \A k \in Jobs \ {Job} : late'[k] = late[k]
  PROVE  /\ JobsType' /\ JobsStay /\ Tables'
         /\ \A k \in Jobs : jobs'[k].st = jobs[k].st /\ jobs'[k].cancel = jobs[k].cancel
<1>1. PICK j \in Jobs, n \in Nodes :
        /\ j = Job /\ n = Target /\ jobs[j].st = "RUNNING"
  BY TargetIsPlace
<1>2. Tables /\ JobsType
  BY CommonGroups, TypeGroups
<1>3. s \in TargetSt
  BY DEF TargetSt
<1>4. IF OwnTarget THEN RowSet(j, n, s) ELSE jobs' = jobs
  BY <1>1, <1>3, WriteCases
<1>5. \A k \in Jobs \ {j} : late'[k] = late[k]
  BY <1>1
<1>6. CASE jobs' = jobs
  <2>1. JobsType' /\ JobsStay
    BY <1>2, <1>6 DEF JobsType, JobsStay
  <2>2. OnlyJob(j) /\ jobs'[j].row = jobs[j].row
    BY <1>6 DEF OnlyJob
  <2>3. Table(j)'
    BY <1>1, <1>2, <1>6, <2>2, SameRows
  <2>4. \A k \in Jobs : Table(k)'
    BY <1>2, <1>5, <2>2, <2>3, OtherJobs
  <2>5. OneRunning'
    BY <1>2, <1>6 DEF Tables, OneRunning
  <2> QED BY <1>6, <2>1, <2>4, <2>5, TablesNext
<1>7. CASE RowSet(j, n, s)
  <2>1. /\ jobs' \in [Jobs -> JobType] /\ OnlyJob(j)
        /\ jobs'[j].st = jobs[j].st /\ jobs'[j].cancel = jobs[j].cancel
        /\ Row(j, n)'.st = s
        /\ \A m \in Nodes \ {n} : Row(j, m)' = Row(j, m)
    BY <1>2, <1>3, <1>7, RowSetEffect DEF JobsType
  <2>2. Blank(j)' /\ RunningRowRunningJob(j)'
    BY <1>1, <1>2, <2>1 DEF Tables, Blank, RunningRowRunningJob, OnlyJob, Orders, Places
  <2>3. SuccessHasRun(j)'
    BY <1>1, <1>2, <2>1 DEF Tables, SuccessHasRun, OnlyJob, RanGrows
  <2>4. \A k \in Jobs : Table(k)'
    BY <1>2, <1>5, <2>1, <2>2, <2>3, OtherJobs DEF Table
  <2>5. OneRunning'
    BY <1>2, <2>1 DEF Tables, OneRunning, OnlyJob
  <2> QED BY <2>1, <2>4, <2>5, TablesNext DEF JobsType, JobsStay, OnlyJob
<1> QED BY <1>4, <1>6, <1>7

\* No Apply has a caller.
NoCaller == \A n \in Nodes : ~node[n].waited

LEMMA IdleNoCaller == ASSUME Common, worker.pc # "apply" PROVE NoCaller
BY DEF Common, CallerIsWorker, NoCaller

LEMMA NoCallerNext == ASSUME NoCaller' PROVE Callers'
BY DEF Callers, CallerIsWorker, NoCaller

\* A step of the worker that leaves the nodes, the handlers and the principals alone.
LEMMA WorkerStepCommon ==
  ASSUME TypeOK, Common, worker' \in WorkerType, QueueType', JobsType', JobsStay,
         UNCHANGED <<hs, idents, node, seen, ran, raced, calls, events>>, late' \in [Jobs -> Nat],
         Tables', Lates', WorkerOn', NoCaller
  PROVE  TypeOK' /\ Common'
<1>1. RanGrows
  BY DEF RanGrows
<1>2. Callers'
  BY NoCallerNext DEF NoCaller
<1>3. Runs'
  BY <1>1, RunsFrame, CommonGroups
<1>4. Handled'
  BY HandledFrame, CommonGroups DEF Handled
<1>5. HandlersType' /\ IdentsType' /\ RestType'
  BY TypeGroups DEF HandlersType, IdentsType, RestType
<1> QED BY <1>2, <1>3, <1>4, <1>5, TypeGroupsNext, CommonGroupsNext

\* The worker moves on and the tables stay.
LEMMA MoveCommon ==
  ASSUME TypeOK, Common, worker' \in WorkerType, QueueType', WorkerOn', NoCaller,
         UNCHANGED <<jobs, hs, idents, node, seen, ran, raced, late, calls, events>>,
         worker'.pc = "start" => late[worker'.job] = 0
  PROVE  TypeOK' /\ Common'
<1>1. RanGrows /\ JobsStay
  BY DEF RanGrows, JobsStay
<1>2. Tables'
  BY <1>1, TablesFrame, CommonGroups
<1>3. Lates'
  BY CommonGroups DEF Lates, LateOnce, Job
<1> QED BY <1>1, <1>2, <1>3, WorkerStepCommon, TypeGroups DEF JobsType, RestType

LEMMA RunJobCommon ==
  ASSUME TypeOK, Common, RunJob
  PROVE  TypeOK' /\ Common'
<1>1. PICK j \in Jobs : j = Head(queue)
  BY DEF RunJob, TypeOK
<1>2. UNCHANGED <<jobs, hs, idents, node, seen, ran, raced, late, calls, events>> /\ QueueType'
  BY TypeGroups DEF RunJob, history, bounds, QueueType
<1>3. NoCaller
  BY IdleNoCaller DEF RunJob
<1>4. CASE ~HasRunningUpdateJob(j)
  <2>1. worker' = worker
    BY <1>1, <1>4 DEF RunJob
  <2> QED BY <1>2, <1>3, <2>1, MoveCommon, WorkerOnFrame, TypeGroups, CommonGroups DEF RunJob
<1>5. CASE HasRunningUpdateJob(j)
  <2>1. jobs[j].st = "RUNNING"
    BY <1>5, CommonGroups DEF HasRunningUpdateJob, Tables, RunningRowRunningJob
  <2> DEFINE c == [WIdle EXCEPT !.pc = "pick", !.job = j, !.left = Places, !.ops = Ops(j)]
  <2>2. worker' = c
    BY <1>1, <1>5 DEF RunJob
  <2>3. Ops(j) \in [Nodes -> Nat]
    BY DEF TypeOK, JobType, TargetType, Ops, Row
  <2>4. c \in WorkerType /\ c.pc = "pick" /\ c.job = j
    BY <2>3, WIdleType DEF WorkerType
  <2> HIDE DEF c
  <2>5. WorkerOn'
    BY <1>2, <2>1, <2>2, <2>4 DEF WorkerOn, Job
  <2> QED BY <1>2, <1>3, <2>2, <2>4, <2>5, MoveCommon
<1> QED BY <1>4, <1>5

\* The worker goes on with its job.
LEMMA GoesOnCommon ==
  ASSUME TypeOK, Common, worker.pc # "idle", NoCaller,
         worker' \in WorkerType, worker'.job = worker.job,
         worker'.pc \in {"pick", "start", "wait", "cancel", "finalize"},
         worker'.pc \in {"start", "wait"} => worker'.left # {},
         worker'.pc = "start" => late[Job] = 0,
         UNCHANGED <<jobs, queue, hs, idents, node, seen, ran, raced, late, calls, events>>
  PROVE  TypeOK' /\ Common'
<1>1. WorkerOn'
  BY CommonGroups DEF WorkerOn, Job
<1>2. QueueType'
  BY TypeGroups DEF QueueType
<1> QED BY <1>1, <1>2, MoveCommon DEF Job

LEMMA PickCommon ==
  ASSUME TypeOK, Common, PickTarget
  PROVE  TypeOK' /\ Common'
<1>1. /\ worker.pc = "pick" /\ worker \in WorkerType
      /\ UNCHANGED <<jobs, queue, hs, idents, node, seen, ran, raced, late, calls, events>>
  BY TypeGroups DEF PickTarget, history, bounds
<1>2. NoCaller
  BY <1>1, IdleNoCaller
<1>3. CASE Goto("finalize")
  BY <1>1, <1>2, <1>3, GotoEffect, GoesOnCommon DEF WPcs
<1>4. CASE NextTarget
  BY <1>1, <1>2, <1>4, NextTargetEffect, GoesOnCommon
<1>5. CASE Goto("wait") /\ worker.left # {}
  BY <1>1, <1>2, <1>5, GotoEffect, GoesOnCommon DEF WPcs
<1>6. CASE Goto("start") /\ worker.left # {} /\ ~jobs[Job].cancel
  <2>1. late[Job] = 0
    BY <1>1, <1>6, CommonGroups DEF Lates, LateOnce, WorkerOn
  <2> QED BY <1>1, <1>2, <1>6, <2>1, GotoEffect, GoesOnCommon DEF WPcs
<1>7. CASE worker' = [worker EXCEPT !.pc = "cancel", !.ops = Ops(Job),
                               !.left = {i \in Places : Row(Job, At(Job, i)).st = "PENDING"}]
  <2>1. Job \in Jobs
    BY <1>1, CommonGroups DEF WorkerOn
  <2>2. Ops(Job) \in [Nodes -> Nat]
    BY <2>1 DEF TypeOK, JobType, TargetType, Ops, Row
  <2>3. worker' \in WorkerType /\ worker'.pc = "cancel" /\ worker'.job = worker.job
    BY <1>1, <1>7, <2>2 DEF WorkerType
  <2> QED BY <1>1, <1>2, <2>3, GoesOnCommon
<1> QED
  BY <1>3, <1>4, <1>5, <1>6, <1>7 DEF PickTarget, PassOver, InFlightStill, NextPending

LEMMA StartCommon ==
  ASSUME TypeOK, Common, StartTarget
  PROVE  TypeOK' /\ Common'
<1>1. /\ worker.pc = "start" /\ worker \in WorkerType /\ worker.left # {}
      /\ UNCHANGED <<queue, hs, idents, node, seen, ran, raced, calls, events>>
      /\ WriteTarget("RUNNING")
  BY TypeGroups, CommonGroups DEF StartTarget, bounds, WorkerOn
<1>2. NoCaller /\ RanGrows
  BY <1>1, IdleNoCaller DEF RanGrows
<1>3. PICK j \in Jobs : j = Job /\ jobs[j].st = "RUNNING" /\ late[j] = 0
  BY <1>1, CommonGroups DEF WorkerOn, Lates, LateOnce
<1>4. /\ late' \in [Jobs -> Nat] /\ \A k \in Jobs \ {j} : late'[k] = late[k]
      /\ late'[j] <= 1 /\ (late'[j] # 0 => jobs[j].cancel)
  <2>1. late \in [Jobs -> Nat]
    BY TypeGroups DEF RestType
  <2> QED BY <1>3, <2>1 DEF StartTarget
<1>5. /\ JobsType' /\ JobsStay /\ Tables'
      /\ \A k \in Jobs : jobs'[k].st = jobs[k].st /\ jobs'[k].cancel = jobs[k].cancel
  BY <1>1, <1>2, <1>3, <1>4, WriteTables
<1>6. /\ worker' \in WorkerType /\ worker'.job = j
      /\ worker'.pc \in {"apply", "pick"} /\ (worker'.pc = "apply" => worker'.left # {})
  BY <1>1, <1>3, GotoEffect, NextTargetEffect DEF StartTarget, WPcs, Job
<1>7. WorkerOn'
  BY <1>3, <1>5, <1>6 DEF WorkerOn, Job
<1>8. Lates'
  <2>1. \A k \in Jobs : late[k] <= 1 /\ (late[k] # 0 => jobs[k].cancel)
    BY CommonGroups DEF Lates, LateOnce
  <2>2. \A k \in Jobs : late'[k] <= 1 /\ (late'[k] # 0 => jobs'[k].cancel)
    BY <1>4, <1>5, <2>1
  <2> QED BY <1>6, <2>2 DEF Lates, LateOnce
<1>9. QueueType'
  BY <1>1, TypeGroups DEF QueueType
<1> QED BY <1>1, <1>2, <1>4, <1>5, <1>6, <1>7, <1>8, <1>9, WorkerStepCommon

\* The worker ends its target, or cancels it.
LEMMA WriteParts ==
  ASSUME TypeOK, Common, worker.pc # "idle", worker.left # {},
         NEW s \in {"FAILED", "SUCCESS", "CANCELLED"}, WriteTarget(s),
         s = "SUCCESS" => jobs[Job].tag \in ran[Target],
         worker'.job = worker.job, worker'.pc \in {"pick", "cancel"},
         UNCHANGED <<late, ran>>
  PROVE  JobsType' /\ JobsStay /\ Tables' /\ Lates' /\ WorkerOn'
<1>1. RanGrows
  BY DEF RanGrows
<1>2. /\ JobsType' /\ JobsStay /\ Tables'
      /\ \A k \in Jobs : jobs'[k].st = jobs[k].st /\ jobs'[k].cancel = jobs[k].cancel
  BY <1>1, WriteTables
<1>3. WorkerOn'
  BY <1>2, CommonGroups DEF WorkerOn, Job
<1>4. Lates'
  BY <1>2, CommonGroups DEF Lates, LateOnce
<1> QED BY <1>2, <1>3, <1>4

LEMMA WriteCommon ==
  ASSUME TypeOK, Common, worker.pc # "idle", worker.left # {}, NoCaller,
         NEW s \in {"FAILED", "SUCCESS", "CANCELLED"}, WriteTarget(s),
         s = "SUCCESS" => jobs[Job].tag \in ran[Target],
         worker' \in WorkerType, worker'.job = worker.job, worker'.pc \in {"pick", "cancel"},
         UNCHANGED <<queue, hs, idents, node, seen, ran, raced, late, calls, events>>
  PROVE  TypeOK' /\ Common'
<1>1. JobsType' /\ JobsStay /\ Tables' /\ Lates' /\ WorkerOn'
  BY WriteParts
<1>2. QueueType' /\ late' \in [Jobs -> Nat]
  BY TypeGroups DEF QueueType, RestType
<1> QED BY <1>1, <1>2, WorkerStepCommon

LEMMA MissingCommon ==
  ASSUME TypeOK, Common, MissingPrincipal
  PROVE  TypeOK' /\ Common'
<1>1. /\ worker.pc = "apply" /\ worker \in WorkerType /\ worker.left # {} /\ Goto("wait")
      /\ UNCHANGED <<jobs, queue, hs, idents, node, seen, ran, raced, late, calls, events>>
  BY TypeGroups, CommonGroups DEF MissingPrincipal, history, bounds, WorkerOn
<1>2. NoCaller
  BY DEF MissingPrincipal, Common, CallerIsWorker, NoCaller
<1> QED BY <1>1, <1>2, GotoEffect, GoesOnCommon DEF WPcs

LEMMA AnsweredCommon ==
  ASSUME TypeOK, Common, ApplyAnswered
  PROVE  TypeOK' /\ Common'
<1>1. /\ worker.pc = "apply" /\ worker \in WorkerType /\ worker.left # {}
      /\ UNCHANGED <<queue, hs, idents, node, seen, ran, raced, late, calls, events>>
  BY TypeGroups, CommonGroups DEF ApplyAnswered, history, bounds, WorkerOn
<1>2. NoCaller
  BY DEF ApplyAnswered, Common, CallerIsWorker, NoCaller
<1>3. CASE WriteTarget("FAILED") /\ NextTarget
  BY <1>1, <1>2, <1>3, NextTargetEffect, WriteCommon
<1>4. CASE jobs' = jobs /\ Goto("wait")
  BY <1>1, <1>2, <1>4, GotoEffect, GoesOnCommon DEF WPcs
<1> QED BY <1>3, <1>4 DEF ApplyAnswered, EndCall

\* What gossip shows at the entry the node has run.
LEMMA SeenHasRun ==
  ASSUME TypeOK, Common, worker.pc # "idle", worker.left # {}, memberReady(Target, jobs[Job].tag)
  PROVE  jobs[Job].tag \in ran[Target]
<1>1. PICK j \in Jobs, n \in Nodes : j = Job /\ n = Target /\ jobs[j].st = "RUNNING"
  BY TargetIsPlace
<1>2. jobs[j].tag \in Tags /\ Tags \subseteq Nat \ {0, 1}
  BY <1>1, InsertedOrder, ConstantsAssumption DEF ConstantsAssumption
<1>3. seen[n] = jobs[j].tag /\ HasRun(n)
  BY <1>1, CommonGroups DEF memberReady, Runs
<1> QED BY <1>1, <1>2, <1>3 DEF HasRun

LEMMA WaitCommon ==
  ASSUME TypeOK, Common, WaitReady
  PROVE  TypeOK' /\ Common'
<1>1. /\ worker.pc = "wait" /\ worker \in WorkerType /\ worker.left # {} /\ NextTarget
      /\ UNCHANGED <<queue, hs, idents, node, seen, ran, raced, late, calls, events>>
  BY TypeGroups, CommonGroups DEF WaitReady, history, bounds, WorkerOn
<1>2. NoCaller
  BY <1>1, IdleNoCaller
<1>3. CASE memberReady(Target, jobs[Job].tag)
  <2>1. WriteTarget("SUCCESS") /\ jobs[Job].tag \in ran[Target]
    BY <1>1, <1>3, SeenHasRun DEF WaitReady
  <2> QED BY <1>1, <1>2, <2>1, NextTargetEffect, WriteCommon
<1>4. CASE ~memberReady(Target, jobs[Job].tag)
  <2>1. WriteTarget("FAILED")
    BY <1>4 DEF WaitReady
  <2> QED BY <1>1, <1>2, <2>1, NextTargetEffect, WriteCommon
<1> QED BY <1>3, <1>4

LEMMA CancelPendingCommon ==
  ASSUME TypeOK, Common, CancelPending
  PROVE  TypeOK' /\ Common'
<1>1. /\ worker.pc = "cancel" /\ worker \in WorkerType
      /\ UNCHANGED <<queue, hs, idents, node, seen, ran, raced, late, calls, events>>
  BY TypeGroups DEF CancelPending, history, bounds
<1>2. NoCaller
  BY <1>1, IdleNoCaller
<1>3. CASE Goto("finalize") /\ jobs' = jobs
  BY <1>1, <1>2, <1>3, GotoEffect, GoesOnCommon DEF WPcs
<1>4. CASE worker.left # {} /\ WriteTarget("CANCELLED") /\ worker' = [worker EXCEPT !.left = Rest]
  <2>1. worker' \in WorkerType /\ worker'.job = worker.job /\ worker'.pc = "cancel"
    BY <1>1, <1>4 DEF WorkerType, Rest
  <2> QED BY <1>1, <1>2, <1>4, <2>1, WriteCommon
<1> QED BY <1>3, <1>4 DEF CancelPending

LEMMA FinalizeCommon ==
  ASSUME TypeOK, Common, Finalize
  PROVE  TypeOK' /\ Common'
<1>1. /\ worker.pc = "finalize" /\ worker \in WorkerType
      /\ UNCHANGED <<jobs, queue, hs, idents, node, seen, ran, raced, late, calls, events>>
  BY TypeGroups DEF Finalize, history, bounds
<1>2. NoCaller /\ QueueType'
  BY <1>1, IdleNoCaller, TypeGroups DEF QueueType
<1>3. CASE RollupJob(Job) = "RUNNING"
  <2>1. worker' = WIdle
    BY <1>3 DEF Finalize
  <2>2. WorkerOn'
    BY <2>1, WIdleType DEF WorkerOn
  <2> QED BY <1>1, <1>2, <2>1, <2>2, WIdleType, MoveCommon
<1>4. CASE RollupJob(Job) # "RUNNING"
  <2>1. worker' = [worker EXCEPT !.pc = "settle", !.end = RollupJob(Job)]
    BY <1>4 DEF Finalize
  <2>2. RollupJob(Job) \in {"COMPLETED", "PARTIAL", "FAILED"} /\ ~HasRow(Job, "RUNNING")
    BY <1>4 DEF RollupJob
  <2>3. /\ worker' \in WorkerType /\ worker'.pc = "settle" /\ worker'.job = worker.job
        /\ worker'.end = RollupJob(Job)
    BY <1>1, <2>1, <2>2 DEF WorkerType, JobSt
  <2>4. HasRow(Job, "RUNNING")' <=> HasRow(Job, "RUNNING")
    BY <1>1, <2>3 DEF HasRow, Row, Job
  <2>5. WorkerOn'
    BY <1>1, <2>2, <2>3, <2>4, CommonGroups DEF WorkerOn, Job
  <2> QED BY <1>1, <1>2, <2>3, <2>5, MoveCommon
<1> QED BY <1>3, <1>4

LEMMA SettleCommon ==
  ASSUME TypeOK, Common, SettleJob
  PROVE  TypeOK' /\ Common'
<1>1. /\ worker.pc = "settle" /\ worker' = WIdle
      /\ UNCHANGED <<queue, hs, idents, node, seen, ran, raced, late, calls, events>>
  BY DEF SettleJob, history, bounds
<1>2. PICK j \in Jobs : j = Job /\ jobs[j].st = "RUNNING" /\ ~HasRow(j, "RUNNING")
  BY <1>1, CommonGroups DEF WorkerOn
<1>3. PICK s \in {"COMPLETED", "PARTIAL", "FAILED"} : s = worker.end
  BY <1>1, CommonGroups DEF WorkerOn
<1>4. jobs' = [jobs EXCEPT ![j].st = s]
  BY <1>2, <1>3 DEF SettleJob
<1>5. /\ jobs' \in [Jobs -> JobType] /\ OnlyJob(j)
      /\ jobs'[j].st = s /\ jobs'[j].cancel = jobs[j].cancel /\ jobs'[j].row = jobs[j].row
  BY <1>4, StatusSetEffect, TypeGroups DEF JobsType, JobSt
<1>6. RanGrows /\ NoCaller /\ JobsStay
  BY <1>1, <1>5, IdleNoCaller DEF RanGrows, JobsStay, OnlyJob
<1>7. Tables
  BY CommonGroups
<1>8. Table(j)'
  <2>1. ~HasRow(j, "RUNNING")'
    BY <1>2, <1>5 DEF HasRow, Row
  <2>2. Blank(j)' /\ RunningRowRunningJob(j)'
    BY <1>2, <1>5, <1>7, <2>1 DEF Tables, Blank, RunningRowRunningJob, OnlyJob, Orders, Places
  <2>3. SuccessHasRun(j)'
    BY <1>5, <1>6, <1>7 DEF Tables, SuccessHasRun, OnlyJob, RanGrows, Row
  <2> QED BY <2>2, <2>3 DEF Table
<1>9. OneRunning'
  BY <1>5, <1>7 DEF Tables, OneRunning, OnlyJob
<1>10. Tables'
  BY <1>1, <1>5, <1>6, <1>7, <1>8, <1>9, OtherJobs, TablesNext
<1>11. Lates'
  BY <1>1, <1>5, WIdleType, CommonGroups DEF Lates, LateOnce, OnlyJob
<1>12. WorkerOn' /\ worker' \in WorkerType
  BY <1>1, WIdleType DEF WorkerOn
<1>13. QueueType' /\ late' \in [Jobs -> Nat]
  BY <1>1, TypeGroups DEF QueueType, RestType
<1> QED BY <1>1, <1>5, <1>6, <1>10, <1>11, <1>12, <1>13, WorkerStepCommon DEF JobsType

-----------------------------------------------------------------------------
(* The agents: types, and what holds of every job. *)

NodesType == node \in [Nodes -> NodeType]
SeenType == seen \in [Nodes -> Tags \cup {0, 1}]
RanType == ran \in [Nodes -> SUBSET (Tags \cup {1})]

\* A step of an agent that leaves the tables and the requests alone.
LEMMA NodeCommon ==
  ASSUME TypeOK, Common, UNCHANGED <<jobs, hs, idents, late, raced, calls>>, QueueType',
         worker' \in WorkerType, WorkerOn', worker'.pc # "start" \/ worker' = worker,
         NodesType', SeenType', RanType', events' \in Nat, RanGrows, Callers', Runs'
  PROVE  TypeOK' /\ Common'
<1>1. JobsType' /\ HandlersType' /\ IdentsType' /\ RestType'
  BY TypeGroups DEF JobsType, HandlersType, IdentsType, RestType, NodesType, SeenType, RanType
<1>2. TypeOK'
  BY <1>1, TypeGroupsNext
<1>3. JobsStay
  BY DEF JobsStay
<1>4. Tables' /\ Lates' /\ Handled'
  BY <1>3, TablesFrame, LatesFrame, HandledFrame, CommonGroups DEF Handled
<1> QED BY <1>2, <1>4, CommonGroupsNext

\* A node's record changes; what it has run stays.
NodeSet(n, r) ==
  /\ node' = [node EXCEPT ![n] = r] /\ r \in NodeType /\ r.ver = node[n].ver
  /\ r.phase = "install" => r.pin \in Tags
  /\ UNCHANGED <<seen, ran>>

LEMMA NodeSetEffect ==
  ASSUME TypeOK, Common, NEW n \in Nodes, NEW r, NodeSet(n, r)
  PROVE  /\ NodesType' /\ SeenType' /\ RanType' /\ Runs' /\ RanGrows
         /\ node'[n] = r /\ \A m \in Nodes \ {n} : node'[m] = node[m]
<1>1. NodesType' /\ node'[n] = r /\ \A m \in Nodes \ {n} : node'[m] = node[m]
  BY DEF NodesType, TypeOK, NodeSet
<1>2. SeenType' /\ RanType' /\ RanGrows
  BY DEF SeenType, RanType, RanGrows, TypeOK, NodeSet
<1>3. Runs'
  BY <1>1, CommonGroups DEF Runs, HasRun, NodeSet
<1> QED BY <1>1, <1>2, <1>3

\* The caller of an Apply: there is one, and its worker has a target.
LEMMA TheCaller ==
  ASSUME TypeOK, Common, NEW n \in Nodes, node[n].waited
  PROVE  /\ worker.pc = "apply" /\ worker.left # {} /\ Target = n /\ ~remoteMissingPrincipal
         /\ \A m \in Nodes \ {n} : ~node[m].waited
BY CommonGroups DEF Callers, CallerIsWorker, WorkerOn

LEMMA FewerCallers ==
  ASSUME TypeOK, Common, UNCHANGED <<jobs, worker, idents>>,
         \A m \in Nodes : node'[m].waited => node[m].waited
  PROVE  Callers'
<1> SUFFICES ASSUME NEW m \in Nodes, node[m].waited
             PROVE  CallerIsWorker(m)'
  BY DEF Callers, CallerIsWorker
<1>1. worker.pc = "apply" /\ Target = m /\ ~remoteMissingPrincipal
  BY TheCaller
<1>2. Target' = Target /\ TargetOp' = TargetOp /\ Job' = Job
  BY DEF Target, TargetOp, Job, At
<1> QED BY <1>1, <1>2 DEF CallerIsWorker, remoteMissingPrincipal

LEMMA BeginsCommon ==
  ASSUME TypeOK, Common, ApplyBegins
  PROVE  TypeOK' /\ Common'
<1>1. /\ worker.pc = "apply" /\ worker.left # {} /\ ~remoteMissingPrincipal
      /\ UNCHANGED <<jobs, queue, worker, hs, idents, seen, ran, raced, late, calls, events>>
  BY CommonGroups DEF ApplyBegins, memory, history, bounds, WorkerOn
<1>2. PICK n \in Nodes, tag \in Tags : n = Target /\ tag = jobs[Job].tag
  <2>1. Target \in Nodes /\ jobs[Job].tag \in Tags
    BY <1>1, TargetIsPlace, InsertedOrder
  <2> QED BY <2>1
<1> DEFINE r == [node[n] EXCEPT !.phase = "install", !.pin = tag, !.waited = TRUE]
<1>3. node' = [node EXCEPT ![n] = r]
  BY <1>2 DEF ApplyBegins
<1>4. node[n] \in NodeType
  BY DEF TypeOK
<1>5. r \in NodeType /\ r.ver = node[n].ver /\ r.pin \in Tags
  BY <1>4 DEF NodeType
<1> HIDE DEF r
<1>6. /\ NodesType' /\ SeenType' /\ RanType' /\ Runs' /\ RanGrows
      /\ \A m \in Nodes \ {n} : node'[m] = node[m]
  BY <1>1, <1>3, <1>5, NodeSetEffect DEF NodeSet
<1>7. \A m \in Nodes : m # n => ~node[m].waited
  BY <1>2, TheCaller
<1>8. Callers'
  <2>1. Target' = Target /\ TargetOp' = TargetOp /\ Job' = Job
    BY <1>1 DEF Target, TargetOp, Job, At
  <2> SUFFICES ASSUME NEW m \in Nodes, node'[m].waited
               PROVE  CallerIsWorker(m)'
    BY DEF Callers, CallerIsWorker
  <2>2. m = Target
    BY <1>2, <1>6, <1>7
  <2> QED BY <1>1, <2>1, <2>2 DEF CallerIsWorker, remoteMissingPrincipal
<1>9. worker' \in WorkerType /\ QueueType' /\ events' \in Nat /\ WorkerOn'
  BY <1>1, WorkerOnFrame, CommonGroups, TypeGroups DEF QueueType, RestType
<1> QED BY <1>1, <1>6, <1>8, <1>9, NodeCommon

\* The worker waits for its target.
LEMMA ToWait ==
  ASSUME TypeOK, Common, worker.pc # "idle", worker.left # {}, Goto("wait"), UNCHANGED jobs
  PROVE  worker' \in WorkerType /\ WorkerOn' /\ worker'.pc = "wait"
<1>1. /\ worker' \in WorkerType /\ worker'.pc = "wait"
      /\ worker'.job = worker.job /\ worker'.left = worker.left
  BY GotoEffect, TypeGroups DEF WPcs
<1> QED BY <1>1, CommonGroups DEF WorkerOn, Job

LEMMA CutCommon ==
  ASSUME TypeOK, Common, CallCut
  PROVE  TypeOK' /\ Common'
<1>1. /\ worker.pc = "apply" /\ worker.left # {} /\ Goto("wait")
      /\ UNCHANGED <<jobs, queue, hs, idents, seen, ran, raced, late, calls, events>>
  BY CommonGroups DEF CallCut, history, bounds, WorkerOn
<1>2. PICK n \in Nodes : n = Target
  BY <1>1, TargetIsPlace
<1> DEFINE r == [node[n] EXCEPT !.waited = FALSE]
<1>3. node' = [node EXCEPT ![n] = r]
  BY <1>2 DEF CallCut
<1>4. node[n] \in NodeType
  BY DEF TypeOK
<1>5. /\ r \in NodeType /\ r.ver = node[n].ver /\ ~r.waited
      /\ r.phase = "install" => r.pin \in Tags
  BY <1>4, CommonGroups DEF NodeType, Runs, HasRun
<1> HIDE DEF r
<1>6. /\ NodesType' /\ SeenType' /\ RanType' /\ Runs' /\ RanGrows
      /\ node'[n] = r /\ \A m \in Nodes \ {n} : node'[m] = node[m]
  BY <1>1, <1>3, <1>5, NodeSetEffect DEF NodeSet
<1>7. Callers'
  <2>1. \A m \in Nodes : m # n => ~node[m].waited
    BY <1>2, TheCaller
  <2> QED BY <1>5, <1>6, <2>1, NoCallerNext DEF NoCaller
<1>8. worker' \in WorkerType /\ WorkerOn' /\ worker'.pc = "wait" /\ QueueType' /\ events' \in Nat
  BY <1>1, ToWait, TypeGroups DEF QueueType, RestType
<1> QED BY <1>1, <1>6, <1>7, <1>8, NodeCommon

LEMMA GossipCommon ==
  ASSUME TypeOK, Common, NEW n \in Nodes, Gossip(n)
  PROVE  TypeOK' /\ Common'
<1>1. /\ seen' = [seen EXCEPT ![n] = IF node[n].up THEN node[n].ver ELSE 0]
      /\ UNCHANGED <<jobs, queue, worker, hs, idents, node, ran, raced, late, calls, events>>
  BY DEF Gossip, memory, history, bounds
<1>2. node[n].ver \in Tags \cup {1} /\ seen \in [Nodes -> Tags \cup {0, 1}]
  BY DEF TypeOK, NodeType
<1>3. SeenType' /\ \A m \in Nodes : seen'[m] = seen[m] \/ seen'[m] = node[m].ver \/ seen'[m] = 0
  BY <1>1, <1>2 DEF SeenType
<1>4. Runs'
  BY <1>1, <1>3, CommonGroups DEF Runs, HasRun
<1>5. RanGrows /\ NodesType' /\ RanType' /\ QueueType' /\ worker' \in WorkerType /\ events' \in Nat
  BY <1>1, TypeGroups DEF RanGrows, NodesType, RanType, RestType, QueueType
<1>6. Callers' /\ WorkerOn'
  BY <1>1, FewerCallers, WorkerOnFrame, CommonGroups
<1> QED BY <1>1, <1>3, <1>4, <1>5, <1>6, NodeCommon

LEMMA ApplyNodeCommon ==
  ASSUME TypeOK, Common, NEW n \in Nodes, ApplyNode(n)
  PROVE  TypeOK' /\ Common'
<1>1. /\ UNCHANGED <<jobs, queue, worker, hs, idents, seen, ran, raced, late, calls>>
      /\ events' = events + 1
  BY DEF ApplyNode, memory, history
<1>2. PICK tag \in Tags : node' = [node EXCEPT ![n].phase = "install", ![n].pin = tag]
  BY DEF ApplyNode
<1> DEFINE r == [node[n] EXCEPT !.phase = "install", !.pin = tag]
<1>3. node' = [node EXCEPT ![n] = r]
  BY <1>2
<1>4. node[n] \in NodeType
  BY DEF TypeOK
<1>5. r \in NodeType /\ r.ver = node[n].ver /\ r.waited = node[n].waited /\ r.pin \in Tags
  BY <1>4 DEF NodeType
<1> HIDE DEF r
<1>6. /\ NodesType' /\ SeenType' /\ RanType' /\ Runs' /\ RanGrows
      /\ node'[n] = r /\ \A m \in Nodes \ {n} : node'[m] = node[m]
  BY <1>1, <1>3, <1>5, NodeSetEffect DEF NodeSet
<1>7. Callers' /\ WorkerOn'
  BY <1>1, <1>5, <1>6, FewerCallers, WorkerOnFrame, CommonGroups
<1>8. QueueType' /\ worker' \in WorkerType /\ events' \in Nat
  BY <1>1, TypeGroups DEF QueueType, RestType
<1> QED BY <1>1, <1>6, <1>7, <1>8, NodeCommon

\* The record of a node whose Apply has ended.
Ended(n, disk) == [node[n] EXCEPT !.phase = "idle", !.waited = FALSE, !.pin = 0, !.disk = disk]

LEMMA EndedIsNode ==
  ASSUME TypeOK, NEW n \in Nodes, NEW disk \in Tags \cup {1}
  PROVE  /\ Ended(n, disk) \in NodeType /\ Ended(n, disk).ver = node[n].ver
         /\ Ended(n, disk).phase = "idle" /\ ~Ended(n, disk).waited
         /\ Ended(n, disk).up = node[n].up
<1>1. node[n] \in NodeType
  BY DEF TypeOK
<1> QED BY <1>1 DEF NodeType, Ended

LEMMA ApplyEnds ==
  ASSUME TypeOK, Common, NEW n \in Nodes, NEW disk \in Tags \cup {1},
         node' = [node EXCEPT ![n] = Ended(n, disk)], UNCHANGED <<seen, ran>>
  PROVE  /\ NodesType' /\ SeenType' /\ RanType' /\ Runs' /\ RanGrows
         /\ ~node'[n].waited /\ \A m \in Nodes \ {n} : node'[m] = node[m]
<1>1. NodeSet(n, Ended(n, disk))
  BY EndedIsNode DEF NodeSet
<1> QED BY <1>1, EndedIsNode, NodeSetEffect

\* An Apply that ends takes the worker's call with it.
LEMMA LastCaller ==
  ASSUME TypeOK, Common, NEW n \in Nodes, node[n].waited, ~node'[n].waited,
         \A m \in Nodes \ {n} : node'[m].waited => node[m].waited
  PROVE  Callers'
<1>1. \A m \in Nodes : ~node'[m].waited
  BY TheCaller
<1> QED BY <1>1, NoCallerNext DEF NoCaller

\* ... and the worker then waits, or its target has failed.
LEMMA EndCallCommon ==
  ASSUME TypeOK, Common, NEW n \in Nodes, NEW disk \in Tags \cup {1},
         node' = [node EXCEPT ![n] = Ended(n, disk)], 
         UNCHANGED <<queue, hs, idents, seen, ran, raced, late, calls, events>>,
         \/ ~node[n].waited /\ UNCHANGED <<jobs, worker>>
         \/ node[n].waited /\ Goto("wait") /\ UNCHANGED jobs
         \/ node[n].waited /\ WriteTarget("FAILED") /\ NextTarget
  PROVE  TypeOK' /\ Common'
<1>1. /\ NodesType' /\ SeenType' /\ RanType' /\ Runs' /\ RanGrows
      /\ ~node'[n].waited /\ \A m \in Nodes \ {n} : node'[m] = node[m]
  BY ApplyEnds
<1>2. QueueType' /\ events' \in Nat
  BY TypeGroups DEF QueueType, RestType
<1>3. CASE ~node[n].waited /\ UNCHANGED <<jobs, worker>>
  <2>1. Callers' /\ WorkerOn' /\ worker' \in WorkerType
    BY <1>1, <1>3, FewerCallers, WorkerOnFrame, CommonGroups, TypeGroups
  <2> QED BY <1>1, <1>2, <1>3, <2>1, NodeCommon
<1>4. CASE node[n].waited /\ Goto("wait") /\ UNCHANGED jobs
  <2>1. worker.pc = "apply" /\ worker.left # {} /\ Callers'
    BY <1>1, <1>4, TheCaller, LastCaller
  <2>2. worker' \in WorkerType /\ WorkerOn' /\ worker'.pc = "wait"
    BY <1>4, <2>1, ToWait
  <2> QED BY <1>1, <1>2, <1>4, <2>1, <2>2, NodeCommon
<1>5. CASE node[n].waited /\ WriteTarget("FAILED") /\ NextTarget
  <2>1. worker.pc = "apply" /\ worker.left # {} /\ Callers'
    BY <1>1, <1>5, TheCaller, LastCaller
  <2>2. worker' \in WorkerType /\ worker'.pc = "pick" /\ worker'.job = worker.job
    BY <1>5, NextTargetEffect, TypeGroups
  <2>3. JobsType' /\ JobsStay /\ Tables' /\ Lates' /\ WorkerOn'
    BY <1>5, <2>1, <2>2, WriteParts
  <2>4. Handled'
    BY <2>3, HandledFrame, CommonGroups DEF Handled
  <2>5. HandlersType' /\ IdentsType' /\ RestType'
    BY <1>1, <1>2, TypeGroups DEF HandlersType, IdentsType, RestType, NodesType, SeenType, RanType
  <2> QED BY <1>1, <1>2, <2>1, <2>2, <2>3, <2>4, <2>5, TypeGroupsNext, CommonGroupsNext
<1> QED BY <1>3, <1>4, <1>5

LEMMA InstallCommon ==
  ASSUME TypeOK, Common, NEW n \in Nodes, Install(n)
  PROVE  TypeOK' /\ Common'
<1>1. /\ node[n].phase = "install"
      /\ UNCHANGED <<queue, hs, idents, seen, ran, raced, late, calls, events>>
  BY DEF Install, ApplyFails, memory, history, bounds
<1>2. node[n].pin \in Tags /\ node[n] \in NodeType
  BY <1>1, CommonGroups DEF Runs, HasRun, TypeOK
<1>3. CASE \E replaced \in BOOLEAN : ApplyFails(n, replaced)
  <2>1. PICK replaced \in BOOLEAN : ApplyFails(n, replaced)
    BY <1>3
  <2>2. PICK disk \in Tags \cup {1} : disk = IF replaced THEN node[n].pin ELSE node[n].disk
    BY <1>2 DEF NodeType
  <2>3. node' = [node EXCEPT ![n] = Ended(n, disk)]
    BY <2>1, <2>2, <1>2 DEF ApplyFails, Ended, NodeType
  <2>4. \/ ~node[n].waited /\ UNCHANGED <<jobs, worker>>
        \/ node[n].waited /\ Goto("wait") /\ UNCHANGED jobs
        \/ node[n].waited /\ WriteTarget("FAILED") /\ NextTarget
    BY <2>1 DEF ApplyFails, EndCall
  <2> QED BY <1>1, <2>3, <2>4, EndCallCommon
<1>4. CASE /\ node' = [node EXCEPT ![n].phase = "restart", ![n].disk = node[n].pin]
           /\ UNCHANGED <<jobs, memory>>
  <2> DEFINE r == [node[n] EXCEPT !.phase = "restart", !.disk = node[n].pin]
  <2>1. node' = [node EXCEPT ![n] = r]
    BY <1>4
  <2>2. r \in NodeType /\ r.ver = node[n].ver /\ r.waited = node[n].waited /\ r.phase # "install"
    BY <1>2 DEF NodeType
  <2> HIDE DEF r
  <2>3. /\ NodesType' /\ SeenType' /\ RanType' /\ Runs' /\ RanGrows
        /\ node'[n] = r /\ \A m \in Nodes \ {n} : node'[m] = node[m]
    BY <1>1, <2>1, <2>2, NodeSetEffect DEF NodeSet
  <2>4. Callers' /\ WorkerOn'
    BY <1>1, <1>4, <2>2, <2>3, FewerCallers, WorkerOnFrame, CommonGroups DEF memory
  <2>5. QueueType' /\ worker' \in WorkerType /\ events' \in Nat
    BY <1>1, <1>4, TypeGroups DEF memory, QueueType, RestType
  <2> QED BY <1>1, <1>4, <2>3, <2>4, <2>5, NodeCommon DEF memory
<1> QED BY <1>3, <1>4 DEF Install

\* What the end of an agent's process does to the agents.
LEMMA DownEffect ==
  ASSUME TypeOK, Common, NEW n \in Nodes, Down(n), UNCHANGED <<seen, ran>>
  PROVE  /\ NodesType' /\ SeenType' /\ RanType' /\ Runs' /\ RanGrows
         /\ ~node'[n].up
         /\ \A m \in Nodes : /\ node'[m].waited => node[m].waited /\ m # n /\ n # Entry
                             /\ m # n => node'[m].up = node[m].up
<1> DEFINE off == [node[n] EXCEPT !.up = FALSE, !.phase = "idle", !.pin = 0, !.waited = FALSE]
           cut(m) == [node[m] EXCEPT !.waited = @ /\ n # Entry]
<1>1. node' = [m \in Nodes |-> IF m = n THEN off ELSE cut(m)]
  BY DEF Down
<1>2. \A m \in Nodes : node[m] \in NodeType
  BY DEF TypeOK
<1>3. off \in NodeType /\ off.ver = node[n].ver /\ ~off.up /\ ~off.waited /\ off.phase = "idle"
  BY <1>2 DEF NodeType
<1>4. ASSUME NEW m \in Nodes
      PROVE  /\ cut(m) \in NodeType /\ cut(m).ver = node[m].ver /\ cut(m).up = node[m].up
             /\ cut(m).phase = node[m].phase /\ cut(m).pin = node[m].pin
             /\ cut(m).waited => node[m].waited /\ n # Entry
  <2>1. node[m] \in NodeType
    BY <1>2
  <2> QED BY <2>1 DEF NodeType
<1> HIDE DEF off, cut
<1>5. NodesType'
  BY <1>1, <1>3, <1>4 DEF NodesType
<1>6. SeenType' /\ RanType' /\ RanGrows
  BY DEF SeenType, RanType, RanGrows, TypeOK
<1>7. /\ ~node'[n].up
      /\ \A m \in Nodes : /\ node'[m].waited => node[m].waited /\ m # n /\ n # Entry
                          /\ m # n => node'[m].up = node[m].up
  BY <1>1, <1>3, <1>4
<1>8. Runs'
  BY <1>1, <1>3, <1>4, CommonGroups DEF Runs, HasRun
<1> QED BY <1>5, <1>6, <1>7, <1>8

LEMMA DownCommon ==
  ASSUME TypeOK, Common, NEW n \in Nodes, Down(n),
         UNCHANGED <<seen, ran, raced, late, calls>>, events' \in Nat
  PROVE  TypeOK' /\ Common'
<1>1. /\ NodesType' /\ SeenType' /\ RanType' /\ Runs' /\ RanGrows
      /\ \A m \in Nodes : node'[m].waited => node[m].waited /\ m # n /\ n # Entry
  BY DownEffect
<1>2. jobs' = jobs
  BY DEF Down
<1>3. CASE n = Entry
  <2>1. worker' = WIdle /\ queue' = <<>> /\ idents' = {} /\ hs' = [h \in Handlers |-> HIdle]
    BY <1>3 DEF Down
  <2>2. Callers'
    BY <1>1, <1>3, NoCallerNext DEF NoCaller
  <2>3. WorkerOn' /\ worker' \in WorkerType /\ HandlersType' /\ Handled' /\ QueueType' /\ IdentsType'
    BY <2>1, WIdleType, HIdleType
       DEF WorkerOn, HandlersType, Handled, HandlerOK, QueueType, IdentsType
  <2>4. Tables' /\ Lates'
    BY <1>1, <1>2, <2>1, TablesFrame, LatesFrame, WIdleType, CommonGroups
  <2>5. JobsType' /\ RestType'
    BY <1>1, <1>2, TypeGroups DEF JobsType, RestType, NodesType, SeenType, RanType
  <2> QED BY <1>1, <2>2, <2>3, <2>4, <2>5, TypeGroupsNext, CommonGroupsNext
<1>4. CASE n # Entry
  <2>1. /\ UNCHANGED <<queue, idents, hs>> /\ QueueType'
        /\ IF node[n].waited THEN Goto("wait") ELSE UNCHANGED worker
    BY <1>4, TypeGroups DEF Down, QueueType
  <2>2. CASE node[n].waited
    <3>1. worker.pc = "apply" /\ worker.left # {} /\ Callers'
      BY <1>1, <2>2, TheCaller, LastCaller
    <3>2. worker' \in WorkerType /\ WorkerOn' /\ worker'.pc = "wait"
      BY <1>2, <2>1, <2>2, <3>1, ToWait
    <3> QED BY <1>1, <1>2, <2>1, <3>1, <3>2, NodeCommon
  <2>3. CASE ~node[n].waited
    <3>1. Callers' /\ WorkerOn' /\ worker' \in WorkerType
      BY <1>1, <1>2, <2>1, <2>3, FewerCallers, WorkerOnFrame, CommonGroups, TypeGroups
    <3> QED BY <1>1, <1>2, <2>1, <2>3, <3>1, NodeCommon
  <2> QED BY <2>2, <2>3
<1> QED BY <1>3, <1>4

LEMMA RestartCommon ==
  ASSUME TypeOK, Common, NEW n \in Nodes, Restart(n)
  PROVE  TypeOK' /\ Common'
<1>1. UNCHANGED <<seen, ran, raced, late, calls, events>> /\ events \in Nat
  BY DEF Restart, history, bounds, TypeOK
<1>2. CASE Down(n)
  BY <1>1, <1>2, DownCommon
<1>3. CASE /\ node' = [node EXCEPT ![n].phase = "idle", ![n].waited = FALSE, ![n].pin = 0]
           /\ IF node[n].waited THEN Goto("wait") ELSE UNCHANGED worker
           /\ UNCHANGED <<jobs, queue, hs, idents>>
  <2>1. PICK disk \in Tags \cup {1} : disk = node[n].disk
    BY DEF TypeOK, NodeType
  <2>2. node[n] \in NodeType
    BY DEF TypeOK
  <2>3. node' = [node EXCEPT ![n] = Ended(n, disk)]
    BY <1>3, <2>1, <2>2 DEF Ended, NodeType
  <2> QED BY <1>1, <1>3, <2>3, EndCallCommon
<1> QED BY <1>2, <1>3 DEF Restart

LEMMA CrashCommon ==
  ASSUME TypeOK, Common, NEW n \in Nodes, Crash(n)
  PROVE  TypeOK' /\ Common'
<1>1. Down(n) /\ UNCHANGED <<seen, ran, raced, late, calls>> /\ events' = events + 1 /\ events \in Nat
  BY DEF Crash, history, TypeOK
<1> QED BY <1>1, DownCommon

\* One job at most is in flight.
LEMMA InFlightIsOne ==
  ASSUME Common, NEW j \in InFlight
  PROVE  j \in Jobs /\ jobs[j].st = "RUNNING" /\ InFlight = {j}
BY DEF Common, InFlight, Inserted, HasRunningUpdateJob, RunningRowRunningJob, OneRunning

LEMMA ResumedQueue ==
  ASSUME Common, NEW q \in ListRunningUpdateJobIDs
  PROVE  q \in Seq(Jobs) /\ ToSet(q) = InFlight
<1>1. q \in [1..Cardinality(InFlight) -> InFlight] /\ ToSet(q) = InFlight
  BY DEF ListRunningUpdateJobIDs
<1>2. Cardinality(InFlight) \in Nat
  <2>1. CASE InFlight = {}
    BY <2>1, FS_EmptySet
  <2>2. CASE InFlight # {}
    <3>1. PICK j \in InFlight : InFlight = {j}
      BY <2>2, InFlightIsOne
    <3>2. Cardinality({j}) = 1
      BY FS_Singleton
    <3> QED BY <3>1, <3>2
  <2> QED BY <2>1, <2>2
<1>3. InFlight \subseteq Jobs
  BY DEF InFlight, Inserted
<1> QED BY <1>1, <1>2, <1>3

LEMMA ResumeCommon ==
  ASSUME TypeOK, Common, NEW n \in Nodes, Resume(n)
  PROVE  TypeOK' /\ Common'
<1>1. /\ node' = [node EXCEPT ![n].up = TRUE, ![n].ver = node[n].disk]
      /\ ran' = [ran EXCEPT ![n] = @ \cup {node[n].disk}]
      /\ UNCHANGED <<jobs, worker, hs, idents, seen, raced, late, calls, events>>
  BY DEF Resume, bounds
<1> DEFINE r == [node[n] EXCEPT !.up = TRUE, !.ver = node[n].disk]
<1>2. node' = [node EXCEPT ![n] = r]
  BY <1>1
<1>3. node[n] \in NodeType /\ node \in [Nodes -> NodeType] /\ ran \in [Nodes -> SUBSET (Tags \cup {1})]
  BY DEF TypeOK
<1>4. /\ r \in NodeType /\ r.ver = node[n].disk /\ r.waited = node[n].waited
      /\ r.phase = node[n].phase /\ r.pin = node[n].pin /\ node[n].disk \in Tags \cup {1}
  BY <1>3 DEF NodeType
<1> HIDE DEF r
<1>5. /\ NodesType' /\ RanType' /\ RanGrows /\ node[n].disk \in ran'[n]
      /\ node'[n] = r /\ \A m \in Nodes \ {n} : node'[m] = node[m]
  BY <1>1, <1>2, <1>3, <1>4 DEF NodesType, RanType, RanGrows
<1>6. Runs'
  <2> SUFFICES ASSUME NEW m \in Nodes PROVE HasRun(m)'
    BY DEF Runs
  <2>1. HasRun(m)
    BY CommonGroups DEF Runs
  <2>2. CASE m = n
    BY <1>1, <1>4, <1>5, <2>1, <2>2 DEF HasRun, RanGrows
  <2>3. CASE m # n
    BY <1>1, <1>5, <2>1, <2>3 DEF HasRun, RanGrows
  <2> QED BY <2>2, <2>3
<1>7. Callers' /\ WorkerOn' /\ worker' \in WorkerType
  BY <1>1, <1>4, <1>5, FewerCallers, WorkerOnFrame, CommonGroups, TypeGroups
<1>8. QueueType' /\ SeenType' /\ events' \in Nat
  <2>1. queue' \in ListRunningUpdateJobIDs \/ queue' = queue
    BY DEF Resume
  <2> QED BY <1>1, <2>1, ResumedQueue, TypeGroups DEF QueueType, RestType, SeenType
<1> QED BY <1>1, <1>5, <1>6, <1>7, <1>8, NodeCommon

-----------------------------------------------------------------------------
(* The invariant holds at first, and the part of it about every job is kept. *)

LEMMA InitInv == Init => Inv
<1> SUFFICES ASSUME Init PROVE Inv
  OBVIOUS
<1>1. \A n \in Nodes : NIdle(1) \in NodeType /\ NIdle(1).ver = 1 /\ ~NIdle(1).waited /\ NIdle(1).phase = "idle"
  BY DEF NIdle, NodeType
<1>2. TypeOK
  <2>1. jobs \in [Jobs -> JobType]
    BY DEF Init, JobType, JobSt, TargetType, TargetSt
  <2>2. node \in [Nodes -> NodeType]
    BY <1>1 DEF Init
  <2>3. queue \in Seq(Jobs) /\ worker \in WorkerType
    BY WIdleType DEF Init
  <2>4. hs \in [Handlers -> HandlerType] /\ idents \subseteq Jobs \X Nodes \X Nat
    BY HIdleType DEF Init
  <2>5. /\ seen \in [Nodes -> Tags \cup {0, 1}] /\ ran \in [Nodes -> SUBSET (Tags \cup {1})]
        /\ raced \subseteq Jobs /\ late \in [Jobs -> Nat] /\ calls \in Nat /\ events \in Nat
    BY DEF Init
  <2> QED BY <2>1, <2>2, <2>3, <2>4, <2>5 DEF TypeOK
<1>3. \A j \in Jobs : /\ jobs[j].st = "NONE" /\ jobs[j].cancel = FALSE /\ late[j] = 0
                      /\ \A n \in Nodes : Row(j, n).st = "SKIPPED"
  BY DEF Init, Row
<1>4. worker = WIdle /\ \A h \in Handlers : hs[h].pc = "idle"
  BY HIdleType DEF Init
<1>5. Common
  <2>1. Tables /\ Lates /\ Handled
    BY <1>3, <1>4, WIdleType DEF Tables, Blank, RunningRowRunningJob, SuccessHasRun, OneRunning, HasRow,
                            Lates, LateOnce, Handled, HandlerOK
  <2>2. WorkerOn /\ Callers /\ Runs
    BY <1>1, <1>4, WIdleType DEF WorkerOn, Callers, CallerIsWorker, Runs, HasRun, Init
  <2> QED BY <2>1, <2>2, CommonGroups
<1>6. \A j \in Jobs : Sound(j)
  BY <1>3, <1>4, WIdleType
     DEF Sound, SkippedLast, SuccessBefore, RunSound, Cared, BindSound, Retrying, Busy
<1> QED BY <1>2, <1>5, <1>6 DEF Inv

LEMMA StutterCommon ==
  ASSUME TypeOK, Common, UNCHANGED vars
  PROVE  TypeOK' /\ Common'
<1>1. /\ UNCHANGED <<jobs, worker, node, seen, ran, late>> /\ idents \subseteq idents'
      /\ UNCHANGED <<queue, hs, idents, raced, calls, events>>
  BY DEF vars
<1>2. TypeOK'
  BY DEF vars, TypeOK
<1>3. Handled'
  BY <1>1, HandledFrame, CommonGroups DEF Handled, JobsStay
<1> QED BY <1>1, <1>2, <1>3, QuietCommon

LEMMA CommonNext ==
  ASSUME TypeOK, Common, [Next]_vars
  PROVE  TypeOK' /\ Common'
<1>1. CASE WorkerStep
  BY <1>1, RunJobCommon, PickCommon, StartCommon, MissingCommon, AnsweredCommon, BeginsCommon,
     CutCommon, WaitCommon, CancelPendingCommon, FinalizeCommon, SettleCommon DEF WorkerStep
<1>2. ASSUME NEW h \in Handlers,
             HandlerStep(h) \/ CreateClusterUpdate(h) \/ CancelRemaining(h) \/ Retry(h)
      PROVE  TypeOK' /\ Common'
  BY <1>2, CreateCommon, InsertCommon, BindCommon, RememberCommon, CancelRequestCommon, FlagCommon,
     RetryCommon, ReplaceCommon, ClearCommon, RerunCommon DEF HandlerStep
<1>3. ASSUME NEW n \in Nodes, NodeStep(n) \/ Crash(n) \/ Gossip(n) \/ ApplyNode(n)
      PROVE  TypeOK' /\ Common'
  BY <1>3, InstallCommon, RestartCommon, ResumeCommon, CrashCommon, GossipCommon, ApplyNodeCommon
     DEF NodeStep
<1> QED BY <1>1, <1>2, <1>3, StutterCommon DEF Next

-----------------------------------------------------------------------------
(* What holds of a job none of whose retries overlapped: frames. *)

RowsSound(j) == SkippedLast(j) /\ SuccessBefore(j) /\ RunSound(j)
HandsSound(j) == \A h \in Handlers : BindSound(h, j) /\ (Retrying(h, j) => RetrySound(h, j))

LEMMA SoundParts ==
  ASSUME NEW j
  PROVE  Sound(j) <=> RowsSound(j) /\ HandsSound(j) /\ (Busy(j) => WorkerSound(j)) /\ Cared(j)
BY DEF Sound, RowsSound, HandsSound

LEMMA SoundPartsNext ==
  ASSUME NEW j
  PROVE  Sound(j)' <=> RowsSound(j)' /\ HandsSound(j)' /\ (Busy(j) => WorkerSound(j))' /\ Cared(j)'
BY DEF Sound, RowsSound, HandsSound

\* The job's rows, order and status stay; so does its cancel flag while it is running.
Kept(j) ==
  /\ jobs'[j].order = jobs[j].order /\ jobs'[j].row = jobs[j].row /\ jobs'[j].st = jobs[j].st
  /\ jobs[j].st = "RUNNING" /\ jobs[j].cancel => jobs'[j].cancel

LEMMA KeptPlaces ==
  ASSUME NEW j, Kept(j)
  PROVE  \A i : /\ At(j, i)' = At(j, i) /\ StAt(j, i)' = StAt(j, i)
                /\ Row(j, At(j, i))' = Row(j, At(j, i))
BY DEF Kept, At, StAt, Row

LEMMA PlacesSame == Places' = Places
BY DEF Places

LEMMA KeptRows ==
  ASSUME NEW j, Kept(j), RowsSound(j)
  PROVE  RowsSound(j)'
BY KeptPlaces, PlacesSame DEF RowsSound, SkippedLast, SuccessBefore, RunSound, Kept

\* The requests that bear on a job stay, or leave it.
HandsKept(j) ==
  \A k \in Handlers : hs'[k].job = j /\ hs'[k].pc \in {"bind", "replace", "clear", "rerun"} => hs'[k] = hs[k]

LEMMA KeptHands ==
  ASSUME NEW j, Kept(j), HandsKept(j), HandsSound(j)
  PROVE  HandsSound(j)'
<1> SUFFICES ASSUME NEW h \in Handlers
             PROVE  BindSound(h, j)' /\ (Retrying(h, j)' => RetrySound(h, j)')
  BY DEF HandsSound
<1>1. BindSound(h, j)'
  BY KeptPlaces, PlacesSame DEF HandsSound, HandsKept, BindSound
<1>2. \A k \in Handlers : Retrying(k, j)' => Retrying(k, j) /\ hs'[k] = hs[k]
  BY DEF Retrying, HandsKept
<1>3. ASSUME Retrying(h, j)'
      PROVE  RetrySound(h, j)'
  <2>1. RetrySound(h, j) /\ hs'[h] = hs[h]
    BY <1>2, <1>3 DEF HandsSound
  <2> QED BY <1>2, <2>1, KeptPlaces, PlacesSame DEF RetrySound, Kept
<1> QED BY <1>1, <1>3

LEMMA KeptWorker ==
  ASSUME NEW j, Kept(j), WorkerOn, worker' = worker, Busy(j) => WorkerSound(j)
  PROVE  (Busy(j) => WorkerSound(j))'
<1> SUFFICES ASSUME Busy(j) PROVE WorkerSound(j)'
  BY DEF Busy, Job
<1>1. jobs[j].st = "RUNNING" /\ j = Job
  BY DEF Busy, WorkerOn
<1>2. Ops(j)' = Ops(j)
  BY DEF Ops, Row, Kept
<1>3. Row(j, Target)' = Row(j, Target)
  BY <1>1 DEF Target, At, Row, Kept, Job
<1> QED BY <1>1, <1>2, <1>3, KeptPlaces, PlacesSame DEF WorkerSound, Kept

LEMMA KeptSound ==
  ASSUME NEW j, Sound(j), WorkerOn, Kept(j), HandsKept(j), worker' = worker \/ ~Busy(j)', Cared(j)'
  PROVE  Sound(j)'
BY SoundParts, SoundPartsNext, KeptRows, KeptHands, KeptWorker

\* A job that is not running needs nobody, the worker's has the worker.
LEMMA CaredNotRunning ==
  ASSUME NEW j, jobs'[j].st # "RUNNING" \/ worker'.job = j
  PROVE  Cared(j)'
BY DEF Cared

\* Who cared still does, or has queued the job.
LEMMA CaredFrame ==
  ASSUME NEW j, Cared(j), jobs'[j].st = jobs[j].st, AgentUp' => AgentUp,
         j \in ToSet(queue) => j \in ToSet(queue)', worker'.job = worker.job,
         \A k \in Handlers : hs[k].job = j /\ hs[k].pc \in {"bind", "enqueue"} =>
            hs'[k] = hs[k] \/ j \in ToSet(queue)' \/ jobs[j].st # "RUNNING"
  PROVE  Cared(j)'
BY DEF Cared

-----------------------------------------------------------------------------
(* The requests and a job none of whose retries overlapped. *)

\* A request that turns to no job, or leaves one.
LEMMA QuietSound ==
  ASSUME Common, NEW j \in Jobs, Sound(j), NEW h \in Handlers,
         Kept(j), UNCHANGED <<worker, node>>, \A k \in Handlers \ {h} : hs'[k] = hs[k],
         hs'[h].pc \notin {"bind", "replace", "clear", "rerun"} \/ hs'[h].job # j,
         j \in ToSet(queue) => j \in ToSet(queue)',
         hs[h].job = j /\ hs[h].pc \in {"bind", "enqueue"} =>
            j \in ToSet(queue)' \/ jobs[j].st # "RUNNING"
  PROVE  Sound(j)'
<1>1. HandsKept(j)
  BY DEF HandsKept
<1>2. AgentUp' = AgentUp /\ jobs'[j].st = jobs[j].st
  BY DEF AgentUp, Kept
<1>3. Cared(j)'
  BY <1>2, CaredFrame, SoundParts
<1> QED BY <1>1, <1>3, KeptSound, CommonGroups

LEMMA SameJobKept == ASSUME NEW j, jobs'[j] = jobs[j] PROVE Kept(j)
BY DEF Kept

LEMMA CreateSound ==
  ASSUME Common, NEW j \in Jobs, Sound(j), TypeOK, NEW h \in Handlers, CreateClusterUpdate(h)
  PROVE  Sound(j)'
<1>1. /\ UNCHANGED <<jobs, queue, worker, node>> /\ hs[h].pc = "idle"
  BY DEF CreateClusterUpdate
<1>2. hs'[h].pc \in {"remember", "insert"} /\ \A k \in Handlers \ {h} : hs'[k] = hs[k]
  BY CreateEffect
<1> QED BY <1>1, <1>2, QuietSound, SameJobKept

LEMMA AnswerSound ==
  ASSUME TypeOK, Common, NEW j \in Jobs, Sound(j), NEW h \in Handlers, Answer(h), Kept(j),
         UNCHANGED <<worker, node>>, ToSet(queue) \subseteq ToSet(queue)',
         hs[h].job = j /\ hs[h].pc \in {"bind", "enqueue"} =>
            j \in ToSet(queue)' \/ jobs[j].st # "RUNNING"
  PROVE  Sound(j)'
<1>1. hs'[h].pc = "idle" /\ \A k \in Handlers \ {h} : hs'[k] = hs[k]
  BY AnswerEffect, TypeGroups
<1> QED BY <1>1, QuietSound

LEMMA AppendedSet ==
  ASSUME NEW q \in Seq(Jobs), NEW j \in Jobs
  PROVE  ToSet(Append(q, j)) = ToSet(q) \cup {j}
<1> DEFINE r == Append(q, j)
<1>1. /\ Len(q) \in Nat /\ DOMAIN q = 1..Len(q) /\ DOMAIN r = 1..(Len(q) + 1)
      /\ \A i \in 1..Len(q) : r[i] = q[i]
      /\ r[Len(q) + 1] = j
  OBVIOUS
<1> HIDE DEF r
<1>2. \A x : (\E i \in DOMAIN r : x = r[i]) <=> (\E i \in DOMAIN q : x = q[i]) \/ x = j
  BY <1>1
<1>3. ToSet(r) = ToSet(q) \cup {j}
  BY <1>2 DEF ToSet
<1> QED BY <1>3 DEF r

LEMMA BindStepSound ==
  ASSUME TypeOK, Common, NEW j \in Jobs, Sound(j), NEW h \in Handlers, BindAndEnqueue(h)
  PROVE  Sound(j)'
<1>1. /\ hs[h].pc = "bind" /\ Answer(h) /\ UNCHANGED <<jobs, worker, node>>
      /\ queue' = IF hs[h].elig # {} THEN Append(queue, hs[h].job) ELSE queue
  BY DEF BindAndEnqueue
<1>2. hs[h].job \in Jobs /\ queue \in Seq(Jobs)
  BY <1>1, HandlersJob DEF TypeOK
<1>3. ToSet(queue)' = IF hs[h].elig # {} THEN ToSet(queue) \cup {hs[h].job} ELSE ToSet(queue)
  BY <1>1, <1>2, AppendedSet
<1>4. hs[h].job = j /\ hs[h].elig = {} => jobs[j].st # "RUNNING"
  BY <1>1, SoundParts DEF HandsSound, BindSound, RowsSound, RunSound
<1> QED BY <1>1, <1>3, <1>4, AnswerSound, SameJobKept

LEMMA RememberSound ==
  ASSUME TypeOK, Common, NEW j \in Jobs, Sound(j), NEW h \in Handlers,
         RememberPrincipal(h) \/ EnqueueRetry(h)
  PROVE  Sound(j)'
<1>1. /\ Answer(h) /\ UNCHANGED <<jobs, worker, node>>
      /\ \/ hs[h].pc = "remember" /\ queue' = queue
         \/ hs[h].pc = "enqueue" /\ queue' = Append(queue, hs[h].job)
  BY DEF RememberPrincipal, EnqueueRetry
<1>2. hs[h].job \in Jobs /\ queue \in Seq(Jobs)
  BY <1>1, HandlersJob DEF TypeOK
<1>3. \/ hs[h].pc = "remember" /\ ToSet(queue)' = ToSet(queue)
      \/ hs[h].pc = "enqueue" /\ ToSet(queue)' = ToSet(queue) \cup {hs[h].job}
  BY <1>1, <1>2, AppendedSet
<1> QED BY <1>1, <1>3, AnswerSound, SameJobKept

LEMMA CancelRequestSound ==
  ASSUME TypeOK, Common, NEW j \in Jobs, Sound(j), NEW h \in Handlers, CancelRemaining(h)
  PROVE  Sound(j)'
<1>1. /\ hs[h].pc = "idle" /\ UNCHANGED <<jobs, queue, worker, node>>
  BY DEF CancelRemaining
<1>2. PICK i \in Jobs : hs' = [hs EXCEPT ![h].pc = "flag", ![h].job = i]
  BY DEF CancelRemaining, Inserted
<1>3. hs'[h].pc = "flag" /\ \A k \in Handlers \ {h} : hs'[k] = hs[k]
  BY <1>2, TakesJob, TypeGroups DEF Pcs
<1> QED BY <1>1, <1>3, QuietSound, SameJobKept

LEMMA FlagSound ==
  ASSUME TypeOK, Common, NEW j \in Jobs, Sound(j), NEW h \in Handlers, SetUpdateJobCancelRemaining(h)
  PROVE  Sound(j)'
<1>0. PICK i \in Jobs : i = hs[h].job /\ jobs[i].st # "NONE"
  BY HandlersJob DEF SetUpdateJobCancelRemaining
<1>1. /\ jobs' = [jobs EXCEPT ![i].cancel = TRUE] /\ Answer(h) /\ hs[h].pc = "flag"
      /\ UNCHANGED <<queue, worker, node>>
  BY <1>0 DEF SetUpdateJobCancelRemaining
<1>2. /\ OnlyJob(i) /\ jobs'[i].st = jobs[i].st /\ jobs'[i].cancel = TRUE /\ jobs'[i].row = jobs[i].row
  BY <1>1, <1>0, FlagSetEffect, TypeGroups DEF JobsType
<1>3. Kept(j)
  BY <1>2 DEF Kept, OnlyJob
<1> QED BY <1>1, <1>3, AnswerSound

LEMMA ClearSound ==
  ASSUME TypeOK, Common, NEW j \in Jobs, Sound(j), NEW h \in Handlers, ClearCancel(h)
  PROVE  Sound(j)'
<1>0. PICK i \in Jobs : i = hs[h].job /\ jobs[i].st # "NONE"
  BY HandlersJob DEF ClearCancel
<1>1. /\ jobs' = [jobs EXCEPT ![i].cancel = FALSE] /\ Become(h, "rerun") /\ hs[h].pc = "clear"
      /\ UNCHANGED <<queue, worker, node>>
  BY <1>0 DEF ClearCancel
<1>2. /\ OnlyJob(i) /\ jobs'[i].st = jobs[i].st /\ jobs'[i].row = jobs[i].row
  BY <1>1, <1>0, FlagSetEffect, TypeGroups DEF JobsType
<1>3. /\ hs'[h].pc = "rerun" /\ hs'[h].job = i /\ hs'[h].todo = hs[h].todo
      /\ \A k \in Handlers \ {h} : hs'[k] = hs[k]
  BY <1>0, <1>1, BecomeEffect, TypeGroups DEF Pcs
<1>4. CASE j # i
  BY <1>0, <1>1, <1>2, <1>3, <1>4, QuietSound, SameJobKept DEF OnlyJob
<1>5. CASE j = i
  <2>1. RetrySound(h, j)
    BY <1>0, <1>1, <1>5, SoundParts DEF HandsSound, Retrying
  <2>2. jobs[j].st # "RUNNING" /\ Kept(j)
    BY <1>2, <1>5, <2>1 DEF RetrySound, Kept, OnlyJob
  <2>3. RowsSound(j)' /\ Cared(j)'
    BY <2>2, KeptRows, CaredNotRunning, SoundParts DEF Kept
  <2>4. ~Busy(j)'
    BY <1>1, <2>2, CommonGroups DEF Busy, WorkerOn, Job
  <2>5. HandsSound(j)'
    <3> SUFFICES ASSUME NEW k \in Handlers
                 PROVE  BindSound(k, j)' /\ (Retrying(k, j)' => RetrySound(k, j)')
      BY DEF HandsSound
    <3>1. BindSound(k, j)'
      BY <1>3, <2>2, KeptPlaces, PlacesSame, SoundParts DEF HandsSound, BindSound
    <3>2. \A g \in Handlers : Retrying(g, j)' => Retrying(g, j)
      BY <1>1, <1>3, <1>0, <1>5 DEF Retrying
    <3>3. ASSUME Retrying(k, j)'
          PROVE  RetrySound(k, j)'
      <4>1. k = h
        BY <2>1, <3>2, <3>3 DEF RetrySound
      <4> QED BY <1>1, <1>3, <2>1, <2>2, <3>2, <4>1, KeptPlaces, PlacesSame DEF RetrySound, Kept
    <3> QED BY <3>1, <3>3
  <2> QED BY <2>3, <2>4, <2>5, SoundPartsNext
<1> QED BY <1>4, <1>5

\* One row of a job is written: the one at place f gets status s.
OnePlace(j, f, s) ==
  /\ jobs'[j].st = jobs[j].st /\ jobs'[j].cancel = jobs[j].cancel /\ jobs'[j].order = jobs[j].order
  /\ StAt(j, f)' = s
  /\ \A i \in Places \ {f} : StAt(j, i)' = StAt(j, i) /\ Row(j, At(j, i))' = Row(j, At(j, i))

LEMMA WrittenPlace ==
  ASSUME Common, NEW j \in Jobs, jobs[j].st # "NONE", NEW f \in Places, NEW n \in Nodes, n = At(j, f), NEW s,
         OnlyJob(j), jobs'[j].st = jobs[j].st, jobs'[j].cancel = jobs[j].cancel,
         Row(j, n)'.st = s, \A m \in Nodes \ {n} : Row(j, m)' = Row(j, m)
  PROVE  OnePlace(j, f, s) /\ \A i : At(j, i)' = At(j, i)
<1>1. \A i : At(j, i)' = At(j, i)
  BY DEF OnlyJob, At
<1>2. StAt(j, f)' = s
  BY <1>1 DEF StAt
<1>3. ASSUME NEW i \in Places \ {f}
      PROVE  StAt(j, i)' = StAt(j, i) /\ Row(j, At(j, i))' = Row(j, At(j, i))
  <2>1. At(j, i) \in Nodes \ {n}
    BY InsertedOrder
  <2>2. Row(j, At(j, i))' = Row(j, At(j, i))
    BY <1>1, <2>1 DEF Row
  <2> QED BY <1>1, <2>2 DEF StAt
<1> QED BY <1>1, <1>2, <1>3 DEF OnePlace, OnlyJob

LEMMA WrittenSkippedLast ==
  ASSUME NEW j, NEW f \in Places, NEW s, OnePlace(j, f, s), SkippedLast(j),
         StAt(j, f) # "SKIPPED", s # "SKIPPED"
  PROVE  SkippedLast(j)'
<1>1. \A i : At(j, i)' = At(j, i)
  BY DEF OnePlace, At
<1> SUFFICES ASSUME jobs[j].st # "NONE", NEW i \in Places, NEW k \in Places, i < k,
                    StAt(j, i)' = "SKIPPED" \/ At(j, i) = Entry
             PROVE  StAt(j, k)' = "SKIPPED"
  BY <1>1, PlacesSame DEF SkippedLast, OnePlace
<1>2. StAt(j, i) = "SKIPPED" \/ At(j, i) = Entry
  BY DEF OnePlace
<1>3. StAt(j, k) = "SKIPPED"
  BY <1>2 DEF SkippedLast
<1> QED BY <1>3 DEF OnePlace

LEMMA RetryStepSound ==
  ASSUME TypeOK, Common, NEW j \in Jobs, Sound(j), NEW h \in Handlers, Retry(h), j \notin raced'
  PROVE  Sound(j)'
<1>1. PICK i \in Inserted :
        /\ hs' = [hs EXCEPT ![h].pc = "replace", ![h].job = i, ![h].todo = RetryRows(i)]
        /\ raced' = IF \E k \in Handlers : Retrying(k, i) THEN raced \cup {i} ELSE raced
        /\ jobs[i].st # "RUNNING" /\ RetryRows(i) # {}
  BY DEF Retry
<1>2. hs[h].pc = "idle" /\ UNCHANGED <<jobs, queue, worker, node>>
  BY DEF Retry
<1>3. /\ hs'[h].pc = "replace" /\ hs'[h].job = i /\ hs'[h].todo = RetryRows(i)
      /\ \A k \in Handlers \ {h} : hs'[k] = hs[k]
  <2>1. hs[h] \in HandlerType /\ hs \in [Handlers -> HandlerType]
    BY DEF TypeOK
  <2> QED BY <1>1, <2>1 DEF HandlerType
<1>4. CASE j # i
  BY <1>2, <1>3, <1>4, QuietSound, SameJobKept
<1>5. CASE j = i
  <2>1. \A k \in Handlers : ~Retrying(k, j)
    BY <1>1, <1>5
  <2>2. Kept(j)
    BY <1>2, SameJobKept
  <2>3. RowsSound(j)' /\ Cared(j)'
    BY <1>1, <1>2, <1>5, <2>2, KeptRows, CaredNotRunning, SoundParts
  <2>4. ~Busy(j)'
    BY <1>1, <1>2, <1>5, CommonGroups DEF Busy, WorkerOn, Job
  <2>5. \A k \in Handlers : Retrying(k, j)' => k = h
    BY <1>3, <2>1 DEF Retrying
  <2>6. \A k \in Handlers : BindSound(k, j)'
    BY <1>3, <2>2, KeptPlaces, PlacesSame, SoundParts DEF HandsSound, BindSound
  <2>7. RetrySound(h, j)'
    <3>1. \A x \in RetryRows(j) : /\ x[1] \in Places /\ retryableTarget(StAt(j, x[1]))
                                  /\ Row(j, At(j, x[1])).op = x[2]
      BY DEF RetryRows, StAt
    <3>2. \A p \in Places : StAt(j, p) = "CANCELLED" => \E x \in RetryRows(j) : x[1] = p
      <4> SUFFICES ASSUME NEW p \in Places, StAt(j, p) = "CANCELLED"
                   PROVE  \E x \in RetryRows(j) : x[1] = p
        OBVIOUS
      <4>1. <<p, Row(j, At(j, p)).op>> \in RetryRows(j)
        BY DEF RetryRows, StAt, retryableTarget
      <4> QED BY <4>1
    <3>3. \E p \in Places : StAt(j, p) # "SKIPPED"
      BY <1>1, <1>5, <3>1 DEF retryableTarget
    <3>4. hs'[h].todo = RetryRows(j) /\ hs'[h].pc = "replace" /\ jobs'[j].st # "RUNNING"
      BY <1>1, <1>2, <1>3, <1>5
    <3>5. \A p : /\ At(j, p)' = At(j, p) /\ StAt(j, p)' = StAt(j, p)
                 /\ Row(j, At(j, p))' = Row(j, At(j, p))
      BY <2>2, KeptPlaces
    <3> HIDE DEF RetryRows
    <3> QED BY <2>5, <3>1, <3>2, <3>3, <3>4, <3>5, PlacesSame DEF RetrySound
  <2>8. HandsSound(j)'
    BY <2>5, <2>6, <2>7 DEF HandsSound
  <2> QED BY <2>3, <2>4, <2>8, SoundPartsNext
<1> QED BY <1>4, <1>5

LEMMA ReplaceSound ==
  ASSUME TypeOK, Common, NEW j \in Jobs, Sound(j), NEW h \in Handlers, ReplaceUpdateJobTargetOp(h)
  PROVE  Sound(j)'
<1>0. PICK i \in Jobs : i = hs[h].job /\ jobs[i].st # "NONE"
  BY HandlersJob DEF ReplaceUpdateJobTargetOp
<1>1. PICK x \in hs[h].todo :
        IF StillThere(i, At(i, x[1]), x[2])
        THEN /\ RowNew(i, At(i, x[1]), x[2] + 1)
             /\ hs' = [hs EXCEPT ![h].todo = hs[h].todo \ {x},
                                 ![h].minted = @ \cup {<<i, At(i, x[1]), x[2] + 1>>},
                                 ![h].pc = IF hs[h].todo \ {x} = {} THEN "clear" ELSE "replace"]
        ELSE Answer(h) /\ UNCHANGED jobs
  BY <1>0 DEF ReplaceUpdateJobTargetOp, RowNew
<1>2. UNCHANGED <<queue, worker, node>> /\ hs[h].pc = "replace"
  BY DEF ReplaceUpdateJobTargetOp
<1>3. hs[h] \in HandlerType /\ x \in Places \X Nat /\ hs \in [Handlers -> HandlerType]
  BY DEF TypeOK, HandlerType
<1>4. PICK n \in Nodes, f \in Places, op \in Nat : n = At(i, f) /\ x = <<f, op>>
  <2>1. At(i, x[1]) \in Nodes
    BY <1>0, <1>3, InsertedOrder
  <2> QED BY <1>3, <2>1
<1>5. CASE jobs' = jobs /\ Answer(h)
  BY <1>2, <1>5, AnswerSound, SameJobKept
<1>6. CASE StillThere(i, n, op)
  <2>1. /\ RowNew(i, n, op + 1)
        /\ hs' = [hs EXCEPT ![h].todo = hs[h].todo \ {x}, ![h].minted = @ \cup {<<i, n, op + 1>>},
                            ![h].pc = IF hs[h].todo \ {x} = {} THEN "clear" ELSE "replace"]
    BY <1>1, <1>4, <1>6
  <2>2. /\ hs'[h].pc = (IF hs[h].todo \ {x} = {} THEN "clear" ELSE "replace") /\ hs'[h].job = i
        /\ hs'[h].todo = hs[h].todo \ {x}
        /\ \A k \in Handlers \ {h} : hs'[k] = hs[k]
    BY <1>0, <1>3, <2>1 DEF HandlerType
  <2>3. /\ OnlyJob(i) /\ jobs'[i].st = jobs[i].st /\ jobs'[i].cancel = jobs[i].cancel
        /\ Row(i, n)'.st = "PENDING"
        /\ \A m \in Nodes \ {n} : Row(i, m)' = Row(i, m)
    BY <2>1, RowNewEffect, TypeGroups DEF JobsType
  <2>4. CASE j # i
    BY <1>0, <1>2, <2>2, <2>3, <2>4, QuietSound, SameJobKept DEF OnlyJob
  <2>5. CASE j = i
    <3>1. RetrySound(h, j)
      BY <1>0, <1>2, <2>5, SoundParts DEF HandsSound, Retrying
    <3>2. OnePlace(j, f, "PENDING") /\ \A p : At(j, p)' = At(j, p)
      BY <1>0, <1>4, <2>3, <2>5, WrittenPlace
    <3>3. retryableTarget(StAt(j, f)) /\ StAt(j, f) # "SKIPPED"
      BY <1>4, <3>1 DEF RetrySound, retryableTarget
    <3>4. jobs[j].st # "RUNNING" /\ jobs'[j].st # "RUNNING"
      BY <2>3, <2>5, <3>1 DEF RetrySound
    <3>5. \A p \in Places : StAt(j, p) # "RUNNING"
      BY <1>0, <2>5, <3>4, InsertedOrder, CommonGroups DEF Tables, RunningRowRunningJob, HasRow, StAt
    <3>6. \A p \in Places : StAt(j, p)' # "RUNNING"
      BY <3>2, <3>5 DEF OnePlace
    <3>7. RowsSound(j)' /\ Cared(j)'
      <4>1. SkippedLast(j)'
        BY <3>2, <3>3, WrittenSkippedLast, SoundParts DEF RowsSound
      <4>2. SuccessBefore(j)' /\ RunSound(j)'
        BY <3>4, <3>6, PlacesSame DEF SuccessBefore, RunSound
      <4> QED BY <3>4, <4>1, <4>2, CaredNotRunning DEF RowsSound
    <3>8. ~Busy(j)'
      BY <1>2, <3>4, CommonGroups DEF Busy, WorkerOn, Job
    <3>9. \A k \in Handlers : Retrying(k, j)' => k = h
      BY <2>2, <3>1 DEF Retrying, RetrySound
    <3>10. \A k \in Handlers : BindSound(k, j)'
      <4>1. \A k \in Handlers : ~(hs[k].pc = "bind" /\ hs[k].job = j /\ hs[k].elig = {})
        BY <3>3, SoundParts DEF HandsSound, BindSound
      <4>2. \A k \in Handlers : hs'[k].pc = "bind" => hs'[k] = hs[k]
        BY <2>2
      <4> QED BY <4>1, <4>2 DEF BindSound
    <3>11. RetrySound(h, j)'
      <4>1. \A y \in hs[h].todo : y \in Places \X Nat /\ Row(j, At(j, y[1])).op = y[2]
        BY <1>3, <3>1 DEF RetrySound, HandlerType
      <4>2. \A y \in hs[h].todo \ {x} : y[1] \in Places /\ y[1] # f
        <5> TAKE y \in hs[h].todo \ {x}
        <5>1. y \in Places \X Nat /\ Row(j, At(j, y[1])).op = y[2] /\ Row(j, At(j, f)).op = op
          BY <1>4, <4>1
        <5>2. y[1] = f => y = x
          BY <1>4, <5>1
        <5> QED BY <5>1, <5>2
      <4>3. \A y \in hs[h].todo \ {x} :
               Row(j, At(j, y[1]))'.op = y[2] /\ retryableTarget(StAt(j, y[1])')
        <5> TAKE y \in hs[h].todo \ {x}
        <5>1. y[1] \in Places \ {f}
          BY <4>2
        <5>2. Row(j, At(j, y[1]))' = Row(j, At(j, y[1])) /\ StAt(j, y[1])' = StAt(j, y[1])
          BY <3>2, <5>1 DEF OnePlace
        <5> QED BY <3>1, <5>2 DEF RetrySound
      <4>4. \A p \in Places : StAt(j, p)' = "CANCELLED" => \E y \in hs[h].todo \ {x} : y[1] = p
        <5> SUFFICES ASSUME NEW p \in Places, StAt(j, p)' = "CANCELLED"
                     PROVE  \E y \in hs[h].todo \ {x} : y[1] = p
          OBVIOUS
        <5>1. p # f /\ StAt(j, p) = "CANCELLED"
          BY <3>2 DEF OnePlace
        <5>2. PICK y \in hs[h].todo : y[1] = p
          BY <3>1, <5>1 DEF RetrySound
        <5> QED BY <1>4, <5>1, <5>2
      <4>5. \E p \in Places : StAt(j, p)' # "SKIPPED"
        BY <3>2 DEF OnePlace
      <4>6. hs'[h].pc # "replace" => hs'[h].todo = {}
        BY <2>2
      <4> QED
        BY <2>2, <3>4, <3>9, <4>3, <4>4, <4>5, <4>6, PlacesSame DEF RetrySound, retryableTarget
    <3>12. HandsSound(j)'
      BY <3>9, <3>10, <3>11 DEF HandsSound
    <3> QED BY <3>7, <3>8, <3>12, SoundPartsNext
  <2> QED BY <2>4, <2>5
<1> QED BY <1>1, <1>4, <1>5, <1>6

LEMMA RerunSound ==
  ASSUME TypeOK, Common, NEW j \in Jobs, Sound(j), NEW h \in Handlers, RerunJob(h)
  PROVE  Sound(j)'
<1>0. PICK i \in Jobs : i = hs[h].job /\ jobs[i].st # "NONE"
  BY HandlersJob DEF RerunJob
<1>1. /\ \/ OneRunningIndex(i) /\ jobs' = [jobs EXCEPT ![i].st = "RUNNING"] /\ Become(h, "enqueue")
         \/ jobs' = jobs /\ Answer(h)
      /\ UNCHANGED <<queue, worker, node>> /\ hs[h].pc = "rerun"
  BY <1>0 DEF RerunJob
<1>2. CASE jobs' = jobs /\ Answer(h)
  BY <1>1, <1>2, AnswerSound, SameJobKept
<1>3. CASE jobs' = [jobs EXCEPT ![i].st = "RUNNING"] /\ Become(h, "enqueue")
  <2>1. /\ hs'[h].pc = "enqueue" /\ hs'[h].job = i /\ \A k \in Handlers \ {h} : hs'[k] = hs[k]
    BY <1>0, <1>3, BecomeEffect, TypeGroups DEF Pcs
  <2>2. /\ OnlyJob(i) /\ jobs'[i].st = "RUNNING" /\ jobs'[i].row = jobs[i].row
    BY <1>3, StatusSetEffect, TypeGroups DEF JobsType, JobSt
  <2>3. CASE j # i
    BY <1>0, <1>1, <2>1, <2>2, <2>3, QuietSound, SameJobKept DEF OnlyJob
  <2>4. CASE j = i
    <3>1. RetrySound(h, j)
      BY <1>0, <1>1, <2>4, SoundParts DEF HandsSound, Retrying
    <3>2. /\ jobs[j].st # "RUNNING" /\ hs[h].todo = {}
          /\ \E p \in Places : StAt(j, p) # "SKIPPED"
          /\ \A p \in Places : StAt(j, p) # "CANCELLED"
      BY <1>1, <3>1 DEF RetrySound
    <3>3. \A p : At(j, p)' = At(j, p) /\ StAt(j, p)' = StAt(j, p)
      BY <2>2, <2>4 DEF OnlyJob, At, StAt, Row
    <3>4. SkippedLast(j)' /\ SuccessBefore(j)'
      BY <1>0, <2>4, <3>3, PlacesSame, SoundParts DEF RowsSound, SkippedLast, SuccessBefore
    <3>5. RunSound(j)'
      BY <3>2, <3>3, PlacesSame DEF RunSound
    <3>6. Cared(j)'
      BY <2>1, <2>4 DEF Cared
    <3>7. ~Busy(j)'
      BY <1>1, <3>2, CommonGroups DEF Busy, WorkerOn, Job
    <3>8. \A k \in Handlers : ~Retrying(k, j)'
      BY <2>1, <3>1 DEF Retrying, RetrySound
    <3>9. \A k \in Handlers : BindSound(k, j)'
      BY <2>1, <3>3, PlacesSame, SoundParts DEF HandsSound, BindSound
    <3>10. HandsSound(j)'
      BY <3>8, <3>9 DEF HandsSound
    <3> QED BY <3>4, <3>5, <3>6, <3>7, <3>10, SoundPartsNext DEF RowsSound
  <2> QED BY <2>3, <2>4
<1> QED BY <1>1, <1>2, <1>3

\* Eligible nodes come first, and the entry last of them.
LEMMA OrderSkipsLast ==
  ASSUME NEW elig \in SUBSET Nodes, NEW leader, NEW o \in OrderTargets(elig, leader),
         NEW p \in Places, NEW q \in Places, p < q, o[p] \notin elig \/ o[p] = Entry
  PROVE  o[q] \notin elig
<1>1. Precedes(o[p], o[q], elig, leader)
  BY DEF OrderTargets
<1>2. o[p] # o[q] /\ o[p] \in Nodes /\ o[q] \in Nodes
  <2>1. o \in Orders
    BY DEF OrderTargets
  <2> QED BY <2>1, OrderPlaces, PlacesAreNats
<1> QED BY <1>1, <1>2 DEF Precedes, targetRank

LEMMA InsertDoneSound ==
  ASSUME TypeOK, Common, NEW j \in Jobs, Sound(j), NEW h \in Handlers, hs[h].pc = "insert",
         jobs[j].st = "NONE", jobs' = [jobs EXCEPT ![j] = NewJob(h)], UNCHANGED worker,
         hs'[h].pc = "bind", hs'[h].job = j, hs'[h].elig = hs[h].elig,
         \A k \in Handlers \ {h} : hs'[k] = hs[k]
  PROVE  Sound(j)'
<1> DEFINE elig == hs[h].elig
<1>1. elig \in SUBSET Nodes /\ \E leader : hs[h].order \in OrderTargets(elig, leader)
  BY CommonGroups DEF Handled, HandlerOK, TypeOK, HandlerType
<1>2. PICK o \in Orders : o = hs[h].order
  BY NewJobRecord
<1>3. /\ \A i \in Places : o[i] \in Nodes
      /\ \A n \in Nodes : \E i \in Places : o[i] = n
  BY <1>2, OrderPlaces
<1> HIDE DEF elig
<1>4. /\ jobs'[j] = NewJob(h) /\ jobs'[j].order = o
      /\ jobs'[j].st = IF elig # {} THEN "RUNNING" ELSE "COMPLETED"
      /\ \A n \in Nodes : Row(j, n)'.st = IF n \in elig THEN "PENDING" ELSE "SKIPPED"
  <2>1. jobs'[j] = NewJob(h)
    BY DEF TypeOK
  <2>2. /\ NewJob(h).order = o /\ NewJob(h).st = (IF elig # {} THEN "RUNNING" ELSE "COMPLETED")
        /\ \A n \in Nodes : NewJob(h).row[n].st = IF n \in elig THEN "PENDING" ELSE "SKIPPED"
    BY <1>2, NewJobRecord DEF elig
  <2>3. \A n \in Nodes : Row(j, n)' = NewJob(h).row[n]
    BY <2>1 DEF Row
  <2> HIDE DEF NewJob
  <2> QED BY <2>1, <2>2, <2>3
<1>5. \A i \in Places : At(j, i)' = o[i] /\ StAt(j, i)' = IF o[i] \in elig THEN "PENDING" ELSE "SKIPPED"
  <2>1. \A i \in Places : At(j, i)' = o[i]
    BY <1>4 DEF At
  <2> QED BY <1>3, <1>4, <2>1 DEF StAt
<1>6. SkippedLast(j)'
  <2> SUFFICES ASSUME NEW p \in Places, NEW q \in Places, p < q, StAt(j, p)' = "SKIPPED" \/ o[p] = Entry
               PROVE  StAt(j, q)' = "SKIPPED"
    BY <1>5, PlacesSame DEF SkippedLast
  <2>1. o[p] \notin elig \/ o[p] = Entry
    BY <1>5
  <2>2. o[q] \notin elig
    BY <1>1, <1>2, <2>1, OrderSkipsLast
  <2> QED BY <1>5, <2>2
<1>7. SuccessBefore(j)'
  BY <1>5, PlacesSame DEF SuccessBefore
<1>8. RunSound(j)'
  <2>1. elig # {} => \E p \in Places : o[p] \in elig
    BY <1>1, <1>3 DEF elig
  <2> QED BY <1>4, <1>5, <2>1, PlacesSame DEF RunSound
<1>9. Cared(j)'
  BY DEF Cared
<1>10. ~Busy(j)'
  BY CommonGroups DEF Busy, WorkerOn, Job
<1>11. \A k \in Handlers \ {h} : hs[k].pc \notin {"idle", "insert"} => hs[k].job # j
  BY HandlersJob
<1>12. HandsSound(j)'
  <2>1. \A k \in Handlers : ~Retrying(k, j)'
    BY <1>11 DEF Retrying
  <2>2. BindSound(h, j)'
    BY <1>5, PlacesSame DEF BindSound, elig
  <2>3. \A k \in Handlers \ {h} : BindSound(k, j)'
    BY <1>11 DEF BindSound
  <2> QED BY <2>1, <2>2, <2>3 DEF HandsSound
<1> QED BY <1>6, <1>7, <1>8, <1>9, <1>10, <1>12, SoundPartsNext DEF RowsSound

LEMMA InsertSound ==
  ASSUME TypeOK, Common, NEW j \in Jobs, Sound(j), NEW h \in Handlers, InsertUpdateJob(h)
  PROVE  Sound(j)'
<1>1. /\ UNCHANGED <<queue, worker, node>> /\ hs[h].pc = "insert"
      /\ hs[h] \in HandlerType /\ hs \in [Handlers -> HandlerType]
  BY DEF InsertUpdateJob, TypeOK
<1>2. CASE InsertRefused(h)
  <2>1. CASE Answer(h)
    BY <1>1, <1>2, <2>1, AnswerSound, SameJobKept DEF InsertRefused
  <2>2. CASE \E k \in Inserted : Remember(h, k)
    <3>1. PICK i \in Jobs : Remember(h, i)
      BY <2>2 DEF Inserted
    <3>2. hs'[h].pc = "remember" /\ \A k \in Handlers \ {h} : hs'[k] = hs[k]
      BY <3>1, RememberEffect
    <3> QED BY <1>1, <1>2, <3>2, QuietSound, SameJobKept DEF InsertRefused
  <2> QED BY <1>2, <2>1, <2>2 DEF InsertRefused
<1>3. ASSUME NEW i \in Jobs, jobs[i].st = "NONE", InsertDone(h, i)
      PROVE  Sound(j)'
  <2>1. /\ hs'[h].pc = "bind" /\ hs'[h].job = i /\ hs'[h].elig = hs[h].elig
        /\ \A k \in Handlers \ {h} : hs'[k] = hs[k]
    BY <1>1, <1>3 DEF InsertDone, HandlerType
  <2>2. jobs' = [jobs EXCEPT ![i] = NewJob(h)] /\ jobs \in [Jobs -> JobType]
    BY <1>3 DEF InsertDone, TypeOK
  <2>3. CASE j = i
    BY <1>1, <1>3, <2>1, <2>2, <2>3, InsertDoneSound
  <2>4. CASE j # i
    <3>1. jobs'[j] = jobs[j]
      BY <2>2, <2>4
    <3> QED BY <1>1, <2>1, <2>4, <3>1, QuietSound, SameJobKept
  <2> QED BY <2>3, <2>4
<1> QED BY <1>2, <1>3, InsertCases

-----------------------------------------------------------------------------
(* The worker and a job none of whose retries overlapped. *)

\* No retry is busy with the worker's job, and no other job is running.
LEMMA WorkersJob ==
  ASSUME Common, NEW j \in Jobs, Sound(j), worker.pc # "idle"
  PROVE  /\ j # Job => jobs[j].st # "RUNNING"
         /\ j = Job => /\ jobs[j].st = "RUNNING" /\ WorkerSound(j) /\ RowsSound(j)
                       /\ \A h \in Handlers : /\ ~Retrying(h, j)
                                              /\ ~(hs[h].pc = "bind" /\ hs[h].job = j /\ hs[h].elig = {})
<1>1. Job \in Jobs /\ jobs[Job].st = "RUNNING"
  BY CommonGroups DEF WorkerOn
<1>2. j # Job => jobs[j].st # "RUNNING"
  BY <1>1, CommonGroups DEF Tables, OneRunning
<1>3. ASSUME j = Job
      PROVE  /\ jobs[j].st = "RUNNING" /\ WorkerSound(j) /\ RowsSound(j)
             /\ \A h \in Handlers : /\ ~Retrying(h, j)
                                    /\ ~(hs[h].pc = "bind" /\ hs[h].job = j /\ hs[h].elig = {})
  <2>1. jobs[j].st = "RUNNING" /\ WorkerSound(j) /\ RowsSound(j) /\ HandsSound(j)
    BY <1>1, <1>3, SoundParts DEF Busy
  <2>2. \A h \in Handlers : ~Retrying(h, j)
    BY <2>1 DEF HandsSound, RetrySound
  <2>3. \A h \in Handlers : ~(hs[h].pc = "bind" /\ hs[h].job = j /\ hs[h].elig = {})
    BY <2>1 DEF HandsSound, BindSound, RowsSound, RunSound
  <2> QED BY <2>1, <2>2, <2>3
<1> QED BY <1>2, <1>3

LEMMA OtherSound ==
  ASSUME Common, NEW j \in Jobs, Sound(j), worker.pc # "idle", j # Job,
         jobs'[j] = jobs[j], hs' = hs, worker'.job = worker.job \/ worker'.pc = "idle"
  PROVE  Sound(j)'
<1>1. Kept(j) /\ HandsKept(j)
  BY SameJobKept DEF HandsKept
<1>2. ~Busy(j)'
  BY DEF Busy, Job
<1>3. Cared(j)'
  BY WorkersJob, CaredNotRunning
<1> QED BY <1>1, <1>2, <1>3, KeptSound, CommonGroups

LEMMA OwnSound ==
  ASSUME Common, NEW j \in Jobs, Sound(j), worker.pc # "idle", j = Job,
         hs' = hs, worker'.job = worker.job, RowsSound(j)', WorkerSound(j)'
  PROVE  Sound(j)'
<1>1. HandsSound(j)'
  BY WorkersJob DEF HandsSound, Retrying, BindSound
<1>2. Cared(j)'
  BY CaredNotRunning DEF Job
<1> QED BY <1>1, <1>2, SoundPartsNext

\* The worker goes on and the tables stay.
LEMMA MoveSound ==
  ASSUME Common, NEW j \in Jobs, Sound(j), worker.pc # "idle",
         UNCHANGED <<jobs, hs>>, worker'.job = worker.job, j = Job => WorkerSound(j)'
  PROVE  Sound(j)'
<1>1. CASE j # Job
  BY <1>1, OtherSound
<1>2. CASE j = Job
  <2>1. RowsSound(j)'
    BY KeptRows, SameJobKept, SoundParts
  <2> QED BY <1>2, <2>1, OwnSound
<1> QED BY <1>1, <1>2

\* The worker finds its target's row as it read it.
LEMMA OwnRow ==
  ASSUME TypeOK, Common, NEW j \in Jobs, Sound(j), worker.pc # "idle", worker.left # {}, j = Job
  PROVE  /\ OwnTarget
         /\ First(worker.left) \in worker.left /\ worker.left \subseteq Places
         /\ \A k \in worker.left : First(worker.left) <= k
         /\ Target = At(j, First(worker.left)) /\ Row(j, Target).st = StAt(j, First(worker.left))
         /\ StAt(j, First(worker.left)) \in TargetSt
<1>1. /\ First(worker.left) \in worker.left /\ worker.left \subseteq Places
      /\ \A k \in worker.left : First(worker.left) <= k /\ Target \in Nodes
  BY TargetIsPlace
<1>2. worker.ops = Ops(j)
  BY WorkersJob DEF WorkerSound
<1>3. OwnTarget
  BY <1>1, <1>2 DEF OwnTarget, StillThere, TargetOp, Ops
<1>4. Target = At(j, First(worker.left)) /\ Row(j, Target).st = StAt(j, First(worker.left))
  BY DEF Target, StAt
<1>5. Row(j, Target).st \in TargetSt
  BY <1>1 DEF TypeOK, JobType, TargetType, Row
<1> QED BY <1>1, <1>3, <1>4, <1>5

LEMMA OwnWrite ==
  ASSUME TypeOK, Common, NEW j \in Jobs, Sound(j), worker.pc # "idle", worker.left # {}, j = Job,
         NEW s \in TargetSt, WriteTarget(s)
  PROVE  /\ OnePlace(j, First(worker.left), s) /\ \A i : At(j, i)' = At(j, i)
         /\ Ops(j)' = Ops(j) /\ jobs'[j].st = jobs[j].st
<1>1. PICK f \in Places, n \in Nodes : f = First(worker.left) /\ n = Target /\ n = At(j, f)
  BY OwnRow, TargetIsPlace
<1>2. RowSet(j, n, s)
  BY <1>1, OwnRow, WriteCases
<1>3. /\ OnlyJob(j) /\ jobs'[j].st = jobs[j].st /\ jobs'[j].cancel = jobs[j].cancel
      /\ Row(j, n)'.st = s /\ Row(j, n)'.op = Row(j, n).op
      /\ \A m \in Nodes \ {n} : Row(j, m)' = Row(j, m)
  BY <1>2, RowSetEffect, TypeGroups DEF JobsType
<1>4. jobs[j].st # "NONE"
  BY WorkersJob
<1>5. OnePlace(j, f, s) /\ \A i : At(j, i)' = At(j, i)
  BY <1>1, <1>3, <1>4, WrittenPlace
<1>6. Ops(j)' = Ops(j)
  BY <1>3 DEF Ops
<1> QED BY <1>1, <1>3, <1>5, <1>6

\* Another job's row is not written.
LEMMA OthersWrite ==
  ASSUME TypeOK, Common, NEW j \in Jobs, worker.pc # "idle", worker.left # {}, j # Job,
         NEW s \in TargetSt, WriteTarget(s)
  PROVE  jobs'[j] = jobs[j]
<1>1. PICK i \in Jobs, n \in Nodes : i = Job /\ n = Target
  BY TargetIsPlace
<1>2. RowSet(i, n, s) \/ jobs' = jobs
  BY <1>1, WriteCases
<1> QED BY <1>1, <1>2, RowSetEffect, TypeGroups DEF JobsType, OnlyJob

\* The head of the queue is taken, the rest stays.
LEMMA TakenSet ==
  ASSUME NEW q \in Seq(Jobs), q # <<>>
  PROVE  \A x \in ToSet(q) : x = Head(q) \/ x \in ToSet(Tail(q))
<1> SUFFICES ASSUME NEW i \in DOMAIN q, q[i] # Head(q)
             PROVE  q[i] \in ToSet(Tail(q))
  BY DEF ToSet
<1>1. i \in 2..Len(q) /\ i - 1 \in DOMAIN Tail(q) /\ Tail(q)[i - 1] = q[i]
  OBVIOUS
<1> QED BY <1>1 DEF ToSet

LEMMA RunJobSound ==
  ASSUME TypeOK, Common, NEW j \in Jobs, Sound(j), RunJob
  PROVE  Sound(j)'
<1>1. /\ worker.pc = "idle" /\ queue # <<>> /\ queue' = Tail(queue) /\ UNCHANGED <<jobs, hs, node>>
      /\ queue \in Seq(Jobs)
  BY DEF RunJob, TypeOK
<1>2. PICK i \in Jobs : i = Head(queue)
  BY <1>1
<1>3. Kept(j) /\ HandsKept(j) /\ AgentUp' = AgentUp
  BY <1>1, SameJobKept DEF HandsKept, AgentUp
<1>4. j \in ToSet(queue) => j = i \/ j \in ToSet(queue')
  BY <1>1, <1>2, TakenSet
<1>5. CASE ~HasRunningUpdateJob(i)
  <2>1. worker' = worker /\ jobs[i].st # "RUNNING"
    BY <1>2, <1>5 DEF RunJob, HasRunningUpdateJob
  <2>2. Cared(j)'
    <3>1. CASE j = i
      BY <1>1, <2>1, <3>1, CaredNotRunning
    <3>2. CASE j # i
      BY <1>1, <1>3, <1>4, <2>1, <3>2, CaredFrame, SoundParts
    <3> QED BY <3>1, <3>2
  <2> QED BY <1>3, <2>1, <2>2, KeptSound, CommonGroups
<1>6. CASE HasRunningUpdateJob(i)
  <2>1. jobs[i].st = "RUNNING"
    BY <1>6, CommonGroups DEF HasRunningUpdateJob, Tables, RunningRowRunningJob
  <2>2. worker' = [WIdle EXCEPT !.pc = "pick", !.job = i, !.left = Places, !.ops = Ops(i)]
    BY <1>2, <1>6 DEF RunJob
  <2>3. worker'.pc = "pick" /\ worker'.job = i /\ worker'.left = Places /\ worker'.ops = Ops(i)
    BY <2>2 DEF WIdle
  <2>4. CASE j # i
    <3>1. jobs[j].st # "RUNNING"
      BY <2>1, <2>4, CommonGroups DEF Tables, OneRunning
    <3>2. Cared(j)' /\ ~Busy(j)'
      BY <1>1, <2>3, <2>4, <3>1, CaredNotRunning DEF Busy, Job
    <3> QED BY <1>3, <3>2, KeptSound, CommonGroups
  <2>5. CASE j = i
    <3>1. WorkerSound(j)'
      BY <1>1, <2>3, <2>5, PlacesSame DEF WorkerSound, Ops, Row
    <3>2. Cared(j)'
      BY <2>3, <2>5, CaredNotRunning
    <3>3. RowsSound(j)' /\ HandsSound(j)'
      BY <1>3, KeptRows, KeptHands, SoundParts
    <3> QED BY <3>1, <3>2, <3>3, SoundPartsNext
  <2> QED BY <2>4, <2>5
<1> QED BY <1>5, <1>6

\* No row of the worker's job is in flight while the worker is at a pending target.
LEMMA NoneInFlight ==
  ASSUME TypeOK, Common, NEW j \in Jobs, Sound(j), j = Job, worker.pc \in {"pick", "start"},
         worker.left # {}, StAt(j, First(worker.left)) = "PENDING"
  PROVE  \A i \in Places : StAt(j, i) # "RUNNING"
<1>1. PICK f \in Places : f = First(worker.left) /\ \A k \in worker.left : f <= k
  BY OwnRow
<1>2. /\ \A i \in Places \ worker.left : StAt(j, i) # "RUNNING"
      /\ SuccessBefore(j) /\ jobs[j].st = "RUNNING"
  BY WorkersJob DEF WorkerSound, RowsSound
<1>3. \A i \in worker.left : StAt(j, i) # "RUNNING"
  <2> SUFFICES ASSUME NEW i \in worker.left, StAt(j, i) = "RUNNING" PROVE FALSE
    OBVIOUS
  <2>3. i \in Places /\ f <= i /\ i # f
    BY <1>1, OwnRow
  <2>1. f < i /\ i \in Places
    BY <2>3, PlacesAreNats
  <2>2. StAt(j, f) = "SUCCESS"
    BY <1>2, <2>1 DEF SuccessBefore
  <2> QED BY <1>1, <2>2
<1> QED BY <1>2, <1>3

\* What WorkerSound says, place by place, of a worker whose job keeps its rows.
LEMMA SameTarget ==
  ASSUME UNCHANGED jobs, worker'.job = worker.job, worker'.left = worker.left
  PROVE  Target' = Target /\ \A i : StAt(Job, i)' = StAt(Job, i)
BY DEF Target, Job, StAt, At, Row

LEMMA PickSound ==
  ASSUME TypeOK, Common, NEW j \in Jobs, Sound(j), PickTarget
  PROVE  Sound(j)'
<1>1. worker.pc = "pick" /\ worker \in WorkerType /\ UNCHANGED <<jobs, hs>>
  BY DEF PickTarget, TypeOK
<1> SUFFICES worker'.job = worker.job /\ (j = Job => WorkerSound(j)')
  BY <1>1, MoveSound
<1>2. worker'.job = worker.job
  BY <1>1, GotoEffect, NextTargetEffect DEF PickTarget, PassOver, InFlightStill, WPcs, WorkerType
<1>3. ASSUME j = Job
      PROVE  WorkerSound(j)'
  <2>1. /\ worker.ops = Ops(j) /\ Ops(j)' = Ops(j)
        /\ \A i \in Places \ worker.left : StAt(j, i) \notin {"PENDING", "RUNNING"}
        /\ \A i : StAt(j, i)' = StAt(j, i)
    BY <1>1, <1>3, WorkersJob DEF WorkerSound, Ops, Row, StAt, At
  <2>2. CASE worker.left = {} /\ Goto("finalize")
    <3>1. worker'.pc = "finalize" /\ worker'.ops = worker.ops
      BY <1>1, <2>2, GotoEffect DEF WPcs
    <3> QED BY <2>1, <2>2, <3>1, PlacesSame DEF WorkerSound
  <2>3. CASE PassOver
    <3>1. worker'.pc = "pick" /\ worker'.ops = worker.ops /\ worker'.left = Rest /\ worker.left # {}
      BY <1>1, <2>3, NextTargetEffect DEF PassOver
    <3>2. StAt(j, First(worker.left)) \notin {"RUNNING", "PENDING"}
      BY <1>1, <1>3, <2>3, <3>1, OwnRow DEF PassOver
    <3>3. \A i \in Places \ Rest : StAt(j, i) \notin {"PENDING", "RUNNING"}
      BY <2>1, <3>2 DEF Rest
    <3> QED BY <2>1, <3>1, <3>3, PlacesSame DEF WorkerSound
  <2>4. CASE InFlightStill
    <3>1. /\ worker'.pc = "wait" /\ worker'.ops = worker.ops /\ worker'.left = worker.left
          /\ worker.left # {} /\ Row(j, Target).st = "RUNNING"
      BY <1>1, <1>3, <2>4, GotoEffect DEF InFlightStill, WPcs
    <3>2. Row(j, Target)'.st = "RUNNING"
      BY <1>1, <1>2, <1>3, <3>1, SameTarget DEF Row
    <3> QED BY <2>1, <3>1, <3>2, PlacesSame DEF WorkerSound
  <2>5. ASSUME NextPending
        PROVE  /\ worker.left # {} /\ Row(j, Target).st = "PENDING"
               /\ \A i \in Places : StAt(j, i) # "RUNNING"
    <3>1. worker.left # {} /\ Row(j, Target).st = "PENDING"
      BY <1>3, <2>5 DEF NextPending
    <3>2. StAt(j, First(worker.left)) = "PENDING"
      BY <1>1, <1>3, <3>1, OwnRow
    <3> QED BY <1>1, <1>3, <3>1, <3>2, NoneInFlight
  <2>6. CASE NextPending /\ Goto("finalize")
    <3>1. worker'.pc = "finalize" /\ worker'.ops = worker.ops
      BY <1>1, <2>6, GotoEffect DEF WPcs
    <3> QED BY <2>1, <2>5, <2>6, <3>1, PlacesSame DEF WorkerSound
  <2>7. CASE NextPending /\ Goto("start") /\ ~jobs[Job].cancel /\ ~haltRemaining(Job)
    <3>1. worker'.pc = "start" /\ worker'.ops = worker.ops /\ worker'.left = worker.left
      BY <1>1, <2>7, GotoEffect DEF WPcs
    <3>2. Row(j, Target)'.st = "PENDING"
      BY <1>1, <1>2, <1>3, <2>5, <2>7, <3>1, SameTarget DEF Row
    <3>3. \A i \in Places : StAt(j, i) \notin {"FAILED", "CANCELLED"}
      <4>1. \A i \in Places : At(j, i) \in Nodes /\ RunSound(j) /\ jobs[j].st = "RUNNING"
        BY <1>1, <1>3, WorkersJob, InsertedOrder DEF RowsSound
      <4>2. \A i \in Places : StAt(j, i) # "FAILED"
        BY <1>3, <2>7, <4>1 DEF haltRemaining, HasRow, StAt
      <4> QED BY <1>3, <2>7, <4>1, <4>2 DEF RunSound
    <3> QED BY <2>1, <3>1, <3>2, <3>3, PlacesSame DEF WorkerSound
  <2>8. CASE /\ NextPending /\ jobs[Job].cancel
             /\ worker' = [worker EXCEPT !.pc = "cancel", !.ops = Ops(Job),
                               !.left = {i \in Places : Row(Job, At(Job, i)).st = "PENDING"}]
    <3>1. /\ worker'.pc = "cancel" /\ worker'.ops = Ops(j)
          /\ \A i \in worker'.left : i \in Places /\ StAt(j, i) = "PENDING"
      BY <1>1, <1>3, <2>8 DEF WorkerType, StAt
    <3>2. jobs'[j].cancel
      BY <1>1, <1>3, <2>8
    <3> QED BY <2>1, <2>5, <2>8, <3>1, <3>2, PlacesSame DEF WorkerSound
  <2> QED
    BY <2>2, <2>3, <2>4, <2>6, <2>7, <2>8 DEF PickTarget
<1> QED BY <1>2, <1>3

LEMMA StartSound ==
  ASSUME TypeOK, Common, NEW j \in Jobs, Sound(j), StartTarget
  PROVE  Sound(j)'
<1>1. /\ worker.pc = "start" /\ worker \in WorkerType /\ worker.left # {} /\ hs' = hs
      /\ WriteTarget("RUNNING") /\ "RUNNING" \in TargetSt
  BY CommonGroups DEF StartTarget, WorkerOn, TypeOK, TargetSt
<1>2. worker'.job = worker.job
  BY <1>1, GotoEffect, NextTargetEffect DEF StartTarget, WPcs
<1>3. CASE j # Job
  BY <1>1, <1>2, <1>3, OtherSound, OthersWrite
<1>4. CASE j = Job
  <2>1. PICK f \in Places : f = First(worker.left) /\ f \in worker.left /\ \A k \in worker.left : f <= k
    BY <1>1, <1>4, OwnRow
  <2>2. /\ OwnTarget /\ Target = At(j, f) /\ StAt(j, f) = "PENDING"
        /\ \A i \in Places : StAt(j, i) \notin {"FAILED", "CANCELLED"}
        /\ \A i \in Places \ worker.left : StAt(j, i) \notin {"PENDING", "RUNNING"}
        /\ worker.ops = Ops(j) /\ RowsSound(j) /\ jobs[j].st = "RUNNING"
    BY <1>1, <1>4, <2>1, OwnRow, WorkersJob DEF WorkerSound
  <2>3. worker'.pc = "apply" /\ worker'.left = worker.left /\ worker'.ops = worker.ops
    BY <1>1, <2>2, GotoEffect DEF StartTarget, WPcs
  <2>4. /\ OnePlace(j, f, "RUNNING") /\ \A i : At(j, i)' = At(j, i)
        /\ Ops(j)' = Ops(j) /\ jobs'[j].st = jobs[j].st
    BY <1>1, <1>4, <2>1, OwnWrite
  <2>5. \A i \in Places : StAt(j, i) # "RUNNING"
    BY <1>1, <1>4, <2>1, <2>2, NoneInFlight
  <2>6. \A i \in Places : i < f => StAt(j, i) = "SUCCESS"
    <3> SUFFICES ASSUME NEW i \in Places, i < f PROVE StAt(j, i) = "SUCCESS"
      OBVIOUS
    <3>1. i \notin worker.left
      BY <2>1, PlacesAreNats
    <3>2. StAt(j, i) # "SKIPPED"
      BY <2>2 DEF RowsSound, SkippedLast
    <3>3. StAt(j, i) \in TargetSt
      <4>1. At(j, i) \in Nodes
        BY <2>2, InsertedOrder
      <4> QED BY <4>1 DEF TypeOK, JobType, TargetType, StAt, Row
    <3> QED BY <2>2, <3>1, <3>2, <3>3 DEF TargetSt
  <2>7. RowsSound(j)'
    <3>1. SkippedLast(j)'
      BY <2>2, <2>4, WrittenSkippedLast DEF RowsSound
    <3>2. SuccessBefore(j)'
      <4> SUFFICES ASSUME NEW i \in Places, NEW k \in Places, i < k, StAt(j, k)' = "RUNNING"
                   PROVE  StAt(j, i)' = "SUCCESS"
        BY PlacesSame DEF SuccessBefore
      <4>1. k = f
        BY <2>4, <2>5 DEF OnePlace
      <4>2. i # f /\ StAt(j, i) = "SUCCESS"
        BY <2>6, <4>1, PlacesAreNats
      <4> QED BY <2>4, <4>2 DEF OnePlace
    <3>3. RunSound(j)'
      BY <2>2, <2>4, PlacesSame DEF RowsSound, RunSound, OnePlace
    <3> QED BY <3>1, <3>2, <3>3 DEF RowsSound
  <2>8. WorkerSound(j)'
    <3>1. Row(j, Target)'.st = "RUNNING"
      <4>1. Target' = At(j, f)'
        BY <1>2, <1>4, <2>1, <2>3 DEF Target, Job
      <4> QED BY <2>4, <4>1 DEF OnePlace, StAt
    <3>2. \A i \in Places \ worker.left : StAt(j, i)' \notin {"PENDING", "RUNNING"}
      BY <2>1, <2>2, <2>4 DEF OnePlace
    <3> QED BY <2>2, <2>3, <2>4, <3>1, <3>2, PlacesSame DEF WorkerSound
  <2> QED BY <1>1, <1>2, <1>4, <2>7, <2>8, OwnSound
<1> QED BY <1>3, <1>4

\* The worker's target ends, from its call or from its wait.
LEMMA TargetEndsSound ==
  ASSUME TypeOK, Common, NEW j \in Jobs, Sound(j), worker.pc \in {"apply", "wait"},
         NEW s \in {"SUCCESS", "FAILED"}, WriteTarget(s), NextTarget, UNCHANGED hs
  PROVE  Sound(j)'
<1>1. /\ worker \in WorkerType /\ worker.left # {} /\ s \in TargetSt
  BY CommonGroups DEF WorkerOn, TypeOK, TargetSt
<1>2. worker'.job = worker.job /\ worker'.pc = "pick" /\ worker'.left = Rest /\ worker'.ops = worker.ops
  BY <1>1, NextTargetEffect
<1>3. CASE j # Job
  BY <1>1, <1>2, <1>3, OtherSound, OthersWrite
<1>4. CASE j = Job
  <2>1. PICK f \in Places : f = First(worker.left) /\ f \in worker.left /\ \A k \in worker.left : f <= k
    BY <1>1, <1>4, OwnRow
  <2>2. /\ OwnTarget /\ StAt(j, f) = "RUNNING"
        /\ \A i \in Places \ worker.left : StAt(j, i) \notin {"PENDING", "RUNNING"}
        /\ worker.ops = Ops(j) /\ RowsSound(j) /\ jobs[j].st = "RUNNING"
    BY <1>1, <1>4, <2>1, OwnRow, WorkersJob DEF WorkerSound
  <2>3. /\ OnePlace(j, f, s) /\ \A i : At(j, i)' = At(j, i)
        /\ Ops(j)' = Ops(j) /\ jobs'[j].st = jobs[j].st
    BY <1>1, <1>4, <2>1, OwnWrite
  <2>4. \A i \in Places : StAt(j, i)' # "RUNNING"
    <3> SUFFICES ASSUME NEW i \in Places, i # f, StAt(j, i) = "RUNNING" PROVE FALSE
      BY <2>3 DEF OnePlace
    <3>1. i \in worker.left
      BY <2>2
    <3>2. f < i
      BY <2>1, <3>1, PlacesAreNats
    <3> QED BY <2>2, <3>2 DEF RowsSound, SuccessBefore
  <2>5. RowsSound(j)'
    <3>1. SkippedLast(j)'
      BY <2>2, <2>3, WrittenSkippedLast DEF RowsSound
    <3>2. SuccessBefore(j)' /\ RunSound(j)'
      BY <2>2, <2>3, <2>4, PlacesSame DEF SuccessBefore, RowsSound, RunSound, OnePlace
    <3> QED BY <3>1, <3>2 DEF RowsSound
  <2>6. WorkerSound(j)'
    <3>1. \A i \in Places \ Rest : StAt(j, i)' \notin {"PENDING", "RUNNING"}
      BY <2>1, <2>2, <2>3 DEF Rest, OnePlace
    <3> QED BY <1>2, <2>2, <2>3, <3>1, PlacesSame DEF WorkerSound
  <2> QED BY <1>1, <1>2, <1>4, <2>5, <2>6, OwnSound
<1> QED BY <1>3, <1>4

\* The worker gives up its call, or has lost it, and waits.
LEMMA ToWaitSound ==
  ASSUME TypeOK, Common, NEW j \in Jobs, Sound(j), worker.pc = "apply", Goto("wait"), UNCHANGED <<jobs, hs>>
  PROVE  Sound(j)'
<1>1. /\ worker'.pc = "wait" /\ worker'.job = worker.job /\ worker'.left = worker.left
      /\ worker'.ops = worker.ops
  BY GotoEffect DEF WPcs, TypeOK
<1>2. ASSUME j = Job
      PROVE  WorkerSound(j)'
  <2>1. /\ worker.ops = Ops(j) /\ Ops(j)' = Ops(j)
        /\ \A i \in Places \ worker.left : StAt(j, i) \notin {"PENDING", "RUNNING"}
        /\ \A i : StAt(j, i)' = StAt(j, i)
        /\ Row(j, Target).st = "RUNNING"
    BY <1>2, WorkersJob DEF WorkerSound, Ops, Row, StAt, At
  <2>2. Row(j, Target)'.st = "RUNNING"
    BY <1>1, <2>1, SameTarget DEF Row
  <2> QED BY <1>1, <2>1, <2>2, PlacesSame DEF WorkerSound
<1> QED BY <1>1, <1>2, MoveSound

LEMMA EndCallSound ==
  ASSUME TypeOK, Common, NEW j \in Jobs, Sound(j), worker.pc = "apply",
         NEW failed \in BOOLEAN, EndCall(failed), UNCHANGED hs
  PROVE  Sound(j)'
<1>1. CASE WriteTarget("FAILED") /\ NextTarget
  BY <1>1, TargetEndsSound
<1>2. CASE jobs' = jobs /\ Goto("wait")
  BY <1>2, ToWaitSound
<1> QED BY <1>1, <1>2 DEF EndCall

LEMMA WaitSound ==
  ASSUME TypeOK, Common, NEW j \in Jobs, Sound(j), WaitReady
  PROVE  Sound(j)'
<1>1. worker.pc = "wait" /\ NextTarget /\ UNCHANGED hs
  BY DEF WaitReady
<1>2. WriteTarget("SUCCESS") \/ WriteTarget("FAILED")
  BY DEF WaitReady
<1> QED BY <1>1, <1>2, TargetEndsSound

LEMMA CancelPendingSound ==
  ASSUME TypeOK, Common, NEW j \in Jobs, Sound(j), CancelPending
  PROVE  Sound(j)'
<1>1. worker.pc = "cancel" /\ worker \in WorkerType /\ UNCHANGED hs /\ "CANCELLED" \in TargetSt
  BY DEF CancelPending, TypeOK, TargetSt
<1>2. CASE Goto("finalize") /\ jobs' = jobs
  <2>1. worker'.pc = "finalize" /\ worker'.job = worker.job /\ worker'.ops = worker.ops
    BY <1>1, <1>2, GotoEffect DEF WPcs
  <2>2. ASSUME j = Job
        PROVE  WorkerSound(j)'
    <3>1. /\ worker.ops = Ops(j) /\ Ops(j)' = Ops(j) /\ \A i \in Places : StAt(j, i) # "RUNNING"
          /\ \A i : StAt(j, i)' = StAt(j, i)
      BY <1>1, <1>2, <2>2, WorkersJob DEF WorkerSound, Ops, Row, StAt, At
    <3> QED BY <2>1, <3>1, PlacesSame DEF WorkerSound
  <2> QED BY <1>1, <1>2, <2>1, <2>2, MoveSound
<1>3. CASE worker.left # {} /\ WriteTarget("CANCELLED") /\ worker' = [worker EXCEPT !.left = Rest]
  <2>1. worker'.pc = "cancel" /\ worker'.job = worker.job /\ worker'.left = Rest /\ worker'.ops = worker.ops
    BY <1>1, <1>3 DEF WorkerType
  <2>2. CASE j # Job
    BY <1>1, <1>3, <2>1, <2>2, OtherSound, OthersWrite
  <2>3. CASE j = Job
    <3>1. PICK f \in Places : f = First(worker.left) /\ f \in worker.left
      BY <1>1, <1>3, <2>3, OwnRow
    <3>2. /\ jobs[j].cancel /\ \A i \in worker.left : StAt(j, i) = "PENDING"
          /\ \A i \in Places : StAt(j, i) # "RUNNING"
          /\ worker.ops = Ops(j) /\ RowsSound(j) /\ jobs[j].st = "RUNNING"
      BY <1>1, <2>3, WorkersJob DEF WorkerSound
    <3>3. /\ OnePlace(j, f, "CANCELLED") /\ \A i : At(j, i)' = At(j, i)
          /\ Ops(j)' = Ops(j) /\ jobs'[j].st = jobs[j].st
      BY <1>1, <1>3, <2>3, <3>1, OwnWrite
    <3>4. jobs'[j].cancel /\ \A i \in Places : StAt(j, i)' # "RUNNING"
      BY <3>2, <3>3 DEF OnePlace
    <3>5. SkippedLast(j)'
      BY <3>1, <3>2, <3>3, WrittenSkippedLast DEF RowsSound
    <3>6. SuccessBefore(j)' /\ RunSound(j)'
      BY <3>2, <3>3, <3>4, PlacesSame DEF SuccessBefore, RowsSound, RunSound, OnePlace
    <3>7. \A i \in Rest : StAt(j, i)' = "PENDING"
      <4>1. worker.left \subseteq Places
        BY <1>1 DEF WorkerType
      <4> QED BY <3>1, <3>2, <3>3, <4>1 DEF Rest, OnePlace
    <3>8. WorkerSound(j)'
      BY <2>1, <3>2, <3>3, <3>4, <3>7, PlacesSame DEF WorkerSound
    <3> QED BY <1>1, <2>1, <2>3, <3>5, <3>6, <3>8, OwnSound DEF RowsSound
  <2> QED BY <2>2, <2>3
<1> QED BY <1>2, <1>3 DEF CancelPending

LEMMA FinalizeSound ==
  ASSUME TypeOK, Common, NEW j \in Jobs, Sound(j), Finalize
  PROVE  Sound(j)'
<1>1. worker.pc = "finalize" /\ worker \in WorkerType /\ UNCHANGED <<jobs, hs>>
  BY DEF Finalize, TypeOK
<1>2. worker' = WIdle \/ worker' = [worker EXCEPT !.pc = "settle", !.end = RollupJob(Job)]
  BY DEF Finalize
<1>3. CASE j # Job
  <2>1. worker'.job = worker.job \/ worker'.pc = "idle"
    BY <1>1, <1>2, WIdleType DEF WorkerType
  <2> QED BY <1>1, <1>3, <2>1, OtherSound
<1>4. CASE j = Job
  <2>1. /\ worker.ops = Ops(j) /\ \A i \in Places : StAt(j, i) # "RUNNING"
        /\ jobs[j].st = "RUNNING"
    BY <1>1, <1>4, WorkersJob DEF WorkerSound
  <2>2. ~HasRow(j, "RUNNING")
    BY <2>1, InsertedOrder DEF HasRow, StAt
  <2>3. RollupJob(Job) # "RUNNING"
    BY <1>4, <2>2 DEF RollupJob
  <2>4. worker' = [worker EXCEPT !.pc = "settle", !.end = RollupJob(Job)]
    BY <2>3 DEF Finalize
  <2>5. worker'.pc = "settle" /\ worker'.job = worker.job /\ worker'.ops = worker.ops
    BY <1>1, <2>4 DEF WorkerType
  <2>6. WorkerSound(j)'
    <3>1. Ops(j)' = Ops(j) /\ \A i : StAt(j, i)' = StAt(j, i)
      BY <1>1 DEF Ops, Row, StAt, At
    <3> QED BY <2>1, <2>5, <3>1, PlacesSame DEF WorkerSound
  <2> QED BY <1>1, <2>5, <2>6, MoveSound
<1> QED BY <1>3, <1>4

LEMMA SettleSound ==
  ASSUME TypeOK, Common, NEW j \in Jobs, Sound(j), SettleJob
  PROVE  Sound(j)'
<1>1. worker.pc = "settle" /\ worker' = WIdle /\ UNCHANGED hs
  BY DEF SettleJob
<1>2. PICK i \in Jobs, s \in {"COMPLETED", "PARTIAL", "FAILED"} : i = Job /\ s = worker.end
  BY <1>1, CommonGroups DEF WorkerOn
<1>3. jobs' = [jobs EXCEPT ![i].st = s]
  BY <1>2 DEF SettleJob
<1>4. OnlyJob(i) /\ jobs'[i].st = s /\ jobs'[i].row = jobs[i].row
  BY <1>3, StatusSetEffect, TypeGroups DEF JobsType, JobSt
<1>5. CASE j # Job
  BY <1>1, <1>2, <1>4, <1>5, WIdleType, OtherSound DEF OnlyJob
<1>6. CASE j = Job
  <2>1. /\ jobs[j].st = "RUNNING" /\ RowsSound(j)
        /\ \A h \in Handlers : /\ ~Retrying(h, j)
                               /\ ~(hs[h].pc = "bind" /\ hs[h].job = j /\ hs[h].elig = {})
    BY <1>1, <1>6, WorkersJob
  <2>2. \A p : At(j, p)' = At(j, p) /\ StAt(j, p)' = StAt(j, p)
    BY <1>2, <1>4, <1>6 DEF OnlyJob, At, StAt, Row
  <2>3. SkippedLast(j)' /\ SuccessBefore(j)' /\ RunSound(j)'
    BY <1>2, <1>4, <1>6, <2>1, <2>2, PlacesSame DEF RowsSound, SkippedLast, SuccessBefore, RunSound
  <2>4. HandsSound(j)'
    BY <1>1, <2>1 DEF HandsSound, Retrying, BindSound
  <2>5. Cared(j)' /\ ~Busy(j)'
    BY <1>1, <1>2, <1>4, <1>6, WIdleType, CaredNotRunning DEF Busy
  <2> QED BY <2>3, <2>4, <2>5, SoundPartsNext DEF RowsSound
<1> QED BY <1>5, <1>6

-----------------------------------------------------------------------------
(* The agents and a job none of whose retries overlapped. *)

\* Nothing about the job changes; no agent comes up.
LEMMA CalmSound ==
  ASSUME Common, NEW j \in Jobs, Sound(j), UNCHANGED <<jobs, queue, worker, hs>>, AgentUp' => AgentUp
  PROVE  Sound(j)'
<1>1. Kept(j) /\ HandsKept(j)
  BY SameJobKept DEF HandsKept
<1>2. Cared(j)'
  BY CaredFrame, SoundParts
<1> QED BY <1>1, <1>2, KeptSound, CommonGroups

LEMMA EndSound ==
  ASSUME TypeOK, Common, NEW j \in Jobs, Sound(j), NEW n \in Nodes, AgentUp' => AgentUp,
         UNCHANGED <<queue, hs>>,
         \/ ~node[n].waited /\ UNCHANGED <<jobs, worker>>
         \/ node[n].waited /\ \E failed \in BOOLEAN : EndCall(failed)
         \/ node[n].waited /\ Goto("wait") /\ UNCHANGED jobs
  PROVE  Sound(j)'
<1>1. node[n].waited => worker.pc = "apply"
  BY TheCaller
<1> QED BY <1>1, CalmSound, EndCallSound, ToWaitSound

LEMMA NodeUpKept ==
  ASSUME TypeOK, NEW n \in Nodes, NEW r, r.up = node[n].up, node' = [node EXCEPT ![n] = r]
  PROVE  AgentUp' => AgentUp
<1>1. Entry \in Nodes
  BY ConstantsAssumption DEF ConstantsAssumption
<1> QED BY <1>1 DEF AgentUp, TypeOK

LEMMA InstallSound ==
  ASSUME TypeOK, Common, NEW j \in Jobs, Sound(j), NEW n \in Nodes, Install(n)
  PROVE  Sound(j)'
<1>1. UNCHANGED <<queue, hs>>
  BY DEF Install, ApplyFails, memory
<1>2. node[n] \in NodeType
  BY DEF TypeOK
<1>3. CASE \E replaced \in BOOLEAN : ApplyFails(n, replaced)
  <2>1. PICK replaced \in BOOLEAN : ApplyFails(n, replaced)
    BY <1>3
  <2> DEFINE r == [node[n] EXCEPT !.phase = "idle", !.waited = FALSE, !.pin = 0,
                                  !.disk = IF replaced THEN node[n].pin ELSE @]
  <2>2. node' = [node EXCEPT ![n] = r] /\ r.up = node[n].up
    BY <1>2, <2>1 DEF ApplyFails, NodeType
  <2> HIDE DEF r
  <2>3. AgentUp' => AgentUp
    BY <2>2, NodeUpKept
  <2> QED BY <1>1, <2>1, <2>3, EndSound DEF ApplyFails
<1>4. CASE /\ node' = [node EXCEPT ![n].phase = "restart", ![n].disk = node[n].pin]
           /\ UNCHANGED <<jobs, memory>>
  <2> DEFINE r == [node[n] EXCEPT !.phase = "restart", !.disk = node[n].pin]
  <2>1. node' = [node EXCEPT ![n] = r] /\ r.up = node[n].up
    BY <1>2, <1>4 DEF NodeType
  <2> HIDE DEF r
  <2>2. AgentUp' => AgentUp
    BY <2>1, NodeUpKept
  <2> QED BY <1>4, <2>2, CalmSound DEF memory
<1> QED BY <1>3, <1>4 DEF Install

LEMMA DownSound ==
  ASSUME TypeOK, Common, NEW j \in Jobs, Sound(j), NEW n \in Nodes, Down(n), UNCHANGED <<seen, ran>>
  PROVE  Sound(j)'
<1>0. Entry \in Nodes
  BY ConstantsAssumption DEF ConstantsAssumption
<1>1. ~node'[n].up /\ (n # Entry => node'[Entry].up = node[Entry].up)
  BY <1>0, DownEffect
<1>2. CASE n = Entry
  <2>1. worker' = WIdle /\ hs' = [h \in Handlers |-> HIdle] /\ jobs' = jobs
    BY <1>2 DEF Down
  <2>2. Kept(j) /\ HandsKept(j)
    BY <2>1, SameJobKept, HIdleType DEF HandsKept
  <2>3. ~Busy(j)' /\ Cared(j)'
    BY <1>1, <1>2, <2>1, WIdleType DEF Busy, Cared, AgentUp
  <2> QED BY <2>2, <2>3, KeptSound, CommonGroups
<1>3. CASE n # Entry
  <2>1. /\ UNCHANGED <<jobs, queue, hs>>
        /\ IF node[n].waited THEN Goto("wait") ELSE UNCHANGED worker
    BY <1>3 DEF Down
  <2>2. AgentUp' => AgentUp
    BY <1>1, <1>3 DEF AgentUp
  <2> QED BY <2>1, <2>2, EndSound
<1> QED BY <1>2, <1>3

LEMMA RestartSound ==
  ASSUME TypeOK, Common, NEW j \in Jobs, Sound(j), NEW n \in Nodes, Restart(n)
  PROVE  Sound(j)'
<1>1. UNCHANGED <<seen, ran>>
  BY DEF Restart, history
<1>2. CASE Down(n)
  BY <1>1, <1>2, DownSound
<1>3. CASE /\ node' = [node EXCEPT ![n].phase = "idle", ![n].waited = FALSE, ![n].pin = 0]
           /\ IF node[n].waited THEN Goto("wait") ELSE UNCHANGED worker
           /\ UNCHANGED <<jobs, queue, hs, idents>>
  <2> DEFINE r == [node[n] EXCEPT !.phase = "idle", !.waited = FALSE, !.pin = 0]
  <2>0. node[n] \in NodeType
    BY DEF TypeOK
  <2>1. node' = [node EXCEPT ![n] = r] /\ r.up = node[n].up
    BY <1>3, <2>0 DEF NodeType
  <2> HIDE DEF r
  <2>2. AgentUp' => AgentUp
    BY <2>1, NodeUpKept
  <2> QED BY <1>3, <2>2, EndSound
<1> QED BY <1>2, <1>3 DEF Restart

LEMMA ResumeSound ==
  ASSUME TypeOK, Common, NEW j \in Jobs, Sound(j), NEW n \in Nodes, Resume(n)
  PROVE  Sound(j)'
<1>1. /\ node' = [node EXCEPT ![n].up = TRUE, ![n].ver = node[n].disk]
      /\ IF n = Entry THEN queue' \in ListRunningUpdateJobIDs ELSE UNCHANGED queue
      /\ UNCHANGED <<jobs, worker, hs>>
  BY DEF Resume
<1>2. Kept(j) /\ HandsKept(j)
  BY <1>1, SameJobKept DEF HandsKept
<1>3. Cared(j)'
  <2>1. CASE n = Entry
    <3>1. ToSet(queue') = InFlight
      BY <1>1, <2>1, ResumedQueue
    <3>2. jobs[j].st = "RUNNING" => j \in InFlight
      BY DEF InFlight, Inserted, HasRunningUpdateJob
    <3> QED BY <1>1, <3>1, <3>2 DEF Cared
  <2>2. CASE n # Entry
    <3>1. AgentUp' => AgentUp
      BY <1>1, <2>2, ConstantsAssumption DEF AgentUp, TypeOK, ConstantsAssumption
    <3> QED BY <1>1, <2>2, <3>1, CaredFrame, SoundParts
  <2> QED BY <2>1, <2>2
<1> QED BY <1>1, <1>2, <1>3, KeptSound, CommonGroups

LEMMA BeginsSound ==
  ASSUME TypeOK, Common, NEW j \in Jobs, Sound(j), ApplyBegins
  PROVE  Sound(j)'
<1>1. UNCHANGED <<jobs, queue, worker, hs>>
  BY DEF ApplyBegins, memory
<1>2. PICK n \in Nodes : n = Target
  BY TargetIsPlace, CommonGroups DEF ApplyBegins, WorkerOn
<1> DEFINE r == [node[n] EXCEPT !.phase = "install", !.pin = jobs[Job].tag, !.waited = TRUE]
<1>3. node[n] \in NodeType
  BY DEF TypeOK
<1>4. node' = [node EXCEPT ![n] = r] /\ r.up = node[n].up
  BY <1>2, <1>3 DEF ApplyBegins, NodeType
<1> HIDE DEF r
<1> QED BY <1>1, <1>4, NodeUpKept, CalmSound

LEMMA ApplyNodeSound ==
  ASSUME TypeOK, Common, NEW j \in Jobs, Sound(j), NEW n \in Nodes, ApplyNode(n)
  PROVE  Sound(j)'
<1>1. UNCHANGED <<jobs, queue, worker, hs>>
  BY DEF ApplyNode, memory
<1>2. PICK tag \in Tags : node' = [node EXCEPT ![n].phase = "install", ![n].pin = tag]
  BY DEF ApplyNode
<1> DEFINE r == [node[n] EXCEPT !.phase = "install", !.pin = tag]
<1>3. node[n] \in NodeType
  BY DEF TypeOK
<1>4. node' = [node EXCEPT ![n] = r] /\ r.up = node[n].up
  BY <1>2, <1>3 DEF NodeType
<1> HIDE DEF r
<1> QED BY <1>1, <1>4, NodeUpKept, CalmSound

LEMMA GossipSound ==
  ASSUME TypeOK, Common, NEW j \in Jobs, Sound(j), NEW n \in Nodes, Gossip(n)
  PROVE  Sound(j)'
BY CalmSound DEF Gossip, memory, AgentUp

LEMMA WorkerSounds ==
  ASSUME TypeOK, Common, NEW j \in Jobs, Sound(j), WorkerStep
  PROVE  Sound(j)'
<1>1. CASE MissingPrincipal
  BY <1>1, ToWaitSound DEF MissingPrincipal
<1>2. CASE ApplyAnswered
  BY <1>2, EndCallSound DEF ApplyAnswered
<1>3. CASE CallCut
  BY <1>3, ToWaitSound DEF CallCut
<1> QED
  BY <1>1, <1>2, <1>3, RunJobSound, PickSound, StartSound, BeginsSound, WaitSound, CancelPendingSound,
     FinalizeSound, SettleSound DEF WorkerStep

LEMMA SoundNext ==
  ASSUME TypeOK, Common, NEW j \in Jobs, Sound(j), [Next]_vars, j \notin raced'
  PROVE  Sound(j)'
<1>1. CASE WorkerStep
  BY <1>1, WorkerSounds
<1>2. ASSUME NEW h \in Handlers,
             HandlerStep(h) \/ CreateClusterUpdate(h) \/ CancelRemaining(h) \/ Retry(h)
      PROVE  Sound(j)'
  BY <1>2, CreateSound, InsertSound, BindStepSound, RememberSound, CancelRequestSound, FlagSound,
     RetryStepSound, ReplaceSound, ClearSound, RerunSound DEF HandlerStep
<1>3. ASSUME NEW n \in Nodes, NodeStep(n) \/ Crash(n) \/ Gossip(n) \/ ApplyNode(n)
      PROVE  Sound(j)'
  <2>1. CASE Crash(n)
    BY <2>1, DownSound DEF Crash, history
  <2> QED BY <1>3, <2>1, InstallSound, RestartSound, ResumeSound, GossipSound, ApplyNodeSound DEF NodeStep
<1>4. CASE UNCHANGED vars
  BY <1>4, CalmSound DEF vars, AgentUp
<1> QED BY <1>1, <1>2, <1>3, <1>4 DEF Next

\* Overlaps are not forgotten.
LEMMA RacedGrows == [Next]_vars => raced \subseteq raced'
<1> SUFFICES ASSUME [Next]_vars PROVE raced \subseteq raced'
  OBVIOUS
<1>1. CASE WorkerStep
  BY <1>1 DEF WorkerStep, RunJob, PickTarget, StartTarget, MissingPrincipal, ApplyAnswered, ApplyBegins,
     CallCut, WaitReady, CancelPending, Finalize, SettleJob, history
<1>2. ASSUME NEW h \in Handlers, HandlerStep(h)
      PROVE  raced \subseteq raced'
  BY <1>2 DEF HandlerStep, InsertUpdateJob, BindAndEnqueue, RememberPrincipal, SetUpdateJobCancelRemaining,
     ReplaceUpdateJobTargetOp, ClearCancel, RerunJob, EnqueueRetry, history
<1>3. ASSUME NEW h \in Handlers, CreateClusterUpdate(h) \/ CancelRemaining(h)
      PROVE  raced \subseteq raced'
  BY <1>3 DEF CreateClusterUpdate, CancelRemaining, history
<1>4. ASSUME NEW h \in Handlers, Retry(h)
      PROVE  raced \subseteq raced'
  BY <1>4 DEF Retry
<1>5. ASSUME NEW n \in Nodes, NodeStep(n) \/ Crash(n) \/ Gossip(n) \/ ApplyNode(n)
      PROVE  raced \subseteq raced'
  BY <1>5 DEF NodeStep, Install, Restart, Resume, Crash, Gossip, ApplyNode, history
<1> QED BY <1>1, <1>2, <1>3, <1>4, <1>5 DEF Next, vars

LEMMA InvNext == Inv /\ [Next]_vars => Inv'
<1> SUFFICES ASSUME Inv, [Next]_vars PROVE Inv'
  OBVIOUS
<1>1. TypeOK' /\ Common'
  BY CommonNext DEF Inv
<1>2. \A j \in Jobs \ raced' : Sound(j)'
  BY SoundNext, RacedGrows DEF Inv
<1> QED BY <1>1, <1>2 DEF Inv

-----------------------------------------------------------------------------
(* The theorems. *)

LEMMA InvHolds == Spec => []Inv
BY InitInv, InvNext, PTL DEF Spec

\* Every variable has its type: the tables, the worker and its queue, the requests and the agents.
THEOREM UpdateTypeCorrect == Spec => []TypeOK
<1>1. Inv => TypeOK
  BY DEF Inv
<1> QED BY <1>1, InvHolds, PTL

\* Create and Retry check that no job is in flight before they write: the unique index on running
\* jobs settles the race between two that both found none.
THEOREM UpdateOneJobInFlight == Spec => []OneJobInFlight
<1>1. Inv => OneJobInFlight
  BY DEF Inv, Common, OneJobInFlight, Inserted, HasRunningUpdateJob, RunningRowRunningJob, OneRunning
<1> QED BY <1>1, InvHolds, PTL

\* Everything before the target the worker calls has succeeded, and runs what the job pins or did.
LEMMA RollsOrdered == Inv => RollsOneByOne
<1> SUFFICES ASSUME Inv, worker.pc = "apply", Job \notin raced, NEW n \in Before(Job, Target)
             PROVE  Row(Job, n).st = "SUCCESS" /\ jobs[Job].tag \in ran[n]
  BY DEF RollsOneByOne
<1>1. PICK j \in Jobs : j = Job /\ Sound(j)
  BY CommonGroups DEF Inv, WorkerOn
<1>2. worker.left # {}
  BY CommonGroups DEF Inv, WorkerOn
<1>3. PICK f \in Places : f = First(worker.left) /\ Target = At(j, f) /\ StAt(j, f) = "RUNNING"
  BY <1>1, <1>2, OwnRow, WorkersJob DEF Inv, WorkerSound
<1>4. PICK i \in Places, k \in Places : n = At(j, i) /\ k > i /\ At(j, k) = Target
  BY <1>1 DEF Before
<1>5. k = f
  BY <1>1, <1>3, <1>4, WorkersJob, InsertedOrder DEF Inv
<1>6. jobs[j].st # "NONE" /\ SuccessBefore(j)
  BY <1>1, WorkersJob DEF Inv, RowsSound
<1>7. StAt(j, i) = "SUCCESS"
  BY <1>3, <1>4, <1>5, <1>6, PlacesAreNats DEF SuccessBefore
<1>8. n \in Nodes /\ Row(j, n).st = "SUCCESS"
  BY <1>4, <1>6, <1>7, InsertedOrder DEF Inv, StAt
<1> QED BY <1>1, <1>8, CommonGroups DEF Inv, Tables, SuccessHasRun

\* The worker calls node after node (runJob, runTarget), in the order fixed when the job was made.
THEOREM UpdateRollsOneByOne == Spec => []RollsOneByOne
BY RollsOrdered, InvHolds, PTL

\* Before the entry's own update everything has succeeded, after it everything is skipped.
LEMMA OwnRestartIsLast == Inv => OwnRestartLosesNothing
<1> SUFFICES ASSUME Inv, worker.pc = "apply", Target = Entry, Job \notin raced, NEW n \in Nodes \ {Entry}
             PROVE  Row(Job, n).st \in {"SUCCESS", "SKIPPED"}
  BY DEF OwnRestartLosesNothing
<1>1. PICK j \in Jobs : j = Job /\ Sound(j)
  BY CommonGroups DEF Inv, WorkerOn
<1>2. worker.left # {}
  BY CommonGroups DEF Inv, WorkerOn
<1>3. PICK f \in Places : f = First(worker.left) /\ Target = At(j, f) /\ StAt(j, f) = "RUNNING"
  BY <1>1, <1>2, OwnRow, WorkersJob DEF Inv, WorkerSound
<1>4. jobs[j].st # "NONE" /\ SuccessBefore(j) /\ SkippedLast(j)
  BY <1>1, WorkersJob DEF Inv, RowsSound
<1>5. PICK i \in Places : At(j, i) = n
  BY <1>4, InsertedOrder DEF Inv
<1>6. i < f \/ f < i
  BY <1>3, <1>5, PlacesAreNats
<1>7. CASE i < f
  BY <1>1, <1>3, <1>4, <1>5, <1>7 DEF SuccessBefore, StAt
<1>8. CASE f < i
  BY <1>1, <1>3, <1>4, <1>5, <1>8 DEF SkippedLast, StAt
<1> QED BY <1>6, <1>7, <1>8

\* The entry's update ends its process; targetRank puts it after everything that has work to do.
THEOREM UpdateOwnRestartLosesNothing == Spec => []OwnRestartLosesNothing
BY OwnRestartIsLast, InvHolds, PTL

\* The row the worker wrote RUNNING is still its own when the node is called and awaited, though
\* ReplaceUpdateJobTargetOp works from rows it read earlier.
THEOREM UpdateWorkerOwnsTarget == Spec => []WorkerOwnsTarget
<1>1. Inv => WorkerOwnsTarget
  <2> SUFFICES ASSUME Inv, worker.pc \in {"apply", "wait"}, Job \notin raced
               PROVE  jobs[Job].st = "RUNNING" /\ Row(Job, Target).st = "RUNNING" /\ OwnTarget
    BY DEF WorkerOwnsTarget
  <2>1. PICK j \in Jobs : j = Job /\ Sound(j)
    BY CommonGroups DEF Inv, WorkerOn
  <2>2. worker.left # {}
    BY CommonGroups DEF Inv, WorkerOn
  <2> QED BY <2>1, <2>2, OwnRow, WorkersJob DEF Inv, WorkerSound
<1> QED BY <1>1, InvHolds, PTL

\* The cancel flag is read before every target (runJob), so one that was chosen already is the last.
THEOREM UpdateCancelStopsTheRoll == Spec => []CancelStopsTheRoll
<1>1. Inv => CancelStopsTheRoll
  BY DEF Inv, Common, LateOnce, CancelStopsTheRoll
<1> QED BY <1>1, InvHolds, PTL

\* Resume, BindAndEnqueue and EnqueueRetry between them leave no running job without a worker.
THEOREM UpdateNoOrphanJob == Spec => []NoOrphanJob
<1>1. Inv => NoOrphanJob
  BY DEF Inv, Sound, Cared, NoOrphanJob
<1> QED BY <1>1, InvHolds, PTL

-----------------------------------------------------------------------------
(* What succeeded stays. *)

SuccessRows(j) == \A n \in Nodes : Row(j, n).st = "SUCCESS" => Row(j, n)' = Row(j, n)

\* The worker writes the row of its target only, and that one is not a success.
LEMMA WriteKeepsSuccess ==
  ASSUME TypeOK, Common, NEW j \in Jobs, Sound(j), worker.pc \in {"start", "apply", "wait", "cancel"},
         worker.left # {}, NEW s \in TargetSt, WriteTarget(s)
  PROVE  SuccessRows(j)
<1>1. CASE j # Job
  BY <1>1, OthersWrite DEF SuccessRows, Row
<1>2. CASE j = Job
  <2>1. PICK n \in Nodes : n = Target
    BY TargetIsPlace
  <2>2. Row(j, n).st # "SUCCESS"
    BY <1>2, <2>1, OwnRow, WorkersJob DEF WorkerSound
  <2>3. RowSet(j, n, s)
    BY <1>2, <2>1, OwnRow, WriteCases
  <2>4. \A m \in Nodes \ {n} : Row(j, m)' = Row(j, m)
    BY <2>3, RowSetEffect, TypeGroups DEF JobsType
  <2> QED BY <2>2, <2>4 DEF SuccessRows
<1> QED BY <1>1, <1>2

LEMMA EndKeepsSuccess ==
  ASSUME TypeOK, Common, NEW j \in Jobs, Sound(j), worker.pc = "apply",
         NEW failed \in BOOLEAN, EndCall(failed)
  PROVE  SuccessRows(j)
<1>1. worker.left # {} /\ "FAILED" \in TargetSt
  BY CommonGroups DEF WorkerOn, TargetSt
<1> QED BY <1>1, WriteKeepsSuccess DEF EndCall, SuccessRows, Row

LEMMA WorkerKeepsSuccess ==
  ASSUME TypeOK, Common, NEW j \in Jobs, Sound(j), WorkerStep
  PROVE  SuccessRows(j)
<1>0. worker.pc \in {"start", "apply", "wait"} => worker.left # {}
  BY CommonGroups DEF WorkerOn
<1>1. CASE UNCHANGED jobs
  BY <1>1 DEF SuccessRows, Row
<1>2. CASE StartTarget
  BY <1>0, <1>2, WriteKeepsSuccess DEF StartTarget, TargetSt
<1>3. CASE WaitReady
  <2>1. PICK s \in TargetSt : WriteTarget(s)
    BY <1>3 DEF WaitReady, TargetSt
  <2> QED BY <1>0, <1>3, <2>1, WriteKeepsSuccess DEF WaitReady
<1>4. CASE CancelPending
  BY <1>1, <1>4, WriteKeepsSuccess DEF CancelPending, TargetSt
<1>5. CASE ApplyAnswered
  BY <1>5, EndKeepsSuccess DEF ApplyAnswered
<1>6. CASE SettleJob
  <2>1. PICK i \in Jobs, s \in JobSt : i = Job /\ s = worker.end
    BY <1>6, CommonGroups DEF SettleJob, WorkerOn, JobSt
  <2>2. jobs' = [jobs EXCEPT ![i].st = s]
    BY <1>6, <2>1 DEF SettleJob
  <2>3. jobs'[j].row = jobs[j].row
    BY <2>2, StatusSetEffect, TypeGroups DEF JobsType, OnlyJob
  <2> QED BY <2>3 DEF SuccessRows, Row
<1> QED
  BY <1>1, <1>2, <1>3, <1>4, <1>5, <1>6
     DEF WorkerStep, RunJob, PickTarget, MissingPrincipal, ApplyBegins, CallCut, Finalize

LEMMA HandlerKeepsSuccess ==
  ASSUME TypeOK, Common, NEW j \in Inserted, Sound(j), NEW h \in Handlers, HandlerStep(h)
  PROVE  SuccessRows(j)
<1>0. j \in Jobs /\ jobs[j].st # "NONE"
  BY DEF Inserted
<1>1. CASE UNCHANGED jobs
  BY <1>1 DEF SuccessRows, Row
<1>2. CASE InsertUpdateJob(h)
  <2>1. ASSUME NEW i \in Jobs, jobs[i].st = "NONE", InsertDone(h, i)
        PROVE  jobs'[j] = jobs[j]
    BY <1>0, <2>1 DEF InsertDone, TypeOK
  <2>2. jobs' = jobs \/ jobs'[j] = jobs[j]
    BY <1>2, <2>1, InsertCases DEF InsertRefused
  <2> QED BY <2>2 DEF SuccessRows, Row
<1>3. CASE SetUpdateJobCancelRemaining(h) \/ ClearCancel(h) \/ RerunJob(h)
  <2>1. PICK i \in Jobs : i = hs[h].job
    BY <1>3, HandlersJob DEF SetUpdateJobCancelRemaining, ClearCancel, RerunJob
  <2>2. \/ \E b \in BOOLEAN : jobs' = [jobs EXCEPT ![i].cancel = b]
        \/ jobs' = [jobs EXCEPT ![i].st = "RUNNING"]
        \/ jobs' = jobs
    BY <1>3, <2>1 DEF SetUpdateJobCancelRemaining, ClearCancel, RerunJob
  <2>3. jobs'[j].row = jobs[j].row
    BY <1>0, <2>2, FlagSetEffect, StatusSetEffect, TypeGroups DEF JobsType, OnlyJob, JobSt
  <2> QED BY <2>3 DEF SuccessRows, Row
<1>4. CASE ReplaceUpdateJobTargetOp(h)
  <2>1. PICK i \in Jobs : i = hs[h].job /\ jobs[i].st # "NONE"
    BY <1>4, HandlersJob DEF ReplaceUpdateJobTargetOp
  <2>2. PICK x \in hs[h].todo :
          jobs' = jobs \/ (StillThere(i, At(i, x[1]), x[2]) /\ RowNew(i, At(i, x[1]), x[2] + 1))
    BY <1>4, <2>1 DEF ReplaceUpdateJobTargetOp, RowNew
  <2>3. x \in Places \X Nat
    BY DEF TypeOK, HandlerType
  <2>4. PICK n \in Nodes, op \in Nat : n = At(i, x[1]) /\ op = x[2] + 1
    <3>1. At(i, x[1]) \in Nodes
      BY <2>1, <2>3, InsertedOrder
    <3> QED BY <2>3, <3>1
  <2>5. CASE RowNew(i, n, op)
    <3>1. OnlyJob(i) /\ \A m \in Nodes \ {n} : Row(i, m)' = Row(i, m)
      BY <2>5, RowNewEffect, TypeGroups DEF JobsType
    <3>2. j = i => Row(j, n).st # "SUCCESS"
      BY <1>4, <2>1, <2>4, SoundParts
         DEF HandsSound, Retrying, RetrySound, ReplaceUpdateJobTargetOp, retryableTarget, StAt
    <3> QED BY <1>0, <3>1, <3>2 DEF SuccessRows, OnlyJob, Row
  <2> QED BY <1>1, <2>2, <2>4, <2>5
<1> QED
  BY <1>1, <1>2, <1>3, <1>4 DEF HandlerStep, BindAndEnqueue, RememberPrincipal, EnqueueRetry

LEMMA NextKeepsSuccess ==
  ASSUME TypeOK, Common, NEW j \in Inserted, Sound(j), Next
  PROVE  SuccessRows(j)
<1>0. j \in Jobs
  BY DEF Inserted
<1>1. CASE UNCHANGED jobs
  BY <1>1 DEF SuccessRows, Row
<1>2. CASE WorkerStep
  BY <1>0, <1>2, WorkerKeepsSuccess
<1>3. ASSUME NEW h \in Handlers,
             HandlerStep(h) \/ CreateClusterUpdate(h) \/ CancelRemaining(h) \/ Retry(h)
      PROVE  SuccessRows(j)
  BY <1>1, <1>3, HandlerKeepsSuccess DEF CreateClusterUpdate, CancelRemaining, Retry
<1>4. ASSUME NEW n \in Nodes, NodeStep(n) \/ Crash(n) \/ Gossip(n) \/ ApplyNode(n)
      PROVE  SuccessRows(j)
  <2>1. CASE \E replaced \in BOOLEAN : ApplyFails(n, replaced)
    <3>1. CASE node[n].waited /\ \E failed \in BOOLEAN : EndCall(failed)
      BY <1>0, <3>1, TheCaller, EndKeepsSuccess
    <3> QED BY <1>1, <2>1, <3>1 DEF ApplyFails
  <2> QED
    BY <1>1, <1>4, <2>1 DEF NodeStep, Install, Restart, Down, Resume, Crash, Gossip, ApplyNode
<1> QED BY <1>2, <1>3, <1>4 DEF Next

\* haltRemaining, cancelPending, retryableTarget and the worker's own writes leave a success alone:
\* a node is not updated twice by a job that has reached it.
THEOREM UpdateSuccessKept == Spec => SuccessKept
<1>1. Inv /\ [Next]_vars =>
        [\A j \in Inserted \ raced : \A n \in Nodes : Row(j, n).st = "SUCCESS" => Row(j, n)' = Row(j, n)]_vars
  <2> SUFFICES ASSUME Inv, Next, NEW j \in Inserted \ raced
               PROVE  SuccessRows(j)
    BY DEF SuccessRows
  <2>1. TypeOK /\ Common /\ Sound(j)
    BY DEF Inv, Inserted
  <2> QED BY <2>1, NextKeepsSuccess
<1> QED BY <1>1, InvHolds, PTL DEF Spec, SuccessKept
=============================================================================
