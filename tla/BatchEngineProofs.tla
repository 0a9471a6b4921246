------------------------- MODULE BatchEngineProofs -------------------------
(***************************************************************************)
(* What TLAPS proves of BatchEngine for every value of its constants: its  *)
(* type invariant; that an operation is carried out at most once, and a    *)
(* target under one id only, unless its journal entry or an answer was     *)
(* lost or it was sent twice; that a recorded SUCCESS is real; and, where  *)
(* operators only retry, that a goroutine keeps its row and a success      *)
(* stays.                                                                  *)
(***************************************************************************)
EXTENDS BatchEngine, TLAPS

\* The groups of TypeOK.
StoreOK ==
  /\ status \in [Batches -> Status \cup {"none"}]
  /\ gen \in [Targets -> Gens]
  /\ st \in [Targets -> TargetStatus]

WorkerOK ==
  /\ up \in BOOLEAN
  /\ queue \in [Batches -> Nat]
  /\ ident \subseteq Ops
  /\ wpc \in {"idle", "look", "mark", "wait", "write"}
  /\ wb \in Batches \cup {NoBatch}
  /\ wstat \in Status

RunOK == run \in [Targets -> Run]

HandlerOK ==
  /\ hpc \in [Handlers -> {"idle", "reset", "mark", "enqueue", "return"}]
  /\ hb \in [Handlers -> Batches \cup {NoBatch}]
  /\ hkind \in [Handlers -> {"retry", "replay"}]
  /\ htodo \in [Handlers -> SUBSET Targets]
  /\ hdone \in [Handlers -> SUBSET Targets]
  /\ hgen \in [Handlers -> [Targets -> Gens]]

OwnerOK ==
  /\ sent \in [Targets -> [Gens -> Nat]]
  /\ flight \subseteq Requests
  /\ busy \subseteq Requests
  /\ jour \in [Targets -> [Gens -> {"none", "PENDING", "SUCCESS", "FAILED"}]]
  /\ effects \in [Targets -> [Gens -> Nat]]
  /\ unclear \subseteq Ops

BudgetOK ==
  /\ requests \in 0..MaxRequests
  /\ cancels \in 0..MaxCancels
  /\ crashes \in 0..MaxCrashes
  /\ cuts \in 0..MaxCuts

\* TypeOK is the conjunction of its groups.
LEMMA TypeGroups ==
  TypeOK <=> StoreOK /\ WorkerOK /\ RunOK /\ HandlerOK /\ OwnerOK /\ BudgetOK
BY DEF TypeOK, StoreOK, WorkerOK, RunOK, HandlerOK, OwnerOK, BudgetOK

\* The first operation id of every target, and a goroutine at rest.
LEMMA FirstValues ==
  /\ Gens \subseteq Nat /\ 1 \in Gens
  /\ FirstGens \in [Targets -> Gens]
  /\ Idle \in Run
<1>1. Gens \subseteq Nat /\ 1 \in Gens
  BY BatchConstants DEF Gens, MaxGen
<1>2. FirstGens \in [Targets -> Gens]
  BY <1>1 DEF FirstGens
<1>3. Idle \in Run
  BY <1>1 DEF Idle, Run, Answers
<1> QED BY <1>1, <1>2, <1>3

LEMMA HandlerReturnsType ==
  ASSUME HandlerOK, NEW h \in Handlers, HandlerReturns(h) PROVE HandlerOK'
BY FirstValues DEF HandlerOK, HandlerReturns

\* A goroutine's record keeps its type when it starts, is answered or ends.
LEMMA TargetEndsType ==
  ASSUME RunOK, NEW x \in Targets, TargetEnds(x) PROVE RunOK'
BY FirstValues DEF RunOK, TargetEnds

LEMMA RecordType ==
  ASSUME StoreOK, NEW x \in Targets, NEW s \in TargetStatus, Record(x, s)
  PROVE  st' \in [Targets -> TargetStatus]
BY DEF StoreOK, Record

LEMMA AnswerType ==
  ASSUME RunOK, NEW m \in Requests, NEW a \in Answers, Answer(m, a) PROVE RunOK'
<1>1. m[1] \in Targets
  BY DEF Requests
<1>2. [run[m[1]] EXCEPT !.a = a] \in Run
  BY <1>1 DEF RunOK, Run
<1> QED BY <1>1, <1>2 DEF RunOK, Answer

LEMMA JournalType ==
  ASSUME OwnerOK, NEW m \in Requests, NEW s \in {"PENDING", "SUCCESS", "FAILED"}, Journal(m, s)
  PROVE  jour' \in [Targets -> [Gens -> {"none", "PENDING", "SUCCESS", "FAILED"}]]
<1>1. m[1] \in Targets /\ m[2] \in Gens
  BY DEF Requests
<1> QED BY <1>1 DEF OwnerOK, Journal

LEMMA CarryOutType ==
  ASSUME OwnerOK, NEW m \in Requests, CarryOut(m)
  PROVE  effects' \in [Targets -> [Gens -> Nat]]
<1>1. m[1] \in Targets /\ m[2] \in Gens
  BY DEF Requests
<1> QED BY <1>1 DEF OwnerOK, CarryOut

LEMMA RollupType == \A b : Rollup(b) \in Status
BY DEF Rollup, Status, Open, Ended

LEMMA InitType == Init => TypeOK
<1> SUFFICES ASSUME Init PROVE TypeOK
  OBVIOUS
<1> USE FirstValues DEF Init
<1>1. StoreOK
  BY DEF StoreOK, Status, TargetStatus, Open
<1>2. WorkerOK
  BY DEF WorkerOK, Status, Open
<1>3. RunOK
  BY DEF RunOK
<1>4. HandlerOK
  BY DEF HandlerOK
<1>5. OwnerOK
  BY DEF OwnerOK
<1>6. BudgetOK
  BY BatchConstants DEF BudgetOK
<1> QED BY <1>1, <1>2, <1>3, <1>4, <1>5, <1>6, TypeGroups
-----------------------------------------------------------------------------
(***************************************************************************)
(* Every action keeps TypeOK.                                              *)
(***************************************************************************)
LEMMA TypeGroupsPrime ==
  TypeOK' <=> StoreOK' /\ WorkerOK' /\ RunOK' /\ HandlerOK' /\ OwnerOK' /\ BudgetOK'
BY DEF TypeOK, StoreOK, WorkerOK, RunOK, HandlerOK, OwnerOK, BudgetOK

\* A group whose variables do not change is kept.
LEMMA Unchanged ==
  /\ StoreOK /\ UNCHANGED storeVars => StoreOK'
  /\ WorkerOK /\ UNCHANGED <<up, queue, ident, workerVars>> => WorkerOK'
  /\ RunOK /\ UNCHANGED run => RunOK'
  /\ HandlerOK /\ UNCHANGED handlerVars => HandlerOK'
  /\ OwnerOK /\ UNCHANGED ownerVars => OwnerOK'
  /\ BudgetOK /\ UNCHANGED budgets => BudgetOK'
BY DEF StoreOK, WorkerOK, RunOK, HandlerOK, OwnerOK, BudgetOK,
       storeVars, workerVars, handlerVars, ownerVars, budgets

LEMMA RequestType ==
  ASSUME TypeOK, NEW h \in Handlers, NewRequest(h) PROVE TypeOK'
<1> USE TypeGroups, TypeGroupsPrime
<1>1. ASSUME NEW b \in Batches, CreateBatch(h, b) PROVE TypeOK'
  <2>1. StoreOK'
    <3>1. PICK f \in [TargetsOf(b) -> InitStatuses] :
            st' = [x \in Targets |-> IF BatchOf[x] = b THEN f[x] ELSE st[x]]
      BY <1>1 DEF CreateBatch
    <3>2. InitStatuses \subseteq TargetStatus
      BY BatchConstants DEF TargetStatus, Open
    <3>3. st' \in [Targets -> TargetStatus]
      BY <3>1, <3>2 DEF StoreOK, TargetsOf
    <3>4. status' \in [Batches -> Status \cup {"none"}]
      BY <1>1 DEF CreateBatch, StoreOK, Status, Open
    <3> QED BY <1>1, <3>3, <3>4 DEF CreateBatch, StoreOK
  <2>2. WorkerOK'
    BY <1>1 DEF CreateBatch, workerVars, WorkerOK, StoreOK, Ops, TargetsOf
  <2>3. HandlerOK'
    BY <1>1 DEF CreateBatch, HandlerOK
  <2>4. RunOK' /\ OwnerOK'
    BY <1>1 DEF CreateBatch, RunOK, OwnerOK, ownerVars
  <2>5. BudgetOK'
    BY <1>1, BatchConstants DEF CreateBatch, Request, BudgetOK
  <2> QED BY <2>1, <2>2, <2>3, <2>4, <2>5
<1>2. ASSUME NEW b \in Batches, NEW kind \in Kinds, BeginReset(h, b, kind) PROVE TypeOK'
  <2>1. StoreOK' /\ WorkerOK' /\ RunOK' /\ OwnerOK'
    BY <1>2 DEF BeginReset, storeVars, workerVars, ownerVars, StoreOK, WorkerOK, RunOK, OwnerOK
  <2>2. HandlerOK'
    <3>1. kind \in {"retry", "replay"}
      BY BatchConstants
    <3> QED BY <1>2, <3>1 DEF BeginReset, HandlerOK, StoreOK, TargetsOf
  <2>3. BudgetOK'
    BY <1>2, BatchConstants DEF BeginReset, Request, BudgetOK
  <2> QED BY <2>1, <2>2, <2>3
<1> QED BY <1>1, <1>2 DEF NewRequest

LEMMA HandlerStepType ==
  ASSUME TypeOK, NEW h \in Handlers, HandlerStep(h) \/ RequestCancelled(h) PROVE TypeOK'
<1> USE TypeGroups, TypeGroupsPrime, Unchanged
<1>1. ASSUME NEW x \in Targets, ResetTarget(h, x) PROVE TypeOK'
  <2>1. StoreOK'
    BY <1>1 DEF ResetTarget, StoreOK, TargetStatus, Open
  <2>2. HandlerOK'
    BY <1>1 DEF ResetTarget, HandlerOK
  <2> QED BY <1>1, <2>1, <2>2 DEF ResetTarget
<1>2. ASSUME NEW x \in Targets, ResetRefused(h, x) PROVE TypeOK'
  <2>1. HandlerOK'
    BY <1>2, HandlerReturnsType DEF ResetRefused
  <2> QED BY <1>2, <2>1 DEF ResetRefused
<1>3. CASE RequestCancelled(h)
  <2>1. HandlerOK'
    BY <1>3, HandlerReturnsType DEF RequestCancelled
  <2>2. BudgetOK'
    BY <1>3, BatchConstants DEF RequestCancelled, BudgetOK
  <2> QED BY <1>3, <2>1, <2>2 DEF RequestCancelled
<1>4. CASE EndReset(h)
  <2>1. WorkerOK'
    BY <1>4 DEF EndReset, workerVars, WorkerOK, HandlerOK, Ops
  <2>2. HandlerOK'
    BY <1>4 DEF EndReset, HandlerOK
  <2> QED BY <1>4, <2>1, <2>2 DEF EndReset
<1>5. CASE MarkRunning(h)
  <2>1. StoreOK'
    BY <1>5 DEF MarkRunning, StoreOK, Status, Open
  <2>2. HandlerOK'
    BY <1>5 DEF MarkRunning, HandlerOK
  <2> QED BY <1>5, <2>1, <2>2 DEF MarkRunning
<1>6. CASE Enqueue(h)
  <2>1. WorkerOK'
    BY <1>6 DEF Enqueue, workerVars, WorkerOK
  <2>2. HandlerOK'
    BY <1>6 DEF Enqueue, HandlerOK
  <2> QED BY <1>6, <2>1, <2>2 DEF Enqueue
<1>7. CASE Remember(h)
  <2>1. WorkerOK'
    BY <1>7 DEF Remember, workerVars, WorkerOK, StoreOK, Ops, TargetsOf
  <2>2. HandlerOK'
    BY <1>7, HandlerReturnsType DEF Remember
  <2> QED BY <1>7, <2>1, <2>2 DEF Remember
<1> QED BY <1>1, <1>2, <1>3, <1>4, <1>5, <1>6, <1>7 DEF HandlerStep

LEMMA WorkerStepType ==
  ASSUME TypeOK, WorkerStep PROVE TypeOK'
<1> USE TypeGroups, TypeGroupsPrime, Unchanged
<1>1. HandlerOK' /\ OwnerOK' /\ BudgetOK'
  BY DEF WorkerStep, WorkerTakes, WorkerReads, WorkerMarks, WorkerCounts, WorkerWrites
<1>2. ASSUME NEW b \in Batches, WorkerTakes(b) PROVE TypeOK'
  <2>1. WorkerOK'
    BY <1>2 DEF WorkerTakes, workerVars, WorkerOK
  <2> QED BY <1>1, <1>2, <2>1 DEF WorkerTakes
<1>3. CASE WorkerReads
  <2>1. \A x \in Targets : [Idle EXCEPT !.s = "queued", !.g = gen[x]] \in Run
    BY DEF StoreOK, Idle, Run, Answers
  <2>2. RunOK'
    BY <1>3, <2>1 DEF WorkerReads, RunOK
  <2>3. WorkerOK'
    BY <1>3 DEF WorkerReads, WorkerOK
  <2> QED BY <1>1, <1>3, <2>2, <2>3 DEF WorkerReads
<1>4. CASE WorkerMarks
  <2>1. StoreOK' /\ WorkerOK'
    BY <1>4 DEF WorkerMarks, StoreOK, WorkerOK, Status, Open
  <2> QED BY <1>1, <1>4, <2>1 DEF WorkerMarks
<1>5. CASE WorkerCounts
  <2>1. WorkerOK'
    BY <1>5, RollupType DEF WorkerCounts, WorkerOK
  <2> QED BY <1>1, <1>5, <2>1 DEF WorkerCounts
<1>6. CASE WorkerWrites
  <2>1. StoreOK' /\ WorkerOK'
    BY <1>6 DEF WorkerWrites, StoreOK, WorkerOK, Status, Open
  <2> QED BY <1>1, <1>6, <2>1 DEF WorkerWrites
<1> QED BY <1>2, <1>3, <1>4, <1>5, <1>6 DEF WorkerStep

LEMMA TargetStepType ==
  ASSUME TypeOK, NEW x \in Targets, TargetStep(x) PROVE TypeOK'
<1> USE TypeGroups, TypeGroupsPrime, Unchanged
<1>1. CASE TargetStarts(x)
  <2> DEFINE g == run[x].g
             n == IF x \in Remote /\ <<x, g>> \notin ident THEN 0 ELSE sent[x][g] + 1
  <2>1. g \in Gens /\ n \in Nat
    BY DEF RunOK, Run, OwnerOK
  <2>2. [run[x] EXCEPT !.s = "exec", !.n = n] \in Run
    BY <2>1 DEF RunOK, Run
  <2>3. /\ run' = [run EXCEPT ![x] = [run[x] EXCEPT !.s = "exec", !.n = n]]
        /\ sent' = [sent EXCEPT ![x][g] = IF n = 0 THEN @ ELSE n]
        /\ flight' = IF n = 0 THEN flight ELSE flight \cup {<<x, g, n>>}
        /\ UNCHANGED <<busy, jour, effects, unclear>>
    BY <1>1 DEF TargetStarts, RunOK
  <2> HIDE DEF g, n
  <2>4. RunOK'
    BY <2>2, <2>3 DEF RunOK
  <2>5. OwnerOK'
    BY <2>1, <2>3 DEF OwnerOK, Requests
  <2>6. StoreOK'
    <3>1. st' \in [Targets -> TargetStatus]
      BY <1>1, RecordType DEF TargetStarts, TargetStatus, Open
    <3> QED BY <1>1, <3>1 DEF TargetStarts, StoreOK
  <2> QED BY <1>1, <2>4, <2>5, <2>6 DEF TargetStarts
<1>2. CASE TargetGone(x)
  BY <1>2, TargetEndsType DEF TargetGone
<1>3. ASSUME NEW s \in TargetStatus, Record(x, s), TargetEnds(x),
             UNCHANGED <<status, gen, up, queue, ident, workerVars, handlerVars, budgets>>,
             OwnerOK'
      PROVE  TypeOK'
  <2>1. StoreOK'
    BY <1>3, RecordType DEF StoreOK
  <2> QED BY <1>3, <2>1, TargetEndsType
<1>4. CASE TargetAnswered(x)
  <2>1. run[x].a \in TargetStatus
    BY <1>4 DEF TargetAnswered, RunOK, Run, Answers, TargetStatus
  <2> QED BY <1>3, <1>4, <2>1 DEF TargetAnswered
<1>5. CASE TargetUnavailable(x)
  <2>1. OwnerOK'
    BY <1>5 DEF TargetUnavailable, OwnerOK
  <2> QED BY <1>3, <1>5, <2>1 DEF TargetUnavailable, TargetStatus
<1>6. CASE TargetTimesOut(x)
  BY <1>3, <1>6 DEF TargetTimesOut, TargetStatus
<1> QED BY <1>1, <1>2, <1>4, <1>5, <1>6 DEF TargetStep

LEMMA OwnerStepType ==
  ASSUME TypeOK, NEW m \in flight \cup busy, OwnerStep(m) PROVE TypeOK'
<1> USE TypeGroups, TypeGroupsPrime, Unchanged
<1>1. m \in Requests /\ m[1] \in Targets /\ m[2] \in Gens /\ Op(m) \in Ops
  BY DEF OwnerOK, Requests, Op, Ops
<1>2. StoreOK' /\ WorkerOK' /\ HandlerOK'
  BY DEF OwnerStep, OwnerRepeats, OwnerDenies, OwnerBegins, OwnerSucceeds, OwnerRefuses,
         ReconcileFails, OwnerCut, ownerUnchanged
<1>3. BudgetOK'
  BY BatchConstants
     DEF OwnerStep, OwnerRepeats, OwnerDenies, OwnerBegins, OwnerSucceeds, OwnerRefuses,
         ReconcileFails, OwnerCut, ownerUnchanged, Cut, BudgetOK
<1>4. RunOK'
  <2>1. {"SUCCESS", "FAILED", "UNAVAILABLE"} \subseteq Answers
    BY DEF Answers
  <2>2. CASE OwnerRepeats(m)
    <3>1. jour[m[1]][m[2]] \in Answers
      BY <2>1, <2>2 DEF OwnerRepeats, Finished
    <3> QED BY <1>1, <2>2, <3>1, AnswerType DEF OwnerRepeats
  <2>3. CASE OwnerCut(m)
    <3>1. PICK a \in {"UNAVAILABLE", "FAILED"} : Answer(m, a)
      BY <2>3 DEF OwnerCut
    <3> QED BY <1>1, <2>1, <3>1, AnswerType
  <2> QED BY <1>1, <2>1, <2>2, <2>3, AnswerType
          DEF OwnerStep, OwnerDenies, OwnerBegins, OwnerSucceeds, OwnerRefuses, ReconcileFails
<1>5. OwnerOK'
  <2>1. flight' \subseteq Requests /\ busy' \subseteq Requests /\ unclear' \subseteq Ops
    BY <1>1 DEF OwnerStep, OwnerRepeats, OwnerDenies, OwnerBegins, OwnerSucceeds, OwnerRefuses,
                ReconcileFails, OwnerCut, OwnerOK
  <2>2. sent' = sent
    BY DEF OwnerStep, OwnerRepeats, OwnerDenies, OwnerBegins, OwnerSucceeds, OwnerRefuses,
           ReconcileFails, OwnerCut, ownerUnchanged
  <2>3. jour' \in [Targets -> [Gens -> {"none", "PENDING", "SUCCESS", "FAILED"}]]
    BY <1>1, JournalType
       DEF OwnerStep, OwnerRepeats, OwnerDenies, OwnerBegins, OwnerSucceeds, OwnerRefuses,
           ReconcileFails, OwnerCut, OwnerOK
  <2>4. effects' \in [Targets -> [Gens -> Nat]]
    BY <1>1, CarryOutType
       DEF OwnerStep, OwnerRepeats, OwnerDenies, OwnerBegins, OwnerSucceeds, OwnerRefuses,
           ReconcileFails, OwnerCut, OwnerOK
  <2> QED BY <2>1, <2>2, <2>3, <2>4 DEF OwnerOK
<1> QED BY <1>2, <1>3, <1>4, <1>5

LEMMA AgentType ==
  ASSUME TypeOK, AgentStops \/ AgentStarts PROVE TypeOK'
<1> USE TypeGroups, TypeGroupsPrime, Unchanged
<1>1. CASE AgentStops
  <2>1. WorkerOK'
    BY <1>1 DEF AgentStops, WorkerOK, Status, Open
  <2>2. RunOK' /\ HandlerOK'
    BY <1>1, FirstValues DEF AgentStops, RunOK, HandlerOK
  <2>3. OwnerOK'
    <3>1. flight' \subseteq Requests /\ busy' \subseteq Requests
      BY <1>1 DEF AgentStops, OwnerOK
    <3>2. unclear' \subseteq Ops
      BY <1>1 DEF AgentStops, OwnerOK, Local, Op, Ops, Requests
    <3>3. effects' \in [Targets -> [Gens -> Nat]]
      BY <1>1 DEF AgentStops, OwnerOK
    <3> QED BY <1>1, <3>1, <3>2, <3>3 DEF AgentStops, OwnerOK
  <2>4. BudgetOK'
    BY <1>1, BatchConstants DEF AgentStops, BudgetOK
  <2> QED BY <1>1, <2>1, <2>2, <2>3, <2>4 DEF AgentStops
<1>2. CASE AgentStarts
  <2>1. WorkerOK'
    BY <1>2 DEF AgentStarts, workerVars, WorkerOK
  <2> QED BY <1>2, <2>1 DEF AgentStarts
<1> QED BY <1>1, <1>2

\* Every reachable state is well typed, for any batches, targets, handlers
\* and bounds.
THEOREM BatchTypeCorrect == Spec => []TypeOK
<1>1. TypeOK /\ [Next]_vars => TypeOK'
  <2> SUFFICES ASSUME TypeOK, [Next]_vars PROVE TypeOK'
    OBVIOUS
  <2>1. CASE UNCHANGED vars
    BY <2>1, TypeGroups, TypeGroupsPrime, Unchanged DEF vars
  <2> QED BY <2>1, RequestType, HandlerStepType, WorkerStepType, TargetStepType, OwnerStepType,
             AgentType DEF Next
<1> QED BY <1>1, InitType, PTL DEF Spec
-----------------------------------------------------------------------------
(***************************************************************************)
(* An operation is carried out at most once.                               *)
(***************************************************************************)
\* The inductive invariant: unless something of an operation was lost, the
\* journal tells how often it was carried out, and one request of it at most
\* is being carried out, with the journal entry PENDING.
Journaled ==
  \A x \in Targets, g \in Gens : <<x, g>> \notin unclear =>
    /\ effects[x][g] = IF jour[x][g] = "SUCCESS" THEN 1 ELSE 0
    /\ \A m \in busy : Op(m) = <<x, g>> => jour[x][g] = "PENDING"
    /\ \A m, k \in busy : Op(m) = <<x, g>> /\ Op(k) = <<x, g>> => m = k

opVars == <<busy, jour, effects, unclear>>

\* What an owner's step does not touch stays journaled.
LEMMA JournaledUnchanged == Journaled /\ UNCHANGED opVars => Journaled'
BY DEF Journaled, opVars

\* Journal and CarryOut touch the entry of their own operation only.
LEMMA OtherEntries ==
  ASSUME OwnerOK, NEW m \in Requests, NEW x \in Targets, NEW g \in Gens, Op(m) # <<x, g>>
  PROVE  /\ \A s : Journal(m, s) => jour'[x][g] = jour[x][g]
         /\ CarryOut(m) => effects'[x][g] = effects[x][g]
BY DEF OwnerOK, Requests, Op, Journal, CarryOut

LEMMA OwnEntry ==
  ASSUME OwnerOK, NEW m \in Requests, NEW x \in Targets, NEW g \in Gens, Op(m) = <<x, g>>
  PROVE  /\ jour[m[1]][m[2]] = jour[x][g]
         /\ \A s : Journal(m, s) => jour'[x][g] = s
         /\ CarryOut(m) => effects'[x][g] = effects[x][g] + 1
BY DEF OwnerOK, Requests, Op, Journal, CarryOut

LEMMA OwnerStepJournaled ==
  ASSUME OwnerOK, Journaled, NEW m \in flight \cup busy, OwnerStep(m) PROVE Journaled'
<1>1. m \in Requests
  BY DEF OwnerOK
<1> SUFFICES ASSUME NEW x \in Targets, NEW g \in Gens, <<x, g>> \notin unclear'
             PROVE  /\ effects'[x][g] = IF jour'[x][g] = "SUCCESS" THEN 1 ELSE 0
                    /\ \A k \in busy' : Op(k) = <<x, g>> => jour'[x][g] = "PENDING"
                    /\ \A j, k \in busy' : Op(j) = <<x, g>> /\ Op(k) = <<x, g>> => j = k
  BY DEF Journaled, Op
<1>2. <<x, g>> \notin unclear
  BY DEF OwnerStep, OwnerRepeats, OwnerDenies, OwnerBegins, OwnerSucceeds, OwnerRefuses,
         ReconcileFails, OwnerCut
<1>3. /\ effects[x][g] = IF jour[x][g] = "SUCCESS" THEN 1 ELSE 0
      /\ \A k \in busy : Op(k) = <<x, g>> => jour[x][g] = "PENDING"
      /\ \A j, k \in busy : Op(j) = <<x, g>> /\ Op(k) = <<x, g>> => j = k
  BY <1>2 DEF Journaled
<1>4. CASE OwnerRepeats(m) \/ OwnerDenies(m)
  BY <1>3, <1>4 DEF OwnerRepeats, OwnerDenies
<1>5. CASE OwnerBegins(m)
  <2>1. CASE Op(m) = <<x, g>>
    <3>1. \A k \in busy : Op(k) # <<x, g>>
      BY <1>5, <2>1 DEF OwnerBegins
    <3>2. jour[x][g] # "SUCCESS" /\ jour'[x][g] = "PENDING"
      BY <1>1, <1>5, <2>1, OwnEntry DEF OwnerBegins, Finished
    <3> QED BY <1>3, <1>5, <3>1, <3>2 DEF OwnerBegins
  <2>2. CASE Op(m) # <<x, g>>
    <3>1. jour'[x][g] = jour[x][g]
      BY <1>1, <1>5, <2>2, OtherEntries DEF OwnerBegins
    <3> QED BY <1>3, <1>5, <2>2, <3>1 DEF OwnerBegins
  <2> QED BY <2>1, <2>2
<1>6. CASE OwnerSucceeds(m)
  <2>1. CASE Op(m) = <<x, g>>
    <3>1. \A k \in busy' : Op(k) # <<x, g>>
      BY <1>3, <1>6, <2>1 DEF OwnerSucceeds
    <3>2. effects[x][g] = 0 /\ effects'[x][g] = effects[x][g] + 1 /\ jour'[x][g] = "SUCCESS"
      BY <1>1, <1>3, <1>6, <2>1, OwnEntry DEF OwnerSucceeds
    <3> QED BY <3>1, <3>2
  <2>2. CASE Op(m) # <<x, g>>
    <3>1. jour'[x][g] = jour[x][g] /\ effects'[x][g] = effects[x][g]
      BY <1>1, <1>6, <2>2, OtherEntries DEF OwnerSucceeds
    <3> QED BY <1>3, <1>6, <3>1 DEF OwnerSucceeds
  <2> QED BY <2>1, <2>2
<1>7. CASE OwnerRefuses(m)
  <2>1. CASE Op(m) = <<x, g>>
    <3>1. \A k \in busy' : Op(k) # <<x, g>>
      BY <1>3, <1>7, <2>1 DEF OwnerRefuses
    <3>2. effects[x][g] = 0 /\ effects'[x][g] = effects[x][g] /\ jour'[x][g] = "FAILED"
      BY <1>1, <1>3, <1>7, <2>1, OwnEntry DEF OwnerRefuses
    <3> QED BY <3>1, <3>2
  <2>2. CASE Op(m) # <<x, g>>
    <3>1. jour'[x][g] = jour[x][g] /\ effects'[x][g] = effects[x][g]
      BY <1>1, <1>7, <2>2, OtherEntries DEF OwnerRefuses
    <3> QED BY <1>3, <1>7, <3>1 DEF OwnerRefuses
  <2> QED BY <2>1, <2>2
<1>8. CASE ReconcileFails(m)
  <2>1. Op(m) # <<x, g>>
    BY <1>8 DEF ReconcileFails
  <2>2. jour'[x][g] = jour[x][g] /\ effects'[x][g] = effects[x][g]
    BY <1>1, <1>8, <2>1, OtherEntries DEF ReconcileFails
  <2> QED BY <1>3, <1>8, <2>2 DEF ReconcileFails
<1>9. CASE OwnerCut(m)
  <2>1. Op(m) # <<x, g>>
    BY <1>9 DEF OwnerCut
  <2>2. jour'[x][g] = jour[x][g] /\ effects'[x][g] = effects[x][g]
    BY <1>1, <1>9, <2>1, OtherEntries DEF OwnerCut
  <2> QED BY <1>3, <1>9, <2>2 DEF OwnerCut
<1> QED BY <1>4, <1>5, <1>6, <1>7, <1>8, <1>9 DEF OwnerStep

LEMMA AgentStopsJournaled ==
  ASSUME OwnerOK, Journaled, AgentStops PROVE Journaled'
<1> SUFFICES ASSUME NEW x \in Targets, NEW g \in Gens, <<x, g>> \notin unclear'
             PROVE  /\ effects'[x][g] = IF jour'[x][g] = "SUCCESS" THEN 1 ELSE 0
                    /\ \A k \in busy' : Op(k) = <<x, g>> => jour'[x][g] = "PENDING"
                    /\ \A j, k \in busy' : Op(j) = <<x, g>> /\ Op(k) = <<x, g>> => j = k
  BY DEF Journaled, Op
<1>1. <<x, g>> \notin unclear /\ \A m \in Local(busy) : Op(m) # <<x, g>>
  BY DEF AgentStops
<1>2. effects'[x][g] = effects[x][g]
  BY <1>1 DEF AgentStops, OwnerOK
<1>3. jour' = jour /\ busy' \subseteq busy
  BY DEF AgentStops
<1> QED BY <1>1, <1>2, <1>3 DEF Journaled

LEMMA NextJournaled == TypeOK /\ Journaled /\ [Next]_vars => Journaled'
<1> SUFFICES ASSUME TypeOK, Journaled, [Next]_vars PROVE Journaled'
  OBVIOUS
<1>1. OwnerOK
  BY TypeGroups
<1>2. CASE WorkerStep
  BY <1>2, JournaledUnchanged
     DEF WorkerStep, WorkerTakes, WorkerReads, WorkerMarks, WorkerCounts, WorkerWrites,
         ownerVars, opVars
<1>3. ASSUME NEW x \in Targets, TargetStep(x) PROVE Journaled'
  BY <1>3, JournaledUnchanged
     DEF TargetStep, TargetStarts, TargetGone, TargetAnswered, TargetUnavailable,
         TargetTimesOut, ownerVars, opVars
<1>4. ASSUME NEW h \in Handlers, NewRequest(h) \/ HandlerStep(h) \/ RequestCancelled(h)
      PROVE  Journaled'
  BY <1>4, JournaledUnchanged
     DEF NewRequest, CreateBatch, BeginReset, HandlerStep, ResetTarget, ResetRefused, EndReset,
         MarkRunning, Enqueue, Remember, RequestCancelled, ownerVars, opVars
<1>5. CASE AgentStarts
  BY <1>5, JournaledUnchanged DEF AgentStarts, ownerVars, opVars
<1>6. CASE UNCHANGED vars
  BY <1>6, JournaledUnchanged DEF vars, ownerVars, opVars
<1> QED BY <1>1, <1>2, <1>3, <1>4, <1>5, <1>6, OwnerStepJournaled, AgentStopsJournaled DEF Next

\* An operation id is carried out at most once, for any number of replays,
\* restarts and late deliveries, unless an execution of it was cut before
\* finishOp had journaled its result or two executions overlapped.
THEOREM CarriedOutOnce == Spec => []EffectOnceUnlessUnclear
<1>1. Init => Journaled
  BY DEF Init, Journaled
<1>2. Journaled => EffectOnceUnlessUnclear
  BY DEF Journaled, EffectOnceUnlessUnclear
<1> QED BY <1>1, <1>2, BatchTypeCorrect, NextJournaled, PTL DEF Spec
-----------------------------------------------------------------------------
(***************************************************************************)
(* A recorded SUCCESS is real.                                             *)
(***************************************************************************)
\* The inductive invariant: a SUCCESS in the journal, on its way to the
\* goroutine or in the target row stands for an operation carried out.
Real ==
  /\ \A x \in Targets, g \in Gens : jour[x][g] = "SUCCESS" => effects[x][g] > 0
  /\ \A x \in Targets : run[x].a = "SUCCESS" => effects[x][run[x].g] > 0
  /\ \A x \in Targets : st[x] = "SUCCESS" => effects[x][gen[x]] > 0

LEMMA RealUnchanged ==
  Real /\ UNCHANGED <<gen, st, run, jour, effects>> => Real'
BY DEF Real

\* runTarget records SUCCESS only when that is the answer it has.
LEMMA RecordReal ==
  ASSUME TypeOK, Real, NEW x \in Targets, NEW s, Record(x, s),
         s = "SUCCESS" => run[x].a = "SUCCESS",
         UNCHANGED <<gen, effects>>
  PROVE  \A y \in Targets : st'[y] = "SUCCESS" => effects'[y][gen'[y]] > 0
<1>1. \A y \in Targets : st'[y] = "SUCCESS" =>
        st[y] = "SUCCESS" \/ (y = x /\ OwnsRow(x) /\ s = "SUCCESS")
  BY DEF Record, TypeOK
<1> QED BY <1>1 DEF Real, OwnsRow

LEMMA TargetStepReal ==
  ASSUME TypeOK, Real, NEW x \in Targets, TargetStep(x) PROVE Real'
<1>1. gen' = gen /\ jour' = jour /\ effects' = effects
  BY DEF TargetStep, TargetStarts, TargetGone, TargetAnswered, TargetUnavailable, TargetTimesOut,
         storeVars, ownerVars
<1>2. \A y \in Targets : run'[y].a = "SUCCESS" => run[y].a = "SUCCESS" /\ run'[y].g = run[y].g
  <2>1. CASE TargetStarts(x)
    <3>1. PICK n : run' = [run EXCEPT ![x] = [run[x] EXCEPT !.s = "exec", !.n = n]]
      BY <2>1 DEF TargetStarts, TypeOK
    <3>2. run \in [Targets -> Run]
      BY DEF TypeOK
    <3> QED BY <3>1, <3>2 DEF Run
  <2>2. CASE TargetEnds(x)
    BY <2>2 DEF TargetEnds, TypeOK, Idle
  <2> QED BY <2>1, <2>2
          DEF TargetStep, TargetGone, TargetAnswered, TargetUnavailable, TargetTimesOut
<1>3. \A y \in Targets : st'[y] = "SUCCESS" => effects'[y][gen'[y]] > 0
  <2>1. CASE TargetGone(x)
    BY <1>1, <2>1 DEF TargetGone, storeVars, Real
  <2> QED BY <1>1, <2>1, RecordReal
          DEF TargetStep, TargetStarts, TargetAnswered, TargetUnavailable, TargetTimesOut
<1> QED BY <1>1, <1>2, <1>3 DEF Real

\* Nothing carried out is undone.
LEMMA EffectsGrow ==
  ASSUME TypeOK, AgentStops \/ \E m \in flight \cup busy : OwnerStep(m)
  PROVE  \A x \in Targets, g \in Gens : effects[x][g] > 0 => effects'[x][g] > 0
<1>1. effects \in [Targets -> [Gens -> Nat]] /\ flight \cup busy \subseteq Requests
  BY DEF TypeOK
<1>2. CASE AgentStops
  BY <1>1, <1>2 DEF AgentStops
<1>3. ASSUME NEW m \in flight \cup busy, OwnerStep(m)
      PROVE  \A x \in Targets, g \in Gens : effects[x][g] > 0 => effects'[x][g] > 0
  <2>1. CASE CarryOut(m)
    BY <1>1, <2>1 DEF CarryOut, Requests
  <2> QED BY <1>3, <2>1
          DEF OwnerStep, OwnerRepeats, OwnerDenies, OwnerBegins, OwnerSucceeds, OwnerRefuses,
              ReconcileFails, OwnerCut
<1> QED BY <1>2, <1>3

LEMMA OwnerStepReal ==
  ASSUME TypeOK, Real, NEW m \in flight \cup busy, OwnerStep(m) PROVE Real'
<1>1. m \in Requests /\ m[1] \in Targets /\ m[2] \in Gens /\ OwnerOK
  BY TypeGroups DEF OwnerOK, Requests
<1>2. \A x \in Targets, g \in Gens : effects[x][g] > 0 => effects'[x][g] > 0
  BY EffectsGrow
<1>3. \A x \in Targets, g \in Gens : jour'[x][g] = "SUCCESS" => effects'[x][g] > 0
  <2>1. CASE OwnerRepeats(m) \/ OwnerDenies(m) \/ OwnerCut(m)
    BY <1>2, <2>1 DEF OwnerRepeats, OwnerDenies, OwnerCut, Real
  <2>2. ASSUME NEW s, Journal(m, s), s # "SUCCESS"
        PROVE  \A x \in Targets, g \in Gens : jour'[x][g] = "SUCCESS" => effects'[x][g] > 0
    <3> TAKE x \in Targets, g \in Gens
    <3>1. CASE Op(m) = <<x, g>>
      BY <1>1, <2>2, <3>1, OwnEntry
    <3>2. CASE Op(m) # <<x, g>>
      <4>1. jour'[x][g] = jour[x][g]
        BY <1>1, <2>2, <3>2, OtherEntries
      <4> QED BY <1>2, <4>1 DEF Real
    <3> QED BY <3>1, <3>2
  <2>3. ASSUME Journal(m, "SUCCESS"), CarryOut(m)
        PROVE  \A x \in Targets, g \in Gens : jour'[x][g] = "SUCCESS" => effects'[x][g] > 0
    <3> TAKE x \in Targets, g \in Gens
    <3>1. CASE Op(m) = <<x, g>>
      <4>1. effects'[x][g] = effects[x][g] + 1 /\ effects[x][g] \in Nat
        BY <1>1, <2>3, <3>1, OwnEntry DEF OwnerOK
      <4> QED BY <4>1
    <3>2. CASE Op(m) # <<x, g>>
      <4>1. jour'[x][g] = jour[x][g]
        BY <1>1, <2>3, <3>2, OtherEntries
      <4> QED BY <1>2, <4>1 DEF Real
    <3> QED BY <3>1, <3>2
  <2> QED BY <2>1, <2>2, <2>3 DEF OwnerStep, OwnerBegins, OwnerSucceeds, OwnerRefuses, ReconcileFails
<1>4. ASSUME NEW a, Answer(m, a), a = "SUCCESS" => effects'[m[1]][m[2]] > 0
      PROVE  \A x \in Targets : run'[x].a = "SUCCESS" => effects'[x][run'[x].g] > 0
  <2>1. \A x \in Targets : run[x] \in Run /\ run[x].g \in Gens
    BY DEF TypeOK, Run
  <2>2. \A x \in Targets : run[x].a = "SUCCESS" => effects'[x][run[x].g] > 0
    BY <1>2, <2>1 DEF Real
  <2>3. CASE ~Waiting(m)
    BY <1>4, <2>2, <2>3 DEF Answer
  <2>4. CASE Waiting(m)
    <3>1. run' = [run EXCEPT ![m[1]] = [run[m[1]] EXCEPT !.a = a]] /\ run[m[1]].g = m[2]
      BY <1>4, <2>4 DEF Answer, Waiting
    <3>2. run'[m[1]].a = a /\ run'[m[1]].g = m[2]
      BY <1>1, <2>1, <3>1 DEF TypeOK, Run
    <3>3. \A x \in Targets \ {m[1]} : run'[x] = run[x]
      BY <3>1 DEF TypeOK
    <3> QED BY <1>4, <2>2, <3>2, <3>3
  <2> QED BY <2>3, <2>4
<1>5. \A x \in Targets : run'[x].a = "SUCCESS" => effects'[x][run'[x].g] > 0
  <2>1. CASE OwnerRepeats(m)
    <3>1. jour' = jour /\ Answer(m, jour[m[1]][m[2]])
      BY <2>1 DEF OwnerRepeats
    <3> QED BY <1>1, <1>3, <1>4, <3>1
  <2>2. CASE OwnerBegins(m)
    <3>1. \A x \in Targets : run[x].g \in Gens
      BY DEF TypeOK, Run
    <3> QED BY <1>2, <2>2, <3>1 DEF OwnerBegins, Real
  <2>3. CASE OwnerSucceeds(m)
    <3>1. effects'[m[1]][m[2]] = effects[m[1]][m[2]] + 1 /\ effects[m[1]][m[2]] \in Nat
      BY <1>1, <2>3 DEF OwnerSucceeds, CarryOut, OwnerOK
    <3> QED BY <1>4, <2>3, <3>1 DEF OwnerSucceeds
  <2>4. CASE OwnerDenies(m) \/ OwnerRefuses(m) \/ ReconcileFails(m) \/ OwnerCut(m)
    BY <1>4, <2>4 DEF OwnerDenies, OwnerRefuses, ReconcileFails, OwnerCut
  <2> QED BY <2>1, <2>2, <2>3, <2>4 DEF OwnerStep
<1>6. st' = st /\ gen' = gen
  BY DEF OwnerStep, OwnerRepeats, OwnerDenies, OwnerBegins, OwnerSucceeds, OwnerRefuses,
         ReconcileFails, OwnerCut, ownerUnchanged, storeVars
<1>7. \A x \in Targets : st'[x] = "SUCCESS" => effects'[x][gen'[x]] > 0
  BY <1>2, <1>6 DEF Real, TypeOK
<1> QED BY <1>3, <1>5, <1>7 DEF Real

\* A row that is created or reset is not SUCCESS; the others keep their id.
LEMMA HandlerReal ==
  ASSUME TypeOK, Real, NEW h \in Handlers,
         NewRequest(h) \/ HandlerStep(h) \/ RequestCancelled(h)
  PROVE  Real'
<1>1. ASSUME NEW b \in Batches, CreateBatch(h, b) PROVE Real'
  <2>1. PICK f \in [TargetsOf(b) -> InitStatuses] :
          st' = [x \in Targets |-> IF BatchOf[x] = b THEN f[x] ELSE st[x]]
    BY <1>1 DEF CreateBatch
  <2>2. \A x \in Targets : st'[x] = "SUCCESS" => st[x] = "SUCCESS"
    BY <2>1, BatchConstants DEF TargetsOf
  <2> QED BY <1>1, <2>2 DEF CreateBatch, ownerVars, Real
<1>2. ASSUME NEW x \in Targets, ResetTarget(h, x) PROVE Real'
  <2>1. \A y \in Targets : st'[y] = "SUCCESS" => st[y] = "SUCCESS" /\ gen'[y] = gen[y]
    BY <1>2 DEF ResetTarget, TypeOK
  <2> QED BY <1>2, <2>1 DEF ResetTarget, ownerVars, Real
<1>3. UNCHANGED <<gen, st, run, jour, effects>> => Real'
  BY RealUnchanged
<1> QED BY <1>1, <1>2, <1>3
        DEF NewRequest, BeginReset, HandlerStep, ResetRefused, EndReset, MarkRunning, Enqueue,
            Remember, RequestCancelled, storeVars, ownerVars

LEMMA WorkerStepReal ==
  ASSUME TypeOK, Real, WorkerStep PROVE Real'
<1>1. CASE WorkerReads
  <2>1. \A x \in Targets : run'[x].a = "SUCCESS" => run'[x] = run[x]
    BY <1>1 DEF WorkerReads, Idle
  <2> QED BY <1>1, <2>1 DEF WorkerReads, storeVars, ownerVars, Real
<1>2. UNCHANGED <<gen, st, run, jour, effects>> => Real'
  BY RealUnchanged
<1> QED BY <1>1, <1>2
        DEF WorkerStep, WorkerTakes, WorkerMarks, WorkerCounts, WorkerWrites, storeVars, ownerVars

LEMMA AgentReal ==
  ASSUME TypeOK, Real, AgentStops \/ AgentStarts PROVE Real'
<1>1. CASE AgentStops
  <2>1. \A x \in Targets, g \in Gens : effects[x][g] > 0 => effects'[x][g] > 0
    BY <1>1, EffectsGrow
  <2>2. st' = st /\ gen' = gen /\ jour' = jour /\ \A x \in Targets : run'[x].a = "none"
    BY <1>1 DEF AgentStops, storeVars, Idle
  <2> QED BY <2>1, <2>2 DEF Real, TypeOK
<1>2. CASE AgentStarts
  BY <1>2, RealUnchanged DEF AgentStarts, storeVars, ownerVars
<1> QED BY <1>1, <1>2

\* A target recorded SUCCESS was carried out under the operation id its row
\* shows, for any number of operators, retries, replays and restarts.
THEOREM SuccessReal == Spec => []SuccessIsReal
<1>1. Init => Real
  BY DEF Init, Real, Idle
<1>2. TypeOK /\ Real /\ [Next]_vars => Real'
  <2> SUFFICES ASSUME TypeOK, Real, [Next]_vars PROVE Real'
    OBVIOUS
  <2>1. CASE UNCHANGED vars
    BY <2>1, RealUnchanged DEF vars, storeVars, ownerVars
  <2> QED BY <2>1, TargetStepReal, OwnerStepReal, HandlerReal, WorkerStepReal, AgentReal DEF Next
<1>3. Real => SuccessIsReal
  BY DEF Real, SuccessIsReal
<1> QED BY <1>1, <1>2, <1>3, BatchTypeCorrect, PTL DEF Spec

-----------------------------------------------------------------------------
(***************************************************************************)
(* A target is carried out under two ids only if something of it was lost. *)
(***************************************************************************)
\* Of a batch that is not inserted nothing is known outside Expand.
Unborn(b) ==
  status[b] = "none" =>
    /\ queue[b] = 0 /\ wb # b /\ \A h \in Handlers : hb[h] # b
    /\ \A x \in TargetsOf(b) :
         /\ st[x] = "PENDING" /\ run[x].s = "none" /\ sent[x][gen[x]] = 0
         /\ \A h \in Handlers : x \notin htodo[h]

\* A row's id only goes up.
ReadBefore == \A h \in Handlers : \A x \in htodo[h] : hgen[h][x] <= gen[x]

\* Requests are numbered; none is sent under an id the row has not had yet.
Numbered ==
  /\ flight \cap busy = {}
  /\ \A m \in flight \cup busy : 1 <= m[3] /\ m[3] <= sent[m[1]][m[2]]
  /\ \A x \in Targets, g \in Gens : g > gen[x] => sent[x][g] = 0

\* The owner knows nothing of an operation whose one request has not arrived.
Unopened ==
  \A x \in Targets, g \in Gens :
    sent[x][g] <= 1 /\ <<x, g>> \notin unclear /\ (sent[x][g] = 0 \/ <<x, g, 1>> \in flight)
    => jour[x][g] = "none" /\ \A m \in busy : Op(m) # <<x, g>>

Clear(x) == \A g \in Gens : sent[x][g] <= 1 /\ <<x, g>> \notin unclear

\* The operation was not carried out and no request of it is left.
Dead(x, g) == effects[x][g] = 0 /\ \A m \in flight \cup busy : Op(m) # <<x, g>>

\* The row was inserted FAILED or UNAVAILABLE and nobody but retries has read it.
Fresh(x) ==
  run[x].s = "none" /\ isRetryableTarget(st[x]) /\ \A h \in Handlers : x \in htodo[h] => hkind[h] = "retry"

Retried(h, x) == hkind[h] = "retry" /\ x \in htodo[h] /\ hgen[h][x] = gen[x]

\* What a retry may give up: the operation is dead and will not be sent.
DeadWhenRetried(x) ==
  (status[BatchOf[x]] # "none" /\ isRetryableTarget(st[x])) \/ (\E h \in Handlers : Retried(h, x))
  => Dead(x, gen[x]) /\ (sent[x][gen[x]] = 1 \/ Fresh(x))

OneLives(x) ==
  Clear(x) =>
    /\ \A g \in Gens : g < gen[x] => Dead(x, g)
    /\ isRetryableTarget(run[x].a) => Dead(x, run[x].g) /\ sent[x][run[x].g] = 1
    /\ DeadWhenRetried(x)

OnceInv ==
  /\ \A b \in Batches : Unborn(b)
  /\ ReadBefore /\ Numbered /\ Unopened
  /\ \A x \in Targets : OneLives(x)

\* What a step of an owner leaves alone: a goroutine only gets its answer.
LEMMA OwnerStepFrame ==
  ASSUME TypeOK, NEW m \in flight \cup busy, OwnerStep(m)
  PROVE  /\ UNCHANGED <<status, gen, st, up, queue, ident, wpc, wb, wstat, hpc, hb, hkind, htodo, hdone, hgen, sent>>
         /\ \A x \in Targets : run'[x].s = run[x].s /\ run'[x].g = run[x].g
         /\ \A x \in Targets : ~(x = m[1] /\ Waiting(m)) => run'[x] = run[x]
<1>1. UNCHANGED <<status, gen, st, up, queue, ident, wpc, wb, wstat, hpc, hb, hkind, htodo, hdone, hgen, sent>>
  BY DEF OwnerStep, OwnerRepeats, OwnerDenies, OwnerBegins, OwnerSucceeds, OwnerRefuses,
         ReconcileFails, OwnerCut, ownerUnchanged, storeVars, workerVars, handlerVars
<1>2. run' = run \/ \E a : Answer(m, a)
  BY DEF OwnerStep, OwnerRepeats, OwnerDenies, OwnerBegins, OwnerSucceeds, OwnerRefuses,
         ReconcileFails, OwnerCut
<1>3. ASSUME NEW a, Answer(m, a), Waiting(m)
      PROVE  /\ \A x \in Targets : run'[x].s = run[x].s /\ run'[x].g = run[x].g
             /\ \A x \in Targets : x # m[1] => run'[x] = run[x]
  <2>1. m[1] \in Targets /\ run \in [Targets -> Run]
    BY DEF TypeOK, Requests
  <2>2. run' = [run EXCEPT ![m[1]] = [run[m[1]] EXCEPT !.a = a]]
    BY <1>3 DEF Answer
  <2> QED BY <2>1, <2>2 DEF Run
<1>4. ASSUME NEW a, Answer(m, a), ~Waiting(m) PROVE run' = run
  BY <1>4 DEF Answer
<1> QED BY <1>1, <1>2, <1>3, <1>4

LEMMA HandlerReturnsFrame ==
  ASSUME TypeOK, NEW h \in Handlers, HandlerReturns(h)
  PROVE  /\ \A k \in Handlers : hb'[k] = hb[k] \/ hb'[k] = NoBatch
         /\ \A k \in Handlers : htodo'[k] = {} \/ (k # h /\ htodo'[k] = htodo[k])
         /\ \A k \in Handlers : k # h => hkind'[k] = hkind[k] /\ hgen'[k] = hgen[k]
BY DEF TypeOK, HandlerReturns

\* A batch that is not inserted stays as it is.
LEMMA UnbornFrame ==
  ASSUME NEW b \in Batches, Unborn(b), status[b] = "none", b # NoBatch,
         queue'[b] = 0, wb' \in {wb, NoBatch}, \A h \in Handlers : hb'[h] \in {hb[h], NoBatch},
         \A x \in TargetsOf(b) : /\ st'[x] = st[x] /\ gen'[x] = gen[x] /\ run'[x].s = run[x].s
                                 /\ sent'[x][gen[x]] = sent[x][gen[x]]
                                 /\ \A h \in Handlers : x \in htodo'[h] => x \in htodo[h]
  PROVE  Unborn(b)'
BY DEF Unborn, TargetsOf

LEMMA UnbornWorker ==
  ASSUME TypeOK, NEW c \in Batches, Unborn(c), WorkerStep PROVE Unborn(c)'
<1>0. c # NoBatch /\ status \in [Batches -> Status \cup {"none"}] /\ queue \in [Batches -> Nat]
      /\ gen \in [Targets -> Gens]
  BY BatchConstants DEF TypeOK
<1> SUFFICES ASSUME status'[c] = "none" PROVE Unborn(c)'
  BY DEF Unborn
<1>1. ASSUME NEW b \in Batches, WorkerTakes(b) PROVE Unborn(c)'
  <2>1. status[c] = "none" /\ queue[c] = 0 /\ b # c /\ queue'[c] = 0 /\ wb' \in {wb, b}
    BY <1>0, <1>1 DEF WorkerTakes, storeVars, workerVars, Unborn
  <2> QED BY <1>1, <2>1 DEF WorkerTakes, storeVars, handlerVars, ownerVars, Unborn, TargetsOf
<1>2. CASE WorkerReads
  <2>1. status[c] = "none" /\ wb # c /\ \A x \in TargetsOf(c) : run'[x] = run[x]
    BY <1>2 DEF WorkerReads, storeVars, Unborn, TargetsOf
  <2> QED BY <1>0, <1>2, <2>1, UnbornFrame DEF WorkerReads, storeVars, handlerVars, ownerVars, Unborn
<1>3. CASE WorkerMarks \/ WorkerWrites
  <2>1. status[c] = "none"
    <3>1. wstat # "none"
      BY DEF TypeOK, Status, Open, Ended
    <3> QED BY <1>0, <1>3, <3>1 DEF WorkerMarks, WorkerWrites
  <2> QED BY <1>0, <1>3, <2>1, UnbornFrame DEF WorkerMarks, WorkerWrites, handlerVars, ownerVars, Unborn
<1>4. CASE WorkerCounts
  BY <1>0, <1>4, UnbornFrame DEF WorkerCounts, storeVars, handlerVars, ownerVars, Unborn
<1> QED BY <1>1, <1>2, <1>3, <1>4 DEF WorkerStep

LEMMA UnbornTarget ==
  ASSUME TypeOK, NEW c \in Batches, Unborn(c), NEW x \in Targets, TargetStep(x) PROVE Unborn(c)'
<1>0. c # NoBatch
  BY BatchConstants
<1> SUFFICES ASSUME status'[c] = "none" PROVE Unborn(c)'
  BY DEF Unborn
<1>1. /\ UNCHANGED <<status, gen, queue, wb, hb, htodo>> /\ run[x].s # "none"
      /\ \A y \in Targets \ {x} : st'[y] = st[y] /\ run'[y] = run[y] /\ sent'[y] = sent[y]
  <2>1. CASE TargetStarts(x)
    BY <2>1 DEF TargetStarts, Record, workerVars, handlerVars, TypeOK
  <2> QED BY <2>1 DEF TargetStep, TargetGone, TargetAnswered, TargetUnavailable, TargetTimesOut,
             Executing, TargetEnds, Record, storeVars, workerVars, handlerVars, ownerVars, TypeOK
<1>2. x \notin TargetsOf(c)
  BY <1>1 DEF Unborn
<1> QED BY <1>0, <1>1, <1>2, UnbornFrame DEF Unborn, TargetsOf

LEMMA UnbornRequest ==
  ASSUME TypeOK, NEW c \in Batches, Unborn(c), NEW h \in Handlers, NewRequest(h) PROVE Unborn(c)'
<1> SUFFICES ASSUME status'[c] = "none" PROVE Unborn(c)'
  BY DEF Unborn
<1>1. ASSUME NEW b \in Batches, CreateBatch(h, b) PROVE Unborn(c)'
  <2>1. b # c /\ status[c] = "none"
    BY <1>1 DEF CreateBatch, TypeOK
  <2>2. \A x \in TargetsOf(c) : st'[x] = st[x]
    BY <1>1, <2>1 DEF CreateBatch, TargetsOf
  <2>3. \A k \in Handlers : hb'[k] \in {hb[k], b}
    BY <1>1 DEF CreateBatch, TypeOK
  <2> QED BY <1>1, <2>1, <2>2, <2>3 DEF CreateBatch, Unborn, workerVars, ownerVars, TargetsOf
<1>2. ASSUME NEW b \in Batches, NEW kind, BeginReset(h, b, kind) PROVE Unborn(c)'
  <2>1. b # c /\ status[c] = "none"
    BY <1>2 DEF BeginReset, storeVars
  <2>2. \A k \in Handlers : hb'[k] \in {hb[k], b}
    BY <1>2 DEF BeginReset, TypeOK
  <2>3. \A k \in Handlers, x \in TargetsOf(c) : x \in htodo'[k] => x \in htodo[k]
    BY <1>2, <2>1 DEF BeginReset, TypeOK, TargetsOf
  <2> QED BY <1>2, <2>1, <2>2, <2>3 DEF BeginReset, Unborn, storeVars, workerVars, ownerVars, TargetsOf
<1> QED BY <1>1, <1>2 DEF NewRequest

LEMMA UnbornHandler ==
  ASSUME TypeOK, NEW c \in Batches, Unborn(c), NEW h \in Handlers, HandlerStep(h) \/ RequestCancelled(h)
  PROVE  Unborn(c)'
<1>0. c # NoBatch
  BY BatchConstants
<1> SUFFICES ASSUME status'[c] = "none" PROVE Unborn(c)'
  BY DEF Unborn
<1>1. ASSUME NEW x \in Targets, ResetTarget(h, x) PROVE Unborn(c)'
  <2>1. status[c] = "none" /\ x \notin TargetsOf(c)
    BY <1>1 DEF ResetTarget, Unborn
  <2>2. \A y \in TargetsOf(c) : st'[y] = st[y] /\ gen'[y] = gen[y]
    BY <1>1, <2>1 DEF ResetTarget, TypeOK, TargetsOf
  <2>3. \A k \in Handlers : htodo'[k] \subseteq htodo[k]
    BY <1>1 DEF ResetTarget, TypeOK
  <2> QED BY <1>0, <1>1, <2>1, <2>2, <2>3, UnbornFrame DEF ResetTarget, workerVars, ownerVars, Unborn
<1>2. ASSUME HandlerReturns(h), UNCHANGED <<status, gen, st, queue, wb, run, sent>> PROVE Unborn(c)'
  BY <1>0, <1>2, HandlerReturnsFrame, UnbornFrame DEF Unborn
<1>3. CASE MarkRunning(h)
  <2>1. status[c] = "none"
    BY <1>3 DEF MarkRunning, TypeOK
  <2> QED BY <1>0, <1>3, <2>1, UnbornFrame DEF MarkRunning, workerVars, ownerVars, Unborn
<1>4. CASE Enqueue(h)
  <2>1. status[c] = "none" /\ hb[h] # c
    BY <1>4 DEF Enqueue, storeVars, Unborn
  <2>2. queue'[c] = queue[c]
    BY <1>4, <2>1 DEF Enqueue, TypeOK
  <2> QED BY <1>0, <1>4, <2>1, <2>2, UnbornFrame DEF Enqueue, storeVars, workerVars, ownerVars, Unborn
<1>5. CASE EndReset(h)
  BY <1>0, <1>5, UnbornFrame DEF EndReset, storeVars, workerVars, ownerVars, Unborn
<1> QED BY <1>1, <1>2, <1>3, <1>4, <1>5
        DEF HandlerStep, ResetRefused, Remember, RequestCancelled, storeVars, workerVars, ownerVars

LEMMA UnbornAgent ==
  ASSUME TypeOK, NEW c \in Batches, Unborn(c), AgentStops \/ AgentStarts PROVE Unborn(c)'
<1>0. c # NoBatch
  BY BatchConstants
<1> SUFFICES ASSUME status'[c] = "none" PROVE Unborn(c)'
  BY DEF Unborn
<1>1. CASE AgentStops
  BY <1>0, <1>1 DEF AgentStops, storeVars, Unborn, TargetsOf, Idle
<1>2. CASE AgentStarts
  <2>1. status[c] = "none" /\ queue'[c] = 0
    BY <1>2 DEF AgentStarts, storeVars, ListIncompleteTargets
  <2> QED BY <1>0, <1>2, <2>1, UnbornFrame
          DEF AgentStarts, storeVars, workerVars, handlerVars, ownerVars, Unborn
<1> QED BY <1>1, <1>2

LEMMA NextUnborn ==
  ASSUME TypeOK, NEW c \in Batches, Unborn(c), [Next]_vars PROVE Unborn(c)'
<1>1. ASSUME NEW m \in flight \cup busy, OwnerStep(m) PROVE Unborn(c)'
  BY <1>1, OwnerStepFrame DEF Unborn, TargetsOf
<1>2. CASE UNCHANGED vars
  BY <1>2 DEF vars, storeVars, workerVars, handlerVars, ownerVars, Unborn, TargetsOf
<1> QED BY <1>1, <1>2, UnbornWorker, UnbornTarget, UnbornRequest, UnbornHandler, UnbornAgent DEF Next

\* ResetTarget gives its row a new id or the old one; the handler is done with it.
LEMMA ResetEffect ==
  ASSUME TypeOK, NEW h \in Handlers, NEW x \in Targets, ResetTarget(h, x)
  PROVE  /\ hgen[h][x] = gen[x] /\ x \in htodo[h] /\ st'[x] = "PENDING"
         /\ gen'[x] = IF hkind[h] = "retry" THEN gen[x] + 1 ELSE gen[x]
         /\ \A y \in Targets \ {x} : gen'[y] = gen[y] /\ st'[y] = st[y]
         /\ \A k \in Handlers, y \in Targets :
              y \in htodo'[k] => ~(k = h /\ y = x) /\ y \in htodo[k] /\ hgen'[k][y] = hgen[k][y]
BY DEF ResetTarget, RowFound, TypeOK

LEMMA ResetRises ==
  ASSUME TypeOK, NEW h \in Handlers, NEW x \in Targets, ResetTarget(h, x)
  PROVE  gen' \in [Targets -> Gens] /\ \A y \in Targets : gen[y] <= gen'[y]
<1>1. gen \in [Targets -> Gens] /\ Gens \subseteq Nat
  BY FirstValues DEF TypeOK
<1>2. PICK g \in Gens : gen' = [gen EXCEPT ![x] = g]
  BY DEF ResetTarget
<1>3. gen' \in [Targets -> Gens]
  BY <1>1, <1>2
<1>4. \A y \in Targets : gen[y] <= gen'[y]
  <2> TAKE y \in Targets
  <2>1. gen[y] \in Nat /\ gen[x] \in Nat
    BY <1>1
  <2> QED BY <2>1, ResetEffect
<1> QED BY <1>3, <1>4

LEMMA NextReadBefore ==
  ASSUME TypeOK, ReadBefore, [Next]_vars PROVE ReadBefore'
<1>0. gen \in [Targets -> Gens] /\ Gens \subseteq Nat /\ htodo \in [Handlers -> SUBSET Targets]
      /\ hgen \in [Handlers -> [Targets -> Gens]]
  BY FirstValues DEF TypeOK
<1>1. ASSUME gen' = gen, \A h \in Handlers : htodo'[h] \subseteq htodo[h],
             \A h \in Handlers : htodo'[h] = {} \/ hgen'[h] = hgen[h]
      PROVE  ReadBefore'
  BY <1>0, <1>1 DEF ReadBefore
<1>2. ASSUME NEW h \in Handlers, HandlerReturns(h), gen' = gen PROVE ReadBefore'
  BY <1>1, <1>2, HandlerReturnsFrame
<1>3. ASSUME NEW h \in Handlers, NEW x \in Targets, ResetTarget(h, x) PROVE ReadBefore'
  <2> SUFFICES ASSUME NEW k \in Handlers, NEW y \in htodo'[k] PROVE hgen'[k][y] <= gen'[y]
    BY DEF ReadBefore
  <2>1. htodo'[k] \subseteq htodo[k]
    BY <1>0, <1>3 DEF ResetTarget
  <2>2. y \in Targets /\ y \in htodo[k] /\ hgen'[k][y] = hgen[k][y]
    BY <1>0, <1>3, <2>1, ResetEffect
  <2>3. gen[y] <= gen'[y] /\ gen[y] \in Nat /\ gen'[y] \in Nat /\ hgen[k][y] \in Nat
    BY <1>0, <1>3, <2>2, ResetRises
  <2> QED BY <2>2, <2>3 DEF ReadBefore
<1>4. ASSUME NEW h \in Handlers, NEW b \in Batches, NEW kind, BeginReset(h, b, kind) PROVE ReadBefore'
  <2> SUFFICES ASSUME NEW k \in Handlers, NEW y \in htodo'[k] PROVE hgen'[k][y] <= gen'[y]
    BY DEF ReadBefore
  <2>1. gen' = gen /\ hgen' = [hgen EXCEPT ![h] = gen]
    BY <1>4 DEF BeginReset, storeVars
  <2>2. CASE k = h
    <3>1. y \in Targets
      BY <1>0, <1>4, <2>2 DEF BeginReset, TargetsOf
    <3>2. hgen'[k][y] = gen[y] /\ gen[y] \in Nat
      BY <1>0, <2>1, <2>2, <3>1
    <3> QED BY <2>1, <3>2
  <2>3. CASE k # h
    BY <1>0, <1>4, <2>1, <2>3 DEF BeginReset, ReadBefore
  <2> QED BY <2>2, <2>3
<1>5. ASSUME NEW h \in Handlers, NEW b \in Batches, CreateBatch(h, b) PROVE ReadBefore'
  BY <1>1, <1>5 DEF CreateBatch
<1>6. ASSUME NEW h \in Handlers, NewRequest(h) \/ HandlerStep(h) \/ RequestCancelled(h) PROVE ReadBefore'
  BY <1>1, <1>2, <1>3, <1>4, <1>5, <1>6
     DEF NewRequest, HandlerStep, ResetRefused, EndReset, MarkRunning, Enqueue, Remember,
         RequestCancelled, storeVars
<1>7. CASE WorkerStep
  BY <1>1, <1>7 DEF WorkerStep, WorkerTakes, WorkerReads, WorkerMarks, WorkerCounts, WorkerWrites,
                    storeVars, handlerVars
<1>8. ASSUME NEW x \in Targets, TargetStep(x) PROVE ReadBefore'
  BY <1>1, <1>8 DEF TargetStep, TargetStarts, TargetGone, TargetAnswered, TargetUnavailable,
                    TargetTimesOut, storeVars, handlerVars
<1>9. ASSUME NEW m \in flight \cup busy, OwnerStep(m) PROVE ReadBefore'
  BY <1>1, <1>9, OwnerStepFrame
<1>10. CASE AgentStops \/ AgentStarts
  BY <1>1, <1>10 DEF AgentStops, AgentStarts, storeVars, handlerVars
<1>11. CASE UNCHANGED vars
  BY <1>1, <1>11 DEF vars, storeVars, handlerVars
<1> QED BY <1>6, <1>7, <1>8, <1>9, <1>10, <1>11 DEF Next

\* What a goroutine sends: the next request of its row's operation, or nothing.
LEMMA StartEffect ==
  ASSUME TypeOK, NEW x \in Targets, TargetStarts(x)
  PROVE  /\ UNCHANGED <<status, gen, htodo, hkind, hgen, busy, jour, effects, unclear>>
         /\ run[x].s = "queued" /\ run[x].g = gen[x] /\ gen[x] \in Gens
         /\ run'[x].a = run[x].a /\ run'[x].g = run[x].g /\ run'[x].s = "exec" /\ st'[x] = "RUNNING"
         /\ \A y \in Targets \ {x} : run'[y] = run[y] /\ sent'[y] = sent[y] /\ st'[y] = st[y]
         /\ \A k \in Gens \ {gen[x]} : sent'[x][k] = sent[x][k]
         /\ \/ sent'[x][gen[x]] = sent[x][gen[x]] /\ flight' = flight
            \/ /\ sent'[x][gen[x]] = sent[x][gen[x]] + 1
               /\ flight' = flight \cup {<<x, gen[x], sent[x][gen[x]] + 1>>}
<1> DEFINE g == run[x].g
           n == IF x \in Remote /\ <<x, g>> \notin ident THEN 0 ELSE sent[x][g] + 1
<1>0. run[x] \in Run /\ st \in [Targets -> TargetStatus] /\ sent[x] \in [Gens -> Nat] /\ gen[x] \in Gens
  BY DEF TypeOK
<1>1. g = gen[x] /\ run[x].s = "queued" /\ st' = [st EXCEPT ![x] = "RUNNING"]
  BY DEF TargetStarts, OwnsRow, Record
<1>2. /\ run' = [run EXCEPT ![x] = [run[x] EXCEPT !.s = "exec", !.n = n]]
      /\ sent' = [sent EXCEPT ![x][g] = IF n = 0 THEN @ ELSE n]
      /\ flight' = IF n = 0 THEN flight ELSE flight \cup {<<x, g, n>>}
  BY DEF TargetStarts, TypeOK
<1>3. n \in Nat /\ (n # 0 => n = sent[x][g] + 1)
  BY <1>0, <1>1
<1> HIDE DEF n
<1>4. /\ run'[x].a = run[x].a /\ run'[x].g = run[x].g /\ run'[x].s = "exec"
      /\ \A y \in Targets \ {x} : run'[y] = run[y]
  BY <1>0, <1>2 DEF TypeOK, Run
<1>5. /\ \A y \in Targets \ {x} : sent'[y] = sent[y]
      /\ \A k \in Gens \ {g} : sent'[x][k] = sent[x][k]
      /\ sent'[x][g] = IF n = 0 THEN sent[x][g] ELSE n
  BY <1>0, <1>1, <1>2 DEF TypeOK
<1> QED BY <1>0, <1>1, <1>2, <1>3, <1>4, <1>5 DEF TargetStarts, handlerVars

LEMMA NextNumbered ==
  ASSUME TypeOK, Numbered, [Next]_vars PROVE Numbered'
<1>0. /\ gen \in [Targets -> Gens] /\ Gens \subseteq Nat /\ flight \cup busy \subseteq Requests
      /\ sent \in [Targets -> [Gens -> Nat]]
  BY FirstValues DEF TypeOK
<1>1. ASSUME sent' = sent, flight' \subseteq flight, busy' \subseteq busy \cup flight,
             flight' \cap busy' = {}, \A x \in Targets : gen[x] <= gen'[x], gen' \in [Targets -> Gens]
      PROVE  Numbered'
  <2>1. \A m \in flight' \cup busy' : 1 <= m[3] /\ m[3] <= sent'[m[1]][m[2]]
    BY <1>1 DEF Numbered
  <2>2. ASSUME NEW x \in Targets, NEW g \in Gens, g > gen'[x] PROVE sent'[x][g] = 0
    <3>1. gen[x] \in Nat /\ gen'[x] \in Nat /\ g \in Nat /\ gen[x] <= gen'[x]
      BY <1>0, <1>1
    <3>2. g > gen[x]
      BY <2>2, <3>1
    <3> QED BY <1>1, <3>2 DEF Numbered
  <2> QED BY <1>1, <2>1, <2>2 DEF Numbered
<1>2. ASSUME gen' = gen, sent' = sent, flight' \subseteq flight, busy' \subseteq busy PROVE Numbered'
  <2>1. \A x \in Targets : gen[x] <= gen'[x]
    <3> TAKE x \in Targets
    <3>1. gen[x] \in Nat
      BY <1>0
    <3> QED BY <1>2, <3>1
  <2>2. flight' \cap busy' = {}
    BY <1>2 DEF Numbered
  <2> QED BY <1>0, <1>1, <1>2, <2>1, <2>2
<1>3. ASSUME NEW h \in Handlers, NEW x \in Targets, ResetTarget(h, x) PROVE Numbered'
  BY <1>1, <1>3, ResetRises DEF ResetTarget, ownerVars, Numbered
<1>4. ASSUME NEW h \in Handlers, NewRequest(h) \/ HandlerStep(h) \/ RequestCancelled(h) PROVE Numbered'
  BY <1>2, <1>3, <1>4
     DEF NewRequest, CreateBatch, BeginReset, HandlerStep, ResetRefused, EndReset, MarkRunning,
         Enqueue, Remember, RequestCancelled, storeVars, ownerVars
<1>5. CASE WorkerStep
  BY <1>2, <1>5 DEF WorkerStep, WorkerTakes, WorkerReads, WorkerMarks, WorkerCounts, WorkerWrites,
                    storeVars, ownerVars
<1>6. ASSUME NEW x \in Targets, TargetStarts(x) PROVE Numbered'
  <2>1. \A y \in Targets, g \in Gens : sent[y][g] <= sent'[y][g] /\ sent'[y][g] \in Nat
    <3> TAKE y \in Targets, g \in Gens
    <3>1. sent[y][g] \in Nat
      BY <1>0
    <3> QED BY <1>6, <3>1, StartEffect
  <2>2. flight' \cap busy' = {}
    <3>1. <<x, gen[x], sent[x][gen[x]] + 1>> \notin busy
      <4> SUFFICES ASSUME <<x, gen[x], sent[x][gen[x]] + 1>> \in busy PROVE FALSE
        OBVIOUS
      <4> DEFINE m == <<x, gen[x], sent[x][gen[x]] + 1>>
      <4>1. m[1] = x /\ m[2] = gen[x] /\ m[3] = sent[x][gen[x]] + 1 /\ sent[x][gen[x]] \in Nat
        BY <1>0
      <4>2. m[3] <= sent[m[1]][m[2]]
        BY DEF Numbered
      <4> HIDE DEF m
      <4> QED BY <4>1, <4>2
    <3> QED BY <1>6, <3>1, StartEffect DEF Numbered
  <2>3. \A m \in flight' \cup busy' : 1 <= m[3] /\ m[3] <= sent'[m[1]][m[2]]
    <3> TAKE m \in flight' \cup busy'
    <3>1. CASE m \in flight \cup busy
      <4>1. m[1] \in Targets /\ m[2] \in Gens /\ m[3] \in Nat
        BY <1>0, <3>1 DEF Requests
      <4>2. sent[m[1]][m[2]] \in Nat /\ sent[m[1]][m[2]] <= sent'[m[1]][m[2]] /\ sent'[m[1]][m[2]] \in Nat
        BY <1>0, <2>1, <4>1
      <4>3. 1 <= m[3] /\ m[3] <= sent[m[1]][m[2]]
        BY <3>1 DEF Numbered
      <4> QED BY <4>1, <4>2, <4>3
    <3>2. CASE m \notin flight \cup busy
      <4>1. m = <<x, gen[x], sent[x][gen[x]] + 1>> /\ sent'[x][gen[x]] = sent[x][gen[x]] + 1
        BY <1>6, <3>2, StartEffect
      <4>2. sent[x][gen[x]] \in Nat
        BY <1>0
      <4> QED BY <4>1, <4>2
    <3> QED BY <3>1, <3>2
  <2>4. \A y \in Targets, g \in Gens : g > gen'[y] => sent'[y][g] = 0
    BY <1>0, <1>6, StartEffect DEF Numbered
  <2> QED BY <2>2, <2>3, <2>4 DEF Numbered
<1>7. ASSUME NEW x \in Targets, TargetStep(x) PROVE Numbered'
  BY <1>2, <1>6, <1>7
     DEF TargetStep, TargetGone, TargetAnswered, TargetUnavailable, TargetTimesOut, storeVars, ownerVars
<1>8. ASSUME NEW m \in flight \cup busy, OwnerStep(m) PROVE Numbered'
  <2>1. flight' \subseteq flight /\ busy' \subseteq busy \cup flight /\ flight' \cap busy' = {}
    BY <1>8 DEF Numbered, OwnerStep, OwnerRepeats, OwnerDenies, OwnerBegins, OwnerSucceeds, OwnerRefuses,
                ReconcileFails, OwnerCut
  <2>2. \A x \in Targets : gen[x] <= gen'[x]
    <3> TAKE x \in Targets
    <3>1. gen[x] \in Nat
      BY <1>0
    <3> QED BY <1>8, <3>1, OwnerStepFrame
  <2> QED BY <1>0, <1>1, <1>8, <2>1, <2>2, OwnerStepFrame
<1>9. CASE AgentStops \/ AgentStarts
  BY <1>2, <1>9 DEF AgentStops, AgentStarts, Local, storeVars, ownerVars
<1>10. CASE UNCHANGED vars
  BY <1>2, <1>10 DEF vars, storeVars, ownerVars
<1> QED BY <1>4, <1>5, <1>7, <1>8, <1>9, <1>10 DEF Next

\* A request of an operation that was sent once is that one.
LEMMA OnlyRequest ==
  ASSUME TypeOK, Numbered, NEW x \in Targets, NEW g \in Gens, sent[x][g] <= 1,
         NEW m \in flight \cup busy, Op(m) = <<x, g>>
  PROVE  m = <<x, g, 1>> /\ sent[x][g] = 1
<1>1. m \in Requests /\ sent[x][g] \in Nat
  BY DEF TypeOK
<1>2. m[1] = x /\ m[2] = g /\ m[3] \in Nat /\ m = <<m[1], m[2], m[3]>>
  BY <1>1 DEF Op, Requests
<1>3. 1 <= m[3] /\ m[3] <= sent[x][g]
  BY <1>2 DEF Numbered
<1> QED BY <1>1, <1>2, <1>3

LEMMA NextUnopened ==
  ASSUME TypeOK, Numbered, Unopened, [Next]_vars PROVE Unopened'
<1>0. /\ sent \in [Targets -> [Gens -> Nat]] /\ gen \in [Targets -> Gens]
      /\ flight \cup busy \subseteq Requests /\ OwnerOK
  BY TypeGroups DEF TypeOK
<1>1. ASSUME UNCHANGED <<sent, jour>>, flight' \subseteq flight, busy' \subseteq busy, unclear \subseteq unclear'
      PROVE  Unopened'
  BY <1>1 DEF Unopened, Op
<1>2. ASSUME NEW x \in Targets, TargetStarts(x) PROVE Unopened'
  <2> SUFFICES ASSUME NEW y \in Targets, NEW g \in Gens, sent'[y][g] <= 1, <<y, g>> \notin unclear',
                      sent'[y][g] = 0 \/ <<y, g, 1>> \in flight'
               PROVE  jour'[y][g] = "none" /\ \A m \in busy' : Op(m) # <<y, g>>
    BY DEF Unopened, Op
  <2>1. UNCHANGED <<busy, jour, unclear>>
    BY <1>2, StartEffect
  <2>2. CASE ~(y = x /\ g = gen[x])
    <3>1. sent'[y][g] = sent[y][g] /\ (<<y, g, 1>> \in flight' => <<y, g, 1>> \in flight)
      BY <1>2, <2>2, StartEffect
    <3> QED BY <2>1, <3>1 DEF Unopened
  <2>3. CASE y = x /\ g = gen[x]
    <3>1. sent[x][g] = 0 \/ (sent[x][g] <= 1 /\ <<x, g, 1>> \in flight)
      <4>1. sent[x][g] \in Nat
        BY <1>0
      <4>2. CASE sent'[x][g] = sent[x][g] /\ flight' = flight
        BY <2>3, <4>2
      <4>3. CASE sent'[x][g] = sent[x][g] + 1
        BY <2>3, <4>1, <4>3
      <4> QED BY <1>2, <2>3, <4>2, <4>3, StartEffect
    <3> QED BY <1>0, <2>1, <2>3, <3>1 DEF Unopened
  <2> QED BY <2>2, <2>3
<1>3. ASSUME NEW x \in Targets, TargetStep(x) PROVE Unopened'
  BY <1>1, <1>2, <1>3
     DEF TargetStep, TargetGone, TargetAnswered, TargetUnavailable, TargetTimesOut, storeVars, ownerVars
<1>4. ASSUME NEW m \in flight \cup busy, OwnerStep(m) PROVE Unopened'
  <2> SUFFICES ASSUME NEW y \in Targets, NEW g \in Gens, sent'[y][g] <= 1, <<y, g>> \notin unclear',
                      sent'[y][g] = 0 \/ <<y, g, 1>> \in flight'
               PROVE  jour'[y][g] = "none" /\ \A k \in busy' : Op(k) # <<y, g>>
    BY DEF Unopened, Op
  <2>1. /\ sent' = sent /\ unclear \subseteq unclear' /\ flight' \subseteq flight
        /\ busy' \subseteq busy \cup {m} /\ m \notin flight'
        /\ \A k \in busy' \ busy : k = m
    BY <1>4, OwnerStepFrame
       DEF Numbered, OwnerStep, OwnerRepeats, OwnerDenies, OwnerBegins, OwnerSucceeds, OwnerRefuses,
           ReconcileFails, OwnerCut
  <2>2. jour[y][g] = "none" /\ \A k \in busy : Op(k) # <<y, g>>
    BY <2>1 DEF Unopened
  <2>3. Op(m) # <<y, g>>
    <3> SUFFICES ASSUME Op(m) = <<y, g>> PROVE FALSE
      OBVIOUS
    <3>1. m = <<y, g, 1>> /\ sent[y][g] = 1
      BY <2>1, OnlyRequest
    <3> QED BY <2>1, <3>1
  <2>4. jour'[y][g] = jour[y][g]
    BY <1>0, <1>4, <2>3, OtherEntries
       DEF OwnerStep, OwnerRepeats, OwnerDenies, OwnerBegins, OwnerSucceeds, OwnerRefuses,
           ReconcileFails, OwnerCut
  <2> QED BY <2>1, <2>2, <2>3, <2>4
<1>5. ASSUME NEW h \in Handlers, NewRequest(h) \/ HandlerStep(h) \/ RequestCancelled(h) PROVE Unopened'
  BY <1>1, <1>5
     DEF NewRequest, CreateBatch, BeginReset, HandlerStep, ResetTarget, ResetRefused, EndReset,
         MarkRunning, Enqueue, Remember, RequestCancelled, ownerVars
<1>6. CASE WorkerStep
  BY <1>1, <1>6 DEF WorkerStep, WorkerTakes, WorkerReads, WorkerMarks, WorkerCounts, WorkerWrites,
                    ownerVars
<1>7. CASE AgentStops \/ AgentStarts
  BY <1>1, <1>7 DEF AgentStops, AgentStarts, Local, ownerVars
<1>8. CASE UNCHANGED vars
  BY <1>1, <1>8 DEF vars, ownerVars
<1> QED BY <1>3, <1>4, <1>5, <1>6, <1>7, <1>8 DEF Next

\* Nothing of an operation never sent, or whose one request is under way, was carried out.
LEMMA UnopenedDead ==
  ASSUME TypeOK, Journaled, Unopened, NEW x \in Targets, NEW g \in Gens,
         sent[x][g] <= 1, <<x, g>> \notin unclear, sent[x][g] = 0 \/ <<x, g, 1>> \in flight
  PROVE  effects[x][g] = 0
BY DEF Unopened, Journaled

LEMMA UnsentDead ==
  ASSUME TypeOK, Journaled, Numbered, Unopened, NEW x \in Targets, NEW g \in Gens,
         sent[x][g] = 0, <<x, g>> \notin unclear
  PROVE  Dead(x, g)
<1>0. sent[x][g] <= 1
  OBVIOUS
<1>1. effects[x][g] = 0
  BY <1>0, UnopenedDead
<1>2. \A m \in flight \cup busy : Op(m) # <<x, g>>
  BY <1>0, OnlyRequest
<1> QED BY <1>1, <1>2 DEF Dead

Born(x) == status[BatchOf[x]] # "none"

\* A step that sends nothing for x, does not reset its row and does not make it fail.
LEMMA LivesFrame ==
  ASSUME NEW x \in Targets, OneLives(x), unclear \subseteq unclear',
         gen'[x] = gen[x], sent'[x] = sent[x], Born(x)' => Born(x),
         Clear(x)' => \A g \in Gens : Dead(x, g) => Dead(x, g)',
         gen[x] \in Gens, run[x].g \in Gens,
         isRetryableTarget(run'[x].a) => run'[x].a = run[x].a /\ run'[x].g = run[x].g,
         isRetryableTarget(st'[x]) => isRetryableTarget(st[x]),
         Fresh(x) => run'[x].s = "none" /\ isRetryableTarget(st'[x]),
         \A h \in Handlers : x \in htodo'[h] =>
            x \in htodo[h] /\ hkind'[h] = hkind[h] /\ hgen'[h][x] = hgen[h][x]
  PROVE  OneLives(x)'
<1> SUFFICES ASSUME Clear(x)' PROVE OneLives(x)'
  BY DEF OneLives
<1>1. Clear(x)
  BY DEF Clear
<1>2. \A g \in Gens : g < gen'[x] => Dead(x, g)'
  BY <1>1 DEF OneLives
<1>3. isRetryableTarget(run'[x].a) => Dead(x, run[x].g)' /\ run'[x].g = run[x].g /\ sent'[x][run[x].g] = 1
  BY <1>1 DEF OneLives
<1>4. Dead(x, gen[x]) => Dead(x, gen[x])'
  OBVIOUS
<1>5. Fresh(x) => Fresh(x)'
  BY DEF Fresh
<1>6. (\E h \in Handlers : Retried(h, x)') => \E h \in Handlers : Retried(h, x)
  BY DEF Retried
<1>7. DeadWhenRetried(x)'
  BY <1>1, <1>4, <1>5, <1>6 DEF OneLives, DeadWhenRetried, Born, Dead, Op
<1>8. isRetryableTarget(run'[x].a) => Dead(x, run[x].g)' /\ sent'[x][run'[x].g] = 1
  BY <1>3
<1> QED BY <1>2, <1>3, <1>7 DEF OneLives, Dead, Op

\* Nothing happens to operations.
LEMMA LivesQuiet ==
  ASSUME TypeOK, NEW x \in Targets, OneLives(x), UNCHANGED ownerVars, gen'[x] = gen[x],
         Born(x)' => Born(x), run'[x] = run[x] \/ (run'[x].a = "none" /\ ~Fresh(x)), st'[x] = st[x],
         \A h \in Handlers : x \in htodo'[h] =>
            x \in htodo[h] /\ hkind'[h] = hkind[h] /\ hgen'[h][x] = hgen[h][x]
  PROVE  OneLives(x)'
<1>1. gen[x] \in Gens /\ run[x].g \in Gens
  BY DEF TypeOK, Run
<1>2. ~isRetryableTarget("none")
  BY DEF isRetryableTarget
<1>3. UNCHANGED <<sent, flight, busy, effects, unclear>>
  BY DEF ownerVars
<1>4. \A g \in Gens : Dead(x, g) => Dead(x, g)'
  BY <1>3 DEF Dead, Op
<1>5. Fresh(x) => run'[x].s = "none" /\ isRetryableTarget(st'[x])
  BY DEF Fresh
<1> QED BY <1>1, <1>2, <1>3, <1>4, <1>5, LivesFrame

\* Only Expand inserts a batch.
LEMMA BornStays ==
  ASSUME TypeOK, \A b \in Batches : Unborn(b), NEW x \in Targets,
         \/ WorkerStep
         \/ \E h \in Handlers : \/ \E b \in Batches \ {BatchOf[x]} : CreateBatch(h, b)
                                \/ \E b \in Batches, kind \in Kinds : BeginReset(h, b, kind)
                                \/ HandlerStep(h) \/ RequestCancelled(h)
  PROVE  Born(x)' => Born(x)
<1>1. BatchOf[x] \in Batches
  BY BatchConstants
<1> SUFFICES ASSUME ~Born(x), Born(x)' PROVE FALSE
  OBVIOUS
<1>2. wb # BatchOf[x] /\ \A h \in Handlers : hb[h] # BatchOf[x]
  BY <1>1 DEF Unborn, Born
<1>3. status'[BatchOf[x]] # status[BatchOf[x]]
  BY DEF Born
<1>4. ASSUME NEW h \in Handlers, NEW b \in Batches \ {BatchOf[x]}, CreateBatch(h, b) PROVE FALSE
  BY <1>1, <1>3, <1>4 DEF CreateBatch, TypeOK
<1>5. ASSUME NEW h \in Handlers, NEW b \in Batches, NEW kind \in Kinds, BeginReset(h, b, kind) PROVE FALSE
  BY <1>3, <1>5 DEF BeginReset, storeVars
<1>6. ASSUME NEW h \in Handlers, HandlerStep(h) \/ RequestCancelled(h) PROVE FALSE
  BY <1>1, <1>2, <1>3, <1>6
     DEF HandlerStep, ResetTarget, ResetRefused, EndReset, MarkRunning, Enqueue, Remember,
         RequestCancelled, storeVars, TypeOK
<1>7. CASE WorkerStep
  BY <1>1, <1>2, <1>3, <1>7
     DEF WorkerStep, WorkerTakes, WorkerReads, WorkerMarks, WorkerCounts, WorkerWrites, storeVars, TypeOK
<1> QED BY <1>4, <1>5, <1>6, <1>7

LEMMA LivesWorker ==
  ASSUME TypeOK, \A b \in Batches : Unborn(b), NEW x \in Targets, OneLives(x), WorkerStep
  PROVE  OneLives(x)'
<1>0. Born(x)' => Born(x)
  BY BornStays
<1>1. CASE WorkerReads
  <2>1. run'[x] = run[x] \/ (run'[x].a = "none" /\ ~Fresh(x))
    <3>1. st[x] \in Open => ~Fresh(x)
      BY DEF Open, Fresh, isRetryableTarget
    <3> QED BY <1>1, <3>1 DEF WorkerReads, Idle
  <2> QED BY <1>0, <1>1, <2>1, LivesQuiet DEF WorkerReads, storeVars, handlerVars
<1>2. CASE ~WorkerReads
  BY <1>0, <1>2, LivesQuiet
     DEF WorkerStep, WorkerTakes, WorkerMarks, WorkerCounts, WorkerWrites, storeVars, handlerVars
<1> QED BY <1>1, <1>2

LEMMA LivesStart ==
  ASSUME TypeOK, NEW x \in Targets, OneLives(x), NEW y \in Targets, TargetStarts(y)
  PROVE  OneLives(x)'
<1> SUFFICES ASSUME Clear(x)' PROVE OneLives(x)'
  BY DEF OneLives
<1>1. UNCHANGED <<status, gen, htodo, hkind, hgen, busy, effects, unclear>>
  BY StartEffect
<1>2. gen[x] \in Gens /\ run[x].g \in Gens
  BY DEF TypeOK, Run
<1>3. CASE x # y
  <2>1. run'[x] = run[x] /\ sent'[x] = sent[x] /\ st'[x] = st[x]
    BY <1>3, StartEffect
  <2>2. \A g \in Gens : Dead(x, g) => Dead(x, g)'
    <3>1. \A m \in flight' : m \in flight \/ Op(m) = <<y, gen[y]>>
      BY StartEffect DEF Op
    <3> QED BY <1>1, <1>3, <3>1 DEF Dead, Op
  <2>3. Fresh(x) => run'[x].s = "none" /\ isRetryableTarget(st'[x])
    BY <2>1 DEF Fresh
  <2> QED BY <1>1, <1>2, <2>1, <2>2, <2>3, LivesFrame DEF Born
<1>4. CASE x = y
  <2>1. sent[x][gen[x]] = 1 => sent'[x] = sent[x] /\ flight' = flight
    <3>1. sent \in [Targets -> [Gens -> Nat]] /\ sent'[x][gen[x]] <= 1
      BY <1>2, StartEffect DEF TypeOK, Clear
    <3>2. sent[x][gen[x]] = 1 => sent'[x][gen[x]] = sent[x][gen[x]] /\ flight' = flight
      BY <1>4, <3>1, StartEffect
    <3>3. sent' \in [Targets -> [Gens -> Nat]]
      BY TargetStepType DEF TargetStep, TypeOK
    <3>4. ASSUME sent[x][gen[x]] = 1 PROVE sent'[x] = sent[x] /\ flight' = flight
      <4>1. \A k \in Gens : sent'[x][k] = sent[x][k]
        <5> TAKE k \in Gens
        <5>1. CASE k = gen[x]
          BY <3>2, <3>4, <5>1
        <5>2. CASE k # gen[x]
          BY <1>4, <5>2, StartEffect
        <5> QED BY <5>1, <5>2
      <4>2. sent'[x] \in [Gens -> Nat] /\ sent[x] \in [Gens -> Nat]
        BY <3>1, <3>3
      <4>3. sent'[x] = sent[x]
        BY <4>1, <4>2
      <4> QED BY <3>2, <3>4, <4>3
    <3> QED BY <3>4
  <2>2. Clear(x)
    <3>1. sent \in [Targets -> [Gens -> Nat]]
      BY DEF TypeOK
    <3>2. sent'[x][gen[x]] <= 1 /\ sent[x][gen[x]] \in Nat
      BY <1>2, <3>1 DEF Clear
    <3>3. sent[x][gen[x]] <= 1
      BY <1>4, <3>2, StartEffect
    <3>4. \A g \in Gens : sent[x][g] <= 1
      <4> TAKE g \in Gens
      <4>1. CASE g = gen[x]
        BY <3>3, <4>1
      <4>2. CASE g # gen[x]
        <5>1. sent'[x][g] = sent[x][g] /\ sent'[x][g] <= 1
          BY <1>4, <4>2, StartEffect DEF Clear
        <5> QED BY <5>1
      <4> QED BY <4>1, <4>2
    <3> QED BY <1>1, <3>4 DEF Clear
  <2>3. \A g \in Gens : g # gen[x] /\ Dead(x, g) => Dead(x, g)'
    <3>1. \A m \in flight' : m \in flight \/ Op(m) = <<x, gen[x]>>
      BY <1>4, StartEffect DEF Op
    <3> QED BY <1>1, <3>1 DEF Dead, Op
  <2>4. \A g \in Gens : g < gen'[x] => Dead(x, g)'
    <3>1. \A g \in Gens : g < gen[x] => g # gen[x]
      BY <1>2, FirstValues
    <3> QED BY <1>1, <2>2, <2>3, <3>1 DEF OneLives
  <2>5. ASSUME Dead(x, gen[x]), sent[x][gen[x]] = 1 PROVE Dead(x, gen[x])' /\ sent'[x][gen[x]] = 1
    BY <1>1, <2>1, <2>5 DEF Dead, Op
  <2>6. run'[x].a = run[x].a /\ run'[x].g = gen[x] /\ run[x].g = gen[x] /\ ~Fresh(x) /\ ~isRetryableTarget(st'[x])
    BY <1>4, StartEffect DEF Fresh, isRetryableTarget
  <2>7. isRetryableTarget(run'[x].a) => Dead(x, gen[x])' /\ sent'[x][gen[x]] = 1
    BY <2>2, <2>5, <2>6 DEF OneLives
  <2>8. (\E h \in Handlers : Retried(h, x)') => Dead(x, gen[x])' /\ sent'[x][gen[x]] = 1
    <3>1. (\E h \in Handlers : Retried(h, x)') => \E h \in Handlers : Retried(h, x)
      BY <1>1 DEF Retried
    <3> QED BY <2>2, <2>5, <2>6, <3>1 DEF OneLives, DeadWhenRetried
  <2>9. DeadWhenRetried(x)'
    BY <1>1, <2>6, <2>8 DEF DeadWhenRetried, Dead, Op
  <2>10. isRetryableTarget(run'[x].a) => Dead(x, run[x].g)' /\ sent'[x][run'[x].g] = 1
    BY <1>1, <2>6, <2>7 DEF Dead, Op
  <2>11. run'[x].g = run[x].g
    BY <2>6
  <2>12. isRetryableTarget(run[x].a)' => Dead(x, run[x].g)' /\ (sent[x][run[x].g])' = 1
    BY <2>10, <2>11
  <2> QED BY <2>4, <2>9, <2>12 DEF OneLives
<1> QED BY <1>3, <1>4

\* A goroutine that ends sends nothing; what it records as failed is dead.
LEMMA LivesEnd ==
  ASSUME TypeOK, Journaled, Numbered, Unopened, NEW x \in Targets, OneLives(x),
         NEW y \in Targets, TargetStep(y), ~TargetStarts(y)
  PROVE  OneLives(x)'
<1> SUFFICES ASSUME Clear(x)' PROVE OneLives(x)'
  BY DEF OneLives
<1>1. /\ UNCHANGED <<status, gen, htodo, hkind, hgen, sent, busy, effects, unclear>>
      /\ flight' \subseteq flight /\ run[y].s # "none"
      /\ \A z \in Targets \ {y} : st'[z] = st[z] /\ run'[z] = run[z]
      /\ run'[y].a = "none"
  BY DEF TargetStep, TargetGone, TargetAnswered, TargetUnavailable, TargetTimesOut, Executing,
         TargetEnds, Record, storeVars, handlerVars, ownerVars, TypeOK, Idle
<1>2. gen[x] \in Gens /\ run[x].g \in Gens
  BY DEF TypeOK, Run
<1>3. \A g \in Gens : Dead(x, g) => Dead(x, g)'
  BY <1>1 DEF Dead, Op
<1>6. Dead(x, gen[x]) => Dead(x, gen[x])'
  BY <1>1 DEF Dead, Op
<1>4. CASE x # y
  <2>1. Fresh(x) => run'[x].s = "none" /\ isRetryableTarget(st'[x])
    BY <1>1, <1>4 DEF Fresh
  <2> QED BY <1>1, <1>2, <1>3, <1>4, <2>1, LivesFrame DEF Born
<1>5. CASE x = y
  <2>1. Clear(x)
    BY <1>1 DEF Clear
  <2>2. ~Fresh(x) /\ ~isRetryableTarget("none")
    BY <1>1, <1>5 DEF Fresh, isRetryableTarget
  <2>3. ASSUME isRetryableTarget(st'[x]), ~isRetryableTarget(st[x])
        PROVE  Dead(x, gen[x])' /\ sent[x][gen[x]] = 1
    <3>1. run[x].g = gen[x]
      BY <1>5, <2>3 DEF TargetStep, TargetGone, TargetAnswered, TargetUnavailable, TargetTimesOut,
                        Record, OwnsRow, storeVars
    <3>2. CASE TargetAnswered(x)
      <4>1. st' = [st EXCEPT ![x] = run[x].a]
        BY <3>1, <3>2 DEF TargetAnswered, Record, OwnsRow
      <4>2. isRetryableTarget(run[x].a)
        BY <2>3, <4>1 DEF TypeOK
      <4>3. Dead(x, gen[x]) /\ sent[x][gen[x]] = 1
        BY <2>1, <3>1, <4>2 DEF OneLives
      <4> QED BY <1>6, <4>3
    <3>3. CASE TargetUnavailable(x)
      <4> DEFINE m == <<x, run[x].g, run[x].n>>
      <4>1. m \in flight /\ flight' = flight \ {m} /\ Op(m) = <<x, gen[x]>>
        BY <3>1, <3>3 DEF TargetUnavailable, Op
      <4>2. sent[x][gen[x]] <= 1 /\ <<x, gen[x]>> \notin unclear
        BY <1>2, <2>1 DEF Clear
      <4> HIDE DEF m
      <4>3. m = <<x, gen[x], 1>> /\ sent[x][gen[x]] = 1
        BY <1>2, <4>1, <4>2, OnlyRequest
      <4>4. effects[x][gen[x]] = 0
        BY <1>2, <4>1, <4>2, <4>3, UnopenedDead
      <4>5. \A k \in flight' \cup busy' : Op(k) # <<x, gen[x]>>
        <5> SUFFICES ASSUME NEW k \in flight' \cup busy', Op(k) = <<x, gen[x]>> PROVE FALSE
          OBVIOUS
        <5>1. k \in flight \cup busy
          BY <1>1
        <5>2. k = m
          BY <1>2, <4>2, <4>3, <5>1, OnlyRequest
        <5> QED BY <1>1, <4>1, <5>2 DEF Numbered
      <4> QED BY <1>1, <4>3, <4>4, <4>5 DEF Dead, Op
    <3>4. CASE TargetTimesOut(x)
      BY <2>3, <3>4 DEF TargetTimesOut, Record, isRetryableTarget, TypeOK
    <3>5. CASE TargetGone(x)
      BY <2>3, <3>5 DEF TargetGone, storeVars
    <3> QED BY <1>5, <3>2, <3>3, <3>4, <3>5 DEF TargetStep
  <2>4. (Born(x) /\ isRetryableTarget(st[x])) \/ (\E h \in Handlers : Retried(h, x))
        => Dead(x, gen[x])' /\ sent[x][gen[x]] = 1
    BY <1>6, <2>1, <2>2 DEF OneLives, DeadWhenRetried, Born
  <2>5. (\E h \in Handlers : Retried(h, x)') => \E h \in Handlers : Retried(h, x)
    BY <1>1 DEF Retried
  <2>6. Born(x)' => Born(x)
    BY <1>1 DEF Born
  <2>7. DeadWhenRetried(x)'
    BY <1>1, <2>3, <2>4, <2>5, <2>6 DEF DeadWhenRetried, Born, Dead, Op
  <2>8. \A g \in Gens : g < gen'[x] => Dead(x, g)'
    BY <1>1, <1>3, <2>1 DEF OneLives
  <2>9. ~isRetryableTarget(run'[x].a)
    BY <1>1, <1>5, <2>2
  <2> QED BY <2>7, <2>8, <2>9 DEF OneLives, Dead, Op
<1> QED BY <1>4, <1>5

LEMMA LivesOwner ==
  ASSUME TypeOK, Journaled, Numbered, Unopened, NEW x \in Targets, OneLives(x),
         NEW m \in flight \cup busy, OwnerStep(m)
  PROVE  OneLives(x)'
<1> SUFFICES ASSUME Clear(x)' PROVE OneLives(x)'
  BY DEF OneLives
<1>0. OwnerOK /\ m \in Requests
  BY TypeGroups DEF TypeOK
<1>1. /\ unclear \subseteq unclear' /\ flight' \subseteq flight /\ busy' \subseteq busy \cup {m}
      /\ UNCHANGED <<status, gen, st, htodo, hkind, hgen, sent>>
      /\ run'[x].s = run[x].s /\ run'[x].g = run[x].g
      /\ ~(x = m[1] /\ Waiting(m)) => run'[x] = run[x]
  BY OwnerStepFrame
     DEF OwnerStep, OwnerRepeats, OwnerDenies, OwnerBegins, OwnerSucceeds, OwnerRefuses,
         ReconcileFails, OwnerCut
<1>2. Clear(x) /\ gen[x] \in Gens /\ run[x].g \in Gens
  BY <1>1 DEF Clear, TypeOK, Run
<1>3. \A g \in Gens : Dead(x, g) => Dead(x, g)'
  <2> SUFFICES ASSUME NEW g \in Gens, Dead(x, g) PROVE Dead(x, g)'
    OBVIOUS
  <2>1. Op(m) # <<x, g>>
    BY DEF Dead
  <2>2. effects'[x][g] = effects[x][g]
    BY <1>0, <2>1, OtherEntries
       DEF OwnerStep, OwnerRepeats, OwnerDenies, OwnerBegins, OwnerSucceeds, OwnerRefuses,
           ReconcileFails, OwnerCut
  <2> QED BY <1>1, <2>1, <2>2 DEF Dead, Op
<1>4. ASSUME isRetryableTarget(run'[x].a) PROVE Dead(x, run[x].g)' /\ sent[x][run[x].g] = 1
  <2>1. CASE run'[x] = run[x]
    BY <1>2, <1>3, <1>4, <2>1 DEF OneLives
  <2>2. CASE x = m[1] /\ Waiting(m) /\ run'[x] # run[x]
    <3> DEFINE g == run[x].g
    <3>1. Op(m) = <<x, g>> /\ g \in Gens /\ sent[x][g] <= 1 /\ <<x, g>> \notin unclear'
          /\ <<x, g>> \notin unclear
      BY <1>1, <1>2, <2>2 DEF Op, Waiting, Clear
    <3> HIDE DEF g
    <3>2. m = <<x, g, 1>> /\ sent[x][g] = 1
      BY <3>1, OnlyRequest
    <3>3. ~OwnerBegins(m) /\ m \notin flight' \cup busy'
      <4>1. ~OwnerBegins(m)
        BY <2>2 DEF OwnerBegins
      <4> QED BY <4>1
           DEF Numbered, OwnerStep, OwnerRepeats, OwnerDenies, OwnerSucceeds, OwnerRefuses,
               ReconcileFails, OwnerCut
    <3>4. \A k \in flight' \cup busy' : Op(k) # <<x, g>>
      <4> SUFFICES ASSUME NEW k \in flight' \cup busy', Op(k) = <<x, g>> PROVE FALSE
        OBVIOUS
      <4>1. k \in flight \cup busy
        BY <1>1, <3>3
      <4>2. k = m
        BY <3>1, <3>2, <4>1, OnlyRequest
      <4> QED BY <3>3, <4>2
    <3>5. effects'[x][g] = 0
      <4>1. CASE OwnerRepeats(m)
        <5>1. jour[x][g] = "none" /\ Finished(m) /\ jour[m[1]][m[2]] = jour[x][g]
          BY <1>0, <3>1, <3>2, <4>1, OwnEntry DEF OwnerRepeats, Unopened
        <5> QED BY <5>1 DEF Finished
      <4>2. CASE OwnerDenies(m)
        BY <3>1, <3>2, <4>2, UnopenedDead DEF OwnerDenies
      <4>3. CASE OwnerRefuses(m)
        BY <3>1, <4>3 DEF OwnerRefuses, Journaled
      <4>4. CASE OwnerSucceeds(m)
        <5>1. run' = [run EXCEPT ![x] = [run[x] EXCEPT !.a = "SUCCESS"]]
          BY <2>2, <4>4 DEF OwnerSucceeds, Answer
        <5>2. run'[x].a = "SUCCESS"
          BY <5>1 DEF TypeOK, Run
        <5> QED BY <1>4, <5>2 DEF isRetryableTarget
      <4>5. CASE ReconcileFails(m) \/ OwnerCut(m)
        BY <3>1, <4>5 DEF ReconcileFails, OwnerCut
      <4> QED BY <3>3, <4>1, <4>2, <4>3, <4>4, <4>5 DEF OwnerStep
    <3>6. Dead(x, g)'
      BY <1>1, <3>4, <3>5 DEF Dead, Op, g
    <3> QED BY <3>2, <3>6 DEF g
  <2> QED BY <1>1, <2>1, <2>2
<1>5. \A g \in Gens : g < gen'[x] => Dead(x, g)'
  BY <1>1, <1>2, <1>3 DEF OneLives
<1>6. Fresh(x) => Fresh(x)'
  BY <1>1 DEF Fresh
<1>7. (\E h \in Handlers : Retried(h, x)') => \E h \in Handlers : Retried(h, x)
  BY <1>1 DEF Retried
<1>8. DeadWhenRetried(x)'
  BY <1>1, <1>2, <1>3, <1>6, <1>7 DEF OneLives, DeadWhenRetried, Dead, Op
<1>9. isRetryableTarget(run[x].a)' => Dead(x, run[x].g)' /\ (sent[x][run[x].g])' = 1
  BY <1>1, <1>4 DEF Dead, Op
<1> QED BY <1>5, <1>8, <1>9 DEF OneLives

\* A retry gives up a dead operation, a replay one whose row will be sent again.
LEMMA LivesReset ==
  ASSUME TypeOK, ReadBefore, NEW x \in Targets, OneLives(x),
         NEW h \in Handlers, NEW y \in Targets, ResetTarget(h, y)
  PROVE  OneLives(x)'
<1> SUFFICES ASSUME Clear(x)' PROVE OneLives(x)'
  BY DEF OneLives
<1>1. UNCHANGED <<status, run, hkind, sent, flight, busy, effects, unclear>>
  BY DEF ResetTarget, ownerVars
<1>2. /\ Clear(x) /\ gen[x] \in Gens /\ gen'[x] \in Gens /\ Gens \subseteq Nat /\ run[x].g \in Gens
      /\ hkind[h] \in {"retry", "replay"}
  BY <1>1, FirstValues, ResetRises DEF Clear, TypeOK, Run
<1>3. \A g \in Gens : Dead(x, g) => Dead(x, g)'
  BY <1>1 DEF Dead, Op
<1>4. CASE x # y
  <2>1. gen'[x] = gen[x] /\ st'[x] = st[x]
    BY <1>4, ResetEffect
  <2>2. \A k \in Handlers : x \in htodo'[k] => x \in htodo[k] /\ hkind'[k] = hkind[k] /\ hgen'[k][x] = hgen[k][x]
    BY <1>1, ResetEffect
  <2>3. Fresh(x) => run'[x].s = "none" /\ isRetryableTarget(st'[x])
    BY <1>1, <2>1 DEF Fresh
  <2> QED BY <1>1, <1>2, <1>3, <2>1, <2>2, <2>3, LivesFrame DEF Born
<1>5. CASE x = y
  <2>1. /\ hgen[h][x] = gen[x] /\ x \in htodo[h] /\ ~isRetryableTarget(st'[x])
        /\ gen'[x] = IF hkind[h] = "retry" THEN gen[x] + 1 ELSE gen[x]
        /\ \A k \in Handlers : x \in htodo'[k] => x \in htodo[k] /\ hgen'[k][x] = hgen[k][x]
    BY <1>5, ResetEffect DEF isRetryableTarget
  <2>2. isRetryableTarget(run[x].a)' => Dead(x, run[x].g)' /\ (sent[x][run[x].g])' = 1
    BY <1>1, <1>2 DEF OneLives, Dead, Op
  <2>3. CASE hkind[h] = "retry"
    <3>1. Dead(x, gen[x])
      BY <1>2, <2>1, <2>3 DEF OneLives, DeadWhenRetried, Retried
    <3>2. \A g \in Gens : g < gen'[x] => Dead(x, g)'
      <4> TAKE g \in Gens
      <4>1. g < gen'[x] => g < gen[x] \/ g = gen[x]
        BY <1>2, <2>1, <2>3
      <4> QED BY <1>2, <1>3, <3>1, <4>1 DEF OneLives
    <3>3. \A k \in Handlers : ~Retried(k, x)'
      <4> SUFFICES ASSUME NEW k \in Handlers, Retried(k, x)' PROVE FALSE
        OBVIOUS
      <4>1. x \in htodo[k] /\ hgen[k][x] = gen[x] + 1
        BY <2>1, <2>3 DEF Retried
      <4>2. hgen[k][x] <= gen[x]
        BY <4>1 DEF ReadBefore
      <4>3. gen[x] \in Nat
        BY <1>2
      <4> QED BY <4>1, <4>2, <4>3
    <3>4. DeadWhenRetried(x)'
      BY <2>1, <3>3 DEF DeadWhenRetried
    <3> QED BY <2>2, <3>2, <3>4 DEF OneLives
  <2>4. CASE hkind[h] = "replay"
    <3>1. gen'[x] = gen[x] /\ ~Fresh(x)
      BY <2>1, <2>4 DEF Fresh
    <3>2. \A g \in Gens : g < gen'[x] => Dead(x, g)'
      BY <1>2, <1>3, <3>1 DEF OneLives
    <3>3. (\E k \in Handlers : Retried(k, x)') => \E k \in Handlers : Retried(k, x)
      BY <1>1, <2>1, <3>1 DEF Retried
    <3>4. (\E k \in Handlers : Retried(k, x)) => Dead(x, gen[x]) /\ sent[x][gen[x]] = 1
      BY <1>2, <3>1 DEF OneLives, DeadWhenRetried
    <3>5. Dead(x, gen[x]) => Dead(x, gen[x])'
      BY <1>1, <3>1 DEF Dead, Op
    <3>6. DeadWhenRetried(x)'
      BY <1>1, <2>1, <3>1, <3>3, <3>4, <3>5 DEF DeadWhenRetried
    <3> QED BY <2>2, <3>2, <3>6 DEF OneLives
  <2> QED BY <1>2, <2>3, <2>4
<1> QED BY <1>4, <1>5

\* Retries read rows that have failed, replays rows that have timed out.
LEMMA LivesRead ==
  ASSUME TypeOK, \A b \in Batches : Unborn(b), NEW x \in Targets, OneLives(x),
         NEW h \in Handlers, NEW b \in Batches, NEW kind \in Kinds, BeginReset(h, b, kind)
  PROVE  OneLives(x)'
<1> SUFFICES ASSUME Clear(x)' PROVE OneLives(x)'
  BY DEF OneLives
<1>1. /\ UNCHANGED <<status, gen, st, run, sent, flight, busy, effects, unclear>>
      /\ status[b] # "none"
  BY DEF BeginReset, storeVars, ownerVars
<1>2. Clear(x)
  BY <1>1 DEF Clear
<1>3. /\ htodo' = [htodo EXCEPT ![h] = {z \in TargetsOf(b) : Picked(kind, st[z])}]
      /\ hkind' = [hkind EXCEPT ![h] = kind] /\ hgen' = [hgen EXCEPT ![h] = gen]
  BY DEF BeginReset
<1>4. \A k \in Handlers : \/ htodo'[k] = htodo[k] /\ hkind'[k] = hkind[k] /\ hgen'[k] = hgen[k]
                          \/ hkind'[k] = kind /\ (x \in htodo'[k] => BatchOf[x] = b /\ Picked(kind, st[x]))
  BY <1>3 DEF TypeOK, TargetsOf
<1>5. Fresh(x) => Fresh(x)'
  <2>1. isRetryableTarget(st[x]) /\ Picked(kind, st[x]) => kind = "retry"
    BY DEF Picked, isRetryableTarget
  <2> QED BY <1>1, <1>4, <2>1 DEF Fresh
<1>6. ASSUME NEW k \in Handlers, Retried(k, x)'
      PROVE  (Born(x) /\ isRetryableTarget(st[x])) \/ Retried(k, x)
  <2>1. CASE htodo'[k] = htodo[k] /\ hkind'[k] = hkind[k] /\ hgen'[k] = hgen[k]
    BY <1>1, <1>6, <2>1 DEF Retried
  <2>2. CASE hkind'[k] = kind /\ (x \in htodo'[k] => BatchOf[x] = b /\ Picked(kind, st[x]))
    BY <1>1, <1>6, <2>2 DEF Retried, Born, Picked
  <2> QED BY <1>4, <2>1, <2>2
<1>7. Dead(x, gen[x]) => Dead(x, gen[x])'
  BY <1>1 DEF Dead, Op
<1>8. DeadWhenRetried(x)'
  BY <1>1, <1>2, <1>5, <1>6, <1>7 DEF OneLives, DeadWhenRetried, Born
<1>9. \A g \in Gens : g < gen'[x] => Dead(x, g)'
  BY <1>1, <1>2 DEF OneLives, Dead, Op
<1>10. isRetryableTarget(run[x].a)' => Dead(x, run[x].g)' /\ (sent[x][run[x].g])' = 1
  BY <1>1, <1>2 DEF OneLives, Dead, Op
<1> QED BY <1>8, <1>9, <1>10 DEF OneLives

\* A new batch's targets have never been sent.
LEMMA LivesCreate ==
  ASSUME TypeOK, Journaled, Numbered, Unopened, \A b \in Batches : Unborn(b),
         NEW x \in Targets, OneLives(x), NEW h \in Handlers, NEW b \in Batches, CreateBatch(h, b)
  PROVE  OneLives(x)'
<1> SUFFICES ASSUME Clear(x)' PROVE OneLives(x)'
  BY DEF OneLives
<1>1. /\ UNCHANGED <<gen, run, htodo, hkind, hgen, sent, flight, busy, effects, unclear>>
      /\ status[b] = "none"
  BY DEF CreateBatch, ownerVars
<1>2. Clear(x) /\ gen[x] \in Gens
  BY <1>1 DEF Clear, TypeOK
<1>3. \A g \in Gens : g < gen'[x] => Dead(x, g)'
  BY <1>1, <1>2 DEF OneLives, Dead, Op
<1>4. isRetryableTarget(run[x].a)' => Dead(x, run[x].g)' /\ (sent[x][run[x].g])' = 1
  BY <1>1, <1>2 DEF OneLives, Dead, Op
<1>5. Dead(x, gen[x]) => Dead(x, gen[x])'
  BY <1>1 DEF Dead, Op
<1>6. CASE BatchOf[x] # b
  <2>1. st'[x] = st[x] /\ (Born(x)' => Born(x))
    BY <1>6 DEF CreateBatch, Born, TypeOK
  <2>2. Fresh(x) => Fresh(x)'
    BY <1>1, <2>1 DEF Fresh
  <2>3. DeadWhenRetried(x)'
    BY <1>1, <1>2, <1>5, <2>1, <2>2 DEF OneLives, DeadWhenRetried, Born, Retried
  <2> QED BY <1>3, <1>4, <2>3 DEF OneLives
<1>7. CASE BatchOf[x] = b
  <2>1. run[x].s = "none" /\ sent[x][gen[x]] = 0 /\ \A k \in Handlers : x \notin htodo[k]
    BY <1>1, <1>7 DEF Unborn, TargetsOf
  <2>2. Dead(x, gen[x])
    BY <1>2, <2>1, UnsentDead DEF Clear
  <2>3. isRetryableTarget(st'[x]) => Fresh(x)'
    BY <1>1, <2>1 DEF Fresh
  <2>4. \A k \in Handlers : ~Retried(k, x)'
    BY <1>1, <2>1 DEF Retried
  <2>5. DeadWhenRetried(x)'
    BY <1>5, <2>2, <2>3, <2>4 DEF DeadWhenRetried
  <2> QED BY <1>3, <1>4, <2>5 DEF OneLives
<1> QED BY <1>6, <1>7

LEMMA LivesHandler ==
  ASSUME TypeOK, Journaled, Numbered, Unopened, ReadBefore, \A b \in Batches : Unborn(b),
         NEW x \in Targets, OneLives(x),
         NEW h \in Handlers, NewRequest(h) \/ HandlerStep(h) \/ RequestCancelled(h)
  PROVE  OneLives(x)'
<1>1. CASE NewRequest(h)
  BY <1>1, LivesRead, LivesCreate DEF NewRequest
<1>2. CASE \E y \in Targets : ResetTarget(h, y)
  BY <1>2, LivesReset
<1>3. ASSUME HandlerStep(h) \/ RequestCancelled(h), ~\E y \in Targets : ResetTarget(h, y)
      PROVE  OneLives(x)'
  <2>1. Born(x)' => Born(x)
    BY <1>3, BornStays
  <2>2. UNCHANGED <<gen, st, run, ownerVars>>
    BY <1>3 DEF HandlerStep, ResetRefused, EndReset, MarkRunning, Enqueue, Remember,
                RequestCancelled, storeVars
  <2>3. HandlerReturns(h) \/ UNCHANGED <<htodo, hkind, hgen>>
    BY <1>3 DEF HandlerStep, ResetRefused, EndReset, MarkRunning, Enqueue, Remember,
                RequestCancelled
  <2>4. \A k \in Handlers : x \in htodo'[k] =>
           x \in htodo[k] /\ hkind'[k] = hkind[k] /\ hgen'[k][x] = hgen[k][x]
    BY <2>3, HandlerReturnsFrame
  <2> QED BY <2>1, <2>2, <2>4, LivesQuiet
<1> QED BY <1>1, <1>2, <1>3

\* What the agent forgets does not come back.
LEMMA LivesAgent ==
  ASSUME TypeOK, NEW x \in Targets, OneLives(x), AgentStops \/ AgentStarts
  PROVE  OneLives(x)'
<1> SUFFICES ASSUME Clear(x)' PROVE OneLives(x)'
  BY DEF OneLives
<1>1. CASE AgentStops
  <2>1. /\ UNCHANGED <<status, gen, st, sent>> /\ flight' \subseteq flight /\ busy' \subseteq busy
        /\ unclear \subseteq unclear' /\ run'[x] = Idle /\ \A h \in Handlers : htodo'[h] = {}
    BY <1>1 DEF AgentStops, storeVars
  <2>2. \A g \in Gens : effects'[x][g] = effects[x][g]
    <3> TAKE g \in Gens
    <3>1. \A m \in Local(busy) : Op(m) # <<x, g>>
      BY <1>1 DEF Clear, AgentStops
    <3> QED BY <1>1, <3>1 DEF AgentStops, TypeOK
  <2>3. \A g \in Gens : Dead(x, g) => Dead(x, g)'
    BY <2>1, <2>2 DEF Dead, Op
  <2>4. gen[x] \in Gens /\ run[x].g \in Gens
    BY DEF TypeOK, Run
  <2>5. run'[x].s = "none" /\ ~isRetryableTarget(run'[x].a)
    BY <2>1 DEF Idle, isRetryableTarget
  <2>6. Fresh(x) => run'[x].s = "none" /\ isRetryableTarget(st'[x])
    BY <2>1, <2>5 DEF Fresh
  <2> QED BY <2>1, <2>3, <2>4, <2>5, <2>6, LivesFrame DEF Born
<1>2. CASE AgentStarts
  BY <1>2, LivesQuiet DEF AgentStarts, storeVars, handlerVars, Born
<1> QED BY <1>1, <1>2

LEMMA NextLives ==
  ASSUME TypeOK, Journaled, OnceInv, [Next]_vars, NEW x \in Targets PROVE OneLives(x)'
<1>1. CASE UNCHANGED vars
  BY <1>1, LivesQuiet DEF OnceInv, vars, storeVars, handlerVars, Born
<1>2. ASSUME NEW y \in Targets, TargetStep(y) PROVE OneLives(x)'
  BY <1>2, LivesStart, LivesEnd DEF OnceInv
<1> QED BY <1>1, <1>2, LivesWorker, LivesHandler, LivesOwner, LivesAgent DEF Next, OnceInv

LEMMA InitOnce == Init => OnceInv
<1> SUFFICES ASSUME Init PROVE OnceInv
  OBVIOUS
<1>1. FirstGens \in [Targets -> Gens] /\ \A x \in Targets : gen[x] = 1
  BY FirstValues DEF Init, FirstGens
<1>2. ASSUME NEW b \in Batches PROVE Unborn(b)
  <2>1. b # NoBatch
    BY BatchConstants
  <2> QED BY <1>1, <2>1, FirstValues DEF Init, Unborn, Idle, TargetsOf
<1>3. ReadBefore /\ Numbered /\ Unopened
  BY DEF Init, ReadBefore, Numbered, Unopened
<1>4. ASSUME NEW x \in Targets PROVE OneLives(x)
  <2>1. \A g \in Gens : Dead(x, g)
    BY DEF Init, Dead
  <2>2. ~isRetryableTarget(run[x].a) /\ ~isRetryableTarget(st[x]) /\ \A h \in Handlers : ~Retried(h, x)
    BY DEF Init, Idle, isRetryableTarget, Retried
  <2> QED BY <2>1, <2>2 DEF OneLives, DeadWhenRetried
<1> QED BY <1>2, <1>3, <1>4 DEF OnceInv

LEMMA NextOnce == TypeOK /\ Journaled /\ OnceInv /\ [Next]_vars => OnceInv'
<1> SUFFICES ASSUME TypeOK, Journaled, OnceInv, [Next]_vars PROVE OnceInv'
  OBVIOUS
<1>1. \A b \in Batches : Unborn(b)'
  BY NextUnborn DEF OnceInv
<1>2. ReadBefore' /\ Numbered' /\ Unopened'
  BY NextReadBefore, NextNumbered, NextUnopened DEF OnceInv
<1>3. \A x \in Targets : OneLives(x)'
  BY NextLives
<1> QED BY <1>1, <1>2, <1>3 DEF OnceInv

\* A target is carried out under two ids only if an operation of it was sent twice, or an
\* answer or a journal entry of it was lost, for any requests, restarts and owners.
THEOREM TwiceOnlyIfLost == Spec => []TwiceOnlyIfUnclear
<1>1. Init => Journaled
  BY DEF Init, Journaled
<1>2. TypeOK /\ Journaled /\ OnceInv => TwiceOnlyIfUnclear
  <2> SUFFICES ASSUME TypeOK, Journaled, OnceInv, NEW x \in Targets, NEW g \in Gens, NEW k \in Gens,
                      g # k, effects[x][g] > 0, effects[x][k] > 0,
                      ~\E j \in Gens : sent[x][j] > 1 \/ <<x, j>> \in unclear
               PROVE  FALSE
    BY DEF TwiceOnlyIfUnclear
  <2>1. Gens \subseteq Nat /\ sent[x] \in [Gens -> Nat] /\ gen[x] \in Gens
    BY FirstValues DEF TypeOK
  <2>2. Clear(x)
    <3> SUFFICES ASSUME NEW j \in Gens PROVE sent[x][j] <= 1 /\ <<x, j>> \notin unclear
      BY DEF Clear
    <3>1. sent[x][j] \in Nat
      BY <2>1
    <3> QED BY <3>1
  <2>3. \A j \in Gens : j # gen[x] => Dead(x, j)
    <3> TAKE j \in Gens
    <3>1. CASE j < gen[x]
      BY <2>2, <3>1 DEF OnceInv, OneLives
    <3>2. CASE j > gen[x]
      <4>1. sent[x][j] = 0
        BY <3>2 DEF OnceInv, Numbered
      <4> QED BY <2>2, <4>1, UnsentDead DEF OnceInv, Clear
    <3>3. j \in Nat /\ gen[x] \in Nat
      BY <2>1
    <3> QED BY <3>1, <3>2, <3>3
  <2>4. \A j \in Gens : j # gen[x] => effects[x][j] = 0
    BY <2>3 DEF Dead
  <2> QED BY <2>4
<1> QED BY <1>1, <1>2, InitOnce, NextOnce, BatchTypeCorrect, NextJournaled, PTL DEF Spec

-----------------------------------------------------------------------------
(***************************************************************************)
(* With no replays.  A row with a goroutine has not ended and a row that   *)
(* some retry may still reset has failed, so no row is both.  It is the    *)
(* minting of a new id that keeps two retries apart: the second finds the  *)
(* row under an id it has not read.                                        *)
(***************************************************************************)
MayReset(h, x) == x \in htodo[h] /\ hgen[h][x] = gen[x]

OneRuns(x) ==
  /\ \A h \in Handlers : x \in htodo[h] => hkind[h] = "retry"
  /\ \A h \in Handlers : MayReset(h, x) => isRetryableTarget(st[x])
  /\ run[x].s # "none" => gen[x] = run[x].g /\ st[x] \in Open

RunsInv == ReadBefore /\ (\A b \in Batches : Unborn(b)) /\ \A x \in Targets : OneRuns(x)

\* A step that touches neither the row nor its goroutine, nor reads rows to reset.
LEMMA RunsFrame ==
  ASSUME NEW x \in Targets, OneRuns(x), gen'[x] = gen[x], st'[x] = st[x],
         run'[x].s = "none" \/ (run'[x].s = run[x].s /\ run'[x].g = run[x].g),
         \A h \in Handlers : x \in htodo'[h] =>
            x \in htodo[h] /\ hkind'[h] = hkind[h] /\ hgen'[h][x] = hgen[h][x]
  PROVE  OneRuns(x)'
BY DEF OneRuns, MayReset

LEMMA RunsWorker ==
  ASSUME NEW x \in Targets, OneRuns(x), WorkerStep PROVE OneRuns(x)'
<1>1. UNCHANGED <<gen, st, htodo, hkind, hgen>>
  BY DEF WorkerStep, WorkerTakes, WorkerReads, WorkerMarks, WorkerCounts, WorkerWrites,
         storeVars, handlerVars
<1>2. run'[x] = run[x] \/ (run'[x].g = gen[x] /\ st[x] \in Open)
  BY DEF WorkerStep, WorkerTakes, WorkerReads, WorkerMarks, WorkerCounts, WorkerWrites, Idle
<1> QED BY <1>1, <1>2 DEF OneRuns, MayReset

\* What a goroutine records goes to a row that no retry may reset.
LEMMA RunsTarget ==
  ASSUME TypeOK, NEW x \in Targets, OneRuns(x), NEW y \in Targets, TargetStep(y)
  PROVE  OneRuns(x)' /\ gen' = gen /\ (st[x] = "SUCCESS" => st'[x] = st[x])
<1>1. UNCHANGED <<gen, htodo, hkind, hgen>> /\ run[y].s # "none"
  BY DEF TargetStep, TargetStarts, TargetGone, TargetAnswered, TargetUnavailable, TargetTimesOut,
         Executing, storeVars, handlerVars
<1>2. (x = y => run'[x].s = "none" \/ (run'[x].g = run[x].g /\ st'[x] = "RUNNING"))
      /\ (x # y => run'[x] = run[x] /\ st'[x] = st[x])
  <2>1. CASE TargetStarts(y)
    BY <2>1, StartEffect
  <2>2. CASE ~TargetStarts(y)
    BY <2>2 DEF TargetStep, TargetGone, TargetAnswered, TargetUnavailable, TargetTimesOut,
                TargetEnds, Record, storeVars, TypeOK, Idle
  <2> QED BY <2>1, <2>2
<1>3. CASE x # y
  BY <1>1, <1>2, <1>3, RunsFrame
<1>4. CASE x = y
  <2>1. st[x] \in Open /\ ~isRetryableTarget(st[x]) /\ st[x] # "SUCCESS"
    BY <1>1, <1>4 DEF OneRuns, Open, isRetryableTarget
  <2>2. \A h \in Handlers : ~MayReset(h, x)
    BY <2>1 DEF OneRuns
  <2>3. run'[x].s # "none" => gen'[x] = run'[x].g /\ st'[x] \in Open
    BY <1>1, <1>2, <1>4 DEF OneRuns, Open
  <2> QED BY <1>1, <2>1, <2>2, <2>3 DEF OneRuns, MayReset
<1> QED BY <1>1, <1>2, <1>3, <1>4

\* A retry takes a row that has failed, and leaves it under an id nobody has read.
LEMMA RunsReset ==
  ASSUME TypeOK, ReadBefore, NEW x \in Targets, OneRuns(x),
         NEW h \in Handlers, NEW y \in Targets, ResetTarget(h, y)
  PROVE  OneRuns(x)' /\ (st[x] = "SUCCESS" => st'[x] = st[x] /\ gen'[x] = gen[x])
<1>1. UNCHANGED <<run, hkind>>
  BY DEF ResetTarget
<1>2. \A k \in Handlers : x \in htodo'[k] => x \in htodo[k] /\ hgen'[k][x] = hgen[k][x]
  BY ResetEffect
<1>3. CASE x # y
  <2>1. gen'[x] = gen[x] /\ st'[x] = st[x]
    BY <1>3, ResetEffect
  <2> QED BY <1>1, <1>2, <2>1, RunsFrame
<1>4. CASE x = y
  <2>1. hgen[h][x] = gen[x] /\ x \in htodo[h]
        /\ gen'[x] = IF hkind[h] = "retry" THEN gen[x] + 1 ELSE gen[x]
    BY <1>4, ResetEffect
  <2>2. isRetryableTarget(st[x]) /\ gen'[x] = gen[x] + 1
    BY <2>1 DEF OneRuns, MayReset
  <2>3. run[x].s = "none" /\ st[x] # "SUCCESS"
    BY <2>2 DEF OneRuns, Open, isRetryableTarget
  <2>4. \A k \in Handlers : ~MayReset(k, x)'
    <3> SUFFICES ASSUME NEW k \in Handlers, MayReset(k, x)' PROVE FALSE
      OBVIOUS
    <3>1. hgen[k][x] = gen[x] + 1 /\ x \in htodo[k]
      BY <1>2, <2>2 DEF MayReset
    <3>2. hgen[k][x] <= gen[x] /\ gen[x] \in Nat
      BY <3>1, FirstValues DEF ReadBefore, TypeOK
    <3> QED BY <3>1, <3>2
  <2> QED BY <1>1, <1>2, <2>3, <2>4 DEF OneRuns
<1> QED BY <1>3, <1>4

LEMMA RunsRequest ==
  ASSUME TypeOK, Kinds \subseteq {"retry"}, \A b \in Batches : Unborn(b),
         NEW x \in Targets, OneRuns(x), NEW h \in Handlers, NewRequest(h)
  PROVE  OneRuns(x)' /\ (st[x] = "SUCCESS" => st'[x] = st[x] /\ gen'[x] = gen[x])
<1>1. ASSUME NEW b \in Batches, CreateBatch(h, b)
      PROVE  OneRuns(x)' /\ (st[x] = "SUCCESS" => st'[x] = st[x] /\ gen'[x] = gen[x])
  <2>1. UNCHANGED <<gen, run, htodo, hkind, hgen>> /\ status[b] = "none"
    BY <1>1 DEF CreateBatch
  <2>2. CASE BatchOf[x] # b
    <3>1. st'[x] = st[x]
      BY <1>1, <2>2 DEF CreateBatch
    <3> QED BY <2>1, <3>1, RunsFrame
  <2>3. CASE BatchOf[x] = b
    <3>1. st[x] = "PENDING" /\ run[x].s = "none" /\ \A k \in Handlers : x \notin htodo[k]
      BY <2>1, <2>3 DEF Unborn, TargetsOf
    <3> QED BY <2>1, <3>1 DEF OneRuns, MayReset
  <2> QED BY <2>2, <2>3
<1>2. ASSUME NEW b \in Batches, BeginReset(h, b, "retry")
      PROVE  OneRuns(x)' /\ st' = st /\ gen' = gen
  <2>1. UNCHANGED <<gen, st, run>>
    BY <1>2 DEF BeginReset, storeVars
  <2>2. \A k \in Handlers :
          \/ htodo'[k] = htodo[k] /\ hkind'[k] = hkind[k] /\ hgen'[k] = hgen[k]
          \/ hkind'[k] = "retry" /\ (x \in htodo'[k] => isRetryableTarget(st[x]))
    BY <1>2 DEF BeginReset, TypeOK, Picked
  <2> QED BY <2>1, <2>2 DEF OneRuns, MayReset
<1> QED BY <1>1, <1>2 DEF NewRequest

LEMMA RunsHandler ==
  ASSUME TypeOK, Kinds \subseteq {"retry"}, ReadBefore, \A b \in Batches : Unborn(b),
         NEW x \in Targets, OneRuns(x),
         NEW h \in Handlers, NewRequest(h) \/ HandlerStep(h) \/ RequestCancelled(h)
  PROVE  OneRuns(x)' /\ (st[x] = "SUCCESS" => st'[x] = st[x] /\ gen'[x] = gen[x])
<1>1. ASSUME HandlerStep(h) \/ RequestCancelled(h), ~\E y \in Targets : ResetTarget(h, y)
      PROVE  OneRuns(x)' /\ st' = st /\ gen' = gen
  <2>1. UNCHANGED <<gen, st, run>> /\ (HandlerReturns(h) \/ UNCHANGED <<htodo, hkind, hgen>>)
    BY <1>1 DEF HandlerStep, ResetRefused, EndReset, MarkRunning, Enqueue, Remember,
                RequestCancelled, storeVars
  <2>2. \A k \in Handlers : x \in htodo'[k] =>
           x \in htodo[k] /\ hkind'[k] = hkind[k] /\ hgen'[k][x] = hgen[k][x]
    BY <2>1, HandlerReturnsFrame
  <2> QED BY <2>1, <2>2, RunsFrame
<1> QED BY <1>1, RunsReset, RunsRequest

LEMMA InitRuns == Init => RunsInv
<1> SUFFICES ASSUME Init PROVE RunsInv
  OBVIOUS
<1>1. ReadBefore /\ \A b \in Batches : Unborn(b)
  BY InitOnce DEF OnceInv
<1>2. \A x \in Targets : OneRuns(x)
  BY DEF Init, OneRuns, MayReset, Idle
<1> QED BY <1>1, <1>2 DEF RunsInv

\* The invariant is inductive, and no step of it touches a row that has succeeded.
LEMMA NextRuns ==
  ASSUME Kinds \subseteq {"retry"}, TypeOK, RunsInv, [Next]_vars
  PROVE  /\ RunsInv'
         /\ \A x \in Targets : st[x] = "SUCCESS" => st'[x] = "SUCCESS" /\ gen'[x] = gen[x]
<1>1. ReadBefore' /\ \A b \in Batches : Unborn(b)'
  BY NextReadBefore, NextUnborn DEF RunsInv
<1>2. ASSUME NEW x \in Targets
      PROVE  OneRuns(x)' /\ (st[x] = "SUCCESS" => st'[x] = st[x] /\ gen'[x] = gen[x])
  <2>1. OneRuns(x) /\ ReadBefore /\ \A b \in Batches : Unborn(b)
    BY DEF RunsInv
  <2>2. CASE WorkerStep
    <3>1. UNCHANGED <<gen, st>>
      BY <2>2 DEF WorkerStep, WorkerTakes, WorkerReads, WorkerMarks, WorkerCounts, WorkerWrites, storeVars
    <3> QED BY <2>1, <2>2, <3>1, RunsWorker
  <2>3. ASSUME NEW m \in flight \cup busy, OwnerStep(m) PROVE OneRuns(x)' /\ st' = st /\ gen' = gen
    BY <2>1, <2>3, OwnerStepFrame, RunsFrame
  <2>4. CASE AgentStops
    <3>1. UNCHANGED <<gen, st>> /\ run'[x].s = "none" /\ \A h \in Handlers : htodo'[h] = {}
      BY <2>4 DEF AgentStops, storeVars, Idle
    <3> QED BY <2>1, <3>1, RunsFrame
  <2>5. CASE AgentStarts
    BY <2>1, <2>5, RunsFrame DEF AgentStarts, storeVars, handlerVars
  <2>6. CASE UNCHANGED vars
    BY <2>1, <2>6, RunsFrame DEF vars, storeVars, handlerVars
  <2> QED BY <2>1, <2>2, <2>3, <2>4, <2>5, <2>6, RunsTarget, RunsHandler DEF Next
<1> QED BY <1>1, <1>2 DEF RunsInv

\* Where operators only retry, no request gives the row of an executing target another
\* operation id, for any number of operators, cancelled requests and restarts.
THEOREM RunnersOwnRows == Kinds \subseteq {"retry"} => (Spec => []RunnerOwnsRow)
<1> SUFFICES ASSUME Kinds \subseteq {"retry"} PROVE Spec => []RunnerOwnsRow
  OBVIOUS
<1>1. TypeOK /\ RunsInv /\ [Next]_vars => RunsInv'
  BY NextRuns
<1>2. RunsInv => RunnerOwnsRow
  BY DEF RunsInv, OneRuns, RunnerOwnsRow
<1> QED BY <1>1, <1>2, InitRuns, BatchTypeCorrect, PTL DEF Spec

\* Where operators only retry, a target that has succeeded keeps its result and its
\* operation id.
THEOREM SuccessesStick == Kinds \subseteq {"retry"} => (Spec => SuccessSticks)
<1> SUFFICES ASSUME Kinds \subseteq {"retry"} PROVE Spec => SuccessSticks
  OBVIOUS
<1>1. TypeOK /\ RunsInv /\ [Next]_vars => RunsInv'
  BY NextRuns
<1>2. TypeOK /\ RunsInv /\ [Next]_vars
      => [\A x \in Targets : st[x] = "SUCCESS" => st'[x] = "SUCCESS" /\ gen'[x] = gen[x]]_vars
  BY NextRuns
<1> QED BY <1>1, <1>2, InitRuns, BatchTypeCorrect, PTL DEF Spec, SuccessSticks
=============================================================================
