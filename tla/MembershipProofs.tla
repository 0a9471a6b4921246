-------------------------- MODULE MembershipProofs --------------------------
(***************************************************************************)
(* What TLAPS proves of Membership for every value of its constants.       *)
(***************************************************************************)
EXTENDS Membership, TLAPS, FiniteSetTheorems, WellFoundedInduction

Ops == {Idle} \cup JoinOps \cup RemoveOps \cup PromoteOps \cup ReconcileOps
Members == [status : Statuses, cert : Certs \cup {None}]
TokenRecords == [status : {"none", "live", "revoked", "expired"}, uses : Nat, left : Nat]

\* The groups of TypeOK.
RaftOK ==
  /\ term \in Nat \ {0} /\ leader \in Nodes \cup {None}
  /\ config \in [Nodes -> {"none", "nonvoter", "voter"}]

ControlOK ==
  /\ members \in [Nodes -> Members]
  /\ attempts \in [Nodes -> JoinAttempts \cup {None}]
  /\ tokens \in [Tokens -> TokenRecords]
  /\ crl \subseteq Nodes \X Certs /\ group \subseteq Nodes
  /\ caps \in [Nodes -> Capabilities \cup {None}]

OpOK == op \in [Nodes -> Ops]

JoinerOK ==
  /\ boot \in BOOLEAN
  /\ pending \in [Nodes -> PendingJoins \cup {None}]
  /\ bundle \in [Nodes -> Bundles \cup {None}]
  /\ key \subseteq Nodes
  /\ wait \in [Nodes -> Nodes \cup {Seed, None}]
  /\ signed \in [Nodes -> 0..MaxCalls]

CountsOK == calls \in 0..MaxCalls /\ requests \in 0..MaxRequests /\ used \in 0..MaxEvents

\* TypeOK is the conjunction of its groups.
LEMMA TypeGroups ==
  TypeOK <=> RaftOK /\ ControlOK /\ OpOK /\ JoinerOK /\ CountsOK
BY DEF TypeOK, RaftOK, ControlOK, OpOK, JoinerOK, CountsOK, Ops, Members, TokenRecords

-----------------------------------------------------------------------------
(* The inductive invariant.                                                *)

\* A member has a certificate from the command that makes it a member on.
MemberHasCert == \A n \in Nodes : members[n] = NoMember \/ (members[n].status # "none" /\ members[n].cert # None)

\* A RequestJoin that waits has its join.pending.json, and each one is signed for once.
WaitHasPending == \A n \in Nodes : wait[n] # None => pending[n] # None
SignedOnce == \A n \in Nodes : signed[n] + (IF wait[n] = Seed THEN 1 ELSE 0) <= calls

\* Whom a joiner waits for runs the join of what it keeps.
WaitsForItsJoin ==
  \A n, l \in Nodes : wait[n] = l =>
    op[l].kind = "join" /\ op[l].node = n /\ op[l].csr = pending[n].csr

\* The founder has its certificate since cluster init.
FounderHasBundle == bundle[Founder] # None

\* A certificate is made for the request it answers, and a join past its prepare
\* command goes on with the certificate of the attempt that command found or made.
AttemptCert == \A n \in Nodes : attempts[n] # None => attempts[n].cert.csr = attempts[n].csr
JoinHasAttempt(l) ==
  op[l].kind = "join" =>
    IF op[l].at = "prepare" THEN op[l].cert.csr = op[l].csr
    ELSE /\ attempts[op[l].node] # None
         /\ SameAttempt(attempts[op[l].node], op[l])
         /\ op[l].cert = attempts[op[l].node].cert

\* A removal, of a request or of the reconciler, is one of a node that is REVOKED.
DropsRevoked(l) ==
  /\ op[l].kind = "remove" => op[l].node = Founder \/ Revoked(op[l].node)
  /\ op[l].kind = "reconcile" => \A n \in op[l].drops : n = Founder \/ Revoked(n)

\* A join about to be completed is of a node that is configured, or REVOKED meanwhile.
Configured(n) == config[n] # "none" \/ n = Founder \/ Revoked(n)
CompletesConfigured(l) ==
  /\ op[l].kind = "join" /\ op[l].at = "complete" => Configured(op[l].node)
  /\ op[l].kind = "reconcile" /\ op[l].at = "complete" =>
       op[l].adds # {} /\ Configured(First(op[l].adds))

\* A promotion past the transfer is of a node that has the CA key.
TransferFirst(l) ==
  op[l].kind = "promote" /\ op[l].at # "transfer" => op[l].node \in key

OpSound(l) == JoinHasAttempt(l) /\ DropsRevoked(l) /\ CompletesConfigured(l) /\ TransferFirst(l)

Inv ==
  /\ TypeOK
  /\ MemberHasCert /\ FounderHasBundle /\ AttemptCert
  /\ WaitHasPending /\ SignedOnce /\ WaitsForItsJoin
  /\ \A l \in Nodes : OpSound(l)

-----------------------------------------------------------------------------
(* Lemmas on records and on the operators that write them.                 *)

\* What an operation is by its kind.
LEMMA OpKinds ==
  ASSUME NEW c \in Ops
  PROVE  /\ c.kind = "idle" <=> c = Idle
         /\ c.kind = "join" <=> c \in JoinOps
         /\ c.kind = "remove" <=> c \in RemoveOps
         /\ c.kind = "promote" <=> c \in PromoteOps
         /\ c.kind = "reconcile" <=> c \in ReconcileOps
BY DEF Ops, Idle, JoinOps, RemoveOps, PromoteOps, ReconcileOps

\* The steps of an operation keep its shape.
LEMMA JoinGoesOn ==
  ASSUME NEW c \in JoinOps, NEW a \in {"prepare", "add", "complete"}, NEW r \in Certs
  PROVE  /\ [c EXCEPT !.at = a] \in JoinOps /\ [c EXCEPT !.at = a, !.cert = r] \in JoinOps
         /\ [c EXCEPT !.at = a].at = a /\ [c EXCEPT !.at = a, !.cert = r].at = a
         /\ [c EXCEPT !.at = a].node = c.node /\ [c EXCEPT !.at = a, !.cert = r].node = c.node
         /\ [c EXCEPT !.at = a].cert = c.cert /\ [c EXCEPT !.at = a, !.cert = r].cert = r
         /\ [c EXCEPT !.at = a].csr = c.csr /\ [c EXCEPT !.at = a, !.cert = r].csr = c.csr
         /\ [c EXCEPT !.at = a].op = c.op /\ [c EXCEPT !.at = a, !.cert = r].op = c.op
         /\ [c EXCEPT !.at = a].token = c.token /\ [c EXCEPT !.at = a, !.cert = r].token = c.token
BY DEF JoinOps

LEMMA PromoteGoesOn ==
  ASSUME NEW c \in PromoteOps, NEW a \in {"transfer", "verify", "ready", "check", "vote"}
  PROVE  /\ [c EXCEPT !.at = a] \in PromoteOps /\ [c EXCEPT !.at = a].at = a
         /\ [c EXCEPT !.at = a].node = c.node
BY DEF PromoteOps

LEMMA GoesType ==
  ASSUME OpOK, NEW l \in Nodes, NEW o \in Ops, Goes(l, o)
  PROVE  OpOK' /\ op'[l] = o /\ \A m \in Nodes \ {l} : op'[m] = op[m]
BY DEF OpOK, Goes

LEMMA JoinPrepareType ==
  ASSUME ControlOK, NEW c \in JoinOps, JoinPrepare(c)
  PROVE  ControlOK'
<1>1. CASE UNCHANGED control
  BY <1>1 DEF control, ControlOK
<1>2. CASE PrepareVerdict(c) = "new"
  <2>1. c.node \in Nodes /\ c.token \in Tokens
    BY DEF JoinOps
  <2>2. tokens[c.token].left # 0
    BY <1>2 DEF PrepareVerdict
  <2>3. tokens' \in [Tokens -> TokenRecords]
    BY <1>2, <2>1, <2>2 DEF JoinPrepare, ControlOK, TokenRecords
  <2>4. attempts' \in [Nodes -> JoinAttempts \cup {None}]
    BY <1>2, <2>1 DEF JoinPrepare, ControlOK, JoinAttempts, JoinOps
  <2>5. members' \in [Nodes -> Members]
    BY <1>2, <2>1 DEF JoinPrepare, ControlOK, Members, Statuses, JoinOps
  <2> QED BY <1>2, <2>3, <2>4, <2>5 DEF JoinPrepare, ControlOK
<1> QED BY <1>1, <1>2 DEF JoinPrepare

\* join_prepare keeps every attempt, and one that succeeds leaves the caller's own.
LEMMA JoinPrepareEffect ==
  ASSUME ControlOK, NEW c \in JoinOps, JoinPrepare(c)
  PROVE  /\ \A n \in Nodes : attempts[n] # None => attempts'[n] = attempts[n]
         /\ PrepareVerdict(c) \in {"new", "same"} =>
              attempts'[c.node] # None /\ SameAttempt(attempts'[c.node], c)
         /\ \A n \in Nodes : attempts'[n] # attempts[n] => attempts'[n].cert = c.cert /\ attempts'[n].csr = c.csr
         /\ \A n \in Nodes : members'[n] # members[n] =>
              members[n] = NoMember /\ members'[n] = [status |-> "JOINING", cert |-> c.cert]
         /\ UNCHANGED <<crl, caps, group>>
<1>1. CASE PrepareVerdict(c) = "new"
  <2>1. c.node \in Nodes /\ attempts[c.node] = None /\ members[c.node] = NoMember
    BY <1>1 DEF PrepareVerdict, JoinOps
  <2>2. DEFINE a == [op |-> c.op, token |-> c.token, csr |-> c.csr, cert |-> c.cert,
                     status |-> "PREPARING"]
  <2>3. a \in JoinAttempts
    BY DEF JoinAttempts, JoinOps
  <2>4. a # None /\ SameAttempt(a, c) /\ a.cert = c.cert /\ a.csr = c.csr
    BY <2>3, NoneIsNoRecord DEF SameAttempt
  <2>5. attempts' = [attempts EXCEPT ![c.node] = a]
    BY <1>1 DEF JoinPrepare
  <2>6. members' = [members EXCEPT ![c.node] = [status |-> "JOINING", cert |-> c.cert]]
    BY <1>1 DEF JoinPrepare
  <2> HIDE DEF a
  <2>7. UNCHANGED <<crl, caps, group>>
    BY <1>1 DEF JoinPrepare
  <2> QED BY <2>1, <2>4, <2>5, <2>6, <2>7 DEF ControlOK
<1>2. CASE PrepareVerdict(c) # "new"
  <2>1. UNCHANGED control
    BY <1>2 DEF JoinPrepare
  <2>2. PrepareVerdict(c) = "same" => attempts[c.node] # None /\ SameAttempt(attempts[c.node], c)
    BY DEF PrepareVerdict
  <2> QED BY <1>2, <2>1, <2>2 DEF control
<1> QED BY <1>1, <1>2

LEMMA JoinCompleteType ==
  ASSUME ControlOK, NEW n, NEW o, JoinComplete(n, o)
  PROVE  ControlOK'
BY DEF control, ControlOK, JoinComplete, Members, Statuses, JoinAttempts, CompleteOK

LEMMA MemberRemoveType ==
  ASSUME ControlOK, MemberHasCert, NEW n \in Nodes, members[n] # NoMember, MemberRemove(n)
  PROVE  ControlOK'
<1>1. members[n].cert \in Certs
  BY DEF MemberHasCert, ControlOK, Members
<1> QED BY <1>1 DEF ControlOK, MemberRemove, Members, Statuses

LEMMA CapabilityPrepareType ==
  ASSUME ControlOK, RaftOK, NEW n \in Nodes, NEW o \in Ids, members[n].cert \in Certs,
         CapabilityPrepare(n, o)
  PROVE  ControlOK'
BY DEF ControlOK, RaftOK, CapabilityPrepare, Capabilities

LEMMA CapabilityReadyType ==
  ASSUME ControlOK, NEW n \in Nodes, NEW c, CapabilityReady(n, c)
  PROVE  ControlOK'
BY DEF ControlOK, CapabilityReady, Capabilities, CapMatches, control

LEMMA RemoveServerType ==
  ASSUME RaftOK, NEW n, RemoveServer(n) PROVE RaftOK'
BY DEF RaftOK, RemoveServer, raftVars

LEMMA AddNonvoterType ==
  ASSUME RaftOK, NEW n, AddNonvoter(n)
  PROVE  config' \in [Nodes -> {"none", "nonvoter", "voter"}]
BY DEF RaftOK, AddNonvoter

LEMMA AnswerType ==
  ASSUME JoinerOK, NEW l, NEW n \in Nodes, NEW r, Answer(l, n, r)
  PROVE  /\ wait' \in [Nodes -> Nodes \cup {Seed, None}]
         /\ pending' \in [Nodes -> PendingJoins \cup {None}]
BY DEF JoinerOK, Answer

LEMMA EventType ==
  ASSUME CountsOK
  PROVE  /\ \A e : Event(e) => used' \in 0..MaxEvents
         /\ \A k : Request(k) => requests' \in 0..MaxRequests
BY MembershipConstants DEF CountsOK, Event, Request

-----------------------------------------------------------------------------
(* Types.                                                                  *)

\* A group whose variables do not change is kept.
LEMMA UnchangedType ==
  /\ RaftOK /\ UNCHANGED raftVars => RaftOK'
  /\ ControlOK /\ UNCHANGED control => ControlOK'
  /\ OpOK /\ UNCHANGED op => OpOK'
  /\ JoinerOK /\ UNCHANGED <<boot, disks, wait, signed>> => JoinerOK'
  /\ CountsOK /\ UNCHANGED counts => CountsOK'
BY DEF RaftOK, ControlOK, OpOK, JoinerOK, CountsOK, raftVars, control, disks, counts

LEMMA TypeGroupsPrime ==
  TypeOK' <=> RaftOK' /\ ControlOK' /\ OpOK' /\ JoinerOK' /\ CountsOK'
BY DEF TypeOK, RaftOK, ControlOK, OpOK, JoinerOK, CountsOK, Ops, Members, TokenRecords

LEMMA IdleIsOp == Idle \in Ops /\ Idle.kind = "idle"
BY DEF Ops, Idle

LEMMA FailsType ==
  ASSUME OpOK, JoinerOK, NEW l \in Nodes, op[l] \in JoinOps, Fails(l) \/ Refuses(l)
  PROVE  /\ OpOK' /\ op'[l] = Idle
         /\ wait' \in [Nodes -> Nodes \cup {Seed, None}]
         /\ pending' \in [Nodes -> PendingJoins \cup {None}]
<1>1. op[l].node \in Nodes
  BY DEF JoinOps
<1> QED BY <1>1, AnswerType, GoesType, IdleIsOp DEF Fails, Refuses

LEMMA RequestJoinType ==
  ASSUME TypeOK, NEW n \in Nodes, NEW t \in Tokens, NEW o \in Ids, RequestJoin(n, t, o)
  PROVE  TypeOK'
<1> USE TypeGroups, TypeGroupsPrime, UnchangedType, MembershipConstants
<1>1. CountsOK'
  BY DEF RequestJoin, CountsOK
<1>2. pending' \in [Nodes -> PendingJoins \cup {None}]
  BY DEF RequestJoin, PendingJoins, CountsOK, JoinerOK
<1>3. JoinerOK'
  BY <1>2 DEF RequestJoin, JoinerOK
<1> QED BY <1>1, <1>3 DEF RequestJoin

LEMMA JoinArrivesType ==
  ASSUME TypeOK, WaitHasPending, SignedOnce, NEW n \in Nodes, JoinArrives(n)
  PROVE  TypeOK'
<1> USE TypeGroups, TypeGroupsPrime, UnchangedType, MembershipConstants
<1>1. leader \in Nodes /\ pending[n] \in PendingJoins /\ signed[n] + 1 \in 0..MaxCalls
  BY DEF JoinArrives, RaftOK, JoinerOK, CountsOK, WaitHasPending, SignedOnce, Seed
<1>2. [kind |-> "join", at |-> "prepare", node |-> n, op |-> pending[n].op,
       token |-> pending[n].token, csr |-> pending[n].csr,
       cert |-> [csr |-> pending[n].csr, no |-> signed[n] + 1]] \in JoinOps
  BY <1>1 DEF JoinOps, PendingJoins, Certs
<1>3. OpOK'
  BY <1>1, <1>2, GoesType DEF JoinArrives, Ops
<1>4. JoinerOK'
  BY <1>1 DEF JoinArrives, JoinerOK
<1> QED BY <1>3, <1>4 DEF JoinArrives, raftVars, control, counts

LEMMA JoinPrepareStepType ==
  ASSUME TypeOK, NEW l \in Nodes, JoinPrepareStep(l)
  PROVE  TypeOK'
<1> USE TypeGroups, TypeGroupsPrime, UnchangedType, MembershipConstants
<1>1. op[l] \in JoinOps
  BY OpKinds DEF JoinPrepareStep, OpOK
<1>2. ControlOK'
  BY <1>1, JoinPrepareType DEF JoinPrepareStep
<1>3. CASE Fails(l) \/ Refuses(l)
  BY <1>1, <1>2, <1>3, FailsType, EventType DEF JoinPrepareStep, JoinerOK, CountsOK
<1>4. CASE Prepared(l) /\ UNCHANGED <<wait, pending, used>> /\ JoinPrepare(op[l])
           /\ PrepareVerdict(op[l]) \in {"new", "same"}
  <2>1. op[l].node \in Nodes /\ op[l].cert \in Certs
    BY <1>1 DEF JoinOps
  <2>2. attempts'[op[l].node] \in JoinAttempts
    <3>1. attempts'[op[l].node] # None
      BY <1>1, <1>4, JoinPrepareEffect
    <3> QED BY <1>2, <2>1, <3>1 DEF ControlOK
  <2>3. attempts'[op[l].node].cert \in Certs
    BY <2>2 DEF JoinAttempts
  <2>4. OpOK'
    BY <1>1, <1>4, <2>3, JoinGoesOn, GoesType DEF Prepared, Ops
  <2> QED BY <1>2, <1>4, <2>4 DEF JoinPrepareStep, JoinerOK, CountsOK
<1> QED BY <1>3, <1>4 DEF JoinPrepareStep

LEMMA JoinAddType ==
  ASSUME TypeOK, NEW l \in Nodes, JoinAdd(l)
  PROVE  TypeOK'
<1> USE TypeGroups, TypeGroupsPrime, UnchangedType, MembershipConstants
<1>1. op[l] \in JoinOps
  BY OpKinds DEF JoinAdd, OpOK
<1>2. RaftOK'
  BY AddNonvoterType DEF JoinAdd, RaftOK
<1>3. CASE Fails(l)
  BY <1>1, <1>2, <1>3, FailsType, EventType DEF JoinAdd, JoinerOK, CountsOK
<1>4. CASE Goes(l, [op[l] EXCEPT !.at = "complete"]) /\ UNCHANGED <<wait, pending, used>>
  <2>1. OpOK'
    BY <1>1, <1>4, GoesType DEF Ops, JoinOps
  <2> QED BY <1>2, <1>4, <2>1 DEF JoinAdd, JoinerOK, CountsOK
<1> QED BY <1>3, <1>4 DEF JoinAdd

LEMMA JoinCompleteStepType ==
  ASSUME TypeOK, WaitHasPending, NEW l \in Nodes, JoinCompleteStep(l)
  PROVE  TypeOK'
<1> USE TypeGroups, TypeGroupsPrime, UnchangedType, MembershipConstants
<1>1. op[l] \in JoinOps /\ op[l].node \in Nodes /\ op[l].cert \in Certs
  BY OpKinds DEF JoinCompleteStep, OpOK, JoinOps
<1>2. ControlOK'
  BY JoinCompleteType DEF JoinCompleteStep
<1>3. CASE (Fails(l) \/ Refuses(l)) /\ UNCHANGED bundle
  BY <1>1, <1>2, <1>3, FailsType, EventType DEF JoinCompleteStep, JoinerOK, CountsOK
<1>4. CASE /\ Goes(l, Idle) /\ Answer(l, op[l].node, TRUE) /\ UNCHANGED used
           /\ bundle' = IF wait[op[l].node] = l
                          THEN [bundle EXCEPT ![op[l].node] =
                                  [cert |-> op[l].cert, csr |-> pending[op[l].node].csr]]
                          ELSE bundle
  <2>1. OpOK'
    BY <1>4, GoesType, IdleIsOp
  <2>2. ASSUME wait[op[l].node] = l PROVE pending[op[l].node].csr \in 0..MaxCalls
    BY <1>1, <2>2 DEF WaitHasPending, JoinerOK, PendingJoins
  <2>3. bundle' \in [Nodes -> Bundles \cup {None}]
    BY <1>1, <1>4, <2>2 DEF JoinerOK, Bundles
  <2> QED BY <1>1, <1>2, <1>4, <2>1, <2>3, AnswerType DEF JoinCompleteStep, JoinerOK, CountsOK
<1> QED BY <1>3, <1>4 DEF JoinCompleteStep

LEMMA RemoveType ==
  ASSUME TypeOK, MemberHasCert, NEW l \in Nodes, NEW n \in Nodes, RemoveNode(l, n) \/ RemoveDrop(l)
  PROVE  TypeOK'
<1> USE TypeGroups, TypeGroupsPrime, UnchangedType
<1>1. CASE RemoveNode(l, n)
  <2>1. OpOK'
    BY <1>1, GoesType DEF RemoveNode, Ops, RemoveOps
  <2>2. ControlOK'
    BY <1>1, MemberRemoveType DEF RemoveNode
  <2> QED BY <1>1, <2>1, <2>2, EventType DEF RemoveNode, CountsOK
<1>2. CASE RemoveDrop(l)
  <2>1. OpOK'
    BY <1>2, GoesType, IdleIsOp DEF RemoveDrop
  <2>2. RaftOK'
    BY <1>2, RemoveServerType DEF RemoveDrop
  <2> QED BY <1>2, <2>1, <2>2, EventType DEF RemoveDrop, CountsOK
<1> QED BY <1>1, <1>2

LEMMA PromoteNodeType ==
  ASSUME TypeOK, NEW l \in Nodes, NEW n \in Nodes, NEW o \in Ids, MemberHasCert, PromoteNode(l, n, o)
  PROVE  TypeOK'
<1> USE TypeGroups, TypeGroupsPrime, UnchangedType
<1>1. members[n].cert \in Certs /\ term \in Nat /\ (caps[n] # None => caps[n].term \in Nat)
  BY DEF PromoteNode, CapNodeOK, Admitted, MemberHasCert, NoMember, ControlOK, Members, RaftOK,
         Capabilities
<1>2. ASSUME NEW t \in Nat
      PROVE  [kind |-> "promote", at |-> "transfer", node |-> n, op |-> o,
              cert |-> members[n].cert, term |-> t] \in PromoteOps
  BY <1>1 DEF PromoteOps
<1>3. OpOK'
  BY <1>1, <1>2, GoesType DEF PromoteNode, Ops
<1>4. ControlOK'
  BY <1>1, CapabilityPrepareType DEF PromoteNode
<1> QED BY <1>3, <1>4, EventType DEF PromoteNode, CountsOK

LEMMA PromoteStepType ==
  ASSUME TypeOK, NEW l \in Nodes,
         Transfer(l) \/ PromoteVerify(l) \/ PromoteReady(l) \/ PromoteVote(l)
  PROVE  TypeOK'
<1> USE TypeGroups, TypeGroupsPrime, UnchangedType
<1>1. op[l] \in PromoteOps /\ op[l].node \in Nodes
  BY OpKinds DEF OpOK, PromoteOps, Transfer, PromoteVerify, PromoteReady, PromoteVote
<1>2. \A a \in {"transfer", "verify", "ready", "check", "vote"} : [op[l] EXCEPT !.at = a] \in Ops
  BY <1>1, PromoteGoesOn DEF Ops
<1>3. CASE Transfer(l)
  <2>1. OpOK'
    BY <1>2, <1>3, GoesType, IdleIsOp DEF Transfer
  <2> QED BY <1>1, <1>3, <2>1, EventType DEF Transfer, CountsOK, JoinerOK
<1>4. CASE PromoteVerify(l)
  <2>1. OpOK'
    BY <1>2, <1>4, GoesType, IdleIsOp DEF PromoteVerify
  <2> QED BY <1>4, <2>1 DEF PromoteVerify
<1>5. CASE PromoteReady(l)
  <2>1. OpOK'
    BY <1>2, <1>5, GoesType, IdleIsOp DEF PromoteReady
  <2>2. ControlOK'
    BY <1>1, <1>5, CapabilityReadyType DEF PromoteReady
  <2> QED BY <1>5, <2>1, <2>2, EventType DEF PromoteReady, CountsOK
<1>6. CASE PromoteVote(l)
  <2>1. OpOK'
    BY <1>6, GoesType, IdleIsOp DEF PromoteVote
  <2> QED BY <1>6, <2>1, EventType DEF PromoteVote, CountsOK, RaftOK
<1> QED BY <1>3, <1>4, <1>5, <1>6

LEMMA ReconcileGoesOn ==
  ASSUME NEW c \in ReconcileOps, NEW n, NEW a \in {"add", "complete"}
  PROVE  /\ [c EXCEPT !.at = a] \in ReconcileOps
         /\ [c EXCEPT !.adds = @ \ {n}] \in ReconcileOps
         /\ [c EXCEPT !.at = a, !.adds = @ \ {n}] \in ReconcileOps
         /\ [c EXCEPT !.drops = @ \ {n}] \in ReconcileOps
BY DEF ReconcileOps

LEMMA ReconcileType ==
  ASSUME TypeOK, NEW l \in Nodes,
         \/ ReconcileBegin(l) \/ ReconcileAdd(l) \/ ReconcileComplete(l)
         \/ ReconcileDrop(l) \/ ReconcileEnd(l)
  PROVE  TypeOK'
<1> USE TypeGroups, TypeGroupsPrime, UnchangedType
<1>1. CASE ReconcileBegin(l)
  <2>1. OpOK'
    BY <1>1, GoesType DEF ReconcileBegin, Ops, ReconcileOps, Missing, Incomplete, RemovalPending
  <2> QED BY <1>1, <2>1 DEF ReconcileBegin
<1>2. CASE ReconcileAdd(l)
  <2>1. op[l] \in ReconcileOps
    BY <1>2, OpKinds DEF ReconcileAdd, OpOK
  <2>2. OpOK'
    BY <1>2, <2>1, GoesType, ReconcileGoesOn DEF ReconcileAdd, Ops
  <2>3. RaftOK'
    BY <1>2, AddNonvoterType DEF ReconcileAdd, RaftOK
  <2> QED BY <1>2, <2>2, <2>3, EventType DEF ReconcileAdd, CountsOK
<1>3. CASE ReconcileComplete(l)
  <2>1. op[l] \in ReconcileOps
    BY <1>3, OpKinds DEF ReconcileComplete, OpOK
  <2>2. OpOK'
    BY <1>3, <2>1, GoesType, ReconcileGoesOn DEF ReconcileComplete, Ops
  <2>3. ControlOK'
    BY <1>3, JoinCompleteType DEF ReconcileComplete
  <2> QED BY <1>3, <2>2, <2>3, EventType DEF ReconcileComplete, CountsOK
<1>4. CASE ReconcileDrop(l)
  <2>1. op[l] \in ReconcileOps
    BY <1>4, OpKinds DEF ReconcileDrop, OpOK
  <2>2. OpOK'
    BY <1>4, <2>1, GoesType, ReconcileGoesOn DEF ReconcileDrop, Ops
  <2>3. RaftOK'
    BY <1>4, RemoveServerType DEF ReconcileDrop
  <2> QED BY <1>4, <2>2, <2>3, EventType DEF ReconcileDrop, CountsOK
<1>5. CASE ReconcileEnd(l)
  BY <1>5, GoesType, IdleIsOp DEF ReconcileEnd
<1> QED BY <1>1, <1>2, <1>3, <1>4, <1>5

LEMMA TokenType ==
  ASSUME TypeOK, NEW t \in Tokens, CreateToken(t) \/ RevokeToken(t) \/ ExpireToken(t)
  PROVE  TypeOK'
<1> USE TypeGroups, TypeGroupsPrime, UnchangedType
<1>1. tokens' \in [Tokens -> TokenRecords]
  BY MembershipConstants DEF ControlOK, TokenRecords, CreateToken, RevokeToken, ExpireToken
<1> QED BY <1>1, EventType DEF ControlOK, CountsOK, CreateToken, RevokeToken, ExpireToken,
     counts, disks

LEMMA OtherType ==
  ASSUME TypeOK, FounderHasBundle, NEW n \in Nodes,
         ChangeGroup(n) \/ Elect(n) \/ Restart(n) \/ GiveUp(n) \/ AdmitBootstrapMember
  PROVE  TypeOK'
<1> USE TypeGroups, TypeGroupsPrime, UnchangedType
<1>1. CASE ChangeGroup(n)
  BY <1>1, EventType DEF ControlOK, CountsOK, ChangeGroup
<1>2. CASE Elect(n)
  BY <1>2 DEF Elect, RaftOK
<1>3. CASE Restart(n)
  <2>1. OpOK'
    BY <1>3, GoesType, IdleIsOp DEF Restart
  <2>2. boot' \in BOOLEAN
    BY <1>3 DEF Restart, JoinerOK, Admitted
  <2>3. JoinerOK'
    BY <1>3, <2>2 DEF Restart, JoinerOK, disks
  <2> QED BY <1>3, <2>1, <2>3, EventType DEF Restart, CountsOK, RaftOK
<1>4. CASE GiveUp(n)
  BY <1>4 DEF GiveUp, JoinerOK, disks
<1>5. CASE AdmitBootstrapMember
  <2>1. bundle[Founder].cert \in Certs
    BY MembershipConstants DEF FounderHasBundle, JoinerOK, Bundles
  <2>2. ControlOK'
    BY <1>5, <2>1, MembershipConstants DEF AdmitBootstrapMember, ControlOK, Members, Statuses
  <2> QED BY <1>5, <2>2 DEF AdmitBootstrapMember, JoinerOK, disks
<1> QED BY <1>1, <1>2, <1>3, <1>4, <1>5

\* The next-state relation keeps the types, given what else is invariant.
LEMMA NextType ==
  ASSUME TypeOK, MemberHasCert, WaitHasPending, SignedOnce, FounderHasBundle, [Next]_vars
  PROVE  TypeOK'
<1>1. CASE UNCHANGED vars
  BY <1>1, TypeGroups, TypeGroupsPrime, UnchangedType DEF vars, counts, disks
<1>2. CASE Next
  BY <1>2, RequestJoinType, JoinArrivesType, JoinPrepareStepType, JoinAddType,
     JoinCompleteStepType, RemoveType, PromoteNodeType, PromoteStepType, ReconcileType,
     TokenType, OtherType, MembershipConstants DEF Next, OpStep
<1> QED BY <1>1, <1>2

-----------------------------------------------------------------------------
(* What a step keeps of the committed state.                               *)

\* An attempt is never given another certificate, and a node other than the founder
\* that is REVOKED stays so.
ControlGrows ==
  /\ \A n \in Nodes : attempts[n] # None =>
       /\ attempts'[n] # None /\ SameAttempt(attempts'[n], attempts[n])
       /\ attempts'[n].cert = attempts[n].cert
  /\ \A n \in Nodes \ {Founder} : Revoked(n) => Revoked(n)'

LEMMA SameControlGrows == UNCHANGED <<members, attempts>> => ControlGrows
BY DEF ControlGrows, SameAttempt, Revoked

LEMMA JoinCompleteGrows ==
  ASSUME ControlOK, NEW n, NEW o, JoinComplete(n, o)
  PROVE  ControlGrows
<1>1. CASE UNCHANGED control
  BY <1>1, SameControlGrows DEF control
<1>2. CASE CompleteOK(n, o) /\ members[n].status = "JOINING"
  <2>1. ASSUME NEW m \in Nodes, attempts[m] # None
        PROVE  /\ attempts'[m] # None /\ SameAttempt(attempts'[m], attempts[m])
               /\ attempts'[m].cert = attempts[m].cert
    <3>1. attempts[m] \in JoinAttempts
      BY <2>1 DEF ControlOK
    <3>2. attempts'[m] = attempts[m] \/ attempts'[m] = [attempts[m] EXCEPT !.status = "COMPLETED"]
      BY <1>2, <2>1 DEF JoinComplete, ControlOK
    <3>3. [attempts[m] EXCEPT !.status = "COMPLETED"] \in JoinAttempts
      BY <3>1 DEF JoinAttempts
    <3> QED BY <2>1, <3>1, <3>2, <3>3, NoneIsNoRecord DEF SameAttempt, JoinAttempts
  <2>2. ASSUME NEW m \in Nodes, Revoked(m) PROVE Revoked(m)'
    BY <1>2, <2>2 DEF JoinComplete, Revoked, ControlOK
  <2> QED BY <2>1, <2>2 DEF ControlGrows
<1> QED BY <1>1, <1>2 DEF JoinComplete

LEMMA JoinPrepareGrows ==
  ASSUME ControlOK, NEW c \in JoinOps, JoinPrepare(c)
  PROVE  ControlGrows
<1>1. \A n \in Nodes : attempts[n] # None => attempts'[n] = attempts[n]
  BY JoinPrepareEffect
<1>2. \A n \in Nodes : members'[n] = members[n] \/ members[n] = NoMember
  BY JoinPrepareEffect
<1> QED BY <1>1, <1>2 DEF ControlGrows, SameAttempt, Revoked, NoMember

LEMMA MemberRemoveGrows ==
  ASSUME ControlOK, NEW n \in Nodes, MemberRemove(n)
  PROVE  ControlGrows
BY DEF ControlGrows, SameAttempt, Revoked, MemberRemove, ControlOK, Members

\* Every step keeps attempts and revocations.
LEMMA NextGrows ==
  ASSUME TypeOK, [Next]_vars
  PROVE  ControlGrows
<1> USE TypeGroups
<1>1. ASSUME NEW l \in Nodes, JoinPrepareStep(l) PROVE ControlGrows
  <2>1. op[l] \in JoinOps
    BY <1>1, OpKinds DEF JoinPrepareStep, OpOK
  <2> QED BY <1>1, <2>1, JoinPrepareGrows, SameControlGrows DEF JoinPrepareStep, control
<1>2. ASSUME NEW l \in Nodes, JoinCompleteStep(l) \/ ReconcileComplete(l) PROVE ControlGrows
  BY <1>2, JoinCompleteGrows, SameControlGrows DEF JoinCompleteStep, ReconcileComplete, control
<1>3. ASSUME NEW l \in Nodes, NEW n \in Nodes, RemoveNode(l, n) PROVE ControlGrows
  BY <1>3, MemberRemoveGrows DEF RemoveNode
<1>4. ASSUME NEW l \in Nodes, NEW n \in Nodes, NEW o \in Ids, PromoteNode(l, n, o) PROVE ControlGrows
  BY <1>4, SameControlGrows DEF PromoteNode, CapabilityPrepare, control
<1>5. ASSUME AdmitBootstrapMember PROVE ControlGrows
  BY <1>5 DEF AdmitBootstrapMember, ControlGrows, SameAttempt, Revoked, ControlOK
<1>6. ASSUME NEW l \in Nodes,
             \/ JoinAdd(l) \/ RemoveDrop(l) \/ Transfer(l) \/ PromoteVerify(l) \/ PromoteReady(l)
             \/ PromoteVote(l) \/ ReconcileAdd(l) \/ ReconcileDrop(l) \/ ReconcileEnd(l)
             \/ ReconcileBegin(l) \/ ChangeGroup(l) \/ Elect(l) \/ Restart(l) \/ GiveUp(l)
             \/ JoinArrives(l)
      PROVE  ControlGrows
  BY <1>6, SameControlGrows DEF control, JoinAdd, RemoveDrop, Transfer, PromoteVerify, PromoteReady,
     PromoteVote, ReconcileAdd, ReconcileDrop, ReconcileEnd, ReconcileBegin, ChangeGroup, Elect,
     Restart, GiveUp, JoinArrives, CapabilityReady
<1>7. ASSUME NEW t \in Tokens, CreateToken(t) \/ RevokeToken(t) \/ ExpireToken(t) PROVE ControlGrows
  BY <1>7, SameControlGrows DEF CreateToken, RevokeToken, ExpireToken
<1>8. ASSUME NEW n \in Nodes, NEW t \in Tokens, NEW o \in Ids, RequestJoin(n, t, o)
      PROVE  ControlGrows
  BY <1>8, SameControlGrows DEF RequestJoin, control
<1> QED BY <1>1, <1>2, <1>3, <1>4, <1>5, <1>6, <1>7, <1>8, SameControlGrows DEF Next, OpStep, vars, control

-----------------------------------------------------------------------------
(* What a step keeps of the configuration.                                 *)

\* The first of a set of ids is one of them.
LEMMA FirstIsIn == ASSUME NEW S \in SUBSET Nodes, S # {} PROVE First(S) \in S
<1> DEFINE R == {p \in Nat \X Nat : p[1] < p[2]}
<1>1. S \subseteq Nat
  BY MembershipConstants
<1>2. IsWellFoundedOn(R, Nat)
  BY NatLessThanWellFounded DEF OpToRel
<1>3. \E x \in S : \A y \in S : ~(<<y, x>> \in R)
  <2> HIDE DEF R
  <2> QED BY <1>1, <1>2, WFMin
<1>4. PICK x \in S : \A y \in S : ~(<<y, x>> \in R)
  BY <1>3
<1>5. \A y \in S : x <= y
  <2> TAKE y \in S
  <2>1. <<y, x>> \in Nat \X Nat /\ <<y, x>>[1] = y /\ <<y, x>>[2] = x
    BY <1>1
  <2>2. ~(y < x)
    BY <1>4, <2>1
  <2> QED BY <1>1, <2>2
<1> QED BY <1>5 DEF First

\* Only a node that is REVOKED, or the founder, leaves the configuration.
ConfigKept ==
  \A n \in Nodes : config[n] # "none" => config'[n] # "none" \/ n = Founder \/ Revoked(n)

LEMMA NextConfig ==
  ASSUME TypeOK, \A l \in Nodes : OpSound(l), [Next]_vars
  PROVE  ConfigKept
<1> USE TypeGroups
<1>0. UNCHANGED config => ConfigKept
  BY DEF ConfigKept
<1>1. ASSUME NEW l \in Nodes, RemoveDrop(l) PROVE ConfigKept
  BY <1>0, <1>1 DEF RemoveDrop, RemoveServer, OpSound, DropsRevoked, ConfigKept, RaftOK, raftVars
<1>2. ASSUME NEW l \in Nodes, ReconcileDrop(l) PROVE ConfigKept
  <2>1. op[l] \in ReconcileOps /\ op[l].drops \in SUBSET Nodes /\ op[l].drops # {}
    BY <1>2, OpKinds DEF ReconcileDrop, OpOK, ReconcileOps
  <2>2. First(op[l].drops) \in op[l].drops
    BY <2>1, FirstIsIn
  <2>3. First(op[l].drops) = Founder \/ Revoked(First(op[l].drops))
    BY <1>2, <2>2 DEF ReconcileDrop, OpSound, DropsRevoked
  <2> QED BY <1>0, <1>2, <2>3 DEF ReconcileDrop, RemoveServer, ConfigKept, RaftOK, raftVars
<1>3. ASSUME NEW l \in Nodes, JoinAdd(l) \/ ReconcileAdd(l) \/ PromoteVote(l) PROVE ConfigKept
  BY <1>3 DEF JoinAdd, ReconcileAdd, PromoteVote, AddNonvoter, ConfigKept, RaftOK
<1>4. ASSUME NEW l \in Nodes,
             \/ JoinPrepareStep(l) \/ JoinCompleteStep(l) \/ Transfer(l) \/ PromoteVerify(l)
             \/ PromoteReady(l) \/ ReconcileComplete(l) \/ ReconcileEnd(l) \/ ReconcileBegin(l)
             \/ ChangeGroup(l) \/ Elect(l) \/ Restart(l) \/ GiveUp(l) \/ JoinArrives(l)
             \/ AdmitBootstrapMember
      PROVE  ConfigKept
  BY <1>0, <1>4 DEF raftVars, JoinPrepareStep, JoinCompleteStep, Transfer, PromoteVerify, PromoteReady,
     ReconcileComplete, ReconcileEnd, ReconcileBegin, ChangeGroup, Elect, Restart, GiveUp,
     JoinArrives, AdmitBootstrapMember
<1>5. ASSUME NEW t \in Tokens, CreateToken(t) \/ RevokeToken(t) \/ ExpireToken(t) PROVE ConfigKept
  BY <1>0, <1>5 DEF CreateToken, RevokeToken, ExpireToken, raftVars
<1>6. ASSUME NEW n \in Nodes, NEW t \in Tokens, NEW o \in Ids,
             RequestJoin(n, t, o) \/ \E l \in Nodes : RemoveNode(l, n) \/ PromoteNode(l, n, o)
      PROVE  ConfigKept
  BY <1>0, <1>6 DEF RequestJoin, RemoveNode, PromoteNode, raftVars
<1>7. ASSUME NEW l \in Nodes, NEW n \in Nodes, RemoveNode(l, n) PROVE ConfigKept
  BY <1>0, <1>7 DEF RemoveNode, raftVars
<1>8. ASSUME NEW l \in Nodes, NEW n \in Nodes, NEW o \in Ids, PromoteNode(l, n, o) PROVE ConfigKept
  BY <1>0, <1>8 DEF PromoteNode, raftVars
<1> QED BY <1>0, <1>1, <1>2, <1>3, <1>4, <1>5, <1>6, <1>7, <1>8, MembershipConstants
     DEF Next, OpStep, vars, raftVars

LEMMA NextKey == ASSUME [Next]_vars PROVE key \subseteq key'
BY DEF Next, OpStep, vars, disks, RequestJoin, GiveUp, JoinArrives, JoinPrepareStep, JoinAdd,
   JoinCompleteStep, RemoveDrop, Transfer, PromoteVerify, PromoteReady, PromoteVote, ReconcileAdd,
   ReconcileComplete, ReconcileDrop, ReconcileEnd, RemoveNode, PromoteNode, ReconcileBegin,
   CreateToken, RevokeToken, ExpireToken, ChangeGroup, Elect, Restart, AdmitBootstrapMember

-----------------------------------------------------------------------------
(* Every operation stays sound: the ones a step does not touch because of  *)
(* what it keeps, the one it moves because of what it has just done.       *)

LEMMA OldOpSound ==
  ASSUME TypeOK, ControlGrows, ConfigKept, key \subseteq key',
         NEW l \in Nodes, OpSound(l), op'[l] = op[l]
  PROVE  OpSound(l)'
<1> USE TypeGroups
<1>0. op[l] \in Ops
  BY DEF OpOK
<1>1. JoinHasAttempt(l)'
  <2>1. ASSUME op[l] \in JoinOps, op[l].at # "prepare"
        PROVE  /\ attempts'[op[l].node] # None
               /\ SameAttempt(attempts'[op[l].node], op[l])
               /\ op[l].cert = attempts'[op[l].node].cert
    <3>1. op[l].node \in Nodes /\ op[l].kind = "join"
      BY <2>1 DEF JoinOps
    <3> QED BY <2>1, <3>1 DEF OpSound, JoinHasAttempt, ControlGrows, SameAttempt
  <2> QED BY <1>0, <2>1, OpKinds DEF OpSound, JoinHasAttempt
<1>2. DropsRevoked(l)'
  <2>1. CASE op[l] \in RemoveOps
    BY <2>1 DEF OpSound, DropsRevoked, ControlGrows, RemoveOps
  <2>2. CASE op[l] \in ReconcileOps
    BY <2>2 DEF OpSound, DropsRevoked, ControlGrows, ReconcileOps
  <2> QED BY <1>0, <2>1, <2>2, OpKinds DEF DropsRevoked
<1>3. CompletesConfigured(l)'
  <2>1. ASSUME NEW n \in Nodes, Configured(n) PROVE Configured(n)'
    BY <2>1 DEF Configured, ControlGrows, ConfigKept
  <2>2. CASE op[l] \in JoinOps
    BY <2>1, <2>2 DEF OpSound, CompletesConfigured, JoinOps
  <2>3. CASE op[l] \in ReconcileOps
    <3>1. op[l].adds # {} => First(op[l].adds) \in Nodes
      BY <2>3, FirstIsIn DEF ReconcileOps
    <3> QED BY <2>1, <2>3, <3>1 DEF OpSound, CompletesConfigured, ReconcileOps
  <2> QED BY <1>0, <2>2, <2>3, OpKinds DEF CompletesConfigured
<1>4. TransferFirst(l)'
  BY DEF OpSound, TransferFirst
<1> QED BY <1>1, <1>2, <1>3, <1>4 DEF OpSound

LEMMA IdleOpSound ==
  ASSUME NEW l, op'[l] = Idle PROVE OpSound(l)'
BY DEF OpSound, JoinHasAttempt, DropsRevoked, CompletesConfigured, TransferFirst, Idle

\* What a step keeps, in one formula.
Keeps == ControlGrows /\ ConfigKept /\ key \subseteq key'

LEMMA OthersSound ==
  ASSUME TypeOK, Keeps, \A l \in Nodes : OpSound(l), NEW l \in Nodes, NEW o, Goes(l, o), OpSound(l)'
  PROVE  \A m \in Nodes : OpSound(m)'
<1> SUFFICES ASSUME NEW m \in Nodes, m # l PROVE OpSound(m)'
  OBVIOUS
<1>1. op'[m] = op[m]
  BY TypeGroups DEF Goes, OpOK
<1> QED BY <1>1, OldOpSound DEF Keeps

LEMMA SameSound ==
  ASSUME TypeOK, Keeps, \A l \in Nodes : OpSound(l), UNCHANGED op
  PROVE  \A m \in Nodes : OpSound(m)'
BY OldOpSound DEF Keeps

\* A step that ends an operation.
LEMMA EndsSound ==
  ASSUME TypeOK, Keeps, \A l \in Nodes : OpSound(l), NEW l \in Nodes, Goes(l, Idle)
  PROVE  \A m \in Nodes : OpSound(m)'
<1>1. op'[l] = Idle
  BY TypeGroups DEF Goes, OpOK
<1> QED BY <1>1, IdleOpSound, OthersSound

LEMMA JoinStepSound ==
  ASSUME TypeOK, Keeps, \A l \in Nodes : OpSound(l), NEW l \in Nodes,
         JoinPrepareStep(l) \/ JoinAdd(l) \/ JoinCompleteStep(l)
  PROVE  \A m \in Nodes : OpSound(m)'
<1> USE TypeGroups
<1>1. op[l] \in JoinOps /\ op[l].node \in Nodes
  BY OpKinds DEF JoinPrepareStep, JoinAdd, JoinCompleteStep, OpOK, JoinOps
<1>2. CASE Goes(l, Idle)
  BY <1>2, EndsSound
<1>3. CASE Prepared(l) /\ JoinPrepare(op[l]) /\ PrepareVerdict(op[l]) \in {"new", "same"}
  <2> DEFINE a == attempts'[op[l].node]
  <2>1. a # None /\ SameAttempt(a, op[l])
    BY <1>1, <1>3, JoinPrepareEffect
  <2>2. op' = [op EXCEPT ![l] = [op[l] EXCEPT !.at = "add", !.cert = a.cert]]
    BY <1>3 DEF Prepared, Goes
  <2> HIDE DEF a
  <2>3. op'[l] = [op[l] EXCEPT !.at = "add", !.cert = a.cert]
    BY <2>2 DEF OpOK
  <2>4. /\ op'[l].kind = "join" /\ op'[l].at = "add" /\ op'[l].node = op[l].node
        /\ op'[l].op = op[l].op /\ op'[l].token = op[l].token /\ op'[l].csr = op[l].csr
        /\ op'[l].cert = a.cert
    BY <1>1, <2>3 DEF JoinOps
  <2>5. OpSound(l)'
    BY <2>1, <2>4 DEF OpSound, JoinHasAttempt, DropsRevoked, CompletesConfigured, TransferFirst,
       SameAttempt, a
  <2> QED BY <1>3, <2>5, OthersSound DEF Prepared
<1>4. CASE JoinAdd(l) /\ AddNonvoter(op[l].node) /\ Goes(l, [op[l] EXCEPT !.at = "complete"])
  <2>1. op'[l] = [op[l] EXCEPT !.at = "complete"]
    BY <1>4 DEF OpOK, Goes
  <2>2. /\ op'[l].kind = "join" /\ op'[l].at = "complete" /\ op'[l].node = op[l].node
        /\ op'[l].op = op[l].op /\ op'[l].token = op[l].token /\ op'[l].csr = op[l].csr
        /\ op'[l].cert = op[l].cert
    BY <1>1, <2>1 DEF JoinOps
  <2>3. JoinHasAttempt(l)'
    BY <1>1, <1>4, <2>2 DEF JoinAdd, OpSound, JoinHasAttempt, SameAttempt, control, JoinOps
  <2>4. config'[op[l].node] # "none"
    BY <1>1, <1>4 DEF AddNonvoter, RaftOK
  <2>5. OpSound(l)'
    BY <2>2, <2>3, <2>4 DEF OpSound, DropsRevoked, CompletesConfigured, TransferFirst, Configured
  <2> QED BY <1>4, <2>5, OthersSound
<1> QED BY <1>2, <1>3, <1>4 DEF JoinPrepareStep, JoinAdd, JoinCompleteStep, Fails, Refuses

LEMMA JoinArrivesSound ==
  ASSUME TypeOK, Keeps, \A l \in Nodes : OpSound(l), NEW n \in Nodes, JoinArrives(n)
  PROVE  \A m \in Nodes : OpSound(m)'
<1> USE TypeGroups
<1>1. CASE UNCHANGED op
  BY <1>1, SameSound
<1>2. CASE op # op'
  <2> DEFINE o == [kind |-> "join", at |-> "prepare", node |-> n, op |-> pending[n].op,
                   token |-> pending[n].token, csr |-> pending[n].csr,
                   cert |-> [csr |-> pending[n].csr, no |-> signed[n] + 1]]
  <2>1. leader \in Nodes /\ Goes(leader, o)
    BY <1>2 DEF JoinArrives, RaftOK
  <2>2. o.kind = "join" /\ o.at = "prepare" /\ o.cert.csr = o.csr
    OBVIOUS
  <2> HIDE DEF o
  <2>3. op'[leader] = o
    BY <2>1 DEF Goes, OpOK
  <2>4. \A l \in Nodes : l = leader => OpSound(l)'
    BY <2>1, <2>2, <2>3 DEF OpSound, JoinHasAttempt, DropsRevoked, CompletesConfigured, TransferFirst
  <2> QED BY <2>1, <2>4, OthersSound
<1> QED BY <1>1, <1>2

LEMMA RemoveSound ==
  ASSUME TypeOK, Keeps, \A l \in Nodes : OpSound(l), NEW l \in Nodes, NEW n \in Nodes,
         RemoveNode(l, n) \/ RemoveDrop(l)
  PROVE  \A m \in Nodes : OpSound(m)'
<1> USE TypeGroups
<1>1. CASE Goes(l, Idle)
  BY <1>1, EndsSound
<1>2. CASE UNCHANGED op
  BY <1>2, SameSound
<1>3. CASE MemberRemove(n) /\ Goes(l, [kind |-> "remove", node |-> n])
  <2>1. op'[l].kind = "remove" /\ op'[l].node = n
    BY <1>3 DEF Goes, OpOK
  <2>2. Revoked(n)'
    BY <1>3 DEF MemberRemove, Revoked, ControlOK, Members
  <2>3. OpSound(l)'
    BY <2>1, <2>2 DEF OpSound, JoinHasAttempt, DropsRevoked, CompletesConfigured, TransferFirst
  <2> QED BY <1>3, <2>3, OthersSound
<1> QED BY <1>1, <1>2, <1>3 DEF RemoveNode, RemoveDrop

LEMMA PromoteSound ==
  ASSUME TypeOK, Keeps, \A l \in Nodes : OpSound(l), NEW l \in Nodes,
         \/ \E n \in Nodes, o \in Ids : PromoteNode(l, n, o)
         \/ Transfer(l) \/ PromoteVerify(l) \/ PromoteReady(l) \/ PromoteVote(l)
  PROVE  \A m \in Nodes : OpSound(m)'
<1> USE TypeGroups
<1> USE DEF Goes, OpOK
<1>1. CASE Goes(l, Idle)
  BY <1>1, EndsSound
<1>2. CASE UNCHANGED op
  BY <1>2, SameSound
<1>3. ASSUME NEW n \in Nodes, NEW o \in Ids, PromoteNode(l, n, o), op' # op
      PROVE  \A m \in Nodes : OpSound(m)'
  <2>1. PICK x : Goes(l, x) /\ x.kind = "promote" /\ x.at = "transfer"
    BY <1>3 DEF PromoteNode
  <2>2. op'[l].kind = "promote" /\ op'[l].at = "transfer"
    BY <2>1
  <2>3. OpSound(l)'
    BY <2>2 DEF OpSound, JoinHasAttempt, DropsRevoked, CompletesConfigured, TransferFirst
  <2> QED BY <2>1, <2>3, OthersSound
<1>4. ASSUME NEW a \in {"verify", "ready", "check", "vote"}, op[l] \in PromoteOps,
             Goes(l, [op[l] EXCEPT !.at = a]), op[l].node \in key'
      PROVE  \A m \in Nodes : OpSound(m)'
  <2>1. op'[l].kind = "promote" /\ op'[l].node = op[l].node
    BY <1>4 DEF PromoteOps
  <2>2. OpSound(l)'
    BY <1>4, <2>1 DEF OpSound, JoinHasAttempt, DropsRevoked, CompletesConfigured, TransferFirst
  <2> QED BY <1>4, <2>2, OthersSound
<1>5. CASE Transfer(l)
  <2>1. op[l] \in PromoteOps
    BY <1>5, OpKinds DEF Transfer
  <2> QED BY <1>1, <1>4, <1>5, <2>1 DEF Transfer
<1>6. CASE PromoteVerify(l) \/ PromoteReady(l)
  <2>1. op[l] \in PromoteOps /\ op[l].at # "transfer" /\ op[l].kind = "promote"
    BY <1>6, OpKinds DEF PromoteVerify, PromoteReady
  <2>2. op[l].node \in key'
    BY <2>1 DEF OpSound, TransferFirst, Keeps
  <2> QED BY <1>1, <1>4, <1>6, <2>1, <2>2 DEF PromoteVerify, PromoteReady
<1>7. CASE PromoteVote(l)
  BY <1>1, <1>7 DEF PromoteVote
<1> QED BY <1>1, <1>2, <1>3, <1>5, <1>6, <1>7

LEMMA ReconcileSound ==
  ASSUME TypeOK, Keeps, \A l \in Nodes : OpSound(l), NEW l \in Nodes,
         \/ ReconcileBegin(l) \/ ReconcileAdd(l) \/ ReconcileComplete(l)
         \/ ReconcileDrop(l) \/ ReconcileEnd(l)
  PROVE  \A m \in Nodes : OpSound(m)'
<1> USE TypeGroups
<1> USE DEF Goes, OpOK
<1>1. CASE ReconcileEnd(l)
  BY <1>1, EndsSound DEF ReconcileEnd
<1>2. CASE ReconcileBegin(l)
  <2> DEFINE x == [kind |-> "reconcile", at |-> "add", adds |-> Missing \cup Incomplete,
                   joining |-> Incomplete, drops |-> RemovalPending]
  <2>1. Goes(l, x)
    BY <1>2 DEF ReconcileBegin
  <2>2. op'[l].kind = "reconcile" /\ op'[l].at = "add" /\ op'[l].drops = RemovalPending
    BY <2>1
  <2>3. \A n \in RemovalPending : n = Founder \/ Revoked(n)'
    BY DEF RemovalPending, Keeps, ControlGrows
  <2>4. OpSound(l)'
    BY <2>2, <2>3 DEF OpSound, JoinHasAttempt, DropsRevoked, CompletesConfigured, TransferFirst
  <2> QED BY <2>1, <2>4, OthersSound
<1>3. ASSUME NEW x \in ReconcileOps, Goes(l, x), op[l] \in ReconcileOps,
             x.drops \subseteq op[l].drops,
             x.at = "complete" => x.adds # {} /\ config'[First(x.adds)] # "none"
      PROVE  \A m \in Nodes : OpSound(m)'
  <2>1. op'[l] = x /\ x.kind = "reconcile" /\ op[l].kind = "reconcile" /\ op[l].drops \subseteq Nodes
    BY <1>3 DEF ReconcileOps
  <2>2. \A n \in x.drops : n = Founder \/ Revoked(n)'
    BY <1>3, <2>1 DEF Keeps, ControlGrows, OpSound, DropsRevoked
  <2>3. OpSound(l)'
    BY <1>3, <2>1, <2>2 DEF OpSound, JoinHasAttempt, DropsRevoked, CompletesConfigured, TransferFirst, Configured
  <2> QED BY <1>3, <2>3, OthersSound
<1>4. CASE ReconcileAdd(l)
  <2> DEFINE c == op[l]
             n == First(c.adds)
  <2>1. c \in ReconcileOps /\ c.adds \in SUBSET Nodes /\ c.adds # {}
    BY <1>4, OpKinds DEF ReconcileAdd, ReconcileOps
  <2>2. n \in Nodes
    BY <2>1, FirstIsIn
  <2>3. CASE Goes(l, [c EXCEPT !.adds = @ \ {n}])
    <3>1. /\ [c EXCEPT !.adds = @ \ {n}] \in ReconcileOps
          /\ [c EXCEPT !.adds = @ \ {n}].drops = c.drops
          /\ [c EXCEPT !.adds = @ \ {n}].at = c.at /\ c.at = "add"
      BY <1>4, <2>1, ReconcileGoesOn DEF ReconcileOps, ReconcileAdd
    <3> QED BY <1>3, <2>1, <2>3, <3>1
  <2>4. CASE AddNonvoter(n) /\ Goes(l, [c EXCEPT !.at = "complete"])
    <3>1. /\ [c EXCEPT !.at = "complete"] \in ReconcileOps
          /\ [c EXCEPT !.at = "complete"].drops = c.drops
          /\ [c EXCEPT !.at = "complete"].adds = c.adds
      BY <2>1, ReconcileGoesOn DEF ReconcileOps
    <3>2. config'[n] # "none"
      BY <2>2, <2>4 DEF AddNonvoter, RaftOK
    <3> QED BY <1>3, <2>1, <2>4, <3>1, <3>2
  <2> QED BY <1>4, <2>3, <2>4 DEF ReconcileAdd
<1>5. CASE ReconcileComplete(l)
  <2> DEFINE c == op[l]
             n == First(c.adds)
             x == [c EXCEPT !.at = "add", !.adds = @ \ {n}]
  <2>1. c \in ReconcileOps /\ Goes(l, x)
    BY <1>5, OpKinds DEF ReconcileComplete
  <2>2. x \in ReconcileOps
    BY <2>1, ReconcileGoesOn
  <2>3. x.drops = c.drops /\ x.at = "add"
    BY <2>1 DEF ReconcileOps
  <2> QED BY <1>3, <2>1, <2>2, <2>3
<1>6. CASE ReconcileDrop(l)
  <2> DEFINE c == op[l]
             n == First(c.drops)
             x == [c EXCEPT !.drops = @ \ {n}]
  <2>1. c \in ReconcileOps /\ Goes(l, x) /\ c.at = "add"
    BY <1>6, OpKinds DEF ReconcileDrop
  <2>2. x \in ReconcileOps /\ x.drops \subseteq c.drops /\ x.at = "add"
    BY <2>1, ReconcileGoesOn DEF ReconcileOps
  <2> QED BY <1>3, <2>1, <2>2
<1> QED BY <1>1, <1>2, <1>4, <1>5, <1>6

\* Every step keeps every operation sound.
LEMMA NextSound ==
  ASSUME TypeOK, \A l \in Nodes : OpSound(l), [Next]_vars
  PROVE  \A m \in Nodes : OpSound(m)'
<1>1. Keeps
  BY NextGrows, NextConfig, NextKey DEF Keeps
<1>2. CASE UNCHANGED op
  BY <1>1, <1>2, SameSound
<1>3. ASSUME NEW n \in Nodes, Restart(n) PROVE \A m \in Nodes : OpSound(m)'
  BY <1>1, <1>3, EndsSound DEF Restart
<1>4. ASSUME NEW n \in Nodes, NEW t \in Tokens, NEW o \in Ids, RequestJoin(n, t, o) PROVE UNCHANGED op
  BY <1>4 DEF RequestJoin
<1>5. ASSUME NEW n \in Nodes, GiveUp(n) \/ ChangeGroup(n) \/ Elect(n) PROVE UNCHANGED op
  BY <1>5 DEF GiveUp, ChangeGroup, Elect
<1>6. ASSUME NEW t \in Tokens, CreateToken(t) \/ RevokeToken(t) \/ ExpireToken(t) PROVE UNCHANGED op
  BY <1>6 DEF CreateToken, RevokeToken, ExpireToken
<1>7. AdmitBootstrapMember \/ UNCHANGED vars => UNCHANGED op
  BY DEF AdmitBootstrapMember, vars
<1> QED BY <1>1, <1>2, <1>3, <1>4, <1>5, <1>6, <1>7, JoinStepSound, JoinArrivesSound, RemoveSound,
     PromoteSound, ReconcileSound DEF Next, OpStep

-----------------------------------------------------------------------------
(* What a joiner waits for.                                                *)

JoinerInv == WaitHasPending /\ SignedOnce /\ WaitsForItsJoin

\* A step that leaves the joiners alone moves no join, or keeps whose it is.
LEMMA AloneKeepsJoiners ==
  ASSUME TypeOK, JoinerInv, UNCHANGED <<wait, pending, signed, calls>>,
         \A l \in Nodes : \/ op'[l] = op[l]
                          \/ op[l].kind # "join"
                          \/ /\ op'[l].kind = "join" /\ op'[l].node = op[l].node
                             /\ op'[l].csr = op[l].csr
  PROVE  JoinerInv'
BY DEF JoinerInv, WaitHasPending, SignedOnce, WaitsForItsJoin

\* A join that ends answers its joiner, and nobody else waits for it.
LEMMA AnswerKeepsJoiners ==
  ASSUME TypeOK, JoinerInv, NEW l \in Nodes, op[l] \in JoinOps, Goes(l, Idle),
         NEW r, Answer(l, op[l].node, r), UNCHANGED <<signed, calls>>
  PROVE  JoinerInv'
<1> USE TypeGroups
<1>1. op[l].node \in Nodes
  BY DEF JoinOps
<1>2. \A m \in Nodes : m # l => op'[m] = op[m]
  BY DEF Goes, OpOK
<1>3. \A m \in Nodes : wait'[m] # l
  BY <1>1, MembershipConstants DEF Answer, JoinerInv, WaitsForItsJoin, JoinerOK
<1>4. \A m \in Nodes : wait'[m] = wait[m] \/ wait'[m] = None
  BY <1>1 DEF Answer, JoinerOK
<1>5. \A m \in Nodes : wait'[m] # None => pending'[m] = pending[m] /\ wait'[m] = wait[m]
  BY <1>1 DEF Answer, JoinerOK
<1>6. WaitHasPending'
  BY <1>5 DEF JoinerInv, WaitHasPending
<1>7. SignedOnce'
  BY <1>4, MembershipConstants DEF JoinerInv, SignedOnce, Seed, JoinerOK, CountsOK
<1>8. WaitsForItsJoin'
  <2> SUFFICES ASSUME NEW n \in Nodes, NEW m \in Nodes, wait'[n] = m
               PROVE  op'[m].kind = "join" /\ op'[m].node = n /\ op'[m].csr = pending'[n].csr
    BY DEF WaitsForItsJoin
  <2>1. m # l /\ m # None
    BY <1>3, MembershipConstants
  <2> QED BY <1>2, <1>5, <2>1 DEF JoinerInv, WaitsForItsJoin
<1> QED BY <1>6, <1>7, <1>8 DEF JoinerInv

LEMMA JoinStepJoiners ==
  ASSUME TypeOK, JoinerInv, NEW l \in Nodes,
         JoinPrepareStep(l) \/ JoinAdd(l) \/ JoinCompleteStep(l)
  PROVE  JoinerInv'
<1> USE TypeGroups
<1>1. op[l] \in JoinOps
  BY OpKinds DEF JoinPrepareStep, JoinAdd, JoinCompleteStep, OpOK
<1>2. UNCHANGED <<signed, calls>>
  BY DEF JoinPrepareStep, JoinAdd, JoinCompleteStep
<1>3. CASE Goes(l, Idle) /\ \E r \in BOOLEAN : Answer(l, op[l].node, r)
  BY <1>1, <1>2, <1>3, AnswerKeepsJoiners
<1>4. ASSUME NEW x, Goes(l, x), x.kind = "join", x.node = op[l].node, x.csr = op[l].csr,
             UNCHANGED <<wait, pending>>
      PROVE  JoinerInv'
  <2>1. \A m \in Nodes : IF m = l THEN op'[m] = x ELSE op'[m] = op[m]
    BY <1>4 DEF Goes, OpOK
  <2> QED BY <1>2, <1>4, <2>1, AloneKeepsJoiners
<1>5. CASE Prepared(l) /\ UNCHANGED <<wait, pending>>
  <2> DEFINE x == [op[l] EXCEPT !.at = "add", !.cert = attempts'[op[l].node].cert]
  <2>1. x.kind = "join" /\ x.node = op[l].node /\ x.csr = op[l].csr
    BY <1>1 DEF JoinOps
  <2>2. Goes(l, x)
    BY <1>5 DEF Prepared
  <2> HIDE DEF x
  <2> QED BY <1>4, <1>5, <2>1, <2>2
<1>6. CASE JoinAdd(l) /\ Goes(l, [op[l] EXCEPT !.at = "complete"]) /\ UNCHANGED <<wait, pending>>
  <2> DEFINE x == [op[l] EXCEPT !.at = "complete"]
  <2>1. x.kind = "join" /\ x.node = op[l].node /\ x.csr = op[l].csr
    BY <1>1 DEF JoinOps
  <2> QED BY <1>4, <1>6, <2>1
<1> QED BY <1>3, <1>5, <1>6 DEF JoinPrepareStep, JoinAdd, JoinCompleteStep, Fails, Refuses

LEMMA JoinArrivesJoiners ==
  ASSUME TypeOK, JoinerInv, NEW n \in Nodes, JoinArrives(n)
  PROVE  JoinerInv'
<1> USE TypeGroups, MembershipConstants
<1>1. leader \in Nodes /\ op[leader] = Idle /\ wait[n] = Seed /\ calls' = calls
  BY DEF JoinArrives, RaftOK, counts
<1>2. \A m \in Nodes : wait[m] # leader
  <2>1. op[leader].kind # "join"
    BY <1>1, IdleIsOp
  <2> QED BY <1>1, <2>1 DEF JoinerInv, WaitsForItsJoin
<1>3. CASE UNCHANGED <<op, signed>>
  <2>1. \A m \in Nodes : wait'[m] = wait[m] \/ wait'[m] = None
    BY <1>1, <1>3 DEF JoinArrives, JoinerOK
  <2>2. \A m \in Nodes : wait'[m] # None => pending'[m] = pending[m] /\ wait'[m] = wait[m]
    BY <1>1, <1>3 DEF JoinArrives, JoinerOK
  <2>3. SignedOnce'
    BY <1>1, <1>3, <2>1 DEF JoinerInv, SignedOnce, Seed, JoinerOK, CountsOK
  <2> QED BY <1>3, <2>2, <2>3 DEF JoinerInv, WaitHasPending, WaitsForItsJoin
<1>4. CASE /\ wait' = [wait EXCEPT ![n] = leader]
           /\ signed' = [signed EXCEPT ![n] = @ + 1] /\ UNCHANGED pending
           /\ Goes(leader, [kind |-> "join", at |-> "prepare", node |-> n, op |-> pending[n].op,
                            token |-> pending[n].token, csr |-> pending[n].csr,
                            cert |-> [csr |-> pending[n].csr, no |-> signed[n] + 1]])
  <2>1. op'[leader].kind = "join" /\ op'[leader].node = n /\ op'[leader].csr = pending[n].csr
    BY <1>1, <1>4 DEF Goes, OpOK
  <2>2. \A m \in Nodes : m # leader => op'[m] = op[m]
    BY <1>4 DEF Goes, OpOK
  <2>3. WaitHasPending'
    <3>1. pending[n] # None
      BY <1>1 DEF JoinerInv, WaitHasPending, Seed
    <3>2. \A m \in Nodes : m # n => wait'[m] = wait[m]
      BY <1>4 DEF JoinerOK
    <3> QED BY <1>4, <3>1, <3>2 DEF JoinerInv, WaitHasPending
  <2>4. SignedOnce'
    BY <1>1, <1>4 DEF JoinerInv, SignedOnce, Seed, JoinerOK, CountsOK
  <2>5. WaitsForItsJoin'
    BY <1>1, <1>2, <1>4, <2>1, <2>2 DEF JoinerInv, WaitsForItsJoin, JoinerOK
  <2> QED BY <2>3, <2>4, <2>5 DEF JoinerInv
<1> QED BY <1>3, <1>4 DEF JoinArrives

LEMMA RequestJoinJoiners ==
  ASSUME TypeOK, JoinerInv, NEW n \in Nodes, NEW t \in Tokens, NEW o \in Ids,
         RequestJoin(n, t, o)
  PROVE  JoinerInv'
<1> USE TypeGroups, MembershipConstants
<1>1. pending'[n] # None
  <2>1. [op |-> o, token |-> t, csr |-> calls + 1] \in PendingJoins
    BY DEF RequestJoin, PendingJoins, CountsOK
  <2> QED BY <2>1, NoneIsNoRecord DEF RequestJoin, JoinerOK
<1>2. /\ wait'[n] = Seed
      /\ \A m \in Nodes : m # n => wait'[m] = wait[m] /\ pending'[m] = pending[m]
  BY DEF RequestJoin, JoinerOK
<1>3. WaitHasPending'
  BY <1>1, <1>2 DEF JoinerInv, WaitHasPending
<1>4. SignedOnce'
  BY DEF RequestJoin, JoinerInv, SignedOnce, Seed, JoinerOK, CountsOK
<1>5. WaitsForItsJoin'
  <2>1. op' = op /\ Seed \notin Nodes
    BY DEF RequestJoin, Seed
  <2> QED BY <1>2, <2>1 DEF JoinerInv, WaitsForItsJoin
<1> QED BY <1>3, <1>4, <1>5 DEF JoinerInv

LEMMA GiveUpJoiners ==
  ASSUME TypeOK, JoinerInv, NEW n \in Nodes, GiveUp(n)
  PROVE  JoinerInv'
<1> USE TypeGroups, MembershipConstants
<1>1. SignedOnce'
  BY DEF GiveUp, JoinerInv, SignedOnce, Seed, JoinerOK, CountsOK, counts
<1> QED BY <1>1 DEF GiveUp, JoinerInv, WaitHasPending, WaitsForItsJoin, JoinerOK, disks

LEMMA RestartJoiners ==
  ASSUME TypeOK, JoinerInv, NEW n \in Nodes, Restart(n)
  PROVE  JoinerInv'
<1> USE TypeGroups, MembershipConstants
<1>1. \A m \in Nodes : m # n => op'[m] = op[m]
  BY DEF Restart, Goes, OpOK
<1>2. \A m \in Nodes : wait'[m] = IF wait[m] = n THEN None ELSE wait[m]
  BY DEF Restart
<1>3. SignedOnce'
  BY <1>2 DEF Restart, JoinerInv, SignedOnce, Seed, JoinerOK, CountsOK
<1> QED BY <1>1, <1>2, <1>3 DEF Restart, disks, JoinerInv, WaitHasPending, WaitsForItsJoin

\* Every step keeps what joiners wait for.
LEMMA NextJoiners ==
  ASSUME TypeOK, JoinerInv, [Next]_vars
  PROVE  JoinerInv'
<1> USE TypeGroups
<1>1. ASSUME NEW l \in Nodes, NEW x, Goes(l, x), op[l].kind # "join",
             UNCHANGED <<wait, pending, signed, calls>>
      PROVE  JoinerInv'
  <2>1. \A m \in Nodes : op'[m] = op[m] \/ m = l
    BY <1>1 DEF Goes, OpOK
  <2> QED BY <1>1, <2>1, AloneKeepsJoiners
<1>2. CASE UNCHANGED <<op, wait, pending, signed, calls>>
  BY <1>2, AloneKeepsJoiners
<1>3. ASSUME NEW l \in Nodes,
             \/ RemoveDrop(l) \/ Transfer(l) \/ PromoteVerify(l) \/ PromoteReady(l) \/ PromoteVote(l)
             \/ ReconcileAdd(l) \/ ReconcileComplete(l) \/ ReconcileDrop(l) \/ ReconcileEnd(l)
             \/ ReconcileBegin(l)
      PROVE  JoinerInv'
  BY <1>1, <1>3 DEF RemoveDrop, Transfer, PromoteVerify, PromoteReady, PromoteVote, ReconcileAdd,
     ReconcileComplete, ReconcileDrop, ReconcileEnd, ReconcileBegin, Idle, disks, counts
<1>4. ASSUME NEW l \in Nodes, NEW n \in Nodes, RemoveNode(l, n) PROVE JoinerInv'
  BY <1>1, <1>2, <1>4 DEF RemoveNode, Idle, disks, counts
<1>5. ASSUME NEW l \in Nodes, NEW n \in Nodes, NEW o \in Ids, PromoteNode(l, n, o) PROVE JoinerInv'
  BY <1>1, <1>2, <1>5 DEF PromoteNode, Idle, disks, counts
<1>6. ASSUME NEW t \in Tokens, CreateToken(t) \/ RevokeToken(t) \/ ExpireToken(t) PROVE JoinerInv'
  BY <1>2, <1>6 DEF CreateToken, RevokeToken, ExpireToken, disks, counts
<1>7. ASSUME NEW n \in Nodes, ChangeGroup(n) \/ Elect(n) \/ AdmitBootstrapMember PROVE JoinerInv'
  BY <1>2, <1>7 DEF ChangeGroup, Elect, AdmitBootstrapMember, disks, counts
<1> QED BY <1>2, <1>3, <1>4, <1>5, <1>6, <1>7, JoinStepJoiners, JoinArrivesJoiners,
     RequestJoinJoiners, GiveUpJoiners, RestartJoiners, MembershipConstants DEF Next, OpStep, vars, disks, counts

-----------------------------------------------------------------------------
(* What a step makes of a member, of the agent group and of certificates.  *)

Same(n) == members'[n] = members[n]

Joins(n) ==
  members[n] = NoMember /\ members'[n].status = "JOINING" /\ members'[n].cert # None

Completes(n) ==
  /\ members[n].status = "JOINING" /\ members'[n].status = "ADMITTED"
  /\ members'[n].cert = members[n].cert /\ Configured(n)

Removed(n) ==
  /\ members[n] # NoMember /\ members'[n].status = "REVOKED"
  /\ members'[n].cert = members[n].cert
  /\ <<n, members[n].cert>> \in crl' /\ n \notin group'

Returns(n) ==
  n = Founder /\ members'[n].status = "ADMITTED" /\ members'[n].cert = bundle[n].cert

MemberStep ==
  /\ \A n \in Nodes : Same(n) \/ Joins(n) \/ Completes(n) \/ Removed(n) \/ Returns(n)
  /\ crl \subseteq crl'
  /\ \A n \in group' : n \in group \/ (Admitted(n) /\ Same(n))

LEMMA SameMembers ==
  UNCHANGED <<members, crl, group>> => MemberStep
BY DEF MemberStep, Same

LEMMA JoinCompleteMembers ==
  ASSUME ControlOK, NEW n, NEW o, JoinComplete(n, o), Configured(n)
  PROVE  MemberStep
<1>1. CASE UNCHANGED control
  BY <1>1, SameMembers DEF control
<1>2. CASE CompleteOK(n, o) /\ members[n].status = "JOINING"
  <2>1. members' = [members EXCEPT ![n].status = "ADMITTED"] /\ UNCHANGED <<crl, group>>
    BY <1>2 DEF JoinComplete
  <2>2. ASSUME NEW m \in Nodes PROVE Same(m) \/ Completes(m)
    <3>1. CASE m # n
      BY <2>1, <3>1 DEF Same, ControlOK
    <3>2. CASE m = n
      BY <1>2, <2>1, <3>2 DEF Completes, ControlOK, Members
    <3> QED BY <3>1, <3>2
  <2> QED BY <2>1, <2>2 DEF MemberStep
<1> QED BY <1>1, <1>2 DEF JoinComplete

LEMMA JoinPrepareMembers ==
  ASSUME ControlOK, NEW c \in JoinOps, JoinPrepare(c)
  PROVE  MemberStep
<1>1. c.cert # None
  BY NoneIsNoRecord DEF JoinOps
<1>2. ASSUME NEW n \in Nodes PROVE Same(n) \/ Joins(n)
  <2>1. members'[n] # members[n] =>
          members[n] = NoMember /\ members'[n] = [status |-> "JOINING", cert |-> c.cert]
    BY JoinPrepareEffect
  <2> QED BY <1>1, <2>1 DEF Same, Joins
<1> QED BY <1>2, JoinPrepareEffect DEF MemberStep

LEMMA MemberRemoveMembers ==
  ASSUME ControlOK, NEW n \in Nodes, members[n] # NoMember, MemberRemove(n)
  PROVE  MemberStep
<1>1. ASSUME NEW m \in Nodes PROVE Same(m) \/ Removed(m)
  <2>1. CASE m # n
    BY <2>1 DEF MemberRemove, Same, ControlOK
  <2>2. CASE m = n
    <3>1. members'[n] = [members[n] EXCEPT !.status = "REVOKED"] /\ members[n] \in Members
      BY DEF MemberRemove, ControlOK
    <3>2. members'[n].status = "REVOKED" /\ members'[n].cert = members[n].cert
      BY <3>1 DEF Members
    <3> QED BY <2>2, <3>2 DEF MemberRemove, Removed
  <2> QED BY <2>1, <2>2
<1> QED BY <1>1 DEF MemberStep, MemberRemove

LEMMA NextMembers ==
  ASSUME TypeOK, \A l \in Nodes : OpSound(l), [Next]_vars
  PROVE  MemberStep
<1> USE TypeGroups
<1>1. ASSUME NEW l \in Nodes, JoinPrepareStep(l) PROVE MemberStep
  <2>1. op[l] \in JoinOps
    BY <1>1, OpKinds DEF JoinPrepareStep, OpOK
  <2> QED BY <1>1, <2>1, JoinPrepareMembers, SameMembers DEF JoinPrepareStep, control
<1>2. ASSUME NEW l \in Nodes, JoinCompleteStep(l) PROVE MemberStep
  <2>1. Configured(op[l].node)
    BY <1>2 DEF JoinCompleteStep, OpSound, CompletesConfigured
  <2> QED BY <1>2, <2>1, JoinCompleteMembers, SameMembers DEF JoinCompleteStep, control
<1>3. ASSUME NEW l \in Nodes, ReconcileComplete(l) PROVE MemberStep
  <2>1. Configured(First(op[l].adds))
    BY <1>3 DEF ReconcileComplete, OpSound, CompletesConfigured
  <2> QED BY <1>3, <2>1, JoinCompleteMembers, SameMembers DEF ReconcileComplete, control
<1>4. ASSUME NEW l \in Nodes, NEW n \in Nodes, RemoveNode(l, n) PROVE MemberStep
  BY <1>4, MemberRemoveMembers DEF RemoveNode
<1>5. ASSUME NEW l \in Nodes, NEW n \in Nodes, NEW o \in Ids, PromoteNode(l, n, o) PROVE MemberStep
  BY <1>5, SameMembers DEF PromoteNode, CapabilityPrepare, control
<1>6. ASSUME AdmitBootstrapMember PROVE MemberStep
  <2>1. ASSUME NEW m \in Nodes PROVE Same(m) \/ Returns(m)
    BY <1>6 DEF AdmitBootstrapMember, Same, Returns, ControlOK
  <2> QED BY <1>6, <2>1 DEF AdmitBootstrapMember, MemberStep
<1>7. ASSUME NEW n \in Nodes, ChangeGroup(n) PROVE MemberStep
  BY <1>7 DEF ChangeGroup, MemberStep, Same
<1>8. ASSUME NEW l \in Nodes,
             \/ JoinAdd(l) \/ RemoveDrop(l) \/ Transfer(l) \/ PromoteVerify(l) \/ PromoteReady(l)
             \/ PromoteVote(l) \/ ReconcileAdd(l) \/ ReconcileDrop(l) \/ ReconcileEnd(l)
             \/ ReconcileBegin(l) \/ Elect(l) \/ Restart(l) \/ GiveUp(l) \/ JoinArrives(l)
      PROVE  MemberStep
  BY <1>8, SameMembers DEF control, JoinAdd, RemoveDrop, Transfer, PromoteVerify, PromoteReady,
     PromoteVote, ReconcileAdd, ReconcileDrop, ReconcileEnd, ReconcileBegin, Elect,
     Restart, GiveUp, JoinArrives, CapabilityReady
<1>9. ASSUME NEW t \in Tokens, CreateToken(t) \/ RevokeToken(t) \/ ExpireToken(t) PROVE MemberStep
  BY <1>9, SameMembers DEF CreateToken, RevokeToken, ExpireToken
<1>10. ASSUME NEW n \in Nodes, NEW t \in Tokens, NEW o \in Ids, RequestJoin(n, t, o)
       PROVE  MemberStep
  BY <1>10, SameMembers DEF RequestJoin, control
<1> QED BY <1>1, <1>2, <1>3, <1>4, <1>5, <1>6, <1>7, <1>8, <1>9, <1>10, SameMembers
     DEF Next, OpStep, vars, control

\* A certificate is installed only by a join that completes: the one its member carries.
BundleStep ==
  \A n \in Nodes :
    \/ bundle'[n] = bundle[n]
    \/ /\ bundle'[n] # None /\ members'[n].cert = bundle'[n].cert
       /\ bundle'[n].cert.csr = bundle'[n].csr
       /\ ~Revoked(n)'

LEMMA JoinCompleteBundle ==
  ASSUME TypeOK, AttemptCert, WaitsForItsJoin, WaitHasPending, NEW l \in Nodes, OpSound(l), JoinCompleteStep(l)
  PROVE  BundleStep
<1> USE TypeGroups
<1> DEFINE c == op[l]
           n == op[l].node
           b == [cert |-> c.cert, csr |-> pending[n].csr]
<1>1. c \in JoinOps /\ n \in Nodes /\ c.kind = "join" /\ c.at = "complete"
  BY OpKinds DEF JoinCompleteStep, OpOK, JoinOps
<1>2. CASE UNCHANGED bundle
  BY <1>2 DEF BundleStep
<1>3. CASE /\ bundle' = [bundle EXCEPT ![n] = b]
           /\ wait[n] = l /\ CompleteOK(n, c.op) /\ JoinComplete(n, c.op)
  <2>1. attempts[n] # None /\ attempts[n].cert = c.cert /\ attempts[n].csr = c.csr
    BY <1>1 DEF OpSound, JoinHasAttempt, SameAttempt
  <2>2. c.cert.csr = c.csr /\ pending[n].csr = c.csr
    BY <1>1, <1>3, <2>1 DEF AttemptCert, WaitsForItsJoin
  <2>3. b \in Bundles
    BY <1>1, <2>2 DEF Bundles, JoinOps
  <2>4. bundle'[n] = b /\ b # None /\ \A m \in Nodes : m # n => bundle'[m] = bundle[m]
    BY <1>1, <1>3, <2>3, NoneIsNoRecord DEF JoinerOK
  <2>5. members[n].cert = c.cert
    BY <1>3, <2>1 DEF CompleteOK
  <2>6. members'[n].cert = c.cert /\ members'[n].status = "ADMITTED"
    <3>1. CASE members[n].status = "JOINING"
      BY <1>1, <1>3, <2>5, <3>1 DEF JoinComplete, ControlOK, Members
    <3>2. CASE members[n].status # "JOINING"
      BY <1>1, <1>3, <2>5, <3>2 DEF JoinComplete, CompleteOK, control
    <3> QED BY <3>1, <3>2
  <2>7. b.cert = c.cert /\ b.csr = c.csr
    BY <2>2
  <2> HIDE DEF b
  <2> QED BY <2>2, <2>4, <2>6, <2>7 DEF BundleStep, Revoked
<1> QED BY <1>2, <1>3 DEF JoinCompleteStep

LEMMA NextBundle ==
  ASSUME TypeOK, AttemptCert, JoinerInv, \A l \in Nodes : OpSound(l), [Next]_vars
  PROVE  BundleStep
<1>1. CASE \E l \in Nodes : JoinCompleteStep(l)
  BY <1>1, JoinCompleteBundle DEF JoinerInv
<1>2. CASE ~\E l \in Nodes : JoinCompleteStep(l)
  <2>1. UNCHANGED bundle
    BY <1>2 DEF Next, OpStep, vars, disks, RequestJoin, GiveUp, JoinArrives, JoinPrepareStep, JoinAdd,
       RemoveDrop, Transfer, PromoteVerify, PromoteReady, PromoteVote, ReconcileAdd,
       ReconcileComplete, ReconcileDrop, ReconcileEnd, RemoveNode, PromoteNode, ReconcileBegin,
       CreateToken, RevokeToken, ExpireToken, ChangeGroup, Elect, Restart, AdmitBootstrapMember
  <2> QED BY <2>1 DEF BundleStep
<1> QED BY <1>1, <1>2

-----------------------------------------------------------------------------
(* Tokens and attempts.                                                    *)

\* The nodes that a token let in.
LetIn(t) == {n \in Nodes : attempts[n] # None /\ attempts[n].token = t}

LEMMA SameLetIn ==
  ASSUME TokenSpentOnce, \A t \in Tokens : LetIn(t)' = LetIn(t),
         \A t \in Tokens : tokens'[t].uses - tokens'[t].left = tokens[t].uses - tokens[t].left
  PROVE  TokenSpentOnce'
BY DEF TokenSpentOnce, LetIn

\* A step that moves no token and at most the status of attempts.
LEMMA JoinCompleteTokens ==
  ASSUME ControlOK, TokenSpentOnce, AttemptCert, NEW n, NEW o, JoinComplete(n, o)
  PROVE  TokenSpentOnce' /\ AttemptCert'
<1>1. tokens' = tokens
  BY DEF JoinComplete, control
<1>2. ASSUME NEW m \in Nodes
      PROVE  /\ attempts'[m] # None <=> attempts[m] # None
             /\ attempts[m] # None =>
                  /\ attempts'[m].token = attempts[m].token
                  /\ attempts'[m].cert = attempts[m].cert /\ attempts'[m].csr = attempts[m].csr
  <2>1. CASE attempts'[m] = attempts[m]
    BY <2>1
  <2>2. CASE attempts'[m] # attempts[m]
    <3>1. CompleteOK(n, o) /\ m = n
      BY <2>2 DEF JoinComplete, control, ControlOK
    <3>2. attempts[m] \in JoinAttempts
      BY <3>1 DEF CompleteOK, ControlOK
    <3>3. attempts'[m] = [attempts[m] EXCEPT !.status = "COMPLETED"]
      BY <2>2, <3>1 DEF JoinComplete, control, ControlOK
    <3>4. [attempts[m] EXCEPT !.status = "COMPLETED"] \in JoinAttempts
      BY <3>2 DEF JoinAttempts
    <3> QED BY <3>2, <3>3, <3>4, NoneIsNoRecord DEF JoinAttempts
  <2> QED BY <2>1, <2>2
<1>3. \A t \in Tokens : LetIn(t)' = LetIn(t)
  BY <1>2 DEF LetIn
<1>4. AttemptCert'
  BY <1>2 DEF AttemptCert
<1> QED BY <1>1, <1>3, <1>4, SameLetIn

\* A new attempt takes one use of its token.
LEMMA JoinPrepareTokens ==
  ASSUME ControlOK, TokenSpentOnce, NEW c \in JoinOps, JoinPrepare(c)
  PROVE  TokenSpentOnce'
<1>1. CASE UNCHANGED control
  BY <1>1 DEF control, TokenSpentOnce
<1>2. CASE PrepareVerdict(c) = "new"
  <2> DEFINE a == [op |-> c.op, token |-> c.token, csr |-> c.csr, cert |-> c.cert,
                   status |-> "PREPARING"]
  <2>1. c.node \in Nodes /\ c.token \in Tokens /\ attempts[c.node] = None
    BY <1>2 DEF PrepareVerdict, JoinOps
  <2>2. a \in JoinAttempts
    BY DEF JoinAttempts, JoinOps
  <2>3. a # None /\ a.token = c.token
    BY <2>2, NoneIsNoRecord
  <2>4. attempts' = [attempts EXCEPT ![c.node] = a]
    BY <1>2 DEF JoinPrepare
  <2> HIDE DEF a
  <2>5. ASSUME NEW t \in Tokens, t # c.token
        PROVE  LetIn(t)' = LetIn(t) /\ tokens'[t] = tokens[t]
    BY <1>2, <2>1, <2>3, <2>4, <2>5 DEF LetIn, ControlOK, JoinPrepare
  <2>6. LetIn(c.token)' = LetIn(c.token) \cup {c.node} /\ c.node \notin LetIn(c.token)
    BY <2>1, <2>3, <2>4 DEF LetIn, ControlOK
  <2>7. \A t : IsFiniteSet(LetIn(t))
    BY FS_Subset, MembershipConstants DEF LetIn
  <2>8. Cardinality(LetIn(c.token)') = Cardinality(LetIn(c.token)) + 1
    BY <2>6, <2>7, FS_AddElement
  <2>9. /\ tokens'[c.token].uses = tokens[c.token].uses
        /\ tokens'[c.token].left = tokens[c.token].left - 1
    BY <1>2, <2>1 DEF JoinPrepare, ControlOK, TokenRecords
  <2>10. tokens[c.token].uses \in Nat /\ tokens[c.token].left \in Nat
    BY <2>1 DEF ControlOK, TokenRecords
  <2>11. Cardinality(LetIn(c.token)) \in Nat
    BY <2>7, FS_CardinalityType
  <2>12. tokens[c.token].uses - tokens[c.token].left = Cardinality(LetIn(c.token))
    BY <2>1 DEF TokenSpentOnce, LetIn
  <2>13. tokens'[c.token].uses - tokens'[c.token].left = Cardinality(LetIn(c.token)')
    BY <2>8, <2>9, <2>10, <2>11, <2>12
  <2> QED BY <2>5, <2>13 DEF TokenSpentOnce, LetIn
<1> QED BY <1>1, <1>2 DEF JoinPrepare

LEMMA NextTokens ==
  ASSUME TypeOK, TokenSpentOnce, AttemptCert, \A l \in Nodes : OpSound(l), [Next]_vars
  PROVE  TokenSpentOnce' /\ AttemptCert'
<1> USE TypeGroups
<1>0. UNCHANGED <<attempts, tokens>> => TokenSpentOnce' /\ AttemptCert'
  BY DEF TokenSpentOnce, AttemptCert
<1>1. ASSUME NEW l \in Nodes, JoinPrepareStep(l) PROVE TokenSpentOnce' /\ AttemptCert'
  <2>1. op[l] \in JoinOps /\ op[l].cert.csr = op[l].csr
    BY <1>1, OpKinds DEF JoinPrepareStep, OpOK, OpSound, JoinHasAttempt
  <2>2. CASE JoinPrepare(op[l])
    <3>1. \A n \in Nodes : attempts'[n] # attempts[n] =>
            attempts'[n].cert = op[l].cert /\ attempts'[n].csr = op[l].csr
      BY <2>1, <2>2, JoinPrepareEffect
    <3>2. AttemptCert'
      BY <2>1, <3>1 DEF AttemptCert
    <3> QED BY <2>1, <2>2, <3>2, JoinPrepareTokens
  <2> QED BY <1>0, <1>1, <2>2 DEF JoinPrepareStep, control
<1>2. ASSUME NEW l \in Nodes, JoinCompleteStep(l) \/ ReconcileComplete(l)
      PROVE  TokenSpentOnce' /\ AttemptCert'
  BY <1>0, <1>2, JoinCompleteTokens DEF JoinCompleteStep, ReconcileComplete, control
<1>3. ASSUME NEW t \in Tokens, CreateToken(t) \/ RevokeToken(t) \/ ExpireToken(t)
      PROVE  TokenSpentOnce' /\ AttemptCert'
  <2>1. attempts' = attempts
    BY <1>3 DEF CreateToken, RevokeToken, ExpireToken
  <2>2. ASSUME NEW x \in Tokens
        PROVE  tokens'[x].uses - tokens'[x].left = tokens[x].uses - tokens[x].left
    <3>1. CASE x # t
      BY <1>3, <3>1 DEF CreateToken, RevokeToken, ExpireToken, ControlOK
    <3>2. CASE x = t /\ (RevokeToken(t) \/ ExpireToken(t))
      BY <3>2 DEF RevokeToken, ExpireToken, ControlOK, TokenRecords
    <3>3. CASE x = t /\ CreateToken(t)
      BY <3>3, MembershipConstants DEF CreateToken, NoToken, ControlOK
    <3> QED BY <1>3, <3>1, <3>2, <3>3
  <2> QED BY <2>1, <2>2, SameLetIn DEF LetIn, AttemptCert
<1>4. ASSUME NEW l \in Nodes,
             \/ JoinAdd(l) \/ RemoveDrop(l) \/ Transfer(l) \/ PromoteVerify(l) \/ PromoteReady(l)
             \/ PromoteVote(l) \/ ReconcileAdd(l) \/ ReconcileDrop(l) \/ ReconcileEnd(l)
             \/ ReconcileBegin(l) \/ Elect(l) \/ Restart(l) \/ GiveUp(l) \/ JoinArrives(l)
             \/ ChangeGroup(l) \/ AdmitBootstrapMember
      PROVE  UNCHANGED <<attempts, tokens>>
  BY <1>4 DEF control, JoinAdd, RemoveDrop, Transfer, PromoteVerify, PromoteReady,
     PromoteVote, ReconcileAdd, ReconcileDrop, ReconcileEnd, ReconcileBegin, Elect,
     Restart, GiveUp, JoinArrives, CapabilityReady, ChangeGroup, AdmitBootstrapMember
<1>5. ASSUME NEW l \in Nodes, NEW n \in Nodes, RemoveNode(l, n) PROVE UNCHANGED <<attempts, tokens>>
  BY <1>5 DEF RemoveNode, MemberRemove
<1>6. ASSUME NEW l \in Nodes, NEW n \in Nodes, NEW o \in Ids, PromoteNode(l, n, o)
      PROVE  UNCHANGED <<attempts, tokens>>
  BY <1>6 DEF PromoteNode, CapabilityPrepare, control
<1>7. ASSUME NEW n \in Nodes, NEW t \in Tokens, NEW o \in Ids, RequestJoin(n, t, o)
      PROVE  UNCHANGED <<attempts, tokens>>
  BY <1>7 DEF RequestJoin, control
<1> QED BY <1>0, <1>1, <1>2, <1>3, <1>4, <1>5, <1>6, <1>7, MembershipConstants DEF Next, OpStep, vars, control

-----------------------------------------------------------------------------
(* The theorems.                                                           *)

Safety ==
  /\ TokenSpentOnce /\ CertIsTheMembers /\ AdmittedIsConfigured /\ VoterHoldsKey
  /\ GroupIsAdmitted

LEMMA NoMemberIsNone == NoMember.status = "none"
BY DEF NoMember

LEMMA InitInv == Init => Inv /\ Safety
<1> SUFFICES ASSUME Init PROVE Inv /\ Safety
  OBVIOUS
<1> USE MembershipConstants DEF Init
<1>1. FounderCert \in Certs
  BY DEF FounderCert, Certs
<1>2. RaftOK /\ CountsOK
  BY DEF RaftOK, CountsOK
<1>3. ControlOK
  <2>1. members \in [Nodes -> Members]
    BY <1>1 DEF Members, Statuses, NoMember
  <2>2. tokens \in [Tokens -> TokenRecords]
    BY DEF TokenRecords, NoToken
  <2>3. caps \in [Nodes -> Capabilities \cup {None}]
    BY <1>1 DEF Capabilities
  <2> QED BY <2>1, <2>2, <2>3 DEF ControlOK
<1>4. OpOK
  BY IdleIsOp DEF OpOK
<1>5. [cert |-> FounderCert, csr |-> 0] \in Bundles
  BY <1>1 DEF Bundles
<1>6. JoinerOK
  <2>1. bundle \in [Nodes -> Bundles \cup {None}]
    BY <1>5
  <2>2. boot \in BOOLEAN
    OBVIOUS
  <2>3. signed \in [Nodes -> 0..MaxCalls]
    <3>1. 0 \in 0..MaxCalls
      OBVIOUS
    <3> QED BY <3>1
  <2> QED BY <2>1, <2>2, <2>3 DEF JoinerOK
<1>7. TypeOK
  BY <1>2, <1>3, <1>4, <1>6, TypeGroups
<1>8. MemberHasCert /\ FounderHasBundle /\ AttemptCert
  BY <1>1, <1>5, NoneIsNoRecord DEF MemberHasCert, FounderHasBundle, AttemptCert
<1>9. WaitHasPending /\ SignedOnce /\ WaitsForItsJoin
  BY DEF WaitHasPending, SignedOnce, WaitsForItsJoin, Seed
<1>10. \A l \in Nodes : OpSound(l)
  BY DEF OpSound, JoinHasAttempt, DropsRevoked, CompletesConfigured, TransferFirst, Idle
<1>11. TokenSpentOnce
  <2>1. \A t \in Tokens : {n \in Nodes : attempts[n] # None /\ attempts[n].token = t} = {}
    OBVIOUS
  <2>2. \A t \in Tokens : tokens[t].uses - tokens[t].left = 0
    BY DEF NoToken
  <2>3. Cardinality({}) = 0
    BY FS_EmptySet
  <2> QED BY <2>1, <2>2, <2>3 DEF TokenSpentOnce
<1>12. CertIsTheMembers
  BY DEF CertIsTheMembers, FounderCert, Revoked
<1>13. AdmittedIsConfigured /\ VoterHoldsKey /\ GroupIsAdmitted
  BY DEF AdmittedIsConfigured, Admitted, VoterHoldsKey, Voters, GroupIsAdmitted, NoMember
<1> QED BY <1>7, <1>8, <1>9, <1>10, <1>11, <1>12, <1>13 DEF Inv, Safety

\* The invariant that the safety properties rest on is inductive.
LEMMA NextInv == ASSUME Inv, Safety, [Next]_vars PROVE Inv' /\ Safety'
<1> USE DEF Inv
<1>0. JoinerInv
  BY DEF JoinerInv
<1>1. TypeOK'
  BY NextType
<1>2. \A l \in Nodes : OpSound(l)'
  BY NextSound
<1>3. JoinerInv'
  BY <1>0, NextJoiners
<1>4. TokenSpentOnce' /\ AttemptCert'
  BY NextTokens DEF Safety
<1>5. ControlGrows /\ ConfigKept /\ key \subseteq key' /\ MemberStep /\ BundleStep
  BY <1>0, NextGrows, NextConfig, NextKey, NextMembers, NextBundle
<1>6. bundle[Founder] \in Bundles /\ bundle[Founder].cert # None
  BY MembershipConstants, NoneIsNoRecord, TypeGroups DEF FounderHasBundle, JoinerOK, Bundles
<1>7. MemberHasCert'
  <2> SUFFICES ASSUME NEW n \in Nodes
               PROVE  members'[n] = NoMember \/ (members'[n].status # "none" /\ members'[n].cert # None)
    BY DEF MemberHasCert
  <2>1. members[n] = NoMember \/ (members[n].status # "none" /\ members[n].cert # None)
    BY DEF MemberHasCert
  <2>2. CASE Same(n) \/ Joins(n) \/ Returns(n)
    BY <1>6, <2>1, <2>2 DEF Same, Joins, Returns
  <2>3. CASE Completes(n) \/ Removed(n)
    BY <2>1, <2>3, NoMemberIsNone DEF Completes, Removed
  <2> QED BY <1>5, <2>2, <2>3 DEF MemberStep
<1>8. FounderHasBundle'
  BY <1>5, MembershipConstants DEF FounderHasBundle, BundleStep
<1>9. CertIsTheMembers'
  <2> SUFFICES ASSUME NEW n \in Nodes, bundle'[n] # None
               PROVE  /\ bundle'[n].cert.csr = bundle'[n].csr
                      /\ members'[n].cert = bundle'[n].cert
                      /\ Revoked(n)' => <<n, bundle'[n].cert>> \in crl'
    BY DEF CertIsTheMembers, SerialRevoked
  <2>1. CASE bundle'[n] = bundle[n]
    <3>1. /\ bundle[n].cert.csr = bundle[n].csr /\ members[n].cert = bundle[n].cert
          /\ Revoked(n) => <<n, bundle[n].cert>> \in crl
      BY <2>1 DEF Safety, CertIsTheMembers, SerialRevoked
    <3>2. members[n] # NoMember
      <4>1. bundle[n] \in Bundles
        BY <2>1, TypeGroups DEF JoinerOK
      <4>2. bundle[n].cert # None
        BY <4>1, NoneIsNoRecord DEF Bundles
      <4> QED BY <3>1, <4>2 DEF NoMember
    <3> QED BY <1>5, <2>1, <3>1, <3>2 DEF MemberStep, Same, Joins, Completes, Removed, Returns, Revoked
  <2>2. CASE bundle'[n] # bundle[n]
    BY <1>5, <2>2 DEF BundleStep
  <2> QED BY <2>1, <2>2
<1>10. AdmittedIsConfigured'
  <2> SUFFICES ASSUME NEW n \in Nodes \ {Founder}, members'[n].status = "ADMITTED"
               PROVE  config'[n] # "none"
    BY DEF AdmittedIsConfigured, Admitted
  <2>1. (Admitted(n) \/ Completes(n)) /\ ~Revoked(n)
    BY <1>5 DEF MemberStep, Same, Joins, Completes, Removed, Returns, Admitted, Revoked
  <2>2. config[n] # "none"
    BY <2>1 DEF Safety, AdmittedIsConfigured, Completes, Configured
  <2> QED BY <1>5, <2>1, <2>2 DEF ConfigKept
<1>11. VoterHoldsKey'
  <2>1. ASSUME NEW n \in Nodes, config'[n] = "voter", config[n] # "voter" PROVE n \in key
    <3>1. PICK l \in Nodes : PromoteVote(l)
      <4>1. ASSUME NEW l \in Nodes, JoinAdd(l) \/ ReconcileAdd(l) \/ RemoveDrop(l) \/ ReconcileDrop(l)
            PROVE  FALSE
        BY <2>1, <4>1, TypeGroups DEF RaftOK, JoinAdd, ReconcileAdd, RemoveDrop, ReconcileDrop, AddNonvoter,
           RemoveServer, raftVars
      <4>2. config' # config
        BY <2>1
      <4> QED BY <4>1, <4>2 DEF Next, OpStep, vars, raftVars, RequestJoin, GiveUp, JoinArrives,
           JoinPrepareStep, JoinCompleteStep, Transfer, PromoteVerify, PromoteReady,
           ReconcileComplete, ReconcileEnd, RemoveNode, PromoteNode, ReconcileBegin,
           CreateToken, RevokeToken, ExpireToken, ChangeGroup, Elect, Restart, AdmitBootstrapMember
    <3>2. op[l].node = n
      BY <2>1, <3>1, TypeGroups DEF PromoteVote, RaftOK
    <3> QED BY <3>1, <3>2 DEF PromoteVote, OpSound, TransferFirst
  <2>2. \A n \in Nodes : config[n] = "voter" => n \in key
    BY DEF Safety, VoterHoldsKey, Voters
  <2> QED BY <1>5, <2>1, <2>2 DEF VoterHoldsKey, Voters
<1>12. GroupIsAdmitted'
  <2> SUFFICES ASSUME NEW n \in group' PROVE members'[n].status = "ADMITTED"
    BY DEF GroupIsAdmitted, Admitted
  <2>1. n \in Nodes /\ members[n].status = "ADMITTED"
    BY <1>1, <1>5, TypeGroupsPrime DEF ControlOK, MemberStep, Safety, GroupIsAdmitted, Admitted
  <2>2. ~Removed(n) /\ ~Joins(n)
    BY <2>1, NoMemberIsNone DEF Removed, Joins
  <2> QED BY <1>5, <2>1, <2>2 DEF MemberStep, Same, Completes, Returns
<1>13. WaitHasPending' /\ SignedOnce' /\ WaitsForItsJoin'
  BY <1>3 DEF JoinerInv
<1> QED BY <1>1, <1>2, <1>4, <1>7, <1>8, <1>9, <1>10, <1>11, <1>12, <1>13 DEF Safety

LEMMA Invariance == Spec => [](Inv /\ Safety)
BY InitInv, NextInv, PTL DEF Spec

\* The variables keep their types: in particular, a join that arrives finds its
\* join.pending.json, and no more certificates are signed than calls were made.
THEOREM MembershipTypeCorrect == Spec => []TypeOK
<1>1. Inv /\ Safety => TypeOK
  BY DEF Inv
<1> QED BY <1>1, Invariance, PTL

\* join_prepare takes a token once per node that it lets in, whatever is retried,
\* lost or answered by whichever leader.
THEOREM TokensSpentOncePerNode == Spec => []TokenSpentOnce
<1>1. Inv /\ Safety => TokenSpentOnce
  BY DEF Safety
<1> QED BY <1>1, Invariance, PTL

\* The certificate that an agent uses is for its own key, is the one its member
\* carries, and is revoked once the member is.
THEOREM CertificatesFollowMembers == Spec => []CertIsTheMembers
<1>1. Inv /\ Safety => CertIsTheMembers
  BY DEF Safety
<1> QED BY <1>1, Invariance, PTL

\* No join completes before its node is configured, and neither RemoveNode nor the
\* reconciler takes out a node that is admitted.
THEOREM AdmittedNodesAreConfigured == Spec => []AdmittedIsConfigured
<1>1. Inv /\ Safety => AdmittedIsConfigured
  BY DEF Safety
<1> QED BY <1>1, Invariance, PTL

\* A node becomes a voter only after the CA key was installed on it.
THEOREM VotersHoldTheKey == Spec => []VoterHoldsKey
<1>1. Inv /\ Safety => VoterHoldsKey
  BY DEF Safety
<1> QED BY <1>1, Invariance, PTL

\* Removal filters the agent groups, and a group takes admitted members only.
THEOREM GroupsHoldAdmitted == Spec => []GroupIsAdmitted
<1>1. Inv /\ Safety => GroupIsAdmitted
  BY DEF Safety
<1> QED BY <1>1, Invariance, PTL

\* No command of a join, of the reconciler or of anyone else undoes a removal.
THEOREM RevokedForGood == Spec => RevokedStays
<1>1. Inv /\ Safety /\ [Next]_vars =>
        [\A n \in Nodes \ {Founder} : Revoked(n) => Revoked(n)']_vars
  <2>1. TypeOK /\ [Next]_vars => \A n \in Nodes \ {Founder} : Revoked(n) => Revoked(n)'
    BY NextGrows DEF ControlGrows
  <2> QED BY <2>1 DEF Inv
<1> QED BY <1>1, Invariance, PTL DEF Spec, RevokedStays

=============================================================================
