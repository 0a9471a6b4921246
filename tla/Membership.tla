----------------------------- MODULE Membership -----------------------------
(***************************************************************************)
(* Cluster membership: how a node joins, is promoted to a Raft voter, is   *)
(* removed, and how the leader's reconciler makes the Raft configuration   *)
(* follow the committed members. The committed control.State, the          *)
(* configuration, the joiner's files, and the one membership operation     *)
(* that each agent runs at a time (WithMembershipOp).                      *)
(*                                                                         *)
(* Raft is external: a command of the current leader commits, a command of *)
(* anyone else fails, and every agent that acts sees what is committed. An *)
(* operation outlives its leader's term and goes on if its agent is        *)
(* elected again. Addresses, the CA's fingerprint and epoch, and the nonce *)
(* of a challenge (one promotion runs at a time, and a restart changes the *)
(* term) never differ here and are left out.                               *)
(***************************************************************************)
EXTENDS Integers, FiniteSets

CONSTANTS
  Nodes,      \* numbered, in the order their ids sort
  Founder,    \* the node of cluster init
  Tokens,     \* join tokens
  Uses,       \* uses a token may be created with
  Ids,        \* operation ids that requests bring
  MaxTerm,    \* bound: elections while there is a leader
  MaxCalls,   \* bound: RequestJoin calls
  Requests,   \* of "remove", "promote", "revoke", "group"
  MaxRequests,\* bound: such requests of administrators
  Events,     \* of "crash", "fault" (a command or call does not succeed, or only seems
              \* not to), "expire" (of a token), "mixed" (a member of another protocol
              \* version)
  MaxEvents,  \* bound
  None

ASSUME MembershipConstants ==
  /\ Nodes \subseteq Nat \ {0} /\ IsFiniteSet(Nodes)
  /\ Founder \in Nodes
  /\ Uses \subseteq Nat \ {0}
  /\ MaxCalls \in Nat /\ MaxRequests \in Nat /\ MaxEvents \in Nat
  /\ None \notin Nat /\ None \notin Ids

VARIABLES
  term, leader,
  config,   \* config[n]: "none", "nonvoter" or "voter"
  \* --- control.State --------------------------------------------------------
  members,  \* members[n]: [status, cert]
  attempts, \* attempts[n]: the JoinAttempt, or None
  tokens,   \* tokens[t]: [status, uses, left]
  crl,      \* revoked certificates, as <<node, certificate>>
  caps,     \* caps[n]: the AdmissionCapability of n, or None
  group,    \* MemberIDs of an agent group
  \* --- agents ---------------------------------------------------------------
  op,       \* op[n]: the operation that holds n's membershipMu
  boot,     \* the founder's start waits to admit itself
  pending,  \* pending[n]: join.pending.json, or None
  bundle,   \* bundle[n]: agent.crt and the request agent.key belongs to, or None
  key,      \* nodes with ca.key
  wait,     \* wait[n]: whom n's RequestJoin waits for: Seed, a leader, or None
  signed,   \* signed[n]: certificates signed for n so far
  calls, requests, used

raftVars == <<term, leader, config>>
control == <<members, attempts, tokens, crl, caps, group>>
disks == <<pending, bundle, key>>
counts == <<calls, requests, used>>
vars == <<raftVars, control, op, boot, disks, wait, signed, counts>>

Event(e) == e \in Events /\ used < MaxEvents /\ used' = used + 1
Request(k) == k \in Requests /\ requests < MaxRequests /\ requests' = requests + 1

-----------------------------------------------------------------------------
(* What the state machine makes of each command.                           *)

NoMember == [status |-> "none", cert |-> None]
NoToken == [status |-> "none", uses |-> 0, left |-> 0]
Idle == [kind |-> "idle"]
Seed == 0

Admitted(n) == members[n].status = "ADMITTED"
Revoked(n) == members[n].status = "REVOKED"
SerialRevoked(n, c) == <<n, c>> \in crl

\* An attempt is the caller's own: same operation, token, address and request.
SameAttempt(a, c) == a.op = c.op /\ a.token = c.token /\ a.csr = c.csr

\* Mutant: a retry is not recognised as one.
PrepareVerdictAnew(c) ==
  IF Revoked(c.node) THEN "DENIED"
  ELSE IF tokens[c.token].status # "live" \/ tokens[c.token].left = 0 THEN "DENIED" ELSE "new"

PrepareVerdict(c) ==
  LET n == c.node
  IN IF \E m \in Nodes \ {n} : attempts[m] # None /\ attempts[m].op = c.op THEN "CONFLICT"
     ELSE IF Revoked(n) THEN "DENIED"
     ELSE IF attempts[n] # None
            THEN IF SameAttempt(attempts[n], c) THEN "same" ELSE "CONFLICT"
     ELSE IF members[n] # NoMember THEN "DUPLICATE_NODE_ID"
     ELSE IF tokens[c.token].status # "live" \/ tokens[c.token].left = 0 THEN "DENIED"
     ELSE "new"

\* join_prepare takes the token, keeps the certificate and makes the member JOINING.
JoinPrepare(c) ==
  IF PrepareVerdict(c) = "new"
    THEN /\ tokens' = [tokens EXCEPT ![c.token].left = @ - 1]
         /\ attempts' = [attempts EXCEPT ![c.node] =
              [op |-> c.op, token |-> c.token, csr |-> c.csr, cert |-> c.cert,
               status |-> "PREPARING"]]
         /\ members' = [members EXCEPT ![c.node] =
              [status |-> "JOINING", cert |-> c.cert]]
         /\ UNCHANGED <<crl, caps, group>>
    ELSE UNCHANGED control

CompleteOK(n, o) ==
  /\ attempts[n] # None /\ attempts[n].op = o
  /\ members[n].status \in {"JOINING", "ADMITTED"}
  /\ members[n].cert = attempts[n].cert

\* Mutant: the member's status is not looked at.
JoinCompleteAny(n, o) ==
  IF attempts[n] # None /\ attempts[n].op = o
    THEN /\ members' = [members EXCEPT ![n].status = "ADMITTED"]
         /\ attempts' = [attempts EXCEPT ![n].status = "COMPLETED"]
         /\ UNCHANGED <<tokens, crl, caps, group>>
    ELSE UNCHANGED control

JoinComplete(n, o) ==
  IF CompleteOK(n, o) /\ members[n].status = "JOINING"
    THEN /\ members' = [members EXCEPT ![n].status = "ADMITTED"]
         /\ attempts' = [attempts EXCEPT ![n].status = "COMPLETED"]
         /\ UNCHANGED <<tokens, crl, caps, group>>
    ELSE UNCHANGED control

\* Mutant: the agent groups are not filtered.
MemberRemoveKeepsGroups(n) ==
  /\ members' = [members EXCEPT ![n].status = "REVOKED"]
  /\ crl' = crl \cup {<<n, members[n].cert>>}
  /\ UNCHANGED <<attempts, tokens, caps, group>>

MemberRemove(n) ==
  /\ members' = [members EXCEPT ![n].status = "REVOKED"]
  /\ crl' = crl \cup {<<n, members[n].cert>>}
  /\ caps' = IF caps[n] # None /\ caps[n].status = "PREPARED"
               THEN [caps EXCEPT ![n] = None] ELSE caps
  /\ group' = group \ {n}
  /\ UNCHANGED <<attempts, tokens>>

CapNodeOK(n, c) == Admitted(n) /\ members[n].cert = c /\ ~SerialRevoked(n, c)

IdUsedElsewhere(n, o) == \E m \in Nodes \ {n} : caps[m] # None /\ caps[m].op = o

CapabilityPrepare(n, o) ==
  /\ caps' = [caps EXCEPT ![n] =
       [status |-> "PREPARED", op |-> o, cert |-> members[n].cert, term |-> term]]
  /\ UNCHANGED <<members, attempts, tokens, crl, group>>

CapMatches(n, c) ==
  caps[n] # None /\ caps[n].op = c.op /\ caps[n].cert = c.cert /\ caps[n].term = c.term

CapabilityReady(n, c) ==
  IF CapNodeOK(n, c.cert) /\ CapMatches(n, c)
    THEN caps' = [caps EXCEPT ![n].status = "READY"] /\ UNCHANGED <<members, attempts, tokens, crl, group>>
    ELSE UNCHANGED control

-----------------------------------------------------------------------------
(* What Raft makes of a change of its configuration.                       *)

Voters == {n \in Nodes : config[n] = "voter"}

AddNonvoter(n) ==
  config' = IF config[n] = "none" THEN [config EXCEPT ![n] = "nonvoter"] ELSE config

\* A configuration needs a voter; a leader that removes itself steps down.
RemoveServer(n) ==
  IF Voters = {n}
    THEN UNCHANGED raftVars
    ELSE /\ config' = [config EXCEPT ![n] = "none"]
         /\ leader' = IF leader = n THEN None ELSE leader
         /\ UNCHANGED term

-----------------------------------------------------------------------------
(* The joiner.                                                             *)

\* RequestJoin keeps its operation, token and request in join.pending.json before it
\* calls a seed; a second call must bring the same token and uses what is kept.
RequestJoin(n, t, o) ==
  /\ bundle[n] = None /\ wait[n] = None
  /\ calls < MaxCalls /\ calls' = calls + 1
  /\ tokens[t].status # "none"
  /\ \/ /\ pending[n] = None
        /\ pending' = [pending EXCEPT ![n] = [op |-> o, token |-> t, csr |-> calls + 1]]
     \/ /\ pending[n] # None /\ pending[n].token = t
        /\ o = pending[n].op       \* the id of the call is not used
        /\ UNCHANGED pending
  /\ wait' = [wait EXCEPT ![n] = Seed]
  /\ UNCHANGED <<raftVars, control, op, boot, bundle, key, signed, requests, used>>

\* The call ends without an answer of the service: a timeout, an unreachable
\* leader, UNAVAILABLE or DEGRADED, or the joiner stops.
GiveUp(n) ==
  /\ wait[n] # None
  /\ wait' = [wait EXCEPT ![n] = None]
  /\ UNCHANGED <<raftVars, control, op, boot, disks, signed, counts>>

\* An answer reaches n if n still waits for l; one that no retry can change
\* (joinErrorRetryable) removes the pending join.
Answer(l, n, refused) ==
  IF wait[n] = l
    THEN /\ wait' = [wait EXCEPT ![n] = None]
         /\ pending' = IF refused THEN [pending EXCEPT ![n] = None] ELSE pending
    ELSE UNCHANGED <<wait, pending>>

-----------------------------------------------------------------------------
(* The leader's part of a join.                                            *)

\* CheckReady: the agent holds the CA key and is READY for the certificate it uses.
CanAdmit(l) ==
  /\ l \in key /\ caps[l] # None /\ caps[l].status = "READY"
  /\ bundle[l] # None /\ caps[l].cert = bundle[l].cert

\* A change of l's operation; what l's agent and Raft keep is not touched.
Goes(l, o) == op' = [op EXCEPT ![l] = o]

\* Join up to membershipMu: a removed node is refused, an agent that cannot admit
\* answers DEGRADED, and the request is signed. The command checks again.
JoinArrives(n) ==
  LET l == leader
  IN /\ wait[n] = Seed /\ l # None /\ op[l] = Idle
     /\ IF Revoked(n) \/ ~CanAdmit(l)
          THEN /\ wait' = [wait EXCEPT ![n] = None]
               /\ pending' = IF Revoked(n) THEN [pending EXCEPT ![n] = None] ELSE pending
               /\ UNCHANGED <<op, signed>>
          ELSE /\ wait' = [wait EXCEPT ![n] = l]
               /\ signed' = [signed EXCEPT ![n] = @ + 1]
               /\ Goes(l, [kind |-> "join", at |-> "prepare", node |-> n,
                           op |-> pending[n].op, token |-> pending[n].token,
                           csr |-> pending[n].csr,
                           cert |-> [csr |-> pending[n].csr, no |-> signed[n] + 1]])
               /\ UNCHANGED pending
     /\ UNCHANGED <<raftVars, control, boot, bundle, key, counts>>

\* The operation of l ends with an error the joiner may retry, or with one it may not.
Fails(l) == Goes(l, Idle) /\ Answer(l, op[l].node, FALSE)
Refuses(l) == Goes(l, Idle) /\ Answer(l, op[l].node, TRUE)

\* Mutant: the certificate just signed is answered.
PreparedWithNew(l) == Goes(l, [op[l] EXCEPT !.at = "add"])

\* PrepareJoin goes on with the certificate that the attempt keeps.
Prepared(l) ==
  Goes(l, [op[l] EXCEPT !.at = "add", !.cert = attempts'[op[l].node].cert])

JoinPrepareStep(l) ==
  LET c == op[l]
  IN /\ c.kind = "join" /\ c.at = "prepare"
     /\ \/ /\ leader = l
           /\ JoinPrepare(c)
           /\ \/ /\ PrepareVerdict(c) \in {"new", "same"}
                 /\ \/ Prepared(l) /\ UNCHANGED <<wait, pending, used>>
                    \/ Event("fault") /\ Fails(l)
              \/ /\ PrepareVerdict(c) \notin {"new", "same"}
                 /\ Refuses(l) /\ UNCHANGED used
        \/ /\ Event("fault") \/ (leader # l /\ UNCHANGED used)
           /\ Fails(l) /\ UNCHANGED control
        \/ \* requireJoinFSMCompatibility: another member runs another protocol
           /\ Event("mixed")
           /\ \E m \in Nodes \ {l, c.node} : config[m] # "none"
           /\ Refuses(l) /\ UNCHANGED control
     /\ UNCHANGED <<raftVars, boot, bundle, key, signed, calls, requests>>

\* Mutant: the error of AddNonvoter is dropped.
JoinAddBlind(l) ==
  LET c == op[l]
  IN /\ c.kind = "join" /\ c.at = "add"
     /\ \/ leader = l /\ AddNonvoter(c.node) /\ UNCHANGED used
        \/ (Event("fault") \/ (leader # l /\ UNCHANGED used)) /\ UNCHANGED config
     /\ Goes(l, [c EXCEPT !.at = "complete"])
     /\ UNCHANGED <<term, leader, control, boot, disks, wait, signed, calls, requests>>

\* AddNonvoter, and a look at the configuration whatever it answered.
JoinAdd(l) ==
  LET c == op[l]
  IN /\ c.kind = "join" /\ c.at = "add"
     /\ \/ /\ leader = l
           /\ AddNonvoter(c.node)
           /\ Goes(l, [c EXCEPT !.at = "complete"])
           /\ UNCHANGED <<wait, pending, used>>
        \/ /\ (Event("fault") /\ config[c.node] = "none") \/ (leader # l /\ UNCHANGED used)
           /\ Fails(l) /\ UNCHANGED config
     /\ UNCHANGED <<term, leader, control, boot, bundle, key, signed, calls, requests>>

\* CompleteJoin; the joiner installs the certificate it gets beside its own key.
JoinCompleteStep(l) ==
  LET c == op[l]
      n == c.node
  IN /\ c.kind = "join" /\ c.at = "complete"
     /\ \/ /\ leader = l
           /\ JoinComplete(n, c.op)
           /\ \/ /\ CompleteOK(n, c.op) /\ Goes(l, Idle) /\ Answer(l, n, TRUE)
                 /\ bundle' = IF wait[n] = l
                                THEN [bundle EXCEPT ![n] = [cert |-> c.cert, csr |-> pending[n].csr]]
                                ELSE bundle
                 /\ UNCHANGED used
              \/ /\ CompleteOK(n, c.op) /\ Event("fault") /\ Fails(l) /\ UNCHANGED bundle
              \/ /\ ~CompleteOK(n, c.op) /\ Refuses(l) /\ UNCHANGED <<bundle, used>>
        \/ /\ Event("fault") \/ (leader # l /\ UNCHANGED used)
           /\ Fails(l) /\ UNCHANGED <<control, bundle>>
     /\ UNCHANGED <<raftVars, boot, key, signed, calls, requests>>

-----------------------------------------------------------------------------
(* Removal.                                                                *)

\* RemoveNode marks the member, then takes it out of the configuration.
RemoveNode(l, n) ==
  /\ leader = l /\ op[l] = Idle /\ n # l
  /\ members[n] # NoMember
  /\ Request("remove")
  /\ MemberRemove(n)
  /\ \/ Goes(l, [kind |-> "remove", node |-> n]) /\ UNCHANGED used
     \/ Event("fault") /\ UNCHANGED op
  /\ UNCHANGED <<raftVars, boot, disks, wait, signed, calls>>

RemoveDrop(l) ==
  LET n == op[l].node
  IN /\ op[l].kind = "remove"
     /\ \/ leader = l /\ RemoveServer(n) /\ UNCHANGED used
        \/ Event("fault") /\ UNCHANGED raftVars
        \/ leader # l /\ UNCHANGED <<raftVars, used>>
     /\ Goes(l, Idle)
     /\ UNCHANGED <<control, boot, disks, wait, signed, calls, requests>>

-----------------------------------------------------------------------------
(* Promotion.                                                              *)

\* PromoteNode and Promote up to the PREPARED command. An operation that finds its own
\* PREPARED entry uses it again, the term it was written in included.
PromoteNode(l, n, o) ==
  LET mine == caps[n] # None /\ caps[n].op = o /\ caps[n].status = "PREPARED"
      promote(t) == [kind |-> "promote", at |-> "transfer", node |-> n, op |-> o,
                     cert |-> members[n].cert, term |-> t]
  IN /\ leader = l /\ op[l] = Idle
     /\ Request("promote")
     /\ CapNodeOK(n, members[n].cert) /\ bundle[n] # None
     /\ CanAdmit(l) /\ ~IdUsedElsewhere(n, o)
     /\ \/ mine /\ Goes(l, promote(caps[n].term)) /\ UNCHANGED <<control, used>>
        \/ /\ ~mine /\ CapabilityPrepare(n, o)
           /\ \/ Goes(l, promote(term)) /\ UNCHANGED used
              \/ Event("fault") /\ UNCHANGED op
     /\ UNCHANGED <<raftVars, boot, disks, wait, signed, calls>>

InTerm(l) == leader = l /\ term = op[l].term

\* Mutant: a transfer that failed counts as one.
TransferUnproved(l) ==
  LET c == op[l]
  IN /\ c.kind = "promote" /\ c.at = "transfer"
     /\ \/ InTerm(l) /\ key' = key \cup {c.node} /\ UNCHANGED used
        \/ (Event("fault") \/ (~InTerm(l) /\ UNCHANGED used)) /\ UNCHANGED key
     /\ Goes(l, [c EXCEPT !.at = "verify"])
     /\ UNCHANGED <<raftVars, control, boot, pending, bundle, wait, signed, calls, requests>>

\* The leader sends the CA key; the target checks leader, term and PREPARED entry and
\* installs it. The answer may be lost.
Transfer(l) ==
  LET c == op[l]
      ok == InTerm(l) /\ CapNodeOK(c.node, c.cert) /\ CapMatches(c.node, c)
  IN /\ c.kind = "promote" /\ c.at = "transfer"
     /\ \/ /\ ok /\ key' = key \cup {c.node}
           /\ \/ Goes(l, [c EXCEPT !.at = "verify"]) /\ UNCHANGED used
              \/ Event("fault") /\ Goes(l, Idle)
        \/ /\ Event("fault") \/ (~ok /\ UNCHANGED used)
           /\ Goes(l, Idle) /\ UNCHANGED key
     /\ UNCHANGED <<raftVars, control, boot, pending, bundle, wait, signed, calls, requests>>

\* The checks before READY, and again before the vote.
PromoteVerify(l) ==
  LET c == op[l]
      ok == /\ InTerm(l) /\ CapNodeOK(c.node, c.cert)
            /\ c.at = "check" => /\ caps[c.node] # None
                                 /\ caps[c.node].status = "READY"
                                 /\ caps[c.node].cert = members[c.node].cert
  IN /\ c.kind = "promote" /\ c.at \in {"verify", "check"}
     /\ Goes(l, IF ok THEN [c EXCEPT !.at = IF @ = "verify" THEN "ready" ELSE "vote"] ELSE Idle)
     /\ UNCHANGED <<raftVars, control, boot, disks, wait, signed, counts>>

PromoteReady(l) ==
  LET c == op[l]
      ok == CapNodeOK(c.node, c.cert) /\ CapMatches(c.node, c)
  IN /\ c.kind = "promote" /\ c.at = "ready"
     /\ \/ /\ leader = l /\ CapabilityReady(c.node, c)
           /\ \/ Goes(l, IF ok THEN [c EXCEPT !.at = "check"] ELSE Idle) /\ UNCHANGED used
              \/ Event("fault") /\ Goes(l, Idle)
        \/ /\ Event("fault") \/ (leader # l /\ UNCHANGED used)
           /\ Goes(l, Idle) /\ UNCHANGED control
     /\ UNCHANGED <<raftVars, boot, disks, wait, signed, calls, requests>>

PromoteVote(l) ==
  LET c == op[l]
  IN /\ c.kind = "promote" /\ c.at = "vote"
     /\ \/ leader = l /\ config' = [config EXCEPT ![c.node] = "voter"] /\ UNCHANGED used
        \/ (Event("fault") \/ (leader # l /\ UNCHANGED used)) /\ UNCHANGED config
     /\ Goes(l, Idle)
     /\ UNCHANGED <<term, leader, control, boot, disks, wait, signed, calls, requests>>

-----------------------------------------------------------------------------
(* The reconciler.                                                         *)

\* What CheckRaftMembership reports as repairable.
Missing == {n \in Nodes : members[n].status \in {"ADMITTED", "JOINING"} /\ config[n] = "none"}
Incomplete == {n \in Nodes : members[n].status = "JOINING"}
RemovalPending == {n \in Nodes : Revoked(n) /\ config[n] # "none"}

First(S) == CHOOSE n \in S : \A m \in S : n <= m

\* Mutant: a pass only adds.
ReconcileBeginAdds(l) ==
  /\ leader = l /\ op[l] = Idle /\ ~(boot /\ l = Founder)
  /\ Missing \cup Incomplete # {}
  /\ Goes(l, [kind |-> "reconcile", at |-> "add", adds |-> Missing \cup Incomplete,
              joining |-> Incomplete, drops |-> {}])
  /\ UNCHANGED <<raftVars, control, boot, disks, wait, signed, counts>>

\* A pass works from what it reads first; one that finds nothing changes nothing.
ReconcileBegin(l) ==
  /\ leader = l /\ op[l] = Idle /\ ~(boot /\ l = Founder)
  /\ Missing \cup Incomplete \cup RemovalPending # {}
  /\ Goes(l, [kind |-> "reconcile", at |-> "add", adds |-> Missing \cup Incomplete,
              joining |-> Incomplete, drops |-> RemovalPending])
  /\ UNCHANGED <<raftVars, control, boot, disks, wait, signed, counts>>

\* Every member to add in the order of ids, completing the join of one that was JOINING.
ReconcileAdd(l) ==
  LET c == op[l]
      n == First(c.adds)
      next == [c EXCEPT !.adds = @ \ {n}]
  IN /\ c.kind = "reconcile" /\ c.at = "add" /\ c.adds # {}
     /\ \/ /\ leader = l /\ AddNonvoter(n)
           /\ Goes(l, IF n \in c.joining THEN [c EXCEPT !.at = "complete"] ELSE next)
           /\ UNCHANGED used
        \/ /\ (Event("fault") /\ config[n] = "none") \/ (leader # l /\ UNCHANGED used)
           /\ Goes(l, next) /\ UNCHANGED config
     /\ UNCHANGED <<term, leader, control, boot, disks, wait, signed, calls, requests>>

ReconcileComplete(l) ==
  LET c == op[l]
      n == First(c.adds)
  IN /\ c.kind = "reconcile" /\ c.at = "complete"
     /\ \/ leader = l /\ JoinComplete(n, attempts[n].op) /\ UNCHANGED used
        \/ (Event("fault") \/ (leader # l /\ UNCHANGED used)) /\ UNCHANGED control
     /\ Goes(l, [c EXCEPT !.at = "add", !.adds = @ \ {n}])
     /\ UNCHANGED <<raftVars, boot, disks, wait, signed, calls, requests>>

\* Then every removed member that is still configured.
ReconcileDrop(l) ==
  LET c == op[l]
      n == First(c.drops)
  IN /\ c.kind = "reconcile" /\ c.at = "add" /\ c.adds = {} /\ c.drops # {}
     /\ \/ leader = l /\ RemoveServer(n) /\ UNCHANGED used
        \/ Event("fault") /\ UNCHANGED raftVars
        \/ leader # l /\ UNCHANGED <<raftVars, used>>
     /\ Goes(l, [c EXCEPT !.drops = @ \ {n}])
     /\ UNCHANGED <<control, boot, disks, wait, signed, calls, requests>>

ReconcileEnd(l) ==
  /\ op[l].kind = "reconcile" /\ op[l].at = "add"
  /\ op[l].adds = {} /\ op[l].drops = {}
  /\ Goes(l, Idle)
  /\ UNCHANGED <<raftVars, control, boot, disks, wait, signed, counts>>

-----------------------------------------------------------------------------
(* Tokens, groups, elections and restarts.                                 *)

CreateToken(t) ==
  /\ leader # None /\ CanAdmit(leader) /\ tokens[t] = NoToken
  /\ \E u \in Uses : tokens' = [tokens EXCEPT ![t] = [status |-> "live", uses |-> u, left |-> u]]
  /\ UNCHANGED <<raftVars, members, attempts, crl, caps, group, op, boot, disks, wait, signed, counts>>

RevokeToken(t) ==
  /\ leader # None /\ tokens[t].status = "live"
  /\ Request("revoke")
  /\ tokens' = [tokens EXCEPT ![t].status = "revoked"]
  /\ UNCHANGED <<raftVars, members, attempts, crl, caps, group, op, boot, disks, wait, signed, calls, used>>

ExpireToken(t) ==
  /\ tokens[t].status = "live"
  /\ Event("expire")
  /\ tokens' = [tokens EXCEPT ![t].status = "expired"]
  /\ UNCHANGED <<raftVars, members, attempts, crl, caps, group, op, boot, disks, wait, signed, calls, requests>>

\* GroupMemberAdd takes admitted members only, GroupMemberRemove anyone.
ChangeGroup(n) ==
  /\ leader # None
  /\ Request("group")
  /\ \/ Admitted(n) /\ n \notin group /\ group' = group \cup {n}
     \/ n \in group /\ group' = group \ {n}
  /\ UNCHANGED <<raftVars, members, attempts, tokens, crl, caps, op, boot, disks, wait, signed, calls, used>>

Elect(n) ==
  /\ config[n] = "voter"
  /\ leader = None \/ (leader # n /\ term < MaxTerm)
  /\ leader' = n /\ term' = term + 1
  /\ UNCHANGED <<config, control, op, boot, disks, wait, signed, counts>>

\* An agent stops and starts. The founder's start looks whether it is admitted.
Restart(n) ==
  /\ bundle[n] # None
  /\ Event("crash")
  /\ Goes(n, Idle)
  /\ wait' = [m \in Nodes |-> IF wait[m] = n THEN None ELSE wait[m]]
  /\ leader' = IF leader = n THEN None ELSE leader
  /\ boot' = IF n = Founder THEN ~Admitted(n) ELSE boot
  /\ UNCHANGED <<term, config, control, disks, signed, calls, requests>>

\* ensureLocalMemberAdmitted: the founder was not admitted when it started, is elected
\* while it waits and puts itself back; or the wait runs out.
AdmitBootstrapMember ==
  /\ boot /\ boot' = FALSE
  /\ \/ /\ leader = Founder /\ ~Admitted(Founder)
        /\ members' = [members EXCEPT ![Founder] =
             [status |-> "ADMITTED", cert |-> bundle[Founder].cert]]
     \/ UNCHANGED members
  /\ UNCHANGED <<raftVars, attempts, tokens, crl, caps, group, op, disks, wait, signed, counts>>

-----------------------------------------------------------------------------
FounderCert == [csr |-> 0, no |-> 0]

\* After cluster init.
Init ==
  /\ term = 1 /\ leader = Founder
  /\ config = [n \in Nodes |-> IF n = Founder THEN "voter" ELSE "none"]
  /\ members = [n \in Nodes |->
       IF n = Founder THEN [status |-> "ADMITTED", cert |-> FounderCert] ELSE NoMember]
  /\ attempts = [n \in Nodes |-> None]
  /\ tokens = [t \in Tokens |-> NoToken]
  /\ crl = {} /\ group = {}
  /\ caps = [n \in Nodes |->
       IF n = Founder THEN [status |-> "READY", op |-> None, cert |-> FounderCert, term |-> 0]
                      ELSE None]
  /\ op = [n \in Nodes |-> Idle] /\ boot = FALSE
  /\ pending = [n \in Nodes |-> None]
  /\ bundle = [n \in Nodes |-> IF n = Founder THEN [cert |-> FounderCert, csr |-> 0] ELSE None]
  /\ key = {Founder}
  /\ wait = [n \in Nodes |-> None] /\ signed = [n \in Nodes |-> 0]
  /\ calls = 0 /\ requests = 0 /\ used = 0

OpStep(l) ==
  \/ JoinPrepareStep(l) \/ JoinAdd(l) \/ JoinCompleteStep(l)
  \/ RemoveDrop(l)
  \/ Transfer(l) \/ PromoteVerify(l) \/ PromoteReady(l) \/ PromoteVote(l)
  \/ ReconcileAdd(l) \/ ReconcileComplete(l) \/ ReconcileDrop(l) \/ ReconcileEnd(l)

Next ==
  \/ \E n \in Nodes, t \in Tokens, o \in Ids : RequestJoin(n, t, o)
  \/ \E n \in Nodes : GiveUp(n) \/ JoinArrives(n)
  \/ \E l \in Nodes : OpStep(l)
  \/ \E l, n \in Nodes : RemoveNode(l, n)
  \/ \E l, n \in Nodes, o \in Ids : PromoteNode(l, n, o)
  \/ \E l \in Nodes : ReconcileBegin(l)
  \/ \E t \in Tokens : CreateToken(t) \/ RevokeToken(t) \/ ExpireToken(t)
  \/ \E n \in Nodes : ChangeGroup(n) \/ Elect(n) \/ Restart(n)
  \/ AdmitBootstrapMember

Spec == Init /\ [][Next]_vars

\* An operation goes on until it ends, Raft elects a leader when it has none, and the
\* leader's ticker starts a pass.
Fairness ==
  /\ \A l \in Nodes : WF_vars(OpStep(l)) /\ WF_vars(ReconcileBegin(l))
  /\ WF_vars(\E n \in Nodes : leader = None /\ Elect(n))
  /\ WF_vars(AdmitBootstrapMember)

LiveSpec == Spec /\ Fairness

-----------------------------------------------------------------------------
Certs == [csr : 0..MaxCalls, no : 0..MaxCalls]
Statuses == {"none", "JOINING", "ADMITTED", "REVOKED"}
JoinAttempts == [op : Ids, token : Tokens, csr : 0..MaxCalls, cert : Certs,
                 status : {"PREPARING", "COMPLETED"}]
Capabilities == [status : {"PREPARED", "READY"}, op : Ids \cup {None}, cert : Certs, term : Nat]
PendingJoins == [op : Ids, token : Tokens, csr : 0..MaxCalls]
Bundles == [cert : Certs, csr : 0..MaxCalls]

\* None is no record.
ASSUME NoneIsNoRecord ==
  /\ None \notin Certs /\ None \notin JoinAttempts /\ None \notin Capabilities
  /\ None \notin PendingJoins /\ None \notin Bundles

JoinOps == [kind : {"join"}, at : {"prepare", "add", "complete"}, node : Nodes, op : Ids,
            token : Tokens, csr : 0..MaxCalls, cert : Certs]
RemoveOps == [kind : {"remove"}, node : Nodes]
PromoteOps == [kind : {"promote"}, at : {"transfer", "verify", "ready", "check", "vote"},
               node : Nodes, op : Ids, cert : Certs, term : Nat]
ReconcileOps == [kind : {"reconcile"}, at : {"add", "complete"}, adds : SUBSET Nodes,
                 joining : SUBSET Nodes, drops : SUBSET Nodes]

\* Types of all variables.
TypeOK ==
  /\ term \in Nat \ {0} /\ leader \in Nodes \cup {None}
  /\ config \in [Nodes -> {"none", "nonvoter", "voter"}]
  /\ members \in [Nodes -> [status : Statuses, cert : Certs \cup {None}]]
  /\ attempts \in [Nodes -> JoinAttempts \cup {None}]
  /\ tokens \in [Tokens -> [status : {"none", "live", "revoked", "expired"}, uses : Nat, left : Nat]]
  /\ crl \subseteq Nodes \X Certs /\ group \subseteq Nodes
  /\ caps \in [Nodes -> Capabilities \cup {None}]
  /\ op \in [Nodes -> {Idle} \cup JoinOps \cup RemoveOps \cup PromoteOps \cup ReconcileOps]
  /\ boot \in BOOLEAN
  /\ pending \in [Nodes -> PendingJoins \cup {None}]
  /\ bundle \in [Nodes -> Bundles \cup {None}]
  /\ key \subseteq Nodes
  /\ wait \in [Nodes -> Nodes \cup {Seed, None}]
  /\ signed \in [Nodes -> 0..MaxCalls]
  /\ calls \in 0..MaxCalls /\ requests \in 0..MaxRequests /\ used \in 0..MaxEvents

\* A token is spent once per node that it let in, however often the joiner retries
\* and whichever leader answers.
TokenSpentOnce ==
  \A t \in Tokens :
    tokens[t].uses - tokens[t].left =
      Cardinality({n \in Nodes : attempts[n] # None /\ attempts[n].token = t})

\* Whatever answers were lost, the certificate a node uses was made for the key it
\* holds and is the one its member carries, so that removing the member revokes it.
CertIsTheMembers ==
  \A n \in Nodes : bundle[n] # None =>
    /\ bundle[n].cert.csr = bundle[n].csr
    /\ members[n].cert = bundle[n].cert
    /\ Revoked(n) => SerialRevoked(n, bundle[n].cert)

\* An admitted node is in the Raft configuration: join_complete never overtakes
\* AddNonvoter, and no removal hits a node that is still admitted. The founder is
\* left out: it may put itself back (AdmitBootstrapMember).
AdmittedIsConfigured ==
  \A n \in Nodes \ {Founder} : Admitted(n) => config[n] # "none"

\* Every voter, and so every possible leader, holds the CA key.
VoterHoldsKey == Voters \subseteq key

\* A removed node is not let in again, whichever join of it is still going on. The
\* founder is left out.
RevokedStays ==
  [][\A n \in Nodes \ {Founder} : Revoked(n) => Revoked(n)']_vars

\* An agent group holds admitted nodes only, so that a role bound to the group reaches
\* no removed node.
GroupIsAdmitted == \A n \in group : Admitted(n)

\* Once requests and faults end, the configuration follows the members: no join stays
\* half done, no admitted node is missing, and a removed one is gone unless it is the
\* last voter.
Settled ==
  /\ \A n \in Nodes : members[n].status # "JOINING"
  /\ \A n \in Nodes : Admitted(n) => config[n] # "none"
  /\ \A n \in Nodes : Revoked(n) => config[n] = "none" \/ Voters = {n}
Converges == <>[]Settled

=============================================================================
