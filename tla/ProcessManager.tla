--------------------------- MODULE ProcessManager ---------------------------
(***************************************************************************)
(* The process plane of one node: internal/process.Manager, the store rows *)
(* it owns, the shims and children it drives over their sockets, and the   *)
(* faults around it.                                                       *)
(*                                                                         *)
(* Every operation runs under Manager.mu.  The one exception is the health *)
(* probe of a reconcile pass, which releases the mutex; the pass then goes *)
(* on with the instance rows it read when it began.  Threads are the       *)
(* agent's one-second loop and the API handlers; each may run a pass, and  *)
(* Kill and Restart run one inside the operation.                          *)
(*                                                                         *)
(* Time is not a clock here.  Whatever the code decides by comparing       *)
(* instants (backoff elapsed, shim verified less than 10 s ago, probe      *)
(* interval, restart cooldown) may go either way.                          *)
(***************************************************************************)
EXTENDS ProcessTypes

CONSTANTS
  Procs,       \* process ids (specs)
  Instances,   \* instance ids
  Proc,        \* Proc[i]: the process of instance i
  Ordinal,     \* Ordinal[i]: its ordinal
  Rank,        \* Rank[p]: position of p in StartupOrder
  Policy,      \* Policy[p]: restart mode, retries, health restart, ...
  Pids,        \* pids the kernel can hand to children
  Threads,     \* agent loop and API handlers
  ProbeResults,\* tracker answers considered, at most all of Health
  ExitStatuses,\* child exit statuses considered
  FaultKinds,  \* the kinds of faults considered
  InitSpec,    \* InitSpec[p]: instances of p already applied, 0 for no spec
  InitDesired, \* desired state already set on those
  MaxInst,     \* most instances a spec asks for
  MaxBoot,     \* bound: host boots
  FailCap,     \* failures are counted up to this cap
  MaxOps,      \* bound: operator requests
  MaxFaults,   \* bound: faults
  NoPid, NoInst, NoRow, NoThread

Policies == [mode : Modes, maxRetries : Nat, healthRestart : BOOLEAN,
             autostart : BOOLEAN, badSignal : BOOLEAN,
             deps : SUBSET Procs, cond : {"STARTED", "HEALTHY"}]

PidOrNone == Pids \cup {NoPid}

Row == [desired : Desired, observed : Observed, health : Health,
        pid : PidOrNone, exit : ExitCodes, boot : 0..MaxBoot]

\* The agent dies, a child exits, a shim dies, a start fails before or in the
\* shim, the runtime file cannot be written, a request ends while the shim
\* stops a child, a recorded failure leaves RetryWindow.
AllFaults == {"crash", "child", "shim", "start", "commit", "cancel", "expire"}

ASSUME ConstantTypes ==
  /\ Proc \in [Instances -> Procs]
  /\ Ordinal \in [Instances -> Nat]
  /\ Rank \in [Procs -> Nat]
  /\ Policy \in [Procs -> Policies]
  /\ ProbeResults \subseteq Health
  /\ ExitStatuses \subseteq {"zero", "nonzero"}
  /\ FaultKinds \subseteq AllFaults
  /\ InitSpec \in [Procs -> 0..MaxInst] /\ InitDesired \in Desired
  /\ MaxInst \in Nat \ {0} /\ MaxBoot \in Nat \ {0}
  /\ FailCap \in Nat /\ MaxOps \in Nat /\ MaxFaults \in Nat

ASSUME ConstantValues ==
  /\ Instances # {} /\ Procs # {}
  /\ NoPid \notin Pids
  /\ NoInst \notin Instances
  /\ NoThread \notin Threads
  /\ NoRow \notin Row

\* The cap must not change a restart decision.
ASSUME FailCapSuffices == \A p \in Procs : Policy[p].maxRetries <= FailCap

\* StartupOrder puts a dependency before its dependents, one rank each.
ASSUME RankIsStartupOrder ==
  /\ \A p, q \in Procs : p # q => Rank[p] # Rank[q]
  /\ \A p \in Procs : \A q \in Policy[p].deps : Rank[q] < Rank[p]

VARIABLES
  \* --- the host ---------------------------------------------------------
  live,      \* live[pid]: the instance whose live child has that pid
  shim,      \* shim[i]: socket file present, shim serving, child, exit code
  boot,      \* the kernel's boot id
  \* --- files and store --------------------------------------------------
  rt,        \* rt[i]: pid in runtime/<instance>.json
  spec,      \* spec[p]: instances wanted, 0 when there is no spec
  row,       \* row[i]: the process_instances row
  \* --- the agent's memory -----------------------------------------------
  agentUp,
  failures,  \* failures[i]: recorded failures still inside RetryWindow
  nextTry,   \* nextTry[i]: a retry instant is set
  shimChk,   \* shimChk[i]: lastShimCheck has an entry
  retries,   \* retries[i]: automatic restarts since failures[i] was cleared
             \* (not in the code, counted up to FailCap)
  mu,        \* the thread that holds Manager.mu
  \* --- each thread ------------------------------------------------------
  pc,        \* where the thread is
  job,       \* the operation it runs, and on which process
  todo,      \* instances its pass has still to visit
  extra,     \* those of them whose ordinal its spec list no longer wants
  snap,      \* the rows its pass read when it began
  at, cur,   \* the instance it visits and the local copy of its row
  after,     \* what follows the signalStop it is in; "restart" also marks a
             \* start that is an automatic restart
  \* --- bookkeeping ------------------------------------------------------
  ops, faults,  \* budgets used
  lost,         \* live pids whose shim died under them
  unrec         \* live pids no row may be relied on to name: spawned and never
                \* put, or met by a pass whose copy of the row is of no boot or
                \* of an earlier one

hostVars   == <<live, shim, boot>>
storeVars  == <<rt, spec, row>>
memVars    == <<failures, nextTry, shimChk, retries>>
threadVars == <<mu, pc, job, todo, extra, snap, at, cur, after>>
histVars   == <<lost, unrec>>
vars == <<hostVars, storeVars, agentUp, memVars, threadVars, ops, faults, histVars>>

-----------------------------------------------------------------------------
Shim == [sock : BOOLEAN, up : BOOLEAN, child : PidOrNone,
         code : {"zero", "nonzero"}]

PCs == {"idle", "pass", "refresh", "decide", "probe", "signal", "stop",
        "start", "launched", "spawned", "kill"}

Afters == {"pass", "surplus", "fatal", "restart", "kill"}

Jobs == [kind : {"reconcile", "kill", "restart"}, proc : Procs]

TypeOK ==
  /\ live \in [Pids -> Instances \cup {NoInst}]
  /\ shim \in [Instances -> Shim]
  /\ boot \in 1..MaxBoot
  /\ rt \in [Instances -> PidOrNone]
  /\ spec \in [Procs -> 0..MaxInst]
  /\ row \in [Instances -> Row \cup {NoRow}]
  /\ agentUp \in BOOLEAN
  /\ failures \in [Instances -> 0..FailCap]
  /\ nextTry \in [Instances -> BOOLEAN]
  /\ shimChk \in [Instances -> BOOLEAN]
  /\ retries \in [Instances -> 0..FailCap]
  /\ mu \in Threads \cup {NoThread}
  /\ pc \in [Threads -> PCs]
  /\ job \in [Threads -> Jobs]
  /\ todo \in [Threads -> SUBSET Instances]
  /\ extra \in [Threads -> SUBSET Instances]
  /\ snap \in [Threads -> [Instances -> Row \cup {NoRow}]]
  /\ at \in [Threads -> Instances]
  /\ cur \in [Threads -> Row]
  /\ after \in [Threads -> Afters]
  /\ ops \in 0..MaxOps
  /\ faults \in 0..MaxFaults
  /\ lost \in SUBSET Pids
  /\ unrec \in SUBSET Pids

NewRow(d) == [desired |-> d, observed |-> "STOPPED", health |-> "UNKNOWN",
              pid |-> NoPid, exit |-> "none", boot |-> 0]

\* Values of thread-local variables while they are not in use.
AnyInst == CHOOSE i \in Instances : TRUE
NoJob   == [kind |-> "reconcile", proc |-> CHOOSE p \in Procs : TRUE]
NoRows  == [i \in Instances |-> NoRow]

NoShim == [sock |-> FALSE, up |-> FALSE, child |-> NoPid, code |-> "zero"]

\* The agent has just opened its store: InitSpec was applied and InitDesired
\* set earlier, nothing was ever started, threads are idle.
Init ==
  /\ retries = [i \in Instances |-> 0]
  /\ live = [p \in Pids |-> NoInst]
  /\ shim = [i \in Instances |-> NoShim]
  /\ boot = 1
  /\ rt = [i \in Instances |-> NoPid]
  /\ spec = InitSpec
  /\ row = [i \in Instances |-> IF Ordinal[i] < InitSpec[Proc[i]]
                                 THEN NewRow(InitDesired) ELSE NoRow]
  /\ agentUp = TRUE
  /\ failures = [i \in Instances |-> 0]
  /\ nextTry = [i \in Instances |-> FALSE]
  /\ shimChk = [i \in Instances |-> FALSE]
  /\ mu = NoThread
  /\ pc = [t \in Threads |-> "idle"]
  /\ job = [t \in Threads |-> NoJob]
  /\ todo = [t \in Threads |-> {}]
  /\ extra = [t \in Threads |-> {}]
  /\ snap = [t \in Threads |-> NoRows]
  /\ at = [t \in Threads |-> AnyInst]
  /\ cur = [t \in Threads |-> NewRow("STOPPED")]
  /\ after = [t \in Threads |-> "pass"]
  /\ ops = 0 /\ faults = 0
  /\ lost = {} /\ unrec = {}

-----------------------------------------------------------------------------
(***************************************************************************)
(* What the manager can see of the host.                                   *)
(***************************************************************************)
pidAlive(p) == p \in Pids /\ live[p] # NoInst

sameBoot(b) == b # 0 /\ b = boot
hostRebooted(b) == b # 0 /\ b # boot

\* Status.Alive as the shim behind the socket of i reports it.
ShimAlive(i) == pidAlive(shim[i].child) /\ live[shim[i].child] = i

\* shim.Reconnect: the socket of i can be dialled and answers Status.
Reconnects(i) == shim[i].sock /\ shim[i].up

\* The pid a missing or silent shim leaves behind: the row's, else the
\* runtime file's (refreshNoSocket, recoverInstance).
OrphanPid(i, r) ==
  IF ~sameBoot(r.boot) THEN NoPid
  ELSE IF pidAlive(r.pid) THEN r.pid
  ELSE IF pidAlive(rt[i]) THEN rt[i]
  ELSE NoPid

RowsOf(p) == {i \in Instances : Proc[i] = p /\ row[i] # NoRow}

\* rejectLiveOrphanStop, and the same test at the head of signalStop.
AdoptRequired(r) == r.observed = "UNKNOWN" /\ pidAlive(r.pid) /\ sameBoot(r.boot)

\* Mutant of extraInstanceDeletable: STOPPED left out of the switch.
DeletableUnlessStopped(r) ==
  r.observed \in {"FATAL", "UNKNOWN"} /\ ~pidAlive(r.pid)

extraInstanceDeletable(r) ==
  r.observed \in {"STOPPED", "FATAL", "UNKNOWN"} /\ ~pidAlive(r.pid)

\* DepsReady on the snapshot of the pass, never on what it wrote since.
DepsReady(p, rows) ==
  \A d \in Policy[p].deps :
    LET insts == {i \in Instances : Proc[i] = d /\ rows[i] # NoRow}
    IN  /\ insts # {}
        /\ \A i \in insts : IF Policy[p].cond = "STARTED"
                            THEN rows[i].observed = "RUNNING"
                            ELSE rows[i].health = "HEALTHY"

\* StartupOrder fails, and the whole pass with it, when a stored spec names
\* a dependency that has no spec.
StartupOrderOK(sp) ==
  \A p \in Procs : sp[p] > 0 => \A d \in Policy[p].deps : sp[d] > 0

(***************************************************************************)
(* Row values the manager writes.                                          *)
(***************************************************************************)
\* Mutant of Exited: the error of ApplyObserved is not looked at.
ExitedUnchecked(r, st) ==
  [r EXCEPT !.pid = NoPid,
            !.exit = IF st = "none" THEN @ ELSE st,
            !.observed = ApplyObserved(@, "EXIT", ""),
            !.health = "UNKNOWN"]

\* handleExit: st is the shim's exit code, or "none" when there was no Status.
Exited(r, st) ==
  [r EXCEPT !.pid = NoPid,
            !.exit = IF st = "none" THEN @ ELSE st,
            !.observed = ApplyObserved(@, "EXIT", "EXITED"),
            !.health = "UNKNOWN"]

CountsAsFailure(r) == r.observed \in {"RUNNING", "STARTING", "STOPPING"}

\* markOrphan.
Orphaned(r, p) ==
  [r EXCEPT !.pid = p,
            !.observed = ApplyObserved(@, "LOST", "UNKNOWN"),
            !.health = "UNKNOWN"]

\* applyRunning.
TakenOver(r, p) ==
  [r EXCEPT !.pid = p, !.health = "UNKNOWN", !.boot = boot,
            !.observed = IF @ = "RUNNING" THEN @
                         ELSE ApplyObserved(@, "START_OK", "RUNNING")]

\* The early exits of signalStop.
Stopped(r) == [r EXCEPT !.pid = NoPid, !.observed = "STOPPED"]

\* signalStop after the shim's Stop answered.
StoppedByShim(r, st) ==
  [r EXCEPT !.pid = NoPid, !.exit = st, !.health = "UNKNOWN",
            !.observed = ApplyObserved(@, "STOPPED", "STOPPED")]

Bump(n) == IF n < FailCap THEN n + 1 ELSE n

Put(i, r) == row' = [row EXCEPT ![i] = r]

\* forgetInstance on a set of instances.
Forget(S) ==
  /\ failures' = [i \in Instances |-> IF i \in S THEN 0 ELSE failures[i]]
  /\ nextTry' = [i \in Instances |-> IF i \in S THEN FALSE ELSE nextTry[i]]
  /\ shimChk' = [i \in Instances |-> IF i \in S THEN FALSE ELSE shimChk[i]]
  /\ retries' = [i \in Instances |-> IF i \in S THEN 0 ELSE retries[i]]

-----------------------------------------------------------------------------
(***************************************************************************)
(* Control of a pass: begin, pick the next instance, advance, end.         *)
(***************************************************************************)
SetLocals(t, j, td, ex, sn, i, r, a) ==
  /\ job' = [job EXCEPT ![t] = j]
  /\ todo' = [todo EXCEPT ![t] = td]
  /\ extra' = [extra EXCEPT ![t] = ex]
  /\ snap' = [snap EXCEPT ![t] = sn]
  /\ at' = [at EXCEPT ![t] = i]
  /\ cur' = [cur EXCEPT ![t] = r]
  /\ after' = [after EXCEPT ![t] = a]

\* reconcileLocked up to the loop, on rows rs: one read of specs and rows.
EnterPass(t, j, rs) ==
  LET td == {i \in Instances : rs[i] # NoRow /\ spec[Proc[i]] > 0}
  IN  /\ SetLocals(t, j, td, {i \in td : Ordinal[i] >= spec[Proc[i]]}, rs,
                   AnyInst, NewRow("STOPPED"), "pass")
      /\ pc' = [pc EXCEPT ![t] = "pass"]
      /\ mu' = t

\* The operation of t is over: unlock.
Return(t) ==
  /\ SetLocals(t, NoJob, {}, {}, NoRows, AnyInst, NewRow("STOPPED"), "pass")
  /\ pc' = [pc EXCEPT ![t] = "idle"]
  /\ mu' = NoThread

\* continue with the next instance of the pass.
Advance(t) ==
  /\ pc' = [pc EXCEPT ![t] = "pass"]
  /\ mu' = t
  /\ at' = [at EXCEPT ![t] = AnyInst]
  /\ cur' = [cur EXCEPT ![t] = NewRow("STOPPED")]
  /\ after' = [after EXCEPT ![t] = "pass"]
  /\ UNCHANGED <<job, todo, extra, snap>>

\* continue inside the visit of the current instance, with local row r.
Goto(t, l, r) ==
  /\ pc' = [pc EXCEPT ![t] = l]
  /\ cur' = [cur EXCEPT ![t] = r]
  /\ UNCHANGED <<mu, job, todo, extra, snap, at, after>>

\* call signalStop; a says what the caller does next.
CallStop(t, r, a) ==
  /\ pc' = [pc EXCEPT ![t] = "signal"]
  /\ cur' = [cur EXCEPT ![t] = r]
  /\ after' = [after EXCEPT ![t] = a]
  /\ mu' = t
  /\ UNCHANGED <<job, todo, extra, snap, at>>

\* One of the bounded number of things that go wrong.
Fault(k) == k \in FaultKinds /\ faults < MaxFaults /\ faults' = faults + 1

Running(t, l) == agentUp /\ pc[t] = l

BeginReconcile(t) ==
  /\ Running(t, "idle") /\ mu = NoThread
  /\ StartupOrderOK(spec)
  /\ EnterPass(t, NoJob, row)
  /\ UNCHANGED <<hostVars, storeVars, agentUp, memVars, ops, faults, histVars>>

Before(i, j) ==
  \/ Rank[Proc[i]] < Rank[Proc[j]]
  \/ Proc[i] = Proc[j] /\ Ordinal[i] <= Ordinal[j]

\* The loop head: the least remaining instance; a surplus one is stopped, the
\* others are reconciled.
PickNext(t) ==
  /\ Running(t, "pass")
  /\ \E i \in todo[t] :
       /\ \A j \in todo[t] : Before(i, j)
       /\ snap[t][i] # NoRow
       /\ todo' = [todo EXCEPT ![t] = @ \ {i}]
       /\ at' = [at EXCEPT ![t] = i]
       /\ cur' = [cur EXCEPT ![t] = snap[t][i]]
       /\ pc' = [pc EXCEPT ![t] = IF i \in extra[t] THEN "signal" ELSE "refresh"]
       /\ after' = [after EXCEPT ![t] = IF i \in extra[t] THEN "surplus" ELSE "pass"]
  /\ UNCHANGED <<hostVars, storeVars, agentUp, memVars, mu, job, extra, snap,
                 ops, faults, histVars>>

\* The loop is done.  Restart now sets its process RUNNING again.
EndPass(t) ==
  /\ Running(t, "pass") /\ todo[t] = {}
  /\ row' = [i \in Instances |->
               IF job[t].kind = "restart" /\ i \in RowsOf(job[t].proc)
               THEN [row[i] EXCEPT !.desired = "RUNNING"]
               ELSE row[i]]
  /\ Return(t)
  /\ UNCHANGED <<hostVars, rt, spec, agentUp, memVars, ops, faults, histVars>>

-----------------------------------------------------------------------------
(***************************************************************************)
(* refresh: confront the local row with the shim and the pid.              *)
(***************************************************************************)
\* Verified less than shimVerifyEvery ago and both pids alive: believe it.
RefreshFast(t) ==
  LET i == at[t] r == cur[t] IN
  /\ Running(t, "refresh")
  /\ r.desired = "RUNNING" /\ r.observed = "RUNNING" /\ sameBoot(r.boot)
  /\ pidAlive(r.pid) /\ shim[i].up /\ shimChk[i]
  /\ Goto(t, "decide", r)
  /\ UNCHANGED <<hostVars, storeVars, agentUp, memVars, ops, faults, histVars>>

\* handleExit on the instance of t, then on to the decision.
HandleExit(t, r, st) ==
  LET i == at[t] x == Exited(r, st) IN
  /\ Put(i, x)
  /\ Goto(t, "decide", x)
  /\ shimChk' = [shimChk EXCEPT ![i] = FALSE]
  /\ failures' = [failures EXCEPT ![i] = IF CountsAsFailure(r) THEN Bump(@) ELSE @]
  /\ nextTry' = [nextTry EXCEPT ![i] = @ /\ ~CountsAsFailure(r)]
  /\ UNCHANGED <<rt, spec, retries>>

\* No put, memory only notes that the shim was looked at.
Looked(t, r) ==
  /\ Goto(t, "decide", r)
  /\ shimChk' = [shimChk EXCEPT ![at[t]] = TRUE]
  /\ UNCHANGED <<failures, nextTry, retries>>

\* markOrphan leaves the health of the local copy alone.
FoundOrphan(t, r, p) ==
  LET i == at[t] IN
  /\ Put(i, Orphaned(r, p))
  /\ rt' = [rt EXCEPT ![i] = p]
  /\ spec' = spec
  /\ Looked(t, [Orphaned(r, p) EXCEPT !.health = r.health])

\* refreshNoSocket: an orphan, or a dead child with no shim to ask.
NoShimStatus(t, r) ==
  LET p == OrphanPid(at[t], r) r0 == [r EXCEPT !.pid = NoPid] IN
  IF p # NoPid THEN FoundOrphan(t, r, p)
  ELSE IF CountsAsFailure(r) THEN HandleExit(t, r0, "none")
  ELSE /\ IF r.pid # NoPid THEN Put(at[t], r0) ELSE row' = row
       /\ UNCHANGED <<rt, spec>>
       /\ Looked(t, r0)

RefreshNoSocket(t) ==
  /\ Running(t, "refresh") /\ ~shim[at[t]].sock
  /\ NoShimStatus(t, cur[t])
  /\ UNCHANGED <<hostVars, agentUp, ops, faults, histVars>>

\* The socket file is there and nobody answers.
RefreshUnreachable(t) ==
  LET i == at[t] r == cur[t] IN
  /\ Running(t, "refresh") /\ shim[i].sock /\ ~Reconnects(i)
  /\ IF pidAlive(r.pid) /\ sameBoot(r.boot)
     THEN FoundOrphan(t, r, r.pid)
     ELSE Looked(t, r) /\ UNCHANGED storeVars
  /\ UNCHANGED <<hostVars, agentUp, ops, faults, histVars>>

RefreshAlive(t) ==
  LET i == at[t] r == cur[t]
      x == [r EXCEPT !.pid = shim[i].child,
                     !.observed = IF @ = "RUNNING" THEN @
                                  ELSE ApplyObserved(@, "START_OK", "RUNNING")]
  IN
  /\ Running(t, "refresh") /\ Reconnects(i) /\ ShimAlive(i)
  /\ IF sameBoot(r.boot)
     THEN /\ Put(i, x) /\ Looked(t, x) /\ UNCHANGED <<rt, spec>>
          /\ unrec' = unrec \ {shim[i].child}
     ELSE NoShimStatus(t, r) /\ unrec' = unrec \cup {shim[i].child}
  /\ UNCHANGED <<hostVars, agentUp, ops, faults, lost>>

\* Mutant of RefreshDead: a dead child behind a serving shim is left alone.
RefreshDeadIgnored(t) ==
  /\ Running(t, "refresh") /\ Reconnects(at[t]) /\ ~ShimAlive(at[t])
  /\ Looked(t, cur[t]) /\ UNCHANGED storeVars
  /\ UNCHANGED <<hostVars, agentUp, ops, faults, histVars>>

RefreshDead(t) ==
  LET i == at[t] r == cur[t] IN
  /\ Running(t, "refresh") /\ Reconnects(i) /\ ~ShimAlive(i)
  /\ IF r.observed = "STOPPED"
     THEN Looked(t, r) /\ UNCHANGED storeVars
     ELSE HandleExit(t, r, shim[i].code)
  /\ UNCHANGED <<hostVars, agentUp, ops, faults, histVars>>

-----------------------------------------------------------------------------
(***************************************************************************)
(* reconcileInstance after refresh.                                        *)
(***************************************************************************)
Deciding(t, obs, des) ==
  Running(t, "decide") /\ cur[t].observed \in obs /\ cur[t].desired \in des

\* Nothing to do for this instance in this pass.
DecideNothing(t) ==
  /\ \/ Deciding(t, {"UNKNOWN"}, {"RUNNING"})
     \/ Deciding(t, {"FATAL"}, Desired)
     \/ Deciding(t, {"STARTING"}, {"RUNNING"})
     \/ Deciding(t, {"RUNNING"}, {"RUNNING"})   \* InitialDelay or Interval
     \/ /\ Deciding(t, {"STOPPED"}, {"RUNNING"})
        /\ ~DepsReady(Proc[at[t]], snap[t])
     \/ /\ Deciding(t, {"EXITED", "BACKOFF"}, {"RUNNING"})
        /\ DecideRestart(Policy[Proc[at[t]]], "RUNNING", cur[t].observed,
                         cur[t].exit, failures[at[t]]) = "none"
  /\ Advance(t)
  /\ UNCHANGED <<hostVars, storeVars, agentUp, memVars, ops, faults, histVars>>

\* Mutant of DecideStop: only a RUNNING row is stopped.
DecideStopIfRunning(t) ==
  /\ Deciding(t, Observed \ {"FATAL"}, {"STOPPED"})
  /\ IF cur[t].observed = "RUNNING" THEN CallStop(t, cur[t], "pass") ELSE Advance(t)
  /\ UNCHANGED <<hostVars, storeVars, agentUp, memVars, ops, faults, histVars>>

DecideStop(t) ==
  /\ Deciding(t, Observed \ {"FATAL"}, {"STOPPED"})
  /\ CallStop(t, cur[t], "pass")
  /\ UNCHANGED <<hostVars, storeVars, agentUp, memVars, ops, faults, histVars>>

DecideStart(t) ==
  /\ Deciding(t, {"STOPPED"}, {"RUNNING"})
  /\ DepsReady(Proc[at[t]], snap[t])
  /\ Goto(t, "start", cur[t])
  /\ UNCHANGED <<hostVars, storeVars, agentUp, memVars, ops, faults, histVars>>

Verdict(t) ==
  DecideRestart(Policy[Proc[at[t]]], cur[t].desired, cur[t].observed,
                cur[t].exit, failures[at[t]])

DecideFatal(t) ==
  LET i == at[t] IN
  /\ Deciding(t, {"EXITED", "BACKOFF"}, {"RUNNING"})
  /\ Verdict(t) = "fatal"
  /\ Put(i, [cur[t] EXCEPT !.observed = ApplyObserved(@, "RETRIES_EXHAUSTED", "FATAL")])
  /\ nextTry' = [nextTry EXCEPT ![i] = FALSE]
  /\ Advance(t)
  /\ UNCHANGED <<hostVars, rt, spec, agentUp, failures, shimChk, retries, ops, faults, histVars>>

\* Arm nextTry, or find that it has not passed, or that a dependency is not
\* ready.  The delay is positive, so the pass that arms it never starts.
DecideBackoff(t) ==
  LET i == at[t] IN
  /\ Deciding(t, {"EXITED", "BACKOFF"}, {"RUNNING"})
  /\ Verdict(t) = "restart"
  /\ nextTry' = [nextTry EXCEPT ![i] = TRUE]
  /\ Advance(t)
  /\ UNCHANGED <<hostVars, storeVars, agentUp, failures, shimChk, retries, ops, faults, histVars>>

DecideRetry(t) ==
  LET i == at[t] IN
  /\ Deciding(t, {"EXITED", "BACKOFF"}, {"RUNNING"})
  /\ Verdict(t) = "restart"
  /\ nextTry[i] /\ DepsReady(Proc[i], snap[t])
  /\ nextTry' = [nextTry EXCEPT ![i] = FALSE]
  /\ pc' = [pc EXCEPT ![t] = "start"]
  /\ cur' = [cur EXCEPT ![t].observed = ApplyObserved(@, "RETRY", "STARTING")]
  /\ after' = [after EXCEPT ![t] = "restart"]
  /\ UNCHANGED <<mu, job, todo, extra, snap, at>>
  /\ UNCHANGED <<hostVars, storeVars, agentUp, failures, shimChk, retries, ops, faults, histVars>>

\* STOPPING with desired RUNNING: a stop the agent did not live to finish.
DecideReset(t) ==
  /\ Deciding(t, {"STOPPING"}, {"RUNNING"})
  /\ Put(at[t], [cur[t] EXCEPT !.observed = "STOPPED"])
  /\ Advance(t)
  /\ UNCHANGED <<hostVars, rt, spec, agentUp, memVars, ops, faults, histVars>>

(***************************************************************************)
(* applyHealth: the probe runs with the mutex released.                    *)
(***************************************************************************)
BeginProbe(t) ==
  /\ Deciding(t, {"RUNNING"}, {"RUNNING"})
  /\ pc' = [pc EXCEPT ![t] = "probe"]
  /\ mu' = NoThread
  /\ UNCHANGED <<hostVars, storeVars, agentUp, memVars, job, todo, extra, snap,
                 at, cur, after, ops, faults, histVars>>

\* Re-locked: does the row still show the instance that was probed?
StillProbed(t) ==
  LET r == row[at[t]] IN
  /\ r # NoRow
  /\ r.desired = "RUNNING" /\ r.observed = "RUNNING" /\ r.pid = cur[t].pid

\* It does not, or another pass recorded a probe within the Interval.
ProbeStale(t) ==
  /\ Running(t, "probe") /\ mu = NoThread
  /\ Advance(t)
  /\ UNCHANGED <<hostVars, storeVars, agentUp, memVars, ops, faults, histVars>>

\* The tracker's answer is recorded and nothing follows from it (also when a
\* restart is due but still inside RestartCooldown).
ProbeRecorded(t) ==
  /\ Running(t, "probe") /\ mu = NoThread
  /\ StillProbed(t)
  /\ \E h \in ProbeResults : Put(at[t], [row[at[t]] EXCEPT !.health = h])
  /\ Advance(t)
  /\ UNCHANGED <<hostVars, rt, spec, agentUp, memVars, ops, faults, histVars>>

\* Mutant of ProbeFailed: the failed probe is not counted.
ProbeFailedUncounted(t) ==
  LET i == at[t] r == [row[i] EXCEPT !.health = "UNHEALTHY"] IN
  /\ Running(t, "probe") /\ mu = NoThread
  /\ StillProbed(t) /\ Policy[Proc[i]].healthRestart
  /\ Put(i, r)
  /\ CallStop(t, r, "restart")
  /\ UNCHANGED <<hostVars, rt, spec, agentUp, memVars, ops, faults, histVars>>

\* UNHEALTHY with RestartOnFailure: one more failure, then stop for good or
\* stop and start again.
ProbeFailed(t) ==
  LET i == at[t]
      pol == Policy[Proc[i]]
      r == [row[i] EXCEPT !.health = "UNHEALTHY"]
      n == Bump(failures[i])
  IN
  /\ Running(t, "probe") /\ mu = NoThread
  /\ StillProbed(t) /\ pol.healthRestart
  /\ Put(i, r)
  /\ failures' = [failures EXCEPT ![i] = n]
  /\ CallStop(t, r, IF pol.maxRetries > 0 /\ n >= pol.maxRetries
                    THEN "fatal" ELSE "restart")
  /\ UNCHANGED <<hostVars, rt, spec, agentUp, nextTry, shimChk, retries, ops, faults, histVars>>

-----------------------------------------------------------------------------
(***************************************************************************)
(* signalStop and what its callers do with the result.                     *)
(***************************************************************************)
\* The caller goes on with local row r, which signalStop has put.  The check
\* of a shim that was asked to stop its child is forgotten (asked).
AfterStop(t, r, asked) ==
  LET i == at[t]
      gone == after[t] = "surplus" /\ extraInstanceDeletable(r)
  IN
  /\ Put(i, IF gone THEN NoRow
            ELSE IF after[t] = "fatal"
                 THEN [r EXCEPT !.observed = "FATAL", !.health = "UNHEALTHY"]
            ELSE r)
  /\ IF gone THEN Forget({i})
     ELSE /\ shimChk' = [shimChk EXCEPT ![i] = @ /\ ~asked]
          /\ UNCHANGED <<failures, nextTry, retries>>
  /\ CASE after[t] = "restart" -> Goto(t, "start", r)
       [] after[t] = "kill"    -> Goto(t, "kill", r)
       [] OTHER                -> Advance(t)

\* signalStop returned an error: a pass skips the instance, Kill gives up.
StopError(t) ==
  /\ IF after[t] = "kill" THEN Return(t) ELSE Advance(t)
  /\ UNCHANGED memVars

SignalAdoptRequired(t) ==
  /\ Running(t, "signal")
  /\ AdoptRequired(cur[t])
  /\ StopError(t)
  /\ UNCHANGED <<hostVars, storeVars, agentUp, ops, faults, histVars>>

\* No socket, and a live pid of this boot that is not UNKNOWN: signalStop
\* returns nil and changes nothing, and its caller goes on.
SignalIgnored(t) ==
  LET i == at[t] r == cur[t] IN
  /\ Running(t, "signal") /\ ~AdoptRequired(r) /\ ~shim[i].sock
  /\ pidAlive(r.pid) /\ sameBoot(r.boot)
  /\ IF after[t] \in {"fatal", "restart", "kill"}
     THEN AfterStop(t, r, FALSE)
     ELSE Advance(t) /\ UNCHANGED <<row, memVars>>
  /\ UNCHANGED <<hostVars, rt, spec, agentUp, ops, faults, histVars>>

\* Nobody to stop: no socket and no live pid, a shim that does not answer, or
\* one whose child is dead.  The row says STOPPED.
SignalNobody(t) ==
  LET i == at[t] r == cur[t] IN
  /\ Running(t, "signal") /\ ~AdoptRequired(r)
  /\ \/ ~shim[i].sock /\ ~(pidAlive(r.pid) /\ sameBoot(r.boot))
     \/ shim[i].sock /\ ~Reconnects(i)
     \/ Reconnects(i) /\ ~ShimAlive(i)
  /\ AfterStop(t, Stopped(r), FALSE)
  /\ UNCHANGED <<hostVars, rt, spec, agentUp, ops, faults, histVars>>

\* The Stop request goes out; only a RUNNING row is marked STOPPING first.
SignalSend(t) ==
  LET i == at[t]
      r == IF Legal(cur[t].observed, "STOP")
           THEN [cur[t] EXCEPT !.observed = ApplyObserved(@, "STOP", @)]
           ELSE cur[t]
  IN
  /\ Running(t, "signal") /\ ~AdoptRequired(cur[t])
  /\ Reconnects(i) /\ ShimAlive(i)
  /\ row' = IF Legal(cur[t].observed, "STOP") THEN [row EXCEPT ![i] = r] ELSE row
  /\ unrec' = IF row' # row /\ ~sameBoot(r.boot) THEN unrec \cup {shim[i].child} ELSE unrec
  /\ Goto(t, "stop", r)
  /\ UNCHANGED <<hostVars, rt, spec, agentUp, memVars, ops, faults, lost>>

\* Mutant of StopAnswered: the child outlives the stop signal and is not killed.
StopNotEscalated(t) ==
  /\ Running(t, "stop") /\ shim[at[t]].up
  /\ ~Policy[Proc[at[t]]].badSignal
  /\ AfterStop(t, StoppedByShim(cur[t], shim[at[t]].code), TRUE)
  /\ UNCHANGED <<hostVars, rt, spec, agentUp, ops, faults, histVars>>

\* server.stop: signal, wait for StopTimeout, kill signal, wait.  The child may
\* have died by itself since Status was asked.
ShimStops(i, st) ==
  IF ShimAlive(i)
  THEN /\ live' = [live EXCEPT ![shim[i].child] = NoInst]
       /\ shim' = [shim EXCEPT ![i].code = st]
       /\ lost' = lost \ {shim[i].child} /\ unrec' = unrec \ {shim[i].child}
  ELSE UNCHANGED <<live, shim, lost, unrec>>

CanStop(t) == Running(t, "stop") /\ shim[at[t]].up /\ ~Policy[Proc[at[t]]].badSignal

StopAnswered(t) ==
  LET i == at[t] IN
  /\ CanStop(t)
  /\ \E st \in ExitStatuses :
       /\ ShimStops(i, st)
       /\ AfterStop(t, StoppedByShim(cur[t], IF ShimAlive(i) THEN st ELSE shim[i].code), TRUE)
  /\ UNCHANGED <<boot, rt, spec, agentUp, ops, faults>>

\* The request's context ends while the shim stops the child: the shim does not
\* notice and finishes, every later store call of the operation fails.
StopCancelled(t) ==
  /\ CanStop(t) /\ Fault("cancel")
  /\ \E st \in ExitStatuses : ShimStops(at[t], st)
  /\ shimChk' = [shimChk EXCEPT ![at[t]] = FALSE]
  /\ Return(t)
  /\ UNCHANGED <<boot, storeVars, agentUp, failures, nextTry, retries, ops>>

\* A stop signal the shim cannot parse: StopResponse.Error is not looked at.
StopRefused(t) ==
  LET i == at[t] IN
  /\ Running(t, "stop") /\ shim[i].up
  /\ Policy[Proc[i]].badSignal
  /\ AfterStop(t, StoppedByShim(cur[t], "zero"), TRUE)
  /\ UNCHANGED <<hostVars, rt, spec, agentUp, ops, faults, histVars>>

\* The shim died under the request.
StopFailed(t) ==
  /\ Running(t, "stop") /\ ~shim[at[t]].up
  /\ StopError(t)
  /\ UNCHANGED <<hostVars, storeVars, agentUp, ops, faults, histVars>>

-----------------------------------------------------------------------------
(***************************************************************************)
(* startInstance.                                                          *)
(***************************************************************************)
\* A socket whose shim has a live child: take it over, never start beside it;
\* of another boot (or of none on record), leave it alone.
StartTakeOver(t) ==
  LET i == at[t] r == cur[t] p == shim[i].child IN
  /\ Running(t, "start") /\ Reconnects(i) /\ ShimAlive(i)
  /\ IF sameBoot(r.boot)
     THEN /\ Put(i, TakenOver(r, p))
          /\ rt' = [rt EXCEPT ![i] = p]
          /\ shimChk' = [shimChk EXCEPT ![i] = TRUE]
          /\ unrec' = unrec \ {p}
     ELSE UNCHANGED <<row, rt, shimChk, unrec>>
  /\ Advance(t)
  /\ UNCHANGED <<hostVars, spec, agentUp, failures, nextTry, retries, ops, faults, lost>>

\* Mutant of StartLaunch: the socket is not tried first.
StartLaunchUntried(t) ==
  LET i == at[t] IN
  /\ Running(t, "start")
  /\ shim' = [shim EXCEPT ![i] = [NoShim EXCEPT !.sock = TRUE, !.up = TRUE]]
  /\ Goto(t, "launched", cur[t])
  /\ UNCHANGED <<live, boot, storeVars, agentUp, memVars, ops, faults, histVars>>

\* No shim answers: shim.Launch.  The new shim replaces the socket file.
StartLaunch(t) ==
  LET i == at[t] IN
  /\ Running(t, "start") /\ ~Reconnects(i)
  /\ shim' = [shim EXCEPT ![i] = [NoShim EXCEPT !.sock = TRUE, !.up = TRUE]]
  /\ Goto(t, "launched", cur[t])
  /\ UNCHANGED <<live, boot, storeVars, agentUp, memVars, ops, faults, histVars>>

\* Mutant of Connected: nobody asks whether the shim has a live child.
ConnectedUnasked(t) ==
  \/ Running(t, "start") /\ Reconnects(at[t])
  \/ Running(t, "launched") /\ shim[at[t]].up

\* A shim with no child is connected: its Start can be called.
Connected(t) ==
  /\ \/ Running(t, "start") /\ Reconnects(at[t])
     \/ Running(t, "launched") /\ shim[at[t]].up
  /\ ~ShimAlive(at[t])

\* server.start: fork and exec under a pid the kernel has free.
StartSpawn(t) ==
  LET i == at[t] IN
  /\ Connected(t)
  /\ \E p \in Pids :
       /\ live[p] = NoInst
       /\ live' = [live EXCEPT ![p] = i]
       /\ shim' = [shim EXCEPT ![i].child = p, ![i].code = "zero"]
       /\ Goto(t, "spawned", [cur[t] EXCEPT !.pid = p, !.observed = "STARTING"])
  /\ retries' = [retries EXCEPT ![i] = IF after[t] = "restart" THEN Bump(@) ELSE @]
  /\ UNCHANGED <<boot, storeVars, agentUp, failures, nextTry, shimChk, ops,
                 faults, histVars>>

\* Start answered: runtime file, then the row.
StartCommit(t) ==
  LET i == at[t] r == cur[t] IN
  /\ Running(t, "spawned")
  /\ Put(i, [r EXCEPT !.exit = "none", !.boot = boot, !.health = "UNKNOWN",
                      !.observed = ApplyObserved(@, "START_OK", "RUNNING")])
  /\ rt' = [rt EXCEPT ![i] = r.pid]
  /\ shimChk' = [shimChk EXCEPT ![i] = TRUE]
  /\ Advance(t)
  /\ UNCHANGED <<hostVars, spec, agentUp, failures, nextTry, retries, ops, faults, histVars>>

\* writeRuntime failed: the row is never put although the child runs.
StartCommitFails(t) ==
  /\ Running(t, "spawned")
  /\ Fault("commit")
  /\ shimChk' = [shimChk EXCEPT ![at[t]] = TRUE]
  /\ unrec' = IF pidAlive(cur[t].pid) THEN unrec \cup {cur[t].pid} ELSE unrec
  /\ Advance(t)
  /\ UNCHANGED <<hostVars, storeVars, agentUp, failures, nextTry, retries, ops, lost>>

\* The shim's Start answered with an error (bad command, directory, user, or
\* no pid left for a fork), or the shim died before it answered.
StartFails(t) ==
  LET i == at[t] IN
  /\ \/ Connected(t) /\ Fault("start")
     \/ Connected(t) /\ (\A p \in Pids : live[p] # NoInst) /\ UNCHANGED faults
     \/ Running(t, "launched") /\ ~shim[i].up /\ UNCHANGED faults
  /\ Put(i, [cur[t] EXCEPT !.observed = ApplyObserved("STARTING", "START_FAIL", "BACKOFF")])
  /\ failures' = [failures EXCEPT ![i] = Bump(@)]
  /\ Advance(t)
  /\ UNCHANGED <<hostVars, rt, spec, agentUp, nextTry, shimChk, retries, ops, histVars>>

\* noteStartError before Start was called: unknown user, shim binary missing,
\* Launch or the first Reconnect failed, log files could not be prepared.
\* The row keeps the observed state of the local copy, or STARTING.
StartAborted(t) ==
  LET i == at[t] IN
  /\ \/ /\ Running(t, "start") /\ Fault("start")
        /\ Put(i, cur[t])
     \/ /\ Running(t, "launched") /\ ~shim[i].up
        /\ Put(i, cur[t]) /\ UNCHANGED faults
     \/ /\ Connected(t) /\ Fault("start")
        /\ Put(i, [cur[t] EXCEPT !.observed = "STARTING"])
  /\ Advance(t)
  /\ UNCHANGED <<hostVars, rt, spec, agentUp, memVars, ops, histVars>>

-----------------------------------------------------------------------------
(***************************************************************************)
(* Operator requests.  Each takes the mutex; those that do not run a pass  *)
(* are one step.                                                           *)
(***************************************************************************)
Request == agentUp /\ mu = NoThread /\ ops < MaxOps /\ ops' = ops + 1

\* ensureInstances on rows rs for n instances of p: missing rows are created
\* with the process's desired state, surplus ones are stopped or dropped.
EnsureInstances(p, n, rs) ==
  LET wants == \E i \in Instances :
                 /\ Proc[i] = p /\ rs[i] # NoRow
                 /\ Ordinal[i] < n /\ rs[i].desired = "RUNNING"
      d == IF wants THEN "RUNNING" ELSE "STOPPED"
  IN  [i \in Instances |->
         IF Proc[i] # p THEN rs[i]
         ELSE IF Ordinal[i] < n
              THEN IF rs[i] = NoRow THEN NewRow(d) ELSE rs[i]
         ELSE IF rs[i] = NoRow \/ extraInstanceDeletable(rs[i]) THEN NoRow
         ELSE [rs[i] EXCEPT !.desired = "STOPPED"]]

Dropped(rs, rs2) == {i \in Instances : rs[i] # NoRow /\ rs2[i] = NoRow}

ApplySpec(p, n) ==
  LET rs == EnsureInstances(p, n, row) IN
  /\ Request
  /\ spec' = [spec EXCEPT ![p] = n]
  /\ row' = rs
  /\ Forget(Dropped(row, rs))
  /\ UNCHANGED <<hostVars, rt, agentUp, threadVars, faults, histVars>>

DeleteSpec(p) ==
  /\ Request
  /\ spec[p] > 0
  /\ \A i \in RowsOf(p) :
       /\ row[i].desired = "STOPPED"
       /\ row[i].observed \in {"STOPPED", "FATAL", "UNKNOWN"}
       /\ ~(sameBoot(row[i].boot) /\ pidAlive(row[i].pid))
  /\ spec' = [spec EXCEPT ![p] = 0]
  /\ row' = [i \in Instances |-> IF Proc[i] = p THEN NoRow ELSE row[i]]
  /\ Forget(RowsOf(p))
  /\ UNCHANGED <<hostVars, rt, agentUp, threadVars, faults, histVars>>

WithDesired(p, d) ==
  [i \in Instances |-> IF i \in RowsOf(p) THEN [row[i] EXCEPT !.desired = d] ELSE row[i]]

SetDesired(p, d) ==
  /\ Request
  /\ spec[p] > 0
  /\ d = "STOPPED" => \A i \in RowsOf(p) : ~AdoptRequired(row[i])
  /\ row' = WithDesired(p, d)
  /\ UNCHANGED <<hostVars, rt, spec, agentUp, memVars, threadVars, faults, histVars>>

ResetFailure(p) ==
  /\ Request
  /\ row' = [i \in Instances |->
               IF i \in RowsOf(p) /\ row[i].observed = "FATAL"
               THEN [row[i] EXCEPT !.observed = "STOPPED"]
               ELSE row[i]]
  /\ failures' = [i \in Instances |-> IF i \in RowsOf(p) THEN 0 ELSE failures[i]]
  /\ nextTry' = [i \in Instances |-> IF i \in RowsOf(p) THEN FALSE ELSE nextTry[i]]
  /\ retries' = [i \in Instances |-> IF i \in RowsOf(p) THEN 0 ELSE retries[i]]
  /\ UNCHANGED <<hostVars, rt, spec, agentUp, shimChk, threadVars, faults, histVars>>

\* The operator names a live pid; the manager does not question it.
Adopt(i, p) ==
  /\ Request
  /\ pidAlive(p) /\ row[i] # NoRow
  /\ Put(i, [row[i] EXCEPT !.pid = p, !.observed = "RUNNING",
                           !.health = "UNKNOWN", !.boot = boot])
  /\ rt' = [rt EXCEPT ![i] = p]
  /\ UNCHANGED <<hostVars, spec, agentUp, memVars, threadVars, faults, histVars>>

\* Kill: killInstance on each row, then desired STOPPED, then a pass.
BeginKill(t, p) ==
  /\ Running(t, "idle") /\ Request
  /\ spec[p] > 0
  /\ \A i \in RowsOf(p) : ~AdoptRequired(row[i])
  /\ SetLocals(t, [kind |-> "kill", proc |-> p], RowsOf(p), {}, NoRows,
               AnyInst, NewRow("STOPPED"), "kill")
  /\ pc' = [pc EXCEPT ![t] = "kill"]
  /\ mu' = t
  /\ UNCHANGED <<hostVars, storeVars, agentUp, memVars, faults, histVars>>

KillNext(t) ==
  /\ Running(t, "kill")
  /\ \E i \in todo[t] :
       /\ \A j \in todo[t] : Before(i, j)
       /\ row[i] # NoRow
       /\ todo' = [todo EXCEPT ![t] = @ \ {i}]
       /\ at' = [at EXCEPT ![t] = i]
       /\ cur' = [cur EXCEPT ![t] = row[i]]
       /\ pc' = [pc EXCEPT ![t] = "signal"]
  /\ UNCHANGED <<hostVars, storeVars, agentUp, memVars, mu, job, extra, snap,
                 after, ops, faults, histVars>>

KillPass(t) ==
  LET rs == WithDesired(job[t].proc, "STOPPED") IN
  /\ Running(t, "kill") /\ todo[t] = {}
  /\ row' = rs
  /\ IF StartupOrderOK(spec) THEN EnterPass(t, job[t], rs) ELSE Return(t)
  /\ UNCHANGED <<hostVars, rt, spec, agentUp, memVars, ops, faults, histVars>>

\* Restart: desired STOPPED, a pass, and in EndPass desired RUNNING.  When the
\* pass cannot begin the process is left with desired STOPPED.
BeginRestart(t, p) ==
  LET rs == WithDesired(p, "STOPPED") IN
  /\ Running(t, "idle") /\ Request
  /\ spec[p] > 0
  /\ \A i \in RowsOf(p) : ~AdoptRequired(row[i])
  /\ row' = rs
  /\ IF StartupOrderOK(spec)
     THEN EnterPass(t, [kind |-> "restart", proc |-> p], rs)
     ELSE UNCHANGED threadVars
  /\ UNCHANGED <<hostVars, rt, spec, agentUp, memVars, faults, histVars>>

-----------------------------------------------------------------------------
(***************************************************************************)
(* The agent stops and starts; the host and its processes fail.            *)
(***************************************************************************)
\* The agent process is gone: memory, threads and locks with it.  A child
\* spawned but not yet put was never recorded.
AgentGone ==
  /\ agentUp' = FALSE
  /\ Forget(Instances)
  /\ mu' = NoThread
  /\ pc' = [t \in Threads |-> "idle"]
  /\ job' = [t \in Threads |-> NoJob]
  /\ todo' = [t \in Threads |-> {}]
  /\ extra' = [t \in Threads |-> {}]
  /\ snap' = [t \in Threads |-> NoRows]
  /\ at' = [t \in Threads |-> AnyInst]
  /\ cur' = [t \in Threads |-> NewRow("STOPPED")]
  /\ after' = [t \in Threads |-> "pass"]

\* A stop under way at a shim goes on without the agent.
AgentCrash ==
  /\ agentUp /\ Fault("crash")
  /\ AgentGone
  /\ \/ /\ unrec' = unrec \cup {p \in Pids : pidAlive(p) /\ \E t \in Threads :
                                   pc[t] = "spawned" /\ cur[t].pid = p}
        /\ UNCHANGED <<live, shim, lost>>
     \/ \E t \in Threads, st \in ExitStatuses : CanStop(t) /\ ShimStops(at[t], st)
  /\ UNCHANGED <<boot, storeVars, ops>>

HostReboot ==
  /\ boot < MaxBoot /\ boot' = boot + 1
  /\ live' = [p \in Pids |-> NoInst]
  /\ shim' = [i \in Instances |-> [NoShim EXCEPT !.sock = shim[i].sock]]
  /\ lost' = {} /\ unrec' = {}
  /\ AgentGone
  /\ UNCHANGED <<storeVars, ops, faults>>

\* recoverInstance on row r of i.
Recovered(i, r) ==
  IF Reconnects(i) /\ ShimAlive(i) /\ sameBoot(r.boot) THEN TakenOver(r, shim[i].child)
  ELSE IF OrphanPid(i, r) # NoPid THEN Orphaned(r, OrphanPid(i, r))
  ELSE [r EXCEPT
          !.pid = NoPid,
          !.desired = IF hostRebooted(r.boot) /\ ~Policy[Proc[i]].autostart
                      THEN "STOPPED" ELSE @,
          !.observed = IF @ = "FATAL" THEN @ ELSE "STOPPED",
          !.health = "UNKNOWN"]

\* Agent start: ensureInstances and recoverInstance for every stored spec.
Recover ==
  LET ensured(i) == EnsureInstances(Proc[i], spec[Proc[i]], row)[i]
      visited == {i \in Instances : spec[Proc[i]] > 0 /\ ensured(i) # NoRow}
  IN
  /\ ~agentUp
  /\ agentUp' = TRUE
  /\ row' = [i \in Instances |->
               IF i \in visited THEN Recovered(i, ensured(i))
               ELSE IF spec[Proc[i]] > 0 THEN NoRow
               ELSE row[i]]
  /\ rt' = [i \in Instances |->
              IF i \in visited /\ Recovered(i, ensured(i)).pid # NoPid
              THEN Recovered(i, ensured(i)).pid
              ELSE rt[i]]
  /\ unrec' = unrec \ {shim[i].child : i \in {j \in visited :
                         Reconnects(j) /\ ShimAlive(j) /\ sameBoot(ensured(j).boot)}}
  /\ UNCHANGED <<hostVars, spec, memVars, threadVars, ops, faults, lost>>

ChildExit(p, st) ==
  LET i == live[p] IN
  /\ live[p] # NoInst
  /\ Fault("child")
  /\ live' = [live EXCEPT ![p] = NoInst]
  /\ shim' = [shim EXCEPT ![i].code = IF shim[i].child = p THEN st ELSE @]
  /\ lost' = lost \ {p} /\ unrec' = unrec \ {p}
  /\ UNCHANGED <<boot, storeVars, agentUp, memVars, threadVars, ops>>

\* A killed shim leaves its socket file; one asked to end removes it.
ShimDies(i, keepsFile) ==
  /\ shim[i].up
  /\ Fault("shim")
  /\ shim' = [shim EXCEPT ![i] = [NoShim EXCEPT !.sock = keepsFile]]
  /\ lost' = IF ShimAlive(i) THEN lost \cup {shim[i].child} ELSE lost
  /\ UNCHANGED <<live, boot, storeVars, agentUp, memVars, threadVars, ops, unrec>>

\* A recorded failure falls out of RetryWindow.
FailureExpires(i) ==
  /\ "expire" \in FaultKinds
  /\ failures[i] > 0
  /\ failures' = [failures EXCEPT ![i] = @ - 1]
  /\ UNCHANGED <<hostVars, storeVars, agentUp, nextTry, shimChk, retries, threadVars,
                 ops, faults, histVars>>

-----------------------------------------------------------------------------
PassStep(t) ==
  \/ PickNext(t) \/ EndPass(t)
  \/ RefreshFast(t) \/ RefreshNoSocket(t) \/ RefreshUnreachable(t)
  \/ RefreshAlive(t) \/ RefreshDead(t)
  \/ DecideNothing(t) \/ DecideStop(t) \/ DecideStart(t) \/ DecideFatal(t)
  \/ DecideBackoff(t) \/ DecideRetry(t) \/ DecideReset(t)
  \/ BeginProbe(t) \/ ProbeStale(t) \/ ProbeRecorded(t) \/ ProbeFailed(t)
  \/ SignalAdoptRequired(t) \/ SignalIgnored(t) \/ SignalNobody(t) \/ SignalSend(t)
  \/ StopAnswered(t) \/ StopCancelled(t) \/ StopRefused(t) \/ StopFailed(t)
  \/ StartTakeOver(t) \/ StartLaunch(t) \/ StartSpawn(t) \/ StartCommit(t)
  \/ StartCommitFails(t) \/ StartFails(t) \/ StartAborted(t)
  \/ KillNext(t) \/ KillPass(t)

OperatorStep ==
  \/ \E p \in Procs :
       \/ \E n \in 1..MaxInst : ApplySpec(p, n)
       \/ DeleteSpec(p)
       \/ \E d \in Desired : SetDesired(p, d)
       \/ ResetFailure(p)
       \/ \E t \in Threads : BeginKill(t, p) \/ BeginRestart(t, p)
  \/ \E i \in Instances, p \in Pids : Adopt(i, p)

HostStep ==
  \/ AgentCrash \/ HostReboot
  \/ \E p \in Pids, st \in ExitStatuses : ChildExit(p, st)
  \/ \E i \in Instances : FailureExpires(i) \/ \E k \in BOOLEAN : ShimDies(i, k)

Next ==
  \/ \E t \in Threads : BeginReconcile(t) \/ PassStep(t)
  \/ Recover
  \/ OperatorStep
  \/ HostStep

Spec == Init /\ [][Next]_vars

-----------------------------------------------------------------------------
(***************************************************************************)
(* Safety.                                                                 *)
(***************************************************************************)
\* Every live child is behind the serving shim of its instance, or that shim
\* died: nothing the manager does replaces a shim that serves, or gives one
\* that has a live child another (startInstance, server.start).
ChildrenBehindShims ==
  /\ \A i \in Instances : shim[i].up => shim[i].sock
  /\ \A p \in Pids : live[p] # NoInst =>
       p \in lost \/ (shim[live[p]].up /\ shim[live[p]].child = p)

\* An instance has two live children at once only if a shim died and left one
\* of them behind: every start goes through Reconnect and the shim's Status,
\* so a shim that serves is never given a second child and is never replaced
\* (startInstance, server.start).
OneCopyUnlessShimLost ==
  \A p, q \in Pids :
    p # q /\ live[p] # NoInst /\ live[p] = live[q] => p \in lost \/ q \in lost

NotRunning == {"STOPPED", "EXITED", "BACKOFF", "FATAL"}

\* A row that says the instance is not running is right about the shim: no
\* child lives behind a serving shim of a STOPPED, EXITED, BACKOFF or FATAL
\* row, however stale the snapshot a pass works from.  The exceptions are a
\* child whose start is being committed or was never committed, one whose row
\* a pass has overwritten with a copy of an earlier boot (SignalSend), and a
\* stop signal the shim refuses.
NotRunningIsHonest ==
  \A i \in Instances :
    /\ row[i] # NoRow /\ row[i].observed \in NotRunning
    /\ shim[i].up /\ ShimAlive(i)
    => \/ shim[i].child \in unrec
       \/ \E t \in Threads : pc[t] = "spawned" /\ at[t] = i
       \/ Policy[Proc[i]].badSignal

\* Crash-loop protection: between two clearings of its failure record an
\* instance is restarted automatically at most MaxRetries times, whether
\* it exits, fails to start or fails its probe (DecideRestart, handleExit,
\* applyHealth).  Stated for a manager that runs one pass at a time, commits
\* the starts it makes and remembers its failures (Steady in CrashLoopProofs).
CrashLoopBounded ==
  \A i \in Instances :
    Policy[Proc[i]].maxRetries > 0 => retries[i] <= Policy[Proc[i]].maxRetries

-----------------------------------------------------------------------------
(***************************************************************************)
(* Liveness, for the agent's own loop: it runs a pass every second, each   *)
(* pass ends, a backoff elapses, and the service manager restarts a dead   *)
(* agent.                                                                  *)
(***************************************************************************)
Fairness ==
  /\ \A t \in Threads : /\ WF_vars(BeginReconcile(t) \/ PassStep(t))
                        /\ SF_vars(DecideRetry(t))
  /\ WF_vars(Recover)

LiveSpec == Spec /\ Fairness

Behind(i) == shim[i].up /\ ShimAlive(i)

\* The row names a live pid that no serving shim of the instance vouches for:
\* an orphan, an adopted process, or a stranger that was given a pid the
\* runtime file still holds.
Stray(i) ==
  row[i] # NoRow /\ pidAlive(row[i].pid) /\ ~(Behind(i) /\ shim[i].child = row[i].pid)

\* A stop takes effect: while desired stays STOPPED the child behind the shim
\* is eventually gone, across agent crashes, failed starts and cancelled
\* stops (SetDesired, reconcileInstance, signalStop).
StopConverges ==
  \A i \in Instances :
    row[i] # NoRow /\ row[i].desired = "STOPPED"
    ~> row[i] = NoRow \/ row[i].desired = "RUNNING" \/ ~Behind(i)

\* An instance that should run comes back: with no shim and no child, or with
\* a dead child, it is eventually started, unless it is FATAL, waits for an
\* Adopt, was given a stranger's pid, or is no longer wanted (refresh,
\* DecideRestart, startInstance).
KeepsRunning ==
  \A i \in Instances :
    row[i] # NoRow /\ row[i].desired = "RUNNING" /\ ~Behind(i)
    ~> \/ row[i] = NoRow \/ row[i].desired = "STOPPED" \/ Behind(i)
       \/ row[i].observed \in {"FATAL", "UNKNOWN"} \/ Stray(i)

\* Scaling down takes effect: an instance whose ordinal the spec no longer
\* wants loses its child and then its row, across crashes and uncommitted
\* starts.  One whose row names a stray pid is never signalled and stays
\* (reconcileLocked, signalStop, ensureInstances, extraInstanceDeletable).
SurplusGoes ==
  \A i \in Instances :
    LET surplus == spec[Proc[i]] > 0 /\ Ordinal[i] >= spec[Proc[i]]
    IN  surplus /\ row[i] # NoRow
        ~> \/ row[i] = NoRow /\ ~Behind(i)
           \/ ~surplus
           \/ Stray(i)
=============================================================================
