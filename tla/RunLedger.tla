----------------------------- MODULE RunLedger ------------------------------
(***************************************************************************)
(* The words control.State uses for backup and replication runs and their  *)
(* tasks, and how a run's final status follows from its tasks. SUCCESS     *)
(* stands for SUCCESS and SUCCEEDED, which the code never tells apart.     *)
(* PENDING and CANCELED runs are legal but no code writes one.             *)
(***************************************************************************)
EXTENDS Naturals, FiniteSets

TerminalRun == {"SUCCEEDED", "PARTIAL", "FAILED"}
RunStatus == {"RUNNING"} \cup TerminalRun

\* retryableTaskStatus
RetryableTask ==
  {"FAILED", "TIMEOUT", "UNAVAILABLE", "CONFIG_MISSING", "RETENTION_FAILED", "SKIPPED"}
TerminalTask == {"SUCCESS"} \cup RetryableTask
TaskStatus == {"PENDING", "RUNNING"} \cup TerminalTask

Counts == [success : Nat, unavailable : Nat, timeout : Nat, failed : Nat]

\* The counters of a run whose units U ended with the statuses st.
Counted(st, U) ==
  [success     |-> Cardinality({u \in U : st[u] = "SUCCESS"}),
   unavailable |-> Cardinality({u \in U : st[u] = "UNAVAILABLE"}),
   timeout     |-> Cardinality({u \in U : st[u] = "TIMEOUT"}),
   failed      |-> Cardinality({u \in U : st[u] \in TerminalTask \ {"SUCCESS", "UNAVAILABLE", "TIMEOUT"}})]

NoCount == [success |-> 0, unavailable |-> 0, timeout |-> 0, failed |-> 0]

Verdict(st, U) ==
  IF \A u \in U : st[u] = "SUCCESS" THEN "SUCCEEDED"
  ELSE IF \E u \in U : st[u] = "SUCCESS" THEN "PARTIAL"
  ELSE "FAILED"

\* aggregateTerminalRun: nothing happens to a run that has ended, that has no
\* unit, or that has a unit without a final status.
Aggregated(run, st, U) ==
  IF run.status \in TerminalRun \/ U = {} \/ \E u \in U : st[u] \notin TerminalTask
  THEN run
  ELSE [run EXCEPT !.status = Verdict(st, U), !.count = Counted(st, U)]

\* The report a unit's status stands for in the promise.
ReportOf(s) ==
  IF s = "SUCCESS" THEN "good" ELSE IF s \in RetryableTask THEN "bad" ELSE "none"
=============================================================================
