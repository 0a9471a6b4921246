--------------------------- MODULE RunLedgerProofs --------------------------
(***************************************************************************)
(* What the proofs about backup and replication runs use of the words and  *)
(* counters of RunLedger.                                                  *)
(***************************************************************************)
EXTENDS RunLedger, FiniteSetTheorems, TLAPS

\* The counters of a run with finitely many units are natural numbers.
LEMMA CountedType ==
  ASSUME NEW U, IsFiniteSet(U), NEW st
  PROVE  Counted(st, U) \in Counts
<1>1. \A S \in SUBSET U : Cardinality(S) \in Nat
  BY FS_Subset, FS_CardinalityType
<1>2. /\ Cardinality({u \in U : st[u] = "SUCCESS"}) \in Nat
      /\ Cardinality({u \in U : st[u] = "UNAVAILABLE"}) \in Nat
      /\ Cardinality({u \in U : st[u] = "TIMEOUT"}) \in Nat
      /\ Cardinality({u \in U : st[u] \in TerminalTask \ {"SUCCESS", "UNAVAILABLE", "TIMEOUT"}}) \in Nat
  BY <1>1
<1> QED
  BY <1>2 DEF Counted, Counts

LEMMA NoCountType == NoCount \in Counts
BY DEF NoCount, Counts

LEMMA VerdictType ==
  ASSUME NEW U, NEW st
  PROVE  Verdict(st, U) \in TerminalRun
BY DEF Verdict, TerminalRun

\* The words for tasks and runs that are not final are none of the final ones.
LEMMA Words ==
  /\ "none" \notin TaskStatus /\ {"PENDING", "RUNNING"} \cap TerminalTask = {}
  /\ {"absent", "RUNNING"} \cap TerminalRun = {} /\ "SUCCESS" \notin RetryableTask
  /\ TerminalTask \subseteq TaskStatus /\ RetryableTask \subseteq TerminalTask
  /\ "none" \notin TerminalTask
BY DEF TaskStatus, TerminalTask, RetryableTask, TerminalRun

\* The report of a final status is good or bad, the one of any other is none.
LEMMA Reports ==
  ASSUME NEW s
  PROVE  /\ ReportOf(s) = "good" <=> s = "SUCCESS"
         /\ ReportOf(s) = "bad" <=> s \in RetryableTask
         /\ ReportOf(s) = "none" <=> s \notin TerminalTask
         /\ ReportOf(s) \in {"good", "bad", "none"}
BY DEF ReportOf, TerminalTask, RetryableTask
=============================================================================
