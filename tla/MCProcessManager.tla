------------------------- MODULE MCProcessManager -------------------------
(***************************************************************************)
(* Finite instances of ProcessManager: one process with one or two         *)
(* instances, or two processes where "web" may depend on "db".             *)
(***************************************************************************)
EXTENDS ProcessManager, TLC

Base == [mode |-> "always", maxRetries |-> 1, healthRestart |-> TRUE,
         autostart |-> TRUE, badSignal |-> FALSE, deps |-> {}, cond |-> "STARTED"]

OneProc == {"db"}
OneInst == {"db0"}
OneProcOf == [i \in OneInst |-> "db"]
OneOrdinal == [i \in OneInst |-> 0]
OneRank == [p \in OneProc |-> 1]
OnePolicy == [p \in OneProc |-> Base]
Unlimited == [p \in OneProc |-> [Base EXCEPT !.maxRetries = 0, !.healthRestart = FALSE]]
OneSpec == [p \in OneProc |-> 1]

PairInsts == {"db0", "db1"}
PairProcOf == [i \in PairInsts |-> "db"]
PairOrdinals == [i \in PairInsts |-> IF i = "db0" THEN 0 ELSE 1]

TwoProcs == {"db", "web"}
TwoInsts == {"db0", "web0"}
TwoProcOf == [i \in TwoInsts |-> IF i = "db0" THEN "db" ELSE "web"]
TwoOrdinals == [i \in TwoInsts |-> 0]
TwoRanks == [p \in TwoProcs |-> IF p = "db" THEN 1 ELSE 2]
TwoSpecs == [p \in TwoProcs |-> 1]
TwoPolicies ==
  [p \in TwoProcs |-> [Base EXCEPT !.maxRetries = 0, !.healthRestart = FALSE,
                                   !.deps = IF p = "web" THEN {"db"} ELSE {}]]
\* The same, with a stop signal for db that its shim cannot parse.
RefusingPolicies == [TwoPolicies EXCEPT !["db"].badSignal = TRUE]

ThreadSymmetry == Permutations(Threads)
=============================================================================
