--------------------------- MODULE MCBatchEngine ---------------------------
(***************************************************************************)
(* Finite instances of BatchEngine.                                        *)
(***************************************************************************)
EXTENDS BatchEngine, TLC

OneBatch == {"b"}
OneTarget == {"x"}
TwoTargets == {"x", "y"}
OneBatchOf == [t \in OneTarget |-> "b"]
TwoBatchOf == [t \in TwoTargets |-> "b"]

\* Two batches that share the worker.
TwoBatches == {"b", "c"}
ApartBatchOf == [t \in TwoTargets |-> IF t = "x" THEN "b" ELSE "c"]

HandlerSymmetry == Permutations(Handlers)
=============================================================================
