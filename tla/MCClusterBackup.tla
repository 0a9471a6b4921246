-------------------------- MODULE MCClusterBackup ---------------------------
(***************************************************************************)
(* Finite instances of ClusterBackup.                                      *)
(***************************************************************************)
EXTENDS ClusterBackup

TwoNodes == {"a", "b"}
TwoById == [S \in SUBSET TwoNodes |-> SelectSeq(<<"a", "b">>, LAMBDA n : n \in S)]
AllNodes == {[sel |-> "ALL", ids |-> << >>]}
EverySelector ==
  {[sel |-> "ALL", ids |-> << >>], [sel |-> "GROUP", ids |-> << >>],
   [sel |-> "EXPLICIT", ids |-> <<"b", "a">>]}
=============================================================================
