--------------------------- MODULE MCReplication ----------------------------
(***************************************************************************)
(* Finite instances of Replication.                                        *)
(***************************************************************************)
EXTENDS Replication

TwoNodes == {"a", "b"}
\* Each node copies to the other: the leader's route is dispatched locally, the
\* other one by a call to its source.
BothWays == {{<<"a", "b">>, <<"b", "a">>}}
OneWayOrBoth == BothWays \cup {{<<"b", "a">>}}
=============================================================================
