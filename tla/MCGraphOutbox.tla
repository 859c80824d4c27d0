---------------------------- MODULE MCGraphOutbox ----------------------------
(***************************************************************************)
(* A small instance of GraphOutbox: two scopes, and two configurations, of *)
(* which one has a batch that two scopes exceed and the other lets every   *)
(* failure of Neo4j through.                                               *)
(***************************************************************************)
EXTENDS GraphOutbox

CONSTANTS s1, s2, c0, c1

TwoConfigs == {[batch |-> 1, required |-> FALSE], [batch |-> 2, required |-> TRUE]}

\* One scope is changed while it is projected, the other shares its batch.
Versions == [s \in Scope |-> IF s = s1 THEN 2 ELSE 1]
=============================================================================
