----------------------------- MODULE MCAdapters -----------------------------
(***************************************************************************)
(* Instance of Adapters for TLC: two players, one of which the adapters    *)
(* for a single player ask, with two songs so that one can follow another. *)
(***************************************************************************)
EXTENDS Adapters

CONSTANTS p1, p2, s1, s2, s3, n1, n2, zune, other

MCLibrary == [p \in {p1, p2} |-> IF p = p1 THEN {s1, s2} ELSE {s3}]
=============================================================================
