----------------------------- MODULE MCVagalume -----------------------------
(***************************************************************************)
(* Instances of Vagalume for TLC.                                          *)
(***************************************************************************)
EXTENDS Vagalume

CONSTANTS v1, v2

OneSong  == {v1}
TwoSongs == {v1, v2}
=============================================================================
