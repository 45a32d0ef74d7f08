------------------------------ MODULE MCLastFm ------------------------------
(***************************************************************************)
(* Instances of LastFm for TLC.                                            *)
(***************************************************************************)
EXTENDS LastFm

CONSTANTS u1, u2, n1

EitherUser == {{u1}, {u2}}
=============================================================================
