---------------------------- MODULE PlayerStatus ----------------------------
(***************************************************************************)
(* enum of player states of musictracker.h; INVALID is INT_MIN in the      *)
(* code, any value below CLOSED behaves as it does.                        *)
(***************************************************************************)
EXTENDS Integers

INVALID == -2
CLOSED  == -1
STOPPED == 0
PAUSED  == 1
PLAYING == 2
=============================================================================
