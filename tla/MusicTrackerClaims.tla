------------------------- MODULE MusicTrackerClaims -------------------------
(***************************************************************************)
(* What the repository's ChangeLog says of the core, taken at its word.    *)
(* TLC refutes it for the code as it is.                                   *)
(***************************************************************************)
EXTENDS MusicTracker

TakesTune(a) == enabled[a] /\ Touchable(a) /\ UsesTune(a)

(* ChangeLog, 0.4.16: "Cause the status to update immediately after status *)
(* changing is activated (rather than not until the next time the track    *)
(* information changes)".  action_toggle_status restores mostrecent_ti by  *)
(* way of set_status_tune, which finds it equal to mostrecent_ti.          *)
ActivationUpdatesTune ==
  [][action_toggle_status /\ prefs.disabled =>
       \A a \in Accounts : TakesTune(a) => tune'[a] = TuneOf(mostrecent_ti)]_vars
=============================================================================
