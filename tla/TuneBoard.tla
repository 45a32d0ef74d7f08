------------------------------ MODULE TuneBoard ------------------------------
(***************************************************************************)
(* What the plugin promises about "now listening", told without players,   *)
(* polls and preferences.  One track is current, or Nothing is; some of    *)
(* the accounts are open.  A change of the current track reaches all open  *)
(* accounts in the step in which it happens, and only those.  Apart from   *)
(* that an account's tune can only be withdrawn: a track that is no longer *)
(* current is never put up, on any account.                                *)
(***************************************************************************)
CONSTANTS Accounts, Tracks, Nothing

VARIABLES
  current,    \* the track being played, or Nothing
  open,       \* the accounts that take part
  shown       \* the tune each account shows

boardVars == << current, open, shown >>

BoardInit ==
  /\ current = Nothing
  /\ open \subseteq Accounts
  /\ shown = [a \in Accounts |-> Nothing]

(* The accounts open after the step are those the cause of the step leaves *)
(* open; the announcement goes to those open before.                       *)
Announce(t) ==
  /\ current' = t
  /\ shown' = [a \in Accounts |-> IF a \in open THEN t ELSE shown[a]]
  /\ open' \subseteq Accounts

Withdraw(a) ==
  /\ shown' = [shown EXCEPT ![a] = Nothing]
  /\ open' \subseteq Accounts
  /\ current' = current

Reroute ==
  /\ open' \subseteq Accounts
  /\ UNCHANGED << current, shown >>

BoardNext ==
  \/ \E t \in Tracks \cup {Nothing} : Announce(t)
  \/ \E a \in Accounts : Withdraw(a)
  \/ Reroute

BoardSpec == BoardInit /\ [][BoardNext]_boardVars
=============================================================================
