------------------------------ MODULE Adapters ------------------------------
(***************************************************************************)
(* The adapters that ask at every poll, together: one of them is           *)
(* configured in the preferences, the core polls it, and the players live  *)
(* a life of their own.                                                    *)
(***************************************************************************)
EXTENDS QueryAdapters, Mpris, Mpris2, Mpd, MsnCompat

mpris == << table, record >>
adaptersvars == << polling, queries, mpris, mpd, msnvars >>

AdaptersInit ==
  /\ adapter \in QueryPlayers \cup {"MPRIS", "MPRIS2", "MPD", "MSN"}
  /\ PollInit
  /\ QueryInit
  /\ MprisInit
  /\ MpdInit
  /\ adapter # "MPD" => ~ password
  /\ MsnInit

QueryPart  == QueryNext  /\ UNCHANGED << mpris, mpd, msnvars >>
MprisPart  == MprisNext  /\ UNCHANGED << queries, mpd, msnvars >>
Mpris2Part == Mpris2Next /\ UNCHANGED << queries, mpris, mpd, msnvars >>
MpdPart    == MpdNext    /\ UNCHANGED << queries, mpris, msnvars >>
MsnPart    == adapter = "MSN" /\ MsnNext /\ UNCHANGED << polling, queries, mpris, mpd >>

AdaptersNext ==
  \/ QueryPart
  \/ MprisPart
  \/ Mpris2Part
  \/ MpdPart
  \/ MsnPart

AdaptersSpec ==
  /\ AdaptersInit
  /\ [][AdaptersNext]_adaptersvars
  /\ QueryFairness
  /\ MprisFairness
  /\ Mpris2Fairness
  /\ MpdFairness

(* Every variable has its type.                                            *)
AdaptersTypeOK ==
  /\ PollTypeOK
  /\ QueryTypeOK
  /\ MprisTypeOK
  /\ Mpris2TypeOK
  /\ MpdTypeOK
  /\ MsnTypeOK

(* What every adapter ought to report when a poll is over.                 *)
Settled ==
  CASE adapter \in QueryPlayers -> RightReport
    [] adapter = "MPRIS"        -> MprisSettled
    [] adapter = "MPRIS2"       -> Mpris2Settled
    [] adapter = "MPD"          -> MpdSettled
    [] OTHER                    -> TRUE

(* Once the players rest and every call is answered, polls heal: whatever  *)
(* signals, half an answer or a failed call have left behind, each adapter *)
(* comes to report what is played, and goes on to do so.                   *)
AdaptersHeal == Calm => <>[](pc = "idle" => Settled)

(* One poll alone: when every call is answered, no player it asks changes  *)
(* meanwhile and no signal of Quod Libet waits to be dispatched, what it   *)
(* reports is right, whatever happened in the polls before.                *)
Undisturbed == ~ lost' /\ pending = << >> /\ \A p \in Asked : seen[p] = {Is(p)}

UndisturbedIsRight == [][Returns /\ Undisturbed => Settled']_adaptersvars
=============================================================================
