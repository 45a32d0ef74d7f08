-------------------------------- MODULE Mpris --------------------------------
(***************************************************************************)
(* The MPRIS adapter.  It keeps a record for every player it has ever      *)
(* found on the bus.  The record is written by the player's signals        *)
(* between polls and by the answers of a poll, which looks through the     *)
(* table for a player that answers three questions.                        *)
(***************************************************************************)
EXTENDS Polling

VARIABLES
  table,   \* the names in the table players
  record   \* the status and text of each record's ti

mprisvars == << polling, table, record >>

None == [status |-> STOPPED, text |-> Text(NoText)]

MprisInit ==
  /\ table = {}
  /\ record = [p \in Names |-> None]

get_mpris_info ==
  /\ BeginPoll
  /\ pc' = "listing"
  /\ UNCHANGED << search, table, record >>

Asks(place) == pc = place /\ UNCHANGED << adapter, players >>

(* A name seen for the first time gets a record; one that is gone stays.   *)
ListNames ==
  /\ Asks("listing")
  /\ \/ Answered /\ table' = table \cup {p \in Names : mode[p] # CLOSED}
     \/ Unanswered /\ UNCHANGED table
  /\ left' = table'
  /\ GoesTo("searching")
  /\ UNCHANGED << ti, asking, record >>

Found == ti.status # CLOSED

(* The table is walked in an order of its own; a name without an owner is  *)
(* passed over.                                                            *)
mpris_check_player(p) ==
  /\ Asks("searching")
  /\ ~ Found
  /\ p \in left
  /\ left' = left \ {p}
  /\ IF mode[p] = CLOSED
     THEN GoesTo("searching") /\ UNCHANGED asking
     ELSE GoesTo("status") /\ asking' = p
  /\ UNCHANGED << ti, lost, table, record >>

(* Once a player has been found the others are passed over.                *)
SearchEnds ==
  /\ Asks("searching")
  /\ Found \/ left = {}
  /\ Return
  /\ left' = {}
  /\ UNCHANGED << ti, lost, asking, table, record >>

(* The player is there, and answers.                                       *)
Tells(place) == Asks(place) /\ mode[asking] # CLOSED /\ Answered

GetStatus ==
  /\ Tells("status")
  /\ record' = [record EXCEPT ![asking].status = mode[asking]]
  /\ GoesTo("metadata")
  /\ UNCHANGED << ti, search, table >>

GetMetadata ==
  /\ Tells("metadata")
  /\ record' = [record EXCEPT ![asking].text = Text(song[asking])]
  /\ GoesTo("position")
  /\ UNCHANGED << ti, search, table >>

PositionGet ==
  /\ Tells("position")
  /\ ti' = [status |-> record[asking].status, player |-> asking, text |-> record[asking].text]
  /\ GoesTo("searching")
  /\ asking' = NoName
  /\ UNCHANGED << left, table, record >>

(* A player that quits is no lost call.                                    *)
Silent ==
  /\ \E place \in {"status", "metadata", "position"} : Asks(place)
  /\ IF mode[asking] = CLOSED THEN Answered ELSE Unanswered
  /\ UNCHANGED << ti, left, table, record >>

(* Mutant of MprisFails: only a poll that has the metadata gives up for    *)
(* want of them; without a status the record's is taken.                   *)
MprisFails_status_kept ==
  /\ Silent
  /\ IF pc = "status"
     THEN GoesTo("metadata") /\ UNCHANGED asking
     ELSE GoesTo("searching") /\ asking' = NoName

(* Mutant of MprisFails: a failing player ends the search.                 *)
MprisFails_gives_up ==
  /\ Silent
  /\ Return
  /\ asking' = NoName

(* Each of the three failing, mpris_check_player returns, and the walk     *)
(* goes on.                                                                *)
MprisFails ==
  /\ Silent
  /\ GoesTo("searching")
  /\ asking' = NoName

(***************************************************************************)
(* Signals, dispatched between polls, late or in time.                     *)
(***************************************************************************)
Signal(p) == pc = "idle" /\ p \in table /\ UNCHANGED << polling, table >>

mpris_status_signal_cb(p) ==
  /\ Signal(p)
  /\ \E m \in STOPPED .. PLAYING : record' = [record EXCEPT ![p].status = m]

mpris_track_signal_cb(p) ==
  /\ Signal(p)
  /\ \E s \in Library[p] : record' = [record EXCEPT ![p].text = Text(s)]

Mprises ==
  \/ get_mpris_info
  \/ ListNames
  \/ \E p \in Names : mpris_check_player(p)
  \/ SearchEnds
  \/ GetStatus
  \/ GetMetadata
  \/ PositionGet
  \/ MprisFails

MprisNext ==
  /\ adapter = "MPRIS"
  /\ \/ Mprises
     \/ \E p \in Names : mpris_status_signal_cb(p) \/ mpris_track_signal_cb(p)
     \/ \E p \in Names : Moves(p) /\ UNCHANGED << table, record >>

MprisTypeOK ==
  /\ table \subseteq Names
  /\ record \in [Names -> [status : STOPPED .. PLAYING, text : [Fields -> Texts]]]
  /\ pc \in {"status", "metadata", "position"} /\ adapter = "MPRIS" => asking \in table

(***************************************************************************)
(* Properties.                                                             *)
(***************************************************************************)
Ends == Returns /\ adapter = "MPRIS"

(* Whatever signals wrote into a record, and whichever of the calls fail,  *)
(* what is reported of a player, its status and its song, was each true of *)
(* that player during this very poll.                                      *)
FreshReport ==
  [][Ends /\ ti'.status # CLOSED =>
       /\ ti'.player \in Names
       /\ ti'.status \in SeenModes(ti'.player)
       /\ \A f \in Fields :
            \/ ti'.text[f] \in SeenSongs(ti'.player)
            \/ ti'.text[f] = NoText /\ STOPPED \in SeenModes(ti'.player)]_mprisvars

(* While no call to a running player fails, a player that is there during  *)
(* the whole poll is enough for one to be reported: others that quit       *)
(* between two of the questions, or stay in the table after they have      *)
(* quit, do not end the search.                                            *)
FindsPlayer ==
  [][Ends /\ ~ lost' /\ (\E p \in Names : CLOSED \notin SeenModes(p))
       => ti'.status # CLOSED]_mprisvars

(* What a poll ought to report: one of the players that run, as it is, or  *)
(* that none does.                                                         *)
MprisSettled ==
  /\ ti.status = CLOSED => \A p \in Names : mode[p] = CLOSED
  /\ ti.status # CLOSED => /\ ti.player # NoName /\ ti.status = mode[ti.player]
                           /\ ti.text = Text(song[ti.player])

(* The timer polls, and blocking calls end.                                *)
MprisFairness == WF_mprisvars(adapter = "MPRIS" /\ Mprises)
=============================================================================
