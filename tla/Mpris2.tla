------------------------------- MODULE Mpris2 --------------------------------
(***************************************************************************)
(* The MPRIS2 adapter: a poll opens the session bus, asks for the names on *)
(* it and looks for a player that plays, in the order of that list.        *)
(* Nothing is kept between polls.                                          *)
(***************************************************************************)
EXTENDS Polling

(* The players that may answer with a PlaybackStatus which is none of      *)
(* "Playing", "Paused" and "Stopped".                                      *)
CONSTANT Odd

ASSUME Mpris2Assumption == Odd \subseteq Names

get_mpris2_info ==
  /\ BeginPoll
  /\ pc' = "listing"
  /\ UNCHANGED search

Calls(place) == adapter = "MPRIS2" /\ pc = place /\ UNCHANGED << adapter, players >>

Cleanup ==
  /\ Return
  /\ left' = {}
  /\ asking' = NoName

(* name_list is not initialised when cleanup frees it because there is no  *)
(* bus, no proxy or no answer: whatever is there is freed, or the program  *)
(* does not survive it.                                                    *)
CleanupUninitialised ==
  \/ Cleanup
  \/ pc' = "crashed" /\ UNCHANGED << search, window >>

ListsNames ==
  /\ Calls("listing")
  /\ UNCHANGED ti
  /\ \/ /\ Answered
        /\ left' = {p \in Names : mode[p] # CLOSED}
        /\ GoesTo("choosing")
        /\ UNCHANGED asking
     \/ Unanswered /\ CleanupUninitialised

NextName(p) ==
  /\ Calls("choosing")
  /\ p \in left
  /\ left' = left \ {p}
  /\ asking' = p
  /\ GoesTo("playback")
  /\ UNCHANGED << ti, lost >>

LastName ==
  /\ Calls("choosing")
  /\ left = {}
  /\ Cleanup
  /\ UNCHANGED << ti, lost >>

(* What the answer is taken for: it is CLOSED unless it is one of the      *)
(* three words.                                                            *)
PlaybackStatus(p) == {mode[p]} \cup (IF p \in Odd THEN {CLOSED} ELSE {})

(* Mutant of GetPlaybackStatus: the first player on the list that is not   *)
(* stopped is taken.                                                       *)
GetPlaybackStatus_first ==
  /\ Calls("playback")
  /\ mode[asking] # CLOSED
  /\ Answered
  /\ \E status \in PlaybackStatus(asking) :
       /\ ti' = [ti EXCEPT !.status = status]
       /\ GoesTo(IF status = STOPPED THEN "choosing" ELSE "filling")
  /\ UNCHANGED search

(* "if player is stopped or paused, continue and see if we can find a      *)
(* player that is Playing"; whatever else it says, its metadata are asked  *)
(* for.                                                                    *)
GetPlaybackStatus ==
  /\ Calls("playback")
  /\ mode[asking] # CLOSED
  /\ Answered
  /\ \E status \in PlaybackStatus(asking) :
       /\ ti' = [ti EXCEPT !.status = status]
       /\ GoesTo(IF status \in {STOPPED, PAUSED} THEN "choosing" ELSE "filling")
  /\ UNCHANGED search

(* "if playing, just get out": and so with a status it does not know.      *)
GetMetadata2 ==
  /\ Calls("filling")
  /\ mode[asking] # CLOSED
  /\ Answered
  /\ ti' = [ti EXCEPT !.text = Text(song[asking])]
  /\ Cleanup

(* A Get without an answer, also for want of the player, ends the search   *)
(* with what ti holds from this player or those before it.                 *)
GetFails ==
  /\ Calls("playback") \/ Calls("filling")
  /\ Unanswered
  /\ Cleanup
  /\ UNCHANGED ti

Mprises2 ==
  \/ get_mpris2_info
  \/ ListsNames
  \/ \E p \in Names : NextName(p)
  \/ LastName
  \/ GetPlaybackStatus
  \/ GetMetadata2
  \/ GetFails

Mpris2Next == adapter = "MPRIS2" /\ (Mprises2 \/ \E p \in Names : Moves(p))

Mpris2TypeOK ==
  adapter = "MPRIS2" =>
    /\ pc \in {"idle", "crashed", "listing", "choosing", "playback", "filling"}
    /\ pc \in {"playback", "filling"} => asking \in Names

(***************************************************************************)
(* Properties.                                                             *)
(***************************************************************************)
Ends2 == Returns /\ adapter = "MPRIS2"

(* A search that has ended at a player whose status it did not know.       *)
EndsAtOdd(info, p) == p \in Odd /\ info.status = CLOSED

(* While every Get is answered, no order in which the names are listed and *)
(* nothing the others do lets a poll miss a player that plays from its     *)
(* beginning to its end, unless it ends at one whose status it does not    *)
(* know.  And whether calls fail or not, status and song are not mixed: a  *)
(* song is only reported of a player that said it plays, or one of those,  *)
(* and whatever a player before it said is not reported with it.           *)
PausedNeverHidesPlaying ==
  [][Ends2 =>
       /\ ~ lost' /\ (\E p \in Names : SeenModes(p) = {PLAYING}) =>
            ti'.status = PLAYING \/ EndsAtOdd(ti', asking)
       /\ ti'.text # Text(NoText) =>
            /\ \E s \in SeenSongs(asking) : ti'.text = Text(s)
            /\ \/ ti'.status = PLAYING /\ PLAYING \in SeenModes(asking)
               \/ EndsAtOdd(ti', asking)
       /\ ti'.status # CLOSED => \E p \in Names : ti'.status \in SeenModes(p)
    ]_polling

(* What a poll ought to report: a player that plays, and its song, if      *)
(* there is one; another one's state if there is one; and otherwise that   *)
(* none runs.  It falls short of that where it ends at a player whose      *)
(* status it does not know, and reports that none runs.                    *)
Mpris2Settled ==
  LET Plays == {p \in Names : mode[p] = PLAYING}
      Runs  == {p \in Names : mode[p] # CLOSED}
  IN \/ \E p \in Runs : EndsAtOdd(ti, p) /\ ti.text = Text(song[p])
     \/ /\ Plays # {}
        /\ ti.status = PLAYING /\ \E p \in Plays : ti.text = Text(song[p])
     \/ /\ Plays = {}
        /\ ti.text = Text(NoText)
        /\ ti.status \in IF Runs = {} THEN {CLOSED} ELSE {mode[p] : p \in Runs}

Mpris2Fairness == WF_polling(adapter = "MPRIS2" /\ Mprises2)
=============================================================================
