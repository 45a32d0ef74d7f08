---------------------------- MODULE QueryAdapters ----------------------------
(***************************************************************************)
(* The adapters that ask one player a few questions at every poll, in      *)
(* blocking calls, and keep nothing between polls (but for the state Quod  *)
(* Libet announces).  Each get_<player>_info is given as the script of     *)
(* its calls: what an answer does to ti, whether the function returns      *)
(* then, and what happens when the call fails.  Calls that only fetch a    *)
(* time, a name or a version change nothing modelled and are left out.     *)
(***************************************************************************)
EXTENDS Polling, Sequences

CONSTANT MaxPending  \* bound: signals on their way from Quod Libet

ASSUME QueryAssumption == MaxPending \in Nat \ {0}

VARIABLES
  at,         \* the call of the script that is made next
  handle,     \* the song a position, id, uri or file name stands for
  connected,  \* Quod Libet's signals are connected
  g_state,    \* what they last said
  pending,    \* signals sent and not yet dispatched
  told        \* it has sent one since it started and they were connected

quodlibet == << connected, g_state, pending, told >>
queries   == << at, handle, quodlibet >>
queryvars == << polling, queries >>

(***************************************************************************)
(* What becomes of the status at a call: a value of [Modes -> SUBSET       *)
(* Outcomes], from the status so far to what it may be next and whether    *)
(* the function returns.                                                   *)
(***************************************************************************)
Outcome(s, r) == [status |-> s, returns |-> r]
KeepsOn    == [s \in Modes |-> {Outcome(s, FALSE)}]
GivesUp    == [s \in Modes |-> {Outcome(s, TRUE)}]
Leaves(r)  == [s \in Modes |-> {Outcome(r, TRUE)}]
Takes(r)   == [s \in Modes |-> {Outcome(r, FALSE)}]
(* The name is asked for first, or the window looked for.                  *)
Running == [call |-> "running"]

(* The state is asked for; reads[m] is the status taken from the answer of *)
(* a player in mode m, and one in ends makes the function return.          *)
Status(reads, ends, failed) ==
  [call |-> "status", reads |-> reads, ends |-> ends, failed |-> failed]

(* Something that stands for the current song is asked for; a position in  *)
(* the playlist exists also while nothing is played.                       *)
Handle(position, nothing, failed) ==
  [call |-> "handle", position |-> position, nothing |-> nothing, failed |-> failed]

(* Fields are asked for: of the handle's song, or of whatever is played.   *)
Ask(fields, of, failed) == [call |-> "text", fields |-> fields, of |-> of, failed |-> failed]

(* State and fields come in one answer, which may be cut short.            *)
Snapshot(reads, ends, cut) ==
  [call |-> "snapshot", reads |-> reads, ends |-> ends, cut |-> cut, failed |-> Leaves(CLOSED)]

(* Not a call: ti->status is set from g_state.                             *)
Cached == [call |-> "cached"]

AsIs    == [m \in Modes |-> IF m = CLOSED THEN STOPPED ELSE m]
Playing == [m \in Modes |-> IF m = PLAYING THEN PLAYING ELSE PAUSED]
InTurn(failed) == << Ask({"artist"}, "now", failed), Ask({"album"}, "now", failed),
                     Ask({"track"}, "now", failed) >>
OfHandle(failed) == << Ask({"artist"}, "handle", failed), Ask({"album"}, "handle", failed),
                       Ask({"track"}, "handle", failed) >>

(* It asks through dcop, which starts no player.                           *)
get_amarok_info == << Status(AsIs, {STOPPED}, Leaves(CLOSED)) >> \o InTurn(KeepsOn)

(* Mutant of get_audacious_info: the song is not looked up by its position. *)
get_audacious_info_current ==
  << Running, Status(AsIs, {STOPPED}, Leaves(CLOSED)) >> \o InTurn(KeepsOn)

get_audacious_info ==
  << Running, Status(AsIs, {STOPPED}, Leaves(CLOSED)), Handle(TRUE, KeepsOn, KeepsOn) >>
    \o OfHandle(KeepsOn)

get_banshee_info_old ==
  << Running, Status(AsIs, {STOPPED}, GivesUp) >> \o InTurn(KeepsOn)

(* szStatus is not initialised when GetCurrentState fails.                 *)
get_banshee_info_new ==
  << Running,
     Status(AsIs, {STOPPED},
            [s \in Modes |-> {Outcome(STOPPED, TRUE), Outcome(PAUSED, FALSE),
                              Outcome(PLAYING, FALSE)}]),
     Ask(Fields, "now", GivesUp) >>

get_dbusbird_info ==
  << Running, Status(AsIs, {STOPPED}, GivesUp) >> \o InTurn(KeepsOn)

get_exaile_info ==
  << Running, Status(AsIs, {STOPPED}, GivesUp) >> \o InTurn(KeepsOn)

(* Listen says "" unless it plays.                                         *)
get_listen_info == << Running, Snapshot(Playing, {PAUSED}, {}) >>

(* mocp's answer is cut at 255 bytes, and then has no state.               *)
get_moc_info == << Snapshot(AsIs, {}, {STOPPED}) >>

get_quodlibet_info == << Running, Ask(Fields, "now", Leaves(STOPPED)), Cached >>

(* Mutant of get_rhythmbox_info: a failing getPlaying is passed over, and  *)
(* playing left as it was found.                                           *)
get_rhythmbox_info_unset ==
  << Running, Status(Playing, {}, Takes(PLAYING)), Handle(FALSE, KeepsOn, Leaves(CLOSED)),
     Ask(Fields, "handle", GivesUp) >>

(* "playing" is kept in ti until the end, where the code sets it.          *)
get_rhythmbox_info ==
  << Running, Status(Playing, {}, Leaves(STOPPED)), Handle(FALSE, KeepsOn, Leaves(CLOSED)),
     Ask(Fields, "handle",
         [s \in Modes |-> {Outcome(IF s = PLAYING THEN CLOSED ELSE STOPPED, TRUE)}]) >>

(* XMMS and Audacious before 1.4: is_playing, then is_paused, both FALSE   *)
(* when nothing answers.                                                   *)
get_xmmsctrl_info ==
  << Status([m \in Modes |-> IF m \in {PAUSED, PLAYING} THEN PLAYING ELSE STOPPED],
            {STOPPED}, Leaves(STOPPED)),
     Status([m \in Modes |-> IF m = PAUSED THEN PAUSED ELSE PLAYING], {}, Takes(PLAYING)),
     Handle(TRUE, KeepsOn, KeepsOn), Ask(Fields, "handle", KeepsOn) >>

get_xmms2_info ==
  << Running, Status(AsIs, {}, GivesUp), Handle(FALSE, GivesUp, GivesUp),
     Ask(Fields, "handle", GivesUp) >>

get_foobar2000_info ==
  << Running, Snapshot([m \in Modes |-> IF m = STOPPED THEN STOPPED ELSE PLAYING], {STOPPED}, {}) >>

(* iTunes calls paused "stopped"; without a current track it is stopped.   *)
get_itunes_info ==
  << Running,
     Status([m \in Modes |-> IF m = PLAYING THEN PLAYING ELSE PAUSED], {}, GivesUp),
     Handle(FALSE, Leaves(STOPPED), GivesUp) >> \o OfHandle(KeepsOn)

get_winamp_info ==
  << Running, Status(AsIs, {}, Takes(STOPPED)), Handle(TRUE, KeepsOn, KeepsOn) >>
    \o OfHandle(KeepsOn)

get_wmp_info == << Running, Status(AsIs, {}, KeepsOn) >> \o InTurn(KeepsOn)

Script ==
  [Amarok |-> get_amarok_info, Audacious |-> get_audacious_info,
   BansheeOld |-> get_banshee_info_old, BansheeNew |-> get_banshee_info_new,
   Songbird |-> get_dbusbird_info, Exaile |-> get_exaile_info,
   Listen |-> get_listen_info, MOC |-> get_moc_info,
   QuodLibet |-> get_quodlibet_info, Rhythmbox |-> get_rhythmbox_info,
   XMMS |-> get_xmmsctrl_info, XMMS2 |-> get_xmms2_info,
   Foobar2000 |-> get_foobar2000_info, iTunes |-> get_itunes_info,
   Winamp |-> get_winamp_info, WMP |-> get_wmp_info]

QueryPlayers == DOMAIN Script

-----------------------------------------------------------------------------
(***************************************************************************)
(* The poll.                                                               *)
(***************************************************************************)
QueryInit ==
  /\ at = 1
  /\ handle = NoText
  /\ connected = FALSE
  /\ g_state = STOPPED
  /\ pending = << >>
  /\ told = FALSE

get_player_info ==
  /\ BeginPoll
  /\ pc' = "asking"
  /\ at' = 1
  /\ handle' = NoText
  /\ UNCHANGED << search, quodlibet >>

Step == Script[adapter][at]
Last == at = Len(Script[adapter])

(* On to the next call, or back to the core.                               *)
Goes(returns) ==
  IF returns \/ Last
  THEN Return /\ at' = 1 /\ handle' = NoText
  ELSE at' = at + 1 /\ UNCHANGED << pc, window, handle >>

TakesHandle(s) ==
  IF Last THEN Return /\ at' = 1 /\ handle' = NoText
          ELSE at' = at + 1 /\ handle' = s /\ UNCHANGED << pc, window >>

WithStatus(s) == ti' = [ti EXCEPT !.status = s]
WithText(fields, s) == [ti.text EXCEPT !["artist"] = IF "artist" \in fields THEN s ELSE @,
                                       !["album"]  = IF "album"  \in fields THEN s ELSE @,
                                       !["track"]  = IF "track"  \in fields THEN s ELSE @]

Asking(call) == pc = "asking" /\ Step.call = call /\ UNCHANGED << adapter, players, search >>
Answers(call) == Asking(call) /\ mode[Target] # CLOSED /\ Answered

(* Mutant of dbus_g_running: a bus that does not answer counts as yes.     *)
dbus_g_running_trusting ==
  /\ Asking("running")
  /\ UNCHANGED << ti, quodlibet >>
  /\ \/ Answered /\ Goes(mode[Target] = CLOSED)
     \/ Unanswered /\ Goes(FALSE)

dbus_g_running ==
  /\ Asking("running")
  /\ UNCHANGED ti
  /\ \/ Answered /\ Goes(mode[Target] = CLOSED)
     \/ Unanswered /\ Goes(TRUE)
  /\ IF adapter = "QuodLibet" /\ mode[Target] # CLOSED /\ ~ Returns
     THEN connected' = TRUE /\ UNCHANGED << g_state, pending, told >>
     ELSE UNCHANGED quodlibet

StatusAnswered ==
  /\ Answers("status")
  /\ LET s == Step.reads[mode[Target]]
     IN WithStatus(s) /\ Goes(s \in Step.ends)
  /\ UNCHANGED quodlibet

(* A player that has stopped keeps its position.                           *)
AtPosition ==
  IF song[Target] # NoText THEN {song[Target]}
  ELSE IF SeenSongs(Target) # {} THEN SeenSongs(Target) ELSE Library[Target]

HandleAnswered ==
  /\ Answers("handle")
  /\ IF Step.position \/ song[Target] # NoText
     THEN (\E s \in AtPosition : TakesHandle(s)) /\ UNCHANGED ti
     ELSE \E o \in Step.nothing[ti.status] : WithStatus(o.status) /\ Goes(o.returns)
  /\ UNCHANGED quodlibet

TextAnswered ==
  /\ Answers("text")
  /\ ti' = [ti EXCEPT !.text = WithText(Step.fields,
                               IF Step.of = "handle" THEN handle ELSE song[Target])]
  /\ Goes(FALSE)
  /\ UNCHANGED quodlibet

SnapshotAnswered ==
  /\ Answers("snapshot")
  /\ LET s == Step.reads[mode[Target]]
     IN ti' = [ti EXCEPT !.status = s,
                         !.text = IF s \in Step.ends THEN @ ELSE Text(song[Target])]
  /\ Goes(TRUE)
  /\ UNCHANGED quodlibet

SnapshotCut ==
  /\ Asking("snapshot")
  /\ mode[Target] # CLOSED
  /\ Unanswered
  /\ \E s \in Step.cut : ti' = [ti EXCEPT !.status = s, !.text = Text(song[Target])]
  /\ Goes(TRUE)
  /\ UNCHANGED quodlibet

(* A call fails.  It is no loss when there has been nobody to answer it.   *)
(* A position is then 0, the first song of the playlist.                   *)
CallFails ==
  /\ \E call \in {"status", "handle", "text", "snapshot"} : Asking(call)
  /\ IF SeenModes(Target) = {CLOSED} THEN Answered ELSE Unanswered
  /\ \E o \in Step.failed[ti.status] :
       /\ WithStatus(o.status)
       /\ \/ Step.call # "handle" /\ Goes(o.returns)
          \/ Step.call = "handle" /\ o.returns /\ Goes(TRUE)
          \/ Step.call = "handle" /\ ~ o.returns /\ \E s \in Library[Target] : TakesHandle(s)
  /\ UNCHANGED quodlibet

ReadsState ==
  /\ Asking("cached")
  /\ WithStatus(g_state)
  /\ Answered
  /\ Goes(TRUE)
  /\ UNCHANGED quodlibet

(***************************************************************************)
(* Quod Libet's signals, dispatched by the main loop between polls.        *)
(***************************************************************************)

(* Mutant of cb_quodlibet_paused: the states are given to the two signals  *)
(* the wrong way round.                                                    *)
cb_quodlibet_swapped ==
  /\ pc = "idle"
  /\ pending # << >>
  /\ g_state' = IF Head(pending) = PAUSED THEN PLAYING ELSE PAUSED
  /\ pending' = Tail(pending)
  /\ UNCHANGED << polling, at, handle, connected, told >>

cb_quodlibet_paused ==
  /\ pc = "idle"
  /\ pending # << >>
  /\ g_state' = Head(pending)
  /\ pending' = Tail(pending)
  /\ UNCHANGED << polling, at, handle, connected, told >>

(* It says when it starts or ceases to play; a restart says nothing.       *)
Says == Playing[mode[Target]]

QueriedMoves ==
  /\ adapter \in QueryPlayers
  /\ Moves(Target)
  /\ UNCHANGED << at, handle, connected, g_state >>
  /\ IF connected /\ mode[Target] # CLOSED /\ mode'[Target] # CLOSED /\ Says' # Says
     THEN Len(pending) < MaxPending /\ pending' = Append(pending, Says') /\ told' = TRUE
     ELSE pending' = pending /\ told' = (told /\ mode'[Target] # CLOSED)

Queries ==
  \/ get_player_info
  \/ dbus_g_running
  \/ StatusAnswered
  \/ HandleAnswered
  \/ TextAnswered
  \/ SnapshotAnswered
  \/ SnapshotCut
  \/ CallFails
  \/ ReadsState
  \/ cb_quodlibet_paused

QueryNext == adapter \in QueryPlayers /\ (Queries \/ QueriedMoves)

QueryTypeOK ==
  /\ adapter \in QueryPlayers => at \in 1 .. Len(Script[adapter])
  /\ handle \in Texts
  /\ connected \in BOOLEAN
  /\ g_state \in {STOPPED, PAUSED, PLAYING}
  /\ pending \in Seq({PAUSED, PLAYING}) /\ Len(pending) <= MaxPending
  /\ told \in BOOLEAN

(***************************************************************************)
(* Properties.                                                             *)
(***************************************************************************)

(* The adapters that look the song up by a handle, or take its fields from *)
(* one answer.                                                             *)
Whole == {"Audacious", "BansheeNew", "Listen", "MOC", "QuodLibet", "Rhythmbox", "XMMS",
          "XMMS2", "Foobar2000", "iTunes", "Winamp"}

(* However a player changes its song between two calls, these adapters     *)
(* never report the artist of one song with the title of another.          *)
OneSong ==
  adapter \in Whole =>
    \A f, g \in Fields : ti.text[f] = ti.text[g] \/ NoText \in {ti.text[f], ti.text[g]}

(* dbus_g_running is there "to avoid starting a program (a media player)   *)
(* that isn't running": a player is only asked in a poll in which it has   *)
(* been seen running, by every adapter that looks for it first.            *)
NeverStartsPlayer ==
  (adapter \in QueryPlayers \ {"Amarok", "MOC", "XMMS"} /\ pc = "asking"
     /\ Step.call # "running") => SeenModes(Target) # {CLOSED}

(* A poll reports as playing only a player that did play during that poll, *)
(* whatever fails; and while no call fails, only songs it had then.        *)
(* Not the four adapters that guess: a failed call of Banshee leaves its   *)
(* status unset, the title of a paused foobar2000 names its song, Quod     *)
(* Libet's state is the last it announced, and XMMS may stop between       *)
(* is_playing and is_paused.                                               *)
Guessing == {"BansheeNew", "Foobar2000", "QuodLibet", "XMMS"}

ReportsWhatWas ==
  [][Returns /\ adapter \in QueryPlayers =>
       /\ adapter \notin Guessing /\ ti'.status = PLAYING => PLAYING \in SeenModes(Target)
       /\ ~ lost' /\ ti'.status \in {PAUSED, PLAYING} =>
            \A f \in Fields : ti'.text[f] \in SeenSongs(Target) \cup {NoText}]_queryvars

(* What a poll ought to report: the player's song in every field, nothing  *)
(* of a player that is gone.  Quod Libet has to have announced itself      *)
(* once: what it did before is not known.                                  *)
RightReport ==
  CASE mode[Target] = CLOSED  -> ti.status <= STOPPED /\ ti.text = Text(NoText)
    [] mode[Target] = PLAYING -> /\ ti.text = Text(song[Target])
                                 /\ ti.status = PLAYING \/ (adapter = "QuodLibet" /\ ~ told)
    [] OTHER -> ti.status # CLOSED

(* The timer polls, blocking calls end, and the main loop, which takes     *)
(* sources of one priority in turn, dispatches signals between two polls.  *)
QueryFairness == /\ WF_queryvars(adapter \in QueryPlayers /\ get_player_info)
                 /\ WF_queryvars(adapter \in QueryPlayers /\ pc # "idle" /\ Queries)
                 /\ SF_queryvars(adapter = "QuodLibet" /\ cb_quodlibet_paused)
=============================================================================
