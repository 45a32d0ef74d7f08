------------------------------ MODULE Vagalume ------------------------------
(***************************************************************************)
(* The adapter for Vagalume, vagalume.c.  It caches what Vagalume last     *)
(* said: Vagalume's notifications reach dbus_handler through the main      *)
(* loop, and a timer asks for the status once a minute, dispatching or     *)
(* popping one message itself.  A poll of the core only reads the cache.   *)
(***************************************************************************)
EXTENDS Naturals, SequencesExt

CONSTANTS
  Songs,      \* what Vagalume can play
  MaxInbox    \* bound: messages on their way to the plugin at once

ASSUME VagalumeAssumption == MaxInbox \in Nat \ {0}

VARIABLES
  initialized, running, cached_track,  \* the static variables
  pc,         \* "idle", or where the poll or the timer is
  watching,   \* the match, the filter and the timer are installed
  inbox,      \* messages for the plugin on the bus connection
  read,       \* while a check runs: how many of them have been read
  requested,  \* Vagalume has yet to answer a request
  alive,      \* Vagalume owns its name on the bus
  playing,    \* the song it plays, as a set of at most one
  ti          \* what the last poll reported

plugin   == << initialized, running, cached_track, pc, watching, ti >>
vagalume == << requested, alive, playing >>
vars     == << plugin, inbox, read, vagalume >>

Closed == [status |-> "closed", track |-> {}]
Track(song) == [status |-> IF song = {} THEN "stopped" ELSE "playing", track |-> song]
Clean == Track({})

(***************************************************************************)
(* Messages.  Anything but the four words dbus_handler knows, or a         *)
(* "playing" without its three strings, is "other".                        *)
(***************************************************************************)
Message(word, song) == [word |-> word, song |-> song]
Notification == Message(IF playing = {} THEN "stopped" ELSE "playing", playing)

(* Mutants of dbus_handler: "stopped" clears the strings and leaves the    *)
(* status; "stopped" is ignored; the track survives a restart of Vagalume. *)
dbus_handler_clears_strings(m) ==
  /\ cached_track' = CASE m.word = "playing" -> Track(m.song)
                       [] m.word = "stopped" -> [cached_track EXCEPT !.track = {}]
                       [] m.word \in {"closing", "starting"} -> Clean
                       [] OTHER -> cached_track
  /\ running' = CASE m.word = "starting" -> TRUE
                  [] m.word = "closing"  -> FALSE
                  [] OTHER -> running
dbus_handler_ignores_stopped(m) ==
  /\ cached_track' = CASE m.word = "playing" -> Track(m.song)
                       [] m.word \in {"closing", "starting"} -> Clean
                       [] OTHER -> cached_track
  /\ running' = CASE m.word = "starting" -> TRUE
                  [] m.word = "closing"  -> FALSE
                  [] OTHER -> running
dbus_handler_starts_dirty(m) ==
  /\ cached_track' = CASE m.word = "playing" -> Track(m.song)
                       [] m.word \in {"stopped", "closing"} -> Clean
                       [] OTHER -> cached_track
  /\ running' = CASE m.word = "starting" -> TRUE
                  [] m.word = "closing"  -> FALSE
                  [] OTHER -> running

dbus_handler(m) ==
  /\ cached_track' = CASE m.word = "playing" -> Track(m.song)
                       [] m.word \in {"stopped", "closing", "starting"} -> Clean
                       [] OTHER -> cached_track
  /\ running' = CASE m.word = "starting" -> TRUE
                  [] m.word = "closing"  -> FALSE
                  [] OTHER -> running

(* The main loop takes a message that has come, through the filter.        *)
Dispatch ==
  /\ pc = "idle" /\ watching /\ inbox # << >>
  /\ dbus_handler(Head(inbox))
  /\ inbox' = Tail(inbox)
  /\ UNCHANGED << initialized, pc, watching, ti, read, vagalume >>

(***************************************************************************)
(* check_and_fill_cache, by initialize_plugin or by the timer              *)
(***************************************************************************)
(* The check of initialize_plugin ends in a poll, that of the timer not.   *)
Checked ==
  /\ pc' = IF initialized THEN "idle" ELSE "report"
  /\ initialized' = TRUE
  /\ read' = 0

(* Mutant of NotRunning: only the track is cleared.                        *)
NotRunning_keeps_running == UNCHANGED running /\ cached_track' = Clean

NotRunning == running' = FALSE /\ cached_track' = Clean

(* Waiting for the bus to say who owns the name, and sending the request,  *)
(* may read messages that came before.                                     *)
check_and_fill_cache ==
  \/ /\ ~ alive
     /\ NotRunning
     /\ Checked
     /\ UNCHANGED requested
  \/ /\ alive
     /\ running' = TRUE
     /\ requested' = TRUE
     /\ read' \in 0 .. Len(inbox)
     /\ pc' = "asked"
     /\ UNCHANGED << initialized, cached_track >>

(* dbus_connection_read_write_dispatch dispatches a message that has been  *)
(* read, or else waits up to DBUS_TIMEOUT and reads, but dispatches none.  *)
read_write_dispatch ==
  /\ pc = "asked"
  /\ \/ /\ read > 0
        /\ dbus_handler(Head(inbox)) /\ inbox' = Tail(inbox) /\ read' = read - 1
     \/ /\ read = 0
        /\ read' \in IF inbox = << >> THEN {0} ELSE 1 .. Len(inbox)
        /\ UNCHANGED << running, cached_track, inbox >>
  /\ pc' = "pop"
  /\ UNCHANGED << initialized, watching, ti, vagalume >>

(* dbus_connection_pop_message: whatever message is first, or none.        *)
NoReply ==
  /\ pc = "pop" /\ read = 0
  /\ NotRunning
  /\ Checked
  /\ UNCHANGED << watching, ti, inbox, vagalume >>

pop_message ==
  /\ pc = "pop" /\ read > 0
  /\ dbus_handler(Head(inbox))
  /\ inbox' = Tail(inbox)
  /\ Checked
  /\ UNCHANGED << watching, ti, vagalume >>

CheckTimer ==
  /\ pc = "idle" /\ watching /\ initialized
  /\ check_and_fill_cache
  /\ UNCHANGED << watching, ti, inbox, alive, playing >>

(***************************************************************************)
(* get_vagalume_info                                                       *)
(***************************************************************************)
initialize_plugin ==
  /\ pc = "idle" /\ ~ initialized
  /\ \/ watching' = TRUE /\ check_and_fill_cache
     \/ /\ initialized' = TRUE /\ pc' = "report"     \* no session bus
        /\ UNCHANGED << running, cached_track, watching, requested, read >>
  /\ UNCHANGED << ti, inbox, alive, playing >>

get_vagalume_info ==
  /\ pc = "report" \/ (pc = "idle" /\ initialized)
  /\ ti' = IF running THEN cached_track ELSE Closed
  /\ pc' = "idle"
  /\ UNCHANGED << initialized, running, cached_track, watching, inbox, read, vagalume >>

(***************************************************************************)
(* Vagalume and the bus, which keeps the order of one sender's messages    *)
(* and sends the plugin none before it watches.  Between reading and       *)
(* popping the plugin does not look at it.                                 *)
(***************************************************************************)
Outside == pc # "pop" /\ UNCHANGED << plugin, read >>

Send(m) ==
  /\ Len(inbox) < MaxInbox
  /\ inbox' = IF watching THEN Append(inbox, m) ELSE inbox

Starts ==
  /\ ~ alive /\ alive' = TRUE /\ playing' = {}
  /\ Send(Message("starting", {}))
  /\ Outside /\ UNCHANGED requested

Closes ==
  /\ alive /\ alive' = FALSE /\ playing' = {} /\ requested' = FALSE
  /\ Send(Message("closing", {}))
  /\ Outside

Killed ==
  /\ alive /\ alive' = FALSE /\ playing' = {} /\ requested' = FALSE
  /\ Outside /\ UNCHANGED inbox

ChangesTrack ==
  /\ alive
  /\ playing' \in ({{}} \cup {{s} : s \in Songs}) \ {playing}
  /\ Send(Notification')
  /\ Outside /\ UNCHANGED << requested, alive >>

Answers ==
  /\ alive /\ requested /\ requested' = FALSE
  /\ Send(Notification)
  /\ Outside /\ UNCHANGED << alive, playing >>

OtherTraffic ==
  /\ watching
  /\ Send(Message("other", {}))
  /\ Outside /\ UNCHANGED vagalume

Init ==
  /\ initialized = FALSE /\ running = FALSE /\ cached_track = Clean
  /\ pc = "idle" /\ watching = FALSE
  /\ inbox = << >> /\ read = 0 /\ requested = FALSE
  /\ alive \in BOOLEAN
  /\ playing \in IF alive THEN {{}} \cup {{s} : s \in Songs} ELSE {{}}
  /\ ti = Closed

Changes == Starts \/ Closes \/ Killed \/ ChangesTrack \/ OtherTraffic

Next ==
  \/ Dispatch \/ CheckTimer \/ read_write_dispatch \/ pop_message \/ NoReply
  \/ initialize_plugin \/ get_vagalume_info
  \/ Answers
  \/ Changes

Spec == Init /\ [][Next]_vars

(* The main loop serves messages, the minute's timer and the poll in turn, *)
(* and none of them keeps it; Vagalume answers.                            *)
FairSpec ==
  /\ Spec
  /\ SF_vars(Dispatch) /\ SF_vars(CheckTimer) /\ SF_vars(get_vagalume_info)
  /\ WF_vars(initialize_plugin) /\ WF_vars(read_write_dispatch)
  /\ WF_vars(pop_message \/ NoReply) /\ WF_vars(Answers)

(***************************************************************************)
(* Properties                                                              *)
(***************************************************************************)
Playings == {{}} \cup {{s} : s \in Songs}
Words == {"playing", "stopped", "closing", "starting", "other"}

(* Every variable holds what its C type admits, an empty track is never    *)
(* one that plays, and the inbox keeps to its bound.                       *)
TypeOK ==
  /\ {initialized, running, watching, requested, alive} \subseteq BOOLEAN
  /\ cached_track \in {Track(song) : song \in Playings}
  /\ pc \in {"idle", "asked", "pop", "report"}
  /\ inbox \in Seq([word : Words, song : Playings]) /\ Len(inbox) <= MaxInbox
  /\ read \in 0 .. Len(inbox)
  /\ playing \in Playings
  /\ ti \in {Closed} \cup {Track(song) : song \in Playings}

(* Whenever the plugin takes Vagalume to be running and all that it said   *)
(* has been handled, the cache holds what it plays: across kills without a *)
(* word, restarts, checks that time out and answers that come late, no     *)
(* earlier track is left behind.                                           *)
CacheTellsTrack ==
  alive /\ running /\ pc = "idle" /\ inbox = << >> /\ ~ requested =>
    cached_track = Track(playing)

(* check_and_fill_cache: "Thus, if Vagalume is killed we can update the    *)
(* cache."  A Vagalume that is gone for good is reported as closed from    *)
(* some time on, whatever of its messages were still to be handled.        *)
GoneIsClosed == <>[](~ alive) => <>[](ti = Closed)

Quiet == <>[][~ Changes]_vars

(* Once Vagalume comes to rest and its answers come within DBUS_TIMEOUT,   *)
(* the polls report what it plays.                                         *)
TellsTrack ==
  Quiet /\ <>[][NoReply => ~ requested]_vars /\ <>[](alive /\ watching) =>
    <>[](ti = Track(playing))

(***************************************************************************)
(* What a comment says, taken at its word; TLC refutes it.                 *)
(***************************************************************************)
(* initialize_plugin: "Check every once in a while if Vagalume is running, *)
(* and update the cache approppriately."  A check finds a Vagalume that is *)
(* there not running only when Vagalume has not answered it.               *)
CheckFindsRunning == [][NoReply /\ alive => requested]_vars
=============================================================================
