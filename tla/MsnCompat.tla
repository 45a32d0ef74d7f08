------------------------------ MODULE MsnCompat ------------------------------
(***************************************************************************)
(* The player interface of MSN Messenger: players send messages to a       *)
(* hidden window, the main loop dispatches them between polls, and a poll  *)
(* reports what they left behind.                                          *)
(***************************************************************************)
EXTENDS PlayerStatus

CONSTANTS
  MsnSongs,   \* songs the messages tell of
  MsnPlayers, \* names they give their senders
  Zune,       \* "ZUNE"
  Empty       \* the empty string

ASSUME MsnAssumption == Empty \notin MsnSongs

VARIABLES
  MSNWindow,  \* it has been created
  msnti,      \* the TrackInfo messages are parsed into
  sender,     \* player, which outlives the messages
  swap_pref,  \* the preference to swap artist and title
  message,    \* the last message
  inverted,   \* its artist and title were swapped
  reported    \* the TrackInfo of the last poll

msnvars == << MSNWindow, msnti, sender, swap_pref, message, inverted, reported >>

(* The regular expressions, by what they capture beside artist and title:  *)
(* the first two an album, the third nothing, the fourth one string with   *)
(* both, "artist - title".                                                 *)
Formats == {"album", "short", "line", "none"}

Part(part, s) == IF s = Empty THEN Empty ELSE << part, s >>

Messages ==
  [sender : MsnPlayers, format : Formats, enabled : BOOLEAN, song : MsnSongs \cup {Empty}]

Silence == [status |-> CLOSED, artist |-> Empty, album |-> Empty, track |-> Empty]
Zeroed  == [Silence EXCEPT !.status = STOPPED]
Unsaid  == [sender |-> Empty, format |-> "none", enabled |-> FALSE, song |-> Empty]

MsnInit ==
  /\ MSNWindow = FALSE
  /\ msnti = Zeroed
  /\ sender = Empty
  /\ swap_pref = FALSE
  /\ message = Unsaid
  /\ inverted = FALSE
  /\ reported = Silence

(* What a message says of each field; the album of a short one is not      *)
(* touched, nor is anything by a message of no known format.               *)
Captured(m) ==
  [msnti EXCEPT
     !.artist = IF m.format = "none" THEN @ ELSE Part("artist", m.song),
     !.track  = IF m.format = "none" THEN @ ELSE Part("title", m.song),
     !.album  = CASE m.format = "album" -> Part("album", m.song)
                  [] m.format = "line"  -> Empty
                  [] OTHER              -> @]

Exchanged(t) == [t EXCEPT !.artist = t.track, !.track = t.artist]

(* Mutant of Enabled: the flag of the message before is kept.              *)
Enabled_kept(m) == IF m.format = "none" THEN msnti.status = PLAYING ELSE m.enabled

(* enabled begins as "0", and only a message of a known format sets it.    *)
Enabled(m) == m.format # "none" /\ m.enabled

process_message(m) ==
  LET from  == IF m.format = "none" THEN sender ELSE m.sender
      t     == Captured(m)
      swap  == IF from = Zune THEN ~ swap_pref ELSE swap_pref
      plays == Enabled(m) /\ (t.artist # Empty \/ t.track # Empty \/ t.album # Empty)
      u     == [t EXCEPT !.status = IF plays THEN PLAYING ELSE STOPPED]
  IN /\ MSNWindow
     /\ sender' = from
     /\ msnti' = IF swap THEN Exchanged(u) ELSE u
     /\ message' = m
     /\ inverted' = swap
     /\ UNCHANGED << MSNWindow, swap_pref, reported >>

get_msn_compat_info ==
  LET now == IF MSNWindow THEN msnti ELSE Zeroed
  IN /\ MSNWindow' = TRUE
     /\ msnti' = now
     /\ reported' = IF now.status = PLAYING THEN now ELSE Silence
     /\ UNCHANGED << sender, swap_pref, message, inverted >>

cb_toggled ==
  /\ swap_pref' = ~ swap_pref
  /\ UNCHANGED << MSNWindow, msnti, sender, message, inverted, reported >>

MsnNext ==
  \/ \E m \in Messages : process_message(m)
  \/ get_msn_compat_info
  \/ cb_toggled

TextOf(part) == {Empty} \cup ({part} \X MsnSongs)
MsnStates == [status : CLOSED .. PLAYING, artist : TextOf("artist") \cup TextOf("title"),
              album : TextOf("album"), track : TextOf("artist") \cup TextOf("title")]

MsnTypeOK ==
  /\ MSNWindow \in BOOLEAN
  /\ msnti \in MsnStates /\ msnti.status \in {STOPPED, PLAYING}
  /\ sender \in MsnPlayers \cup {Empty}
  /\ swap_pref \in BOOLEAN
  /\ message \in Messages \cup {Unsaid}
  /\ inverted \in BOOLEAN
  /\ reported \in MsnStates /\ reported.status \in {CLOSED, PLAYING}

(* Whatever came before, other formats and unknown ones, swapped or not,   *)
(* what a poll finds playing is what the last message says: it was         *)
(* switched on, artist and title are both its own and in its order or the  *)
(* swapped one, and only a message without an album may have inherited     *)
(* one, which then also stands in for artist and title that are empty.     *)
TellsLastMessage ==
  msnti.status = PLAYING =>
    /\ message.enabled /\ message.format # "none"
    /\ msnti.artist = Part(IF inverted THEN "title" ELSE "artist", message.song)
    /\ msnti.track = Part(IF inverted THEN "artist" ELSE "title", message.song)
    /\ \/ message.song # Empty /\ msnti.album = Part("album", message.song)
       \/ message.song # Empty /\ message.format = "line" /\ msnti.album = Empty
       \/ message.format = "short"
=============================================================================
