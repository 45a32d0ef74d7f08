----------------------------- MODULE TrackInfo -----------------------------
(***************************************************************************)
(* The values the plugin passes around: struct TrackInfo of musictracker.h *)
(* and the pure functions over it that musictracker.c and utils.c define.  *)
(*                                                                         *)
(* A text (a track name, a status message, a saved message) is a sequence  *)
(* of words; the empty text is <<>>.  The fields track, artist and album   *)
(* are compared and shown together, so one text stands for the three; the  *)
(* fields totalSecs and currentSecs are never compared, and one word       *)
(* stands for both.                                                        *)
(***************************************************************************)
EXTENDS PlayerStatus, Sequences

CONSTANTS
  Words,      \* what texts are made of
  Tracks,     \* the track texts, before and after clean-up
  Reported,   \* those of them that players report
  Times,      \* the words a time can print as
  Null        \* the NULL pointer, for TrackInfo* and for char*

NoTrack  == <<>>
ZeroTime == "0:00"
PausedWord == "Paused"
Text     == Seq(Words)

ASSUME TextAssumption ==
  /\ Tracks \subseteq Text
  /\ Reported \subseteq Tracks
  /\ NoTrack \in Tracks
  /\ Times \subseteq Words
  /\ ZeroTime \in Times
  /\ PausedWord \in Words
  /\ Null \notin Text

TrackInfos == [status : INVALID .. PLAYING, track : Tracks, time : Times]

ClosedInfo == [status |-> CLOSED, track |-> NoTrack, time |-> ZeroTime]

(* What a player's track_func can leave in ti. *)
Reports == {ClosedInfo} \cup [status : STOPPED .. PLAYING, track : Reported, time : Times]

ASSUME NullAssumption == Null \notin TrackInfos

(* Mutant of trackinfo_changed: the track is not compared.                 *)
trackinfo_changed_status_only(one, two) ==
  IF one = Null THEN two.status > CLOSED ELSE one.status # two.status

(* Is there anything new in "one", a TrackInfo or NULL, beside "two"?      *)
trackinfo_changed(one, two) ==
  IF one = Null THEN two.status > CLOSED
                ELSE one.status # two.status \/ one.track # two.track

(* Mutant of message_changed: every text counts as new.                    *)
message_changed_always(one, two) == TRUE

message_changed(one, two) == one # two

(***************************************************************************)
(* The status formats of an instance, by name: the empty format, "%t",     *)
(* "%t %c", "%s" and a literal.  put_field replaces a NULL field by "".    *)
(***************************************************************************)
Formats == {"blank", "title", "timed", "saved", "literal"}

generate_status(src, ti, savedstatus) ==
  CASE src = "blank"   -> <<>>
    [] src = "title"   -> ti.track
    [] src = "timed"   -> Append(ti.track, ti.time)
    [] src = "saved"   -> IF savedstatus = Null THEN <<>> ELSE savedstatus
    [] src = "literal" -> Append(NoTrack, PausedWord)

(* What the "now listening" status of libpurple holds: the track while     *)
(* active, Null while inactive.                                            *)
TuneOf(ti) == IF ti # Null /\ ti.status = PLAYING THEN ti.track ELSE Null
=============================================================================
