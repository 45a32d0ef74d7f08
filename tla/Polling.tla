------------------------------- MODULE Polling -------------------------------
(***************************************************************************)
(* What the adapters that ask a player at every poll have in common: the   *)
(* players, which change while they are being asked, and the TrackInfo one *)
(* poll of the core lets an adapter fill in.                               *)
(*                                                                         *)
(* An adapter asks in blocking calls.  Between two of them a player may    *)
(* change its track, stop or quit, and any call may fail or run into its   *)
(* timeout.  A text is identified by the song it belongs to.               *)
(***************************************************************************)
EXTENDS PlayerStatus, FiniteSets

CONSTANTS
  Names,     \* the players that can run
  Target,    \* the one an adapter for a single player asks
  Library,   \* the songs of each
  NoText,    \* the empty text
  NoName,    \* ti.player as cb_timeout prepares it
  MaxMoves   \* bound: changes of the players during one poll

ASSUME PollingAssumption ==
  /\ Target \in Names
  /\ DOMAIN Library = Names
  /\ \A p \in Names : Library[p] # {} /\ NoText \notin Library[p]
  /\ NoName \notin Names
  /\ MaxMoves \in Nat

VARIABLES
  adapter,   \* the player configured in the preferences
  mode,      \* what each player does, CLOSED when it does not run
  song,      \* the song it plays or has paused
  pc,        \* "idle", or where the poll is
  ti,        \* the TrackInfo of the poll
  lost,      \* a call of this poll failed
  seen,      \* during a poll: what each player has been since it began
  moves,     \* during a poll: how often a player has changed
  left,      \* MPRIS: the players this poll has still to ask
  asking     \* MPRIS: the one it is asking

players == << mode, song >>
window  == << seen, moves >>
search  == << left, asking >>
poll    == << pc, ti, lost, search >>
polling == << adapter, players, poll, window >>

Modes  == CLOSED .. PLAYING
Fields == {"artist", "album", "track"}
Songs  == UNION {Library[p] : p \in Names}
Texts  == Songs \cup {NoText}

Text(s)  == [f \in Fields |-> s]
Prepared == [status |-> CLOSED, player |-> NoName, text |-> Text(NoText)]

Is(p) == [mode |-> mode[p], song |-> song[p]]

SeenModes(p) == {s.mode : s \in seen[p]}
SeenSongs(p) == {s.song : s \in seen[p]} \ {NoText}

PollInit ==
  /\ mode = [p \in Names |-> CLOSED]
  /\ song = [p \in Names |-> NoText]
  /\ pc = "idle"
  /\ ti = Prepared
  /\ lost = FALSE
  /\ seen = [p \in Names |-> {}]
  /\ moves = 0
  /\ left = {}
  /\ asking = NoName

(* cb_timeout clears ti and calls the adapter.                             *)
BeginPoll ==
  /\ pc = "idle"
  /\ ti' = Prepared
  /\ lost' = FALSE
  /\ UNCHANGED << adapter, players >>
  /\ seen' = [p \in Names |-> {Is(p)}]
  /\ UNCHANGED moves

(* The adapter returns.                                                    *)
Return ==
  /\ pc' = "idle"
  /\ seen' = [p \in Names |-> {}]
  /\ moves' = 0

(* In the middle of the poll.                                              *)
GoesTo(place) == pc' = place /\ UNCHANGED window

(* A call is answered, a call is not.                                      *)
Answered == UNCHANGED lost
Unanswered == lost' = TRUE

(* Only the players the adapter asks matter to it.  Bound: one that is     *)
(* asked alone changes MaxMoves times during a poll, one of several once.  *)
Asked == IF adapter \in {"MPRIS", "MPRIS2"} THEN Names ELSE {Target}

Moves(p) ==
  /\ p \in Asked
  /\ pc # "idle" => moves < MaxMoves /\ (Asked = Names => seen[p] = {Is(p)})
  /\ \E m \in Modes : \E s \in IF m \in {PAUSED, PLAYING} THEN Library[p] ELSE {NoText} :
       /\ [mode |-> m, song |-> s] # Is(p)
       /\ mode' = [mode EXCEPT ![p] = m]
       /\ song' = [song EXCEPT ![p] = s]
  /\ IF pc = "idle"
     THEN UNCHANGED window
     ELSE /\ moves' = moves + 1
          /\ seen' = [seen EXCEPT ![p] = @ \cup {Is(p)'}]
  /\ UNCHANGED << adapter, poll >>

(* A poll has just returned, in a step.                                    *)
Returns == pc # "idle" /\ pc' = "idle"

(* From some point on the players rest and every call is answered.         *)
Calm == <>[][UNCHANGED players]_players /\ <>[](~ lost)

PollTypeOK ==
  /\ mode \in [Names -> Modes]
  /\ song \in [Names -> Texts]
  /\ ti \in [status : Modes, player : Names \cup {NoName}, text : [Fields -> Texts]]
  /\ lost \in BOOLEAN
  /\ seen \in [Names -> SUBSET [mode : Modes, song : Texts]]
  /\ moves \in 0 .. MaxMoves
  /\ left \subseteq Names
  /\ asking \in Names \cup {NoName}
=============================================================================
