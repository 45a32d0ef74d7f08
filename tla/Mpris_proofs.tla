---------------------------- MODULE Mpris_proofs ----------------------------
(***************************************************************************)
(* What the proofs about the polling adapters share, how the players       *)
(* change and what a poll has seen of them; and the invariants of the      *)
(* MPRIS and MPRIS2 adapters, which share no state but that of the poll.   *)
(***************************************************************************)
EXTENDS Mpris, Mpris2, TLAPS

Infos == [status : Modes, player : Names \cup {NoName}, text : [Fields -> Texts]]

(* A player has a song exactly while it plays or has paused it.            *)
SongsMatch == \A p \in Names : song[p] = NoText <=> mode[p] \in {CLOSED, STOPPED}

(* What a player is has been seen.                                         *)
SeenNow == pc # "idle" => \A p \in Names : Is(p) \in seen[p]

PlayersTyped ==
  /\ mode \in [Names -> Modes]
  /\ song \in [Names -> Texts]
  /\ seen \in [Names -> SUBSET [mode : Modes, song : Texts]]

PlayersInv == PlayersTyped /\ SongsMatch /\ SeenNow

(* Between two steps of a poll nothing that was seen is forgotten.         *)
Remembers == \A p \in Names : seen[p] \subseteq seen'[p]

(* A player that has been seen in a mode and with a song.                  *)
LEMMA SeesMode ==
  ASSUME PlayersInv, pc # "idle", NEW p \in Names
  PROVE  /\ mode[p] \in SeenModes(p)
         /\ song[p] # NoText => song[p] \in SeenSongs(p)
  <1>1. Is(p) \in seen[p]
    BY DEF PlayersInv, SeenNow
  <1>2. Is(p).mode = mode[p] /\ Is(p).song = song[p]
    BY DEF Is
  <1> QED
    BY <1>1, <1>2 DEF SeenModes, SeenSongs

(* Modes and songs once seen stay seen.                                    *)
LEMMA Remembered ==
  ASSUME Remembers, NEW p \in Names
  PROVE  SeenModes(p) \subseteq SeenModes(p)' /\ SeenSongs(p) \subseteq SeenSongs(p)'
  BY DEF Remembers, SeenModes, SeenSongs

(* A player that has rested so far has been seen as it is and not otherwise. *)
LEMMA RestingSeen ==
  ASSUME NEW p \in Names, seen[p] = {Is(p)}
  PROVE  /\ SeenModes(p) = {mode[p]}
         /\ SeenSongs(p) = {song[p]} \ {NoText}
  BY DEF SeenModes, SeenSongs, Is

(* In the beginning no player runs.                                        *)
LEMMA PlayersBegin ==
  ASSUME PollInit
  PROVE  PlayersInv
  BY DEF PollInit, PlayersInv, PlayersTyped, SongsMatch, SeenNow, Modes, CLOSED, PLAYING, Texts

(* The core begins a poll.                                                 *)
LEMMA PollBegins ==
  ASSUME PlayersInv, BeginPoll
  PROVE  PlayersInv'
  <1>1. PlayersTyped'
    BY DEF BeginPoll, PlayersInv, PlayersTyped, players, Is
  <1>2. SongsMatch'
    BY DEF BeginPoll, PlayersInv, SongsMatch, players
  <1>3. SeenNow'
    BY DEF BeginPoll, SeenNow, players, Is
  <1> QED
    BY <1>1, <1>2, <1>3 DEF PlayersInv

(* The adapter returns.                                                    *)
LEMMA PollReturns ==
  ASSUME PlayersInv, Return, UNCHANGED players
  PROVE  PlayersInv'
  <1>1. PlayersTyped'
    BY DEF Return, PlayersInv, PlayersTyped, players
  <1>2. SongsMatch'
    BY DEF PlayersInv, SongsMatch, players
  <1>3. SeenNow'
    BY DEF Return, SeenNow
  <1> QED
    BY <1>1, <1>2, <1>3 DEF PlayersInv

(* A step in the middle of a poll, or none.                                *)
LEMMA PollGoesOn ==
  ASSUME PlayersInv, UNCHANGED << players, window >>, pc' # "idle" => pc # "idle"
  PROVE  PlayersInv' /\ Remembers
  <1>1. PlayersTyped'
    BY DEF PlayersInv, PlayersTyped, players, window
  <1>2. SongsMatch'
    BY DEF PlayersInv, SongsMatch, players
  <1>3. SeenNow'
    BY DEF PlayersInv, SeenNow, players, window, Is
  <1> QED
    BY <1>1, <1>2, <1>3 DEF PlayersInv, Remembers, window

(* A player changes, in or out of a poll.                                  *)
LEMMA PlayerMoves ==
  ASSUME PlayersInv, NEW p \in Names, Moves(p)
  PROVE  /\ PlayersInv'
         /\ pc # "idle" => Remembers
         /\ UNCHANGED << adapter, poll >>
  <1>a. PICK m \in Modes :
           \E s \in IF m \in {PAUSED, PLAYING} THEN Library[p] ELSE {NoText} :
             /\ mode' = [mode EXCEPT ![p] = m]
             /\ song' = [song EXCEPT ![p] = s]
    BY DEF Moves
  <1>b. PICK s \in IF m \in {PAUSED, PLAYING} THEN Library[p] ELSE {NoText} :
           /\ mode' = [mode EXCEPT ![p] = m]
           /\ song' = [song EXCEPT ![p] = s]
    BY <1>a
  <1>1. s \in Texts /\ (s = NoText <=> m \in {CLOSED, STOPPED})
    <2>1. CASE m \in {PAUSED, PLAYING}
      BY <2>1, PollingAssumption DEF Texts, Songs, CLOSED, STOPPED, PAUSED, PLAYING
    <2>2. CASE m \notin {PAUSED, PLAYING}
      BY <2>2 DEF Texts, Modes, CLOSED, STOPPED, PAUSED, PLAYING
    <2> QED
      BY <2>1, <2>2
  <1>2. mode' \in [Names -> Modes] /\ song' \in [Names -> Texts]
    BY <1>1, <1>b DEF PlayersInv, PlayersTyped
  <1>3. SongsMatch'
    BY <1>1, <1>2, <1>b DEF PlayersInv, PlayersTyped, SongsMatch
  <1>4. UNCHANGED << adapter, poll >>
    BY DEF Moves
  <1>5. CASE pc = "idle"
    <2>1. UNCHANGED << pc, seen >>
      BY <1>5, <1>4 DEF Moves, window, poll
    <2> QED
      BY <2>1, <1>2, <1>3, <1>4, <1>5 DEF PlayersInv, PlayersTyped, SeenNow
  <1>6. CASE pc # "idle"
    <2>1. seen' = [seen EXCEPT ![p] = @ \cup {Is(p)'}]
      BY <1>6 DEF Moves
    <2>2. Is(p)' \in [mode : Modes, song : Texts]
      BY <1>2 DEF Is
    <2>3. seen' \in [Names -> SUBSET [mode : Modes, song : Texts]]
      BY <2>1, <2>2 DEF PlayersInv, PlayersTyped
    <2>4. Remembers
      BY <2>1 DEF Remembers, PlayersInv, PlayersTyped
    <2>5. SeenNow'
      <3> SUFFICES ASSUME NEW q \in Names PROVE Is(q)' \in seen'[q]
        BY DEF SeenNow
      <3>1. CASE q = p
        BY <3>1, <2>1 DEF PlayersInv, PlayersTyped
      <3>2. CASE q # p
        <4>1. Is(q)' = Is(q)
          BY <3>2, <1>b DEF Is, PlayersInv, PlayersTyped
        <4> QED
          BY <4>1, <3>2, <2>1, <1>6 DEF PlayersInv, PlayersTyped, SeenNow
      <3> QED
        BY <3>1, <3>2
    <2> QED
      BY <1>2, <1>3, <1>4, <2>3, <2>4, <2>5 DEF PlayersInv, PlayersTyped
  <1> QED
    BY <1>5, <1>6

-----------------------------------------------------------------------------
(***************************************************************************)
(* MPRIS: while it questions a player, what the record holds by then has   *)
(* been true during the poll, and as long as no call is lost and nothing   *)
(* found, no player that has always been there has been passed over.       *)
(***************************************************************************)

Questions == {"status", "metadata", "position"}

(* A text the player had during the poll.                                  *)
TextSeen(p, text) ==
  \A f \in Fields : \/ text[f] \in SeenSongs(p)
                    \/ text[f] = NoText /\ STOPPED \in SeenModes(p)

MprisTyped ==
  /\ pc \in {"idle", "listing", "searching"} \cup Questions
  /\ record \in [Names -> [status : STOPPED .. PLAYING, text : [Fields -> Texts]]]
  /\ table \subseteq Names
  /\ left \subseteq Names
  /\ pc \in Questions => asking \in Names /\ ~ Found

RecordFresh ==
  /\ pc \in {"metadata", "position"} => record[asking].status \in SeenModes(asking)
  /\ pc = "position" => TextSeen(asking, record[asking].text)

ReportFresh ==
  pc # "idle" /\ Found => /\ ti.player \in Names
                          /\ ti.status \in SeenModes(ti.player)
                          /\ TextSeen(ti.player, ti.text)

NoneMissed ==
  pc \in {"searching"} \cup Questions /\ ~ lost /\ ~ Found =>
    \A p \in Names : CLOSED \notin SeenModes(p) =>
      p \in left \/ (pc \in Questions /\ p = asking)

MprisInv == MprisTyped /\ RecordFresh /\ ReportFresh /\ NoneMissed

LEMMA MprisBegins ==
  ASSUME PollInit, MprisInit
  PROVE  MprisInv
  BY DEF PollInit, MprisInit, MprisInv, MprisTyped, RecordFresh, ReportFresh, NoneMissed, None,
         Questions, Found, Prepared, STOPPED, PLAYING, Texts, Text

(* What was fresh remains so while nothing is forgotten.                   *)
LEMMA TextRemembered ==
  ASSUME Remembers, NEW p \in Names, NEW t, TextSeen(p, t)
  PROVE  TextSeen(p, t)'
  BY Remembered DEF TextSeen

(* The players change, the poll does not.                                  *)
LEMMA MprisMoves ==
  ASSUME PlayersInv, MprisInv, NEW p \in Names, Moves(p), UNCHANGED << table, record >>
  PROVE  MprisInv'
  <1>1. UNCHANGED << pc, ti, lost, left, asking, table, record >>
    BY PlayerMoves DEF poll, search
  <1>2. MprisTyped'
    BY <1>1 DEF MprisInv, MprisTyped, Found
  <1>3. CASE pc = "idle"
    BY <1>1, <1>2, <1>3 DEF MprisInv, RecordFresh, ReportFresh, NoneMissed, Questions
  <1>4. CASE pc # "idle"
    <2>1. Remembers
      BY <1>4, PlayerMoves
    <2>2. RecordFresh'
      BY <1>1, <2>1, Remembered, TextRemembered
      DEF MprisInv, MprisTyped, RecordFresh, Questions, TextSeen
    <2>3. ReportFresh'
      BY <1>1, <2>1, Remembered, TextRemembered DEF MprisInv, ReportFresh, Found, TextSeen
    <2>4. NoneMissed'
      BY <1>1, <2>1, Remembered DEF MprisInv, NoneMissed, Found
    <2> QED
      BY <1>2, <2>2, <2>3, <2>4 DEF MprisInv
  <1> QED
    BY <1>3, <1>4

(* A signal is dispatched, between polls.                                  *)
LEMMA MprisSignals ==
  ASSUME MprisInv, NEW p \in Names, mpris_status_signal_cb(p) \/ mpris_track_signal_cb(p)
  PROVE  MprisInv' /\ UNCHANGED polling /\ pc = "idle"
  <1>1. UNCHANGED polling /\ pc = "idle" /\ UNCHANGED table
    BY DEF mpris_status_signal_cb, mpris_track_signal_cb, Signal
  <1>2. record' \in [Names -> [status : STOPPED .. PLAYING, text : [Fields -> Texts]]]
    <2>1. CASE mpris_status_signal_cb(p)
      BY <2>1 DEF mpris_status_signal_cb, MprisInv, MprisTyped
    <2>2. CASE mpris_track_signal_cb(p)
      <3>1. PICK s \in Library[p] : record' = [record EXCEPT ![p].text = Text(s)]
        BY <2>2 DEF mpris_track_signal_cb
      <3>2. Text(s) \in [Fields -> Texts]
        BY PollingAssumption DEF Text, Texts, Songs
      <3> QED
        BY <3>1, <3>2 DEF MprisInv, MprisTyped
    <2> QED
      BY <2>1, <2>2
  <1>3. MprisInv'
    BY <1>1, <1>2 DEF MprisInv, MprisTyped, RecordFresh, ReportFresh, NoneMissed, Questions,
                      Found, polling, poll, search
  <1> QED
    BY <1>1, <1>3

(* The poll begins, and lists the names.                                   *)
LEMMA MprisListing ==
  ASSUME PlayersInv, MprisInv, get_mpris_info \/ ListNames
  PROVE  PlayersInv' /\ MprisInv'
  <1>1. CASE get_mpris_info
    <2>1. PlayersInv'
      BY <1>1, PollBegins DEF get_mpris_info
    <2>2. MprisInv'
      BY <1>1 DEF get_mpris_info, BeginPoll, Prepared, MprisInv, MprisTyped, RecordFresh,
                  ReportFresh, NoneMissed, Questions, Found, search
    <2> QED
      BY <2>1, <2>2
  <1>2. CASE ListNames
    <2>1. PlayersInv' /\ Remembers
      BY <1>2, PollGoesOn DEF ListNames, Asks, GoesTo
    <2>2. MprisTyped' /\ RecordFresh'
      BY <1>2 DEF ListNames, GoesTo, Unanswered, Answered, MprisInv, MprisTyped, RecordFresh,
                  Questions, Found
    <2>3. ReportFresh'
      BY <1>2, <2>1, Remembered, TextRemembered
      DEF ListNames, Asks, MprisInv, ReportFresh, Found, TextSeen
    <2>4. NoneMissed'
      <3>1. CASE lost'
        BY <3>1 DEF NoneMissed
      <3>2. CASE ~ lost'
        <4>1. \A p \in Names : mode[p] # CLOSED => p \in left'
          BY <1>2, <3>2 DEF ListNames, Unanswered
        <4>2. \A p \in Names : mode[p] \in SeenModes(p)
          BY <1>2, SeesMode DEF ListNames, Asks
        <4>3. \A p \in Names : SeenModes(p) \subseteq SeenModes(p)'
          BY <2>1, Remembered
        <4> QED
          BY <4>1, <4>2, <4>3 DEF NoneMissed
      <3> QED
        BY <3>1, <3>2
    <2> QED
      BY <2>1, <2>2, <2>3, <2>4 DEF MprisInv
  <1> QED
    BY <1>1, <1>2

(* A player is taken from the table; the last one is done.                 *)
LEMMA MprisChooses ==
  ASSUME PlayersInv, MprisInv, NEW p \in Names, mpris_check_player(p)
  PROVE  PlayersInv' /\ MprisInv'
  <1>1. PlayersInv' /\ Remembers /\ UNCHANGED seen
    BY PollGoesOn DEF mpris_check_player, Asks, GoesTo, window
  <1>2. MprisTyped' /\ RecordFresh'
    BY DEF mpris_check_player, Asks, GoesTo, MprisInv, MprisTyped, RecordFresh, Questions, Found
  <1>3. ReportFresh'
    BY DEF mpris_check_player, ReportFresh, Found
  <1>4. NoneMissed'
    <2>1. mode[p] = CLOSED => CLOSED \in SeenModes(p)
      BY SeesMode DEF mpris_check_player, Asks
    <2>2. \A q \in Names : SeenModes(q)' = SeenModes(q)
      BY <1>1 DEF SeenModes
    <2> QED
      BY <2>1, <2>2
      DEF mpris_check_player, Asks, GoesTo, MprisInv, NoneMissed, Questions, Found
  <1> QED
    BY <1>1, <1>2, <1>3, <1>4 DEF MprisInv

LEMMA MprisEnds ==
  ASSUME PlayersInv, MprisInv, SearchEnds
  PROVE  PlayersInv' /\ MprisInv'
  <1>1. PlayersInv'
    BY PollReturns DEF SearchEnds, Asks
  <1>2. MprisInv'
    BY DEF SearchEnds, Return, MprisInv, MprisTyped, RecordFresh, ReportFresh, NoneMissed,
           Questions, Found
  <1> QED
    BY <1>1, <1>2

(* A question is answered: the player is there, and what it says is what   *)
(* has been seen of it.                                                    *)
LEMMA MprisAnswers ==
  ASSUME PlayersInv, MprisInv, GetStatus \/ GetMetadata \/ PositionGet
  PROVE  PlayersInv' /\ MprisInv'
  <1>1. PlayersInv' /\ Remembers /\ UNCHANGED seen
    BY PollGoesOn DEF GetStatus, GetMetadata, PositionGet, Tells, Asks, GoesTo, window
  <1>2. asking \in Names /\ ~ Found /\ pc \in Questions
    BY DEF GetStatus, GetMetadata, PositionGet, Tells, Asks, MprisInv, MprisTyped, Questions
  <1>3. /\ mode[asking] \in SeenModes(asking)
        /\ song[asking] # NoText => song[asking] \in SeenSongs(asking)
    BY <1>2, SeesMode DEF Questions
  <1>4. mode[asking] \in STOPPED .. PLAYING
    BY <1>2 DEF PlayersInv, PlayersTyped, GetStatus, GetMetadata, PositionGet, Tells, Modes,
                CLOSED, STOPPED, PLAYING
  <1>5. song[asking] \in Texts /\ (song[asking] = NoText => mode[asking] = STOPPED)
    BY <1>2, <1>4 DEF PlayersInv, PlayersTyped, SongsMatch, CLOSED, STOPPED, PLAYING
  <1>6. \A q \in Names : SeenModes(q)' = SeenModes(q) /\ SeenSongs(q)' = SeenSongs(q)
    BY <1>1 DEF SeenModes, SeenSongs
  <1>7. CASE GetStatus
    <2>1. /\ record' = [record EXCEPT ![asking].status = mode[asking]]
          /\ pc' = "metadata"
          /\ UNCHANGED << ti, lost, left, asking, table >>
      BY <1>7 DEF GetStatus, Tells, Answered, GoesTo, search
    <2>2. MprisTyped' /\ ReportFresh'
      BY <2>1, <1>2, <1>4 DEF MprisInv, MprisTyped, ReportFresh, Questions, Found
    <2>3. RecordFresh'
      BY <2>1, <1>2, <1>3, <1>6 DEF MprisInv, MprisTyped, RecordFresh
    <2>4. NoneMissed'
      BY <2>1, <1>2, <1>6 DEF MprisInv, NoneMissed, Questions, Found
    <2> QED
      BY <1>1, <2>2, <2>3, <2>4 DEF MprisInv
  <1>8. CASE GetMetadata
    <2>1. /\ record' = [record EXCEPT ![asking].text = Text(song[asking])]
          /\ pc = "metadata" /\ pc' = "position"
          /\ UNCHANGED << ti, lost, left, asking, table >>
      BY <1>8 DEF GetMetadata, Tells, Asks, Answered, GoesTo, search
    <2>2. Text(song[asking]) \in [Fields -> Texts]
      BY <1>5 DEF Text
    <2>3. MprisTyped' /\ ReportFresh'
      BY <2>1, <2>2, <1>2 DEF MprisInv, MprisTyped, ReportFresh, Questions, Found
    <2>4. /\ record'[asking].text = Text(song[asking])
          /\ record'[asking].status = record[asking].status
      BY <2>1, <1>2 DEF MprisInv, MprisTyped
    <2>5. TextSeen(asking, Text(song[asking]))
      BY <1>3, <1>5 DEF TextSeen, Text
    <2>6. RecordFresh'
      BY <2>1, <2>4, <2>5, <1>1, <1>2, <1>6, TextRemembered DEF MprisInv, RecordFresh, TextSeen
    <2>7. NoneMissed'
      BY <2>1, <1>2, <1>6 DEF MprisInv, NoneMissed, Questions, Found
    <2> QED
      BY <1>1, <2>3, <2>6, <2>7 DEF MprisInv
  <1>9. CASE PositionGet
    <2>1. /\ ti' = [status |-> record[asking].status, player |-> asking,
                    text |-> record[asking].text]
          /\ pc = "position" /\ pc' = "searching"
          /\ UNCHANGED << lost, left, table, record >>
      BY <1>9 DEF PositionGet, Tells, Asks, Answered, GoesTo
    <2>2. ti'.status # CLOSED
      BY <2>1, <1>2 DEF MprisInv, MprisTyped, CLOSED, STOPPED, PLAYING
    <2>3. MprisTyped' /\ RecordFresh'
      BY <2>1 DEF MprisInv, MprisTyped, RecordFresh, Questions
    <2>4. ReportFresh'
      BY <2>1, <1>2, <1>6 DEF MprisInv, RecordFresh, ReportFresh, TextSeen
    <2>5. NoneMissed'
      BY <2>2 DEF NoneMissed, Found
    <2> QED
      BY <1>1, <2>3, <2>4, <2>5 DEF MprisInv
  <1> QED
    BY <1>7, <1>8, <1>9

(* A question is not answered.  If the player is gone it has been seen     *)
(* gone; otherwise a call is lost.                                         *)
LEMMA MprisFailing ==
  ASSUME PlayersInv, MprisInv, MprisFails
  PROVE  PlayersInv' /\ MprisInv'
  <1>1. /\ pc \in Questions /\ pc' = "searching"
        /\ UNCHANGED << ti, left, table, record, players, window >>
        /\ mode[asking] # CLOSED => lost'
        /\ mode[asking] = CLOSED => lost' = lost
    BY DEF MprisFails, Silent, Asks, GoesTo, Questions, Answered, Unanswered
  <1>2. PlayersInv' /\ Remembers
    BY <1>1, PollGoesOn DEF Questions
  <1>3. asking \in Names
    BY <1>1 DEF MprisInv, MprisTyped
  <1>4. mode[asking] \in SeenModes(asking)
    BY <1>1, <1>3, SeesMode DEF Questions
  <1>5. \A q \in Names : SeenModes(q)' = SeenModes(q)
    BY <1>1 DEF window, SeenModes
  <1>6. MprisTyped' /\ RecordFresh' /\ ReportFresh'
    BY <1>1 DEF MprisInv, MprisTyped, RecordFresh, ReportFresh, Questions, Found
  <1>7. NoneMissed'
    BY <1>1, <1>3, <1>4, <1>5 DEF MprisInv, NoneMissed, Questions, Found
  <1> QED
    BY <1>2, <1>6, <1>7 DEF MprisInv

(* Every step of the adapter keeps the invariants.                         *)
LEMMA MprisStep ==
  ASSUME PlayersInv, MprisInv, MprisNext
  PROVE  PlayersInv' /\ MprisInv'
  <1>1. CASE Mprises
    <2>1. CASE \E p \in Names : mpris_check_player(p)
      BY <2>1, MprisChooses
    <2> QED
      BY <1>1, <2>1, MprisListing, MprisEnds, MprisAnswers, MprisFailing DEF Mprises
  <1>2. CASE \E p \in Names : mpris_status_signal_cb(p) \/ mpris_track_signal_cb(p)
    <2>1. MprisInv' /\ UNCHANGED polling /\ pc = "idle"
      BY <1>2, MprisSignals
    <2>2. PlayersInv'
      BY <2>1, PollGoesOn DEF polling, poll, players, window
    <2> QED
      BY <2>1, <2>2
  <1>3. CASE \E p \in Names : Moves(p) /\ UNCHANGED << table, record >>
    BY <1>3, MprisMoves, PlayerMoves
  <1> QED
    BY <1>1, <1>2, <1>3 DEF MprisNext

(* A poll returns at the end of its search only.                           *)
LEMMA MprisReturns ==
  ASSUME PlayersInv, MprisNext, Returns
  PROVE  SearchEnds
  <1>1. CASE Mprises
    BY <1>1 DEF Mprises, Returns, get_mpris_info, BeginPoll, ListNames, mpris_check_player,
                GetStatus, GetMetadata, PositionGet, MprisFails, GoesTo
  <1>2. CASE \E p \in Names : mpris_status_signal_cb(p) \/ mpris_track_signal_cb(p)
    BY <1>2 DEF mpris_status_signal_cb, mpris_track_signal_cb, Signal, Returns
  <1>3. CASE \E p \in Names : Moves(p) /\ UNCHANGED << table, record >>
    BY <1>3, PlayerMoves DEF Returns, poll
  <1> QED
    BY <1>1, <1>2, <1>3 DEF MprisNext

(* What such a step reports is fresh.                                      *)
LEMMA MprisFresh ==
  ASSUME PlayersInv, MprisInv, MprisNext, Returns, ti'.status # CLOSED
  PROVE  /\ ti'.player \in Names
         /\ ti'.status \in SeenModes(ti'.player)
         /\ TextSeen(ti'.player, ti'.text)
  <1>1. SearchEnds
    BY MprisReturns
  <1> QED
    BY <1>1 DEF SearchEnds, MprisInv, ReportFresh, Found, Asks

(* And it finds a player, if no call is lost and one was there throughout. *)
LEMMA MprisFinds ==
  ASSUME PlayersInv, MprisInv, MprisNext, Returns, ~ lost',
         NEW p \in Names, CLOSED \notin SeenModes(p)
  PROVE  ti'.status # CLOSED
  <1>1. SearchEnds
    BY MprisReturns
  <1> QED
    BY <1>1 DEF SearchEnds, MprisInv, NoneMissed, Found, Asks, Questions

(* Of players that rest, with every call answered, it is right.            *)
LEMMA MprisRight ==
  ASSUME PlayersInv, MprisInv, MprisNext, Returns, ti' \in Infos,
         ~ lost', \A p \in Names : seen[p] = {Is(p)}
  PROVE  MprisSettled'
  <1>1. UNCHANGED << mode, song, ti >> /\ SongsMatch
    BY MprisReturns DEF SearchEnds, Asks, players, PlayersInv
  <1>2. ASSUME ti'.status = CLOSED, NEW p \in Names PROVE mode[p] = CLOSED
    BY <1>2, MprisFinds, RestingSeen
  <1>3. ASSUME ti'.status # CLOSED
        PROVE  /\ ti'.player \in Names /\ ti'.status = mode[ti'.player]
               /\ \A f \in Fields : ti'.text[f] = song[ti'.player]
    <2>1. /\ ti'.player \in Names /\ ti'.status \in SeenModes(ti'.player)
          /\ TextSeen(ti'.player, ti'.text)
      BY <1>3, MprisFresh
    <2>2. /\ SeenModes(ti'.player) = {mode[ti'.player]}
          /\ SeenSongs(ti'.player) \subseteq {song[ti'.player]}
      BY <2>1, RestingSeen
    <2>3. STOPPED \in SeenModes(ti'.player) => song[ti'.player] = NoText
      BY <1>1, <2>1, <2>2 DEF SongsMatch
    <2> QED
      BY <2>1, <2>2, <2>3 DEF TextSeen
  <1> QED
    <2>1. ti'.status # CLOSED => ti'.text = Text(song[ti'.player])
      <3>1. ti'.text \in [Fields -> Texts]
        BY DEF Infos
      <3> QED
        BY <1>3, <3>1 DEF Text
    <2> QED
      BY <1>1, <1>2, <1>3, <2>1, PollingAssumption DEF MprisSettled, Text

-----------------------------------------------------------------------------
(***************************************************************************)
(* MPRIS2: while no call is lost, a player that has played all the time is *)
(* still to be asked or is being asked.                                    *)
(***************************************************************************)

Gets == {"playback", "filling"}

Mpris2Typed ==
  /\ ti \in Infos
  /\ pc \in {"idle", "crashed", "listing", "choosing"} \cup Gets
  /\ pc \in Gets => asking \in Names

(* What ti holds while the names are gone through.                         *)
Collected ==
  /\ pc \in {"listing", "choosing", "playback", "filling"} => ti.text = Text(NoText)
  /\ pc \in {"listing", "choosing", "playback"} => ti.status # PLAYING
  /\ pc = "filling" => \/ ti.status = PLAYING /\ PLAYING \in SeenModes(asking)
                       \/ EndsAtOdd(ti, asking)
  /\ pc # "idle" => ti.status = CLOSED \/ \E p \in Names : ti.status \in SeenModes(p)

NotPassedOver ==
  pc \in {"choosing"} \cup Gets /\ ~ lost =>
    \A p \in Names : SeenModes(p) = {PLAYING} =>
      p \in left \/ pc = "filling" \/ (pc = "playback" /\ p = asking)

(* Until a player has given a status, those that run are ahead.            *)
RunnersAhead ==
  pc \in {"choosing", "playback"} /\ ~ lost /\ ti.status = CLOSED =>
    \A p \in Names : CLOSED \notin SeenModes(p) => p \in left \/ (pc = "playback" /\ p = asking)

Mpris2Inv == Mpris2Typed /\ Collected /\ NotPassedOver /\ RunnersAhead

LEMMA PreparedInfo == Prepared \in Infos
  BY DEF Prepared, Infos, Modes, CLOSED, PLAYING, Text, Texts

LEMMA Mpris2Begins ==
  ASSUME PollInit
  PROVE  Mpris2Inv
  BY PreparedInfo DEF PollInit, Mpris2Inv, Mpris2Typed, Collected, NotPassedOver, RunnersAhead,
                      Gets

(* The players change, the poll does not.                                  *)
LEMMA Mpris2Moves ==
  ASSUME PlayersInv, Mpris2Inv, NEW p \in Names, Moves(p)
  PROVE  Mpris2Inv'
  <1>1. UNCHANGED << pc, ti, lost, left, asking >>
    BY PlayerMoves DEF poll, search
  <1>2. CASE pc = "idle"
    BY <1>1, <1>2 DEF Mpris2Inv, Mpris2Typed, Collected, NotPassedOver, RunnersAhead, Gets
  <1>3. CASE pc # "idle"
    <2>1. Remembers
      BY <1>3, PlayerMoves
    <2>2. Mpris2Typed'
      BY <1>1 DEF Mpris2Inv, Mpris2Typed
    <2>3. Collected'
      BY <1>1, <2>1, Remembered DEF Mpris2Inv, Mpris2Typed, Collected, Gets
    <2>4. \A q \in Names : SeenModes(q)' = {PLAYING} => SeenModes(q) = {PLAYING}
      <3> SUFFICES ASSUME NEW q \in Names, SeenModes(q)' = {PLAYING}
                   PROVE  SeenModes(q) = {PLAYING}
        OBVIOUS
      <3>1. mode[q] \in SeenModes(q)
        BY <1>3, SeesMode
      <3>2. SeenModes(q) \subseteq SeenModes(q)'
        BY <2>1, Remembered
      <3> QED
        BY <3>1, <3>2
    <2>5. NotPassedOver'
      BY <1>1, <2>4 DEF Mpris2Inv, NotPassedOver
    <2>6. RunnersAhead'
      BY <1>1, <2>1, Remembered DEF Mpris2Inv, RunnersAhead
    <2> QED
      BY <2>2, <2>3, <2>5, <2>6 DEF Mpris2Inv
  <1> QED
    BY <1>2, <1>3

(* A poll begins, and lists the players on the bus.                        *)
LEMMA Mpris2Listing ==
  ASSUME PlayersInv, Mpris2Inv, get_mpris2_info \/ ListsNames
  PROVE  PlayersInv' /\ Mpris2Inv'
  <1>1. CASE get_mpris2_info
    <2>1. PlayersInv'
      BY <1>1, PollBegins DEF get_mpris2_info
    <2>2. Mpris2Inv'
      BY <1>1, PreparedInfo DEF get_mpris2_info, BeginPoll, Prepared, search, Mpris2Inv,
             Mpris2Typed, Collected, NotPassedOver, RunnersAhead, Gets, CLOSED, PLAYING
    <2> QED
      BY <2>1, <2>2
  <1>2. CASE ListsNames /\ Return
    <2>1. PlayersInv'
      BY <1>2, PollReturns DEF ListsNames, Calls
    <2>2. Mpris2Inv'
      BY <1>2 DEF ListsNames, Return, Mpris2Inv, Mpris2Typed, Collected, NotPassedOver,
                  RunnersAhead, Gets
    <2> QED
      BY <2>1, <2>2
  <1>3. CASE ListsNames /\ ~ Return
    <2>1. /\ pc = "listing" /\ pc' \in {"choosing", "crashed"}
          /\ UNCHANGED << players, window, ti >>
          /\ pc' = "choosing" => left' = {p \in Names : mode[p] # CLOSED}
      BY <1>3 DEF ListsNames, Calls, GoesTo, CleanupUninitialised, Cleanup
    <2>2. PlayersInv' /\ Remembers
      BY <2>1, PollGoesOn
    <2>3. \A p \in Names : SeenModes(p)' = SeenModes(p) /\ mode[p] \in SeenModes(p)
      BY <2>1, SeesMode DEF window, SeenModes
    <2>4. Collected'
      BY <2>1, <2>3 DEF Mpris2Inv, Collected
    <2>5. NotPassedOver'
      <3>1. \A p \in Names : SeenModes(p)' = {PLAYING} => mode[p] # CLOSED
        BY <2>3 DEF CLOSED, PLAYING
      <3> QED
        BY <2>1, <3>1 DEF NotPassedOver, Gets
    <2>6. RunnersAhead'
      BY <2>1, <2>3 DEF RunnersAhead, Gets
    <2> QED
      BY <2>1, <2>2, <2>4, <2>5, <2>6 DEF Mpris2Inv, Mpris2Typed, Gets
  <1> QED
    BY <1>1, <1>2, <1>3

LEMMA Mpris2Chooses ==
  ASSUME PlayersInv, Mpris2Inv, NEW p \in Names, NextName(p)
  PROVE  PlayersInv' /\ Mpris2Inv'
  <1>1. /\ pc = "choosing" /\ pc' = "playback" /\ asking' = p /\ left' = left \ {p}
        /\ UNCHANGED << players, window, ti, lost >>
    BY DEF NextName, Calls, GoesTo
  <1>2. PlayersInv'
    BY <1>1, PollGoesOn
  <1>3. \A q \in Names : SeenModes(q)' = SeenModes(q)
    BY <1>1 DEF window, SeenModes
  <1> QED
    BY <1>1, <1>2, <1>3 DEF Mpris2Inv, Mpris2Typed, Collected, NotPassedOver, RunnersAhead, Gets

(* A player says whether it plays.                                         *)
LEMMA Mpris2Playback ==
  ASSUME PlayersInv, Mpris2Inv, GetPlaybackStatus
  PROVE  PlayersInv' /\ Mpris2Inv'
  <1>1. PICK status \in PlaybackStatus(asking) :
          /\ ti' = [ti EXCEPT !.status = status]
          /\ pc' = IF status \in {STOPPED, PAUSED} THEN "choosing" ELSE "filling"
    BY DEF GetPlaybackStatus, GoesTo
  <1>2. /\ pc = "playback"
        /\ UNCHANGED << players, window, lost, left, asking >>
        /\ mode[asking] # CLOSED
    BY DEF GetPlaybackStatus, Calls, GoesTo, Answered, search
  <1>3. asking \in Names /\ mode[asking] \in SeenModes(asking) /\ mode[asking] \in Modes
    BY <1>2, SeesMode DEF Mpris2Inv, Mpris2Typed, Gets, PlayersInv, PlayersTyped
  <1>4. status = mode[asking] \/ (status = CLOSED /\ asking \in Odd)
    BY <1>1 DEF PlaybackStatus
  <1>5. ti' \in Infos /\ ti'.status = status /\ ti'.text = ti.text
    BY <1>1, <1>3, <1>4 DEF Mpris2Inv, Mpris2Typed, Infos, Modes, CLOSED, PLAYING
  <1>6. \/ pc' = "choosing" /\ ti'.status = mode[asking] /\ mode[asking] \in {STOPPED, PAUSED}
        \/ pc' = "filling" /\ ti'.status = PLAYING /\ mode[asking] = PLAYING
        \/ pc' = "filling" /\ EndsAtOdd(ti', asking)
    BY <1>1, <1>2, <1>3, <1>4, <1>5
    DEF EndsAtOdd, Modes, CLOSED, STOPPED, PAUSED, PLAYING
  <1>7. PlayersInv'
    BY <1>1, <1>2, PollGoesOn
  <1>8. \A q \in Names : SeenModes(q)' = SeenModes(q)
    BY <1>2 DEF window, SeenModes
  <1>9. Collected'
    BY <1>2, <1>3, <1>5, <1>6, <1>8
    DEF Mpris2Inv, Collected, EndsAtOdd, CLOSED, STOPPED, PAUSED, PLAYING
  <1>10. NotPassedOver'
    <2> SUFFICES ASSUME pc' = "choosing", ~ lost, NEW p \in Names, SeenModes(p) = {PLAYING}
                 PROVE  p \in left
      BY <1>2, <1>6, <1>8 DEF NotPassedOver, Gets
    <2>1. p # asking
      BY <1>3, <1>6 DEF STOPPED, PAUSED, PLAYING
    <2> QED
      BY <1>2, <2>1 DEF Mpris2Inv, NotPassedOver, Gets
  <1>11. RunnersAhead'
    BY <1>6 DEF RunnersAhead, CLOSED, STOPPED, PAUSED
  <1> QED
    BY <1>2, <1>3, <1>5, <1>6, <1>7, <1>9, <1>10, <1>11 DEF Mpris2Inv, Mpris2Typed, Gets

(* The three ways out.                                                     *)
LEMMA Mpris2Returns ==
  ASSUME PlayersInv, Mpris2Inv, LastName \/ GetMetadata2 \/ GetFails
  PROVE  PlayersInv' /\ Mpris2Inv'
  <1>1. Return /\ UNCHANGED players
    BY DEF LastName, GetMetadata2, GetFails, Calls, Cleanup
  <1>2. PlayersInv'
    BY <1>1, PollReturns
  <1>3. ti' \in Infos
    <2>1. CASE GetMetadata2
      <3>1. asking \in Names
        BY <2>1 DEF GetMetadata2, Calls, Mpris2Inv, Mpris2Typed, Gets
      <3>2. Text(song[asking]) \in [Fields -> Texts]
        BY <3>1 DEF Text, PlayersInv, PlayersTyped
      <3> QED
        BY <2>1, <3>2 DEF GetMetadata2, Mpris2Inv, Mpris2Typed, Infos
    <2>2. CASE LastName \/ GetFails
      BY <2>2 DEF LastName, GetFails, Mpris2Inv, Mpris2Typed
    <2> QED
      BY <2>1, <2>2
  <1>4. Mpris2Inv'
    BY <1>1, <1>3 DEF Return, Mpris2Inv, Mpris2Typed, Collected, NotPassedOver, RunnersAhead,
                      Gets
  <1> QED
    BY <1>2, <1>4

(* Every step of the adapter keeps the invariants.                         *)
LEMMA Mpris2Step ==
  ASSUME PlayersInv, Mpris2Inv, Mpris2Next
  PROVE  PlayersInv' /\ Mpris2Inv'
  <1>1. CASE Mprises2
    <2>1. CASE \E p \in Names : NextName(p)
      BY <2>1, Mpris2Chooses
    <2> QED
      BY <1>1, <2>1, Mpris2Listing, Mpris2Playback, Mpris2Returns DEF Mprises2
  <1>2. CASE \E p \in Names : Moves(p)
    BY <1>2, Mpris2Moves, PlayerMoves
  <1> QED
    BY <1>1, <1>2 DEF Mpris2Next

(* A poll returns in one of the three ways, or for want of a list.         *)
LEMMA Mpris2WaysOut ==
  ASSUME PlayersInv, Mpris2Next, Returns
  PROVE  LastName \/ GetMetadata2 \/ GetFails \/ (ListsNames /\ Unanswered)
  <1>1. CASE Mprises2
    BY <1>1 DEF Mprises2, Returns, get_mpris2_info, BeginPoll, NextName, GetPlaybackStatus,
                ListsNames, GoesTo
  <1>2. CASE \E p \in Names : Moves(p)
    BY <1>2, PlayerMoves DEF Returns, poll
  <1> QED
    BY <1>1, <1>2 DEF Mpris2Next

(* Whatever a poll reports, a song goes with the player that plays, or     *)
(* with the one of an unknown status, and a status has been some player's. *)
LEMMA Mpris2Reports ==
  ASSUME PlayersInv, Mpris2Inv, Mpris2Next, Returns
  PROVE  /\ ti'.text # Text(NoText) =>
              /\ \E s \in SeenSongs(asking) : ti'.text = Text(s)
              /\ \/ ti'.status = PLAYING /\ PLAYING \in SeenModes(asking)
                 \/ EndsAtOdd(ti', asking)
         /\ ti'.status # CLOSED => \E p \in Names : ti'.status \in SeenModes(p)
  <1>1. CASE GetMetadata2
    <2>1. pc = "filling" /\ ti' = [ti EXCEPT !.text = Text(song[asking])]
      BY <1>1 DEF GetMetadata2, Calls
    <2>2. ti'.status = ti.status /\ ti'.text = Text(song[asking])
      BY <2>1 DEF Mpris2Inv, Mpris2Typed, Infos
    <2>3. asking \in Names
      BY <2>1 DEF Mpris2Inv, Mpris2Typed, Gets
    <2>4. ti'.text # Text(NoText) => song[asking] \in SeenSongs(asking)
      BY <2>1, <2>2, <2>3, SeesMode
    <2> QED
      BY <2>1, <2>2, <2>4 DEF Mpris2Inv, Collected, EndsAtOdd
  <1>2. CASE LastName \/ GetFails \/ ListsNames
    <2>1. ti' = ti /\ pc \in {"listing", "choosing", "playback", "filling"}
      BY <1>2 DEF LastName, GetFails, ListsNames, Calls
    <2> QED
      BY <2>1 DEF Mpris2Inv, Collected
  <1> QED
    BY <1>1, <1>2, Mpris2WaysOut

(* While no call is lost, a player that plays throughout is not missed,    *)
(* unless the search ends at one whose status it does not know.            *)
LEMMA Mpris2Finds ==
  ASSUME PlayersInv, Mpris2Inv, Mpris2Next, Returns, ~ lost',
         \E p \in Names : SeenModes(p) = {PLAYING}
  PROVE  ti'.status = PLAYING \/ EndsAtOdd(ti', asking)
  <1>1. CASE LastName
    <2>1. pc = "choosing" /\ left = {} /\ ~ lost
      BY <1>1 DEF LastName, Calls
    <2> QED
      BY <2>1 DEF Mpris2Inv, NotPassedOver
  <1>2. CASE GetMetadata2
    <2>1. pc = "filling" /\ ti'.status = ti.status
      BY <1>2 DEF GetMetadata2, Calls, Mpris2Inv, Mpris2Typed, Infos
    <2> QED
      BY <2>1 DEF Mpris2Inv, Collected, EndsAtOdd
  <1>3. ~ GetFails /\ ~ (ListsNames /\ Unanswered)
    BY DEF GetFails, Unanswered
  <1> QED
    BY <1>1, <1>2, <1>3, Mpris2WaysOut

(* Of players that rest, with every call answered, what is reported is     *)
(* right.                                                                  *)
LEMMA Mpris2Right ==
  ASSUME PlayersInv, Mpris2Inv, Mpris2Next, Returns, ~ lost', \A p \in Names : seen[p] = {Is(p)}
  PROVE  Mpris2Settled'
  <1>1. \A p \in Names : SeenModes(p) = {mode[p]}
    BY RestingSeen
  <1>2. CASE LastName
    <2>1. /\ pc = "choosing" /\ left = {} /\ ti' = ti /\ ~ lost /\ UNCHANGED << mode, song >>
      BY <1>2 DEF LastName, Calls, players
    <2>2. ti.text = Text(NoText) /\ ti.status # PLAYING
      BY <2>1 DEF Mpris2Inv, Collected
    <2>3. ti.status = CLOSED \/ \E p \in Names : ti.status = mode[p]
      BY <1>1, <2>1 DEF Mpris2Inv, Collected
    <2>4. \A p \in Names : mode[p] # PLAYING
      BY <1>1, <2>1 DEF Mpris2Inv, NotPassedOver
    <2>5. ti.status = CLOSED => \A p \in Names : mode[p] = CLOSED
      BY <1>1, <2>1 DEF Mpris2Inv, RunnersAhead
    <2> QED
      BY <2>1, <2>2, <2>3, <2>4, <2>5 DEF Mpris2Settled
  <1>3. CASE GetMetadata2
    <2>1. /\ pc = "filling" /\ ti' = [ti EXCEPT !.text = Text(song[asking])]
          /\ UNCHANGED << mode, song >> /\ mode[asking] # CLOSED
      BY <1>3 DEF GetMetadata2, Calls, players
    <2>2. asking \in Names
      BY <2>1 DEF Mpris2Inv, Mpris2Typed, Gets
    <2>3. ti'.status = ti.status /\ ti'.text = Text(song[asking])
      BY <2>1 DEF Mpris2Inv, Mpris2Typed, Infos
    <2>4. CASE ti.status = PLAYING /\ PLAYING \in SeenModes(asking)
      <3>1. mode[asking] = PLAYING
        BY <1>1, <2>2, <2>4
      <3> QED
        BY <2>1, <2>2, <2>3, <2>4, <3>1 DEF Mpris2Settled
    <2>5. CASE EndsAtOdd(ti, asking)
      <3>1. EndsAtOdd(ti', asking)
        BY <2>3, <2>5 DEF EndsAtOdd
      <3> QED
        BY <2>1, <2>2, <2>3, <3>1 DEF Mpris2Settled
    <2> QED
      BY <2>1, <2>4, <2>5 DEF Mpris2Inv, Collected
  <1> QED
    BY <1>2, <1>3, Mpris2WaysOut DEF GetFails, Unanswered
=============================================================================
