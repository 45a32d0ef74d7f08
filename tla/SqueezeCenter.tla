--------------------------- MODULE SqueezeCenter ---------------------------
(***************************************************************************)
(* The adapter for SqueezeCenter servers, squeezecenter.c.  One TCP        *)
(* connection outlives the polls; a poll sends its commands one by one and *)
(* waits up to ten seconds for each answer, in which the main loop stands  *)
(* still.  Here a step of a poll is one command, since the servers, their  *)
(* players and the network do not stand still.                             *)
(*                                                                         *)
(* An answer that comes too late stays in the socket: the next command     *)
(* takes it for its own.                                                   *)
(***************************************************************************)
EXTENDS Integers, SequencesExt

CONSTANTS
  Servers,        \* the servers there are
  Resolvable,     \* those whose name gethostbyname finds
  Accepting,      \* those that accept the configured user and password
  Boxes,          \* the players of the servers
  Lists,          \* the lists of players a server can have
  Playbacks,      \* what a player can be doing: mode, power, remote
  ServerPrefs,    \* values of PREF_SQUEEZECENTER_SERVER, as sequences
  OrderPrefs,     \* values of PREF_SQUEEZECENTER_PLAYERS, as sequences
  Counts,         \* numbers sscanf can find in an answer to something else
  MaxLate,        \* bound: answers that may be on their way at once
  Junk,           \* a player id or name cut out of an answer to something else
  Null            \* NULL, for pointers and for an answer that did not come

(* squeezecenter_Player, as far as it is reported or chosen by.            *)
Names == Boxes \cup {Junk}
Modes == {"play", "pause", "stop"}

PlayerRecords ==
  [id : Names, name : Names \cup {Null}, mode : Modes \cup {""}, power : BOOLEAN,
   remote : BOOLEAN, title : Boxes \cup {Null}, current_title : Boxes \cup {Null}]

ASSUME SqueezeCenterAssumption ==
  /\ Resolvable \subseteq Servers
  /\ Accepting \subseteq Servers
  /\ Lists \subseteq Seq(Boxes)
  /\ Playbacks \subseteq [mode : Modes, power : BOOLEAN, remote : BOOLEAN]
  /\ ServerPrefs \subseteq Seq(Servers) \ {<<>>}
  /\ OrderPrefs \subseteq Seq([kind : {"#", "*", "!", "name", ""}, who : Names \cup {Null}])
  /\ Counts \subseteq Nat
  /\ MaxLate \in Nat
  /\ Junk \notin Boxes
  /\ Null \notin Boxes \cup {Junk} \cup Seq(PlayerRecords)

VARIABLES
  servers, order,                  \* the two preferences
  last,                            \* how far down the servers we got
  sock,                            \* the socket, as the kernel knows it
  version,                         \* connection->version is not empty
  players, players_array,          \* of squeezecenter_Connection
  pc, i, pi,                       \* where the poll is; locals of its loops
  ti,                              \* what the last poll reported
  peer, owed,                      \* the server at the other end, the answers
                                   \* it sent that nobody has read
  up, list, playback,              \* the servers and their players
  loggedIn, prompt,                \* history: the peer took the login; every
                                   \* answer of the peer came in time
  known, streamed                  \* history, since the connection was made:
                                   \* the lists the peer has had, the boxes
                                   \* that have played a stream

prefs   == << servers, order >>
cursor  == << pc, i, pi >>
world   == << up, list, playback >>
since   == << known, streamed >>
history == << loggedIn, prompt, since >>
vars    == << prefs, last, sock, version, players, players_array, cursor, ti,
              peer, owed, world, history >>

(* A poll that returns early leaves ti as cb_timeout prepared it.          *)
Closed == [player |-> Null, status |-> "closed", title |-> Null, stream |-> FALSE]

(***************************************************************************)
(* squeezecenter_command                                                   *)
(***************************************************************************)
(* The tags of a status answer; a server names "remote" only while the     *)
(* player plays a stream: "remote" FALSE here is a tag that is not there.  *)
Tags(b) ==
  [name |-> b, mode |-> playback[b].mode, power |-> playback[b].power, title |-> b,
   remote |-> playback[b].remote]

(* The k-th player of a list, if it has that many.                         *)
BoxAt(boxes, k) == IF k <= Len(boxes) THEN boxes[k] ELSE Junk

Streamers == {b \in Boxes : playback[b].remote}

(* What the server answers to the command the poll has come to.            *)
Answer ==
  LET boxes == list[peer]
  IN  CASE pc = "login"   -> [cmd |-> "login", accepted |-> peer \in Accepting]
        [] pc = "version" -> [cmd |-> "version"]
        [] pc = "count"   -> [cmd |-> "count", n |-> Len(boxes)]
        [] pc \in {"id", "name"} -> [cmd |-> pc, who |-> BoxAt(boxes, i)]
        [] pc = "status"  ->
             IF players_array[i].id \in Range(boxes)
             THEN [cmd |-> "status", tags |-> Tags(players_array[i].id)]
             ELSE [cmd |-> "unknown player"]

Sequel == IF sock = "open" THEN Append(owed, Answer) ELSE owed

(* It returns TRUE with "line" as the first line of the buffer: what was   *)
(* due first, along with whatever else had arrived.                        *)
Reads(line) ==
  /\ Sequel # << >>
  /\ line = Head(Sequel)
  /\ \E k \in 1 .. Len(Sequel) : owed' = SubSeq(Sequel, k + 1, Len(Sequel))
  /\ UNCHANGED prompt

(* It returns FALSE: a timeout, after which the answer still comes, or a   *)
(* connection without a peer.                                              *)
Fails ==
  /\ \/ sock = "open" /\ Len(owed) < MaxLate /\ owed' = Append(owed, Answer)
     \/ sock = "dead" /\ UNCHANGED owed
  /\ prompt' = FALSE

squeezecenter_command(line) == IF line = Null THEN Fails ELSE Reads(line)

Lines == {Null} \cup (IF Sequel = << >> THEN {} ELSE {Head(Sequel)})

(***************************************************************************)
(* The connection                                                          *)
(***************************************************************************)
Return(result) == pc' = "idle" /\ ti' = result

squeezecenter_disconnect == sock' = "none"

(* Mutants of squeezecenter_connect: the version survives; the number of   *)
(* players does; the rotation over the servers does not move on.           *)
squeezecenter_connect_keeps_version(k) ==
  /\ sock' \in {"connecting", IF up[servers[k]] THEN "open" ELSE "refused"}
  /\ UNCHANGED version
  /\ players' = 0
  /\ peer' = servers[k]
  /\ last' = IF k = Len(servers) THEN 0 ELSE k
squeezecenter_connect_keeps_players(k) ==
  /\ sock' \in {"connecting", IF up[servers[k]] THEN "open" ELSE "refused"}
  /\ version' = FALSE
  /\ UNCHANGED players
  /\ peer' = servers[k]
  /\ last' = IF k = Len(servers) THEN 0 ELSE k
squeezecenter_connect_to_first(k) ==
  /\ sock' \in {"connecting", IF up[servers[k]] THEN "open" ELSE "refused"}
  /\ version' = FALSE
  /\ players' = 0
  /\ peer' = servers[k]
  /\ last' = 0

(* squeezecenter_connect to the k-th server, and the caller's "last".  The *)
(* socket stays even when connect() fails at once.                         *)
squeezecenter_connect(k) ==
  /\ sock' \in {"connecting", IF up[servers[k]] THEN "open" ELSE "refused"}
  /\ version' = FALSE
  /\ players' = 0
  /\ peer' = servers[k]
  /\ last' = IF k = Len(servers) THEN 0 ELSE k

(* The servers behind "last" are tried in turn until one has a socket.     *)
get_squeezecenter_connection ==
  LET tried == {k \in 1 .. Len(servers) : k > last}
      found == {k \in tried : servers[k] \in Resolvable}
  IN  /\ pc = "idle"
      /\ \/ /\ sock # "none"
            /\ pc' = "connected"
            /\ UNCHANGED << sock, version, players, peer, last, owed, ti, history >>
         \/ /\ sock = "none" /\ found # {}
            /\ squeezecenter_connect(Min(found))
            /\ pc' = "connected"
            /\ owed' = << >>
            /\ loggedIn' = FALSE
            /\ prompt' = TRUE
            /\ known' = {list[peer']}
            /\ streamed' = Streamers
            /\ UNCHANGED ti
         \/ /\ sock = "none" /\ found = {}
            /\ last' = 0
            /\ version' = (version /\ tried = {})
            /\ players' = IF tried = {} THEN players ELSE 0
            /\ Return(Closed)
            /\ UNCHANGED << sock, peer, owed, history >>
      /\ UNCHANGED << prefs, players_array, i, pi, world >>

(* The socket of a peer that is gone may or may not show an error yet.     *)
squeezecenter_connected ==
  /\ pc = "connected"
  /\ \/ sock \in {"refused", "dead"} /\ squeezecenter_disconnect /\ Return(Closed)
     \/ sock = "connecting" /\ Return(Closed) /\ UNCHANGED sock
     \/ /\ sock \in {"open", "dead"}
        /\ pc' = IF version THEN "count" ELSE "login"
        /\ UNCHANGED << sock, ti >>
  /\ UNCHANGED << prefs, last, version, players, players_array, i, pi, peer, owed,
                  world, history >>

squeezecenter_do_login ==
  /\ pc = "login"
  /\ \E line \in Lines :
       LET accepted == line # Null /\ line.accepted
       IN  /\ squeezecenter_command(line)
           /\ loggedIn' = accepted
           /\ \/ accepted /\ pc' = "version" /\ UNCHANGED << sock, ti >>
              \/ ~ accepted /\ squeezecenter_disconnect /\ Return(Closed)
  /\ UNCHANGED << prefs, last, version, players, players_array, i, pi, peer, world, since >>

squeezecenter_get_version ==
  /\ pc = "version"
  /\ \E line \in Lines :
       /\ squeezecenter_command(line)
       /\ \/ line # Null /\ version' = TRUE /\ pc' = "count" /\ UNCHANGED << sock, ti >>
          \/ line = Null /\ squeezecenter_disconnect /\ Return(Closed) /\ UNCHANGED version
  /\ UNCHANGED << prefs, last, players, players_array, i, pi, peer, world, loggedIn, since >>

(***************************************************************************)
(* The players                                                             *)
(***************************************************************************)
(* The number sscanf finds in a line, or Null.                             *)
ParsedCount(line) ==
  IF line = Null THEN {Null}
  ELSE IF line.cmd = "count" THEN {line.n} ELSE Counts \cup {Null}

(* Mutant of CountFailed: the connection is kept.                          *)
CountFailed_keeps_connection == pc' = "status" /\ i' = 1 /\ UNCHANGED << sock, ti >>

CountFailed == squeezecenter_disconnect /\ Return(Closed) /\ UNCHANGED i

(* With no players the poll is over, the connection stays.  The list is    *)
(* fetched when there is none, or when its length differs from the last.   *)
squeezecenter_get_player_count ==
  /\ pc = "count"
  /\ \E line \in Lines : \E n \in ParsedCount(line) :
       /\ squeezecenter_command(line)
       /\ \/ n = Null /\ CountFailed /\ UNCHANGED players
          \/ n = 0 /\ players' = 0 /\ Return(Closed) /\ UNCHANGED << sock, i >>
          \/ /\ n # Null /\ n > 0
             /\ players' = n
             /\ i' = 1
             /\ \/ (players_array = Null \/ players # n) /\ pc' = "id"
                \/ players_array # Null /\ players = n /\ pc' = "status"
             /\ UNCHANGED << sock, ti >>
  /\ UNCHANGED << prefs, last, version, players_array, pi, peer, world, loggedIn, since >>

(* What the code takes for the id or the name in a line.                   *)
Field(line) == IF line.cmd = pc THEN line.who ELSE Junk

(* Mutant of NewPlayer: g_malloc instead of g_malloc0 leaves garbage.      *)
NewPlayer_uninitialised(id) ==
  [id |-> id, name |-> Null, mode |-> Null, power |-> Null, remote |-> Null,
   title |-> Null, current_title |-> Null]

NewPlayer(id) ==
  [id |-> id, name |-> Null, mode |-> "", power |-> FALSE, remote |-> FALSE,
   title |-> Null, current_title |-> Null]

(* get_players returns FALSE and frees pi, and its caller goes on with the *)
(* array it has.                                                           *)
squeezecenter_get_players_fails ==
  /\ pc' = "status" /\ i' = 1 /\ pi' = << >>
  /\ UNCHANGED players_array

squeezecenter_get_player_id ==
  /\ pc = "id"
  /\ \E line \in Lines :
       /\ squeezecenter_command(line)
       /\ \/ line = Null /\ squeezecenter_get_players_fails
          \/ /\ line # Null
             /\ pi' = Append(pi, NewPlayer(Field(line)))
             /\ pc' = "name"
             /\ UNCHANGED << i, players_array >>
  /\ UNCHANGED << prefs, last, sock, version, players, ti, peer, world, loggedIn, since >>

(* Mutant of FetchedAll: the last player is left out.                      *)
FetchedAll_but_one == i + 1 >= players

FetchedAll == i = players

squeezecenter_get_player_name ==
  /\ pc = "name"
  /\ \E line \in Lines :
       LET named == [pi EXCEPT ![i].name = Field(line)]
       IN  /\ squeezecenter_command(line)
           /\ \/ line = Null /\ squeezecenter_get_players_fails
              \/ /\ line # Null /\ FetchedAll
                 /\ players_array' = named /\ pi' = << >>
                 /\ pc' = "status" /\ i' = 1
              \/ /\ line # Null /\ ~ FetchedAll
                 /\ pi' = named
                 /\ pc' = "id" /\ i' = i + 1
                 /\ UNCHANGED players_array
  /\ UNCHANGED << prefs, last, sock, version, players, ti, peer, world, loggedIn, since >>

(***************************************************************************)
(* The status of each player, and the report                               *)
(***************************************************************************)
(* Mutant of populate: the tag "remote" is not looked at.                  *)
populate_without_remote(player, tags) ==
  [player EXCEPT !.name = tags.name, !.mode = tags.mode, !.power = tags.power,
                 !.title = tags.title, !.remote = FALSE]

(* squeezecenter_get_player_status_populate for each tag of an answer:     *)
(* what the answer does not mention stays.                                 *)
populate(player, tags) ==
  [player EXCEPT !.name = tags.name, !.mode = tags.mode, !.power = tags.power,
                 !.title = tags.title,
                 !.remote = @ \/ tags.remote,
                 !.current_title = IF tags.remote THEN tags.title ELSE @]

(* A player that was not fetched is read beyond the end of the array, or   *)
(* through NULL.                                                           *)
Beyond == IF players_array = Null THEN TRUE ELSE i > Len(players_array)

squeezecenter_get_player_current_status ==
  /\ pc = "status" /\ ~ Beyond
  /\ \E line \in Lines :
       /\ squeezecenter_command(line)
       /\ players_array' =
            IF line # Null /\ line.cmd = "status"
            THEN [players_array EXCEPT ![i] = populate(@, line.tags)]
            ELSE players_array
  /\ \/ i < players /\ i' = i + 1 /\ UNCHANGED pc
     \/ i = players /\ pc' = "report" /\ UNCHANGED i
  /\ UNCHANGED << prefs, last, sock, version, players, pi, ti, peer, world, loggedIn, since >>

ReadsBeyond ==
  /\ pc = "status" /\ Beyond
  /\ pc' = "crashed"
  /\ UNCHANGED << prefs, last, sock, version, players, players_array, i, pi, ti, peer,
                  owed, world, history >>

(* Does a player fit a segment of PREF_SQUEEZECENTER_PLAYERS: "#", "*",    *)
(* "!name", "name" or nothing?                                             *)
Fits(player, segment) ==
  LET meant == segment.who \in {player.name, player.id}
  IN  CASE segment.kind = "#"    -> player.mode = "play" /\ player.power
        [] segment.kind = "*"    -> player.power
        [] segment.kind = "!"    -> meant /\ player.mode = "play"
        [] segment.kind = "name" -> meant
        [] segment.kind = ""     -> FALSE

(* The first player that fits the first segment any player fits, or else   *)
(* the last player.                                                        *)
get_squeezecenter_status ==
  LET all       == SubSeq(players_array, 1, players)
      segment   == SelectInSeq(order, LAMBDA s : \E p \in Range(all) : Fits(p, s))
  IN  IF segment = 0 THEN Last(all)
      ELSE all[SelectInSeq(all, LAMBDA p : Fits(p, order[segment]))]

squeezecenter_status_to_musictracker(pl) ==
  [player |-> pl.name,
   status |-> IF ~ pl.power /\ ~ pl.remote THEN "stopped"
              ELSE CASE pl.mode = "play"  -> "playing"
                     [] pl.mode = "pause" -> "paused"
                     [] OTHER             -> "stopped",
   title  |-> IF pl.remote THEN pl.current_title ELSE pl.title,
   stream |-> pl.remote]

Report ==
  /\ pc = "report"
  /\ Return(squeezecenter_status_to_musictracker(get_squeezecenter_status))
  /\ UNCHANGED << prefs, last, sock, version, players, players_array, i, pi, peer, owed,
                  world, history >>

(***************************************************************************)
(* The preferences.  Only a change of the servers has a consequence.       *)
(***************************************************************************)
cb_squeezecenter_changed ==
  /\ pc = "idle"
  /\ \/ servers' \in ServerPrefs /\ squeezecenter_disconnect /\ UNCHANGED order
     \/ order' \in OrderPrefs /\ UNCHANGED << servers, sock >>
  /\ UNCHANGED << last, version, players, players_array, cursor, ti, peer, owed, world,
                  history >>

(***************************************************************************)
(* Servers, players and network                                            *)
(***************************************************************************)
Around == UNCHANGED << prefs, last, version, players, players_array, cursor, ti, peer,
                       owed, loggedIn, prompt >>

ConnectionSettles ==
  /\ sock = "connecting"
  /\ sock' = IF up[peer] THEN "open" ELSE "refused"
  /\ Around /\ UNCHANGED << world, since >>

ServerStarts(s) ==
  /\ ~ up[s] /\ up' = [up EXCEPT ![s] = TRUE]
  /\ Around /\ UNCHANGED << sock, list, playback, since >>

ServerStops(s) ==
  /\ up[s] /\ up' = [up EXCEPT ![s] = FALSE]
  /\ sock' = IF sock = "open" /\ peer = s THEN "dead" ELSE sock
  /\ Around /\ UNCHANGED << list, playback, since >>

ListChanges(s) ==
  /\ \E boxes \in Lists \ {list[s]} : list' = [list EXCEPT ![s] = boxes]
  /\ known' = known \cup {list'[peer]}
  /\ Around /\ UNCHANGED << sock, up, playback, streamed >>

BoxActs(b) ==
  /\ \E p \in Playbacks \ {playback[b]} : playback' = [playback EXCEPT ![b] = p]
  /\ streamed' = streamed \cup Streamers'
  /\ Around /\ UNCHANGED << sock, up, list, known >>

Init ==
  /\ servers \in ServerPrefs /\ order \in OrderPrefs
  /\ last = 0
  /\ sock = "none" /\ version = FALSE
  /\ players = 0 /\ players_array = Null
  /\ pc = "idle" /\ i = 1 /\ pi = << >>
  /\ ti = Closed
  /\ peer = servers[1] /\ owed = << >>
  /\ up \in [Servers -> BOOLEAN]
  /\ list \in [Servers -> Lists]
  /\ playback \in [Boxes -> Playbacks]
  /\ loggedIn = FALSE /\ prompt = TRUE
  /\ known = {list[peer]} /\ streamed = Streamers

(* get_squeezecenter_info, in the order in which it does things.           *)
get_squeezecenter_info ==
  \/ get_squeezecenter_connection
  \/ squeezecenter_connected
  \/ squeezecenter_do_login
  \/ squeezecenter_get_version
  \/ squeezecenter_get_player_count
  \/ squeezecenter_get_player_id
  \/ squeezecenter_get_player_name
  \/ squeezecenter_get_player_current_status
  \/ ReadsBeyond
  \/ Report

Environment ==
  \/ \E s \in Servers : ServerStarts(s) \/ ServerStops(s) \/ ListChanges(s)
  \/ \E b \in Boxes : BoxActs(b)

Next ==
  \/ get_squeezecenter_info
  \/ cb_squeezecenter_changed
  \/ ConnectionSettles
  \/ Environment

Spec == Init /\ [][Next]_vars

(* The timer keeps polling, and the kernel gives up on a connection that   *)
(* nobody answers.                                                         *)
FairSpec == Spec /\ WF_vars(get_squeezecenter_info) /\ WF_vars(ConnectionSettles)

(***************************************************************************)
(* Properties                                                              *)
(***************************************************************************)
Reports ==
  [player : Names \cup {Null}, status : {"closed", "stopped", "paused", "playing"},
   title : Boxes \cup {Null}, stream : BOOLEAN]

(* Every variable holds a value of the C type it stands for, and no more   *)
(* answers are late than the bound admits.                                 *)
TypeOK ==
  /\ servers \in ServerPrefs /\ order \in OrderPrefs
  /\ last \in Nat
  /\ sock \in {"none", "connecting", "refused", "open", "dead"}
  /\ version \in BOOLEAN
  /\ players \in Nat
  /\ players_array = Null \/ players_array \in Seq(PlayerRecords)
  /\ pc \in {"idle", "connected", "login", "version", "count", "id", "name", "status",
             "report", "crashed"}
  /\ i \in Nat \ {0} /\ pi \in Seq(PlayerRecords)
  /\ ti \in Reports
  /\ peer \in Servers /\ Len(owed) <= MaxLate
  /\ up \in [Servers -> BOOLEAN] /\ list \in [Servers -> Lists]
  /\ playback \in [Boxes -> Playbacks]
  /\ {loggedIn, prompt} \subseteq BOOLEAN
  /\ known \subseteq Lists /\ streamed \subseteq Boxes

(* On every connection, also one made after an error, a timeout or a       *)
(* change of preferences, the login comes before anything else and has     *)
(* been accepted: the version left from the connection before does not     *)
(* make get_squeezecenter_info skip it.                                    *)
LoginFirst ==
  pc \in {"version", "count", "id", "name", "status", "report"} => loggedIn

(* players_array is as long as players says while it is walked, whatever   *)
(* servers and lists came and went before, as long as the server at hand   *)
(* has let no command time out.                                            *)
ArrayCoversPlayers == prompt => pc # "crashed"

(* An entry that is the peer's own: its id stood in this place of a list   *)
(* the peer has had on this connection, and it says that its box plays a   *)
(* stream only if the box has played one since.                            *)
OwnEntry(player, k) ==
  /\ \E boxes \in known : player.id = BoxAt(boxes, k)
  /\ player.remote => player.id \in streamed

(* What the status of a box should leave in its entry.  That it does not   *)
(* play a stream any more is not among it: the answers then no longer say  *)
(* "remote", and populate keeps what they said.                            *)
Describes(player) ==
  LET p == playback[player.id]
  IN  /\ player.name = player.id /\ player.title = player.id
      /\ player.mode = p.mode /\ player.power = p.power
      /\ p.remote => player.remote /\ player.current_title = player.id

(* As long as the server at hand answers in time, an entry whose status    *)
(* has been asked for is the server's own, and describes its box if the    *)
(* server still has it: no entry, name or stream is left over of another   *)
(* server or of a connection before, though the list is only fetched again *)
(* when its length differs and populate overwrites no more than it is told.*)
EntriesTellTruth ==
  [][squeezecenter_get_player_current_status /\ prompt' =>
       LET player == players_array'[i]
       IN  /\ OwnEntry(player, i)
           /\ player.id \in Range(list[peer]) => Describes(player)]_vars

Quiet == <>[][~ (Environment \/ cb_squeezecenter_changed)]_vars

(* Once no server runs any more, what they said last is not reported for   *)
(* ever: the answers still in the socket run out and the poll ends early.  *)
DownIsClosed ==
  Quiet /\ <>[](\A s \in Servers : ~ up[s]) => <>[](pc = "crashed" \/ ti = Closed)

Serving(s) == up[s] /\ s \in Resolvable \cap Accepting

(* If one of the configured servers runs, takes the login and answers in   *)
(* time, the plugin ends up connected to such a one, past those that do    *)
(* not and past the answers that were late before.                         *)
ReachesServer ==
  Quiet /\ <>[]prompt =>
    <>[]((\E s \in Range(servers) : Serving(s)) => sock = "open" /\ Serving(peer))

(***************************************************************************)
(* What the code says of itself, taken at its word; TLC refutes it.        *)
(***************************************************************************)
(* get_squeezecenter_info: "poll all players!".  When get_players fails,   *)
(* the array is missing, too short, or another server's.                   *)
PollsAllPlayers ==
  pc = "status" => players_array # Null /\ Len(players_array) >= players
=============================================================================
