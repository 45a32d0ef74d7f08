------------------------ MODULE SqueezeCenter_proofs ------------------------
(***************************************************************************)
(* Theorems about SqueezeCenter, for any servers, players and lists, and   *)
(* any number of answers on their way.                                     *)
(***************************************************************************)
EXTENDS SqueezeCenter, SequenceTheorems, WellFoundedInduction, TLAPS

Asking == {"version", "count", "id", "name", "status", "report"}

(* What makes the version a witness of the login: it is kept while the     *)
(* socket is, and forgotten when a new one is made.                        *)
LoginInv ==
  /\ version /\ sock # "none" => loggedIn
  /\ pc \in Asking => loggedIn
  /\ pc = "login" => ~ version
  /\ pc \in Asking \cup {"connected", "login"} => sock # "none"

LEMMA LoginInit == Init => LoginInv
BY DEF Init, LoginInv, Asking

(* Past the login, a command changes neither the version nor the login.    *)
LEMMA LoginStep == LoginInv /\ [Next]_vars => LoginInv'
<1> SUFFICES ASSUME LoginInv, [Next]_vars PROVE LoginInv'
  OBVIOUS
<1> USE DEF LoginInv, Asking, Return, squeezecenter_disconnect
<1>1. CASE get_squeezecenter_connection
  <2>1. CASE sock # "none"
    BY <1>1, <2>1 DEF get_squeezecenter_connection, history
  <2>2. CASE sock = "none"
    BY <1>1, <2>2 DEF get_squeezecenter_connection, squeezecenter_connect, history
  <2>3. QED
    BY <2>1, <2>2
<1>2. CASE squeezecenter_connected
  BY <1>2 DEF squeezecenter_connected, history
<1>3. CASE squeezecenter_do_login
  BY <1>3 DEF squeezecenter_do_login
<1>4. CASE squeezecenter_get_version
  BY <1>4 DEF squeezecenter_get_version
<1>5. CASE squeezecenter_get_player_count
  BY <1>5 DEF squeezecenter_get_player_count, CountFailed
<1>6. CASE squeezecenter_get_player_id
  BY <1>6 DEF squeezecenter_get_player_id, squeezecenter_get_players_fails
<1>7. CASE squeezecenter_get_player_name
  BY <1>7 DEF squeezecenter_get_player_name, squeezecenter_get_players_fails
<1>8. CASE squeezecenter_get_player_current_status
  BY <1>8 DEF squeezecenter_get_player_current_status
<1>9. CASE ReadsBeyond \/ Report
  BY <1>9 DEF ReadsBeyond, Report, history
<1>10. CASE cb_squeezecenter_changed
  BY <1>10 DEF cb_squeezecenter_changed, history, cursor
<1>11. CASE ConnectionSettles \/ Environment
  BY <1>11 DEF ConnectionSettles, Environment, ServerStarts, ServerStops, ListChanges,
               BoxActs, Around, cursor
<1>12. CASE UNCHANGED vars
  BY <1>12 DEF vars, cursor, history
<1>13. QED
  BY <1>1, <1>2, <1>3, <1>4, <1>5, <1>6, <1>7, <1>8, <1>9, <1>10, <1>11, <1>12
  DEF Next, get_squeezecenter_info

(* No command is sent on a connection that has not taken the login.        *)
THEOREM LoggedIn == Spec => []LoginFirst
<1>1. LoginInv => LoginFirst
  BY DEF LoginInv, LoginFirst, Asking
<1>2. QED
  BY <1>1, LoginInit, LoginStep, PTL DEF Spec

(***************************************************************************)
(* The array of players                                                    *)
(***************************************************************************)
TagsRecords == [name : Boxes, mode : Modes, power : BOOLEAN, title : Boxes, remote : BOOLEAN]

Answered ==
  [cmd : {"login"}, accepted : BOOLEAN] \cup [cmd : {"version", "unknown player"}]
    \cup [cmd : {"count"}, n : Nat] \cup [cmd : {"id", "name"}, who : Names]
    \cup [cmd : {"status"}, tags : TagsRecords]

(* As long as no command has timed out, no answer is left over.            *)
OwedInv == owed \in Seq(Answered) /\ (prompt => owed = << >>)

(* Then players tells how long the array is, but for the time in which it  *)
(* is fetched; and it is 0 again on a new connection, whose server is the  *)
(* one that may make it believed again.                                    *)
Covered == players_array # Null /\ Len(players_array) = players

WalkInv ==
  /\ pc \in {"id", "name", "status", "report"} => players > 0
  /\ pc = "id" => Len(pi) = i - 1
  /\ pc = "name" => Len(pi) = i
  /\ pc \notin {"id", "name"} => pi = << >>
  /\ pc = "status" => i <= players
  /\ pc = "report" => players_array # Null /\ players <= Len(players_array)
  /\ prompt /\ players > 0 /\ pc \notin {"id", "name"} => Covered
  /\ prompt => pc # "crashed"

PlayersInv == TypeOK /\ OwedInv /\ WalkInv

LEMMA LeastOf ==
  ASSUME NEW S \in SUBSET Nat, S # {}
  PROVE  Min(S) \in S
<1>1. PICK m \in S : \A k \in S : << k, m >> \notin OpToRel(<, Nat)
  BY WFMin, NatLessThanWellFounded, Zenon
<1>2. \A k \in S : ~ (k < m)
  BY <1>1, Zenon DEF OpToRel
<1>3. \A k \in S : m <= k
  BY <1>2
<1>4. QED
  BY <1>3 DEF Min

(***************************************************************************)
(* A command                                                               *)
(***************************************************************************)
Commands == {"login", "version", "count", "id", "name", "status"}

LEMMA AnswerTyped ==
  ASSUME TypeOK, pc \in Commands
  PROVE  Answer \in Answered
<1>1. list[peer] \in Seq(Boxes)
  BY SqueezeCenterAssumption DEF TypeOK
<1>2. /\ Len(list[peer]) \in Nat /\ DOMAIN list[peer] = 1 .. Len(list[peer])
      /\ \A k \in 1 .. Len(list[peer]) : list[peer][k] \in Boxes
  BY <1>1, LenProperties
<1>3. CASE pc = "login"
  BY <1>3 DEF Answer, Answered
<1>4. CASE pc = "version"
  BY <1>4 DEF Answer, Answered
<1>5. CASE pc = "count"
  BY <1>2, <1>5 DEF Answer, Answered
<1>6. CASE pc \in {"id", "name"}
  <2> DEFINE who == BoxAt(list[peer], i)
  <2>1. who \in Names
    BY <1>2 DEF TypeOK, Names, BoxAt
  <2>2. Answer = [cmd |-> pc, who |-> who]
    BY <1>6 DEF Answer
  <2> HIDE DEF who
  <2>3. QED
    BY <1>6, <2>1, <2>2 DEF Answered
<1>7. CASE pc = "status"
  <2> DEFINE b == players_array[i].id
  <2>1. CASE b \in Range(list[peer])
    <3>1. b \in Boxes
      BY <1>2, <2>1 DEF Range
    <3>2. playback[b] \in [mode : Modes, power : BOOLEAN, remote : BOOLEAN]
      BY <3>1, SqueezeCenterAssumption DEF TypeOK
    <3>3. Tags(b) \in TagsRecords
      BY <3>1, <3>2 DEF Tags, TagsRecords
    <3>4. Answer = [cmd |-> "status", tags |-> Tags(b)]
      BY <1>7, <2>1 DEF Answer
    <3>5. QED
      BY <3>3, <3>4 DEF Answered
  <2>2. CASE b \notin Range(list[peer])
    <3>1. Answer = [cmd |-> "unknown player"]
      BY <1>7, <2>2 DEF Answer
    <3>2. QED
      BY <3>1 DEF Answered
  <2>3. QED
    BY <2>1, <2>2
<1>8. QED
  BY <1>3, <1>4, <1>5, <1>6, <1>7 DEF Commands

(* What comes of a command: a line that was due, or none, and then the     *)
(* server is not prompt.                                                   *)
LEMMA Commanded ==
  ASSUME TypeOK, OwedInv, pc \in Commands, NEW line \in Lines, squeezecenter_command(line)
  PROVE  /\ line # Null => line \in Answered
         /\ OwedInv' /\ Len(owed') <= MaxLate
         /\ prompt' \in BOOLEAN
         /\ prompt' => prompt /\ line # Null
<1>1. /\ Answer \in Answered /\ owed \in Seq(Answered) /\ Len(owed) \in Nat
      /\ Len(owed) <= MaxLate /\ MaxLate \in Nat
  BY AnswerTyped, LenProperties, SqueezeCenterAssumption DEF OwedInv, TypeOK
<1>2. Append(owed, Answer) \in Seq(Answered) /\ Len(Append(owed, Answer)) = Len(owed) + 1
  BY <1>1, AppendProperties
<1>3. CASE line = Null
  <2>1. Fails
    BY <1>3 DEF squeezecenter_command
  <2>2. owed' \in Seq(Answered) /\ Len(owed') <= MaxLate
    <3>1. CASE sock = "open" /\ Len(owed) < MaxLate /\ owed' = Append(owed, Answer)
      BY <1>1, <1>2, <3>1
    <3>2. CASE owed' = owed
      BY <1>1, <3>2
    <3>3. QED
      BY <2>1, <3>1, <3>2 DEF Fails
  <2>3. QED
    BY <1>3, <2>1, <2>2 DEF Fails, OwedInv
<1>4. CASE line # Null
  <2>1. Sequel \in Seq(Answered) /\ Len(Sequel) \in Nat /\ Len(Sequel) <= Len(owed) + 1
    BY <1>1, <1>2, LenProperties DEF Sequel
  <2>2. Reads(line)
    BY <1>4 DEF squeezecenter_command
  <2>3. line \in Answered
    BY <2>1, <2>2, HeadTailProperties DEF Reads
  <2>4. PICK k \in 1 .. Len(Sequel) : owed' = SubSeq(Sequel, k + 1, Len(Sequel))
    BY <2>2 DEF Reads
  <2>5. owed' \in Seq(Answered) /\ Len(owed') = Len(Sequel) - k
    <3>1. /\ k + 1 \in Int /\ Len(Sequel) \in Int
          /\ \A j \in k + 1 .. Len(Sequel) : Sequel[j] \in Answered
      BY <2>1, LenProperties
    <3>2. /\ owed' \in Seq(Answered)
          /\ Len(owed') = IF k + 1 <= Len(Sequel) THEN Len(Sequel) - (k + 1) + 1 ELSE 0
      BY <2>4, <3>1, SubSeqProperties
    <3>3. QED
      BY <2>1, <3>2
  <2>6. Len(owed') <= Len(owed)
    BY <1>1, <2>1, <2>5
  <2>7. prompt => owed' = << >>
    <3> SUFFICES ASSUME prompt PROVE owed' = << >>
      OBVIOUS
    <3>1. Len(owed) = 0
      BY EmptySeq DEF OwedInv
    <3>2. Len(owed') = 0
      BY <2>1, <2>5, <2>6, <3>1
    <3>3. QED
      BY <2>5, <3>2, EmptySeq
  <2>8. QED
    BY <1>1, <1>4, <2>2, <2>3, <2>5, <2>6, <2>7 DEF Reads, OwedInv, TypeOK
<1>5. QED
  BY <1>3, <1>4

(***************************************************************************)
(* The steps of a poll                                                     *)
(***************************************************************************)
LEMMA WalkInit == Init => PlayersInv
<1> SUFFICES ASSUME Init PROVE PlayersInv
  OBVIOUS
<1>1. /\ << >> \in Seq(Answered) /\ << >> \in Seq(PlayerRecords) /\ Len(<< >>) = 0
      /\ \A s \in Seq(Servers) : s # << >> => Len(s) \in Nat \ {0}
  BY EmptySeq
<1>2. peer \in Servers
  <2>1. servers \in Seq(Servers) /\ servers # << >>
    BY SqueezeCenterAssumption DEF Init
  <2>2. 1 \in 1 .. Len(servers)
    BY <1>1, <2>1
  <2>3. QED
    BY <2>1, <2>2, LenProperties DEF Init
<1>3. Closed \in Reports
  BY DEF Closed, Reports
<1>4. TypeOK
  <2>1. Len(owed) <= MaxLate
    <3>1. MaxLate \in Nat
      BY SqueezeCenterAssumption
    <3>2. Len(owed) = 0
      BY <1>1 DEF Init
    <3>3. QED
      BY <3>1, <3>2
  <2>2. pi \in Seq(PlayerRecords) /\ last \in Nat /\ players \in Nat /\ i \in Nat \ {0}
    BY <1>1 DEF Init
  <2>3. /\ {loggedIn, prompt} \subseteq BOOLEAN
        /\ known \subseteq Lists /\ streamed \subseteq Boxes
    BY <1>2 DEF Init, Streamers
  <2>4. QED
    BY <1>2, <1>3, <2>1, <2>2, <2>3 DEF Init, TypeOK
<1>5. OwedInv /\ WalkInv
  BY <1>1 DEF Init, OwedInv, WalkInv
<1>6. QED
  BY <1>4, <1>5 DEF PlayersInv

(* What does not change when a command only talks to the server.           *)
LEMMA ConnectionStep ==
  ASSUME PlayersInv, get_squeezecenter_connection
  PROVE  PlayersInv'
<1> USE DEF PlayersInv
<1>0. /\ pc = "idle" /\ UNCHANGED << prefs, players_array, i, pi, world >>
      /\ Closed \in Reports
  BY DEF get_squeezecenter_connection, Closed, Reports
<1>1. CASE sock # "none"
  BY <1>0, <1>1
  DEF get_squeezecenter_connection, history, since, prefs, world, TypeOK, OwedInv, WalkInv, Covered
<1>2. CASE sock = "none"
  <2> DEFINE tried == {k \in 1 .. Len(servers) : k > last}
             found == {k \in tried : servers[k] \in Resolvable}
  <2>0. servers \in Seq(Servers) /\ Len(servers) \in Nat
    BY SqueezeCenterAssumption, LenProperties DEF TypeOK
  <2>1. CASE found # {}
    <3>1. /\ squeezecenter_connect(Min(found))
          /\ pc' = "connected" /\ owed' = << >> /\ loggedIn' = FALSE /\ prompt' = TRUE
          /\ known' = {list[peer']} /\ streamed' = Streamers /\ UNCHANGED ti
      BY <1>2, <2>1 DEF get_squeezecenter_connection
    <3>2. Min(found) \in 1 .. Len(servers)
      <4>1. found \in SUBSET Nat
        BY <2>0
      <4>2. Min(found) \in found
        BY <2>1, <4>1, LeastOf
      <4>3. QED
        BY <4>2
    <3> HIDE DEF tried, found
    <3> DEFINE k == Min(found)
    <3>3. servers[k] \in Servers /\ k \in Nat
      BY <2>0, <3>2, LenProperties
    <3> HIDE DEF k
    <3>4. /\ sock' \in {"none", "connecting", "refused", "open", "dead"}
          /\ version' = FALSE /\ players' = 0 /\ peer' \in Servers /\ last' \in Nat
      BY <3>1, <3>3 DEF squeezecenter_connect, k
    <3>5. /\ owed' \in Seq(Answered) /\ Len(owed') = 0 /\ Len(owed') <= MaxLate
      <4>1. owed' \in Seq(Answered) /\ Len(owed') = 0
        BY <3>1, EmptySeq
      <4>2. MaxLate \in Nat
        BY SqueezeCenterAssumption
      <4>3. QED
        BY <4>1, <4>2
    <3>6. TypeOK'
      <4>1. /\ {loggedIn', prompt'} \subseteq BOOLEAN /\ players' \in Nat
            /\ known' \subseteq Lists /\ streamed' \subseteq Boxes
        BY <1>0, <3>1, <3>4 DEF Streamers, TypeOK
      <4>2. QED
        BY <1>0, <3>1, <3>4, <3>5, <4>1 DEF TypeOK, prefs, world
    <3>7. OwedInv' /\ WalkInv'
      BY <1>0, <3>1, <3>4, <3>5 DEF OwedInv, WalkInv
    <3>8. QED
      BY <3>6, <3>7
  <2>2. CASE found = {}
    <3>1. /\ last' = 0 /\ version' = (version /\ tried = {})
          /\ players' = IF tried = {} THEN players ELSE 0
          /\ Return(Closed) /\ UNCHANGED << sock, peer, owed, history >>
      BY <1>2, <2>2 DEF get_squeezecenter_connection
    <3>2. players' \in {0, players} /\ version' \in BOOLEAN
      BY <3>1
    <3>3. QED
      BY <1>0, <3>1, <3>2
      DEF Return, history, since, prefs, world, TypeOK, OwedInv, WalkInv, Covered
  <2>3. QED
    BY <2>1, <2>2
<1>3. QED
  BY <1>1, <1>2

LEMMA ConnectedStep == ASSUME PlayersInv, squeezecenter_connected PROVE PlayersInv'
<1>1. Closed \in Reports
  BY DEF Closed, Reports
<1>2. QED
  BY <1>1 DEF squeezecenter_connected, squeezecenter_disconnect, Return, prefs, world, since, history,
     PlayersInv, TypeOK, OwedInv, WalkInv, Covered

LEMMA LoginCommandStep ==
  ASSUME PlayersInv, squeezecenter_do_login \/ squeezecenter_get_version
  PROVE  PlayersInv'
<1>1. Closed \in Reports
  BY DEF Closed, Reports
<1>2. PICK line \in Lines : squeezecenter_command(line)
  BY DEF squeezecenter_do_login, squeezecenter_get_version
<1>3. pc \in Commands
  BY DEF squeezecenter_do_login, squeezecenter_get_version, Commands
<1>4. /\ OwedInv' /\ Len(owed') <= MaxLate /\ prompt' \in BOOLEAN
      /\ prompt' => prompt
  BY <1>2, <1>3, Commanded DEF PlayersInv
<1>5. /\ loggedIn' \in BOOLEAN /\ version' \in BOOLEAN
      /\ pc' \in {"idle", "version", "count"} /\ ti' \in Reports
      /\ sock' \in {"none", sock}
  BY <1>1
  DEF squeezecenter_do_login, squeezecenter_get_version, squeezecenter_disconnect, Return,
      PlayersInv, TypeOK
<1>6. /\ UNCHANGED << servers, order, last, players, players_array, i, pi, peer, up, list,
                      playback, known, streamed >>
      /\ pc \in {"login", "version"}
  BY DEF squeezecenter_do_login, squeezecenter_get_version, prefs, world, since
<1>7. QED
  BY <1>4, <1>5, <1>6 DEF PlayersInv, TypeOK, WalkInv, Covered

LEMMA CountStep == ASSUME PlayersInv, squeezecenter_get_player_count PROVE PlayersInv'
<1>1. Closed \in Reports
  BY DEF Closed, Reports
<1>2. PICK line \in Lines : \E n \in ParsedCount(line) :
        /\ squeezecenter_command(line)
        /\ \/ n = Null /\ CountFailed /\ UNCHANGED players
           \/ n = 0 /\ players' = 0 /\ Return(Closed) /\ UNCHANGED << sock, i >>
           \/ /\ n # Null /\ n > 0
              /\ players' = n
              /\ i' = 1
              /\ \/ (players_array = Null \/ players # n) /\ pc' = "id"
                 \/ players_array # Null /\ players = n /\ pc' = "status"
              /\ UNCHANGED << sock, ti >>
  BY DEF squeezecenter_get_player_count
<1>3. PICK n \in ParsedCount(line) :
        /\ squeezecenter_command(line)
        /\ \/ n = Null /\ CountFailed /\ UNCHANGED players
           \/ n = 0 /\ players' = 0 /\ Return(Closed) /\ UNCHANGED << sock, i >>
           \/ /\ n # Null /\ n > 0
              /\ players' = n
              /\ i' = 1
              /\ \/ (players_array = Null \/ players # n) /\ pc' = "id"
                 \/ players_array # Null /\ players = n /\ pc' = "status"
              /\ UNCHANGED << sock, ti >>
  BY <1>2
<1>4. /\ pc = "count" /\ pc \in Commands
      /\ UNCHANGED << servers, order, last, version, players_array, pi, peer, up, list, playback,
                      loggedIn, known, streamed >>
  BY DEF squeezecenter_get_player_count, prefs, world, since, Commands
<1>5. /\ OwedInv' /\ Len(owed') <= MaxLate /\ prompt' \in BOOLEAN
      /\ prompt' => prompt
      /\ line # Null => line \in Answered
  BY <1>3, <1>4, Commanded DEF PlayersInv
<1>6. n \in Nat \cup {Null}
  BY <1>5, SqueezeCenterAssumption DEF ParsedCount, Answered
<1>7. pi = << >> /\ Len(<< >>) = 0
  BY <1>4, EmptySeq DEF PlayersInv, WalkInv
<1>8. CASE n = Null /\ CountFailed /\ UNCHANGED players
  BY <1>1, <1>4, <1>5, <1>8
  DEF CountFailed, squeezecenter_disconnect, Return, PlayersInv, TypeOK, WalkInv, Covered
<1>9. CASE n = 0 /\ players' = 0 /\ Return(Closed) /\ UNCHANGED << sock, i >>
  BY <1>1, <1>4, <1>5, <1>9 DEF Return, PlayersInv, TypeOK, WalkInv, Covered
<1>10. CASE /\ n # Null /\ n > 0
            /\ players' = n
            /\ i' = 1
            /\ \/ (players_array = Null \/ players # n) /\ pc' = "id"
               \/ players_array # Null /\ players = n /\ pc' = "status"
            /\ UNCHANGED << sock, ti >>
  <2>1. TypeOK'
    <3>1. players' \in Nat
      BY <1>6, <1>10
    <3>2. i' \in Nat \ {0} /\ pc' \in {"id", "status"}
      BY <1>10
    <3>3. {loggedIn', prompt'} \subseteq BOOLEAN
      BY <1>4, <1>5, <1>10 DEF PlayersInv, TypeOK
    <3>4. QED
      BY <1>4, <1>5, <1>10, <3>1, <3>2, <3>3 DEF PlayersInv, TypeOK
  <2>2. WalkInv'
    BY <1>4, <1>5, <1>6, <1>7, <1>10 DEF PlayersInv, WalkInv, Covered
  <2>3. QED
    BY <1>5, <2>1, <2>2 DEF PlayersInv
<1>11. QED
  BY <1>3, <1>8, <1>9, <1>10

LEMMA AnsweredFields ==
  ASSUME NEW line \in Answered, pc \in {"id", "name"}
  PROVE  /\ Field(line) \in Names
         /\ NewPlayer(Field(line)) \in PlayerRecords
<1>1. Field(line) \in Names
  BY DEF Field, Answered, Names
<1>2. QED
  BY <1>1 DEF NewPlayer, PlayerRecords

LEMMA FailedFetch ==
  ASSUME PlayersInv, squeezecenter_get_players_fails, players > 0,
         OwedInv', Len(owed') <= MaxLate, prompt' = FALSE,
         UNCHANGED << prefs, last, sock, version, players, ti, peer, world, loggedIn, since >>
  PROVE  PlayersInv'
<1>1. << >> \in Seq(PlayerRecords)
  BY EmptySeq
<1>2. TypeOK'
  <2>1. {loggedIn', prompt'} \subseteq BOOLEAN
    BY DEF PlayersInv, TypeOK
  <2>2. pi' \in Seq(PlayerRecords) /\ pc' = "status" /\ i' = 1 /\ players_array' = players_array
    BY <1>1 DEF squeezecenter_get_players_fails
  <2>3. QED
    BY <2>1, <2>2 DEF prefs, world, since, PlayersInv, TypeOK
<1>3. players \in Nat
  BY DEF PlayersInv, TypeOK
<1>4. WalkInv'
  BY <1>3 DEF squeezecenter_get_players_fails, WalkInv, Covered
<1>5. QED
  BY <1>2, <1>4 DEF PlayersInv

LEMMA IdStep == ASSUME PlayersInv, squeezecenter_get_player_id PROVE PlayersInv'
<1>0. /\ pc = "id" /\ pc \in Commands /\ players > 0 /\ players \in Nat
      /\ Len(pi) = i - 1 /\ pi \in Seq(PlayerRecords) /\ i \in Nat \ {0}
      /\ UNCHANGED << prefs, last, sock, version, players, ti, peer, world, loggedIn, since >>
  BY DEF squeezecenter_get_player_id, Commands, PlayersInv, TypeOK, WalkInv
<1>1. PICK line \in Lines :
        /\ squeezecenter_command(line)
        /\ \/ line = Null /\ squeezecenter_get_players_fails
           \/ /\ line # Null
              /\ pi' = Append(pi, NewPlayer(Field(line)))
              /\ pc' = "name"
              /\ UNCHANGED << i, players_array >>
  BY DEF squeezecenter_get_player_id
<1>2. /\ OwedInv' /\ Len(owed') <= MaxLate /\ prompt' \in BOOLEAN
      /\ prompt' => prompt /\ line # Null
      /\ line # Null => line \in Answered
  BY <1>0, <1>1, Commanded DEF PlayersInv
<1>3. CASE line = Null
  BY <1>0, <1>1, <1>2, <1>3, FailedFetch
<1>4. CASE line # Null
  <2>1. NewPlayer(Field(line)) \in PlayerRecords
    BY <1>0, <1>2, <1>4, AnsweredFields
  <2>2. /\ pi' = Append(pi, NewPlayer(Field(line))) /\ pc' = "name"
        /\ UNCHANGED << i, players_array >>
    BY <1>1, <1>4
  <2>3. pi' \in Seq(PlayerRecords) /\ Len(pi') = i
    BY <1>0, <2>1, <2>2, AppendProperties
  <2>4. TypeOK'
    BY <1>0, <1>2, <2>2, <2>3 DEF prefs, world, since, PlayersInv, TypeOK
  <2>5. WalkInv'
    BY <1>0, <2>2, <2>3 DEF WalkInv
  <2>6. QED
    BY <1>2, <2>4, <2>5 DEF PlayersInv
<1>5. QED
  BY <1>3, <1>4

LEMMA NameStep == ASSUME PlayersInv, squeezecenter_get_player_name PROVE PlayersInv'
<1>0. /\ pc = "name" /\ pc \in Commands /\ players > 0 /\ players \in Nat
      /\ Len(pi) = i /\ pi \in Seq(PlayerRecords) /\ i \in Nat \ {0}
      /\ UNCHANGED << prefs, last, sock, version, players, ti, peer, world, loggedIn, since >>
  BY DEF squeezecenter_get_player_name, Commands, PlayersInv, TypeOK, WalkInv
<1>1. PICK line \in Lines :
        /\ squeezecenter_command(line)
        /\ \/ line = Null /\ squeezecenter_get_players_fails
           \/ /\ line # Null /\ FetchedAll
              /\ players_array' = [pi EXCEPT ![i].name = Field(line)] /\ pi' = << >>
              /\ pc' = "status" /\ i' = 1
           \/ /\ line # Null /\ ~ FetchedAll
              /\ pi' = [pi EXCEPT ![i].name = Field(line)]
              /\ pc' = "id" /\ i' = i + 1
              /\ UNCHANGED players_array
  BY DEF squeezecenter_get_player_name
<1>2. /\ OwedInv' /\ Len(owed') <= MaxLate /\ prompt' \in BOOLEAN
      /\ prompt' => prompt /\ line # Null
      /\ line # Null => line \in Answered
  BY <1>0, <1>1, Commanded DEF PlayersInv
<1>3. CASE line = Null
  BY <1>0, <1>1, <1>2, <1>3, FailedFetch
<1>4. CASE line # Null
  <2> DEFINE player == [pi[i] EXCEPT !.name = Field(line)]
             named  == [pi EXCEPT ![i] = player]
  <2>1. i \in 1 .. Len(pi)
    BY <1>0
  <2>2. player \in PlayerRecords
    <3>1. pi[i] \in PlayerRecords
      BY <1>0, <2>1, LenProperties
    <3>2. Field(line) \in Names
      BY <1>0, <1>2, <1>4, AnsweredFields
    <3>3. QED
      BY <3>1, <3>2 DEF PlayerRecords
  <2>3. named = [pi EXCEPT ![i].name = Field(line)]
    OBVIOUS
  <2> HIDE DEF player
  <2>4. named \in Seq(PlayerRecords) /\ Len(named) = i
    BY <1>0, <2>1, <2>2, ExceptSeq
  <2>5. named # Null
    BY <2>4, SqueezeCenterAssumption
  <2>6. << >> \in Seq(PlayerRecords) /\ Len(<< >>) = 0
    BY EmptySeq
  <2>7. \/ /\ FetchedAll
           /\ players_array' = named /\ pi' = << >>
           /\ pc' = "status" /\ i' = 1
        \/ /\ ~ FetchedAll
           /\ pi' = named
           /\ pc' = "id" /\ i' = i + 1
           /\ UNCHANGED players_array
    BY <1>1, <1>4, <2>3
  <2> HIDE DEF named
  <2>8. TypeOK'
    <3>1. players_array' = Null \/ players_array' \in Seq(PlayerRecords)
      BY <2>4, <2>7 DEF PlayersInv, TypeOK
    <3>2. pi' \in Seq(PlayerRecords)
      BY <2>4, <2>6, <2>7
    <3>3. i' \in Nat \ {0} /\ pc' \in {"status", "id"}
      BY <1>0, <2>7
    <3>4. QED
      BY <1>0, <1>2, <3>1, <3>2, <3>3 DEF prefs, world, since, PlayersInv, TypeOK
  <2>9. WalkInv'
    BY <1>0, <2>4, <2>5, <2>6, <2>7 DEF FetchedAll, WalkInv, Covered
  <2>10. QED
    BY <1>2, <2>8, <2>9 DEF PlayersInv
<1>5. QED
  BY <1>3, <1>4

LEMMA StatusStep ==
  ASSUME PlayersInv, squeezecenter_get_player_current_status
  PROVE  PlayersInv'
<1>0. /\ pc = "status" /\ pc \in Commands /\ players > 0 /\ players \in Nat /\ i <= players
      /\ pi = << >> /\ i \in Nat \ {0}
      /\ UNCHANGED << prefs, last, sock, version, players, pi, ti, peer, world, loggedIn, since >>
  BY DEF squeezecenter_get_player_current_status, Commands, PlayersInv, TypeOK, WalkInv
<1>1. /\ players_array # Null /\ players_array \in Seq(PlayerRecords)
      /\ i \in 1 .. Len(players_array) /\ Len(players_array) \in Nat
  <2>1. players_array # Null /\ ~ (i > Len(players_array))
    BY DEF squeezecenter_get_player_current_status, Beyond
  <2>2. players_array \in Seq(PlayerRecords) /\ Len(players_array) \in Nat
    BY <2>1, LenProperties DEF PlayersInv, TypeOK
  <2>3. QED
    BY <1>0, <2>1, <2>2
<1>2. PICK line \in Lines :
        /\ squeezecenter_command(line)
        /\ players_array' =
             IF line # Null /\ line.cmd = "status"
             THEN [players_array EXCEPT ![i] = populate(players_array[i], line.tags)]
             ELSE players_array
  BY DEF squeezecenter_get_player_current_status
<1>3. /\ OwedInv' /\ Len(owed') <= MaxLate /\ prompt' \in BOOLEAN
      /\ prompt' => prompt /\ line # Null
      /\ line # Null => line \in Answered
  BY <1>0, <1>2, Commanded DEF PlayersInv
<1>4. players_array' \in Seq(PlayerRecords) /\ Len(players_array') = Len(players_array)
  <2>1. CASE line # Null /\ line.cmd = "status"
    <3>1. line.tags \in TagsRecords /\ players_array[i] \in PlayerRecords
      BY <1>1, <1>3, <2>1, LenProperties DEF Answered
    <3>2. populate(players_array[i], line.tags) \in PlayerRecords
      BY <3>1 DEF populate, TagsRecords, PlayerRecords, Names
    <3>3. QED
      BY <1>1, <1>2, <2>1, <3>2, ExceptSeq
  <2>2. CASE ~ (line # Null /\ line.cmd = "status")
    BY <1>1, <1>2, <2>2
  <2>3. QED
    BY <2>1, <2>2
<1>5. players_array' # Null
  BY <1>4, SqueezeCenterAssumption
<1>6. \/ i < players /\ i' = i + 1 /\ UNCHANGED pc
      \/ i = players /\ pc' = "report" /\ UNCHANGED i
  BY DEF squeezecenter_get_player_current_status
<1>7. TypeOK'
  BY <1>0, <1>3, <1>4, <1>6 DEF prefs, world, since, PlayersInv, TypeOK
<1>8. WalkInv'
  BY <1>0, <1>1, <1>3, <1>4, <1>5, <1>6 DEF PlayersInv, WalkInv, Covered
<1>9. QED
  BY <1>3, <1>7, <1>8 DEF PlayersInv

(* The step that no prompt server lets happen.                             *)
LEMMA BeyondStep == ASSUME PlayersInv, ReadsBeyond PROVE PlayersInv'
<1>1. /\ pc = "status" /\ Beyond /\ pc' = "crashed"
      /\ players \in Nat /\ i \in Nat /\ i <= players /\ players > 0
  BY DEF ReadsBeyond, PlayersInv, TypeOK, WalkInv
<1>2. ~ prompt
  BY <1>1 DEF Beyond, PlayersInv, WalkInv, Covered
<1>3. QED
  BY <1>1, <1>2
  DEF ReadsBeyond, prefs, world, since, history, PlayersInv, TypeOK, OwedInv, WalkInv, Covered

(* The player chosen is one of those asked.                                *)
LEMMA ChosenTyped ==
  ASSUME PlayersInv, pc = "report"
  PROVE  get_squeezecenter_status \in PlayerRecords
<1> DEFINE all == SubSeq(players_array, 1, players)
           I == {k \in 1 .. Len(order) : \E p \in Range(all) : Fits(p, order[k])}
           segment == IF I # {} THEN Min(I) ELSE 0
           J == {k \in 1 .. Len(all) : Fits(all[k], order[segment])}
<1>1. /\ players \in Nat \ {0} /\ players_array \in Seq(PlayerRecords)
      /\ Len(players_array) \in Nat /\ players <= Len(players_array)
  BY LenProperties DEF PlayersInv, TypeOK, WalkInv
<1>2. all \in Seq(PlayerRecords) /\ Len(all) = players
  <2>1. \A k \in 1 .. players : players_array[k] \in PlayerRecords
    BY <1>1, LenProperties
  <2>2. all \in Seq(PlayerRecords) /\ Len(all) = IF 1 <= players THEN players - 1 + 1 ELSE 0
    BY <1>1, <2>1, SubSeqProperties
  <2>3. QED
    BY <1>1, <2>2
<1>3. order \in Seq([kind : {"#", "*", "!", "name", ""}, who : Names \cup {Null}])
  BY SqueezeCenterAssumption DEF PlayersInv, TypeOK
<1>4. Len(order) \in Nat
  BY <1>3, LenProperties
<1>5. get_squeezecenter_status =
        IF segment = 0 THEN Last(all) ELSE all[IF J # {} THEN Min(J) ELSE 0]
  BY DEF get_squeezecenter_status, SelectInSeq
<1> HIDE DEF all
<1>6. CASE segment = 0
  <2>1. Last(all) = all[players] /\ players \in 1 .. Len(all)
    BY <1>1, <1>2 DEF Last
  <2>2. QED
    BY <1>2, <1>5, <1>6, <2>1, LenProperties
<1>7. CASE segment # 0
  <2>1. I # {} /\ segment = Min(I)
    BY <1>7
  <2>2. I \in SUBSET Nat
    BY <1>4
  <2>3. Min(I) \in I
    BY <2>1, <2>2, LeastOf
  <2>4. PICK p \in Range(all) : Fits(p, order[segment])
    BY <2>1, <2>3
  <2>5. DOMAIN all = 1 .. Len(all)
    BY <1>2, LenProperties
  <2>6. J # {} /\ J \in SUBSET Nat
    <3>1. PICK k \in 1 .. Len(all) : p = all[k]
      BY <2>4, <2>5 DEF Range
    <3>2. k \in J
      BY <2>4, <3>1
    <3>3. J \in SUBSET Nat
      BY <1>1, <1>2
    <3>4. QED
      BY <3>2, <3>3
  <2>7. Min(J) \in 1 .. Len(all)
    BY <2>6, LeastOf
  <2>8. all[Min(J)] \in PlayerRecords
    BY <1>2, <2>7, LenProperties
  <2>9. QED
    BY <1>5, <1>7, <2>6, <2>8
<1>8. QED
  BY <1>6, <1>7

LEMMA ReportStep == ASSUME PlayersInv, Report PROVE PlayersInv'
<1> DEFINE pl == get_squeezecenter_status
<1>1. pl \in PlayerRecords
  BY ChosenTyped DEF Report
<1>2. ti' = squeezecenter_status_to_musictracker(pl) /\ pc' = "idle" /\ pc = "report"
  BY DEF Report, Return
<1> HIDE DEF pl
<1>3. ti' \in Reports
  BY <1>1, <1>2 DEF squeezecenter_status_to_musictracker, PlayerRecords, Reports, Names
<1>4. QED
  BY <1>2, <1>3
  DEF Report, prefs, world, since, history, PlayersInv, TypeOK, OwedInv, WalkInv, Covered

LEMMA PreferencesStep == ASSUME PlayersInv, cb_squeezecenter_changed PROVE PlayersInv'
BY DEF cb_squeezecenter_changed, squeezecenter_disconnect, cursor, world, since, history, PlayersInv,
   TypeOK, OwedInv, WalkInv, Covered

LEMMA AroundStep ==
  ASSUME PlayersInv, ConnectionSettles \/ Environment
  PROVE  PlayersInv'
<1>1. Around
  BY DEF ConnectionSettles, Environment, ServerStarts, ServerStops, ListChanges, BoxActs
<1>2. OwedInv' /\ WalkInv'
  BY <1>1 DEF Around, cursor, PlayersInv, OwedInv, WalkInv, Covered
<1>3. /\ sock' \in {"none", "connecting", "refused", "open", "dead"}
      /\ up' \in [Servers -> BOOLEAN] /\ list' \in [Servers -> Lists]
      /\ playback' \in [Boxes -> Playbacks] /\ peer' \in Servers
  BY <1>1 DEF ConnectionSettles, Environment, ServerStarts, ServerStops, ListChanges, BoxActs,
     Around, world, PlayersInv, TypeOK
<1>4. known' \subseteq Lists
  <2>1. known' \subseteq known \cup {list'[peer]}
    BY DEF ConnectionSettles, Environment, ServerStarts, ServerStops, ListChanges, BoxActs, since
  <2>2. list'[peer] \in Lists
    BY <1>3 DEF PlayersInv, TypeOK
  <2>3. QED
    BY <2>1, <2>2 DEF PlayersInv, TypeOK
<1>5. streamed' \subseteq Boxes
  <2>1. streamed' \subseteq streamed \cup Streamers'
    BY DEF ConnectionSettles, Environment, ServerStarts, ServerStops, ListChanges, BoxActs, since
  <2>2. QED
    BY <2>1 DEF Streamers, PlayersInv, TypeOK
<1>6. TypeOK'
  BY <1>1, <1>3, <1>4, <1>5 DEF Around, prefs, cursor, PlayersInv, TypeOK
<1>7. QED
  BY <1>2, <1>6 DEF PlayersInv

LEMMA PlayersStep == PlayersInv /\ [Next]_vars => PlayersInv'
<1> SUFFICES ASSUME PlayersInv, [Next]_vars PROVE PlayersInv'
  OBVIOUS
<1>1. CASE UNCHANGED vars
  BY <1>1 DEF vars, prefs, cursor, world, since, history, PlayersInv, TypeOK, OwedInv, WalkInv, Covered
<1>2. QED
  BY <1>1, ConnectionStep, ConnectedStep, LoginCommandStep, CountStep, IdStep, NameStep,
     StatusStep, BeyondStep, ReportStep, PreferencesStep, AroundStep
  DEF Next, get_squeezecenter_info

(* For any servers, lists and preferences, every variable keeps its type;  *)
(* in particular the player reported is one of the array.                  *)
THEOREM PlayersTyped == Spec => []TypeOK
BY WalkInit, PlayersStep, PTL DEF Spec, PlayersInv

(* For any servers and lists, and however often the connection was made    *)
(* anew: while the server at hand answers in time, the array is not read   *)
(* beyond its end.                                                         *)
THEOREM ArrayCovers == Spec => []ArrayCoversPlayers
<1>1. PlayersInv => ArrayCoversPlayers
  BY DEF PlayersInv, WalkInv, ArrayCoversPlayers
<1>2. QED
  BY <1>1, WalkInit, PlayersStep, PTL DEF Spec

(***************************************************************************)
(* What the entries of the array say                                       *)
(***************************************************************************)
(* What has been seen of the peer since the connection was made includes   *)
(* what is so now, and from the first fetch on every entry, of the array   *)
(* or of the one being read, is the peer's own.                            *)
OwnInv ==
  /\ list[peer] \in known
  /\ Streamers \subseteq streamed
  /\ prompt /\ sock # "none" /\ players > 0 =>
       IF pc \in {"id", "name"}
       THEN \A k \in 1 .. Len(pi) : OwnEntry(pi[k], k)
       ELSE \A k \in 1 .. Len(players_array) : OwnEntry(players_array[k], k)

LEMMA ListOfPeer ==
  ASSUME TypeOK
  PROVE  /\ list[peer] \in Seq(Boxes) /\ Len(list[peer]) \in Nat
         /\ DOMAIN list[peer] = 1 .. Len(list[peer])
         /\ \A k \in 1 .. Len(list[peer]) :
              /\ list[peer][k] \in Boxes
              /\ playback[list[peer][k]] \in [mode : Modes, power : BOOLEAN, remote : BOOLEAN]
<1>1. list[peer] \in Seq(Boxes)
  BY SqueezeCenterAssumption DEF TypeOK
<1>2. /\ Len(list[peer]) \in Nat /\ DOMAIN list[peer] = 1 .. Len(list[peer])
      /\ \A k \in 1 .. Len(list[peer]) : list[peer][k] \in Boxes
  BY <1>1, LenProperties
<1>3. \A b \in Boxes : playback[b] \in [mode : Modes, power : BOOLEAN, remote : BOOLEAN]
  BY SqueezeCenterAssumption DEF TypeOK
<1>4. QED
  BY <1>1, <1>2, <1>3

(* A prompt server answers what it is asked.                               *)
LEMMA PromptAnswers ==
  ASSUME PlayersInv, pc \in Commands, NEW line \in Lines, squeezecenter_command(line), prompt'
  PROVE  line = Answer /\ line # Null
<1>1. prompt /\ line # Null
  BY Commanded DEF PlayersInv
<1>2. Reads(line) /\ owed = << >>
  BY <1>1 DEF squeezecenter_command, PlayersInv, OwedInv
<1>3. Sequel = Append(<< >>, Answer)
  BY <1>2 DEF Reads, Sequel
<1>4. << >> \in Seq({Answer}) /\ Len(<< >>) = 0
  BY EmptySeq
<1>5. Append(<< >>, Answer)[1] = Answer /\ Append(<< >>, Answer) \in Seq({Answer})
  BY <1>4, AppendProperties
<1>6. Head(Sequel) \in {Answer}
  BY <1>2, <1>3, <1>5, HeadTailProperties DEF Reads
<1>7. QED
  BY <1>1, <1>2, <1>6 DEF Reads

(* The status of a box leaves an entry that is the peer's own, and one     *)
(* that describes the box if the peer still has it.                        *)
LEMMA StatusDescribes ==
  ASSUME PlayersInv, LoginInv, OwnInv, squeezecenter_get_player_current_status, prompt'
  PROVE  /\ i \in 1 .. Len(players_array) /\ players_array \in Seq(PlayerRecords)
         /\ \E player \in PlayerRecords :
              /\ players_array' = [players_array EXCEPT ![i] = player]
              /\ OwnEntry(player, i)
              /\ player.id \in Range(list[peer]) => Describes(player)
<1>0. pc = "status" /\ pc \in Commands /\ i \in Nat \ {0}
  BY DEF squeezecenter_get_player_current_status, Commands, PlayersInv, TypeOK
<1>1. /\ players_array # Null /\ players_array \in Seq(PlayerRecords)
      /\ i \in 1 .. Len(players_array)
  <2>1. players_array # Null /\ ~ (i > Len(players_array))
    BY DEF squeezecenter_get_player_current_status, Beyond
  <2>2. players_array \in Seq(PlayerRecords) /\ Len(players_array) \in Nat
    BY <2>1, LenProperties DEF PlayersInv, TypeOK
  <2>3. QED
    BY <1>0, <2>1, <2>2
<1>2. PICK line \in Lines :
        /\ squeezecenter_command(line)
        /\ players_array' =
             IF line # Null /\ line.cmd = "status"
             THEN [players_array EXCEPT ![i] = populate(players_array[i], line.tags)]
             ELSE players_array
  BY DEF squeezecenter_get_player_current_status
<1>3. line = Answer /\ line # Null /\ prompt
  BY <1>0, <1>2, PromptAnswers, Commanded DEF PlayersInv
<1> DEFINE old == players_array[i]
           b   == old.id
<1>4. old \in PlayerRecords /\ OwnEntry(old, i)
  <2>1. sock # "none" /\ players > 0
    BY <1>0 DEF LoginInv, Asking, PlayersInv, WalkInv
  <2>2. QED
    BY <1>0, <1>1, <1>3, <2>1, LenProperties DEF OwnInv
<1>5. CASE b \in Range(list[peer])
  <2> DEFINE new == populate(old, Tags(b))
  <2>1. line.cmd = "status" /\ line.tags = Tags(b)
    BY <1>0, <1>3, <1>5 DEF Answer
  <2>2. players_array' = [players_array EXCEPT ![i] = new]
    BY <1>2, <1>3, <2>1
  <2>3. b \in Boxes /\ playback[b] \in [mode : Modes, power : BOOLEAN, remote : BOOLEAN]
    BY <1>5, ListOfPeer DEF PlayersInv, Range
  <2>4. new \in PlayerRecords
    <3>1. Tags(b) \in TagsRecords
      BY <2>3 DEF Tags, TagsRecords
    <3> HIDE DEF old
    <3>2. QED
      BY <1>4, <3>1 DEF populate, TagsRecords, PlayerRecords, Names
  <2>5. /\ new.id = b /\ new.name = b /\ new.title = b
        /\ new.mode = playback[b].mode /\ new.power = playback[b].power
        /\ new.remote = (old.remote \/ playback[b].remote)
        /\ new.current_title = IF playback[b].remote THEN b ELSE old.current_title
    BY <1>4 DEF populate, Tags, PlayerRecords
  <2>6. playback[b].remote => b \in streamed
    BY <2>3 DEF OwnInv, Streamers
  <2>7. old.remote \in BOOLEAN /\ playback[b].remote \in BOOLEAN
    BY <1>4, <2>3 DEF PlayerRecords
  <2>8. new.remote => old.remote \/ playback[b].remote
    BY <2>5, <2>7
  <2>9. playback[b].remote => new.remote
    BY <2>5, <2>7
  <2> HIDE DEF new, old
  <2>10. OwnEntry(new, i)
    BY <1>4, <2>5, <2>6, <2>8 DEF OwnEntry
  <2>11. Describes(new)
    BY <2>5, <2>9 DEF Describes
  <2>12. QED
    BY <1>1, <2>2, <2>4, <2>10, <2>11
<1>6. CASE b \notin Range(list[peer])
  <2>1. line = [cmd |-> "unknown player"]
    BY <1>0, <1>3, <1>6 DEF Answer
  <2>2. players_array' = players_array
    BY <1>2, <2>1
  <2>3. players_array = [players_array EXCEPT ![i] = old]
    BY <1>1, LenProperties
  <2>4. QED
    BY <1>1, <1>4, <1>6, <2>2, <2>3
<1>7. QED
  BY <1>5, <1>6

LEMMA FetchOwn ==
  ASSUME PlayersInv, LoginInv, OwnInv, squeezecenter_get_player_id \/ squeezecenter_get_player_name
  PROVE  OwnInv'
<1>0. /\ pc \in {"id", "name"} /\ pc \in Commands
      /\ UNCHANGED << sock, players, peer, list, playback, known, streamed >>
      /\ players \in Nat /\ players > 0 /\ sock # "none"
      /\ i \in Nat \ {0} /\ pi \in Seq(PlayerRecords)
  BY DEF squeezecenter_get_player_id, squeezecenter_get_player_name, world, since, Commands,
     PlayersInv, TypeOK, WalkInv, LoginInv, Asking
<1>1. list'[peer'] \in known' /\ Streamers' \subseteq streamed'
  BY <1>0 DEF OwnInv, Streamers
<1> SUFFICES ASSUME prompt'
             PROVE  IF pc' \in {"id", "name"}
                    THEN \A k \in 1 .. Len(pi') : OwnEntry(pi'[k], k)
                    ELSE \A k \in 1 .. Len(players_array') : OwnEntry(players_array'[k], k)
  BY <1>0, <1>1 DEF OwnInv, OwnEntry
<1>2. PICK line \in Lines :
        /\ squeezecenter_command(line)
        /\ line = Null => squeezecenter_get_players_fails
        /\ line # Null =>
             IF pc = "id"
             THEN /\ pi' = Append(pi, NewPlayer(Field(line)))
                  /\ pc' = "name"
                  /\ UNCHANGED << i, players_array >>
             ELSE \/ /\ FetchedAll
                     /\ players_array' = [pi EXCEPT ![i].name = Field(line)]
                     /\ pc' = "status"
                  \/ /\ ~ FetchedAll
                     /\ pi' = [pi EXCEPT ![i].name = Field(line)]
                     /\ pc' = "id" /\ i' = i + 1
  BY DEF squeezecenter_get_player_id, squeezecenter_get_player_name
<1>3. line = Answer /\ line # Null /\ prompt
  BY <1>0, <1>2, PromptAnswers, Commanded DEF PlayersInv
<1>4. \A k \in 1 .. Len(pi) : OwnEntry(pi[k], k)
  BY <1>0, <1>3 DEF OwnInv
<1>5. CASE pc = "id"
  <2> DEFINE new == NewPlayer(Field(line))
  <2>1. Field(line) = BoxAt(list[peer], i)
    BY <1>3, <1>5 DEF Field, Answer
  <2>2. OwnEntry(new, i) /\ new \in PlayerRecords
    <3>1. line \in Answered
      BY <1>0, <1>2, <1>3, Commanded DEF PlayersInv
    <3>2. new \in PlayerRecords
      BY <1>0, <3>1, AnsweredFields
    <3>3. new.id = BoxAt(list[peer], i) /\ new.remote = FALSE
      BY <2>1 DEF NewPlayer
    <3> HIDE DEF new
    <3>4. QED
      BY <3>2, <3>3 DEF OwnEntry, OwnInv
  <2>3. pi' = Append(pi, new) /\ pc' = "name" /\ Len(pi) = i - 1
    BY <1>2, <1>3, <1>5 DEF PlayersInv, WalkInv
  <2> HIDE DEF new
  <2>4. /\ Len(pi') = i /\ pi'[i] = new
        /\ \A k \in 1 .. Len(pi) : pi'[k] = pi[k]
    BY <1>0, <2>2, <2>3, AppendProperties
  <2>5. \A k \in 1 .. Len(pi') : OwnEntry(pi'[k], k)
    <3> SUFFICES ASSUME NEW k \in 1 .. Len(pi') PROVE OwnEntry(pi'[k], k)
      OBVIOUS
    <3>1. k = i \/ k \in 1 .. Len(pi)
      BY <1>0, <2>3, <2>4
    <3>2. QED
      BY <1>4, <2>2, <2>4, <3>1
  <2>6. QED
    BY <2>3, <2>5
<1>6. CASE pc = "name"
  <2> DEFINE player == [pi[i] EXCEPT !.name = Field(line)]
             named  == [pi EXCEPT ![i] = player]
  <2>0. Len(pi) = i /\ i \in 1 .. Len(pi)
    BY <1>0, <1>6 DEF PlayersInv, WalkInv
  <2>1. player \in PlayerRecords /\ OwnEntry(player, i)
    <3>1. pi[i] \in PlayerRecords /\ OwnEntry(pi[i], i)
      BY <1>0, <1>4, <2>0, LenProperties
    <3>2. Field(line) \in Names
      <4>1. line \in Answered
        BY <1>0, <1>2, <1>3, Commanded DEF PlayersInv
      <4>2. QED
        BY <1>0, <4>1, AnsweredFields
    <3>3. player.id = pi[i].id /\ player.remote = pi[i].remote /\ player \in PlayerRecords
      BY <3>1, <3>2 DEF PlayerRecords
    <3> HIDE DEF player
    <3>4. QED
      BY <3>1, <3>3 DEF OwnEntry
  <2>2. named = [pi EXCEPT ![i].name = Field(line)]
    OBVIOUS
  <2> HIDE DEF player
  <2>3. /\ named \in Seq(PlayerRecords) /\ Len(named) = i
        /\ \A k \in 1 .. Len(pi) : named[k] = IF k = i THEN player ELSE pi[k]
    BY <1>0, <2>0, <2>1, ExceptSeq
  <2>4. \A k \in 1 .. Len(named) : OwnEntry(named[k], k)
    BY <1>4, <2>0, <2>1, <2>3
  <2>5. \/ players_array' = named /\ pc' = "status"
        \/ pi' = named /\ pc' = "id"
    BY <1>2, <1>3, <1>6, <2>2
  <2> HIDE DEF named
  <2>6. QED
    BY <2>4, <2>5
<1>7. QED
  BY <1>0, <1>5, <1>6

(* The list is fetched before an entry of it is believed: a new connection *)
(* has no players until then.                                              *)
LEMMA CountOwn ==
  ASSUME PlayersInv, LoginInv, OwnInv, squeezecenter_get_player_count
  PROVE  OwnInv'
<1>0. /\ pc = "count" /\ pc \in Commands /\ sock # "none"
      /\ UNCHANGED << players_array, pi, peer, list, playback, known, streamed >>
  BY DEF squeezecenter_get_player_count, world, since, Commands, LoginInv, Asking
<1>1. list'[peer'] \in known' /\ Streamers' \subseteq streamed'
  BY <1>0 DEF OwnInv, Streamers
<1>2. PICK line \in Lines : \E n \in ParsedCount(line) :
        /\ squeezecenter_command(line)
        /\ \/ n = Null /\ CountFailed /\ UNCHANGED players
           \/ n = 0 /\ players' = 0 /\ Return(Closed) /\ UNCHANGED << sock, i >>
           \/ /\ n # Null /\ n > 0
              /\ players' = n
              /\ i' = 1
              /\ \/ (players_array = Null \/ players # n) /\ pc' = "id"
                 \/ players_array # Null /\ players = n /\ pc' = "status"
              /\ UNCHANGED << sock, ti >>
  BY DEF squeezecenter_get_player_count
<1>3. prompt' => prompt
  BY <1>0, <1>2, Commanded DEF PlayersInv
<1>4. \/ sock' = "none" \/ players' = 0
      \/ pc' = "id"
      \/ pc' = "status" /\ players' = players
  BY <1>2 DEF CountFailed, squeezecenter_disconnect
<1>5. pi' = << >> /\ Len(<< >>) = 0
  BY <1>0, EmptySeq DEF PlayersInv, WalkInv
<1>6. CASE sock' = "none" \/ players' = 0
  BY <1>1, <1>6 DEF OwnInv
<1>7. CASE pc' = "id"
  BY <1>1, <1>5, <1>7 DEF OwnInv
<1>8. CASE pc' = "status" /\ players' = players
  BY <1>0, <1>1, <1>3, <1>8 DEF OwnInv, OwnEntry
<1>9. QED
  BY <1>4, <1>6, <1>7, <1>8

LEMMA AroundOwn ==
  ASSUME PlayersInv, OwnInv, ConnectionSettles \/ Environment
  PROVE  OwnInv'
<1>1. /\ UNCHANGED << players, players_array, pc, i, pi, peer, prompt >>
      /\ sock' # "none" => sock # "none"
  BY DEF ConnectionSettles, Environment, ServerStarts, ServerStops, ListChanges, BoxActs, Around,
     cursor
<1>2. known \subseteq known' /\ list'[peer'] \in known'
  BY <1>1 DEF ConnectionSettles, Environment, ServerStarts, ServerStops, ListChanges, BoxActs,
     world, since, OwnInv
<1>3. streamed \subseteq streamed' /\ Streamers' \subseteq streamed'
  BY DEF ConnectionSettles, Environment, ServerStarts, ServerStops, ListChanges, BoxActs, world,
     since, OwnInv, Streamers
<1>4. ASSUME NEW player, NEW k, OwnEntry(player, k) PROVE OwnEntry(player, k)'
  BY <1>2, <1>3, <1>4 DEF OwnEntry
<1>5. QED
  BY <1>1, <1>2, <1>3, <1>4 DEF OwnInv

LEMMA OwnStep == PlayersInv /\ LoginInv /\ OwnInv /\ [Next]_vars => OwnInv'
<1> SUFFICES ASSUME PlayersInv, LoginInv, OwnInv, [Next]_vars PROVE OwnInv'
  OBVIOUS
<1>1. CASE get_squeezecenter_connection
  <2>1. pc = "idle" /\ pc' \in {"idle", "connected"} /\ UNCHANGED << players_array, world >>
    BY <1>1 DEF get_squeezecenter_connection, Return
  <2>2. CASE UNCHANGED << sock, players, peer, history >>
    BY <2>1, <2>2 DEF world, history, since, OwnInv, OwnEntry, Streamers
  <2>3. CASE players' = 0 /\ known' = {list[peer']} /\ streamed' = Streamers
    BY <2>1, <2>3 DEF world, OwnInv, Streamers
  <2>4. CASE sock' = "none" /\ UNCHANGED << peer, history >>
    BY <2>1, <2>4 DEF world, history, since, OwnInv, Streamers
  <2>5. QED
    BY <1>1, <2>2, <2>3, <2>4 DEF get_squeezecenter_connection, squeezecenter_connect
<1>2. CASE squeezecenter_connected
  BY <1>2 DEF squeezecenter_connected, squeezecenter_disconnect, Return, history, since, world,
     OwnInv, OwnEntry, Streamers
<1>3. CASE squeezecenter_do_login \/ squeezecenter_get_version
  <2>1. PICK line \in Lines : squeezecenter_command(line)
    BY <1>3 DEF squeezecenter_do_login, squeezecenter_get_version
  <2>2. /\ pc \in {"login", "version"} /\ pc' \in {"idle", "version", "count"}
        /\ UNCHANGED << players, players_array, peer, list, playback, known, streamed >>
        /\ sock' \in {"none", sock}
    BY <1>3 DEF squeezecenter_do_login, squeezecenter_get_version, squeezecenter_disconnect,
       Return, world, since
  <2>3. prompt' => prompt
    BY <2>1, <2>2, Commanded DEF Commands, PlayersInv
  <2>4. QED
    BY <2>2, <2>3 DEF OwnInv, OwnEntry, Streamers
<1>4. CASE squeezecenter_get_player_count
  BY <1>4, CountOwn
<1>5. CASE squeezecenter_get_player_id \/ squeezecenter_get_player_name
  BY <1>5, FetchOwn
<1>6. CASE squeezecenter_get_player_current_status
  <2>1. /\ pc = "status" /\ pc' \in {"status", "report"} /\ pc \in Commands
        /\ UNCHANGED << sock, players, peer, list, playback, known, streamed >>
        /\ players > 0 /\ sock # "none"
    BY <1>6 DEF squeezecenter_get_player_current_status, world, since, Commands, PlayersInv,
       WalkInv, LoginInv, Asking
  <2>2. list'[peer'] \in known' /\ Streamers' \subseteq streamed'
    BY <2>1 DEF OwnInv, Streamers
  <2> SUFFICES ASSUME prompt'
               PROVE  \A k \in 1 .. Len(players_array') : OwnEntry(players_array'[k], k)
    BY <2>1, <2>2 DEF OwnInv, OwnEntry
  <2>3. PICK line \in Lines : squeezecenter_command(line)
    BY <1>6 DEF squeezecenter_get_player_current_status
  <2>4. \A k \in 1 .. Len(players_array) : OwnEntry(players_array[k], k)
    BY <2>1, <2>3, Commanded DEF OwnInv, PlayersInv
  <2>5. i \in 1 .. Len(players_array) /\ players_array \in Seq(PlayerRecords)
    BY <1>6, StatusDescribes
  <2>6. PICK player \in PlayerRecords :
          players_array' = [players_array EXCEPT ![i] = player] /\ OwnEntry(player, i)
    BY <1>6, StatusDescribes
  <2>7. /\ Len(players_array') = Len(players_array)
        /\ \A k \in 1 .. Len(players_array) :
             players_array'[k] = IF k = i THEN player ELSE players_array[k]
    BY <2>5, <2>6, ExceptSeq
  <2>8. QED
    BY <2>4, <2>6, <2>7
<1>7. CASE ReadsBeyond \/ Report
  BY <1>7 DEF ReadsBeyond, Report, Return, history, since, world, OwnInv, OwnEntry, Streamers
<1>8. CASE cb_squeezecenter_changed
  BY <1>8 DEF cb_squeezecenter_changed, squeezecenter_disconnect, cursor, history, since, world,
     OwnInv, OwnEntry, Streamers
<1>9. CASE ConnectionSettles \/ Environment
  BY <1>9, AroundOwn
<1>10. CASE UNCHANGED vars
  BY <1>10 DEF vars, cursor, history, since, world, OwnInv, OwnEntry, Streamers
<1>11. QED
  BY <1>1, <1>2, <1>3, <1>4, <1>5, <1>6, <1>7, <1>8, <1>9, <1>10
  DEF Next, get_squeezecenter_info

(* EntriesTellTruth, for any servers, lists and boxes, and however often   *)
(* the connection was made anew, to the same server or to another: a       *)
(* status read in time leaves an entry that is the server's own, with      *)
(* nothing in it from before the connection, and that describes its box.   *)
THEOREM EntriesTrue == Spec => EntriesTellTruth
<1>1. Init => OwnInv
  BY DEF Init, OwnInv, Streamers
<1> DEFINE Tells ==
      squeezecenter_get_player_current_status /\ prompt' =>
        LET player == players_array'[i]
        IN  /\ OwnEntry(player, i)
            /\ player.id \in Range(list[peer]) => Describes(player)
<1>2. PlayersInv /\ LoginInv /\ OwnInv /\ [Next]_vars => [Tells]_vars
  <2> SUFFICES ASSUME PlayersInv, LoginInv, OwnInv,
                      squeezecenter_get_player_current_status, prompt'
               PROVE  /\ OwnEntry(players_array'[i], i)
                      /\ players_array'[i].id \in Range(list[peer]) => Describes(players_array'[i])
    OBVIOUS
  <2>1. i \in 1 .. Len(players_array) /\ players_array \in Seq(PlayerRecords)
    BY StatusDescribes
  <2>2. PICK player \in PlayerRecords :
          /\ players_array' = [players_array EXCEPT ![i] = player]
          /\ OwnEntry(player, i)
          /\ player.id \in Range(list[peer]) => Describes(player)
    BY StatusDescribes
  <2>3. players_array'[i] = player
    BY <2>1, <2>2, ExceptSeq
  <2>4. QED
    BY <2>2, <2>3
<1>3. QED
  BY <1>1, <1>2, WalkInit, PlayersStep, LoginInit, LoginStep, OwnStep, PTL
  DEF Spec, EntriesTellTruth
=============================================================================
