----------------------------- MODULE Mpd_proofs -----------------------------
(***************************************************************************)
(* An invariant of the MPD adapter by the place its poll has come to: what *)
(* of the answer is still to be read, and what of it ti holds.  The first  *)
(* line read decides: if it is a state, the whole answer of the server is  *)
(* there to be read after it; any other comes from a lost or refused call. *)
(***************************************************************************)
EXTENDS Mpd, Mpris_proofs, SequenceTheorems

(***************************************************************************)
(* MPD.  The lines of the answer to the command list of a poll, from a     *)
(* server in state m with song s.                                          *)
(***************************************************************************)
File == Line("file", NoText)
Tags(s) == Line("tags", s)

AfterStatus(s) == IF s = NoText THEN << list_OK, OK >>
                  ELSE << File, Tags(s), list_OK, OK >>
AfterState(s)  == << list_OK >> \o AfterStatus(s)
Full(m, s)     == << Line("state", m) >> \o AfterState(s)

(* The first line of an answer, and the rest.                              *)
LEMMA Prefixed ==
  ASSUME NEW S, NEW x \in S, NEW rest \in Seq(S)
  PROVE  LET r == << x >> \o rest
         IN  r \in Seq(S) /\ r # << >> /\ Head(r) = x /\ Tail(r) = rest
  OBVIOUS

(* What a line holds.                                                      *)
LEMMA LinesAre ==
  ASSUME NEW line \in Lines
  PROVE  /\ line \in [name : {"nothing", "OK", "list_OK", "ACK", "file", "state", "tags"},
                      value : Texts \cup STOPPED .. PLAYING]
         /\ line.name = "nothing" <=> line = Nothing
         /\ line.name = "state" => line.value \in STOPPED .. PLAYING
         /\ line.name = "tags" => line.value \in Songs
  BY DEF Lines, Line, Nothing, OK, list_OK, ACK, Texts

(* The answer, line by line.                                               *)
LEMMA ListAnswered ==
  ASSUME NEW m \in STOPPED .. PLAYING, NEW s \in Texts
  PROVE  /\ << OK >> \in Seq(Lines) /\ Head(<< OK >>) = OK /\ Tail(<< OK >>) = << >>
         /\ << list_OK, OK >> \in Seq(Lines) /\ Head(<< list_OK, OK >>) = list_OK
         /\ Tail(<< list_OK, OK >>) = << OK >>
         /\ AfterStatus(s) \in Seq(Lines)
         /\ s # NoText => /\ << Tags(s), list_OK, OK >> \in Seq(Lines)
                          /\ Head(<< Tags(s), list_OK, OK >>) = Tags(s)
                          /\ Tail(<< Tags(s), list_OK, OK >>) = << list_OK, OK >>
                          /\ Head(AfterStatus(s)) = File
                          /\ Tail(AfterStatus(s)) = << Tags(s), list_OK, OK >>
         /\ AfterState(s) \in Seq(Lines) /\ AfterState(s) # << >>
         /\ Head(AfterState(s)) = list_OK /\ Tail(AfterState(s)) = AfterStatus(s)
         /\ Full(m, s) \in Seq(Lines) /\ Full(m, s) # << >>
         /\ Head(Full(m, s)) = Line("state", m) /\ Tail(Full(m, s)) = AfterState(s)
  <1>1. OK \in Lines /\ list_OK \in Lines /\ File \in Lines /\ Line("state", m) \in Lines
    BY DEF Lines, File
  <1>2. s # NoText => Tags(s) \in Lines
    BY DEF Lines, Tags, Texts
  <1> HIDE DEF File, Tags
  <1>3. /\ << OK >> \in Seq(Lines) /\ Head(<< OK >>) = OK /\ Tail(<< OK >>) = << >>
        /\ << list_OK, OK >> \in Seq(Lines) /\ Head(<< list_OK, OK >>) = list_OK
        /\ Tail(<< list_OK, OK >>) = << OK >>
    BY <1>1
  <1>4. s # NoText => /\ << Tags(s), list_OK, OK >> \in Seq(Lines)
                      /\ Head(<< Tags(s), list_OK, OK >>) = Tags(s)
                      /\ Tail(<< Tags(s), list_OK, OK >>) = << list_OK, OK >>
    BY <1>1, <1>2
  <1>5. /\ AfterStatus(s) \in Seq(Lines)
        /\ s # NoText => Head(AfterStatus(s)) = File
                         /\ Tail(AfterStatus(s)) = << Tags(s), list_OK, OK >>
    BY <1>1, <1>2 DEF AfterStatus
  <1>6. /\ AfterState(s) \in Seq(Lines) /\ AfterState(s) # << >>
        /\ Head(AfterState(s)) = list_OK /\ Tail(AfterState(s)) = AfterStatus(s)
    BY <1>1, <1>5, Prefixed DEF AfterState
  <1>7. /\ Full(m, s) \in Seq(Lines) /\ Full(m, s) # << >>
        /\ Head(Full(m, s)) = Line("state", m) /\ Tail(Full(m, s)) = AfterState(s)
    BY <1>1, <1>6, Prefixed DEF Full
  <1> QED
    BY <1>3, <1>4, <1>5, <1>6, <1>7

(* Lines may be put together in either order.                              *)
LEMMA Regrouped ==
  ASSUME NEW first \in Seq(Lines), NEW second \in Seq(Lines), NEW third \in Seq(Lines)
  PROVE  (first \o second) \o third = first \o (second \o third)
  BY ConcatAssociative

(* It is what the server sends.                                            *)
LEMMA ListSent ==
  ASSUME mode[Target] \in STOPPED .. PLAYING, song[Target] \in Texts
  PROVE  << >> \o << Line("state", mode[Target]), list_OK >> \o Song \o << list_OK, OK >>
           = Full(mode[Target], song[Target])
  <1> DEFINE a == Line("state", mode[Target])
             t == Tags(song[Target])
             b == list_OK
             c == OK
             f == File
             L == << a, b >>
             N == << b, c >>
  <1>1. a \in Lines /\ b \in Lines /\ c \in Lines /\ f \in Lines
    BY DEF Lines, File
  <1>2. song[Target] # NoText => t \in Lines /\ Song = << f, t >>
    BY DEF Lines, Texts, Tags, Song, File
  <1>3. song[Target] = NoText => Song = << >>
    BY DEF Song
  <1>4. Song \o N = AfterStatus(song[Target]) /\ Song \in Seq(Lines)
    <2>1. CASE song[Target] = NoText
      <3>1. N \in Seq(Lines) /\ << >> \in Seq(Lines)
        BY <1>1
      <3> QED
        BY <2>1, <3>1, <1>3, ConcatEmptySeq DEF AfterStatus
    <2>2. CASE song[Target] # NoText
      <3> HIDE DEF a, b, c, f, t
      <3> DEFINE u == << f, t >> \o << b, c >>
                 v == << f, t, b, c >>
      <3>1. u \in Seq(Lines) /\ v \in Seq(Lines) /\ Len(u) = Len(v) /\ << f, t >> \in Seq(Lines)
        BY <1>1, <1>2, <2>2
      <3>2. \A k \in 1 .. Len(u) : u[k] = v[k]
        OBVIOUS
      <3> HIDE DEF u, v
      <3>3. u = v
        BY <3>1, <3>2, SeqEqual
      <3> QED
        BY <2>2, <1>2, <3>1, <3>3 DEF AfterStatus, a, b, c, f, t, u, v
    <2> QED
      BY <2>1, <2>2
  <1> HIDE DEF a
  <1>5. L = << a >> \o << b >> /\ L \in Seq(Lines) /\ << a >> \in Seq(Lines)
        /\ << b >> \in Seq(Lines) /\ N \in Seq(Lines)
    <2> HIDE DEF b, c
    <2>1. L \in Seq(Lines) /\ << a >> \in Seq(Lines) /\ << b >> \in Seq(Lines) /\ N \in Seq(Lines)
      BY <1>1
    <2>2. Len(L) = Len(<< a >> \o << b >>) /\ << a >> \o << b >> \in Seq(Lines)
      BY <1>1
    <2>3. \A k \in 1 .. Len(L) : L[k] = (<< a >> \o << b >>)[k]
      OBVIOUS
    <2> QED
      BY <2>1, <2>2, <2>3, SeqEqual
  <1> DEFINE R == AfterStatus(song[Target])
  <1>6. << >> \o L = L
    BY <1>5, ConcatEmptySeq
  <1>7. (L \o Song) \o N = L \o R
    <2> HIDE DEF L, N, R, Song
    <2>1. Song \in Seq(Lines) /\ Song \o N = R
      BY <1>4 DEF R
    <2>2. L \in Seq(Lines) /\ N \in Seq(Lines)
      BY <1>5
    <2>3. (L \o Song) \o N = L \o (Song \o N)
      BY <2>1, <2>2, Regrouped
    <2> QED
      BY <2>1, <2>3
  <1>8. R \in Seq(Lines)
    BY <1>4, <1>5, ConcatProperties
  <1>9. L \o R = << a >> \o (<< b >> \o R)
    <2> HIDE DEF L, R
    <2> QED
      BY <1>5, <1>8, ConcatAssociative
  <1> QED
    BY <1>6, <1>7, <1>9 DEF Full, AfterState, a

Conns == [done : BOOLEAN, list : BOOLEAN, oks : Nat, doneOk : BOOLEAN, error : BOOLEAN,
          elem : Lines]

Broken(c) == c.error /\ c.done /\ c.elem = Nothing

(* A connection that breaks has nothing more to be read.                   *)
LEMMA Breaking ==
  ASSUME NEW c \in Conns
  PROVE  /\ Breaks(c) \in Conns /\ Broken(Breaks(c))
         /\ Breaks(c).list = c.list /\ Breaks(c).oks = c.oks /\ ~ Breaks(c).doneOk
  BY DEF Breaks, Broken, Conns, Lines

(* What each line makes of the connection.                                 *)
LEMMA LineReads ==
  ASSUME NEW c \in Conns, NEW line \in Lines
  PROVE  /\ Reads(c, line) \in Conns /\ Reads(c, line).list = c.list
         /\ line = OK => LET d == Reads(c, line)
                         IN  /\ d.elem = Nothing /\ d.done /\ d.oks = 0 /\ ~ d.doneOk
                             /\ d.error = (c.error \/ c.oks > 0)
         /\ line = list_OK /\ c.oks > 0 =>
              LET d == Reads(c, line)
              IN  /\ d.elem = Nothing /\ d.doneOk /\ d.oks = c.oks - 1
                  /\ d.error = c.error /\ d.done = c.done
         /\ line = ACK => LET d == Reads(c, line)
                          IN  Broken(d) /\ d.oks = c.oks /\ ~ d.doneOk
         /\ line.name \in {"file", "state", "tags"} =>
              LET d == Reads(c, line)
              IN  /\ d.elem = line /\ d.oks = c.oks /\ d.doneOk = c.doneOk
                  /\ d.error = c.error /\ d.done = c.done
  <1>1. /\ OK.name = "OK" /\ list_OK.name = "list_OK" /\ ACK.name = "ACK"
        /\ Nothing \in Lines
    BY DEF OK, list_OK, ACK, Line, Lines
  <1>2. CASE line = OK
    BY <1>1, <1>2 DEF Reads, Conns
  <1>3. CASE line = list_OK
    <2>1. CASE c.oks = 0
      <3>1. Reads(c, line) = [c EXCEPT !.elem = Nothing, !.error = TRUE]
        BY <1>1, <1>3, <2>1 DEF Reads
      <3>2. line # OK /\ line # ACK /\ line.name = "list_OK"
        BY <1>3 DEF OK, list_OK, ACK, Line
      <3>3. Reads(c, line) \in Conns /\ Reads(c, line).list = c.list
        BY <1>1, <3>1 DEF Conns
      <3> QED
        BY <2>1, <3>2, <3>3
    <2>2. CASE c.oks # 0
      <3>1. Reads(c, line) = [c EXCEPT !.elem = Nothing, !.doneOk = TRUE, !.oks = c.oks - 1]
        BY <1>1, <1>3, <2>2 DEF Reads
      <3>2. c.oks - 1 \in Nat
        BY <2>2 DEF Conns
      <3> QED
        BY <1>1, <1>3, <2>2, <3>1, <3>2 DEF Conns, OK, list_OK, ACK, Line
    <2> QED
      BY <2>1, <2>2
  <1>4. CASE line = ACK
    BY <1>1, <1>4 DEF Reads, Conns, Broken
  <1>5. CASE line \notin {OK, list_OK, ACK}
    <2>1. line.name \notin {"OK", "list_OK", "ACK"}
      BY <1>5 DEF Lines, Line, OK, list_OK, ACK, Nothing
    <2> QED
      BY <1>1, <1>5, <2>1 DEF Reads, Conns
  <1> QED
    BY <1>2, <1>3, <1>4, <1>5

MpdTyped ==
  /\ conn \in Conns
  /\ answers \in Seq(Lines)
  /\ requests \in {<< >>, << "password" >>, << "list" >>, << "password", "list" >>}
  /\ state \in {INVALID} \cup STOPPED .. PLAYING
  /\ entity \in Texts
  /\ ti \in [status : Modes, player : Names \cup {NoName}, text : [Fields -> Texts]]
  /\ up \in BOOLEAN /\ lost \in BOOLEAN
  /\ up => mode[Target] # CLOSED

(* A line is read, or the connection breaks.                               *)
LEMMA NextReturnElement ==
  ASSUME MpdTyped, NEW c \in Conns, ~ AllRead(c),
         NEW r \in mpd_getNextReturnElement(c), Happens(r)
  PROVE  /\ r.conn \in Conns /\ answers' \in Seq(Lines) /\ lost' \in BOOLEAN
         /\ r.conn.list = c.list
         /\ \/ /\ Broken(r.conn) /\ ~ r.conn.doneOk /\ r.conn.oks = c.oks
               /\ lost' /\ answers' = answers
            \/ /\ answers # << >> /\ Head(answers) \in Lines
               /\ r.conn = Reads(c, Head(answers))
               /\ answers' = Tail(answers) /\ lost' = lost
  <1>1. CASE r = [conn |-> Breaks(c), answers |-> answers, lost |-> TRUE]
    BY <1>1, Breaking DEF Happens, MpdTyped
  <1>2. CASE /\ answers # << >>
             /\ r = [conn |-> Reads(c, Head(answers)), answers |-> Tail(answers), lost |-> lost]
    <2>1. Head(answers) \in Lines /\ Tail(answers) \in Seq(Lines)
      BY <1>2, HeadTailProperties DEF MpdTyped
    <2> QED
      BY <1>2, <2>1, LineReads DEF Happens, MpdTyped
  <1> QED
    BY <1>1, <1>2 DEF mpd_getNextReturnElement

(***************************************************************************)
(* The places of the poll.                                                 *)
(***************************************************************************)
Was(m, s) == [mode |-> m, song |-> s] \in seen[Target]

(* n answers of the list are still to be read, and nothing went wrong.     *)
Expects(n) == conn.oks = n /\ ~ conn.error /\ ~ conn.done /\ (n > 0 => ~ conn.doneOk)

NoneLeft  == requests = << >> /\ answers = << >>
Untouched == ti = Prepared /\ entity = NoText
Starting  == Untouched /\ state = INVALID /\ ~ conn.list /\ conn.oks = 0 /\ ~ conn.doneOk

(* The answer to the password.                                             *)
Unlocking ==
  /\ \/ requests = << >> /\ answers \in {<< >>, << OK >>, << ACK >>}
     \/ requests = << "password" >> /\ answers = << >>
  /\ answers = << ACK >> => lost

(* The state has not been read: if the first line is a state, the whole    *)
(* answer of the server is there; another line comes from a call lost.     *)
Waiting ==
  /\ state = INVALID
  /\ requests \in {<< "list" >>, << "password", "list" >>} => Expects(2)
  /\ \/ answers = << >> /\ (~ lost => Expects(2) /\ requests \in {<< >>, << "list" >>})
     \/ answers # << >> /\ Head(answers) \in {OK, ACK} /\ lost
     \/ /\ Expects(2) /\ requests = << >>
        /\ \E m \in STOPPED .. PLAYING, s \in Texts : Was(m, s) /\ answers = Full(m, s)

(* The state has been read, in one answer with song s.                     *)
Reported(s) == /\ requests = << >> /\ state \in STOPPED .. PLAYING
           /\ s \in Texts /\ Was(state, s)

StatusPlace ==
  /\ Untouched
  /\ \/ Waiting
     \/ Expects(2) /\ \E s \in Texts : Reported(s) /\ answers = AfterState(s)

NextPlace ==
  /\ Untouched /\ conn.oks = 1 /\ ~ conn.error /\ ~ conn.done /\ conn.doneOk
  /\ conn.elem = Nothing
  /\ \E s \in Texts : Reported(s) /\ answers = AfterStatus(s)

SongPlace ==
  /\ ti.status = CLOSED /\ conn.elem = Nothing
  /\ \/ Broken(conn)
     \/ Untouched /\ Expects(1) /\ \E s \in Texts : Reported(s) /\ answers = AfterStatus(s)
     \/ Expects(0) /\ \E s \in Texts : Reported(s) /\ answers = << OK >> /\ ti.text = Text(s)

TagsPlace ==
  /\ ti = Prepared /\ Expects(1)
  /\ \E s \in Songs :
       /\ Reported(s)
       /\ \/ entity = NoText /\ answers = << Tags(s), list_OK, OK >>
          \/ entity = s /\ answers = << list_OK, OK >>

LastPlace ==
  /\ ti.status = CLOSED
  /\ \/ conn.error /\ conn.done
     \/ /\ ~ conn.error
        /\ \E s \in Texts : Reported(s) /\ ti.text = Text(s)
        /\ conn.done \/ (conn.oks = 0 /\ answers = << OK >>)

Places ==
  \/ pc = "idle" /\ conn = Fresh /\ NoneLeft /\ state = INVALID /\ entity = NoText
  \/ pc \in {"connect", "welcome"} /\ Starting /\ conn = Fresh /\ NoneLeft
  \/ pc = "password" /\ Starting /\ conn.done /\ NoneLeft
  \/ pc = "unlock" /\ Starting /\ Unlocking /\ (conn.done /\ ~ lost => NoneLeft)
  \/ pc = "list" /\ Starting /\ Unlocking /\ conn.done /\ (~ lost => NoneLeft)
  \/ pc = "status" /\ StatusPlace
  \/ pc = "next" /\ NextPlace
  \/ pc = "song" /\ SongPlace
  \/ pc = "tags" /\ TagsPlace
  \/ pc \in {"songs_read", "finish"} /\ LastPlace
  \/ pc = "close" /\ (ti.status = CLOSED \/ \E s \in Texts : Was(ti.status, s) /\ ti.text = Text(s))
  \/ pc = "leave" /\ ti.status = CLOSED /\ lost

MpdInv == MpdTyped /\ Places

(* What ti holds was played, or MPD did not run.                           *)
Heard == \E s \in Texts : Was(ti.status, s) /\ ti.text = Text(s)

(* While every call is answered nothing goes wrong.                        *)
Straight ==
  ~ lost =>
    /\ pc \in {"song", "songs_read", "finish"} => ~ conn.error
    /\ pc = "close" => Heard

(***************************************************************************)
(* The steps of the poll.                                                  *)
(***************************************************************************)
LEMMA MpdBegins ==
  ASSUME PollInit, MpdInit
  PROVE  MpdInv
  <1>1. << >> \in Seq(Lines) /\ Nothing \in Lines
    BY DEF Lines
  <1>2. Prepared \in [status : Modes, player : Names \cup {NoName}, text : [Fields -> Texts]]
    BY DEF Prepared, Text, Texts, Modes, CLOSED, PLAYING
  <1>3. Fresh \in Conns
    BY <1>1 DEF Fresh, Conns
  <1>4. MpdTyped
    BY <1>1, <1>2, <1>3 DEF PollInit, MpdInit, MpdTyped, Texts
  <1> QED
    BY <1>4 DEF PollInit, MpdInit, MpdInv, Places, NoneLeft

(* A poll starts with a fresh connection.                                  *)
LEMMA MpdPolls ==
  ASSUME PlayersInv, MpdInv, get_mpd_info
  PROVE  MpdInv'
  <1>1. /\ pc = "idle" /\ pc' = "connect" /\ ti' = Prepared /\ lost' = FALSE
        /\ UNCHANGED << conn, up, requests, answers, state, entity, mode >>
    BY DEF get_mpd_info, BeginPoll, mpd, mpdlocals, players
  <1>2. conn = Fresh /\ NoneLeft /\ state = INVALID /\ entity = NoText
    BY <1>1 DEF MpdInv, Places
  <1>3. Prepared \in [status : Modes, player : Names \cup {NoName}, text : [Fields -> Texts]]
    BY DEF Prepared, Text, Texts, Modes, CLOSED, PLAYING
  <1>4. MpdTyped'
    BY <1>1, <1>3 DEF MpdInv, MpdTyped
  <1> QED
    BY <1>1, <1>2, <1>4 DEF MpdInv, Places, Starting, Untouched, NoneLeft, Fresh

(* Between two steps of an adapter that do not end the poll.               *)
LEMMA SameSeen ==
  ASSUME UNCHANGED seen
  PROVE  \A m, s : Was(m, s)' <=> Was(m, s)
  BY DEF Was

(* The address is found and connected, or the poll closes.                 *)
LEMMA MpdConnects ==
  ASSUME MpdInv, Connects
  PROVE  MpdInv'
  <1>1. /\ pc = "connect" /\ UNCHANGED << ti, lost, conn, requests, answers, state, entity, mode >>
        /\ \/ pc' = "close" /\ up' = up
           \/ pc' = "welcome" /\ up' = TRUE /\ mode[Target] # CLOSED
    BY DEF Connects, Does, GoesTo, players
  <1>2. Starting /\ conn = Fresh /\ NoneLeft
    BY <1>1 DEF MpdInv, Places
  <1>3. MpdTyped'
    <2>1. up' \in BOOLEAN /\ (up' => mode'[Target] # CLOSED)
      <3>1. CASE up' = up
        BY <1>1, <3>1 DEF MpdInv, MpdTyped
      <3>2. CASE up' = TRUE /\ mode[Target] # CLOSED
        BY <1>1, <3>2
      <3> QED
        BY <1>1, <3>1, <3>2
    <2> QED
      BY <1>1, <2>1 DEF MpdInv, MpdTyped
  <1> QED
    BY <1>1, <1>2, <1>3 DEF MpdInv, Places, Starting, Untouched, NoneLeft, Prepared

(* The greeting is read, or the poll closes.                               *)
LEMMA MpdWelcomed ==
  ASSUME MpdInv, Welcomed
  PROVE  MpdInv'
  <1>1. /\ pc = "welcome" /\ UNCHANGED << ti, up, requests, answers, state, entity, mode >>
        /\ \/ /\ conn' = [conn EXCEPT !.done = TRUE] /\ lost' = lost
              /\ pc' \in {"password", "list"}
           \/ lost' = TRUE /\ conn' = conn /\ pc' = "close"
    BY DEF Welcomed, Does, GoesTo, players, Answered, Unanswered
  <1>2. Starting /\ conn = Fresh /\ NoneLeft
    BY <1>1 DEF MpdInv, Places
  <1>3. MpdTyped'
    <2>1. conn \in Conns /\ [conn EXCEPT !.done = TRUE] \in Conns
      BY DEF MpdInv, MpdTyped, Conns
    <2> QED
      BY <1>1, <2>1 DEF MpdInv, MpdTyped
  <1>4. CASE conn' = [conn EXCEPT !.done = TRUE] /\ lost' = lost /\ pc' \in {"password", "list"}
    <2>1. conn'.done /\ ~ conn'.list /\ conn'.oks = 0 /\ ~ conn'.doneOk
      BY <1>2, <1>4 DEF Fresh
    <2> QED
      BY <1>1, <1>2, <1>3, <1>4, <2>1 DEF MpdInv, Places, Starting, Untouched, NoneLeft, Unlocking
  <1>5. CASE lost' = TRUE /\ conn' = conn /\ pc' = "close"
    BY <1>1, <1>2, <1>3, <1>5 DEF MpdInv, Places, Starting, Untouched, Prepared
  <1> QED
    BY <1>1, <1>4, <1>5

(* What sending a command makes of the connection.                         *)
LEMMA Executed ==
  ASSUME NEW c \in Conns, NEW sent \in BOOLEAN
  PROVE  LET d == mpd_executeCommand(c, sent)
         IN  /\ d \in Conns /\ d.list = c.list /\ d.doneOk = c.doneOk
             /\ ~ c.list => d.oks = c.oks
             /\ sent /\ c.list => ~ d.error /\ d.oks = c.oks + 1 /\ d.done = c.done
             /\ sent /\ ~ c.list /\ c.done => ~ d.error /\ ~ d.done
  <1>1. CASE (~ c.done /\ ~ c.list) \/ ~ sent
    <2>1. mpd_executeCommand(c, sent) = [c EXCEPT !.error = TRUE]
      BY <1>1 DEF mpd_executeCommand
    <2>2. [c EXCEPT !.error = TRUE] \in Conns
      BY DEF Conns
    <2> QED
      BY <1>1, <2>1, <2>2 DEF Conns
  <1>2. CASE (c.done \/ c.list) /\ sent
    <2> DEFINE n == IF c.list THEN c.oks + 1 ELSE c.oks
               d == [c EXCEPT !.error = FALSE, !.done = c.list /\ c.done, !.oks = n]
    <2>1. mpd_executeCommand(c, sent) = d
      BY <1>2 DEF mpd_executeCommand
    <2>2. n \in Nat /\ (c.list /\ c.done) \in BOOLEAN
      BY DEF Conns
    <2>3. d \in Conns
      <3> HIDE DEF n
      <3> QED
        BY <2>2 DEF Conns
    <2>4. /\ d.list = c.list /\ d.doneOk = c.doneOk /\ ~ d.error /\ d.oks = n
          /\ d.done = (c.list /\ c.done)
      BY DEF Conns
    <2>5. c.list \in BOOLEAN /\ c.done \in BOOLEAN
      BY DEF Conns
    <2> HIDE DEF d
    <2> QED
      BY <1>2, <2>1, <2>3, <2>4, <2>5
  <1> QED
    BY <1>1, <1>2

(* The password is sent.                                                   *)
LEMMA MpdSendsPassword ==
  ASSUME MpdInv, mpd_sendPasswordCommand
  PROVE  MpdInv'
  <1>1. PICK sent \in Sent : /\ conn' = mpd_executeCommand(conn, sent)
                             /\ Requests("password", sent)
    BY DEF mpd_sendPasswordCommand
  <1>2. /\ pc = "password" /\ pc' = "unlock"
        /\ UNCHANGED << ti, up, answers, state, entity, mode, seen >>
        /\ requests' = IF up THEN Append(requests, "password") ELSE requests
        /\ lost' = (lost \/ ~ sent) /\ sent \in BOOLEAN
    BY <1>1 DEF mpd_sendPasswordCommand, Does, GoesTo, players, window, Requests, Sent
  <1>3. Starting /\ NoneLeft /\ conn.done /\ conn \in Conns
    BY <1>2 DEF MpdInv, Places, MpdTyped
  <1>4. /\ conn' \in Conns /\ ~ conn'.list /\ conn'.oks = 0 /\ ~ conn'.doneOk
        /\ sent => ~ conn'.done
    BY <1>1, <1>2, <1>3, Executed DEF Starting
  <1>5. requests' = << >> \/ requests' = << "password" >>
    BY <1>2, <1>3 DEF NoneLeft
  <1>6. MpdTyped'
    BY <1>2, <1>4, <1>5 DEF MpdInv, MpdTyped
  <1>7. Starting' /\ Unlocking'
    BY <1>2, <1>3, <1>4, <1>5 DEF Starting, Untouched, Unlocking, NoneLeft
  <1> QED
    BY <1>2, <1>4, <1>6, <1>7 DEF MpdInv, Places, MpdTyped

(* Its answer is read.                                                     *)
LEMMA MpdUnlocks ==
  ASSUME MpdInv, FinishesPassword
  PROVE  MpdInv'
  <1>1. pc = "unlock" /\ UNCHANGED << mode >>
    BY DEF FinishesPassword, Does, players
  <1>2. Starting /\ Unlocking /\ (conn.done /\ ~ lost => NoneLeft) /\ MpdTyped
    BY <1>1 DEF MpdInv, Places
  <1>3. CASE conn.done /\ GoesTo("list") /\ Alone /\ UNCHANGED << ti, conn, state, entity >>
    <2>1. /\ pc' = "list"
          /\ UNCHANGED << ti, conn, state, entity, up, requests, answers, lost, mode >>
      BY <1>1, <1>3 DEF GoesTo, Alone
    <2> QED
      BY <1>2, <1>3, <2>1 DEF MpdInv, MpdTyped, Places, Starting, Untouched, Unlocking, NoneLeft
  <1>4. CASE ~ conn.done /\ Finishing
    <2> DEFINE c == [conn EXCEPT !.doneOk = FALSE]
    <2>1. PICK r \in mpd_getNextReturnElement(c) : Continues(r.conn) /\ Happens(r)
      BY <1>4 DEF Finishing
    <2>2. /\ c \in Conns /\ ~ c.done /\ ~ c.list /\ c.oks = 0 /\ ~ c.doneOk
      BY <1>2, <1>4 DEF MpdTyped, Conns, Starting
    <2>3. ~ AllRead(c)
      BY <2>2 DEF AllRead
    <2> HIDE DEF c
    <2>4. /\ conn' = r.conn /\ pc' = "unlock"
          /\ UNCHANGED << ti, up, requests, state, entity, mode >>
      BY <1>1, <2>1 DEF Continues
    <2>5. /\ r.conn \in Conns /\ answers' \in Seq(Lines) /\ lost' \in BOOLEAN
          /\ r.conn.list = c.list
          /\ \/ /\ Broken(r.conn) /\ ~ r.conn.doneOk /\ r.conn.oks = c.oks
                /\ lost' /\ answers' = answers
             \/ /\ answers # << >> /\ Head(answers) \in Lines
                /\ r.conn = Reads(c, Head(answers))
                /\ answers' = Tail(answers) /\ lost' = lost
      BY <1>2, <2>1, <2>2, <2>3, NextReturnElement
    <2>6. MpdTyped'
      BY <1>2, <2>4, <2>5 DEF MpdTyped
    <2>7. CASE /\ Broken(r.conn) /\ ~ r.conn.doneOk /\ r.conn.oks = c.oks
               /\ lost' /\ answers' = answers
      BY <1>2, <2>2, <2>4, <2>5, <2>6, <2>7 DEF MpdInv, Places, Starting, Untouched, Unlocking
    <2>8. CASE /\ answers # << >> /\ Head(answers) \in Lines
               /\ r.conn = Reads(c, Head(answers))
               /\ answers' = Tail(answers) /\ lost' = lost
      <3>1. /\ Head(answers) \in {OK, ACK} /\ answers' = << >> /\ requests = << >>
        BY <1>2, <2>8 DEF Unlocking
      <3>2. conn'.oks = 0 /\ ~ conn'.doneOk /\ ~ conn'.list
        BY <2>2, <2>4, <2>5, <2>8, <3>1, LineReads
      <3> QED
        BY <1>2, <2>4, <2>6, <2>8, <3>1, <3>2
           DEF MpdInv, Places, Starting, Untouched, Unlocking, NoneLeft
    <2> QED
      BY <2>5, <2>7, <2>8
  <1> QED
    BY <1>3, <1>4 DEF FinishesPassword

(* Appending to a short queue.                                             *)
LEMMA Appended ==
  ASSUME NEW a, NEW b
  PROVE  Append(<< >>, b) = << b >> /\ Append(<< a >>, b) = << a, b >>
  <1> DEFINE S == {a, b}
  <1>1. /\ << >> \in Seq(S) /\ << a >> \in Seq(S) /\ << b >> \in Seq(S) /\ << a, b >> \in Seq(S)
        /\ Len(<< >>) = 0 /\ Len(<< a >>) = 1 /\ Len(<< b >>) = 1 /\ Len(<< a, b >>) = 2
        /\ << b >>[1] = b /\ << a >>[1] = a /\ << a, b >>[1] = a /\ << a, b >>[2] = b
        /\ a \in S /\ b \in S
    OBVIOUS
  <1> HIDE DEF S
  <1>2. Append(<< >>, b) = << b >>
    <2>1. /\ Append(<< >>, b) \in Seq(S) /\ Len(Append(<< >>, b)) = 1
          /\ Append(<< >>, b)[1] = b
      BY <1>1, AppendProperties
    <2>2. \A k \in 1 .. Len(Append(<< >>, b)) : Append(<< >>, b)[k] = << b >>[k]
      BY <1>1, <2>1
    <2> QED
      BY <1>1, <2>1, <2>2, SeqEqual
  <1>3. Append(<< a >>, b) = << a, b >>
    <2>1. /\ Append(<< a >>, b) \in Seq(S) /\ Len(Append(<< a >>, b)) = 2
          /\ Append(<< a >>, b)[1] = a /\ Append(<< a >>, b)[2] = b
      BY <1>1, AppendProperties
    <2>2. \A k \in 1 .. Len(Append(<< a >>, b)) : Append(<< a >>, b)[k] = << a, b >>[k]
      BY <1>1, <2>1
    <2> QED
      BY <1>1, <2>1, <2>2, SeqEqual
  <1> QED
    BY <1>2, <1>3

(* The command list is sent, and two answers are expected.                 *)
LEMMA MpdSendsList ==
  ASSUME MpdInv, SendsCommandList
  PROVE  MpdInv'
  <1>1. PICK begin \in Sent, status \in Sent, currentsong \in Sent, end \in Sent :
          /\ conn' = mpd_sendCommandListEnd(
                       mpd_executeCommand(
                         mpd_executeCommand(mpd_sendCommandListOkBegin(conn, begin), status),
                         currentsong), end)
          /\ Requests("list", begin /\ status /\ currentsong /\ end)
    BY DEF SendsCommandList
  <1>2. /\ pc = "list" /\ pc' = "status"
        /\ UNCHANGED << ti, up, answers, state, entity, mode, seen >>
        /\ requests' = IF up THEN Append(requests, "list") ELSE requests
        /\ lost' = (lost \/ ~ (begin /\ status /\ currentsong /\ end))
        /\ {begin, status, currentsong, end} \subseteq BOOLEAN
        /\ up => begin /\ status /\ currentsong /\ end
    BY <1>1 DEF SendsCommandList, Does, GoesTo, players, window, Requests, Sent
  <1>3. Starting /\ Unlocking /\ (~ lost => NoneLeft) /\ conn.done /\ MpdTyped
    BY <1>2 DEF MpdInv, Places
  <1> DEFINE c1 == mpd_executeCommand([conn EXCEPT !.list = TRUE], begin)
             c2 == [c1 EXCEPT !.oks = 0]
             c3 == mpd_executeCommand(c2, status)
             c4 == mpd_executeCommand(c3, currentsong)
             c5 == [c4 EXCEPT !.list = FALSE]
             c6 == mpd_executeCommand(c5, end)
  <1> DEFINE sent == begin /\ status /\ currentsong /\ end
  <1>4. c1 \in Conns /\ c1.list /\ ~ c1.doneOk /\ (sent => c1.done)
    <2>1. /\ [conn EXCEPT !.list = TRUE] \in Conns /\ [conn EXCEPT !.list = TRUE].list
          /\ ~ [conn EXCEPT !.list = TRUE].doneOk /\ [conn EXCEPT !.list = TRUE].done
      BY <1>3 DEF MpdTyped, Conns, Starting
    <2> QED
      BY <1>2, <2>1, Executed
  <1>5. /\ c2 \in Conns /\ c2.list /\ ~ c2.doneOk /\ (sent => c2.done) /\ c2.oks = 0
    <2> HIDE DEF c1
    <2> QED
      BY <1>4 DEF Conns
  <1>6. /\ c3 \in Conns /\ c3.list /\ ~ c3.doneOk /\ (sent => c3.done /\ c3.oks = 1)
    <2> HIDE DEF c2
    <2>1. status \in BOOLEAN
      BY <1>2
    <2> QED
      BY <2>1, <1>5, Executed
  <1>7. /\ c4 \in Conns /\ c4.list /\ ~ c4.doneOk /\ (sent => c4.done /\ c4.oks = 2)
    <2> HIDE DEF c3
    <2>1. currentsong \in BOOLEAN
      BY <1>2
    <2> QED
      BY <2>1, <1>6, Executed
  <1>8. /\ c5 \in Conns /\ ~ c5.list /\ ~ c5.doneOk /\ (sent => c5.done /\ c5.oks = 2)
    <2> HIDE DEF c4
    <2> QED
      BY <1>7 DEF Conns
  <1>9. /\ c6 \in Conns /\ ~ c6.doneOk /\ (sent => ~ c6.done /\ ~ c6.error /\ c6.oks = 2)
    <2> HIDE DEF c5
    <2> QED
      BY <1>2, <1>8, Executed
  <1>10. conn' = c6
    BY <1>1 DEF mpd_sendCommandListEnd, mpd_sendCommandListOkBegin
  <1> HIDE DEF c6
  <1>11. /\ conn' \in Conns /\ (sent => Expects(2)')
    BY <1>9, <1>10 DEF Expects
  <1> HIDE DEF sent
  <1>12. requests' \in {<< >>, << "password" >>, << "list" >>, << "password", "list" >>}
         /\ (requests' \in {<< "list" >>, << "password", "list" >>} => sent)
         /\ (requests = << >> => requests' \in {<< >>, << "list" >>})
    <2>1. CASE up
      <3>1. requests' = Append(requests, "list") /\ sent
        BY <1>2, <2>1 DEF sent
      <3>2. requests \in {<< >>, << "password" >>}
        BY <1>3 DEF Unlocking
      <3>3. /\ requests = << >> => requests' = << "list" >>
            /\ requests = << "password" >> => requests' = << "password", "list" >>
        BY <3>1, Appended
      <3> QED
        BY <3>1, <3>2, <3>3
    <2>2. CASE ~ up
      BY <1>2, <1>3, <2>2 DEF Unlocking
    <2> QED
      BY <2>1, <2>2
  <1>13. MpdTyped'
    BY <1>2, <1>3, <1>11, <1>12 DEF MpdTyped
  <1>14. lost' = (lost \/ ~ sent)
    BY <1>2 DEF sent
  <1>15. Waiting'
    <2>1. CASE answers = << >>
      BY <1>2, <1>3, <1>11, <1>12, <1>14, <2>1 DEF Waiting, Starting, NoneLeft
    <2>2. CASE answers # << >>
      <3>1. Head(answers) \in {OK, ACK} /\ lost
        BY <1>3, <2>2 DEF Unlocking, NoneLeft
      <3> QED
        BY <1>2, <1>3, <1>11, <1>12, <1>14, <2>2, <3>1 DEF Waiting, Starting
    <2> QED
      BY <2>1, <2>2
  <1> QED
    BY <1>2, <1>3, <1>13, <1>15 DEF MpdInv, Places, StatusPlace, Starting, Untouched

(* While an answer is expected, not all is read.                           *)
LEMMA Expecting ==
  ASSUME NEW n \in Nat, Expects(n)
  PROVE  ~ AllRead(conn)
  BY DEF Expects, AllRead

(* No line is a state, a file or a tag.                                    *)
LEMMA NothingRead == Nothing.name \notin {"state", "file", "tags"} /\ Nothing \in Lines
  BY DEF Nothing, Line, Lines

(* The line that says the state.                                           *)
LEMMA StateLine ==
  ASSUME NEW m \in STOPPED .. PLAYING
  PROVE  LET line == Line("state", m)
         IN  line \in Lines /\ line.name = "state" /\ line.value = m /\ line # Nothing
  BY DEF Line, Lines, Nothing

(* A line of the answer to status is read.                                 *)
LEMMA MpdGetsStatus ==
  ASSUME MpdInv, mpd_getStatus
  PROVE  MpdInv'
  <1>1. pc = "status" /\ UNCHANGED mode
    BY DEF mpd_getStatus, Does, players
  <1>2. StatusPlace /\ MpdTyped
    BY <1>1 DEF MpdInv, Places
  <1>3. CASE AllRead(conn)
    <2>1. /\ pc' = "leave" /\ UNCHANGED << ti, conn, state, entity, up, requests, answers, lost >>
      BY <1>3 DEF mpd_getStatus, GoesTo, Alone
    <2>2. lost /\ ti.status = CLOSED
      BY <1>2, <1>3, Expecting DEF StatusPlace, Waiting, Untouched, Prepared
    <2>3. MpdTyped'
      BY <1>1, <1>2, <2>1 DEF MpdTyped
    <2> QED
      BY <2>1, <2>2, <2>3 DEF MpdInv, Places
  <1>4. CASE ~ AllRead(conn)
    <2>1. PICK r \in mpd_getNextReturnElement(conn) : StatusRead(r.conn) /\ Happens(r)
      BY <1>4 DEF mpd_getStatus
    <2> DEFINE c == r.conn
    <2>2. /\ conn' = c /\ UNCHANGED << ti, up, requests, entity, seen >>
          /\ state' = IF c.elem.name = "state" THEN c.elem.value ELSE state
          /\ c.error \/ (c.elem = Nothing /\ state = INVALID) => pc' = "leave"
          /\ ~ c.error /\ c.elem = Nothing /\ state # INVALID => pc' = "next"
          /\ ~ c.error /\ c.elem # Nothing => pc' = "status"
      BY <2>1 DEF StatusRead, GoesTo, window
    <2>3. /\ c \in Conns /\ answers' \in Seq(Lines) /\ lost' \in BOOLEAN
          /\ \/ Broken(c) /\ lost'
             \/ /\ answers # << >> /\ Head(answers) \in Lines
                /\ c = Reads(conn, Head(answers))
                /\ answers' = Tail(answers) /\ lost' = lost
      BY <1>2, <1>4, <2>1, NextReturnElement DEF MpdTyped
    <2> HIDE DEF c
    <2>4. MpdTyped'
      <3>1. c.elem \in Lines
        BY <2>3 DEF Conns
      <3>2. state' \in {INVALID} \cup STOPPED .. PLAYING
        BY <1>2, <2>2, <3>1, LinesAre DEF MpdTyped
      <3> QED
        BY <1>1, <1>2, <2>2, <2>3, <3>2 DEF MpdTyped
    <2>5. ti.status = CLOSED /\ ti'.status = CLOSED
      BY <1>2, <2>2 DEF StatusPlace, Untouched, Prepared
    <2>6. CASE Broken(c) /\ lost'
      BY <2>2, <2>4, <2>5, <2>6 DEF MpdInv, Places, Broken
    <2>7. ASSUME answers # << >>, Head(answers) \in Lines, c = Reads(conn, Head(answers)),
                 answers' = Tail(answers), lost' = lost
          PROVE  MpdInv'
      <3>1. CASE Waiting /\ Head(answers) \in {OK, ACK} /\ lost
        <4>1. c.elem = Nothing /\ state = INVALID
          BY <1>2, <2>7, <3>1, LineReads DEF MpdTyped, Broken, Waiting
        <4> QED
          BY <2>2, <2>4, <2>5, <2>7, <3>1, <4>1 DEF MpdInv, Places
      <3>2. ASSUME Waiting, Expects(2), requests = << >>, NEW m \in STOPPED .. PLAYING,
                   NEW s \in Texts, Was(m, s), answers = Full(m, s)
            PROVE  MpdInv'
        <4> DEFINE line == Line("state", m)
        <4>1. Head(answers) = line /\ answers' = AfterState(s)
          BY <2>7, <3>2, ListAnswered
        <4>2. line \in Lines /\ line.name = "state" /\ line.value = m /\ line # Nothing
          BY StateLine
        <4> HIDE DEF line
        <4>3. /\ c.elem = line /\ c.oks = conn.oks /\ c.doneOk = conn.doneOk
              /\ c.error = conn.error /\ c.done = conn.done
          BY <1>2, <2>7, <4>1, <4>2, LineReads DEF MpdTyped
        <4>4. pc' = "status" /\ state' = m /\ Expects(2)'
          BY <2>2, <3>2, <4>2, <4>3 DEF Expects
        <4>5. Reported(s)'
          BY <2>2, <3>2, <4>4 DEF Reported, Was
        <4> QED
          BY <1>2, <2>2, <2>4, <4>1, <4>4, <4>5 DEF MpdInv, Places, StatusPlace, Untouched,
             AfterState, AfterStatus
      <3>3. ASSUME NEW s \in Texts, Reported(s), Expects(2), answers = AfterState(s)
            PROVE  MpdInv'
        <4>1. Head(answers) = list_OK /\ answers' = AfterStatus(s)
          BY <2>7, <3>3, ListAnswered DEF Reported
        <4>2. /\ c.elem = Nothing /\ c.doneOk /\ c.oks = 1 /\ ~ c.error /\ ~ c.done
          BY <1>2, <2>7, <3>3, <4>1, LineReads DEF MpdTyped, Expects
        <4>3. pc' = "next" /\ state' = state
          BY <2>2, <3>3, <4>2, NothingRead DEF Reported, INVALID, STOPPED, PLAYING
        <4>4. Reported(s)'
          BY <2>2, <3>3, <4>3 DEF Reported, Was
        <4>5. NextPlace'
          BY <1>2, <2>2, <4>1, <4>2, <4>4 DEF NextPlace, StatusPlace, Untouched, AfterStatus
        <4> QED
          BY <2>4, <4>3, <4>5 DEF MpdInv, Places
      <3> QED
        BY <1>2, <2>7, <3>1, <3>2, <3>3 DEF StatusPlace, Waiting
    <2> QED
      BY <2>3, <2>6, <2>7
  <1> QED
    BY <1>3, <1>4

(* The answer to currentsong is begun.                                     *)
LEMMA MpdNextCommand ==
  ASSUME MpdInv, mpd_nextListOkCommand
  PROVE  MpdInv'
  <1>1. pc = "next" /\ UNCHANGED mode
    BY DEF mpd_nextListOkCommand, Does, players
  <1>2. NextPlace /\ MpdTyped
    BY <1>1 DEF MpdInv, Places
  <1>3. /\ conn' = [conn EXCEPT !.doneOk = conn.done /\ @] /\ pc' = "song"
        /\ UNCHANGED << ti, state, entity, up, requests, answers, lost, seen >>
    BY <1>2 DEF mpd_nextListOkCommand, NextPlace, GoesTo, Alone, window
  <1>4. /\ conn' \in Conns /\ conn'.oks = 1 /\ ~ conn'.error /\ ~ conn'.done /\ ~ conn'.doneOk
        /\ conn'.elem = Nothing
    <2>1. (conn.done /\ conn.doneOk) = FALSE
      BY <1>2 DEF NextPlace, MpdTyped, Conns
    <2>2. conn' = [conn EXCEPT !.doneOk = FALSE]
      BY <1>3, <2>1
    <2> QED
      BY <1>2, <2>2 DEF NextPlace, MpdTyped, Conns
  <1>5. MpdTyped'
    BY <1>1, <1>2, <1>3, <1>4 DEF MpdTyped
  <1>6. SongPlace'
    <2>1. \A s : Reported(s)' <=> Reported(s)
      BY <1>3 DEF Reported, Was
    <2>2. Expects(1)' /\ Untouched' /\ ti'.status = CLOSED
      BY <1>2, <1>3, <1>4 DEF Expects, NextPlace, Untouched, Prepared
    <2> QED
      BY <1>2, <1>3, <1>4, <2>1, <2>2 DEF SongPlace, NextPlace, AfterStatus
  <1> QED
    BY <1>3, <1>5, <1>6 DEF MpdInv, Places

(* The lines of the answer to currentsong.                                 *)
LEMMA SongLinesAre ==
  /\ File \in Lines /\ File.name = "file" /\ File # Nothing
  /\ \A s \in Songs : /\ Tags(s) \in Lines /\ Tags(s).name = "tags" /\ Tags(s).value = s
                      /\ Tags(s) # Nothing /\ s # NoText /\ s \in Texts
  BY PollingAssumption DEF File, Tags, Line, Lines, Nothing, Songs, Texts

(* The first line of an entity is read.                                    *)
LEMMA MpdSongs ==
  ASSUME MpdInv, mpd_getNextInfoEntity
  PROVE  MpdInv' /\ (lost' \/ conn.error \/ ~ conn'.error)
  <1>1. pc = "song" /\ UNCHANGED mode
    BY DEF mpd_getNextInfoEntity, Does, players
  <1>2. SongPlace /\ MpdTyped
    BY <1>1 DEF MpdInv, Places
  <1>3. CASE AllRead(conn)
    <2>1. /\ pc' = "songs_read"
          /\ UNCHANGED << ti, conn, state, entity, up, requests, answers, lost >>
      BY <1>3 DEF mpd_getNextInfoEntity, GoesTo, Alone
    <2>2. MpdTyped'
      BY <1>1, <1>2, <2>1 DEF MpdTyped
    <2>3. Broken(conn)
      BY <1>2, <1>3, Expecting DEF SongPlace
    <2> QED
      BY <1>2, <2>1, <2>2, <2>3 DEF MpdInv, Places, LastPlace, Broken, SongPlace
  <1>4. CASE ~ AllRead(conn)
    <2>1. PICK r \in mpd_getNextReturnElement(conn) : EntityBegins(r.conn) /\ Happens(r)
      BY <1>2, <1>4 DEF mpd_getNextInfoEntity, SongPlace
    <2> DEFINE c == r.conn
    <2>2. /\ UNCHANGED << ti, up, requests, state, seen >> /\ entity' = NoText
          /\ c.elem = Nothing => conn' = c /\ pc' = "songs_read"
          /\ c.elem # Nothing /\ c.elem.name = "file" => conn' = c /\ pc' = "tags"
          /\ conn' \in {c, [c EXCEPT !.error = TRUE]}
      BY <2>1, NothingRead DEF EntityBegins, GoesTo, window
    <2>3. /\ c \in Conns /\ answers' \in Seq(Lines) /\ lost' \in BOOLEAN
          /\ \/ Broken(c) /\ lost'
             \/ /\ answers # << >> /\ Head(answers) \in Lines
                /\ c = Reads(conn, Head(answers))
                /\ answers' = Tail(answers) /\ lost' = lost
      BY <1>2, <1>4, <2>1, NextReturnElement DEF MpdTyped
    <2> HIDE DEF c
    <2>4. MpdTyped'
      <3>1. conn' \in Conns
        BY <2>2, <2>3 DEF Conns
      <3> QED
        BY <1>1, <1>2, <2>2, <2>3, <3>1 DEF MpdTyped, Texts
    <2>5. ti'.status = CLOSED
      BY <1>2, <2>2 DEF SongPlace
    <2>6. CASE Broken(c) /\ lost'
      BY <2>2, <2>4, <2>5, <2>6 DEF MpdInv, Places, LastPlace, Broken
    <2>7. ASSUME answers # << >>, Head(answers) \in Lines, c = Reads(conn, Head(answers)),
                 answers' = Tail(answers), lost' = lost
          PROVE  MpdInv' /\ (lost' \/ conn.error \/ ~ conn'.error)
      <3>1. \A s : Reported(s)' <=> Reported(s)
        BY <2>2 DEF Reported, Was
      <3>2. ASSUME Untouched, Expects(1), NEW s \in Texts, Reported(s), answers = AfterStatus(s),
                   s = NoText
            PROVE  MpdInv' /\ (lost' \/ conn.error \/ ~ conn'.error)
        <4>1. Head(answers) = list_OK /\ answers' = << OK >>
          BY <2>7, <3>2, ListAnswered DEF AfterStatus, Reported
        <4>2. /\ c.elem = Nothing /\ c.oks = 0 /\ ~ c.error
          <5>1. conn \in Conns /\ list_OK \in Lines /\ c = Reads(conn, list_OK)
            BY <1>2, <2>7, <4>1 DEF MpdTyped
          <5>2. conn.oks = 1 /\ ~ conn.error
            BY <3>2 DEF Expects
          <5> QED
            BY <5>1, <5>2, LineReads
        <4>3. ti'.text = Text(s)
          BY <2>2, <3>2 DEF Untouched, Prepared
        <4>4. LastPlace'
          BY <2>2, <2>5, <3>1, <3>2, <4>1, <4>2, <4>3 DEF LastPlace, Text
        <4> QED
          BY <2>2, <2>4, <4>2, <4>4 DEF MpdInv, Places
      <3>3. ASSUME Untouched, Expects(1), NEW s \in Texts, Reported(s), answers = AfterStatus(s),
                   s # NoText
            PROVE  MpdInv' /\ (lost' \/ conn.error \/ ~ conn'.error)
        <4>1. Head(answers) = File /\ answers' = << Tags(s), list_OK, OK >> /\ s \in Songs
          BY <2>7, <3>3, ListAnswered DEF Texts, Reported
        <4>2. /\ c.elem = File /\ c.oks = 1 /\ ~ c.doneOk /\ ~ c.error /\ ~ c.done
          <5>1. conn \in Conns /\ File \in Lines /\ c = Reads(conn, File)
            BY <1>2, <2>7, <4>1 DEF MpdTyped
          <5>2. conn.oks = 1 /\ ~ conn.doneOk /\ ~ conn.error /\ ~ conn.done
            BY <3>3 DEF Expects
          <5> QED
            BY <5>1, <5>2, LineReads, SongLinesAre
        <4>3. pc' = "tags" /\ Expects(1)'
          BY <2>2, <4>2, SongLinesAre DEF Expects
        <4>4. TagsPlace'
          BY <2>2, <3>1, <3>3, <4>1, <4>3 DEF TagsPlace, Untouched, Prepared, Tags
        <4> QED
          BY <2>4, <4>2, <4>3, <4>4 DEF MpdInv, Places, Expects
      <3>4. ASSUME Expects(0), NEW s \in Texts, Reported(s), answers = << OK >>, ti.text = Text(s)
            PROVE  MpdInv' /\ (lost' \/ conn.error \/ ~ conn'.error)
        <4>1. Head(answers) = OK
          BY <3>4
        <4>2. /\ c.elem = Nothing /\ c.done /\ ~ c.error
          <5>1. conn \in Conns /\ OK \in Lines /\ c = Reads(conn, OK)
            BY <1>2, <2>7, <4>1 DEF MpdTyped
          <5>2. conn.oks = 0 /\ ~ conn.error
            BY <3>4 DEF Expects
          <5> QED
            BY <5>1, <5>2, LineReads DEF Conns
        <4>3. LastPlace'
          BY <2>2, <2>5, <3>1, <3>4, <4>2 DEF LastPlace, Text
        <4> QED
          BY <2>2, <2>4, <4>2, <4>3 DEF MpdInv, Places
      <3>5. ~ Broken(conn)
        BY <1>4 DEF AllRead, Broken
      <3> QED
        BY <1>2, <2>7, <3>2, <3>3, <3>4, <3>5 DEF SongPlace
    <2> QED
      BY <2>3, <2>6, <2>7
  <1> QED
    BY <1>3, <1>4

(* A line of a song is read.                                               *)
LEMMA MpdTags ==
  ASSUME MpdInv, EntityContinues
  PROVE  MpdInv' /\ (lost' \/ ~ conn'.error)
  <1>1. pc = "tags" /\ UNCHANGED mode
    BY DEF EntityContinues, Does, players
  <1>2. TagsPlace /\ MpdTyped
    BY <1>1 DEF MpdInv, Places
  <1>3. ~ AllRead(conn)
    BY <1>2, Expecting DEF TagsPlace
  <1>4. PICK r \in mpd_getNextReturnElement(conn) : TagsRead(r.conn) /\ Happens(r)
    BY DEF EntityContinues
  <1> DEFINE c == r.conn
  <1>5. /\ conn' = c /\ UNCHANGED << up, requests, state, seen >>
        /\ \/ /\ c.elem.name = "tags" /\ entity' = c.elem.value /\ pc' = "tags" /\ ti' = ti
           \/ /\ c.elem.name # "tags" /\ pc' = "song" /\ entity' = entity
              /\ ti' = IF entity = NoText THEN ti ELSE [ti EXCEPT !.text = Text(entity)]
    BY <1>4 DEF TagsRead, GoesTo, window
  <1>6. /\ c \in Conns /\ answers' \in Seq(Lines) /\ lost' \in BOOLEAN
        /\ \/ Broken(c) /\ lost'
           \/ /\ answers # << >> /\ Head(answers) \in Lines
              /\ c = Reads(conn, Head(answers))
              /\ answers' = Tail(answers) /\ lost' = lost
    BY <1>2, <1>3, <1>4, NextReturnElement DEF MpdTyped
  <1> HIDE DEF c
  <1>7. MpdTyped' /\ ti'.status = CLOSED
    <2>1. c.elem \in Lines
      BY <1>6 DEF Conns
    <2>2. entity' \in Texts
      BY <1>2, <1>5, <2>1, LinesAre DEF MpdTyped, Texts
    <2>3. [ti EXCEPT !.text = Text(entity)] \in
              [status : Modes, player : Names \cup {NoName}, text : [Fields -> Texts]]
          /\ [ti EXCEPT !.text = Text(entity)].status = ti.status
      BY <1>2 DEF MpdTyped, Text
    <2>4. ti.status = CLOSED
      BY <1>2 DEF TagsPlace, Prepared
    <2> QED
      BY <1>1, <1>2, <1>5, <1>6, <2>2, <2>3, <2>4 DEF MpdTyped
  <1>8. CASE Broken(c) /\ lost'
    <2>1. pc' = "song"
      BY <1>5, <1>8, NothingRead DEF Broken
    <2> QED
      BY <1>5, <1>7, <1>8, <2>1 DEF MpdInv, Places, SongPlace, Broken
  <1>9. ASSUME answers # << >>, Head(answers) \in Lines, c = Reads(conn, Head(answers)),
               answers' = Tail(answers), lost' = lost
        PROVE  MpdInv' /\ (lost' \/ ~ conn'.error)
    <2>1. \A s : Reported(s)' <=> Reported(s)
      BY <1>5 DEF Reported, Was
    <2>2. ASSUME NEW s \in Songs, Reported(s), answers = << Tags(s), list_OK, OK >>
          PROVE  MpdInv' /\ (lost' \/ ~ conn'.error)
      <3>1. Head(answers) = Tags(s) /\ answers' = << list_OK, OK >>
        BY <1>9, <2>2, ListAnswered, SongLinesAre DEF Reported
      <3>2. /\ c.elem = Tags(s) /\ c.oks = 1 /\ ~ c.doneOk /\ ~ c.error /\ ~ c.done
        <4>1. conn \in Conns /\ Tags(s) \in Lines /\ c = Reads(conn, Tags(s))
          BY <1>2, <1>9, <3>1 DEF MpdTyped
        <4>2. conn.oks = 1 /\ ~ conn.doneOk /\ ~ conn.error /\ ~ conn.done
          BY <1>2 DEF Expects, TagsPlace
        <4>3. Tags(s).name = "tags"
          BY SongLinesAre
        <4> QED
          BY <4>1, <4>2, <4>3, LineReads
      <3>3. pc' = "tags" /\ entity' = s /\ ti' = ti
        BY <1>5, <3>2, SongLinesAre
      <3>4. TagsPlace'
        BY <1>2, <1>5, <2>1, <2>2, <3>1, <3>2, <3>3 DEF TagsPlace, Expects, Prepared
      <3> QED
        BY <1>5, <1>7, <3>2, <3>3, <3>4 DEF MpdInv, Places
    <2>3. ASSUME NEW s \in Songs, Reported(s), entity = s, answers = << list_OK, OK >>
          PROVE  MpdInv' /\ (lost' \/ ~ conn'.error)
      <3>1. Head(answers) = list_OK /\ answers' = << OK >>
        BY <1>9, <2>3, ListAnswered DEF Reported
      <3>2. /\ c.elem = Nothing /\ c.oks = 0 /\ ~ c.error /\ ~ c.done
        <4>1. conn \in Conns /\ list_OK \in Lines /\ c = Reads(conn, list_OK)
          BY <1>2, <1>9, <3>1 DEF MpdTyped
        <4>2. conn.oks = 1 /\ ~ conn.error /\ ~ conn.done
          BY <1>2 DEF Expects, TagsPlace
        <4> QED
          BY <4>1, <4>2, LineReads
      <3>3. pc' = "song" /\ ti' = [ti EXCEPT !.text = Text(s)]
        BY <1>5, <2>3, <3>2, NothingRead, SongLinesAre
      <3>4. ti'.text = Text(s)
        BY <1>2, <3>3 DEF MpdTyped
      <3>5. SongPlace'
        <4>1. Expects(0)'
          BY <1>5, <3>2 DEF Expects
        <4> QED
          BY <1>5, <1>7, <2>1, <2>3, <3>1, <3>2, <3>4, <4>1, SongLinesAre DEF SongPlace, Text
      <3> QED
        BY <1>5, <1>7, <3>2, <3>3, <3>5 DEF MpdInv, Places
    <2> QED
      BY <1>2, <1>9, <2>2, <2>3 DEF TagsPlace
  <1> QED
    BY <1>6, <1>8, <1>9

(* No further song comes.                                                  *)
LEMMA MpdSongsRead ==
  ASSUME MpdInv, SongsRead
  PROVE  MpdInv'
  <1>1. /\ pc = "songs_read" /\ pc' \in {"close", "finish"} /\ UNCHANGED << mode, seen >>
        /\ UNCHANGED << ti, conn, state, entity, up, requests, answers, lost >>
    BY DEF SongsRead, Does, GoesTo, Alone, players, window
  <1>2. LastPlace /\ MpdTyped
    BY <1>1 DEF MpdInv, Places
  <1>3. MpdTyped'
    BY <1>1, <1>2 DEF MpdTyped
  <1>4. LastPlace'
    BY <1>1, <1>2 DEF LastPlace, Reported, Was, Text
  <1> QED
    BY <1>1, <1>3, <1>4 DEF MpdInv, Places, LastPlace

(* The rest is read, and the status reported.                              *)
LEMMA MpdFinishes ==
  ASSUME MpdInv, FinishesList
  PROVE  /\ MpdInv'
         /\ lost' \/ conn.error \/ conn'.error = FALSE
         /\ conn.error \/ (pc' = "close" => Heard')
  <1>1. pc = "finish" /\ UNCHANGED mode
    BY DEF FinishesList, Does, players
  <1>2. LastPlace /\ MpdTyped
    BY <1>1 DEF MpdInv, Places
  <1>3. CASE ~ conn.done
    <2> DEFINE c == [conn EXCEPT !.doneOk = FALSE]
    <2>1. PICK r \in mpd_getNextReturnElement(c) : Continues(r.conn) /\ Happens(r)
      BY <1>3 DEF FinishesList, Finishing
    <2>2. /\ ~ conn.error /\ conn.oks = 0 /\ answers = << OK >>
          /\ \E s \in Texts : Reported(s) /\ ti.text = Text(s)
      BY <1>2, <1>3 DEF LastPlace
    <2>3. c \in Conns /\ ~ c.done /\ c.oks = 0 /\ ~ c.doneOk /\ ~ c.error
      BY <1>2, <1>3, <2>2 DEF MpdTyped, Conns
    <2>4. ~ AllRead(c)
      BY <2>3 DEF AllRead
    <2> HIDE DEF c
    <2>5. conn' = r.conn /\ pc' = "finish" /\ UNCHANGED << ti, up, requests, state, entity, seen >>
      BY <1>1, <2>1 DEF Continues, window
    <2>6. /\ r.conn \in Conns /\ answers' \in Seq(Lines) /\ lost' \in BOOLEAN
          /\ (Broken(r.conn) /\ lost') \/ r.conn = Reads(c, Head(answers))
      BY <1>2, <2>1, <2>3, <2>4, NextReturnElement
    <2>7. MpdTyped'
      BY <1>1, <1>2, <2>5, <2>6 DEF MpdTyped
    <2>8. CASE Broken(r.conn) /\ lost'
      BY <1>2, <2>5, <2>7, <2>8 DEF MpdInv, Places, LastPlace, Broken
    <2>9. CASE r.conn = Reads(c, Head(answers))
      <3>1. Head(answers) = OK /\ OK \in Lines
        BY <2>2 DEF Lines
      <3>2. r.conn.done /\ ~ r.conn.error
        <4>1. r.conn = Reads(c, OK)
          BY <2>9, <3>1
        <4> QED
          BY <2>3, <3>1, <4>1, LineReads DEF Conns
      <3>3. LastPlace'
        BY <1>2, <2>2, <2>5, <3>2 DEF LastPlace, Reported, Was, Text
      <3> QED
        BY <2>5, <2>7, <3>2, <3>3 DEF MpdInv, Places
    <2> QED
      BY <2>6, <2>8, <2>9
  <1>4. CASE conn.done
    <2>1. /\ ti' = IF conn.error THEN ti ELSE [ti EXCEPT !.status = state]
          /\ pc' = "close" /\ UNCHANGED << conn, state, entity, up, requests, answers, lost, seen >>
      BY <1>4 DEF FinishesList, GoesTo, Alone, window
    <2>2. CASE conn.error
      BY <1>1, <1>2, <2>1, <2>2 DEF MpdInv, MpdTyped, Places, LastPlace
    <2>3. CASE ~ conn.error
      <3>1. PICK s \in Texts : Reported(s) /\ ti.text = Text(s)
        BY <1>2, <2>3 DEF LastPlace
      <3>2. state \in Modes
        BY <3>1 DEF Reported, Modes, CLOSED, STOPPED, PLAYING
      <3>3. /\ ti' \in [status : Modes, player : Names \cup {NoName}, text : [Fields -> Texts]]
            /\ ti'.status = state /\ ti'.text = ti.text
        BY <1>2, <2>1, <2>3, <3>2 DEF MpdTyped
      <3>4. MpdTyped'
        BY <1>1, <1>2, <2>1, <3>3 DEF MpdTyped
      <3>5. Was(ti.status, s)' /\ ti'.text = Text(s)
        BY <2>1, <3>1, <3>3 DEF Was, Reported
      <3> QED
        <4>1. Heard'
          BY <3>5 DEF Heard, Text, Texts
        <4>2. Places'
          BY <2>1, <3>5 DEF Places, Text
        <4>3. conn'.error = FALSE
          BY <1>2, <2>1, <2>3 DEF MpdTyped, Conns
        <4> QED
          BY <3>4, <4>1, <4>2, <4>3 DEF MpdInv
    <2> QED
      BY <2>2, <2>3
  <1> QED
    BY <1>3, <1>4

(* The poll returns, and its locals are gone.                              *)
LEMMA MpdReturns ==
  ASSUME MpdInv, mpd_closeConnection \/ ReturnsEarly
  PROVE  MpdInv'
  <1>1. /\ pc' = "idle" /\ Forgets /\ UNCHANGED << ti, lost, mode >>
    BY DEF mpd_closeConnection, ReturnsEarly, Return, Does, players
  <1>2. Fresh \in Conns /\ << >> \in Seq(Lines) /\ NoText \in Texts
    BY DEF Fresh, Conns, Lines, Texts
  <1>3. MpdTyped'
    BY <1>1, <1>2 DEF MpdInv, MpdTyped, Forgets
  <1> QED
    BY <1>1, <1>3 DEF MpdInv, Places, Forgets, NoneLeft

(* The requests that wait, one by one.                                     *)
LEMMA RequestsAre ==
  ASSUME requests \in {<< >>, << "password" >>, << "list" >>, << "password", "list" >>},
         requests # << >>
  PROVE  \/ requests = << "password" >> /\ Head(requests) = "password" /\ Tail(requests) = << >>
         \/ requests = << "list" >> /\ Head(requests) = "list" /\ Tail(requests) = << >>
         \/ /\ requests = << "password", "list" >> /\ Head(requests) = "password"
            /\ Tail(requests) = << "list" >>
  <1>1. \A a, b : /\ Head(<< a >>) = a /\ Tail(<< a >>) = << >>
                 /\ Head(<< a, b >>) = a /\ Tail(<< a, b >>) = << b >>
    OBVIOUS
  <1> QED
    BY <1>1

(* What is added to the answers does not change which comes first.         *)
LEMMA FirstStays ==
  ASSUME NEW S, NEW old \in Seq(S), NEW more \in Seq(S)
  PROVE  /\ old \o more \in Seq(S)
         /\ old # << >> => Head(old \o more) = Head(old) /\ old \o more # << >>
  <1>1. old \o more \in Seq(S)
    BY ConcatProperties
  <1>2. ASSUME old # << >>
        PROVE  Head(old \o more) = Head(old) /\ old \o more # << >>
    <2>1. Len(old) \in Nat /\ Len(old) > 0 /\ Len(more) \in Nat
      BY <1>2, EmptySeq, LenProperties
    <2>2. Len(old \o more) > 0 /\ (old \o more)[1] = old[1]
      BY <2>1, ConcatProperties
    <2>3. old \o more # << >>
      BY <2>2
    <2> QED
      BY <1>1, <1>2, <2>2, <2>3
  <1> QED
    BY <1>1, <1>2

(* The server answers the first request, or refuses it.                    *)
LEMMA MpdServes ==
  ASSUME PlayersInv, MpdInv, ServerAnswers
  PROVE  MpdInv'
  <1>1. /\ up /\ requests # << >> /\ requests' = Tail(requests) /\ pc # "idle"
        /\ UNCHANGED << pc, ti, conn, up, state, entity, mode, seen >>
    BY DEF ServerAnswers, players, window
  <1>2. MpdTyped
    BY DEF MpdInv
  <1>3. \/ requests = << "password" >> /\ Head(requests) = "password" /\ requests' = << >>
        \/ requests = << "list" >> /\ Head(requests) = "list" /\ requests' = << >>
        \/ /\ requests = << "password", "list" >> /\ Head(requests) = "password"
           /\ requests' = << "list" >>
    BY <1>1, <1>2, RequestsAre DEF MpdTyped
  <1>4. /\ mode[Target] \in STOPPED .. PLAYING /\ song[Target] \in Texts
        /\ Was(mode[Target], song[Target])
    <2>1. mode[Target] \in Modes /\ song[Target] \in Texts /\ Is(Target) \in seen[Target]
      BY <1>1, PollingAssumption DEF PlayersInv, PlayersTyped, SeenNow
    <2>2. mode[Target] # CLOSED
      BY <1>1, <1>2 DEF MpdTyped
    <2> QED
      BY <2>1, <2>2 DEF Modes, CLOSED, STOPPED, PLAYING, Was, Is
  <1> DEFINE state_line == Line("state", mode[Target])
             one == << state_line, list_OK >>
             two == << list_OK, OK >>
  <1>5. /\ one \in Seq(Lines) /\ two \in Seq(Lines) /\ Song \in Seq(Lines)
        /\ << ACK >> \in Seq(Lines) /\ << OK >> \in Seq(Lines) /\ ACK \in Lines /\ OK \in Lines
    <2>1. /\ state_line \in Lines /\ ACK \in Lines /\ OK \in Lines /\ list_OK \in Lines
          /\ File \in Lines
      BY <1>4, StateLine DEF Lines, File
    <2>2. song[Target] # NoText => Tags(song[Target]) \in Lines
      BY <1>4, SongLinesAre DEF Texts
    <2> HIDE DEF state_line
    <2>3. /\ one \in Seq(Lines) /\ two \in Seq(Lines)
          /\ << ACK >> \in Seq(Lines) /\ << OK >> \in Seq(Lines)
      BY <2>1
    <2>4. Song \in Seq(Lines)
      <3>1. Song = IF song[Target] = NoText THEN << >> ELSE << File, Tags(song[Target]) >>
        BY DEF Song, File, Tags
      <3> HIDE DEF Song
      <3>2. CASE song[Target] = NoText
        BY <3>1, <3>2
      <3>3. CASE song[Target] # NoText
        BY <2>1, <2>2, <3>1, <3>3
      <3> QED
        BY <3>2, <3>3
    <2> QED
      BY <2>1, <2>3, <2>4
  <1> HIDE DEF one, two, state_line
  <1>6. \/ answers' = Append(answers, ACK) /\ lost' = TRUE
        \/ answers' = Append(answers, OK) /\ lost' = lost /\ Head(requests) = "password"
        \/ /\ answers' = answers \o one \o Song \o two /\ lost' = lost
           /\ Head(requests) = "list"
    BY DEF ServerAnswers, Answered, Unanswered, one, two, state_line
  <1>7. /\ answers' \in Seq(Lines)
        /\ answers # << >> => answers' # << >> /\ Head(answers') = Head(answers)
    <2>1. CASE answers' \in {Append(answers, ACK), Append(answers, OK)}
      <3>1. PICK last \in Lines : answers' = Append(answers, last)
        BY <1>5, <2>1
      <3>2. answers' = answers \o << last >> /\ << last >> \in Seq(Lines)
        BY <1>2, <3>1, AppendIsConcat DEF MpdTyped
      <3> QED
        BY <1>2, <3>2, FirstStays DEF MpdTyped
    <2>2. CASE answers' = answers \o one \o Song \o two
      <3>1. /\ answers \o one \in Seq(Lines)
            /\ answers # << >> => answers \o one # << >> /\ Head(answers \o one) = Head(answers)
        BY <1>2, <1>5, FirstStays DEF MpdTyped
      <3>2. /\ answers \o one \o Song \in Seq(Lines)
            /\ answers # << >> => /\ answers \o one \o Song # << >>
                                 /\ Head(answers \o one \o Song) = Head(answers)
        BY <1>5, <3>1, FirstStays
      <3> QED
        BY <1>5, <2>2, <3>2, FirstStays
    <2> QED
      BY <1>6, <2>1, <2>2
  <1>8. MpdTyped'
    BY <1>1, <1>2, <1>3, <1>6, <1>7 DEF MpdTyped
  <1>9. (lost => lost') /\ (answers = << >> => answers' \in {<< OK >>, << ACK >>,
                                                      Full(mode[Target], song[Target])})
    <2>1. answers = << >> => Append(answers, ACK) = << ACK >> /\ Append(answers, OK) = << OK >>
      BY Appended
    <2>2. answers = << >> => answers \o one \o Song \o two = Full(mode[Target], song[Target])
      BY <1>4, ListSent DEF one, two, state_line
    <2>3. answers = << >> => answers' \in {<< OK >>, << ACK >>, Full(mode[Target], song[Target])}
      BY <1>6, <2>1, <2>2
    <2>4. lost => lost'
      BY <1>6
    <2> QED
      BY <2>3, <2>4
  <1>10. CASE pc \in {"unlock", "list"}
    <2>1. /\ Starting /\ requests = << "password" >> /\ answers = << >>
          /\ conn.done => lost
          /\ conn.done \/ pc = "unlock"
          /\ pc = "list" => lost /\ conn.done
      BY <1>1, <1>3, <1>10 DEF MpdInv, Places, Unlocking, NoneLeft
    <2>2. /\ requests' = << >> /\ answers' \in {<< OK >>, << ACK >>}
          /\ answers' = << ACK >> => lost'
      <3>1. /\ Append(answers, ACK) = << ACK >> /\ Append(answers, OK) = << OK >>
            /\ << OK >> # << ACK >>
        BY <2>1, Appended DEF OK, ACK, Line
      <3> QED
        BY <1>3, <1>6, <2>1, <3>1
    <2>3. conn.done => lost
      BY <1>3, <1>10, <2>1 DEF MpdInv, Places, NoneLeft
    <2> QED
      BY <1>1, <1>8, <1>9, <1>10, <2>1, <2>2, <2>3
         DEF MpdInv, Places, Starting, Untouched, Unlocking
  <1>11. CASE pc = "status"
    <2>1. Untouched /\ Waiting
      BY <1>1, <1>11 DEF MpdInv, Places, StatusPlace, Reported
    <2>2. CASE answers # << >>
      <3>1. Head(answers) \in {OK, ACK} /\ lost
        BY <1>1, <2>1, <2>2 DEF Waiting
      <3>2. requests' \in {<< "list" >>, << "password", "list" >>} => Expects(2)'
        <4>1. requests' = << "list" >> => requests = << "password", "list" >>
          BY <1>3
        <4> QED
          BY <1>1, <1>3, <2>1, <4>1 DEF Waiting, Expects
      <3>3. Waiting'
        BY <1>1, <1>7, <1>9, <2>1, <2>2, <3>1, <3>2 DEF Waiting
      <3> QED
        BY <1>1, <1>8, <1>11, <2>1, <3>3 DEF MpdInv, Places, StatusPlace, Untouched
    <2>3. CASE answers = << >>
      <3>1. CASE answers' = Append(answers, ACK) /\ lost' = TRUE
        <4>1. answers' # << >> /\ Head(answers') = ACK
          BY <2>3, <3>1, Appended
        <4> QED
          BY <1>1, <1>3, <1>8, <1>11, <2>1, <3>1, <4>1
             DEF MpdInv, Places, StatusPlace, Untouched, Waiting, Expects
      <3>2. CASE answers' = Append(answers, OK) /\ lost' = lost /\ Head(requests) = "password"
        <4>1. answers' # << >> /\ Head(answers') = OK
          BY <2>3, <3>2, Appended
        <4>2. lost
          BY <1>3, <2>1, <2>3, <3>2 DEF Waiting
        <4> QED
          BY <1>1, <1>3, <1>8, <1>11, <2>1, <3>2, <4>1, <4>2
             DEF MpdInv, Places, StatusPlace, Untouched, Waiting, Expects
      <3>3. CASE answers' = answers \o one \o Song \o two /\ Head(requests) = "list"
        <4>1. answers' = Full(mode[Target], song[Target])
          BY <1>4, <2>3, <3>3, ListSent DEF one, two, state_line
        <4>2. requests' = << >> /\ Expects(2)
          BY <1>3, <2>1, <3>3 DEF Waiting
        <4>3. Waiting'
          <5>1. Was(mode[Target], song[Target])' /\ state' = INVALID /\ Expects(2)'
            BY <1>1, <1>4, <2>1, <4>2 DEF Was, Waiting, Expects, ServerAnswers, players
          <5>2. mode'[Target] = mode[Target] /\ song'[Target] = song[Target]
            BY DEF ServerAnswers, players
          <5> QED
            BY <1>4, <4>1, <4>2, <5>1, <5>2 DEF Waiting, Full, AfterState, AfterStatus, Was
        <4> QED
          BY <1>1, <1>8, <1>11, <2>1, <4>3 DEF MpdInv, Places, StatusPlace, Untouched
      <3> QED
        BY <1>6, <3>1, <3>2, <3>3
    <2> QED
      BY <2>2, <2>3
  <1>12. CASE pc \notin {"unlock", "list", "status"}
    <2>1. \/ pc = "song" /\ SongPlace /\ Broken(conn)
          \/ pc \in {"songs_read", "finish"} /\ LastPlace /\ conn.error /\ conn.done
          \/ /\ pc = "close"
             /\ ti.status = CLOSED \/ \E s \in Texts : Was(ti.status, s) /\ ti.text = Text(s)
          \/ pc = "leave" /\ ti.status = CLOSED /\ lost
      BY <1>1, <1>12 DEF MpdInv, Places, NoneLeft, NextPlace, SongPlace, TagsPlace,
             LastPlace, Reported
    <2> QED
      BY <1>1, <1>8, <1>9, <2>1 DEF MpdInv, Places, SongPlace, LastPlace, Broken, Was, Text
  <1> QED
    BY <1>10, <1>11, <1>12

(* A change of the player adds to what was seen.                           *)
LEMMA MpdPlayerMoves ==
  ASSUME PlayersInv, MpdInv, MpdMoves
  PROVE  PlayersInv' /\ MpdInv'
  <1>1. /\ PlayersInv' /\ (pc # "idle" => Remembers)
        /\ UNCHANGED << pc, ti, lost, conn, requests, answers, state, entity >>
        /\ up' = (up /\ mode'[Target] # CLOSED)
    BY PlayerMoves, PollingAssumption DEF MpdMoves, poll
  <1>2. MpdTyped'
    BY <1>1 DEF MpdInv, MpdTyped
  <1>3. CASE pc = "idle"
    BY <1>1, <1>2, <1>3 DEF MpdInv, Places, NoneLeft
  <1>4. CASE pc # "idle"
    <2>1. \A m, s : Was(m, s) => Was(m, s)'
      BY <1>1, <1>4, PollingAssumption DEF Remembers, Was
    <2>2. \A s : Reported(s) => Reported(s)'
      BY <1>1, <2>1 DEF Reported
    <2>3. UNCHANGED << Starting, Unlocking, NoneLeft, Untouched >>
      BY <1>1 DEF Starting, Unlocking, NoneLeft, Untouched
    <2>4. \A n : Expects(n)' <=> Expects(n)
      BY <1>1 DEF Expects
    <2>5. StatusPlace => StatusPlace'
      <3>1. Waiting => Waiting'
        BY <1>1, <2>1, <2>4 DEF Waiting, Full, AfterState, AfterStatus
      <3> QED
        BY <1>1, <2>2, <2>3, <2>4, <3>1 DEF StatusPlace, AfterState, AfterStatus
    <2>6. NextPlace => NextPlace'
      BY <1>1, <2>2, <2>3 DEF NextPlace, AfterStatus
    <2>7. SongPlace => SongPlace'
      BY <1>1, <2>2, <2>3, <2>4 DEF SongPlace, AfterStatus, Text
    <2>8. TagsPlace => TagsPlace'
      BY <1>1, <2>2, <2>4 DEF TagsPlace, Prepared
    <2>9. LastPlace => LastPlace'
      BY <1>1, <2>2 DEF LastPlace, Text
    <2>10. Places'
      BY <1>1, <1>4, <2>1, <2>3, <2>5, <2>6, <2>7, <2>8, <2>9 DEF MpdInv, Places, Text
    <2> QED
      BY <1>1, <1>2, <2>10 DEF MpdInv
  <1> QED
    BY <1>1, <1>3, <1>4

(* A step of another adapter leaves all of it alone.                       *)
LEMMA MpdUnmoved ==
  ASSUME MpdInv,
         UNCHANGED << mode, song, pc, ti, lost, seen, conn, up, requests, answers, state, entity >>
  PROVE  MpdInv'
  <1>1. MpdTyped'
    BY DEF MpdInv, MpdTyped
  <1>2. Places'
    <2>1. UNCHANGED << Starting, Unlocking, NoneLeft, Untouched >>
      BY DEF Starting, Unlocking, NoneLeft, Untouched
    <2>2. UNCHANGED << StatusPlace, NextPlace, SongPlace, TagsPlace, LastPlace >>
      BY DEF StatusPlace, Waiting, NextPlace, SongPlace, TagsPlace, LastPlace, Expects, Reported,
             Was, Untouched, Full, AfterState, AfterStatus, Text, Prepared
    <2> QED
      BY <2>1, <2>2 DEF MpdInv, Places, Was, Text
  <1> QED
    BY <1>1, <1>2 DEF MpdInv

(* Every step.                                                             *)
LEMMA MpdStep ==
  ASSUME PlayersInv, MpdInv, MpdNext
  PROVE  PlayersInv' /\ MpdInv'
  <1>1. CASE get_mpd_info
    BY <1>1, MpdPolls, PollBegins DEF get_mpd_info
  <1>2. CASE \/ Connects \/ Welcomed \/ mpd_sendPasswordCommand \/ FinishesPassword
             \/ SendsCommandList \/ mpd_getStatus \/ mpd_nextListOkCommand
             \/ mpd_getNextInfoEntity \/ EntityContinues \/ SongsRead \/ FinishesList
    <2>1. pc # "idle" /\ UNCHANGED << players, window >>
      BY <1>2 DEF Connects, Welcomed, mpd_sendPasswordCommand, FinishesPassword, SendsCommandList,
         mpd_getStatus, mpd_nextListOkCommand, mpd_getNextInfoEntity, EntityContinues, SongsRead,
         FinishesList, Does, GoesTo, Finishing, Continues, StatusRead, EntityBegins, TagsRead
    <2>2. PlayersInv'
      BY <2>1, PollGoesOn
    <2> QED
      BY <1>2, <2>2, MpdConnects, MpdWelcomed, MpdSendsPassword, MpdUnlocks, MpdSendsList,
         MpdGetsStatus, MpdNextCommand, MpdSongs, MpdTags, MpdSongsRead, MpdFinishes
  <1>3. CASE mpd_closeConnection \/ ReturnsEarly
    BY <1>3, MpdReturns, PollReturns DEF mpd_closeConnection, ReturnsEarly, Does
  <1>4. CASE ServerAnswers
    <2>1. PlayersInv'
      BY <1>4, PollGoesOn DEF ServerAnswers
    <2> QED
      BY <1>4, <2>1, MpdServes
  <1>5. CASE MpdMoves
    BY <1>5, MpdPlayerMoves
  <1>6. CASE cb_mpd_changed
    <2>1. /\ UNCHANGED << mode, song, pc, ti, lost, seen, moves >>
          /\ UNCHANGED << conn, up, requests, answers, state, entity >>
      BY <1>6 DEF cb_mpd_changed, polling, players, poll, window, mpdlocals
    <2>2. PlayersInv'
      BY <2>1, PollGoesOn DEF players, window
    <2> QED
      BY <2>1, <2>2, MpdUnmoved
  <1> QED
    BY <1>1, <1>2, <1>3, <1>4, <1>5, <1>6 DEF MpdNext, Mpds

(* There are two ways out of the poll.                                     *)
LEMMA MpdEnding ==
  ASSUME MpdNext, Returns
  PROVE  mpd_closeConnection \/ ReturnsEarly
  <1>1. pc # "idle" /\ pc' = "idle"
    BY DEF Returns
  <1>2. ~ (Connects \/ Welcomed \/ mpd_sendPasswordCommand \/ SendsCommandList \/ mpd_getStatus
           \/ EntityContinues \/ SongsRead \/ get_mpd_info)
    BY <1>1 DEF Connects, Welcomed, mpd_sendPasswordCommand, SendsCommandList, mpd_getStatus,
       EntityContinues, SongsRead, GoesTo, StatusRead, TagsRead, get_mpd_info
  <1>3. ~ (FinishesPassword \/ mpd_nextListOkCommand \/ mpd_getNextInfoEntity \/ FinishesList)
    BY <1>1 DEF FinishesPassword, mpd_nextListOkCommand, mpd_getNextInfoEntity, FinishesList,
       GoesTo, Finishing, Continues, EntityBegins, Does
  <1>4. ~ (ServerAnswers \/ MpdMoves \/ cb_mpd_changed)
    BY <1>1 DEF ServerAnswers, MpdMoves, Moves, poll, cb_mpd_changed
  <1> QED
    BY <1>2, <1>3, <1>4 DEF MpdNext, Mpds

(* What is reported was played, in that state.                             *)
LEMMA MpdWhole ==
  ASSUME MpdInv, MpdNext, Returns, ti'.status # CLOSED
  PROVE  \E s \in seen[Target] : ti'.status = s.mode /\ ti'.text = Text(s.song)
  <1>1. pc = "close" /\ ti' = ti
    BY MpdEnding DEF mpd_closeConnection, ReturnsEarly, Does, MpdInv, Places
  <1>2. PICK s \in Texts : Was(ti.status, s) /\ ti.text = Text(s)
    BY <1>1 DEF MpdInv, Places
  <1> QED
    BY <1>1, <1>2 DEF Was

(* The way out that leaks is only taken after a lost call.                 *)
LEMMA MpdLeaks ==
  ASSUME MpdInv, MpdNext, Returns, ~ lost'
  PROVE  leaked' = leaked
  <1>1. CASE mpd_closeConnection
    BY <1>1 DEF mpd_closeConnection
  <1>2. CASE ReturnsEarly
    <2>1. pc = "leave" /\ lost' = lost
      BY <1>2 DEF ReturnsEarly, Does
    <2> QED
      BY <2>1 DEF MpdInv, Places
  <1> QED
    BY <1>1, <1>2, MpdEnding

(***************************************************************************)
(* Polls in which every call is answered.                                  *)
(***************************************************************************)
LEMMA StraightOn ==
  ASSUME PlayersInv, MpdInv, Straight, MpdNext
  PROVE  Straight'
  <1> SUFFICES ASSUME ~ lost', pc' \in {"song", "songs_read", "finish", "close"}
               PROVE  /\ pc' # "close" => ~ conn'.error
                      /\ pc' = "close" => Heard'
    BY DEF Straight
  <1>1. CASE Connects
    <2>1. /\ pc = "connect" /\ mode[Target] = CLOSED /\ pc' = "close" /\ UNCHANGED << ti, seen >>
      BY <1>1 DEF Connects, Does, GoesTo, window
    <2>2. ti = Prepared
      BY <2>1 DEF MpdInv, Places, Starting, Untouched
    <2>3. Is(Target) \in seen[Target] /\ song[Target] = NoText
      BY <2>1, PollingAssumption DEF PlayersInv, SeenNow, SongsMatch
    <2>4. Was(CLOSED, NoText)'
      BY <2>1, <2>3 DEF Was, Is
    <2> QED
      BY <2>1, <2>2, <2>4 DEF Heard, Prepared, Texts
  <1>2. CASE mpd_nextListOkCommand
    <2>1. pc = "next" /\ NextPlace
      BY <1>2 DEF mpd_nextListOkCommand, Does, MpdInv, Places
    <2>2. pc' = "song" /\ conn' = [conn EXCEPT !.doneOk = conn.done /\ @]
      BY <1>2, <2>1 DEF mpd_nextListOkCommand, GoesTo, NextPlace
    <2> QED
      BY <2>1, <2>2 DEF NextPlace, MpdInv, MpdTyped, Conns
  <1>3. CASE mpd_getNextInfoEntity
    <2>1. pc = "song" /\ pc' # "close" /\ (lost' \/ conn.error \/ ~ conn'.error)
      BY <1>3, MpdSongs DEF mpd_getNextInfoEntity, Does, GoesTo, EntityBegins
    <2>2. lost => lost'
      <3>1. \A r \in mpd_getNextReturnElement(conn) : lost => r.lost
        BY DEF mpd_getNextReturnElement
      <3> QED
        BY <1>3, <3>1 DEF mpd_getNextInfoEntity, Alone, Happens
    <2> QED
      BY <2>1, <2>2 DEF Straight
  <1>4. CASE EntityContinues
    <2>1. pc' # "close"
      BY <1>4 DEF EntityContinues, TagsRead, GoesTo
    <2> QED
      BY <1>4, <2>1, MpdTags
  <1>5. CASE SongsRead
    BY <1>5 DEF SongsRead, Does, GoesTo, Alone, Straight
  <1>6. CASE FinishesList
    <2>1. pc = "finish" /\ (lost => lost')
      BY <1>6 DEF FinishesList, Does, Finishing, Continues, Alone, Happens,
                  mpd_getNextReturnElement
    <2>2. ~ conn.error
      BY <2>1 DEF Straight
    <2> QED
      BY <1>6, <2>2, MpdFinishes
  <1>7. CASE ServerAnswers
    <2>1. UNCHANGED << pc, conn, ti, seen >> /\ (lost => lost')
      BY <1>7 DEF ServerAnswers, window, Answered, Unanswered
    <2> QED
      BY <2>1 DEF Straight, Heard, Was, Text
  <1>8. CASE MpdMoves
    <2>1. Remembers /\ UNCHANGED << pc, ti, lost, conn >>
      BY <1>8, PlayerMoves, PollingAssumption DEF MpdMoves, poll
    <2>2. \A m, s : Was(m, s) => Was(m, s)'
      BY <2>1, PollingAssumption DEF Remembers, Was
    <2> QED
      BY <2>1, <2>2 DEF Straight, Heard, Text
  <1>9. CASE cb_mpd_changed
    BY <1>9 DEF cb_mpd_changed, polling, poll
  <1>10. ~ (get_mpd_info \/ mpd_sendPasswordCommand \/ FinishesPassword \/ SendsCommandList
            \/ mpd_getStatus \/ mpd_closeConnection \/ ReturnsEarly \/ Welcomed)
    BY DEF get_mpd_info, mpd_sendPasswordCommand, FinishesPassword, SendsCommandList,
           mpd_getStatus, mpd_closeConnection, ReturnsEarly, Does, Finishing, Continues,
           StatusRead, GoesTo, Return, Welcomed, Unanswered
  <1> QED
    BY <1>1, <1>2, <1>3, <1>4, <1>5, <1>6, <1>7, <1>8, <1>9, <1>10 DEF MpdNext, Mpds

(* Of an MPD that rests, with every call answered, what is reported is     *)
(* right.                                                                  *)
LEMMA MpdRight ==
  ASSUME MpdInv, Straight, MpdNext, Returns, ~ lost', seen[Target] = {Is(Target)}
  PROVE  MpdSettled'
  <1>1. CASE mpd_closeConnection
    <2>1. pc = "close" /\ ~ lost /\ UNCHANGED << ti, mode, song >>
      BY <1>1 DEF mpd_closeConnection, Does, players
    <2>2. PICK s \in Texts : Was(ti.status, s) /\ ti.text = Text(s)
      BY <2>1 DEF Straight, Heard
    <2> QED
      BY <2>1, <2>2 DEF Was, Is, MpdSettled, Text
  <1>2. CASE ReturnsEarly
    BY <1>2 DEF ReturnsEarly, Does, MpdInv, Places
  <1> QED
    BY <1>1, <1>2, MpdEnding
=============================================================================
