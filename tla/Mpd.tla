--------------------------------- MODULE Mpd ---------------------------------
(***************************************************************************)
(* The MPD adapter and the part of libmpdclient it uses.  A poll opens a   *)
(* connection, gives the password if there is one, sends "status" and      *)
(* "currentsong" as one command list, and reads the answer line by line.   *)
(* Every line may come too late, and is then read in place of the next.    *)
(* A state line stands for all of the answer to "status", a tags line for  *)
(* the lines after "file" in the answer to "currentsong".                  *)
(***************************************************************************)
EXTENDS Polling, Sequences

VARIABLES
  password,  \* there is one in the preferences
  conn,      \* the mpd_Connection
  up,        \* the server has not closed its end
  requests,  \* received by the server and not yet answered
  answers,   \* the lines of its answers, not yet read
  state,     \* status->state
  entity,    \* the song of the entity that is being read
  leaked     \* a poll has returned without closing its connection

mpdlocals == << conn, up, requests, answers, state, entity >>
mpd       == << password, mpdlocals, leaked >>
mpdvars   == << polling, mpd >>

Line(name, value) == [name |-> name, value |-> value]
Nothing == Line("nothing", NoText)
OK      == Line("OK", NoText)
list_OK == Line("list_OK", NoText)
ACK     == Line("ACK", NoText)

(* doneProcessing, commandList, listOks, doneListOk, error, returnElement. *)
Fresh == [done |-> FALSE, list |-> FALSE, oks |-> 0, doneOk |-> FALSE, error |-> FALSE,
          elem |-> Nothing]

MpdInit ==
  /\ password \in BOOLEAN
  /\ conn = Fresh
  /\ up = FALSE
  /\ requests = << >>
  /\ answers = << >>
  /\ state = INVALID
  /\ entity = NoText
  /\ leaked = FALSE

-----------------------------------------------------------------------------
(***************************************************************************)
(* libmpdclient: what each function makes of the connection.               *)
(***************************************************************************)
mpd_executeCommand(c, sent) ==
  IF ~ c.done /\ ~ c.list THEN [c EXCEPT !.error = TRUE]
  ELSE IF ~ sent          THEN [c EXCEPT !.error = TRUE]
  ELSE [c EXCEPT !.error = FALSE,
                 !.done = c.list /\ c.done,
                 !.oks = IF c.list THEN @ + 1 ELSE @]

(* Mutant of mpd_sendCommandListOkBegin: the command that begins the list  *)
(* is counted as one that is answered.                                     *)
mpd_sendCommandListOkBegin_counted(c, sent) ==
  mpd_executeCommand([c EXCEPT !.list = TRUE], sent)

mpd_sendCommandListOkBegin(c, sent) ==
  [mpd_executeCommand([c EXCEPT !.list = TRUE], sent) EXCEPT !.oks = 0]

mpd_sendCommandListEnd(c, sent) == mpd_executeCommand([c EXCEPT !.list = FALSE], sent)

AllRead(c) == c.done \/ (c.oks > 0 /\ c.doneOk)

(* A line is read.                                                         *)
Reads(c, line) ==
  CASE line.name = "OK" ->
         [c EXCEPT !.elem = Nothing, !.error = @ \/ c.oks > 0, !.oks = 0, !.done = TRUE,
                   !.doneOk = FALSE]
    [] line.name = "list_OK" ->
         IF c.oks = 0 THEN [c EXCEPT !.elem = Nothing, !.error = TRUE]
                      ELSE [c EXCEPT !.elem = Nothing, !.doneOk = TRUE, !.oks = @ - 1]
    [] line.name = "ACK" ->
         [c EXCEPT !.elem = Nothing, !.error = TRUE, !.done = TRUE, !.doneOk = FALSE]
    [] OTHER -> [c EXCEPT !.elem = line]

(* The connection is closed, or no line comes in time.                     *)
Breaks(c) == [c EXCEPT !.elem = Nothing, !.error = TRUE, !.done = TRUE, !.doneOk = FALSE]

(* It is called although there is nothing to read.                         *)
ReadsTooMuch(c) == [c EXCEPT !.elem = Nothing, !.error = TRUE]

(* What it may come to: the connection, what is left to read, and whether  *)
(* an answer was missing.                                                  *)
mpd_getNextReturnElement(c) ==
  IF AllRead(c) THEN {[conn |-> ReadsTooMuch(c), answers |-> answers, lost |-> lost]}
  ELSE {[conn |-> Breaks(c), answers |-> answers, lost |-> TRUE]}
         \cup {[conn |-> Reads(c, line), answers |-> Tail(answers), lost |-> lost] :
                 line \in IF answers = << >> THEN {} ELSE {Head(answers)}}

Happens(r) == answers' = r.answers /\ lost' = r.lost

-----------------------------------------------------------------------------
(***************************************************************************)
(* get_mpd_info.                                                           *)
(***************************************************************************)
get_mpd_info ==
  /\ BeginPoll
  /\ pc' = "connect"
  /\ UNCHANGED << search, mpd >>

Does(place) == pc = place /\ adapter = "MPD" /\ UNCHANGED << adapter, players, search, password >>
Alone == UNCHANGED << up, requests, answers, lost, leaked >>

(* mpd_newConnection: the socket is connected.                             *)
Connects ==
  /\ Does("connect")
  /\ IF mode[Target] = CLOSED
     THEN GoesTo("close") /\ UNCHANGED up
     ELSE GoesTo("welcome") /\ up' = TRUE
  /\ UNCHANGED << ti, lost, conn, requests, answers, state, entity, leaked >>

(* mpd_newConnection: the server says its version, or nothing, or is none. *)
Welcomed ==
  /\ Does("welcome")
  /\ \/ up /\ Answered /\ conn' = [conn EXCEPT !.done = TRUE]
           /\ GoesTo(IF password THEN "password" ELSE "list")
     \/ Unanswered /\ UNCHANGED conn /\ GoesTo("close")
  /\ UNCHANGED << ti, up, requests, answers, state, entity, leaked >>

(* What is sent reaches the server while it keeps its end open.            *)
Sent == IF up THEN {TRUE} ELSE BOOLEAN

Requests(r, sent) ==
  /\ requests' = IF up THEN Append(requests, r) ELSE requests
  /\ lost' = (lost \/ ~ sent)
  /\ UNCHANGED << ti, up, answers, state, entity, leaked >>

mpd_sendPasswordCommand ==
  /\ Does("password")
  /\ \E sent \in Sent : /\ conn' = mpd_executeCommand(conn, sent)
                       /\ Requests("password", sent)
  /\ GoesTo("unlock")

Continues(c) == conn' = c /\ UNCHANGED << pc, window, ti, up, requests, state, entity, leaked >>

(* mpd_finishCommand                                                       *)
Finishing ==
  \E r \in mpd_getNextReturnElement([conn EXCEPT !.doneOk = FALSE]) : Continues(r.conn) /\ Happens(r)

(* Whether the password was right is not looked at.                        *)
FinishesPassword ==
  /\ Does("unlock")
  /\ \/ ~ conn.done /\ Finishing
     \/ conn.done /\ GoesTo("list") /\ Alone /\ UNCHANGED << ti, conn, state, entity >>

SendsCommandList ==
  /\ Does("list")
  /\ \E begin, status, currentsong, end \in Sent :
       /\ conn' = mpd_sendCommandListEnd(
                    mpd_executeCommand(
                      mpd_executeCommand(mpd_sendCommandListOkBegin(conn, begin), status),
                      currentsong), end)
       /\ Requests("list", begin /\ status /\ currentsong /\ end)
  /\ GoesTo("status")

(* mpd_getStatus, in its loop; get_mpd_info does not close when it is NULL. *)
StatusRead(c) ==
  /\ conn' = c
  /\ state' = IF c.elem.name = "state" THEN c.elem.value ELSE state
  /\ IF c.error \/ (c.elem = Nothing /\ state = INVALID) THEN GoesTo("leave")
     ELSE IF c.elem = Nothing THEN GoesTo("next") ELSE GoesTo("status")
  /\ UNCHANGED << ti, up, requests, entity, leaked >>

mpd_getStatus ==
  /\ Does("status")
  /\ \/ AllRead(conn) /\ GoesTo("leave") /\ Alone /\ UNCHANGED << ti, conn, state, entity >>
     \/ /\ ~ AllRead(conn)
        /\ \E r \in mpd_getNextReturnElement(conn) : StatusRead(r.conn) /\ Happens(r)

mpd_nextListOkCommand ==
  /\ Does("next")
  /\ \/ /\ ~ conn.done /\ conn.oks > 0 /\ ~ conn.doneOk
        /\ \E r \in mpd_getNextReturnElement(conn) : Continues(r.conn) /\ Happens(r)
     \/ /\ conn.done \/ conn.oks = 0 \/ conn.doneOk
        /\ conn' = [conn EXCEPT !.doneOk = conn.done /\ @]
        /\ GoesTo("song")
        /\ Alone
        /\ UNCHANGED << ti, state, entity >>

(* mpd_getNextInfoEntity, up to the first line of an entity.               *)
EntityBegins(c) ==
  /\ conn' = IF c.elem # Nothing /\ c.elem.name # "file" THEN [c EXCEPT !.error = TRUE] ELSE c
  /\ GoesTo(IF c.elem.name = "file" THEN "tags" ELSE "songs_read")
  /\ entity' = NoText
  /\ UNCHANGED << ti, up, requests, state, leaked >>

mpd_getNextInfoEntity ==
  /\ Does("song")
  /\ IF AllRead(conn)
     THEN GoesTo("songs_read") /\ Alone /\ UNCHANGED << ti, conn, state, entity >>
     ELSE IF conn.elem = Nothing
          THEN \E r \in mpd_getNextReturnElement(conn) : EntityBegins(r.conn) /\ Happens(r)
          ELSE EntityBegins(conn) /\ UNCHANGED << answers, lost >>

(* The rest of the entity, which get_mpd_info copies into ti.              *)
TagsRead(c) ==
  /\ conn' = c
  /\ IF c.elem.name = "tags"
     THEN entity' = c.elem.value /\ GoesTo("tags") /\ UNCHANGED ti
     ELSE /\ ti' = IF entity = NoText THEN ti ELSE [ti EXCEPT !.text = Text(entity)]
          /\ GoesTo("song")
          /\ UNCHANGED entity
  /\ UNCHANGED << up, requests, state, leaked >>

EntityContinues ==
  /\ Does("tags")
  /\ \E r \in mpd_getNextReturnElement(conn) : TagsRead(r.conn) /\ Happens(r)

(* Mutant of SongsRead: the error is not looked at, nor afterwards.        *)
SongsRead_unchecked ==
  /\ Does("songs_read")
  /\ GoesTo("finish")
  /\ conn' = [conn EXCEPT !.error = FALSE]
  /\ Alone
  /\ UNCHANGED << ti, state, entity >>

SongsRead ==
  /\ Does("songs_read")
  /\ GoesTo(IF conn.error THEN "close" ELSE "finish")
  /\ Alone
  /\ UNCHANGED << ti, conn, state, entity >>

FinishesList ==
  /\ Does("finish")
  /\ \/ ~ conn.done /\ Finishing
     \/ /\ conn.done
        /\ ti' = IF conn.error THEN ti ELSE [ti EXCEPT !.status = state]
        /\ GoesTo("close")
        /\ Alone
        /\ UNCHANGED << conn, state, entity >>

(* The locals are gone.                                                    *)
Forgets ==
  /\ conn' = Fresh
  /\ up' = FALSE
  /\ requests' = << >>
  /\ answers' = << >>
  /\ state' = INVALID
  /\ entity' = NoText

(* Mutant of mpd_closeConnection: only an error closes the connection.     *)
mpd_closeConnection_on_error ==
  /\ Does("close")
  /\ Return
  /\ leaked' = (leaked \/ (up /\ ~ conn.error))
  /\ Forgets
  /\ UNCHANGED << ti, lost >>

mpd_closeConnection ==
  /\ Does("close")
  /\ Return
  /\ Forgets
  /\ UNCHANGED << ti, lost, leaked >>

(* The way out when mpd_getStatus returns NULL.                            *)
ReturnsEarly ==
  /\ Does("leave")
  /\ Return
  /\ Forgets
  /\ leaked' = TRUE
  /\ UNCHANGED << ti, lost >>

(***************************************************************************)
(* The server, which executes a command list as a whole.  It refuses a     *)
(* wrong password, and commands when it wants one.                         *)
(***************************************************************************)
Song == IF song[Target] = NoText THEN << >>
        ELSE << Line("file", NoText), Line("tags", song[Target]) >>

ServerAnswers ==
  /\ pc # "idle"
  /\ up
  /\ requests # << >>
  /\ requests' = Tail(requests)
  /\ \/ answers' = Append(answers, ACK) /\ Unanswered
     \/ /\ Head(requests) = "password"
        /\ answers' = Append(answers, OK)
        /\ Answered
     \/ /\ Head(requests) = "list"
        /\ answers' = answers \o << Line("state", mode[Target]), list_OK >>
                              \o Song \o << list_OK, OK >>
        /\ Answered
  /\ UNCHANGED << adapter, players, window, pc, ti, search >>
  /\ UNCHANGED << password, conn, up, state, entity, leaked >>

MpdMoves ==
  /\ Moves(Target)
  /\ up' = (up /\ mode'[Target] # CLOSED)
  /\ UNCHANGED << password, conn, requests, answers, state, entity, leaked >>

(* The password is typed or deleted in the preferences.                    *)
cb_mpd_changed ==
  /\ pc = "idle"
  /\ password' = ~ password
  /\ UNCHANGED << polling, mpdlocals, leaked >>

Mpds ==
  \/ get_mpd_info
  \/ Connects
  \/ Welcomed
  \/ mpd_sendPasswordCommand
  \/ FinishesPassword
  \/ SendsCommandList
  \/ mpd_getStatus
  \/ mpd_nextListOkCommand
  \/ mpd_getNextInfoEntity
  \/ EntityContinues
  \/ SongsRead
  \/ FinishesList
  \/ mpd_closeConnection
  \/ ReturnsEarly

MpdNext == adapter = "MPD" /\ (Mpds \/ ServerAnswers \/ MpdMoves \/ cb_mpd_changed)

Lines == {Nothing, OK, list_OK, ACK, Line("file", NoText)}
           \cup {Line("state", m) : m \in STOPPED .. PLAYING} \cup {Line("tags", s) : s \in Songs}

MpdTypeOK ==
  /\ password \in BOOLEAN
  /\ conn \in [done : BOOLEAN, list : BOOLEAN, oks : 0 .. 2, doneOk : BOOLEAN,
               error : BOOLEAN, elem : Lines]
  /\ up \in BOOLEAN
  /\ requests \in Seq({"password", "list"}) /\ Len(requests) <= 2
  /\ answers \in Seq(Lines)
  /\ state \in {INVALID} \cup STOPPED .. PLAYING
  /\ entity \in Texts
  /\ leaked \in BOOLEAN

(***************************************************************************)
(* Properties.                                                             *)
(***************************************************************************)
MpdEnds == Returns /\ adapter = "MPD"

(* However late the lines of an answer come, wherever it breaks off and    *)
(* whichever answer is read in place of another, a status is reported only *)
(* with the song it came with, and MPD did play that song in that state    *)
(* during the poll.                                                        *)
WholeAnswer ==
  [][MpdEnds /\ ti'.status # CLOSED =>
       \E s \in seen[Target] : ti'.status = s.mode /\ ti'.text = Text(s.song)]_mpdvars

(* Only a poll in which the server left something unanswered, or refused   *)
(* it, returns without closing its connection.                             *)
LeaksOnlyUnanswered == [][MpdEnds /\ ~ lost' => leaked' = leaked]_mpdvars

(* What a poll ought to report.                                            *)
MpdSettled ==
  /\ ti.status = mode[Target]
  /\ ti.text = Text(song[Target])

(* The timer polls, reads end at the latest with their timeout, and the    *)
(* server gets to its requests.                                            *)
MpdFairness == WF_mpdvars(adapter = "MPD" /\ Mpds) /\ WF_mpdvars(adapter = "MPD" /\ ServerAnswers)
=============================================================================
