------------------------------- MODULE LastFm -------------------------------
(***************************************************************************)
(* The two adapters for Last.fm: the feed of the old web services,         *)
(* lastfm.c, and the web service 2.0, lastfm_ws.c.  Now and then a poll    *)
(* sends a request, whose answer comes to a callback at any later time;    *)
(* every poll reports what the last answer said.  They share preferences   *)
(* and nothing else, so that a behaviour follows one of the two.           *)
(***************************************************************************)
EXTENDS Integers, SequencesExt

CONSTANTS
  Users,             \* users of Last.fm
  Songs,             \* what they listen to
  UserPrefs,         \* values of PREF_LASTFM, as sets of at most one user
  Intervals,         \* values of PREF_LASTFM_INTERVAL, in seconds
  Quiets,            \* values of PREF_LASTFM_QUIET, in seconds
  INTERVAL_SECONDS,  \* time between two polls
  MaxAge,            \* bound: older scrobbles are all taken to be this old
  MaxRequests        \* bound: requests on their way at once

Adapters == {"feed", "ws"}

ASSUME LastFmAssumption ==
  /\ UserPrefs \subseteq {{}} \cup {{u} : u \in Users}
  /\ INTERVAL_SECONDS \in Nat \ {0}
  /\ Intervals \subseteq Nat /\ \A n \in Intervals : n >= INTERVAL_SECONDS
  /\ Quiets \subseteq Nat /\ \A n \in Quiets : n <= MaxAge
  /\ MaxAge \in Nat
  /\ MaxRequests \in Nat \ {0}

VARIABLES
  adapter,                \* the one followed
  user, interval, quiet,  \* the preferences
  count,                  \* its static count
  cache,                  \* status of lastfm.c, lastfm_ws_ti of lastfm_ws.c
  requests,               \* those on their way, in the order they were sent
  ti,                     \* what its last poll reported
  ticked,                 \* the timer of the core has come round
  scrobble, nowplaying,   \* what Last.fm knows of each user
  since, asked            \* history: polled seconds since the last request,
                          \* and the interval it was made under

prefs   == << adapter, user, interval, quiet >>
lastfm  == << scrobble, nowplaying >>
history == << since, asked >>
vars    == << prefs, count, cache, requests, ti, ticked, lastfm, history >>

Closed  == [status |-> "closed"]
Stopped == [status |-> "stopped"]
Track(status, song) == [status |-> status, song |-> song]

(***************************************************************************)
(* Requests.  Last.fm composes an answer some time after the request; it   *)
(* may never come, and a later one may overtake it.                        *)
(***************************************************************************)
Nothing == {}   \* no answer, or one that names no track

AnswerFor(u) ==
  CASE adapter = "feed" -> scrobble[u]
    [] adapter = "ws"   -> IF nowplaying[u] # {}
                           THEN {[song |-> s, nowplaying |-> TRUE] : s \in nowplaying[u]}
                           ELSE {[song |-> l.song, nowplaying |-> FALSE] : l \in scrobble[u]}

Composed(r) == [r EXCEPT !.composed = TRUE, !.answer = AnswerFor(r.user)]

Composes(k) ==
  /\ ~ requests[k].composed
  /\ requests' = [requests EXCEPT ![k] = Composed(@)]
  /\ UNCHANGED << prefs, count, cache, ti, ticked, lastfm, history >>

(* Mutant of lastfm_ws_fetch: a track that no longer plays leaves the      *)
(* status behind.                                                          *)
lastfm_ws_fetch_sticky(answer) ==
  IF answer = Nothing THEN cache
  ELSE {[l EXCEPT !.nowplaying = @ \/ \E old \in cache : old.nowplaying] : l \in answer}

lastfm_fetch(answer) == answer

lastfm_ws_fetch(answer) == IF answer = Nothing THEN cache ELSE answer

Settle(k, answer) ==
  /\ cache' = IF adapter = "feed" THEN lastfm_fetch(answer) ELSE lastfm_ws_fetch(answer)
  /\ requests' = RemoveAt(requests, k)
  /\ UNCHANGED << prefs, count, ti, ticked, lastfm, history >>

Arrives(k) == requests[k].composed /\ Settle(k, requests[k].answer)

(* Where the download fails makes no difference to the plugin.             *)
Fails(k) == ~ requests[k].composed /\ Settle(k, Nothing)

(***************************************************************************)
(* get_lastfm_info and get_lastfm_ws_info                                  *)
(***************************************************************************)
(* Mutants of Due: a poll too early; a poll too late.                      *)
Due_early == count + INTERVAL_SECONDS >= 0
Due_late == count > 0

Due == count >= 0

Request ==
  /\ Len(requests) < MaxRequests
  /\ \E u \in user :
       requests' = Append(requests, [user |-> u, composed |-> FALSE, answer |-> Nothing])
  /\ count' = count - interval + INTERVAL_SECONDS
  /\ since' = INTERVAL_SECONDS
  /\ asked' = interval

RateLimit ==
  /\ count' = count + INTERVAL_SECONDS
  /\ since' = since + INTERVAL_SECONDS
  /\ UNCHANGED << requests, asked >>

(* Mutant of FeedStatus: PREF_LASTFM_QUIET taken for minutes.              *)
FeedStatus_minutes(age) == IF age < quiet * 60 THEN "playing" ELSE "stopped"

FeedStatus(age) == IF age < quiet THEN "playing" ELSE "stopped"

(* Without an answer the feed leaves what cb_timeout prepared, the web     *)
(* service reports its static structure.                                   *)
Report ==
  LET line == CHOOSE l \in cache : TRUE
  IN  IF adapter = "feed"
      THEN IF cache = Nothing THEN Closed ELSE Track(FeedStatus(line.age), line.song)
      ELSE IF cache = Nothing THEN Stopped
           ELSE Track(IF line.nowplaying THEN "playing" ELSE "stopped", line.song)

get_info ==
  /\ ticked /\ ticked' = FALSE
  /\ \/ /\ user = {}
        /\ ti' = Closed
        /\ UNCHANGED << count, requests, history >>
     \/ /\ user # {}
        /\ ti' = Report
        /\ \/ Due /\ Request
           \/ ~ Due /\ RateLimit
  /\ UNCHANGED << prefs, cache, lastfm >>

cb_lastfm_changed ==
  /\ user' \in UserPrefs
  /\ UNCHANGED << adapter, interval, quiet, count, cache, requests, ti, ticked, lastfm, history >>

cb_lastfm_interval_changed ==
  /\ \/ interval' \in Intervals /\ UNCHANGED quiet
     \/ quiet' \in Quiets /\ UNCHANGED interval
  /\ UNCHANGED << adapter, user, count, cache, requests, ti, ticked, lastfm, history >>

(***************************************************************************)
(* The timer of the core, after which the adapter is polled, or is not,    *)
(* when another player is selected, or found to play before it.  What is known of *)
(* a scrobble is its time; it is told by its age.                          *)
(***************************************************************************)
Older(lines) == {[l EXCEPT !.age = Min({@ + INTERVAL_SECONDS, MaxAge})] : l \in lines}

OlderRequest(r) == [r EXCEPT !.answer = Older(@)]

Tick ==
  /\ ticked' = TRUE
  /\ scrobble' = [u \in Users |-> Older(scrobble[u])]
  /\ IF adapter = "feed"
     THEN /\ cache' = Older(cache)
          /\ requests' = [k \in DOMAIN requests |-> OlderRequest(requests[k])]
     ELSE UNCHANGED << cache, requests >>
  /\ UNCHANGED << prefs, count, ti, nowplaying, history >>

(***************************************************************************)
(* The users of Last.fm                                                    *)
(***************************************************************************)
Scrobbles(u) ==
  /\ \E s \in Songs : scrobble' = [scrobble EXCEPT ![u] = {[song |-> s, age |-> 0]}]
  /\ UNCHANGED << prefs, count, cache, requests, ti, ticked, nowplaying, history >>

Plays(u) ==
  /\ nowplaying' \in {[nowplaying EXCEPT ![u] = ss] : ss \in {{}} \cup {{s} : s \in Songs}}
  /\ UNCHANGED << prefs, count, cache, requests, ti, ticked, scrobble, history >>

Init ==
  /\ adapter \in Adapters
  /\ user \in UserPrefs /\ interval \in Intervals /\ quiet \in Quiets
  /\ count = 0
  /\ cache = Nothing
  /\ requests = << >>
  /\ ti = Closed
  /\ ticked = FALSE
  /\ scrobble = [u \in Users |-> {}] /\ nowplaying = [u \in Users |-> {}]
  /\ since = 0 /\ asked = 0

Listening == \E u \in Users : Scrobbles(u) \/ Plays(u)
Preferences == cb_lastfm_changed \/ cb_lastfm_interval_changed
Network == \E k \in DOMAIN requests : Composes(k) \/ Arrives(k) \/ Fails(k)

Next == Tick \/ get_info \/ Preferences \/ Network \/ Listening

Spec == Init /\ [][Next]_vars

(* The timer of the core runs for ever, the adapter stays selected, and     *)
(* libpurple calls back for each request, with or without an answer.       *)
FairSpec ==
  /\ Spec
  /\ WF_vars(Tick)
  /\ SF_vars(get_info)
  /\ WF_vars(requests # << >> /\ Composes(1))
  /\ WF_vars(requests # << >> /\ (Arrives(1) \/ Fails(1)))

(***************************************************************************)
(* Properties                                                              *)
(***************************************************************************)
Lines == IF adapter = "feed" THEN [song : Songs, age : 0 .. MaxAge]
                             ELSE [song : Songs, nowplaying : BOOLEAN]

IsAnswer(answer) == answer \subseteq Lines /\ Cardinality(answer) <= 1

(* Every variable holds what its C type admits; the countdown never        *)
(* exceeds one round of the timer, so that it cannot run away.             *)
TypeOK ==
  /\ adapter \in Adapters
  /\ user \in UserPrefs /\ interval \in Intervals /\ quiet \in Quiets
  /\ count \in Int /\ count < INTERVAL_SECONDS
  /\ IsAnswer(cache)
  /\ ti \in {Closed, Stopped} \cup [status : {"stopped", "playing"}, song : Songs]
  /\ Len(requests) <= MaxRequests
  /\ \A r \in Range(requests) : r.user \in Users /\ IsAnswer(r.answer)
  /\ ticked \in BOOLEAN
  /\ since \in Nat /\ asked \in Nat

(* Last.fm is never asked sooner than the interval set at the last request *)
(* lets it, give or take a round of the timer, whatever was changed or     *)
(* selected in between, and whatever the interval leaves as a remainder.   *)
NotTooOften ==
  [][Len(requests') > Len(requests) => since + INTERVAL_SECONDS > asked]_vars

(* Nor does the adapter, when polled, leave more than that interval and a  *)
(* round of the timer between two requests.                                *)
NotTooSeldom == since < asked + INTERVAL_SECONDS

Quiet == <>[][~ (Listening \/ Preferences)]_vars
AnswersCome == <>[][\A k \in DOMAIN requests : ~ Fails(k)]_vars

FeedTellsOf(u) ==
  \/ scrobble[u] = {} /\ ti = Closed
  \/ \E l \in scrobble[u] :
       ti = Track(IF l.age < quiet THEN "playing" ELSE "stopped", l.song)

(* The web service tells the truth of a user it has heard of.              *)
ServiceTellsOf(u) ==
  \/ scrobble[u] \cup nowplaying[u] = {}
  \/ \E s \in nowplaying[u] : ti = Track("playing", s)
  \/ nowplaying[u] = {} /\ \E l \in scrobble[u] : ti = Track("stopped", l.song)

(* Once user, preferences and network have come to rest, a poll tells what *)
(* the user at hand scrobbled last, and whether that is long ago, or what  *)
(* the user plays: nothing of an earlier user or an overtaken answer.      *)
TellsTrack ==
  Quiet /\ AnswersCome =>
    <>[](\A u \in user : IF adapter = "feed" THEN FeedTellsOf(u) ELSE ServiceTellsOf(u))

(* When nobody scrobbles any more the feed stops to report a player that   *)
(* plays, also when Last.fm never answers again.                           *)
FeedFallsSilent ==
  adapter = "feed" /\ <>[][\A u \in Users : ~ Scrobbles(u)]_vars
    => <>[](ti.status # "playing")
=============================================================================
