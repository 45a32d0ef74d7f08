--------------------------- MODULE LastFm_proofs ---------------------------
(***************************************************************************)
(* Theorems about LastFm: the rate at which Last.fm is asked, for any      *)
(* intervals, whenever they are changed.                                   *)
(***************************************************************************)
EXTENDS LastFm, SequenceTheorems, FiniteSetTheorems, TLAPS

IsSeq(s) == s \in Seq(Range(s))

(* The countdown is what is left of the interval of the last request, but  *)
(* for a remainder carried over, which is less than a round of the timer.  *)
Remainder == count - since + asked

RateInv ==
  /\ interval \in Intervals
  /\ {count, since, asked} \subseteq Int
  /\ count < INTERVAL_SECONDS
  /\ Remainder \in 0 .. INTERVAL_SECONDS - 1
  /\ IsSeq(requests)

(***************************************************************************)
(* The sequence of requests                                                *)
(***************************************************************************)
LEMMA SeqIsSeq == ASSUME NEW S, NEW s \in Seq(S) PROVE IsSeq(s)
<1>1. Len(s) \in Nat /\ s \in [1 .. Len(s) -> S]
  BY LenProperties
<1>2. s \in [1 .. Len(s) -> Range(s)]
  BY <1>1 DEF Range
<1>3. QED
  BY <1>1, <1>2, SeqDef DEF IsSeq

LEMMA EditedIsSeq ==
  ASSUME NEW s, IsSeq(s), NEW k \in DOMAIN s, NEW e
  PROVE  IsSeq([s EXCEPT ![k] = e]) /\ Len([s EXCEPT ![k] = e]) = Len(s)
<1> DEFINE S == Range(s) \cup {e}
<1>1. s \in Seq(S) /\ e \in S
  BY SeqMonotonic DEF IsSeq
<1>2. k \in 1 .. Len(s)
  BY <1>1, LenProperties
<1> HIDE DEF S
<1>3. QED
  BY <1>1, <1>2, ExceptSeq, SeqIsSeq

LEMMA MappedIsSeq ==
  ASSUME NEW s, IsSeq(s), NEW t, DOMAIN t = DOMAIN s, t = [k \in DOMAIN s |-> t[k]]
  PROVE  IsSeq(t) /\ Len(t) = Len(s)
<1>1. Len(s) \in Nat /\ DOMAIN s = 1 .. Len(s)
  BY LenProperties DEF IsSeq
<1>2. t \in [1 .. Len(s) -> Range(t)]
  BY <1>1 DEF Range
<1>3. IsSeq(t)
  BY <1>1, <1>2, SeqDef DEF IsSeq
<1>4. Len(t) \in Nat /\ 1 .. Len(t) = 1 .. Len(s)
  BY <1>1, <1>3, LenProperties DEF IsSeq
<1>5. QED
  BY <1>1, <1>3, <1>4

LEMMA Removed ==
  ASSUME NEW S, NEW s \in Seq(S), NEW k \in DOMAIN s
  PROVE  RemoveAt(s, k) \in Seq(S) /\ Len(RemoveAt(s, k)) = Len(s) - 1
<1> DEFINE front == SubSeq(s, 1, k - 1)
           back  == SubSeq(s, k + 1, Len(s))
<1>1. Len(s) \in Nat /\ DOMAIN s = 1 .. Len(s) /\ k \in 1 .. Len(s)
  BY LenProperties
<1>2. \A i \in 1 .. Len(s) : s[i] \in S
  BY <1>1, LenProperties
<1>3. front \in Seq(S) /\ Len(front) = k - 1
  <2>1. \A i \in 1 .. k - 1 : s[i] \in S
    BY <1>1, <1>2
  <2>2. k - 1 \in Int /\ 1 \in Int
    BY <1>1
  <2>3. /\ front \in Seq(S)
        /\ Len(front) = IF 1 <= k - 1 THEN k - 1 - 1 + 1 ELSE 0
    BY <2>1, <2>2, SubSeqProperties
  <2>4. QED
    BY <1>1, <2>3
<1>4. back \in Seq(S) /\ Len(back) = Len(s) - k
  <2>1. \A i \in k + 1 .. Len(s) : s[i] \in S
    BY <1>1, <1>2
  <2>2. k + 1 \in Int /\ Len(s) \in Int
    BY <1>1
  <2>3. /\ back \in Seq(S)
        /\ Len(back) = IF k + 1 <= Len(s) THEN Len(s) - (k + 1) + 1 ELSE 0
    BY <2>1, <2>2, SubSeqProperties
  <2>4. QED
    BY <1>1, <2>3
<1> HIDE DEF front, back
<1>5. front \o back \in Seq(S) /\ Len(front \o back) = Len(front) + Len(back)
  BY <1>3, <1>4, ConcatProperties
<1>6. RemoveAt(s, k) = front \o back
  BY DEF RemoveAt, front, back
<1>7. Len(front \o back) = Len(s) - 1
  BY <1>1, <1>3, <1>4, <1>5
<1>8. QED
  BY <1>5, <1>6, <1>7

LEMMA RemovedIsSeq ==
  ASSUME NEW s, IsSeq(s), NEW k \in DOMAIN s
  PROVE  IsSeq(RemoveAt(s, k)) /\ Len(RemoveAt(s, k)) < Len(s)
<1>1. /\ RemoveAt(s, k) \in Seq(Range(s)) /\ Len(RemoveAt(s, k)) = Len(s) - 1
      /\ Len(s) \in Nat
  BY Removed, LenProperties DEF IsSeq
<1>2. QED
  BY <1>1, SeqIsSeq

LEMMA AppendedIsSeq ==
  ASSUME NEW s, IsSeq(s), NEW e
  PROVE  IsSeq(Append(s, e))
<1> DEFINE S == Range(s) \cup {e}
<1>1. s \in Seq(S) /\ e \in S
  BY SeqMonotonic DEF IsSeq
<1> HIDE DEF S
<1>2. Append(s, e) \in Seq(S)
  BY <1>1, AppendProperties
<1>3. QED
  BY <1>2, SeqIsSeq

(***************************************************************************)
(* The rate                                                                *)
(***************************************************************************)
LEMMA RateInit == Init => RateInv
<1> SUFFICES ASSUME Init PROVE RateInv
  OBVIOUS
<1>1. << >> \in Seq({})
  BY EmptySeq
<1>2. IsSeq(requests)
  BY <1>1, SeqIsSeq DEF Init
<1>3. QED
  BY <1>2, LastFmAssumption DEF Init, RateInv, Remainder

(* What a step other than a poll leaves of the invariant.                  *)
LEMMA RateUntouched ==
  ASSUME RateInv, UNCHANGED << count, since, asked >>, interval' \in Intervals, IsSeq(requests')
  PROVE  RateInv'
BY DEF RateInv, Remainder, IsSeq

LEMMA RequestStep ==
  ASSUME RateInv, Due, Request, UNCHANGED prefs
  PROVE  RateInv'
<1>1. IsSeq(requests')
  <2>1. PICK u \in user : requests' =
          Append(requests, [user |-> u, composed |-> FALSE, answer |-> Nothing])
    BY DEF Request
  <2>2. QED
    BY <2>1, AppendedIsSeq DEF RateInv
<1>2. /\ interval' = interval
      /\ interval \in Int /\ interval >= INTERVAL_SECONDS
      /\ INTERVAL_SECONDS \in Nat
  BY LastFmAssumption DEF prefs, RateInv
<1>3. /\ count' = count - interval + INTERVAL_SECONDS
      /\ since' = INTERVAL_SECONDS
      /\ asked' = interval
      /\ count >= 0
  BY DEF Request, Due
<1>4. QED
  BY <1>1, <1>2, <1>3 DEF RateInv, Remainder, IsSeq

LEMMA RateLimitStep ==
  ASSUME RateInv, ~ Due, RateLimit, UNCHANGED prefs
  PROVE  RateInv'
<1>1. /\ interval' = interval /\ requests' = requests /\ asked' = asked
      /\ count' = count + INTERVAL_SECONDS
      /\ since' = since + INTERVAL_SECONDS
  BY DEF prefs, RateLimit
<1>2. INTERVAL_SECONDS \in Nat /\ count \in Int /\ count < 0
  BY LastFmAssumption DEF Due, RateInv
<1>3. QED
  BY <1>1, <1>2 DEF RateInv, Remainder, IsSeq

LEMMA TickedIsSeq ==
  ASSUME IsSeq(requests), Tick
  PROVE  IsSeq(requests') /\ Len(requests') = Len(requests)
<1>1. CASE adapter = "feed"
  <2>1. /\ requests' = [k \in DOMAIN requests |-> OlderRequest(requests[k])]
        /\ DOMAIN requests' = DOMAIN requests
    BY <1>1 DEF Tick
  <2>2. requests' = [k \in DOMAIN requests |-> requests'[k]]
    BY <2>1
  <2>3. QED
    BY <2>1, <2>2, MappedIsSeq
<1>2. CASE adapter # "feed"
  BY <1>2 DEF Tick, IsSeq
<1>3. QED
  BY <1>1, <1>2

LEMMA RateStep == RateInv /\ [Next]_vars => RateInv'
<1> SUFFICES ASSUME RateInv, [Next]_vars PROVE RateInv'
  OBVIOUS
<1>0. IsSeq(requests) /\ interval \in Intervals
  BY DEF RateInv
<1>1. CASE Tick
  <2>1. UNCHANGED << count, since, asked, interval >>
    BY <1>1 DEF Tick, prefs, history
  <2>2. IsSeq(requests')
    BY <1>0, <1>1, TickedIsSeq
  <2>3. QED
    BY <1>0, <2>1, <2>2, RateUntouched
<1>2. CASE get_info
  <2>1. UNCHANGED prefs
    BY <1>2 DEF get_info
  <2>2. CASE UNCHANGED << count, requests, history >>
    BY <1>0, <2>1, <2>2, RateUntouched DEF history, prefs
  <2>3. CASE Due /\ Request
    BY <2>1, <2>3, RequestStep
  <2>4. CASE ~ Due /\ RateLimit
    BY <2>1, <2>4, RateLimitStep
  <2>5. QED
    BY <1>2, <2>2, <2>3, <2>4 DEF get_info
<1>3. CASE Preferences
  BY <1>0, <1>3, RateUntouched
  DEF Preferences, cb_lastfm_changed, cb_lastfm_interval_changed, history
<1>4. ASSUME NEW k \in DOMAIN requests, Composes(k) \/ Arrives(k) \/ Fails(k)
      PROVE  RateInv'
  <2>1. CASE Composes(k)
    <3>1. requests' = [requests EXCEPT ![k] = Composed(requests[k])]
      BY <2>1 DEF Composes
    <3>2. IsSeq(requests')
      BY <1>0, <3>1, EditedIsSeq
    <3>3. QED
      BY <1>0, <2>1, <3>2, RateUntouched DEF Composes, prefs, history
  <2>2. CASE Arrives(k) \/ Fails(k)
    <3>1. requests' = RemoveAt(requests, k) /\ UNCHANGED << prefs, count, history >>
      BY <2>2 DEF Arrives, Fails, Settle
    <3>2. IsSeq(requests')
      BY <1>0, <3>1, RemovedIsSeq
    <3>3. QED
      BY <1>0, <3>1, <3>2, RateUntouched DEF prefs, history
  <2>3. QED
    BY <1>4, <2>1, <2>2
<1>5. CASE Listening
  BY <1>0, <1>5, RateUntouched DEF Listening, Scrobbles, Plays, prefs, history
<1>6. CASE UNCHANGED vars
  BY <1>0, <1>6, RateUntouched DEF vars, prefs, history
<1>7. QED
  BY <1>1, <1>2, <1>3, <1>4, <1>5, <1>6 DEF Next, Network

(* For any intervals and any times at which they are changed, a poll never *)
(* leaves more than the interval of the last request and a round of the    *)
(* timer between two requests.                                             *)
THEOREM PolledInTime == Spec => []NotTooSeldom
<1>1. RateInv => NotTooSeldom
  BY LastFmAssumption DEF RateInv, Remainder, NotTooSeldom
<1>2. QED
  BY <1>1, RateInit, RateStep, PTL DEF Spec

(* A step that makes the sequence of requests longer is a poll that was    *)
(* due.                                                                    *)
LEMMA SentWhenDue ==
  ASSUME RateInv, Next, Len(requests') > Len(requests)
  PROVE  Due
<1>0. IsSeq(requests) /\ Len(requests) \in Nat
  BY LenProperties DEF RateInv, IsSeq
<1>1. ~ Tick
  BY <1>0, TickedIsSeq
<1>2. ASSUME NEW k \in DOMAIN requests, Composes(k) \/ Arrives(k) \/ Fails(k)
      PROVE  FALSE
  <2>1. CASE Composes(k)
    <3>1. Len(requests') = Len(requests)
      BY <1>0, <2>1, EditedIsSeq DEF Composes
    <3>2. QED
      BY <1>0, <3>1
  <2>2. CASE Arrives(k) \/ Fails(k)
    <3>1. requests' = RemoveAt(requests, k)
      BY <2>2 DEF Arrives, Fails, Settle
    <3>2. Len(requests') < Len(requests) /\ IsSeq(requests')
      BY <1>0, <3>1, RemovedIsSeq
    <3>3. Len(requests') \in Nat
      BY <3>2, LenProperties DEF IsSeq
    <3>4. QED
      BY <1>0, <3>2, <3>3
  <2>3. QED
    BY <1>2, <2>1, <2>2
<1>3. requests' # requests
  BY <1>0
<1>4. get_info
  BY <1>1, <1>2, <1>3 DEF Next, Network, Preferences, Listening, cb_lastfm_changed,
     cb_lastfm_interval_changed, Scrobbles, Plays
<1>5. QED
  BY <1>3, <1>4 DEF get_info, RateLimit

(* For any intervals and any times at which they are changed, Last.fm is   *)
(* never asked sooner than the interval of the last request lets it, but   *)
(* for a round of the timer.                                               *)
THEOREM RateKept == Spec => NotTooOften
<1>1. RateInv /\ [Next]_vars =>
        [Len(requests') > Len(requests) => since + INTERVAL_SECONDS > asked]_vars
  <2> SUFFICES ASSUME RateInv, Next, Len(requests') > Len(requests)
               PROVE  since + INTERVAL_SECONDS > asked
    OBVIOUS
  <2>1. count >= 0
    BY SentWhenDue DEF Due
  <2>2. QED
    BY <2>1, LastFmAssumption DEF RateInv, Remainder
<1>2. QED
  BY <1>1, RateInit, RateStep, PTL DEF Spec, NotTooOften

(***************************************************************************)
(* Types                                                                   *)
(***************************************************************************)
OneAtMost(S) == {{}} \cup {{x} : x \in S}
Scrobbled == [song : Songs, age : 0 .. MaxAge]
Requested == [user : Users, composed : BOOLEAN, answer : OneAtMost(Lines)]

(* An answer is composed of what Last.fm knows, which has to be typed too. *)
TypedInv ==
  /\ adapter \in Adapters
  /\ user \in UserPrefs /\ interval \in Intervals /\ quiet \in Quiets
  /\ cache \in OneAtMost(Lines)
  /\ ti \in {Closed, Stopped} \cup [status : {"stopped", "playing"}, song : Songs]
  /\ requests \in Seq(Requested) /\ Len(requests) <= MaxRequests
  /\ ticked \in BOOLEAN
  /\ since \in Nat /\ asked \in Nat
  /\ scrobble \in [Users -> OneAtMost(Scrobbled)]
  /\ nowplaying \in [Users -> OneAtMost(Songs)]

LEMMA AnswerTyped == ASSUME NEW answer \in OneAtMost(Lines) PROVE IsAnswer(answer)
<1>1. CASE answer = {}
  BY <1>1, FS_EmptySet DEF IsAnswer
<1>2. CASE \E l \in Lines : answer = {l}
  <2>1. PICK l \in Lines : answer = {l}
    BY <1>2
  <2>2. Cardinality(answer) = 1
    BY <2>1, FS_Singleton
  <2>3. QED
    BY <2>1, <2>2 DEF IsAnswer
<1>3. QED
  BY <1>1, <1>2 DEF OneAtMost

LEMMA TypedImplies == RateInv /\ TypedInv => TypeOK
<1> SUFFICES ASSUME RateInv, TypedInv PROVE TypeOK
  OBVIOUS
<1>1. IsAnswer(cache)
  BY AnswerTyped DEF TypedInv
<1>2. ASSUME NEW r \in Range(requests) PROVE r.user \in Users /\ IsAnswer(r.answer)
  <2>1. requests \in [1 .. Len(requests) -> Requested]
    BY LenProperties DEF TypedInv
  <2>2. r \in Requested
    BY <1>2, <2>1 DEF Range
  <2>3. r.user \in Users /\ r.answer \in OneAtMost(Lines)
    BY <2>2 DEF Requested
  <2>4. QED
    BY <2>3, AnswerTyped
<1>3. QED
  BY <1>1, <1>2 DEF RateInv, TypedInv, TypeOK

LEMMA MinOfTwo == ASSUME NEW a \in Int, NEW b \in Int PROVE Min({a, b}) = IF a <= b THEN a ELSE b
<1>1. \E x \in {a, b} : \A y \in {a, b} : x <= y
  OBVIOUS
<1>2. Min({a, b}) \in {a, b} /\ \A y \in {a, b} : Min({a, b}) <= y
  BY <1>1 DEF Min
<1>3. QED
  BY <1>2

LEMMA OlderTyped ==
  ASSUME NEW lines \in OneAtMost(Scrobbled)
  PROVE  Older(lines) \in OneAtMost(Scrobbled)
<1>1. CASE lines = {}
  BY <1>1 DEF OneAtMost, Older
<1>2. CASE \E l \in Scrobbled : lines = {l}
  <2>1. PICK l \in Scrobbled : lines = {l}
    BY <1>2
  <2> DEFINE age == Min({l.age + INTERVAL_SECONDS, MaxAge})
  <2>2. l.age \in 0 .. MaxAge /\ MaxAge \in Nat /\ INTERVAL_SECONDS \in Nat
    BY LastFmAssumption DEF Scrobbled
  <2>3. age \in 0 .. MaxAge
    BY <2>2, MinOfTwo
  <2> HIDE DEF age
  <2>4. [l EXCEPT !.age = age] \in Scrobbled
    BY <2>3 DEF Scrobbled
  <2>5. Older(lines) = {[l EXCEPT !.age = age]}
    BY <2>1 DEF Older, age
  <2>6. QED
    BY <2>4, <2>5 DEF OneAtMost
<1>3. QED
  BY <1>1, <1>2 DEF OneAtMost

LEMMA FeedLines == ASSUME adapter = "feed" PROVE Lines = Scrobbled
BY DEF Lines, Scrobbled

LEMMA ComposedTyped ==
  ASSUME TypedInv, NEW r \in Requested
  PROVE  Composed(r) \in Requested
<1>1. r.user \in Users
  BY DEF Requested
<1>2. AnswerFor(r.user) \in OneAtMost(Lines)
  <2>1. CASE adapter = "feed"
    BY <1>1, <2>1, FeedLines DEF AnswerFor, TypedInv
  <2>2. CASE adapter = "ws"
    <3>1. nowplaying[r.user] \in OneAtMost(Songs) /\ scrobble[r.user] \in OneAtMost(Scrobbled)
      BY <1>1 DEF TypedInv
    <3>2. Lines = [song : Songs, nowplaying : BOOLEAN]
      BY <2>2 DEF Lines
    <3>3. CASE nowplaying[r.user] # {}
      <4>1. PICK s \in Songs : nowplaying[r.user] = {s}
        BY <3>1, <3>3 DEF OneAtMost
      <4>2. AnswerFor(r.user) = {[song |-> s, nowplaying |-> TRUE]}
        BY <2>2, <4>1 DEF AnswerFor
      <4>3. QED
        BY <3>2, <4>2 DEF OneAtMost
    <3>4. CASE nowplaying[r.user] = {} /\ scrobble[r.user] = {}
      BY <2>2, <3>4 DEF AnswerFor, OneAtMost
    <3>5. CASE nowplaying[r.user] = {} /\ scrobble[r.user] # {}
      <4>1. PICK l \in Scrobbled : scrobble[r.user] = {l}
        BY <3>1, <3>5 DEF OneAtMost
      <4>2. AnswerFor(r.user) = {[song |-> l.song, nowplaying |-> FALSE]}
        BY <2>2, <3>5, <4>1 DEF AnswerFor
      <4>3. QED
        BY <3>2, <4>1, <4>2 DEF OneAtMost, Scrobbled
    <3>6. QED
      BY <3>3, <3>4, <3>5
  <2>3. QED
    BY <2>1, <2>2 DEF TypedInv, Adapters
<1>3. QED
  BY <1>2 DEF Composed, Requested

LEMMA TypedInit == Init => TypedInv
<1> SUFFICES ASSUME Init PROVE TypedInv
  OBVIOUS
<1>1. << >> \in Seq(Requested) /\ Len(<< >>) = 0
  BY EmptySeq
<1>2. requests \in Seq(Requested) /\ Len(requests) <= MaxRequests
  BY <1>1, LastFmAssumption DEF Init
<1>3. \A S : {} \in OneAtMost(S)
  BY DEF OneAtMost
<1>4. /\ cache \in OneAtMost(Lines)
      /\ scrobble \in [Users -> OneAtMost(Scrobbled)]
      /\ nowplaying \in [Users -> OneAtMost(Songs)]
  BY <1>3 DEF Init, Nothing
<1>5. QED
  BY <1>2, <1>4 DEF Init, TypedInv

(* What a step leaves that touches neither the requests nor what Last.fm   *)
(* knows.                                                                  *)
LEMMA RequestsTyped ==
  ASSUME TypedInv
  PROVE  /\ requests \in Seq(Requested) /\ Len(requests) \in Nat
         /\ DOMAIN requests = 1 .. Len(requests)
         /\ \A k \in DOMAIN requests : requests[k] \in Requested
BY LenProperties DEF TypedInv

LEMMA TickTyped == ASSUME TypedInv, Tick PROVE TypedInv'
<1>1. scrobble' \in [Users -> OneAtMost(Scrobbled)]
  <2>1. \A u \in Users : Older(scrobble[u]) \in OneAtMost(Scrobbled)
    BY OlderTyped DEF TypedInv
  <2>2. QED
    BY <2>1 DEF Tick
<1>2. Lines' = Lines
  BY DEF Lines, Tick, prefs
<1>3. /\ cache' \in OneAtMost(Lines)
      /\ requests' \in Seq(Requested) /\ Len(requests') <= MaxRequests
  <2>1. CASE adapter = "feed"
    <3>1. cache' \in OneAtMost(Lines)
      BY <2>1, FeedLines, OlderTyped DEF TypedInv, Tick
    <3>2. ASSUME NEW k \in DOMAIN requests PROVE OlderRequest(requests[k]) \in Requested
      <4>1. requests[k] \in Requested
        BY RequestsTyped
      <4>2. Older(requests[k].answer) \in OneAtMost(Lines)
        BY <2>1, <4>1, FeedLines, OlderTyped DEF Requested
      <4>3. QED
        BY <4>1, <4>2 DEF OlderRequest, Requested
    <3>3. requests' \in [1 .. Len(requests) -> Requested]
      BY <2>1, <3>2, RequestsTyped DEF Tick
    <3>4. requests' \in Seq(Requested) /\ Len(requests') = Len(requests)
      <4>1. requests' \in Seq(Requested)
        BY <3>3, RequestsTyped, SeqDef
      <4>2. Len(requests') \in Nat /\ 1 .. Len(requests') = 1 .. Len(requests)
        BY <3>3, <4>1, LenProperties
      <4>3. QED
        BY <4>1, <4>2, RequestsTyped
    <3>5. QED
      BY <3>1, <3>4 DEF TypedInv
  <2>2. CASE adapter # "feed"
    BY <2>2 DEF Tick, TypedInv
  <2>3. QED
    BY <2>1, <2>2
<1>4. QED
  BY <1>1, <1>2, <1>3 DEF Tick, prefs, history, TypedInv, Requested

LEMMA ReportTyped ==
  ASSUME TypedInv
  PROVE  Report \in {Closed, Stopped} \cup [status : {"stopped", "playing"}, song : Songs]
<1>1. CASE cache = {}
  BY <1>1 DEF Report, Nothing
<1>2. CASE cache # {}
  <2> DEFINE line == CHOOSE l \in cache : TRUE
  <2>1. line \in cache /\ cache \in OneAtMost(Lines)
    BY <1>2 DEF TypedInv
  <2>2. line \in Lines
    BY <2>1 DEF OneAtMost
  <2> HIDE DEF line
  <2>3. line.song \in Songs
    BY <2>2 DEF Lines
  <2>4. Report = IF adapter = "feed" THEN Track(FeedStatus(line.age), line.song)
                 ELSE Track(IF line.nowplaying THEN "playing" ELSE "stopped", line.song)
    BY <1>2 DEF Report, Nothing, line
  <2>5. FeedStatus(line.age) \in {"stopped", "playing"}
    BY DEF FeedStatus
  <2>6. QED
    BY <2>3, <2>4, <2>5 DEF Track
<1>3. QED
  BY <1>1, <1>2

LEMMA PollTyped == ASSUME TypedInv, get_info PROVE TypedInv'
<1>1. Lines' = Lines
  BY DEF Lines, get_info, prefs
<1>2. ti' \in {Closed, Stopped} \cup [status : {"stopped", "playing"}, song : Songs]
  BY ReportTyped DEF get_info
<1>3. /\ requests' \in Seq(Requested) /\ Len(requests') <= MaxRequests
      /\ since' \in Nat /\ asked' \in Nat
  <2>1. CASE Request
    <3>1. PICK u \in user : requests' =
            Append(requests, [user |-> u, composed |-> FALSE, answer |-> Nothing])
      BY <2>1 DEF Request
    <3>2. u \in Users
      BY LastFmAssumption DEF TypedInv
    <3>3. [user |-> u, composed |-> FALSE, answer |-> Nothing] \in Requested
      BY <3>2 DEF Requested, OneAtMost, Nothing
    <3>4. requests' \in Seq(Requested) /\ Len(requests') = Len(requests) + 1
      BY <3>1, <3>3, RequestsTyped, AppendProperties
    <3>5. Len(requests') <= MaxRequests
      BY <2>1, <3>4, RequestsTyped, LastFmAssumption DEF Request
    <3>6. QED
      BY <2>1, <3>4, <3>5, LastFmAssumption DEF Request, TypedInv
  <2>2. CASE RateLimit
    BY <2>2, LastFmAssumption DEF RateLimit, TypedInv
  <2>3. CASE UNCHANGED << requests, history >>
    BY <2>3 DEF history, TypedInv
  <2>4. QED
    BY <2>1, <2>2, <2>3 DEF get_info
<1>4. QED
  BY <1>1, <1>2, <1>3 DEF get_info, prefs, lastfm, TypedInv, Requested

LEMMA NetworkTyped ==
  ASSUME TypedInv, NEW k \in DOMAIN requests, Composes(k) \/ Arrives(k) \/ Fails(k)
  PROVE  TypedInv'
<1>1. Lines' = Lines
  BY DEF Lines, Composes, Arrives, Fails, Settle, prefs
<1>2. requests[k] \in Requested /\ requests[k].answer \in OneAtMost(Lines)
  BY RequestsTyped DEF Requested
<1>3. CASE Composes(k)
  <2>1. requests' = [requests EXCEPT ![k] = Composed(requests[k])]
    BY <1>3 DEF Composes
  <2>2. requests' \in Seq(Requested) /\ Len(requests') = Len(requests)
    BY <1>2, <2>1, ComposedTyped, RequestsTyped, ExceptSeq
  <2>3. QED
    BY <1>1, <1>3, <2>2 DEF Composes, prefs, lastfm, history, TypedInv, Requested
<1>4. CASE Arrives(k) \/ Fails(k)
  <2>1. PICK answer \in OneAtMost(Lines) : Settle(k, answer)
    <3>1. Nothing \in OneAtMost(Lines)
      BY DEF Nothing, OneAtMost
    <3>2. QED
      BY <1>2, <1>4, <3>1 DEF Arrives, Fails
  <2>2. cache' \in OneAtMost(Lines)
    BY <2>1 DEF Settle, lastfm_fetch, lastfm_ws_fetch, TypedInv
  <2>3. requests' \in Seq(Requested) /\ Len(requests') = Len(requests) - 1
    BY <2>1, RequestsTyped, Removed DEF Settle
  <2>4. Len(requests') <= MaxRequests
    BY <2>3, RequestsTyped, LastFmAssumption DEF TypedInv
  <2>5. QED
    BY <1>1, <2>1, <2>2, <2>3, <2>4 DEF Settle, prefs, lastfm, history, TypedInv, Requested
<1>5. QED
  BY <1>3, <1>4

LEMMA ListeningTyped == ASSUME TypedInv, Listening PROVE TypedInv'
<1>1. Lines' = Lines
  BY DEF Lines, Listening, Scrobbles, Plays, prefs
<1>2. scrobble' \in [Users -> OneAtMost(Scrobbled)]
  <2>1. \A s \in Songs : {[song |-> s, age |-> 0]} \in OneAtMost(Scrobbled)
    BY LastFmAssumption DEF OneAtMost, Scrobbled
  <2>2. QED
    BY <2>1 DEF Listening, Scrobbles, Plays, TypedInv
<1>3. nowplaying' \in [Users -> OneAtMost(Songs)]
  BY DEF Listening, Scrobbles, Plays, TypedInv, OneAtMost
<1>4. UNCHANGED << prefs, count, cache, requests, ti, ticked, history >>
  BY DEF Listening, Scrobbles, Plays
<1>5. QED
  BY <1>1, <1>2, <1>3, <1>4 DEF prefs, history, TypedInv, Requested

LEMMA TypedStep == TypedInv /\ [Next]_vars => TypedInv'
<1> SUFFICES ASSUME TypedInv, [Next]_vars PROVE TypedInv'
  OBVIOUS
<1>1. CASE Tick
  BY <1>1, TickTyped
<1>2. CASE get_info
  BY <1>2, PollTyped
<1>3. CASE Preferences
  <2>1. Lines' = Lines
    BY <1>3 DEF Lines, Preferences, cb_lastfm_changed, cb_lastfm_interval_changed
  <2>2. QED
    BY <1>3, <2>1 DEF Preferences, cb_lastfm_changed, cb_lastfm_interval_changed, lastfm, history,
       TypedInv, Requested
<1>4. CASE Network
  BY <1>4, NetworkTyped DEF Network
<1>5. CASE Listening
  BY <1>5, ListeningTyped
<1>6. CASE UNCHANGED vars
  <2>1. Lines' = Lines
    BY <1>6 DEF Lines, vars, prefs
  <2>2. QED
    BY <1>6, <2>1 DEF vars, prefs, lastfm, history, TypedInv, Requested
<1>7. QED
  BY <1>1, <1>2, <1>3, <1>4, <1>5, <1>6 DEF Next

(* For any users, songs and intervals: the countdown never runs up to a    *)
(* round of the timer, an answer names one track at most, in the form of   *)
(* the adapter that asked, and no more are under way than the bound.       *)
THEOREM FeedTyped == Spec => []TypeOK
BY TypedInit, TypedStep, TypedImplies, RateInit, RateStep, PTL DEF Spec
=============================================================================
