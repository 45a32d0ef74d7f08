-------------------------- MODULE Vagalume_proofs --------------------------
(***************************************************************************)
(* Theorems about Vagalume, for any songs and any number of messages on    *)
(* their way.                                                              *)
(***************************************************************************)
EXTENDS Vagalume, SequenceTheorems, TLAPS

IsSeq(s) == s \in Seq(Range(s))

(* What dbus_handler makes of the cache for a message it knows.            *)
Known(m) == m.word \in {"playing", "stopped", "closing", "starting"}
Said(m) == IF m.word = "playing" THEN Track(m.song) ELSE Clean

LastKnown(k) ==
  /\ k \in DOMAIN inbox /\ Known(inbox[k])
  /\ \A j \in DOMAIN inbox : j > k => ~ Known(inbox[j])

(* What Vagalume said last is either still to be handled, or in the cache, *)
(* or the plugin takes it not to be running, or has asked it.              *)
InboxInv ==
  /\ IsSeq(inbox)
  /\ read \in 0 .. Len(inbox)
  /\ pc \in {"idle", "report"} => read = 0
UnwatchedInv == ~ watching => inbox = << >> /\ ~ running /\ ~ requested
LastWordInv == alive => \A k : LastKnown(k) => Said(inbox[k]) = Track(playing)
CacheInv ==
  alive /\ running /\ ~ requested /\ (\A k \in DOMAIN inbox : ~ Known(inbox[k])) =>
    cached_track = Track(playing)

IInv == InboxInv /\ UnwatchedInv /\ LastWordInv /\ CacheInv

LEMMA SeqIsSeq == ASSUME NEW S, NEW s \in Seq(S) PROVE IsSeq(s)
<1>1. Len(s) \in Nat /\ s \in [1 .. Len(s) -> S]
  BY LenProperties
<1>2. s \in [1 .. Len(s) -> Range(s)]
  BY <1>1 DEF Range
<1>3. QED
  BY <1>1, <1>2, SeqDef DEF IsSeq

LEMMA CacheInit == Init => IInv
<1> SUFFICES ASSUME Init PROVE IInv
  OBVIOUS
<1>1. << >> \in Seq({}) /\ Len(<< >>) = 0 /\ DOMAIN << >> = {}
  BY EmptySeq, LenProperties
<1>2. IsSeq(inbox)
  BY <1>1, SeqIsSeq DEF Init
<1>3. InboxInv /\ UnwatchedInv
  BY <1>1, <1>2 DEF Init, InboxInv, UnwatchedInv
<1>4. LastWordInv /\ CacheInv
  BY <1>1 DEF Init, LastWordInv, CacheInv, LastKnown
<1>5. QED
  BY <1>3, <1>4 DEF IInv

LEMMA HandlerFacts ==
  ASSUME NEW m, dbus_handler(m)
  PROVE  /\ Known(m) => cached_track' = Said(m)
         /\ ~ Known(m) => cached_track' = cached_track /\ running' = running
BY DEF dbus_handler, Known, Said

(* The first message is handled, by the main loop or by a check.           *)
LEMMA HandledFirst ==
  ASSUME IInv, inbox # << >>, dbus_handler(Head(inbox)), inbox' = Tail(inbox),
         UNCHANGED << watching, requested, alive, playing >>
  PROVE  /\ IsSeq(inbox') /\ Len(inbox') = Len(inbox) - 1 /\ Len(inbox) \in Nat \ {0}
         /\ UnwatchedInv' /\ LastWordInv' /\ CacheInv'
<1>1. /\ IsSeq(inbox) /\ Len(inbox) \in Nat \ {0} /\ DOMAIN inbox = 1 .. Len(inbox)
      /\ Head(inbox) = inbox[1]
  BY EmptySeq, LenProperties, HeadTailProperties DEF IInv, InboxInv, IsSeq
<1>2. /\ inbox' \in Seq(Range(inbox)) /\ Len(inbox') = Len(inbox) - 1
      /\ \A k \in 1 .. Len(inbox') : inbox'[k] = inbox[k + 1]
  BY <1>1, HeadTailProperties DEF IsSeq
<1>3. IsSeq(inbox') /\ DOMAIN inbox' = 1 .. Len(inbox) - 1
  BY <1>2, SeqIsSeq, LenProperties
<1>4. \A k \in 1 .. Len(inbox) - 1 : k + 1 \in 1 .. Len(inbox) /\ inbox'[k] = inbox[k + 1]
  BY <1>1, <1>2
<1>5. UnwatchedInv'
  BY DEF IInv, UnwatchedInv
<1>6. LastWordInv'
  <2> SUFFICES ASSUME alive, NEW k, LastKnown(k)' PROVE Said(inbox'[k]) = Track(playing)
    BY DEF LastWordInv
  <2>1. k \in 1 .. Len(inbox) - 1 /\ Known(inbox'[k])
    BY <1>3 DEF LastKnown
  <2>2. k + 1 \in DOMAIN inbox /\ Known(inbox[k + 1]) /\ inbox'[k] = inbox[k + 1]
    BY <1>1, <1>4, <2>1
  <2>3. ASSUME NEW j \in DOMAIN inbox, j > k + 1 PROVE ~ Known(inbox[j])
    <3>1. /\ j - 1 \in 1 .. Len(inbox) - 1 /\ j - 1 > k /\ j - 1 + 1 = j
      BY <1>1, <2>1, <2>3
    <3>2. inbox'[j - 1] = inbox[j]
      BY <1>4, <3>1
    <3>3. ~ Known(inbox'[j - 1])
      BY <1>3, <3>1 DEF LastKnown
    <3>4. QED
      BY <3>2, <3>3
  <2>4. LastKnown(k + 1)
    BY <2>2, <2>3 DEF LastKnown
  <2>5. QED
    BY <2>2, <2>4 DEF IInv, LastWordInv
<1>7. CacheInv'
  <2> SUFFICES ASSUME alive, running', ~ requested, \A k \in DOMAIN inbox' : ~ Known(inbox'[k])
               PROVE  cached_track' = Track(playing)
    BY DEF CacheInv
  <2>1. \A j \in DOMAIN inbox : j > 1 => ~ Known(inbox[j])
    <3> SUFFICES ASSUME NEW j \in DOMAIN inbox, j > 1 PROVE ~ Known(inbox[j])
      OBVIOUS
    <3>1. j - 1 \in 1 .. Len(inbox) - 1 /\ j - 1 + 1 = j
      BY <1>1
    <3>2. inbox'[j - 1] = inbox[j] /\ j - 1 \in DOMAIN inbox'
      BY <1>3, <1>4, <3>1
    <3>3. QED
      BY <3>2
  <2>2. 1 \in DOMAIN inbox
    BY <1>1
  <2>3. CASE Known(inbox[1])
    <3>1. cached_track' = Said(inbox[1])
      BY <1>1, <2>3, HandlerFacts
    <3>2. LastKnown(1)
      BY <2>1, <2>2, <2>3 DEF LastKnown
    <3>3. QED
      BY <3>1, <3>2 DEF IInv, LastWordInv
  <2>4. CASE ~ Known(inbox[1])
    <3>1. cached_track' = cached_track /\ running' = running
      BY <1>1, <2>4, HandlerFacts
    <3>2. \A j \in DOMAIN inbox : j > 1 \/ j = 1
      BY <1>1
    <3>3. \A j \in DOMAIN inbox : ~ Known(inbox[j])
      BY <2>1, <2>4, <3>2
    <3>4. QED
      BY <3>1, <3>3 DEF IInv, CacheInv
  <2>5. QED
    BY <2>3, <2>4
<1>8. QED
  BY <1>1, <1>2, <1>3, <1>5, <1>6, <1>7

LEMMA NotificationSays == Known(Notification) /\ Said(Notification) = Track(playing)
BY DEF Notification, Message, Known, Said, Track, Clean

LEMMA Appended ==
  ASSUME IInv, NEW m, inbox' = Append(inbox, m), UNCHANGED << pc, read >>
  PROVE  /\ InboxInv' /\ Len(inbox) \in Nat /\ DOMAIN inbox = 1 .. Len(inbox)
         /\ DOMAIN inbox' = 1 .. Len(inbox) + 1 /\ inbox'[Len(inbox) + 1] = m
         /\ \A k \in DOMAIN inbox : inbox'[k] = inbox[k]
<1> DEFINE S == Range(inbox) \cup {m}
<1>1. inbox \in Seq(S) /\ m \in S
  BY SeqMonotonic DEF IInv, InboxInv, IsSeq
<1> HIDE DEF S
<1>2. /\ inbox' \in Seq(S) /\ Len(inbox') = Len(inbox) + 1
      /\ \A k \in 1 .. Len(inbox) : inbox'[k] = inbox[k]
      /\ inbox'[Len(inbox) + 1] = m
  BY <1>1, AppendProperties
<1>3. /\ IsSeq(inbox') /\ DOMAIN inbox' = 1 .. Len(inbox') /\ Len(inbox) \in Nat
      /\ DOMAIN inbox = 1 .. Len(inbox)
  BY <1>1, <1>2, SeqIsSeq, LenProperties
<1>4. read' \in 0 .. Len(inbox')
  BY <1>2, <1>3 DEF IInv, InboxInv
<1>5. InboxInv'
  BY <1>3, <1>4 DEF IInv, InboxInv
<1>6. QED
  BY <1>2, <1>3, <1>5

(* Vagalume says something the plugin knows, which is then its last word.  *)
LEMMA SpeaksStep ==
  ASSUME IInv, Outside, NEW m, Known(m), Send(m),
         ~ watching => requested' = requested \/ requested' = FALSE,
         alive' => Said(m) = Track(playing')
  PROVE  IInv'
<1>0. UNCHANGED << pc, read, watching, running, cached_track >>
  BY DEF Outside, plugin
<1>1. CASE watching
  <2>1. inbox' = Append(inbox, m)
    BY <1>1 DEF Send
  <2>2. /\ InboxInv' /\ Len(inbox) \in Nat
        /\ DOMAIN inbox' = 1 .. Len(inbox) + 1 /\ inbox'[Len(inbox) + 1] = m
    BY <1>0, <2>1, Appended
  <2>3. Len(inbox) + 1 \in DOMAIN inbox' /\ Known(inbox'[Len(inbox) + 1])
    BY <2>2
  <2>4. UnwatchedInv'
    BY <1>0, <1>1 DEF UnwatchedInv
  <2>5. CacheInv'
    BY <2>3 DEF CacheInv
  <2>6. LastWordInv'
    <3> SUFFICES ASSUME alive', NEW k, LastKnown(k)' PROVE Said(inbox'[k]) = Track(playing')
      BY DEF LastWordInv
    <3>1. k \in 1 .. Len(inbox) + 1 /\ ~ (Len(inbox) + 1 > k)
      BY <2>2, <2>3 DEF LastKnown
    <3>2. k = Len(inbox) + 1
      BY <2>2, <3>1
    <3>3. QED
      BY <2>2, <3>2
  <2>7. QED
    BY <2>2, <2>4, <2>5, <2>6 DEF IInv
<1>2. CASE ~ watching
  <2>1. inbox' = inbox /\ inbox = << >> /\ ~ running' /\ ~ requested'
    BY <1>0, <1>2 DEF Send, IInv, UnwatchedInv
  <2>2. DOMAIN inbox' = {}
    BY <2>1
  <2>3. InboxInv' /\ UnwatchedInv'
    BY <1>0, <2>1 DEF IInv, InboxInv, UnwatchedInv
  <2>4. LastWordInv' /\ CacheInv'
    BY <2>1, <2>2 DEF LastWordInv, CacheInv, LastKnown
  <2>5. QED
    BY <2>3, <2>4 DEF IInv
<1>3. QED
  BY <1>1, <1>2

LEMMA OtherTrafficStep == ASSUME IInv, OtherTraffic PROVE IInv'
<1> DEFINE m == Message("other", {})
<1>0. /\ UNCHANGED << pc, read, watching, running, cached_track, requested, alive, playing >>
      /\ inbox' = Append(inbox, m) /\ watching
  BY DEF OtherTraffic, Outside, plugin, vagalume, Send
<1>1. ~ Known(m)
  BY DEF Known, Message
<1> HIDE DEF m
<1>2. /\ InboxInv' /\ Len(inbox) \in Nat /\ DOMAIN inbox = 1 .. Len(inbox)
      /\ DOMAIN inbox' = 1 .. Len(inbox) + 1 /\ inbox'[Len(inbox) + 1] = m
      /\ \A k \in DOMAIN inbox : inbox'[k] = inbox[k]
  BY <1>0, Appended
<1>3. \A k \in DOMAIN inbox : k \in DOMAIN inbox' /\ inbox'[k] = inbox[k]
  BY <1>2
<1>4. \A k \in DOMAIN inbox' : k = Len(inbox) + 1 \/ k \in DOMAIN inbox
  BY <1>2
<1>5. UnwatchedInv'
  BY <1>0 DEF UnwatchedInv
<1>6. LastWordInv'
  <2> SUFFICES ASSUME alive, NEW k, LastKnown(k)' PROVE Said(inbox'[k]) = Track(playing)
    BY <1>0 DEF LastWordInv
  <2>1. k \in DOMAIN inbox /\ inbox'[k] = inbox[k]
    BY <1>1, <1>2, <1>3, <1>4 DEF LastKnown
  <2>2. LastKnown(k)
    BY <1>3, <2>1 DEF LastKnown
  <2>3. QED
    BY <2>1, <2>2 DEF IInv, LastWordInv
<1>7. CacheInv'
  BY <1>0, <1>3 DEF IInv, CacheInv
<1>8. QED
  BY <1>2, <1>5, <1>6, <1>7 DEF IInv

(* A check by the timer or by initialize_plugin.                           *)
LEMMA CheckStep ==
  ASSUME IInv, check_and_fill_cache, watching', UNCHANGED << inbox, alive, playing >>
  PROVE  IInv'
<1>0. Len(inbox) \in Nat
  BY LenProperties DEF IInv, InboxInv, IsSeq
<1>1. read' \in 0 .. Len(inbox) /\ (pc' \in {"idle", "report"} => read' = 0)
  BY <1>0 DEF check_and_fill_cache, Checked
<1>2. InboxInv' /\ UnwatchedInv'
  BY <1>1 DEF IInv, InboxInv, UnwatchedInv
<1>3. LastWordInv'
  BY DEF IInv, LastWordInv, LastKnown
<1>4. CacheInv'
  BY DEF CacheInv, check_and_fill_cache
<1>5. QED
  BY <1>2, <1>3, <1>4 DEF IInv

LEMMA CacheStep == IInv /\ [Next]_vars => IInv'
<1> SUFFICES ASSUME IInv, [Next]_vars PROVE IInv'
  OBVIOUS
<1>0. Len(inbox) \in Nat /\ read \in 0 .. Len(inbox)
  BY LenProperties DEF IInv, InboxInv, IsSeq
<1>00. inbox = << >> => Len(inbox) = 0
  BY EmptySeq
<1>1. CASE Dispatch
  <2>1. /\ IsSeq(inbox') /\ Len(inbox') = Len(inbox) - 1 /\ Len(inbox) \in Nat \ {0}
        /\ UnwatchedInv' /\ LastWordInv' /\ CacheInv'
    BY <1>1, HandledFirst DEF Dispatch, vagalume
  <2>2. read' = 0 /\ 0 \in 0 .. Len(inbox) - 1
    BY <1>1, <2>1 DEF Dispatch, IInv, InboxInv
  <2>3. QED
    BY <2>1, <2>2 DEF IInv, InboxInv
<1>2. CASE CheckTimer
  BY <1>2, CheckStep DEF CheckTimer
<1>3. CASE read_write_dispatch
  <2>1. CASE read > 0
    <3>1. inbox # << >>
      BY <1>0, <1>00, <2>1
    <3>2. /\ dbus_handler(Head(inbox)) /\ inbox' = Tail(inbox) /\ read' = read - 1 /\ pc' = "pop"
          /\ UNCHANGED << watching, requested, alive, playing >>
      BY <1>0, <1>3, <2>1 DEF read_write_dispatch, vagalume
    <3>3. /\ IsSeq(inbox') /\ Len(inbox') = Len(inbox) - 1
          /\ UnwatchedInv' /\ LastWordInv' /\ CacheInv'
      BY <3>1, <3>2, HandledFirst
    <3>4. read' \in 0 .. Len(inbox')
      BY <1>0, <2>1, <3>2, <3>3
    <3>5. QED
      BY <3>2, <3>3, <3>4 DEF IInv, InboxInv
  <2>2. CASE read = 0
    <3>1. /\ UNCHANGED << running, cached_track, inbox, watching, requested, alive, playing >>
          /\ pc' = "pop" /\ read' \in IF inbox = << >> THEN {0} ELSE 1 .. Len(inbox)
      BY <1>3, <2>2 DEF read_write_dispatch, vagalume
    <3>2. read' \in 0 .. Len(inbox)
      BY <1>0, <3>1
    <3>3. QED
      BY <3>1, <3>2 DEF IInv, InboxInv, UnwatchedInv, LastWordInv, LastKnown, CacheInv
  <2>3. QED
    BY <1>0, <2>1, <2>2
<1>4. CASE pop_message
  <2>1. inbox # << >>
    BY <1>0, <1>00, <1>4 DEF pop_message
  <2>2. /\ dbus_handler(Head(inbox)) /\ inbox' = Tail(inbox) /\ read' = 0
        /\ UNCHANGED << watching, requested, alive, playing >>
    BY <1>4 DEF pop_message, Checked, vagalume
  <2>3. /\ IsSeq(inbox') /\ Len(inbox') = Len(inbox) - 1 /\ Len(inbox) \in Nat \ {0}
        /\ UnwatchedInv' /\ LastWordInv' /\ CacheInv'
    BY <2>1, <2>2, HandledFirst
  <2>4. 0 \in 0 .. Len(inbox) - 1
    BY <2>3
  <2>5. QED
    BY <2>2, <2>3, <2>4 DEF IInv, InboxInv
<1>5. CASE NoReply
  <2>1. /\ UNCHANGED << watching, inbox, requested, alive, playing >>
        /\ read' = 0 /\ running' = FALSE /\ 0 \in 0 .. Len(inbox)
    BY <1>0, <1>5 DEF NoReply, NotRunning, Checked, vagalume
  <2>2. QED
    BY <2>1 DEF IInv, InboxInv, UnwatchedInv, LastWordInv, LastKnown, CacheInv
<1>6. CASE initialize_plugin
  <2>1. CASE watching' = TRUE /\ check_and_fill_cache
    BY <1>6, <2>1, CheckStep DEF initialize_plugin
  <2>2. CASE pc' = "report" /\ UNCHANGED << running, cached_track, watching, requested, read >>
    BY <1>6, <2>2
    DEF initialize_plugin, IInv, InboxInv, UnwatchedInv, LastWordInv, LastKnown, CacheInv
  <2>3. QED
    BY <1>6, <2>1, <2>2 DEF initialize_plugin
<1>7. CASE get_vagalume_info
  BY <1>7 DEF get_vagalume_info, vagalume, IInv, InboxInv, UnwatchedInv, LastWordInv, LastKnown,
     CacheInv
<1>8. CASE Answers
  <2> DEFINE m == Notification
  <2>1. Known(m) /\ Said(m) = Track(playing)
    BY NotificationSays
  <2>2. Outside /\ Send(m) /\ playing' = playing /\ requested' = FALSE
    BY <1>8 DEF Answers
  <2> HIDE DEF m
  <2>3. QED
    BY <2>1, <2>2, SpeaksStep
<1>9. CASE Starts
  <2> DEFINE m == Message("starting", {})
  <2>1. Known(m) /\ Said(m) = Track({})
    BY DEF Message, Known, Said, Clean
  <2>2. Outside /\ Send(m) /\ playing' = {} /\ requested' = requested
    BY <1>9 DEF Starts
  <2> HIDE DEF m
  <2>3. QED
    BY <2>1, <2>2, SpeaksStep
<1>10. CASE Closes
  <2> DEFINE m == Message("closing", {})
  <2>1. Known(m)
    BY DEF Message, Known
  <2>2. Outside /\ Send(m) /\ ~ alive' /\ requested' = FALSE
    BY <1>10 DEF Closes
  <2> HIDE DEF m
  <2>3. QED
    BY <2>1, <2>2, SpeaksStep
<1>11. CASE Killed
  <2>1. UNCHANGED << pc, read, watching, running, cached_track, inbox >> /\ ~ alive' /\ ~ requested'
    BY <1>11 DEF Killed, Outside, plugin
  <2>2. QED
    BY <2>1 DEF IInv, InboxInv, UnwatchedInv, LastWordInv, CacheInv
<1>12. CASE ChangesTrack
  <2> DEFINE m == Notification'
  <2>1. Known(m) /\ Said(m) = Track(playing')
    BY DEF Notification, Message, Known, Said, Track, Clean
  <2>2. Outside /\ Send(m) /\ requested' = requested
    BY <1>12 DEF ChangesTrack
  <2> HIDE DEF m
  <2>3. QED
    BY <2>1, <2>2, SpeaksStep
<1>13. CASE OtherTraffic
  BY <1>13, OtherTrafficStep
<1>14. CASE UNCHANGED vars
  BY <1>14 DEF vars, plugin, vagalume, IInv, InboxInv, UnwatchedInv, LastWordInv, LastKnown,
     CacheInv
<1>15. QED
  BY <1>1, <1>2, <1>3, <1>4, <1>5, <1>6, <1>7, <1>8, <1>9, <1>10, <1>11, <1>12, <1>13, <1>14
  DEF Next, Changes

(* For any songs, and any number of messages on their way: whenever the    *)
(* plugin takes a Vagalume that runs to be running, and has handled all it *)
(* said, the cache holds what it plays.                                    *)
THEOREM CacheTrue == Spec => []CacheTellsTrack
<1>1. IInv => CacheTellsTrack
  <2> SUFFICES ASSUME IInv, alive, running, inbox = << >>, ~ requested
               PROVE  cached_track = Track(playing)
    BY DEF CacheTellsTrack
  <2>1. DOMAIN inbox = {}
    OBVIOUS
  <2>2. QED
    BY <2>1 DEF IInv, CacheInv
<1>2. QED
  BY <1>1, CacheInit, CacheStep, PTL DEF Spec

(***************************************************************************)
(* Types                                                                   *)
(***************************************************************************)
Messages == [word : Words, song : Playings]

LEMMA HandlerTyped ==
  ASSUME TypeOK, NEW m \in Messages, dbus_handler(m)
  PROVE  cached_track' \in {Track(song) : song \in Playings} /\ running' \in BOOLEAN
<1>1. Clean \in {Track(song) : song \in Playings} /\ m.song \in Playings
  BY DEF Clean, Messages, Playings
<1>2. QED
  BY <1>1 DEF dbus_handler, TypeOK

LEMMA HeadTyped ==
  ASSUME TypeOK, inbox # << >>
  PROVE  /\ Head(inbox) \in Messages /\ Tail(inbox) \in Seq(Messages)
         /\ Len(Tail(inbox)) <= MaxInbox
<1>1. inbox \in Seq(Messages) /\ Len(inbox) <= MaxInbox
  BY DEF TypeOK, Messages
<1>2. /\ Head(inbox) \in Messages /\ Tail(inbox) \in Seq(Messages)
      /\ Len(Tail(inbox)) = Len(inbox) - 1 /\ Len(inbox) \in Nat
  BY <1>1, HeadTailProperties, LenProperties
<1>3. QED
  BY <1>1, <1>2, VagalumeAssumption

LEMMA SentTyped ==
  ASSUME TypeOK, NEW m \in Messages, Send(m)
  PROVE  inbox' \in Seq(Messages) /\ Len(inbox') <= MaxInbox
<1>1. inbox \in Seq(Messages) /\ Len(inbox) \in Nat /\ Len(inbox) < MaxInbox
  BY LenProperties DEF TypeOK, Messages, Send
<1>2. Append(inbox, m) \in Seq(Messages) /\ Len(Append(inbox, m)) = Len(inbox) + 1
  BY <1>1, AppendProperties
<1>3. QED
  BY <1>1, <1>2, VagalumeAssumption DEF Send

(* What a step leaves to be shown, once the place in the inbox is known.   *)
Valued ==
  /\ {initialized, running, watching, requested, alive} \subseteq BOOLEAN
  /\ cached_track \in {Track(song) : song \in Playings}
  /\ pc \in {"idle", "asked", "pop", "report"}
  /\ playing \in Playings
  /\ ti \in {Closed} \cup {Track(song) : song \in Playings}
Queued == inbox \in Seq(Messages) /\ Len(inbox) <= MaxInbox

LEMMA TypeIs == TypeOK <=> Valued /\ Queued /\ read \in 0 .. Len(inbox)
BY DEF TypeOK, Valued, Queued, Messages

LEMMA HandlingTyped ==
  ASSUME TypeOK, inbox # << >>, dbus_handler(Head(inbox)), inbox' = Tail(inbox),
         initialized' \in BOOLEAN, pc' \in {"idle", "pop", "report"},
         UNCHANGED << watching, ti, vagalume >>
  PROVE  Valued' /\ Queued'
<1>1. Head(inbox) \in Messages /\ Queued'
  BY HeadTyped DEF Queued
<1>2. cached_track' \in {Track(song) : song \in Playings} /\ running' \in BOOLEAN
  BY <1>1, HandlerTyped
<1>3. QED
  BY <1>1, <1>2, TypeIs DEF Valued, vagalume

LEMMA CheckTyped ==
  ASSUME TypeOK, check_and_fill_cache, watching' \in BOOLEAN,
         UNCHANGED << ti, inbox, alive, playing >>
  PROVE  Valued' /\ Queued'
<1>1. Clean \in {Track(song) : song \in Playings}
  BY DEF Clean, Playings
<1>2. Valued'
  BY <1>1, TypeIs DEF Valued, check_and_fill_cache, NotRunning, Checked
<1>3. QED
  BY <1>2, TypeIs DEF Queued

(* Vagalume and the bus leave the plugin alone.                            *)
LEMMA OutsideTyped ==
  ASSUME TypeOK, Outside, Queued', alive' \in BOOLEAN, requested' \in BOOLEAN,
         playing' \in Playings
  PROVE  Valued' /\ Queued'
BY TypeIs DEF Valued, Outside, plugin

LEMMA TypedInit == Init => TypeOK
<1> SUFFICES ASSUME Init PROVE TypeOK
  OBVIOUS
<1>1. inbox \in Seq(Messages) /\ Len(inbox) = 0
  BY EmptySeq DEF Init
<1>2. Queued /\ read \in 0 .. Len(inbox)
  BY <1>1, VagalumeAssumption DEF Init, Queued
<1>3. Valued
  BY DEF Init, Valued, Playings, Clean
<1>4. QED
  BY <1>2, <1>3, TypeIs

LEMMA TypedStep == IInv /\ TypeOK /\ [Next]_vars => TypeOK'
<1> SUFFICES ASSUME IInv, TypeOK, [Next]_vars PROVE TypeOK'
  OBVIOUS
<1>0. read' \in 0 .. Len(inbox')
  BY CacheStep DEF IInv, InboxInv
<1>1. SUFFICES Valued' /\ Queued'
  BY <1>0 DEF TypeOK, Valued, Queued, Messages
<1>2. Len(inbox) \in Nat /\ read \in 0 .. Len(inbox) /\ (inbox = << >> => Len(inbox) = 0)
  BY EmptySeq, LenProperties DEF TypeOK
<1>3. Valued /\ Queued
  BY TypeIs
<1>4. CASE Dispatch
  BY <1>3, <1>4, HandlingTyped DEF Dispatch, Valued
<1>5. CASE CheckTimer
  BY <1>3, <1>5, CheckTyped DEF CheckTimer, Valued
<1>6. CASE read_write_dispatch
  <2>1. CASE read > 0
    <3>1. inbox # << >>
      BY <1>2, <2>1
    <3>2. QED
      BY <1>2, <1>3, <1>6, <2>1, <3>1, HandlingTyped DEF read_write_dispatch, Valued
  <2>2. CASE read = 0
    BY <1>3, <1>6, <2>2 DEF read_write_dispatch, Valued, Queued, vagalume
  <2>3. QED
    BY <1>2, <2>1, <2>2
<1>7. CASE pop_message
  <2>1. inbox # << >>
    BY <1>2, <1>7 DEF pop_message
  <2>2. QED
    BY <1>3, <1>7, <2>1, HandlingTyped DEF pop_message, Checked, Valued
<1>8. CASE NoReply
  <2>1. Clean \in {Track(song) : song \in Playings}
    BY DEF Clean, Playings
  <2>2. QED
    BY <1>3, <1>8, <2>1 DEF NoReply, NotRunning, Checked, Valued, Queued, vagalume
<1>9. CASE initialize_plugin
  <2>1. CASE watching' = TRUE /\ check_and_fill_cache
    BY <1>9, <2>1, CheckTyped DEF initialize_plugin
  <2>2. CASE ~ (watching' = TRUE /\ check_and_fill_cache)
    BY <1>3, <1>9, <2>2 DEF initialize_plugin, Valued, Queued
  <2>3. QED
    BY <2>1, <2>2
<1>10. CASE get_vagalume_info
  BY <1>3, <1>10 DEF get_vagalume_info, Valued, Queued, vagalume
<1>11. CASE Starts \/ Closes
  <2>1. /\ Message("starting", {}) \in Messages
        /\ Message("closing", {}) \in Messages
        /\ {} \in Playings
    BY DEF Message, Messages, Words, Playings
  <2>2. Queued'
    BY <1>11, <2>1, SentTyped DEF Starts, Closes, Queued
  <2>3. QED
    BY <1>3, <1>11, <2>1, <2>2, OutsideTyped DEF Starts, Closes, Valued
<1>12. CASE Killed
  <2>1. {} \in Playings
    BY DEF Playings
  <2>2. QED
    BY <1>3, <1>12, <2>1, OutsideTyped DEF Killed, Queued
<1>13. CASE ChangesTrack
  <2>1. playing' \in Playings
    BY <1>13 DEF ChangesTrack, Playings
  <2>2. Notification' \in Messages
    BY <2>1 DEF Notification, Message, Messages, Words
  <2>3. Queued'
    BY <1>13, <2>2, SentTyped DEF ChangesTrack, Queued
  <2>4. QED
    BY <1>3, <1>13, <2>1, <2>3, OutsideTyped DEF ChangesTrack, Valued
<1>14. CASE Answers
  <2>1. Notification \in Messages
    BY <1>3 DEF Valued, Notification, Message, Messages, Words
  <2>2. Queued'
    BY <1>14, <2>1, SentTyped DEF Answers, Queued
  <2>3. QED
    BY <1>3, <1>14, <2>2, OutsideTyped DEF Answers, Valued
<1>15. CASE OtherTraffic
  <2>1. Message("other", {}) \in Messages
    BY DEF Message, Messages, Words, Playings
  <2>2. Queued'
    BY <1>15, <2>1, SentTyped DEF OtherTraffic, Queued
  <2>3. QED
    BY <1>3, <1>15, <2>2, OutsideTyped DEF OtherTraffic, Valued, vagalume
<1>16. CASE UNCHANGED vars
  BY <1>3, <1>16 DEF vars, plugin, vagalume, Valued, Queued
<1>17. QED
  BY <1>4, <1>5, <1>6, <1>7, <1>8, <1>9, <1>10, <1>11, <1>12, <1>13, <1>14, <1>15, <1>16
  DEF Next, Changes

(* For any songs, and any number of messages on their way: the cache holds *)
(* nothing but a song that plays or none, and a check never reads more     *)
(* messages than have come.                                                *)
THEOREM CacheTyped == Spec => []TypeOK
BY TypedInit, TypedStep, CacheInit, CacheStep, PTL DEF Spec
=============================================================================
