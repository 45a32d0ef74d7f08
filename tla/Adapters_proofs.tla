-------------------------- MODULE Adapters_proofs ---------------------------
(***************************************************************************)
(* Theorems about the adapters that ask at every poll, for any players,    *)
(* any songs, and any number of changes during a poll.  Each adapter keeps *)
(* an invariant of its own; a step of another adapter cannot be taken.     *)
(***************************************************************************)
EXTENDS Adapters, Mpris_proofs, Mpd_proofs

Unlooked == {"Amarok", "MOC", "XMMS"}

LEMMA QueryPlayersAre ==
  QueryPlayers = {"Amarok", "Audacious", "BansheeOld", "BansheeNew", "Songbird", "Exaile",
                  "Listen", "MOC", "QuodLibet", "Rhythmbox", "XMMS", "XMMS2", "Foobar2000",
                  "iTunes", "Winamp", "WMP"}
  BY DEF QueryPlayers, Script

(* Once the player is looked for first, no question follows unless it has  *)
(* been seen running.                                                      *)
QueryInv ==
  /\ pc \in {"idle", "asking"}
  /\ at \in Nat \ {0}
  /\ adapter \notin Unlooked /\ pc = "asking" /\ at # 1 => SeenModes(Target) # {CLOSED}

LEMMA ConcatFirst ==
  ASSUME NEW x, NEW y, NEW z, NEW a, NEW b, NEW c
  PROVE  /\ (<< x, y >> \o << a, b, c >>)[1] = x
         /\ (<< x, y, z >> \o << a, b, c >>)[1] = x
  OBVIOUS

(* The scripts that look for the player do so first.                       *)
LEMMA LooksFirst ==
  ASSUME NEW a \in QueryPlayers \ Unlooked
  PROVE  Script[a][1] = Running
  <1>1. /\ get_audacious_info[1] = Running
        /\ get_banshee_info_old[1] = Running
        /\ get_dbusbird_info[1] = Running
        /\ get_exaile_info[1] = Running
        /\ get_itunes_info[1] = Running
        /\ get_winamp_info[1] = Running
        /\ get_wmp_info[1] = Running
    BY ConcatFirst DEF get_audacious_info, get_banshee_info_old, get_dbusbird_info,
       get_exaile_info, get_itunes_info, get_winamp_info, get_wmp_info, InTurn, OfHandle
  <1>2. /\ get_banshee_info_new[1] = Running
        /\ get_listen_info[1] = Running
        /\ get_quodlibet_info[1] = Running
        /\ get_rhythmbox_info[1] = Running
        /\ get_xmms2_info[1] = Running
        /\ get_foobar2000_info[1] = Running
    BY DEF get_banshee_info_new, get_listen_info, get_quodlibet_info, get_rhythmbox_info,
       get_xmms2_info, get_foobar2000_info
  <1>3. a \in {"Audacious", "BansheeOld", "BansheeNew", "Songbird", "Exaile", "Listen",
               "QuodLibet", "Rhythmbox", "XMMS2", "Foobar2000", "iTunes", "Winamp", "WMP"}
    BY QueryPlayersAre DEF Unlooked
  <1> QED
    BY <1>1, <1>2, <1>3 DEF Script

-----------------------------------------------------------------------------
(***************************************************************************)
(* The adapters that ask one player.                                       *)
(***************************************************************************)

(* A call has been made, and the next one is due, or the poll ends.        *)
LEMMA ScriptAdvances ==
  ASSUME PlayersInv, QueryInv, pc = "asking", UNCHANGED << adapter, players >>,
         (Return /\ at' = 1) \/ (at' = at + 1 /\ UNCHANGED << pc, window >>),
         adapter \notin Unlooked /\ at = 1 /\ pc' # "idle" => mode[Target] # CLOSED
  PROVE  PlayersInv' /\ QueryInv'
  <1>1. CASE Return /\ at' = 1
    <2>1. PlayersInv'
      BY <1>1, PollReturns
    <2> QED
      BY <1>1, <2>1 DEF Return, QueryInv
  <1>2. CASE at' = at + 1 /\ UNCHANGED << pc, window >>
    <2>1. PlayersInv'
      BY <1>2, PollGoesOn
    <2>2. SeenModes(Target)' = SeenModes(Target)
      BY <1>2 DEF window, SeenModes
    <2>3. mode[Target] \in SeenModes(Target)
      BY SeesMode, PollingAssumption
    <2>4. adapter \notin Unlooked => SeenModes(Target) # {CLOSED}
      BY <1>2, <2>3 DEF QueryInv
    <2>5. at' \in Nat \ {0} /\ pc' = "asking"
      BY <1>2 DEF QueryInv
    <2> QED
      BY <2>1, <2>2, <2>4, <2>5 DEF QueryInv
  <1> QED
    BY <1>1, <1>2

(* Every question advances the script, and the first is whether the player *)
(* is there.                                                               *)
LEMMA QueryAsks ==
  ASSUME PlayersInv, QueryInv, adapter \in QueryPlayers,
         \/ dbus_g_running \/ StatusAnswered \/ HandleAnswered \/ TextAnswered
         \/ SnapshotAnswered \/ SnapshotCut \/ CallFails \/ ReadsState
  PROVE  PlayersInv' /\ QueryInv'
  <1>1. pc = "asking" /\ UNCHANGED << adapter, players >>
    BY DEF dbus_g_running, StatusAnswered, HandleAnswered, TextAnswered, SnapshotAnswered,
           SnapshotCut, CallFails, ReadsState, Answers, Asking
  <1>2. (Return /\ at' = 1) \/ (at' = at + 1 /\ UNCHANGED << pc, window >>)
    BY DEF dbus_g_running, StatusAnswered, HandleAnswered, TextAnswered, SnapshotAnswered,
           SnapshotCut, CallFails, ReadsState, Goes, TakesHandle
  <1>3. ASSUME adapter \notin Unlooked, at = 1, pc' # "idle"
        PROVE  mode[Target] # CLOSED
    <2>1. Step.call = "running"
      BY <1>3, LooksFirst DEF Step, Running
    <2>2. dbus_g_running
      BY <2>1 DEF StatusAnswered, HandleAnswered, TextAnswered, SnapshotAnswered, SnapshotCut,
                  CallFails, ReadsState, Answers, Asking
    <2> QED
      BY <2>2, <1>3 DEF dbus_g_running, Goes, Return
  <1> QED
    BY <1>1, <1>2, <1>3, ScriptAdvances

LEMMA QueryStep ==
  ASSUME PlayersInv, QueryInv, QueryNext
  PROVE  PlayersInv' /\ QueryInv'
  <1>1. adapter \in QueryPlayers
    BY DEF QueryNext
  <1>2. CASE get_player_info
    <2>1. PlayersInv'
      BY <1>2, PollBegins DEF get_player_info
    <2> QED
      BY <1>2, <2>1 DEF get_player_info, QueryInv
  <1>3. CASE cb_quodlibet_paused
    <2>1. UNCHANGED << polling, at >> /\ pc = "idle"
      BY <1>3 DEF cb_quodlibet_paused
    <2>2. PlayersInv'
      BY <2>1, PollGoesOn DEF polling, poll, players, window
    <2> QED
      BY <2>1, <2>2 DEF QueryInv, polling, poll
  <1>4. CASE QueriedMoves
    <2>1. Moves(Target) /\ UNCHANGED at
      BY <1>4 DEF QueriedMoves
    <2>2. PlayersInv' /\ (pc # "idle" => Remembers) /\ UNCHANGED << adapter, pc >>
      BY <2>1, PlayerMoves, PollingAssumption DEF poll
    <2>3. pc = "asking" => SeenModes(Target) \subseteq SeenModes(Target)'
                           /\ mode[Target] \in SeenModes(Target)
      BY <2>2, Remembered, SeesMode, PollingAssumption
    <2> QED
      BY <2>1, <2>2, <2>3 DEF QueryInv
  <1> QED
    BY <1>1, <1>2, <1>3, <1>4, QueryAsks DEF QueryNext, Queries

-----------------------------------------------------------------------------
(***************************************************************************)
(* The songs the fields belong to.                                         *)
(***************************************************************************)
LooksUp == {"Audacious", "Rhythmbox", "XMMS", "XMMS2", "iTunes", "Winamp"}
AtOnce  == {"BansheeNew", "Listen", "MOC", "QuodLibet", "Foobar2000"}

LEMMA TwoPaths ==
  /\ Whole = LooksUp \cup AtOnce
  /\ LooksUp \subseteq QueryPlayers /\ AtOnce \subseteq QueryPlayers
  BY QueryPlayersAre DEF Whole, LooksUp, AtOnce

(* The song is looked up in the third call, and all fields are asked of it *)
(* afterwards.                                                             *)
LEMMA LookupScripts ==
  ASSUME NEW a \in LooksUp
  PROVE  /\ Len(Script[a]) \in Nat \ {0}
         /\ \A k \in 1 .. Len(Script[a]) :
              /\ k < 3 => Script[a][k].call \in {"running", "status"}
              /\ k = 3 => Script[a][k].call = "handle"
              /\ k > 3 => Script[a][k].call = "text" /\ Script[a][k].of = "handle"
  <1> DEFINE Shape(s) == /\ Len(s) \in Nat \ {0}
                         /\ \A k \in 1 .. Len(s) :
                              /\ k < 3 => s[k].call \in {"running", "status"}
                              /\ k = 3 => s[k].call = "handle"
                              /\ k > 3 => s[k].call = "text" /\ s[k].of = "handle"
  <1>1. ASSUME NEW x, NEW y, NEW z, x.call \in {"running", "status"}, y.call = "status",
               z.call = "handle"
        PROVE  Shape(<< x, y, z >> \o OfHandle(KeepsOn))
    <2> DEFINE t1 == Ask({"artist"}, "handle", KeepsOn)
               t2 == Ask({"album"}, "handle", KeepsOn)
               t3 == Ask({"track"}, "handle", KeepsOn)
    <2>1. \A t \in {t1, t2, t3} : t.call = "text" /\ t.of = "handle"
      BY DEF Ask
    <2>2. OfHandle(KeepsOn) = << t1, t2, t3 >>
      BY DEF OfHandle
    <2> HIDE DEF t1, t2, t3
    <2> DEFINE s == << x, y, z >> \o << t1, t2, t3 >>
    <2>3. /\ Len(s) = 6 /\ s[1] = x /\ s[2] = y /\ s[3] = z
          /\ s[4] = t1 /\ s[5] = t2 /\ s[6] = t3
      OBVIOUS
    <2> HIDE DEF s
    <2>4. Shape(s)
      BY <1>1, <2>1, <2>3
    <2> QED
      BY <2>2, <2>4 DEF s
  <1>2. ASSUME NEW x, NEW y, NEW z, NEW t, x.call \in {"running", "status"}, y.call = "status",
               z.call = "handle", t.call = "text", t.of = "handle"
        PROVE  Shape(<< x, y, z, t >>)
    BY <1>2
  <1>3. /\ Running.call = "running"
        /\ \A r, e, f : Status(r, e, f).call = "status"
        /\ \A p, n, f : Handle(p, n, f).call = "handle"
        /\ \A s, f : Ask(s, "handle", f).call = "text" /\ Ask(s, "handle", f).of = "handle"
    BY DEF Running, Status, Handle, Ask
  <1>4. Shape(get_audacious_info)
    <2> DEFINE y == Status(AsIs, {STOPPED}, Leaves(CLOSED))
               z == Handle(TRUE, KeepsOn, KeepsOn)
    <2>1. y.call = "status" /\ z.call = "handle"
      BY <1>3
    <2>2. get_audacious_info = << Running, y, z >> \o OfHandle(KeepsOn)
      BY DEF get_audacious_info
    <2> HIDE DEF Shape, y, z
    <2> QED
      BY <1>1, <1>3, <2>1, <2>2
  <1>5. Shape(get_itunes_info)
    <2> DEFINE y == Status([m \in Modes |-> IF m = PLAYING THEN PLAYING ELSE PAUSED], {}, GivesUp)
               z == Handle(FALSE, Leaves(STOPPED), GivesUp)
    <2>1. y.call = "status" /\ z.call = "handle"
      BY <1>3
    <2>2. get_itunes_info = << Running, y, z >> \o OfHandle(KeepsOn)
      BY DEF get_itunes_info
    <2> HIDE DEF Shape, y, z
    <2> QED
      BY <1>1, <1>3, <2>1, <2>2
  <1>6. Shape(get_winamp_info)
    <2> DEFINE y == Status(AsIs, {}, Takes(STOPPED))
               z == Handle(TRUE, KeepsOn, KeepsOn)
    <2>1. y.call = "status" /\ z.call = "handle"
      BY <1>3
    <2>2. get_winamp_info = << Running, y, z >> \o OfHandle(KeepsOn)
      BY DEF get_winamp_info
    <2> HIDE DEF Shape, y, z
    <2> QED
      BY <1>1, <1>3, <2>1, <2>2
  <1>7. Shape(get_rhythmbox_info)
    <2> DEFINE y == Status(Playing, {}, Leaves(STOPPED))
               z == Handle(FALSE, KeepsOn, Leaves(CLOSED))
               t == Ask(Fields, "handle",
                      [s \in Modes |-> {Outcome(IF s = PLAYING THEN CLOSED ELSE STOPPED, TRUE)}])
    <2>1. y.call = "status" /\ z.call = "handle" /\ t.call = "text" /\ t.of = "handle"
      BY <1>3
    <2>2. get_rhythmbox_info = << Running, y, z, t >>
      BY DEF get_rhythmbox_info
    <2> HIDE DEF Shape, y, z, t
    <2> QED
      BY <1>2, <1>3, <2>1, <2>2
  <1>8. Shape(get_xmms2_info)
    <2> DEFINE y == Status(AsIs, {}, GivesUp)
               z == Handle(FALSE, GivesUp, GivesUp)
               t == Ask(Fields, "handle", GivesUp)
    <2>1. y.call = "status" /\ z.call = "handle" /\ t.call = "text" /\ t.of = "handle"
      BY <1>3
    <2>2. get_xmms2_info = << Running, y, z, t >>
      BY DEF get_xmms2_info
    <2> HIDE DEF Shape, y, z, t
    <2> QED
      BY <1>2, <1>3, <2>1, <2>2
  <1>9. Shape(get_xmmsctrl_info)
    <2> DEFINE x == Status([m \in Modes |-> IF m \in {PAUSED, PLAYING} THEN PLAYING ELSE STOPPED],
                         {STOPPED}, Leaves(STOPPED))
               y == Status([m \in Modes |-> IF m = PAUSED THEN PAUSED ELSE PLAYING], {},
                           Takes(PLAYING))
               z == Handle(TRUE, KeepsOn, KeepsOn)
               t == Ask(Fields, "handle", KeepsOn)
    <2>1. /\ x.call = "status" /\ y.call = "status" /\ z.call = "handle"
          /\ t.call = "text" /\ t.of = "handle"
      BY <1>3
    <2>2. get_xmmsctrl_info = << x, y, z, t >>
      BY DEF get_xmmsctrl_info
    <2> HIDE DEF Shape, x, y, z, t
    <2> QED
      BY <1>2, <1>3, <2>1, <2>2
  <1>10. Script[a] \in {get_audacious_info, get_itunes_info, get_winamp_info, get_rhythmbox_info,
                       get_xmmsctrl_info, get_xmms2_info}
    BY DEF LooksUp, Script
  <1> QED
    <2>1. Shape(Script[a])
      <3> HIDE DEF Shape
      <3> QED
        BY <1>4, <1>5, <1>6, <1>7, <1>8, <1>9, <1>10
    <2> QED
      BY <2>1

(* The others take all fields from one answer.                             *)
LEMMA AtOnceScripts ==
  ASSUME NEW a \in AtOnce
  PROVE  /\ Len(Script[a]) \in Nat \ {0}
         /\ \A k \in 1 .. Len(Script[a]) :
              Script[a][k].call = "text" => Script[a][k].fields = Fields /\ Script[a][k].of = "now"
  <1> DEFINE Shape(s) == /\ Len(s) \in Nat \ {0}
                         /\ \A k \in 1 .. Len(s) :
                              s[k].call = "text" => s[k].fields = Fields /\ s[k].of = "now"
  <1>1. /\ Running.call = "running" /\ Cached.call = "cached"
        /\ \A r, e, f : Status(r, e, f).call = "status"
        /\ \A r, e, c : Snapshot(r, e, c).call = "snapshot"
        /\ \A f : /\ Ask(Fields, "now", f).fields = Fields /\ Ask(Fields, "now", f).of = "now"
    BY DEF Running, Cached, Status, Snapshot, Ask
  <1> DEFINE Fits(x) == x.call = "text" => x.fields = Fields /\ x.of = "now"
  <1>2. /\ \A x : Fits(x) => Shape(<< x >>)
        /\ \A x, y : Fits(x) /\ Fits(y) => Shape(<< x, y >>)
        /\ \A x, y, z : Fits(x) /\ Fits(y) /\ Fits(z) => Shape(<< x, y, z >>)
    OBVIOUS
  <1>3. /\ Shape(get_banshee_info_new) /\ Shape(get_listen_info) /\ Shape(get_moc_info)
        /\ Shape(get_quodlibet_info) /\ Shape(get_foobar2000_info)
    <2> HIDE DEF Shape
    <2> QED
      BY <1>1, <1>2 DEF get_banshee_info_new, get_listen_info, get_moc_info,
         get_quodlibet_info, get_foobar2000_info
  <1>4. Script[a] \in {get_banshee_info_new, get_listen_info, get_moc_info, get_quodlibet_info,
                       get_foobar2000_info}
    BY DEF AtOnce, Script
  <1> QED
    <2>1. Shape(Script[a])
      <3> HIDE DEF Shape
      <3> QED
        BY <1>3, <1>4
    <2> QED
      BY <2>1

(* A record of the shape of a TrackInfo.                                   *)
Formed(t) ==
  t = [status |-> t.status, player |-> t.player, text |-> [f \in Fields |-> t.text[f]]]

(* Until the song is looked up the fields are empty; then those filled in  *)
(* are of the handle's song.                                               *)
SongInv ==
  /\ Formed(ti)
  /\ adapter \in Whole => at \in 1 .. Len(Script[adapter])
  /\ adapter \in LooksUp /\ pc = "asking" =>
       \A f \in Fields : ti.text[f] \in (IF at > 3 THEN {NoText, handle} ELSE {NoText})
  /\ OneSong

LEMMA SongsBegin ==
  ASSUME PollInit, QueryInit
  PROVE  SongInv
  <1>1. ti = [status |-> CLOSED, player |-> NoName, text |-> [f \in Fields |-> NoText]]
    BY DEF PollInit, Prepared, Text
  <1>2. adapter \in Whole => 1 \in 1 .. Len(Script[adapter])
    BY TwoPaths, LookupScripts, AtOnceScripts
  <1> QED
    BY <1>1, <1>2 DEF PollInit, QueryInit, SongInv, OneSong, Formed

(* What a call does to the fields, and where the poll is after it.         *)
LEMMA CallsFill ==
  ASSUME Formed(ti), pc = "asking",
         \/ dbus_g_running \/ StatusAnswered \/ HandleAnswered \/ TextAnswered
         \/ SnapshotAnswered \/ SnapshotCut \/ CallFails \/ ReadsState
  PROVE  /\ Formed(ti')
         /\ \/ pc' = "idle" /\ at' = 1
            \/ pc' = "asking" /\ at' = at + 1 /\ ~ Last
         /\ pc' = "asking" => handle' = handle \/ Step.call = "handle"
         /\ \/ ti'.text = ti.text
            \/ /\ Step.call = "text"
               /\ ti'.text = WithText(Step.fields, IF Step.of = "handle" THEN handle
                                                   ELSE song[Target])
            \/ \E s : Step.call = "snapshot" /\ ti'.text = Text(s)
  <1> DEFINE Onward == /\ \/ pc' = "idle" /\ at' = 1
                          \/ pc' = "asking" /\ at' = at + 1 /\ ~ Last
                       /\ pc' = "asking" => handle' = handle \/ Step.call = "handle"
             Filled == \/ ti'.text = ti.text
                       \/ /\ Step.call = "text"
                          /\ ti'.text = WithText(Step.fields, IF Step.of = "handle" THEN handle
                                                              ELSE song[Target])
                       \/ \E s : Step.call = "snapshot" /\ ti'.text = Text(s)
  <1>1. \A r : Goes(r) => Onward
    BY DEF Goes, Return
  <1>2. \A s : TakesHandle(s) /\ Step.call = "handle" => Onward
    BY DEF TakesHandle, Return
  <1>3. \A s : WithStatus(s) => Formed(ti') /\ ti'.text = ti.text
    BY DEF WithStatus, Formed
  <1>4. Onward
    <2> HIDE DEF Onward
    <2> QED
      BY <1>1, <1>2 DEF dbus_g_running, StatusAnswered, HandleAnswered, TextAnswered,
         SnapshotAnswered, SnapshotCut, CallFails, ReadsState, Answers, Asking
  <1>5. CASE dbus_g_running
    BY <1>4, <1>5 DEF dbus_g_running, Formed
  <1>6. CASE StatusAnswered \/ HandleAnswered \/ CallFails \/ ReadsState
    <2>1. Formed(ti') /\ ti'.text = ti.text
      <3>1. ti' = ti \/ \E s : WithStatus(s)
        BY <1>6 DEF StatusAnswered, HandleAnswered, CallFails, ReadsState
      <3> QED
        BY <1>3, <3>1
    <2> QED
      BY <1>4, <2>1
  <1>7. CASE TextAnswered
    <2> DEFINE w == WithText(Step.fields, IF Step.of = "handle" THEN handle ELSE song[Target])
    <2>1. ti' = [ti EXCEPT !.text = w] /\ Step.call = "text"
      BY <1>7 DEF TextAnswered, Answers, Asking
    <2>2. w = [f \in Fields |-> w[f]]
      BY DEF WithText, Formed
    <2> HIDE DEF w
    <2>3. Formed(ti') /\ ti'.text = w
      BY <2>1, <2>2 DEF Formed
    <2> QED
      BY <1>4, <2>1, <2>3 DEF w
  <1>8. CASE SnapshotAnswered \/ SnapshotCut
    <2>1. /\ Step.call = "snapshot"
          /\ \E s : ti' = [ti EXCEPT !.status = s, !.text = Text(song[Target])]
                   \/ ti' = [ti EXCEPT !.status = s, !.text = ti.text]
      BY <1>8 DEF SnapshotAnswered, SnapshotCut, Answers, Asking
    <2>2. Formed(ti') /\ ti'.text \in {ti.text, Text(song[Target])}
      <3> DEFINE u == Text(song[Target])
      <3>1. u = [f \in Fields |-> u[f]]
        BY DEF Text
      <3> HIDE DEF u
      <3>2. PICK s : \/ ti' = [ti EXCEPT !.status = s, !.text = u]
                     \/ ti' = [ti EXCEPT !.status = s, !.text = ti.text]
        BY <2>1 DEF u
      <3>3. CASE ti' = [ti EXCEPT !.status = s, !.text = u]
        <4>1. ti' = [status |-> s, player |-> ti.player, text |-> u]
          BY <3>3 DEF Formed
        <4>2. Formed(ti') /\ ti'.text = u
          BY <3>1, <4>1 DEF Formed
        <4> QED
          BY <4>2 DEF u
      <3>4. CASE ti' = [ti EXCEPT !.status = s, !.text = ti.text]
        <4>1. ti' = [status |-> s, player |-> ti.player, text |-> ti.text]
          BY <3>4 DEF Formed
        <4>2. ti.text = [f \in Fields |-> ti.text[f]]
          BY DEF Formed
        <4> QED
          BY <4>1, <4>2 DEF Formed
      <3> QED
        BY <3>2, <3>3, <3>4
    <2> QED
      BY <1>4, <2>1, <2>2
  <1> QED
    BY <1>5, <1>6, <1>7, <1>8

LEMMA SongsFill ==
  ASSUME SongInv, adapter \in Whole, pc = "asking", UNCHANGED adapter,
         \/ dbus_g_running \/ StatusAnswered \/ HandleAnswered \/ TextAnswered
         \/ SnapshotAnswered \/ SnapshotCut \/ CallFails \/ ReadsState
  PROVE  SongInv'
  <1>1. /\ Formed(ti')
        /\ \/ pc' = "idle" /\ at' = 1
           \/ pc' = "asking" /\ at' = at + 1 /\ ~ Last
        /\ pc' = "asking" => handle' = handle \/ Step.call = "handle"
        /\ \/ ti'.text = ti.text
           \/ /\ Step.call = "text"
              /\ ti'.text = WithText(Step.fields, IF Step.of = "handle" THEN handle
                                                  ELSE song[Target])
           \/ \E s : Step.call = "snapshot" /\ ti'.text = Text(s)
    BY CallsFill DEF SongInv
  <1>2. at \in 1 .. Len(Script[adapter]) /\ Len(Script[adapter]) \in Nat \ {0}
    BY TwoPaths, LookupScripts, AtOnceScripts DEF SongInv
  <1>3. at' \in 1 .. Len(Script[adapter]')
    <2>1. UNCHANGED Script[adapter]
      BY DEF Script
    <2> QED
      BY <1>1, <1>2, <2>1 DEF Last
  <1>4. CASE adapter \in LooksUp
    <2>1. /\ at < 3 => Step.call \in {"running", "status"}
          /\ at = 3 => Step.call = "handle"
          /\ at > 3 => Step.call = "text" /\ Step.of = "handle"
      BY <1>2, <1>4, LookupScripts DEF Step
    <2>2. CASE at > 3
      <3>1. ti'.text \in {ti.text, WithText(Step.fields, handle)}
        BY <1>1, <2>1, <2>2
      <3>2. \A f \in Fields : WithText(Step.fields, handle)[f] \in {ti.text[f], handle}
        BY DEF WithText, SongInv, Formed, Fields
      <3>3. \A f \in Fields : ti'.text[f] \in {NoText, handle}
        BY <1>4, <2>2, <3>1, <3>2 DEF SongInv
      <3>4. pc' = "asking" => handle' = handle
        BY <1>1, <2>1, <2>2
      <3> QED
        BY <1>1, <1>2, <1>3, <2>2, <3>3, <3>4 DEF SongInv, OneSong, Formed
    <2>3. CASE ~ (at > 3)
      <3>1. ti'.text = ti.text
        BY <1>1, <1>2, <2>1, <2>3
      <3> QED
        BY <1>1, <1>3, <1>4, <2>3, <3>1 DEF SongInv, OneSong, Formed
    <2> QED
      BY <2>2, <2>3
  <1>5. CASE adapter \in AtOnce
    <2>1. Step.call = "text" => Step.fields = Fields /\ Step.of = "now"
      BY <1>2, <1>5, AtOnceScripts DEF Step
    <2>2. ti'.text = ti.text \/ \E s : \A f \in Fields : ti'.text[f] = s
      <3>1. Step.call = "text" =>
              \A f \in Fields : WithText(Step.fields, IF Step.of = "handle" THEN handle
                                                      ELSE song[Target])[f] = song[Target]
        BY <2>1 DEF WithText, SongInv, Formed, Fields
      <3> QED
        BY <1>1, <3>1 DEF Text
    <2>3. OneSong'
      BY <2>2 DEF SongInv, OneSong, Formed
    <2>4. adapter \notin LooksUp
      BY <1>5 DEF AtOnce, LooksUp
    <2> QED
      BY <1>1, <1>3, <2>3, <2>4 DEF SongInv
  <1> QED
    BY <1>4, <1>5, TwoPaths

LEMMA SongStep ==
  ASSUME SongInv, QueryInv, adapter \in Whole, QueryNext
  PROVE  SongInv'
  <1>1. CASE get_player_info
    <2>1. ti' = [status |-> CLOSED, player |-> NoName, text |-> [f \in Fields |-> NoText]]
      BY <1>1 DEF get_player_info, BeginPoll, Prepared, Text
    <2>2. UNCHANGED adapter /\ at' = 1
      BY <1>1 DEF get_player_info, BeginPoll
    <2>3. 1 \in 1 .. Len(Script[adapter])'
      <3>1. UNCHANGED Script[adapter]
        BY <2>2 DEF Script
      <3> QED
        BY <2>2, <3>1, TwoPaths, LookupScripts, AtOnceScripts
    <2> QED
      BY <2>1, <2>2, <2>3 DEF SongInv, OneSong, Formed
  <1>2. CASE cb_quodlibet_paused \/ QueriedMoves
    <2>1. UNCHANGED << adapter, ti, pc, at, handle >>
      BY <1>2 DEF cb_quodlibet_paused, QueriedMoves, Moves, polling, poll
    <2>2. UNCHANGED Script[adapter]
      BY <2>1 DEF Script
    <2> QED
      BY <2>1, <2>2 DEF SongInv, OneSong, Formed
  <1>3. CASE \/ dbus_g_running \/ StatusAnswered \/ HandleAnswered \/ TextAnswered
             \/ SnapshotAnswered \/ SnapshotCut \/ CallFails \/ ReadsState
    <2>1. pc = "asking" /\ UNCHANGED adapter
      BY <1>3 DEF dbus_g_running, StatusAnswered, HandleAnswered, TextAnswered,
         SnapshotAnswered, SnapshotCut, CallFails, ReadsState, Answers, Asking
    <2> QED
      BY <1>3, <2>1, SongsFill
  <1> QED
    BY <1>1, <1>2, <1>3 DEF QueryNext, Queries

-----------------------------------------------------------------------------
(***************************************************************************)
(* What an adapter that asks one player may report.                        *)
(***************************************************************************)
Plays == {PAUSED, PLAYING}

(* The state taken from an answer; what a failed call, or one that finds   *)
(* nothing, makes of the status.                                           *)
Truly(a, reads) ==
  \A m \in Modes : /\ reads[m] \in Modes
                   /\ a \notin Guessing /\ reads[m] = PLAYING => m = PLAYING
Modest(a, outs) ==
  \A s \in Modes : \A o \in outs[s] : /\ o.status \in Modes
                                      /\ a \notin Guessing /\ o.status = PLAYING => s = PLAYING
Quiet(outs) ==
  \A s \in Modes : \A o \in outs[s] : o.returns /\ o.status \notin Plays
Keeping(outs) ==
  \A s \in Modes : \A o \in outs[s] : o.status \in Modes /\ (o.status \in Plays => o.status = s)

(* These look a song up by its position.                                   *)
Positioned == {"Audacious", "Winamp"}

(* What call x may be as the k-th of the script of a.                      *)
Fair(a, k, x) ==
  /\ x.call \in {"running", "status", "handle", "text", "snapshot", "cached"}
  /\ k = 1 => x.call \in {"running", "status", "snapshot"}
  /\ k > 3 => x.call = "text"
  /\ x.call \in {"status", "snapshot"} => k < 3 /\ Truly(a, x.reads) /\ (k = 1 => Quiet(x.failed))
  /\ x.call \in {"status", "snapshot", "text", "handle"} => Modest(a, x.failed)
  /\ x.call = "handle" => /\ k = 3 /\ Keeping(x.nothing)
                          /\ x.position => a \in Positioned \cup {"XMMS"}
  /\ x.call = "text" => x.of = "now" \/ k > 3
  /\ x.call = "snapshot" => \A s \in x.cut : s \in Modes /\ s # PLAYING
  /\ x.call = "cached" => a = "QuodLibet"
  /\ a \in Positioned /\ x.call = "status" => x.reads = AsIs
  /\ a = "XMMS" /\ k = 1 => /\ x.call = "status" /\ STOPPED \in x.ends
                            /\ \A m \in Modes \ Plays : x.reads[m] = STOPPED

(* The outcomes the scripts use.                                           *)
LEMMA OutcomesAre ==
  ASSUME NEW a
  PROVE  /\ Modest(a, KeepsOn) /\ Modest(a, GivesUp)
         /\ Keeping(KeepsOn) /\ Keeping(GivesUp) /\ Keeping(Leaves(STOPPED))
         /\ \A r \in {CLOSED, STOPPED} : /\ Modest(a, Leaves(r)) /\ Modest(a, Takes(r))
                                         /\ Quiet(Leaves(r))
         /\ Truly(a, AsIs) /\ Truly(a, Playing)
  BY DEF Modest, Keeping, Quiet, Truly, KeepsOn, GivesUp, Leaves, Takes, Outcome, AsIs, Playing,
         Modes, Plays, CLOSED, STOPPED, PAUSED, PLAYING

(* Each kind of call, where the scripts have it.                           *)
LEMMA RunningFair ==
  ASSUME NEW a, a # "XMMS"
  PROVE  Fair(a, 1, Running)
  BY DEF Fair, Running

LEMMA StatusFair ==
  ASSUME NEW a, NEW k \in {1, 2}, NEW reads, NEW ends, NEW failed,
         Truly(a, reads), Modest(a, failed), k = 1 => Quiet(failed),
         a \in Positioned => reads = AsIs,
         a = "XMMS" /\ k = 1 => STOPPED \in ends /\ \A m \in Modes \ Plays : reads[m] = STOPPED
  PROVE  Fair(a, k, Status(reads, ends, failed))
  BY DEF Fair, Status

LEMMA AskFair ==
  ASSUME NEW a, NEW k \in Nat, k > 1, NEW fields, NEW of, NEW failed,
         Modest(a, failed), of = "now" \/ k > 3
  PROVE  Fair(a, k, Ask(fields, of, failed))
  BY DEF Fair, Ask

LEMMA HandleFair ==
  ASSUME NEW a, NEW position, NEW nothing, NEW failed, Modest(a, failed), Keeping(nothing),
         position => a \in Positioned \cup {"XMMS"}
  PROVE  Fair(a, 3, Handle(position, nothing, failed))
  BY DEF Fair, Handle

LEMMA SnapshotFair ==
  ASSUME NEW a, a # "XMMS", NEW k \in {1, 2}, NEW reads, NEW ends, NEW cut, Truly(a, reads),
         \A s \in cut : s \in Modes /\ s # PLAYING
  PROVE  Fair(a, k, Snapshot(reads, ends, cut))
  BY OutcomesAre DEF Fair, Snapshot

(* A script of such calls.                                                 *)
FairScript(a, s) == Len(s) \in Nat \ {0} /\ \A k \in 1 .. Len(s) : Fair(a, k, s[k])

(* The scripts that are written in one piece.                              *)
LEMMA ShortScripts ==
  ASSUME NEW a
  PROVE  /\ \A x : Fair(a, 1, x) => FairScript(a, << x >>)
         /\ \A x, y : Fair(a, 1, x) /\ Fair(a, 2, y) => FairScript(a, << x, y >>)
         /\ \A x, y, z : Fair(a, 1, x) /\ Fair(a, 2, y) /\ Fair(a, 3, z)
                           => FairScript(a, << x, y, z >>)
         /\ \A x, y, z, t : Fair(a, 1, x) /\ Fair(a, 2, y) /\ Fair(a, 3, z) /\ Fair(a, 4, t)
                              => FairScript(a, << x, y, z, t >>)
  BY DEF FairScript

(* Those that go on with the fields one by one.                            *)
LEMMA LongScripts ==
  ASSUME NEW a, NEW x, NEW y, NEW z, NEW failed, Fair(a, 1, x), Modest(a, failed)
  PROVE  /\ FairScript(a, << x >> \o InTurn(failed))
         /\ Fair(a, 2, y) => FairScript(a, << x, y >> \o InTurn(failed))
         /\ Fair(a, 2, y) /\ Fair(a, 3, z) => FairScript(a, << x, y, z >> \o OfHandle(failed))
  <1>1. ASSUME NEW t, NEW u, NEW v
        PROVE  /\ LET s == << x >> \o << t, u, v >>
                  IN  Len(s) = 4 /\ s[1] = x /\ s[2] = t /\ s[3] = u /\ s[4] = v
               /\ LET s == << x, y >> \o << t, u, v >>
                  IN  Len(s) = 5 /\ s[1] = x /\ s[2] = y /\ s[3] = t /\ s[4] = u /\ s[5] = v
               /\ LET s == << x, y, z >> \o << t, u, v >>
                  IN  Len(s) = 6 /\ s[1] = x /\ s[2] = y /\ s[3] = z /\ s[4] = t /\ s[5] = u
                      /\ s[6] = v
    OBVIOUS
  <1>2. \A f : \A k \in 2 .. 6 : /\ Fair(a, k, Ask(f, "now", failed))
                                 /\ k > 3 => Fair(a, k, Ask(f, "handle", failed))
    BY AskFair
  <1>3. FairScript(a, << x >> \o InTurn(failed))
    <2> DEFINE t == Ask({"artist"}, "now", failed)
               u == Ask({"album"}, "now", failed)
               v == Ask({"track"}, "now", failed)
               s == << x >> \o << t, u, v >>
    <2>1. Fair(a, 2, t) /\ Fair(a, 3, u) /\ Fair(a, 4, v) /\ InTurn(failed) = << t, u, v >>
      BY <1>2 DEF InTurn
    <2> HIDE DEF t, u, v
    <2>2. Len(s) = 4 /\ s[1] = x /\ s[2] = t /\ s[3] = u /\ s[4] = v
      BY <1>1
    <2> HIDE DEF s
    <2>3. FairScript(a, s)
      BY <2>1, <2>2 DEF FairScript
    <2> QED
      BY <2>1, <2>3 DEF s
  <1>4. ASSUME Fair(a, 2, y)
        PROVE  FairScript(a, << x, y >> \o InTurn(failed))
    <2> DEFINE t == Ask({"artist"}, "now", failed)
               u == Ask({"album"}, "now", failed)
               v == Ask({"track"}, "now", failed)
               s == << x, y >> \o << t, u, v >>
    <2>1. Fair(a, 3, t) /\ Fair(a, 4, u) /\ Fair(a, 5, v) /\ InTurn(failed) = << t, u, v >>
      BY <1>2 DEF InTurn
    <2> HIDE DEF t, u, v
    <2>2. Len(s) = 5 /\ s[1] = x /\ s[2] = y /\ s[3] = t /\ s[4] = u /\ s[5] = v
      BY <1>1
    <2> HIDE DEF s
    <2>3. FairScript(a, s)
      BY <1>4, <2>1, <2>2 DEF FairScript
    <2> QED
      BY <2>1, <2>3 DEF s
  <1>5. ASSUME Fair(a, 2, y), Fair(a, 3, z)
        PROVE  FairScript(a, << x, y, z >> \o OfHandle(failed))
    <2> DEFINE t == Ask({"artist"}, "handle", failed)
               u == Ask({"album"}, "handle", failed)
               v == Ask({"track"}, "handle", failed)
               s == << x, y, z >> \o << t, u, v >>
    <2>1. Fair(a, 4, t) /\ Fair(a, 5, u) /\ Fair(a, 6, v) /\ OfHandle(failed) = << t, u, v >>
      BY <1>2 DEF OfHandle
    <2> HIDE DEF t, u, v
    <2>2. /\ Len(s) = 6 /\ s[1] = x /\ s[2] = y /\ s[3] = z /\ s[4] = t /\ s[5] = u
          /\ s[6] = v
      BY <1>1
    <2> HIDE DEF s
    <2>3. FairScript(a, s)
      BY <1>5, <2>1, <2>2 DEF FairScript
    <2> QED
      BY <2>1, <2>3 DEF s
  <1> QED
    BY <1>3, <1>4, <1>5

(* All of them.                                                            *)
LEMMA ScriptsFair ==
  ASSUME NEW a \in QueryPlayers
  PROVE  FairScript(a, Script[a])
  <1>1. a = "Amarok" => FairScript(a, get_amarok_info)
    <2>1. a = "Amarok" => Fair(a, 1, Status(AsIs, {STOPPED}, Leaves(CLOSED)))
      BY StatusFair, OutcomesAre DEF Positioned
    <2> QED
      BY <2>1, LongScripts, OutcomesAre DEF get_amarok_info
  <1>2. a = "Audacious" => FairScript(a, get_audacious_info)
    <2>1. a = "Audacious" => /\ Fair(a, 1, Running)
                             /\ Fair(a, 2, Status(AsIs, {STOPPED}, Leaves(CLOSED)))
      BY RunningFair, StatusFair, OutcomesAre DEF Positioned
    <2>2. a = "Audacious" => Fair(a, 3, Handle(TRUE, KeepsOn, KeepsOn))
      BY HandleFair, OutcomesAre DEF Positioned
    <2> QED
      BY <2>1, <2>2, LongScripts, OutcomesAre DEF get_audacious_info
  <1>3. a \in {"BansheeOld", "Songbird", "Exaile"} =>
          /\ FairScript(a, get_banshee_info_old)
          /\ FairScript(a, get_dbusbird_info)
          /\ FairScript(a, get_exaile_info)
    <2>1. a \in {"BansheeOld", "Songbird", "Exaile"} =>
            Fair(a, 1, Running) /\ Fair(a, 2, Status(AsIs, {STOPPED}, GivesUp))
      BY RunningFair, StatusFair, OutcomesAre DEF Positioned
    <2> QED
      BY <2>1, LongScripts, OutcomesAre DEF get_banshee_info_old, get_dbusbird_info, get_exaile_info
  <1>4. a = "BansheeNew" => FairScript(a, get_banshee_info_new)
    <2> DEFINE f == [s \in Modes |-> {Outcome(STOPPED, TRUE), Outcome(PAUSED, FALSE),
                                      Outcome(PLAYING, FALSE)}]
    <2>1. a = "BansheeNew" => Modest(a, f)
      BY DEF Modest, Outcome, Guessing, Modes, CLOSED, STOPPED, PAUSED, PLAYING
    <2> HIDE DEF f
    <2>2. a = "BansheeNew" => Fair(a, 1, Running) /\ Fair(a, 2, Status(AsIs, {STOPPED}, f))
      BY <2>1, RunningFair, StatusFair, OutcomesAre DEF Positioned
    <2>3. Fair(a, 3, Ask(Fields, "now", GivesUp))
      BY AskFair, OutcomesAre
    <2> QED
      BY <2>2, <2>3, ShortScripts DEF get_banshee_info_new, f
  <1>5. a = "Listen" => FairScript(a, get_listen_info)
    <2>1. a = "Listen" => Fair(a, 1, Running) /\ Fair(a, 2, Snapshot(Playing, {PAUSED}, {}))
      BY RunningFair, SnapshotFair, OutcomesAre
    <2> QED
      BY <2>1, ShortScripts DEF get_listen_info
  <1>6. a = "MOC" => FairScript(a, get_moc_info)
    <2>1. \A s \in {STOPPED} : s \in Modes /\ s # PLAYING
      BY DEF Modes, CLOSED, STOPPED, PLAYING
    <2>2. a = "MOC" => Fair(a, 1, Snapshot(AsIs, {}, {STOPPED}))
      BY <2>1, SnapshotFair, OutcomesAre
    <2> QED
      BY <2>2, ShortScripts DEF get_moc_info
  <1>7. a = "QuodLibet" => FairScript(a, get_quodlibet_info)
    <2>1. a = "QuodLibet" => /\ Fair(a, 1, Running)
                             /\ Fair(a, 2, Ask(Fields, "now", Leaves(STOPPED)))
      BY RunningFair, AskFair, OutcomesAre
    <2>2. a = "QuodLibet" => Fair(a, 3, Cached)
      BY DEF Fair, Cached, Positioned
    <2> QED
      BY <2>1, <2>2, ShortScripts DEF get_quodlibet_info
  <1>8. a = "Rhythmbox" => FairScript(a, get_rhythmbox_info)
    <2> DEFINE f == [s \in Modes |-> {Outcome(IF s = PLAYING THEN CLOSED ELSE STOPPED, TRUE)}]
    <2>1. Modest(a, f)
      BY DEF Modest, Outcome, Modes, CLOSED, STOPPED, PLAYING
    <2> HIDE DEF f
    <2>2. a = "Rhythmbox" => /\ Fair(a, 1, Running)
                             /\ Fair(a, 2, Status(Playing, {}, Leaves(STOPPED)))
      BY RunningFair, StatusFair, OutcomesAre DEF Positioned
    <2>3. Fair(a, 3, Handle(FALSE, KeepsOn, Leaves(CLOSED)))
      BY HandleFair, OutcomesAre
    <2>4. Fair(a, 4, Ask(Fields, "handle", f))
      BY <2>1, AskFair
    <2> QED
      BY <2>2, <2>3, <2>4, ShortScripts DEF get_rhythmbox_info, f
  <1>9. a = "XMMS" => FairScript(a, get_xmmsctrl_info)
    <2> DEFINE r == [m \in Modes |-> IF m \in {PAUSED, PLAYING} THEN PLAYING ELSE STOPPED]
               q == [m \in Modes |-> IF m = PAUSED THEN PAUSED ELSE PLAYING]
    <2>1. a = "XMMS" => /\ Truly(a, r) /\ Truly(a, q) /\ Modest(a, Takes(PLAYING))
                        /\ \A m \in Modes \ Plays : r[m] = STOPPED
      BY DEF Truly, Modest, Takes, Outcome, Guessing, Plays, Modes, CLOSED, STOPPED, PAUSED, PLAYING
    <2> HIDE DEF r, q
    <2>2. a = "XMMS" => Fair(a, 1, Status(r, {STOPPED}, Leaves(STOPPED)))
      BY <2>1, StatusFair, OutcomesAre DEF Positioned
    <2>5. a = "XMMS" => Fair(a, 2, Status(q, {}, Takes(PLAYING)))
      BY <2>1, StatusFair DEF Positioned
    <2>3. a = "XMMS" => Fair(a, 3, Handle(TRUE, KeepsOn, KeepsOn))
      BY HandleFair, OutcomesAre
    <2>4. Fair(a, 4, Ask(Fields, "handle", KeepsOn))
      BY AskFair, OutcomesAre
    <2> QED
      BY <2>2, <2>3, <2>4, <2>5, ShortScripts DEF get_xmmsctrl_info, r, q
  <1>10. a = "XMMS2" => FairScript(a, get_xmms2_info)
    <2>1. a = "XMMS2" => Fair(a, 1, Running) /\ Fair(a, 2, Status(AsIs, {}, GivesUp))
      BY RunningFair, StatusFair, OutcomesAre DEF Positioned
    <2>2. Fair(a, 3, Handle(FALSE, GivesUp, GivesUp))
      BY HandleFair, OutcomesAre
    <2>3. Fair(a, 4, Ask(Fields, "handle", GivesUp))
      BY AskFair, OutcomesAre
    <2> QED
      BY <2>1, <2>2, <2>3, ShortScripts DEF get_xmms2_info
  <1>11. a = "Foobar2000" => FairScript(a, get_foobar2000_info)
    <2> DEFINE r == [m \in Modes |-> IF m = STOPPED THEN STOPPED ELSE PLAYING]
    <2>1. a = "Foobar2000" => Truly(a, r)
      BY DEF Truly, Guessing, Modes, CLOSED, STOPPED, PLAYING
    <2> HIDE DEF r
    <2>2. a = "Foobar2000" => Fair(a, 1, Running) /\ Fair(a, 2, Snapshot(r, {STOPPED}, {}))
      BY <2>1, RunningFair, SnapshotFair
    <2> QED
      BY <2>2, ShortScripts DEF get_foobar2000_info, r
  <1>12. a = "iTunes" => FairScript(a, get_itunes_info)
    <2> DEFINE r == [m \in Modes |-> IF m = PLAYING THEN PLAYING ELSE PAUSED]
    <2>1. Truly(a, r)
      BY DEF Truly, Modes, CLOSED, PAUSED, PLAYING
    <2> HIDE DEF r
    <2>2. a = "iTunes" => Fair(a, 1, Running) /\ Fair(a, 2, Status(r, {}, GivesUp))
      BY <2>1, RunningFair, StatusFair, OutcomesAre DEF Positioned
    <2>3. Fair(a, 3, Handle(FALSE, Leaves(STOPPED), GivesUp))
      BY HandleFair, OutcomesAre
    <2> QED
      BY <2>2, <2>3, LongScripts, OutcomesAre DEF get_itunes_info, r
  <1>13. a = "Winamp" => FairScript(a, get_winamp_info)
    <2>1. a = "Winamp" => Fair(a, 1, Running) /\ Fair(a, 2, Status(AsIs, {}, Takes(STOPPED)))
      BY RunningFair, StatusFair, OutcomesAre DEF Positioned
    <2>2. a = "Winamp" => Fair(a, 3, Handle(TRUE, KeepsOn, KeepsOn))
      BY HandleFair, OutcomesAre DEF Positioned
    <2> QED
      BY <2>1, <2>2, LongScripts, OutcomesAre DEF get_winamp_info
  <1>14. a = "WMP" => FairScript(a, get_wmp_info)
    <2>1. a = "WMP" => Fair(a, 1, Running) /\ Fair(a, 2, Status(AsIs, {}, KeepsOn))
      BY RunningFair, StatusFair, OutcomesAre DEF Positioned
    <2> QED
      BY <2>1, LongScripts, OutcomesAre DEF get_wmp_info
  <1>15. /\ a = "Amarok" => Script[a] = get_amarok_info
         /\ a = "Audacious" => Script[a] = get_audacious_info
         /\ a = "BansheeOld" => Script[a] = get_banshee_info_old
         /\ a = "BansheeNew" => Script[a] = get_banshee_info_new
         /\ a = "Songbird" => Script[a] = get_dbusbird_info
         /\ a = "Exaile" => Script[a] = get_exaile_info
         /\ a = "Listen" => Script[a] = get_listen_info
         /\ a = "MOC" => Script[a] = get_moc_info
         /\ a = "QuodLibet" => Script[a] = get_quodlibet_info
         /\ a = "Rhythmbox" => Script[a] = get_rhythmbox_info
         /\ a = "XMMS" => Script[a] = get_xmmsctrl_info
         /\ a = "XMMS2" => Script[a] = get_xmms2_info
         /\ a = "Foobar2000" => Script[a] = get_foobar2000_info
         /\ a = "iTunes" => Script[a] = get_itunes_info
         /\ a = "Winamp" => Script[a] = get_winamp_info
         /\ a = "WMP" => Script[a] = get_wmp_info
    BY DEF Script
  <1> QED
    BY <1>1, <1>2, <1>3, <1>4, <1>5, <1>6, <1>7, <1>8, <1>9, <1>10, <1>11, <1>12, <1>13, <1>14,
       <1>15, QueryPlayersAre

(* The songs it had during the poll.                                       *)
Had == SeenSongs(Target) \cup {NoText}

(* While every call is answered: either all fields, and the song looked    *)
(* up, were the player's, or the player was stopped when its position was  *)
(* taken, and so the status says.                                          *)
SongsTrue ==
  /\ adapter = "XMMS" /\ at > 1 => SeenSongs(Target) # {}
  /\ adapter \in Positioned /\ ti.status \in Plays => SeenSongs(Target) # {}
  /\ \/ at > 3 /\ ti.status \notin Plays
     \/ handle \in Had /\ \A f \in Fields : ti.text[f] \in Had

TruthInv ==
  /\ Formed(ti)
  /\ pc = "asking" =>
       /\ at \in 1 .. Len(Script[adapter])
       /\ ti.status \in Modes
       /\ at # 1 => SeenModes(Target) # {CLOSED}
       /\ adapter \notin Guessing /\ ti.status = PLAYING => PLAYING \in SeenModes(Target)
       /\ ~ lost => SongsTrue

(* What a question makes of ti may be reported, and the poll goes on so.   *)
LEMMA AsksRight ==
  ASSUME PlayersInv, TruthInv, adapter \in QueryPlayers, pc = "asking", UNCHANGED adapter,
         \/ dbus_g_running \/ StatusAnswered \/ HandleAnswered \/ TextAnswered
         \/ SnapshotAnswered \/ SnapshotCut \/ CallFails \/ ReadsState
  PROVE  /\ Formed(ti')
         /\ adapter \notin Guessing /\ ti'.status = PLAYING => PLAYING \in SeenModes(Target)
         /\ ~ lost' /\ ti'.status \in Plays => \A f \in Fields : ti'.text[f] \in Had
         /\ pc' = "asking" => TruthInv'
  <1> DEFINE RightMode == adapter \notin Guessing /\ ti'.status = PLAYING =>
                            PLAYING \in SeenModes(Target)
             RightSongs == ~ lost' /\ ti'.status \in Plays => \A f \in Fields : ti'.text[f] \in Had
             On == pc' = "asking" =>
                     /\ ti'.status \in Modes /\ SeenModes(Target) # {CLOSED}
                     /\ ~ lost' =>
                          /\ adapter = "XMMS" => SeenSongs(Target) # {}
                          /\ adapter \in Positioned /\ ti'.status \in Plays =>
                               SeenSongs(Target) # {}
                          /\ \/ at > 2 /\ ti'.status \notin Plays
                             \/ handle' \in Had /\ \A f \in Fields : ti'.text[f] \in Had
  <1>1. /\ Fair(adapter, at, Step) /\ at \in 1 .. Len(Script[adapter])
        /\ Len(Script[adapter]) \in Nat \ {0}
    BY ScriptsFair DEF TruthInv, FairScript, Step
  <1>2. /\ Formed(ti')
        /\ pc' = "idle" \/ (pc' = "asking" /\ at' = at + 1 /\ ~ Last)
    BY CallsFill DEF TruthInv
  <1>3. /\ mode[Target] \in Modes /\ mode[Target] \in SeenModes(Target)
        /\ song[Target] \in Had
        /\ mode[Target] \in Plays => song[Target] \in SeenSongs(Target)
        /\ song[Target] # NoText => song[Target] \in SeenSongs(Target)
    <2>1. mode[Target] \in Modes
      BY PollingAssumption DEF PlayersInv, PlayersTyped
    <2>2. song[Target] = NoText => mode[Target] \notin Plays
      BY PollingAssumption DEF PlayersInv, SongsMatch, Plays, CLOSED, STOPPED, PAUSED, PLAYING
    <2> QED
      BY <2>1, <2>2, SeesMode, PollingAssumption DEF Had
  <1>4. pc' = "asking" => UNCHANGED seen
    BY DEF dbus_g_running, StatusAnswered, HandleAnswered, TextAnswered, SnapshotAnswered,
       SnapshotCut, CallFails, ReadsState, Goes, TakesHandle, Return, window
  <1>5. /\ ti.status \in Modes
        /\ at # 1 => SeenModes(Target) # {CLOSED}
        /\ adapter \notin Guessing /\ ti.status = PLAYING => PLAYING \in SeenModes(Target)
        /\ ~ lost => SongsTrue
        /\ Formed(ti)
    BY DEF TruthInv
  <1>6. \A s : WithStatus(s) => ti'.status = s /\ ti'.text = ti.text
    BY <1>5 DEF WithStatus, Formed
  <1>7. \A r : Goes(r) /\ pc' = "asking" => handle' = handle /\ ~ r
    BY DEF Goes, Return
  <1>8. ASSUME dbus_g_running
        PROVE  RightMode /\ RightSongs /\ On
    <2>1. /\ ti' = ti /\ (~ lost' => ~ lost)
          /\ pc' = "asking" => handle' = handle /\ mode[Target] # CLOSED
      BY <1>8 DEF dbus_g_running, Answered, Unanswered, Goes, Return
    <2>2. Step.call = "running"
      BY <1>8 DEF dbus_g_running, Asking
    <2>3. RightMode /\ RightSongs
      BY <1>5, <2>1 DEF SongsTrue
    <2>4. adapter = "XMMS" => at > 1
      BY <1>1, <2>2 DEF Fair
    <2>5. On
      BY <1>1, <1>3, <1>5, <2>1, <2>4 DEF SongsTrue
    <2> QED
      BY <2>3, <2>5
  <1>9. ASSUME StatusAnswered
        PROVE  RightMode /\ RightSongs /\ On
    <2> DEFINE s == Step.reads[mode[Target]]
    <2>1. /\ ti'.status = s /\ ti'.text = ti.text /\ lost' = lost
          /\ pc' = "asking" => handle' = handle /\ s \notin Step.ends
          /\ Step.call = "status" /\ mode[Target] # CLOSED
      BY <1>6, <1>7, <1>9 DEF StatusAnswered, Answers, Answered, Asking
    <2>2. /\ s \in Modes /\ at < 3
          /\ adapter \notin Guessing /\ s = PLAYING => mode[Target] = PLAYING
      BY <1>1, <1>3, <2>1 DEF Fair, Truly
    <2>3. adapter \in Positioned /\ s \in Plays => mode[Target] \in Plays
      BY <1>1, <1>3, <2>1 DEF Fair, AsIs, Plays, CLOSED, STOPPED, PAUSED, PLAYING
    <2>4. adapter = "XMMS" /\ at = 1 /\ s \notin Step.ends => mode[Target] \in Plays
      BY <1>1, <1>3, <2>1 DEF Fair
    <2> HIDE DEF s
    <2>5. RightMode
      BY <1>3, <2>1, <2>2
    <2>6. ~ lost => handle \in Had /\ \A f \in Fields : ti.text[f] \in Had
      BY <1>1, <1>5, <2>2 DEF SongsTrue
    <2>7. RightSongs
      BY <2>1, <2>6
    <2>8. On
      <3>1. pc' = "asking" /\ ~ lost' /\ adapter = "XMMS" => SeenSongs(Target) # {}
        BY <1>1, <1>3, <1>5, <2>1, <2>4 DEF SongsTrue
      <3>2. adapter \in Positioned /\ s \in Plays => SeenSongs(Target) # {}
        BY <1>3, <2>3
      <3> QED
        BY <1>3, <2>1, <2>2, <2>6, <3>1, <3>2
    <2> QED
      BY <2>5, <2>7, <2>8
  <1>10. ASSUME HandleAnswered
         PROVE  RightMode /\ RightSongs /\ On
    <2>1. lost' = lost /\ Step.call = "handle" /\ mode[Target] # CLOSED
      BY <1>10 DEF HandleAnswered, Answers, Answered, Asking
    <2>2. /\ at = 3 /\ Keeping(Step.nothing)
          /\ Step.position => adapter \in Positioned \cup {"XMMS"}
      BY <1>1, <2>1 DEF Fair
    <2>3. SeenModes(Target) # {CLOSED}
      BY <1>3, <2>1
    <2>4. ~ lost => handle \in Had /\ \A f \in Fields : ti.text[f] \in Had
      BY <1>5, <2>2 DEF SongsTrue
    <2>5. CASE /\ Step.position \/ song[Target] # NoText
               /\ UNCHANGED ti /\ \E s \in AtPosition : TakesHandle(s)
      <3>1. PICK s \in AtPosition : TakesHandle(s)
        BY <2>5
      <3>2. pc' = "asking" => handle' = s
        BY <3>1 DEF TakesHandle, Return
      <3>3. s \in Had \/ (SeenSongs(Target) = {} /\ song[Target] = NoText)
        BY <1>3, <3>1 DEF AtPosition, Had
      <3>4. ASSUME ~ lost, SeenSongs(Target) = {}, Step.position
            PROVE  ti.status \notin Plays
        BY <1>5, <2>2, <3>4 DEF SongsTrue, Positioned
      <3> QED
        BY <1>5, <2>1, <2>2, <2>3, <2>4, <2>5, <3>2, <3>3, <3>4 DEF SongsTrue
    <2>6. CASE \E o \in Step.nothing[ti.status] : WithStatus(o.status) /\ Goes(o.returns)
      <3>1. PICK o \in Step.nothing[ti.status] : WithStatus(o.status) /\ Goes(o.returns)
        BY <2>6
      <3>2. /\ ti'.status \in Modes /\ (ti'.status \in Plays => ti'.status = ti.status)
            /\ ti'.text = ti.text
        BY <1>5, <1>6, <2>2, <3>1 DEF Keeping
      <3>3. pc' = "asking" => handle' = handle
        BY <1>7, <3>1
      <3> QED
        BY <1>5, <2>1, <2>2, <2>3, <2>4, <3>2, <3>3 DEF SongsTrue, Plays
    <2> QED
      BY <1>10, <2>5, <2>6 DEF HandleAnswered
  <1>11. ASSUME TextAnswered
         PROVE  RightMode /\ RightSongs /\ On
    <2> DEFINE v == IF Step.of = "handle" THEN handle ELSE song[Target]
    <2>1. /\ ti' = [ti EXCEPT !.text = WithText(Step.fields, v)] /\ lost' = lost
          /\ Step.call = "text" /\ mode[Target] # CLOSED /\ Goes(FALSE)
      BY <1>11 DEF TextAnswered, Answers, Answered, Asking
    <2>2. v \in {handle, song[Target]}
      OBVIOUS
    <2> HIDE DEF v
    <2>3. /\ ti'.status = ti.status
          /\ \A f \in Fields : ti'.text[f] \in {ti.text[f], v}
      <3>1. \A f \in Fields : WithText(Step.fields, v)[f] \in {ti.text[f], v}
        BY <1>5 DEF WithText, Formed, Fields
      <3>2. ti'.status = ti.status /\ ti'.text = WithText(Step.fields, v)
        BY <1>5, <2>1 DEF Formed
      <3> QED
        BY <3>1, <3>2
    <2>4. at > 1 /\ (pc' = "asking" => handle' = handle)
      BY <1>1, <2>1 DEF Fair, Goes, Return
    <2>5. handle \in Had /\ (\A f \in Fields : ti.text[f] \in Had) =>
            \A f \in Fields : ti'.text[f] \in Had
      BY <1>3, <2>2, <2>3
    <2> QED
      BY <1>1, <1>3, <1>5, <2>1, <2>3, <2>4, <2>5 DEF SongsTrue
  <1>12. ASSUME SnapshotAnswered
         PROVE  RightMode /\ RightSongs /\ On
    <2> DEFINE s == Step.reads[mode[Target]]
    <2>1. /\ ti' = [ti EXCEPT !.status = s,
                              !.text = IF s \in Step.ends THEN @ ELSE Text(song[Target])]
          /\ lost' = lost /\ Step.call = "snapshot" /\ Goes(TRUE)
      BY <1>12 DEF SnapshotAnswered, Answers, Answered, Asking
    <2>2. at < 3 /\ (adapter \notin Guessing /\ s = PLAYING => mode[Target] = PLAYING)
      BY <1>1, <1>3, <2>1 DEF Fair, Truly
    <2> HIDE DEF s
    <2>3. ti'.status = s /\ (ti'.text = ti.text \/ ti'.text = Text(song[Target]))
      BY <1>5, <2>1 DEF Formed
    <2>4. \A f \in Fields : Text(song[Target])[f] = song[Target]
      BY DEF Text
    <2>5. ~ lost => \A f \in Fields : ti.text[f] \in Had
      BY <1>1, <1>5, <2>2 DEF SongsTrue
    <2>6. RightMode /\ RightSongs
      BY <1>3, <2>1, <2>2, <2>3, <2>4, <2>5
    <2>7. pc' # "asking"
      BY <2>1 DEF Goes, Return
    <2> QED
      BY <2>6, <2>7
  <1>13. ASSUME SnapshotCut
         PROVE  RightMode /\ RightSongs /\ On
    <2>1. PICK s \in Step.cut : ti' = [ti EXCEPT !.status = s, !.text = Text(song[Target])]
      BY <1>13 DEF SnapshotCut
    <2>2. Step.call = "snapshot" /\ lost' /\ Goes(TRUE)
      BY <1>13 DEF SnapshotCut, Unanswered, Asking
    <2>3. ti'.status = s /\ s # PLAYING
      BY <1>1, <1>5, <2>1, <2>2 DEF Formed, Fair
    <2> QED
      BY <2>2, <2>3 DEF Goes, Return
  <1>14. ASSUME CallFails
         PROVE  RightMode /\ RightSongs /\ On
    <2>1. PICK o \in Step.failed[ti.status] :
             /\ WithStatus(o.status)
             /\ \/ Step.call # "handle" /\ Goes(o.returns)
                \/ Step.call = "handle"
      BY <1>14 DEF CallFails
    <2>2. /\ Step.call \in {"status", "handle", "text", "snapshot"}
          /\ SeenModes(Target) # {CLOSED} => lost'
      BY <1>14 DEF CallFails, Asking, Unanswered
    <2>3. /\ o.status \in Modes
          /\ adapter \notin Guessing /\ o.status = PLAYING => ti.status = PLAYING
      BY <1>1, <1>5, <2>1, <2>2 DEF Fair, Modest
    <2>4. at = 1 => o.returns /\ o.status \notin Plays /\ Step.call # "handle"
      BY <1>1, <1>5, <2>1, <2>2 DEF Fair, Quiet
    <2>5. at = 1 => pc' # "asking"
      BY <1>7, <2>1, <2>4
    <2>6. ti'.status = o.status
      BY <1>6, <2>1
    <2> QED
      BY <1>5, <2>2, <2>3, <2>4, <2>5, <2>6
  <1>15. ASSUME ReadsState
         PROVE  RightMode /\ RightSongs /\ On
    <2>1. /\ Step.call = "cached" /\ Goes(TRUE) /\ lost' = lost /\ WithStatus(g_state)
      BY <1>15 DEF ReadsState, Asking, Answered
    <2>2. adapter \in Guessing /\ ~ (at > 3)
      BY <1>1, <2>1 DEF Fair, Guessing
    <2>3. ti'.text = ti.text
      BY <1>6, <2>1
    <2> QED
      BY <1>5, <2>1, <2>2, <2>3 DEF SongsTrue, Goes, Return
  <1>16. RightMode /\ RightSongs /\ On
    BY <1>8, <1>9, <1>10, <1>11, <1>12, <1>13, <1>14, <1>15
  <1>17. ASSUME pc' = "asking"
         PROVE  TruthInv'
    <2>1. /\ SeenModes(Target)' = SeenModes(Target) /\ SeenSongs(Target)' = SeenSongs(Target)
          /\ Had' = Had
      BY <1>4, <1>17 DEF SeenModes, SeenSongs, Had
    <2>2. at' \in 1 .. Len(Script[adapter]') /\ at' = at + 1
      <3>1. UNCHANGED Script[adapter]
        BY DEF Script
      <3> QED
        BY <1>1, <1>2, <1>17, <3>1 DEF Last
    <2>3. ~ lost' => SongsTrue'
      BY <1>1, <1>16, <1>17, <2>1, <2>2 DEF SongsTrue
    <2> QED
      BY <1>2, <1>16, <1>17, <2>1, <2>2, <2>3 DEF TruthInv
  <1> QED
    BY <1>2, <1>16, <1>17

LEMMA TruthBegins ==
  ASSUME PollInit
  PROVE  TruthInv
  BY DEF PollInit, Prepared, Text, TruthInv, Formed

LEMMA TruthStep ==
  ASSUME PlayersInv, TruthInv, QueryInv, QueryNext
  PROVE  TruthInv'
  <1>1. adapter \in QueryPlayers
    BY DEF QueryNext
  <1>2. CASE get_player_info
    <2>1. /\ ti' = [status |-> CLOSED, player |-> NoName, text |-> [f \in Fields |-> NoText]]
          /\ UNCHANGED adapter /\ at' = 1 /\ handle' = NoText
      BY <1>2 DEF get_player_info, BeginPoll, Prepared, Text
    <2>2. at' \in 1 .. Len(Script[adapter]')
      <3>1. UNCHANGED Script[adapter]
        BY <2>1 DEF Script
      <3> QED
        BY <1>1, <2>1, <3>1, ScriptsFair DEF FairScript
    <2>3. Formed(ti') /\ ti'.status = CLOSED /\ \A f \in Fields : ti'.text[f] = NoText
      BY <2>1 DEF Formed
    <2>4. CLOSED \notin Plays /\ CLOSED # PLAYING /\ CLOSED \in Modes /\ 1 # 2
      BY DEF Plays, CLOSED, PAUSED, PLAYING, Modes
    <2>5. SongsTrue'
      BY <2>1, <2>3, <2>4 DEF SongsTrue, Had
    <2> QED
      BY <2>1, <2>2, <2>3, <2>4, <2>5 DEF TruthInv
  <1>3. CASE cb_quodlibet_paused
    <2>1. UNCHANGED << ti, pc >> /\ pc = "idle"
      BY <1>3 DEF cb_quodlibet_paused, polling, poll
    <2> QED
      BY <2>1 DEF TruthInv
  <1>4. CASE QueriedMoves
    <2>1. UNCHANGED << adapter, ti, pc, lost, at, handle >> /\ (pc # "idle" => Remembers)
      BY <1>4, PlayerMoves, PollingAssumption DEF QueriedMoves, poll
    <2>2. CASE pc # "asking"
      BY <2>1, <2>2 DEF TruthInv
    <2>3. CASE pc = "asking"
      <3>1. /\ SeenModes(Target) \subseteq SeenModes(Target)'
            /\ SeenSongs(Target) \subseteq SeenSongs(Target)'
            /\ mode[Target] \in SeenModes(Target)
        BY <2>1, <2>3, Remembered, SeesMode, PollingAssumption
      <3>2. SeenModes(Target) # {CLOSED} => SeenModes(Target)' # {CLOSED}
        BY <3>1
      <3>3. Had \subseteq Had' /\ UNCHANGED Script[adapter]
        BY <2>1, <3>1 DEF Had, Script
      <3>4. SongsTrue => SongsTrue'
        BY <2>1, <3>1, <3>3 DEF SongsTrue
      <3> QED
        BY <2>1, <2>3, <3>1, <3>2, <3>3, <3>4 DEF TruthInv
    <2> QED
      BY <2>2, <2>3
  <1>5. CASE \/ dbus_g_running \/ StatusAnswered \/ HandleAnswered \/ TextAnswered
             \/ SnapshotAnswered \/ SnapshotCut \/ CallFails \/ ReadsState
    <2>1. pc = "asking" /\ UNCHANGED adapter
      BY <1>5 DEF dbus_g_running, StatusAnswered, HandleAnswered, TextAnswered,
         SnapshotAnswered, SnapshotCut, CallFails, ReadsState, Answers, Asking
    <2>2. Formed(ti') /\ (pc' = "asking" => TruthInv')
      BY <1>1, <1>5, <2>1, AsksRight
    <2> QED
      BY <2>2 DEF TruthInv
  <1> QED
    BY <1>2, <1>3, <1>4, <1>5 DEF QueryNext, Queries

(* The step that ends the poll.                                            *)
LEMMA TruthEnds ==
  ASSUME PlayersInv, TruthInv, QueryNext, Returns, QueryInv
  PROVE  /\ adapter \notin Guessing /\ ti'.status = PLAYING => PLAYING \in SeenModes(Target)
         /\ ~ lost' /\ ti'.status \in Plays => \A f \in Fields : ti'.text[f] \in Had
  <1>1. /\ adapter \in QueryPlayers /\ pc = "asking"
        /\ \/ dbus_g_running \/ StatusAnswered \/ HandleAnswered \/ TextAnswered
           \/ SnapshotAnswered \/ SnapshotCut \/ CallFails \/ ReadsState
    BY DEF QueryNext, Queries, Returns, QueryInv, get_player_info, cb_quodlibet_paused,
       QueriedMoves, Moves, polling, poll
  <1>2. UNCHANGED adapter
    BY <1>1 DEF dbus_g_running, StatusAnswered, HandleAnswered, TextAnswered,
       SnapshotAnswered, SnapshotCut, CallFails, ReadsState, Answers, Asking
  <1> QED
    BY <1>1, <1>2, AsksRight

-----------------------------------------------------------------------------
(***************************************************************************)
(* The interface of MSN Messenger.                                         *)
(***************************************************************************)
MsnInv == msnti \in MsnStates /\ TellsLastMessage

LEMMA MsnBegins ==
  ASSUME MsnInit
  PROVE  MsnInv
  BY DEF MsnInit, MsnInv, MsnStates, Zeroed, Silence, TextOf, TellsLastMessage, CLOSED, STOPPED,
         PLAYING

LEMMA PartTyped ==
  ASSUME NEW part, NEW s \in MsnSongs \cup {Empty}
  PROVE  Part(part, s) \in TextOf(part)
  BY DEF Part, TextOf

(* What a message leaves in msnti before artist and title are swapped.     *)
LEMMA MsnCaptures ==
  ASSUME MsnInv, NEW m \in Messages
  PROVE  /\ Captured(m) \in MsnStates
         /\ m.format # "none" => /\ Captured(m).artist = Part("artist", m.song)
                                 /\ Captured(m).track = Part("title", m.song)
         /\ m.format = "album" => Captured(m).album = Part("album", m.song)
         /\ m.format = "line" => Captured(m).album = Empty
  <1>1. m.song \in MsnSongs \cup {Empty}
    BY DEF Messages
  <1>2. /\ Part("artist", m.song) \in TextOf("artist")
        /\ Part("title", m.song) \in TextOf("title")
        /\ Part("album", m.song) \in TextOf("album")
    BY <1>1, PartTyped
  <1>3. Empty \in TextOf("album")
    BY DEF TextOf
  <1> QED
    BY <1>2, <1>3 DEF Captured, MsnInv, MsnStates

LEMMA MsnMessage ==
  ASSUME MsnInv, NEW m \in Messages, process_message(m)
  PROVE  MsnInv'
  <1> DEFINE t     == Captured(m)
             plays == Enabled(m) /\ (t.artist # Empty \/ t.track # Empty \/ t.album # Empty)
             u     == [t EXCEPT !.status = IF plays THEN PLAYING ELSE STOPPED]
  <1>1. /\ msnti' = IF inverted' THEN Exchanged(u) ELSE u
        /\ message' = m
    BY DEF process_message
  <1>2. t \in MsnStates
    BY MsnCaptures
  <1> HIDE DEF t
  <1>3. /\ u \in MsnStates /\ u.artist = t.artist /\ u.track = t.track /\ u.album = t.album
        /\ u.status = IF plays THEN PLAYING ELSE STOPPED
    BY <1>2 DEF MsnStates, CLOSED, STOPPED, PLAYING
  <1> HIDE DEF u
  <1>4. /\ msnti' \in MsnStates
        /\ msnti'.status = u.status /\ msnti'.album = u.album
        /\ msnti'.artist = IF inverted' THEN u.track ELSE u.artist
        /\ msnti'.track = IF inverted' THEN u.artist ELSE u.track
    BY <1>1, <1>3 DEF MsnStates, Exchanged
  <1>5. m.format # "none" => t.artist = Part("artist", m.song) /\ t.track = Part("title", m.song)
    BY MsnCaptures DEF t
  <1>6. m.format \in Formats
    BY DEF Messages
  <1>7. ASSUME plays
        PROVE  /\ m.enabled /\ m.format # "none"
               /\ \/ m.song # Empty /\ t.album = Part("album", m.song)
                  \/ m.song # Empty /\ m.format = "line" /\ t.album = Empty
                  \/ m.format = "short"
    <2>1. m.enabled /\ m.format # "none"
      BY <1>7 DEF Enabled
    <2>2. CASE m.format = "album"
      <3>1. t.album = Part("album", m.song)
        BY <2>2, MsnCaptures DEF t
      <3> QED
        BY <3>1, <2>1, <1>5, <1>7 DEF Part
    <2>3. CASE m.format = "line"
      <3>1. t.album = Empty
        BY <2>3, MsnCaptures DEF t
      <3> QED
        BY <3>1, <2>1, <2>3, <1>5, <1>7 DEF Part
    <2> QED
      BY <2>1, <2>2, <2>3, <1>6 DEF Formats
  <1>8. ASSUME msnti'.status = PLAYING
        PROVE  plays
    BY <1>8, <1>3, <1>4 DEF PLAYING, STOPPED
  <1>9. TellsLastMessage'
    <2> SUFFICES ASSUME msnti'.status = PLAYING
                 PROVE  TellsLastMessage'
      BY DEF TellsLastMessage
    <2>1. plays
      BY <1>8
    <2> HIDE DEF plays
    <2> QED
      BY <2>1, <1>1, <1>3, <1>4, <1>5, <1>7 DEF TellsLastMessage
  <1> QED
    BY <1>4, <1>9 DEF MsnInv

LEMMA MsnStep ==
  ASSUME MsnInv, MsnNext
  PROVE  MsnInv'
  <1>1. CASE \E m \in Messages : process_message(m)
    BY <1>1, MsnMessage
  <1>2. CASE get_msn_compat_info
    <2>1. msnti' \in {msnti, Zeroed} /\ UNCHANGED << message, inverted >>
      BY <1>2 DEF get_msn_compat_info
    <2>2. Zeroed \in MsnStates /\ Zeroed.status # PLAYING
      BY DEF Zeroed, Silence, MsnStates, TextOf, CLOSED, STOPPED, PLAYING
    <2> QED
      BY <2>1, <2>2 DEF MsnInv, TellsLastMessage
  <1>3. CASE cb_toggled
    BY <1>3 DEF cb_toggled, MsnInv, TellsLastMessage
  <1> QED
    BY <1>1, <1>2, <1>3 DEF MsnNext

-----------------------------------------------------------------------------
(***************************************************************************)
(* All of them.                                                            *)
(***************************************************************************)
AdaptersInv ==
  /\ adapter = "MPRIS" => PlayersInv /\ MprisInv
  /\ adapter = "MPRIS2" => PlayersInv /\ Mpris2Inv
  /\ adapter = "MPD" => PlayersInv /\ MpdInv
  /\ adapter \in QueryPlayers => PlayersInv /\ QueryInv /\ TruthInv
  /\ adapter \in Whole => SongInv
  /\ MsnInv

LEMMA AdaptersBegin == AdaptersInit => AdaptersInv
  <1> SUFFICES ASSUME AdaptersInit PROVE AdaptersInv
    OBVIOUS
  <1>1. PlayersInv /\ MprisInv /\ Mpris2Inv /\ MpdInv /\ MsnInv
    BY PlayersBegin, MprisBegins, Mpris2Begins, MpdBegins, MsnBegins DEF AdaptersInit
  <1>2. QueryInv
    BY DEF AdaptersInit, PollInit, QueryInit, QueryInv
  <1>3. SongInv /\ TruthInv
    BY SongsBegin, TruthBegins DEF AdaptersInit
  <1> QED
    BY <1>1, <1>2, <1>3 DEF AdaptersInv

(* The adapter is the same after any step, and its own takes it.           *)
LEMMA OwnStep ==
  ASSUME AdaptersNext
  PROVE  /\ UNCHANGED adapter
         /\ adapter = "MPRIS" => MprisNext
         /\ adapter = "MPRIS2" => Mpris2Next
         /\ adapter = "MPD" => MpdNext
         /\ adapter \in QueryPlayers => QueryNext
         /\ MsnNext \/ UNCHANGED msnvars
  <1>1. QueryPart => adapter \in QueryPlayers /\ QueryNext /\ UNCHANGED msnvars
    BY DEF QueryPart, QueryNext
  <1>2. MprisPart => adapter = "MPRIS" /\ MprisNext /\ UNCHANGED msnvars
    BY DEF MprisPart, MprisNext
  <1>3. Mpris2Part => adapter = "MPRIS2" /\ Mpris2Next /\ UNCHANGED msnvars
    BY DEF Mpris2Part, Mpris2Next
  <1>4. MpdPart => adapter = "MPD" /\ MpdNext /\ UNCHANGED msnvars
    BY DEF MpdPart, MpdNext
  <1>5. MsnPart => adapter = "MSN" /\ MsnNext /\ UNCHANGED adapter
    BY DEF MsnPart, polling
  <1>6. QueryNext => UNCHANGED adapter
    BY DEF QueryNext, Queries, get_player_info, BeginPoll, dbus_g_running, StatusAnswered,
           HandleAnswered, TextAnswered, SnapshotAnswered, SnapshotCut, CallFails, ReadsState,
           Answers, Asking, cb_quodlibet_paused, polling, QueriedMoves, Moves
  <1>7. MprisNext => UNCHANGED adapter
    BY DEF MprisNext, Mprises, get_mpris_info, BeginPoll, ListNames, mpris_check_player,
           SearchEnds, GetStatus, GetMetadata, PositionGet, MprisFails, Silent, Tells, Asks,
           mpris_status_signal_cb, mpris_track_signal_cb, Signal, polling, Moves
  <1>8. Mpris2Next => UNCHANGED adapter
    BY DEF Mpris2Next, Mprises2, get_mpris2_info, BeginPoll, ListsNames, NextName, LastName,
           GetPlaybackStatus, GetMetadata2, GetFails, Calls, Moves
  <1>9. MpdNext => UNCHANGED adapter
    BY DEF MpdNext, Mpds, get_mpd_info, BeginPoll, Connects, Welcomed, mpd_sendPasswordCommand,
           FinishesPassword, SendsCommandList, mpd_getStatus, mpd_nextListOkCommand,
           mpd_getNextInfoEntity, EntityContinues, SongsRead, FinishesList, mpd_closeConnection,
           ReturnsEarly, Does, ServerAnswers, MpdMoves, Moves, cb_mpd_changed, polling
  <1> QED
    BY <1>1, <1>2, <1>3, <1>4, <1>5, <1>6, <1>7, <1>8, <1>9, QueryPlayersAre DEF AdaptersNext

LEMMA AdaptersStep == AdaptersInv /\ [AdaptersNext]_adaptersvars => AdaptersInv'
  <1> SUFFICES ASSUME AdaptersInv, [AdaptersNext]_adaptersvars PROVE AdaptersInv'
    OBVIOUS
  <1>1. CASE AdaptersNext
    <2>1. UNCHANGED adapter
      BY <1>1, OwnStep
    <2>2. adapter = "MPRIS" => PlayersInv' /\ MprisInv'
      BY <1>1, OwnStep, MprisStep DEF AdaptersInv
    <2>3. adapter = "MPRIS2" => PlayersInv' /\ Mpris2Inv'
      BY <1>1, OwnStep, Mpris2Step DEF AdaptersInv
    <2>4. adapter \in QueryPlayers => PlayersInv' /\ QueryInv' /\ TruthInv'
      BY <1>1, OwnStep, QueryStep, TruthStep DEF AdaptersInv
    <2>5. MsnInv'
      <3>1. CASE MsnNext
        BY <3>1, MsnStep DEF AdaptersInv
      <3>2. CASE UNCHANGED msnvars
        BY <3>2 DEF AdaptersInv, MsnInv, TellsLastMessage, msnvars
      <3> QED
        BY <3>1, <3>2, <1>1, OwnStep
    <2>6. UNCHANGED << QueryPlayers, Whole >>
      BY QueryPlayersAre DEF Whole
    <2>7. adapter \in Whole => SongInv'
      BY <1>1, OwnStep, SongStep, TwoPaths DEF AdaptersInv
    <2>8. adapter = "MPD" => PlayersInv' /\ MpdInv'
      BY <1>1, OwnStep, MpdStep DEF AdaptersInv
    <2> QED
      BY <2>1, <2>2, <2>3, <2>4, <2>5, <2>6, <2>7, <2>8 DEF AdaptersInv
  <1>2. CASE UNCHANGED adaptersvars
    <2>1. /\ UNCHANGED << adapter, mode, song, pc, ti, lost, left, asking, seen, at, handle >>
          /\ UNCHANGED << table, record, conn, up, requests, answers, state, entity >>
          /\ UNCHANGED << msnti, message, inverted >>
      BY <1>2 DEF adaptersvars, polling, players, poll, search, window, queries, mpris, mpd,
             mpdlocals, msnvars
    <2>2. PlayersInv => PlayersInv'
      BY <2>1 DEF PlayersInv, PlayersTyped, SongsMatch, SeenNow, Is
    <2>3. MprisInv => MprisInv'
      BY <2>1 DEF MprisInv, MprisTyped, RecordFresh, ReportFresh, NoneMissed, Found, TextSeen,
                  SeenModes, SeenSongs
    <2>4. Mpris2Inv => Mpris2Inv'
      BY <2>1 DEF Mpris2Inv, Mpris2Typed, Collected, NotPassedOver, RunnersAhead, SeenModes
    <2>5. QueryInv => QueryInv'
      BY <2>1 DEF QueryInv, SeenModes
    <2>6. MsnInv => MsnInv'
      BY <2>1 DEF MsnInv, TellsLastMessage
    <2>7. SongInv => SongInv'
      <3>1. UNCHANGED Script[adapter]
        BY <2>1 DEF Script
      <3> QED
        BY <2>1, <3>1 DEF SongInv, OneSong, Formed
    <2>8. UNCHANGED << QueryPlayers, Whole >>
      BY QueryPlayersAre DEF Whole
    <2>9. MpdInv => MpdInv'
      BY <2>1, MpdUnmoved
    <2>10. TruthInv => TruthInv'
      <3>1. UNCHANGED Script[adapter]
        BY <2>1 DEF Script
      <3> QED
        BY <2>1, <3>1 DEF TruthInv, SongsTrue, Had, Formed, SeenModes, SeenSongs
    <2> QED
      BY <2>1, <2>2, <2>3, <2>4, <2>5, <2>6, <2>7, <2>8, <2>9, <2>10 DEF AdaptersInv
  <1> QED
    BY <1>1, <1>2

LEMMA AdaptersInvariant == AdaptersSpec => []AdaptersInv
  BY AdaptersBegin, AdaptersStep, PTL DEF AdaptersSpec

(* Only an adapter's own step ends its poll.                               *)
LEMMA EndsByItself ==
  ASSUME [AdaptersNext]_adaptersvars, Returns
  PROVE  AdaptersNext
  BY DEF Returns, adaptersvars, polling, poll

(* NeverStartsPlayer, for any player and songs: no adapter that looks for  *)
(* its player asks one it has not seen running.                            *)
THEOREM NoPlayerStarted == AdaptersSpec => []NeverStartsPlayer
  <1>1. AdaptersInv => NeverStartsPlayer
    <2> SUFFICES ASSUME AdaptersInv, adapter \in QueryPlayers \ Unlooked, pc = "asking",
                        Step.call # "running"
                 PROVE  SeenModes(Target) # {CLOSED}
      BY DEF NeverStartsPlayer, Unlooked
    <2>1. at # 1
      BY LooksFirst DEF Step, Running
    <2> QED
      BY <2>1 DEF AdaptersInv, QueryInv
  <1> QED
    BY <1>1, AdaptersInvariant, PTL

(* OneSong, for any player and songs: however often the song changes while *)
(* an adapter of Whole asks, its fields are of one song.                   *)
THEOREM FieldsOfOneSong == AdaptersSpec => []OneSong
  <1>1. AdaptersInv => OneSong
    BY DEF AdaptersInv, SongInv, OneSong
  <1> QED
    BY <1>1, AdaptersInvariant, PTL

(* ReportsWhatWas, for any player, songs and number of changes: only what   *)
(* played during the poll is reported as playing, and as long as every     *)
(* call is answered only with songs it had then.                           *)
THEOREM QueriesTellTruth == AdaptersSpec => ReportsWhatWas
  <1>1. AdaptersInv /\ [AdaptersNext]_adaptersvars =>
          [Returns /\ adapter \in QueryPlayers =>
             /\ adapter \notin Guessing /\ ti'.status = PLAYING => PLAYING \in SeenModes(Target)
             /\ ~ lost' /\ ti'.status \in {PAUSED, PLAYING} =>
                  \A f \in Fields : ti'.text[f] \in SeenSongs(Target) \cup {NoText}]_queryvars
    <2> SUFFICES ASSUME AdaptersInv, [AdaptersNext]_adaptersvars, Returns,
                        adapter \in QueryPlayers
                 PROVE  /\ adapter \notin Guessing /\ ti'.status = PLAYING =>
                              PLAYING \in SeenModes(Target)
                        /\ ~ lost' /\ ti'.status \in Plays =>
                              \A f \in Fields : ti'.text[f] \in Had
      BY DEF Plays, Had
    <2>1. QueryNext
      BY EndsByItself, OwnStep
    <2> QED
      BY <2>1, TruthEnds DEF AdaptersInv
  <1> QED
    BY <1>1, AdaptersInvariant, PTL DEF AdaptersSpec, ReportsWhatWas

(* FreshReport, for any number of players: whatever MPRIS signals wrote    *)
(* into a record and whichever calls fail, status and song reported of a   *)
(* player were its own during that poll.                                   *)
THEOREM MprisReportsFresh == AdaptersSpec => FreshReport
  <1>1. AdaptersInv /\ [AdaptersNext]_adaptersvars =>
          [Ends /\ ti'.status # CLOSED =>
             /\ ti'.player \in Names
             /\ ti'.status \in SeenModes(ti'.player)
             /\ \A f \in Fields :
                  \/ ti'.text[f] \in SeenSongs(ti'.player)
                  \/ ti'.text[f] = NoText /\ STOPPED \in SeenModes(ti'.player)]_mprisvars
    <2> SUFFICES ASSUME AdaptersInv, [AdaptersNext]_adaptersvars, Ends, ti'.status # CLOSED
                 PROVE  /\ ti'.player \in Names
                        /\ ti'.status \in SeenModes(ti'.player)
                        /\ TextSeen(ti'.player, ti'.text)
      BY DEF TextSeen
    <2>1. adapter = "MPRIS" /\ Returns
      BY DEF Ends
    <2>2. MprisNext
      BY <2>1, EndsByItself, OwnStep
    <2> QED
      BY <2>1, <2>2, MprisFresh DEF AdaptersInv
  <1> QED
    BY <1>1, AdaptersInvariant, PTL DEF AdaptersSpec, FreshReport

(* FindsPlayer, for any number of players: no quitting or departed player  *)
(* keeps the search from one that is there throughout.                     *)
THEOREM MprisFindsPlayer == AdaptersSpec => FindsPlayer
  <1>1. AdaptersInv /\ [AdaptersNext]_adaptersvars =>
          [Ends /\ ~ lost' /\ (\E p \in Names : CLOSED \notin SeenModes(p))
             => ti'.status # CLOSED]_mprisvars
    <2> SUFFICES ASSUME AdaptersInv, [AdaptersNext]_adaptersvars, Ends, ~ lost',
                        NEW p \in Names, CLOSED \notin SeenModes(p)
                 PROVE  ti'.status # CLOSED
      OBVIOUS
    <2>1. adapter = "MPRIS" /\ Returns
      BY DEF Ends
    <2>2. MprisNext
      BY <2>1, EndsByItself, OwnStep
    <2> QED
      BY <2>1, <2>2, MprisFinds DEF AdaptersInv
  <1> QED
    BY <1>1, AdaptersInvariant, PTL DEF AdaptersSpec, FindsPlayer

(* PausedNeverHidesPlaying, for any number of players, any of which may    *)
(* give a status the MPRIS2 adapter does not know: in no order of the      *)
(* names does it miss one that plays throughout unless it ends at such a   *)
(* one, and it never reports a song with a status of another player.       *)
THEOREM Mpris2FindsPlaying == AdaptersSpec => PausedNeverHidesPlaying
  <1> DEFINE Told ==
        Ends2 =>
          /\ ~ lost' /\ (\E p \in Names : SeenModes(p) = {PLAYING}) =>
               ti'.status = PLAYING \/ EndsAtOdd(ti', asking)
          /\ ti'.text # Text(NoText) =>
               /\ \E s \in SeenSongs(asking) : ti'.text = Text(s)
               /\ \/ ti'.status = PLAYING /\ PLAYING \in SeenModes(asking)
                  \/ EndsAtOdd(ti', asking)
          /\ ti'.status # CLOSED => \E p \in Names : ti'.status \in SeenModes(p)
  <1>1. AdaptersInv /\ [AdaptersNext]_adaptersvars => [Told]_polling
    <2> SUFFICES ASSUME AdaptersInv, [AdaptersNext]_adaptersvars, Ends2
                 PROVE  Told
      OBVIOUS
    <2>1. adapter = "MPRIS2" /\ Returns
      BY DEF Ends2
    <2>2. Mpris2Next
      BY <2>1, EndsByItself, OwnStep
    <2>3. PlayersInv /\ Mpris2Inv
      BY <2>1 DEF AdaptersInv
    <2> QED
      BY <2>1, <2>2, <2>3, Mpris2Finds, Mpris2Reports
  <1> QED
    BY <1>1, AdaptersInvariant, PTL DEF AdaptersSpec, PausedNeverHidesPlaying

(* WholeAnswer, for any songs: however late the lines of an answer come    *)
(* and wherever it breaks off, a status is only reported with the song it  *)
(* was answered with.                                                      *)
THEOREM MpdWholeAnswer == AdaptersSpec => WholeAnswer
  <1>1. AdaptersInv /\ [AdaptersNext]_adaptersvars =>
          [MpdEnds /\ ti'.status # CLOSED =>
             \E s \in seen[Target] : ti'.status = s.mode /\ ti'.text = Text(s.song)]_mpdvars
    <2> SUFFICES ASSUME AdaptersInv, [AdaptersNext]_adaptersvars, MpdEnds, ti'.status # CLOSED
                 PROVE  \E s \in seen[Target] : ti'.status = s.mode /\ ti'.text = Text(s.song)
      OBVIOUS
    <2>1. adapter = "MPD" /\ Returns
      BY DEF MpdEnds
    <2>2. MpdNext
      BY <2>1, EndsByItself, OwnStep
    <2> QED
      BY <2>1, <2>2, MpdWhole DEF AdaptersInv
  <1> QED
    BY <1>1, AdaptersInvariant, PTL DEF AdaptersSpec, WholeAnswer

(* LeaksOnlyUnanswered, for any songs: a connection is only left open by a *)
(* poll that the server left unanswered or refused.                        *)
THEOREM MpdLeaksUnanswered == AdaptersSpec => LeaksOnlyUnanswered
  <1>1. AdaptersInv /\ [AdaptersNext]_adaptersvars =>
          [MpdEnds /\ ~ lost' => leaked' = leaked]_mpdvars
    <2> SUFFICES ASSUME AdaptersInv, [AdaptersNext]_adaptersvars, MpdEnds, ~ lost'
                 PROVE  leaked' = leaked
      OBVIOUS
    <2>1. adapter = "MPD" /\ Returns
      BY DEF MpdEnds
    <2>2. MpdNext
      BY <2>1, EndsByItself, OwnStep
    <2> QED
      BY <2>1, <2>2, MpdLeaks DEF AdaptersInv
  <1> QED
    BY <1>1, AdaptersInvariant, PTL DEF AdaptersSpec, LeaksOnlyUnanswered

(* TellsLastMessage, for any songs and senders: what is found playing is   *)
(* what the last message says.                                             *)
THEOREM MsnTellsLast == AdaptersSpec => []TellsLastMessage
  <1>1. AdaptersInv => TellsLastMessage
    BY DEF AdaptersInv, MsnInv
  <1> QED
    BY <1>1, AdaptersInvariant, PTL

-----------------------------------------------------------------------------
(***************************************************************************)
(* Types                                                                   *)
(***************************************************************************)
(* Beside the invariants of the adapters: MPRIS asks only players that are *)
(* in its table.                                                           *)
TypesInv ==
  /\ AdaptersTypeOK
  /\ adapter \in QueryPlayers \cup {"MPRIS", "MPRIS2", "MPD", "MSN"}
  /\ adapter = "MPRIS" => left \subseteq table

LEMMA TypesBegin == AdaptersInit => TypesInv
  <1> SUFFICES ASSUME AdaptersInit PROVE TypesInv
    OBVIOUS
  <1>1. PollInit /\ QueryInit /\ MprisInit /\ MpdInit /\ MsnInit
    BY DEF AdaptersInit
  <1>2. PollTypeOK
    <2>1. Prepared \in [status : Modes, player : Names \cup {NoName}, text : [Fields -> Texts]]
      BY PreparedInfo DEF Infos
    <2>2. mode \in [Names -> Modes] /\ song \in [Names -> Texts]
      BY <1>1 DEF PollInit, Modes, CLOSED, PLAYING, Texts
    <2>3. seen \in [Names -> SUBSET [mode : Modes, song : Texts]]
      BY <1>1 DEF PollInit
    <2>4. moves \in 0 .. MaxMoves
      BY <1>1, PollingAssumption DEF PollInit
    <2> QED
      BY <1>1, <2>1, <2>2, <2>3, <2>4 DEF PollInit, PollTypeOK
  <1>3. QueryTypeOK
    <2>1. adapter \in QueryPlayers => 1 \in 1 .. Len(Script[adapter])
      BY ScriptsFair DEF FairScript
    <2>2. << >> \in Seq({PAUSED, PLAYING}) /\ Len(<< >>) <= MaxPending
      BY QueryAssumption
    <2> QED
      BY <1>1, <2>1, <2>2 DEF QueryInit, QueryTypeOK, Texts
  <1>4. MprisTypeOK /\ Mpris2TypeOK
    <2>1. MprisInv
      BY <1>1, MprisBegins
    <2> QED
      BY <1>1, <2>1 DEF MprisInv, MprisTyped, MprisTypeOK, Mpris2TypeOK, PollInit
  <1>5. MpdTypeOK
    <2>1. << >> \in Seq({"password", "list"}) /\ Len(<< >>) <= 2 /\ << >> \in Seq(Lines)
      OBVIOUS
    <2>2. Nothing \in Lines
      BY DEF Lines
    <2>3. Fresh \in [done : BOOLEAN, list : BOOLEAN, oks : 0 .. 2, doneOk : BOOLEAN,
                     error : BOOLEAN, elem : Lines]
      BY <2>2 DEF Fresh
    <2> QED
      BY <1>1, <2>1, <2>3 DEF MpdInit, MpdTypeOK, Texts
  <1>6. MsnTypeOK
    <2>1. Silence \in MsnStates /\ Silence.status = CLOSED
      BY DEF Silence, MsnStates, TextOf, CLOSED, PLAYING
    <2>2. Zeroed \in MsnStates /\ Zeroed.status = STOPPED
      BY <2>1 DEF Zeroed, MsnStates, CLOSED, STOPPED, PLAYING
    <2> QED
      BY <1>1, <2>1, <2>2 DEF MsnInit, MsnTypeOK
  <1> QED
    BY <1>1, <1>2, <1>3, <1>4, <1>5, <1>6
       DEF AdaptersInit, AdaptersTypeOK, TypesInv, PollInit

(* What the core and the players make of a poll.                           *)
LEMMA PollTyped ==
  ASSUME PollTypeOK, PlayersInv', lost' \in BOOLEAN,
         ti' \in [status : Modes, player : Names \cup {NoName}, text : [Fields -> Texts]],
         left' \subseteq Names, asking' \in Names \cup {NoName},
         moves' \in {0, moves} \/ \E p \in Names : Moves(p)
  PROVE  PollTypeOK'
  <1>1. moves' \in 0 .. MaxMoves
    <2>1. CASE moves' \in {0, moves}
      BY <2>1, PollingAssumption DEF PollTypeOK
    <2>2. CASE \E p \in Names : Moves(p)
      <3>1. \/ moves' = moves
            \/ moves' = moves + 1 /\ moves < MaxMoves
        BY <2>2 DEF Moves, window
      <3> QED
        BY <3>1, PollingAssumption DEF PollTypeOK
    <2> QED
      BY <2>1, <2>2
  <1> QED
    BY <1>1 DEF PollTypeOK, PlayersInv, PlayersTyped

(***************************************************************************)
(* The adapters that query one player.                                     *)
(***************************************************************************)
(* What may become of ti, field by field.                                  *)
LEMMA StatusTyped ==
  ASSUME ti \in Infos
  PROVE  /\ ti.text \in [Fields -> Texts] /\ ti.status \in Modes
         /\ \A s \in Modes : [ti EXCEPT !.status = s] \in Infos
         /\ \A t \in [Fields -> Texts] : [ti EXCEPT !.text = t] \in Infos
         /\ \A s \in Modes, t \in [Fields -> Texts] :
              [ti EXCEPT !.status = s, !.text = t] \in Infos
  BY DEF Infos

LEMMA TextTyped ==
  ASSUME NEW s \in Texts
  PROVE  Text(s) \in [Fields -> Texts]
  BY DEF Text

LEMMA FieldsTyped ==
  ASSUME ti \in Infos, NEW s \in Texts, NEW fields
  PROVE  WithText(fields, s) \in [Fields -> Texts]
  <1>1. ti.text \in [Fields -> Texts]
    BY StatusTyped
  <1> QED
    BY <1>1 DEF WithText, Fields

(* What the scripts may make of the status.                                *)
LEMMA CallTyped ==
  ASSUME PollTypeOK, QueryTypeOK, adapter \in QueryPlayers
  PROVE  /\ Step.call \in {"status", "snapshot"} => Step.reads[mode[Target]] \in Modes
         /\ Step.call = "snapshot" => \A s \in Step.cut : s \in Modes
         /\ Step.call \in {"status", "snapshot", "text", "handle"} =>
              \A o \in Step.failed[ti.status] : o.status \in Modes
         /\ Step.call = "handle" => \A o \in Step.nothing[ti.status] : o.status \in Modes
  <1>1. mode[Target] \in Modes /\ ti.status \in Modes
    BY PollingAssumption DEF PollTypeOK
  <1>2. Fair(adapter, at, Step)
    BY ScriptsFair DEF FairScript, QueryTypeOK, Step
  <1> HIDE DEF Step
  <1> QED
    BY <1>1, <1>2 DEF Fair, Truly, Modest, Keeping

(* The songs a handle may stand for.                                       *)
LEMMA HandlesTyped ==
  ASSUME PollTypeOK
  PROVE  Library[Target] \subseteq Texts /\ AtPosition \subseteq Texts /\ song[Target] \in Texts
  <1>1. Library[Target] \subseteq Texts
    BY PollingAssumption DEF Texts, Songs
  <1>2. song[Target] \in Texts
    BY PollingAssumption DEF PollTypeOK
  <1>3. SeenSongs(Target) \subseteq Texts
    BY PollingAssumption DEF PollTypeOK, SeenSongs
  <1> QED
    BY <1>1, <1>2, <1>3 DEF AtPosition

(* The next call of the script is one of its calls.                        *)
LEMMA ScriptTyped ==
  ASSUME QueryTypeOK, adapter \in QueryPlayers, UNCHANGED adapter,
         \/ Return /\ at' = 1 /\ handle' = NoText
         \/ ~ Last /\ at' = at + 1 /\ handle' \in Texts /\ UNCHANGED << pc, window >>
  PROVE  /\ adapter' \in QueryPlayers => at' \in 1 .. Len(Script[adapter'])
         /\ handle' \in Texts
         /\ moves' \in {0, moves}
  <1>1. Script[adapter'] = Script[adapter] /\ Len(Script[adapter]) \in Nat \ {0}
    BY ScriptsFair DEF FairScript
  <1> DEFINE n == Len(Script[adapter])
  <1>2. at \in 1 .. n /\ n \in Nat \ {0} /\ (Last <=> at = n)
    BY <1>1 DEF QueryTypeOK, Last
  <1> HIDE DEF n
  <1>3. at' \in 1 .. n
    BY <1>2 DEF Return
  <1> QED
    BY <1>1, <1>3 DEF n, Return, window, Texts

Calling ==
  \/ dbus_g_running \/ StatusAnswered \/ HandleAnswered \/ TextAnswered
  \/ SnapshotAnswered \/ SnapshotCut \/ CallFails \/ ReadsState

LEMMA CallsTyped ==
  ASSUME PollTypeOK, QueryTypeOK, adapter \in QueryPlayers, PlayersInv', Calling
  PROVE  PollTypeOK' /\ QueryTypeOK'
  <1>1. UNCHANGED << adapter, players, search >>
    BY DEF Calling, dbus_g_running, StatusAnswered, HandleAnswered, TextAnswered,
       SnapshotAnswered, SnapshotCut, CallFails, ReadsState, Answers, Asking
  <1>2. lost' \in BOOLEAN
    BY DEF Calling, dbus_g_running, StatusAnswered, HandleAnswered, TextAnswered,
       SnapshotAnswered, SnapshotCut, CallFails, ReadsState, Answers, Answered, Unanswered,
       PollTypeOK
  <1>3. \/ Return /\ at' = 1 /\ handle' = NoText
        \/ ~ Last /\ at' = at + 1 /\ handle' \in Texts /\ UNCHANGED << pc, window >>
    <2>1. handle \in Texts
      BY DEF QueryTypeOK
    <2> QED
      BY <2>1, HandlesTyped DEF Calling, dbus_g_running, StatusAnswered, HandleAnswered,
         TextAnswered, SnapshotAnswered, SnapshotCut, CallFails, ReadsState, Goes, TakesHandle
  <1>4. ti \in Infos
    BY DEF PollTypeOK, Infos
  <1>5. ti' \in Infos
    <2>1. CASE dbus_g_running
      BY <2>1, <1>4 DEF dbus_g_running
    <2>2. CASE StatusAnswered
      BY <2>2, <1>4, StatusTyped, CallTyped DEF StatusAnswered, Answers, Asking, WithStatus
    <2>3. CASE HandleAnswered
      <3>1. Step.call = "handle"
        BY <2>3 DEF HandleAnswered, Answers, Asking
      <3>2. ti' = ti \/ \E o \in Step.nothing[ti.status] : ti' = [ti EXCEPT !.status = o.status]
        BY <2>3 DEF HandleAnswered, WithStatus
      <3> QED
        BY <3>1, <3>2, <1>4, StatusTyped, CallTyped
    <2>4. CASE TextAnswered
      <3>1. WithText(Step.fields, IF Step.of = "handle" THEN handle ELSE song[Target])
              \in [Fields -> Texts]
        BY <1>4, FieldsTyped, HandlesTyped DEF QueryTypeOK
      <3> QED
        BY <2>4, <3>1, <1>4, StatusTyped DEF TextAnswered
    <2>5. CASE SnapshotAnswered
      <3> DEFINE s == Step.reads[mode[Target]]
                 t == IF s \in Step.ends THEN ti.text ELSE Text(song[Target])
      <3>1. s \in Modes
        BY <2>5, CallTyped DEF SnapshotAnswered, Answers, Asking
      <3>2. t \in [Fields -> Texts]
        BY <1>4, StatusTyped, TextTyped, HandlesTyped
      <3>3. ti' = [ti EXCEPT !.status = s, !.text = t]
        BY <2>5 DEF SnapshotAnswered
      <3> HIDE DEF s, t
      <3> QED
        BY <3>1, <3>2, <3>3, <1>4, StatusTyped
    <2>6. CASE SnapshotCut
      <3>1. Step.call = "snapshot"
        BY <2>6 DEF SnapshotCut, Asking
      <3>2. Text(song[Target]) \in [Fields -> Texts]
        BY TextTyped, HandlesTyped
      <3>3. PICK s \in Step.cut : ti' = [ti EXCEPT !.status = s, !.text = Text(song[Target])]
        BY <2>6 DEF SnapshotCut
      <3>4. s \in Modes
        BY <3>1, CallTyped
      <3> DEFINE t == Text(song[Target])
      <3>5. t \in [Fields -> Texts]
        BY <3>2
      <3>6. ti' = [ti EXCEPT !.status = s, !.text = t]
        BY <3>3
      <3> HIDE DEF t
      <3> QED
        BY <3>4, <3>5, <3>6, <1>4, StatusTyped
    <2>7. CASE CallFails
      <3>1. Step.call \in {"status", "handle", "text", "snapshot"}
        BY <2>7 DEF CallFails, Asking
      <3>2. \E o \in Step.failed[ti.status] : ti' = [ti EXCEPT !.status = o.status]
        BY <2>7 DEF CallFails, WithStatus
      <3> QED
        BY <3>1, <3>2, <1>4, StatusTyped, CallTyped
    <2>8. CASE ReadsState
      <3>1. g_state \in Modes
        BY DEF QueryTypeOK, Modes, CLOSED, STOPPED, PAUSED, PLAYING
      <3> QED
        BY <2>8, <3>1, <1>4, StatusTyped DEF ReadsState, WithStatus
    <2> QED
      BY <2>1, <2>2, <2>3, <2>4, <2>5, <2>6, <2>7, <2>8 DEF Calling
  <1>6. connected' \in BOOLEAN /\ UNCHANGED << g_state, pending, told >>
    BY DEF Calling, dbus_g_running, StatusAnswered, HandleAnswered, TextAnswered,
       SnapshotAnswered, SnapshotCut, CallFails, ReadsState, quodlibet, QueryTypeOK
  <1>7. PollTypeOK'
    <2>1. left' \subseteq Names /\ asking' \in Names \cup {NoName}
      BY <1>1 DEF PollTypeOK, search
    <2> QED
      BY <1>1, <1>2, <1>3, <1>5, <2>1, ScriptTyped, PollTyped DEF Infos
  <1>8. QueryTypeOK'
    <2>1. /\ adapter' \in QueryPlayers => at' \in 1 .. Len(Script[adapter'])
          /\ handle' \in Texts
      BY <1>1, <1>3, ScriptTyped
    <2>2. pending' \in Seq({PAUSED, PLAYING}) /\ Len(pending') <= MaxPending
      BY <1>6 DEF QueryTypeOK
    <2>3. QueryPlayers' = QueryPlayers
      BY QueryPlayersAre
    <2> HIDE DEF QueryPlayers
    <2> QED
      BY <1>6, <2>1, <2>2 DEF QueryTypeOK
  <1> QED
    BY <1>7, <1>8

LEMMA QueryTyped ==
  ASSUME PollTypeOK, QueryTypeOK, PlayersInv', QueryNext
  PROVE  PollTypeOK' /\ QueryTypeOK'
  <1>1. adapter \in QueryPlayers
    BY DEF QueryNext
  <1>2. CASE get_player_info
    <2>1. /\ ti' = Prepared /\ lost' = FALSE
          /\ UNCHANGED << adapter, moves, left, asking >>
          /\ at' = 1 /\ handle' = NoText
          /\ UNCHANGED << connected, g_state, pending, told >>
      BY <1>2 DEF get_player_info, BeginPoll, search, quodlibet
    <2>2. PollTypeOK'
      BY <2>1, PreparedInfo, PollTyped DEF PollTypeOK, Infos
    <2>3. 1 \in 1 .. Len(Script[adapter'])
      BY <2>1, <1>1, ScriptsFair DEF FairScript
    <2> QED
      BY <2>1, <2>2, <2>3 DEF QueryTypeOK, Texts
  <1>3. CASE cb_quodlibet_paused
    <2>1. /\ UNCHANGED << adapter, mode, song, ti, lost, seen, moves, left, asking >>
          /\ UNCHANGED << at, handle, connected, told >>
          /\ pending # << >> /\ g_state' = Head(pending) /\ pending' = Tail(pending)
      BY <1>3 DEF cb_quodlibet_paused, polling, players, poll, window, search
    <2>2. PollTypeOK'
      BY <2>1 DEF PollTypeOK
    <2>3. /\ Head(pending) \in {PAUSED, PLAYING} /\ Tail(pending) \in Seq({PAUSED, PLAYING})
          /\ Len(Tail(pending)) = Len(pending) - 1 /\ Len(pending) \in Nat
      BY <2>1, HeadTailProperties DEF QueryTypeOK
    <2>4. Len(pending') <= MaxPending
      BY <2>1, <2>3, QueryAssumption DEF QueryTypeOK
    <2>5. adapter' \in QueryPlayers => at' \in 1 .. Len(Script[adapter'])
      BY <2>1 DEF QueryTypeOK
    <2> QED
      BY <2>1, <2>2, <2>3, <2>4, <2>5 DEF QueryTypeOK
  <1>4. CASE QueriedMoves
    <2>1. Moves(Target) /\ UNCHANGED << at, handle, connected, g_state >>
      BY <1>4 DEF QueriedMoves
    <2>2. UNCHANGED << adapter, ti, lost, left, asking >>
      BY <2>1 DEF Moves, poll, search
    <2>3. PollTypeOK'
      BY <2>1, <2>2, PollingAssumption, PollTyped DEF PollTypeOK
    <2>4. Says' \in {PAUSED, PLAYING}
      <3>1. mode'[Target] \in Modes
        BY PollingAssumption DEF PlayersInv, PlayersTyped
      <3> QED
        BY <3>1 DEF Says, Playing
    <2>5. \/ pending' = pending
          \/ Len(pending) < MaxPending /\ pending' = Append(pending, Says')
      BY <1>4 DEF QueriedMoves
    <2>6. pending' \in Seq({PAUSED, PLAYING}) /\ Len(pending') <= MaxPending
      <3>1. CASE pending' = pending
        BY <3>1 DEF QueryTypeOK
      <3>2. CASE Len(pending) < MaxPending /\ pending' = Append(pending, Says')
        <4>1. /\ Append(pending, Says') \in Seq({PAUSED, PLAYING})
              /\ Len(Append(pending, Says')) = Len(pending) + 1 /\ Len(pending) \in Nat
          BY <2>4, AppendProperties DEF QueryTypeOK
        <4> QED
          BY <3>2, <4>1, QueryAssumption
      <3> QED
        BY <2>5, <3>1, <3>2
    <2>7. told' \in BOOLEAN
      BY <1>4 DEF QueriedMoves, QueryTypeOK
    <2>8. adapter' \in QueryPlayers => at' \in 1 .. Len(Script[adapter'])
      BY <2>1, <2>2 DEF QueryTypeOK
    <2> QED
      BY <2>1, <2>3, <2>6, <2>7, <2>8 DEF QueryTypeOK
  <1> QED
    BY <1>1, <1>2, <1>3, <1>4, CallsTyped DEF QueryNext, Queries, Calling
(***************************************************************************)
(* MPRIS and MPRIS2.                                                       *)
(***************************************************************************)
LEMMA MprisTypes ==
  ASSUME PollTypeOK, MprisTypeOK, left \subseteq table, adapter = "MPRIS", MprisInv,
         PlayersInv', MprisInv', MprisNext
  PROVE  PollTypeOK' /\ MprisTypeOK' /\ left' \subseteq table'
  <1>1. /\ lost' \in BOOLEAN /\ asking' \in Names \cup {NoName}
        /\ left' \subseteq table'
        /\ pc' \in Questions => asking' \in table'
        /\ moves' \in {0, moves} \/ \E p \in Names : Moves(p)
        /\ ti' \in {ti, Prepared}
             \/ /\ asking \in Names
                /\ ti' = [status |-> record[asking].status, player |-> asking,
                          text |-> record[asking].text]
    <2>1. CASE get_mpris_info
      BY <2>1 DEF get_mpris_info, BeginPoll, search, PollTypeOK, Questions
    <2>2. CASE ListNames
      BY <2>2 DEF ListNames, Asks, GoesTo, window, Answered, Unanswered, PollTypeOK, Questions
    <2>3. CASE \E p \in Names : mpris_check_player(p)
      BY <2>3 DEF mpris_check_player, Asks, GoesTo, window, PollTypeOK, Questions
    <2>4. CASE SearchEnds
      BY <2>4 DEF SearchEnds, Asks, Return, PollTypeOK, Questions
    <2>5. CASE GetStatus \/ GetMetadata
      BY <2>5 DEF GetStatus, GetMetadata, Tells, Asks, Answered, GoesTo, window, search,
                  PollTypeOK, MprisTypeOK, Questions
    <2>6. CASE PositionGet
      BY <2>6 DEF PositionGet, Tells, Asks, Answered, GoesTo, window, PollTypeOK, MprisInv,
                  MprisTyped, Questions
    <2>7. CASE MprisFails
      BY <2>7 DEF MprisFails, Silent, Asks, Answered, Unanswered, GoesTo, window, PollTypeOK,
                  Questions
    <2>8. CASE \E p \in Names : mpris_status_signal_cb(p) \/ mpris_track_signal_cb(p)
      BY <2>8 DEF mpris_status_signal_cb, mpris_track_signal_cb, Signal, polling, poll, search,
                  window, PollTypeOK, MprisTypeOK, Questions
    <2>9. CASE \E p \in Names : Moves(p) /\ UNCHANGED << table, record >>
      BY <2>9 DEF Moves, poll, search, PollTypeOK, MprisTypeOK, Questions
    <2> QED
      BY <2>1, <2>2, <2>3, <2>4, <2>5, <2>6, <2>7, <2>8, <2>9 DEF MprisNext, Mprises
  <1>2. ti' \in Infos
    <2>1. CASE ti' \in {ti, Prepared}
      BY <2>1, PreparedInfo DEF PollTypeOK, Infos
    <2>2. CASE /\ asking \in Names
               /\ ti' = [status |-> record[asking].status, player |-> asking,
                         text |-> record[asking].text]
      <3>1. record[asking] \in [status : STOPPED .. PLAYING, text : [Fields -> Texts]]
        BY <2>2 DEF MprisTypeOK
      <3>2. record[asking].status \in Modes
        BY <3>1 DEF Modes, CLOSED, STOPPED, PLAYING
      <3> QED
        BY <2>2, <3>1, <3>2 DEF Infos
    <2> QED
      BY <1>1, <2>1, <2>2
  <1>3. PollTypeOK'
    BY <1>1, <1>2, PollTyped DEF Infos, MprisInv, MprisTyped
  <1>4. MprisTypeOK'
    BY <1>1 DEF MprisTypeOK, MprisInv, MprisTyped, Questions
  <1> QED
    BY <1>1, <1>3, <1>4

LEMMA Mpris2Types ==
  ASSUME PollTypeOK, adapter = "MPRIS2", PlayersInv', Mpris2Inv', Mpris2Next
  PROVE  PollTypeOK' /\ Mpris2TypeOK'
  <1>1. /\ lost' \in BOOLEAN /\ asking' \in Names \cup {NoName} /\ left' \subseteq Names
        /\ moves' \in {0, moves} \/ \E p \in Names : Moves(p)
    BY DEF Mpris2Next, Mprises2, get_mpris2_info, BeginPoll, ListsNames, NextName, LastName,
       GetPlaybackStatus, GetMetadata2, GetFails, Calls, Answered, Unanswered,
       CleanupUninitialised, Cleanup, Return, GoesTo, window, search, poll, PollTypeOK, Moves
  <1>2. PollTypeOK'
    BY <1>1, PollTyped DEF Infos, Mpris2Inv, Mpris2Typed
  <1> QED
    BY <1>2 DEF Mpris2TypeOK, Mpris2Inv, Mpris2Typed, Gets

(***************************************************************************)
(* MPD.  Two commands are counted when the list is sent, and reading never *)
(* counts another.                                                         *)
(***************************************************************************)
LEMMA ReadingCounts ==
  ASSUME MpdTyped, NEW c \in Conns, NEW r \in mpd_getNextReturnElement(c)
  PROVE  r.conn.oks <= c.oks
  <1>1. CASE r.conn = ReadsTooMuch(c) \/ r.conn = Breaks(c)
    <2>1. c.oks \in Nat /\ ReadsTooMuch(c).oks = c.oks /\ Breaks(c).oks = c.oks
      BY DEF ReadsTooMuch, Breaks, Conns
    <2>2. r.conn.oks = c.oks
      BY <1>1, <2>1
    <2> QED
      BY <2>1, <2>2
  <1>2. ASSUME NEW line \in Lines
        PROVE  Reads(c, line).oks <= c.oks
    <2>1. /\ [c EXCEPT !.elem = Nothing, !.error = @ \/ c.oks > 0, !.oks = 0, !.done = TRUE,
                       !.doneOk = FALSE].oks = 0
          /\ [c EXCEPT !.elem = Nothing, !.error = TRUE].oks = c.oks
          /\ [c EXCEPT !.elem = Nothing, !.doneOk = TRUE, !.oks = @ - 1].oks = c.oks - 1
          /\ [c EXCEPT !.elem = Nothing, !.error = TRUE, !.done = TRUE, !.doneOk = FALSE].oks = c.oks
          /\ [c EXCEPT !.elem = line].oks = c.oks
      BY DEF Conns
    <2>2. c.oks \in Nat
      BY DEF Conns
    <2>3. Reads(c, line).oks \in {0, c.oks, c.oks - 1}
      BY <2>1 DEF Reads
    <2> QED
      BY <2>2, <2>3
  <1>3. CASE answers # << >> /\ r.conn = Reads(c, Head(answers))
    <2>1. Head(answers) \in Lines
      BY <1>3, HeadTailProperties DEF MpdTyped
    <2> QED
      BY <1>2, <1>3, <2>1
  <1> QED
    BY <1>1, <1>3 DEF mpd_getNextReturnElement

LEMMA SendingCounts ==
  ASSUME NEW c \in Conns, NEW sent \in BOOLEAN
  PROVE  mpd_executeCommand(c, sent).oks <= c.oks + 1
  <1>1. c.oks \in Nat
    BY DEF Conns
  <1>2. mpd_executeCommand(c, sent).oks \in {c.oks, c.oks + 1}
    <2>1. [c EXCEPT !.error = TRUE].oks = c.oks
      BY DEF Conns
    <2>2. [c EXCEPT !.error = FALSE, !.done = c.list /\ c.done,
                    !.oks = IF c.list THEN @ + 1 ELSE @].oks \in {c.oks, c.oks + 1}
      BY DEF Conns
    <2> QED
      BY <2>1, <2>2 DEF mpd_executeCommand
  <1> QED
    BY <1>1, <1>2

LEMMA ListCounts ==
  ASSUME MpdTyped, SendsCommandList
  PROVE  conn'.oks <= 2
  <1>1. PICK begin \in BOOLEAN, status \in BOOLEAN, currentsong \in BOOLEAN, end \in BOOLEAN :
          conn' = mpd_sendCommandListEnd(
                    mpd_executeCommand(
                      mpd_executeCommand(mpd_sendCommandListOkBegin(conn, begin), status),
                      currentsong), end)
    BY DEF SendsCommandList, Sent
  <1> DEFINE c0 == [conn EXCEPT !.list = TRUE]
             c1 == mpd_executeCommand(c0, begin)
             c2 == [c1 EXCEPT !.oks = 0]
             c3 == mpd_executeCommand(c2, status)
             c4 == mpd_executeCommand(c3, currentsong)
             c5 == [c4 EXCEPT !.list = FALSE]
             c6 == mpd_executeCommand(c5, end)
  <1>2. c0 \in Conns
    BY DEF MpdTyped, Conns
  <1>3. c1 \in Conns
    <2> HIDE DEF c0
    <2> QED
      BY <1>2, Executed
  <1>4. c2 \in Conns /\ c2.oks = 0
    <2> HIDE DEF c1
    <2> QED
      BY <1>3 DEF Conns
  <1>5. c3 \in Conns /\ c3.oks <= 1
    <2> HIDE DEF c2
    <2>1. c3 \in Conns /\ c3.oks <= c2.oks + 1
      BY <1>4, Executed, SendingCounts
    <2> HIDE DEF c3
    <2> QED
      BY <1>4, <2>1
  <1>6. c4 \in Conns /\ c4.oks <= 2
    <2> HIDE DEF c3
    <2>1. c3.oks \in Nat /\ c4.oks \in Nat /\ c4 \in Conns
      BY <1>5, Executed DEF Conns
    <2>2. c4.oks <= c3.oks + 1
      BY <1>5, SendingCounts
    <2> HIDE DEF c4
    <2> QED
      BY <1>5, <2>1, <2>2
  <1>7. c5 \in Conns /\ ~ c5.list /\ c5.oks = c4.oks
    <2> HIDE DEF c4
    <2> QED
      BY <1>6 DEF Conns
  <1>8. c6.oks <= 2
    <2> HIDE DEF c5
    <2>1. c6.oks = c5.oks
      BY <1>7, Executed
    <2> HIDE DEF c4, c6
    <2> QED
      BY <1>6, <1>7, <2>1
  <1>9. conn' = c6
    BY <1>1 DEF mpd_sendCommandListEnd, mpd_sendCommandListOkBegin
  <1> HIDE DEF c6
  <1> QED
    BY <1>8, <1>9

LEMMA MpdCounts ==
  ASSUME MpdInv, MpdInv', conn.oks \in 0 .. 2, MpdNext
  PROVE  conn'.oks \in 0 .. 2
  <1>1. conn \in Conns /\ conn' \in Conns /\ MpdTyped
    BY DEF MpdInv, MpdTyped
  <1>2. conn.oks \in Nat /\ conn'.oks \in Nat
    BY <1>1 DEF Conns
  <1>3. ASSUME NEW r, r.conn.oks <= conn.oks, r.conn \in Conns,
               conn' = r.conn \/ conn' = [r.conn EXCEPT !.error = TRUE]
        PROVE  conn'.oks <= 2
    <2>1. conn'.oks = r.conn.oks /\ r.conn.oks \in Nat
      BY <1>3 DEF Conns
    <2> QED
      BY <1>3, <2>1
  <1>4. CASE FinishesPassword \/ FinishesList
    <2>1. CASE UNCHANGED conn
      BY <2>1, <1>2
    <2>2. CASE Finishing
      <3> DEFINE c == [conn EXCEPT !.doneOk = FALSE]
      <3>1. c \in Conns /\ c.oks = conn.oks
        BY <1>1 DEF Conns
      <3>2. PICK r \in mpd_getNextReturnElement(c) : conn' = r.conn
        BY <2>2 DEF Finishing, Continues
      <3> HIDE DEF c
      <3>3. r.conn.oks <= conn.oks
        BY <3>1, <1>1, ReadingCounts
      <3> QED
        BY <3>2, <3>3, <1>2
    <2> QED
      BY <1>4, <2>1, <2>2 DEF FinishesPassword, FinishesList
  <1>5. CASE mpd_getStatus
    <2>1. \/ conn' = conn
          \/ \E r \in mpd_getNextReturnElement(conn) : conn' = r.conn
      BY <1>5 DEF mpd_getStatus, StatusRead
    <2> QED
      BY <2>1, <1>1, <1>2, ReadingCounts
  <1>6. CASE mpd_nextListOkCommand
    <2>1. \/ conn' = [conn EXCEPT !.doneOk = conn.done /\ @]
          \/ \E r \in mpd_getNextReturnElement(conn) : conn' = r.conn
      BY <1>6 DEF mpd_nextListOkCommand, Continues
    <2>2. [conn EXCEPT !.doneOk = conn.done /\ @].oks = conn.oks
      BY <1>1 DEF Conns
    <2>3. conn'.oks <= conn.oks
      <3>1. CASE conn' = [conn EXCEPT !.doneOk = conn.done /\ @]
        BY <3>1, <2>2, <1>2
      <3>2. CASE \E r \in mpd_getNextReturnElement(conn) : conn' = r.conn
        BY <3>2, <1>1, ReadingCounts
      <3> QED
        BY <2>1, <3>1, <3>2
    <2> QED
      BY <2>3, <1>2
  <1>7. CASE mpd_getNextInfoEntity
    <2>1. CASE \E c \in Conns : c.oks <= conn.oks /\ EntityBegins(c)
      <3>1. PICK c \in Conns : c.oks <= conn.oks /\ EntityBegins(c)
        BY <2>1
      <3>2. conn'.oks = c.oks
        BY <3>1 DEF EntityBegins, Conns
      <3> QED
        BY <3>1, <3>2, <1>2
    <2>2. CASE UNCHANGED conn
      BY <2>2, <1>2
    <2>3. CASE /\ ~ AllRead(conn)
               /\ \E r \in mpd_getNextReturnElement(conn) : EntityBegins(r.conn) /\ Happens(r)
      <3>1. PICK r \in mpd_getNextReturnElement(conn) : EntityBegins(r.conn) /\ Happens(r)
        BY <2>3
      <3>2. r.conn \in Conns
        BY <2>3, <3>1, <1>1, NextReturnElement
      <3> QED
        BY <3>1, <3>2, <2>1, <1>1, ReadingCounts
    <2>4. CASE EntityBegins(conn)
      BY <2>4, <2>1, <1>1, <1>2
    <2> QED
      BY <1>7, <2>2, <2>3, <2>4 DEF mpd_getNextInfoEntity
  <1>8. CASE EntityContinues
    <2>1. \E r \in mpd_getNextReturnElement(conn) : conn' = r.conn
      BY <1>8 DEF EntityContinues, TagsRead
    <2> QED
      BY <2>1, <1>1, <1>2, ReadingCounts
  <1>9. CASE SendsCommandList
    <2>1. conn'.oks <= 2
      BY <1>9, <1>1, ListCounts
    <2> QED
      BY <2>1, <1>2
  <1>10. CASE mpd_sendPasswordCommand
    <2>1. pc' = "unlock"
      BY <1>10 DEF mpd_sendPasswordCommand, GoesTo
    <2>2. Starting'
      BY <2>1 DEF MpdInv, Places
    <2> QED
      BY <2>2 DEF Starting
  <1>11. CASE Welcomed
    <2>1. conn' = conn \/ conn' = [conn EXCEPT !.done = TRUE]
      BY <1>11 DEF Welcomed
    <2> QED
      BY <2>1, <1>1, <1>2 DEF Conns
  <1>12. CASE mpd_closeConnection \/ ReturnsEarly
    BY <1>12 DEF mpd_closeConnection, ReturnsEarly, Forgets, Fresh
  <1>13. CASE \/ get_mpd_info \/ Connects \/ SongsRead \/ ServerAnswers \/ MpdMoves
              \/ cb_mpd_changed
    <2>1. UNCHANGED conn
      BY <1>13 DEF get_mpd_info, Connects, SongsRead, ServerAnswers, MpdMoves, cb_mpd_changed,
                   mpd, mpdlocals
    <2> QED
      BY <2>1
  <1> QED
    BY <1>2, <1>4, <1>5, <1>6, <1>7, <1>8, <1>9, <1>10, <1>11, <1>12, <1>13 DEF MpdNext, Mpds

LEMMA MpdTypes ==
  ASSUME PollTypeOK, MpdTypeOK, adapter = "MPD", MpdInv, PlayersInv', MpdInv', MpdNext
  PROVE  PollTypeOK' /\ MpdTypeOK'
  <1>1. /\ UNCHANGED << left, asking >>
        /\ moves' \in {0, moves} \/ \E p \in Names : Moves(p)
    <2>1. CASE \/ Connects \/ Welcomed \/ mpd_sendPasswordCommand \/ FinishesPassword
               \/ SendsCommandList \/ mpd_getStatus \/ mpd_nextListOkCommand
               \/ mpd_getNextInfoEntity \/ EntityContinues \/ SongsRead \/ FinishesList
      BY <2>1 DEF Connects, Welcomed, mpd_sendPasswordCommand, FinishesPassword,
         SendsCommandList, mpd_getStatus, mpd_nextListOkCommand, mpd_getNextInfoEntity,
         EntityContinues, SongsRead, FinishesList, Does, GoesTo, window, search, Finishing,
         Continues, StatusRead, EntityBegins, TagsRead
    <2>2. CASE mpd_closeConnection \/ ReturnsEarly
      BY <2>2 DEF mpd_closeConnection, ReturnsEarly, Does, Return, search
    <2>3. CASE get_mpd_info \/ ServerAnswers \/ cb_mpd_changed
      BY <2>3 DEF get_mpd_info, BeginPoll, ServerAnswers, cb_mpd_changed, polling, poll, window,
         search
    <2>4. CASE MpdMoves
      BY <2>4, PollingAssumption DEF MpdMoves, Moves, poll, search
    <2> QED
      BY <2>1, <2>2, <2>3, <2>4 DEF MpdNext, Mpds
  <1>2. PollTypeOK'
    BY <1>1, PollTyped DEF PollTypeOK, MpdInv, MpdTyped
  <1>3. conn' \in [done : BOOLEAN, list : BOOLEAN, oks : 0 .. 2, doneOk : BOOLEAN,
                   error : BOOLEAN, elem : Lines]
    <2>1. conn'.oks \in 0 .. 2
      BY MpdCounts DEF MpdTypeOK
    <2>2. conn' \in Conns
      BY DEF MpdInv, MpdTyped
    <2> QED
      BY <2>1, <2>2 DEF Conns
  <1>4. requests' \in Seq({"password", "list"}) /\ Len(requests') <= 2
    <2>1. requests' \in {<< >>, << "password" >>, << "list" >>, << "password", "list" >>}
      BY DEF MpdInv, MpdTyped
    <2>2. \A a, b \in {"password", "list"} :
            /\ << >> \in Seq({"password", "list"}) /\ Len(<< >>) = 0
            /\ << a >> \in Seq({"password", "list"}) /\ Len(<< a >>) = 1
            /\ << a, b >> \in Seq({"password", "list"}) /\ Len(<< a, b >>) = 2
      OBVIOUS
    <2>3. requests' \in Seq({"password", "list"})
      BY <2>1, <2>2
    <2>4. Len(requests') \in {0, 1, 2}
      BY <2>1, <2>2
    <2>5. \A n \in {0, 1, 2} : n <= 2
      OBVIOUS
    <2> QED
      BY <2>3, <2>4, <2>5, Zenon
  <1>5. password' \in BOOLEAN /\ leaked' \in BOOLEAN
    BY DEF MpdTypeOK, MpdNext, Mpds, get_mpd_info, Connects, Welcomed, mpd_sendPasswordCommand,
       FinishesPassword, SendsCommandList, mpd_getStatus, mpd_nextListOkCommand,
       mpd_getNextInfoEntity, EntityContinues, SongsRead, FinishesList, mpd_closeConnection,
       ReturnsEarly, Does, Finishing, Continues, StatusRead, EntityBegins, TagsRead, Requests,
       Alone, mpd, ServerAnswers, MpdMoves, cb_mpd_changed
  <1> QED
    BY <1>2, <1>3, <1>4, <1>5 DEF MpdTypeOK, MpdInv, MpdTyped

(***************************************************************************)
(* MSN.                                                                    *)
(***************************************************************************)
LEMMA MsnTypes ==
  ASSUME MsnTypeOK, MsnInv, MsnNext
  PROVE  MsnTypeOK'
  <1>1. msnti' \in MsnStates
    BY MsnStep DEF MsnInv
  <1>2. Zeroed \in MsnStates /\ Zeroed.status = STOPPED
        /\ Silence \in MsnStates /\ Silence.status = CLOSED
    BY DEF Zeroed, Silence, MsnStates, TextOf, CLOSED, STOPPED, PLAYING
  <1>3. CASE \E m \in Messages : process_message(m)
    <2>1. PICK m \in Messages : process_message(m)
      BY <1>3
    <2> DEFINE t     == Captured(m)
               plays == Enabled(m) /\ (t.artist # Empty \/ t.track # Empty \/ t.album # Empty)
               u     == [t EXCEPT !.status = IF plays THEN PLAYING ELSE STOPPED]
    <2>2. t \in MsnStates
      BY MsnCaptures
    <2>3. /\ msnti' \in {Exchanged(u), u}
          /\ sender' \in {sender, m.sender}
          /\ message' = m
          /\ inverted' \in {swap_pref, ~ swap_pref}
          /\ UNCHANGED << MSNWindow, swap_pref, reported >>
      BY <2>1 DEF process_message
    <2> HIDE DEF t
    <2>4. u \in MsnStates /\ u.status \in {STOPPED, PLAYING}
      BY <2>2 DEF MsnStates, CLOSED, STOPPED, PLAYING
    <2> HIDE DEF u
    <2>5. msnti'.status = u.status
      BY <2>3, <2>4 DEF Exchanged, MsnStates
    <2>6. m.sender \in MsnPlayers
      BY DEF Messages
    <2> QED
      BY <1>1, <2>3, <2>4, <2>5, <2>6 DEF MsnTypeOK
  <1>4. CASE get_msn_compat_info
    <2> DEFINE now == IF MSNWindow THEN msnti ELSE Zeroed
    <2>1. /\ MSNWindow' = TRUE /\ msnti' = now
          /\ reported' = IF now.status = PLAYING THEN now ELSE Silence
          /\ UNCHANGED << sender, swap_pref, message, inverted >>
      BY <1>4 DEF get_msn_compat_info
    <2>2. now \in MsnStates /\ now.status \in {STOPPED, PLAYING}
      BY <1>2 DEF MsnTypeOK
    <2> HIDE DEF now
    <2> QED
      BY <1>2, <2>1, <2>2 DEF MsnTypeOK
  <1>5. CASE cb_toggled
    BY <1>5 DEF cb_toggled, MsnTypeOK
  <1> QED
    BY <1>3, <1>4, <1>5 DEF MsnNext

(***************************************************************************)
(* Together.                                                               *)
(***************************************************************************)
LEMMA TypesStep ==
  TypesInv /\ AdaptersInv /\ AdaptersInv' /\ [AdaptersNext]_adaptersvars => TypesInv'
  <1> SUFFICES ASSUME TypesInv, AdaptersInv, AdaptersInv', [AdaptersNext]_adaptersvars
               PROVE  TypesInv'
    OBVIOUS
  <1>1. /\ PollTypeOK /\ QueryTypeOK /\ MprisTypeOK /\ Mpris2TypeOK /\ MpdTypeOK /\ MsnTypeOK
        /\ adapter \in QueryPlayers \cup {"MPRIS", "MPRIS2", "MPD", "MSN"}
        /\ adapter = "MPRIS" => left \subseteq table
    BY DEF TypesInv, AdaptersTypeOK
  <1>2. UNCHANGED adapter /\ QueryPlayers' = QueryPlayers
    BY OwnStep, QueryPlayersAre DEF adaptersvars, polling
  <1>3. /\ UNCHANGED queries => QueryTypeOK'
        /\ UNCHANGED mpris /\ adapter # "MPRIS" => MprisTypeOK'
        /\ adapter # "MPRIS2" => Mpris2TypeOK'
        /\ UNCHANGED mpd => MpdTypeOK'
        /\ UNCHANGED msnvars => MsnTypeOK'
    <2>1. UNCHANGED queries => QueryTypeOK'
      <3> SUFFICES ASSUME UNCHANGED queries PROVE QueryTypeOK'
        OBVIOUS
      <3>1. UNCHANGED << at, handle, connected, g_state, pending, told >>
        BY DEF queries, quodlibet
      <3>2. adapter' \in QueryPlayers => at' \in 1 .. Len(Script[adapter'])
        BY <1>1, <1>2, <3>1 DEF QueryTypeOK
      <3> QED
        BY <1>1, <3>1, <3>2 DEF QueryTypeOK
    <2>2. UNCHANGED mpris /\ adapter # "MPRIS" => MprisTypeOK'
      BY <1>1, <1>2 DEF mpris, MprisTypeOK
    <2>3. adapter # "MPRIS2" => Mpris2TypeOK'
      BY <1>2 DEF Mpris2TypeOK
    <2>4. UNCHANGED mpd => MpdTypeOK'
      BY <1>1 DEF mpd, mpdlocals, MpdTypeOK
    <2>5. UNCHANGED msnvars => MsnTypeOK'
      BY <1>1 DEF msnvars, MsnTypeOK
    <2> QED
      BY <2>1, <2>2, <2>3, <2>4, <2>5
  <1>4. {"MPRIS", "MPRIS2", "MPD", "MSN"} \cap QueryPlayers = {}
    BY QueryPlayersAre
  <1>5. CASE QueryPart
    <2>1. adapter \in QueryPlayers /\ QueryNext /\ UNCHANGED << mpris, mpd, msnvars >>
      BY <1>5 DEF QueryPart, QueryNext
    <2>2. PollTypeOK' /\ QueryTypeOK'
      BY <1>1, <1>2, <2>1, QueryTyped DEF AdaptersInv
    <2> QED
      BY <1>1, <1>2, <1>3, <1>4, <2>1, <2>2 DEF TypesInv, AdaptersTypeOK
  <1>6. CASE MprisPart
    <2>1. adapter = "MPRIS" /\ MprisNext /\ UNCHANGED << queries, mpd, msnvars >>
      BY <1>6 DEF MprisPart, MprisNext
    <2>2. PollTypeOK' /\ MprisTypeOK' /\ left' \subseteq table'
      BY <1>1, <1>2, <2>1, MprisTypes DEF AdaptersInv
    <2> QED
      BY <1>1, <1>2, <1>3, <2>1, <2>2 DEF TypesInv, AdaptersTypeOK
  <1>7. CASE Mpris2Part
    <2>1. adapter = "MPRIS2" /\ Mpris2Next /\ UNCHANGED << queries, mpris, mpd, msnvars >>
      BY <1>7 DEF Mpris2Part, Mpris2Next
    <2>2. PollTypeOK' /\ Mpris2TypeOK'
      BY <1>1, <1>2, <2>1, Mpris2Types DEF AdaptersInv
    <2> QED
      BY <1>1, <1>2, <1>3, <2>1, <2>2 DEF TypesInv, AdaptersTypeOK
  <1>8. CASE MpdPart
    <2>1. adapter = "MPD" /\ MpdNext /\ UNCHANGED << queries, mpris, msnvars >>
      BY <1>8 DEF MpdPart, MpdNext
    <2>2. PollTypeOK' /\ MpdTypeOK'
      BY <1>1, <1>2, <2>1, MpdTypes DEF AdaptersInv
    <2> QED
      BY <1>1, <1>2, <1>3, <2>1, <2>2 DEF TypesInv, AdaptersTypeOK
  <1>9. CASE MsnPart \/ UNCHANGED adaptersvars
    <2>1. UNCHANGED << polling, queries, mpris, mpd >>
      BY <1>9 DEF MsnPart, adaptersvars
    <2>2. UNCHANGED << pc, mode, song, ti, lost, seen, moves, left, asking, table >>
      BY <2>1 DEF polling, players, poll, window, search, mpris
    <2>3. PollTypeOK'
      BY <1>1, <2>2 DEF PollTypeOK
    <2>4. MprisTypeOK'
      BY <1>1, <1>2, <2>1, <2>2 DEF MprisTypeOK, mpris
    <2>5. Mpris2TypeOK'
      BY <1>1, <1>2, <2>2 DEF Mpris2TypeOK
    <2>6. MsnTypeOK'
      <3>1. CASE MsnPart
        BY <1>1, <3>1, MsnTypes DEF AdaptersInv, MsnPart
      <3>2. CASE UNCHANGED adaptersvars
        BY <1>3, <3>2 DEF adaptersvars
      <3> QED
        BY <1>9, <3>1, <3>2
    <2> QED
      BY <1>1, <1>2, <1>3, <2>1, <2>2, <2>3, <2>4, <2>5, <2>6 DEF TypesInv, AdaptersTypeOK
  <1> QED
    BY <1>5, <1>6, <1>7, <1>8, <1>9 DEF AdaptersNext

(* AdaptersTypeOK, for any players, any songs and any number of changes:   *)
(* every variable of the adapters keeps its type, the counters of the MPD  *)
(* connection and of Quod Libet's signals their bounds.                    *)
THEOREM AdaptersTyped == AdaptersSpec => []AdaptersTypeOK
  <1>1. TypesInv => AdaptersTypeOK
    BY DEF TypesInv
  <1> QED
    BY <1>1, TypesBegin, TypesStep, AdaptersInvariant, PTL DEF AdaptersSpec

-----------------------------------------------------------------------------
(***************************************************************************)
(* Polls that nothing disturbs: the player rests and every call is         *)
(* answered.                                                               *)
(***************************************************************************)

(* What a call may take from a player that runs, and from one that plays.  *)
Diligent(x) ==
  /\ x.call \in {"status", "snapshot"} =>
       /\ x.reads[PLAYING] = PLAYING /\ PLAYING \notin x.ends
       /\ \A m \in Modes \ {CLOSED} : x.reads[m] # CLOSED
  /\ x.call = "handle" =>
       \A s \in Modes \ {CLOSED} : \A o \in x.nothing[s] : o.status # CLOSED

(* A script that goes to its end asks for the state and for every field,   *)
(* and for what it needs first.                                            *)
Thorough(s) ==
  /\ \/ s[Len(s)].call = "snapshot"
     \/ \A f \in Fields : \E k \in 1 .. Len(s) : s[k].call = "text" /\ f \in s[k].fields
  /\ \/ s[Len(s)].call \in {"snapshot", "cached"}
     \/ \E k \in 1 .. Len(s) : s[k].call = "status"
  /\ \A k \in 1 .. Len(s) :
       /\ Diligent(s[k])
       /\ s[k].call \in {"snapshot", "cached"} => k = Len(s)
       /\ s[k].call = "handle" => \E j \in 1 .. k - 1 : s[j].call = "status"
       /\ s[k].call = "text" /\ s[k].of = "handle" => \E j \in 1 .. k - 1 : s[j].call = "handle"

(* The outcomes the scripts use.                                           *)
Hopeful(outs) == \A s \in Modes \ {CLOSED} : \A o \in outs[s] : o.status # CLOSED

Steady(reads) == reads[PLAYING] = PLAYING /\ \A m \in Modes \ {CLOSED} : reads[m] # CLOSED

LEMMA OutcomesHopeful ==
  /\ Hopeful(KeepsOn) /\ Hopeful(GivesUp) /\ Hopeful(Leaves(STOPPED))
  /\ Steady(AsIs) /\ Steady(Playing)
  /\ Steady([m \in Modes |-> IF m \in {PAUSED, PLAYING} THEN PLAYING ELSE STOPPED])
  /\ Steady([m \in Modes |-> IF m = PAUSED THEN PAUSED ELSE PLAYING])
  /\ Steady([m \in Modes |-> IF m = STOPPED THEN STOPPED ELSE PLAYING])
  /\ Steady([m \in Modes |-> IF m = PLAYING THEN PLAYING ELSE PAUSED])
  BY DEF Hopeful, Steady, KeepsOn, GivesUp, Leaves, Outcome, AsIs, Playing, Modes, CLOSED,
         STOPPED, PAUSED, PLAYING

(* Each kind of call.                                                      *)
LEMMA CallsAre ==
  /\ Running.call = "running" /\ Diligent(Running)
  /\ Cached.call = "cached" /\ Diligent(Cached)
  /\ \A reads, ends, failed :
       /\ Status(reads, ends, failed).call = "status"
       /\ Steady(reads) /\ PLAYING \notin ends => Diligent(Status(reads, ends, failed))
  /\ \A reads, ends, cut :
       /\ Snapshot(reads, ends, cut).call = "snapshot"
       /\ Steady(reads) /\ PLAYING \notin ends => Diligent(Snapshot(reads, ends, cut))
  /\ \A position, nothing, failed :
       /\ Handle(position, nothing, failed).call = "handle"
       /\ Hopeful(nothing) => Diligent(Handle(position, nothing, failed))
  /\ \A fields, of, failed :
       LET x == Ask(fields, of, failed)
       IN  x.call = "text" /\ x.fields = fields /\ x.of = of /\ Diligent(x)
  BY DEF Running, Cached, Status, Snapshot, Handle, Ask, Diligent, Steady, Hopeful

LEMMA HandleIs ==
  ASSUME NEW position, NEW nothing, NEW failed, Hopeful(nothing)
  PROVE  LET x == Handle(position, nothing, failed) IN x.call = "handle" /\ Diligent(x)
  BY DEF Handle, Diligent, Hopeful

(* The fields, asked for one by one.                                       *)
LEMMA FieldsAre ==
  ASSUME NEW of, NEW failed
  PROVE  \A f \in Fields : \/ f \in Ask({"artist"}, of, failed).fields
                           \/ f \in Ask({"album"}, of, failed).fields
                           \/ f \in Ask({"track"}, of, failed).fields
  BY DEF Fields, Ask

LEMMA InTurnThorough ==
  ASSUME NEW x, NEW y, NEW z, NEW failed, Diligent(x), Diligent(y), Diligent(z)
  PROVE  /\ x.call = "status" => Thorough(<< x >> \o InTurn(failed))
         /\ x.call = "running" /\ y.call = "status" => Thorough(<< x, y >> \o InTurn(failed))
         /\ x.call = "running" /\ y.call = "status" /\ z.call = "handle"
              => Thorough(<< x, y, z >> \o OfHandle(failed))
  <1>1. ASSUME NEW t, NEW u, NEW v
        PROVE  /\ LET s == << x >> \o << t, u, v >>
                  IN  Len(s) = 4 /\ s[1] = x /\ s[2] = t /\ s[3] = u /\ s[4] = v
               /\ LET s == << x, y >> \o << t, u, v >>
                  IN  Len(s) = 5 /\ s[1] = x /\ s[2] = y /\ s[3] = t /\ s[4] = u /\ s[5] = v
               /\ LET s == << x, y, z >> \o << t, u, v >>
                  IN  Len(s) = 6 /\ s[1] = x /\ s[2] = y /\ s[3] = z /\ s[4] = t /\ s[5] = u
                      /\ s[6] = v
    OBVIOUS
  <1>2. ASSUME x.call = "status" PROVE Thorough(<< x >> \o InTurn(failed))
    <2> DEFINE t == Ask({"artist"}, "now", failed)
               u == Ask({"album"}, "now", failed)
               v == Ask({"track"}, "now", failed)
               s == << x >> \o << t, u, v >>
    <2>1. /\ \A c \in {t, u, v} : c.call = "text" /\ c.of = "now" /\ Diligent(c)
          /\ \A f \in Fields : \E c \in {t, u, v} : f \in c.fields
          /\ InTurn(failed) = << t, u, v >>
      BY CallsAre, FieldsAre DEF InTurn
    <2> HIDE DEF t, u, v
    <2>2. Len(s) = 4 /\ s[1] = x /\ s[2] = t /\ s[3] = u /\ s[4] = v
      BY <1>1
    <2> HIDE DEF s
    <2>3. Thorough(s)
      BY <1>2, <2>1, <2>2 DEF Thorough
    <2> QED
      BY <2>1, <2>3 DEF s
  <1>3. ASSUME x.call = "running", y.call = "status" PROVE Thorough(<< x, y >> \o InTurn(failed))
    <2> DEFINE t == Ask({"artist"}, "now", failed)
               u == Ask({"album"}, "now", failed)
               v == Ask({"track"}, "now", failed)
               s == << x, y >> \o << t, u, v >>
    <2>1. /\ \A c \in {t, u, v} : c.call = "text" /\ c.of = "now" /\ Diligent(c)
          /\ \A f \in Fields : \E c \in {t, u, v} : f \in c.fields
          /\ InTurn(failed) = << t, u, v >>
      BY CallsAre, FieldsAre DEF InTurn
    <2> HIDE DEF t, u, v
    <2>2. Len(s) = 5 /\ s[1] = x /\ s[2] = y /\ s[3] = t /\ s[4] = u /\ s[5] = v
      BY <1>1
    <2> HIDE DEF s
    <2>3. Thorough(s)
      BY <1>3, <2>1, <2>2 DEF Thorough
    <2> QED
      BY <2>1, <2>3 DEF s
  <1>4. ASSUME x.call = "running", y.call = "status", z.call = "handle"
        PROVE  Thorough(<< x, y, z >> \o OfHandle(failed))
    <2> DEFINE t == Ask({"artist"}, "handle", failed)
               u == Ask({"album"}, "handle", failed)
               v == Ask({"track"}, "handle", failed)
               s == << x, y, z >> \o << t, u, v >>
    <2>1. /\ \A c \in {t, u, v} : c.call = "text" /\ Diligent(c)
          /\ \A f \in Fields : \E c \in {t, u, v} : f \in c.fields
          /\ OfHandle(failed) = << t, u, v >>
      BY CallsAre, FieldsAre DEF OfHandle
    <2> HIDE DEF t, u, v
    <2>2. /\ Len(s) = 6 /\ s[1] = x /\ s[2] = y /\ s[3] = z /\ s[4] = t /\ s[5] = u
          /\ s[6] = v
      BY <1>1
    <2> HIDE DEF s
    <2>3. Thorough(s)
      BY <1>4, <2>1, <2>2 DEF Thorough
    <2> QED
      BY <2>1, <2>3 DEF s
  <1> QED
    BY <1>2, <1>3, <1>4

LEMMA ShortThorough ==
  ASSUME NEW x, NEW y, NEW z, Diligent(x), Diligent(y), Diligent(z)
  PROVE  /\ x.call = "snapshot" => Thorough(<< x >>)
         /\ x.call = "running" /\ y.call = "snapshot" => Thorough(<< x, y >>)
         /\ \A failed :
              /\ x.call = "running" /\ y.call = "status"
                   => Thorough(<< x, y, Ask(Fields, "now", failed) >>)
              /\ x.call = "running" /\ y.call = "cached"
                   => Thorough(<< x, Ask(Fields, "now", failed), y >>)
              /\ x.call \in {"running", "status"} /\ y.call = "status" /\ z.call = "handle"
                   => Thorough(<< x, y, z, Ask(Fields, "handle", failed) >>)
  <1>1. x.call = "snapshot" => Thorough(<< x >>)
    BY DEF Thorough
  <1>2. x.call = "running" /\ y.call = "snapshot" => Thorough(<< x, y >>)
    BY DEF Thorough
  <1>3. ASSUME NEW t, t.call = "text", Diligent(t), t.fields = Fields
        PROVE  /\ t.of = "now" /\ x.call = "running" /\ y.call = "status" => Thorough(<< x, y, t >>)
               /\ t.of = "now" /\ x.call = "running" /\ y.call = "cached" => Thorough(<< x, t, y >>)
               /\ t.of = "handle" /\ x.call \in {"running", "status"} /\ y.call = "status"
                    /\ z.call = "handle" => Thorough(<< x, y, z, t >>)
    BY <1>3 DEF Thorough
  <1>4. ASSUME NEW failed
        PROVE  /\ x.call = "running" /\ y.call = "status"
                    => Thorough(<< x, y, Ask(Fields, "now", failed) >>)
               /\ x.call = "running" /\ y.call = "cached"
                    => Thorough(<< x, Ask(Fields, "now", failed), y >>)
               /\ x.call \in {"running", "status"} /\ y.call = "status" /\ z.call = "handle"
                    => Thorough(<< x, y, z, Ask(Fields, "handle", failed) >>)
    <2> DEFINE n == Ask(Fields, "now", failed)
               h == Ask(Fields, "handle", failed)
    <2>1. /\ n.call = "text" /\ n.fields = Fields /\ n.of = "now" /\ Diligent(n)
          /\ h.call = "text" /\ h.fields = Fields /\ h.of = "handle" /\ Diligent(h)
      BY CallsAre
    <2> HIDE DEF n, h
    <2>2. /\ x.call = "running" /\ y.call = "status" => Thorough(<< x, y, n >>)
          /\ x.call = "running" /\ y.call = "cached" => Thorough(<< x, n, y >>)
          /\ x.call \in {"running", "status"} /\ y.call = "status" /\ z.call = "handle"
               => Thorough(<< x, y, z, h >>)
      BY <1>3, <2>1
    <2> QED
      BY <2>2 DEF n, h
  <1> QED
    BY <1>1, <1>2, <1>4

(* All of the scripts.                                                     *)
LEMMA ScriptsThorough ==
  ASSUME NEW a \in QueryPlayers
  PROVE  Thorough(Script[a])
  <1>1. PLAYING \notin {STOPPED} /\ PLAYING \notin {PAUSED} /\ PLAYING \notin {}
    BY DEF STOPPED, PAUSED, PLAYING
  <1>2. Thorough(get_amarok_info)
    <2> DEFINE x == Status(AsIs, {STOPPED}, Leaves(CLOSED))
    <2>1. /\ x.call = "status" /\ Diligent(x)
      BY <1>1, CallsAre, OutcomesHopeful
    <2> HIDE DEF x
    <2>2. Thorough(<< x >> \o InTurn(KeepsOn))
      BY <2>1, InTurnThorough
    <2> QED
      BY <2>2 DEF get_amarok_info, x
  <1>3. Thorough(get_audacious_info)
    <2> DEFINE x == Running
               y == Status(AsIs, {STOPPED}, Leaves(CLOSED))
               z == Handle(TRUE, KeepsOn, KeepsOn)
    <2>1. x.call = "running" /\ Diligent(x)
      BY <1>1, CallsAre, OutcomesHopeful
    <2>2. y.call = "status" /\ Diligent(y)
      BY <1>1, CallsAre, OutcomesHopeful
    <2>3. z.call = "handle" /\ Diligent(z)
      BY HandleIs, OutcomesHopeful
    <2> HIDE DEF x, y, z
    <2>4. Thorough(<< x, y, z >> \o OfHandle(KeepsOn))
      BY <2>1, <2>2, <2>3, InTurnThorough
    <2> QED
      BY <2>4 DEF get_audacious_info, x, y, z
  <1>4. Thorough(get_banshee_info_old)
    <2> DEFINE x == Running
               y == Status(AsIs, {STOPPED}, GivesUp)
    <2>1. /\ x.call = "running" /\ Diligent(x)
          /\ y.call = "status" /\ Diligent(y)
      BY <1>1, CallsAre, OutcomesHopeful
    <2> HIDE DEF x, y
    <2>2. Thorough(<< x, y >> \o InTurn(KeepsOn))
      BY <2>1, InTurnThorough
    <2> QED
      BY <2>2 DEF get_banshee_info_old, x, y
  <1>5. Thorough(get_banshee_info_new)
    <2> DEFINE x == Running
               y == Status(AsIs, {STOPPED}, [s \in Modes |-> {Outcome(STOPPED, TRUE), Outcome(PAUSED, FALSE),
                                                Outcome(PLAYING, FALSE)}])
    <2>1. /\ x.call = "running" /\ Diligent(x)
          /\ y.call = "status" /\ Diligent(y)
      BY <1>1, CallsAre, OutcomesHopeful
    <2> HIDE DEF x, y
    <2>2. Thorough(<< x, y, Ask(Fields, "now", GivesUp) >>)
      BY <2>1, ShortThorough
    <2> QED
      BY <2>2 DEF get_banshee_info_new, x, y
  <1>6. Thorough(get_dbusbird_info)
    <2> DEFINE x == Running
               y == Status(AsIs, {STOPPED}, GivesUp)
    <2>1. /\ x.call = "running" /\ Diligent(x)
          /\ y.call = "status" /\ Diligent(y)
      BY <1>1, CallsAre, OutcomesHopeful
    <2> HIDE DEF x, y
    <2>2. Thorough(<< x, y >> \o InTurn(KeepsOn))
      BY <2>1, InTurnThorough
    <2> QED
      BY <2>2 DEF get_dbusbird_info, x, y
  <1>7. Thorough(get_exaile_info)
    <2> DEFINE x == Running
               y == Status(AsIs, {STOPPED}, GivesUp)
    <2>1. /\ x.call = "running" /\ Diligent(x)
          /\ y.call = "status" /\ Diligent(y)
      BY <1>1, CallsAre, OutcomesHopeful
    <2> HIDE DEF x, y
    <2>2. Thorough(<< x, y >> \o InTurn(KeepsOn))
      BY <2>1, InTurnThorough
    <2> QED
      BY <2>2 DEF get_exaile_info, x, y
  <1>8. Thorough(get_listen_info)
    <2> DEFINE x == Running
               y == Snapshot(Playing, {PAUSED}, {})
    <2>1. /\ x.call = "running" /\ Diligent(x)
          /\ y.call = "snapshot" /\ Diligent(y)
      BY <1>1, CallsAre, OutcomesHopeful
    <2> HIDE DEF x, y
    <2>2. Thorough(<< x, y >>)
      BY <2>1, ShortThorough
    <2> QED
      BY <2>2 DEF get_listen_info, x, y
  <1>9. Thorough(get_moc_info)
    <2> DEFINE x == Snapshot(AsIs, {}, {STOPPED})
    <2>1. /\ x.call = "snapshot" /\ Diligent(x)
      BY <1>1, CallsAre, OutcomesHopeful
    <2> HIDE DEF x
    <2>2. Thorough(<< x >>)
      BY <2>1, ShortThorough
    <2> QED
      BY <2>2 DEF get_moc_info, x
  <1>10. Thorough(get_quodlibet_info)
    <2> DEFINE x == Running
               y == Cached
    <2>1. /\ x.call = "running" /\ Diligent(x)
          /\ y.call = "cached" /\ Diligent(y)
      BY <1>1, CallsAre, OutcomesHopeful
    <2> HIDE DEF x, y
    <2>2. Thorough(<< x, Ask(Fields, "now", Leaves(STOPPED)), y >>)
      BY <2>1, ShortThorough
    <2> QED
      BY <2>2 DEF get_quodlibet_info, x, y
  <1>11. Thorough(get_rhythmbox_info)
    <2> DEFINE x == Running
               y == Status(Playing, {}, Leaves(STOPPED))
               z == Handle(FALSE, KeepsOn, Leaves(CLOSED))
    <2>1. x.call = "running" /\ Diligent(x)
      BY <1>1, CallsAre, OutcomesHopeful
    <2>2. y.call = "status" /\ Diligent(y)
      BY <1>1, CallsAre, OutcomesHopeful
    <2>3. z.call = "handle" /\ Diligent(z)
      BY HandleIs, OutcomesHopeful
    <2> HIDE DEF x, y, z
    <2>4. Thorough(<< x, y, z,
                       Ask(Fields, "handle",
                           [s \in Modes |-> {Outcome(IF s = PLAYING THEN CLOSED ELSE STOPPED,
                                                     TRUE)}]) >>)
      BY <2>1, <2>2, <2>3, ShortThorough
    <2> QED
      BY <2>4 DEF get_rhythmbox_info, x, y, z
  <1>12. Thorough(get_xmmsctrl_info)
    <2> DEFINE x == Status([m \in Modes |-> IF m \in {PAUSED, PLAYING} THEN PLAYING ELSE STOPPED],
                           {STOPPED}, Leaves(STOPPED))
               y == Status([m \in Modes |-> IF m = PAUSED THEN PAUSED ELSE PLAYING], {},
                           Takes(PLAYING))
               z == Handle(TRUE, KeepsOn, KeepsOn)
    <2>1. x.call = "status" /\ Diligent(x)
      BY <1>1, CallsAre, OutcomesHopeful
    <2>2. y.call = "status" /\ Diligent(y)
      BY <1>1, CallsAre, OutcomesHopeful
    <2>3. z.call = "handle" /\ Diligent(z)
      BY HandleIs, OutcomesHopeful
    <2> HIDE DEF x, y, z
    <2>4. Thorough(<< x, y, z, Ask(Fields, "handle", KeepsOn) >>)
      BY <2>1, <2>2, <2>3, ShortThorough
    <2> QED
      BY <2>4 DEF get_xmmsctrl_info, x, y, z
  <1>13. Thorough(get_xmms2_info)
    <2> DEFINE x == Running
               y == Status(AsIs, {}, GivesUp)
               z == Handle(FALSE, GivesUp, GivesUp)
    <2>1. x.call = "running" /\ Diligent(x)
      BY <1>1, CallsAre, OutcomesHopeful
    <2>2. y.call = "status" /\ Diligent(y)
      BY <1>1, CallsAre, OutcomesHopeful
    <2>3. z.call = "handle" /\ Diligent(z)
      BY HandleIs, OutcomesHopeful
    <2> HIDE DEF x, y, z
    <2>4. Thorough(<< x, y, z, Ask(Fields, "handle", GivesUp) >>)
      BY <2>1, <2>2, <2>3, ShortThorough
    <2> QED
      BY <2>4 DEF get_xmms2_info, x, y, z
  <1>14. Thorough(get_foobar2000_info)
    <2> DEFINE x == Running
               y == Snapshot([m \in Modes |-> IF m = STOPPED THEN STOPPED ELSE PLAYING],
                             {STOPPED}, {})
    <2>1. /\ x.call = "running" /\ Diligent(x)
          /\ y.call = "snapshot" /\ Diligent(y)
      BY <1>1, CallsAre, OutcomesHopeful
    <2> HIDE DEF x, y
    <2>2. Thorough(<< x, y >>)
      BY <2>1, ShortThorough
    <2> QED
      BY <2>2 DEF get_foobar2000_info, x, y
  <1>15. Thorough(get_itunes_info)
    <2> DEFINE x == Running
               y == Status([m \in Modes |-> IF m = PLAYING THEN PLAYING ELSE PAUSED], {},
                           GivesUp)
               z == Handle(FALSE, Leaves(STOPPED), GivesUp)
    <2>1. x.call = "running" /\ Diligent(x)
      BY <1>1, CallsAre, OutcomesHopeful
    <2>2. y.call = "status" /\ Diligent(y)
      BY <1>1, CallsAre, OutcomesHopeful
    <2>3. z.call = "handle" /\ Diligent(z)
      BY HandleIs, OutcomesHopeful
    <2> HIDE DEF x, y, z
    <2>4. Thorough(<< x, y, z >> \o OfHandle(KeepsOn))
      BY <2>1, <2>2, <2>3, InTurnThorough
    <2> QED
      BY <2>4 DEF get_itunes_info, x, y, z
  <1>16. Thorough(get_winamp_info)
    <2> DEFINE x == Running
               y == Status(AsIs, {}, Takes(STOPPED))
               z == Handle(TRUE, KeepsOn, KeepsOn)
    <2>1. x.call = "running" /\ Diligent(x)
      BY <1>1, CallsAre, OutcomesHopeful
    <2>2. y.call = "status" /\ Diligent(y)
      BY <1>1, CallsAre, OutcomesHopeful
    <2>3. z.call = "handle" /\ Diligent(z)
      BY HandleIs, OutcomesHopeful
    <2> HIDE DEF x, y, z
    <2>4. Thorough(<< x, y, z >> \o OfHandle(KeepsOn))
      BY <2>1, <2>2, <2>3, InTurnThorough
    <2> QED
      BY <2>4 DEF get_winamp_info, x, y, z
  <1>17. Thorough(get_wmp_info)
    <2> DEFINE x == Running
               y == Status(AsIs, {}, KeepsOn)
    <2>1. /\ x.call = "running" /\ Diligent(x)
          /\ y.call = "status" /\ Diligent(y)
      BY <1>1, CallsAre, OutcomesHopeful
    <2> HIDE DEF x, y
    <2>2. Thorough(<< x, y >> \o InTurn(KeepsOn))
      BY <2>1, InTurnThorough
    <2> QED
      BY <2>2 DEF get_wmp_info, x, y
  <1> QED
    BY <1>2, <1>3, <1>4, <1>5, <1>6, <1>7, <1>8, <1>9, <1>10, <1>11, <1>12, <1>13, <1>14, <1>15, <1>16, <1>17, QueryPlayersAre
    DEF Script

(* What Quod Libet has said last, dispatched or not.                       *)
Latest == IF pending = << >> THEN g_state ELSE pending[Len(pending)]

SaidInv == told => connected /\ mode[Target] # CLOSED /\ Latest = Says

(* Calls made before the k-th.                                             *)
Made(k, call) == \E j \in 1 .. k - 1 : Script[adapter][j].call = call
MadeFor(k, f) ==
  \E j \in 1 .. k - 1 : Script[adapter][j].call = "text" /\ f \in Script[adapter][j].fields

(* What they have established of a player that rests.                      *)
StateKnown(k) ==
  Made(k, "status") => ti.status # CLOSED /\ (mode[Target] = PLAYING => ti.status = PLAYING)
FieldKnown(k, f) == mode[Target] = PLAYING /\ MadeFor(k, f) => ti.text[f] = song[Target]
HandleKnown(k) == mode[Target] = PLAYING /\ Made(k, "handle") => handle = song[Target]

RestInv ==
  pc = "asking" /\ ~ lost /\ seen[Target] = {Is(Target)} =>
    /\ at = 1 => ti = Prepared
    /\ at > 1 => mode[Target] # CLOSED
    /\ StateKnown(at) /\ HandleKnown(at) /\ \A f \in Fields : FieldKnown(at, f)

(* A player that changes during the poll does not rest.                    *)
LEMMA NoRest ==
  ASSUME PlayersInv, Moves(Target), pc # "idle"
  PROVE  seen'[Target] # {Is(Target)'}
  <1>1. Is(Target) \in seen[Target] /\ Target \in Names /\ Target \in DOMAIN seen
    BY PollingAssumption DEF PlayersInv, PlayersTyped, SeenNow
  <1>2. seen' = [seen EXCEPT ![Target] = @ \cup {Is(Target)'}]
    BY DEF Moves
  <1>3. Is(Target)' # Is(Target)
    <2>1. PICK m \in Modes :
             \E s \in IF m \in {PAUSED, PLAYING} THEN Library[Target] ELSE {NoText} :
               /\ [mode |-> m, song |-> s] # Is(Target)
               /\ mode' = [mode EXCEPT ![Target] = m]
               /\ song' = [song EXCEPT ![Target] = s]
      BY DEF Moves
    <2>2. PICK s \in IF m \in {PAUSED, PLAYING} THEN Library[Target] ELSE {NoText} :
             /\ [mode |-> m, song |-> s] # Is(Target)
             /\ mode' = [mode EXCEPT ![Target] = m]
             /\ song' = [song EXCEPT ![Target] = s]
      BY <2>1
    <2>3. mode'[Target] = m /\ song'[Target] = s
      BY <1>1, <2>2 DEF PlayersInv, PlayersTyped
    <2> QED
      BY <2>2, <2>3 DEF Is
  <1> QED
    BY <1>1, <1>2, <1>3

-----------------------------------------------------------------------------
(***************************************************************************)
(* What Quod Libet says.                                                   *)
(***************************************************************************)
LEMMA LastOf ==
  ASSUME NEW S, NEW q \in Seq(S)
  PROVE  /\ \A x \in S : Append(q, x) # << >> /\ Append(q, x)[Len(Append(q, x))] = x
         /\ q # << >> => IF Tail(q) = << >> THEN q[Len(q)] = Head(q)
                         ELSE Tail(q)[Len(Tail(q))] = q[Len(q)]
  <1>1. ASSUME NEW x \in S PROVE Append(q, x) # << >> /\ Append(q, x)[Len(Append(q, x))] = x
    <2>1. Len(Append(q, x)) = Len(q) + 1 /\ Append(q, x)[Len(q) + 1] = x
      BY AppendProperties
    <2> QED
      BY <2>1, AppendProperties
  <1>2. ASSUME q # << >>
        PROVE  IF Tail(q) = << >> THEN q[Len(q)] = Head(q)
               ELSE Tail(q)[Len(Tail(q))] = q[Len(q)]
    <2>1. /\ Tail(q) \in Seq(S) /\ Len(Tail(q)) = Len(q) - 1 /\ Head(q) = q[1]
          /\ \A i \in 1 .. Len(Tail(q)) : Tail(q)[i] = q[i + 1]
      BY <1>2, HeadTailProperties
    <2>2. Len(q) \in Nat /\ Len(Tail(q)) \in Nat
      BY <2>1, LenProperties
    <2>3. Tail(q) = << >> <=> Len(Tail(q)) = 0
      BY <2>1, EmptySeq
    <2>4. CASE Tail(q) = << >>
      BY <2>1, <2>2, <2>3, <2>4
    <2>5. CASE Tail(q) # << >>
      <3>1. Len(Tail(q)) \in 1 .. Len(Tail(q)) /\ Len(Tail(q)) + 1 = Len(q)
        BY <2>1, <2>2, <2>3, <2>5
      <3> QED
        BY <2>1, <2>5, <3>1
    <2> QED
      BY <2>4, <2>5
  <1> QED
    BY <1>1, <1>2

LEMMA SaidStep ==
  ASSUME PlayersInv, PlayersInv', QueryTypeOK, SaidInv, QueryNext
  PROVE  SaidInv'
  <1> SUFFICES ASSUME told' PROVE connected' /\ mode'[Target] # CLOSED /\ Latest' = Says'
    BY DEF SaidInv
  <1>1. pending \in Seq({PAUSED, PLAYING})
    BY DEF QueryTypeOK
  <1>2. CASE UNCHANGED << mode, quodlibet >>
    BY <1>2 DEF SaidInv, Latest, Says, quodlibet
  <1>3. CASE dbus_g_running
    BY <1>3 DEF dbus_g_running, Asking, players, quodlibet, SaidInv, Latest, Says
  <1>4. CASE cb_quodlibet_paused
    <2>1. /\ pending # << >> /\ g_state' = Head(pending) /\ pending' = Tail(pending)
          /\ UNCHANGED << mode, connected, told >>
      BY <1>4 DEF cb_quodlibet_paused, polling, players
    <2>2. Latest' = Latest
      BY <1>1, <2>1, LastOf DEF Latest
    <2> QED
      BY <2>1, <2>2 DEF SaidInv, Says
  <1>5. CASE QueriedMoves
    <2>1. UNCHANGED << connected, g_state >>
      BY <1>5 DEF QueriedMoves
    <2>2. CASE connected /\ mode[Target] # CLOSED /\ mode'[Target] # CLOSED /\ Says' # Says
      <3>1. pending' = Append(pending, Says')
        BY <1>5, <2>2 DEF QueriedMoves
      <3>2. Says' \in {PAUSED, PLAYING}
        <4>1. mode'[Target] \in Modes
          BY PollingAssumption DEF PlayersInv, PlayersTyped
        <4> QED
          BY <4>1 DEF Says, Playing
      <3> QED
        BY <1>1, <2>1, <2>2, <3>1, <3>2, LastOf DEF Latest
    <2>3. CASE ~ (connected /\ mode[Target] # CLOSED /\ mode'[Target] # CLOSED /\ Says' # Says)
      <3>1. pending' = pending /\ told /\ mode'[Target] # CLOSED
        BY <1>5, <2>3 DEF QueriedMoves
      <3> QED
        BY <2>1, <2>3, <3>1 DEF SaidInv, Latest
    <2> QED
      BY <2>2, <2>3
  <1> QED
    BY <1>2, <1>3, <1>4, <1>5
    DEF QueryNext, Queries, get_player_info, BeginPoll, players, StatusAnswered, HandleAnswered,
        TextAnswered, SnapshotAnswered, SnapshotCut, CallFails, ReadsState, Answers, Asking

(* One call more.                                                          *)
LEMMA MadeOneMore ==
  ASSUME at \in Nat \ {0}, NEW k \in Nat, k = at + 1
  PROVE  /\ \A c : Made(k, c) <=> Made(at, c) \/ Step.call = c
         /\ \A f : MadeFor(k, f) <=> MadeFor(at, f) \/ (Step.call = "text" /\ f \in Step.fields)
  <1>1. 1 .. k - 1 = (1 .. at - 1) \cup {at}
    OBVIOUS
  <1> QED
    BY <1>1 DEF Made, MadeFor, Step

(* What is known at the end of the script suffices.                        *)
LEMMA ScriptDone ==
  ASSUME adapter \in QueryPlayers, UNCHANGED << adapter, mode, song >>, Formed(ti'),
         mode[Target] # CLOSED, NEW k \in Nat, k = Len(Script[adapter]) + 1,
         Script[adapter][Len(Script[adapter])].call \notin {"snapshot", "cached"},
         StateKnown(k)', \A f \in Fields : FieldKnown(k, f)'
  PROVE  RightReport'
  <1>1. Thorough(Script[adapter]) /\ Len(Script[adapter]) \in Nat
    BY ScriptsThorough, ScriptsFair DEF FairScript
  <1>2. Made(k, "status") /\ \A f \in Fields : MadeFor(k, f)
    BY <1>1 DEF Thorough, Made, MadeFor
  <1>3. UNCHANGED Script[adapter]
    BY DEF Script
  <1>4. Made(k, "status")' /\ \A f \in Fields : MadeFor(k, f)'
    BY <1>2, <1>3 DEF Made, MadeFor
  <1>5. mode[Target] = PLAYING => ti'.text = Text(song'[Target]) /\ ti'.status = PLAYING
    BY <1>4 DEF StateKnown, FieldKnown, Formed, Text
  <1>6. ti'.status # CLOSED
    BY <1>4 DEF StateKnown
  <1> QED
    BY <1>5, <1>6 DEF RightReport

(* A call of a poll that nothing disturbs adds to what is known, or ends   *)
(* the poll with what is right.                                            *)
LEMMA RestAsks ==
  ASSUME PlayersInv, TruthInv, QueryTypeOK, SaidInv, RestInv, adapter \in QueryPlayers,
         pc = "asking", Calling, ~ lost', seen[Target] = {Is(Target)}
  PROVE  /\ pc' = "asking" => RestInv'
         /\ pc' = "idle" /\ pending = << >> => RightReport'
  <1> DEFINE n == Len(Script[adapter])
  <1>1. /\ at \in 1 .. n /\ n \in Nat \ {0} /\ (Last <=> at = n)
        /\ Fair(adapter, at, Step) /\ Thorough(Script[adapter])
    BY ScriptsFair, ScriptsThorough DEF TruthInv, FairScript, Step, Last
  <1>2. /\ Diligent(Step)
        /\ Step.call \in {"snapshot", "cached"} => Last
        /\ Step.call = "handle" => Made(at, "status")
        /\ Step.call = "text" /\ Step.of = "handle" => Made(at, "handle")
    BY <1>1 DEF Thorough, Step, Made
  <1>3. UNCHANGED << adapter, mode, song >> /\ UNCHANGED Script[adapter]
    BY DEF Calling, dbus_g_running, StatusAnswered, HandleAnswered, TextAnswered, SnapshotAnswered,
           SnapshotCut, CallFails, ReadsState, Answers, Asking, players, Script
  <1>4. ~ lost
    BY DEF Calling, dbus_g_running, StatusAnswered, HandleAnswered, TextAnswered, SnapshotAnswered,
           SnapshotCut, CallFails, ReadsState, Answers, Answered, Unanswered
  <1>5. /\ at = 1 => ti = Prepared
        /\ at > 1 => mode[Target] # CLOSED
        /\ StateKnown(at) /\ HandleKnown(at) /\ \A f \in Fields : FieldKnown(at, f)
    BY <1>4 DEF RestInv
  <1>6. /\ mode[Target] \in Modes /\ SeenModes(Target) = {mode[Target]}
        /\ SeenSongs(Target) = {song[Target]} \ {NoText}
        /\ song[Target] = NoText <=> mode[Target] \in {CLOSED, STOPPED}
    BY RestingSeen, PollingAssumption DEF PlayersInv, PlayersTyped, SongsMatch
  <1>7. Formed(ti) /\ Formed(ti') /\ (pc' = "idle" \/ (pc' = "asking" /\ at' = at + 1 /\ ~ Last))
    BY CallsFill DEF TruthInv, Calling
  <1>8. PICK k \in Nat : k = at + 1
    BY <1>1
  <1>9. /\ \A c : Made(k, c) <=> Made(at, c) \/ Step.call = c
        /\ \A f : MadeFor(k, f) <=> MadeFor(at, f) \/ (Step.call = "text" /\ f \in Step.fields)
    BY <1>1, <1>8, MadeOneMore
  <1>10. /\ \A c : Made(k, c)' = Made(k, c)
         /\ \A f : MadeFor(k, f)' = MadeFor(k, f)
    BY <1>3 DEF Made, MadeFor
  <1>11. STOPPED # CLOSED /\ STOPPED # PLAYING /\ CLOSED # PLAYING /\ PLAYING \in Modes
    BY DEF STOPPED, CLOSED, PLAYING, Modes
  <1> HIDE DEF n
  <1> DEFINE Knows == StateKnown(k)' /\ (\A f \in Fields : FieldKnown(k, f)')
                      /\ (pc' = "asking" => HandleKnown(k)')
             Goal == /\ pc' = "asking" => RestInv'
                     /\ pc' = "idle" /\ pending = << >> => RightReport'
  <1>12. ASSUME mode[Target] # CLOSED, Knows,
                pc' = "idle" => Last /\ Step.call \notin {"snapshot", "cached"}
         PROVE  Goal
    <2>1. CASE pc' = "asking"
      <3>1. at' = k /\ at' # 1
        BY <1>1, <1>7, <1>8, <2>1
      <3> QED
        BY <1>3, <1>12, <2>1, <3>1 DEF RestInv
    <2>2. CASE pc' = "idle"
      <3>1. k = Len(Script[adapter]) + 1
        BY <1>1, <1>8, <1>12, <2>2 DEF n
      <3>2. Script[adapter][Len(Script[adapter])].call \notin {"snapshot", "cached"}
        BY <1>1, <1>12, <2>2 DEF n, Step
      <3>3. RightReport'
        BY <1>3, <1>7, <1>12, <3>1, <3>2, ScriptDone
      <3> QED
        BY <2>2, <3>3
    <2> QED
      BY <1>7, <2>1, <2>2
  <1> HIDE DEF Knows, Goal
  <1>13. \A s : WithStatus(s) => ti'.status = s /\ ti'.text = ti.text
    BY <1>7 DEF WithStatus, Formed
  <1>14. \A r : Goes(r) => /\ pc' = "asking" => ~ r /\ handle' = handle
                           /\ pc' = "idle" => r \/ Last
    BY DEF Goes, Return
  <1>15. Made(at, "handle") => Made(at, "status")
    <2>1. ASSUME NEW j \in 1 .. at - 1, Script[adapter][j].call = "handle"
          PROVE  \E i \in 1 .. at - 1 : Script[adapter][i].call = "status"
      <3>1. \E i \in 1 .. j - 1 : Script[adapter][i].call = "status"
        BY <1>1, <2>1 DEF Thorough, n
      <3> QED
        BY <1>1, <3>1
    <2> QED
      BY <2>1 DEF Made
  <1>16. ASSUME dbus_g_running PROVE Goal
    <2>1. Step.call = "running" /\ ti' = ti /\ Goes(mode[Target] = CLOSED)
      BY <1>16 DEF dbus_g_running, Asking, Unanswered
    <2>2. CASE mode[Target] = CLOSED
      <3>1. at = 1
        BY <1>1, <1>5, <2>2
      <3>2. ti = Prepared /\ pc' = "idle"
        BY <1>5, <2>1, <2>2, <3>1 DEF Goes, Return
      <3>3. ti'.status <= STOPPED /\ ti'.text = Text(NoText)
        BY <2>1, <3>2 DEF Prepared, CLOSED, STOPPED
      <3>4. mode'[Target] = CLOSED
        BY <1>3, <2>2
      <3>5. RightReport'
        BY <1>11, <3>3, <3>4 DEF RightReport
      <3> QED
        BY <3>2, <3>5 DEF Goal
    <2>3. CASE mode[Target] # CLOSED
      <3>1. StateKnown(k)'
        BY <1>3, <1>5, <1>9, <1>10, <2>1 DEF StateKnown
      <3>2. \A f \in Fields : FieldKnown(k, f)'
        BY <1>3, <1>5, <1>9, <1>10, <2>1 DEF FieldKnown
      <3>3. pc' = "asking" => HandleKnown(k)'
        BY <1>3, <1>5, <1>9, <1>10, <1>14, <2>1 DEF HandleKnown
      <3>4. Knows
        BY <3>1, <3>2, <3>3 DEF Knows
      <3> QED
        BY <1>12, <1>14, <2>1, <2>3, <3>4
    <2> QED
      BY <2>2, <2>3
  <1>17. ASSUME StatusAnswered PROVE Goal
    <2> DEFINE s == Step.reads[mode[Target]]
    <2>1. /\ Step.call = "status" /\ mode[Target] # CLOSED /\ Goes(s \in Step.ends)
          /\ ti'.status = s /\ ti'.text = ti.text
      BY <1>13, <1>17 DEF StatusAnswered, Answers, Asking
    <2>2. s # CLOSED /\ (mode[Target] = PLAYING => s = PLAYING /\ s \notin Step.ends)
      BY <1>2, <1>6, <2>1 DEF Diligent
    <2> HIDE DEF s
    <2>3. CASE s \in Step.ends
      <3>1. pc' = "idle"
        BY <1>7, <1>14, <2>1, <2>3
      <3>2. RightReport'
        BY <1>3, <2>1, <2>2, <2>3 DEF RightReport
      <3> QED
        BY <3>1, <3>2 DEF Goal
    <2>4. CASE s \notin Step.ends
      <3>1. StateKnown(k)'
        BY <1>3, <2>1, <2>2 DEF StateKnown
      <3>2. \A f \in Fields : FieldKnown(k, f)'
        BY <1>3, <1>5, <1>9, <1>10, <2>1 DEF FieldKnown
      <3>3. pc' = "asking" => HandleKnown(k)'
        BY <1>3, <1>5, <1>9, <1>10, <1>14, <2>1 DEF HandleKnown
      <3>4. Knows
        BY <3>1, <3>2, <3>3 DEF Knows
      <3>5. pc' = "idle" => Last
        BY <2>1, <2>4 DEF Goes
      <3> QED
        BY <1>12, <2>1, <3>4, <3>5
    <2> QED
      BY <2>3, <2>4
  <1>18. ASSUME HandleAnswered PROVE Goal
    <2>1. Step.call = "handle" /\ mode[Target] # CLOSED
      BY <1>18 DEF HandleAnswered, Answers, Asking
    <2>2. ti.status # CLOSED /\ ti.status \in Modes
      BY <1>2, <1>5, <2>1 DEF StateKnown, TruthInv
    <2>3. CASE ti' = ti /\ \E x \in AtPosition : TakesHandle(x)
      <3>1. PICK x \in AtPosition : TakesHandle(x)
        BY <2>3
      <3>2. (pc' = "asking" => handle' = x) /\ (pc' = "idle" => Last)
        BY <3>1 DEF TakesHandle, Return
      <3>3. mode[Target] = PLAYING => x = song[Target]
        BY <1>6, <1>11, <3>1 DEF AtPosition
      <3>4. StateKnown(k)'
        BY <1>3, <1>5, <1>9, <1>10, <2>1, <2>3 DEF StateKnown
      <3>5. \A f \in Fields : FieldKnown(k, f)'
        BY <1>3, <1>5, <1>9, <1>10, <2>1, <2>3 DEF FieldKnown
      <3>6. pc' = "asking" => HandleKnown(k)'
        BY <1>3, <3>2, <3>3 DEF HandleKnown
      <3>7. Knows
        BY <3>4, <3>5, <3>6 DEF Knows
      <3> QED
        BY <1>12, <2>1, <3>2, <3>7
    <2>4. CASE /\ song[Target] = NoText
               /\ \E o \in Step.nothing[ti.status] : WithStatus(o.status) /\ Goes(o.returns)
      <3>1. PICK o \in Step.nothing[ti.status] : WithStatus(o.status) /\ Goes(o.returns)
        BY <2>4
      <3>2. mode[Target] # PLAYING
        BY <1>6, <1>11, <2>4
      <3>3. o.status # CLOSED /\ ti'.status = o.status
        BY <1>2, <1>13, <2>1, <2>2, <3>1 DEF Diligent
      <3>4. RightReport'
        BY <1>3, <2>1, <3>2, <3>3 DEF RightReport
      <3>5. Knows
        BY <1>3, <3>2, <3>3 DEF Knows, StateKnown, FieldKnown, HandleKnown
      <3>6. CASE pc' = "idle"
        BY <3>4, <3>6 DEF Goal
      <3>7. CASE pc' = "asking"
        BY <1>12, <2>1, <3>5, <3>7
      <3> QED
        BY <1>7, <3>6, <3>7
    <2> QED
      BY <1>18, <2>3, <2>4 DEF HandleAnswered
  <1>19. ASSUME TextAnswered PROVE Goal
    <2> DEFINE v == IF Step.of = "handle" THEN handle ELSE song[Target]
    <2>1. /\ Step.call = "text" /\ mode[Target] # CLOSED /\ Goes(FALSE)
          /\ ti' = [ti EXCEPT !.text = WithText(Step.fields, v)]
      BY <1>19 DEF TextAnswered, Answers, Asking
    <2>2. mode[Target] = PLAYING => v = song[Target]
      BY <1>2, <1>5, <2>1 DEF HandleKnown
    <2> HIDE DEF v
    <2>3. \A f \in Fields : WithText(Step.fields, v)[f] = IF f \in Step.fields THEN v ELSE ti.text[f]
      BY <1>7 DEF WithText, Formed, Fields
    <2>4. ti'.status = ti.status /\ ti'.text = WithText(Step.fields, v)
      BY <1>7, <2>1 DEF Formed
    <2>5. StateKnown(k)'
      BY <1>3, <1>5, <1>9, <1>10, <2>1, <2>4 DEF StateKnown
    <2>6. \A f \in Fields : FieldKnown(k, f)'
      BY <1>3, <1>5, <1>9, <1>10, <2>1, <2>2, <2>3, <2>4 DEF FieldKnown
    <2>7. pc' = "asking" => HandleKnown(k)'
      BY <1>3, <1>5, <1>9, <1>10, <1>14, <2>1 DEF HandleKnown
    <2>8. Knows
      BY <2>5, <2>6, <2>7 DEF Knows
    <2> QED
      BY <1>12, <1>14, <2>1, <2>8
  <1>20. ASSUME SnapshotAnswered PROVE Goal
    <2> DEFINE s == Step.reads[mode[Target]]
    <2>1. /\ Step.call = "snapshot" /\ mode[Target] # CLOSED /\ Goes(TRUE)
          /\ ti' = [ti EXCEPT !.status = s,
                              !.text = IF s \in Step.ends THEN @ ELSE Text(song[Target])]
      BY <1>20 DEF SnapshotAnswered, Answers, Asking
    <2>2. s # CLOSED /\ (mode[Target] = PLAYING => s = PLAYING /\ s \notin Step.ends)
      BY <1>2, <1>6, <2>1 DEF Diligent
    <2> HIDE DEF s
    <2>3. ti'.status = s /\ (s \notin Step.ends => ti'.text = Text(song[Target]))
      BY <1>7, <2>1 DEF Formed
    <2>4. RightReport'
      BY <1>3, <2>1, <2>2, <2>3 DEF RightReport, Text
    <2>5. pc' = "idle"
      BY <1>7, <1>14, <2>1
    <2> QED
      BY <2>4, <2>5 DEF Goal
  <1>21. ASSUME CallFails PROVE Goal
    <2>1. mode[Target] = CLOSED /\ at = 1 /\ ti = Prepared
      BY <1>1, <1>5, <1>6, <1>21 DEF CallFails, Unanswered
    <2>2. PICK o \in Step.failed[ti.status] :
             /\ WithStatus(o.status)
             /\ \/ Step.call # "handle" /\ Goes(o.returns)
                \/ Step.call = "handle"
      BY <1>21 DEF CallFails
    <2>3. Step.call \in {"status", "handle", "text", "snapshot"}
      BY <1>21 DEF CallFails, Asking
    <2>4. ti.status \in Modes
      BY DEF TruthInv
    <2>5. o.returns /\ o.status \notin Plays /\ o.status \in Modes /\ Step.call # "handle"
      BY <1>1, <2>1, <2>2, <2>3, <2>4 DEF Fair, Quiet, Modest
    <2>6. pc' = "idle"
      BY <1>7, <1>14, <2>2, <2>5
    <2>7. ti'.status <= STOPPED /\ ti'.text = Text(NoText)
      <3>1. ti'.status = o.status /\ ti'.text = ti.text
        BY <1>13, <2>2
      <3>2. o.status <= STOPPED
        BY <2>5 DEF Modes, Plays, CLOSED, STOPPED, PAUSED, PLAYING
      <3> QED
        BY <2>1, <3>1, <3>2 DEF Prepared
    <2>8. mode'[Target] = CLOSED
      BY <1>3, <2>1
    <2>9. RightReport'
      BY <1>11, <2>7, <2>8 DEF RightReport
    <2> QED
      BY <2>6, <2>9 DEF Goal
  <1>22. ASSUME ReadsState PROVE Goal
    <2>1. /\ Step.call = "cached" /\ Goes(TRUE) /\ WithStatus(g_state)
          /\ UNCHANGED << pending, g_state, told >>
      BY <1>22 DEF ReadsState, Asking, quodlibet
    <2>2. Last /\ at > 1 /\ adapter = "QuodLibet"
      BY <1>1, <1>2, <2>1 DEF Fair
    <2>3. ASSUME NEW f \in Fields PROVE MadeFor(at, f)
      <3>1. Script[adapter][n].call = "cached"
        BY <1>1, <2>1, <2>2 DEF Step
      <3>2. PICK j \in 1 .. n : Script[adapter][j].call = "text" /\ f \in Script[adapter][j].fields
        BY <1>1, <3>1 DEF Thorough, n
      <3>3. j \in 1 .. at - 1
        BY <1>1, <2>2, <3>1, <3>2
      <3> QED
        BY <3>2, <3>3 DEF MadeFor
    <2>4. mode[Target] = PLAYING => ti.text = Text(song[Target])
      BY <1>5, <1>7, <2>3 DEF FieldKnown, Formed, Text
    <2>5. ti'.status = g_state /\ ti'.text = ti.text /\ g_state # CLOSED
      BY <1>13, <2>1 DEF QueryTypeOK, CLOSED, STOPPED, PAUSED, PLAYING
    <2>6. pending = << >> /\ told /\ mode[Target] = PLAYING => g_state = PLAYING
      BY <1>11 DEF SaidInv, Latest, Says, Playing
    <2>7. pending = << >> => RightReport'
      BY <1>3, <1>5, <2>1, <2>2, <2>4, <2>5, <2>6 DEF RightReport, Text
    <2>8. pc' = "idle"
      BY <1>7, <1>14, <2>1
    <2> QED
      BY <2>7, <2>8 DEF Goal
  <1>23. ~ SnapshotCut
    BY DEF SnapshotCut, Unanswered
  <1> QED
    BY <1>16, <1>17, <1>18, <1>19, <1>20, <1>21, <1>22, <1>23 DEF Calling, Goal

(* The polls of the other steps.                                           *)
LEMMA RestStep ==
  ASSUME PlayersInv, TruthInv, QueryInv, QueryTypeOK, SaidInv, RestInv, QueryNext
  PROVE  RestInv'
  <1>1. adapter \in QueryPlayers
    BY DEF QueryNext
  <1>2. CASE get_player_info
    <2>1. ti' = Prepared /\ at' = 1
      BY <1>2 DEF get_player_info, BeginPoll
    <2>2. (\A c : ~ Made(at, c)') /\ (\A f : ~ MadeFor(at, f)')
      BY <2>1 DEF Made, MadeFor
    <2> QED
      BY <2>1, <2>2 DEF RestInv, StateKnown, HandleKnown, FieldKnown
  <1>3. CASE cb_quodlibet_paused
    BY <1>3 DEF cb_quodlibet_paused, polling, poll, RestInv
  <1>4. CASE QueriedMoves
    <2>1. Moves(Target) /\ UNCHANGED pc
      BY <1>4 DEF QueriedMoves, Moves, poll
    <2> QED
      BY <2>1, NoRest DEF RestInv
  <1>5. CASE Calling
    <2> SUFFICES ASSUME pc' = "asking", ~ lost', seen'[Target] = {Is(Target)'}
                 PROVE  RestInv'
      BY DEF RestInv
    <2>1. pc = "asking" /\ UNCHANGED players
      BY <1>5 DEF Calling, dbus_g_running, StatusAnswered, HandleAnswered, TextAnswered,
         SnapshotAnswered, SnapshotCut, CallFails, ReadsState, Answers, Asking
    <2>2. UNCHANGED seen
      BY <1>5 DEF Calling, dbus_g_running, StatusAnswered, HandleAnswered, TextAnswered,
         SnapshotAnswered, SnapshotCut, CallFails, ReadsState, Goes, TakesHandle, Return, window
    <2>3. seen[Target] = {Is(Target)}
      BY <2>1, <2>2 DEF Is, players
    <2> QED
      BY <1>1, <1>5, <2>1, <2>3, RestAsks
  <1> QED
    BY <1>2, <1>3, <1>4, <1>5 DEF QueryNext, Queries, Calling

(* The step that ends an undisturbed poll.                                 *)
LEMMA QueryRight ==
  ASSUME PlayersInv, TruthInv, QueryInv, QueryTypeOK, SaidInv, RestInv, QueryNext, Returns,
         ~ lost', pending = << >>, seen[Target] = {Is(Target)}
  PROVE  RightReport'
  <1>1. adapter \in QueryPlayers /\ pc = "asking" /\ Calling
    BY DEF QueryNext, Queries, Returns, QueryInv, get_player_info, cb_quodlibet_paused,
       QueriedMoves, Moves, polling, poll, Calling
  <1> QED
    BY <1>1, RestAsks DEF Returns

HealInv ==
  /\ TypesInv
  /\ adapter = "MPD" => Straight
  /\ adapter \in QueryPlayers => SaidInv /\ RestInv

LEMMA HealBegins == AdaptersInit => HealInv
  <1> SUFFICES ASSUME AdaptersInit PROVE HealInv
    OBVIOUS
  <1>1. pc = "idle" /\ ~ told
    BY DEF AdaptersInit, PollInit, QueryInit
  <1>2. Straight /\ SaidInv /\ RestInv
    BY <1>1 DEF Straight, SaidInv, RestInv
  <1> QED
    BY <1>2, TypesBegin DEF HealInv

LEMMA HealStep ==
  HealInv /\ AdaptersInv /\ AdaptersInv' /\ [AdaptersNext]_adaptersvars => HealInv'
  <1> SUFFICES ASSUME HealInv, AdaptersInv, AdaptersInv', [AdaptersNext]_adaptersvars
               PROVE  HealInv'
    OBVIOUS
  <1>1. TypesInv /\ TypesInv' /\ QueryTypeOK
    BY TypesStep DEF HealInv, TypesInv, AdaptersTypeOK
  <1>2. UNCHANGED << adapter, QueryPlayers >>
    BY OwnStep, QueryPlayersAre DEF adaptersvars, polling
  <1>3. CASE AdaptersNext
    <2>1. adapter = "MPD" => Straight'
      BY <1>3, OwnStep, StraightOn DEF HealInv, AdaptersInv
    <2>2. adapter \in QueryPlayers => SaidInv'
      BY <1>1, <1>2, <1>3, OwnStep, SaidStep DEF HealInv, AdaptersInv
    <2>3. adapter \in QueryPlayers => RestInv'
      BY <1>1, <1>3, OwnStep, RestStep DEF HealInv, AdaptersInv
    <2> QED
      BY <1>1, <1>2, <2>1, <2>2, <2>3 DEF HealInv
  <1>4. CASE UNCHANGED adaptersvars
    <2>1. /\ UNCHANGED << adapter, mode, song, pc, ti, lost, seen, at, handle, connected, g_state >>
          /\ UNCHANGED << pending, told, conn >>
      BY <1>4 DEF adaptersvars, polling, players, poll, window, queries, quodlibet, mpd, mpdlocals
    <2>2. Straight => Straight'
      BY <2>1 DEF Straight, Heard, Was
    <2>3. SaidInv => SaidInv'
      BY <2>1 DEF SaidInv, Latest, Says
    <2>4. RestInv => RestInv'
      <3>1. UNCHANGED Script[adapter]
        BY <2>1 DEF Script
      <3>2. /\ \A c : Made(at, c)' = Made(at, c)
            /\ \A f : MadeFor(at, f)' = MadeFor(at, f)
        BY <2>1, <3>1 DEF Made, MadeFor
      <3> QED
        BY <2>1, <3>2 DEF RestInv, StateKnown, FieldKnown, HandleKnown, Is
    <2> QED
      BY <1>1, <1>2, <2>2, <2>3, <2>4 DEF HealInv
  <1> QED
    BY <1>3, <1>4

(* UndisturbedIsRight, for any players, any songs and any number of        *)
(* changes: a poll in which every call is answered, no player it asks      *)
(* changes and no signal waits reports what is played, in every adapter,   *)
(* whatever earlier polls have left behind.                                *)
THEOREM UndisturbedPollsRight == AdaptersSpec => UndisturbedIsRight
  <1>1. AdaptersInv /\ HealInv /\ HealInv' /\ [AdaptersNext]_adaptersvars =>
          [Returns /\ Undisturbed => Settled']_adaptersvars
    <2> SUFFICES ASSUME AdaptersInv, HealInv, HealInv', [AdaptersNext]_adaptersvars, Returns,
                        Undisturbed
                 PROVE  Settled'
      OBVIOUS
    <2>1. AdaptersNext
      BY EndsByItself
    <2>2. UNCHANGED << adapter, QueryPlayers >>
      BY <2>1, OwnStep, QueryPlayersAre
    <2>3. QueryTypeOK /\ ti' \in Infos
      BY DEF HealInv, TypesInv, AdaptersTypeOK, PollTypeOK, Infos
    <2>4. ~ lost' /\ pending = << >> /\ \A p \in Asked : seen[p] = {Is(p)}
      BY DEF Undisturbed
    <2>5. CASE adapter \in QueryPlayers
      <3>1. adapter \notin {"MPRIS", "MPRIS2", "MPD"}
        BY <2>5, QueryPlayersAre
      <3>2. seen[Target] = {Is(Target)}
        BY <2>4, <3>1 DEF Asked
      <3>3. RightReport'
        BY <2>1, <2>3, <2>4, <2>5, <3>2, OwnStep, QueryRight DEF AdaptersInv, HealInv
      <3> QED
        BY <2>2, <2>5, <3>1, <3>3 DEF Settled
    <2>6. CASE adapter = "MPRIS"
      <3>1. PlayersInv /\ MprisInv /\ MprisNext
        BY <2>1, <2>6, OwnStep DEF AdaptersInv
      <3>2. ~ lost
        BY <2>4, <3>1, MprisReturns DEF SearchEnds
      <3>3. MprisSettled'
        BY <2>3, <2>4, <2>6, <3>1, <3>2, MprisRight DEF Asked
      <3> QED
        BY <2>2, <2>6, <3>3, QueryPlayersAre DEF Settled
    <2>7. CASE adapter = "MPRIS2"
      <3>1. Mpris2Settled'
        BY <2>1, <2>4, <2>7, OwnStep, Mpris2Right DEF AdaptersInv, Asked
      <3> QED
        BY <2>2, <2>7, <3>1, QueryPlayersAre DEF Settled
    <2>8. CASE adapter = "MPD"
      <3>1. seen[Target] = {Is(Target)}
        BY <2>4, <2>8 DEF Asked
      <3>2. MpdSettled'
        BY <2>1, <2>4, <2>8, <3>1, OwnStep, MpdRight DEF AdaptersInv, HealInv
      <3> QED
        BY <2>2, <2>8, <3>2, QueryPlayersAre DEF Settled
    <2>9. CASE adapter \notin QueryPlayers \cup {"MPRIS", "MPRIS2", "MPD"}
      BY <2>2, <2>9 DEF Settled
    <2> QED
      BY <2>5, <2>6, <2>7, <2>8, <2>9
  <1> QED
    BY <1>1, HealBegins, HealStep, AdaptersInvariant, PTL DEF AdaptersSpec, UndisturbedIsRight
=============================================================================
