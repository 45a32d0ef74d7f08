------------------------ MODULE MusicTracker_proofs ------------------------
(***************************************************************************)
(* Theorems about MusicTracker, for every set of accounts, players, tracks *)
(* and formats and for every choice of controls.                           *)
(***************************************************************************)
EXTENDS MusicTracker, FiniteSetTheorems, SequenceTheorems, TLAPS

(***************************************************************************)
(* Types                                                                   *)
(***************************************************************************)
(* A format expands to a text.                                             *)
LEMMA GenerateType ==
  ASSUME NEW src \in Formats, NEW ti \in TrackInfos, NEW m \in Text \cup {Null}
  PROVE  generate_status(src, ti, m) \in Text
<1>1. ti.track \in Text /\ ti.time \in Words
  BY TextAssumption DEF TrackInfos
<1>2. /\ <<>> \in Text
      /\ Append(<<>>, PausedWord) \in Text
      /\ Append(ti.track, ti.time) \in Text
  <2>1. <<>> \in Seq(Words) /\ PausedWord \in Words
    BY TextAssumption
  <2>2. Append(<<>>, PausedWord) \in Seq(Words)
    BY <2>1, AppendProperties
  <2>3. Append(ti.track, ti.time) \in Seq(Words)
    BY <1>1, AppendProperties DEF Text
  <2>4. QED
    BY <2>1, <2>2, <2>3 DEF Text
<1>3. m # Null => m \in Text
  OBVIOUS
<1>4. CASE src = "saved"
  BY <1>2, <1>3, <1>4 DEF generate_status
<1>5. CASE src = "timed"
  BY <1>2, <1>5 DEF generate_status
<1>6. CASE src \in {"blank", "title", "literal"}
  BY <1>1, <1>2, <1>6 DEF generate_status, NoTrack
<1>7. QED
  BY <1>4, <1>5, <1>6 DEF Formats

(* set_status always finds a text, and libpurple gets nothing else.        *)
LEMMA StatusTextType ==
  ASSUME TypeOK, NEW a \in Accounts, NEW ti \in TrackInfos \cup {Null}
  PROVE  StatusText(a, ti) \in Text
<1>1. saved[a] \in Text \cup {Null}
  BY AccountAssumption DEF TypeOK
<1>2. CASE ti = Null
  <2>1. StatusFormat(a, ti) = "blank"
    BY <1>2 DEF StatusFormat
  <2>2. generate_status("blank", ti, saved[a]) = <<>>
    BY DEF generate_status
  <2>3. QED
    <3>1. <<>> \in Text
      BY DEF Text
    <3>2. QED
      BY <1>1, <2>1, <2>2, <3>1 DEF StatusText
<1>3. CASE ti \in TrackInfos
  <2>1. StatusFormat(a, ti) \in Formats
    BY <1>3, NullAssumption DEF StatusFormat, TypeOK, Prefs, Formats
  <2>2. generate_status(StatusFormat(a, ti), ti, saved[a]) \in Text
    BY <1>1, <1>3, <2>1, GenerateType
  <2>3. QED
    BY <1>1, <2>2 DEF StatusText
<1>4. QED
  BY <1>2, <1>3

LEMMA TuneType ==
  ASSUME NEW ti \in TrackInfos \cup {Null}
  PROVE  TuneOf(ti) \in Tracks \cup {Null}
BY NullAssumption DEF TuneOf, TrackInfos

(* Serving a set of accounts keeps what they show well-typed.              *)
LEMMA SetStatusType ==
  ASSUME TypeOK, NEW S \in SUBSET Accounts, NEW ti \in TrackInfos \cup {Null},
         set_status(S, ti)
  PROVE  /\ message' \in [Accounts -> Text \cup {Null}]
         /\ tune' \in [Accounts -> Tracks \cup {Null}]
         /\ sent' \subseteq Announcements
<1>1. \A a \in Accounts : StatusText(a, ti) \in Text
  BY StatusTextType
<1>2. TuneOf(ti) \in Tracks \cup {Null} /\ TuneOf(ti) \in Text \cup {Null}
  BY TuneType, TextAssumption
<1>3. message' \in [Accounts -> Text \cup {Null}]
  BY <1>1 DEF set_status, TypeOK
<1>4. tune' \in [Accounts -> Tracks \cup {Null}]
  BY <1>2 DEF set_status, TypeOK
<1>5. sent' \subseteq Announcements
  <2>1. \A a \in Accounts :
          /\ [to |-> a, via |-> "tune", text |-> TuneOf(ti)] \in Announcements
          /\ [to |-> a, via |-> "message", text |-> StatusText(a, ti)] \in Announcements
    BY <1>1, <1>2 DEF Announcements
  <2>2. QED
    BY <2>1 DEF set_status
<1>6. QED
  BY <1>3, <1>4, <1>5

LEMMA StashType ==
  ASSUME TypeOK, NEW ti \in TrackInfos \cup {Null}, stash(ti)
  PROVE  mostrecent_ti' \in TrackInfos
BY DEF TypeOK, stash, TrackInfos, INVALID, CLOSED, PLAYING

LEMMA ServeType ==
  ASSUME TypeOK, NEW ti \in TrackInfos \cup {Null}, NEW d \in BOOLEAN,
         set_userstatus_for_active_accounts(ti, d)
  PROVE  /\ message' \in [Accounts -> Text \cup {Null}]
         /\ tune' \in [Accounts -> Tracks \cup {Null}]
         /\ sent' \subseteq Announcements
         /\ mostrecent_ti' \in TrackInfos
         /\ behind' \subseteq Accounts
<1>1. ActiveAccounts(d) \in SUBSET Accounts
  BY DEF ActiveAccounts
<1>2. QED
  BY <1>1, SetStatusType, StashType
     DEF set_userstatus_for_active_accounts, TypeOK

(* A non-empty set of table positions has a first one: the sets 1 .. i are *)
(* ordered by inclusion as their positions are by <=, and inclusion is     *)
(* well-founded on finite sets.                                            *)
LEMMA FirstExists ==
  ASSUME NEW N \in Nat, NEW T \in SUBSET (1 .. N), T # {}
  PROVE  \E x \in T : \A y \in T : x <= y
<1> DEFINE F == {1 .. i : i \in T}
           R == StrictSubsetOrdering(1 .. N)
<1>1. IsWellFoundedOn(R, FiniteSubsetsOf(1 .. N))
  BY FS_StrictSubsetOrderingWellFounded
<1>2. F \subseteq FiniteSubsetsOf(1 .. N)
  <2>1. IsFiniteSet(1 .. N)
    BY FS_Interval
  <2>2. FiniteSubsetsOf(1 .. N) = SUBSET (1 .. N)
    BY <2>1, FS_FiniteSubsetsOfFinite
  <2>3. QED
    BY <2>2
<1>3. F # {}
  OBVIOUS
<1>4. PICK m \in F : \A s \in F : ~ (<<s, m>> \in R)
  <2> HIDE DEF F, R
  <2>1. QED BY <1>1, <1>2, <1>3, WFMin
<1>5. PICK x \in T : m = 1 .. x
  OBVIOUS
<1>6. ASSUME NEW y \in T, y < x PROVE FALSE
  <2>1. 1 .. y \in F /\ 1 .. y \subseteq m /\ 1 .. y # m
    BY <1>5, <1>6
  <2>2. <<1 .. y, m>> \in R
    BY <2>1, <1>5 DEF StrictSubsetOrdering
  <2>3. QED
    BY <1>4, <2>1, <2>2
<1>7. QED
  BY <1>6

(* The autodetect loop always ends on a player of the table.               *)
LEMMA SelectType ==
  ASSUME TypeOK
  PROVE  SelectPlayer \in Players
<1>1. CASE prefs.player # -1
  BY <1>1 DEF SelectPlayer, TypeOK, Prefs
<1>2. CASE prefs.player = -1
  <2> DEFINE busy == {i \in Players : players[i].status > STOPPED}
  <2>1. NPlayers \in Nat /\ NPlayers \in Players /\ busy \in SUBSET (1 .. NPlayers)
    BY PlayerAssumption DEF Players
  <2>2. SelectPlayer = IF busy = {} THEN NPlayers
                       ELSE CHOOSE i \in busy : \A j \in busy : i <= j
    BY <1>2 DEF SelectPlayer
  <2>3. busy # {} => \E i \in busy : \A j \in busy : i <= j
    <3> HIDE DEF busy
    <3>1. QED BY <2>1, FirstExists
  <2>4. busy # {} => (CHOOSE i \in busy : \A j \in busy : i <= j) \in busy
    <3> HIDE DEF busy
    <3>1. QED BY <2>3
  <2>5. QED
    BY <2>1, <2>2, <2>4
<1>3. QED
  BY <1>1, <1>2

(* The poll hands on NULL or a report with a cleaned track.                *)
LEMMA PolledType ==
  ASSUME TypeOK
  PROVE  PolledInfo \in TrackInfos \cup {Null}
<1> DEFINE ti == players[SelectPlayer]
           track == IF prefs.filter THEN Censored[Cleaned[ti.track]] ELSE Cleaned[ti.track]
<1>1. ti \in TrackInfos
  <2>1. ti \in Reports
    BY SelectType DEF TypeOK
  <2>2. Reports \subseteq TrackInfos
    BY TextAssumption DEF Reports, TrackInfos, ClosedInfo, INVALID, CLOSED, STOPPED, PLAYING
  <2>3. QED
    BY <2>1, <2>2
<1>2. track \in Tracks
  BY <1>1, PlayerAssumption DEF TrackInfos
<1>3. PolledInfo = IF ti.status = CLOSED THEN Null ELSE [ti EXCEPT !.track = track]
  BY DEF PolledInfo
<1>4. [ti EXCEPT !.track = track] \in TrackInfos
  <2> HIDE DEF ti, track
  <2>1. QED BY <1>1, <1>2 DEF TrackInfos
<1>5. QED
  BY <1>3, <1>4

LEMMA TypeInit == Init => TypeOK
<1> SUFFICES ASSUME Init PROVE TypeOK
  OBVIOUS
<1>1. mostrecent_ti \in TrackInfos
  BY TextAssumption DEF Init, TrackInfos, INVALID, STOPPED, PLAYING
<1>2. prefs \in Prefs
  BY DEF Init, InitialPrefs, Prefs, Formats
<1>3. message \in [Accounts -> Text \cup {Null}]
  BY AccountAssumption DEF Init
<1>4. players \in [Players -> Reports]
  BY DEF Init, Reports
<1>5. customFormat \in [Accounts -> Formats]
  BY DEF Init, Formats
<1>6. polled \in TrackInfos \cup {Null} /\ sent \subseteq Announcements
  BY DEF Init
<1>7. /\ brokenTune \in [Accounts -> BOOLEAN]
      /\ customDisabled \in [Accounts -> BOOLEAN]
      /\ enabled \in [Accounts -> BOOLEAN]
  BY DEF Init
<1>8. tune \in [Accounts -> Tracks \cup {Null}]
  BY DEF Init
<1>9. g_run \in BOOLEAN /\ settled \in BOOLEAN /\ behind \subseteq Accounts
  BY DEF Init
<1>10. presence \in [Accounts -> Presences] /\ saved \in [Accounts -> SavedMessages \cup {Null}]
  BY DEF Init
<1>11. QED
  BY <1>1, <1>2, <1>3, <1>4, <1>5, <1>6, <1>7, <1>8, <1>9, <1>10 DEF TypeOK

LEMMA TypePoll == TypeOK /\ cb_timeout => TypeOK'
<1> SUFFICES ASSUME TypeOK, cb_timeout PROVE TypeOK'
  OBVIOUS
<1>1. PolledInfo \in TrackInfos \cup {Null} /\ prefs.disabled \in BOOLEAN
  BY PolledType DEF TypeOK, Prefs
<1>2. set_userstatus_for_active_accounts(PolledInfo, prefs.disabled)
  BY DEF cb_timeout
<1>3. QED
  BY <1>1, <1>2, ServeType DEF cb_timeout, settings, purple, TypeOK

LEMMA TypeLoad == TypeOK /\ plugin_load => TypeOK'
<1> SUFFICES ASSUME TypeOK, plugin_load PROVE TypeOK'
  OBVIOUS
<1>1. mostrecent_ti' \in TrackInfos
  BY DEF TypeOK, plugin_load, TrackInfos, INVALID, PLAYING
<1>2. g_run' \in BOOLEAN /\ settled' \in BOOLEAN /\ sent' \subseteq Announcements
  BY DEF plugin_load
<1>3. QED
  BY <1>1, <1>2 DEF TypeOK, plugin_load, settings, purple, shown

LEMMA TypeUnload == TypeOK /\ plugin_unload => TypeOK'
<1> SUFFICES ASSUME TypeOK, plugin_unload PROVE TypeOK'
  OBVIOUS
<1>1. prefs.disabled \in BOOLEAN
  BY DEF TypeOK, Prefs
<1>2. set_userstatus_for_active_accounts(Null, prefs.disabled)
  BY DEF plugin_unload
<1>3. QED
  BY <1>1, <1>2, ServeType DEF plugin_unload, settings, purple, TypeOK

LEMMA TypeToggle == TypeOK /\ action_toggle_status => TypeOK'
<1> SUFFICES ASSUME TypeOK, action_toggle_status PROVE TypeOK'
  OBVIOUS
<1>1. prefs' \in Prefs /\ prefs.disabled \in BOOLEAN /\ prefs'.disabled \in BOOLEAN
  BY DEF TypeOK, Prefs, action_toggle_status
<1>2. \E ti \in TrackInfos \cup {Null}, d \in BOOLEAN :
         set_userstatus_for_active_accounts(ti, d)
  <2>1. mostrecent_ti \in TrackInfos
    BY DEF TypeOK
  <2>2. CASE prefs'.disabled
    BY <1>1, <2>2 DEF action_toggle_status, clear_track_information
  <2>3. CASE ~ prefs'.disabled
    BY <1>1, <2>1, <2>3 DEF action_toggle_status, restore_track_information
  <2>4. QED
    BY <2>2, <2>3
<1>3. QED
  BY <1>1, <1>2, ServeType DEF action_toggle_status, Control, purple, TypeOK

LEMMA TypeCustom ==
  ASSUME NEW a \in Accounts
  PROVE  TypeOK /\ cb_custom_toggled(a) => TypeOK'
<1> SUFFICES ASSUME TypeOK, cb_custom_toggled(a) PROVE TypeOK'
  OBVIOUS
<1>1. set_status({a}, Null)
  BY DEF cb_custom_toggled
<1>2. /\ message' \in [Accounts -> Text \cup {Null}]
      /\ tune' \in [Accounts -> Tracks \cup {Null}]
      /\ sent' \subseteq Announcements
  BY <1>1, SetStatusType
<1>3. customDisabled' \in [Accounts -> BOOLEAN] /\ behind' \subseteq Accounts
  BY DEF cb_custom_toggled, TypeOK
<1>4. QED
  BY <1>2, <1>3 DEF cb_custom_toggled, Control, purple, TypeOK

(* The handlers that write a preference and nothing else.                  *)
LEMMA TypeQuiet ==
  ASSUME TypeOK, Quietly, NEW knob, Control(knob),
         prefs' \in Prefs, customDisabled' \in [Accounts -> BOOLEAN],
         customFormat' \in [Accounts -> Formats], brokenTune' \in [Accounts -> BOOLEAN]
  PROVE  TypeOK'
BY DEF TypeOK, Quietly, Control, purple, shown

LEMMA TypePreference ==
  ASSUME TypeOK,
         \/ cb_misc_toggled \/ cb_filter_toggled \/ cb_player_changed \/ cb_format_changed
         \/ \E a \in Accounts : cb_broken_nowlistening_toggled(a) \/ cb_custom_edited(a)
  PROVE  TypeOK'
<1>1. ASSUME NEW a \in Accounts, cb_broken_nowlistening_toggled(a) PROVE TypeOK'
  <2>1. brokenTune' \in [Accounts -> BOOLEAN]
    BY <1>1 DEF cb_broken_nowlistening_toggled, TypeOK
  <2>2. QED
    BY <1>1, <2>1, TypeQuiet DEF cb_broken_nowlistening_toggled, TypeOK
<1>2. ASSUME NEW a \in Accounts, cb_custom_edited(a) PROVE TypeOK'
  <2>1. customFormat' \in [Accounts -> Formats]
    BY <1>2, PlayerAssumption DEF cb_custom_edited, TypeOK
  <2>2. QED
    BY <1>2, <2>1, TypeQuiet DEF cb_custom_edited, TypeOK
<1>3. ASSUME cb_misc_toggled PROVE TypeOK'
  <2>1. prefs' \in Prefs
    BY <1>3 DEF cb_misc_toggled, TypeOK, Prefs
  <2>2. QED
    BY <1>3, <2>1, TypeQuiet DEF cb_misc_toggled, TypeOK
<1>4. ASSUME cb_filter_toggled PROVE TypeOK'
  <2>1. prefs' \in Prefs
    BY <1>4 DEF cb_filter_toggled, TypeOK, Prefs
  <2>2. QED
    BY <1>4, <2>1, TypeQuiet DEF cb_filter_toggled, TypeOK
<1>5. ASSUME cb_player_changed PROVE TypeOK'
  <2>1. prefs' \in Prefs
    BY <1>5 DEF cb_player_changed, TypeOK, Prefs
  <2>2. QED
    BY <1>5, <2>1, TypeQuiet DEF cb_player_changed, TypeOK
<1>6. ASSUME cb_format_changed PROVE TypeOK'
  <2>1. prefs' \in Prefs
    BY <1>6, PlayerAssumption DEF cb_format_changed, TypeOK, Prefs
  <2>2. QED
    BY <1>6, <2>1, TypeQuiet DEF cb_format_changed, TypeOK
<1>7. QED
  BY <1>1, <1>2, <1>3, <1>4, <1>5, <1>6

LEMMA TypeNowPlaying == TypeOK /\ musictracker_cmd_nowplaying => TypeOK'
<1> SUFFICES ASSUME TypeOK, musictracker_cmd_nowplaying PROVE TypeOK'
  OBVIOUS
<1>1. generate_status(prefs.format, mostrecent_ti, <<>>) \in Text
  <2>1. <<>> \in Text
    BY DEF Text
  <2>2. prefs.format \in Formats /\ mostrecent_ti \in TrackInfos
    BY DEF TypeOK, Prefs
  <2>3. QED
    BY <2>1, <2>2, GenerateType
<1>2. sent' \subseteq Announcements
  BY <1>1 DEF musictracker_cmd_nowplaying, Announcements
<1>3. QED
  BY <1>2 DEF musictracker_cmd_nowplaying, settings, purple, shown, history, TypeOK

LEMMA TypeEnvironment == TypeOK /\ Environment => TypeOK'
<1> SUFFICES ASSUME TypeOK, Environment PROVE TypeOK'
  OBVIOUS
<1>1. CASE PlayerActs
  BY <1>1 DEF PlayerActs, Outside, settings, purple, TypeOK
<1>2. ASSUME NEW a \in Accounts, UserPicksStatus(a) PROVE TypeOK'
  <2>1. PICK p \in Presences, m \in SavedMessages \cup {Null} :
               /\ presence' = [presence EXCEPT ![a] = p]
               /\ saved' = [saved EXCEPT ![a] = m]
               /\ message' = [message EXCEPT ![a] = m]
    BY <1>2 DEF UserPicksStatus
  <2>2. m \in Text \cup {Null}
    BY AccountAssumption
  <2>3. /\ presence' \in [Accounts -> Presences]
        /\ saved' \in [Accounts -> SavedMessages \cup {Null}]
        /\ message' \in [Accounts -> Text \cup {Null}]
    BY <2>1, <2>2 DEF TypeOK
  <2>4. QED
    BY <1>2, <2>3 DEF UserPicksStatus, Outside, settings, TypeOK
<1>3. ASSUME NEW a \in Accounts, UserEnablesAccount(a) PROVE TypeOK'
  BY <1>3 DEF UserEnablesAccount, Outside, settings, TypeOK
<1>4. QED
  BY <1>1, <1>2, <1>3 DEF Environment

LEMMA TypeStep == TypeOK /\ [Next]_vars => TypeOK'
<1> SUFFICES ASSUME TypeOK, [Next]_vars PROVE TypeOK'
  OBVIOUS
<1>1. CASE UNCHANGED vars
  BY <1>1 DEF vars, settings, purple, shown, history, TypeOK
<1>2. CASE UserControls
  BY <1>2, TypeToggle, TypeCustom, TypePreference DEF UserControls
<1>3. QED
  BY <1>1, <1>2, TypePoll, TypeLoad, TypeUnload, TypeNowPlaying, TypeEnvironment
     DEF Next

(* Every reachable state is well-typed, for every choice of constants.     *)
THEOREM TypeCorrect == Spec => []TypeOK
BY TypeInit, TypeStep, PTL DEF Spec

-----------------------------------------------------------------------------
(***************************************************************************)
(* The tune follows mostrecent_ti                                          *)
(***************************************************************************)
(* What the plugin remembers has the tune of what it announced ...         *)
LEMMA StashTune ==
  ASSUME TypeOK, NEW ti \in TrackInfos \cup {Null}, stash(ti)
  PROVE  TuneOf(mostrecent_ti') = TuneOf(ti)
<1>1. CASE ti = Null
  <2>1. mostrecent_ti'.status = CLOSED
    BY <1>1 DEF stash, TypeOK, TrackInfos
  <2>2. QED
    BY <1>1, <2>1 DEF TuneOf, CLOSED, PLAYING
<1>2. CASE ti # Null
  BY <1>2 DEF stash
<1>3. QED
  BY <1>1, <1>2

(* ... and information that counts as unchanged has the tune of what is    *)
(* remembered, NULL beside CLOSED and INVALID included.                    *)
LEMMA UnchangedTune ==
  ASSUME TypeOK, NEW ti \in TrackInfos \cup {Null}, ~ trackinfo_changed(ti, mostrecent_ti)
  PROVE  TuneOf(ti) = TuneOf(mostrecent_ti)
<1>1. mostrecent_ti # Null /\ mostrecent_ti.status \in INVALID .. PLAYING
  BY NullAssumption DEF TypeOK, TrackInfos
<1>2. CASE ti = Null
  BY <1>1, <1>2 DEF trackinfo_changed, TuneOf, INVALID, CLOSED, PLAYING
<1>3. CASE ti # Null
  BY <1>1, <1>3 DEF trackinfo_changed, TuneOf
<1>4. QED
  BY <1>2, <1>3

LEMMA ServeTune ==
  ASSUME TypeOK, NEW ti \in TrackInfos \cup {Null}, NEW d \in BOOLEAN,
         set_userstatus_for_active_accounts(ti, d), NEW a \in Accounts
  PROVE  tune'[a] = IF a \in ActiveAccounts(d) /\ set_status_tune(a, ti)
                    THEN TuneOf(ti) ELSE tune[a]
BY DEF set_userstatus_for_active_accounts, set_status

(* Serving the accounts, whatever is announced and to whomever.            *)
LEMMA ServeFollows ==
  ASSUME TypeOK, TuneFollowsMostRecent,
         NEW ti \in TrackInfos \cup {Null}, NEW d \in BOOLEAN,
         set_userstatus_for_active_accounts(ti, d)
  PROVE  TuneFollowsMostRecent' /\ TuneOf(mostrecent_ti') = TuneOf(ti)
<1>1. TuneOf(mostrecent_ti') = TuneOf(ti)
  BY StashTune DEF set_userstatus_for_active_accounts
<1>2. ASSUME NEW a \in Accounts, a \notin behind'
      PROVE  tune'[a] = TuneOf(mostrecent_ti')
  <2>1. CASE trackinfo_changed(ti, mostrecent_ti)
    <3>1. a \in ActiveAccounts(d) /\ set_status_tune(a, ti)
      BY <1>2, <2>1 DEF set_userstatus_for_active_accounts, set_status_tune
    <3>2. QED
      BY <1>1, <3>1, ServeTune
  <2>2. CASE ~ trackinfo_changed(ti, mostrecent_ti)
    <3>1. a \notin behind /\ ~ set_status_tune(a, ti)
      BY <1>2, <2>2 DEF set_userstatus_for_active_accounts, set_status_tune
    <3>2. tune'[a] = tune[a] /\ tune[a] = TuneOf(mostrecent_ti)
      BY <1>2, <3>1, ServeTune DEF TuneFollowsMostRecent
    <3>3. QED
      BY <1>1, <2>2, <3>2, UnchangedTune
  <2>3. QED
    BY <2>1, <2>2
<1>3. QED
  BY <1>1, <1>2 DEF TuneFollowsMostRecent

(* The steps that have no say in any of this.                              *)
Bystanding ==
  \/ cb_misc_toggled \/ cb_filter_toggled \/ cb_player_changed \/ cb_format_changed
  \/ \E a \in Accounts : cb_broken_nowlistening_toggled(a) \/ cb_custom_edited(a)
  \/ musictracker_cmd_nowplaying
  \/ Environment
  \/ UNCHANGED vars

LEMMA BystandingFrame ==
  Bystanding => UNCHANGED << g_run, mostrecent_ti, tune, behind, polled >>
BY DEF Bystanding, cb_misc_toggled, cb_filter_toggled, cb_player_changed,
       cb_format_changed, cb_broken_nowlistening_toggled, cb_custom_edited, Quietly,
       Control, musictracker_cmd_nowplaying, Environment, PlayerActs,
       UserPicksStatus, UserEnablesAccount, Outside, vars, shown, history

LEMMA StepCases ==
  [Next]_vars => \/ cb_timeout \/ plugin_load \/ plugin_unload \/ action_toggle_status
                 \/ \E a \in Accounts : cb_custom_toggled(a)
                 \/ Bystanding
BY DEF Next, UserControls, Bystanding

(* Each of the three callers of set_userstatus_for_active_accounts calls   *)
(* it with well-typed arguments.                                           *)
LEMMA Callers ==
  ASSUME TypeOK
  PROVE  /\ cb_timeout => /\ PolledInfo \in TrackInfos \cup {Null}
                          /\ prefs.disabled \in BOOLEAN
                          /\ set_userstatus_for_active_accounts(PolledInfo, prefs.disabled)
         /\ plugin_unload => /\ prefs.disabled \in BOOLEAN
                             /\ set_userstatus_for_active_accounts(Null, prefs.disabled)
         /\ action_toggle_status =>
              \/ /\ ~ prefs.disabled
                 /\ set_userstatus_for_active_accounts(Null, FALSE)
              \/ /\ prefs.disabled
                 /\ mostrecent_ti \in TrackInfos
                 /\ set_userstatus_for_active_accounts(mostrecent_ti, FALSE)
<1>1. prefs \in Prefs /\ prefs.disabled \in BOOLEAN /\ mostrecent_ti \in TrackInfos
  BY DEF TypeOK, Prefs
<1>2. ASSUME action_toggle_status PROVE prefs'.disabled = ~ prefs.disabled
  BY <1>1, <1>2 DEF action_toggle_status, Prefs
<1>3. QED
  BY <1>1, <1>2, PolledType
     DEF cb_timeout, plugin_unload, action_toggle_status, clear_track_information,
         restore_track_information

(* The inductive invariant: outside a session nothing is playing, so that  *)
(* plugin_load, which forgets the status, forgets no track.                *)
IdleInv == ~ g_run => TuneOf(mostrecent_ti) = Null

FollowInv == TypeOK /\ IdleInv /\ TuneFollowsMostRecent

LEMMA FollowInit == Init => FollowInv
<1> SUFFICES ASSUME Init PROVE IdleInv /\ TuneFollowsMostRecent
  BY TypeInit DEF FollowInv
<1>1. TuneOf(mostrecent_ti) = Null
  BY DEF Init, TuneOf, STOPPED, PLAYING
<1>2. QED
  BY <1>1 DEF Init, IdleInv, TuneFollowsMostRecent

LEMMA FollowStep == FollowInv /\ [Next]_vars => FollowInv'
<1> SUFFICES ASSUME FollowInv, [Next]_vars PROVE IdleInv' /\ TuneFollowsMostRecent'
  BY TypeStep DEF FollowInv
<1> USE DEF FollowInv
<1>1. CASE cb_timeout
  <2>1. g_run' = TRUE
    BY <1>1 DEF cb_timeout
  <2>2. QED
    BY <1>1, <2>1, Callers, ServeFollows DEF IdleInv
<1>2. CASE plugin_load
  <2>1. TuneOf(mostrecent_ti) = Null /\ TuneOf(mostrecent_ti') = Null
    <3>1. mostrecent_ti'.status = INVALID
      BY <1>2 DEF plugin_load, TypeOK, TrackInfos
    <3>2. TuneOf(mostrecent_ti') = Null
      BY <3>1 DEF TuneOf, INVALID, PLAYING
    <3>3. QED
      BY <1>2, <3>2 DEF plugin_load, IdleInv
  <2>2. QED
    BY <1>2, <2>1 DEF plugin_load, shown, TuneFollowsMostRecent, IdleInv
<1>3. CASE plugin_unload
  <2>1. TuneOf(Null) = Null
    BY DEF TuneOf
  <2>2. QED
    BY <1>3, <2>1, Callers, ServeFollows DEF IdleInv
<1>4. CASE action_toggle_status
  <2>1. g_run /\ g_run'
    BY <1>4 DEF action_toggle_status, Control
  <2>2. QED
    BY <1>4, <2>1, Callers, ServeFollows DEF IdleInv
<1>5. ASSUME NEW a \in Accounts, cb_custom_toggled(a)
      PROVE  IdleInv' /\ TuneFollowsMostRecent'
  <2>1. g_run' = g_run /\ mostrecent_ti' = mostrecent_ti
    BY <1>5 DEF cb_custom_toggled, Control
  <2>2. ASSUME NEW b \in Accounts, b \notin behind' PROVE tune'[b] = TuneOf(mostrecent_ti)
    <3>1. tune'[b] = IF b = a /\ set_status_tune(b, Null) THEN TuneOf(Null) ELSE tune[b]
      BY <1>5 DEF cb_custom_toggled, set_status
    <3>2. CASE b = a /\ set_status_tune(b, Null)
      <4>1. mostrecent_ti.status # PLAYING
        BY <1>5, <2>2, <3>2 DEF cb_custom_toggled, set_status_tune
      <4>2. QED
        BY <3>1, <3>2, <4>1 DEF TuneOf
    <3>3. CASE ~ (b = a /\ set_status_tune(b, Null))
      <4>1. b \notin behind
        BY <1>5, <2>2 DEF cb_custom_toggled
      <4>2. QED
        BY <3>1, <3>3, <4>1 DEF TuneFollowsMostRecent
    <3>4. QED
      BY <3>2, <3>3
  <2>3. QED
    BY <2>1, <2>2 DEF IdleInv, TuneFollowsMostRecent
<1>6. CASE Bystanding
  BY <1>6, BystandingFrame DEF IdleInv, TuneFollowsMostRecent
<1>7. QED
  BY <1>1, <1>2, <1>3, <1>4, <1>5, <1>6, StepCases

(* An account that no change has passed by shows the tune of               *)
(* mostrecent_ti, in every reachable state.                                *)
THEOREM TuneFollows == Spec => []TuneFollowsMostRecent
<1>1. FollowInv => TuneFollowsMostRecent
  BY DEF FollowInv
<1>2. QED
  BY <1>1, FollowInit, FollowStep, PTL DEF Spec

-----------------------------------------------------------------------------
(***************************************************************************)
(* mostrecent_ti is the last poll's                                        *)
(***************************************************************************)
LEMMA PolledStep == TypeOK /\ MostRecentIsPolled /\ [Next]_vars => MostRecentIsPolled'
<1> SUFFICES ASSUME TypeOK, MostRecentIsPolled, [Next]_vars PROVE MostRecentIsPolled'
  OBVIOUS
<1>0. ASSUME stash(Null) PROVE mostrecent_ti'.status = CLOSED
  BY <1>0 DEF stash, TypeOK, TrackInfos
<1>1. CASE cb_timeout
  <2>1. polled' = PolledInfo /\ stash(PolledInfo)
    BY <1>1 DEF cb_timeout, set_userstatus_for_active_accounts
  <2>2. CASE PolledInfo = Null
    BY <1>0, <2>1, <2>2 DEF MostRecentIsPolled, CLOSED
  <2>3. CASE PolledInfo # Null
    BY <2>1, <2>3 DEF MostRecentIsPolled, stash
  <2>4. QED
    BY <2>2, <2>3
<1>2. CASE plugin_load
  <2>1. mostrecent_ti'.status = INVALID
    BY <1>2 DEF plugin_load, TypeOK, TrackInfos
  <2>2. QED
    BY <2>1 DEF MostRecentIsPolled, INVALID, CLOSED
<1>3. CASE plugin_unload
  BY <1>3 DEF plugin_unload, MostRecentIsPolled
<1>4. CASE action_toggle_status
  <2>1. g_run /\ polled' = polled
    BY <1>4 DEF action_toggle_status, Control
  <2>2. CASE stash(Null)
    BY <1>0, <2>2 DEF MostRecentIsPolled, CLOSED
  <2>3. CASE mostrecent_ti' = mostrecent_ti
    BY <2>1, <2>3 DEF MostRecentIsPolled
  <2>4. stash(Null) \/ mostrecent_ti' = mostrecent_ti
    BY <1>4, Callers, NullAssumption DEF set_userstatus_for_active_accounts, stash
  <2>5. QED
    BY <2>2, <2>3, <2>4
<1>5. ASSUME NEW a \in Accounts, cb_custom_toggled(a) PROVE MostRecentIsPolled'
  BY <1>5 DEF cb_custom_toggled, Control, MostRecentIsPolled
<1>6. CASE Bystanding
  BY <1>6, BystandingFrame DEF MostRecentIsPolled
<1>7. QED
  BY <1>1, <1>2, <1>3, <1>4, <1>5, <1>6, StepCases

(* What /nowplaying announces is what the last poll found.                 *)
THEOREM MostRecentPolled == Spec => []MostRecentIsPolled
<1>1. Init => MostRecentIsPolled
  BY DEF Init, MostRecentIsPolled
<1>2. QED
  BY <1>1, TypeInit, TypeStep, PolledStep, PTL DEF Spec

-----------------------------------------------------------------------------
(***************************************************************************)
(* A settled poll is silent                                                *)
(***************************************************************************)
(* The inductive invariant: while nothing but polls happens, another poll  *)
(* finds what the last one found, mostrecent_ti remembers it, and every    *)
(* message it would set is set.                                            *)
SettledInv ==
  settled => /\ polled = PolledInfo
             /\ ~ trackinfo_changed(PolledInfo, mostrecent_ti)
             /\ \A a \in ActiveAccounts(prefs.disabled) : ~ MessageSent(a, PolledInfo)

LEMMA PollFrame ==
  UNCHANGED << settings, purple, players >> =>
    PolledInfo' = PolledInfo /\ ActiveAccounts(prefs.disabled)' = ActiveAccounts(prefs.disabled)
<1> SUFFICES ASSUME UNCHANGED << settings, purple, players >>
             PROVE  PolledInfo' = PolledInfo
                    /\ ActiveAccounts(prefs.disabled)' = ActiveAccounts(prefs.disabled)
  OBVIOUS
<1>1. prefs' = prefs /\ players' = players /\ enabled' = enabled
  BY DEF settings, purple
<1>2. SelectPlayer' = SelectPlayer
  BY <1>1 DEF SelectPlayer
<1>3. PolledInfo' = PolledInfo
  BY <1>1, <1>2 DEF PolledInfo
<1>4. QED
  BY <1>1, <1>3 DEF ActiveAccounts

LEMMA TextFrame ==
  ASSUME UNCHANGED << settings, purple >>, NEW a, NEW ti
  PROVE  ReachesMessage(a)' = ReachesMessage(a) /\ StatusText(a, ti)' = StatusText(a, ti)
BY DEF settings, purple, ReachesMessage, StatusText, StatusFormat, Touchable, UsesTune,
       purple_status_is_offline_or_invisible, purple_status_is_away

LEMMA ServeSettles ==
  ASSUME TypeOK, NEW ti \in TrackInfos \cup {Null}, NEW d \in BOOLEAN,
         set_userstatus_for_active_accounts(ti, d), UNCHANGED << settings, purple >>
  PROVE  /\ ~ trackinfo_changed(ti, mostrecent_ti')
         /\ \A a \in ActiveAccounts(d) : ~ (ReachesMessage(a)' /\ StatusText(a, ti)' # message'[a])
<1>1. ~ trackinfo_changed(ti, mostrecent_ti')
  <2>1. stash(ti)
    BY DEF set_userstatus_for_active_accounts
  <2>2. CASE ti = Null
    <3>1. mostrecent_ti'.status = CLOSED
      BY <2>1, <2>2 DEF stash, TypeOK, TrackInfos
    <3>2. QED
      BY <2>2, <3>1 DEF trackinfo_changed, CLOSED
  <2>3. CASE ti # Null
    BY <2>1, <2>3 DEF stash, trackinfo_changed
  <2>4. QED
    BY <2>2, <2>3
<1>2. ASSUME NEW a \in ActiveAccounts(d), ReachesMessage(a)' PROVE StatusText(a, ti)' = message'[a]
  <2>1. ReachesMessage(a) /\ StatusText(a, ti)' = StatusText(a, ti)
    BY <1>2, TextFrame
  <2>2. a \in Accounts
    BY DEF ActiveAccounts
  <2>3. message'[a] = IF MessageSent(a, ti) THEN StatusText(a, ti) ELSE message[a]
    BY <2>2 DEF set_userstatus_for_active_accounts, set_status
  <2>4. QED
    BY <2>1, <2>3 DEF MessageSent, message_changed
<1>3. QED
  BY <1>1, <1>2

LEMMA SettledStep == TypeOK /\ SettledInv /\ [Next]_vars => SettledInv'
<1> SUFFICES ASSUME TypeOK, SettledInv, [Next]_vars, settled' PROVE SettledInv'
  BY DEF SettledInv
<1>1. CASE cb_timeout
  <2>1. /\ UNCHANGED << settings, purple, players >>
        /\ polled' = PolledInfo
    BY <1>1 DEF cb_timeout
  <2>2. PolledInfo' = PolledInfo /\ ActiveAccounts(prefs.disabled)' = ActiveAccounts(prefs.disabled)
    BY <2>1, PollFrame
  <2>3. /\ ~ trackinfo_changed(PolledInfo, mostrecent_ti')
        /\ \A a \in ActiveAccounts(prefs.disabled) :
              ~ (ReachesMessage(a)' /\ StatusText(a, PolledInfo)' # message'[a])
    BY <1>1, <2>1, <2>2, Callers, ServeSettles
  <2>4. ~ trackinfo_changed(PolledInfo, mostrecent_ti)'
    BY <2>2, <2>3 DEF trackinfo_changed
  <2>5. \A a \in ActiveAccounts(prefs.disabled)' : ~ MessageSent(a, PolledInfo)'
    BY <2>1, <2>2, <2>3, TextFrame DEF MessageSent, message_changed
  <2>6. QED
    BY <2>1, <2>2, <2>4, <2>5 DEF SettledInv
<1>2. CASE musictracker_cmd_nowplaying \/ UNCHANGED vars
  <2>1. UNCHANGED << mostrecent_ti, settings, purple, players, message, settled, polled >>
    BY <1>2 DEF musictracker_cmd_nowplaying, vars, shown, history
  <2>2. PolledInfo' = PolledInfo /\ ActiveAccounts(prefs.disabled)' = ActiveAccounts(prefs.disabled)
    BY <2>1, PollFrame
  <2>3. \A a \in ActiveAccounts(prefs.disabled) : ~ MessageSent(a, PolledInfo)'
    <3>1. \A a \in ActiveAccounts(prefs.disabled) : ~ MessageSent(a, PolledInfo)
      BY <2>1 DEF SettledInv
    <3>2. \A a : /\ ReachesMessage(a)' = ReachesMessage(a)
                 /\ StatusText(a, PolledInfo)' = StatusText(a, PolledInfo)
      BY <2>1, <2>2, TextFrame DEF StatusText, StatusFormat
    <3>3. QED
      BY <2>1, <3>1, <3>2 DEF MessageSent, message_changed
  <2>4. ~ trackinfo_changed(PolledInfo, mostrecent_ti)' /\ polled' = PolledInfo'
    BY <2>1, <2>2 DEF SettledInv, trackinfo_changed
  <2>5. QED
    BY <2>2, <2>3, <2>4 DEF SettledInv
<1>3. ASSUME ~ cb_timeout, ~ musictracker_cmd_nowplaying, ~ UNCHANGED vars
      PROVE  settled' = FALSE
  BY <1>3 DEF Next, plugin_load, plugin_unload, UserControls, action_toggle_status,
              cb_custom_toggled, cb_broken_nowlistening_toggled, cb_custom_edited,
              cb_misc_toggled, cb_filter_toggled, cb_player_changed, cb_format_changed,
              Control, Environment, PlayerActs, UserPicksStatus, UserEnablesAccount, Outside
<1>4. QED
  BY <1>1, <1>2, <1>3

(* Polls that find nothing new announce nothing, whatever came before.     *)
THEOREM SettledSilent == Spec => SettledPollIsSilent
<1>1. Init => SettledInv
  BY DEF Init, SettledInv
<1>2. TypeOK /\ SettledInv /\ [Next]_vars => [cb_timeout /\ settled => sent' = {}]_vars
  <2> SUFFICES ASSUME TypeOK, SettledInv, cb_timeout, settled PROVE sent' = {}
    OBVIOUS
  <2>1. set_status(ActiveAccounts(prefs.disabled), PolledInfo)
    BY DEF cb_timeout, set_userstatus_for_active_accounts
  <2>2. \A a \in ActiveAccounts(prefs.disabled) :
            ~ set_status_tune(a, PolledInfo) /\ ~ MessageSent(a, PolledInfo)
    BY DEF SettledInv, set_status_tune
  <2>3. QED
    BY <2>1, <2>2 DEF set_status
<1>3. QED
  BY <1>1, <1>2, TypeInit, TypeStep, SettledStep, PTL DEF Spec, SettledPollIsSilent

(* UpToDateOncePolled, for any accounts and players and whatever came      *)
(* before: one poll brings the message of every account that is within     *)
(* reach up to date, and the tune unless the account has missed a change.  *)
THEOREM PollsBringUpToDate == Spec => []UpToDateOncePolled
<1>1. ASSUME TypeOK, SettledInv, TuneFollowsMostRecent, settled, ~ prefs.disabled,
             NEW a \in Accounts
      PROVE  /\ enabled[a] /\ ReachesMessage(a) => message[a] = StatusText(a, PolledInfo)
             /\ a \notin behind => tune[a] = TuneOf(PolledInfo)
  <2>1. enabled[a] => a \in ActiveAccounts(prefs.disabled)
    BY <1>1 DEF ActiveAccounts
  <2>2. PolledInfo \in TrackInfos \cup {Null}
    BY <1>1, PolledType
  <2>3. enabled[a] /\ ReachesMessage(a) => message[a] = StatusText(a, PolledInfo)
    BY <1>1, <2>1 DEF SettledInv, MessageSent, message_changed
  <2>4. a \notin behind => tune[a] = TuneOf(PolledInfo)
    BY <1>1, <2>2, UnchangedTune DEF SettledInv, TuneFollowsMostRecent
  <2>5. QED
    BY <2>3, <2>4
<1>2. TypeOK /\ SettledInv /\ TuneFollowsMostRecent => UpToDateOncePolled
  BY <1>1 DEF UpToDateOncePolled, MessageUpToDate, TuneUpToDate
<1>3. Init => SettledInv
  BY DEF Init, SettledInv
<1>4. QED
  BY <1>2, <1>3, TypeInit, TypeStep, SettledStep, TuneFollows, PTL DEF Spec

-----------------------------------------------------------------------------
(***************************************************************************)
(* The plugin implements the tune board                                    *)
(***************************************************************************)
(* Serving the accounts in a session is an announcement, or nothing.       *)
LEMMA ServeAnnounces ==
  ASSUME TypeOK, g_run, NEW ti \in TrackInfos \cup {Null},
         set_userstatus_for_active_accounts(ti, prefs.disabled)
  PROVE  Board!BoardNext
<1>1. /\ OpenAccounts' \subseteq Accounts
      /\ OpenAccounts = {a \in ActiveAccounts(prefs.disabled) : Touchable(a) /\ UsesTune(a)}
  BY DEF OpenAccounts, ActiveAccounts
<1>2. TuneOf(mostrecent_ti') = TuneOf(ti) /\ TuneOf(ti) \in Tracks \cup {Null}
  BY StashTune, TuneType DEF set_userstatus_for_active_accounts
<1>3. tune' = [a \in Accounts |->
                 IF a \in ActiveAccounts(prefs.disabled) /\ set_status_tune(a, ti)
                 THEN TuneOf(ti) ELSE tune[a]]
  BY DEF set_userstatus_for_active_accounts, set_status
<1>4. CASE trackinfo_changed(ti, mostrecent_ti)
  <2>1. tune' = [a \in Accounts |-> IF a \in OpenAccounts THEN TuneOf(ti) ELSE tune[a]]
    BY <1>1, <1>3, <1>4 DEF set_status_tune
  <2>2. Board!Announce(TuneOf(ti))
    BY <1>1, <1>2, <2>1 DEF Board!Announce
  <2>3. QED
    BY <1>2, <2>2 DEF Board!BoardNext
<1>5. CASE ~ trackinfo_changed(ti, mostrecent_ti)
  <2>1. tune' = tune
    BY <1>3, <1>5 DEF set_status_tune, TypeOK
  <2>2. TuneOf(mostrecent_ti') = TuneOf(mostrecent_ti)
    BY <1>2, <1>5, UnchangedTune
  <2>3. Board!Reroute
    BY <1>1, <2>1, <2>2 DEF Board!Reroute
  <2>4. QED
    BY <2>3 DEF Board!BoardNext
<1>6. QED
  BY <1>4, <1>5

LEMMA BoardStep ==
  FollowInv /\ [Next]_vars => [Board!BoardNext]_<<TuneOf(mostrecent_ti), OpenAccounts, tune>>
<1> SUFFICES ASSUME FollowInv, [Next]_vars PROVE Board!BoardNext
  BY DEF Board!boardVars
<1> USE DEF FollowInv
<1>0. OpenAccounts' \subseteq Accounts
  BY DEF OpenAccounts, ActiveAccounts
<1>1. CASE cb_timeout
  BY <1>1, Callers, ServeAnnounces DEF cb_timeout
<1>2. CASE plugin_load
  <2>1. TuneOf(mostrecent_ti) = Null /\ TuneOf(mostrecent_ti') = Null /\ tune' = tune
    <3>1. mostrecent_ti'.status = INVALID
      BY <1>2 DEF plugin_load, TypeOK, TrackInfos
    <3>2. TuneOf(mostrecent_ti') = Null
      BY <3>1 DEF TuneOf, INVALID, PLAYING
    <3>3. QED
      BY <1>2, <3>2 DEF plugin_load, IdleInv, shown
  <2>2. QED
    BY <1>0, <2>1 DEF Board!BoardNext, Board!Reroute
<1>3. CASE plugin_unload
  BY <1>3, Callers, ServeAnnounces DEF plugin_unload
<1>4. CASE action_toggle_status
  <2>1. g_run /\ prefs.disabled \in BOOLEAN
    BY <1>4 DEF action_toggle_status, Control, TypeOK, Prefs
  <2>2. CASE ~ prefs.disabled
    <3>1. set_userstatus_for_active_accounts(Null, prefs.disabled)
      <4>1. prefs.disabled = FALSE
        BY <2>1, <2>2
      <4>2. QED
        BY <1>4, <2>2, <4>1, Callers
    <3>2. QED
      BY <2>1, <3>1, ServeAnnounces
  <2>3. CASE prefs.disabled
    <3>1. set_userstatus_for_active_accounts(mostrecent_ti, FALSE) /\ mostrecent_ti \in TrackInfos
      BY <1>4, <2>3, Callers
    <3>2. mostrecent_ti # Null /\ ~ trackinfo_changed(mostrecent_ti, mostrecent_ti)
      BY <3>1, NullAssumption DEF trackinfo_changed
    <3>3. mostrecent_ti' = mostrecent_ti
      BY <3>1, <3>2 DEF set_userstatus_for_active_accounts, stash
    <3>4. tune' = tune
      BY <3>1, <3>2 DEF set_userstatus_for_active_accounts, set_status, set_status_tune, TypeOK
    <3>5. QED
      BY <1>0, <3>3, <3>4 DEF Board!BoardNext, Board!Reroute
  <2>4. QED
    BY <2>2, <2>3
<1>5. ASSUME NEW a \in Accounts, cb_custom_toggled(a) PROVE Board!BoardNext
  <2>1. mostrecent_ti' = mostrecent_ti
    BY <1>5 DEF cb_custom_toggled
  <2>2. tune' = IF set_status_tune(a, Null) THEN [tune EXCEPT ![a] = Null] ELSE tune
    BY <1>5 DEF cb_custom_toggled, set_status, TypeOK, TuneOf
  <2>3. CASE set_status_tune(a, Null)
    BY <1>0, <2>1, <2>2, <2>3 DEF Board!BoardNext, Board!Withdraw
  <2>4. CASE ~ set_status_tune(a, Null)
    BY <1>0, <2>1, <2>2, <2>4 DEF Board!BoardNext, Board!Reroute
  <2>5. QED
    BY <2>3, <2>4
<1>6. CASE Bystanding
  BY <1>0, <1>6, BystandingFrame DEF Board!BoardNext, Board!Reroute
<1>7. QED
  BY <1>1, <1>2, <1>3, <1>4, <1>5, <1>6, StepCases

(* Every behaviour of the plugin is one of the tune board.                 *)
THEOREM Refinement == Spec => ImplementsBoard
<1>1. Init => Board!BoardInit
  <2>1. Init => TuneOf(mostrecent_ti) = Null
    BY DEF Init, TuneOf, STOPPED, PLAYING
  <2>2. OpenAccounts \subseteq Accounts
    BY DEF OpenAccounts, ActiveAccounts
  <2>3. QED
    BY <2>1, <2>2 DEF Init, Board!BoardInit
<1>2. QED
  BY <1>1, BoardStep, FollowInit, FollowStep, PTL
     DEF Spec, ImplementsBoard, Board!BoardSpec, Board!boardVars

-----------------------------------------------------------------------------
(***************************************************************************)
(* Silenced accounts show the user's own status                            *)
(***************************************************************************)
(* That depends on the way to the accounts staying as it was: no account   *)
(* is told not to use "now listening", no message is withheld from now on  *)
(* and no account goes out of reach while a track is up.                   *)
FixedRouting ==
  /\ Knobs \cap {"broken", "tuneonly", "away", "enable"} = {}
  /\ Presences \subseteq {"available", "away"}

(* The inductive invariant: an account's tune is that of mostrecent_ti or  *)
(* none, so that what counts as unchanged beside NULL needs no clearing.   *)
RoutingInv ==
  /\ prefs.nowListeningOnly = FALSE
  /\ prefs.disableWhenAway = FALSE
  /\ \A a \in Accounts : enabled[a]

TuneInv ==
  \A a \in Accounts : /\ tune[a] \in {Null, TuneOf(mostrecent_ti)}
                      /\ ~ UsesTune(a) => tune[a] = Null

MessageInv == \A a \in Accounts : a \notin MessageAccounts => message[a] = saved[a]

SilenceInv == TypeOK /\ RoutingInv /\ TuneInv /\ MessageInv /\ SilencedShowsOwn

LEMMA Reach ==
  ASSUME FixedRouting, TypeOK, RoutingInv, NEW a \in Accounts
  PROVE  /\ Touchable(a) <=> ~ customDisabled[a]
         /\ ReachesMessage(a) <=> ~ customDisabled[a] /\ a \in MessageAccounts
         /\ \A d \in BOOLEAN : a \in ActiveAccounts(d) <=> ~ d
<1>1. presence[a] \in {"available", "away"}
  BY DEF FixedRouting, TypeOK
<1>2. Touchable(a) <=> ~ customDisabled[a]
  BY <1>1 DEF Touchable, purple_status_is_offline_or_invisible
<1>3. QED
  BY <1>2 DEF ReachesMessage, RoutingInv, ActiveAccounts

(* The text for NULL is the user's own message.                            *)
LEMMA OwnText ==
  ASSUME NEW a \in Accounts
  PROVE  /\ saved[a] # Null => StatusText(a, Null) = saved[a]
         /\ saved[a] = Null => StatusText(a, Null) = <<>>
BY DEF StatusText, StatusFormat, generate_status

(* An account that is cleared shows its own status, tune included.         *)
LEMMA ClearedShowsOwn ==
  ASSUME FixedRouting, SilenceInv, NEW S, set_status(S, Null),
         saved' = saved, NEW a \in S, a \in Accounts, ~ customDisabled[a]
  PROVE  ShowsOwnMessage(a)' /\ tune'[a] = Null
<1> USE DEF SilenceInv
<1>1. ShowsOwnMessage(a)'
  <2>1. CASE a \in MessageAccounts
    <3>1. message'[a] = StatusText(a, Null)
      BY <2>1, Reach DEF set_status, MessageSent, message_changed
    <3>2. QED
      BY <3>1, OwnText DEF ShowsOwnMessage
  <2>2. CASE a \notin MessageAccounts
    <3>1. message'[a] = message[a]
      BY <2>2 DEF set_status, MessageSent, ReachesMessage
    <3>2. QED
      BY <2>2, <3>1 DEF MessageInv, ShowsOwnMessage
  <2>3. QED
    BY <2>1, <2>2
<1>2. tune'[a] = Null
  <2>1. CASE set_status_tune(a, Null)
    BY <2>1 DEF set_status, TuneOf
  <2>2. CASE ~ set_status_tune(a, Null) /\ UsesTune(a)
    <3>1. TuneOf(mostrecent_ti) = Null
      <4>1. ~ trackinfo_changed(Null, mostrecent_ti)
        BY <2>2, Reach DEF set_status_tune
      <4>2. TuneOf(mostrecent_ti) = TuneOf(Null)
        BY <4>1, UnchangedTune
      <4>3. QED
        BY <4>2 DEF TuneOf
    <3>2. QED
      BY <2>2, <3>1 DEF set_status, TuneInv
  <2>3. CASE ~ UsesTune(a)
    BY <2>3 DEF set_status, set_status_tune, TuneInv
  <2>4. QED
    BY <2>1, <2>2, <2>3
<1>3. QED
  BY <1>1, <1>2

(* set_status does not get past the early returns of an account switched   *)
(* off, nor to one it is not called for.                                   *)
LEMMA PassedBy ==
  ASSUME TypeOK, NEW S, NEW ti, set_status(S, ti), saved' = saved, NEW a \in Accounts,
         a \notin S \/ customDisabled[a]
  PROVE  tune'[a] = tune[a] /\ message'[a] = message[a] /\ ShowsOwnMessage(a)' = ShowsOwnMessage(a)
<1>1. ~ (a \in S /\ set_status_tune(a, ti)) /\ ~ (a \in S /\ MessageSent(a, ti))
  BY DEF set_status_tune, MessageSent, ReachesMessage, Touchable
<1>2. tune'[a] = tune[a] /\ message'[a] = message[a]
  BY <1>1 DEF set_status
<1>3. QED
  BY <1>2 DEF ShowsOwnMessage

LEMMA ServeSilence ==
  ASSUME FixedRouting, SilenceInv, g_run, NEW ti \in TrackInfos \cup {Null},
         NEW d \in BOOLEAN, d = prefs.disabled \/ ~ trackinfo_changed(ti, mostrecent_ti),
         set_userstatus_for_active_accounts(ti, d),
         saved' = saved, brokenTune' = brokenTune
  PROVE  /\ TuneInv' /\ MessageInv'
         /\ \A a \in Accounts :
              /\ d \/ customDisabled[a] => tune'[a] = tune[a] /\ ShowsOwnMessage(a)' = ShowsOwnMessage(a)
              /\ ti = Null /\ ~ d /\ ~ customDisabled[a] => ShowsOwnMessage(a)' /\ tune'[a] = Null
<1> USE DEF SilenceInv
<1>1. /\ set_status(ActiveAccounts(d), ti)
      /\ TuneOf(mostrecent_ti') = TuneOf(ti)
  BY StashTune DEF set_userstatus_for_active_accounts
<1>2. ASSUME NEW a \in Accounts, d \/ customDisabled[a]
      PROVE  tune'[a] = tune[a] /\ ShowsOwnMessage(a)' = ShowsOwnMessage(a)
  BY <1>1, <1>2, PassedBy, Reach
<1>3. ASSUME NEW a \in Accounts, ti = Null, ~ d, ~ customDisabled[a]
      PROVE  ShowsOwnMessage(a)' /\ tune'[a] = Null
  BY <1>1, <1>3, ClearedShowsOwn, Reach
<1>4. TuneInv'
  <2> SUFFICES ASSUME NEW a \in Accounts
               PROVE  /\ tune'[a] \in {Null, TuneOf(ti)}
                      /\ ~ UsesTune(a) => tune'[a] = Null
    BY <1>1 DEF TuneInv, UsesTune
  <2>1. tune'[a] = IF a \in ActiveAccounts(d) /\ set_status_tune(a, ti)
                   THEN TuneOf(ti) ELSE tune[a]
    BY ServeTune
  <2>2. ~ UsesTune(a) => tune'[a] = Null
    BY <2>1 DEF TuneInv, set_status_tune
  <2>3. CASE ~ trackinfo_changed(ti, mostrecent_ti)
    BY <2>1, <2>3, UnchangedTune DEF TuneInv, set_status_tune
  <2>4. CASE trackinfo_changed(ti, mostrecent_ti) /\ UsesTune(a)
    <3>1. CASE d \/ customDisabled[a]
      <4>1. Silenced(a)
        BY <2>4, <3>1 DEF Silenced
      <4>2. QED
        BY <1>2, <3>1, <4>1 DEF SilencedShowsOwn
    <3>2. CASE ~ d /\ ~ customDisabled[a]
      BY <2>1, <2>4, <3>2, Reach DEF set_status_tune
    <3>3. QED
      BY <3>1, <3>2
  <2>5. QED
    BY <2>2, <2>3, <2>4
<1>5. MessageInv'
  BY <1>1 DEF MessageInv, set_status, MessageSent, ReachesMessage
<1>6. QED
  BY <1>2, <1>3, <1>4, <1>5

(* The preference handlers that FixedRouting leaves, and the players: they *)
(* change neither what is shown nor who is served.                         *)
LEMMA QuietSilence ==
  ASSUME SilenceInv,
         UNCHANGED << g_run, mostrecent_ti, message, tune, saved, enabled, customDisabled, brokenTune >>,
         prefs'.disabled = prefs.disabled,
         prefs'.nowListeningOnly = prefs.nowListeningOnly,
         prefs'.disableWhenAway = prefs.disableWhenAway
  PROVE  RoutingInv' /\ TuneInv' /\ MessageInv' /\ SilencedShowsOwn'
BY DEF SilenceInv, RoutingInv, TuneInv, MessageInv, SilencedShowsOwn, Silenced,
       ShowsOwnMessage, UsesTune

LEMMA SilenceInit == FixedRouting /\ Init => SilenceInv
<1> SUFFICES ASSUME Init PROVE SilenceInv
  OBVIOUS
<1>1. RoutingInv
  BY DEF Init, InitialPrefs, RoutingInv
<1>2. TuneInv /\ MessageInv /\ SilencedShowsOwn
  BY DEF Init, TuneInv, MessageInv, SilencedShowsOwn, ShowsOwnMessage
<1>3. QED
  BY <1>1, <1>2, TypeInit DEF SilenceInv

LEMMA SilenceStep == FixedRouting /\ SilenceInv /\ [Next]_vars => SilenceInv'
<1> SUFFICES ASSUME FixedRouting, SilenceInv, [Next]_vars
             PROVE  RoutingInv' /\ TuneInv' /\ MessageInv' /\ SilencedShowsOwn'
  BY TypeStep DEF SilenceInv
<1>0. /\ TypeOK /\ prefs \in Prefs /\ prefs.disabled \in BOOLEAN
      /\ customDisabled \in [Accounts -> BOOLEAN]
  BY DEF SilenceInv, TypeOK, Prefs
<1>1. CASE cb_timeout
  <2>1. g_run /\ g_run' = g_run /\ UNCHANGED << settings, purple >>
    BY <1>1 DEF cb_timeout
  <2>2. /\ TuneInv' /\ MessageInv'
        /\ \A a \in Accounts : prefs.disabled \/ customDisabled[a] =>
              tune'[a] = tune[a] /\ ShowsOwnMessage(a)' = ShowsOwnMessage(a)
    BY <1>0, <1>1, <2>1, Callers, ServeSilence DEF settings, purple
  <2>3. RoutingInv'
    BY <2>1 DEF SilenceInv, RoutingInv, settings, purple
  <2>4. SilencedShowsOwn'
    BY <2>1, <2>2 DEF SilenceInv, SilencedShowsOwn, Silenced, settings
  <2>5. QED
    BY <2>2, <2>3, <2>4
<1>2. CASE plugin_load
  <2>1. ~ g_run /\ UNCHANGED << settings, purple, shown >>
    BY <1>2 DEF plugin_load
  <2>2. \A a \in Accounts : tune[a] = Null /\ ShowsOwnMessage(a)
    BY <2>1 DEF SilenceInv, SilencedShowsOwn, Silenced
  <2>3. QED
    BY <2>1, <2>2 DEF SilenceInv, RoutingInv, TuneInv, MessageInv, SilencedShowsOwn,
                      ShowsOwnMessage, UsesTune, settings, purple, shown
<1>3. CASE plugin_unload
  <2>1. g_run /\ UNCHANGED << settings, purple >>
    BY <1>3 DEF plugin_unload
  <2>2. /\ TuneInv' /\ MessageInv'
        /\ \A a \in Accounts :
             /\ prefs.disabled \/ customDisabled[a] =>
                  tune'[a] = tune[a] /\ ShowsOwnMessage(a)' = ShowsOwnMessage(a)
             /\ ~ prefs.disabled /\ ~ customDisabled[a] => ShowsOwnMessage(a)' /\ tune'[a] = Null
    BY <1>0, <1>3, <2>1, Callers, ServeSilence DEF settings, purple
  <2>3. RoutingInv'
    BY <2>1 DEF SilenceInv, RoutingInv, settings, purple
  <2>4. SilencedShowsOwn'
    BY <2>2 DEF SilenceInv, SilencedShowsOwn, Silenced
  <2>5. QED
    BY <2>2, <2>3, <2>4
<1>4. CASE action_toggle_status
  <2>1. /\ g_run /\ UNCHANGED purple
        /\ UNCHANGED << customDisabled, brokenTune >>
        /\ prefs' = [prefs EXCEPT !.disabled = ~ @]
    BY <1>4 DEF action_toggle_status, Control
  <2>2. RoutingInv'
    BY <1>0, <2>1 DEF SilenceInv, RoutingInv, Prefs, purple
  <2>3. CASE ~ prefs.disabled
    <3>1. /\ TuneInv' /\ MessageInv'
          /\ \A a \in Accounts :
               /\ customDisabled[a] => tune'[a] = tune[a] /\ ShowsOwnMessage(a)' = ShowsOwnMessage(a)
               /\ ~ customDisabled[a] => ShowsOwnMessage(a)' /\ tune'[a] = Null
      <4>1. set_userstatus_for_active_accounts(Null, FALSE) /\ prefs.disabled = FALSE
        BY <1>0, <1>4, <2>3, Callers
      <4>2. QED
        BY <2>1, <4>1, ServeSilence DEF purple
    <3>2. SilencedShowsOwn'
      BY <3>1 DEF SilenceInv, SilencedShowsOwn, Silenced
    <3>3. QED
      BY <2>2, <3>1, <3>2
  <2>4. CASE prefs.disabled
    <3>1. /\ set_userstatus_for_active_accounts(mostrecent_ti, FALSE)
          /\ mostrecent_ti \in TrackInfos
          /\ ~ trackinfo_changed(mostrecent_ti, mostrecent_ti)
      BY <1>0, <1>4, <2>4, Callers, NullAssumption DEF trackinfo_changed
    <3>2. /\ TuneInv' /\ MessageInv'
          /\ \A a \in Accounts : customDisabled[a] =>
                tune'[a] = tune[a] /\ ShowsOwnMessage(a)' = ShowsOwnMessage(a)
      BY <2>1, <3>1, ServeSilence DEF purple
    <3>3. g_run' /\ ~ prefs'.disabled
      BY <1>0, <1>4, <2>1, <2>4 DEF action_toggle_status, Control, Prefs
    <3>4. SilencedShowsOwn'
      BY <2>1, <3>2, <3>3 DEF SilenceInv, SilencedShowsOwn, Silenced
    <3>5. QED
      BY <2>2, <3>2, <3>4
  <2>5. QED
    BY <2>3, <2>4
<1>5. ASSUME NEW a \in Accounts, cb_custom_toggled(a)
      PROVE  RoutingInv' /\ TuneInv' /\ MessageInv' /\ SilencedShowsOwn'
  <2>1. /\ set_status({a}, Null)
        /\ UNCHANGED << g_run, mostrecent_ti, prefs, brokenTune, purple >>
        /\ customDisabled' = [customDisabled EXCEPT ![a] = ~ @]
    BY <1>5 DEF cb_custom_toggled, Control
  <2>2. RoutingInv' /\ MessageInv'
    BY <2>1 DEF SilenceInv, RoutingInv, MessageInv, purple, set_status, MessageSent, ReachesMessage
  <2>3. \A b \in Accounts : b # a \/ customDisabled[a] =>
           tune'[b] = tune[b] /\ ShowsOwnMessage(b)' = ShowsOwnMessage(b)
    BY <1>0, <2>1, PassedBy DEF purple
  <2>4. ~ customDisabled[a] => ShowsOwnMessage(a)' /\ tune'[a] = Null
    BY <2>1, ClearedShowsOwn DEF purple
  <2>5. TuneInv'
    BY <2>1, <2>3, <2>4 DEF SilenceInv, TuneInv, UsesTune
  <2>6. SilencedShowsOwn'
    <3> SUFFICES ASSUME NEW b \in Accounts, Silenced(b)'
                 PROVE  ShowsOwnMessage(b)' /\ tune'[b] = Null
      BY DEF SilencedShowsOwn
    <3>1. CASE b = a /\ ~ customDisabled[a]
      BY <2>4, <3>1
    <3>2. CASE b # a \/ customDisabled[a]
      <4>1. Silenced(b)
        BY <1>0, <2>1, <3>2 DEF Silenced
      <4>2. QED
        BY <2>3, <3>2, <4>1 DEF SilenceInv, SilencedShowsOwn
    <3>3. QED
      BY <3>1, <3>2
  <2>7. QED
    BY <2>2, <2>5, <2>6
<1>6. CASE Bystanding
  <2>1. CASE cb_filter_toggled \/ cb_player_changed \/ cb_format_changed
    BY <1>0, <2>1, QuietSilence
       DEF cb_filter_toggled, cb_player_changed, cb_format_changed, Control, Quietly,
           purple, shown, Prefs
  <2>2. ASSUME NEW a \in Accounts, cb_custom_edited(a)
        PROVE  RoutingInv' /\ TuneInv' /\ MessageInv' /\ SilencedShowsOwn'
    BY <2>2, QuietSilence DEF cb_custom_edited, Control, Quietly, purple, shown
  <2>3. CASE PlayerActs \/ musictracker_cmd_nowplaying \/ UNCHANGED vars
    BY <2>3, QuietSilence
       DEF PlayerActs, Outside, musictracker_cmd_nowplaying, vars, settings, purple, shown
  <2>4. ASSUME NEW a \in Accounts, UserPicksStatus(a)
        PROVE  RoutingInv' /\ TuneInv' /\ MessageInv' /\ SilencedShowsOwn'
    <3>1. PICK m \in SavedMessages \cup {Null} :
                 /\ saved' = [saved EXCEPT ![a] = m]
                 /\ message' = [message EXCEPT ![a] = m]
      BY <2>4 DEF UserPicksStatus
    <3>2. UNCHANGED << g_run, mostrecent_ti, settings, tune, enabled >>
      BY <2>4 DEF UserPicksStatus, Outside
    <3>3. \A b \in Accounts : /\ b = a => message'[b] = saved'[b]
                              /\ b # a => message'[b] = message[b] /\ saved'[b] = saved[b]
      BY <1>0, <3>1 DEF TypeOK
    <3>4. RoutingInv' /\ TuneInv'
      BY <3>2 DEF SilenceInv, RoutingInv, TuneInv, UsesTune, settings
    <3>5. MessageInv' /\ SilencedShowsOwn'
      BY <3>2, <3>3 DEF SilenceInv, MessageInv, SilencedShowsOwn, Silenced,
                        ShowsOwnMessage, settings
    <3>6. QED
      BY <3>4, <3>5
  <2>5. /\ ~ cb_misc_toggled
        /\ \A a \in Accounts : ~ cb_broken_nowlistening_toggled(a) /\ ~ UserEnablesAccount(a)
    BY DEF FixedRouting, cb_misc_toggled, cb_broken_nowlistening_toggled, UserEnablesAccount,
           Control
  <2>6. QED
    BY <1>6, <2>1, <2>2, <2>3, <2>4, <2>5 DEF Bystanding, Environment
<1>7. QED
  BY <1>1, <1>2, <1>3, <1>4, <1>5, <1>6, StepCases

(* With a fixed routing, an account the plugin has been told to leave      *)
(* alone shows the user's own message and no tune, for as long as that     *)
(* lasts.                                                                  *)
THEOREM SilencedOwn ==
  ASSUME FixedRouting
  PROVE  Spec => []SilencedShowsOwn
<1>1. SilenceInv => SilencedShowsOwn
  BY DEF SilenceInv
<1>2. Init => SilenceInv
  BY SilenceInit
<1>3. SilenceInv /\ [Next]_vars => SilenceInv'
  BY SilenceStep
<1>4. QED
  BY <1>1, <1>2, <1>3, PTL DEF Spec

-----------------------------------------------------------------------------
(***************************************************************************)
(* Accounts out of reach are left alone                                    *)
(***************************************************************************)
(* set_status announces only on accounts it may touch, for whichever       *)
(* accounts it is called.                                                  *)
LEMMA ServedAreTouchable ==
  ASSUME NEW S, NEW ti, set_status(S, ti), NEW s \in sent'
  PROVE  Touchable(s.to)
<1>1. CASE s \in {[to |-> a, via |-> "tune", text |-> TuneOf(ti)] :
                     a \in {b \in S : set_status_tune(b, ti)}}
  BY <1>1 DEF set_status_tune
<1>2. CASE s \in {[to |-> a, via |-> "message", text |-> StatusText(a, ti)] :
                     a \in {b \in S : MessageSent(b, ti)}}
  BY <1>2 DEF MessageSent, ReachesMessage
<1>3. QED
  BY <1>1, <1>2 DEF set_status

(* No step of the plugin announces anything on an account that is offline, *)
(* invisible or switched off (LeavesUntouchableAlone): what is not sent by *)
(* set_status goes to a conversation, which is no account.                 *)
THEOREM UntouchableLeftAlone == Spec => LeavesUntouchableAlone
<1> DEFINE Untouchable(a) == customDisabled[a] \/ presence[a] \in {"invisible", "offline"}
<1>1. ASSUME Next, NEW a \in Accounts, Untouchable(a), NEW s \in sent'
      PROVE  s.to # a
  <2>1. ~ Touchable(a)
    BY <1>1 DEF Touchable, purple_status_is_offline_or_invisible
  <2>2. ASSUME NEW S, NEW ti, set_status(S, ti) PROVE s.to # a
    BY <1>1, <2>1, <2>2, ServedAreTouchable
  <2>3. CASE cb_timeout \/ plugin_unload \/ action_toggle_status
             \/ \E b \in Accounts : cb_custom_toggled(b)
    BY <2>2, <2>3
       DEF cb_timeout, plugin_unload, action_toggle_status, cb_custom_toggled,
           clear_track_information, restore_track_information,
           set_userstatus_for_active_accounts
  <2>4. CASE musictracker_cmd_nowplaying
    BY <1>1, <2>4, AccountAssumption DEF musictracker_cmd_nowplaying
  <2>5. CASE plugin_load \/ cb_misc_toggled \/ cb_filter_toggled \/ cb_player_changed
             \/ cb_format_changed \/ Environment
             \/ \E b \in Accounts : cb_broken_nowlistening_toggled(b) \/ cb_custom_edited(b)
    BY <1>1, <2>5
       DEF plugin_load, cb_misc_toggled, cb_filter_toggled, cb_player_changed,
           cb_format_changed, cb_broken_nowlistening_toggled, cb_custom_edited, Quietly,
           Environment, PlayerActs, UserPicksStatus, UserEnablesAccount, Outside
  <2>6. QED
    BY <1>1, <2>3, <2>4, <2>5 DEF Next, UserControls
<1>2. [Next]_vars => [\A a \in Accounts : Untouchable(a) => \A s \in sent' : s.to # a]_vars
  BY <1>1
<1>3. QED
  BY <1>2, PTL DEF Spec, LeavesUntouchableAlone

-----------------------------------------------------------------------------
(***************************************************************************)
(* Filtered words are gone                                                 *)
(***************************************************************************)
(* What the profanity filter does to a track, beyond being a function of   *)
(* it: filtering twice changes no more than filtering once, nothing is     *)
(* found in an empty title, a time behind a title hides no word of it and  *)
(* is none itself; and what the plugin shows on its own account, the saved *)
(* messages and the word it shows while paused, is not on the user's list. *)
Passes(t) == Censored[t] = t

FilterSettles ==
  /\ \A t \in Tracks : Passes(Censored[t])
  /\ Passes(NoTrack)
  /\ \A t \in Tracks, s \in Times : Append(t, s) \in Tracks => (Passes(Append(t, s)) <=> Passes(t))
  /\ \A m \in SavedMessages \cup {Append(NoTrack, PausedWord)} :
       \A t \in Profane : ~ Mentions(m, t)

(* A title that passes, with a time behind it or without, mentions no      *)
(* title that does not.                                                    *)
LEMMA PassingMentions ==
  ASSUME FilterSettles, NEW c \in Tracks, Passes(c), NEW s \in Times, NEW t \in Profane
  PROVE  ~ Mentions(c, t) /\ ~ Mentions(Append(c, s), t)
<1>1. t \in Tracks /\ ~ Passes(t)
  BY DEF Profane, Passes
<1>2. c \in Seq(Words) /\ t \in Seq(Words) /\ \A r \in Times : r \in Words
  BY <1>1, TextAssumption DEF Text
<1>3. ~ Mentions(c, t)
  <2>1. c # t
    BY <1>1
  <2>2. ASSUME NEW r \in Times, c = Append(t, r) PROVE FALSE
    BY <1>1, <2>2 DEF FilterSettles
  <2>3. QED
    BY <2>1, <2>2 DEF Mentions
<1>4. ~ Mentions(Append(c, s), t)
  <2>1. Append(c, s) # t
    BY <1>1 DEF FilterSettles
  <2>2. ASSUME NEW r \in Times, Append(c, s) = Append(t, r) PROVE FALSE
    <3>1. c = t
      BY <1>2, <2>2, AppendInjective
    <3>2. QED
      BY <1>1, <3>1
  <2>3. QED
    BY <2>1, <2>2 DEF Mentions
<1>5. QED
  BY <1>3, <1>4

(* No text the plugin arrives at for what a filtered poll found does.      *)
LEMMA StatusTextPasses ==
  ASSUME FilterSettles, TypeOK, NEW ti \in TrackInfos \cup {Null},
         ti # Null => Passes(ti.track), NEW a \in Accounts, NEW t \in Profane
  PROVE  ~ Mentions(StatusText(a, ti), t)
<1> DEFINE f == StatusFormat(a, ti)
           x == generate_status(f, ti, saved[a])
<1>1. /\ NoTrack \in Tracks /\ Passes(NoTrack)
      /\ saved[a] \in SavedMessages \cup {Null}
      /\ ZeroTime \in Times
  BY TextAssumption DEF FilterSettles, TypeOK
<1>2. ~ Mentions(<<>>, t)
  BY <1>1, PassingMentions DEF NoTrack
<1>3. saved[a] # Null => ~ Mentions(saved[a], t)
  BY <1>1 DEF FilterSettles
<1>4. ~ Mentions(Append(NoTrack, PausedWord), t)
  BY DEF FilterSettles
<1>5. CASE ti = Null
  BY <1>2, <1>3, <1>5, OwnText
<1>6. CASE ti # Null
  <2>1. /\ ti.track \in Tracks /\ ti.time \in Times
        /\ ~ Mentions(ti.track, t) /\ ~ Mentions(Append(ti.track, ti.time), t)
    BY <1>6, PassingMentions DEF TrackInfos
  <2>2. f \in Formats
    BY <1>6 DEF StatusFormat, TypeOK, Prefs, Formats
  <2>3. ~ Mentions(x, t)
    <3> HIDE DEF f
    <3>1. QED
      BY <1>2, <1>3, <1>4, <2>1, <2>2 DEF generate_status, Formats
  <2>4. StatusText(a, ti) = IF x = <<>> /\ saved[a] # Null THEN saved[a] ELSE x
    BY DEF StatusText
  <2>5. QED
    BY <1>3, <2>3, <2>4
<1>7. QED
  BY <1>5, <1>6

(* While the profanity filter is on, no account a poll serves shows a word *)
(* of the user's list from that poll on (CensoredOnceFiltered), as far as  *)
(* the word was not put there by the user.                                 *)
THEOREM FilteredIsCensored ==
  ASSUME FilterSettles
  PROVE  Spec => []CensoredOnceFiltered
<1>1. ASSUME TypeOK, SettledInv, TuneFollowsMostRecent
      PROVE  CensoredOnceFiltered
  <2> SUFFICES ASSUME settled, prefs.filter, ~ prefs.disabled,
                      NEW a \in Accounts, NEW t \in Profane, enabled[a], Touchable(a)
               PROVE  /\ ReachesMessage(a) => ~ Mentions(message[a], t)
                      /\ UsesTune(a) /\ a \notin behind => tune[a] # t
    BY DEF CensoredOnceFiltered
  <2>1. /\ PolledInfo \in TrackInfos \cup {Null}
        /\ PolledInfo # Null => Passes(PolledInfo.track)
    <3>1. PolledInfo \in TrackInfos \cup {Null}
      BY <1>1, PolledType
    <3>2. CASE players[SelectPlayer].status = CLOSED
      BY <3>1, <3>2 DEF PolledInfo
    <3>3. CASE players[SelectPlayer].status # CLOSED
      <4> DEFINE r == players[SelectPlayer]
      <4>1. r \in Reports /\ r.status # CLOSED
        BY <1>1, <3>3, SelectType DEF TypeOK
      <4>2. r.track \in Tracks /\ Cleaned[r.track] \in Tracks
        BY <4>1, PlayerAssumption, TextAssumption DEF Reports, ClosedInfo
      <4>3. PolledInfo = [r EXCEPT !.track = Censored[Cleaned[r.track]]]
        BY <3>3 DEF PolledInfo
      <4>4. r = [status |-> r.status, track |-> r.track, time |-> r.time]
        BY <4>1 DEF Reports, ClosedInfo
      <4>5. PolledInfo.track = Censored[Cleaned[r.track]]
        <5> HIDE DEF r
        <5>1. QED BY <4>3, <4>4
      <4>6. QED
        BY <3>1, <4>2, <4>5 DEF FilterSettles
    <3>4. QED
      BY <3>2, <3>3
  <2>2. ReachesMessage(a) => ~ Mentions(message[a], t)
    <3>1. a \in ActiveAccounts(prefs.disabled)
      BY DEF ActiveAccounts
    <3>2. ReachesMessage(a) => message[a] = StatusText(a, PolledInfo)
      BY <1>1, <3>1 DEF SettledInv, MessageSent, message_changed
    <3>3. ~ Mentions(StatusText(a, PolledInfo), t)
      BY <1>1, <2>1, StatusTextPasses
    <3>4. QED
      BY <3>2, <3>3
  <2>3. a \notin behind => tune[a] # t
    <3>1. ASSUME a \notin behind PROVE tune[a] = TuneOf(PolledInfo)
      BY <1>1, <2>1, <3>1, UnchangedTune DEF SettledInv, TuneFollowsMostRecent
    <3>2. t \in Tracks /\ ~ Passes(t) /\ t # Null
      BY TextAssumption DEF Profane, Passes
    <3>3. QED
      BY <2>1, <3>1, <3>2 DEF TuneOf
  <2>4. QED
    BY <2>2, <2>3
<1>2. Init => TypeOK /\ SettledInv /\ TuneFollowsMostRecent
  BY FollowInit DEF FollowInv, Init, SettledInv
<1>3. QED
  BY <1>1, <1>2, TypeStep, SettledStep, TuneFollows, PTL DEF Spec
=============================================================================
