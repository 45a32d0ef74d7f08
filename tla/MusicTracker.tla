---------------------------- MODULE MusicTracker ----------------------------
(***************************************************************************)
(* The core of the plugin: musictracker.c with the handlers of actions.c   *)
(* and preferences.c that share its state.  Everything runs on the one     *)
(* thread of the GLib main loop: an action is one callback, run to its end.*)
(*                                                                         *)
(* The plugin keeps one piece of state, mostrecent_ti, against which every *)
(* poll decides whether the accounts' "now listening" status (the tune)    *)
(* must be set again.  The accounts may be unreachable, switched off or    *)
(* routed differently when that decision is taken.                         *)
(***************************************************************************)
EXTENDS TrackInfo, FiniteSets

CONSTANTS
  Accounts,          \* the accounts of the instance
  TuneAccounts,      \* those whose protocol has a PURPLE_STATUS_TUNE status
  MessageAccounts,   \* those whose statuses have a "message" attribute
  XmppAccounts,      \* those of protocol "XMPP"
  NPlayers,          \* the length of g_players
  SavedMessages,     \* the messages the user's saved statuses can carry
  Presences,         \* the statuses the user picks in this instance
  FormatChoices,     \* the formats the user picks in this instance
  Cleaned,           \* trim, utf8_validate and filter_printable of a track
  Censored,          \* filter_profanity of a track
  Knobs              \* the controls the user touches in this instance

Players == 1 .. NPlayers

ASSUME AccountAssumption ==
  /\ TuneAccounts \subseteq Accounts
  /\ MessageAccounts \subseteq Accounts
  /\ XmppAccounts \subseteq Accounts
  /\ Null \notin Accounts
  /\ Presences \subseteq {"available", "away", "invisible", "offline"}
  /\ SavedMessages \subseteq Text

ASSUME PlayerAssumption ==
  /\ NPlayers \in Nat \ {0}
  /\ FormatChoices \subseteq Formats
  /\ Cleaned \in [Tracks -> Tracks]
  /\ Censored \in [Tracks -> Tracks]

VARIABLES
  g_run,             \* the plugin is loaded
  mostrecent_ti,     \* the track information last handed to the accounts
  prefs,             \* the preferences that are not kept per account
  customDisabled,    \* PREF_CUSTOM_DISABLED of each account
  customFormat,      \* PREF_CUSTOM_FORMAT of each account
  brokenTune,        \* PREF_BROKEN_NOWLISTENING of each account
  enabled,           \* the account is enabled in libpurple
  presence,          \* the primitive of its active status
  saved,             \* the message of the saved status in use for it
  message,           \* the "message" attribute of its active status
  tune,              \* its tune status
  players,           \* what each player would report now
  sent,              \* what the last step handed to libpurple to announce
  behind,            \* history: accounts a change of track information missed
  settled,           \* history: nothing but polls since the last poll
  polled             \* history: what the last poll found

settings == << prefs, customDisabled, customFormat, brokenTune >>
purple   == << enabled, presence, saved >>
shown    == << message, tune >>
history  == << behind, settled, polled >>
vars     == << g_run, mostrecent_ti, settings, purple, shown, players, sent,
               history >>

(***************************************************************************)
(* set_status                                                              *)
(***************************************************************************)
(* The early returns of set_status: per-account disable, then a status     *)
(* that is offline or invisible.                                           *)
purple_status_is_offline_or_invisible(a) == presence[a] \in {"offline", "invisible"}
purple_status_is_away(a) == presence[a] = "away"

(* Mutant of Touchable: the status is not looked at.                       *)
Touchable_in_any_status(a) == ~ customDisabled[a]

Touchable(a) ==
  /\ ~ customDisabled[a]
  /\ ~ purple_status_is_offline_or_invisible(a)

(* set_status_tune returns TRUE: the account takes the tune status.        *)
UsesTune(a) == a \in TuneAccounts /\ ~ brokenTune[a]

(* Mutant of set_status_tune: nothing is done for a NULL TrackInfo.        *)
set_status_tune_not_null(a, ti) ==
  Touchable(a) /\ UsesTune(a) /\ ti # Null /\ trackinfo_changed(ti, mostrecent_ti)

(* set_status_tune gets as far as setting the tune.                        *)
set_status_tune(a, ti) ==
  Touchable(a) /\ UsesTune(a) /\ trackinfo_changed(ti, mostrecent_ti)

(* set_status gets as far as the message.                                  *)
ReachesMessage(a) ==
  /\ Touchable(a)
  /\ ~ (UsesTune(a) /\ prefs.nowListeningOnly)
  /\ ~ (prefs.disableWhenAway /\ purple_status_is_away(a))
  /\ a \in MessageAccounts

StatusFormat(a, ti) ==
  IF ti = Null THEN "blank"
  ELSE CASE ti.status = STOPPED -> prefs.off
         [] ti.status = PAUSED  -> prefs.paused
         [] ti.status = PLAYING ->
              IF customFormat[a] # "blank" THEN customFormat[a] ELSE prefs.format
         [] OTHER -> "blank"

(* The text set_status arrives at: an empty one gives way to the message   *)
(* of the user's saved status, if there is one.                            *)
StatusText(a, ti) ==
  LET text == generate_status(StatusFormat(a, ti), ti, saved[a])
  IN  IF text = <<>> /\ saved[a] # Null THEN saved[a] ELSE text

(* Mutant of MessageSent: an unchanged track leaves the message alone.     *)
MessageSent_on_change(a, ti) ==
  /\ ReachesMessage(a)
  /\ message_changed(StatusText(a, ti), message[a])
  /\ trackinfo_changed(ti, mostrecent_ti)

MessageSent(a, ti) == ReachesMessage(a) /\ message_changed(StatusText(a, ti), message[a])

(* set_status(account, ti) for each account of S.                          *)
set_status(S, ti) ==
  /\ tune' = [a \in Accounts |->
                IF a \in S /\ set_status_tune(a, ti) THEN TuneOf(ti) ELSE tune[a]]
  /\ message' = [a \in Accounts |->
                   IF a \in S /\ MessageSent(a, ti) THEN StatusText(a, ti) ELSE message[a]]
  /\ sent' = { [to |-> a, via |-> "tune", text |-> TuneOf(ti)] :
                   a \in {b \in S : set_status_tune(b, ti)} }
             \cup { [to |-> a, via |-> "message", text |-> StatusText(a, ti)] :
                   a \in {b \in S : MessageSent(b, ti)} }

(***************************************************************************)
(* set_userstatus_for_active_accounts, called with the value PREF_DISABLED *)
(* has at the call.  mostrecent_ti changes after the accounts were served, *)
(* and whether or not they were.                                           *)
(***************************************************************************)
ActiveAccounts(disabled) == IF disabled THEN {} ELSE {a \in Accounts : enabled[a]}

(* Mutants of stash: the pointer is kept unseen; a NULL TrackInfo is not   *)
(* remembered; the strings are not copied.                                 *)
stash_null(ti) == mostrecent_ti' = ti
stash_not_null(ti) == mostrecent_ti' = IF ti = Null THEN mostrecent_ti ELSE ti
stash_status(ti) ==
  mostrecent_ti' = [mostrecent_ti EXCEPT !.status = IF ti = Null THEN CLOSED ELSE ti.status]

stash(ti) ==
  mostrecent_ti' = IF ti = Null THEN [mostrecent_ti EXCEPT !.status = CLOSED] ELSE ti

set_userstatus_for_active_accounts(ti, disabled) ==
  LET S == ActiveAccounts(disabled)
  IN  /\ set_status(S, ti)
      /\ stash(ti)
      /\ behind' = IF trackinfo_changed(ti, mostrecent_ti)
                   THEN Accounts \ {a \in S : Touchable(a) /\ UsesTune(a)}
                   ELSE behind

(* Mutant of clear_track_information: PREF_DISABLED has been set before.   *)
clear_track_information_late(disabled) ==
  set_userstatus_for_active_accounts(Null, ~ disabled)

clear_track_information(disabled) == set_userstatus_for_active_accounts(Null, disabled)

restore_track_information(disabled) ==
  set_userstatus_for_active_accounts(mostrecent_ti, disabled)

(***************************************************************************)
(* The poll                                                                *)
(***************************************************************************)
(* The player cb_timeout settles on: the configured one, or the first that *)
(* is paused or playing.  When none is, the loop leaves ti with what the   *)
(* last player of the table reported.                                      *)
SelectPlayer ==
  IF prefs.player # -1 THEN prefs.player
  ELSE LET busy == {i \in Players : players[i].status > STOPPED}
       IN  IF busy = {} THEN NPlayers
           ELSE CHOOSE i \in busy : \A j \in busy : i <= j

(* ... and the information it hands on: NULL for a closed player, else     *)
(* the report with its track cleaned and, if so configured, censored.      *)
PolledInfo ==
  LET ti      == players[SelectPlayer]
      cleaned == Cleaned[ti.track]
  IN  IF ti.status = CLOSED THEN Null
      ELSE [ti EXCEPT !.track = IF prefs.filter THEN Censored[cleaned] ELSE cleaned]

cb_timeout ==
  /\ g_run
  /\ set_userstatus_for_active_accounts(PolledInfo, prefs.disabled)
  /\ polled' = PolledInfo
  /\ settled' = TRUE
  /\ UNCHANGED << g_run, settings, purple, players >>

(***************************************************************************)
(* Loading and unloading                                                   *)
(***************************************************************************)
(* The accounts' default preferences are already in Init: adding them      *)
(* again changes nothing.                                                  *)
plugin_load ==
  /\ ~ g_run
  /\ g_run' = TRUE
  /\ mostrecent_ti' = [mostrecent_ti EXCEPT !.status = INVALID]
  /\ sent' = {}
  /\ settled' = FALSE
  /\ UNCHANGED << settings, purple, shown, players, behind, polled >>

plugin_unload ==
  /\ g_run
  /\ "unload" \in Knobs
  /\ set_userstatus_for_active_accounts(Null, prefs.disabled)
  /\ g_run' = FALSE
  /\ settled' = FALSE
  /\ polled' = Null
  /\ UNCHANGED << settings, purple, players >>

(***************************************************************************)
(* The user's controls: the Tools menu, the preferences dialog             *)
(***************************************************************************)
Control(knob) ==
  /\ g_run
  /\ knob \in Knobs
  /\ settled' = FALSE
  /\ UNCHANGED << g_run, purple, players, polled >>

(* "Deactivate Status Changing": clear, then set the preference;           *)
(* "Activate Status Changing": set it, then restore.                       *)
action_toggle_status ==
  /\ Control("toggle")
  /\ prefs' = [prefs EXCEPT !.disabled = ~ @]
  /\ IF prefs'.disabled THEN clear_track_information(prefs.disabled)
                        ELSE restore_track_information(prefs'.disabled)
  /\ UNCHANGED << customDisabled, customFormat, brokenTune >>

(* The account's status is cleared under the preference's old value, which *)
(* is why nothing happens when the account is being switched back on;      *)
(* PREF_DISABLED and mostrecent_ti play no part.                           *)
cb_custom_toggled(a) ==
  /\ Control("custom")
  /\ set_status({a}, Null)
  /\ customDisabled' = [customDisabled EXCEPT ![a] = ~ @]
  /\ behind' = IF Touchable(a) /\ UsesTune(a) /\ mostrecent_ti.status = PLAYING
               THEN behind \cup {a} ELSE behind
  /\ UNCHANGED << mostrecent_ti, prefs, customFormat, brokenTune >>

(* The handlers that only write a preference.                              *)
Quietly == UNCHANGED << mostrecent_ti, shown, behind >> /\ sent' = {}

cb_broken_nowlistening_toggled(a) ==
  /\ Control("broken") /\ Quietly
  /\ brokenTune' = [brokenTune EXCEPT ![a] = ~ @]
  /\ UNCHANGED << prefs, customDisabled, customFormat >>

cb_custom_edited(a) ==
  /\ Control("override") /\ Quietly
  /\ \E f \in FormatChoices : customFormat' = [customFormat EXCEPT ![a] = f]
  /\ UNCHANGED << prefs, customDisabled, brokenTune >>

cb_misc_toggled ==
  /\ \/ /\ Control("away")
        /\ prefs' = [prefs EXCEPT !.disableWhenAway = ~ @]
     \/ /\ Control("tuneonly")
        /\ prefs' = [prefs EXCEPT !.nowListeningOnly = ~ @]
  /\ Quietly
  /\ UNCHANGED << customDisabled, customFormat, brokenTune >>

cb_filter_toggled ==
  /\ Control("filter") /\ Quietly
  /\ prefs' = [prefs EXCEPT !.filter = ~ @]
  /\ UNCHANGED << customDisabled, customFormat, brokenTune >>

cb_player_changed ==
  /\ Control("player") /\ Quietly
  /\ \E i \in Players \cup {-1} : prefs' = [prefs EXCEPT !.player = i]
  /\ UNCHANGED << customDisabled, customFormat, brokenTune >>

(* Also action_off_status, which asks for the "off" format alone.          *)
cb_format_changed ==
  /\ Control("formats") /\ Quietly
  /\ \E f \in FormatChoices :
       \/ prefs' = [prefs EXCEPT !.format = f]
       \/ prefs' = [prefs EXCEPT !.off = f]
       \/ prefs' = [prefs EXCEPT !.paused = f]
  /\ UNCHANGED << customDisabled, customFormat, brokenTune >>

(* The /nowplaying and /np commands.                                       *)
musictracker_cmd_nowplaying ==
  /\ g_run
  /\ "np" \in Knobs
  /\ sent' = IF mostrecent_ti.status = PLAYING
             THEN {[to |-> Null, via |-> "conversation",
                    text |-> generate_status(prefs.format, mostrecent_ti, <<>>)]}
             ELSE {}
  /\ UNCHANGED << g_run, mostrecent_ti, settings, purple, shown, players, history >>

(***************************************************************************)
(* The surroundings: players and libpurple                                 *)
(***************************************************************************)
Outside ==
  /\ sent' = {}
  /\ settled' = FALSE
  /\ UNCHANGED << g_run, mostrecent_ti, settings, tune, behind, polled >>

(* A player starts, stops, closes or goes to another track or second.      *)
PlayerActs ==
  /\ Outside
  /\ \E i \in Players, r \in Reports : players' = [players EXCEPT ![i] = r]
  /\ UNCHANGED << purple, message >>

(* The user picks a status: libpurple activates it with its own message.   *)
UserPicksStatus(a) ==
  /\ Outside
  /\ \E p \in Presences, m \in SavedMessages \cup {Null} :
        /\ presence' = [presence EXCEPT ![a] = p]
        /\ saved' = [saved EXCEPT ![a] = m]
        /\ message' = [message EXCEPT ![a] = m]
  /\ UNCHANGED << enabled, players >>

UserEnablesAccount(a) ==
  /\ Outside
  /\ "enable" \in Knobs
  /\ enabled' = [enabled EXCEPT ![a] = ~ @]
  /\ UNCHANGED << presence, saved, message, players >>

(***************************************************************************)
(* The specification                                                       *)
(***************************************************************************)
InitialPrefs ==
  [disabled |-> FALSE, player |-> -1, nowListeningOnly |-> FALSE,
   disableWhenAway |-> FALSE, filter |-> FALSE,
   format |-> "timed", off |-> "blank", paused |-> "literal"]

Init ==
  /\ g_run = FALSE
  /\ mostrecent_ti = [status |-> STOPPED, track |-> NoTrack, time |-> ZeroTime]
  /\ prefs = InitialPrefs
  /\ customDisabled = [a \in Accounts |-> FALSE]
  /\ customFormat = [a \in Accounts |-> "blank"]
  /\ brokenTune = [a \in Accounts |-> a \in XmppAccounts]
  /\ enabled = [a \in Accounts |-> TRUE]
  /\ presence \in [Accounts -> Presences]
  /\ saved \in [Accounts -> SavedMessages \cup {Null}]
  /\ message = saved
  /\ tune = [a \in Accounts |-> Null]
  /\ players = [i \in Players |-> ClosedInfo]
  /\ sent = {}
  /\ behind = {}
  /\ settled = FALSE
  /\ polled = Null

UserControls ==
  \/ action_toggle_status
  \/ \E a \in Accounts : \/ cb_custom_toggled(a)
                         \/ cb_broken_nowlistening_toggled(a)
                         \/ cb_custom_edited(a)
  \/ cb_misc_toggled
  \/ cb_filter_toggled
  \/ cb_player_changed
  \/ cb_format_changed

Environment ==
  \/ PlayerActs
  \/ \E a \in Accounts : UserPicksStatus(a) \/ UserEnablesAccount(a)

Next ==
  \/ cb_timeout
  \/ plugin_load
  \/ plugin_unload
  \/ UserControls
  \/ musictracker_cmd_nowplaying
  \/ Environment

Spec == Init /\ [][Next]_vars

(* purple_timeout_add keeps calling cb_timeout while the plugin is loaded. *)
FairSpec == Spec /\ WF_vars(cb_timeout)

(***************************************************************************)
(* Properties                                                              *)
(***************************************************************************)
Prefs == [disabled : BOOLEAN, player : Players \cup {-1},
          nowListeningOnly : BOOLEAN, disableWhenAway : BOOLEAN,
          filter : BOOLEAN, format : Formats, off : Formats, paused : Formats]

Announcements ==
  [to : Accounts \cup {Null}, via : {"tune", "message", "conversation"},
   text : Text \cup {Null}]

(* Every variable holds a value of the C type it stands for; between       *)
(* plugin_load and the first poll mostrecent_ti.status is INVALID.         *)
TypeOK ==
  /\ g_run \in BOOLEAN
  /\ mostrecent_ti \in TrackInfos
  /\ prefs \in Prefs
  /\ customDisabled \in [Accounts -> BOOLEAN]
  /\ customFormat \in [Accounts -> Formats]
  /\ brokenTune \in [Accounts -> BOOLEAN]
  /\ enabled \in [Accounts -> BOOLEAN]
  /\ presence \in [Accounts -> Presences]
  /\ saved \in [Accounts -> SavedMessages \cup {Null}]
  /\ message \in [Accounts -> Text \cup {Null}]
  /\ tune \in [Accounts -> Tracks \cup {Null}]
  /\ players \in [Players -> Reports]
  /\ sent \subseteq Announcements
  /\ behind \subseteq Accounts
  /\ settled \in BOOLEAN
  /\ polled \in TrackInfos \cup {Null}

(* Comparing with mostrecent_ti instead of with the tune itself is right   *)
(* for every account that no change of track information has passed by:    *)
(* its tune is exactly that of mostrecent_ti, whatever polls, menu and     *)
(* preference handlers ran in between (set_status_tune and                 *)
(* set_userstatus_for_active_accounts).                                    *)
TuneFollowsMostRecent ==
  \A a \in Accounts \ behind : tune[a] = TuneOf(mostrecent_ti)

(* /nowplaying reads mostrecent_ti: what it holds beyond "closed" is what  *)
(* the last poll found, also while status changing is disabled and after   *)
(* it was switched off and on between polls.                               *)
MostRecentIsPolled ==
  g_run /\ mostrecent_ti.status > CLOSED => mostrecent_ti = polled

(* A poll that finds what the poll before it found, with nothing else      *)
(* having happened in between, announces nothing: protocols limit how      *)
(* often a status may change (message_changed, trackinfo_changed).         *)
SettledPollIsSilent == [][cb_timeout /\ settled => sent' = {}]_vars

(* Whatever handler runs, it announces nothing on an account that is       *)
(* invisible or offline, since that could bring it online (set_status),    *)
(* and nothing on one that is switched off, be it while the account is     *)
(* being switched back on or while the plugin is unloaded.                 *)
LeavesUntouchableAlone ==
  [][\A a \in Accounts : customDisabled[a] \/ presence[a] \in {"invisible", "offline"}
        => \A s \in sent' : s.to # a]_vars

(* The message of the user's own status.                                   *)
ShowsOwnMessage(a) == message[a] = saved[a] \/ (saved[a] = Null /\ message[a] = <<>>)

(* Where the plugin has been told to be silent.                            *)
Silenced(a) == ~ g_run \/ prefs.disabled \/ customDisabled[a]

(* Once the plugin is unloaded, or status changing is switched off for     *)
(* everyone or for an account, the account shows the user's own message    *)
(* and no tune, and nothing that happens later brings the track back: the  *)
(* handlers clear before they write the preference and compare with.       *)
SilencedShowsOwn ==
  \A a \in Accounts : Silenced(a) => ShowsOwnMessage(a) /\ tune[a] = Null

Profane == {t \in Tracks : Censored[t] # t}

Mentions(text, t) == text = t \/ \E s \in Times : text = Append(t, s)

(* From the first poll after the profanity filter was switched on, no      *)
(* account the poll serves shows a censored word, neither in its message   *)
(* nor in a tune that was set before, the track being otherwise the same.  *)
CensoredOnceFiltered ==
  settled /\ prefs.filter /\ ~ prefs.disabled =>
    \A a \in Accounts, t \in Profane :
      enabled[a] /\ Touchable(a) =>
        /\ ReachesMessage(a) => ~ Mentions(message[a], t)
        /\ UsesTune(a) /\ a \notin behind => tune[a] # t

(* The message the settings call for now, and the tune.                    *)
MessageUpToDate ==
  \A a \in Accounts : enabled[a] /\ ReachesMessage(a) => message[a] = StatusText(a, PolledInfo)
TuneUpToDate ==
  \A a \in Accounts \ behind : UsesTune(a) => tune[a] = TuneOf(PolledInfo)

(* One poll is enough: from when it has run until a player, the user or    *)
(* libpurple does something, both are up to date, for every account that   *)
(* is within reach then.                                                   *)
UpToDateOncePolled == settled /\ ~ prefs.disabled => MessageUpToDate /\ TuneUpToDate

Quiet == <>[][~ (UserControls \/ Environment \/ plugin_load \/ plugin_unload)]_vars

(* When players and user come to rest, the polls bring the message of      *)
(* every account they serve up to date, whatever happened before.          *)
MessageConverges ==
  Quiet => <>[](g_run /\ ~ prefs.disabled => MessageUpToDate)

(* The same for the tune, wherever the account was within reach when the   *)
(* track information last changed.                                         *)
TuneConverges ==
  Quiet => <>[](g_run /\ ~ prefs.disabled => TuneUpToDate)

(* The accounts whose tune a change of track information reaches.          *)
OpenAccounts ==
  {a \in ActiveAccounts(~ g_run \/ prefs.disabled) : Touchable(a) /\ UsesTune(a)}

Board == INSTANCE TuneBoard WITH
  Nothing <- Null, current <- TuneOf(mostrecent_ti), open <- OpenAccounts, shown <- tune

(* The plugin is a tune board: each change of the playing track is put up  *)
(* on all open accounts at once, and no handler brings back an old track.  *)
ImplementsBoard == Board!BoardSpec
=============================================================================
