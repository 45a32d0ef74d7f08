# Musictracker, specified and checked

Musictracker is a Pidgin plugin. Every fifteen seconds it asks a music player what is playing and
puts the answer into the status of the user's instant-messaging accounts: into the status message,
and, where the protocol has one, into the "now listening" status (the *tune*). This directory holds
TLA+ models of the plugin, TLC configurations that check them, and TLAPS proofs.

## 1. Inventory

All code runs on the one thread of the GLib main loop. There are no threads to interleave, but there
are timers, D-Bus signal handlers, asynchronous HTTP answers, GTK callbacks and modal dialogs, each
of which runs to its end and leaves state behind that the next one reads, minutes later and under
other preferences. That is where the plugin is hard to test.

| component | source | state | operations | hard because |
|---|---|---|---|---|
| core | `musictracker.c` | `g_run`, `mostrecent_ti`; libpurple's statuses and preferences | poll (`cb_timeout`), load, unload, `/nowplaying` | one cached `TrackInfo` decides for all accounts whether anything has to be done |
| Tools menu | `actions.c` | `PREF_DISABLED` | toggle status changing, edit a format | must clear before, and restore after, writing the preference |
| preferences | `preferences.c` | per-account and global preferences | one handler per widget | re-routes accounts while a status is up |
| track information, text utilities | `musictracker.h`, `utils.c`, `filter.c` | none | compare, format, clean, censor | equality decides whether a change is announced; loops that rewrite the text they scan |
| SqueezeCenter | `squeezecenter.c` | socket, login, server version, array of players, string prefs | connect, login, command with timeout, list players, poll one player | late answers, half-filled arrays, reconnect |
| Vagalume | `vagalume.c` | cached track, flag "cache valid", timer | D-Bus signals, clean-up timer, poll | signals and polls fill the same cache |
| Last.fm feed, Last.fm web service | `lastfm.c`, `lastfm_ws.c` | cached track, countdown | timed request, asynchronous answer | answers arrive late and out of order; rate limit |
| MPRIS | `mpris.c` | table of players found on the bus, a record of each | find, signal, three questions to each player | signals and polls write the same record; any question may fail |
| MPRIS2 | `mpris2.c` | none between polls | list, ask each until one plays | players leave between list and question |
| MPD | `mpd.c`, `libmpdclient.c` | the flags of a connection, during a poll | connect, password, command list, read, close | answers that come late or break off; a path that leaves the connection open |
| MSN-compatible players | `msn-compat.c` | last message received | window message, poll | each format leaves other parts of the message before |
| adapters that ask one player | `amarok.c`, `audacious.c`, `banshee.c`, `dbusbird.c`, `exaile.c`, `listen.c`, `moc.c`, `quodlibet.c`, `rhythmbox.c`, `xmms2.c`, `xmmsctrl.c`, `winamp.c`, `wmp.c`, `foobar2000.c`, `itunes.cpp` | none, but for Quod Libet's `g_state` | poll | several blocking calls, between which the player goes on |
| vendored, generated, unused | `disphelper.*`, `iTunesCOMInterface*`, `wa_ipc.h`, `mpris2.original_version.c` | | | out of scope |

The core calls one adapter per poll (or all in turn, when no player is configured) and hands what it
got to `set_status` for each active account. The adapters share no state with each other.

What makes each part correct:

* core - the tune and message of every account the plugin serves follow the player; an account it
  must not serve is left alone; switching off restores the user's own status; nothing is announced
  twice; what `/nowplaying` says is what is playing.
* adapters - what they report is what the player last said, of one player and one moment; a server
  that fails is reported as closed, not as its last song; a connection or a request is not leaked.

## 2. Modules

| module | what it is |
|---|---|
| `TrackInfo` | `struct TrackInfo`, its comparison and its rendering |
| `PlayerStatus` | the states of a player, of `musictracker.h` |
| `MusicTracker` | the core: one action per callback of `musictracker.c`, `actions.c`, `preferences.c`, and its properties |
| `TuneBoard` | what the core promises about tunes, without players, polls and preferences |
| `MusicTrackerClaims` | a sentence of the ChangeLog, as a formula TLC refutes |
| `SqueezeCenter` | `squeezecenter.c`: connection, login, commands with timeout, list and status of the players |
| `Vagalume` | `vagalume.c`: cache filled by D-Bus notifications, by a check every minute, and read by the poll |
| `LastFm` | `lastfm.c` and `lastfm_ws.c`: countdown, asynchronous answers, cache, report |
| `Polling` | what the adapters that ask at every poll share: the players, and the `TrackInfo` of a poll |
| `QueryAdapters` | sixteen adapters that ask one player, each as the script of its calls |
| `Mpris`, `Mpris2`, `Mpd`, `MsnCompat` | the adapters of these names |
| `Adapters` | the five modules before composed: one adapter is configured and polled |
| `TextPath` | the way of a title through `trim`, the filters and `generate_status`, character by character |
| `MCMusicTracker`, `MCSqueezeCenter`, `MCVagalume`, `MCLastFm`, `MCAdapters`, `MCTextPath` | values for the constants |
| `MusicTracker_proofs`, `SqueezeCenter_proofs`, `Vagalume_proofs`, `LastFm_proofs`, `Mpris_proofs` (with `Polling` and `Mpris2`), `Mpd_proofs`, `Adapters_proofs`, `TextPath_proofs` | theorems |

`MusicTracker` extends `TrackInfo` and is shown to implement `TuneBoard`. The adapters' modules do
not refer to it: to the core an adapter is whatever it leaves in the `TrackInfo` it is given, which in
`MusicTracker` is any value of `Reports`. What an adapter's module proves of its `ti` is therefore a
statement about the `players` of the core.

### Core: `MusicTracker`

State. `mostrecent_ti`, `g_run` are the C variables of that name; `prefs`, `customDisabled`,
`customFormat`, `brokenTune` are the preferences; `enabled`, `presence`, `saved`, `message`, `tune`
are what libpurple keeps for an account; `players` is what each player would answer now. `sent`
holds the announcements of the last step. `behind`, `settled`, `polled` are history variables, used
by properties only: accounts that a change of track has passed by, whether nothing but polls has
happened since the last poll, and what that poll found.

Actions. `cb_timeout` is a whole poll: choice of the player, clean-up, `set_status` for every active
account, and the copy into `mostrecent_ti` afterwards. `action_toggle_status`, `cb_custom_toggled`
and `plugin_unload` contain the calls they make to clear or restore, with the value of
`PREF_DISABLED` those calls read. Texts are sequences of words; a clean-up or a filter is a function
on tracks, a format one of five that differ in whether and what they show.

Abstracted: artist, album and track are one text, since they are compared and shown together; the
two times are one word; which account is "active" is a flag. The modal dialogs write preferences.

### `SqueezeCenter`

State. `servers`, `last`, `sock`, `version`, `players`, `players_array` stand for the fields of the
structure `squeezecenter`; `pc`, `i`, `pi` for the place in a poll; `peer` and `owed` for the server
at the other end and the answers it still owes. A poll is several steps, because the servers go on
while a command waits: what can change between two commands is in the environment. A command that
times out leaves its answer in `owed`, and the next command reads that first, as the code does.
`loggedIn`, `prompt`, `known`, `streamed` are history variables; the last two follow the servers and
players, not the code: the lists the peer has had since the connection was made, and the boxes that
have played a stream since. What the array may hold is judged by them.

### `Vagalume`

State. `initialized`, `running`, `cached_track` are the static variables; `inbox` the messages on the
connection, of which a check has `read` some; `requested`, `alive`, `playing` belong to Vagalume. A
check is three steps (request, `dbus_connection_read_write_dispatch`, `dbus_connection_pop_message`),
because messages arrive between them. `dbus_connection_read_write_dispatch` dispatches a message
that is queued, and only when there is none does it wait and read.

### `LastFm`

State. `count`, `cache` are the static variables of the adapter followed, `requests` what
`purple_util_fetch_url_request` has under way. The two adapters share preferences and nothing else,
so a behaviour follows one of them (`adapter`). A scrobble is known by its age, which `Tick` lets
grow; it is the difference `get_lastfm_info` takes between the time of the line and now. `since`
and `asked` are history variables. An answer is composed at some time after the request, arrives at
any later time, in any order, or fails.

### `Polling` and the modules on it

State. `mode` and `song` are what each player does now; `pc`, `ti` and `lost` the place in the poll,
the `TrackInfo` it fills in, and whether one of its calls has failed. A poll is one blocking call
after the other on the one thread of the plugin, but the players are other processes: between two
calls any of them may change (`Moves`), and each call may fail. `seen` and `moves` are history
variables: what each player has been since the poll began. A text is known by the song it belongs to,
which is what the properties tell apart.

`QueryAdapters`. A script is a sequence of calls; for each it says what an answer does to the status,
which answers end the poll, and what a failing call does. The actions (`dbus_g_running`,
`StatusAnswered`, `HandleAnswered`, `TextAnswered`, `SnapshotAnswered`, `CallFails`, ...) interpret
it. What tells the adapters apart is which calls they make, in which order, and what they do when one
fails: Rhythmbox ends stopped, closed or half-filled depending on the call, Banshee goes on with a
status it has not got. `connected`, `g_state` and `pending` are Quod Libet's signals.

`Mpris`. `table` is the hash table `players`, `record` the status and text of the `ti` in each of its
entries. `left` is the rest of the walk over the table, in any order.

`Mpris2` keeps nothing between polls; its `crashed` is the clean-up that frees a list which was never
set. `PlaybackStatus` is what `mpris2.c:138` makes of an answer: `Odd` are the players that may say
something other than "Playing", "Paused" and "Stopped", which leaves the status closed and still goes
on to ask for the metadata.

`Mpd`. `conn` holds the flags of `mpd_Connection` that steer reading, `requests` and `answers` what
is on its way, `state` and `entity` the locals of `get_mpd_info`. Every line may be read in time or
be found missing, in which case it can be read later in place of another. One line stands for an
answer to `status`, two for one to `currentsong`.

`MsnCompat`. `msnti` and `sender` are the static variables; a message is its format and what it says.
`message` and `inverted` are history variables.

`Adapters` fixes the adapter for a behaviour. They share no state, so a change of adapter
would put one behaviour after another; the one thing it adds, records of MPRIS that grow older
meanwhile, is in the model as signals that may say anything.

### `TextPath`

`place` says which function has the title. `entry` and `field` are the loop variables of
`filter_profanity` and the position in the sequence of `put_field` calls. Texts are sequences of
characters; a pattern matches as `\b(word)\b` does without regard to case; an unprintable character
has as many bytes as `Bytes` says. An entry of the list is a word that stands for itself, or one that
does not compile (`IllFormed`); `filter.c:29` takes every entry for a regular expression, but their
operators are not modelled.

## 3. Runs

| run | shows | size |
|---|---|---|
| `one_account` | type correctness; `TuneFollowsMostRecent`: comparing with `mostrecent_ti` is as good as comparing with the tune, for an account no change has passed by; `MostRecentIsPolled`; `SettledPollIsSilent`; `LeavesUntouchableAlone`; the plugin implements `TuneBoard` | 1 account, 1 player, 2 songs, 300 000 states |
| `silence` | `SilencedShowsOwn`: what was switched off shows the user's own message and no tune; `CensoredOnceFiltered`: the filter takes effect at the next poll | 2 accounts, 2 times, 1.1 million states |
| `converge` | `MessageConverges`, `TuneConverges`: polls repair what handlers left, once all is at rest | 1 account, 2 players, 84 000 states |
| `squeezecenter_serve` | type correctness, `LoginFirst`, `ArrayCoversPlayers`, `DownIsClosed`, `ReachesServer` | 2 servers, lists of 1 or 2 players, 1 late answer, 300 000 states |
| `squeezecenter_status` | `EntriesTellTruth`: what is left in an entry is the server's own and describes its player, over reconnections to either server | 2 servers, 2 players in either order that may be off or stream, 780 000 states up to symmetry |
| `vagalume` | type correctness, `CacheTellsTrack`, `GoneIsClosed`, `TellsTrack` | 2 songs, 3 messages, 53 000 states |
| `lastfm` | type correctness, `NotTooSeldom`, `NotTooOften`, `TellsTrack`, `FeedFallsSilent` | 2 users, 2 intervals, 2 requests, 290 000 states |
| `adapters` | type correctness; `OneSong`, `ReportsWhatWas`, `NeverStartsPlayer` (adapters that ask one player); `FreshReport`, `FindsPlayer` (MPRIS); `PausedNeverHidesPlaying` (MPRIS2); `WholeAnswer`, `LeaksOnlyUnanswered` (MPD); `TellsLastMessage` (MSN); `AdaptersHeal` (all that poll) | 2 players, 3 songs, 820 000 states |
| `text` | `CensorsWholeWords`, `FieldsInPlace`, `FilterEnds` | all titles of up to 4 out of 7 characters, 1.9 million states |
| `activation_updates_tune` | refutes a sentence of the ChangeLog | |
| `squeezecenter_polls_all` | refutes a comment of `squeezecenter.c` | |
| `vagalume_check` | refutes a comment of `vagalume.c` | |

Bounds, and why they are enough. Accounts do not influence each other but through `mostrecent_ti`
and `PREF_DISABLED`, which one account and a second that missed a step exercise; what the runs show
for one or two is proved for any number. Two songs tell a stale track from a current one. `Knobs`
names the controls the user touches in a run, so that a run holds those that bear on its properties;
between them the runs turn every knob. `SqueezeCenter`: two servers are the shortest rotation that
can skip one, two players the shortest array that can be too short, and `MaxLate` = 1 puts all later
answers one behind already. `squeezecenter_status` has `MaxLate` = 0, since its property is about
answers that came in time (a command may still fail for want of a peer), and two lists of the same
length, which is what the code does not tell apart; servers and players are symmetric there. In all
runs every configured server resolves; the proofs do not assume it. `Vagalume`: `MaxInbox` = 3 has a
message dispatched, one popped and one left over. `LastFm`: `MaxRequests` = 2 is the least that lets
an answer overtake; `MaxAge` is a scrobble as old as matters; a changed interval is charged to the
countdown under way. `Adapters`: a player asked alone changes twice during a poll (`MaxMoves` = 2),
so that it can quit and come back between two calls; of two players each changes once, so that a
walk over the table can meet either before or after it; two pending signals of Quod Libet
(`MaxPending`) let one overtake a poll. `Odd` holds one of the two players, so that it stands before
or behind the other on the list. One player has two songs, so that a text of the one can be told
from a text of the other, and two players are the least a search can pass over one of. `TextPath`:
four characters hold a listed word beside another, a word inside a word, and blanks at both ends.

Fairness. GLib calls a timer for as long as its callback returns true, which `cb_timeout` and
Vagalume's do: weak fairness of the poll, of the steps inside one, and of Vagalume's check. Strong
fairness of `Dispatch`, `CheckTimer` and `get_vagalume_info` says that the main loop serves its
sources in turn: each is disabled while another runs, and none keeps the loop for ever. In `LastFm`
polls are strongly fair for the same reason and because the adapter is taken to stay selected, and
libpurple calls back for each request. Nothing is assumed of servers or users: where a property
needs them to rest, or to answer in time, its premise says so (`Quiet`, `AnswersCome`,
`<>[]prompt`, `<>[]~alive`).

In `Adapters`, the polls are weakly fair, and so are the steps inside one: blocking calls return,
with an answer or by their timeout. MPD's server gets to its requests, and Quod Libet's signals are
dispatched between polls (strong fairness, the poll disables it). `AdaptersHeal` has the premise
that players rest and calls are answered from some time on (`Calm`). In `TextPath` functions are
called one after the other.

Deadlock is checked in every run but two: in `adapters` MPRIS2's clean-up may end the program, and
`text` follows a title to its end.

## 4. Where the code departs from its documentation

* `activation_updates_tune`: the ChangeLog of 0.4.16 says activation updates the status at once.
  `restore_track_information` hands `mostrecent_ti` to `set_status_tune`, which compares it with
  itself and does nothing.
* `squeezecenter_polls_all`: `get_squeezecenter_info` ignores that `squeezecenter_get_players`
  failed, and walks an array that is missing or too short. `ArrayCoversPlayers` shows that this needs
  a timeout.
* `vagalume_check`: a message queued when the timer fires is dispatched in place of the answer, and
  the check takes a Vagalume that answers not to be running, until the next check.

The models have the following as well, without a run of its own. They are why some properties carry
a premise.

* An account that is invisible, disabled or offline when the track changes keeps its tune on all
  following polls (`behind` in `TuneFollowsMostRecent` and `TuneConverges`).
* With the broken-now-listening box ticked, or the message restricted to accounts without a tune,
  while a status is up, switching off no longer reaches it (the fixed routing of `SilencedShowsOwn`).
* Deactivation marks `mostrecent_ti` closed, so that `/nowplaying` says nothing until the next poll
  (the premise of `MostRecentIsPolled`).
* After a SqueezeCenter status command timed out, answers stay one behind on that connection
  (`prompt` in `EntriesTellTruth`).
* A SqueezeCenter server that exchanges a player for another keeps the length of its list, and the
  list is not fetched again on that connection: the entry of the player that went keeps its last
  status, and the new one is not asked (`known` in `EntriesTellTruth`, which a new connection resets).
* A SqueezeCenter player that leaves a stream goes on being reported as a stream, under the title it
  had as one: the answers then do not say "remote" any more, and nothing sets it back until the list
  is fetched again (`streamed` in `EntriesTellTruth`).
* When the MPD server does not answer the status command, `get_mpd_info` returns at `mpd.c:51`, in
  front of the line that closes the connection, although `libmpdclient.h:133` says to close it "even
  if an error has occurred". `LeaksOnlyUnanswered` shows that this is the only way it leaks; an
  answer that fails later is cleaned up.
* MPRIS2 frees `name_list` without having set it when there is no bus or no answer to `ListNames`.
* The comments at `mpris2.c:151` and `mpris2.c:209` say "if playing"; a player whose `PlaybackStatus`
  is none of the three words gets there as well, with the status closed. Its song is put into the
  text and the search ends, in front of a player that plays (`EndsAtOdd` in
  `PausedNeverHidesPlaying` and `Mpris2Settled`).
* A call of MPRIS2 that fails ends the search with the status that a stopped or paused player asked
  before left in `ti` (`mpris2.c:118`). `PausedNeverHidesPlaying` shows that it was some player's
  status during the poll, and that no song goes with it.
* Banshee's adapter compares a status it has not got when `GetCurrentState` fails, and XMMS's may
  report a player as playing that stops between `is_playing` and `is_paused`; foobar2000's takes a
  paused player to be playing, and Quod Libet's says what it last heard (`Guessing` in
  `ReportsWhatWas`).
* An MSN message without an album leaves the album of the message before. As a consequence such a
  message with empty fields, by which Winamp says that it stops (`msn-compat.c:123`), still counts as
  playing, under the old album (`TellsLastMessage`).
* A title with a per cent sign in it can be taken for a field by a later pass of `put_field`
  (`Unambiguous` in `FieldsInPlace`); a stream of SqueezeCenter, which has a length of -1, puts the
  mark of the progress bar before the buffer.
* A listed word that consists of the mask character makes `filter_profanity` loop for ever
  (`FilterEnds`), and one that is no regular expression ends the program (`ExitsOnPattern`). An entry
  that matches the empty string, such as `a*`, makes the loop at `filter.c:33` run for ever too, at
  the edge of any word, as nothing is masked; the model has no such entries, so `FilterEnds` does not
  speak of them.
* A change of the Last.fm interval takes effect after the countdown under way, which is why the two
  rate properties are stated for the interval of the last request.

## 5. Theorems

Proved with TLAPS, from the ASSUMEs of the modules and for every value of the constants:

* `TypeCorrect`, `MusicTracker`'s types.
* `TuneFollows`. The invariant adds that a plugin that is not loaded has no playing track in
  `mostrecent_ti` (`IdleInv`): without it, a load could let the cached track and the tunes disagree.
* `MostRecentPolled`, inductive with types.
* `SettledSilent`. Its invariant says of every account served that after a poll the message is what
  the poll computed, and `mostrecent_ti` what it found.
* `Refinement`, that `MusicTracker` implements `TuneBoard`: each action is an `Announce`, a
  `Withdraw` or a `Reroute`, by way of `TuneFollows`.
* `PollsBringUpToDate`, the safety half of `MessageConverges` and `TuneConverges`: `UpToDateOncePolled`
  says that from a poll until players, user or libpurple do something, each account within reach
  shows the message the polled track calls for, and its tune unless it is `behind`. It joins
  `SettledInv`, the invariant of `SettledSilent`, with `TuneFollows`.
* `SilencedOwn`, under `FixedRouting`: `Knobs` has no control that re-routes an account. Where
  routing may change the code does leave a status behind, see section 4.
* `UntouchableLeftAlone`, `LeavesUntouchableAlone`: only the poll and the handlers of preferences and
  menu write a status, and each asks `account_is_ok` first; what is left to show is that the routing
  asked is the routing of the state the step starts from.
* `FilteredIsCensored`, `CensoredOnceFiltered`, under `FilterSettles`: filtering what is filtered
  changes nothing, an empty title passes, a time behind a title neither hides nor adds a word, and
  neither the saved messages nor the word for a paused player mention what the filter takes out. The
  module asks nothing of the kind of its constants, and the user may well list the word "Paused".
  TLC evaluates the hypothesis as true on the constants of `silence`.
* `LoggedIn`, `LoginFirst` of `SqueezeCenter`. The invariant relates the version kept, the socket and
  the place in the poll: whenever the socket is new the version is gone.
* `PlayersTyped`, `ArrayCovers` and `EntriesTrue`: `TypeOK`, `ArrayCoversPlayers` and
  `EntriesTellTruth` of `SqueezeCenter`. Types alone are not inductive: the array is indexed with what
  an answer says. `PlayersInv` adds what the bytes in the socket are (`OwedInv`: as long as every
  answer came in time none is left over, so a command reads its own answer) and where the fetch stands
  (`WalkInv`: `players` is the length of the array except while a new one is being read, and `pi`
  is as long as the place in the loop says). `OwnInv` then says of each entry, in
  the array or in the one being read, that its id stood in this place of a list the peer has had since
  the connection was made, and that it names a stream only if that box has played one since. It asks
  this only while `players` is not zero: a new connection sets it to zero, so that the array of
  another server is there, but is replaced before it is walked. This is the argument that fails when
  `squeezecenter_connect` keeps `players`.
* `CacheTrue`, `CacheTellsTrack` of `Vagalume`. The invariant follows the last word: of a live
  Vagalume, the last known message still in the inbox says what it plays (`LastWordInv`), and when
  there is none the cache does, unless the plugin has asked or takes it not to be running
  (`CacheInv`). `CacheTyped` are its types.
* `RateKept` and `PolledInTime`, the rate of `LastFm`. The invariant says that the countdown is what
  is left of the last interval plus a remainder smaller than one round of the timer (`RateInv`).
  `FeedTyped` are its types.
* `NoPlayerStarted`, `NeverStartsPlayer` of the adapters that ask the bus first. The invariant
  (`QueryInv`) says that past the first call of a script that begins with `dbus_g_running` the player
  has been seen running.
* `MprisReportsFresh` and `MprisFindsPlayer`. `MprisInv` follows the three questions: after the
  first the status in the record is one the player had during this poll, after the second so is its
  text; and as long as nothing was found and no call failed, a player that was there all the time is
  still to be asked, or being asked.
* `Mpris2FindsPlaying`, `PausedNeverHidesPlaying`, by `Mpris2Inv`: a player that plays all the time is
  still on the list while the search goes on, and what `ti` holds was seen during the poll; past the
  question for the status the player asked has played or its status is not known. All rest
  on `PlayersInv`: during a poll, what a player is now is among what has been seen of it.
* `FieldsOfOneSong`, `OneSong` of the adapters whose fields come from one handle or one answer.
  `SongInv` goes by the place in the script: as long as nothing has been looked up the fields are
  empty, and from then on each is empty or the handle's song. Adapters that ask for the fields one by
  one are not among them: a song that changes between two of their calls leaves a report of both.
* `QueriesTellTruth`, `ReportsWhatWas` of the sixteen scripts. `ScriptsFair` goes through them
  once and says what call may stand where, and what its failure may make of the status (`Fair`).
  `TruthInv` then needs no script any more: past the first call the player has been seen running,
  `PLAYING` in `ti` has been seen, and while no call has failed either all that was taken was the
  player's, or its position was taken while it was stopped, as the status says.
* `MpdWholeAnswer` and `MpdLeaksUnanswered`. `MpdInv` says for each place of the poll what is still to
  be read and what of it `ti` holds. The argument turns on the first line: if it is a state, then all
  that the server answered to the command list stands behind it, and status and song were true at one
  moment; an `OK` or `ACK` that comes first is the late answer to the password or a refusal, it finds
  `listOks` at two and ends the poll without a state. The early return, which leaves the
  connection open, is only reached with `lost`.
* `AdaptersTyped`, `AdaptersTypeOK`. Types alone are not inductive: `listOks` is at most two because
  the list of commands counts two and reading never counts up (`MpdCounts`), the position in a script
  stays within it because only a call that is not the last goes on, and of MPRIS a record is only
  asked for if the table has it (`TypesInv`). The rest comes from `AdaptersInv`.
* `UndisturbedPollsRight`, the safety half of `AdaptersHeal`: `UndisturbedIsRight` says of every poll
  in which each call is answered, no player the adapter asks changes and no signal of Quod Libet
  waits, that it reports what is played, whatever signals, half an answer or failed calls left behind
  before. (The liveness half, that such polls come about once the players rest, is left to
  `AdaptersHeal`.) For the MPRIS adapters it follows from what their polls have seen, which of players
  that rest is one state only. For MPD, `Straight`: without a loss nothing sets `conn.error`, and the
  poll gets to its close with a report made of one answer. For the sixteen scripts,
  `ScriptsThorough` shows that each asks for the state and for every field before it ends, and for
  the handle first where it needs one; `RestInv` then carries along which calls have been made what
  they have established. Of Quod Libet, whose state is only what it last announced, `SaidInv` keeps
  that the last signal, dispatched or not, says what it does.
* `CensoredWholeWords`, `CensorsWholeWords` of `TextPath`. `CensorInv` says that what has changed lies
  in a match of the text as it came, that this match is masked from end to end, and that the words
  before `entry` have no match left. The middle part carries the argument: because matches are masked
  whole, a later match beside one still ends at the edge of a word, and so was a match from the start.
* `NinePassesAreOne`, `FieldsInPlace`: after each pass the buffer is the format with the fields of the
  passes so far put in at once (`FilledInv`). A recursive function is known to the provers only through
  its equations, so `RewriteExists` and `RewriteUnique` first say that these have one solution; the
  inductions over positions are put as statements about sets of positions (`Climbs`, `Descends`).
  What the proof brought to light: of a stream at its start `TenthBegun` spoke of an empty set, which
  no clock of the run had met; the run now has one.
* `MsnTellsLast`, by `MsnInv`, which is `TellsLastMessage` with the type of `msnti`.

`AdaptersInv` is the conjunction; each of its parts is preserved by the steps of its own adapter, and
by those of the others because they leave its variables alone.

Model-checked only: the nine liveness properties (`MessageConverges`, `TuneConverges`,
`ReachesServer`, `DownIsClosed`, `GoneIsClosed`, `TellsTrack`, `FeedFallsSilent`, `AdaptersHeal`,
`FilterEnds`), which rest on fairness and so are out of the provers' reach. Every safety invariant and
every action property that a run checks is also a theorem.

## 6. Not modelled

* A change of the configured adapter while the adapters are modelled in detail; the core's model has
  it, with adapters as `Reports`.
* The keys of MPRIS metadata, the window title Winamp's adapter falls back on, MOC's internet radio,
  and times: they bear on what a text says, not on which song it belongs to.
* `readline`, `capture`, `utf8_validate`, `build_pref`: functions of one text without a loop over
  state; a unit test is the better tool.
* Widgets, tracing, loading of libraries.
* Vendored and generated code. `libmpdclient.c` is modelled as far as `mpd.c` calls it.
  `iTunesCOMInterface.h` alone is half of the lines of the source tree, and has no behaviour.

## 7. Plan

Every safety property of the runs now has its theorem. What could follow:

* the safety halves of the other convergence properties, in the way of `UndisturbedPollsRight` and
  `PollsBringUpToDate`: that a status fetch of the SqueezeCenter adapter in which every answer comes
  leaves the boxes as they are, and that once Vagalume or the feed of Last.fm has answered its adapter
  tells the track (`TellsTrack`);
* for `FilterEnds`, the measure that falls with each word masked, so that only fairness is left to TLC;
* the window title that Winamp's adapter falls back on.

To run a check: `tlc -config <run>.cfg <MC module>.tla`, with `MCMusicTracker` for the core's runs;
`tlapm <module>_proofs.tla` for the proofs. Each run takes at most two minutes on two
processors.
