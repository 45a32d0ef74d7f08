CONSTANTS
  a1 = a1
  a2 = a2
  Null = Null
  Words <- AllWords
  Tracks <- TwoTracks
  Reported <- TwoSongs
  Times <- OneTime
  Accounts = {a1}
  TuneAccounts = {a1}
  MessageAccounts = {a1}
  XmppAccounts = {}
  NPlayers = 1
  SavedMessages <- OneMessage
  Presences = {"available", "away", "invisible"}
  FormatChoices = {"title"}
  Cleaned <- AsIs
  Censored <- AsIs
  Knobs = {"toggle", "custom", "broken", "unload", "away", "override"}

SPECIFICATION Spec
INVARIANT TypeOK
INVARIANT TuneFollowsMostRecent
INVARIANT MostRecentIsPolled
PROPERTY SettledPollIsSilent
PROPERTY LeavesUntouchableAlone
PROPERTY ImplementsBoard
