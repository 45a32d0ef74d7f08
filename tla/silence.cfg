CONSTANTS
  a1 = a1
  a2 = a2
  Null = Null
  Words <- AllWords
  Tracks <- RudeTracks
  Reported <- RudeSong
  Times <- TwoTimes
  Accounts = {a1, a2}
  TuneAccounts = {a1}
  MessageAccounts = {a1, a2}
  XmppAccounts = {}
  NPlayers = 1
  SavedMessages <- OneMessage
  Presences = {"available"}
  FormatChoices = {"saved"}
  Cleaned <- AsIs
  Censored <- Asterisked
  Knobs = {"toggle", "custom", "unload", "np", "filter", "formats"}

SPECIFICATION Spec
INVARIANT SilencedShowsOwn
INVARIANT CensoredOnceFiltered
