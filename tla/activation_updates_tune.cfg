CONSTANTS
  a1 = a1
  a2 = a2
  Null = Null
  Words <- AllWords
  Tracks <- OneTrack
  Reported <- SongOnly
  Times <- OneTime
  Accounts = {a1}
  TuneAccounts = {a1}
  MessageAccounts = {a1}
  XmppAccounts = {}
  NPlayers = 1
  SavedMessages <- OneMessage
  Presences = {"available", "invisible"}
  FormatChoices = {"title"}
  Cleaned <- AsIs
  Censored <- AsIs
  Knobs = {"toggle"}

SPECIFICATION Spec
PROPERTY ActivationUpdatesTune
