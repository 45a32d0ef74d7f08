CONSTANTS
  a1 = a1
  a2 = a2
  Null = Null
  Words <- AllWords
  Tracks <- RaggedTracks
  Reported <- RaggedSong
  Times <- OneTime
  Accounts = {a1}
  TuneAccounts = {a1}
  MessageAccounts = {a1}
  XmppAccounts = {}
  NPlayers = 2
  SavedMessages <- OneMessage
  Presences = {"available", "invisible"}
  FormatChoices = {"title"}
  Cleaned <- Trimmed
  Censored <- AsIs
  Knobs = {"tuneonly", "enable", "player", "toggle"}

SPECIFICATION FairSpec
PROPERTY MessageConverges
PROPERTY TuneConverges
