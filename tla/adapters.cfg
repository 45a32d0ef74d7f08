CONSTANTS
  p1 = p1
  p2 = p2
  s1 = s1
  s2 = s2
  s3 = s3
  Names = {p1, p2}
  Target = p1
  Library <- MCLibrary
  NoText = NoText
  NoName = NoName
  Odd = {p2}
  MaxMoves = 2
  MaxPending = 2
  zune = zune
  other = other
  n1 = n1
  n2 = n2
  MsnSongs = {n1, n2}
  MsnPlayers = {zune, other}
  Zune = zune
  Empty = Empty

SPECIFICATION AdaptersSpec
INVARIANT AdaptersTypeOK
INVARIANT OneSong
INVARIANT NeverStartsPlayer
PROPERTY ReportsWhatWas
PROPERTY FreshReport
PROPERTY FindsPlayer
PROPERTY PausedNeverHidesPlaying
PROPERTY WholeAnswer
PROPERTY LeaksOnlyUnanswered
INVARIANT TellsLastMessage
PROPERTY AdaptersHeal
CHECK_DEADLOCK FALSE
