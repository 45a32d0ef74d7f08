CONSTANTS
  s1 = s1
  s2 = s2
  b1 = b1
  b2 = b2
  Null = Null
  Junk = Junk
  Servers = {s1, s2}
  Resolvable = {s1, s2}
  Accepting = {s2}
  Boxes = {b1, b2}
  Lists <- UpToTwo
  Playbacks <- OnlyPlaying
  ServerPrefs <- ServerLists
  OrderPrefs <- FindPlaying
  Counts = {1}
  MaxLate = 1

SPECIFICATION FairSpec
INVARIANT TypeOK
INVARIANT LoginFirst
INVARIANT ArrayCoversPlayers
PROPERTY DownIsClosed
PROPERTY ReachesServer
