CONSTANTS
  s1 = s1
  s2 = s2
  b1 = b1
  b2 = b2
  Null = Null
  Junk = Junk
  Servers = {s1}
  Resolvable = {s1}
  Accepting = {s1}
  Boxes = {b1, b2}
  Lists <- UpToTwo
  Playbacks <- OnlyPlaying
  ServerPrefs <- FirstServer
  OrderPrefs <- FindPlaying
  Counts = {}
  MaxLate = 1

SPECIFICATION Spec
INVARIANT PollsAllPlayers
