CONSTANTS
  s1 = s1
  s2 = s2
  b1 = b1
  b2 = b2
  Null = Null
  Junk = Junk
  Servers = {s1, s2}
  Resolvable = {s1, s2}
  Accepting = {s1, s2}
  Boxes = {b1, b2}
  Lists <- EitherFirst
  Playbacks <- OffOrStream
  ServerPrefs <- EachServer
  OrderPrefs <- FindPlaying
  Counts = {}
  MaxLate = 0

SPECIFICATION Spec
PROPERTY EntriesTellTruth
SYMMETRY Alike
