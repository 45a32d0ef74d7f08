CONSTANTS
  v1 = v1
  v2 = v2
  Songs <- TwoSongs
  MaxInbox = 3

SPECIFICATION FairSpec
INVARIANT TypeOK
INVARIANT CacheTellsTrack
PROPERTY GoneIsClosed
PROPERTY TellsTrack
