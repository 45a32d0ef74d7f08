CONSTANTS
  u1 = u1
  u2 = u2
  n1 = n1
  Users = {u1, u2}
  Songs = {n1}
  UserPrefs <- EitherUser
  Intervals = {15, 30}
  Quiets = {15}
  INTERVAL_SECONDS = 15
  MaxAge = 15
  MaxRequests = 2

SPECIFICATION FairSpec
INVARIANT TypeOK
INVARIANT NotTooSeldom
PROPERTY NotTooOften
PROPERTY TellsTrack
PROPERTY FeedFallsSilent
