CONSTANTS
  v1 = v1
  v2 = v2
  Songs <- OneSong
  MaxInbox = 2

SPECIFICATION Spec
PROPERTY CheckFindsRunning
