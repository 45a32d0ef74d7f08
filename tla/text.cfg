CONSTANTS
  Titles <- MCTitles
  Lists <- MCLists
  Masks = {"*", "x", "s"}
  Patterns <- MCPatterns
  Artists <- MCArtists
  SavedTexts <- MCSaved
  Clocks <- MCClocks
  Letters <- MCLetters
  Lower <- MCLower
  Bytes <- MCBytes

SPECIFICATION FairSpec
INVARIANT CensorsWholeWords
INVARIANT FieldsInPlace
PROPERTY FilterEnds
CHECK_DEADLOCK FALSE
