SPECIFICATION FairSpec
CONSTANTS
  N = 6
  Level <- HalvesLevel
  Header <- ChordHeader
  Senders = {1, 5}
  Listed = {2, 3, 4, 5, 6}
  MaxGen = 1
  MaxMsgs = 2
  Prompt = TRUE
INVARIANTS CancelledIsHalted
PROPERTIES SuccessShows NotOverwritten
CHECK_DEADLOCK FALSE
