SPECIFICATION FairSpec
CONSTANTS
  N = 4
  Level <- ChordLevel
  Header <- ChordHeader
  Senders = {1}
  Listed = {2, 3, 4}
  MaxGen = 1
  MaxMsgs = 3
  Prompt = TRUE
PROPERTIES OthersCancelled
CHECK_DEADLOCK FALSE
