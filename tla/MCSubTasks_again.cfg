SPECIFICATION Spec
CONSTANTS
  N = 2
  Level <- ShortLevel
  Header <- ShortHeader
  Senders = {1}
  Listed = {2}
  MaxGen = 2
  MaxMsgs = 1
  Prompt = FALSE
INVARIANTS TypeOK StatusJustified
CHECK_DEADLOCK FALSE
