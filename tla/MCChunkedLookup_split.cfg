SPECIFICATION Spec
CONSTANTS
  MaxRows = 4
  MaxCount = 3
  MaxEdits = 1
  Null = Null
  SentOptions <- MCOptions
INVARIANTS TypeOK ChunksBounded AcceptedStarts EveryRowOnce SubjectsTogether
CHECK_DEADLOCK FALSE
