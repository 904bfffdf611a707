SPECIFICATION Spec
CONSTANTS
  Request = {r1, r2}
  Ops = {"run", "generate_and_run", "cancel"}
  MaxMsgs = 1
  MaxRetries = 0
  NoKey = NoKey
  Prior = Prior
  Prompt = FALSE
SYMMETRY Symmetry
INVARIANTS TypeOK StatusHasFiles StatusEarned FilesHaveProducers
CHECK_DEADLOCK FALSE
