SPECIFICATION Spec
CONSTANTS
  Request = {r1, r2}
  Ops = {"generate_inputs", "cancel_analysis_run"}
  MaxMsgs = 2
  MaxRetries = 0
  NoKey = NoKey
  Prior = Prior
  Prompt = TRUE
INVARIANTS RevokedOnlyIfCancelled
CHECK_DEADLOCK FALSE
