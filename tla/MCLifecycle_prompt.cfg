SPECIFICATION FairSpec
CONSTANTS
  Request = {r1, r2}
  Ops = {"run", "generate_inputs", "generate_and_run", "cancel"}
  MaxMsgs = 2
  MaxRetries = 1
  NoKey = NoKey
  Prior = Prior
  Prompt = TRUE
PROPERTIES Settles FollowsWorkflow
CHECK_DEADLOCK FALSE
