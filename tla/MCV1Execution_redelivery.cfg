SPECIFICATION FairSpec
CONSTANTS
  MaxRequests = 2
  Ops = {"run", "generate_inputs", "cancel"}
  MaxRetries = 1
  MaxFaults = 2
  NoKey = NoKey
  Prior = Prior
  Prompt = TRUE
INVARIANTS TypeOK RunsBounded
PROPERTIES Settles FollowsWorkflow
CHECK_DEADLOCK FALSE
