SPECIFICATION FairSpec
CONSTANTS
  Model = {"A", "B"}
  V1 = {"A"}
  Order <- OrderOf
  Analysis = {1, 2}
  ModelOf <- Shared
  Tasks <- TaskCounts
  Priority <- LastUrgent
  Settings <- WithMinimum
  Limit = 2
  TopLevels = 1
  MaxInbox = 1
  MaxReplicas = 2
  MaxEvents = 0
  Again = FALSE
  NoModel = NoModel
PROPERTIES EventuallyWithinLimit TopPriorityServed
CHECK_DEADLOCK FALSE
