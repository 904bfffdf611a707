SPECIFICATION FairSpec
CONSTANTS
  Model = {"A"}
  V1 = {}
  Order <- OrderOf
  Analysis = {1}
  ModelOf <- AllOnA
  Tasks <- TaskCounts
  Priority <- Equal
  Settings <- AllKinds
  Limit = 0
  TopLevels = 0
  MaxInbox = 1
  MaxReplicas = 2
  MaxEvents = 3
  Again = FALSE
  NoModel = NoModel
INVARIANTS TypeOK WorkIsServed
PROPERTIES Converges IdleSpinsDown
CHECK_DEADLOCK FALSE
