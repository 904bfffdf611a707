SPECIFICATION Spec
CONSTANTS
  MaxFiles = 3
  MaxConvs = 0
  MaxRetries = 1
  Atomic = TRUE
  MaxRequests = 1
  Ops = {"exposure_transform"}
INVARIANT ValidatedIsChecked
CHECK_DEADLOCK FALSE
