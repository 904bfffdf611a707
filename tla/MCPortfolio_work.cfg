SPECIFICATION FairSpec
CONSTANTS
  MaxFiles = 5
  MaxConvs = 2
  MaxRetries = 1
  Atomic = TRUE
  MaxRequests = 2
  Ops = {"location_file", "delete_location_file", "validate", "exposure_run", "exposure_transform"}
INVARIANTS TypeOK Survives ExposureHasFile LostToRival OneConversion MappingIsUsed ConversionAttended
PROPERTY WorkEnds
CHECK_DEADLOCK FALSE
