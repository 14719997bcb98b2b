SPECIFICATION BucketSpec
CONSTANTS
  Keys = {k}
  Limit = 4
  Window = 7
  MaxTime = 20
PROPERTIES
  RemainingIsLeft
