SPECIFICATION Spec
CONSTANTS
  Readers = {r1}
  Keys <- MCKeys
  OnNone <- MCOnNone
  OnAll <- MCOnAll
  EarlyReaders = TRUE
  Faults = FALSE
CHECK_DEADLOCK FALSE
INVARIANT PublishedIsEvaluated
