SPECIFICATION Spec
CONSTANTS
  Readers = {r1, r2}
  Keys <- MCKeys
  OnNone <- MCOnNone
  OnAll <- MCOnAll
  EarlyReaders = FALSE
  Faults = FALSE
CHECK_DEADLOCK FALSE
INVARIANT UnfinishedIsUnderWay
