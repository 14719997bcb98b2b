SPECIFICATION FairSpec
CONSTANTS
  Readers = {r1, r2}
  Keys <- MCKeys
  OnNone <- MCOnNone
  OnAll <- MCOnAll
  EarlyReaders = FALSE
  Faults = TRUE
CHECK_DEADLOCK FALSE
INVARIANT PublishedIsEvaluated
PROPERTIES HistoryIsKept EveryRequestEnds
