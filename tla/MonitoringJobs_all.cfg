SPECIFICATION Spec
CONSTANTS
  j1 = j1  j2 = j2  c1 = c1  c2 = c2
  Jobs <- MCJobs
  Conditions <- MCConditions
  Attempts = 2
  MaxEvents = 2
CHECK_DEADLOCK FALSE
PROPERTIES
  StampsAreEarned
  FaultsAreDelivered
  RecoveriesAreSeen
