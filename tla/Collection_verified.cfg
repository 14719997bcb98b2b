SPECIFICATION Spec
CONSTANTS
  Owners <- MCOwners
  Start = 0
  Zones <- MCZones
  Servers = {"ns1"}
  MaxHops = 5
CHECK_DEADLOCK FALSE
INVARIANT CompleteIsVerified
