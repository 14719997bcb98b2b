SPECIFICATION Spec
CONSTANTS
  Owners <- MCOwners
  Start = 0
  Zones <- MCZones
  Servers = {"ns1", "ns2"}
  MaxHops = 5
CHECK_DEADLOCK FALSE
INVARIANTS AuthorizedTerminalIsReal ShortChainsAreAuthorized CompleteMeansAnswered
