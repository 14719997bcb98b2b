SPECIFICATION Spec
CONSTANTS
  r1 = r1  r2 = r2  d1 = d1  h3 = h3  h1 = h1  h2 = h2
  Requests <- MCRequests
  Domains <- MCDomains
  Hosts <- MCHosts
  Targets <- MCTargets
  Permits = 2
  MaxTime = 2
INVARIANTS
  EntriesComeFromEvidence
PROPERTIES
  SocketsNeedFreshEvidence
  EveryRequestIsAnswered
  KeepsSemaphore
