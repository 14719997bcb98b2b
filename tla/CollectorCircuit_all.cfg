SPECIFICATION FairSpec
CONSTANTS
    Requests = {r1, r2, r3, r4}
    Threshold = 3
    Cooldown = 2
INVARIANTS
    ProbingHasAProbe
    ClosedMeansFewFailures
PROPERTIES
    RecoversAfterOutage
