SPECIFICATION CircuitSpec
CONSTANTS
    Requests = {r1, r2, r3}
    Threshold = 3
    Cooldown = 2
SYMMETRY Symmetry
INVARIANT
    OneProbeAtATime
