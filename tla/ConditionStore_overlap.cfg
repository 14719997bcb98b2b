SPECIFICATION Spec
CONSTANTS
    Worker = {w1, w2}
    MaxAttempt = 1
    MaxSnapshot = 4
    MaxVersion = 0
    MaxMonitor = 1
    SerialResolves = FALSE
SYMMETRY WorkerSymmetry
INVARIANT
    SignalAndCaseAgree
CHECK_DEADLOCK FALSE
