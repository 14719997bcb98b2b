SPECIFICATION Spec
CONSTANTS
    Worker = {w1, w2}
    MaxAttempt = 2
    MaxSnapshot = 4
    MaxVersion = 2
    MaxMonitor = 1
    SerialResolves = TRUE
SYMMETRY WorkerSymmetry
INVARIANTS
    SignalAndCaseAgree
PROPERTIES
    OnlyNewerFaultsReopen
    ImplementsLifecycle
CHECK_DEADLOCK FALSE
