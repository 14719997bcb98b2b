SPECIFICATION Spec
CONSTANTS
    Worker = {w1, w2}
    MaxAttempt = 2
    MaxSnapshot = 3
    MaxVersion = 3
    MaxMonitor = 2
    SerialResolves = FALSE
SYMMETRY WorkerSymmetry
INVARIANTS
    TypeOK
    AlertFollowsSignal
    CaseHistoryIsAChain
    LocksNeverCycle
PROPERTIES
    SignalMovesForward
    CasesResolveOnFreshEvidence
    ImplementsAlertLifecycle
CHECK_DEADLOCK FALSE
