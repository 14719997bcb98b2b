SPECIFICATION FairSpec
CONSTANTS
    Sender = {d1, d2}
    Operator = {o1}
    Token = {t1, t2, t3, t4}
    NoToken = NoToken
    Lease = 2
    Timeout = 1
    MaxOccurrence = 2
    MaxFaults = 1
INVARIANTS
    SentMeansDelivered
    OneSenderPerOccurrence
    DuplicatesNeedFaults
PROPERTIES
    PendingIsServed
    ImplementsAlertLifecycle
CHECK_DEADLOCK FALSE
