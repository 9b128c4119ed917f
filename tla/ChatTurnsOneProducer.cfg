SPECIFICATION Spec
CONSTANTS
    Turns = {t1, t2}
    Keys = {k1, k2}
    Requests = {r1}
    NoTurn = NoTurn
    NoKey = NoKey
    Timeout = 0
    CancelBuffer = 2
    Retention = 1
    HandoffDelay = 0
    StopLatency = 1
    LastAdmission = 4
    MaxTime = 8
SYMMETRY Symmetry
INVARIANTS OneProducer
CHECK_DEADLOCK FALSE
