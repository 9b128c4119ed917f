SPECIFICATION FairReaper
CONSTANTS
    Turns = {t1}
    Keys = {k1}
    Requests = {r1}
    Deleters = {d1}
    Reapers = {p1}
    NoTurn = NoTurn
    NoKey = NoKey
    Timeout = 0
    CancelBuffer = 1
    Retention = 1
    HandoffDelay = 0
    StopLatency = 0
    Idle = 2
    LastAdmission = 3
    MaxTime = 6
INVARIANTS RecordGoesLast
PROPERTIES TeardownSparesHolders RetirementFinishes
CHECK_DEADLOCK FALSE
