SPECIFICATION ServicesSpec
CONSTANTS
    Turns = {t1}
    Keys = {k1}
    Requests = {r1, r2}
    NoTurn = NoTurn
    NoKey = NoKey
    Timeout = 1
    CancelBuffer = 3
    Retention = 1
    HandoffDelay = 1
    StopLatency = 1
    LastAdmission = 1
    MaxTime = 12
    Owners = {o1}
    Callers = {d1, d2}
    Steps = {s1}
    MaxSandboxes = 2
INVARIANTS HeldIffRunning
PROPERTIES StopEndsRun ThreadIsReleased OrphansCollected
CHECK_DEADLOCK FALSE
