SPECIFICATION Spec
CONSTANTS
    Turns = {t1, t2}
    Keys = {k1, k2}
    Requests = {r1, r2}
    NoTurn = NoTurn
    NoKey = NoKey
    Timeout = 1
    CancelBuffer = 1
    Retention = 1
    HandoffDelay = 0
    StopLatency = 0
    LastAdmission = 2
    MaxTime = 5
SYMMETRY Symmetry
INVARIANTS ProducerKeepsTurn AnsweredOnce
PROPERTIES OutcomeIsFinal SweepSparesClaims KeepsContract
CHECK_DEADLOCK FALSE
