SPECIFICATION FairSpec
CONSTANTS
    Runs = {r1, r2, r3}
    NoRun = NoRun
    Stages = 2
    Acts = {a1, a2}
INVARIANTS RunsDoNotOverlap OneWaiter StopSparesExecution
PROPERTIES EveryRunEnds
CHECK_DEADLOCK FALSE
