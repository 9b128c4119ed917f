SPECIFICATION FairSpec
CONSTANTS
    Steps = {s1}
    Readers = {r1}
    Page = 1
    MaxParts = 1
    Turn = Turn
INVARIANTS ReaderHasPrefix CompletedIsWhole
PROPERTIES ReadersEnd
CHECK_DEADLOCK FALSE
