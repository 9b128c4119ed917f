SPECIFICATION SchedSpec
CONSTANTS
  Loops = {l1}
  Calls = {c1, c2}
  NoRec = NoRec
  NoSched = NoSched
  MaxFailures = 0
INVARIANTS RunOncePerRequest
CHECK_DEADLOCK FALSE
