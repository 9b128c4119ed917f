SPECIFICATION ElicitSpec
CONSTANTS
  Groups = {g1, g2}
  Questions = {q1, q2}
  Resumers = {r1, r2}
  NoGroup = NoGroup
  Limit = 3
SYMMETRY Symmetry
INVARIANTS ElicitInv
PROPERTIES AnswersStand
CHECK_DEADLOCK FALSE
