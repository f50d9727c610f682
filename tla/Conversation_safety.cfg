SPECIFICATION Spec
CONSTANTS
  u1 = u1  u2 = u2  p1 = p1
  Users = {u1, u2}
  Projects = {p1}
  Asks <- AllAsks
  MaxVersion = 1
  MaxCalls = 2
  MaxCrashes = 1
SYMMETRY UserSymmetry
INVARIANTS AdminRemains LiveWorkHasAccess AnsweredIffSucceeded
CHECK_DEADLOCK FALSE
