SPECIFICATION Spec
CONSTANTS
  c1 = c1
  c2 = c2
  Clients = {c1, c2}
  General = 2
  Auth = 1
  Second = 2
  Window = 4
  MaxTime = 5
INVARIANTS WindowBound RefusedOnlyAtLimit RetryIsEnough
SYMMETRY ClientSymmetry
CHECK_DEADLOCK FALSE
