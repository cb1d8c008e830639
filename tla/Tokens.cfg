SPECIFICATION Spec
CONSTANTS
  p1 = p1
  p2 = p2
  p3 = p3
  Login = Login
  Pairs <- ThreePairs
  RefreshTTL = 2
  MaxPrevious = 1
  Faults = {"crash", "raise", "lost"}
  MaxKeys = 2
  MaxTime = 3
SYMMETRY PairSymmetry
INVARIANTS
  TypeOK
  RefreshOnce
  OneSessionPerLogin
  RefusedOnlyIfSpent
  KeyWindow
CHECK_DEADLOCK FALSE
