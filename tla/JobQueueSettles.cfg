SPECIFICATION FairSpec
CONSTANTS
  j1 = j1
  j2 = j2
  j3 = j3
  Jobs <- ThreeJobs
  Handled <- TwoJobs
  Retries <- OnlyOne
  RetryBase = 2
  RestartInPlace = FALSE
  Faults = {"crash"}
  MaxRestarts = 1
  MaxIdle = 0
INVARIANTS
  TakesBounded
  RunningIsHeld
PROPERTIES
  FirstComeFirstServed
  JobsSettle
  KeepsLedger
CHECK_DEADLOCK FALSE
