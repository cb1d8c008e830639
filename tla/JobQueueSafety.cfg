SPECIFICATION Spec
CONSTANTS
  j1 = j1
  j2 = j2
  j3 = j3
  Jobs <- TwoJobs
  Handled <- TwoJobs
  Retries <- LessOrTwo
  RetryBase = 1
  RestartInPlace = TRUE
  Faults = {"crash", "raise", "torn", "audit"}
  MaxRestarts = 2
  MaxIdle = 2
INVARIANTS
  TypeOK
  QueueExact
  AttemptsWithinBudget
  AckedIsDurable
PROPERTIES
  SettledStaysSettled
  BackoffHonoured
CHECK_DEADLOCK FALSE
