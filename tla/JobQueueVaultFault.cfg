SPECIFICATION FairSpec
CONSTANTS
  j1 = j1
  j2 = j2
  j3 = j3
  Jobs <- OneJob
  Handled <- OneJob
  Retries <- OnlyOne
  RetryBase = 1
  RestartInPlace = FALSE
  Faults = {"raise"}
  MaxRestarts = 0
  MaxIdle = 0
PROPERTIES
  JobsSettle
CHECK_DEADLOCK FALSE
