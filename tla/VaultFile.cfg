SPECIFICATION Spec
CONSTANTS
  t1 = t1
  t2 = t2
  n1 = n1
  n2 = n2
  v1 = v1
  Threads = {t1, t2}
  Names = {n1, n2}
  Values = {v1}
  NoValue = NoValue
  NoThread = NoThread
  Faults = {"raise", "kill", "tear"}
  MaxRotations = 2
  MaxKills = 2
  MaxLosses = 1
INVARIANTS TypeOK KeysAgree
PROPERTIES KeepsMap
CHECK_DEADLOCK FALSE
