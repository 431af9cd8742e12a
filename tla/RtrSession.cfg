SPECIFICATION FairSpec
CONSTANTS
  v1 = v1
  v2 = v2
  Vrps = {v1, v2}
  SerialSpace = 8
  FirstSerial = 5
  Setups <- AllSetups
INVARIANTS DataIsCacheState ManagerAgrees
PROPERTIES BlamesOnlyRestartedCache CatchesUp
CHECK_DEADLOCK FALSE
