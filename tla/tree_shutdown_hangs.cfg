SPECIFICATION FairSpec
CONSTANTS
  root = root
  child = child
  Session <- OneSession
  NoSession = NoSession
  MaxQueue = 2
  CtlCap = 1
  MaxInputs = 3
  Faults <- NoFaults
PROPERTIES ShutdownEnds
CHECK_DEADLOCK FALSE
