SPECIFICATION Spec
CONSTANTS
  root = root
  child = child
  Session <- OneSession
  NoSession = NoSession
  MaxQueue = 3
  CtlCap = 1
  MaxInputs = 3
  Faults <- NoFaults
INVARIANTS NothingLost
CHECK_DEADLOCK FALSE
