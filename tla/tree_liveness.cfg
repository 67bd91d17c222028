SPECIFICATION FairSpec
CONSTANTS
  root = root
  child = child
  Session <- TwoSessions
  NoSession = NoSession
  MaxQueue = 2
  CtlCap = 1
  MaxInputs = 3
  Faults <- EndlessFaults
PROPERTIES QueuedIsRead StopEndsRun
CHECK_DEADLOCK FALSE
