SPECIFICATION Spec
CONSTANTS
  root = root
  child = child
  Session <- TwoSessions
  NoSession = NoSession
  MaxQueue = 2
  CtlCap = 1
  MaxInputs = 4
  Faults <- UnlinkFault
SYMMETRY Symmetry
INVARIANTS TypeOK NoLostWakeup OneLoop RunningHasLoop ReadInOrder
PROPERTIES PausedStaysPut KeepsMail OnlyKillDiscards
CHECK_DEADLOCK FALSE
