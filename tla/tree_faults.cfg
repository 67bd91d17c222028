SPECIFICATION Spec
CONSTANTS
  root = root
  child = child
  Session <- TwoSessions
  NoSession = NoSession
  MaxQueue = 2
  CtlCap = 1
  MaxInputs = 4
  Faults <- DiskAndTaskFaults
SYMMETRY Symmetry
INVARIANTS TreeInv QueuesBounded OffloadedIsOnDisk ReadOnce
