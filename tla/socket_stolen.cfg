SPECIFICATION Spec
CONSTANTS
  Process = {p1, p2}
  NoProcess = NoProcess
INVARIANTS ServingIsReachable
CHECK_DEADLOCK FALSE
