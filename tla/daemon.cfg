SPECIFICATION FairSpec
CONSTANTS
  Session <- TwoSessions
  Parent <- ChildOfFirst
  EventCap = 1
  Schedules <- OneSchedule
  MaxRuns = 3
  MaxRounds = 1
INVARIANTS ExitIsClean
PROPERTIES DaemonExits DoneIsReflected AsksAreAnswered
CHECK_DEADLOCK FALSE
