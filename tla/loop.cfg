SPECIFICATION FairSpec
CONSTANTS
  MinTurns = 2
  MinSeconds = 1
  MaxTurns = 3
  MaxTokens = 4
  MaxOutput = 1
  RetryCap = 3
  KeepLast = 2
  Cost <- OneToken
  Scripts <- EveryScript
  MaxStarts = 2
  MaxMessages = 1
  MaxClock = 1
INVARIANTS TypeOK CountersHonest OneTurnPast RequestOk TailsAgree
PROPERTIES DoneIsEarned SavedNeverGoesBack RunEnds
CHECK_DEADLOCK FALSE
