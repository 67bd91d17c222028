SPECIFICATION Spec
CONSTANTS
  thread1 = thread1
  thread2 = thread2
  item1 = item1
  item2 = item2
  Prompt = prompt
  Thread = {thread1, thread2}
  Name = {prompt, item1, item2}
  Writes <- Apart
  MaxOps = 4
  MaxBoots = 2
  Globals <- TwoGlobals
  Reserved = {}
  Kinds = {"data", "closure", "cyclic", "infinite", "thread", "negative", "keyed"}
  MaxTurns = 3
  MaxRetries = 1
  MaxEvents = 3
  Width = 256
  DomMax = 4
  Replies <- ShortReplies
  Schedules <- DaySchedules
PROPERTY GlobalsPersist
CHECK_DEADLOCK FALSE
