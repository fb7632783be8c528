SPECIFICATION Spec
CONSTANTS
  Tasks <- MCTasks
  Time <- MCTime
  Days <- MCDays
  TopicOf <- MCTopicOf
  Checklist = {"brief"}
  Slots = 2
  MaxDay = 3
  QuietStart = 0
  QuietEnd = 1
  MaxNaps = 1
  MaxTurns = 1
  MaxEdits = 1
  MaxFaults = 2
INVARIANTS
  OncePerDay
  NoSilentMiss
PROPERTY DeferredLaunched
CHECK_DEADLOCK FALSE
