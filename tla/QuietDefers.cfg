SPECIFICATION Spec
CONSTANTS
  Tasks <- LateTasks
  Time <- LateTime
  Days <- MCDays
  TopicOf <- MCTopicOf
  Checklist = {}
  Slots = 3
  MaxDay = 3
  QuietStart = 2
  QuietEnd = 1
  MaxNaps = 0
  MaxTurns = 0
  MaxEdits = 0
  MaxFaults = 0
INVARIANT QuietOnlyDefers
CHECK_DEADLOCK FALSE
