SPECIFICATION Spec
CONSTANTS
  Topic = {t1}
  MaxRuns = 2
  MaxCalls = 1
  Call <- MCCall
  NoCall = NoCall
  Sender = {owner, stranger}
  Owner = owner
  MaxRestarts = 1
  MaxFaults = 1
INVARIANTS
  EditInTime
  OneExecutorPerTopic
PROPERTIES
  AnswerIsLastWord
  KeepsPromise
  NothingLeftBehind
CHECK_DEADLOCK FALSE
