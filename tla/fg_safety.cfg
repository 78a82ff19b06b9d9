SPECIFICATION Spec
CONSTANTS
  a = a
  b = b
  c = c
  None = None
  Projects <- MCProjects
  Requests <- MCDeep
  DispatchOutcomes = {"sent"}
  TaskOutcomes = {"completed", "failed"}
  Verdicts = {"satisfied", "quality_issue"}
  AckBeforeCallback = FALSE
  MaxCrashes = 1
  MaxDbFaults = 1
  MaxLost = 0
INVARIANTS
  TypeOK
  DialogueBound
  CompletedGoalIsComplete
  SendBound
CHECK_DEADLOCK FALSE
