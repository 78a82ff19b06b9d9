SPECIFICATION Spec
CONSTANTS
  a = a
  b = b
  c = c
  None = None
  Projects <- MCProjects
  Requests <- MCDeep
  DispatchOutcomes = {"sent"}
  TaskOutcomes = {"completed", "failed"}
  Verdicts = {"satisfied", "quality_issue"}
  AckBeforeCallback = TRUE
  MaxCrashes = 0
  MaxDbFaults = 0
  MaxLost = 0
INVARIANTS
  FailureReachesDependents
CHECK_DEADLOCK FALSE
