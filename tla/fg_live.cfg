SPECIFICATION FairSpec
CONSTANTS
  a = a
  b = b
  c = c
  None = None
  Projects <- MCProjects
  Requests <- MCDeep
  DispatchOutcomes = {"sent"}
  TaskOutcomes = {"completed", "failed"}
  Verdicts = {"satisfied", "verified_empty", "empty_result", "execution_error", "quality_issue", "unlisted"}
  AckBeforeCallback = TRUE
  MaxCrashes = 0
  MaxDbFaults = 0
  MaxLost = 0
INVARIANTS
  RowsSettle
PROPERTIES
  SettledStaysSettled
  GoalFinishes
CHECK_DEADLOCK FALSE
