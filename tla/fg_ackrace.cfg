SPECIFICATION FairSpec
CONSTANTS
  a = a
  b = b
  c = c
  None = None
  Projects <- MCProjects
  Requests <- MCDeep
  DispatchOutcomes = {"sent"}
  TaskOutcomes = {"completed"}
  Verdicts = {"satisfied"}
  AckBeforeCallback = FALSE
  MaxCrashes = 0
  MaxDbFaults = 0
  MaxLost = 0
PROPERTIES
  GoalFinishes
CHECK_DEADLOCK FALSE
