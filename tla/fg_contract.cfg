SPECIFICATION Spec
CONSTANTS
  a = a
  b = b
  c = c
  None = None
  Projects <- MCProjects
  Requests <- MCDeep
  DispatchOutcomes = {"sent", "refused", "timeout"}
  TaskOutcomes = {"completed", "failed"}
  Verdicts = {"satisfied", "quality_issue"}
  AckBeforeCallback = FALSE
  MaxCrashes = 1
  MaxDbFaults = 0
  MaxLost = 1
INVARIANTS
  DependencyOrder
PROPERTIES
  Contract
CHECK_DEADLOCK FALSE
