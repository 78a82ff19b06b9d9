SPECIFICATION Spec
CONSTANTS
  a = a
  b = b
  c = c
  None = None
  Projects <- MCProjects
  Requests <- MCDeep
  DispatchOutcomes = {"sent"}
  TaskOutcomes = {"completed", "failed"}
  Verdicts = {"satisfied", "quality_issue"}
  AckBeforeCallback = TRUE
  MaxCrashes = 1
  MaxDbFaults = 0
  MaxLost = 0
PROPERTIES
  UpstreamInjected
CHECK_DEADLOCK FALSE
