SPECIFICATION FairSpec
CONSTANTS
  a = a
  b = b
  c = c
  d = d
  Steps <- MCSteps
  Plans <- MCPlans
  MaxFaults = 1
INVARIANTS
  TypeOK
  InputsComplete
  ReportIsTrue
  RowsAgree
PROPERTIES
  Contract
  CancelEndsRun
CHECK_DEADLOCK FALSE
