SPECIFICATION FairSpec
CONSTANTS
  Callers = {c}
  Autos = {a}
  Instances <- MCInstances
  NoInstance = NoInstance
  FailureThreshold = 2
  MaxRestarts = 2
  FailureCap = 2
  MaxFaults = 1
  MaxCrashes = 1
INVARIANTS TypeOK SingleOwner RowIsTrue
PROPERTY SickIsHandled
