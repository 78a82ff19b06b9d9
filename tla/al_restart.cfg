SPECIFICATION Spec
CONSTANTS
  Callers = {c}
  Autos = {a}
  Instances <- MCInstances
  NoInstance = NoInstance
  FailureThreshold = 1
  MaxRestarts = 1
  FailureCap = 2
  MaxFaults = 0
  MaxCrashes = 0
PROPERTY RestartResets
