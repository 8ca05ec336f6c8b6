\* kubectl is there, the API server is not: a kubevirt VM.
SPECIFICATION Spec
CONSTANTS
  d1 = d1
  d2 = d2
  Deploys <- One
  Reapers = {1}
  TargetOf <- Kubevirt
  EngineOf <- PodmanOne
  Faults <- ApiDown
  MaxGen = 0
INVARIANT CondemnedWereDead
CHECK_DEADLOCK FALSE
