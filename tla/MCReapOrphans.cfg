\* A vm and a pod, two reapers, and a redeploy of each name.
SPECIFICATION Spec
CONSTANTS
  d1 = d1
  d2 = d2
  Deploys <- Two
  Reapers = {1, 2}
  TargetOf <- VmPod
  EngineOf <- PodmanTwo
  Faults <- KeptFaults
  MaxGen = 1
INVARIANTS
  TypeOK
  CondemnedWereDead
  NoOrphanSkipped
PROPERTIES
  LiveKillOnlyAfterRedeploy
  ReapEnds
CHECK_DEADLOCK FALSE
