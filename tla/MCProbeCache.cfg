\* Three racing calls of binaries with different probes, or none; TTL 2, lag 1.
SPECIFICATION MCSpec
CONSTANTS
  a = a
  sshd = sshd
  vnc = vnc
  r1 = r1
  r2 = r2
  r3 = r3
  Containers <- OneContainer
  Tools <- TwoTools
  Scripts <- MixedScripts
  Runs <- ThreeRuns
  TTL = 2
  MaxLag = 1
  None = None
  Garbage = Garbage
  MaxNow = 4
ACTION_CONSTRAINT OnlyAskedChange
SYMMETRY RunSymmetry
INVARIANTS
  TypeOK
  RepliesToItsProbes
PROPERTIES
  CrashSeen
  FailureForgotten
CHECK_DEADLOCK FALSE
