\* A failed exec is cached like a successful one.
SPECIFICATION Spec
CONSTANTS
  a = a
  sshd = sshd
  vnc = vnc
  r1 = r1
  r2 = r2
  r3 = r3
  Containers <- OneContainer
  Tools <- OneTool
  Scripts <- OneScript
  Runs <- TwoRuns
  TTL = 2
  MaxLag = 1
  None = None
  Garbage = Garbage
  MaxNow = 3
INVARIANT CachedIsAvailability
CHECK_DEADLOCK FALSE
