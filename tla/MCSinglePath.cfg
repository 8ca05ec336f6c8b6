\* One request, and a host that moves as it likes.
SPECIFICATION Spec
INVARIANTS
  TypeOK
  StatusWitnessed
  RunningIsReported
CHECK_DEADLOCK FALSE
