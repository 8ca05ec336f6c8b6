\* A unit that failed, and no move of the host.
SPECIFICATION Spec
INVARIANT FailedIsReported
CHECK_DEADLOCK FALSE
