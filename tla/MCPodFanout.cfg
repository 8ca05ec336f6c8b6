\* Pool of 2 slots over up to 3 charly containers and one foreign container;
\* each running one answers the guest batch.
SPECIFICATION MCSpec
CONSTANTS
  c1 = c1
  c2 = c2
  c3 = c3
  foreign = foreign
  guest = guest
  Names <- MCNames
  Charly <- MCCharly
  HostProbes = {}
  Guest = guest
  NumCPU = 1
  PoolFloor = 2
INVARIANTS
  TypeOK
  PoolBound
  ReplyComplete
  ReplyQuiescent
  OneRowPerContainer
  NeverStuck
PROPERTIES
  ImplementsPodView
  OnlyForward
  Answered
CHECK_DEADLOCK FALSE
