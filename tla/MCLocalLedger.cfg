\* Every ledger made of four deploy records and four candy records, in any order.
SPECIFICATION Spec
CONSTANTS
  a = a
  b = b
  x = x
  y = y
  bad = bad
  none = none
  DeployRecs <- MCDeploys
  CandyRecs <- MCInstalls
  Ids <- MCIds
  Candies <- MCCandies
  Times <- MCTimes
  Malformed = {bad}
  Empty = none
INVARIANTS
  TypeOK
  RowsMatchLedger
PROPERTY UptimeForward
CHECK_DEADLOCK FALSE
