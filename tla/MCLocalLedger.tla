---------------------------- MODULE MCLocalLedger ----------------------------
(* LocalLedger on small instances: two deploys, one of which may have no   *)
(* record of its own, with stamps that are old, new, malformed and empty.  *)
EXTENDS LocalLedger

CONSTANTS a, b, x, y, bad, none

MCIds     == {a, b}
MCCandies == {x, y}
MCTimes   == {1, 2}

Deployed(id, candy, add, at) ==
  [id |-> id, candy |-> candy, addCandy |-> add, at |-> at]
Installed(candy, by, at) == [candy |-> candy, by |-> by, at |-> at]

MCDeploys ==
  {Deployed(a, {x}, {}, 1), Deployed(a, {}, {y}, bad),
   Deployed(a, {}, {}, none), Deployed(b, {x}, {y}, bad)}
MCInstalls ==
  {Installed(x, {a, b}, 2), Installed(y, {a}, bad), Installed(x, {b}, 1),
   Installed(y, {a, b}, none)}
=============================================================================
