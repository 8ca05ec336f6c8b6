---------------------------- MODULE MCPodFanout ----------------------------
(***************************************************************************)
(* PodFanout on a small instance. The three charly containers can be       *)
(* exchanged in every behaviour (what the engine lists, the units and the  *)
(* schedule), so of the listings that differ by such an exchange one is    *)
(* explored: the one with the busiest containers first. Unlike a SYMMETRY  *)
(* this keeps the behaviours themselves, and liveness with them.           *)
(***************************************************************************)
EXTENDS PodFanout

CONSTANTS c1, c2, c3, foreign, guest

MCNames  == {c1, c2, c3, foreign}
MCCharly == {c1, c2, c3}

Weight(n) ==
  Cardinality({s \in engine : s.name = n})
    + Cardinality({s \in engine : s.name = n /\ s.state = "running"})

BusiestFirst == Weight(c1) >= Weight(c2) /\ Weight(c2) >= Weight(c3)

MCInit == Init /\ BusiestFirst
MCSpec == MCInit /\ [][Next]_vars /\ Fairness
=============================================================================
