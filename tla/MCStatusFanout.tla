--------------------------- MODULE MCStatusFanout ---------------------------
(* StatusFanout on small instances.                                        *)
EXTENDS StatusFanout, TLC

CONSTANTS r1, r2

Two == {r1, r2}

Symmetry == Permutations(Two)
=============================================================================
