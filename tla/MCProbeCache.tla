---------------------------- MODULE MCProbeCache ----------------------------
(* ProbeCache on small instances.                                          *)
EXTENDS ProbeCache, FiniteSets, TLC

CONSTANTS a, sshd, vnc, r1, r2, r3

OneContainer == {a}
OneTool   == {sshd}
TwoTools  == {sshd, vnc}
OneScript == {{sshd}}
TwoRuns   == {r1, r2}
ThreeRuns == {r1, r2, r3}

\* Two binaries with different probes share the store, and one without any.
MixedScripts == {{sshd}, {vnc}, {}}

Asking(s) == {r \in Runs : arg[r].script = s}

\* Bounds: three calls of one binary, or one of each; and a tool that no call
\* asks for stays as it is, which no result would show.
MCInit ==
  /\ Init
  /\ \/ Cardinality(Asking({sshd})) = Cardinality(Runs)
     \/ \A s \in Scripts : Asking(s) # {}
MCSpec == MCInit /\ [][Next]_vars

Asked == UNION {arg[r].script : r \in Runs}
OnlyAskedChange ==
  \A c \in Containers : tools'[c] \ Asked = tools[c] \ Asked

RunSymmetry == Permutations(ThreeRuns)
=============================================================================
