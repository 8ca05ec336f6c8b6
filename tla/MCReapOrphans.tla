--------------------------- MODULE MCReapOrphans ---------------------------
(* ReapOrphans on small instances: which target each deploy has, and which *)
(* probes may fail to tell.                                                *)
EXTENDS ReapOrphans

CONSTANTS d1, d2

\* Probes of these targets keep an entry when they cannot tell.
KeptFaults ==
  [t \in Targets |->
     CASE t \in {"vm", "kindcluster"} -> Failures
       [] t = "kubevirt" -> {"notool"}
       [] OTHER -> {}]

Two == {d1, d2}
One == {d1}

VmPod    == [d \in Two |-> IF d = d1 THEN "vm" ELSE "pod"]
Kubevirt == [d \in One |-> "kubevirt"]

PodmanTwo == [d \in Two |-> "podman"]
PodmanOne == [d \in One |-> "podman"]

\* The API server answers nobody; kubectl itself is installed.
ApiDown == [t \in Targets |-> IF t = "kubevirt" THEN {"error"} ELSE {}]
=============================================================================
