-------------------------- MODULE MCDeployEntries --------------------------
(* DeployEntries on a small instance.                                      *)
EXTENDS DeployEntries, FiniteSets

A  == <<"a">>
AB == <<"a", "/", "b">>
Ab == <<"a", "-", "b">>
T  == <<"t">>

K(target, image, from, state) ==
  [target |-> target, image |-> image, from |-> from, state |-> state]
Vm        == K("vm", Empty, A, "none")
Cluster   == K("kindcluster", Empty, T, "none")
Android   == K("android", Empty, T, "none")
Kubevirt  == K("kubevirt", Empty, T, "namespaced")
FromImage == K("kubevirt", T, Empty, "namespaced")

MCParts      == {"a", "b", "t", "ns", "/", "-"}
MCKeys       == {A, AB, Ab}
MCKinds      == {Vm, Cluster, Android, Kubevirt}
\* The slash is no character of such a name.
MCSanitized  == [k \in MCKeys |-> IF k = AB THEN Ab ELSE k]
MCDomains    == {A}
MCContainers == {A, Ab}
MCKubevirts  == {Kubevirt, FromImage}
MCUnits      == {[box |-> A, instance |-> <<"b">>]}

\* Bound: two entries when the request starts, a third may be written meanwhile.
MCInit == Init /\ Cardinality({k \in Keys : config[k] # None}) <= 2
MCSpec == MCInit /\ [][Next]_vars
=============================================================================
