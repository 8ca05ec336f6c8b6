-------------------------- MODULE MCAndroidStatus --------------------------
(* AndroidStatus on a small instance: a device below a pod, and one of its *)
(* own, whose container may be on either engine.                           *)
EXTENDS AndroidStatus

CONSTANTS phone, tablet, pod, box

MCDevices == {phone, tablet}
MCPlaces  == {<<pod, "podman">>, <<box, "podman">>, <<box, "docker">>}
MCRoot    == [d \in MCDevices |-> IF d = phone THEN pod ELSE d]
MCHost    == [d \in MCDevices |-> IF d = phone THEN pod ELSE box]

N(spec) == [spec |-> spec, engine |-> "podman"]
MCNodes == {N("box"), N("hostport"), N("literal"), N("missing")}
=============================================================================
