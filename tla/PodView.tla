------------------------------- MODULE PodView -------------------------------
(***************************************************************************)
(* What the pod collector promises of one request, whatever its loop, its  *)
(* semaphore and its wait groups do: the containers are listed once, each  *)
(* of them gets a slot of a bounded pool, and while it has the slot its    *)
(* row is filled in once, from which moment it never changes; the reply    *)
(* comes when the pool is empty and every listed container has its row.    *)
(***************************************************************************)
EXTENDS Naturals, FiniteSets

CONSTANTS
  Containers,  \* what may be listed, with the state it is listed in
  Answers      \* the probes a row may show

VARIABLES
  phase,   \* listing, working, replied or failed
  listed,  \* the containers of the reply
  pool,    \* how many may be worked on at once
  busy,    \* those that are being worked on
  rows     \* per container: written or not, and the tools it shows

vars == <<phase, listed, pool, busy, rows>>

Blank == [written |-> FALSE, tools |-> {}]

Init ==
  /\ phase = "listing"
  /\ listed = {}
  /\ pool \in Nat \ {0}
  /\ busy = {}
  /\ rows = [c \in Containers |-> Blank]

List ==
  /\ phase = "listing"
  /\ phase' = "working"
  /\ listed' \in SUBSET Containers
  /\ pool' \in Nat \ {0}
  /\ UNCHANGED <<busy, rows>>

Fail ==
  /\ phase = "listing"
  /\ phase' = "failed"
  /\ UNCHANGED <<listed, pool, busy, rows>>

Take(c) ==
  /\ phase = "working"
  /\ ~rows[c].written
  /\ c \notin busy
  /\ Cardinality(busy) < pool
  /\ busy' = busy \cup {c}
  /\ UNCHANGED <<phase, listed, pool, rows>>

\* Only a running container is probed, so only its row shows tools.
Fill(c) ==
  /\ phase = "working"
  /\ ~rows[c].written
  /\ c \in busy
  /\ \E T \in SUBSET Answers :
       /\ c.state # "running" => T = {}
       /\ rows' = [rows EXCEPT ![c] = [written |-> TRUE, tools |-> T]]
  /\ UNCHANGED <<phase, listed, pool, busy>>

Free(c) ==
  /\ phase = "working"
  /\ rows[c].written
  /\ c \in busy
  /\ busy' = busy \ {c}
  /\ UNCHANGED <<phase, listed, pool, rows>>

Reply ==
  /\ phase = "working"
  /\ busy = {}
  /\ \A c \in listed : rows[c].written
  /\ phase' = "replied"
  /\ UNCHANGED <<listed, pool, busy, rows>>

Next ==
  \/ List \/ Fail \/ Reply
  \/ \E c \in listed : Take(c) \/ Fill(c) \/ Free(c)

Spec == Init /\ [][Next]_vars
=============================================================================
