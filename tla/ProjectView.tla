---------------------------- MODULE ProjectView ----------------------------
(***************************************************************************)
(* What a status request promises about the project it reports on: between *)
(* its start and its end it looks at the project once, at a moment of its  *)
(* own, and every row it returns comes from that one look.                 *)
(***************************************************************************)
EXTENDS Naturals

CONSTANTS
  Requests,  \* status requests
  MaxEdits,  \* bound: edits of the project
  Failed     \* a look that failed

VARIABLES
  project,   \* version of the project on disk
  phase,     \* idle, open or closed
  seen       \* what a request's rows come from: nothing yet, or one look

vars == <<project, phase, seen>>

Init ==
  /\ project = 0
  /\ phase = [r \in Requests |-> "idle"]
  /\ seen = [r \in Requests |-> {}]

Edit ==
  /\ project < MaxEdits
  /\ project' = project + 1
  /\ UNCHANGED <<phase, seen>>

Open(r) ==
  /\ phase[r] = "idle"
  /\ phase' = [phase EXCEPT ![r] = "open"]
  /\ UNCHANGED <<project, seen>>

\* The one look, of the project as it is now.
Look(r) ==
  /\ phase[r] = "open" /\ seen[r] = {}
  /\ \E v \in {project, Failed} : seen' = [seen EXCEPT ![r] = {v}]
  /\ phase' \in {phase, [phase EXCEPT ![r] = "closed"]}
  /\ UNCHANGED project

Close(r) ==
  /\ phase[r] \in {"idle", "open"}
  /\ phase' = [phase EXCEPT ![r] = "closed"]
  /\ UNCHANGED <<project, seen>>

Next == Edit \/ \E r \in Requests : Open(r) \/ Look(r) \/ Close(r)

Spec == Init /\ [][Next]_vars
=============================================================================
