----------------------------- MODULE SinglePath -----------------------------
(***************************************************************************)
(* `charly status <image>`: collectSingle reports one container.  It lists *)
(* the engine's containers, probes the one it is after if it runs, and     *)
(* asks systemd and then the quadlet directory when it does not.  Those    *)
(* are four looks at a host that moves in between, and each may fail; the  *)
(* code goes on with what it has.                                          *)
(*                                                                         *)
(* The enrichment from charly.yml and the list of secrets, which touch     *)
(* neither the status nor the tools, are left out.  Podman and systemd are *)
(* external to the plugin.                                                 *)
(***************************************************************************)

VARIABLES
  quadlet, \* run mode is quadlet
  unit,    \* the deployment's unit: none on disk, or its systemd state
  ctr,     \* its container, as the engine lists it
  pc,      \* control point of the request
  status,  \* Status of the row
  tools,   \* whether the row shows tools
  seen,    \* history: the host while the request runs
  failed   \* history: the looks that failed

host == <<quadlet, unit, ctr>>
vars == <<host, pc, status, tools, seen, failed>>

Looks == {"engine", "probe", "systemd", "unit"}

-----------------------------------------------------------------------------
(* What the looks answer.                                                  *)

\* spec.StatusFromState: "" is the state of the stub for an unlisted one.
StatusFromState(state) == IF state \in {"running", "paused"} THEN state
                                                             ELSE "stopped"

\* `systemctl is-active` exits with 0 for an active unit alone; its output
\* is read only then.
IsActive == unit = "active"

Init ==
  /\ quadlet \in BOOLEAN
  /\ unit \in {"none", "inactive", "active", "failed"}
  /\ ctr \in {"absent", "exited", "running", "paused"}
  /\ unit = "active" => ctr \in {"running", "paused"}
  /\ pc = "idle"
  /\ status = "" /\ tools = FALSE
  /\ seen = {} /\ failed = {}

\* The look the request makes next fails.
Misses(look) == pc = look /\ failed' = failed \cup {look}

\* The look at `look` succeeds.
Makes(look) == pc = look /\ UNCHANGED failed

-----------------------------------------------------------------------------
(* The request.                                                            *)

Begin ==
  /\ pc = "idle"
  /\ pc' = "engine"
  /\ seen' = {<<unit, ctr>>}
  /\ UNCHANGED <<host, status, tools, failed>>

\* Plausible bug: the container is probed whatever its state.
SnapshotProbes ==
  /\ Makes("engine")
  /\ status' = StatusFromState(ctr)
  /\ pc' = "probe"
  /\ UNCHANGED <<host, tools, seen>>

\* collectPodSingle: SnapshotAll(true), with a stub for what it does not list.
Snapshot ==
  /\ Makes("engine")
  /\ status' = StatusFromState(ctr)
  /\ pc' = IF status' = "running" THEN "probe" ELSE "resolve"
  /\ UNCHANGED <<host, tools, seen>>

\* Its error is dropped: the stub again.
SnapshotFails ==
  /\ Misses("engine")
  /\ status' = StatusFromState("")
  /\ pc' = "resolve"
  /\ UNCHANGED <<host, tools, seen>>

\* collectPodLive: tools answer if the container still runs.
Probe ==
  /\ Makes("probe")
  /\ tools' \in {FALSE, ctr = "running"}
  /\ pc' = "resolve"
  /\ UNCHANGED <<host, status, seen>>

ProbeFails ==
  /\ Misses("probe")
  /\ pc' = "resolve"
  /\ UNCHANGED <<host, status, tools, seen>>

\* Only what the engine does not run is looked up, in quadlet mode.
Resolve ==
  /\ pc = "resolve"
  /\ pc' = IF status = "stopped" /\ quadlet THEN "systemd" ELSE "done"
  /\ UNCHANGED <<host, status, tools, seen, failed>>

\* Plausible bug: the row of an active unit keeps the status it had.
SystemdStopped ==
  /\ Makes("systemd")
  /\ pc' = IF IsActive THEN "done" ELSE "unit"
  /\ UNCHANGED <<host, status, tools, seen>>

\* resolveSystemdState: the first of its two looks.
Systemd ==
  /\ Makes("systemd")
  /\ status' = IF IsActive THEN "running" ELSE status
  /\ pc' = IF IsActive THEN "done" ELSE "unit"
  /\ UNCHANGED <<host, tools, seen>>

\* No systemctl, or no user bus: as if the unit were not active.
SystemdFails ==
  /\ Misses("systemd")
  /\ pc' = "unit"
  /\ UNCHANGED <<host, status, tools, seen>>

\* Plausible bug: a unit that is not active is taken for one that is gone.
UnitIgnored ==
  /\ Makes("unit")
  /\ status' = "not configured"
  /\ pc' = "done"
  /\ UNCHANGED <<host, tools, seen>>

\* The second: is there a unit on disk?
Unit ==
  /\ Makes("unit")
  /\ status' = IF unit # "none" THEN "enabled" ELSE "not configured"
  /\ pc' = "done"
  /\ UNCHANGED <<host, tools, seen>>

\* Its error is dropped, too.
UnitFails ==
  /\ Misses("unit")
  /\ status' = "not configured"
  /\ pc' = "done"
  /\ UNCHANGED <<host, tools, seen>>

Request ==
  \/ Begin \/ Snapshot \/ SnapshotFails \/ Probe \/ ProbeFails
  \/ Resolve \/ Systemd \/ SystemdFails \/ Unit \/ UnitFails

-----------------------------------------------------------------------------
(* The host.  A quadlet's container lives and dies with its unit; one that *)
(* was run directly leaves an exited container.                            *)

Moves(u, c) ==
  /\ unit' = u /\ ctr' = c
  /\ seen' = IF pc \in {"idle", "done"} THEN seen ELSE seen \cup {<<u, c>>}
  /\ UNCHANGED <<quadlet, pc, status, tools, failed>>

Install   == unit = "none" /\ Moves("inactive", ctr)
Uninstall == unit \in {"inactive", "failed"} /\ Moves("none", ctr)
StartUnit == unit \in {"inactive", "failed"} /\ ctr \in {"absent", "exited"}
               /\ Moves("active", "running")
StopUnit  == unit = "active" /\ Moves("inactive", "absent")
FailUnit  == unit = "active" /\ Moves("failed", "absent")
RunDirect == unit # "active" /\ ctr \in {"absent", "exited"}
               /\ Moves(unit, "running")
ExitDirect == unit # "active" /\ ctr \in {"running", "paused"}
               /\ \E c \in {"absent", "exited"} : Moves(unit, c)
Pause     == ctr = "running" /\ Moves(unit, "paused")
Unpause   == ctr = "paused" /\ Moves(unit, "running")

Host ==
  \/ Install \/ Uninstall \/ StartUnit \/ StopUnit \/ FailUnit
  \/ RunDirect \/ ExitDirect \/ Pause \/ Unpause

Next == Request \/ Host

Spec == Init /\ [][Next]_vars

-----------------------------------------------------------------------------
(* Properties.                                                             *)

\* Besides the types: an active unit has its container, and a row that shows
\* tools, which were looked for later than its status, is a running one.
TypeOK ==
  /\ quadlet \in BOOLEAN /\ tools \in BOOLEAN
  /\ unit \in {"none", "inactive", "active", "failed"}
  /\ ctr \in {"absent", "exited", "running", "paused"}
  /\ unit = "active" => ctr \in {"running", "paused"}
  /\ pc \in {"idle", "engine", "probe", "resolve", "systemd", "unit", "done"}
  /\ status \in {"", "running", "paused", "stopped", "enabled",
                 "not configured"}
  /\ failed \subseteq Looks
  /\ tools => status = "running"

\* The host was so at some moment of the request, or all the time.
Once(S)   == seen \cap S # {}
Always(S) == seen \subseteq S

States == {"none", "inactive", "active", "failed"}
            \X {"absent", "exited", "running", "paused"}
CtrIn(C)  == {h \in States : h[2] \in C}
UnitIn(U) == {h \in States : h[1] \in U}

\* What a reply says was so while the request ran, unless the look that would
\* have told failed: no status is put together from moments none of which had
\* it, whatever happens between the looks.
StatusWitnessed ==
  pc = "done" =>
    /\ status = "running" => Once(CtrIn({"running"}))
                               \/ Once(UnitIn({"active"}))
    /\ status = "paused"  => Once(CtrIn({"paused"}))
    /\ status = "stopped" => Once(CtrIn({"absent", "exited"}))
                               \/ "engine" \in failed
    /\ status = "enabled" => Once(UnitIn({"inactive", "failed"}))
                               \/ "systemd" \in failed
    /\ status = "not configured" => Once(UnitIn({"none"})) \/ "unit" \in failed

\* A container that runs from the request's start to its end is reported as
\* running if the engine answers; one run by its unit even if the engine does
\* not, as long as systemd is asked and answers.
RunningIsReported ==
  pc = "done" =>
    \/ status = "running"
    \/ ~Always(CtrIn({"running"}))
    \/ /\ "engine" \in failed
       /\ ~quadlet \/ ~Always(UnitIn({"active"})) \/ "systemd" \in failed

\* status_flat.go:389-390 says resolveSystemdState "consults systemctl + the
\* quadlet dir to decide whether a non-podman-listed deployment is stopped,
\* failed, enabled, or not configured": a unit that has failed for all of the
\* request, with no look failing, is reported as failed.
FailedIsReported ==
  (/\ pc = "done" /\ quadlet /\ failed = {}
   /\ Always(UnitIn({"failed"}) \cap CtrIn({"absent"})))
    => status = "failed"
=============================================================================
