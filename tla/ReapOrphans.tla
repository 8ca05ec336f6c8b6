----------------------------- MODULE ReapOrphans -----------------------------
(***************************************************************************)
(* `charly reap-orphans`: read the per-host charly.yml once, probe the     *)
(* underlying resource of every active ephemeral, then run                 *)
(* `charly deploy del` on each entry whose probe did not say "alive".      *)
(*                                                                         *)
(* Several invocations may run at once, beside the TTL teardown and the    *)
(* user's own deploys of the same names.  The child process, the engines   *)
(* and the ledger's other writers are external to the plugin: they are     *)
(* modelled by their effect on the entry and on the resource.              *)
(***************************************************************************)
EXTENDS Naturals, FiniteSets

CONSTANTS
  Deploys,   \* names of the entries of charly.yml
  Reapers,   \* invocations of the command
  TargetOf,  \* target word of each deploy
  EngineOf,  \* engine a deploy was created with
  Faults,    \* per target: ways its probe may fail to tell
  MaxGen     \* bound: times a name is deployed again

Targets == {"vm", "pod", "container", "kubernetes", "kindcluster",
            "kubevirt", "firecracker", "local", "android"}

\* "notool": the tool or plugin is not there; "error": it ran and failed.
Failures == {"notool", "error"}

ASSUME ReapAssumption ==
  /\ IsFiniteSet(Deploys)
  /\ TargetOf \in [Deploys -> Targets]
  /\ EngineOf \in [Deploys -> {"podman", "docker"}]
  /\ Faults \in [Targets -> SUBSET Failures]
  /\ MaxGen \in Nat

VARIABLES
  ledger,    \* ephemeral status of each entry, "absent" without an entry
  alive,     \* whether the underlying resource exists
  gen,       \* how often the name was deployed
  pc,        \* control point of each reaper
  todo,      \* active entries it has still to probe
  orphans,   \* entries it judged not alive and has still to delete
  current,   \* entries its child process is deleting (none or one)
  tried,     \* entries it has run `deploy del` on
  loaded,    \* history: the active entries it read
  sawDead,   \* history: those whose resource was gone when it probed them
  unsure,    \* history: those whose probe told it nothing
  seenGen    \* history: the deployment its probe looked at

world == <<ledger, alive, gen>>
history == <<loaded, sawDead, unsure, seenGen>>
vars == <<world, pc, todo, orphans, current, tried, history>>

-----------------------------------------------------------------------------
(* The probe.                                                              *)

\* podman is asked whatever the engine; kind is told the deploy's engine.
Visible(d) ==
  TargetOf[d] \in {"pod", "container"} => EngineOf[d] = "podman"

\* What the probe of d may answer.
Answers(d) ==
  (IF alive[d] /\ Visible(d) THEN {"exists"} ELSE {"missing"})
    \cup Faults[TargetOf[d]]

\* Plausible bug: a libvirt plugin that cannot be reached means "gone".
VerdictEager(target, answer) ==
  CASE target \in {"firecracker", "local", "android"} -> TRUE
    [] target = "kubevirt" -> answer \in {"exists", "notool"}
    [] target = "kindcluster" -> answer # "missing"
    [] OTHER -> answer = "exists"

\* ephemeralUnderlyingResourceAlive: what it returns on an answer.
Verdict(target, answer) ==
  CASE target \in {"vm", "kindcluster"} -> answer # "missing"
    [] target \in {"pod", "container", "kubernetes"} -> answer = "exists"
    [] target = "kubevirt" -> answer \in {"exists", "notool"}
    [] OTHER -> TRUE

-----------------------------------------------------------------------------

Init ==
  /\ ledger \in [Deploys -> {"absent", "active", "torn-down"}]
  /\ alive \in [Deploys -> BOOLEAN]
  /\ \A d \in Deploys : alive[d] => ledger[d] = "active"
  /\ gen = [d \in Deploys |-> 0]
  /\ pc = [r \in Reapers |-> "start"]
  /\ todo = [r \in Reapers |-> {}]
  /\ orphans = [r \in Reapers |-> {}]
  /\ current = [r \in Reapers |-> {}]
  /\ tried = [r \in Reapers |-> {}]
  /\ loaded = [r \in Reapers |-> {}]
  /\ sawDead = [r \in Reapers |-> {}]
  /\ unsure = [r \in Reapers |-> {}]
  /\ seenGen = [r \in Reapers |-> [d \in Deploys |-> 0]]

Active == {d \in Deploys : ledger[d] = "active"}

\* loadDeployConfig; the candidates are read from that one copy.
Load(r) ==
  /\ pc[r] = "start"
  /\ pc' = [pc EXCEPT ![r] = "probe"]
  /\ todo' = [todo EXCEPT ![r] = Active]
  /\ loaded' = [loaded EXCEPT ![r] = Active]
  /\ UNCHANGED <<world, orphans, current, tried, sawDead, unsure, seenGen>>

\* charly.yml cannot be read, or there is none.
LoadFails(r) ==
  /\ pc[r] = "start"
  /\ pc' = [pc EXCEPT ![r] = "failed"]
  /\ UNCHANGED <<world, todo, orphans, current, tried, history>>

\* What a probe that answered `a` leaves in the histories.
Record(r, d, a) ==
  /\ sawDead' = [sawDead EXCEPT ![r] = IF alive[d] THEN @ ELSE @ \cup {d}]
  /\ unsure' = [unsure EXCEPT ![r] =
                  IF a \in Failures THEN @ \cup {d} ELSE @]
  /\ seenGen' = [seenGen EXCEPT ![r][d] = gen[d]]

\* Plausible bug: an entry found gone is probed once more, but stays condemned.
ProbeTwice(r, d) ==
  /\ pc[r] = "probe"
  /\ d \in todo[r]
  /\ \E a \in Answers(d) :
       LET gone == ~Verdict(TargetOf[d], a) IN
       /\ todo' = [todo EXCEPT ![r] = IF gone /\ d \notin orphans[r] THEN @ ELSE @ \ {d}]
       /\ orphans' = [orphans EXCEPT ![r] = IF gone THEN @ \cup {d} ELSE @]
       /\ Record(r, d, a)
  /\ UNCHANGED <<world, pc, current, tried, loaded>>

\* One turn of the first loop; a map is iterated in any order.
Probe(r, d) ==
  /\ pc[r] = "probe"
  /\ d \in todo[r]
  /\ \E a \in Answers(d) :
       /\ todo' = [todo EXCEPT ![r] = @ \ {d}]
       /\ orphans' = [orphans EXCEPT ![r] =
                        IF Verdict(TargetOf[d], a) THEN @ ELSE @ \cup {d}]
       /\ Record(r, d, a)
  /\ UNCHANGED <<world, pc, current, tried, loaded>>

EndProbes(r) ==
  /\ pc[r] = "probe"
  /\ todo[r] = {}
  /\ pc' = [pc EXCEPT ![r] = IF orphans[r] = {} THEN "done" ELSE "reap"]
  /\ UNCHANGED <<world, todo, orphans, current, tried, history>>

\* Plausible bug: the child process is started and not waited for.
ReapAsync(r, d) ==
  /\ pc[r] \in {"reap", "destroy"}
  /\ d \in orphans[r]
  /\ pc' = [pc EXCEPT ![r] = "destroy"]
  /\ current' = [current EXCEPT ![r] = @ \cup {d}]
  /\ orphans' = [orphans EXCEPT ![r] = @ \ {d}]
  /\ tried' = [tried EXCEPT ![r] = @ \cup {d}]
  /\ UNCHANGED <<world, todo, history>>

\* One turn of the second loop: start `charly deploy del d --assume-yes`.
Reap(r, d) ==
  /\ pc[r] = "reap"
  /\ d \in orphans[r]
  /\ pc' = [pc EXCEPT ![r] = "destroy"]
  /\ current' = [current EXCEPT ![r] = {d}]
  /\ orphans' = [orphans EXCEPT ![r] = @ \ {d}]
  /\ tried' = [tried EXCEPT ![r] = @ \cup {d}]
  /\ UNCHANGED <<world, todo, history>>

\* The child stops what is left of the resource, if the entry is still there.
ChildDestroys(r) ==
  /\ pc[r] = "destroy"
  /\ \E d \in current[r] :
       alive' = [alive EXCEPT ![d] = @ /\ ledger[d] = "absent"]
  /\ pc' = [pc EXCEPT ![r] = "forget"]
  /\ UNCHANGED <<ledger, gen, todo, orphans, current, tried, history>>

\* It then removes the entry and exits with status 0.
ChildForgets(r) ==
  /\ pc[r] = "forget"
  /\ \E d \in current[r] : ledger' = [ledger EXCEPT ![d] = "absent"]
  /\ pc' = [pc EXCEPT ![r] = "reap"]
  /\ current' = [current EXCEPT ![r] = {}]
  /\ UNCHANGED <<alive, gen, todo, orphans, tried, history>>

\* Plausible bug: a failed deletion ends the command.
ChildFailsHard(r) ==
  /\ pc[r] \in {"destroy", "forget"}
  /\ pc' = [pc EXCEPT ![r] = "done"]
  /\ current' = [current EXCEPT ![r] = {}]
  /\ UNCHANGED <<world, todo, orphans, tried, history>>

\* Plausible bug: a failed deletion is tried again until it works.
ChildFailsRequeued(r) ==
  /\ pc[r] \in {"destroy", "forget"}
  /\ pc' = [pc EXCEPT ![r] = "reap"]
  /\ orphans' = [orphans EXCEPT ![r] = @ \cup current[r]]
  /\ current' = [current EXCEPT ![r] = {}]
  /\ UNCHANGED <<world, todo, tried, history>>

\* Or it fails before or between the two: a warning, and the next orphan.
ChildFails(r) ==
  /\ pc[r] \in {"destroy", "forget"}
  /\ pc' = [pc EXCEPT ![r] = "reap"]
  /\ current' = [current EXCEPT ![r] = {}]
  /\ UNCHANGED <<world, todo, orphans, tried, history>>

EndReaps(r) ==
  /\ pc[r] = "reap"
  /\ orphans[r] = {}
  /\ pc' = [pc EXCEPT ![r] = "done"]
  /\ UNCHANGED <<world, todo, orphans, current, tried, history>>

Reaper(r) ==
  \/ Load(r) \/ LoadFails(r) \/ EndProbes(r) \/ EndReaps(r)
  \/ ChildDestroys(r) \/ ChildForgets(r) \/ ChildFails(r)
  \/ \E d \in Deploys : Probe(r, d) \/ Reap(r, d)

-----------------------------------------------------------------------------
(* The rest of the host.                                                   *)

\* A resource goes away: a crash, a reboot, the first half of a teardown.
Die(d) ==
  /\ alive[d]
  /\ alive' = [alive EXCEPT ![d] = FALSE]
  /\ UNCHANGED <<ledger, gen, pc, todo, orphans, current, tried, history>>

\* The second half of somebody else's teardown.
Forget(d) ==
  /\ ledger[d] # "absent" /\ ~alive[d]
  /\ ledger' = [ledger EXCEPT ![d] = "absent"]
  /\ UNCHANGED <<alive, gen, pc, todo, orphans, current, tried, history>>

\* The user deploys the same name again.
Deploy(d) ==
  /\ ~alive[d] /\ gen[d] < MaxGen
  /\ ledger' = [ledger EXCEPT ![d] = "active"]
  /\ alive' = [alive EXCEPT ![d] = TRUE]
  /\ gen' = [gen EXCEPT ![d] = @ + 1]
  /\ UNCHANGED <<pc, todo, orphans, current, tried, history>>

Host == \E d \in Deploys : Die(d) \/ Forget(d) \/ Deploy(d)

Next == (\E r \in Reapers : Reaper(r)) \/ Host

\* A reaper is one sequential process: whatever it is waiting for, a probe
\* or a child process, ends.  Nothing makes the rest of the host move.
Spec == Init /\ [][Next]_vars /\ \A r \in Reapers : WF_vars(Reaper(r))

-----------------------------------------------------------------------------
(* Properties.                                                             *)

\* Besides the types: a reaper runs its children one at a time, and waits.
TypeOK ==
  /\ ledger \in [Deploys -> {"absent", "active", "torn-down"}]
  /\ alive \in [Deploys -> BOOLEAN]
  /\ gen \in [Deploys -> Nat]
  /\ pc \in [Reapers -> {"start", "probe", "reap", "destroy", "forget",
                         "done", "failed"}]
  /\ todo \in [Reapers -> SUBSET Deploys]
  /\ orphans \in [Reapers -> SUBSET Deploys]
  /\ current \in [Reapers -> SUBSET Deploys]
  /\ tried \in [Reapers -> SUBSET Deploys]
  /\ loaded \in [Reapers -> SUBSET Deploys]
  /\ sawDead \in [Reapers -> SUBSET Deploys]
  /\ unsure \in [Reapers -> SUBSET Deploys]
  /\ seenGen \in [Reapers -> [Deploys -> Nat]]
  /\ \A r \in Reapers :
       IF pc[r] \in {"destroy", "forget"}
       THEN \E d \in Deploys : current[r] = {d}
       ELSE current[r] = {}

\* Everything a reaper condemned, deleted or is about to.
Condemned(r) == orphans[r] \cup current[r] \cup tried[r]

\* "False positives are bad (we'd nuke a still-running resource)": a reaper
\* condemns only active entries whose resource was gone when it was probed.
CondemnedWereDead ==
  \A r \in Reapers : Condemned(r) \subseteq loaded[r] \cap sawDead[r]

\* A reaper stops a running resource only if the name was deployed again
\* between its probe and its deletion: the one race it leaves unresolved.
LiveKillOnlyAfterRedeploy ==
  [][\A r \in Reapers, d \in Deploys :
       (d \in current[r] /\ ChildDestroys(r) /\ alive[d] /\ ~alive'[d])
         => gen[d] > seenGen[r][d]]_vars

\* Targets that have a probe: the others are never reaped.
Probed == {"vm", "pod", "container", "kubernetes", "kindcluster", "kubevirt"}

\* A reaper that ends has tried to delete every orphan it could see, those
\* after a failed deletion included.
NoOrphanSkipped ==
  \A r \in Reapers :
    pc[r] = "done" =>
      {d \in (loaded[r] \cap sawDead[r]) \ unsure[r] : TargetOf[d] \in Probed}
        \subseteq tried[r]

\* Every invocation ends, whatever the probes and the deletions do.
ReapEnds ==
  \A r \in Reapers : <>(pc[r] \in {"done", "failed"})
=============================================================================
