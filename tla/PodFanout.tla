------------------------------ MODULE PodFanout ------------------------------
(***************************************************************************)
(* The pod collector's fan-out over containers: collectPodStatus lists the *)
(* containers of the engine, and one goroutine per container, at most      *)
(* PoolSize of them at a time, builds the container's status row; the      *)
(* goroutine of a running container starts one goroutine per host probe    *)
(* and one for the batched guest probes, and waits for all of them.        *)
(*                                                                         *)
(* A slot of Go's `results` slice is named by the snapshot it belongs to:  *)
(* collectFlat sorts the rows afterwards, so their order is not modelled.  *)
(***************************************************************************)
EXTENDS Naturals, FiniteSets

CONSTANTS
  Names,       \* container names the engine may list
  Charly,      \* those that carry the charly- prefix
  HostProbes,  \* probes run from the operator's host (cdp, vnc)
  Guest,       \* the one batched exec that runs every guest probe
  NumCPU,      \* runtime.NumCPU()
  PoolFloor    \* least pool size the code asks for (4 in the source)

ASSUME FanoutAssumption ==
  /\ IsFiniteSet(Names)
  /\ IsFiniteSet(HostProbes)
  /\ Charly \subseteq Names
  /\ NumCPU \in Nat \ {0}
  /\ PoolFloor \in Nat \ {0}
  /\ Guest \notin HostProbes

Probes == HostProbes \cup {Guest}

\* What SnapshotAll, or a synthesized quadlet entry, says of one container.
Snapshot == [name : Names, state : {"running", "exited", "enabled"}]

VARIABLES
  req,    \* the request: include_all, and whether run mode is quadlet
  engine, \* what the engine lists: the containers of this host
  units,  \* names with a charly-*.container unit on disk
  mpc,    \* control point of collectPodStatus itself
  snaps,  \* the snapshots that get a row
  pc,     \* control point of each snapshot's goroutine
  probe,  \* per snapshot and probe: idle, running, or its answer
  row,    \* results[i]: whether it was written and the tools it shows
  sem,    \* tokens in the semaphore channel
  wg      \* counter of the wait group

vars == <<req, engine, units, mpc, snaps, pc, probe, row, sem, wg>>
world == <<req, engine, units>>

-----------------------------------------------------------------------------
(* The listing.                                                            *)

\* podman ps lists a container once; without -a only the running ones.
EngineListings(all) ==
  {E \in SUBSET [name : Names, state : {"running", "exited"}] :
     /\ \A s, t \in E : s.name = t.name => s = t
     /\ all \/ \A s \in E : s.state = "running"}

Filtered(E) == {s \in E : s.name \in Charly}

\* Plausible bug: every unit is appended, whether or not the engine listed it.
AllQuadlets(U, seen) == {[name |-> n, state |-> "enabled"] : n \in U}

\* enabledQuadlets: units on disk that the engine did not list.
EnabledQuadlets(U, seen) ==
  {[name |-> n, state |-> "enabled"] : n \in U \ seen}

Listed(r, E, U) ==
  LET found == Filtered(E)
      seen  == {s.name : s \in found}
  IN IF r.all /\ r.quadlet
     THEN found \cup EnabledQuadlets(U, seen)
     ELSE found

\* workers := max(2*NumCPU, 4), cut to the number of snapshots, at least 1.
PoolSize(n) ==
  LET wanted == IF 2 * NumCPU > PoolFloor THEN 2 * NumCPU ELSE PoolFloor
      cut    == IF wanted > n THEN n ELSE wanted
  IN IF cut < 1 THEN 1 ELSE cut

Unwritten == [written |-> FALSE, tools |-> {}]

Init ==
  /\ req \in [all : BOOLEAN, quadlet : BOOLEAN]
  /\ engine \in EngineListings(req.all)
  /\ units \in SUBSET Charly
  /\ mpc = "list"
  /\ snaps = {}
  /\ pc = [s \in Snapshot |-> "idle"]
  /\ probe = [s \in Snapshot |-> [p \in Probes |-> "idle"]]
  /\ row = [s \in Snapshot |-> Unwritten]
  /\ sem = 0
  /\ wg = 0

List ==
  /\ mpc = "list"
  /\ snaps' = Listed(req, engine, units)
  /\ mpc' = "range"
  /\ UNCHANGED <<world, pc, probe, row, sem, wg>>

\* SnapshotAll returned an error: so does the handler.
ListFails ==
  /\ mpc = "list"
  /\ mpc' = "failed"
  /\ UNCHANGED <<world, snaps, pc, probe, row, sem, wg>>

-----------------------------------------------------------------------------
(* Plausible bugs: each is a variant of one action defined below it.       *)

\* The handler waits for the rows, not for the goroutines.
ReplyOnRows ==
  /\ mpc = "wait"
  /\ \A s \in snaps : row[s].written
  /\ mpc' = "replied"
  /\ UNCHANGED <<world, snaps, pc, probe, row, sem, wg>>

\* The loop does not wait for a free slot.
LaunchUnbounded(s) ==
  /\ mpc = "acquire"
  /\ pc[s] = "added"
  /\ sem' = sem + 1
  /\ pc' = [pc EXCEPT ![s] = "collect"]
  /\ mpc' = "range"
  /\ UNCHANGED <<world, snaps, probe, row, wg>>

\* The guest batch is started outside the inner wait group.
JoinHostOnly(s) ==
  /\ pc[s] = "probing"
  /\ \A p \in HostProbes : probe[s][p] # "running"
  /\ row' = [row EXCEPT ![s].written = TRUE]
  /\ pc' = [pc EXCEPT ![s] = "wrote"]
  /\ UNCHANGED <<world, mpc, snaps, probe, sem, wg>>

\* make(chan struct{}, workers-1): the channel has a slot too few.
LaunchShort(s) ==
  /\ mpc = "acquire"
  /\ pc[s] = "added"
  /\ sem + 1 < PoolSize(Cardinality(snaps))
  /\ sem' = sem + 1
  /\ pc' = [pc EXCEPT ![s] = "collect"]
  /\ mpc' = "range"
  /\ UNCHANGED <<world, snaps, probe, row, wg>>

\* The token is given back twice: by a defer and on the way out.
ReleaseTwice(s) ==
  /\ pc[s] = "wrote"
  /\ sem' = sem - 2
  /\ pc' = [pc EXCEPT ![s] = "released"]
  /\ UNCHANGED <<world, mpc, snaps, probe, row, wg>>

\* The row of a running container is entered first, its tools once they are in.
StartProbesWithRow(s) ==
  /\ pc[s] = "collect"
  /\ s.state = "running"
  /\ probe' = [probe EXCEPT ![s] = [p \in Probes |-> "running"]]
  /\ row' = [row EXCEPT ![s].written = TRUE]
  /\ pc' = [pc EXCEPT ![s] = "probing"]
  /\ UNCHANGED <<world, mpc, snaps, sem, wg>>

\* wg.Done() is the last line of the goroutine, and a stopped one returns early.
CollectStoppedReturns(s) ==
  /\ pc[s] = "collect"
  /\ s.state # "running"
  /\ row' = [row EXCEPT ![s] = [written |-> TRUE, tools |-> {}]]
  /\ sem' = sem - 1
  /\ pc' = [pc EXCEPT ![s] = "done"]
  /\ UNCHANGED <<world, mpc, snaps, probe, wg>>

\* A probe that found nothing is asked again.
AnswerRetried(s, p) ==
  /\ probe[s][p] \in {"running", "-"}
  /\ pc[s] = "probing"
  /\ \E a \in {"-", "ok"} : probe' = [probe EXCEPT ![s][p] = a]
  /\ UNCHANGED <<world, mpc, snaps, pc, row, sem, wg>>

-----------------------------------------------------------------------------
(* The dispatch loop.                                                      *)

\* wg.Add(1), before the loop blocks on the semaphore.
Add(s) ==
  /\ mpc = "range"
  /\ s \in snaps /\ pc[s] = "idle"
  /\ wg' = wg + 1
  /\ pc' = [pc EXCEPT ![s] = "added"]
  /\ mpc' = "acquire"
  /\ UNCHANGED <<world, snaps, probe, row, sem>>

\* sem <- struct{}{}, then the go statement.
Launch(s) ==
  /\ mpc = "acquire"
  /\ pc[s] = "added"
  /\ sem < PoolSize(Cardinality(snaps))
  /\ sem' = sem + 1
  /\ pc' = [pc EXCEPT ![s] = "collect"]
  /\ mpc' = "range"
  /\ UNCHANGED <<world, snaps, probe, row, wg>>

EndRange ==
  /\ mpc = "range"
  /\ \A s \in snaps : pc[s] # "idle"
  /\ mpc' = "wait"
  /\ UNCHANGED <<world, snaps, pc, probe, row, sem, wg>>

\* wg.Wait() returned: the rows are the reply.
Reply ==
  /\ mpc = "wait"
  /\ wg = 0
  /\ mpc' = "replied"
  /\ UNCHANGED <<world, snaps, pc, probe, row, sem, wg>>

-----------------------------------------------------------------------------
(* One goroutine of the pool: collectPodLive, then the deferred calls.     *)

\* A container that is not running gets its row without any probe.
CollectStopped(s) ==
  /\ pc[s] = "collect"
  /\ s.state # "running"
  /\ row' = [row EXCEPT ![s] = [written |-> TRUE, tools |-> {}]]
  /\ pc' = [pc EXCEPT ![s] = "wrote"]
  /\ UNCHANGED <<world, mpc, snaps, probe, sem, wg>>

\* runPodProbes starts every host probe and the guest batch.
StartProbes(s) ==
  /\ pc[s] = "collect"
  /\ s.state = "running"
  /\ probe' = [probe EXCEPT ![s] = [p \in Probes |-> "running"]]
  /\ pc' = [pc EXCEPT ![s] = "probing"]
  /\ UNCHANGED <<world, mpc, snaps, row, sem, wg>>

\* One probe goroutine finishes: "-" stands for a tool that is not there.
Answer(s, p) ==
  /\ probe[s][p] = "running"
  /\ \E a \in {"-", "ok"} : probe' = [probe EXCEPT ![s][p] = a]
  /\ UNCHANGED <<world, mpc, snaps, pc, row, sem, wg>>

Shown(answers) == {p \in Probes : answers[p] # "-"}

\* The inner wg.Wait(), the "-" filter, and the write to results[i].
Join(s) ==
  /\ pc[s] = "probing"
  /\ \A p \in Probes : probe[s][p] # "running"
  /\ row' = [row EXCEPT ![s] = [written |-> TRUE, tools |-> Shown(probe[s])]]
  /\ pc' = [pc EXCEPT ![s] = "wrote"]
  /\ UNCHANGED <<world, mpc, snaps, probe, sem, wg>>

\* Deferred calls run last-in first-out: the token goes back first...
Release(s) ==
  /\ pc[s] = "wrote"
  /\ sem' = sem - 1
  /\ pc' = [pc EXCEPT ![s] = "released"]
  /\ UNCHANGED <<world, mpc, snaps, probe, row, wg>>

\* ... and wg.Done() is the goroutine's last step.
Done(s) ==
  /\ pc[s] = "released"
  /\ wg' = wg - 1
  /\ pc' = [pc EXCEPT ![s] = "done"]
  /\ UNCHANGED <<world, mpc, snaps, probe, row, sem>>

Worker(s) ==
  \/ CollectStopped(s)
  \/ StartProbes(s)
  \/ \E p \in Probes : Answer(s, p)
  \/ Join(s)
  \/ Release(s)
  \/ Done(s)

Main ==
  \/ List \/ ListFails \/ EndRange \/ Reply
  \/ \E s \in Snapshot : Add(s) \/ Launch(s)

Next == Main \/ \E s \in Snapshot : Worker(s)

\* The Go scheduler runs every goroutine that can run; a host probe returns
\* within its own 2s timeouts and the guest batch when podman exec does.
Fairness ==
  /\ WF_vars(Main)
  /\ \A s \in Snapshot :
       /\ WF_vars(CollectStopped(s) \/ StartProbes(s) \/ Join(s)
                    \/ Release(s) \/ Done(s))
       /\ \A p \in Probes : WF_vars(Answer(s, p))

Spec == Init /\ [][Next]_vars /\ Fairness

-----------------------------------------------------------------------------
(* Properties.                                                             *)

TypeOK ==
  /\ req \in [all : BOOLEAN, quadlet : BOOLEAN]
  /\ engine \in SUBSET Snapshot
  /\ units \in SUBSET Charly
  /\ mpc \in {"list", "range", "acquire", "wait", "replied", "failed"}
  /\ snaps \in SUBSET Snapshot
  /\ pc \in [Snapshot -> {"idle", "added", "collect", "probing", "wrote",
                          "released", "done"}]
  /\ probe \in [Snapshot -> [Probes -> {"idle", "running", "-", "ok"}]]
  /\ row \in [Snapshot -> [written : BOOLEAN, tools : SUBSET Probes]]
  /\ sem \in Nat
  /\ wg \in Nat

\* Goroutines that are building a row: they hold a token of the semaphore.
Holding == {s \in Snapshot : pc[s] \in {"collect", "probing", "wrote"}}

\* Goroutines the wait group counts.
InFlight ==
  {s \in Snapshot : pc[s] \in {"added", "collect", "probing", "wrote",
                               "released"}}

\* However many containers the host has, no more than PoolSize of them are
\* being probed (one podman exec each) at any moment.
PoolBound == Cardinality(Holding) <= PoolSize(Cardinality(snaps))

\* What the finished row of a snapshot must be: every probe of a running
\* container has answered, and the row shows those that found their tool.
RowFinal(s) ==
  /\ row[s].written
  /\ IF s.state = "running"
     THEN /\ \A p \in Probes : probe[s][p] \in {"-", "ok"}
          /\ row[s].tools = {p \in Probes : probe[s][p] = "ok"}
     ELSE row[s].tools = {}

\* collectPodStatus never returns a slice with a slot no goroutine has
\* filled, or one filled before the last of its probes answered.
ReplyComplete == mpc = "replied" => \A s \in snaps : RowFinal(s)

\* When the handler returns nothing of it is left behind: no goroutine is
\* still to run, and the semaphore is empty (the token goes back before Done).
ReplyQuiescent ==
  mpc = "replied" => /\ \A s \in Snapshot : pc[s] \in {"idle", "done"}
                     /\ sem = 0

\* Every charly container the engine listed, and under --all in quadlet mode
\* every other enabled unit, gets a row of its own: no container has two rows
\* (a live one and an "enabled" one), none that is not charly's has any.
OneRowPerContainer ==
  mpc \notin {"list", "failed"} =>
    /\ \A s, t \in snaps : s.name = t.name => s = t
    /\ {s \in engine : s.name \in Charly} \subseteq snaps
    /\ {s.name : s \in snaps} =
         Charly \cap ({s.name : s \in engine}
                        \cup (IF req.all /\ req.quadlet THEN units ELSE {}))

\* Every request is answered: the loop, the pool and the inner waits never
\* wait on each other for ever.
Answered == <>(mpc \in {"replied", "failed"})

\* Goroutines that are past the semaphore and have not called wg.Done().
Moving == {s \in Snapshot : pc[s] \in {"collect", "probing", "wrote", "released"}}

\* While the handler has not answered, something can move: a loop that stands at
\* the semaphore has a goroutine to start, and waits for a slot only while some
\* goroutine holds one; the handler waits for the group only while a goroutine
\* that the group counts can run. Nobody waits for somebody who is not coming.
NeverStuck ==
  /\ mpc = "acquire" =>
       /\ \E s \in snaps : pc[s] = "added"
       /\ sem < PoolSize(Cardinality(snaps)) \/ Holding # {}
  /\ mpc = "wait" => wg = 0 \/ Moving # {}

\* The stages that lie ahead of the handler, ahead of a goroutine, and the
\* probes of a container that have not answered.
HandlerAhead ==
  CASE mpc = "list" -> {"dispatch", "wait", "end"}
    [] mpc \in {"range", "acquire"} -> {"wait", "end"}
    [] mpc = "wait" -> {"end"}
    [] OTHER -> {}

Ahead(c) ==
  CASE c = "idle" -> {"added", "collect", "probing", "wrote", "released", "done"}
    [] c = "added" -> {"collect", "probing", "wrote", "released", "done"}
    [] c = "collect" -> {"probing", "wrote", "released", "done"}
    [] c = "probing" -> {"wrote", "released", "done"}
    [] c = "wrote" -> {"released", "done"}
    [] c = "released" -> {"done"}
    [] OTHER -> {}

Open(s) == {p \in Probes : probe[s][p] \in {"idle", "running"}}

\* Some stage or some answer is behind it after the step, and none is before it
\* again.
Forward ==
  /\ HandlerAhead' \subseteq HandlerAhead
  /\ \A s \in snaps' : /\ pc'[s] \in {pc[s]} \cup Ahead(pc[s])
                      /\ Open(s)' \subseteq Open(s)
  /\ \/ HandlerAhead' # HandlerAhead
     \/ \E s \in snaps' : pc'[s] # pc[s] \/ Open(s)' # Open(s)

\* Every step of anybody leaves less to do, and nothing is ever taken back: no
\* probe is asked twice, no goroutine starts over, the loop does not spin. With
\* NeverStuck this is why every request is answered, however the goroutines are
\* scheduled.
OnlyForward == [][Forward]_vars

Phase ==
  CASE mpc = "list" -> "listing"
    [] mpc \in {"range", "acquire", "wait"} -> "working"
    [] OTHER -> mpc

\* What the handler, the semaphore and the wait groups amount to (PodView).
View ==
  INSTANCE PodView WITH
    Containers <- Snapshot,
    Answers <- Probes,
    phase <- Phase,
    listed <- snaps,
    pool <- PoolSize(Cardinality(snaps)),
    busy <- Holding,
    rows <- row

\* The collector implements PodView: one listing, a bounded pool, each row
\* entered once, by the goroutine that has the slot, with the answers that are
\* final, and before the reply.
ImplementsPodView == View!Spec

=============================================================================
