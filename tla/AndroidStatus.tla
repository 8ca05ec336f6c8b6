---------------------------- MODULE AndroidStatus ----------------------------
(***************************************************************************)
(* The android collector: one row per declared device, from what the       *)
(* device's template says and from up to three looks at the container that *)
(* serves it: is it running, which host port is its adb port on, and is it *)
(* running still.  charly.yml is read for the overlay, and again for the   *)
(* engine of each top-level device's box.                                  *)
(*                                                                         *)
(* Containers are stopped, started and recreated, and the engines written  *)
(* to charly.yml, between any two of these.  Serials, addresses and        *)
(* credentials decide nothing about a row's status and are left out.       *)
(***************************************************************************)
EXTENDS Naturals, FiniteSets

CONSTANTS
  Devices,     \* dotted paths of the device nodes
  Nested,      \* those below a pod
  Root,        \* the top-level entry of a device: itself, or its pod's
  Places,      \* where containers may be: (container, engine) pairs
  Host,        \* the container a device runs in, or is forwarded by
  Nodes,       \* what a device's node may say, of those considered
  RunEngine,   \* the engine of the resolved runtime
  MaxMoves,    \* bound: moves of the host while the request runs
  None         \* nothing: no node, no engine, no row yet

Engines == {"podman", "docker"}

\* A node's template: "missing", neither box: nor adb: ("empty"), a literal
\* adb host, one with ${HOST_PORT:N}, one where that is malformed, or box:.
Node == [spec : {"missing", "empty", "literal", "hostport", "malformed", "box"},
         engine : Engines]

ASSUME AndroidAssumption ==
  /\ Nested \subseteq Devices
  /\ \A p \in Places : p[2] \in {"podman", "docker"}
  /\ DOMAIN Host = Devices /\ DOMAIN Root = Devices
  /\ Nodes \subseteq Node
  /\ RunEngine \in Engines
  /\ MaxMoves \in Nat
  /\ None \notin Node /\ None \notin Engines
  /\ None \notin {"absent", "declared", "running"}

\* A container as one engine knows it: not there, stopped, running with its
\* adb port on no host port ("bare"), or running with it published ("up").
Conditions == {"gone", "down", "bare", "up"}

\* The containers of top-level devices: charly.yml may name their engine.
Boxes == {Host[d] : d \in Devices \ Nested}

VARIABLES
  cont,     \* the condition of each container on each engine
  config,   \* charly.yml: the engine of each box, if it names one
  moves,    \* how often the host moved
  pc,       \* control point of the request
  node,     \* the merged nodes
  todo,     \* devices without a row yet
  cur,      \* the device in hand
  engine,   \* the engine its container is asked of
  row,      \* status of each device
  steady,   \* history: places "up" ever since the request began
  since,    \* history: places that ran at the port's look, or since
  edited,   \* history: charly.yml was written since the request began
  blind     \* history: devices for which a command or a read failed

host == <<cont, config, moves>>
history == <<steady, since, edited, blind>>
vars == <<host, node, pc, todo, cur, engine, row, history>>

Condition(p) == IF p \in Places THEN cont[p] ELSE "gone"
Runs(p) == Condition(p) \in {"bare", "up"}

\* The device nodes of a tree.
Tree == [Devices -> Nodes \cup {None}]

Init ==
  /\ cont \in [Places -> Conditions]
  /\ config \in [Boxes -> Engines \cup {None}]
  /\ moves = 0
  /\ pc = "idle"
  /\ node = [d \in Devices |-> None]
  /\ todo = {}
  /\ cur = None
  /\ engine = None
  /\ row = [d \in Devices |-> None]
  /\ steady = {}
  /\ since = {}
  /\ edited = FALSE
  /\ blind = {}

-----------------------------------------------------------------------------
(* The enumeration.                                                        *)

\* MergeDeployConfigs: an entry of the overlay replaces the project's.
Merged(project, overlay, entries) ==
  [d \in Devices |-> IF Root[d] \in entries THEN overlay[d] ELSE project[d]]

\* Whatever the two declare at this moment; an overlay that is absent or cannot
\* be read has no entries.
Enumerate ==
  /\ pc = "idle"
  /\ pc' = "next"
  /\ \E project, overlay \in Tree, entries \in SUBSET {Root[d] : d \in Devices} :
       node' = Merged(project, overlay, entries)
  /\ todo' = {d \in Devices : node'[d] # None}
  /\ steady' = {p \in Places : cont[p] = "up"}
  /\ UNCHANGED <<host, cur, engine, row, since, edited, blind>>

\* The project cannot be resolved: no rows, an error.
EnumerateFails ==
  /\ pc = "idle"
  /\ pc' = "failed"
  /\ UNCHANGED <<host, node, todo, cur, engine, row, history>>

-----------------------------------------------------------------------------
(* One device: collectAndroidOne.                                          *)

Place == <<Host[cur], engine>>

\* Plausible bug: a device that cannot be resolved gets no row.
FinishSkips(d, status) ==
  /\ row' = [row EXCEPT ![d] = IF status = "absent" THEN None ELSE status]
  /\ todo' = todo \ {d}
  /\ pc' = "next"
  /\ cur' = None
  /\ engine' = None

\* Plausible bug: the device stays on the list.
FinishKeeps(d, status) ==
  /\ row' = [row EXCEPT ![d] = status]
  /\ todo' = todo
  /\ pc' = "next"
  /\ cur' = None
  /\ engine' = None

\* The row is final: the next device.
Finish(d, status) ==
  /\ row' = [row EXCEPT ![d] = status]
  /\ todo' = todo \ {d}
  /\ pc' = "next"
  /\ cur' = None
  /\ engine' = None

\* Devices whose row needs no look at a container.
StatusOfSpec(d) ==
  CASE node[d].spec = "literal" -> "declared"
    [] node[d].spec \in {"missing", "empty", "malformed"} -> "absent"
    [] node[d].spec = "hostport" /\ d \notin Nested -> "absent"
    [] OTHER -> None

FromSpec(d) ==
  /\ pc = "next" /\ d \in todo
  /\ StatusOfSpec(d) # None
  /\ Finish(d, StatusOfSpec(d))
  /\ UNCHANGED <<host, node, history>>

\* A nested device's engine is its node's; a box's own is looked up in
\* charly.yml as it is now.
EngineOf(d) ==
  IF d \in Nested THEN node[d].engine
  ELSE IF config[Host[d]] = None THEN RunEngine ELSE config[Host[d]]

Begin(d) ==
  /\ pc = "next" /\ d \in todo
  /\ StatusOfSpec(d) = None
  /\ cur' = d
  /\ engine' = EngineOf(d)
  /\ pc' = "running"
  /\ UNCHANGED <<host, node, todo, row, history>>

\* charly.yml cannot be read: the runtime's engine is asked.
BeginUnread(d) ==
  /\ pc = "next" /\ d \in todo \ Nested
  /\ StatusOfSpec(d) = None
  /\ cur' = d
  /\ engine' = RunEngine
  /\ pc' = "running"
  /\ blind' = blind \cup {d}
  /\ UNCHANGED <<host, node, todo, row, steady, since, edited>>

\* containerRunning, before the port is looked up: a container that does not
\* run leaves the device unresolved.
LookRunning ==
  /\ pc = "running"
  /\ IF Runs(Place)
     THEN pc' = "port" /\ UNCHANGED <<todo, cur, engine, row>>
     ELSE Finish(cur, "absent")
  /\ UNCHANGED <<host, node, history>>

\* What an inspection finds of the port; a stopped container's record may still
\* hold it.
PortFound ==
  CASE Condition(Place) = "up"   -> {TRUE}
    [] Condition(Place) = "down" -> BOOLEAN
    [] OTHER                     -> {FALSE}

\* Plausible bug: a device that was resolved is taken to be running.
LookPortOnly ==
  /\ pc = "port"
  /\ \E found \in PortFound :
       Finish(cur, IF ~found THEN "absent"
                   ELSE IF node[cur].spec = "box" THEN "running" ELSE "declared")
  /\ since' = {p \in Places : Runs(p)}
  /\ UNCHANGED <<host, node, steady, edited, blind>>

\* adbAddrForContainer, resolveAndroidHostPortRef: an endpoint is resolved now.
LookPort ==
  /\ pc = "port"
  /\ \E found \in PortFound :
       IF found /\ node[cur].spec = "box"
       THEN pc' = "again" /\ UNCHANGED <<todo, cur, engine, row>>
       ELSE Finish(cur, IF found THEN "declared" ELSE "absent")
  /\ since' = {p \in Places : Runs(p)}
  /\ UNCHANGED <<host, node, steady, edited, blind>>

\* Plausible bug: the last look asks the runtime's engine.
LookAgainDefault ==
  /\ pc = "again"
  /\ Finish(cur, IF Runs(<<Host[cur], RunEngine>>) THEN "running" ELSE "absent")
  /\ UNCHANGED <<host, node, history>>

\* The last look decides the row of a box device.
LookAgain ==
  /\ pc = "again"
  /\ Finish(cur, IF Runs(Place) THEN "running" ELSE "absent")
  /\ UNCHANGED <<host, node, history>>

\* Any of these commands fails: no device, or none that runs.
LookFails ==
  /\ pc \in {"running", "port", "again"}
  /\ Finish(cur, "absent")
  /\ blind' = blind \cup {cur}
  /\ UNCHANGED <<host, node, steady, since, edited>>

Reply ==
  /\ pc = "next" /\ todo = {}
  /\ pc' = "done"
  /\ UNCHANGED <<host, node, todo, cur, engine, row, history>>

Request ==
  \/ Enumerate \/ EnumerateFails \/ Reply
  \/ LookRunning \/ LookPort \/ LookAgain \/ LookFails
  \/ \E d \in Devices : FromSpec(d) \/ Begin(d) \/ BeginUnread(d)

-----------------------------------------------------------------------------
(* The rest of the host, while the request runs.                           *)

Moving == pc \notin {"idle", "done", "failed"} /\ moves < MaxMoves /\ moves' = moves + 1

\* A container is stopped, started, removed or created, with its port or not.
Move(p) ==
  /\ Moving
  /\ \E c \in Conditions \ {cont[p]} : cont' = [cont EXCEPT ![p] = c]
  /\ steady' = steady \ {p}
  /\ since' = IF cont'[p] \in {"bare", "up"} THEN since \cup {p} ELSE since
  /\ UNCHANGED <<config, node, pc, todo, cur, engine, row, edited, blind>>

\* A deploy or the user writes a box's engine to charly.yml.
Edit(b) ==
  /\ Moving
  /\ \E e \in Engines \cup {None} : config' = [config EXCEPT ![b] = e]
  /\ edited' = TRUE
  /\ UNCHANGED <<cont, node, pc, todo, cur, engine, row, steady, since, blind>>

Next == Request \/ (\E p \in Places : Move(p)) \/ (\E b \in Boxes : Edit(b))

Spec == Init /\ [][Next]_vars

-----------------------------------------------------------------------------
(* Properties.                                                             *)

\* Besides the types: a device in hand is one of the list, and has no row yet.
TypeOK ==
  /\ cont \in [Places -> Conditions]
  /\ config \in [Boxes -> Engines \cup {None}]
  /\ moves \in 0..MaxMoves
  /\ pc \in {"idle", "next", "running", "port", "again", "done", "failed"}
  /\ node \in Tree
  /\ todo \subseteq {d \in Devices : node[d] # None}
  /\ row \in [Devices -> {"absent", "declared", "running", None}]
  /\ IF pc \in {"running", "port", "again"}
     THEN cur \in todo /\ row[cur] = None /\ engine \in Engines
     ELSE cur = None /\ engine = None
  /\ steady \subseteq Places /\ since \subseteq Places
  /\ edited \in BOOLEAN
  /\ blind \subseteq Devices

\* A row that becomes "running" is of a container that ran when its adb port
\* was looked up or later, however it was recreated in between.
RunningSincePort ==
  [][\A d \in Devices :
       (row[d] # "running" /\ row'[d] = "running") => Place \in since]_vars

\* The reply has a row for each device of the merged tree, and no other: one
\* that cannot be resolved costs itself its status, never another its row.
RowPerDevice ==
  pc = "done" => \A d \in Devices : row[d] = None <=> node[d] = None

\* A box device whose container ran with its port published all along, on the
\* engine it is deployed on, is reported running: never absent.
SteadyIsRunning ==
  pc = "done" =>
    \A d \in Devices \ blind :
      (node[d] # None /\ node[d].spec = "box" /\ ~edited
         /\ <<Host[d], EngineOf(d)>> \in steady) => row[d] = "running"
=============================================================================
