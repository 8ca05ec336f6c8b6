------------------------- MODULE AndroidStatusProofs -------------------------
(***************************************************************************)
(* Proofs about AndroidStatus, for any devices, any containers and engines *)
(* and any number of moves of the host.                                    *)
(***************************************************************************)
EXTENDS AndroidStatus, TLAPS

Statuses == {"absent", "declared", "running"}
Looking  == {"running", "port", "again"}

\* A device of the merged tree is on the list or has its row.
Listed ==
  /\ pc = "idle" => \A d \in Devices : node[d] = None /\ row[d] = None
  /\ pc = "failed" => \A d \in Devices : row[d] = None
  /\ pc \notin {"idle", "failed"} =>
       \A d \in Devices : IF node[d] = None THEN row[d] = None
                          ELSE d \in todo <=> row[d] = None
  /\ pc = "done" => todo = {}

\* The engine a device's look should ask, if charly.yml stays as it is.
Served(d) == <<Host[d], EngineOf(d)>>

\* Its container has been up all along, and nothing hid that from it.
Steady(d) ==
  /\ node[d] # None /\ node[d].spec = "box" /\ d \notin blind
  /\ ~edited /\ Served(d) \in steady

\* A place that has been up all along is up; the device in hand asks the engine
\* charly.yml named when it began; what a steady device's looks found so far.
Held ==
  /\ \A p \in steady : p \in Places /\ cont[p] = "up"
  /\ (pc \in Looking /\ ~edited /\ cur \notin blind) => engine = EngineOf(cur)
  /\ pc \in Looking => node[cur].spec \in {"box", "hostport"}
  /\ pc = "again" => node[cur].spec = "box"
  /\ \A d \in Devices : (Steady(d) /\ row[d] # None) => row[d] = "running"

\* What runs now ran at the port's look, or since.
SinceOk == pc = "again" => \A p \in Places : Runs(p) => p \in since

IInv == TypeOK /\ Listed /\ Held /\ SinceOk

-----------------------------------------------------------------------------
(* Helpers.                                                                *)

\* A device's spec either settles its row or has a container looked at.
LEMMA SpecSettles ==
  ASSUME NEW d \in Devices, node[d] \in Node
  PROVE  /\ StatusOfSpec(d) \in {"absent", "declared", None}
         /\ StatusOfSpec(d) = None => node[d].spec \in {"box", "hostport"}
         /\ node[d].spec = "box" => StatusOfSpec(d) = None
<1>1. node[d].spec \in {"missing", "empty", "literal", "hostport", "malformed", "box"}
  BY DEF Node
<1>2. CASE node[d].spec = "literal"
  BY <1>2, AndroidAssumption DEF StatusOfSpec
<1>3. CASE node[d].spec \in {"missing", "empty", "malformed"}
  BY <1>3, AndroidAssumption DEF StatusOfSpec
<1>4. CASE node[d].spec = "hostport"
  BY <1>4, AndroidAssumption DEF StatusOfSpec
<1>5. CASE node[d].spec = "box"
  BY <1>5, AndroidAssumption DEF StatusOfSpec
<1> QED BY <1>1, <1>2, <1>3, <1>4, <1>5

\* The nodes of listed devices are nodes.
LEMMA NodeOf ==
  ASSUME TypeOK, NEW d \in Devices, node[d] # None
  PROVE  node[d] \in Node
BY AndroidAssumption DEF TypeOK, Tree

\* A device's engine is one of the two.
LEMMA EngineType ==
  ASSUME TypeOK, NEW d \in Devices, node[d] # None
  PROVE  EngineOf(d) \in Engines
<1>1. node[d].engine \in Engines
  BY NodeOf DEF Node
<1>2. CASE d \in Nested
  BY <1>1, <1>2 DEF EngineOf
<1>3. CASE d \notin Nested
  <2>1. Host[d] \in Boxes /\ config[Host[d]] \in Engines \cup {None}
    BY <1>3 DEF Boxes, TypeOK
  <2> QED BY <1>3, <2>1, AndroidAssumption DEF EngineOf
<1> QED BY <1>2, <1>3

\* Finishing a device gives it its row and no other one anything.
LEMMA FinishRow ==
  ASSUME TypeOK, NEW d \in Devices, NEW status \in Statuses, Finish(d, status)
  PROVE  /\ row' \in [Devices -> Statuses \cup {None}]
         /\ row'[d] = status
         /\ \A e \in Devices \ {d} : row'[e] = row[e]
         /\ todo' = todo \ {d} /\ pc' = "next" /\ cur' = None /\ engine' = None
BY DEF TypeOK, Statuses, Finish

\* The looks at one device: what each does to the request.
Looks == LookRunning \/ LookPort \/ LookAgain \/ LookFails

\* A look finishes the device in hand or goes on to the next.
LEMMA LookStep ==
  ASSUME TypeOK, Looks
  PROVE  /\ UNCHANGED <<host, node, steady, edited>>
         /\ pc \in Looking /\ cur \in Devices
         /\ \/ \E status \in Statuses : Finish(cur, status)
            \/ /\ UNCHANGED <<todo, cur, engine, row, blind>>
               /\ pc' \in {"port", "again"}
               /\ pc' = "again" => node[cur].spec = "box"
         /\ since' \subseteq Places
         /\ blind' \in {blind, blind \cup {cur}}
<1>1. pc \in Looking
  BY DEF Looks, LookRunning, LookPort, LookAgain, LookFails, Looking
<1>2. cur \in Devices
  BY <1>1 DEF TypeOK, Looking
<1>3. CASE LookRunning
  BY <1>1, <1>2, <1>3 DEF LookRunning, history, TypeOK, Statuses
<1>4. CASE LookPort
  <2>1. PICK found \in PortFound :
          IF found /\ node[cur].spec = "box"
          THEN pc' = "again" /\ UNCHANGED <<todo, cur, engine, row>>
          ELSE Finish(cur, IF found THEN "declared" ELSE "absent")
    BY <1>4 DEF LookPort
  <2>2. since' = {p \in Places : Runs(p)} /\ UNCHANGED <<host, node, steady, edited, blind>>
    BY <1>4 DEF LookPort
  <2>3. CASE found /\ node[cur].spec = "box"
    BY <1>1, <1>2, <2>1, <2>2, <2>3
  <2>4. CASE ~(found /\ node[cur].spec = "box")
    <3>1. Finish(cur, IF found THEN "declared" ELSE "absent")
      BY <2>1, <2>4
    <3>2. (IF found THEN "declared" ELSE "absent") \in Statuses
      BY DEF Statuses
    <3>3. \E status \in Statuses : Finish(cur, status)
      BY <3>1, <3>2
    <3> QED BY <1>1, <1>2, <2>2, <3>3
  <2> QED BY <2>3, <2>4
<1>5. CASE LookAgain
  <2>1. Finish(cur, IF Runs(Place) THEN "running" ELSE "absent") /\ UNCHANGED <<host, node, history>>
    BY <1>5 DEF LookAgain
  <2>2. (IF Runs(Place) THEN "running" ELSE "absent") \in Statuses
    BY DEF Statuses
  <2>3. \E status \in Statuses : Finish(cur, status)
    BY <2>1, <2>2
  <2> QED BY <1>1, <1>2, <2>1, <2>3 DEF history, TypeOK
<1>6. CASE LookFails
  <2>1. "absent" \in Statuses
    BY DEF Statuses
  <2> QED BY <1>1, <1>2, <1>6, <2>1 DEF LookFails, TypeOK
<1> QED BY <1>3, <1>4, <1>5, <1>6 DEF Looks

-----------------------------------------------------------------------------
(* Types, and the list of devices.                                         *)

LEMMA InitIInv == Init => IInv
<1> SUFFICES ASSUME Init PROVE IInv
  OBVIOUS
<1>1. TypeOK
  <2>1. node \in Tree
    BY DEF Init, Tree
  <2>2. row \in [Devices -> {"absent", "declared", "running", None}]
    BY DEF Init
  <2>3. moves \in 0..MaxMoves
    BY AndroidAssumption DEF Init
  <2>4. pc = "idle" /\ todo = {} /\ cur = None /\ engine = None
        /\ steady = {} /\ since = {} /\ edited = FALSE /\ blind = {}
    BY DEF Init
  <2>5. cont \in [Places -> Conditions] /\ config \in [Boxes -> Engines \cup {None}]
    BY DEF Init
  <2> QED BY <2>1, <2>2, <2>3, <2>4, <2>5 DEF TypeOK
<1>2. Listed /\ SinceOk
  BY DEF Init, Listed, SinceOk
<1>3. Held
  BY DEF Init, Held, Looking, Steady
<1> QED BY <1>1, <1>2, <1>3 DEF IInv

LEMMA MergedTree ==
  ASSUME NEW project \in Tree, NEW overlay \in Tree, NEW entries
  PROVE  Merged(project, overlay, entries) \in Tree
BY DEF Merged, Tree

\* Finishing keeps the types and the list.
LEMMA FinishTypes ==
  ASSUME TypeOK, Listed, NEW d \in todo, pc \in {"next"} \cup Looking,
         NEW status \in Statuses, Finish(d, status),
         UNCHANGED <<host, node, steady, edited>>,
         since' \subseteq Places, blind' \subseteq Devices
  PROVE  TypeOK' /\ Listed'
<1>1. d \in Devices /\ node[d] # None
  BY DEF TypeOK
<1>2. /\ row' \in [Devices -> Statuses \cup {None}]
      /\ row'[d] = status /\ status # None
      /\ \A e \in Devices \ {d} : row'[e] = row[e]
      /\ todo' = todo \ {d} /\ pc' = "next" /\ cur' = None /\ engine' = None
  BY <1>1, FinishRow, AndroidAssumption DEF Statuses
<1>3. TypeOK'
  BY <1>2 DEF TypeOK, host, Statuses
<1>4. pc \notin {"idle", "failed"}
  BY DEF Looking
<1>5. Listed'
  BY <1>1, <1>2, <1>4 DEF Listed
<1> QED BY <1>3, <1>5

LEMMA NextListed == TypeOK /\ Listed /\ [Next]_vars => TypeOK' /\ Listed'
<1> SUFFICES ASSUME TypeOK, Listed, [Next]_vars PROVE TypeOK' /\ Listed'
  OBVIOUS
<1>1. CASE Enumerate
  <2>1. /\ pc = "idle" /\ pc' = "next" /\ node' \in Tree
        /\ todo' = {d \in Devices : node'[d] # None}
        /\ steady' = {p \in Places : cont[p] = "up"}
        /\ UNCHANGED <<host, cur, engine, row, since, edited, blind>>
    BY <1>1, MergedTree DEF Enumerate
  <2>2. TypeOK'
    BY <2>1 DEF TypeOK, host
  <2>3. Listed'
    BY <2>1 DEF Listed
  <2> QED BY <2>2, <2>3
<1>2. CASE EnumerateFails
  <2>1. TypeOK'
    BY <1>2 DEF EnumerateFails, TypeOK, host, history
  <2>2. Listed'
    BY <1>2 DEF EnumerateFails, Listed
  <2> QED BY <2>1, <2>2
<1>3. CASE Reply
  <2>1. TypeOK'
    BY <1>3 DEF Reply, TypeOK, host, history
  <2>2. Listed'
    BY <1>3 DEF Reply, Listed
  <2> QED BY <2>1, <2>2
<1>4. CASE Looks
  <2>1. /\ UNCHANGED <<host, node, steady, edited>>
        /\ pc \in Looking /\ cur \in Devices
        /\ \/ \E status \in Statuses : Finish(cur, status)
           \/ UNCHANGED <<todo, cur, engine, row>> /\ pc' \in {"port", "again"}
        /\ since' \subseteq Places
        /\ blind' \in {blind, blind \cup {cur}}
    BY <1>4, LookStep
  <2>2. cur \in todo /\ blind' \subseteq Devices
    BY <2>1 DEF TypeOK, Looking
  <2>3. CASE \E status \in Statuses : Finish(cur, status)
    BY <2>1, <2>2, <2>3, FinishTypes
  <2>4. CASE UNCHANGED <<todo, cur, engine, row>> /\ pc' \in {"port", "again"}
    <3>1. TypeOK'
      BY <2>1, <2>2, <2>4 DEF TypeOK, host, Looking
    <3>2. Listed'
      BY <2>1, <2>4 DEF Listed, Looking
    <3> QED BY <3>1, <3>2
  <2> QED BY <2>1, <2>3, <2>4
<1>5. ASSUME NEW d \in Devices, FromSpec(d) PROVE TypeOK' /\ Listed'
  <2>1. /\ pc = "next" /\ d \in todo /\ StatusOfSpec(d) # None
        /\ Finish(d, StatusOfSpec(d)) /\ UNCHANGED <<host, node, steady, since, edited, blind>>
    BY <1>5 DEF FromSpec, history
  <2>2. StatusOfSpec(d) \in Statuses
    BY <2>1, NodeOf, SpecSettles DEF Statuses, TypeOK
  <2> QED BY <2>1, <2>2, FinishTypes DEF TypeOK
<1>6. ASSUME NEW d \in Devices, Begin(d) \/ BeginUnread(d) PROVE TypeOK' /\ Listed'
  <2>1. /\ pc = "next" /\ pc' = "running" /\ d \in todo /\ cur' = d
        /\ engine' \in {EngineOf(d), RunEngine}
        /\ UNCHANGED <<host, node, todo, row, steady, since, edited>>
        /\ blind' \in {blind, blind \cup {d}}
    BY <1>6 DEF Begin, BeginUnread, history
  <2>2. node[d] # None /\ row[d] = None
    BY <2>1 DEF TypeOK, Listed
  <2>3. engine' \in Engines
    BY <2>1, <2>2, EngineType, AndroidAssumption
  <2>4. TypeOK'
    BY <2>1, <2>2, <2>3 DEF TypeOK, host
  <2>5. Listed'
    BY <2>1 DEF Listed
  <2> QED BY <2>4, <2>5
<1>7. ASSUME NEW p \in Places, Move(p) PROVE TypeOK' /\ Listed'
  <2>1. /\ cont' \in [Places -> Conditions]
        /\ moves' \in 0..MaxMoves
        /\ steady' \subseteq Places /\ since' \subseteq Places
        /\ UNCHANGED <<config, node, pc, todo, cur, engine, row, edited, blind>>
    <3>1. moves' \in 0..MaxMoves
      BY <1>7, AndroidAssumption DEF Move, Moving, TypeOK
    <3>2. cont' \in [Places -> Conditions]
      BY <1>7 DEF Move, TypeOK
    <3> QED BY <1>7, <3>1, <3>2 DEF Move, TypeOK
  <2>2. TypeOK'
    BY <2>1 DEF TypeOK
  <2>3. Listed'
    BY <2>1 DEF Listed
  <2> QED BY <2>2, <2>3
<1>8. ASSUME NEW b \in Boxes, Edit(b) PROVE TypeOK' /\ Listed'
  <2>1. /\ config' \in [Boxes -> Engines \cup {None}]
        /\ moves' \in 0..MaxMoves /\ edited' = TRUE
        /\ UNCHANGED <<cont, node, pc, todo, cur, engine, row, steady, since, blind>>
    <3>1. moves' \in 0..MaxMoves
      BY <1>8, AndroidAssumption DEF Edit, Moving, TypeOK
    <3>2. config' \in [Boxes -> Engines \cup {None}]
      BY <1>8 DEF Edit, TypeOK
    <3> QED BY <1>8, <3>1, <3>2 DEF Edit
  <2>2. TypeOK'
    BY <2>1 DEF TypeOK
  <2>3. Listed'
    BY <2>1 DEF Listed
  <2> QED BY <2>2, <2>3
<1>9. CASE UNCHANGED vars
  <2>1. TypeOK'
    BY <1>9 DEF vars, TypeOK, host, history
  <2>2. Listed'
    BY <1>9 DEF vars, Listed, host, history
  <2> QED BY <2>1, <2>2
<1> QED BY <1>1, <1>2, <1>3, <1>4, <1>5, <1>6, <1>7, <1>8, <1>9 DEF Next, Request, Looks

-----------------------------------------------------------------------------
(* What has been up, and what ran since the port's look.                   *)

\* A place where something runs is one of the places.
LEMMA RunsPlace == \A p : Runs(p) => p \in Places
BY DEF Runs, Condition

\* The container of a steady device in hand runs with its port published.
LEMMA SteadyUp ==
  ASSUME TypeOK, Held, pc \in Looking, Steady(cur)
  PROVE  /\ Place = Served(cur) /\ Condition(Place) = "up" /\ Runs(Place)
         /\ PortFound = {TRUE} /\ node[cur].spec = "box"
<1>1. engine = EngineOf(cur) /\ node[cur].spec = "box" /\ Served(cur) \in steady
  BY DEF Held, Steady
<1>2. Place = Served(cur)
  BY <1>1 DEF Place, Served
<1>3. Place \in Places /\ cont[Place] = "up"
  BY <1>1, <1>2 DEF Held, Looking
<1>4. Condition(Place) = "up"
  BY <1>3 DEF Condition
<1> QED BY <1>1, <1>2, <1>4 DEF Runs, PortFound

\* So no look ends it but the last, with a running row.
LEMMA SteadyFinish ==
  ASSUME TypeOK, Held, Looks, Steady(cur), NEW status \in Statuses,
         Finish(cur, status), cur \notin blind'
  PROVE  status = "running"
<1>1. pc \in Looking /\ cur \in Devices
  BY LookStep
<1>2. /\ Runs(Place) /\ PortFound = {TRUE} /\ node[cur].spec = "box"
  BY <1>1, SteadyUp
<1>3. row'[cur] = status /\ pc' = "next"
  BY <1>1, FinishRow
<1>4. ~LookRunning
  BY <1>2, <1>3 DEF LookRunning
<1>5. ~LookPort
  BY <1>2, <1>3 DEF LookPort
<1>6. ~LookFails
  BY DEF LookFails
<1>7. LookAgain
  BY <1>4, <1>5, <1>6 DEF Looks
<1>8. Finish(cur, "running")
  BY <1>2, <1>7 DEF LookAgain
<1>9. row'[cur] = "running"
  BY <1>1, <1>8, FinishRow DEF Statuses
<1> QED BY <1>3, <1>9

\* While nothing of it changes, a device is steady only if it was.
LEMMA SteadyBefore ==
  ASSUME UNCHANGED <<config, node, edited>>, steady' \subseteq steady, blind \subseteq blind',
         NEW d \in Devices, Steady(d)'
  PROVE  Steady(d)
BY DEF Steady, Served, EngineOf

\* Finishing a device that is not steady, or with a running row.
LEMMA FinishHeld ==
  ASSUME TypeOK, Held, UNCHANGED <<host, node, steady, edited>>, blind \subseteq blind',
         NEW d \in Devices, NEW status \in Statuses, Finish(d, status),
         Steady(d) /\ d \notin blind' => status = "running"
  PROVE  Held'
<1>1. /\ row'[d] = status /\ \A e \in Devices \ {d} : row'[e] = row[e]
      /\ pc' = "next"
  BY FinishRow
<1>2. UNCHANGED <<config, node, edited>> /\ cont' = cont /\ steady' = steady
  BY DEF host
<1>3. ASSUME NEW e \in Devices, Steady(e)', row'[e] # None PROVE row'[e] = "running"
  <2>1. Steady(e) /\ e \notin blind'
    <3>1. Steady(e)
      BY <1>2, <1>3, SteadyBefore
    <3> QED BY <1>3, <3>1 DEF Steady
  <2> QED BY <1>1, <1>3, <2>1 DEF Held
<1> QED BY <1>1, <1>2, <1>3 DEF Held, Looking

LEMMA NextHeld == IInv /\ [Next]_vars => Held'
<1> SUFFICES ASSUME TypeOK, Listed, Held, SinceOk, [Next]_vars PROVE Held'
  BY DEF IInv
<1>1. CASE Enumerate
  <2>1. /\ pc = "idle" /\ pc' = "next"
        /\ steady' = {p \in Places : cont[p] = "up"}
        /\ UNCHANGED <<host, row>>
    BY <1>1 DEF Enumerate
  <2>2. \A d \in Devices : row'[d] = None
    BY <2>1 DEF Listed
  <2> QED BY <2>1, <2>2 DEF Held, host, Looking
<1>2. CASE EnumerateFails
  <2>1. pc' = "failed" /\ pc = "idle" /\ row' = row /\ steady' = steady /\ cont' = cont
    BY <1>2 DEF EnumerateFails, host, history
  <2>2. \A d \in Devices : row'[d] = None
    BY <2>1 DEF Listed
  <2> QED BY <2>1, <2>2 DEF Held, Looking
<1>3. CASE Reply
  <2>1. /\ pc' = "done" /\ row' = row /\ steady' = steady /\ cont' = cont
        /\ UNCHANGED <<config, node, edited, blind>>
    BY <1>3 DEF Reply, host, history
  <2>2. \A d \in Devices : Steady(d)' => Steady(d)
    BY <2>1, SteadyBefore
  <2> QED BY <2>1, <2>2 DEF Held, Looking
<1>4. CASE Looks
  <2>1. /\ UNCHANGED <<host, node, steady, edited>>
        /\ pc \in Looking /\ cur \in Devices
        /\ blind \subseteq blind'
    BY <1>4, LookStep
  <2>2. CASE \E status \in Statuses : Finish(cur, status)
    <3>1. PICK status \in Statuses : Finish(cur, status)
      BY <2>2
    <3> QED BY <1>4, <2>1, <3>1, SteadyFinish, FinishHeld
  <2>3. CASE /\ UNCHANGED <<todo, cur, engine, row, blind>>
             /\ pc' \in {"port", "again"}
             /\ pc' = "again" => node[cur].spec = "box"
    <3>1. config' = config /\ cont' = cont /\ node' = node
      BY <2>1 DEF host
    <3>2. \A d \in Devices : Steady(d)' => Steady(d)
      BY <2>1, <2>3, <3>1, SteadyBefore
    <3>3. (engine = EngineOf(cur))' <=> engine = EngineOf(cur)
      BY <2>3, <3>1 DEF EngineOf
    <3> QED BY <2>1, <2>3, <3>1, <3>2, <3>3 DEF Held, Looking
  <2> QED BY <1>4, <2>2, <2>3, LookStep
<1>5. ASSUME NEW d \in Devices, FromSpec(d) PROVE Held'
  <2>1. /\ d \in todo /\ StatusOfSpec(d) # None
        /\ Finish(d, StatusOfSpec(d)) /\ UNCHANGED <<host, node, steady, edited, blind>>
    BY <1>5 DEF FromSpec, history
  <2>2. node[d] \in Node
    BY <2>1, NodeOf DEF TypeOK
  <2>3. StatusOfSpec(d) \in Statuses /\ ~Steady(d)
    BY <2>1, <2>2, SpecSettles DEF Statuses, Steady
  <2> QED BY <2>1, <2>3, FinishHeld
<1>6. ASSUME NEW d \in Devices, Begin(d) \/ BeginUnread(d) PROVE Held'
  <2>1. /\ pc' = "running" /\ d \in todo /\ cur' = d /\ StatusOfSpec(d) = None
        /\ engine' = EngineOf(d) \/ d \in blind'
        /\ row' = row /\ steady' = steady /\ cont' = cont
        /\ UNCHANGED <<config, node, edited>>
        /\ blind \subseteq blind'
    BY <1>6 DEF Begin, BeginUnread, history, host
  <2>2. node[d].spec \in {"box", "hostport"}
    <3>1. node[d] \in Node
      BY <2>1, NodeOf DEF TypeOK
    <3> QED BY <2>1, <3>1, SpecSettles
  <2>3. EngineOf(d)' = EngineOf(d)
    BY <2>1 DEF EngineOf
  <2>4. \A e \in Devices : Steady(e)' => Steady(e)
    BY <2>1, SteadyBefore
  <2>5. (edited \/ cur \in blind)' \/ (engine = EngineOf(cur))'
    BY <2>1, <2>3 DEF EngineOf
  <2> QED BY <2>1, <2>2, <2>4, <2>5 DEF Held
<1>7. ASSUME NEW p \in Places, Move(p) PROVE Held'
  <2>1. /\ steady' = steady \ {p}
        /\ \A q \in Places \ {p} : cont'[q] = cont[q]
        /\ UNCHANGED <<config, node, pc, cur, engine, row, edited, blind>>
    BY <1>7 DEF Move, TypeOK
  <2>2. \A d \in Devices : Steady(d)' => Steady(d)
    BY <2>1, SteadyBefore
  <2>3. EngineOf(cur)' = EngineOf(cur)
    BY <2>1 DEF EngineOf
  <2> QED BY <2>1, <2>2, <2>3 DEF Held
<1>8. ASSUME NEW b \in Boxes, Edit(b) PROVE Held'
  <2>1. edited' = TRUE /\ UNCHANGED <<cont, node, pc, cur, steady>>
    BY <1>8 DEF Edit
  <2> QED BY <2>1 DEF Held, Steady
<1>9. CASE UNCHANGED vars
  <2>1. UNCHANGED <<cont, config, node, pc, cur, engine, row, edited, blind, steady>>
    BY <1>9 DEF vars, host, history
  <2>2. \A d \in Devices : Steady(d)' => Steady(d)
    BY <2>1, SteadyBefore
  <2>3. EngineOf(cur)' = EngineOf(cur)
    BY <2>1 DEF EngineOf
  <2> QED BY <2>1, <2>2, <2>3 DEF Held
<1> QED BY <1>1, <1>2, <1>3, <1>4, <1>5, <1>6, <1>7, <1>8, <1>9 DEF Next, Request, Looks

\* What runs was there at the port's look, or started since.
LEMMA NextSince == IInv /\ [Next]_vars => SinceOk'
<1> SUFFICES ASSUME TypeOK, SinceOk, [Next]_vars, pc' = "again",
                    NEW p \in Places, Runs(p)'
             PROVE  p \in since'
  BY DEF IInv, SinceOk, TypeOK
<1>1. CASE LookPort
  <2>1. since' = {q \in Places : Runs(q)} /\ cont' = cont
    BY <1>1 DEF LookPort, host
  <2> QED BY <2>1 DEF Runs, Condition
<1>2. ASSUME NEW q \in Places, Move(q) PROVE p \in since'
  <2>1. /\ pc = "again" /\ \A r \in Places \ {q} : cont'[r] = cont[r]
        /\ since' = IF cont'[q] \in {"bare", "up"} THEN since \cup {q} ELSE since
    BY <1>2 DEF Move, TypeOK
  <2>2. cont'[p] \in {"bare", "up"}
    BY DEF Runs, Condition
  <2>3. CASE p = q
    BY <2>1, <2>2, <2>3
  <2>4. CASE p # q
    BY <2>1, <2>2, <2>4 DEF SinceOk, Runs, Condition
  <2> QED BY <2>3, <2>4
<1>3. CASE UNCHANGED <<cont, pc, since>>
  BY <1>3 DEF SinceOk, Runs, Condition
<1>4. ASSUME NEW b \in Boxes, Edit(b) PROVE UNCHANGED <<cont, pc, since>>
  BY <1>4 DEF Edit
<1>5. ~Enumerate /\ ~EnumerateFails /\ ~Reply
  BY DEF Enumerate, EnumerateFails, Reply
<1>6. ~LookRunning /\ ~LookAgain /\ ~LookFails
  BY DEF LookRunning, LookAgain, LookFails, Finish
<1>7. \A d \in Devices : ~FromSpec(d) /\ ~Begin(d) /\ ~BeginUnread(d)
  BY DEF FromSpec, Begin, BeginUnread, Finish
<1>8. UNCHANGED vars => UNCHANGED <<cont, pc, since>>
  BY DEF vars, host, history
<1> QED BY <1>1, <1>2, <1>3, <1>4, <1>5, <1>6, <1>7, <1>8 DEF Next, Request

-----------------------------------------------------------------------------
(* The theorems.                                                           *)

\* The strengthened invariant holds in every behaviour.
THEOREM Invariant == Spec => []IInv
<1>1. IInv /\ [Next]_vars => IInv'
  BY NextListed, NextHeld, NextSince DEF IInv
<1> QED BY InitIInv, <1>1, PTL DEF Spec

\* Type correctness, and the device in hand has no row, for any devices.
THEOREM TypeCorrect == Spec => []TypeOK
<1>1. IInv => TypeOK
  BY DEF IInv
<1> QED BY Invariant, <1>1, PTL

\* Whichever looks fail, the reply has a row for each declared device.
THEOREM EveryDevice == Spec => []RowPerDevice
<1>1. IInv => RowPerDevice
  <2> SUFFICES ASSUME IInv, pc = "done", NEW d \in Devices
               PROVE  row[d] = None <=> node[d] = None
    BY DEF RowPerDevice
  <2> QED BY DEF IInv, Listed
<1> QED BY Invariant, <1>1, PTL

\* A container that is up all along is never reported absent, whatever other
\* containers do and in whatever order the devices are looked at.
THEOREM SteadyRuns == Spec => []SteadyIsRunning
<1>1. IInv => SteadyIsRunning
  <2> SUFFICES ASSUME IInv, pc = "done", NEW d \in Devices \ blind,
                      node[d] # None, node[d].spec = "box", ~edited,
                      <<Host[d], EngineOf(d)>> \in steady
               PROVE  row[d] = "running"
    BY DEF SteadyIsRunning
  <2>1. Steady(d)
    BY DEF Steady, Served
  <2>2. row[d] # None
    BY DEF IInv, Listed
  <2> QED BY <2>1, <2>2 DEF IInv, Held
<1> QED BY Invariant, <1>1, PTL

\* What a step that makes a row running has seen.
RunningSince ==
  \A d \in Devices : (row[d] # "running" /\ row'[d] = "running") => Place \in since

LEMMA NextRunning == IInv /\ [Next]_vars => RunningSince
<1> SUFFICES ASSUME IInv, [Next]_vars, NEW d \in Devices,
                    row[d] # "running", row'[d] = "running"
             PROVE  Place \in since
  BY DEF RunningSince
<1>1. TypeOK
  BY DEF IInv
<1>2. CASE LookAgain
  <2>1. pc = "again" /\ cur \in Devices
    BY <1>1, <1>2 DEF LookAgain, TypeOK
  <2>2. Finish(cur, IF Runs(Place) THEN "running" ELSE "absent")
    BY <1>2 DEF LookAgain
  <2>3. row' = [row EXCEPT ![cur] = IF Runs(Place) THEN "running" ELSE "absent"]
    BY <2>2 DEF Finish
  <2>4. Runs(Place)
    BY <1>1, <2>1, <2>3 DEF TypeOK
  <2> QED BY <2>1, <2>4, RunsPlace DEF IInv, SinceOk
<1>3. ~LookRunning
  BY <1>1 DEF LookRunning, Finish, TypeOK
<1>4. ~LookFails
  BY <1>1 DEF LookFails, Finish, TypeOK
<1>5. ~LookPort
  <2> SUFFICES ASSUME LookPort PROVE FALSE
    OBVIOUS
  <2>1. PICK found \in PortFound :
          IF found /\ node[cur].spec = "box"
          THEN pc' = "again" /\ UNCHANGED <<todo, cur, engine, row>>
          ELSE Finish(cur, IF found THEN "declared" ELSE "absent")
    BY DEF LookPort
  <2>2. row' = row \/ row' = [row EXCEPT ![cur] = IF found THEN "declared" ELSE "absent"]
    BY <2>1 DEF Finish
  <2> QED BY <1>1, <2>2 DEF TypeOK
<1>6. \A e \in Devices : ~FromSpec(e)
  <2> SUFFICES ASSUME NEW e \in Devices, FromSpec(e) PROVE FALSE
    OBVIOUS
  <2>1. e \in todo /\ row' = [row EXCEPT ![e] = StatusOfSpec(e)]
    BY DEF FromSpec, Finish
  <2>2. StatusOfSpec(e) \in {"absent", "declared", None}
    BY <1>1, <2>1, NodeOf, SpecSettles DEF TypeOK
  <2>3. StatusOfSpec(e) # "running"
    BY <2>2, AndroidAssumption
  <2> QED BY <1>1, <2>1, <2>3 DEF TypeOK
<1>7. row' # row
  OBVIOUS
<1> QED BY <1>2, <1>3, <1>4, <1>5, <1>6, <1>7
     DEF Next, Request, Enumerate, EnumerateFails, Reply, Begin, BeginUnread, Move, Edit, vars

\* No row becomes running on the word of a look older than the port's.
THEOREM RunningIsRecent == Spec => RunningSincePort
<1>1. IInv /\ [Next]_vars => [RunningSince]_vars
  BY NextRunning
<1>2. Spec => [][RunningSince]_vars
  BY Invariant, <1>1, PTL DEF Spec
<1> QED BY <1>2 DEF RunningSincePort, RunningSince
=============================================================================
