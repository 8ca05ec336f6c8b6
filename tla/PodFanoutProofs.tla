--------------------------- MODULE PodFanoutProofs ---------------------------
(***************************************************************************)
(* Proofs about PodFanout, for any finite set of containers, any set of    *)
(* host probes and any pool size.                                          *)
(***************************************************************************)
EXTENDS PodFanout, FiniteSetTheorems, TLAPS

\* The semaphore and the wait group count the goroutines they stand for.
CountersExact ==
  /\ sem = Cardinality(Holding)
  /\ wg = Cardinality(InFlight)

\* What the control point of the handler says of the goroutines.
LoopConsistent ==
  /\ mpc \in {"list", "failed"} => snaps = {}
  /\ \A s \in Snapshot : s \notin snaps => pc[s] = "idle"
  /\ \A s \in Snapshot : pc[s] = "added" => mpc = "acquire"
  /\ \A s, t \in Snapshot : pc[s] = "added" /\ pc[t] = "added" => s = t
  /\ mpc \in {"wait", "replied"} => \A s \in snaps : pc[s] # "idle"
  /\ mpc = "replied" => InFlight = {}

\* What the control point of a goroutine says of its probes and its row.
RowsConsistent ==
  \A s \in Snapshot :
    /\ pc[s] = "probing" =>
         /\ s.state = "running"
         /\ \A p \in Probes : probe[s][p] # "idle"
    /\ (\E p \in Probes : probe[s][p] = "running") => pc[s] = "probing"
    /\ pc[s] \in {"wrote", "released", "done"} => RowFinal(s)

IInv ==
  /\ TypeOK
  /\ CountersExact
  /\ PoolBound
  /\ LoopConsistent
  /\ RowsConsistent

-----------------------------------------------------------------------------
(* The counters count a finite set.                                        *)

LEMMA OneStateFinite ==
  ASSUME NEW st
  PROVE  IsFiniteSet({[name |-> n, state |-> st] : n \in Names})
<1> DEFINE T == {[name |-> n, state |-> st] : n \in Names}
           f == [n \in Names |-> [name |-> n, state |-> st]]
<1>1. f \in Surjection(Names, T)
  BY DEF Surjection
<1> QED
  BY <1>1, FS_Surjection, FanoutAssumption DEF FanoutAssumption

LEMMA SnapshotFinite == IsFiniteSet(Snapshot)
<1> DEFINE T(st) == {[name |-> n, state |-> st] : n \in Names}
<1>1. Snapshot = (T("running") \cup T("exited")) \cup T("enabled")
  <2>1. ASSUME NEW s \in Snapshot
        PROVE  s \in (T("running") \cup T("exited")) \cup T("enabled")
    <3>1. s = [name |-> s.name, state |-> s.state] /\ s.name \in Names
      BY DEF Snapshot
    <3>2. s.state \in {"running", "exited", "enabled"}
      BY DEF Snapshot
    <3> QED
      BY <3>1, <3>2
  <2>2. ASSUME NEW st \in {"running", "exited", "enabled"}
        PROVE  T(st) \subseteq Snapshot
    BY DEF Snapshot
  <2>3. (T("running") \cup T("exited")) \cup T("enabled") \subseteq Snapshot
    BY <2>2
  <2> QED
    BY <2>1, <2>3
<1>2. /\ IsFiniteSet(T("running"))
      /\ IsFiniteSet(T("exited"))
      /\ IsFiniteSet(T("enabled"))
  BY OneStateFinite
<1>3. IsFiniteSet(T("running") \cup T("exited"))
  BY <1>2, FS_Union
<1>4. IsFiniteSet((T("running") \cup T("exited")) \cup T("enabled"))
  BY <1>2, <1>3, FS_Union
<1> QED
  BY <1>1, <1>4

LEMMA SubsetsFinite ==
  /\ IsFiniteSet(Holding) /\ IsFiniteSet(InFlight)
  /\ IsFiniteSet(Holding') /\ IsFiniteSet(InFlight')
  /\ Cardinality(Holding) \in Nat /\ Cardinality(InFlight) \in Nat
  /\ Cardinality(Holding') \in Nat /\ Cardinality(InFlight') \in Nat
<1>1. /\ Holding \in SUBSET Snapshot /\ InFlight \in SUBSET Snapshot
      /\ Holding' \in SUBSET Snapshot /\ InFlight' \in SUBSET Snapshot
  BY DEF Holding, InFlight
<1>2. /\ IsFiniteSet(Holding) /\ IsFiniteSet(InFlight)
      /\ IsFiniteSet(Holding') /\ IsFiniteSet(InFlight')
  BY <1>1, SnapshotFinite, FS_Subset
<1> QED
  BY <1>2, FS_CardinalityType

\* A pool has at least one slot.
LEMMA PoolSizePositive ==
  ASSUME NEW n \in Nat
  PROVE  PoolSize(n) \in Nat /\ PoolSize(n) >= 1
BY FanoutAssumption DEF PoolSize, FanoutAssumption

LEMMA ListedIsSnapshots ==
  ASSUME NEW r, NEW E \in SUBSET Snapshot, NEW U \in SUBSET Charly
  PROVE  Listed(r, E, U) \in SUBSET Snapshot
BY FanoutAssumption
DEF Listed, Filtered, EnabledQuadlets, Snapshot, FanoutAssumption

-----------------------------------------------------------------------------
(* The inductive invariant.                                                *)

LEMMA InitIInv == Init => IInv
<1> SUFFICES ASSUME Init PROVE IInv
  OBVIOUS
<1>1. TypeOK
  BY FanoutAssumption
  DEF Init, TypeOK, EngineListings, Snapshot, Unwritten, FanoutAssumption
<1>2. Holding = {} /\ InFlight = {}
  BY DEF Init, Holding, InFlight
<1>3. CountersExact
  BY <1>2, FS_EmptySet DEF Init, CountersExact
<1>4. PoolBound
  <2>1. Cardinality(snaps) \in Nat
    BY FS_EmptySet DEF Init
  <2> QED
    BY <1>2, <2>1, FS_EmptySet, PoolSizePositive DEF PoolBound
<1>5. LoopConsistent
  BY DEF Init, LoopConsistent
<1>6. RowsConsistent
  BY DEF Init, RowsConsistent
<1> QED
  BY <1>1, <1>3, <1>4, <1>5, <1>6 DEF IInv

\* The handler's own steps: the listing, the dispatch loop, the reply.
LEMMA ListIInv == IInv /\ (List \/ ListFails) => IInv'
<1> SUFFICES ASSUME IInv, List \/ ListFails PROVE IInv'
  OBVIOUS
<1> USE DEF IInv
<1>1. /\ snaps' \in SUBSET Snapshot
      /\ mpc' \in {"range", "failed"}
      /\ UNCHANGED <<world, pc, probe, row, sem, wg>>
  BY ListedIsSnapshots DEF List, ListFails, TypeOK
<1>2. TypeOK'
  BY <1>1 DEF TypeOK, world
<1>3. \A s \in Snapshot : pc[s] = "idle"
  BY DEF LoopConsistent, List, ListFails
<1>4. Holding = {} /\ InFlight = {} /\ Holding' = {} /\ InFlight' = {}
  BY <1>1, <1>3 DEF Holding, InFlight
<1>5. CountersExact'
  BY <1>1, <1>4 DEF CountersExact
<1>6. PoolBound'
  <2>1. Cardinality(snaps') \in Nat
    BY <1>1, SnapshotFinite, FS_Subset, FS_CardinalityType
  <2> QED
    BY <1>4, <2>1, FS_EmptySet, PoolSizePositive DEF PoolBound
<1>7. LoopConsistent'
  BY <1>1, <1>3, <1>4 DEF LoopConsistent, List, ListFails
<1>8. RowsConsistent'
  BY <1>1, <1>3 DEF RowsConsistent, RowFinal
<1> QED
  BY <1>2, <1>5, <1>6, <1>7, <1>8

LEMMA AddIInv ==
  ASSUME NEW s \in Snapshot, IInv, Add(s)
  PROVE  IInv'
<1> USE DEF IInv
<1>1. TypeOK'
  BY DEF Add, TypeOK, world
<1>2. Holding' = Holding /\ InFlight' = InFlight \cup {s} /\ s \notin InFlight
  BY DEF Add, TypeOK, Holding, InFlight
<1>3. CountersExact'
  BY <1>2, SubsetsFinite, FS_AddElement DEF Add, CountersExact
<1>4. PoolBound'
  BY <1>2 DEF Add, PoolBound
<1>5. LoopConsistent'
  BY DEF Add, LoopConsistent, TypeOK
<1>6. RowsConsistent'
  BY DEF Add, RowsConsistent, RowFinal, TypeOK
<1> QED
  BY <1>1, <1>3, <1>4, <1>5, <1>6

LEMMA LaunchIInv ==
  ASSUME NEW s \in Snapshot, IInv, Launch(s)
  PROVE  IInv'
<1> USE DEF IInv
<1>1. TypeOK'
  BY DEF Launch, TypeOK, world
<1>2. Holding' = Holding \cup {s} /\ InFlight' = InFlight /\ s \notin Holding
  BY DEF Launch, TypeOK, Holding, InFlight
<1>3. Cardinality(Holding') = Cardinality(Holding) + 1
  BY <1>2, SubsetsFinite, FS_AddElement
<1>4. CountersExact'
  BY <1>2, <1>3 DEF Launch, CountersExact
<1>5. PoolBound'
  <2>1. PoolSize(Cardinality(snaps)) \in Nat
    BY SnapshotFinite, FS_Subset, FS_CardinalityType, PoolSizePositive
    DEF TypeOK
  <2>2. Cardinality(Holding) < PoolSize(Cardinality(snaps))
    BY DEF Launch, CountersExact
  <2> QED
    BY <1>3, <2>1, <2>2, SubsetsFinite DEF Launch, PoolBound
<1>6. LoopConsistent'
  BY DEF Launch, LoopConsistent, TypeOK
<1>7. RowsConsistent'
  BY DEF Launch, RowsConsistent, RowFinal, TypeOK
<1> QED
  BY <1>1, <1>4, <1>5, <1>6, <1>7

LEMMA EndRangeIInv == IInv /\ EndRange => IInv'
<1> SUFFICES ASSUME IInv, EndRange PROVE IInv'
  OBVIOUS
<1> USE DEF IInv
<1>1. TypeOK'
  BY DEF EndRange, TypeOK, world
<1>2. Holding' = Holding /\ InFlight' = InFlight
  BY DEF EndRange, Holding, InFlight
<1>3. CountersExact' /\ PoolBound'
  BY <1>2 DEF EndRange, CountersExact, PoolBound
<1>4. LoopConsistent'
  BY DEF EndRange, LoopConsistent
<1>5. RowsConsistent'
  BY DEF EndRange, RowsConsistent, RowFinal
<1> QED
  BY <1>1, <1>3, <1>4, <1>5

\* The wait group is exact, so a zero counter means that nothing is in flight.
LEMMA ReplyIInv == IInv /\ Reply => IInv'
<1> SUFFICES ASSUME IInv, Reply PROVE IInv'
  OBVIOUS
<1> USE DEF IInv
<1>1. TypeOK'
  BY DEF Reply, TypeOK, world
<1>2. Holding' = Holding /\ InFlight' = InFlight
  BY DEF Reply, Holding, InFlight
<1>3. CountersExact' /\ PoolBound'
  BY <1>2 DEF Reply, CountersExact, PoolBound
<1>4. InFlight = {}
  BY SubsetsFinite, FS_EmptySet DEF Reply, CountersExact
<1>5. LoopConsistent'
  BY <1>2, <1>4 DEF Reply, LoopConsistent
<1>6. RowsConsistent'
  BY DEF Reply, RowsConsistent, RowFinal
<1> QED
  BY <1>1, <1>3, <1>5, <1>6

-----------------------------------------------------------------------------
(* The steps of a goroutine.                                               *)

\* A goroutine that goes from one counted control point to another one
\* counted the same way moves no counter and no bound.
LEMMA WorkerFrame ==
  ASSUME IInv, NEW s \in Snapshot, NEW c \in {"probing", "wrote"},
         pc[s] \in {"collect", "probing"}, pc' = [pc EXCEPT ![s] = c],
         UNCHANGED <<mpc, snaps, sem, wg>>
  PROVE  CountersExact' /\ PoolBound' /\ LoopConsistent'
<1>1. Holding' = Holding /\ InFlight' = InFlight
  BY DEF IInv, TypeOK, Holding, InFlight
<1>2. LoopConsistent'
  BY <1>1 DEF IInv, TypeOK, LoopConsistent
<1> QED
  BY <1>1, <1>2 DEF IInv, CountersExact, PoolBound

LEMMA CollectStoppedIInv ==
  ASSUME NEW s \in Snapshot, IInv, CollectStopped(s)
  PROVE  IInv'
<1>1. TypeOK'
  BY DEF IInv, CollectStopped, TypeOK, world
<1>2. CountersExact' /\ PoolBound' /\ LoopConsistent'
  BY WorkerFrame DEF CollectStopped
<1>3. RowsConsistent'
  BY DEF IInv, CollectStopped, RowsConsistent, RowFinal, TypeOK
<1> QED
  BY <1>1, <1>2, <1>3 DEF IInv

LEMMA StartProbesIInv ==
  ASSUME NEW s \in Snapshot, IInv, StartProbes(s)
  PROVE  IInv'
<1>1. TypeOK'
  BY DEF IInv, StartProbes, TypeOK, world
<1>2. CountersExact' /\ PoolBound' /\ LoopConsistent'
  BY WorkerFrame DEF StartProbes
<1>3. RowsConsistent'
  BY DEF IInv, StartProbes, RowsConsistent, RowFinal, TypeOK
<1> QED
  BY <1>1, <1>2, <1>3 DEF IInv

LEMMA AnswerIInv ==
  ASSUME NEW s \in Snapshot, NEW p \in Probes, IInv, Answer(s, p)
  PROVE  IInv'
<1> PICK a \in {"-", "ok"} : probe' = [probe EXCEPT ![s][p] = a]
  BY DEF Answer
<1>1. TypeOK'
  BY DEF IInv, Answer, TypeOK, world
<1>2. pc[s] = "probing"
  BY DEF IInv, Answer, RowsConsistent
<1>3. Holding' = Holding /\ InFlight' = InFlight
  BY DEF Answer, Holding, InFlight
<1>4. CountersExact' /\ PoolBound' /\ LoopConsistent'
  BY <1>3 DEF IInv, Answer, CountersExact, PoolBound, LoopConsistent
<1>5. RowsConsistent'
  BY <1>2 DEF IInv, Answer, RowsConsistent, RowFinal, TypeOK
<1> QED
  BY <1>1, <1>4, <1>5 DEF IInv

LEMMA JoinIInv ==
  ASSUME NEW s \in Snapshot, IInv, Join(s)
  PROVE  IInv'
<1>1. TypeOK'
  BY DEF IInv, Join, TypeOK, Shown, world
<1>2. CountersExact' /\ PoolBound' /\ LoopConsistent'
  BY WorkerFrame DEF Join
<1>3. \A p \in Probes : probe[s][p] \in {"-", "ok"}
  BY DEF IInv, Join, RowsConsistent, TypeOK
<1>4. Shown(probe[s]) = {p \in Probes : probe[s][p] = "ok"}
  BY <1>3 DEF Shown
<1>5. RowFinal(s)'
  BY <1>3, <1>4 DEF IInv, Join, RowsConsistent, RowFinal, TypeOK
<1>6. RowsConsistent'
  BY <1>5 DEF IInv, Join, RowsConsistent, RowFinal, TypeOK
<1> QED
  BY <1>1, <1>2, <1>6 DEF IInv

LEMMA ReleaseIInv ==
  ASSUME NEW s \in Snapshot, IInv, Release(s)
  PROVE  IInv'
<1> USE DEF IInv
<1>1. Holding' = Holding \ {s} /\ InFlight' = InFlight /\ s \in Holding
  BY DEF Release, TypeOK, Holding, InFlight
<1>2. Cardinality(Holding') = Cardinality(Holding) - 1
  BY <1>1, SubsetsFinite, FS_RemoveElement
<1>3. CountersExact'
  BY <1>1, <1>2 DEF Release, CountersExact
<1>4. TypeOK'
  BY <1>3, SubsetsFinite DEF Release, TypeOK, CountersExact, world
<1>5. PoolBound'
  <2>1. PoolSize(Cardinality(snaps)) \in Nat
    BY SnapshotFinite, FS_Subset, FS_CardinalityType, PoolSizePositive
    DEF TypeOK
  <2> QED
    BY <1>2, <2>1, SubsetsFinite DEF Release, PoolBound
<1>6. LoopConsistent'
  BY <1>1 DEF Release, LoopConsistent, TypeOK
<1>7. RowsConsistent'
  BY DEF Release, RowsConsistent, RowFinal, TypeOK
<1> QED
  BY <1>3, <1>4, <1>5, <1>6, <1>7

LEMMA DoneIInv ==
  ASSUME NEW s \in Snapshot, IInv, Done(s)
  PROVE  IInv'
<1> USE DEF IInv
<1>1. Holding' = Holding /\ InFlight' = InFlight \ {s} /\ s \in InFlight
  BY DEF Done, TypeOK, Holding, InFlight
<1>2. Cardinality(InFlight') = Cardinality(InFlight) - 1
  BY <1>1, SubsetsFinite, FS_RemoveElement
<1>3. CountersExact' /\ PoolBound'
  BY <1>1, <1>2 DEF Done, CountersExact, PoolBound
<1>4. TypeOK'
  BY <1>3, SubsetsFinite DEF Done, TypeOK, CountersExact, world
<1>5. LoopConsistent'
  BY <1>1 DEF Done, LoopConsistent, TypeOK
<1>6. RowsConsistent'
  BY DEF Done, RowsConsistent, RowFinal, TypeOK
<1> QED
  BY <1>3, <1>4, <1>5, <1>6

LEMMA NextIInv == IInv /\ [Next]_vars => IInv'
<1> SUFFICES ASSUME IInv, [Next]_vars PROVE IInv'
  OBVIOUS
<1>1. CASE Main
  BY <1>1, ListIInv, AddIInv, LaunchIInv, EndRangeIInv, ReplyIInv DEF Main
<1>2. CASE \E s \in Snapshot : Worker(s)
  BY <1>2, CollectStoppedIInv, StartProbesIInv, AnswerIInv, JoinIInv,
     ReleaseIInv, DoneIInv
  DEF Worker
<1>3. CASE UNCHANGED vars
  <2>1. Holding' = Holding /\ InFlight' = InFlight
    BY <1>3 DEF vars, Holding, InFlight
  <2>2. TypeOK' /\ CountersExact' /\ PoolBound'
    BY <1>3, <2>1
    DEF IInv, vars, TypeOK, CountersExact, PoolBound
  <2>3. LoopConsistent' /\ RowsConsistent'
    BY <1>3, <2>1
    DEF IInv, vars, LoopConsistent, RowsConsistent, RowFinal
  <2> QED
    BY <2>2, <2>3 DEF IInv
<1> QED
  BY <1>1, <1>2, <1>3 DEF Next

\* IInv is an invariant of the pod fan-out.
LEMMA Inductive == Spec => []IInv
<1> QED
  BY InitIInv, NextIInv, PTL DEF Spec

-----------------------------------------------------------------------------
(* The results.                                                            *)

\* The counters of the semaphore and of the wait group never go negative,
\* and every variable keeps its type, for any number of containers.
THEOREM TypeCorrect == Spec => []TypeOK
BY Inductive, PTL DEF IInv

\* At most PoolSize containers are probed at once (status_pod.go:66-80).
THEOREM PoolBounded == Spec => []PoolBound
BY Inductive, PTL DEF IInv

\* collectPodStatus returns complete rows only (status_pod.go:75-85 and the
\* inner wait of runPodProbes).
THEOREM RepliesComplete == Spec => []ReplyComplete
<1>1. IInv => ReplyComplete
  <2> SUFFICES ASSUME IInv, mpc = "replied", NEW s \in snaps
               PROVE  RowFinal(s)
    BY DEF ReplyComplete
  <2>1. s \in Snapshot /\ pc[s] # "idle" /\ s \notin InFlight
    BY DEF IInv, TypeOK, LoopConsistent
  <2>2. pc[s] = "done"
    BY <2>1 DEF IInv, TypeOK, InFlight
  <2> QED
    BY <2>1, <2>2 DEF IInv, RowsConsistent
<1> QED
  BY <1>1, Inductive, PTL

\* Nothing of the pool outlives the handler (the order of the two defers).
THEOREM RepliesQuiescent == Spec => []ReplyQuiescent
<1>1. IInv => ReplyQuiescent
  <2> SUFFICES ASSUME IInv, mpc = "replied"
               PROVE  (\A s \in Snapshot : pc[s] \in {"idle", "done"}) /\ sem = 0
    BY DEF ReplyQuiescent
  <2>1. InFlight = {}
    BY DEF IInv, LoopConsistent
  <2>2. Holding = {}
    BY <2>1 DEF Holding, InFlight
  <2>3. \A s \in Snapshot : pc[s] \in {"idle", "done"}
    BY <2>1 DEF IInv, TypeOK, InFlight
  <2> QED
    BY <2>2, <2>3, FS_EmptySet DEF IInv, CountersExact
<1> QED
  BY <1>1, Inductive, PTL

-----------------------------------------------------------------------------
(* Which containers get a row.                                             *)

\* The snapshots are, until the reply, what the listing made of the host.
Listing ==
  /\ engine \in EngineListings(req.all)
  /\ units \in SUBSET Charly
  /\ mpc \notin {"list", "failed"} => snaps = Listed(req, engine, units)

LEMMA ListingInvariant == Spec => []Listing
<1>1. Init => Listing
  BY DEF Init, Listing
<1>2. Listing /\ [Next]_vars => Listing'
  <2> SUFFICES ASSUME Listing, [Next]_vars PROVE Listing'
    OBVIOUS
  <2>1. UNCHANGED <<req, engine, units>>
    BY DEF Next, Main, Worker, List, ListFails, Add, Launch, EndRange, Reply,
           CollectStopped, StartProbes, Answer, Join, Release, Done, vars, world
  <2>2. CASE List
    BY <2>1, <2>2 DEF Listing, List
  <2>3. CASE UNCHANGED snaps /\ (mpc \in {"list", "failed"} => mpc' \in {"list", "failed"})
    BY <2>1, <2>3 DEF Listing
  <2>4. List \/ (UNCHANGED snaps
                 /\ (mpc \in {"list", "failed"} => mpc' \in {"list", "failed"}))
    BY DEF Next, Main, Worker, ListFails, Add, Launch, EndRange, Reply,
           CollectStopped, StartProbes, Answer, Join, Release, Done, vars
  <2> QED
    BY <2>2, <2>3, <2>4
<1> QED
  BY <1>1, <1>2, PTL DEF Spec

\* A live row and the row of an enabled unit never describe the same
\* container, and no charly container of the listing is left out.
THEOREM OneRow == Spec => []OneRowPerContainer
<1>1. Listing => OneRowPerContainer
  <2> SUFFICES ASSUME Listing, mpc \notin {"list", "failed"}
               PROVE  OneRowPerContainer
    BY DEF OneRowPerContainer
  <2> DEFINE found == Filtered(engine)
             seen  == {s.name : s \in found}
             idle  == EnabledQuadlets(units, seen)
  <2>1. \A s, t \in engine : s.name = t.name => s = t
    BY DEF Listing, EngineListings
  <2>2. found = {s \in engine : s.name \in Charly}
    BY DEF Filtered
  <2>3. \A s \in idle : /\ s.name \in units \ seen
                        /\ s = [name |-> s.name, state |-> "enabled"]
    BY DEF EnabledQuadlets
  <2>4. {s.name : s \in idle} = units \ seen
    <3>1. ASSUME NEW n \in units \ seen PROVE n \in {s.name : s \in idle}
      <4> DEFINE e == [name |-> n, state |-> "enabled"]
      <4>1. e \in idle /\ e.name = n
        BY DEF EnabledQuadlets
      <4> QED
        BY <4>1
    <3> QED
      BY <2>3, <3>1
  <2>5. seen = Charly \cap {s.name : s \in engine}
    BY <2>2
  <2>6. CASE req.all /\ req.quadlet
    <3>1. snaps = found \cup idle
      BY <2>6 DEF Listing, Listed
    <3>2. \A s, t \in snaps : s.name = t.name => s = t
      BY <2>1, <2>2, <2>3, <3>1
    <3>3. {s.name : s \in snaps} = seen \cup (units \ seen)
      BY <2>4, <3>1
    <3>4. seen \cup (units \ seen)
            = Charly \cap ({s.name : s \in engine} \cup units)
      BY <2>5 DEF Listing
    <3> QED
      BY <2>2, <2>6, <3>1, <3>2, <3>3, <3>4 DEF OneRowPerContainer
  <2>7. CASE ~(req.all /\ req.quadlet)
    <3>1. snaps = found
      BY <2>7 DEF Listing, Listed
    <3> QED
      BY <2>1, <2>2, <2>5, <2>7, <3>1 DEF OneRowPerContainer
  <2> QED
    BY <2>6, <2>7
<1> QED
  BY <1>1, ListingInvariant, PTL

-----------------------------------------------------------------------------
(* What is not yet begun is untouched: a second invariant, over IInv.      *)

Fresh ==
  /\ mpc = "acquire" => \E s \in snaps : pc[s] = "added"
  /\ \A s \in Snapshot : pc[s] \in {"idle", "added", "collect"} =>
       \A p \in Probes : probe[s][p] = "idle"
  /\ \A s \in Snapshot : pc[s] \in {"idle", "added", "collect", "probing"} =>
       row[s] = Unwritten

\* A goroutine past the semaphore leaves the one the loop is about to start.
LEMMA StillAdded ==
  ASSUME TypeOK, Fresh, NEW s \in Snapshot, NEW c, pc[s] # "added",
         pc' = [pc EXCEPT ![s] = c], UNCHANGED <<mpc, snaps>>
  PROVE  mpc' = "acquire" => \E t \in snaps' : pc'[t] = "added"
BY DEF TypeOK, Fresh

LEMMA FreshStep == IInv /\ Fresh /\ [Next]_vars => Fresh'
<1> SUFFICES ASSUME IInv, Fresh, [Next]_vars PROVE Fresh'
  OBVIOUS
<1> USE DEF IInv
<1>1. CASE List \/ ListFails \/ EndRange \/ Reply
  BY <1>1 DEF Fresh, List, ListFails, EndRange, Reply
<1>2. ASSUME NEW s \in Snapshot, Add(s) PROVE Fresh'
  BY <1>2 DEF Fresh, Add, TypeOK
<1>3. ASSUME NEW s \in Snapshot, Launch(s) PROVE Fresh'
  BY <1>3 DEF Fresh, Launch, TypeOK
<1>4. ASSUME NEW s \in Snapshot, CollectStopped(s) PROVE Fresh'
  BY <1>4, StillAdded DEF Fresh, CollectStopped, TypeOK
<1>5. ASSUME NEW s \in Snapshot, StartProbes(s) PROVE Fresh'
  BY <1>5, StillAdded DEF Fresh, StartProbes, TypeOK
<1>6. ASSUME NEW s \in Snapshot, NEW p \in Probes, Answer(s, p) PROVE Fresh'
  <2>1. pc[s] = "probing"
    BY <1>6 DEF Answer, RowsConsistent
  <2>2. QED
    BY <1>6, <2>1 DEF Fresh, Answer, TypeOK
<1>7. ASSUME NEW s \in Snapshot, Join(s) PROVE Fresh'
  BY <1>7, StillAdded DEF Fresh, Join, TypeOK
<1>8. ASSUME NEW s \in Snapshot, Release(s) \/ Done(s) PROVE Fresh'
  BY <1>8, StillAdded DEF Fresh, Release, Done, TypeOK
<1>9. CASE UNCHANGED vars
  BY <1>9 DEF Fresh, vars
<1>10. QED
  BY <1>1, <1>2, <1>3, <1>4, <1>5, <1>6, <1>7, <1>8, <1>9 DEF Next, Main, Worker

LEMMA FreshInvariant == Spec => [](IInv /\ Fresh)
<1>1. Init => Fresh
  BY DEF Init, Fresh
<1>2. QED
  BY <1>1, InitIInv, NextIInv, FreshStep, PTL DEF Spec

-----------------------------------------------------------------------------
(* Nobody waits for somebody who is not coming.                            *)

\* NeverStuck: deadlock freedom of the loop, the pool and the waits, for any
\* number of containers and any pool size (status_pod.go:71-84).
THEOREM NobodyStuck == Spec => []NeverStuck
<1>1. IInv /\ Fresh => NeverStuck
  <2> SUFFICES ASSUME IInv, Fresh PROVE NeverStuck
    OBVIOUS
  <2>1. ASSUME mpc = "acquire", Holding = {}
        PROVE  sem < PoolSize(Cardinality(snaps))
    <3>1. sem = 0
      BY <2>1, FS_EmptySet DEF IInv, CountersExact
    <3>2. PoolSize(Cardinality(snaps)) \in Nat /\ PoolSize(Cardinality(snaps)) >= 1
      BY SnapshotFinite, FS_Subset, FS_CardinalityType, PoolSizePositive
      DEF IInv, TypeOK
    <3>3. QED
      BY <3>1, <3>2
  <2>2. ASSUME mpc = "wait", Moving = {}
        PROVE  wg = 0
    <3>1. \A s \in Snapshot : pc[s] # "added"
      BY <2>2 DEF IInv, LoopConsistent
    <3>2. InFlight = {}
      BY <2>2, <3>1 DEF InFlight, Moving
    <3>3. QED
      BY <3>2, FS_EmptySet DEF IInv, CountersExact
  <2>3. mpc = "acquire" => \E s \in snaps : pc[s] = "added"
    BY DEF Fresh
  <2>4. QED
    BY <2>1, <2>2, <2>3 DEF NeverStuck
<1>2. QED
  BY <1>1, FreshInvariant, PTL

-----------------------------------------------------------------------------
(* Every step leaves less to do.                                           *)

\* What a step of one goroutine that is past the semaphore does, for Forward.
LEMMA WorkerForward ==
  ASSUME TypeOK, LoopConsistent, NEW s \in Snapshot, NEW c,
         c \in Ahead(pc[s]), pc[s] # "idle", c # pc[s],
         pc' = [pc EXCEPT ![s] = c], UNCHANGED <<mpc, snaps>>,
         \A t \in Snapshot : Open(t)' \subseteq Open(t)
  PROVE  /\ \A t \in Snapshot : pc'[t] \in {pc[t]} \cup Ahead(pc[t])
         /\ Forward
<1>1. s \in snaps' /\ snaps' \subseteq Snapshot
  BY DEF TypeOK, LoopConsistent
<1>2. pc'[s] = c /\ \A t \in Snapshot \ {s} : pc'[t] = pc[t]
  BY DEF TypeOK
<1>3. HandlerAhead' = HandlerAhead
  BY DEF HandlerAhead
<1>4. QED
  BY <1>1, <1>2, <1>3 DEF Forward

LEMMA StepForward ==
  ASSUME IInv, Fresh, Next
  PROVE  /\ \A s \in Snapshot : /\ pc'[s] \in {pc[s]} \cup Ahead(pc[s])
                                /\ Open(s)' \subseteq Open(s)
         /\ Forward
<1> USE DEF IInv
<1>1. snaps \subseteq Snapshot /\ snaps' \subseteq Snapshot
  BY NextIInv DEF TypeOK
<1>2. ASSUME UNCHANGED probe
      PROVE  \A t \in Snapshot : Open(t)' \subseteq Open(t)
  BY <1>2 DEF Open
<1>3. CASE List \/ ListFails \/ EndRange \/ Reply
  <2>1. UNCHANGED <<pc, probe>>
    BY <1>3 DEF List, ListFails, EndRange, Reply
  <2>2. HandlerAhead' \subseteq HandlerAhead /\ HandlerAhead' # HandlerAhead
    BY <1>3 DEF HandlerAhead, List, ListFails, EndRange, Reply
  <2>3. QED
    BY <1>1, <1>2, <2>1, <2>2 DEF Forward
<1>4. ASSUME NEW s \in Snapshot, Add(s) \/ Launch(s)
      PROVE  /\ \A t \in Snapshot : pc'[t] \in {pc[t]} \cup Ahead(pc[t])
             /\ Forward
  <2>1. UNCHANGED <<probe, snaps>> /\ s \in snaps
    BY <1>4 DEF Add, Launch, LoopConsistent
  <2>2. HandlerAhead' = HandlerAhead
    BY <1>4 DEF HandlerAhead, Add, Launch
  <2>3. /\ pc'[s] # pc[s] /\ pc'[s] \in Ahead(pc[s])
        /\ \A t \in Snapshot \ {s} : pc'[t] = pc[t]
    BY <1>4 DEF Add, Launch, Ahead, TypeOK
  <2>4. QED
    BY <1>1, <1>2, <2>1, <2>2, <2>3 DEF Forward
<1>5. ASSUME NEW s \in Snapshot,
             CollectStopped(s) \/ Join(s) \/ Release(s) \/ Done(s)
      PROVE  /\ \A t \in Snapshot : pc'[t] \in {pc[t]} \cup Ahead(pc[t])
             /\ Forward
  <2>1. UNCHANGED <<mpc, snaps, probe>> /\ pc[s] # "idle"
    BY <1>5 DEF CollectStopped, Join, Release, Done
  <2>2. PICK c \in {"wrote", "released", "done"} :
          c \in Ahead(pc[s]) /\ c # pc[s] /\ pc' = [pc EXCEPT ![s] = c]
    BY <1>5 DEF CollectStopped, Join, Release, Done, Ahead
  <2>3. QED
    BY <1>2, <2>1, <2>2, WorkerForward
<1>6. ASSUME NEW s \in Snapshot, StartProbes(s)
      PROVE  /\ \A t \in Snapshot : /\ pc'[t] \in {pc[t]} \cup Ahead(pc[t])
                                    /\ Open(t)' \subseteq Open(t)
             /\ Forward
  <2>1. Open(s) = Probes /\ Open(s)' \subseteq Probes
    BY <1>6 DEF StartProbes, Fresh, Open
  <2>2. \A t \in Snapshot \ {s} : Open(t)' = Open(t)
    BY <1>6 DEF StartProbes, Open, TypeOK
  <2>3. \A t \in Snapshot : Open(t)' \subseteq Open(t)
    BY <2>1, <2>2
  <2>4. /\ "probing" \in Ahead(pc[s]) /\ pc[s] # "idle" /\ "probing" # pc[s]
        /\ pc' = [pc EXCEPT ![s] = "probing"] /\ UNCHANGED <<mpc, snaps>>
    BY <1>6 DEF StartProbes, Ahead
  <2>5. QED
    BY <2>3, <2>4, WorkerForward
<1>7. ASSUME NEW s \in Snapshot, NEW p \in Probes, Answer(s, p)
      PROVE  /\ \A t \in Snapshot : /\ pc'[t] \in {pc[t]} \cup Ahead(pc[t])
                                    /\ Open(t)' \subseteq Open(t)
             /\ Forward
  <2>1. PICK a \in {"-", "ok"} : probe' = [probe EXCEPT ![s][p] = a]
    BY <1>7 DEF Answer
  <2>2. UNCHANGED <<mpc, snaps, pc>> /\ s \in snaps
    BY <1>7 DEF Answer, RowsConsistent, LoopConsistent
  <2>3. p \in Open(s)
    BY <1>7 DEF Answer, Open
  <2>4. Open(s)' = Open(s) \ {p} /\ \A t \in Snapshot \ {s} : Open(t)' = Open(t)
    BY <2>1 DEF Open, TypeOK
  <2>5. HandlerAhead' = HandlerAhead
    BY <2>2 DEF HandlerAhead
  <2>6. QED
    BY <1>1, <2>2, <2>3, <2>4, <2>5 DEF Forward
<1>8. QED
  <2>1. CASE Main
    BY <1>2, <1>3, <1>4, <2>1 DEF Main, List, ListFails, EndRange, Reply, Add, Launch
  <2>2. CASE \E s \in Snapshot : Worker(s)
    BY <1>2, <1>5, <1>6, <1>7, <2>2 DEF Worker, CollectStopped, Join, Release, Done
  <2>3. QED
    BY <2>1, <2>2 DEF Next

\* OnlyForward: no step of the loop, of a goroutine or of a probe is ever taken
\* back or repeated (status_pod.go:71-85, status_probes.go runPodProbes).
THEOREM ForwardOnly == Spec => OnlyForward
<1>1. IInv /\ Fresh /\ [Next]_vars => [Forward]_vars
  BY StepForward
<1>2. QED
  BY <1>1, FreshInvariant, PTL DEF Spec, OnlyForward

\* How much is left: the handler's stages, every container's, every answer.
Stages == {"added", "collect", "probing", "wrote", "released", "done"}

StagesLeft == {x \in Snapshot \X Stages : x[2] \in Ahead(pc[x[1]])}
AnswersLeft == {x \in Snapshot \X Probes : x[2] \in Open(x[1])}

WorkLeft ==
  Cardinality(HandlerAhead) + Cardinality(StagesLeft) + Cardinality(AnswersLeft)

LEMMA ProbesFinite == IsFiniteSet(Probes)
BY FanoutAssumption, FS_AddElement DEF Probes, FanoutAssumption

LEMMA PairFinite ==
  ASSUME NEW a, NEW b
  PROVE  IsFiniteSet({a, b})
<1>1. {a, b} = {a} \cup {b} /\ IsFiniteSet({a}) /\ IsFiniteSet({b})
  BY FS_Singleton
<1>2. QED
  BY <1>1, FS_Union

LEMMA StagesFinite == IsFiniteSet(Stages)
<1> DEFINE A == {"added", "collect"}  B == {"probing", "wrote"}
           C == {"released", "done"}
<1>1. IsFiniteSet(A) /\ IsFiniteSet(B) /\ IsFiniteSet(C)
  BY PairFinite
<1>2. Stages = (A \cup B) \cup C
  BY DEF Stages
<1>3. QED
  BY <1>1, <1>2, FS_Union

\* A finite set that shrinks has fewer elements.
LEMMA Shrinks ==
  ASSUME NEW B, IsFiniteSet(B), NEW A, A \subseteq B
  PROVE  /\ Cardinality(A) \in Nat /\ Cardinality(B) \in Nat
         /\ Cardinality(A) <= Cardinality(B)
         /\ A # B => Cardinality(A) < Cardinality(B)
<1>1. /\ IsFiniteSet(A) /\ Cardinality(A) <= Cardinality(B)
      /\ Cardinality(A) = Cardinality(B) => A = B
  BY FS_Subset
<1>2. Cardinality(A) \in Nat /\ Cardinality(B) \in Nat
  BY <1>1, FS_CardinalityType
<1>3. QED
  BY <1>1, <1>2

LEMMA WorkFinite ==
  /\ IsFiniteSet(HandlerAhead) /\ IsFiniteSet(StagesLeft) /\ IsFiniteSet(AnswersLeft)
<1>1. IsFiniteSet(Snapshot \X Stages) /\ IsFiniteSet(Snapshot \X Probes)
  BY SnapshotFinite, StagesFinite, ProbesFinite, FS_Product
<1>2. IsFiniteSet({"dispatch"}) /\ IsFiniteSet({"wait", "end"})
  BY FS_Singleton, PairFinite
<1>3. IsFiniteSet({"dispatch"} \cup {"wait", "end"})
  BY <1>2, FS_Union
<1>4. HandlerAhead \subseteq {"dispatch"} \cup {"wait", "end"}
  BY DEF HandlerAhead
<1>5. StagesLeft \subseteq Snapshot \X Stages /\ AnswersLeft \subseteq Snapshot \X Probes
  BY DEF StagesLeft, AnswersLeft
<1>6. QED
  BY <1>1, <1>3, <1>4, <1>5, FS_Subset

\* A stage that is reached is no longer ahead, nor is any behind it.
LEMMA AheadShrinks ==
  ASSUME NEW c, NEW d \in {c} \cup Ahead(c)
  PROVE  /\ Ahead(c) \subseteq Stages
         /\ Ahead(d) \subseteq Ahead(c)
         /\ d # c => d \in Ahead(c) /\ d \notin Ahead(d)
BY DEF Ahead, Stages

\* Any step, of any goroutine, lowers the number of what is left by at least
\* one: a request of n containers is answered within a number of steps that is
\* known when it arrives, whatever the scheduler does.
THEOREM WorkShrinks == Spec => [][WorkLeft' < WorkLeft /\ WorkLeft' \in Nat]_vars
<1>1. ASSUME IInv, Fresh, Next
      PROVE  WorkLeft' < WorkLeft /\ WorkLeft' \in Nat
  <2>1. /\ \A s \in Snapshot : /\ pc'[s] \in {pc[s]} \cup Ahead(pc[s])
                              /\ Open(s)' \subseteq Open(s)
        /\ Forward
    BY <1>1, StepForward
  <2>2. snaps' \subseteq Snapshot
    BY <1>1, NextIInv DEF IInv, TypeOK
  <2>3. HandlerAhead' \subseteq HandlerAhead
    BY <2>1 DEF Forward
  <2>4. StagesLeft' \subseteq StagesLeft
    BY <2>1, AheadShrinks DEF StagesLeft
  <2>5. AnswersLeft' \subseteq AnswersLeft
    BY <2>1 DEF AnswersLeft
  <2>6. \/ HandlerAhead' # HandlerAhead
        \/ StagesLeft' # StagesLeft
        \/ AnswersLeft' # AnswersLeft
    <3>1. ASSUME NEW s \in Snapshot, pc'[s] # pc[s]
          PROVE  StagesLeft' # StagesLeft
      <4>1. pc'[s] \in Ahead(pc[s]) /\ pc'[s] \notin Ahead(pc'[s]) /\ pc'[s] \in Stages
        BY <2>1, <3>1, AheadShrinks
      <4>2. <<s, pc'[s]>> \in StagesLeft /\ <<s, pc'[s]>> \notin StagesLeft'
        BY <4>1 DEF StagesLeft
      <4>3. QED
        BY <4>2
    <3>2. ASSUME NEW s \in Snapshot, Open(s)' # Open(s)
          PROVE  AnswersLeft' # AnswersLeft
      <4>1. PICK p \in Open(s) : p \notin Open(s)'
        BY <2>1, <3>2
      <4>2. p \in Probes
        BY <4>1 DEF Open
      <4>3. <<s, p>> \in AnswersLeft /\ <<s, p>> \notin AnswersLeft'
        BY <4>1, <4>2 DEF AnswersLeft
      <4>4. QED
        BY <4>3
    <3>3. QED
      BY <2>1, <2>2, <3>1, <3>2 DEF Forward
  <2>7. /\ Cardinality(HandlerAhead') \in Nat /\ Cardinality(HandlerAhead) \in Nat
        /\ Cardinality(HandlerAhead') <= Cardinality(HandlerAhead)
        /\ HandlerAhead' # HandlerAhead =>
             Cardinality(HandlerAhead') < Cardinality(HandlerAhead)
    BY <2>3, WorkFinite, Shrinks
  <2>8. /\ Cardinality(StagesLeft') \in Nat /\ Cardinality(StagesLeft) \in Nat
        /\ Cardinality(StagesLeft') <= Cardinality(StagesLeft)
        /\ StagesLeft' # StagesLeft => Cardinality(StagesLeft') < Cardinality(StagesLeft)
    BY <2>4, WorkFinite, Shrinks
  <2>9. /\ Cardinality(AnswersLeft') \in Nat /\ Cardinality(AnswersLeft) \in Nat
        /\ Cardinality(AnswersLeft') <= Cardinality(AnswersLeft)
        /\ AnswersLeft' # AnswersLeft =>
             Cardinality(AnswersLeft') < Cardinality(AnswersLeft)
    BY <2>5, WorkFinite, Shrinks
  <2>10. WorkLeft' = Cardinality(HandlerAhead') + Cardinality(StagesLeft')
                       + Cardinality(AnswersLeft')
    BY DEF WorkLeft
  <2>11. QED
    BY <2>6, <2>7, <2>8, <2>9, <2>10 DEF WorkLeft
<1>2. IInv /\ Fresh /\ [Next]_vars => [WorkLeft' < WorkLeft /\ WorkLeft' \in Nat]_vars
  BY <1>1
<1>3. QED
  BY <1>2, FreshInvariant, PTL DEF Spec

-----------------------------------------------------------------------------
(* The collector implements PodView.                                       *)

LEMMA PoolIsPositive ==
  ASSUME snaps \subseteq Snapshot
  PROVE  PoolSize(Cardinality(snaps)) \in Nat \ {0}
<1>1. Cardinality(snaps) \in Nat
  BY SnapshotFinite, FS_Subset, FS_CardinalityType
<1>2. QED
  BY <1>1, PoolSizePositive

\* Who has a slot is in the listing, and the handler is still at work.
LEMMA HoldersListed ==
  ASSUME IInv, NEW s \in Snapshot, pc[s] # "idle"
  PROVE  s \in snaps /\ (pc[s] # "done" => Phase = "working")
<1>1. s \in snaps
  BY DEF IInv, LoopConsistent
<1>2. mpc \notin {"list", "failed"}
  BY <1>1 DEF IInv, LoopConsistent
<1>3. pc[s] # "done" => mpc # "replied"
  BY DEF IInv, TypeOK, LoopConsistent, InFlight
<1>4. QED
  BY <1>1, <1>2, <1>3 DEF IInv, TypeOK, Phase

LEMMA ListView == IInv /\ List => View!List
<1> SUFFICES ASSUME IInv, List PROVE View!List
  OBVIOUS
<1>1. snaps' \subseteq Snapshot
  BY ListIInv DEF IInv, TypeOK
<1>2. PoolSize(Cardinality(snaps')) \in Nat \ {0}
  <2>1. Cardinality(snaps') \in Nat
    BY <1>1, SnapshotFinite, FS_Subset, FS_CardinalityType
  <2>2. QED
    BY <2>1, PoolSizePositive
<1>3. Phase = "listing" /\ Phase' = "working"
  BY DEF List, Phase
<1>4. Holding' = Holding /\ row' = row
  BY DEF List, Holding
<1>5. QED
  BY <1>1, <1>2, <1>3, <1>4 DEF View!List

LEMMA FailView == IInv /\ ListFails => View!Fail
<1> SUFFICES ASSUME IInv, ListFails PROVE View!Fail
  OBVIOUS
<1>1. Phase = "listing" /\ Phase' = "failed"
  BY DEF ListFails, Phase
<1>2. Holding' = Holding /\ row' = row /\ snaps' = snaps
  BY DEF ListFails, Holding
<1>3. QED
  BY <1>1, <1>2 DEF View!Fail

\* The steps PodView does not see.
LEMMA QuietView ==
  ASSUME IInv, NEW s \in Snapshot,
         \/ Add(s) \/ StartProbes(s) \/ Done(s)
         \/ \E p \in Probes : Answer(s, p)
  PROVE  UNCHANGED View!vars
<1>1. Phase' = Phase
  BY DEF Add, StartProbes, Done, Answer, Phase
<1>2. snaps' = snaps /\ row' = row
  BY DEF Add, StartProbes, Done, Answer
<1>3. Holding' = Holding
  BY DEF IInv, TypeOK, Add, StartProbes, Done, Answer, Holding
<1>4. QED
  BY <1>1, <1>2, <1>3 DEF View!vars

LEMMA LaunchView ==
  ASSUME IInv, Fresh, NEW s \in Snapshot, Launch(s)
  PROVE  s \in snaps /\ View!Take(s)
<1>1. Phase = "working" /\ Phase' = Phase
  BY DEF Launch, Phase
<1>2. s \in snaps /\ s \notin Holding /\ ~row[s].written
  BY DEF IInv, LoopConsistent, Fresh, Unwritten, Launch, Holding
<1>3. Cardinality(Holding) < PoolSize(Cardinality(snaps))
  BY DEF IInv, CountersExact, Launch
<1>4. Holding' = Holding \cup {s}
  BY DEF IInv, TypeOK, Launch, Holding
<1>5. /\ snaps' = snaps /\ row' = row
      /\ PoolSize(Cardinality(snaps))' = PoolSize(Cardinality(snaps))
  BY DEF Launch
<1>6. View!Cardinality(Holding) = Cardinality(Holding)
  BY DEF View!Cardinality, Cardinality
<1>7. QED
  BY <1>1, <1>2, <1>3, <1>4, <1>5, <1>6 DEF View!Take

\* One row is entered, by the goroutine that has the slot.
LEMMA WriteView ==
  ASSUME IInv, Fresh, NEW s \in Snapshot, CollectStopped(s) \/ Join(s)
  PROVE  s \in snaps /\ View!Fill(s)
<1>1. pc[s] \in {"collect", "probing"} /\ s \in Holding
  BY DEF CollectStopped, Join, Holding
<1>2. s \in snaps /\ Phase = "working"
  BY <1>1, HoldersListed
<1>3. Phase' = Phase /\ snaps' = snaps
  BY DEF CollectStopped, Join, Phase
<1>4. ~row[s].written
  BY <1>1 DEF Fresh, Unwritten
<1>5. Holding' = Holding
  BY <1>1 DEF IInv, TypeOK, CollectStopped, Join, Holding
<1>6. PICK T \in SUBSET Probes :
        /\ s.state # "running" => T = {}
        /\ row' = [row EXCEPT ![s] = [written |-> TRUE, tools |-> T]]
  <2>1. CASE CollectStopped(s)
    BY <2>1 DEF CollectStopped
  <2>2. CASE Join(s)
    <3>1. Shown(probe[s]) \in SUBSET Probes
      BY DEF Shown
    <3>2. s.state = "running"
      BY <2>2 DEF IInv, RowsConsistent, Join
    <3>3. QED
      BY <2>2, <3>1, <3>2 DEF Join
  <2>3. QED
    BY <2>1, <2>2
<1>7. QED
  BY <1>1, <1>2, <1>3, <1>4, <1>5, <1>6 DEF View!Fill

LEMMA ReleaseView ==
  ASSUME IInv, NEW s \in Snapshot, Release(s)
  PROVE  s \in snaps /\ View!Free(s)
<1>1. pc[s] = "wrote" /\ s \in Holding
  BY DEF Release, Holding
<1>2. s \in snaps /\ Phase = "working"
  BY <1>1, HoldersListed
<1>3. row[s].written
  BY <1>1 DEF IInv, RowsConsistent, RowFinal
<1>4. Holding' = Holding \ {s}
  BY DEF IInv, TypeOK, Release, Holding
<1>5. Phase' = Phase /\ snaps' = snaps /\ row' = row
  BY DEF Release, Phase
<1>6. QED
  BY <1>1, <1>2, <1>3, <1>4, <1>5 DEF View!Free

LEMMA ReplyView == IInv /\ Reply => View!Reply
<1> SUFFICES ASSUME IInv, Reply PROVE View!Reply
  OBVIOUS
<1>1. InFlight = {}
  BY SubsetsFinite, FS_EmptySet DEF IInv, CountersExact, Reply
<1>2. Holding = {} /\ Holding' = {}
  BY <1>1 DEF Reply, Holding, InFlight
<1>3. \A s \in snaps : row[s].written
  <2> SUFFICES ASSUME NEW s \in snaps PROVE row[s].written
    OBVIOUS
  <2>1. s \in Snapshot /\ pc[s] # "idle" /\ s \notin InFlight
    BY <1>1 DEF IInv, TypeOK, LoopConsistent, Reply
  <2>2. pc[s] = "done"
    BY <2>1 DEF IInv, TypeOK, InFlight
  <2>3. QED
    BY <2>1, <2>2 DEF IInv, RowsConsistent, RowFinal
<1>4. Phase = "working" /\ Phase' = "replied"
  BY DEF Reply, Phase
<1>5. snaps' = snaps /\ row' = row
  BY DEF Reply
<1>6. QED
  BY <1>2, <1>3, <1>4, <1>5 DEF View!Reply

\* ImplementsPodView: for any number of containers and any pool size, the loop
\* over the snapshots, the semaphore and the two levels of wait groups are one
\* bounded pool that fills in every row once, before the reply.
THEOREM FanoutImplementsPodView == Spec => ImplementsPodView
<1>1. Init => View!Init
  <2> SUFFICES ASSUME Init PROVE View!Init
    OBVIOUS
  <2>1. Phase = "listing" /\ Holding = {} /\ snaps = {}
    BY DEF Init, Phase, Holding
  <2>2. PoolSize(Cardinality(snaps)) \in Nat \ {0}
    BY <2>1, PoolIsPositive
  <2>3. row = [c \in Snapshot |-> View!Blank]
    BY DEF Init, Unwritten, View!Blank
  <2>4. QED
    BY <2>1, <2>2, <2>3 DEF View!Init
<1>2. IInv /\ Fresh /\ [Next]_vars => [View!Next]_(View!vars)
  <2> SUFFICES ASSUME IInv, Fresh, [Next]_vars
               PROVE  View!Next \/ UNCHANGED View!vars
    OBVIOUS
  <2>1. CASE Main
    <3>1. CASE EndRange
      BY <3>1 DEF EndRange, View!vars, Phase, Holding
    <3>2. QED
      BY <2>1, <3>1, ListView, FailView, ReplyView, QuietView, LaunchView
      DEF Main, View!Next
  <2>2. CASE \E s \in Snapshot : Worker(s)
    BY <2>2, WriteView, ReleaseView, QuietView DEF Worker, View!Next, IInv, TypeOK
  <2>3. CASE UNCHANGED vars
    BY <2>3 DEF vars, View!vars, Phase, Holding
  <2>4. QED
    BY <2>1, <2>2, <2>3 DEF Next
<1>3. QED
  BY <1>1, <1>2, FreshInvariant, PTL DEF Spec, View!Spec, ImplementsPodView

=============================================================================
