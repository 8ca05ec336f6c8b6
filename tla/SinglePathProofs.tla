-------------------------- MODULE SinglePathProofs --------------------------
(***************************************************************************)
(* Proofs about SinglePath.  TLC explores that module whole; the proofs    *)
(* say why the replies are right, whatever moves of the host come between  *)
(* the request's looks.                                                    *)
(***************************************************************************)
EXTENDS SinglePath, TLAPS

Running(p) == p \notin {"idle", "done"}

\* The host as it is now is among those seen; a unit that is there now and was
\* not active once has been inactive or failed.
Watched ==
  /\ seen \subseteq States
  /\ pc = "idle" => seen = {} /\ failed = {}
  /\ Running(pc) => <<unit, ctr>> \in seen
  /\ (Running(pc) /\ unit # "none" /\ Once(UnitIn({"none", "inactive", "failed"})))
       => Once(UnitIn({"inactive", "failed"}))
  /\ (pc = "unit" /\ "systemd" \notin failed)
       => Once(UnitIn({"none", "inactive", "failed"}))

\* What a status says of the host, from the look that gave it on.
Witnessed ==
  /\ status = "running" => Once(CtrIn({"running"})) \/ Once(UnitIn({"active"}))
  /\ status = "paused"  => Once(CtrIn({"paused"}))
  /\ status = "stopped" => Once(CtrIn({"absent", "exited"})) \/ "engine" \in failed
  /\ status = "enabled" => Once(UnitIn({"inactive", "failed"})) \/ "systemd" \in failed
  /\ status = "not configured" => Once(UnitIn({"none"})) \/ "unit" \in failed

\* How far the request has come to the conclusion that nothing runs.
AlwaysRan == Always(CtrIn({"running"}))
Excused   == ~quadlet \/ ~Always(UnitIn({"active"})) \/ "systemd" \in failed

Narrowed ==
  /\ pc \in {"idle", "engine"} => status = "" /\ failed = {}
  /\ pc = "probe" => status = "running" /\ "engine" \notin failed
  /\ pc \in {"systemd", "unit"} => status = "stopped" /\ quadlet
  /\ (pc = "resolve" /\ "engine" \in failed) => status = "stopped"
  /\ pc \in {"resolve", "systemd"} =>
        status = "running" \/ ~AlwaysRan \/ "engine" \in failed
  /\ pc \in {"unit", "done"} =>
        status = "running" \/ ~AlwaysRan \/ ("engine" \in failed /\ Excused)

IInv == TypeOK /\ Watched /\ Witnessed /\ Narrowed

-----------------------------------------------------------------------------
(* The host.                                                               *)

Units      == {"none", "inactive", "active", "failed"}
Containers == {"absent", "exited", "running", "paused"}

\* A move of the host: a unit becomes active only from inactive or failed, and
\* is installed inactive.
LEMMA HostMoves ==
  ASSUME TypeOK, Host
  PROVE  \E u \in Units, c \in Containers :
           /\ Moves(u, c)
           /\ u = "active" => c \in {"running", "paused"}
           /\ u = "active" => unit \in {"active", "inactive", "failed"}
<1> USE DEF TypeOK, Units, Containers
<1>1. CASE Install
  BY <1>1 DEF Install
<1>2. CASE Uninstall
  BY <1>2 DEF Uninstall
<1>3. CASE StartUnit
  BY <1>3 DEF StartUnit
<1>4. CASE StopUnit
  BY <1>4 DEF StopUnit
<1>5. CASE FailUnit
  BY <1>5 DEF FailUnit
<1>6. CASE RunDirect
  BY <1>6 DEF RunDirect
<1>7. CASE ExitDirect
  BY <1>7 DEF ExitDirect
<1>8. CASE Pause
  BY <1>8 DEF Pause
<1>9. CASE Unpause
  BY <1>9 DEF Unpause
<1> QED BY <1>1, <1>2, <1>3, <1>4, <1>5, <1>6, <1>7, <1>8, <1>9 DEF Host

\* What was seen and what failed only grows.
Grows == seen \subseteq seen' /\ failed \subseteq failed'

LEMMA OnceStays == ASSUME Grows, NEW S, Once(S) PROVE Once(S)'
BY DEF Once, Grows

LEMMA NotAlwaysStays == ASSUME Grows, NEW S, ~Always(S) PROVE ~Always(S)'
BY DEF Always, Grows

\* So what a status says of the host stays true.
LEMMA WitnessedStays == Grows /\ Witnessed /\ status' = status => Witnessed'
<1> SUFFICES ASSUME Grows, Witnessed, status' = status PROVE Witnessed'
  OBVIOUS
<1> QED BY OnceStays DEF Witnessed, Grows

\* And so does what the request has ruled out.
LEMMA RuledOutStays ==
  ASSUME Grows, quadlet' = quadlet
  PROVE  /\ ~AlwaysRan => ~AlwaysRan'
         /\ Excused => Excused'
BY NotAlwaysStays DEF AlwaysRan, Excused, Grows

\* The host now, as a pair the sets of states are told apart by.
LEMMA HostNow ==
  ASSUME TypeOK, <<unit, ctr>> \in seen
  PROVE  /\ \A C : ctr \in C => Once(CtrIn(C))
         /\ \A U : unit \in U => Once(UnitIn(U))
         /\ \A C : ctr \notin C => ~Always(CtrIn(C))
         /\ \A U : unit \notin U => ~Always(UnitIn(U))
<1>1. <<unit, ctr>> \in States
  BY DEF TypeOK, States
<1> QED BY <1>1 DEF Once, Always, CtrIn, UnitIn

-----------------------------------------------------------------------------
(* The invariant.                                                          *)

LEMMA InitIInv == Init => IInv
<1> SUFFICES ASSUME Init PROVE IInv
  OBVIOUS
<1>1. TypeOK
  BY DEF Init, TypeOK
<1>2. Watched /\ Witnessed /\ Narrowed
  BY DEF Init, Watched, Witnessed, Narrowed, Running, Once
<1> QED BY <1>1, <1>2 DEF IInv

\* A move of the host.
LEMMA HostIInv == IInv /\ Host => IInv'
<1> SUFFICES ASSUME TypeOK, Watched, Witnessed, Narrowed, Host PROVE IInv'
  BY DEF IInv
<1>1. PICK u \in Units, c \in Containers :
        /\ Moves(u, c)
        /\ u = "active" => c \in {"running", "paused"}
        /\ u = "active" => unit \in {"active", "inactive", "failed"}
  BY HostMoves
<1>2. /\ unit' = u /\ ctr' = c
      /\ seen' = IF Running(pc) THEN seen \cup {<<u, c>>} ELSE seen
      /\ UNCHANGED <<quadlet, pc, status, tools, failed>>
  BY <1>1 DEF Moves, Running
<1>3. Grows
  BY <1>2 DEF Grows
<1>4. TypeOK'
  BY <1>1, <1>2 DEF TypeOK, Units, Containers
<1>5. Watched'
  <2>1. seen' \subseteq States /\ (Running(pc) => <<u, c>> \in seen')
    BY <1>2 DEF Watched, States, Units, Containers
  <2>2. ASSUME Running(pc), u # "none", Once(UnitIn({"none", "inactive", "failed"}))'
        PROVE  Once(UnitIn({"inactive", "failed"}))'
    <3>1. <<u, c>> \in seen' /\ <<u, c>> \in States
      BY <2>1, <2>2
    <3>2. CASE u \in {"inactive", "failed"}
      BY <3>1, <3>2 DEF Once, UnitIn
    <3>3. CASE u = "active" /\ unit \in {"inactive", "failed"}
      <4>1. <<unit, ctr>> \in seen
        BY <2>2 DEF Watched
      <4>2. Once(UnitIn({"inactive", "failed"}))
        BY <3>3, <4>1, HostNow
      <4> QED BY <1>3, <4>2, OnceStays
    <3>4. CASE u = "active" /\ unit = "active"
      <4>1. Once(UnitIn({"none", "inactive", "failed"}))
        BY <1>2, <2>2, <3>4 DEF Once, UnitIn
      <4>2. Once(UnitIn({"inactive", "failed"}))
        BY <2>2, <3>4, <4>1 DEF Watched
      <4> QED BY <1>3, <4>2, OnceStays
    <3> QED BY <1>1, <2>2, <3>2, <3>3, <3>4 DEF Units
  <2>3. (pc = "unit" /\ "systemd" \notin failed)
          => Once(UnitIn({"none", "inactive", "failed"}))'
    BY <1>3, OnceStays DEF Watched
  <2>4. pc = "idle" => seen' = {} /\ failed' = {}
    BY <1>2 DEF Watched, Running
  <2> QED BY <1>2, <2>1, <2>2, <2>3, <2>4 DEF Watched
<1>6. Witnessed'
  BY <1>2, <1>3, WitnessedStays
<1>7. Narrowed'
  BY <1>2, <1>3, RuledOutStays DEF Narrowed
<1> QED BY <1>4, <1>5, <1>6, <1>7 DEF IInv

\* A look, made or failed, changes nothing of the host and remembers more.
LEMMA LookGrows ==
  ASSUME TypeOK, Watched, Request, ~Begin
  PROVE  /\ UNCHANGED <<host, seen>> /\ Grows
         /\ pc # "idle" /\ pc # "done" /\ pc' # "idle"
         /\ <<unit, ctr>> \in seen
         /\ failed' \subseteq Looks
<1> USE DEF Makes, Misses, Grows, TypeOK, Looks
<1>1. CASE Snapshot \/ SnapshotFails
  BY <1>1 DEF Snapshot, SnapshotFails, Watched, Running
<1>2. CASE Probe \/ ProbeFails
  BY <1>2 DEF Probe, ProbeFails, Watched, Running
<1>3. CASE Resolve
  BY <1>3 DEF Resolve, Watched, Running
<1>4. CASE Systemd \/ SystemdFails
  BY <1>4 DEF Systemd, SystemdFails, Watched, Running
<1>5. CASE Unit \/ UnitFails
  BY <1>5 DEF Unit, UnitFails, Watched, Running
<1> QED BY <1>1, <1>2, <1>3, <1>4, <1>5 DEF Request

\* So what was seen stays watched, if the last look finds no active unit.
LEMMA LookWatched ==
  ASSUME TypeOK, Watched, Request, ~Begin,
         pc' = "unit" => unit \in {"none", "inactive", "failed"} \/ "systemd" \in failed'
  PROVE  Watched'
<1>1. /\ UNCHANGED <<host, seen>> /\ Grows
      /\ pc # "idle" /\ pc # "done" /\ pc' # "idle"
      /\ <<unit, ctr>> \in seen
  BY LookGrows
<1>2. unit' = unit /\ ctr' = ctr /\ seen' = seen
  BY <1>1 DEF host
<1>3. \A S : Once(S)' <=> Once(S)
  BY <1>2 DEF Once
<1>4. unit \in {"none", "inactive", "failed"} => Once(UnitIn({"none", "inactive", "failed"}))
  BY <1>1, HostNow
<1> QED BY <1>1, <1>2, <1>3, <1>4 DEF Watched, Running

LEMMA BeginIInv == IInv /\ Begin => IInv'
<1> SUFFICES ASSUME TypeOK, Watched, Witnessed, Narrowed, Begin PROVE IInv'
  BY DEF IInv
<1>1. /\ pc = "idle" /\ pc' = "engine" /\ seen' = {<<unit, ctr>>}
      /\ unit' = unit /\ ctr' = ctr /\ quadlet' = quadlet
      /\ UNCHANGED <<status, tools, failed>>
  BY DEF Begin, host
<1>2. seen = {} /\ failed = {}
  BY <1>1 DEF Watched
<1>3. Grows
  BY <1>1, <1>2 DEF Grows
<1>4. TypeOK'
  BY <1>1 DEF TypeOK
<1>5. Watched'
  <2>1. <<unit, ctr>> \in States
    BY DEF TypeOK, States
  <2>2. (unit # "none" /\ Once(UnitIn({"none", "inactive", "failed"}))')
          => Once(UnitIn({"inactive", "failed"}))'
    BY <1>1, <2>1 DEF Once, UnitIn
  <2> QED BY <1>1, <1>2, <2>1, <2>2 DEF Watched, Running
<1>6. Witnessed'
  BY <1>1, <1>3, WitnessedStays
<1>7. Narrowed'
  BY <1>1 DEF Narrowed
<1> QED BY <1>4, <1>5, <1>6, <1>7 DEF IInv

\* The engine's listing settles the status but for what is not running.
LEMMA SnapshotIInv == IInv /\ (Snapshot \/ SnapshotFails) => IInv'
<1> SUFFICES ASSUME TypeOK, Watched, Witnessed, Narrowed, Snapshot \/ SnapshotFails PROVE IInv'
  BY DEF IInv
<1>1. Request /\ ~Begin
  BY DEF Request, Begin, Snapshot, SnapshotFails, Makes, Misses
<1>2. /\ UNCHANGED <<host, seen>> /\ Grows /\ <<unit, ctr>> \in seen /\ failed' \subseteq Looks
  BY <1>1, LookGrows
<1>3. /\ pc' \in {"probe", "resolve"} /\ tools' = tools
      /\ status' \in {"running", "paused", "stopped"}
      /\ pc' = "probe" <=> status' = "running"
      /\ \/ failed' = failed /\ status' = StatusFromState(ctr)
         \/ failed' = failed \cup {"engine"} /\ status' = "stopped"
  BY DEF Snapshot, SnapshotFails, Makes, Misses, StatusFromState
<1>4. pc = "engine"
  BY DEF Snapshot, SnapshotFails, Makes, Misses
<1>5. unit' = unit /\ ctr' = ctr /\ quadlet' = quadlet /\ seen' = seen
  BY <1>2 DEF host
<1>6. TypeOK'
  <2>1. tools = FALSE
    BY <1>4 DEF Narrowed, TypeOK
  <2> QED BY <1>2, <1>3, <1>5, <2>1 DEF TypeOK
<1>7. Watched'
  BY <1>1, <1>3, LookWatched
<1>8. CASE failed' = failed /\ status' = StatusFromState(ctr)
  <2>1. status' = "running" => ctr = "running"
    BY <1>8 DEF StatusFromState
  <2>2. status' = "paused" => ctr = "paused"
    BY <1>8 DEF StatusFromState
  <2>3. status' = "stopped" => ctr \in {"absent", "exited"}
    BY <1>8 DEF StatusFromState, TypeOK
  <2>4. status' # "running" => ctr # "running"
    BY <1>8 DEF StatusFromState
  <2>5. Witnessed'
    <3>1. /\ status' = "running" => Once(CtrIn({"running"}))
          /\ status' = "paused" => Once(CtrIn({"paused"}))
          /\ status' = "stopped" => Once(CtrIn({"absent", "exited"}))
      BY <1>2, <2>1, <2>2, <2>3, HostNow
    <3> QED BY <1>2, <1>3, <3>1, OnceStays DEF Witnessed
  <2>6. status' # "running" => ~AlwaysRan'
    BY <1>2, <2>4, HostNow, RuledOutStays, <1>5 DEF AlwaysRan
  <2>7. "engine" \notin failed'
    BY <1>4, <1>8 DEF Narrowed
  <2>8. Narrowed'
    BY <1>3, <1>8, <2>6, <2>7 DEF Narrowed
  <2> QED BY <1>6, <1>7, <2>5, <2>8 DEF IInv
<1>9. CASE failed' = failed \cup {"engine"} /\ status' = "stopped"
  <2>1. Witnessed'
    BY <1>9 DEF Witnessed
  <2>2. Narrowed'
    BY <1>3, <1>9 DEF Narrowed
  <2> QED BY <1>6, <1>7, <2>1, <2>2 DEF IInv
<1> QED BY <1>3, <1>8, <1>9

\* The probe adds tools to a running row.
LEMMA ProbeIInv == IInv /\ (Probe \/ ProbeFails) => IInv'
<1> SUFFICES ASSUME TypeOK, Watched, Witnessed, Narrowed, Probe \/ ProbeFails PROVE IInv'
  BY DEF IInv
<1>1. Request /\ ~Begin
  BY DEF Request, Begin, Probe, ProbeFails, Makes, Misses
<1>2. /\ UNCHANGED <<host, seen>> /\ Grows /\ failed' \subseteq Looks
  BY <1>1, LookGrows
<1>3. /\ pc = "probe" /\ pc' = "resolve" /\ status' = status /\ status = "running"
      /\ tools' \in BOOLEAN
  BY DEF Probe, ProbeFails, Makes, Misses, TypeOK, Narrowed
<1>4. unit' = unit /\ ctr' = ctr /\ quadlet' = quadlet /\ seen' = seen
  BY <1>2 DEF host
<1>5. TypeOK'
  BY <1>2, <1>3, <1>4 DEF TypeOK
<1>6. Watched'
  BY <1>1, <1>3, LookWatched
<1>7. Witnessed'
  BY <1>2, <1>3, WitnessedStays
<1>8. "engine" \notin failed'
  BY <1>3 DEF Probe, ProbeFails, Makes, Misses, Narrowed
<1>9. Narrowed'
  BY <1>3, <1>8 DEF Narrowed
<1> QED BY <1>5, <1>6, <1>7, <1>9 DEF IInv

\* What does not run is looked up further in quadlet mode, and only there.
LEMMA ResolveIInv == IInv /\ Resolve => IInv'
<1> SUFFICES ASSUME TypeOK, Watched, Witnessed, Narrowed, Resolve PROVE IInv'
  BY DEF IInv
<1>1. Request /\ ~Begin
  BY DEF Request, Begin, Resolve
<1>2. /\ UNCHANGED <<host, seen>> /\ Grows
  BY <1>1, LookGrows
<1>3. /\ pc = "resolve" /\ pc' = IF status = "stopped" /\ quadlet THEN "systemd" ELSE "done"
      /\ UNCHANGED <<status, tools, failed>>
  BY DEF Resolve
<1>4. unit' = unit /\ ctr' = ctr /\ quadlet' = quadlet /\ seen' = seen
  BY <1>2 DEF host
<1>5. TypeOK'
  BY <1>3, <1>4 DEF TypeOK
<1>6. Watched'
  BY <1>1, <1>3, LookWatched
<1>7. Witnessed'
  BY <1>2, <1>3, WitnessedStays
<1>8. Narrowed'
  <2>1. ~AlwaysRan => ~AlwaysRan'
    BY <1>2, <1>4, RuledOutStays
  <2>2. ~quadlet => Excused'
    BY <1>4 DEF Excused
  <2>3. CASE status = "stopped" /\ quadlet
    BY <1>3, <1>4, <2>1, <2>3 DEF Narrowed
  <2>4. CASE status # "stopped"
    BY <1>3, <2>1, <2>4 DEF Narrowed
  <2>5. CASE status = "stopped" /\ ~quadlet
    BY <1>3, <2>1, <2>2, <2>5 DEF Narrowed
  <2> QED BY <2>3, <2>4, <2>5
<1> QED BY <1>5, <1>6, <1>7, <1>8 DEF IInv

\* systemd says it runs, or leaves the directory to be looked at.
LEMMA SystemdIInv == IInv /\ (Systemd \/ SystemdFails) => IInv'
<1> SUFFICES ASSUME TypeOK, Watched, Witnessed, Narrowed, Systemd \/ SystemdFails PROVE IInv'
  BY DEF IInv
<1>1. Request /\ ~Begin
  BY DEF Request, Begin, Systemd, SystemdFails, Makes, Misses
<1>2. /\ UNCHANGED <<host, seen>> /\ Grows /\ <<unit, ctr>> \in seen /\ failed' \subseteq Looks
  BY <1>1, LookGrows
<1>3. /\ pc = "systemd" /\ tools' = tools
      /\ \/ failed' = failed /\ unit = "active" /\ status' = "running" /\ pc' = "done"
         \/ failed' = failed /\ unit # "active" /\ status' = status /\ pc' = "unit"
         \/ failed' = failed \cup {"systemd"} /\ status' = status /\ pc' = "unit"
  BY DEF Systemd, SystemdFails, Makes, Misses, IsActive
<1>4. unit' = unit /\ ctr' = ctr /\ quadlet' = quadlet /\ seen' = seen
  BY <1>2 DEF host
<1>5. status = "stopped" /\ tools = FALSE
  BY <1>3 DEF Narrowed, TypeOK
<1>6. TypeOK'
  BY <1>2, <1>3, <1>4, <1>5 DEF TypeOK
<1>7. Watched'
  BY <1>1, <1>3, LookWatched DEF TypeOK
<1>8. Witnessed'
  <2>1. CASE status' = status
    BY <1>2, <2>1, WitnessedStays
  <2>2. CASE status' = "running" /\ unit = "active"
    <3>1. Once(UnitIn({"active"}))
      BY <1>2, <2>2, HostNow
    <3> QED BY <1>2, <2>2, <3>1, OnceStays DEF Witnessed
  <2> QED BY <1>3, <2>1, <2>2
<1>9. Narrowed'
  <2>1. ~AlwaysRan => ~AlwaysRan'
    BY <1>2, <1>4, RuledOutStays
  <2>2. unit # "active" => Excused'
    <3>1. unit # "active" => ~Always(UnitIn({"active"}))
      BY <1>2, HostNow
    <3> QED BY <1>2, <1>4, <3>1, NotAlwaysStays DEF Excused
  <2>3. "systemd" \in failed' => Excused'
    BY DEF Excused
  <2>4. "engine" \in failed => "engine" \in failed'
    BY <1>3
  <2> QED BY <1>3, <1>4, <1>5, <2>1, <2>2, <2>3, <2>4 DEF Narrowed
<1> QED BY <1>6, <1>7, <1>8, <1>9 DEF IInv

\* The directory tells enabled from not configured.
LEMMA UnitIInv == IInv /\ (Unit \/ UnitFails) => IInv'
<1> SUFFICES ASSUME TypeOK, Watched, Witnessed, Narrowed, Unit \/ UnitFails PROVE IInv'
  BY DEF IInv
<1>1. Request /\ ~Begin
  BY DEF Request, Begin, Unit, UnitFails, Makes, Misses
<1>2. /\ UNCHANGED <<host, seen>> /\ Grows /\ <<unit, ctr>> \in seen /\ failed' \subseteq Looks
  BY <1>1, LookGrows
<1>3. /\ pc = "unit" /\ pc' = "done" /\ tools' = tools
      /\ \/ failed' = failed /\ unit # "none" /\ status' = "enabled"
         \/ failed' = failed /\ unit = "none" /\ status' = "not configured"
         \/ failed' = failed \cup {"unit"} /\ status' = "not configured"
  BY DEF Unit, UnitFails, Makes, Misses
<1>4. unit' = unit /\ ctr' = ctr /\ quadlet' = quadlet /\ seen' = seen
  BY <1>2 DEF host
<1>5. status = "stopped" /\ tools = FALSE
  BY <1>3 DEF Narrowed, TypeOK
<1>6. TypeOK'
  BY <1>2, <1>3, <1>4, <1>5 DEF TypeOK
<1>7. Watched'
  BY <1>1, <1>3, LookWatched
<1>8. Witnessed'
  <2>1. CASE unit # "none" /\ status' = "enabled"
    <3>1. "systemd" \in failed \/ Once(UnitIn({"inactive", "failed"}))
      BY <1>3, <2>1 DEF Watched, Running
    <3> QED BY <1>2, <2>1, <3>1, OnceStays DEF Witnessed, Grows
  <2>2. CASE unit = "none" /\ status' = "not configured"
    <3>1. Once(UnitIn({"none"}))
      BY <1>2, <2>2, HostNow
    <3> QED BY <1>2, <2>2, <3>1, OnceStays DEF Witnessed
  <2>3. CASE "unit" \in failed' /\ status' = "not configured"
    BY <2>3 DEF Witnessed
  <2> QED BY <1>3, <2>1, <2>2, <2>3
<1>9. Narrowed'
  <2>1. ~AlwaysRan => ~AlwaysRan'
    BY <1>2, <1>4, RuledOutStays
  <2>2. Excused => Excused'
    BY <1>2, <1>4, RuledOutStays
  <2>3. "engine" \in failed => "engine" \in failed'
    BY <1>3
  <2> QED BY <1>3, <1>5, <2>1, <2>2, <2>3 DEF Narrowed
<1> QED BY <1>6, <1>7, <1>8, <1>9 DEF IInv

LEMMA StutterIInv == IInv /\ UNCHANGED vars => IInv'
<1> SUFFICES ASSUME IInv, UNCHANGED vars PROVE IInv'
  OBVIOUS
<1>1. UNCHANGED <<quadlet, unit, ctr, pc, status, tools, seen, failed>>
  BY DEF vars, host
<1>2. Grows /\ \A S : Once(S)' <=> Once(S)
  BY <1>1 DEF Grows, Once
<1>3. TypeOK'
  BY <1>1 DEF IInv, TypeOK
<1>4. Watched'
  BY <1>1, <1>2 DEF IInv, Watched, Running
<1>5. Witnessed'
  BY <1>1, <1>2, WitnessedStays DEF IInv
<1>6. Narrowed'
  BY <1>1, <1>2, RuledOutStays DEF IInv, Narrowed
<1> QED BY <1>3, <1>4, <1>5, <1>6 DEF IInv

\* The strengthened invariant holds in every behaviour.
THEOREM Invariant == Spec => []IInv
<1>1. IInv /\ [Next]_vars => IInv'
  BY BeginIInv, SnapshotIInv, ProbeIInv, ResolveIInv, SystemdIInv, UnitIInv, HostIInv,
     StutterIInv DEF Next, Request
<1> QED BY InitIInv, <1>1, PTL DEF Spec

\* Type correctness; and tools are shown of running containers only.
THEOREM TypeCorrect == Spec => []TypeOK
<1>1. IInv => TypeOK
  BY DEF IInv
<1> QED BY Invariant, <1>1, PTL

\* However the host moves between the four looks, a status is of a moment it
\* had, unless the look that would have told failed.
THEOREM Reported == Spec => []StatusWitnessed
<1>1. IInv => StatusWitnessed
  BY DEF IInv, Witnessed, StatusWitnessed
<1> QED BY Invariant, <1>1, PTL

\* What runs all along is reported running, by systemd if not by the engine.
THEOREM RunningReported == Spec => []RunningIsReported
<1>1. IInv => RunningIsReported
  BY DEF IInv, Narrowed, RunningIsReported, AlwaysRan, Excused
<1> QED BY Invariant, <1>1, PTL

-----------------------------------------------------------------------------
(* A failed unit.                                                          *)

\* A quadlet's unit has failed before the request and stays so, and no look
\* fails: all that FailedIsReported asks for.
FailedAllAlong ==
  quadlet /\ failed = {} /\ Always(UnitIn({"failed"}) \cap CtrIn({"absent"}))

\* Its way through the request leaves no choice.
Misjudged ==
  FailedAllAlong =>
    \/ pc \in {"idle", "engine"} /\ status = ""
    \/ pc \in {"resolve", "systemd", "unit"} /\ status = "stopped"
    \/ pc = "done" /\ status = "enabled"

\* The host as a request in progress that meets such a unit finds it.
LEMMA FailedNow ==
  ASSUME Watched, FailedAllAlong, Running(pc)
  PROVE  unit = "failed" /\ ctr = "absent"
BY DEF Watched, FailedAllAlong, Always, UnitIn, CtrIn

LEMMA NextMisjudged == IInv /\ Misjudged /\ [Next]_vars => Misjudged'
<1> SUFFICES ASSUME IInv, Misjudged, [Next]_vars, FailedAllAlong'
             PROVE  \/ pc' \in {"idle", "engine"} /\ status' = ""
                    \/ pc' \in {"resolve", "systemd", "unit"} /\ status' = "stopped"
                    \/ pc' = "done" /\ status' = "enabled"
  BY DEF Misjudged
<1> USE DEF IInv
<1>1. CASE Request /\ ~Begin
  <2>1. /\ UNCHANGED <<host, seen>> /\ Grows /\ Running(pc)
    BY <1>1, LookGrows DEF Running
  <2>2. failed = {} /\ failed' = {} /\ FailedAllAlong /\ unit = "failed" /\ ctr = "absent"
    <3>1. failed' = {} /\ failed = {}
      BY <2>1 DEF FailedAllAlong, Grows
    <3>2. FailedAllAlong
      BY <2>1, <3>1 DEF FailedAllAlong, Always, host
    <3> QED BY <2>1, <3>1, <3>2, FailedNow
  <2>3. ~SnapshotFails /\ ~ProbeFails /\ ~SystemdFails /\ ~UnitFails
    BY <2>2 DEF SnapshotFails, ProbeFails, SystemdFails, UnitFails, Misses
  <2>4. CASE Snapshot
    BY <2>2, <2>4 DEF Snapshot, StatusFromState
  <2>5. CASE Probe
    BY <2>2, <2>5 DEF Probe, Makes, Misjudged
  <2>6. CASE Resolve
    BY <2>2, <2>6 DEF Resolve, Misjudged, FailedAllAlong
  <2>7. CASE Systemd
    BY <2>2, <2>7 DEF Systemd, Makes, IsActive, Misjudged
  <2>8. CASE Unit
    BY <2>2, <2>8 DEF Unit
  <2> QED BY <1>1, <2>3, <2>4, <2>5, <2>6, <2>7, <2>8 DEF Request
<1>2. CASE Begin
  BY <1>2 DEF Begin, Narrowed
<1>3. CASE Host
  <2>1. PICK u, c : Moves(u, c)
    BY <1>3, HostMoves
  <2>2. FailedAllAlong
    BY <2>1 DEF Moves, FailedAllAlong, Always
  <2> QED BY <2>1, <2>2 DEF Moves, Misjudged
<1>4. CASE UNCHANGED vars
  <2>1. FailedAllAlong
    BY <1>4 DEF vars, host, FailedAllAlong, Always
  <2> QED BY <1>4, <2>1 DEF vars, Misjudged
<1> QED BY <1>1, <1>2, <1>3, <1>4 DEF Next

\* Whatever resolveSystemdState is said to decide, a unit that has failed for
\* all of the request is reported as enabled by every request that none of its
\* looks failed: it takes no unlucky moment.
FailedIsEnabled == (pc = "done" /\ FailedAllAlong) => status = "enabled"

\* The reply to a failed unit, in every behaviour.
THEOREM FailedShowsEnabled == Spec => []FailedIsEnabled
<1>1. Init => Misjudged
  BY DEF Init, Misjudged
<1>2. Spec => []Misjudged
  BY Invariant, <1>1, NextMisjudged, PTL DEF Spec
<1>3. Misjudged => FailedIsEnabled
  BY DEF Misjudged, FailedIsEnabled
<1> QED BY <1>2, <1>3, PTL
=============================================================================
