-------------------------- MODULE ReapOrphansProofs --------------------------
(***************************************************************************)
(* Proofs about ReapOrphans, for any deploys, any number of concurrent     *)
(* reapers and any number of redeployments.                                *)
(***************************************************************************)
EXTENDS ReapOrphans, FiniteSetTheorems, TLAPS

\* The probe of d may say "gone" without knowing: it asks an engine that does
\* not run d, or a way it can fail counts as "gone".
Deceivable(d) ==
  \/ ~Visible(d)
  \/ \E a \in Faults[TargetOf[d]] : ~Verdict(TargetOf[d], a)

\* No deploy of this host has such a probe.
Tolerant == \A d \in Deploys : ~Deceivable(d)

\* The histories and the sets a reaper keeps belong to its one reading.
Bookkeeping ==
  \A r \in Reapers :
    /\ todo[r] \cup Condemned(r) \cup sawDead[r] \cup unsure[r] \subseteq loaded[r]
    /\ pc[r] = "start" => loaded[r] = {}
    /\ pc[r] \notin {"start", "probe", "failed"} => todo[r] = {}

LEMMA TypeInitial == Init => TypeOK
BY DEF Init, TypeOK

\* One lemma for the reaper's steps, one for the host's.
LEMMA TypeReaper ==
  ASSUME TypeOK, NEW r \in Reapers, Reaper(r)
  PROVE  TypeOK'
<1> USE DEF TypeOK
<1>1. CASE Load(r)
  BY <1>1 DEF Load, Active, world
<1>2. CASE LoadFails(r)
  BY <1>2 DEF LoadFails, world, history
<1>3. CASE EndProbes(r)
  BY <1>3 DEF EndProbes, world, history
<1>4. CASE EndReaps(r)
  BY <1>4 DEF EndReaps, world, history
<1>5. CASE ChildDestroys(r)
  BY <1>5 DEF ChildDestroys, history
<1>6. CASE ChildForgets(r)
  BY <1>6 DEF ChildForgets, history
<1>7. CASE ChildFails(r)
  BY <1>7 DEF ChildFails, world, history
<1>8. ASSUME NEW d \in Deploys, Probe(r, d) PROVE TypeOK'
  BY <1>8 DEF Probe, Record, world
<1>9. ASSUME NEW d \in Deploys, Reap(r, d) PROVE TypeOK'
  BY <1>9 DEF Reap, world, history
<1> QED
  BY <1>1, <1>2, <1>3, <1>4, <1>5, <1>6, <1>7, <1>8, <1>9 DEF Reaper

LEMMA TypeHost ==
  ASSUME TypeOK, Host
  PROVE  TypeOK'
<1> USE DEF TypeOK, history
<1>1. ASSUME NEW d \in Deploys, Die(d) PROVE TypeOK'
  BY <1>1 DEF Die
<1>2. ASSUME NEW d \in Deploys, Forget(d) PROVE TypeOK'
  BY <1>2 DEF Forget
<1>3. ASSUME NEW d \in Deploys, Deploy(d) PROVE TypeOK'
  BY <1>3 DEF Deploy
<1> QED
  BY <1>1, <1>2, <1>3 DEF Host

\* Every variable keeps its type, and no reaper has two children at once.
THEOREM TypeCorrect == Spec => []TypeOK
<1>1. TypeOK /\ UNCHANGED vars => TypeOK'
  BY DEF TypeOK, vars, world, history
<1>2. TypeOK /\ [Next]_vars => TypeOK'
  BY <1>1, TypeReaper, TypeHost DEF Next
<1> QED
  BY <1>2, TypeInitial, PTL DEF Spec

-----------------------------------------------------------------------------
LEMMA BookkeepingInvariant == Spec => []Bookkeeping
<1>1. Init => Bookkeeping
  BY DEF Init, Bookkeeping, Condemned
<1>2. TypeOK /\ Bookkeeping /\ [Next]_vars => Bookkeeping'
  <2> SUFFICES ASSUME TypeOK, Bookkeeping, [Next]_vars PROVE Bookkeeping'
    OBVIOUS
  <2> USE DEF TypeOK, Bookkeeping, Condemned
  <2>1. ASSUME NEW r \in Reapers, Reaper(r) PROVE Bookkeeping'
    <3>1. CASE Load(r)
      BY <3>1 DEF Load, Active, world
    <3>2. CASE LoadFails(r)
      BY <3>2 DEF LoadFails, world, history
    <3>3. CASE EndProbes(r)
      BY <3>3 DEF EndProbes, world, history
    <3>4. CASE EndReaps(r)
      BY <3>4 DEF EndReaps, world, history
    <3>5. CASE ChildDestroys(r)
      BY <3>5 DEF ChildDestroys, history
    <3>6. CASE ChildForgets(r)
      BY <3>6 DEF ChildForgets, history
    <3>7. CASE ChildFails(r)
      BY <3>7 DEF ChildFails, world, history
    <3>8. ASSUME NEW d \in Deploys, Probe(r, d) PROVE Bookkeeping'
      BY <3>8 DEF Probe, Record, world
    <3>9. ASSUME NEW d \in Deploys, Reap(r, d) PROVE Bookkeeping'
      BY <3>9 DEF Reap, world, history
    <3> QED
      BY <2>1, <3>1, <3>2, <3>3, <3>4, <3>5, <3>6, <3>7, <3>8, <3>9 DEF Reaper
  <2>2. CASE Host \/ UNCHANGED vars
    <3>1. UNCHANGED <<pc, todo, orphans, current, tried, loaded, sawDead, unsure>>
      BY <2>2 DEF Host, Die, Forget, Deploy, vars, history
    <3> QED
      BY <3>1
  <2> QED
    BY <2>1, <2>2 DEF Next
<1> QED
  BY <1>1, <1>2, TypeCorrect, PTL DEF Spec

-----------------------------------------------------------------------------
(* Every entry is probed once and deleted once.                            *)

EachOnce ==
  \A r \in Reapers :
    /\ todo[r] \cap (Condemned(r) \cup unsure[r]) = {}
    /\ orphans[r] \cap tried[r] = {}
    /\ current[r] \subseteq tried[r]

LEMMA EachOnceStep ==
  ASSUME TypeOK, Bookkeeping, EachOnce, [Next]_vars
  PROVE  EachOnce'
<1> USE DEF TypeOK, EachOnce, Condemned
<1>1. ASSUME NEW r \in Reapers, Reaper(r) PROVE EachOnce'
  <2>1. CASE Load(r)
    BY <2>1 DEF Load, Bookkeeping
  <2>2. CASE LoadFails(r) \/ EndProbes(r) \/ EndReaps(r)
    BY <2>2 DEF LoadFails, EndProbes, EndReaps, history
  <2>3. CASE ChildDestroys(r) \/ ChildForgets(r) \/ ChildFails(r)
    BY <2>3 DEF ChildDestroys, ChildForgets, ChildFails, history
  <2>4. ASSUME NEW d \in Deploys, Probe(r, d) PROVE EachOnce'
    BY <2>4 DEF Probe, Record
  <2>5. ASSUME NEW d \in Deploys, Reap(r, d) PROVE EachOnce'
    BY <2>5 DEF Reap, history
  <2>6. QED
    BY <1>1, <2>1, <2>2, <2>3, <2>4, <2>5 DEF Reaper
<1>2. CASE Host \/ UNCHANGED vars
  <2>1. UNCHANGED <<todo, orphans, current, tried, unsure>>
    BY <1>2 DEF Host, Die, Forget, Deploy, vars, history
  <2>2. QED
    BY <2>1
<1>3. QED
  BY <1>1, <1>2 DEF Next

\* A reaper probes an entry at most once and runs `charly deploy del` on it at
\* most once: a deletion that failed is reported and left (the loop of
\* command_reap_orphans.go:92-101).
THEOREM NobodyTwice == Spec => []EachOnce
<1>1. Init => EachOnce
  BY DEF Init, EachOnce, Condemned
<1>2. QED
  BY <1>1, EachOnceStep, TypeCorrect, BookkeepingInvariant, PTL DEF Spec

-----------------------------------------------------------------------------
(* Every turn of a reaper leaves it less to do.                            *)

Stage(r) ==
  CASE pc[r] = "start" -> 3
    [] pc[r] = "probe" -> 2
    [] pc[r] \in {"reap", "destroy", "forget"} -> 1
    [] OTHER -> 0

\* Entries that may still have to be probed, handed to a child process, stopped
\* and removed. Before the load this is every entry there may be.
ToProbe(r) == IF pc[r] = "start" THEN Deploys ELSE todo[r]
ToReap(r) == ToProbe(r) \cup orphans[r]
ToStop(r) == ToReap(r) \cup {d \in current[r] : pc[r] = "destroy"}
ToForget(r) == ToReap(r) \cup current[r]

Left(r) ==
  Stage(r) + Cardinality(ToProbe(r)) + Cardinality(ToReap(r))
           + Cardinality(ToStop(r)) + Cardinality(ToForget(r))

LEMMA Shrinks ==
  ASSUME NEW B \in SUBSET Deploys, NEW A \in SUBSET B
  PROVE  /\ Cardinality(A) \in Nat /\ Cardinality(B) \in Nat
         /\ Cardinality(A) <= Cardinality(B)
         /\ A # B => Cardinality(A) < Cardinality(B)
<1>1. IsFiniteSet(B)
  BY FS_Subset, ReapAssumption DEF ReapAssumption
<1>2. /\ IsFiniteSet(A) /\ Cardinality(A) <= Cardinality(B)
      /\ Cardinality(A) = Cardinality(B) => A = B
  BY <1>1, FS_Subset
<1>3. Cardinality(A) \in Nat /\ Cardinality(B) \in Nat
  BY <1>1, <1>2, FS_CardinalityType
<1>4. QED
  BY <1>2, <1>3

\* What a turn does to the four sets and to the stage.
LEMMA TurnShrinks ==
  ASSUME TypeOK, Bookkeeping, EachOnce, NEW r \in Reapers, Reaper(r)
  PROVE  /\ Stage(r)' <= Stage(r)
         /\ ToProbe(r)' \subseteq ToProbe(r) /\ ToReap(r)' \subseteq ToReap(r)
         /\ ToStop(r)' \subseteq ToStop(r) /\ ToForget(r)' \subseteq ToForget(r)
         /\ \/ Stage(r)' < Stage(r)
            \/ ToProbe(r)' # ToProbe(r) \/ ToReap(r)' # ToReap(r)
            \/ ToStop(r)' # ToStop(r) \/ ToForget(r)' # ToForget(r)
<1> USE DEF TypeOK, ToProbe, ToReap, ToStop, ToForget
<1>1. CASE Load(r)
  <2>1. Stage(r)' = 2 /\ Stage(r) = 3
    BY <1>1 DEF Load, Stage
  <2>2. QED
    BY <1>1, <2>1 DEF Load, Active
<1>2. CASE LoadFails(r)
  <2>1. Stage(r)' = 0 /\ Stage(r) = 3
    BY <1>2 DEF LoadFails, Stage
  <2>2. QED
    BY <1>2, <2>1 DEF LoadFails
<1>3. CASE EndProbes(r)
  <2>1. Stage(r)' < Stage(r) /\ Stage(r)' <= Stage(r)
    BY <1>3 DEF EndProbes, Stage
  <2>2. QED
    BY <1>3, <2>1 DEF EndProbes
<1>4. CASE EndReaps(r)
  <2>1. Stage(r)' = 0 /\ Stage(r) = 1
    BY <1>4 DEF EndReaps, Stage
  <2>2. QED
    BY <1>4, <2>1 DEF EndReaps
<1>5. ASSUME NEW d \in Deploys, Probe(r, d)
      PROVE  /\ Stage(r)' = Stage(r)
             /\ ToProbe(r)' \subseteq ToProbe(r) /\ ToReap(r)' \subseteq ToReap(r)
             /\ ToStop(r)' \subseteq ToStop(r) /\ ToForget(r)' \subseteq ToForget(r)
             /\ ToProbe(r)' # ToProbe(r)
  <2>1. /\ pc[r] = "probe" /\ pc' = pc /\ current' = current
        /\ d \in todo[r] /\ todo'[r] = todo[r] \ {d}
        /\ orphans'[r] \subseteq orphans[r] \cup {d}
    BY <1>5 DEF Probe
  <2>2. QED
    BY <2>1 DEF Stage
<1>6. ASSUME NEW d \in Deploys, Reap(r, d)
      PROVE  /\ Stage(r)' = Stage(r)
             /\ ToProbe(r)' \subseteq ToProbe(r) /\ ToReap(r)' \subseteq ToReap(r)
             /\ ToStop(r)' \subseteq ToStop(r) /\ ToForget(r)' \subseteq ToForget(r)
             /\ ToReap(r)' # ToReap(r)
  <2>1. /\ pc[r] = "reap" /\ pc'[r] = "destroy" /\ todo'[r] = {} /\ todo[r] = {}
        /\ d \in orphans[r] /\ orphans'[r] = orphans[r] \ {d}
        /\ current'[r] = {d}
    BY <1>6 DEF Reap, Bookkeeping
  <2>2. QED
    BY <2>1 DEF Stage
<1>7. CASE ChildDestroys(r) \/ ChildForgets(r) \/ ChildFails(r)
  <2>1. PICK d \in Deploys : current[r] = {d}
    BY <1>7 DEF ChildDestroys, ChildForgets, ChildFails
  <2>2. d \notin orphans[r]
    BY <2>1 DEF EachOnce
  <2>3. pc[r] \in {"destroy", "forget"} /\ todo[r] = {}
    BY <1>7 DEF ChildDestroys, ChildForgets, ChildFails, Bookkeeping
  <2>4. pc'[r] \in {"forget", "reap"} /\ UNCHANGED <<todo, orphans>>
    BY <1>7 DEF ChildDestroys, ChildForgets, ChildFails
  <2>5. Stage(r) = 1 /\ Stage(r)' = 1
    BY <2>3, <2>4 DEF Stage
  <2>6. ToProbe(r) = {} /\ ToProbe(r)' = {} /\ ToReap(r)' = ToReap(r)
    BY <2>3, <2>4
  <2>7. ToReap(r) = orphans[r] /\ ToStop(r)' = orphans[r]
    BY <2>3, <2>4
  <2>8. CASE ChildDestroys(r)
    <3>1. ToStop(r) = orphans[r] \cup {d} /\ ToForget(r)' = ToForget(r)
      BY <2>1, <2>3, <2>4, <2>8 DEF ChildDestroys
    <3>2. QED
      BY <2>2, <2>5, <2>6, <2>7, <3>1
  <2>9. CASE ChildForgets(r) \/ ChildFails(r)
    <3>1. current'[r] = {}
      BY <2>9 DEF ChildForgets, ChildFails
    <3>2. ToForget(r) = orphans[r] \cup {d} /\ ToForget(r)' = orphans[r]
      BY <2>1, <2>3, <2>4, <3>1
    <3>3. orphans[r] \subseteq ToStop(r)
      BY <2>3
    <3>4. QED
      BY <2>2, <2>5, <2>6, <2>7, <3>2, <3>3
  <2>10. QED
    BY <1>7, <2>8, <2>9
<1>8. QED
  <2>1. Stage(r) \in Nat /\ Stage(r)' \in Nat
    BY DEF Stage
  <2>2. QED
    BY <1>1, <1>2, <1>3, <1>4, <1>5, <1>6, <1>7, <2>1 DEF Reaper

\* Every turn of a reaper lowers what is left to it, and nobody else's turn raises
\* it: an invocation ends after at most four turns per entry of charly.yml and
\* three for itself, however deletions fail and whatever the others do.
THEOREM ReapersAdvance ==
  Spec => [][\A r \in Reapers :
               /\ Left(r)' \in Nat /\ Left(r)' <= Left(r)
               /\ Reaper(r) => Left(r)' < Left(r)]_vars
<1>1. ASSUME TypeOK, TypeOK', NEW r \in Reapers
      PROVE  /\ ToProbe(r) \in SUBSET Deploys /\ ToReap(r) \in SUBSET Deploys
             /\ ToStop(r) \in SUBSET Deploys /\ ToForget(r) \in SUBSET Deploys
             /\ Stage(r) \in Nat /\ Stage(r)' \in Nat
  BY <1>1 DEF TypeOK, ToProbe, ToReap, ToStop, ToForget, Stage
<1>2. ASSUME TypeOK, TypeOK', Bookkeeping, EachOnce, NEW r \in Reapers, Reaper(r)
      PROVE  Left(r)' < Left(r) /\ Left(r)' \in Nat /\ Left(r) \in Nat
  <2> DEFINE Drops(A, B) == /\ Cardinality(A) \in Nat /\ Cardinality(B) \in Nat
                            /\ Cardinality(A) <= Cardinality(B)
                            /\ A # B => Cardinality(A) < Cardinality(B)
  <2>1. /\ ToProbe(r)' \in SUBSET ToProbe(r) /\ ToReap(r)' \in SUBSET ToReap(r)
        /\ ToStop(r)' \in SUBSET ToStop(r) /\ ToForget(r)' \in SUBSET ToForget(r)
    BY <1>2, TurnShrinks
  <2>2. /\ Drops(ToProbe(r)', ToProbe(r)) /\ Drops(ToReap(r)', ToReap(r))
        /\ Drops(ToStop(r)', ToStop(r)) /\ Drops(ToForget(r)', ToForget(r))
    BY <1>1, <1>2, <2>1, Shrinks
  <2>3. /\ Stage(r)' <= Stage(r)
        /\ \/ Stage(r)' < Stage(r)
           \/ ToProbe(r)' # ToProbe(r) \/ ToReap(r)' # ToReap(r)
           \/ ToStop(r)' # ToStop(r) \/ ToForget(r)' # ToForget(r)
    BY <1>2, TurnShrinks
  <2>4. Left(r)' = Stage(r)' + Cardinality(ToProbe(r)') + Cardinality(ToReap(r)')
                     + Cardinality(ToStop(r)') + Cardinality(ToForget(r)')
    BY DEF Left
  <2>5. Left(r) = Stage(r) + Cardinality(ToProbe(r)) + Cardinality(ToReap(r))
                    + Cardinality(ToStop(r)) + Cardinality(ToForget(r))
    BY DEF Left
  <2> HIDE DEF Left, Stage, ToProbe, ToReap, ToStop, ToForget
  <2>6. QED
    BY <1>1, <1>2, <2>2, <2>3, <2>4, <2>5
<1>3. ASSUME TypeOK, TypeOK', NEW q \in Reapers, NEW r \in Reapers, q # r, Reaper(q)
      PROVE  Left(r)' = Left(r)
  <2>1. /\ pc'[r] = pc[r] /\ todo'[r] = todo[r] /\ orphans'[r] = orphans[r]
        /\ current'[r] = current[r]
    BY <1>3 DEF Reaper, Load, LoadFails, EndProbes, EndReaps, ChildDestroys,
       ChildForgets, ChildFails, Probe, Reap, TypeOK
  <2>2. QED
    BY <2>1 DEF Left, Stage, ToProbe, ToReap, ToStop, ToForget
<1>4. ASSUME Host \/ UNCHANGED vars, NEW r \in Reapers
      PROVE  Left(r)' = Left(r) /\ UNCHANGED <<pc, todo, orphans, current>>
  <2>1. UNCHANGED <<pc, todo, orphans, current>>
    BY <1>4 DEF Host, Die, Forget, Deploy, vars
  <2>2. QED
    BY <2>1 DEF Left, Stage, ToProbe, ToReap, ToStop, ToForget
<1>5. ASSUME TypeOK, TypeOK', NEW r \in Reapers
      PROVE  Left(r) \in Nat
  <2>1. \A A \in SUBSET Deploys : Cardinality(A) \in Nat
    BY FS_Subset, FS_CardinalityType, ReapAssumption DEF ReapAssumption
  <2>2. QED
    BY <1>1, <1>5, <2>1 DEF Left
<1>6. ASSUME TypeOK, TypeOK', Bookkeeping, EachOnce, Next, NEW r \in Reapers
      PROVE  /\ Left(r)' \in Nat /\ Left(r)' <= Left(r)
             /\ Reaper(r) => Left(r)' < Left(r)
  <2>1. CASE Reaper(r)
    <3>1. Left(r)' < Left(r) /\ Left(r)' \in Nat /\ Left(r) \in Nat
      BY <1>2, <1>6, <2>1
    <3> HIDE DEF Left
    <3>2. QED
      BY <3>1
  <2>2. CASE ~Reaper(r)
    <3>1. Left(r)' = Left(r) /\ Left(r) \in Nat
      BY <1>3, <1>4, <1>5, <1>6, <2>2 DEF Next
    <3> HIDE DEF Left
    <3>2. QED
      BY <2>2, <3>1
  <2>3. QED
    BY <2>1, <2>2
<1>7. QED
  <2>1. TypeOK /\ TypeOK' /\ Bookkeeping /\ EachOnce /\ [Next]_vars =>
          [\A r \in Reapers :
             /\ Left(r)' \in Nat /\ Left(r)' <= Left(r)
             /\ Reaper(r) => Left(r)' < Left(r)]_vars
    BY <1>6
  <2>2. QED
    BY <2>1, TypeCorrect, BookkeepingInvariant, NobodyTwice, PTL DEF Spec

-----------------------------------------------------------------------------
(* What is condemned was dead.                                             *)

\* A probe that cannot be deceived says "gone" only of what is, and knows it.
LEMMA HonestProbe ==
  ASSUME NEW d \in Deploys, ~Deceivable(d), NEW a \in Answers(d),
         ~Verdict(TargetOf[d], a)
  PROVE  ~alive[d] /\ a \notin Failures
<1>1. a \notin Faults[TargetOf[d]] /\ Visible(d)
  BY DEF Deceivable
<1>2. a # "exists"
  BY DEF Verdict
<1>3. a = "missing" /\ ~alive[d]
  BY <1>1, <1>2 DEF Answers
<1>4. QED
  BY <1>3 DEF Failures

\* Why an entry may be condemned at all.
Explained ==
  \A r \in Reapers : \A d \in Condemned(r) :
    /\ d \in loaded[r]
    /\ Deceivable(d) \/ d \in sawDead[r] \ unsure[r]

LEMMA ExplainedStep ==
  ASSUME TypeOK, Bookkeeping, EachOnce, Explained, [Next]_vars
  PROVE  Explained'
<1>1. ASSUME NEW r \in Reapers, Reaper(r) PROVE Explained'
  <2> USE DEF TypeOK, Explained, Condemned
  <2>1. CASE Load(r)
    BY <2>1 DEF Load, Bookkeeping
  <2>2. CASE LoadFails(r) \/ EndProbes(r) \/ EndReaps(r)
    BY <2>2 DEF LoadFails, EndProbes, EndReaps, history
  <2>3. CASE ChildDestroys(r) \/ ChildForgets(r) \/ ChildFails(r)
    BY <2>3 DEF ChildDestroys, ChildForgets, ChildFails, history
  <2>4. ASSUME NEW d \in Deploys, Probe(r, d) PROVE Explained'
    <3>1. PICK a \in Answers(d) :
            /\ orphans' = [orphans EXCEPT ![r] =
                  IF Verdict(TargetOf[d], a) THEN @ ELSE @ \cup {d}]
            /\ Record(r, d, a)
      BY <2>4 DEF Probe
    <3>2. /\ d \in loaded[r] /\ d \notin Condemned(r)
          /\ d \notin unsure[r] /\ UNCHANGED <<current, tried, loaded>>
      BY <2>4 DEF Probe, Bookkeeping, EachOnce
    <3>3. CASE Verdict(TargetOf[d], a)
      BY <3>1, <3>2, <3>3 DEF Record
    <3>4. CASE ~Verdict(TargetOf[d], a)
      <4>1. Deceivable(d) \/ (~alive[d] /\ a \notin Failures)
        BY <3>4, HonestProbe
      <4>2. QED
        BY <3>1, <3>2, <3>4, <4>1 DEF Record
    <3>5. QED
      BY <3>3, <3>4
  <2>5. ASSUME NEW d \in Deploys, Reap(r, d) PROVE Explained'
    BY <2>5 DEF Reap, history
  <2>6. QED
    BY <1>1, <2>1, <2>2, <2>3, <2>4, <2>5 DEF Reaper
<1>2. CASE Host \/ UNCHANGED vars
  <2>1. UNCHANGED <<orphans, current, tried, loaded, sawDead, unsure>>
    BY <1>2 DEF Host, Die, Forget, Deploy, vars, history
  <2>2. QED
    BY <2>1 DEF Explained, Condemned
<1>3. QED
  BY <1>1, <1>2 DEF Next

\* Whatever the probes of a host are like: an entry that is condemned was active
\* when it was read, and if its own probe cannot be deceived its resource was
\* gone, and was seen to be (command_reap_orphans.go:105-108). The exceptions
\* are named by Deceivable: a deploy of docker's asked of podman, a kubectl that
\* fails.
THEOREM CondemnationsExplained == Spec => []Explained
<1>1. Init => Explained
  BY DEF Init, Explained, Condemned
<1>2. QED
  BY <1>1, ExplainedStep, TypeCorrect, BookkeepingInvariant, NobodyTwice, PTL
  DEF Spec

\* Under probes that are tolerant, a reaper condemns only entries that were
\* active when it read them and whose resource was gone when it probed them,
\* whatever the other reapers, the teardowns and the user do meanwhile.
THEOREM OnlyTheDeadAreCondemned ==
  ASSUME Tolerant
  PROVE  Spec => []CondemnedWereDead
<1>1. TypeOK /\ Explained => CondemnedWereDead
  BY DEF TypeOK, Explained, Condemned, Tolerant, CondemnedWereDead
<1>2. QED
  BY <1>1, CondemnationsExplained, TypeCorrect, PTL

-----------------------------------------------------------------------------
(* Nobody is skipped.                                                      *)

\* Those a reaper saw dead, with a probe that told it so.
KnownDead(r) == {d \in sawDead[r] \ unsure[r] : TargetOf[d] \in Probed}

\* They wait for their deletion or have had it; a reaper ends when none waits.
NobodyLost ==
  \A r \in Reapers :
    /\ KnownDead(r) \subseteq orphans[r] \cup tried[r]
    /\ pc[r] = "done" => orphans[r] = {}

\* The probe of a resource that is gone says so, unless it fails.
LEMMA DeadIsOrphan ==
  ASSUME NEW d \in Deploys, NEW a \in Answers(d), ~alive[d],
         a \notin Failures, TargetOf[d] \in Probed
  PROVE  ~Verdict(TargetOf[d], a)
<1>1. Faults[TargetOf[d]] \subseteq Failures
  BY ReapAssumption DEF ReapAssumption
<1>2. a = "missing"
  BY <1>1 DEF Answers
<1>3. QED BY <1>2 DEF Verdict, Probed

LEMMA NobodyLostStep ==
  ASSUME TypeOK, Bookkeeping, NobodyLost, [Next]_vars
  PROVE  NobodyLost'
<1>1. ASSUME NEW r \in Reapers, Reaper(r), NEW q \in Reapers, q # r
      PROVE  /\ orphans'[q] = orphans[q] /\ tried'[q] = tried[q]
             /\ pc'[q] = pc[q] /\ KnownDead(q)' = KnownDead(q)
  BY <1>1 DEF Reaper, Load, LoadFails, EndProbes, EndReaps, ChildDestroys,
     ChildForgets, ChildFails, Probe, Record, Reap, history, TypeOK, KnownDead
<1>2. ASSUME NEW r \in Reapers, Reaper(r)
      PROVE  /\ KnownDead(r)' \subseteq orphans'[r] \cup tried'[r]
             /\ pc'[r] = "done" => orphans'[r] = {}
  <2>1. CASE Load(r) \/ LoadFails(r)
    BY <2>1 DEF Load, LoadFails, NobodyLost, KnownDead, TypeOK, history
  <2>2. CASE EndProbes(r) \/ EndReaps(r)
    BY <2>2 DEF EndProbes, EndReaps, NobodyLost, KnownDead, TypeOK, history
  <2>3. CASE ChildDestroys(r) \/ ChildForgets(r) \/ ChildFails(r)
    BY <2>3 DEF ChildDestroys, ChildForgets, ChildFails, NobodyLost, KnownDead,
       TypeOK, history
  <2>4. ASSUME NEW d \in Deploys, Probe(r, d)
        PROVE  /\ KnownDead(r)' \subseteq orphans'[r] \cup tried'[r]
               /\ pc'[r] = "done" => orphans'[r] = {}
    <3>1. PICK a \in Answers(d) :
            /\ orphans' = [orphans EXCEPT ![r] =
                  IF Verdict(TargetOf[d], a) THEN @ ELSE @ \cup {d}]
            /\ Record(r, d, a)
      BY <2>4 DEF Probe
    <3>2. pc[r] = "probe" /\ pc' = pc /\ tried' = tried
      BY <2>4 DEF Probe
    <3>3. orphans[r] \subseteq orphans'[r]
      BY <3>1 DEF TypeOK
    <3>4. KnownDead(r)' \subseteq KnownDead(r) \cup {d}
      BY <3>1 DEF Record, TypeOK, KnownDead
    <3>5. ASSUME d \in KnownDead(r)', d \notin KnownDead(r)
          PROVE  d \in orphans'[r]
      <4>1. a \notin Failures /\ TargetOf[d] \in Probed
        BY <3>1, <3>5 DEF Record, TypeOK, KnownDead
      <4>2. ~alive[d]
        BY <3>1, <3>5 DEF Record, TypeOK, KnownDead
      <4>3. ~Verdict(TargetOf[d], a)
        BY <4>1, <4>2, DeadIsOrphan
      <4>4. QED BY <3>1, <4>3 DEF TypeOK
    <3>6. QED BY <3>2, <3>3, <3>4, <3>5 DEF NobodyLost
  <2>5. ASSUME NEW d \in Deploys, Reap(r, d)
        PROVE  /\ KnownDead(r)' \subseteq orphans'[r] \cup tried'[r]
               /\ pc'[r] = "done" => orphans'[r] = {}
    BY <2>5 DEF Reap, NobodyLost, KnownDead, TypeOK, history
  <2>6. QED BY <1>2, <2>1, <2>2, <2>3, <2>4, <2>5 DEF Reaper
<1>3. CASE Host \/ UNCHANGED vars
  <2>1. UNCHANGED <<pc, orphans, tried, sawDead, unsure>>
    BY <1>3 DEF Host, Die, Forget, Deploy, vars, history
  <2>2. QED BY <2>1 DEF NobodyLost, KnownDead
<1>4. ASSUME NEW r \in Reapers, Reaper(r) PROVE NobodyLost'
  BY <1>1, <1>2, <1>4 DEF NobodyLost
<1>5. QED BY <1>3, <1>4 DEF Next

\* ReapOrphans!NoOrphanSkipped: a failed deletion costs nobody else his own.
THEOREM NobodySkipped == Spec => []NoOrphanSkipped
<1>1. Init => NobodyLost
  BY DEF Init, NobodyLost, KnownDead
<1>2. TypeOK /\ Bookkeeping /\ NobodyLost /\ [Next]_vars => NobodyLost'
  BY NobodyLostStep
<1>3. NobodyLost => NoOrphanSkipped
  BY DEF NobodyLost, KnownDead, NoOrphanSkipped
<1>4. QED
  BY <1>1, <1>2, <1>3, TypeCorrect, BookkeepingInvariant, PTL DEF Spec

-----------------------------------------------------------------------------
(* The race with a redeploy.                                               *)

\* A condemned resource that runs was deployed after its probe, or its probe
\* was deceived.
LivingAreNew ==
  \A r \in Reapers :
    /\ todo[r] \cap (orphans[r] \cup current[r]) = {}
    /\ \A d \in orphans[r] \cup current[r] :
         /\ seenGen[r][d] <= gen[d]
         /\ alive[d] => seenGen[r][d] < gen[d] \/ Deceivable(d)

LEMMA LivingAreNewReaper ==
  ASSUME TypeOK, Bookkeeping, LivingAreNew, NEW r \in Reapers,
         Reaper(r)
  PROVE  LivingAreNew'
<1>1. CASE Load(r)
  BY <1>1 DEF Load, Bookkeeping, Condemned, LivingAreNew, TypeOK, world
<1>2. CASE LoadFails(r) \/ EndProbes(r) \/ EndReaps(r)
  BY <1>2 DEF LoadFails, EndProbes, EndReaps, LivingAreNew, world, history
<1>3. CASE ChildDestroys(r)
  <2>1. /\ \A d \in Deploys : alive'[d] => alive[d]
        /\ UNCHANGED <<gen, todo, orphans, current, seenGen>>
    BY <1>3 DEF ChildDestroys, TypeOK, history
  <2>2. QED BY <2>1 DEF LivingAreNew, TypeOK
<1>4. CASE ChildForgets(r) \/ ChildFails(r)
  <2>1. /\ \A q \in Reapers : current'[q] \subseteq current[q]
        /\ UNCHANGED <<alive, gen, todo, orphans, seenGen>>
    BY <1>4 DEF ChildForgets, ChildFails, TypeOK, world, history
  <2>2. QED BY <2>1 DEF LivingAreNew
<1>5. ASSUME NEW d \in Deploys, Probe(r, d) PROVE LivingAreNew'
  <2>1. PICK a \in Answers(d) :
          /\ orphans' = [orphans EXCEPT ![r] =
                IF Verdict(TargetOf[d], a) THEN @ ELSE @ \cup {d}]
          /\ Record(r, d, a)
    BY <1>5 DEF Probe
  <2>2. /\ d \in todo[r] /\ todo' = [todo EXCEPT ![r] = @ \ {d}]
        /\ UNCHANGED <<gen, alive, current>>
    BY <1>5 DEF Probe, world
  <2>3. d \notin orphans[r] \cup current[r]
    BY <2>2 DEF LivingAreNew
  <2>4. seenGen' = [seenGen EXCEPT ![r][d] = gen[d]]
    BY <2>1 DEF Record
  <2>5. d \in orphans'[r] => ~alive[d] \/ Deceivable(d)
    BY <2>1, <2>3, HonestProbe DEF TypeOK
  <2>6. /\ orphans'[r] \subseteq orphans[r] \cup {d}
        /\ \A q \in Reapers \ {r} : orphans'[q] = orphans[q]
    BY <2>1 DEF TypeOK
  <2>7. seenGen'[r][d] = gen[d] /\ gen[d] \in Nat
    BY <2>4 DEF TypeOK
  <2>8. /\ \A e \in Deploys \ {d} : seenGen'[r][e] = seenGen[r][e]
        /\ \A q \in Reapers \ {r} : seenGen'[q] = seenGen[q]
    BY <2>4 DEF TypeOK
  <2>9. ASSUME NEW q \in Reapers
        PROVE  /\ todo'[q] \cap (orphans'[q] \cup current'[q]) = {}
               /\ \A e \in orphans'[q] \cup current'[q] :
                    /\ seenGen'[q][e] <= gen'[e]
                    /\ alive'[e] => seenGen'[q][e] < gen'[e] \/ Deceivable(e)
    <3>1. CASE q # r
      BY <3>1, <2>2, <2>6, <2>8 DEF LivingAreNew, TypeOK
    <3>2. CASE q = r
      <4>1. todo'[r] \cap (orphans'[r] \cup current'[r]) = {}
        BY <2>2, <2>6 DEF LivingAreNew, TypeOK
      <4>2. ASSUME NEW e \in orphans'[r] \cup current'[r]
            PROVE  /\ seenGen'[r][e] <= gen'[e]
                   /\ alive'[e] => seenGen'[r][e] < gen'[e] \/ Deceivable(e)
        <5>1. CASE e = d
          <6>1. d \in orphans'[r]
            BY <4>2, <5>1, <2>2, <2>3
          <6>2. (~alive'[d] \/ Deceivable(d)) /\ seenGen'[r][d] <= gen'[d]
            BY <6>1, <2>2, <2>5, <2>7
          <6>3. QED BY <5>1, <6>2
        <5>2. CASE e # d
          <6>1. e \in orphans[r] \cup current[r] /\ e \in Deploys
            BY <4>2, <5>2, <2>2, <2>6 DEF TypeOK
          <6>2. QED BY <6>1, <5>2, <2>2, <2>8 DEF LivingAreNew
        <5>3. QED BY <5>1, <5>2
      <4>3. QED BY <3>2, <4>1, <4>2
    <3>3. QED BY <3>1, <3>2
  <2>10. QED BY <2>9 DEF LivingAreNew
<1>6. ASSUME NEW d \in Deploys, Reap(r, d) PROVE LivingAreNew'
  BY <1>6 DEF Reap, LivingAreNew, TypeOK, world, history
<1>7. QED BY <1>1, <1>2, <1>3, <1>4, <1>5, <1>6 DEF Reaper

LEMMA LivingAreNewHost ==
  ASSUME TypeOK, LivingAreNew, Host
  PROVE  LivingAreNew'
<1>1. ASSUME NEW d \in Deploys, Die(d) \/ Forget(d) PROVE LivingAreNew'
  <2>1. /\ \A e \in Deploys : alive'[e] => alive[e]
        /\ UNCHANGED <<gen, todo, orphans, current, seenGen>>
    BY <1>1 DEF Die, Forget, TypeOK, history
  <2>2. QED BY <2>1 DEF LivingAreNew, TypeOK
<1>2. ASSUME NEW d \in Deploys, Deploy(d) PROVE LivingAreNew'
  <2>1. /\ gen' = [gen EXCEPT ![d] = gen[d] + 1]
        /\ \A e \in Deploys \ {d} : alive'[e] = alive[e]
        /\ UNCHANGED <<todo, orphans, current, seenGen>>
    BY <1>2 DEF Deploy, TypeOK, history
  <2>2. ASSUME NEW r \in Reapers, NEW e \in orphans[r] \cup current[r]
        PROVE  /\ seenGen[r][e] <= gen'[e]
               /\ alive'[e] => seenGen[r][e] < gen'[e] \/ Deceivable(e)
    <3>1. /\ e \in Deploys /\ seenGen[r][e] \in Nat /\ gen[e] \in Nat
          /\ seenGen[r][e] <= gen[e]
          /\ alive[e] => seenGen[r][e] < gen[e] \/ Deceivable(e)
      BY DEF LivingAreNew, TypeOK
    <3>2. CASE e = d
      <4>1. gen'[e] = gen[e] + 1
        BY <2>1, <3>2 DEF TypeOK
      <4>2. seenGen[r][e] < gen'[e] /\ seenGen[r][e] <= gen'[e]
        BY <3>1, <4>1
      <4>3. QED BY <4>2
    <3>3. CASE e # d
      BY <3>1, <3>3, <2>1 DEF TypeOK
    <3>4. QED BY <3>2, <3>3
  <2>3. QED BY <2>1, <2>2 DEF LivingAreNew
<1>3. QED BY <1>1, <1>2 DEF Host

\* Whatever the probes of a host are like: a reaper stops a running resource only
\* if the name was deployed again after its probe, or its probe was deceived.
THEOREM KillsExplained ==
  Spec => [][\A r \in Reapers, d \in Deploys :
               (d \in current[r] /\ ChildDestroys(r) /\ alive[d] /\ ~alive'[d])
                 => gen[d] > seenGen[r][d] \/ Deceivable(d)]_vars
<1>1. Init => LivingAreNew
  BY DEF Init, LivingAreNew
<1>2. TypeOK /\ Bookkeeping /\ LivingAreNew /\ [Next]_vars => LivingAreNew'
  <2> SUFFICES ASSUME TypeOK, Bookkeeping, LivingAreNew, [Next]_vars
               PROVE  LivingAreNew'
    OBVIOUS
  <2>1. CASE UNCHANGED vars
    BY <2>1 DEF vars, world, history, LivingAreNew
  <2>2. QED BY <2>1, LivingAreNewReaper, LivingAreNewHost DEF Next
<1>3. LivingAreNew /\ TypeOK /\ [Next]_vars =>
        [\A r \in Reapers, d \in Deploys :
           (d \in current[r] /\ ChildDestroys(r) /\ alive[d] /\ ~alive'[d])
             => gen[d] > seenGen[r][d] \/ Deceivable(d)]_vars
  <2> SUFFICES ASSUME LivingAreNew, TypeOK, NEW r \in Reapers, NEW d \in Deploys,
                      d \in current[r], alive[d]
               PROVE  gen[d] > seenGen[r][d] \/ Deceivable(d)
    OBVIOUS
  <2>1. /\ seenGen[r][d] < gen[d] \/ Deceivable(d)
        /\ seenGen[r][d] \in Nat /\ gen[d] \in Nat
    BY DEF LivingAreNew, TypeOK
  <2>2. QED BY <2>1
<1>4. QED
  BY <1>1, <1>2, <1>3, TypeCorrect, BookkeepingInvariant, PTL DEF Spec

\* ReapOrphans!LiveKillOnlyAfterRedeploy: with probes that are tolerant, a
\* deploy of the name after its probe is the only way to lose a live resource.
THEOREM OnlyRedeploysRace ==
  ASSUME Tolerant
  PROVE  Spec => LiveKillOnlyAfterRedeploy
<1>1. [\A r \in Reapers, d \in Deploys :
         (d \in current[r] /\ ChildDestroys(r) /\ alive[d] /\ ~alive'[d])
           => gen[d] > seenGen[r][d] \/ Deceivable(d)]_vars
      => [\A r \in Reapers, d \in Deploys :
            (d \in current[r] /\ ChildDestroys(r) /\ alive[d] /\ ~alive'[d])
              => gen[d] > seenGen[r][d]]_vars
  BY DEF Tolerant
<1>2. QED
  BY <1>1, KillsExplained, PTL DEF LiveKillOnlyAfterRedeploy
=============================================================================
