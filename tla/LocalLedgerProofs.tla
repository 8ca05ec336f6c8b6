-------------------------- MODULE LocalLedgerProofs --------------------------
(***************************************************************************)
(* Proofs about LocalLedger, for any ledger and any set of stamps.         *)
(*                                                                         *)
(* Both passes fold records into aggregates in an arbitrary order.  The    *)
(* invariant says what an aggregate is in terms of the set of records      *)
(* gathered so far, in which the order has disappeared.                    *)
(***************************************************************************)
EXTENDS LocalLedger, TLAPS

\* t is the stamp to keep of those in S: the newest that parses, if any does.
Best(t, S) ==
  IF S \cap Times = {} THEN t \notin Times
  ELSE t \in S \cap Times /\ \A u \in S \cap Times : u <= t

\* An aggregate is what the deploy records D and candy records C make it.
Matches(agg, D, C) ==
  /\ agg.known <=> D \cup C # {}
  /\ agg.candy = {c \in Candies :
                    \/ \E rec \in D : c \in rec.candy \cup rec.addCandy
                    \/ \E rec \in C : c = rec.candy}
  /\ Best(agg.latest, {rec.at : rec \in D \cup C})

SeenD(id) == {rec \in deploys \ todoD : rec.id = id}
SeenC(id) == {rec \in candies \ todoC : id \in rec.by}

Gathering == pc \in {"deploys", "candies"}

IInv ==
  /\ TypeOK
  /\ Gathering => \A id \in Ids : Matches(aggs[id], SeenD(id), SeenC(id))
  /\ pc = "read" => aggs = [id \in Ids |-> NoAgg] /\ rows = {}
  /\ pc = "candies" => todoD = {}
  /\ pc \in {"deploys", "candies"} => rows = {}
  /\ RowsMatchLedger

-----------------------------------------------------------------------------
(* Lemmas about newerTimestamp.                                            *)

LEMMA TimesNat == Times \subseteq Nat
BY LedgerAssumption

LEMMA NewerTyped ==
  ASSUME NEW a \in Stamps, NEW b \in Stamps
  PROVE  Newer(a, b) \in {a, b}
BY LedgerAssumption DEF Newer, Stamps

\* An instant is only ever replaced by a later one.
LEMMA NewerForward ==
  ASSUME NEW a \in Times, NEW b \in Stamps
  PROVE  Newer(a, b) \in Times /\ Newer(a, b) >= a
BY LedgerAssumption DEF Newer, Stamps

\* Keeping the best of what was seen and one more keeps the best of both.
LEMMA NewerBest ==
  ASSUME NEW t \in Stamps, NEW at \in Stamps, NEW S \in SUBSET Stamps,
         Best(t, S)
  PROVE  Best(Newer(t, at), S \cup {at})
<1>1. CASE S \cap Times = {}
  <2>1. t \notin Times
    BY <1>1 DEF Best
  <2>2. CASE at \in Times
    <3>1. Newer(t, at) = at
      BY <2>1, <2>2, LedgerAssumption DEF Newer, Stamps
    <3>2. (S \cup {at}) \cap Times = {at}
      BY <1>1, <2>2
    <3> QED
      BY <2>2, <3>1, <3>2, LedgerAssumption DEF Best
  <2>3. CASE at \notin Times
    <3>1. Newer(t, at) \notin Times
      BY <2>1, <2>3, NewerTyped
    <3>2. (S \cup {at}) \cap Times = {}
      BY <1>1, <2>3
    <3> QED
      BY <3>1, <3>2 DEF Best
  <2> QED
    BY <2>2, <2>3
<1>2. CASE S \cap Times # {}
  <2>1. t \in S \cap Times /\ \A u \in S \cap Times : u <= t
    BY <1>2 DEF Best
  <2>2. CASE at \in Times
    <3>1. Newer(t, at) = IF at > t THEN at ELSE t
      BY <2>1, <2>2, LedgerAssumption DEF Newer, Stamps
    <3> QED
      BY <1>2, <2>1, <2>2, <3>1, LedgerAssumption DEF Best
  <2>3. CASE at \notin Times
    <3>1. Newer(t, at) = t
      BY <2>1, <2>3, LedgerAssumption DEF Newer, Stamps
    <3>2. (S \cup {at}) \cap Times = S \cap Times
      BY <2>3
    <3> QED
      BY <1>2, <2>1, <3>1, <3>2 DEF Best
  <2> QED
    BY <2>2, <2>3
<1> QED
  BY <1>1, <1>2

\* One more deploy record.
LEMMA GatherDeployMatches ==
  ASSUME NEW agg \in [known : BOOLEAN, candy : SUBSET Candies, latest : Stamps],
         NEW D \in SUBSET DeployRecs, NEW C \in SUBSET CandyRecs,
         NEW rec \in DeployRecs, Matches(agg, D, C)
  PROVE  Matches(Gather(agg, rec.candy \cup rec.addCandy, rec.at),
                 D \cup {rec}, C)
<1> DEFINE S == {x.at : x \in D \cup C}
           new == Gather(agg, rec.candy \cup rec.addCandy, rec.at)
<1>1. {x.at : x \in (D \cup {rec}) \cup C} = S \cup {rec.at}
  OBVIOUS
<1>2. Best(new.latest, S \cup {rec.at})
  <2>1. S \in SUBSET Stamps /\ rec.at \in Stamps /\ agg.latest \in Stamps
    BY LedgerAssumption
  <2>2. Best(agg.latest, S)
    BY DEF Matches
  <2> QED
    BY <2>1, <2>2, NewerBest DEF Gather
<1>3. new.candy = {c \in Candies :
         \/ \E x \in D \cup {rec} : c \in x.candy \cup x.addCandy
         \/ \E x \in C : c = x.candy}
  <2>1. new.candy = agg.candy \cup (rec.candy \cup rec.addCandy)
    BY DEF Gather
  <2>2. rec.candy \cup rec.addCandy \subseteq Candies
    BY LedgerAssumption
  <2> QED
    BY <2>1, <2>2 DEF Matches
<1>4. new.known /\ (D \cup {rec}) \cup C # {}
  BY DEF Gather
<1> QED
  BY <1>1, <1>2, <1>3, <1>4 DEF Matches

\* One more candy record.
LEMMA GatherCandyMatches ==
  ASSUME NEW agg \in [known : BOOLEAN, candy : SUBSET Candies, latest : Stamps],
         NEW D \in SUBSET DeployRecs, NEW C \in SUBSET CandyRecs,
         NEW rec \in CandyRecs, Matches(agg, D, C)
  PROVE  Matches(Gather(agg, {rec.candy}, rec.at), D, C \cup {rec})
<1> DEFINE S == {x.at : x \in D \cup C}
           new == Gather(agg, {rec.candy}, rec.at)
<1>1. {x.at : x \in D \cup (C \cup {rec})} = S \cup {rec.at}
  OBVIOUS
<1>2. Best(new.latest, S \cup {rec.at})
  <2>1. S \in SUBSET Stamps /\ rec.at \in Stamps /\ agg.latest \in Stamps
    BY LedgerAssumption
  <2>2. Best(agg.latest, S)
    BY DEF Matches
  <2> QED
    BY <2>1, <2>2, NewerBest DEF Gather
<1>3. new.candy = {c \in Candies :
         \/ \E x \in D : c \in x.candy \cup x.addCandy
         \/ \E x \in C \cup {rec} : c = x.candy}
  <2>1. new.candy = agg.candy \cup {rec.candy}
    BY DEF Gather
  <2>2. rec.candy \in Candies
    BY LedgerAssumption
  <2> QED
    BY <2>1, <2>2 DEF Matches
<1>4. new.known /\ D \cup (C \cup {rec}) # {}
  BY DEF Gather
<1> QED
  BY <1>1, <1>2, <1>3, <1>4 DEF Matches

LEMMA GatherTyped ==
  ASSUME NEW agg \in [known : BOOLEAN, candy : SUBSET Candies, latest : Stamps],
         NEW cs \in SUBSET Candies, NEW at \in Stamps
  PROVE  Gather(agg, cs, at) \in
           [known : BOOLEAN, candy : SUBSET Candies, latest : Stamps]
<1>1. Newer(agg.latest, at) \in Stamps
  BY NewerTyped
<1> QED
  BY <1>1 DEF Gather

LEMMA GatherForward ==
  ASSUME NEW agg \in [known : BOOLEAN, candy : SUBSET Candies, latest : Stamps],
         NEW cs, NEW at \in Stamps, agg.latest \in Times
  PROVE  /\ Gather(agg, cs, at).latest \in Times
         /\ Gather(agg, cs, at).latest >= agg.latest
BY NewerForward DEF Gather

-----------------------------------------------------------------------------
(* The invariant.                                                          *)

LEMMA InitialInv == Init => IInv
<1> SUFFICES ASSUME Init PROVE IInv
  OBVIOUS
<1>1. TypeOK
  BY DEF Init, TypeOK, NoAgg, Stamps
<1> QED
  BY <1>1 DEF Init, IInv, Gathering, RowsMatchLedger

LEMMA GatherDeployStep ==
  ASSUME IInv, NEW rec \in DeployRecs, GatherDeploy(rec)
  PROVE  IInv'
<1> USE DEF IInv, GatherDeploy, ledger
<1> DEFINE new == Gather(aggs[rec.id], rec.candy \cup rec.addCandy, rec.at)
<1>1. rec.id \in Ids /\ rec.at \in Stamps
      /\ rec.candy \cup rec.addCandy \in SUBSET Candies
  BY LedgerAssumption
<1>2. aggs' = [aggs EXCEPT ![rec.id] = new]
  OBVIOUS
<1>3. TypeOK'
  <2>1. new \in [known : BOOLEAN, candy : SUBSET Candies, latest : Stamps]
    BY <1>1, GatherTyped DEF TypeOK
  <2>2. aggs' \in [Ids -> [known : BOOLEAN, candy : SUBSET Candies,
                           latest : Stamps]]
    BY <1>2, <2>1 DEF TypeOK
  <2> QED
    BY <2>2 DEF TypeOK
<1>4. ASSUME NEW id \in Ids
      PROVE  Matches(aggs'[id], SeenD(id)', SeenC(id)')
  <2>1. /\ SeenD(id) \in SUBSET DeployRecs /\ SeenC(id) \in SUBSET CandyRecs
        /\ SeenC(id)' = SeenC(id)
        /\ Matches(aggs[id], SeenD(id), SeenC(id))
    BY DEF SeenD, SeenC, TypeOK, Gathering
  <2>2. CASE id = rec.id
    <3>1. SeenD(id)' = SeenD(id) \cup {rec}
      BY <2>2 DEF SeenD, TypeOK
    <3>2. aggs'[id] = new
      BY <1>2, <2>2 DEF TypeOK
    <3>3. Matches(new, SeenD(id) \cup {rec}, SeenC(id))
      <4>1. aggs[id] \in [known : BOOLEAN, candy : SUBSET Candies,
                          latest : Stamps]
        BY DEF TypeOK
      <4> HIDE DEF IInv, GatherDeploy
      <4> QED
        BY <2>1, <2>2, <4>1, GatherDeployMatches
    <3> QED
      BY <2>1, <3>1, <3>2, <3>3
  <2>3. CASE id # rec.id
    <3>1. SeenD(id)' = SeenD(id) /\ aggs'[id] = aggs[id]
      BY <1>2, <2>3 DEF SeenD, TypeOK
    <3> QED
      BY <2>1, <3>1
  <2> QED
    BY <2>2, <2>3
<1>5. pc' = "deploys" /\ rows' = {}
  OBVIOUS
<1> QED
  BY <1>3, <1>4, <1>5 DEF RowsMatchLedger

LEMMA GatherCandyStep ==
  ASSUME IInv, NEW rec \in CandyRecs, GatherCandy(rec)
  PROVE  IInv'
<1> USE DEF IInv, GatherCandy, ledger
<1> DEFINE new(id) == Gather(aggs[id], {rec.candy}, rec.at)
<1>1. rec.at \in Stamps /\ {rec.candy} \in SUBSET Candies
  BY LedgerAssumption
<1>2. \A id \in Ids : aggs'[id] = IF id \in rec.by THEN new(id) ELSE aggs[id]
  OBVIOUS
<1>3. TypeOK'
  <2>1. \A id \in Ids :
          new(id) \in [known : BOOLEAN, candy : SUBSET Candies, latest : Stamps]
    BY <1>1, GatherTyped DEF TypeOK
  <2>2. aggs' \in [Ids -> [known : BOOLEAN, candy : SUBSET Candies,
                           latest : Stamps]]
    BY <2>1 DEF TypeOK
  <2> QED
    BY <2>2 DEF TypeOK
<1>4. ASSUME NEW id \in Ids
      PROVE  Matches(aggs'[id], SeenD(id)', SeenC(id)')
  <2>1. /\ SeenD(id) \in SUBSET DeployRecs /\ SeenC(id) \in SUBSET CandyRecs
        /\ SeenD(id)' = SeenD(id)
        /\ Matches(aggs[id], SeenD(id), SeenC(id))
    BY DEF SeenD, SeenC, TypeOK, Gathering
  <2>2. CASE id \in rec.by
    <3>1. SeenC(id)' = SeenC(id) \cup {rec}
      BY <2>2 DEF SeenC, TypeOK
    <3>2. aggs'[id] = new(id)
      BY <1>2, <2>2
    <3> QED
      BY <2>1, <3>1, <3>2, GatherCandyMatches DEF TypeOK
  <2>3. CASE id \notin rec.by
    <3>1. SeenC(id)' = SeenC(id) /\ aggs'[id] = aggs[id]
      BY <1>2, <2>3 DEF SeenC, TypeOK
    <3> QED
      BY <2>1, <3>1
  <2> QED
    BY <2>2, <2>3
<1>5. pc' = "candies" /\ rows' = {} /\ todoD' = {}
  OBVIOUS
<1> QED
  BY <1>3, <1>4, <1>5 DEF RowsMatchLedger

LEMMA ReadStep ==
  ASSUME IInv, Read
  PROVE  IInv'
<1> USE DEF IInv, ledger
<1>1. /\ UNCHANGED <<file, deploys, candies, aggs, rows>>
      /\ todoD' = deploys /\ todoC' = candies
      /\ aggs = [id \in Ids |-> NoAgg] /\ rows = {}
  BY DEF Read
<1>2. /\ file # "broken" /\ pc' \in {"done", "deploys"}
      /\ pc' = "done" => deploys = {} /\ candies = {}
  BY DEF Read
<1>5. TypeOK'
  BY <1>1, <1>2 DEF TypeOK
<1>3. ASSUME NEW id \in Ids
      PROVE  Matches(aggs'[id], SeenD(id)', SeenC(id)')
  <2>1. SeenD(id)' = {} /\ SeenC(id)' = {} /\ aggs'[id] = NoAgg
    BY <1>1 DEF SeenD, SeenC
  <2>2. Matches(NoAgg, {}, {})
    BY LedgerAssumption DEF Matches, NoAgg, Best
  <2> QED
    BY <2>1, <2>2
<1>4. RowsMatchLedger'
  BY <1>1, <1>2 DEF RowsMatchLedger, DeploysOf, CandiesOf
<1> QED
  BY <1>1, <1>2, <1>3, <1>4, <1>5 DEF Gathering

LEMMA ReplyStep ==
  ASSUME IInv, Reply
  PROVE  IInv'
<1> USE DEF IInv, ledger
<1>1. TypeOK'
  <2>1. /\ UNCHANGED <<file, deploys, candies, todoD, todoC, aggs>>
        /\ pc = "candies" /\ pc' = "done"
    BY DEF Reply
  <2> QED
    BY <2>1 DEF TypeOK
<1> USE DEF Reply
<1>2. ASSUME NEW id \in Ids
      PROVE  /\ SeenD(id) = DeploysOf(id) /\ SeenC(id) = CandiesOf(id)
             /\ Matches(aggs[id], DeploysOf(id), CandiesOf(id))
  <2>1. SeenD(id) = DeploysOf(id) /\ SeenC(id) = CandiesOf(id)
    BY DEF SeenD, SeenC, DeploysOf, CandiesOf
  <2> QED
    BY <2>1 DEF Gathering
<1>3. ASSUME NEW id \in Ids
      PROVE  /\ aggs[id].known <=> DeploysOf(id) \cup CandiesOf(id) # {}
             /\ aggs[id].candy = CandySetOf(id)
             /\ IsNewest(Shown(aggs[id].latest), StampsOf(id))
  BY <1>2 DEF Matches, CandySetOf, StampsOf, Best, IsNewest, Shown
<1>4. RowsMatchLedger'
  <2> DEFINE known == {id \in Ids : aggs[id].known}
  <2>1. rows' = {Row(id) : id \in known}
    OBVIOUS
  <2>2. \A id \in known :
          /\ Row(id).container = id
          /\ Row(id).candies = Cardinality(CandySetOf(id))
          /\ IsNewest(Row(id).uptime, StampsOf(id))
    BY <1>3 DEF Row
  <2>3. {row.container : row \in rows'} = known
    BY <2>1, <2>2
  <2>4. known = {id \in Ids : DeploysOf(id) \cup CandiesOf(id) # {}}
    BY <1>3
  <2>5. \A row \in rows' : \E id \in known : row = Row(id)
    BY <2>1
  <2>6. \A row \in rows' :
          /\ row.candies = Cardinality(CandySetOf(row.container))
          /\ IsNewest(row.uptime, StampsOf(row.container))
    BY <2>2, <2>5
  <2>7. \A row, other \in rows' :
          row.container = other.container => row = other
    BY <2>2, <2>5
  <2>8. \A id : /\ DeploysOf(id)' = DeploysOf(id)
                /\ CandiesOf(id)' = CandiesOf(id)
                /\ CandySetOf(id)' = CandySetOf(id)
                /\ StampsOf(id)' = StampsOf(id)
    BY DEF DeploysOf, CandiesOf, CandySetOf, StampsOf
  <2> QED
    BY <2>3, <2>4, <2>6, <2>7, <2>8 DEF RowsMatchLedger, IsNewest
<1> QED
  BY <1>1, <1>4 DEF Gathering

\* Steps that leave the ledger, the aggregates and the rows alone.
LEMMA IdleStep ==
  ASSUME IInv, NoPaths \/ ReadFails \/ EndDeploys \/ UNCHANGED vars
  PROVE  IInv'
<1> USE DEF IInv, NoPaths, ReadFails, EndDeploys, ledger, vars
<1>1. UNCHANGED <<file, deploys, candies, todoD, todoC, aggs, rows>>
  OBVIOUS
<1>2. TypeOK'
  BY DEF TypeOK
<1>3. \A id : SeenD(id)' = SeenD(id) /\ SeenC(id)' = SeenC(id)
  BY <1>1 DEF SeenD, SeenC
<1>4. Gathering' => Gathering
  BY DEF Gathering
<1>5. RowsMatchLedger'
  BY DEF RowsMatchLedger, DeploysOf, CandiesOf, CandySetOf, StampsOf, IsNewest
<1> QED
  BY <1>1, <1>2, <1>3, <1>4, <1>5

LEMMA StepInv == IInv /\ [Next]_vars => IInv'
BY GatherDeployStep, GatherCandyStep, ReadStep, ReplyStep, IdleStep DEF Next

-----------------------------------------------------------------------------
(* Theorems.                                                               *)

LEMMA Invariance == Spec => []IInv
BY InitialInv, StepInv, PTL DEF Spec

\* The collector's state is well-typed; a broken ledger ends in an error.
THEOREM TypeCorrect == Spec => []TypeOK
BY Invariance, PTL DEF IInv

\* The reply does not depend on the order Go iterates the ledger's maps in.
THEOREM ReplyIsTheLedgers == Spec => []RowsMatchLedger
BY Invariance, PTL DEF IInv

\* The instant shown for a deploy only moves forward while it is gathered.
THEOREM UptimeOnlyForward == Spec => UptimeForward
<1> DEFINE A == \A id \in Ids : aggs[id].latest \in Times =>
                  aggs'[id].latest \in Times
                    /\ aggs'[id].latest >= aggs[id].latest
<1>2. ASSUME TypeOK, NEW rec \in DeployRecs, GatherDeploy(rec) PROVE A
  <2> DEFINE cs == rec.candy \cup rec.addCandy
  <2>1. rec.at \in Stamps
    BY LedgerAssumption
  <2> SUFFICES ASSUME NEW id \in Ids, aggs[id].latest \in Times
               PROVE  /\ aggs'[id].latest \in Times
                      /\ aggs'[id].latest >= aggs[id].latest
    OBVIOUS
  <2>2. aggs[id] \in [known : BOOLEAN, candy : SUBSET Candies, latest : Stamps]
    BY <1>2 DEF TypeOK
  <2>3. aggs'[id] = IF id = rec.id THEN Gather(aggs[id], cs, rec.at) ELSE aggs[id]
    BY <1>2 DEF GatherDeploy, TypeOK
  <2>4. CASE id = rec.id
    BY <2>1, <2>2, <2>3, <2>4, GatherForward
  <2>5. CASE id # rec.id
    BY <2>3, <2>5, TimesNat
  <2> QED
    BY <2>4, <2>5
<1>3. ASSUME TypeOK, NEW rec \in CandyRecs, GatherCandy(rec) PROVE A
  <2>1. rec.at \in Stamps
    BY LedgerAssumption
  <2> SUFFICES ASSUME NEW id \in Ids, aggs[id].latest \in Times
               PROVE  /\ aggs'[id].latest \in Times
                      /\ aggs'[id].latest >= aggs[id].latest
    OBVIOUS
  <2>2. aggs[id] \in [known : BOOLEAN, candy : SUBSET Candies, latest : Stamps]
    BY <1>3 DEF TypeOK
  <2>3. aggs'[id] = IF id \in rec.by THEN Gather(aggs[id], {rec.candy}, rec.at)
                                    ELSE aggs[id]
    BY <1>3 DEF GatherCandy
  <2>4. CASE id \in rec.by
    BY <2>1, <2>2, <2>3, <2>4, GatherForward
  <2>5. CASE id \notin rec.by
    <3>1. aggs'[id] = aggs[id]
      BY <2>3, <2>5
    <3>2. aggs[id].latest \in Nat
      BY TimesNat
    <3>3. aggs[id].latest >= aggs[id].latest
      BY <3>2
    <3> QED
      BY <3>1, <3>3
  <2> QED
    BY <2>4, <2>5
<1>4. ASSUME TypeOK, UNCHANGED aggs PROVE A
  <2>1. \A t \in Times : t >= t
    BY TimesNat
  <2> QED
    BY <1>4, <2>1
<1>5. TypeOK /\ [Next]_vars => A
  BY <1>2, <1>3, <1>4
     DEF Next, NoPaths, Read, ReadFails, EndDeploys, Reply, vars
<1> QED
  BY <1>5, TypeCorrect, PTL DEF Spec, UptimeForward
=============================================================================
