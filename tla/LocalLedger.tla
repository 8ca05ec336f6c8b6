----------------------------- MODULE LocalLedger -----------------------------
(***************************************************************************)
(* The local collector: collectLocalStatus rebuilds one row per deploy-id  *)
(* from the install ledger, in two passes over Go maps, whose order is     *)
(* arbitrary: the explicit deploy records, then the candy records, each    *)
(* attributed to every deploy in its deployed_by.  The ledger is a section *)
(* of the per-host charly.yml, read once; kit.ReadLedger is external.      *)
(***************************************************************************)
EXTENDS Naturals, FiniteSets

CONSTANTS
  DeployRecs, \* records ledger.deploys may hold
  CandyRecs,  \* records ledger.candies may hold
  Ids,        \* deploy-ids
  Candies,    \* candy names
  Times,      \* instants a deployed_at may stand for
  Malformed,  \* values of deployed_at that are no RFC3339 timestamp
  Empty       \* the empty string

Stamps == Times \cup Malformed \cup {Empty}

ASSUME LedgerAssumption ==
  /\ Times \subseteq Nat
  /\ Malformed \cap Times = {} /\ Empty \notin Times \cup Malformed
  /\ \A rec \in DeployRecs :
       /\ rec.id \in Ids /\ rec.at \in Stamps
       /\ rec.candy \subseteq Candies /\ rec.addCandy \subseteq Candies
  /\ \A rec \in CandyRecs :
       rec.by \subseteq Ids /\ rec.at \in Stamps /\ rec.candy \in Candies

VARIABLES
  file,    \* the ledger on disk: absent, broken, or readable
  deploys, \* its deploy records
  candies, \* its candy records
  pc,      \* control point of the collector
  todoD,   \* deploy records the first pass has still to see
  todoC,   \* candy records the second pass has still to see
  aggs,    \* per deploy-id: what was gathered so far
  rows     \* the reply

ledger == <<file, deploys, candies>>
vars == <<ledger, pc, todoD, todoC, aggs, rows>>

-----------------------------------------------------------------------------
(* Timestamps.                                                             *)

\* Plausible bug: a value that does not parse is kept once it is there.
NewerKeepsMalformed(a, b) ==
  CASE a = Empty -> b
    [] b = Empty -> a
    [] a \in Malformed -> a
    [] b \in Malformed -> a
    [] OTHER -> IF b > a THEN b ELSE a

\* Plausible bug: the last record wins.
NewerLast(a, b) == IF b \in Times THEN b ELSE a

\* newerTimestamp
Newer(a, b) ==
  CASE a = Empty -> b
    [] b = Empty -> a
    [] a \in Malformed -> IF b \in Malformed THEN a ELSE b
    [] b \in Malformed -> a
    [] OTHER -> IF b > a THEN b ELSE a

\* formatLedgerTimestamp
Shown(stamp) == IF stamp \in Times THEN stamp ELSE Empty

-----------------------------------------------------------------------------

NoAgg == [known |-> FALSE, candy |-> {}, latest |-> Empty]

Init ==
  /\ file \in {"absent", "broken", "readable"}
  /\ deploys \in SUBSET DeployRecs
  /\ candies \in SUBSET CandyRecs
  /\ file # "readable" => deploys = {} /\ candies = {}
  /\ pc = "read"
  /\ todoD = {} /\ todoC = {}
  /\ aggs = [id \in Ids |-> NoAgg]
  /\ rows = {}

\* localLedgerPaths failed: the substrate is switched off, without an error.
NoPaths ==
  /\ pc = "read"
  /\ pc' = "off"
  /\ UNCHANGED <<ledger, todoD, todoC, aggs, rows>>

\* Plausible bug: a ledger that cannot be parsed is taken for an empty one.
ReadLenient ==
  /\ pc = "read"
  /\ pc' = IF deploys \cup candies = {} THEN "done" ELSE "deploys"
  /\ todoD' = deploys
  /\ todoC' = candies
  /\ UNCHANGED <<ledger, aggs, rows>>

\* kit.ReadLedger: both maps in one read; broken is not the same as absent.
Read ==
  /\ pc = "read" /\ file # "broken"
  /\ pc' = IF deploys \cup candies = {} THEN "done" ELSE "deploys"
  /\ todoD' = deploys
  /\ todoC' = candies
  /\ UNCHANGED <<ledger, aggs, rows>>

ReadFails ==
  /\ pc = "read" /\ file = "broken"
  /\ pc' = "failed"
  /\ UNCHANGED <<ledger, todoD, todoC, aggs, rows>>

\* What a record adds to an aggregate, which it creates if need be.
Gather(agg, candy, at) ==
  [known  |-> TRUE,
   candy  |-> agg.candy \cup candy,
   latest |-> Newer(agg.latest, at)]

\* Pass 1, one deploy record.
GatherDeploy(rec) ==
  /\ pc = "deploys" /\ rec \in todoD
  /\ todoD' = todoD \ {rec}
  /\ aggs' = [aggs EXCEPT
       ![rec.id] = Gather(@, rec.candy \cup rec.addCandy, rec.at)]
  /\ UNCHANGED <<ledger, pc, todoC, rows>>

EndDeploys ==
  /\ pc = "deploys" /\ todoD = {}
  /\ pc' = "candies"
  /\ UNCHANGED <<ledger, todoD, todoC, aggs, rows>>

\* Pass 2, one candy record: every deploy in its deployed_by.
GatherCandy(rec) ==
  /\ pc = "candies" /\ rec \in todoC
  /\ todoC' = todoC \ {rec}
  /\ aggs' = [id \in Ids |-> IF id \in rec.by
                THEN Gather(aggs[id], {rec.candy}, rec.at) ELSE aggs[id]]
  /\ UNCHANGED <<ledger, pc, todoD, rows>>

\* One row per aggregate; localDeployLabel shows how many candies it has.
Row(id) == [container |-> id, candies |-> Cardinality(aggs[id].candy),
            uptime |-> Shown(aggs[id].latest)]

Reply ==
  /\ pc = "candies" /\ todoC = {}
  /\ pc' = "done"
  /\ rows' = {Row(id) : id \in {i \in Ids : aggs[i].known}}
  /\ UNCHANGED <<ledger, todoD, todoC, aggs>>

Next ==
  \/ NoPaths \/ Read \/ ReadFails \/ EndDeploys \/ Reply
  \/ \E rec \in DeployRecs : GatherDeploy(rec)
  \/ \E rec \in CandyRecs : GatherCandy(rec)

Spec == Init /\ [][Next]_vars

-----------------------------------------------------------------------------
(* Properties.                                                             *)

\* Besides the types: a broken ledger is an error, never "nothing deployed".
TypeOK ==
  /\ file \in {"absent", "broken", "readable"}
  /\ deploys \in SUBSET DeployRecs
  /\ candies \in SUBSET CandyRecs
  /\ pc \in {"read", "deploys", "candies", "done", "off", "failed"}
  /\ file = "broken" => pc \in {"read", "off", "failed"}
  /\ todoD \in SUBSET deploys
  /\ todoC \in SUBSET candies
  /\ aggs \in [Ids -> [known : BOOLEAN, candy : SUBSET Candies,
                       latest : Stamps]]

\* What the ledger says of a deploy.
DeploysOf(id) == {rec \in deploys : rec.id = id}
CandiesOf(id) == {rec \in candies : id \in rec.by}
CandySetOf(id) ==
  {c \in Candies :
     \/ \E rec \in DeploysOf(id) : c \in rec.candy \cup rec.addCandy
     \/ \E rec \in CandiesOf(id) : c = rec.candy}
StampsOf(id) == {rec.at : rec \in DeploysOf(id) \cup CandiesOf(id)}

IsNewest(t, S) ==
  IF S \cap Times = {} THEN t = Empty
  ELSE t \in S \cap Times /\ \A u \in S \cap Times : u <= t

\* The reply is a function of the ledger, whatever order its maps are iterated
\* in: a row for every deploy-id any record names, with every candy counted
\* once and the newest deployed_at that parses, never masked by one that
\* does not.
RowsMatchLedger ==
  pc = "done" =>
    /\ {row.container : row \in rows} =
         {id \in Ids : DeploysOf(id) \cup CandiesOf(id) # {}}
    /\ \A row \in rows :
         /\ row.candies = Cardinality(CandySetOf(row.container))
         /\ IsNewest(row.uptime, StampsOf(row.container))
    /\ \A row, other \in rows :
         row.container = other.container => row = other

\* While the records are gathered, in whatever order, the instant a deploy
\* would show only ever moves forward.
UptimeForward ==
  [][\A id \in Ids :
       aggs[id].latest \in Times =>
         aggs'[id].latest \in Times /\ aggs'[id].latest >= aggs[id].latest]_vars
=============================================================================
