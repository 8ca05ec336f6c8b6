------------------------- MODULE StatusFanoutProofs -------------------------
(***************************************************************************)
(* Proofs about StatusFanout, for any number of concurrent requests, any   *)
(* words on the wire and any number of edits.                              *)
(***************************************************************************)
EXTENDS StatusFanout, TLAPS

\* The memo holds every look of a fan-out; a word on the wire makes one.
LooksOnce(r) ==
  /\ resolved[r] <= 1
  /\ req[r] = "all" => (memo[r] = None => resolved[r] = 0)
  /\ (req[r] # "all" /\ pc[r] = "collect") => resolved[r] = 0
  /\ pc[r] = "idle" => resolved[r] = 0 /\ memo[r] = None

\* The project behind a fan-out's rows is the memo's, which some row has.
RowsFromMemo(r) ==
  req[r] = "all" =>
    /\ \A w \in Words : rows[r][w].project \in {None, memo[r]}
    /\ \A w \in Words \ ProjectWords : rows[r][w].project = None
    /\ memo[r] # None => \E w \in Words : rows[r][w].project = memo[r]

\* A request has no rows before it starts, nor if it fails to; a word on the
\* wire has none until it ends.
Untouched(r) ==
  (pc[r] = "idle" \/ (req[r] = "all" /\ pc[r] = "failed")
     \/ (req[r] # "all" /\ pc[r] = "collect"))
    => \A w \in Words : rows[r][w] = NoRows

\* A fan-out has asked every word before the one it is at.
AskedInOrder(r) ==
  req[r] = "all" =>
    /\ pc[r] \in {"collect", "done"} =>
         \A i \in 1..8 : i < n[r] => rows[r][Order[i]].got # "none"
    /\ pc[r] = "idle" => n[r] = 1
    /\ pc[r] = "done" => n[r] = 9

\* Enriched rows come from the collector's own copy of charly.yml.
EnrichedFromDeploy(r) ==
  req[r] = "all" =>
    \A w \in EnrichedWords :
      rows[r][w].got = "rows" => rows[r][w].config = deploy[r]

\* What holds of each request, whatever the others do.
Sound(r) ==
  /\ LooksOnce(r)
  /\ RowsFromMemo(r)
  /\ Untouched(r)
  /\ AskedInOrder(r)
  /\ EnrichedFromDeploy(r)

IInv == TypeOK /\ \A r \in Requests : Sound(r)

-----------------------------------------------------------------------------
(* The words.                                                              *)

LEMMA OrderIsOfWords == \A i \in 1..8 : Order[i] \in Words
<1> SUFFICES ASSUME NEW i \in 1..8 PROVE Order[i] \in Words
  OBVIOUS
<1>1. i = 1 \/ i = 2 \/ i = 3 \/ i = 4 \/ i = 5 \/ i = 6 \/ i = 7 \/ i = 8
  OBVIOUS
<1>2. QED BY <1>1 DEF Order, Words

LEMMA EveryWordHasItsTurn == \A w \in Words : \E i \in 1..8 : Order[i] = w
<1>1. /\ Order[1] = "local" /\ Order[2] = "kubernetes"
      /\ Order[3] = "kindcluster" /\ Order[4] = "firecracker"
      /\ Order[5] = "android" /\ Order[6] = "vm"
      /\ Order[7] = "kubevirt" /\ Order[8] = "pod"
  BY DEF Order
<1>2. 1 \in 1..8 /\ 2 \in 1..8 /\ 3 \in 1..8 /\ 4 \in 1..8
      /\ 5 \in 1..8 /\ 6 \in 1..8 /\ 7 \in 1..8 /\ 8 \in 1..8
  OBVIOUS
<1>3. QED BY <1>1, <1>2 DEF Words

LEMMA KindsOfWords ==
  /\ ProjectWords \subseteq Words
  /\ EnrichedWords \subseteq Words
  /\ \A w \in WireWords : w \in Words /\ w # "all"
BY StatusAssumption DEF ProjectWords, EnrichedWords, Words, StatusAssumption

-----------------------------------------------------------------------------
(* Types.                                                                  *)

LEMMA TypeInitial == Init => TypeOK
BY StatusAssumption
DEF Init, TypeOK, NoRows, Cell, Version, StatusAssumption

\* What a look at a file can give.
LEMMA LooksAreVersions ==
  ASSUME TypeOK
  PROVE  /\ Resolutions \subseteq Version \cup {Failed}
         /\ Configs \subseteq Version \cup {Failed}
BY DEF TypeOK, Resolutions, Configs

LEMMA ConfigsAreTyped ==
  ASSUME TypeOK, NEW r \in Requests, NEW w \in Words,
         NEW c \in Version \cup {None, Failed}
  PROVE  ConfigOf(r, w, c) \in Version \cup {None, Failed}
BY DEF TypeOK, ConfigOf, Enrichment

LEMMA EnrichedConfig ==
  ASSUME NEW r, NEW w \in EnrichedWords, NEW c
  PROVE  ConfigOf(r, w, c) = deploy[r]
BY DEF ConfigOf, Enrichment, EnrichedWords, ConfigWords

\* The word a collecting fan-out is at.
LEMMA WordAtHand ==
  ASSUME TypeOK, NEW r \in Requests, pc[r] = "collect"
  PROVE  n[r] \in 1..8 /\ Order[n[r]] \in Words
BY OrderIsOfWords DEF TypeOK

LEMMA ProceedTyped ==
  ASSUME TypeOK, NEW r \in Requests, pc[r] = "collect", Proceed(r)
  PROVE  /\ n' \in [Requests -> 1..9]
         /\ pc' \in [Requests -> {"idle", "collect", "done", "failed"}]
         /\ \A q \in Requests : pc'[q] \in {"idle", "collect"} => n'[q] \in 1..8
<1>1. n[r] \in 1..8
  BY WordAtHand
<1>2. n' = [n EXCEPT ![r] = n[r] + 1] /\ n \in [Requests -> 1..9]
  BY DEF Proceed, TypeOK
<1>3. n[r] + 1 \in 1..9
  BY <1>1
<1>4. pc' = [pc EXCEPT ![r] = IF n[r] = 8 THEN "done" ELSE pc[r]]
  BY DEF Proceed
<1>5. pc \in [Requests -> {"idle", "collect", "done", "failed"}]
  BY DEF TypeOK
<1>6. n' \in [Requests -> 1..9]
  BY <1>2, <1>3
<1>7. pc' \in [Requests -> {"idle", "collect", "done", "failed"}]
  BY <1>4, <1>5
<1>8. ASSUME NEW q \in Requests, pc'[q] \in {"idle", "collect"}
      PROVE  n'[q] \in 1..8
  <2>1. CASE q = r
    BY <2>1, <1>1, <1>2, <1>4, <1>5, <1>8
  <2>2. CASE q # r
    <3>1. pc'[q] = pc[q] /\ n'[q] = n[q]
      BY <2>2, <1>2, <1>4, <1>5
    <3>2. QED BY <3>1, <1>8 DEF TypeOK
  <2>3. QED BY <2>1, <2>2
<1>9. QED BY <1>6, <1>7, <1>8

LEMMA TypeStart ==
  ASSUME TypeOK, NEW r \in Requests, Start(r)
  PROVE  TypeOK'
<1>1. PICK c \in Configs :
        deploy' = [deploy EXCEPT ![r] = IF req[r] = "all" THEN c ELSE None]
  BY DEF Start
<1>2. (IF req[r] = "all" THEN c ELSE None) \in Version \cup {None, Failed}
  BY LooksAreVersions
<1>3. deploy' \in [Requests -> Version \cup {None, Failed}]
  BY <1>1, <1>2 DEF TypeOK
<1>4. QED BY <1>3 DEF TypeOK, Start, files

LEMMA TypeStartFails ==
  ASSUME TypeOK, NEW r \in Requests, StartFails(r)
  PROVE  TypeOK'
BY DEF TypeOK, StartFails, files

Rows == [got : {"none", "rows", "dropped"},
         project : Version \cup {None, Failed},
         config : Version \cup {None, Failed}]

\* One cell of the rows changes, to a cell of the right type.
LEMMA CellTyped ==
  ASSUME TypeOK, NEW r \in Requests, NEW w \in Words, NEW cell \in Rows,
         rows' = [rows EXCEPT ![r][w] = cell]
  PROVE  rows' \in [Requests -> [Words -> Rows]]
<1>1. rows \in [Requests -> [Words -> Rows]]
  BY DEF TypeOK, Rows
<1>2. [rows[r] EXCEPT ![w] = cell] \in [Words -> Rows]
  BY <1>1
<1>3. rows' = [rows EXCEPT ![r] = [rows[r] EXCEPT ![w] = cell]]
  BY <1>1
<1>4. QED BY <1>1, <1>2, <1>3

LEMMA FetchTyped ==
  ASSUME TypeOK, NEW r \in Requests, NEW v \in Version \cup {Failed},
         Fetch(r, v)
  PROVE  /\ memo' \in [Requests -> Version \cup {None, Failed}]
         /\ resolved' \in [Requests -> Nat]
<1>1. CASE memo[r] = None
  <2>1. memo' = [memo EXCEPT ![r] = v]
        /\ resolved' = [resolved EXCEPT ![r] = resolved[r] + 1]
    BY <1>1 DEF Fetch
  <2>2. memo \in [Requests -> Version \cup {None, Failed}]
        /\ resolved \in [Requests -> Nat]
    BY DEF TypeOK
  <2>3. QED BY <2>1, <2>2
<1>2. CASE memo[r] # None
  BY <1>2 DEF Fetch, TypeOK
<1>3. QED BY <1>1, <1>2

LEMMA TypeCollectProject ==
  ASSUME TypeOK, NEW r \in Requests, CollectProject(r)
  PROVE  TypeOK'
<1> DEFINE w == Order[n[r]]
<1>1. pc[r] = "collect" /\ Proceed(r) /\ UNCHANGED <<files, req, deploy>>
  BY DEF CollectProject
<1>2. w \in Words
  BY <1>1, WordAtHand
<1>3. PICK v \in Version \cup {Failed}, c \in Configs :
        /\ Fetch(r, v)
        /\ rows' = [rows EXCEPT ![r][w] =
             IF v = Failed THEN Cell("dropped", v, None)
             ELSE Cell("rows", v, ConfigOf(r, w, c))]
  BY DEF CollectProject
<1>4. ConfigOf(r, w, c) \in Version \cup {None, Failed}
  BY <1>2, LooksAreVersions, ConfigsAreTyped
<1>5. (IF v = Failed THEN Cell("dropped", v, None)
       ELSE Cell("rows", v, ConfigOf(r, w, c))) \in Rows
  BY <1>4 DEF Cell, Rows
<1>6. rows' \in [Requests -> [Words -> Rows]]
  BY <1>2, <1>3, <1>5, CellTyped
<1>7. memo' \in [Requests -> Version \cup {None, Failed}]
      /\ resolved' \in [Requests -> Nat]
  BY <1>3, FetchTyped
<1>8. QED BY <1>1, <1>6, <1>7, ProceedTyped DEF TypeOK, Rows, files

LEMMA TypeCollectOther ==
  ASSUME TypeOK, NEW r \in Requests, CollectOther(r)
  PROVE  TypeOK'
<1> DEFINE w == Order[n[r]]
<1>1. pc[r] = "collect" /\ Proceed(r)
      /\ UNCHANGED <<files, req, memo, deploy, resolved>>
  BY DEF CollectOther
<1>2. w \in Words
  BY <1>1, WordAtHand
<1>3. PICK cell \in {Cell("rows", None, ConfigOf(r, w, config)),
                     Cell("dropped", None, None)} :
        rows' = [rows EXCEPT ![r][w] = cell]
  BY DEF CollectOther
<1>4. ConfigOf(r, w, config) \in Version \cup {None, Failed}
  BY <1>2, ConfigsAreTyped DEF TypeOK
<1>5. cell \in Rows
  BY <1>3, <1>4 DEF Cell, Rows
<1>6. rows' \in [Requests -> [Words -> Rows]]
  BY <1>2, <1>3, <1>5, CellTyped
<1>7. QED BY <1>1, <1>6, ProceedTyped DEF TypeOK, Rows, files

\* What a wire request does, for the lemmas below.
LEMMA WireStep ==
  ASSUME TypeOK, NEW r \in Requests, CollectWire(r)
  PROVE  /\ pc[r] = "collect" /\ req[r] # "all" /\ req[r] \in Words
         /\ \E v \in Version \cup {None, Failed}, cell \in Rows :
              /\ rows' = [rows EXCEPT ![r][req[r]] = cell]
              /\ cell.project = v
              /\ v # None => v \in Resolutions
         /\ \E s \in {"done", "failed"} : pc' = [pc EXCEPT ![r] = s]
         /\ \E k \in {resolved[r], resolved[r] + 1} :
              resolved' = [resolved EXCEPT ![r] = k]
         /\ UNCHANGED <<files, req, n, memo, deploy>>
<1> DEFINE w == req[r]
<1>1. pc[r] = "collect" /\ w # "all" /\ UNCHANGED <<files, req, n, memo, deploy>>
  BY DEF CollectWire
<1>2. w \in Words
  BY <1>1, KindsOfWords DEF TypeOK
<1>3. PICK v \in IF w \in ProjectWords THEN Resolutions ELSE {None},
           c \in IF w \in ConfigWords THEN Configs ELSE {None},
           ok \in BOOLEAN :
        /\ rows' = [rows EXCEPT ![r][w] =
             IF ok THEN Cell("rows", v, c) ELSE Cell("dropped", v, None)]
        /\ pc' = [pc EXCEPT ![r] = IF ok THEN "done" ELSE "failed"]
  BY DEF CollectWire
<1>4. v \in Version \cup {None, Failed} /\ c \in Version \cup {None, Failed}
      /\ (v # None => v \in Resolutions)
  BY LooksAreVersions
<1> DEFINE cell == IF ok THEN Cell("rows", v, c) ELSE Cell("dropped", v, None)
<1>5. cell \in Rows /\ cell.project = v
  BY <1>4 DEF Cell, Rows
<1>6. resolved' = [resolved EXCEPT ![r] =
                     IF w \in ProjectWords THEN resolved[r] + 1 ELSE resolved[r]]
  BY DEF CollectWire
<1> HIDE DEF cell
<1>7. rows' = [rows EXCEPT ![r][w] = cell]
  BY <1>3 DEF cell
<1>8. \E s \in {"done", "failed"} : pc' = [pc EXCEPT ![r] = s]
  BY <1>3
<1>9. \E k \in {resolved[r], resolved[r] + 1} :
        resolved' = [resolved EXCEPT ![r] = k]
  BY <1>6
<1>10. QED BY <1>1, <1>2, <1>4, <1>5, <1>7, <1>8, <1>9

LEMMA TypeCollectWire ==
  ASSUME TypeOK, NEW r \in Requests, CollectWire(r)
  PROVE  TypeOK'
<1>1. PICK cell \in Rows : rows' = [rows EXCEPT ![r][req[r]] = cell]
  BY WireStep
<1>2. rows' \in [Requests -> [Words -> Rows]]
  BY <1>1, WireStep, CellTyped
<1>3. resolved' \in [Requests -> Nat]
  BY WireStep DEF TypeOK
<1>4. pc' \in [Requests -> {"idle", "collect", "done", "failed"}]
      /\ \A q \in Requests :
           pc'[q] \in {"idle", "collect"} => pc[q] \in {"idle", "collect"}
  BY WireStep DEF TypeOK
<1>5. QED BY <1>2, <1>3, <1>4, WireStep DEF TypeOK, Rows, files

LEMMA TypeStep == TypeOK /\ [Next]_vars => TypeOK'
<1> SUFFICES ASSUME TypeOK, [Next]_vars PROVE TypeOK'
  OBVIOUS
<1>1. ASSUME NEW r \in Requests, Request(r) PROVE TypeOK'
  BY <1>1, TypeStart, TypeStartFails, TypeCollectProject, TypeCollectOther,
     TypeCollectWire DEF Request
<1>2. CASE EditProject
  BY <1>2, StatusAssumption DEF EditProject, TypeOK, Version, StatusAssumption
<1>3. CASE EditConfig
  BY <1>3, StatusAssumption DEF EditConfig, TypeOK, Version, StatusAssumption
<1>4. CASE UNCHANGED vars
  BY <1>4 DEF vars, files, TypeOK
<1>5. QED BY <1>1, <1>2, <1>3, <1>4 DEF Next

\* StatusFanout!TypeOK: a fan-out that collects is at one of its eight words.
THEOREM TypeCorrect == Spec => []TypeOK
<1>1. QED BY TypeInitial, TypeStep, PTL DEF Spec

-----------------------------------------------------------------------------
(* The invariant.                                                          *)

LEMMA InvInitial == Init => IInv
<1> SUFFICES ASSUME Init PROVE IInv
  OBVIOUS
<1>1. TypeOK
  BY TypeInitial
<1>2. ASSUME NEW r \in Requests PROVE Sound(r)
  <2>1. /\ pc[r] = "idle" /\ n[r] = 1 /\ memo[r] = None /\ resolved[r] = 0
        /\ \A w \in Words : rows[r][w] = NoRows
    BY DEF Init
  <2>2. NoRows.got = "none" /\ NoRows.project = None
    BY DEF NoRows, Cell
  <2>3. QED
    BY <2>1, <2>2, KindsOfWords
    DEF Sound, LooksOnce, RowsFromMemo, Untouched, AskedInOrder,
        EnrichedFromDeploy
<1>3. QED BY <1>1, <1>2 DEF IInv

\* A request none of whose variables change stays sound.
LEMMA Frame ==
  ASSUME NEW q \in Requests, Sound(q),
         req'[q] = req[q], pc'[q] = pc[q], n'[q] = n[q], memo'[q] = memo[q],
         deploy'[q] = deploy[q], rows'[q] = rows[q],
         resolved'[q] = resolved[q]
  PROVE  Sound(q)'
BY DEF Sound, LooksOnce, RowsFromMemo, Untouched, AskedInOrder,
       EnrichedFromDeploy

\* The cell of word w in request r's rows is set.
CellIs(r, w, cell) == rows' = [rows EXCEPT ![r][w] = cell]

\* What setting one cell does to the rows.
LEMMA CellSet ==
  ASSUME TypeOK, NEW r \in Requests, NEW w \in Words, NEW cell \in Rows,
         CellIs(r, w, cell)
  PROVE  /\ rows'[r][w] = cell
         /\ \A x \in Words \ {w} : rows'[r][x] = rows[r][x]
         /\ \A q \in Requests \ {r} : rows'[q] = rows[q]
<1>1. rows \in [Requests -> [Words -> Rows]]
  BY DEF TypeOK, Rows
<1>2. rows' = [rows EXCEPT ![r] = [rows[r] EXCEPT ![w] = cell]]
  BY <1>1 DEF CellIs
<1>3. rows'[r] = [rows[r] EXCEPT ![w] = cell]
  BY <1>1, <1>2
<1>4. rows[r] \in [Words -> Rows]
  BY <1>1
<1>5. QED BY <1>1, <1>2, <1>3, <1>4

\* The part of the invariant that is the same for every word of a fan-out.
LEMMA CollectedKeeps ==
  ASSUME TypeOK, NEW r \in Requests, Sound(r),
         pc[r] = "collect", req[r] = "all", Proceed(r),
         NEW cell \in Rows, CellIs(r, Order[n[r]], cell),
         cell.got # "none",
         (Order[n[r]] \in EnrichedWords /\ cell.got = "rows")
           => cell.config = deploy[r],
         UNCHANGED <<req, deploy>>
  PROVE  Untouched(r)' /\ AskedInOrder(r)' /\ EnrichedFromDeploy(r)'
<1> DEFINE w == Order[n[r]]
<1>1. n[r] \in 1..8 /\ w \in Words
  BY WordAtHand
<1>2. rows'[r][w] = cell /\ \A x \in Words \ {w} : rows'[r][x] = rows[r][x]
  <2> HIDE DEF w
  <2>1. CellIs(r, w, cell)
    BY DEF w
  <2>2. QED BY <1>1, <2>1, CellSet
<1>3. /\ n'[r] = n[r] + 1
      /\ pc'[r] = IF n[r] = 8 THEN "done" ELSE "collect"
  BY DEF Proceed, TypeOK
<1>4. req'[r] = "all" /\ deploy'[r] = deploy[r]
  OBVIOUS
<1>5. Untouched(r)'
  BY <1>3, <1>4 DEF Untouched
<1>6. AskedInOrder(r)'
  <2>1. ASSUME NEW i \in 1..8, i < n'[r]
        PROVE  rows'[r][Order[i]].got # "none"
    <3>1. CASE Order[i] = w
      BY <3>1, <1>2
    <3>2. CASE Order[i] # w
      <4>1. i < n[r]
        <5>1. i # n[r]
          BY <3>2
        <5>2. QED BY <5>1, <2>1, <1>1, <1>3
      <4>2. rows[r][Order[i]].got # "none"
        BY <4>1 DEF Sound, AskedInOrder
      <4>3. QED BY <4>2, <3>2, <1>2, OrderIsOfWords
    <3>3. QED BY <3>1, <3>2
  <2>2. pc'[r] # "idle" /\ (pc'[r] = "done" => n'[r] = 9)
    BY <1>1, <1>3
  <2>3. QED BY <2>1, <2>2 DEF AskedInOrder
<1>7. EnrichedFromDeploy(r)'
  <2>1. ASSUME NEW x \in EnrichedWords, rows'[r][x].got = "rows"
        PROVE  rows'[r][x].config = deploy'[r]
    <3>1. x \in Words
      BY KindsOfWords
    <3>2. CASE x = w
      BY <3>2, <2>1, <1>2, <1>4
    <3>3. CASE x # w
      <4>1. rows'[r][x] = rows[r][x]
        BY <3>1, <3>3, <1>2
      <4>2. QED BY <4>1, <2>1, <1>4 DEF Sound, EnrichedFromDeploy
    <3>4. QED BY <3>2, <3>3
  <2>2. QED BY <2>1 DEF EnrichedFromDeploy
<1>8. QED BY <1>5, <1>6, <1>7

\* What a project word does to its request, memo or no memo.
LEMMA ProjectStep ==
  ASSUME TypeOK, NEW r \in Requests, Sound(r), CollectProject(r)
  PROVE  \E v \in Version \cup {Failed}, cell \in Rows :
           /\ CellIs(r, Order[n[r]], cell)
           /\ cell.project = v /\ cell.got # "none"
           /\ (Order[n[r]] \in EnrichedWords /\ cell.got = "rows")
                => cell.config = deploy[r]
           /\ memo'[r] = v /\ v # None
           /\ memo[r] = None => v \in Resolutions
           /\ memo[r] # None => v = memo[r] /\ resolved' = resolved
           /\ memo[r] = None => resolved'[r] = resolved[r] + 1
           /\ \A q \in Requests :
                q # r => memo'[q] = memo[q] /\ resolved'[q] = resolved[q]
<1> DEFINE w == Order[n[r]]
<1>1. PICK v \in Version \cup {Failed}, c \in Configs :
        /\ Fetch(r, v)
        /\ rows' = [rows EXCEPT ![r][w] =
             IF v = Failed THEN Cell("dropped", v, None)
             ELSE Cell("rows", v, ConfigOf(r, w, c))]
  BY DEF CollectProject
<1> DEFINE cell == IF v = Failed THEN Cell("dropped", v, None)
                   ELSE Cell("rows", v, ConfigOf(r, w, c))
<1>2. cell.project = v /\ cell.got # "none"
  BY DEF Cell
<1>3. cell \in Rows
  <2>1. w \in Words
    BY WordAtHand DEF CollectProject
  <2>2. c \in Version \cup {None, Failed}
    BY LooksAreVersions
  <2>3. ConfigOf(r, w, c) \in Version \cup {None, Failed}
    <3> HIDE DEF w
    <3>1. QED BY <2>1, <2>2, ConfigsAreTyped
  <2>4. QED BY <2>3 DEF Cell, Rows
<1>4. ASSUME w \in EnrichedWords, cell.got = "rows"
      PROVE  cell.config = deploy[r]
  <2>1. cell = Cell("rows", v, ConfigOf(r, w, c))
    BY <1>4 DEF Cell
  <2>2. ConfigOf(r, w, c) = deploy[r]
    BY <1>4, EnrichedConfig
  <2>3. QED BY <2>1, <2>2 DEF Cell
<1>5. v # None
  BY StatusAssumption DEF StatusAssumption, Version
<1>6. /\ memo'[r] = v
      /\ memo[r] = None => v \in Resolutions
      /\ memo[r] # None => v = memo[r] /\ resolved' = resolved
      /\ memo[r] = None => resolved'[r] = resolved[r] + 1
      /\ \A q \in Requests :
           q # r => memo'[q] = memo[q] /\ resolved'[q] = resolved[q]
  BY <1>1 DEF Fetch, TypeOK
<1>7. CellIs(r, w, cell)
  BY <1>1 DEF CellIs
<1> HIDE DEF cell
<1>8. QED BY <1>2, <1>3, <1>4, <1>5, <1>6, <1>7

LEMMA SoundCollectProject ==
  ASSUME TypeOK, NEW r \in Requests, Sound(r), CollectProject(r)
  PROVE  Sound(r)'
<1> DEFINE w == Order[n[r]]
<1>1. /\ pc[r] = "collect" /\ req[r] = "all" /\ w \in ProjectWords
      /\ Proceed(r) /\ UNCHANGED <<files, req, deploy>>
  BY DEF CollectProject
<1>2. w \in Words
  BY <1>1, WordAtHand
<1>3. PICK v \in Version \cup {Failed}, cell \in Rows :
        /\ CellIs(r, w, cell)
        /\ cell.project = v /\ cell.got # "none"
        /\ (w \in EnrichedWords /\ cell.got = "rows") => cell.config = deploy[r]
        /\ memo'[r] = v /\ v # None
        /\ memo[r] # None => v = memo[r] /\ resolved' = resolved
        /\ memo[r] = None => resolved'[r] = resolved[r] + 1
  BY ProjectStep
<1>4. Untouched(r)' /\ AskedInOrder(r)' /\ EnrichedFromDeploy(r)'
  BY <1>1, <1>3, CollectedKeeps
<1>5. rows'[r][w] = cell /\ \A x \in Words \ {w} : rows'[r][x] = rows[r][x]
  <2> HIDE DEF w
  <2>1. QED BY <1>2, <1>3, CellSet
<1>6. pc'[r] # "idle" /\ req'[r] = "all"
  BY <1>1 DEF Proceed, TypeOK
<1>7. LooksOnce(r)'
  <2>1. CASE memo[r] = None
    BY <2>1, <1>1, <1>3, <1>6 DEF Sound, LooksOnce
  <2>2. CASE memo[r] # None
    BY <2>2, <1>3, <1>6 DEF Sound, LooksOnce
  <2>3. QED BY <2>1, <2>2
<1>8. RowsFromMemo(r)'
  <2>1. ASSUME NEW x \in Words PROVE rows'[r][x].project \in {None, memo'[r]}
    <3>1. CASE x = w
      BY <3>1, <1>3, <1>5
    <3>2. CASE x # w
      <4>1. rows[r][x].project \in {None, memo[r]}
        BY <1>1 DEF Sound, RowsFromMemo
      <4>2. QED BY <4>1, <3>2, <1>3, <1>5
    <3>3. QED BY <3>1, <3>2
  <2>2. ASSUME NEW x \in Words \ ProjectWords
        PROVE  rows'[r][x].project = None
    <3>1. x # w /\ rows[r][x].project = None
      BY <1>1 DEF Sound, RowsFromMemo
    <3>2. QED BY <3>1, <1>5
  <2>3. rows'[r][w].project = memo'[r]
    BY <1>3, <1>5
  <2>4. QED BY <2>1, <2>2, <2>3, <1>2 DEF RowsFromMemo
<1>9. QED BY <1>4, <1>7, <1>8 DEF Sound

\* What any other word does to its fan-out: it sets its own cell.
LEMMA OtherStep ==
  ASSUME TypeOK, NEW r \in Requests, CollectOther(r)
  PROVE  \E cell \in Rows :
           /\ CellIs(r, Order[n[r]], cell)
           /\ cell.project = None /\ cell.got # "none"
           /\ (Order[n[r]] \in EnrichedWords /\ cell.got = "rows")
                => cell.config = deploy[r]
<1> DEFINE w == Order[n[r]]
<1>1. PICK cell \in {Cell("rows", None, ConfigOf(r, w, config)),
                     Cell("dropped", None, None)} :
        CellIs(r, w, cell)
  BY DEF CollectOther, CellIs
<1>2. w \in Words
  BY WordAtHand DEF CollectOther
<1> HIDE DEF w
<1>3. ConfigOf(r, w, config) \in Version \cup {None, Failed}
  BY <1>2, ConfigsAreTyped DEF TypeOK
<1>4. cell \in Rows
  BY <1>1, <1>3 DEF Cell, Rows
<1>5. /\ cell.project = None /\ cell.got # "none"
      /\ (w \in EnrichedWords /\ cell.got = "rows") => cell.config = deploy[r]
  <2>1. w \in EnrichedWords => ConfigOf(r, w, config) = deploy[r]
    BY EnrichedConfig
  <2>2. CASE cell = Cell("rows", None, ConfigOf(r, w, config))
    BY <2>1, <2>2 DEF Cell
  <2>3. CASE cell = Cell("dropped", None, None)
    BY <2>3 DEF Cell
  <2>4. QED BY <1>1, <2>2, <2>3
<1>6. QED BY <1>1, <1>4, <1>5 DEF w

LEMMA SoundCollectOther ==
  ASSUME TypeOK, NEW r \in Requests, Sound(r), CollectOther(r)
  PROVE  Sound(r)'
<1> DEFINE w == Order[n[r]]
<1>1. /\ pc[r] = "collect" /\ req[r] = "all" /\ w \notin ProjectWords
      /\ Proceed(r) /\ UNCHANGED <<files, req, memo, deploy, resolved>>
  BY DEF CollectOther
<1>2. w \in Words
  BY <1>1, WordAtHand
<1>3. PICK cell \in Rows :
        /\ CellIs(r, w, cell)
        /\ cell.project = None /\ cell.got # "none"
        /\ (w \in EnrichedWords /\ cell.got = "rows") => cell.config = deploy[r]
  BY OtherStep
<1>4. Untouched(r)' /\ AskedInOrder(r)' /\ EnrichedFromDeploy(r)'
  BY <1>1, <1>3, CollectedKeeps
<1>5. rows'[r][w] = cell /\ \A x \in Words \ {w} : rows'[r][x] = rows[r][x]
  <2> HIDE DEF w
  <2>1. QED BY <1>2, <1>3, CellSet
<1>6. pc'[r] # "idle"
  BY <1>1 DEF Proceed, TypeOK
<1>7. LooksOnce(r)'
  BY <1>1, <1>6 DEF Sound, LooksOnce
<1>8. \A x \in Words : rows'[r][x].project = rows[r][x].project
  BY <1>1, <1>2, <1>3, <1>5 DEF Sound, RowsFromMemo
<1>9. RowsFromMemo(r)'
  BY <1>1, <1>8 DEF Sound, RowsFromMemo
<1>10. QED BY <1>4, <1>7, <1>9 DEF Sound

LEMMA SoundCollectWire ==
  ASSUME TypeOK, NEW r \in Requests, Sound(r), CollectWire(r)
  PROVE  Sound(r)'
<1>1. /\ pc[r] = "collect" /\ req[r] # "all" /\ req' = req /\ memo' = memo
      /\ pc'[r] \in {"done", "failed"}
      /\ resolved'[r] \in {resolved[r], resolved[r] + 1}
  BY WireStep DEF TypeOK
<1>2. req'[r] # "all"
  BY <1>1
<1>3. LooksOnce(r)'
  BY <1>1, <1>2 DEF Sound, LooksOnce
<1>4. QED
  BY <1>1, <1>2, <1>3
  DEF Sound, RowsFromMemo, Untouched, AskedInOrder, EnrichedFromDeploy

LEMMA SoundStart ==
  ASSUME TypeOK, NEW r \in Requests, Sound(r), Start(r) \/ StartFails(r)
  PROVE  Sound(r)'
<1>1. /\ pc[r] = "idle" /\ pc'[r] \in {"collect", "failed"}
      /\ pc'[r] = "failed" => req[r] = "all"
      /\ UNCHANGED <<req, n, memo, rows, resolved>>
  BY DEF Start, StartFails, TypeOK
<1>2. \A w \in Words : rows[r][w] = NoRows
  BY <1>1 DEF Sound, Untouched
<1>3. LooksOnce(r)' /\ RowsFromMemo(r)' /\ Untouched(r)'
  BY <1>1, <1>2 DEF Sound, LooksOnce, RowsFromMemo, Untouched
<1>4. AskedInOrder(r)'
  BY <1>1 DEF Sound, AskedInOrder
<1>5. EnrichedFromDeploy(r)'
  BY <1>1, <1>2, KindsOfWords DEF EnrichedFromDeploy, NoRows, Cell
<1>6. QED BY <1>3, <1>4, <1>5 DEF Sound

\* A request's step leaves the variables of the others alone.
LEMMA OthersKept ==
  ASSUME TypeOK, NEW r \in Requests, Sound(r), Request(r),
         NEW q \in Requests, q # r
  PROVE  /\ req'[q] = req[q] /\ pc'[q] = pc[q] /\ n'[q] = n[q]
         /\ memo'[q] = memo[q] /\ deploy'[q] = deploy[q]
         /\ rows'[q] = rows[q] /\ resolved'[q] = resolved[q]
<1>1. CASE Start(r) \/ StartFails(r)
  BY <1>1 DEF Start, StartFails, TypeOK
<1>2. CASE CollectProject(r)
  <2>1. pc[r] = "collect" /\ Proceed(r) /\ UNCHANGED <<req, deploy>>
    BY <1>2 DEF CollectProject
  <2>2. PICK cell \in Rows : CellIs(r, Order[n[r]], cell)
    BY <1>2, ProjectStep
  <2>3. rows'[q] = rows[q]
    BY <2>1, <2>2, WordAtHand, CellSet
  <2>4. memo'[q] = memo[q] /\ resolved'[q] = resolved[q]
    BY <1>2, ProjectStep
  <2>5. QED BY <2>1, <2>3, <2>4 DEF Proceed, TypeOK
<1>3. CASE CollectOther(r)
  <2>1. pc[r] = "collect" /\ Proceed(r)
        /\ UNCHANGED <<req, memo, deploy, resolved>>
    BY <1>3 DEF CollectOther
  <2>2. PICK cell \in Rows : CellIs(r, Order[n[r]], cell)
    BY <1>3, OtherStep
  <2>3. rows'[q] = rows[q]
    BY <2>1, <2>2, WordAtHand, CellSet
  <2>4. QED BY <2>1, <2>3 DEF Proceed, TypeOK
<1>4. CASE CollectWire(r)
  <2>1. PICK cell \in Rows : CellIs(r, req[r], cell)
    BY <1>4, WireStep DEF CellIs
  <2>2. req[r] \in Words
    BY <1>4, WireStep
  <2>3. rows'[q] = rows[q]
    BY <2>1, <2>2, CellSet
  <2>4. /\ \E s \in {"done", "failed"} : pc' = [pc EXCEPT ![r] = s]
        /\ \E k \in {resolved[r], resolved[r] + 1} :
             resolved' = [resolved EXCEPT ![r] = k]
        /\ UNCHANGED <<req, n, memo, deploy>>
    BY <1>4, WireStep
  <2>5. pc'[q] = pc[q] /\ resolved'[q] = resolved[q]
    BY <2>4 DEF TypeOK
  <2>6. QED BY <2>3, <2>4, <2>5
<1>5. QED BY <1>1, <1>2, <1>3, <1>4 DEF Request

LEMMA InvStep == IInv /\ [Next]_vars => IInv'
<1> SUFFICES ASSUME IInv, [Next]_vars PROVE IInv'
  OBVIOUS
<1>1. TypeOK /\ TypeOK' /\ \A q \in Requests : Sound(q)
  BY TypeStep DEF IInv
<1>2. ASSUME NEW r \in Requests, Request(r), NEW q \in Requests
      PROVE  Sound(q)'
  <2>1. CASE q = r
    <3>1. Sound(r)'
      BY <1>1, <1>2, SoundStart, SoundCollectProject, SoundCollectOther,
         SoundCollectWire DEF Request
    <3>2. QED BY <2>1, <3>1
  <2>2. CASE q # r
    BY <2>2, <1>1, <1>2, OthersKept, Frame
  <2>3. QED BY <2>1, <2>2
<1>3. ASSUME EditProject \/ EditConfig \/ UNCHANGED vars, NEW q \in Requests
      PROVE  Sound(q)'
  <2>1. UNCHANGED <<req, pc, n, memo, deploy, rows, resolved>>
    BY <1>3 DEF EditProject, EditConfig, vars
  <2>2. QED BY <2>1, <1>1, Frame
<1>4. QED BY <1>1, <1>2, <1>3 DEF IInv, Next

\* IInv: every request stays sound, whatever the other requests and the edits do.
THEOREM SoundRequests == Spec => []IInv
<1>1. QED BY InvInitial, InvStep, PTL DEF Spec

-----------------------------------------------------------------------------
(* The properties.                                                         *)

\* StatusFanout!OneResolution: the memo makes the first look at the project a
\* request's last one, a failed look included.
THEOREM OneLook == Spec => []OneResolution
<1>1. IInv => OneResolution
  BY DEF IInv, Sound, LooksOnce, OneResolution
<1>2. QED BY <1>1, SoundRequests, PTL

\* StatusFanout!OneEnrichment: enriched rows share the collector's charly.yml.
THEOREM OneCopy == Spec => []OneEnrichment
<1>1. IInv => OneEnrichment
  BY DEF IInv, Sound, EnrichedFromDeploy, OneEnrichment
<1>2. QED BY <1>1, SoundRequests, PTL

\* StatusFanout!WordIsolation: a finished fan-out has asked every word, and one
\* that failed did so before the first.
THEOREM WordsIsolated == Spec => []WordIsolation
<1>1. ASSUME IInv PROVE WordIsolation
  <2>1. ASSUME NEW r \in Requests, req[r] = "all", pc[r] = "done",
               NEW w \in Words
        PROVE  rows[r][w].got # "none"
    <3>1. PICK i \in 1..8 : Order[i] = w
      BY EveryWordHasItsTurn
    <3>2. n[r] = 9 /\ i < 9
      BY <1>1, <2>1 DEF IInv, Sound, AskedInOrder
    <3>3. QED BY <3>1, <3>2, <1>1, <2>1 DEF IInv, Sound, AskedInOrder
  <2>2. ASSUME NEW r \in Requests, req[r] = "all", pc[r] = "failed",
               NEW w \in Words
        PROVE  rows[r][w].got = "none"
    BY <1>1, <2>2 DEF IInv, Sound, Untouched, NoRows, Cell
  <2>3. QED BY <2>1, <2>2 DEF WordIsolation
<1>2. QED BY <1>1, SoundRequests, PTL

-----------------------------------------------------------------------------
(* The refinement of ProjectView.                                          *)

\* Before a fan-out has its project its rows come from none, afterwards from
\* that one.
LEMMA SeenIsMemo ==
  ASSUME NEW r \in Requests, Sound(r), req[r] = "all"
  PROVE  Seen(r) = {memo[r]} \ {None}
BY DEF Sound, RowsFromMemo, Seen

\* Nobody's rows come from anything before they are collected.
LEMMA SeenNothing ==
  ASSUME NEW r \in Requests, \A w \in Words : rows[r][w] = NoRows
  PROVE  Seen(r) = {}
BY DEF Seen, NoRows, Cell

\* A step of one request, as the view sees it.
LEMMA OtherPhases ==
  ASSUME TypeOK, NEW r \in Requests, Sound(r), Request(r),
         NEW q \in Requests, q # r
  PROVE  Phase(q)' = Phase(q) /\ Seen(q)' = Seen(q)
BY OthersKept DEF Phase, Seen

\* The view's variables as functions of one request's part of them.
LEMMA ViewSets ==
  ASSUME TypeOK, NEW r \in Requests, Sound(r), Request(r)
  PROVE  /\ [q \in Requests |-> Phase(q)]' =
              [[q \in Requests |-> Phase(q)] EXCEPT ![r] = Phase(r)']
         /\ [q \in Requests |-> Seen(q)]' =
              [[q \in Requests |-> Seen(q)] EXCEPT ![r] = Seen(r)']
BY OtherPhases

\* A step that a request's part of the view does not show is a stutter.
LEMMA ViewKept ==
  ASSUME TypeOK, NEW r \in Requests, Sound(r), Request(r)
  PROVE  /\ Phase(r)' = Phase(r) =>
              [q \in Requests |-> Phase(q)]' = [q \in Requests |-> Phase(q)]
         /\ Seen(r)' = Seen(r) =>
              [q \in Requests |-> Seen(q)]' = [q \in Requests |-> Seen(q)]
BY OtherPhases

\* No step of a request edits the project.
LEMMA NoEdit ==
  ASSUME NEW r \in Requests, Request(r)
  PROVE  project' = project
BY DEF Request, Start, StartFails, CollectProject, CollectOther, CollectWire,
       files

\* What a request's step may do to its part of the view; each is a step of
\* ProjectView, or a stutter.
Opens(r)  == Phase(r) = "idle" /\ Phase(r)' = "open" /\ Seen(r)' = Seen(r)
Closes(r) == /\ Phase(r) \in {"idle", "open"} /\ Phase(r)' = "closed"
             /\ Seen(r)' = Seen(r)
Looks(r)  == /\ Phase(r) = "open" /\ Phase(r)' \in {"open", "closed"}
             /\ Seen(r) = {} /\ Seen(r)' \in {{project}, {Failed}}
Idles(r)  == Phase(r)' = Phase(r) /\ Seen(r)' = Seen(r)

LEMMA OpensStep ==
  ASSUME TypeOK, NEW r \in Requests, Sound(r), Request(r), Opens(r)
  PROVE  View!Open(r)
BY ViewSets, ViewKept, NoEdit DEF Opens, View!Open

LEMMA ClosesStep ==
  ASSUME TypeOK, NEW r \in Requests, Sound(r), Request(r), Closes(r)
  PROVE  View!Close(r)
BY ViewSets, ViewKept, NoEdit DEF Closes, View!Close

LEMMA LooksStep ==
  ASSUME TypeOK, NEW r \in Requests, Sound(r), Request(r), Looks(r)
  PROVE  View!Look(r)
<1>1. [q \in Requests |-> Phase(q)]' \in
        {[q \in Requests |-> Phase(q)],
         [[q \in Requests |-> Phase(q)] EXCEPT ![r] = "closed"]}
  <2>1. CASE Phase(r)' = Phase(r)
    BY <2>1, ViewKept
  <2>2. CASE Phase(r)' = "closed"
    BY <2>2, ViewSets
  <2>3. QED BY <2>1, <2>2 DEF Looks
<1>2. \E v \in {project, Failed} :
        [q \in Requests |-> Seen(q)]' =
          [[q \in Requests |-> Seen(q)] EXCEPT ![r] = {v}]
  BY ViewSets DEF Looks
<1>3. QED BY <1>1, <1>2, NoEdit DEF Looks, View!Look

LEMMA IdlesStep ==
  ASSUME TypeOK, NEW r \in Requests, Sound(r), Request(r), Idles(r)
  PROVE  UNCHANGED View!vars
BY ViewKept, NoEdit DEF Idles, View!vars

\* What each step of a request is to the view.
LEMMA StartSeen ==
  ASSUME TypeOK, NEW r \in Requests, Sound(r), Sound(r)',
         Start(r) \/ StartFails(r)
  PROVE  Opens(r) \/ Closes(r)
<1>1. pc[r] = "idle" /\ pc'[r] \in {"collect", "failed"} /\ rows' = rows
  BY DEF Start, StartFails, TypeOK
<1>2. Seen(r)' = Seen(r)
  BY <1>1 DEF Seen
<1>3. Phase(r) = "idle" /\ Phase(r)' \in {"open", "closed"}
  BY <1>1 DEF Phase
<1>4. QED BY <1>2, <1>3 DEF Opens, Closes

\* A fan-out goes on, or ends.
LEMMA ProceedSeen ==
  ASSUME TypeOK, NEW r \in Requests, pc[r] = "collect", Proceed(r)
  PROVE  Phase(r) = "open" /\ Phase(r)' \in {"open", "closed"}
BY DEF Proceed, Phase, TypeOK

LEMMA CollectProjectSeen ==
  ASSUME TypeOK, NEW r \in Requests, Sound(r), Sound(r)', CollectProject(r)
  PROVE  Looks(r) \/ Closes(r) \/ Idles(r)
<1>1. pc[r] = "collect" /\ req[r] = "all" /\ Proceed(r) /\ req' = req
  BY DEF CollectProject
<1>2. Phase(r) = "open" /\ Phase(r)' \in {"open", "closed"}
  BY <1>1, ProceedSeen
<1>3. Seen(r) = {memo[r]} \ {None}
  BY <1>1, SeenIsMemo
<1>4. Seen(r)' = {memo'[r]} \ {None}
  BY <1>1 DEF Sound, RowsFromMemo, Seen
<1>5. CASE memo[r] = None
  <2>1. memo'[r] # None /\ memo'[r] \in {project, Failed}
    BY <1>5, ProjectStep DEF Resolutions
  <2>2. Seen(r) = {} /\ Seen(r)' \in {{project}, {Failed}}
    BY <1>3, <1>4, <1>5, <2>1
  <2>3. QED BY <1>2, <2>2 DEF Looks
<1>6. CASE memo[r] # None
  <2>1. memo'[r] = memo[r]
    BY <1>6, ProjectStep
  <2>2. Seen(r)' = Seen(r)
    BY <1>3, <1>4, <2>1
  <2>3. QED BY <1>2, <2>2 DEF Closes, Idles
<1>7. QED BY <1>5, <1>6

LEMMA CollectOtherSeen ==
  ASSUME TypeOK, NEW r \in Requests, Sound(r), Sound(r)', CollectOther(r)
  PROVE  Closes(r) \/ Idles(r)
<1>1. /\ pc[r] = "collect" /\ req[r] = "all" /\ Proceed(r)
      /\ req' = req /\ memo' = memo
  BY DEF CollectOther
<1>2. Phase(r) = "open" /\ Phase(r)' \in {"open", "closed"}
  BY <1>1, ProceedSeen
<1>3. Seen(r) = {memo[r]} \ {None}
  BY <1>1, SeenIsMemo
<1>4. Seen(r)' = {memo[r]} \ {None}
  BY <1>1 DEF Sound, RowsFromMemo, Seen
<1>5. QED BY <1>2, <1>3, <1>4 DEF Closes, Idles

LEMMA CollectWireSeen ==
  ASSUME TypeOK, NEW r \in Requests, Sound(r), CollectWire(r)
  PROVE  Looks(r) \/ Closes(r)
<1>1. pc[r] = "collect" /\ req[r] # "all" /\ req[r] \in Words
  BY WireStep
<1>2. \A w \in Words : rows[r][w] = NoRows
  BY <1>1 DEF Sound, Untouched
<1>3. Seen(r) = {}
  BY <1>2, SeenNothing
<1>4. Phase(r) = "open" /\ Phase(r)' = "closed"
  <2>1. pc'[r] \in {"done", "failed"}
    BY WireStep DEF TypeOK
  <2>2. QED BY <1>1, <2>1 DEF Phase
<1>5. PICK cell \in Rows : /\ CellIs(r, req[r], cell)
                           /\ cell.project # None => cell.project \in Resolutions
  BY WireStep DEF CellIs
<1>6. /\ rows'[r][req[r]] = cell
      /\ \A x \in Words \ {req[r]} : rows'[r][x] = NoRows
  BY <1>1, <1>2, <1>5, CellSet
<1>7. NoRows.project = None
  BY DEF NoRows, Cell
<1>8. Seen(r)' = {cell.project} \ {None}
  <2>1. Seen(r)' = {rows'[r][w].project : w \in Words} \ {None}
    BY DEF Seen
  <2>2. \A w \in Words : rows'[r][w].project \in {None, cell.project}
    BY <1>6, <1>7
  <2>3. rows'[r][req[r]].project = cell.project
    BY <1>6
  <2>4. QED BY <1>1, <2>1, <2>2, <2>3
<1>9. CASE cell.project = None
  BY <1>3, <1>4, <1>8, <1>9 DEF Closes
<1>10. CASE cell.project # None
  <2>1. Seen(r)' \in {{project}, {Failed}}
    BY <1>5, <1>8, <1>10 DEF Resolutions
  <2>2. QED BY <1>3, <1>4, <2>1 DEF Looks
<1>11. QED BY <1>9, <1>10

\* StatusFanout!ImplementsView: every fan-out and every word on the wire looks
\* at the project at most once, while it runs, and all its rows are from there.
THEOREM FanoutImplementsView == Spec => ImplementsView
<1>1. Init => View!Init
  <2> SUFFICES ASSUME Init PROVE View!Init
    OBVIOUS
  <2>1. \A r \in Requests : Phase(r) = "idle" /\ Seen(r) = {}
    BY SeenNothing DEF Init, Phase
  <2>2. QED BY <2>1 DEF Init, View!Init
<1>2. IInv /\ IInv' /\ [Next]_vars => [View!Next]_(View!vars)
  <2> SUFFICES ASSUME IInv, IInv', [Next]_vars
               PROVE  View!Next \/ UNCHANGED View!vars
    OBVIOUS
  <2>1. ASSUME NEW r \in Requests, Request(r)
        PROVE  View!Next \/ UNCHANGED View!vars
    <3>1. TypeOK /\ Sound(r) /\ Sound(r)'
      BY DEF IInv
    <3>2. Opens(r) \/ Closes(r) \/ Looks(r) \/ Idles(r)
      BY <2>1, <3>1, StartSeen, CollectProjectSeen, CollectOtherSeen,
         CollectWireSeen DEF Request
    <3>3. \/ View!Open(r) \/ View!Close(r) \/ View!Look(r)
          \/ UNCHANGED View!vars
      BY <2>1, <3>1, <3>2, OpensStep, ClosesStep, LooksStep, IdlesStep
    <3>4. QED BY <3>3 DEF View!Next
  <2>2. CASE EditProject
    BY <2>2 DEF EditProject, View!Next, View!Edit, Phase, Seen
  <2>3. CASE EditConfig \/ UNCHANGED vars
    BY <2>3 DEF EditConfig, vars, files, View!vars, Phase, Seen
  <2>4. QED BY <2>1, <2>2, <2>3 DEF Next
<1>3. QED
  BY <1>1, <1>2, SoundRequests, PTL DEF Spec, View!Spec, ImplementsView

=============================================================================
