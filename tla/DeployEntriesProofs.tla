------------------------ MODULE DeployEntriesProofs ------------------------
(***************************************************************************)
(* Proofs about DeployEntries, for any names, any entries and any number   *)
(* of edits.                                                               *)
(***************************************************************************)
EXTENDS DeployEntries, SequenceTheorems, TLAPS

RowType == [word : Words, image : Name, instance : Name,
            container : Name, of : Version, by : Version]

\* The copy and the resolved project are of versions an entry had during the
\* request, and the copy's version of an entry is the oldest of the three.
Tracked(dc) == \A k \in Keys : dc[k] \in past[k]
NoNewer(dc, other) ==
  \A k \in Keys : (dc[k] # None /\ other[k] # None) => dc[k].at <= other[k].at

\* The one version is the other, or an earlier one.
Before(dc, other) ==
  \A k \in Keys : (dc[k] # None /\ other[k] # None) =>
    dc[k] = other[k] \/ dc[k].at < other[k].at

Looks ==
  /\ pc = "idle" => deploy = None /\ rows = {}
  /\ pc # "idle" => deploy # None /\ Tracked(config)
  /\ memo = None <=> pc \in {"idle", "kubernetes"}
  /\ memo \in Deploy =>
       /\ Tracked(memo)
       /\ \A k \in Keys : memo[k] # None => memo[k].at <= edits
       /\ Before(memo, config)
  /\ deploy \in Deploy =>
       /\ Tracked(deploy)
       /\ \A k \in Keys : deploy[k] # None => deploy[k].at <= edits
       /\ NoNewer(deploy, config)
       /\ memo \in Deploy => NoNewer(deploy, memo)

\* The tree words whose collector has run.
Collected(p) ==
  IF p \in {"idle", "kubernetes"} THEN {}
  ELSE IF p = "kindcluster" THEN {"kubernetes"}
  ELSE IF p = "firecracker" THEN {"kubernetes", "kindcluster"}
  ELSE IF p \in {"android", "vm", "kubevirt"} THEN {"kubernetes", "kindcluster", "firecracker"}
  ELSE TreeWords

\* The one row an entry of the tree ends up with.
FinalRow(tree, dc, k) ==
  IF tree[k].kind.target = "kubevirt" /\ dc # Failed
  THEN EnrichKubevirt(dc, TreeRow("kubevirt", k, tree[k]))
  ELSE TreeRow(tree[k].kind.target, k, tree[k])

Due(k, p) == memo[k] # None /\ memo[k].kind.target \in Collected(p)

\* A tree row is the final row of an entry in the resolved project.
TreeSound(r) ==
  r.word \in TreeWords =>
    memo \in Deploy /\ \E k \in Keys : Due(k, pc) /\ r = FinalRow(memo, deploy, k)

\* The android collector has run.
Asked(p) == p \in {"vm", "kubevirt", "pod", "done"}

\* An android row is of a version its entry had: the resolved project's, or one
\* written since.
AndroidSound(r) ==
  r.word = "android" =>
    /\ Asked(pc) /\ memo \in Deploy
    /\ \E k \in Keys : \E e \in past[k] \ {None} :
         /\ e.kind.target = "android" /\ r = TreeRow("android", k, e)
         /\ memo[k] # None => memo[k] = e \/ memo[k].at < e.at

\* A device of the resolved project has its row, or was retargeted since.
AndroidComplete ==
  (Asked(pc) /\ memo \in Deploy) =>
    \A k \in Keys : (memo[k] # None /\ memo[k].kind.target = "android") =>
      \/ \E r \in RowsOf(k) : r.word = "android"
      \/ \E f \in past[k] \ {None} : f.kind.target # "android" /\ memo[k].at < f.at

AndroidOne ==
  \A r, s \in rows : (r.word = "android" /\ s.word = "android" /\ r.of[1] = s.of[1]) => r = s

\* What enriched a row is the entry found under k in the copy.
FoundBy(r, k) ==
  r.by # None => deploy \in Deploy /\ k \in Keys /\ deploy[k] # None /\ r.by = <<k, deploy[k].at>>

VmSound(r) == r.word = "vm" => r.of = None /\ FoundBy(r, FindVm(deploy, r.image))

PodSound(r) ==
  r.word = "pod" =>
    /\ r.of = None /\ Plain(r.image) /\ Plain(r.container)
    /\ FoundBy(r, Lookup(deploy, r.image, r.instance, r.container))

RowSound(r) == TreeSound(r) /\ AndroidSound(r) /\ VmSound(r) /\ PodSound(r)

\* No entry of a collected target is without its row.
Complete ==
  memo \in Deploy => \A k \in Keys : Due(k, pc) => FinalRow(memo, deploy, k) \in rows

IInv ==
  /\ TypeOK /\ Looks /\ (\A r \in rows : RowSound(r))
  /\ Complete /\ AndroidComplete /\ AndroidOne

-----------------------------------------------------------------------------
(* Lookups.                                                                *)

\* An entry of a copy is a version.
LEMMA EntryOf ==
  ASSUME NEW dc \in Deploy, NEW k \in Keys, dc[k] # None
  PROVE  dc[k] \in Entry /\ dc[k].kind \in Kind /\ dc[k].at \in 0..MaxEdits
BY EntriesAssumption DEF Deploy, Entry

\* lookupDeploy finds an entry of the copy, or nothing.
LEMMA LookupFinds ==
  ASSUME NEW dc \in Deploy, NEW box, NEW inst, NEW joined,
         Lookup(dc, box, inst, joined) # Empty
  PROVE  /\ Has(dc, Lookup(dc, box, inst, joined))
         /\ Lookup(dc, box, inst, joined) \in {DeployKey(box, inst), joined}
BY DEF Lookup

\* So does FindVmDeployNode.
LEMMA FindVmFinds ==
  ASSUME NEW dc \in Deploy, NEW d, FindVm(dc, d) # Empty
  PROVE  Has(dc, FindVm(dc, d))
<1>1. CASE IsVm(dc, d)
  BY <1>1 DEF FindVm, IsVm
<1>2. CASE ~IsVm(dc, d)
  <2>1. PICK k \in Keys : VmEntries(dc, d) = {k}
    BY <1>2 DEF FindVm
  <2>2. FindVm(dc, d) = k
    BY <1>2, <2>1 DEF FindVm
  <2> QED BY <2>1, <2>2 DEF VmEntries, IsVm
<1> QED BY <1>1, <1>2

\* A vm entry found for a domain of another name is the template's only one.
LEMMA FindVmOnly ==
  ASSUME NEW dc \in Deploy, NEW d, FindVm(dc, d) # Empty, FindVm(dc, d) # d
  PROVE  VmEntries(dc, d) = {FindVm(dc, d)}
<1>1. ~IsVm(dc, d)
  BY DEF FindVm
<1>2. PICK k \in Keys : VmEntries(dc, d) = {k}
  BY <1>1 DEF FindVm
<1> QED BY <1>1, <1>2 DEF FindVm

-----------------------------------------------------------------------------
(* Rows.                                                                   *)

\* Every name stays one with its namespace in front.
LEMMA NamespacedName == ASSUME NEW k \in Name PROVE <<"ns", "/">> \o k \in Name
<1>1. ASSUME NEW S, NEW a \in S, NEW b \in S PROVE <<a, b>> \in Seq(S)
  OBVIOUS
<1>2. <<"ns", "/">> \in Seq(Parts)
  BY <1>1, EntriesAssumption
<1>3. k \in Seq(Parts)
  BY DEF Name
<1> QED BY <1>2, <1>3, ConcatProperties DEF Name

\* A tree row reports its entry.
LEMMA TreeRowType ==
  ASSUME NEW word \in EntryWords, NEW k \in Keys, NEW e \in Entry
  PROVE  LET r == TreeRow(word, k, e) IN
           /\ r \in RowType
           /\ r.of = <<k, e.at>> /\ r.of # None /\ r.by = None /\ r.word = word
<1>1. k \in Name /\ e.kind \in Kind /\ e.at \in 0..MaxEdits /\ <<"ns", "/">> \o k \in Name
  BY EntriesAssumption, NamespacedName DEF Entry
<1>2. <<k, e.at>> \in Keys \X (0..MaxEdits)
  BY <1>1
<1>3. e.kind.image \in Name
  BY <1>1 DEF Kind
<1>4. Empty \in Name
  BY DEF Empty, Name
<1>5. None \in Version /\ <<k, e.at>> \in Version
  BY <1>2 DEF Version
<1>6. Sanitized[k] \in Name
  BY EntriesAssumption
<1>7. Venue(word, k, e) \in Name
  BY <1>1, <1>4, <1>6 DEF Venue
<1> QED BY <1>1, <1>2, <1>3, <1>4, <1>5, <1>6, <1>7, NoneAssumption DEF TreeRow, Row, RowType, Words

\* Enriching a row names an entry of the copy, and changes nothing else.
LEMMA EnrichedByType ==
  ASSUME NEW dc \in Deploy, NEW row \in RowType, NEW k, k = Empty \/ Has(dc, k)
  PROVE  LET r == EnrichedBy(row, dc, k) IN
           /\ r \in RowType
           /\ r.word = row.word /\ r.image = row.image /\ r.instance = row.instance
           /\ r.container = row.container /\ r.of = row.of
           /\ r.by # None => Has(dc, k) /\ r.by = <<k, dc[k].at>>
<1>1. CASE k = Empty
  BY <1>1 DEF EnrichedBy, RowType, Version
<1>2. CASE k # Empty
  <2>1. Has(dc, k) /\ k \in Keys /\ dc[k] # None
    BY <1>2 DEF Has
  <2>2. <<k, dc[k].at>> \in Version
    BY <2>1, EntryOf DEF Version
  <2>3. EnrichedBy(row, dc, k) = [row EXCEPT !.by = <<k, dc[k].at>>]
    BY <1>2 DEF EnrichedBy
  <2> QED BY <2>1, <2>2, <2>3 DEF RowType
<1> QED BY <1>1, <1>2

LEMMA EnrichKubevirtType ==
  ASSUME NEW dc \in Deploy, NEW row \in RowType, row.by = None
  PROVE  LET r == EnrichKubevirt(dc, row) IN
           /\ r \in RowType
           /\ r.word = row.word /\ r.of = row.of
           /\ r.by # None => \E k \in Keys : dc[k] # None /\ r.by = <<k, dc[k].at>>
<1> DEFINE k == Lookup(dc, row.image, row.instance, row.container)
<1>1. k = Empty \/ Has(dc, k)
  BY LookupFinds
<1>2. EnrichKubevirt(dc, row) \in {row, EnrichedBy(row, dc, k)}
  BY DEF EnrichKubevirt
<1> QED BY <1>1, <1>2, EnrichedByType DEF Has

\* The final row of an entry reports that entry.
LEMMA FinalRowReports ==
  ASSUME NEW tree \in Deploy, NEW dc \in Deploy \cup {Failed}, NEW k \in Keys,
         tree[k] # None, tree[k].kind.target \in TreeWords
  PROVE  LET r == FinalRow(tree, dc, k) IN
           /\ r \in RowType
           /\ r.of = <<k, tree[k].at>> /\ r.of # None
           /\ r.word = tree[k].kind.target
           /\ r.by # None =>
                dc \in Deploy /\ \E j \in Keys : dc[j] # None /\ r.by = <<j, dc[j].at>>
<1>1. tree[k] \in Entry
  BY EntryOf
<1> DEFINE row == TreeRow(tree[k].kind.target, k, tree[k])
<1>2. /\ row \in RowType
      /\ row.of = <<k, tree[k].at>> /\ row.of # None /\ row.by = None
      /\ row.word = tree[k].kind.target
  BY <1>1, TreeRowType DEF EntryWords
<1>3. CASE tree[k].kind.target = "kubevirt" /\ dc # Failed
  <2>1. dc \in Deploy /\ FinalRow(tree, dc, k) = EnrichKubevirt(dc, row)
    BY <1>3 DEF FinalRow
  <2> HIDE DEF row
  <2> QED BY <1>2, <2>1, EnrichKubevirtType
<1>4. CASE ~(tree[k].kind.target = "kubevirt" /\ dc # Failed)
  <2>1. FinalRow(tree, dc, k) = row
    BY <1>4 DEF FinalRow
  <2> QED BY <1>2, <2>1
<1> QED BY <1>3, <1>4

-----------------------------------------------------------------------------
(* Types.                                                                  *)

\* An overlay laid over the project is a project.
LEMMA MergedType ==
  ASSUME NEW tree \in Deploy \cup {Failed}, NEW overlay \in Deploy \cup {Failed}
  PROVE  Merged(tree, overlay) \in Deploy \cup {Failed}
BY DEF Merged, Deploy

\* Every row of the tree has its type, enriched or not.
LEMMA TreeRowsType ==
  ASSUME NEW word \in EntryWords, NEW tree \in Deploy \cup {Failed}
  PROVE  \A r \in TreeRows(word, tree) :
           r \in RowType /\ r.by = None /\ r.word = word
<1> SUFFICES ASSUME NEW k \in EntriesOf(word, tree)
             PROVE  LET r == TreeRow(word, k, tree[k]) IN
                      r \in RowType /\ r.by = None /\ r.word = word
  BY DEF TreeRows
<1>1. tree \in Deploy /\ k \in Keys /\ tree[k] # None
  BY DEF EntriesOf
<1> QED BY <1>1, EntryOf, TreeRowType

\* So have the rows of domains and containers.
LEMMA DomainRowType ==
  ASSUME NEW d \in Domains
  PROVE  LET r == DomainRow(d) IN
           /\ r \in RowType /\ r.word = "vm" /\ r.of = None /\ r.by = None /\ r.image = d
BY EntriesAssumption DEF DomainRow, Row, RowType, Version, Words, Name, Empty

LEMMA ContainerRowType ==
  ASSUME NEW c \in Containers, NEW unit \in Units \cup {None}
  PROVE  LET r == ContainerRow(c, unit) IN
           /\ r \in RowType /\ r.word = "pod" /\ r.of = None /\ r.by = None
           /\ Plain(r.image) /\ Plain(r.container)
<1>1. c \in Name /\ Plain(c) /\ Empty \in Name
  BY EntriesAssumption, PlainAssumption DEF Name, Empty
<1>2. CASE unit = None
  BY <1>1, <1>2 DEF ContainerRow, Row, RowType, Version, Words
<1>3. CASE unit # None
  <2>1. unit \in Units /\ unit.box \in Name /\ unit.instance \in Name /\ Plain(unit.box)
    BY <1>3, EntriesAssumption, PlainAssumption
  <2> QED BY <1>1, <1>3, <2>1 DEF ContainerRow, Row, RowType, Version, Words
<1> QED BY <1>2, <1>3

\* Each enrichment keeps what a row is, and names an entry of the copy.
LEMMA EnrichVmKeeps ==
  ASSUME NEW dc \in Deploy, NEW row \in RowType
  PROVE  LET r == EnrichVm(dc, row) IN
           /\ r \in RowType
           /\ r.word = row.word /\ r.of = row.of /\ r.image = row.image
           /\ r.by # None =>
                LET k == FindVm(dc, row.image) IN Has(dc, k) /\ r.by = <<k, dc[k].at>>
<1> DEFINE k == FindVm(dc, row.image)
<1>1. k = Empty \/ Has(dc, k)
  BY FindVmFinds
<1>2. EnrichVm(dc, row) = EnrichedBy(row, dc, k)
  BY DEF EnrichVm
<1> HIDE DEF k
<1>3. LET r == EnrichVm(dc, row) IN
        /\ r \in RowType
        /\ r.word = row.word /\ r.of = row.of /\ r.image = row.image
        /\ r.by # None => Has(dc, k) /\ r.by = <<k, dc[k].at>>
  BY <1>1, <1>2, EnrichedByType
<1> QED BY <1>3 DEF k

LEMMA EnrichOneKeeps ==
  ASSUME NEW dc \in Deploy, NEW row \in RowType
  PROVE  LET r == EnrichOne(dc, row) IN
           /\ r \in RowType
           /\ r.word = row.word /\ r.of = row.of /\ r.image = row.image
           /\ r.instance = row.instance /\ r.container = row.container
           /\ r.by # None =>
                LET k == Lookup(dc, row.image, row.instance, row.container) IN
                  Has(dc, k) /\ r.by = <<k, dc[k].at>>
<1> DEFINE k == Lookup(dc, row.image, row.instance, row.container)
<1>1. k = Empty \/ Has(dc, k)
  BY LookupFinds
<1>2. EnrichOne(dc, row) = EnrichedBy(row, dc, k)
  BY DEF EnrichOne
<1> HIDE DEF k
<1>3. LET r == EnrichOne(dc, row) IN
        /\ r \in RowType
        /\ r.word = row.word /\ r.of = row.of /\ r.image = row.image
        /\ r.instance = row.instance /\ r.container = row.container
        /\ r.by # None => Has(dc, k) /\ r.by = <<k, dc[k].at>>
  BY <1>1, <1>2, EnrichedByType
<1> QED BY <1>3 DEF k

\* Where the looks can come from.
LEMMA LookType ==
  ASSUME TypeOK, Looks, pc \in EntryWords, NEW look, Look(look)
  PROVE  /\ look \in Deploy \cup {Failed} /\ memo' = look
         /\ memo = None => look \in {config, Failed}
         /\ memo # None => look = memo
BY DEF TypeOK, Look

\* The next word.
LEMMA AfterWords ==
  /\ After["kubernetes"] = "kindcluster" /\ After["kindcluster"] = "firecracker"
  /\ After["firecracker"] = "android" /\ After["android"] = "vm"
  /\ After["vm"] = "kubevirt"
  /\ After["kubevirt"] = "pod" /\ After["pod"] = "done"
BY DEF After

LEMMA AfterType ==
  ASSUME NEW w \in Words
  PROVE  After[w] \in {"idle", "done"} \cup Words /\ After[w] # "idle" /\ After[w] # "kubernetes"
BY AfterWords DEF Words, EntryWords, TreeWords

-----------------------------------------------------------------------------
(* TypeOK.                                                                 *)

LEMMA InitTypeOK == Init => TypeOK
<1> SUFFICES ASSUME Init PROVE TypeOK
  OBVIOUS
<1>1. config \in Deploy /\ \A k \in Keys : config[k] # None => config[k].at <= edits
  <2>1. 0 \in 0..MaxEdits /\ edits = 0
    BY EntriesAssumption DEF Init
  <2>2. \A k \in Keys : config[k] \in {None} \cup [kind : Kinds, at : {0}]
    BY DEF Init
  <2>3. \A k \in Keys : config[k] \in Entry \cup {None}
    BY <2>1, <2>2 DEF Entry
  <2>4. config \in [Keys -> {None} \cup [kind : Kinds, at : {0}]]
    BY DEF Init
  <2> QED BY <2>1, <2>2, <2>3, <2>4 DEF Deploy
<1>2. edits \in 0..MaxEdits
  BY EntriesAssumption DEF Init
<1> QED BY <1>1, <1>2 DEF Init, TypeOK

\* Rows of the type stay so when rows of the type are added, enriched or not.
LEMMA EnrichedType ==
  ASSUME TypeOK, pc # "idle" => deploy # None, pc # "idle", NEW found \in SUBSET RowType,
         \A r \in found : r.by = None
  PROVE  /\ Enriched(EnrichVm, found) \subseteq RowType
         /\ Enriched(EnrichKubevirt, found) \subseteq RowType
         /\ Enriched(EnrichOne, found) \subseteq RowType
         /\ \A w : (\A r \in found : r.word = w) =>
              /\ \A r \in Enriched(EnrichVm, found) : r.word = w
              /\ \A r \in Enriched(EnrichKubevirt, found) : r.word = w
              /\ \A r \in Enriched(EnrichOne, found) : r.word = w
<1>1. CASE deploy = Failed
  BY <1>1 DEF Enriched, Copy
<1>2. CASE deploy # Failed
  <2>1. deploy \in Deploy
    BY <1>2 DEF TypeOK
  <2>2. \A r \in found :
          /\ EnrichVm(deploy, r) \in RowType /\ EnrichKubevirt(deploy, r) \in RowType
          /\ EnrichOne(deploy, r) \in RowType
          /\ EnrichVm(deploy, r).word = r.word /\ EnrichKubevirt(deploy, r).word = r.word
          /\ EnrichOne(deploy, r).word = r.word
    BY <2>1, EnrichVmKeeps, EnrichKubevirtType, EnrichOneKeeps
  <2> QED BY <1>2, <2>2 DEF Enriched, Copy
<1> QED BY <1>1, <1>2

LEMMA RowsType == TypeOK => rows \subseteq RowType
BY DEF TypeOK, RowType

\* A write keeps the types of what it touches.
LEMMA WriteTypes ==
  ASSUME TypeOK, NEW k \in Keys, Write(k)
  PROVE  /\ config' \in Deploy /\ edits' \in 0..MaxEdits
         /\ \A j \in Keys : config'[j] # None => config'[j].at <= edits'
         /\ past' \in [Keys -> SUBSET (Entry \cup {None})]
<1>1. edits' = edits + 1 /\ edits' \in 0..MaxEdits
  BY EntriesAssumption DEF Write, TypeOK
<1>2. PICK e \in {None} \cup [kind : Kinds, at : {edits + 1}] :
        /\ config' = [config EXCEPT ![k] = e]
        /\ past' = [past EXCEPT ![k] = @ \cup {e}]
  BY DEF Write
<1>3. e \in Entry \cup {None} /\ (e # None => e.at = edits + 1)
  BY <1>1, <1>2 DEF Entry
<1>4. config' \in Deploy
  BY <1>2, <1>3 DEF TypeOK, Deploy
<1>5. past' \in [Keys -> SUBSET (Entry \cup {None})]
  BY <1>2, <1>3 DEF TypeOK
<1>6. ASSUME NEW j \in Keys, config'[j] # None PROVE config'[j].at <= edits'
  <2>1. CASE j = k
    BY <1>1, <1>2, <1>3, <1>6, <2>1 DEF TypeOK, Deploy
  <2>2. CASE j # k
    <3>1. config'[j] = config[j] /\ config[j].at <= edits
      BY <1>2, <1>6, <2>2 DEF TypeOK, Deploy
    <3>2. config[j].at \in 0..MaxEdits
      BY <1>6, <3>1, EntryOf DEF TypeOK
    <3> QED BY <1>1, <3>1, <3>2, EntriesAssumption DEF TypeOK
  <2> QED BY <2>1, <2>2
<1> QED BY <1>1, <1>4, <1>5, <1>6

\* What is collected has its type.
LEMMA CollectTypes ==
  ASSUME TypeOK, Looks,
         CollectTree \/ CollectAndroid \/ CollectKubevirt \/ CollectVm \/ CollectPod
  PROVE  /\ rows' \subseteq RowType
         /\ memo' \in Deploy \cup {None, Failed}
         /\ pc' \in {"idle", "done"} \cup Words
         /\ UNCHANGED <<config, edits, deploy, past>>
         /\ rows \subseteq rows' /\ \A r \in rows' \ rows : r.word = pc
         /\ pc \in Words /\ pc' = After[pc]
<1> USE RowsType
<1>1. CASE CollectTree
  <2>1. pc \in EntryWords /\ pc' = After[pc] /\ UNCHANGED <<config, edits, deploy, past>>
    BY <1>1 DEF CollectTree, EntryWords
  <2>2. PICK look : Look(look) /\ rows' = rows \cup TreeRows(pc, look)
    BY <1>1 DEF CollectTree
  <2>3. look \in Deploy \cup {Failed} /\ memo' = look
    BY <2>1, <2>2, LookType
  <2>4. TreeRows(pc, look) \subseteq RowType /\ \A r \in TreeRows(pc, look) : r.word = pc
    BY <2>1, <2>3, TreeRowsType
  <2> QED BY <2>1, <2>2, <2>3, <2>4, AfterType DEF Words
<1>2. CASE CollectKubevirt
  <2>1. pc = "kubevirt" /\ pc \in EntryWords /\ pc' = After[pc] /\ UNCHANGED <<config, edits, deploy, past>>
    BY <1>2 DEF CollectKubevirt, EntryWords, TreeWords
  <2>2. PICK look : Look(look) /\ rows' = rows \cup Enriched(EnrichKubevirt, TreeRows(pc, look))
    BY <1>2 DEF CollectKubevirt
  <2>3. look \in Deploy \cup {Failed} /\ memo' = look
    BY <2>1, <2>2, LookType
  <2>4. /\ Enriched(EnrichKubevirt, TreeRows(pc, look)) \subseteq RowType
        /\ \A r \in Enriched(EnrichKubevirt, TreeRows(pc, look)) : r.word = pc
    BY <2>1, <2>3, TreeRowsType, EnrichedType DEF Looks
  <2> QED BY <2>1, <2>2, <2>3, <2>4, AfterType DEF Words
<1>3. CASE CollectVm
  <2>1. pc = "vm" /\ pc \in Words /\ pc' = After[pc] /\ UNCHANGED <<config, edits, deploy, memo, past>>
    BY <1>3 DEF CollectVm, Words
  <2>2. PICK up \in SUBSET Domains : rows' = rows \cup Enriched(EnrichVm, {DomainRow(d) : d \in up})
    BY <1>3 DEF CollectVm
  <2>3. /\ Enriched(EnrichVm, {DomainRow(d) : d \in up}) \subseteq RowType
        /\ \A r \in Enriched(EnrichVm, {DomainRow(d) : d \in up}) : r.word = "vm"
    <3>1. {DomainRow(d) : d \in up} \in SUBSET RowType
          /\ \A r \in {DomainRow(d) : d \in up} : r.by = None /\ r.word = "vm"
      BY DomainRowType
    <3> QED BY <2>1, <3>1, EnrichedType DEF Looks
  <2> QED BY <2>1, <2>2, <2>3, AfterType DEF TypeOK
<1>4. CASE CollectPod
  <2>1. pc = "pod" /\ pc \in Words /\ pc' = After[pc] /\ UNCHANGED <<config, edits, deploy, memo, past>>
    BY <1>4 DEF CollectPod, Words
  <2>2. PICK up \in SUBSET Containers : \E unit \in [up -> Units \cup {None}] :
          rows' = rows \cup Enriched(EnrichOne, {ContainerRow(c, unit[c]) : c \in up})
    BY <1>4 DEF CollectPod
  <2>3. PICK unit \in [up -> Units \cup {None}] :
          rows' = rows \cup Enriched(EnrichOne, {ContainerRow(c, unit[c]) : c \in up})
    BY <2>2
  <2>4. {ContainerRow(c, unit[c]) : c \in up} \in SUBSET RowType
        /\ \A r \in {ContainerRow(c, unit[c]) : c \in up} : r.by = None /\ r.word = "pod"
    BY ContainerRowType
  <2>5. /\ Enriched(EnrichOne, {ContainerRow(c, unit[c]) : c \in up}) \subseteq RowType
        /\ \A r \in Enriched(EnrichOne, {ContainerRow(c, unit[c]) : c \in up}) : r.word = "pod"
    BY <2>1, <2>4, EnrichedType DEF Looks
  <2> QED BY <2>1, <2>3, <2>5, AfterType DEF TypeOK
<1>5. CASE CollectAndroid
  <2>1. pc \in EntryWords /\ pc' = After[pc] /\ UNCHANGED <<config, edits, deploy, past>>
    BY <1>5 DEF CollectAndroid, EntryWords
  <2>2. PICK look \in {config, memo, Failed}, overlay \in {config, Failed} :
          Look(look) /\ rows' = rows \cup TreeRows(pc, Merged(look, overlay))
    BY <1>5 DEF CollectAndroid
  <2>3. look \in Deploy \cup {Failed} /\ memo' = look
    BY <2>1, <2>2, LookType
  <2>4. Merged(look, overlay) \in Deploy \cup {Failed}
    BY <2>3, MergedType DEF TypeOK
  <2>5. /\ TreeRows(pc, Merged(look, overlay)) \subseteq RowType
        /\ \A r \in TreeRows(pc, Merged(look, overlay)) : r.word = pc
    BY <2>1, <2>4, TreeRowsType
  <2> QED BY <2>1, <2>2, <2>3, <2>5, AfterType DEF Words
<1> QED BY <1>1, <1>2, <1>3, <1>4, <1>5

\* A write forgets no version.
LEMMA WriteGrows ==
  ASSUME TypeOK, NEW k \in Keys, Write(k)
  PROVE  \A j \in Keys : past[j] \subseteq past'[j]
BY DEF Write, TypeOK

LEMMA NextTypeOK == TypeOK /\ Looks /\ [Next]_vars => TypeOK'
<1> SUFFICES ASSUME TypeOK, Looks, [Next]_vars PROVE TypeOK'
  OBVIOUS
<1>1. CASE Start
  <2>1. past' \in [Keys -> SUBSET (Entry \cup {None})]
    BY <1>1 DEF Start, TypeOK, Deploy
  <2> QED BY <1>1, <2>1 DEF Start, TypeOK, Words, EntryWords, TreeWords
<1>2. CASE CollectTree \/ CollectAndroid \/ CollectKubevirt \/ CollectVm \/ CollectPod
  BY <1>2, CollectTypes DEF TypeOK, RowType
<1>3. ASSUME NEW k \in Keys, Write(k) PROVE TypeOK'
  <2>1. UNCHANGED <<pc, deploy, memo, rows>>
    BY <1>3 DEF Write
  <2> QED BY <1>3, <2>1, WriteTypes DEF TypeOK
<1>4. CASE UNCHANGED vars
  BY <1>4 DEF vars, TypeOK
<1> QED BY <1>1, <1>2, <1>3, <1>4 DEF Next

-----------------------------------------------------------------------------
(* What the looks are of.                                                  *)

LEMMA InitLooks == Init => Looks
<1> SUFFICES ASSUME Init PROVE Looks
  OBVIOUS
<1> QED BY NoneAssumption DEF Init, Looks

\* Reading the copy makes it the version every entry has now.
LEMMA StartLooks == TypeOK /\ Looks /\ Start => Looks'
<1> SUFFICES ASSUME TypeOK, Looks, Start PROVE Looks'
  OBVIOUS
<1>1. /\ pc = "idle" /\ pc' = "kubernetes" /\ memo = None /\ memo' = None
      /\ config' = config /\ edits' = edits /\ deploy' \in {config, Failed}
      /\ \A k \in Keys : past'[k] = {config[k]}
  BY DEF Start, Looks
<1>2. config \in Deploy /\ deploy' # None
  BY <1>1, NoneAssumption, EntriesAssumption DEF TypeOK
<1>3. Tracked(config)'
  BY <1>1 DEF Tracked
<1>4. ASSUME deploy' \in Deploy
      PROVE  /\ Tracked(deploy)'
             /\ \A k \in Keys : deploy'[k] # None => deploy'[k].at <= edits'
             /\ NoNewer(deploy, config)'
  <2>1. deploy' = config
    BY <1>1, <1>4, NoneAssumption
  <2>2. ASSUME NEW k \in Keys, config[k] # None PROVE config[k].at <= config[k].at
    BY <1>2, <2>2, EntryOf
  <2> QED BY <1>1, <2>1, <2>2 DEF Tracked, NoNewer, TypeOK
<1> QED BY <1>1, <1>2, <1>3, <1>4, NoneAssumption DEF Looks

\* Resolving the project finds entries that are no older than the copy's.
LEMMA LookLooks ==
  ASSUME TypeOK, Looks, pc \in EntryWords, NEW look, Look(look),
         pc' = After[pc], UNCHANGED <<config, edits, deploy, past>>
  PROVE  Looks'
<1>1. /\ look \in Deploy \cup {Failed} /\ memo' = look
      /\ memo = None => look \in {config, Failed}
      /\ memo # None => look = memo
  BY LookType
<1>2. pc # "idle" /\ pc' # "idle" /\ pc' # "kubernetes"
  BY AfterType DEF Words, EntryWords, TreeWords
<1>3. memo' # None
  BY <1>1, NoneAssumption, EntriesAssumption
<1>4. ASSUME memo' \in Deploy
      PROVE  /\ Tracked(memo)' /\ (deploy \in Deploy => NoNewer(deploy, memo'))
             /\ \A k \in Keys : memo'[k] # None => memo'[k].at <= edits
             /\ Before(memo', config)
  <2>1. CASE memo = None
    <3>1. memo' = config
      BY <1>1, <1>4, <2>1, NoneAssumption
    <3> QED BY <1>2, <3>1 DEF Looks, Tracked, TypeOK, Before
  <2>2. CASE memo # None
    <3>1. memo' = memo
      BY <1>1, <2>2
    <3> QED BY <1>4, <3>1 DEF Looks, Tracked
  <2> QED BY <2>1, <2>2
<1>5. deploy' = deploy /\ config' = config /\ edits' = edits /\ past' = past
  OBVIOUS
<1> QED BY <1>2, <1>3, <1>4, <1>5 DEF Looks, Tracked, NoNewer, Before

\* A version written now is newer than the copy's.
LEMMA WriteLooks ==
  ASSUME TypeOK, Looks, NEW k \in Keys, Write(k)
  PROVE  Looks'
<1>1. pc # "idle" /\ UNCHANGED <<pc, deploy, memo, rows>> /\ edits' = edits + 1
  BY DEF Write
<1>2. PICK e \in {None} \cup [kind : Kinds, at : {edits + 1}] :
        /\ config' = [config EXCEPT ![k] = e]
        /\ past' = [past EXCEPT ![k] = @ \cup {e}]
  BY DEF Write
<1>3. \A j \in Keys : config'[j] = IF j = k THEN e ELSE config[j]
  BY <1>2 DEF TypeOK, Deploy
<1>4. \A j \in Keys : past'[j] = IF j = k THEN past[k] \cup {e} ELSE past[j]
  BY <1>2 DEF TypeOK
<1>5. Tracked(config)'
  BY <1>1, <1>3, <1>4 DEF Tracked, Looks
<1>6. ASSUME memo' \in Deploy
      PROVE  /\ Tracked(memo)'
             /\ \A j \in Keys : memo'[j] # None => memo'[j].at <= edits'
             /\ Before(memo, config)'
  <2>1. Tracked(memo)'
    BY <1>1, <1>4, <1>6 DEF Tracked, Looks
  <2>2. ASSUME NEW j \in Keys, memo[j] # None
        PROVE  memo[j].at \in Nat /\ memo[j].at <= edits + 1 /\ memo[j].at < edits + 1
    <3>1. memo[j].at \in 0..MaxEdits /\ memo[j].at <= edits /\ edits \in 0..MaxEdits
      BY <1>1, <1>6, <2>2, EntryOf DEF Looks, TypeOK
    <3> QED BY <3>1, EntriesAssumption
  <2>3. ASSUME NEW j \in Keys, memo[j] # None, config'[j] # None
        PROVE  memo[j] = config'[j] \/ memo[j].at < config'[j].at
    <3>1. CASE j = k
      <4>1. config'[j].at = edits + 1
        BY <1>2, <1>3, <2>3, <3>1
      <4> QED BY <2>2, <2>3, <4>1
    <3>2. CASE j # k
      BY <1>1, <1>3, <1>6, <2>3, <3>2 DEF Looks, Before
    <3> QED BY <3>1, <3>2
  <2> QED BY <1>1, <2>1, <2>2, <2>3 DEF Before
<1>7. ASSUME deploy' \in Deploy
      PROVE  /\ Tracked(deploy)'
             /\ \A j \in Keys : deploy'[j] # None => deploy'[j].at <= edits'
             /\ NoNewer(deploy, config)'
             /\ memo' \in Deploy => NoNewer(deploy, memo)'
  <2>1. Tracked(deploy)'
    BY <1>1, <1>4, <1>7 DEF Tracked, Looks
  <2>2. ASSUME NEW j \in Keys, deploy[j] # None
        PROVE  deploy[j].at \in Nat /\ deploy[j].at <= edits /\ deploy[j].at <= edits + 1
    <3>1. deploy[j].at \in 0..MaxEdits /\ deploy[j].at <= edits /\ edits \in 0..MaxEdits
      BY <1>1, <1>7, <2>2, EntryOf DEF Looks, TypeOK
    <3> QED BY <3>1, EntriesAssumption
  <2>3. ASSUME NEW j \in Keys, deploy[j] # None, config'[j] # None
        PROVE  deploy[j].at <= config'[j].at
    <3>1. CASE j = k
      <4>1. config'[j].at = edits + 1
        BY <1>2, <1>3, <2>3, <3>1
      <4> QED BY <2>2, <2>3, <4>1
    <3>2. CASE j # k
      BY <1>1, <1>3, <1>7, <2>3, <3>2 DEF Looks, NoNewer
    <3> QED BY <3>1, <3>2
  <2>4. memo' \in Deploy => NoNewer(deploy, memo)'
    BY <1>1, <1>7 DEF Looks, NoNewer
  <2> QED BY <1>1, <2>1, <2>2, <2>3, <2>4 DEF NoNewer
<1> QED BY <1>1, <1>5, <1>6, <1>7 DEF Looks

LEMMA NextLooks == TypeOK /\ Looks /\ [Next]_vars => Looks'
<1> SUFFICES ASSUME TypeOK, Looks, [Next]_vars PROVE Looks'
  OBVIOUS
<1>1. CASE CollectTree \/ CollectAndroid
  <2>1. pc \in EntryWords /\ pc' = After[pc] /\ UNCHANGED <<config, edits, deploy, past>>
    BY <1>1 DEF CollectTree, CollectAndroid, EntryWords
  <2>2. PICK look : Look(look)
    BY <1>1 DEF CollectTree, CollectAndroid
  <2> QED BY <2>1, <2>2, LookLooks
<1>2. CASE CollectKubevirt
  <2>1. pc \in EntryWords /\ pc' = After[pc] /\ UNCHANGED <<config, edits, deploy, past>>
    BY <1>2 DEF CollectKubevirt, EntryWords, TreeWords
  <2>2. PICK look : Look(look)
    BY <1>2 DEF CollectKubevirt
  <2> QED BY <2>1, <2>2, LookLooks
<1>3. CASE CollectVm \/ CollectPod
  <2>1. /\ pc \in {"vm", "pod"} /\ pc' = After[pc]
        /\ UNCHANGED <<config, edits, deploy, memo, past>>
    BY <1>3 DEF CollectVm, CollectPod
  <2>2. pc' # "idle" /\ pc' # "kubernetes"
    BY <2>1, AfterWords
  <2> QED BY <2>1, <2>2 DEF Looks, Tracked, NoNewer, Before
<1>4. CASE UNCHANGED vars
  BY <1>4 DEF vars, Looks, Tracked, NoNewer
<1> QED BY <1>1, <1>2, <1>3, <1>4, StartLooks, WriteLooks DEF Next

-----------------------------------------------------------------------------
(* The rows.                                                               *)

\* Each collector of tree rows adds its word to those collected.
LEMMA CollectedAfter ==
  /\ \A w \in TreeWords : Collected(After[w]) = Collected(w) \cup {w}
  /\ \A w \in {"android", "vm", "pod"} : Collected(After[w]) = Collected(w)
<1>1. Collected(After["kubernetes"]) = Collected("kubernetes") \cup {"kubernetes"}
  BY AfterWords DEF Collected
<1>2. Collected(After["kindcluster"]) = Collected("kindcluster") \cup {"kindcluster"}
  BY AfterWords DEF Collected
<1>3. Collected(After["firecracker"]) = Collected("firecracker") \cup {"firecracker"}
  BY AfterWords DEF Collected
<1>4. Collected(After["kubevirt"]) = Collected("kubevirt") \cup {"kubevirt"}
  BY AfterWords DEF Collected, TreeWords
<1>5. /\ Collected(After["android"]) = Collected("android")
      /\ Collected(After["vm"]) = Collected("vm") /\ Collected(After["pod"]) = Collected("pod")
  BY AfterWords DEF Collected
<1> QED BY <1>1, <1>2, <1>3, <1>4, <1>5 DEF TreeWords

LEMMA CollectedTree == \A p : Collected(p) \subseteq TreeWords
BY DEF Collected, TreeWords

\* The android word is asked once.
LEMMA AskedAfter ==
  /\ \A w \in Words : Asked(w) => Asked(After[w])
  /\ ~Asked("android") /\ Asked(After["android"])
  /\ \A w \in Words \ {"android"} : Asked(After[w]) => Asked(w)
BY AfterWords DEF Asked, Words, EntryWords, TreeWords

\* The rows there were are as sound as they were.
LEMMA OldRows ==
  ASSUME IInv, memo # None => memo' = memo, deploy' = deploy,
         Collected(pc) \subseteq Collected(pc'), Asked(pc) => Asked(pc'),
         \A k \in Keys : past[k] \subseteq past'[k], NEW r \in rows
  PROVE  RowSound(r)'
<1>1. RowSound(r)
  BY DEF IInv
<1>2. TreeSound(r)'
  <2>1. ASSUME r.word \in TreeWords
        PROVE  memo' \in Deploy /\ \E k \in Keys : Due(k, pc)' /\ r = FinalRow(memo', deploy, k)
    <3>1. memo \in Deploy /\ \E k \in Keys : Due(k, pc) /\ r = FinalRow(memo, deploy, k)
      BY <1>1, <2>1 DEF RowSound, TreeSound
    <3>2. memo' = memo
      BY <3>1, NoneAssumption
    <3> QED BY <3>1, <3>2 DEF Due
  <2> QED BY <2>1 DEF TreeSound
<1>3. VmSound(r)'
  BY <1>1 DEF RowSound, VmSound, FoundBy
<1>4. PodSound(r)'
  BY <1>1 DEF RowSound, PodSound, FoundBy
<1>5. AndroidSound(r)'
  <2>1. ASSUME r.word = "android"
        PROVE  /\ Asked(pc') /\ memo' \in Deploy
               /\ \E k \in Keys : \E e \in past'[k] \ {None} :
                    /\ e.kind.target = "android" /\ r = TreeRow("android", k, e)
                    /\ memo'[k] # None => memo'[k] = e \/ memo'[k].at < e.at
    <3>1. Asked(pc) /\ memo \in Deploy
      BY <1>1, <2>1 DEF RowSound, AndroidSound
    <3>2. PICK k \in Keys : \E e \in past[k] \ {None} :
            /\ e.kind.target = "android" /\ r = TreeRow("android", k, e)
            /\ memo[k] # None => memo[k] = e \/ memo[k].at < e.at
      BY <1>1, <2>1 DEF RowSound, AndroidSound
    <3>3. memo' = memo
      BY <3>1, NoneAssumption
    <3> QED BY <3>1, <3>2, <3>3
  <2> QED BY <2>1 DEF AndroidSound
<1> QED BY <1>2, <1>3, <1>4, <1>5 DEF RowSound

\* A tree collector's rows are the final ones of the entries of its word.
LEMMA TreeStep ==
  ASSUME IInv, pc \in TreeWords, NEW look, Look(look), pc' = After[pc],
         UNCHANGED <<config, edits, deploy, past>>,
         look \in Deploy =>
           rows' = rows \cup {FinalRow(look, deploy, k) : k \in EntriesOf(pc, look)},
         look = Failed => rows' = rows
  PROVE  (\A r \in rows' : RowSound(r)') /\ Complete'
<1>1. /\ look \in Deploy \cup {Failed} /\ memo' = look
      /\ memo # None => memo' = memo
  BY LookType DEF IInv, EntryWords
<1>2. Collected(pc') = Collected(pc) \cup {pc}
  BY CollectedAfter
<1>3. deploy \in Deploy \cup {Failed} /\ deploy' = deploy
  BY DEF IInv, TypeOK, Looks, TreeWords
<1>4. \A r \in rows : RowSound(r)'
  <2>1. Asked(pc) => Asked(pc')
    BY AskedAfter DEF Words, EntryWords
  <2> QED BY <1>1, <1>2, <2>1, OldRows
<1>5. CASE look = Failed
  <2>1. rows' = rows /\ memo' \notin Deploy
    BY <1>1, <1>5, NoneAssumption
  <2> QED BY <1>4, <2>1 DEF Complete
<1>6. CASE look \in Deploy
  <2>1. rows' = rows \cup {FinalRow(look, deploy, k) : k \in EntriesOf(pc, look)}
    BY <1>6
  <2>2. look # Failed
    BY <1>6, NoneAssumption
  <2>3. ASSUME NEW k \in EntriesOf(pc, look)
        PROVE  RowSound(FinalRow(look, deploy, k))'
    <3>1. k \in Keys /\ look[k] # None /\ look[k].kind.target = pc
      BY <2>2 DEF EntriesOf
    <3> DEFINE r == FinalRow(look, deploy, k)
    <3>2. r.word = pc
      BY <1>3, <1>6, <3>1, FinalRowReports
    <3>3. pc # "vm" /\ pc # "pod" /\ pc # "android"
      BY DEF TreeWords
    <3>4. Due(k, pc)'
      BY <1>1, <1>2, <3>1 DEF Due
    <3>5. TreeSound(r)'
      BY <1>1, <1>3, <1>6, <3>1, <3>4 DEF TreeSound
    <3>6. VmSound(r)' /\ PodSound(r)' /\ AndroidSound(r)'
      BY <3>2, <3>3, <1>1, <1>3 DEF VmSound, PodSound, AndroidSound
    <3> QED BY <3>5, <3>6, <1>1, <1>3 DEF RowSound
  <2>4. ASSUME NEW k \in Keys, Due(k, pc)'
        PROVE  FinalRow(look, deploy, k) \in rows'
    <3>1. look[k] # None /\ look[k].kind.target \in Collected(pc) \cup {pc}
      BY <1>1, <1>2, <2>4 DEF Due
    <3>2. CASE look[k].kind.target = pc
      BY <2>1, <2>2, <3>1, <3>2 DEF EntriesOf
    <3>3. CASE look[k].kind.target \in Collected(pc)
      <4>1. memo # None
        BY <3>3 DEF IInv, Looks, Collected, TreeWords
      <4>2. memo = look /\ Due(k, pc)
        BY <1>1, <3>1, <3>3, <4>1 DEF Due
      <4> QED BY <1>6, <2>1, <4>2 DEF IInv, Complete
    <3> QED BY <3>1, <3>2, <3>3
  <2>5. Complete'
    BY <1>1, <1>3, <2>4 DEF Complete
  <2> QED BY <1>4, <2>1, <2>3, <2>5
<1> QED BY <1>1, <1>5, <1>6

\* The rows of a tree look that succeeded, enriched or not, and of one that failed.
LEMMA FinalTreeRows ==
  ASSUME NEW tree \in Deploy, NEW word \in TreeWords \ {"kubevirt"}
  PROVE  TreeRows(word, tree) = {FinalRow(tree, deploy, k) : k \in EntriesOf(word, tree)}
<1>1. \A k \in EntriesOf(word, tree) : FinalRow(tree, deploy, k) = TreeRow(word, k, tree[k])
  BY NoneAssumption DEF EntriesOf, FinalRow
<1> QED BY <1>1 DEF TreeRows

LEMMA FinalKubevirtRows ==
  ASSUME NEW tree \in Deploy
  PROVE  Enriched(EnrichKubevirt, TreeRows("kubevirt", tree))
           = {FinalRow(tree, deploy, k) : k \in EntriesOf("kubevirt", tree)}
<1>1. \A k \in EntriesOf("kubevirt", tree) : tree[k].kind.target = "kubevirt"
  BY NoneAssumption DEF EntriesOf
<1>2. CASE deploy = Failed
  BY <1>1, <1>2 DEF Enriched, Copy, FinalRow, TreeRows
<1>3. CASE deploy # Failed
  <2>1. \A k \in EntriesOf("kubevirt", tree) :
          FinalRow(tree, deploy, k) = EnrichKubevirt(deploy, TreeRow("kubevirt", k, tree[k]))
    BY <1>1, <1>3 DEF FinalRow
  <2>2. Enriched(EnrichKubevirt, TreeRows("kubevirt", tree))
          = {EnrichKubevirt(deploy, r) : r \in TreeRows("kubevirt", tree)}
    BY <1>3 DEF Enriched, Copy
  <2> QED BY <2>1, <2>2 DEF TreeRows
<1> QED BY <1>2, <1>3

LEMMA NoTreeRows ==
  \A word \in TreeWords : TreeRows(word, Failed) = {}
    /\ Enriched(EnrichKubevirt, TreeRows(word, Failed)) = {}
BY DEF TreeRows, EntriesOf, Enriched

\* The vm collector's rows, enriched from the one entry found for the domain.
LEMMA VmStep ==
  ASSUME IInv, CollectVm
  PROVE  (\A r \in rows' : RowSound(r)') /\ Complete'
<1>1. /\ pc = "vm" /\ pc' = After[pc]
      /\ UNCHANGED <<config, edits, deploy, memo, past>>
  BY DEF CollectVm
<1>2. PICK up \in SUBSET Domains :
        rows' = rows \cup Enriched(EnrichVm, {DomainRow(d) : d \in up})
  BY DEF CollectVm
<1>3. Collected(pc') = Collected(pc)
  BY <1>1, CollectedAfter
<1>4. deploy \in Deploy \cup {Failed} /\ deploy' = deploy
  BY <1>1 DEF IInv, TypeOK, Looks
<1>5. ASSUME NEW r \in Enriched(EnrichVm, {DomainRow(d) : d \in up}) PROVE RowSound(r)'
  <2>1. CASE deploy = Failed
    <3>1. PICK d \in up : r = DomainRow(d)
      BY <1>5, <2>1 DEF Enriched, Copy
    <3>2. r.word = "vm" /\ r.of = None /\ r.by = None
      BY <3>1, DomainRowType
    <3> QED BY <3>2 DEF RowSound, TreeSound, AndroidSound, VmSound, PodSound, FoundBy, TreeWords
  <2>2. CASE deploy # Failed
    <3>1. deploy \in Deploy
      BY <1>4, <2>2
    <3>2. PICK d \in up : r = EnrichVm(deploy, DomainRow(d))
      BY <1>5, <2>2 DEF Enriched, Copy
    <3> DEFINE row == DomainRow(d)
    <3>3. row \in RowType /\ row.word = "vm" /\ row.of = None
      BY DomainRowType
    <3> HIDE DEF row
    <3>4. /\ r.word = "vm" /\ r.of = None /\ r.image = row.image
          /\ r.by # None =>
               LET k == FindVm(deploy, row.image) IN
                 Has(deploy, k) /\ r.by = <<k, deploy[k].at>>
      BY <3>1, <3>2, <3>3, EnrichVmKeeps DEF row
    <3>5. FoundBy(r, FindVm(deploy, r.image))
      BY <3>1, <3>4 DEF FoundBy, Has
    <3>6. VmSound(r)'
      BY <1>4, <3>4, <3>5 DEF VmSound, FoundBy
    <3> QED BY <3>4, <3>6 DEF RowSound, TreeSound, AndroidSound, PodSound, TreeWords
  <2> QED BY <2>1, <2>2
<1>6. \A r \in rows : RowSound(r)'
  BY <1>1, <1>3, AskedAfter, OldRows DEF Words
<1>7. Complete'
  BY <1>1, <1>2, <1>3 DEF IInv, Complete, Due
<1> QED BY <1>2, <1>5, <1>6, <1>7

\* The pod collector's, each from the entry looked up for the container.
LEMMA PodStep ==
  ASSUME IInv, CollectPod
  PROVE  (\A r \in rows' : RowSound(r)') /\ Complete'
<1>1. /\ pc = "pod" /\ pc' = After[pc]
      /\ UNCHANGED <<config, edits, deploy, memo, past>>
  BY DEF CollectPod
<1>2. PICK up \in SUBSET Containers : \E unit \in [up -> Units \cup {None}] :
        rows' = rows \cup Enriched(EnrichOne, {ContainerRow(c, unit[c]) : c \in up})
  BY DEF CollectPod
<1>3. PICK unit \in [up -> Units \cup {None}] :
        rows' = rows \cup Enriched(EnrichOne, {ContainerRow(c, unit[c]) : c \in up})
  BY <1>2
<1>4. Collected(pc') = Collected(pc)
  BY <1>1, CollectedAfter
<1>5. deploy \in Deploy \cup {Failed} /\ deploy' = deploy
  BY <1>1 DEF IInv, TypeOK, Looks
<1>6. ASSUME NEW r \in Enriched(EnrichOne, {ContainerRow(c, unit[c]) : c \in up})
      PROVE  RowSound(r)'
  <2>1. CASE deploy = Failed
    <3>1. PICK c \in up : r = ContainerRow(c, unit[c])
      BY <1>6, <2>1 DEF Enriched, Copy
    <3>2. /\ r.word = "pod" /\ r.of = None /\ r.by = None
          /\ Plain(r.image) /\ Plain(r.container)
      BY <3>1, ContainerRowType
    <3> QED BY <3>2 DEF RowSound, TreeSound, AndroidSound, VmSound, PodSound, FoundBy, TreeWords
  <2>2. CASE deploy # Failed
    <3>1. deploy \in Deploy
      BY <1>5, <2>2
    <3>2. PICK c \in up : r = EnrichOne(deploy, ContainerRow(c, unit[c]))
      BY <1>6, <2>2 DEF Enriched, Copy
    <3> DEFINE row == ContainerRow(c, unit[c])
    <3>3. /\ row \in RowType /\ row.word = "pod" /\ row.of = None
          /\ Plain(row.image) /\ Plain(row.container)
      BY ContainerRowType
    <3> HIDE DEF row
    <3>4. /\ r.word = "pod" /\ r.of = None /\ r.image = row.image
          /\ r.instance = row.instance /\ r.container = row.container
          /\ r.by # None =>
               LET k == Lookup(deploy, row.image, row.instance, row.container) IN
                 Has(deploy, k) /\ r.by = <<k, deploy[k].at>>
      BY <3>1, <3>2, <3>3, EnrichOneKeeps DEF row
    <3>5. FoundBy(r, Lookup(deploy, r.image, r.instance, r.container))
      BY <3>1, <3>4 DEF FoundBy, Has
    <3>6. PodSound(r)'
      BY <1>5, <3>3, <3>4, <3>5 DEF PodSound, FoundBy
    <3> QED BY <3>4, <3>6 DEF RowSound, TreeSound, AndroidSound, VmSound, TreeWords
  <2> QED BY <2>1, <2>2
<1>7. \A r \in rows : RowSound(r)'
  BY <1>1, <1>4, AskedAfter, OldRows DEF Words
<1>8. Complete'
  BY <1>1, <1>3, <1>4 DEF IInv, Complete, Due
<1> QED BY <1>3, <1>6, <1>7, <1>8

\* What the android collector makes rows of: the project's version of an entry
\* or the one charly.yml has now, and not an earlier one.
LEMMA MergedVersions ==
  ASSUME IInv, memo \in Deploy, NEW overlay \in {config, Failed}
  PROVE  /\ Merged(memo, overlay) \in Deploy
         /\ \A k \in Keys : LET e == Merged(memo, overlay)[k] IN
              /\ memo[k] # None => e # None
              /\ e # None => e \in past[k] \ {None}
              /\ (e # None /\ memo[k] # None) => memo[k] = e \/ memo[k].at < e.at
<1>1. memo # Failed /\ config \in Deploy /\ config # Failed
  BY NoneAssumption DEF IInv, TypeOK
<1>2. Tracked(memo) /\ Before(memo, config) /\ Tracked(config)
  BY NoneAssumption DEF IInv, Looks
<1>3. CASE overlay = Failed
  BY <1>1, <1>2, <1>3 DEF Merged, Tracked
<1>4. CASE overlay # Failed
  <2>1. Merged(memo, overlay) = [k \in Keys |-> IF config[k] = None THEN memo[k] ELSE config[k]]
    BY <1>1, <1>4 DEF Merged
  <2> QED BY <1>1, <1>2, <2>1 DEF Deploy, Tracked, Before
<1> QED BY <1>3, <1>4

\* The android collector's rows: one of each device of the two, the later one.
LEMMA AndroidStep ==
  ASSUME IInv, CollectAndroid
  PROVE  (\A r \in rows' : RowSound(r)') /\ Complete' /\ AndroidComplete' /\ AndroidOne'
<1>1. /\ pc = "android" /\ pc \in EntryWords /\ pc' = After[pc]
      /\ UNCHANGED <<config, edits, deploy, past>>
  BY DEF CollectAndroid, EntryWords
<1>2. PICK look \in {config, memo, Failed}, overlay \in {config, Failed} :
        Look(look) /\ rows' = rows \cup TreeRows(pc, Merged(look, overlay))
  BY DEF CollectAndroid
<1>3. look = memo /\ memo' = memo /\ memo \in Deploy \cup {Failed}
  <2>1. memo # None
    BY <1>1 DEF IInv, Looks
  <2> QED BY <1>1, <1>2, <2>1, LookType DEF IInv
<1>4. Collected(pc') = Collected(pc) /\ Asked(pc') /\ ~Asked(pc)
  BY <1>1, CollectedAfter, AskedAfter
<1>5. \A r \in rows : RowSound(r)'
  BY <1>1, <1>3, <1>4, OldRows
<1>6. \A r \in rows : r.word # "android"
  BY <1>4 DEF IInv, RowSound, AndroidSound
<1>7. Complete'
  BY <1>1, <1>2, <1>3, <1>4 DEF IInv, Complete, Due
<1>8. CASE memo = Failed
  <2>1. TreeRows(pc, Merged(look, overlay)) = {}
    BY <1>3, <1>8 DEF Merged, TreeRows, EntriesOf
  <2>2. rows' = rows /\ memo' \notin Deploy
    BY <1>2, <1>3, <1>8, <2>1, NoneAssumption
  <2> QED BY <1>5, <1>6, <1>7, <2>2 DEF AndroidComplete, AndroidOne
<1>9. CASE memo \in Deploy
  <2>1. PICK tree \in Deploy : tree = Merged(memo, overlay)
    BY <1>9, MergedVersions
  <2> DEFINE New == {k \in Keys : tree[k] # None /\ tree[k].kind.target = "android"}
  <2>2. \A k \in Keys :
          /\ memo[k] # None => tree[k] # None
          /\ tree[k] # None => tree[k] \in past[k] \ {None}
          /\ (tree[k] # None /\ memo[k] # None) => memo[k] = tree[k] \/ memo[k].at < tree[k].at
    BY <1>9, <2>1, MergedVersions
  <2>3. rows' = rows \cup {TreeRow("android", k, tree[k]) : k \in New}
    BY <1>1, <1>2, <1>3, <2>1, NoneAssumption DEF TreeRows, EntriesOf
  <2>4. ASSUME NEW k \in New
        PROVE  LET r == TreeRow("android", k, tree[k]) IN
                 /\ r.of = <<k, tree[k].at>> /\ r.of # None /\ r.word = "android"
    <3>1. k \in Keys /\ tree[k] \in Entry
      BY <2>2, EntryOf
    <3>2. "android" \in EntryWords
      BY DEF EntryWords
    <3> QED BY <3>1, <3>2, TreeRowType
  <2>5. ASSUME NEW k \in New
        PROVE  RowSound(TreeRow("android", k, tree[k]))'
    <3> DEFINE r == TreeRow("android", k, tree[k])
    <3>1. r.word = "android"
      BY <2>4
    <3>2. AndroidSound(r)'
      <4>1. /\ k \in Keys /\ tree[k] \in past[k] \ {None} /\ tree[k].kind.target = "android"
            /\ memo[k] # None => memo[k] = tree[k] \/ memo[k].at < tree[k].at
        BY <2>2
      <4>2. /\ Asked(pc)' /\ memo' \in Deploy
            /\ \E j \in Keys : \E e \in past'[j] \ {None} :
                 /\ e.kind.target = "android" /\ r = TreeRow("android", j, e)
                 /\ memo'[j] # None => memo'[j] = e \/ memo'[j].at < e.at
        BY <1>1, <1>3, <1>4, <1>9, <4>1
      <4> QED BY <4>2 DEF AndroidSound
    <3> HIDE DEF r
    <3>3. TreeSound(r)' /\ VmSound(r)' /\ PodSound(r)'
      BY <3>1 DEF TreeSound, VmSound, PodSound, TreeWords
    <3>4. RowSound(r)'
      BY <3>2, <3>3 DEF RowSound
    <3> QED BY <3>4 DEF r
  <2>6. AndroidOne'
    <3> SUFFICES ASSUME NEW r \in rows', NEW q \in rows', r.word = "android", q.word = "android",
                        r.of[1] = q.of[1]
                 PROVE  r = q
      BY DEF AndroidOne
    <3>1. PICK k \in New : r = TreeRow("android", k, tree[k])
      BY <1>6, <2>3
    <3>2. PICK j \in New : q = TreeRow("android", j, tree[j])
      BY <1>6, <2>3
    <3>3. r.of = <<k, tree[k].at>> /\ q.of = <<j, tree[j].at>>
      BY <2>4, <3>1, <3>2
    <3>4. k = j
      BY <3>3
    <3> QED BY <3>1, <3>2, <3>4
  <2>7. AndroidComplete'
    <3> SUFFICES ASSUME NEW k \in Keys, memo[k] # None, memo[k].kind.target = "android"
                 PROVE  \/ \E r \in RowsOf(k)' : r.word = "android"
                        \/ \E f \in past[k] \ {None} :
                             f.kind.target # "android" /\ memo[k].at < f.at
      BY <1>1, <1>3 DEF AndroidComplete
    <3>1. /\ tree[k] \in past[k] \ {None}
          /\ memo[k] = tree[k] \/ memo[k].at < tree[k].at
      BY <2>2
    <3>2. CASE tree[k].kind.target # "android"
      BY <3>1, <3>2
    <3>3. CASE tree[k].kind.target = "android"
      <4> DEFINE r == TreeRow("android", k, tree[k])
      <4>1. k \in New
        BY <3>1, <3>3
      <4>2. r \in rows' /\ r.of = <<k, tree[k].at>> /\ r.of # None /\ r.word = "android"
        BY <2>3, <2>4, <4>1
      <4> HIDE DEF r
      <4>3. r \in RowsOf(k)'
        BY <4>2 DEF RowsOf
      <4> QED BY <4>2, <4>3
    <3> QED BY <3>2, <3>3
  <2> QED BY <1>5, <1>7, <2>3, <2>5, <2>6, <2>7
<1> QED BY <1>3, <1>8, <1>9

\* The other collectors make no android rows, and writes make no rows at all.
LEMMA NextAndroid == IInv /\ [Next]_vars => AndroidComplete' /\ AndroidOne'
<1> SUFFICES ASSUME IInv, [Next]_vars PROVE AndroidComplete' /\ AndroidOne'
  OBVIOUS
<1>1. CASE Start
  <2>1. rows' = {} /\ memo' \notin Deploy
    BY <1>1, NoneAssumption DEF Start, IInv, Looks
  <2> QED BY <2>1 DEF AndroidComplete, AndroidOne
<1>2. CASE CollectAndroid
  BY <1>2, AndroidStep
<1>3. ASSUME /\ rows \subseteq rows' /\ \A r \in rows' \ rows : r.word # "android"
             /\ \A k \in Keys : past[k] \subseteq past'[k]
             /\ Asked(pc') => Asked(pc) /\ memo' = memo
      PROVE  AndroidComplete' /\ AndroidOne'
  <2>1. AndroidOne'
    BY <1>3 DEF IInv, AndroidOne
  <2>2. ASSUME Asked(pc'), memo' \in Deploy, NEW k \in Keys,
               memo'[k] # None, memo'[k].kind.target = "android"
        PROVE  \/ \E r \in RowsOf(k)' : r.word = "android"
               \/ \E f \in past'[k] \ {None} :
                    f.kind.target # "android" /\ memo'[k].at < f.at
    <3>1. memo' = memo /\ Asked(pc)
      BY <1>3, <2>2
    <3>2. \/ \E r \in RowsOf(k) : r.word = "android"
          \/ \E f \in past[k] \ {None} : f.kind.target # "android" /\ memo[k].at < f.at
      BY <2>2, <3>1 DEF IInv, AndroidComplete
    <3>3. RowsOf(k) \subseteq RowsOf(k)'
      BY <1>3 DEF RowsOf
    <3> QED BY <1>3, <3>1, <3>2, <3>3
  <2> QED BY <2>1, <2>2 DEF AndroidComplete
<1>4. CASE CollectTree \/ CollectKubevirt \/ CollectVm \/ CollectPod
  <2>1. /\ rows \subseteq rows' /\ \A r \in rows' \ rows : r.word = pc
        /\ past' = past /\ pc \in Words /\ pc' = After[pc]
    BY <1>4, CollectTypes DEF IInv
  <2>2. pc # "android"
    BY <1>4 DEF CollectTree, CollectKubevirt, CollectVm, CollectPod, TreeWords
  <2>3. Asked(pc') => Asked(pc)
    BY <2>1, <2>2, AskedAfter
  <2>4. Asked(pc) => memo' = memo
    <3>1. CASE CollectVm \/ CollectPod
      BY <3>1 DEF CollectVm, CollectPod
    <3>2. CASE CollectTree \/ CollectKubevirt
      <4>1. PICK look : Look(look)
        BY <3>2 DEF CollectTree, CollectKubevirt
      <4>2. pc \in EntryWords
        BY <3>2 DEF CollectTree, CollectKubevirt, EntryWords, TreeWords
      <4>3. Asked(pc) => memo # None
        BY <4>2 DEF Asked, IInv, Looks
      <4> QED BY <4>1, <4>2, <4>3, LookType DEF IInv
    <3> QED BY <1>4, <3>1, <3>2
  <2> QED BY <1>3, <2>1, <2>2, <2>3, <2>4
<1>5. ASSUME NEW k \in Keys, Write(k) PROVE AndroidComplete' /\ AndroidOne'
  <2>1. UNCHANGED <<pc, deploy, memo, rows>>
    BY <1>5 DEF Write
  <2>2. \A j \in Keys : past[j] \subseteq past'[j]
    BY <1>5, WriteGrows DEF IInv
  <2> QED BY <1>3, <2>1, <2>2
<1>6. CASE UNCHANGED vars
  BY <1>3, <1>6 DEF vars
<1> QED BY <1>1, <1>2, <1>4, <1>5, <1>6 DEF Next

-----------------------------------------------------------------------------
(* The invariant.                                                          *)

LEMMA InitIInv == Init => IInv
<1> SUFFICES ASSUME Init PROVE IInv
  OBVIOUS
<1>1. rows = {} /\ memo \notin Deploy
  BY NoneAssumption DEF Init
<1> QED BY <1>1, InitTypeOK, InitLooks DEF IInv, Complete, AndroidComplete, AndroidOne

LEMMA NextRows == IInv /\ [Next]_vars => (\A r \in rows' : RowSound(r)') /\ Complete'
<1> SUFFICES ASSUME IInv, [Next]_vars PROVE (\A r \in rows' : RowSound(r)') /\ Complete'
  OBVIOUS
<1>1. CASE Start
  <2>1. rows' = {} /\ memo' \notin Deploy
    BY <1>1, NoneAssumption DEF Start, IInv, Looks
  <2> QED BY <2>1 DEF Complete
<1>2. CASE CollectTree
  <2>1. /\ pc \in TreeWords \ {"kubevirt"} /\ pc' = After[pc]
        /\ UNCHANGED <<config, edits, deploy, past>>
    BY <1>2 DEF CollectTree
  <2>2. PICK look : Look(look) /\ rows' = rows \cup TreeRows(pc, look)
    BY <1>2 DEF CollectTree
  <2>3. look \in Deploy =>
          rows' = rows \cup {FinalRow(look, deploy, k) : k \in EntriesOf(pc, look)}
    BY <2>1, <2>2, FinalTreeRows
  <2>4. look = Failed => rows' = rows
    BY <2>1, <2>2, NoTreeRows
  <2> QED BY <2>1, <2>2, <2>3, <2>4, TreeStep
<1>3. CASE CollectKubevirt
  <2>1. /\ pc = "kubevirt" /\ pc \in TreeWords /\ pc' = After[pc]
        /\ UNCHANGED <<config, edits, deploy, past>>
    BY <1>3 DEF CollectKubevirt, TreeWords
  <2>2. PICK look :
          Look(look) /\ rows' = rows \cup Enriched(EnrichKubevirt, TreeRows(pc, look))
    BY <1>3 DEF CollectKubevirt
  <2>3. look \in Deploy =>
          rows' = rows \cup {FinalRow(look, deploy, k) : k \in EntriesOf(pc, look)}
    BY <2>1, <2>2, FinalKubevirtRows
  <2>4. look = Failed => rows' = rows
    BY <2>1, <2>2, NoTreeRows
  <2> QED BY <2>1, <2>2, <2>3, <2>4, TreeStep
<1>4. CASE CollectVm
  BY <1>4, VmStep
<1>5. CASE CollectPod
  BY <1>5, PodStep
<1>6. ASSUME (\E k \in Keys : Write(k)) \/ UNCHANGED vars
      PROVE  (\A r \in rows' : RowSound(r)') /\ Complete'
  <2>1. UNCHANGED <<pc, deploy, memo, rows>>
    BY <1>6 DEF Write, vars
  <2>2. \A k \in Keys : past[k] \subseteq past'[k]
    BY <1>6, WriteGrows DEF IInv, vars
  <2>3. \A r \in rows : RowSound(r)'
    BY <2>1, <2>2, OldRows
  <2>4. Complete'
    BY <2>1 DEF IInv, Complete, Due
  <2> QED BY <2>1, <2>3, <2>4
<1>7. CASE CollectAndroid
  BY <1>7, AndroidStep
<1> QED BY <1>1, <1>2, <1>3, <1>4, <1>5, <1>6, <1>7 DEF Next

\* The strengthened invariant holds in every behaviour.
THEOREM Invariant == Spec => []IInv
<1>1. IInv /\ [Next]_vars => IInv'
  BY NextTypeOK, NextLooks, NextRows, NextAndroid DEF IInv
<1> QED BY InitIInv, <1>1, PTL DEF Spec

\* Type correctness, and no entry newer than the last edit, for any entries.
THEOREM TypeCorrect == Spec => []TypeOK
<1>1. IInv => TypeOK
  BY DEF IInv
<1> QED BY Invariant, <1>1, PTL

-----------------------------------------------------------------------------
(* One row per entry.                                                      *)

\* Only an entry's collector makes rows of it.
LEMMA RowWord ==
  ASSUME IInv, NEW r \in rows, r.of # None
  PROVE  r.word \in EntryWords /\ (r.word # "android" => r.word \in TreeWords)
BY DEF IInv, TypeOK, RowSound, VmSound, PodSound, Words, EntryWords

\* An android row is of a version its entry had, and not before the project's.
LEMMA RowOfDevice ==
  ASSUME IInv, NEW k \in Keys, NEW r \in RowsOf(k), r.word = "android"
  PROVE  /\ memo \in Deploy
         /\ \E e \in past[k] \ {None} :
              /\ e.kind.target = "android" /\ r.of = <<k, e.at>> /\ r.by = None
              /\ memo[k] # None => memo[k] = e \/ memo[k].at < e.at
<1>1. r \in rows /\ r.of # None /\ r.of[1] = k
  BY DEF RowsOf
<1>2. memo \in Deploy
  BY <1>1 DEF IInv, RowSound, AndroidSound
<1>3. PICK j \in Keys : \E e \in past[j] \ {None} :
        /\ e.kind.target = "android" /\ r = TreeRow("android", j, e)
        /\ memo[j] # None => memo[j] = e \/ memo[j].at < e.at
  BY <1>1 DEF IInv, RowSound, AndroidSound
<1>4. PICK e \in past[j] \ {None} :
        /\ e.kind.target = "android" /\ r = TreeRow("android", j, e)
        /\ memo[j] # None => memo[j] = e \/ memo[j].at < e.at
  BY <1>3
<1>5. e \in Entry
  BY <1>4 DEF IInv, TypeOK
<1>6. r.of = <<j, e.at>> /\ r.by = None
  <2>1. "android" \in EntryWords
    BY DEF EntryWords
  <2>2. r = TreeRow("android", j, e)
    BY <1>4
  <2> QED BY ONLY <2>1, <2>2, <1>5, TreeRowType, j \in Keys
<1>7. j = k
  BY <1>1, <1>6
<1> QED BY <1>2, <1>4, <1>6, <1>7

\* The row of an entry is the final row of that entry in the resolved project.
LEMMA RowOfEntry ==
  ASSUME IInv, NEW k \in Keys, NEW r \in RowsOf(k), r.word # "android"
  PROVE  /\ memo \in Deploy /\ Due(k, pc) /\ memo[k] \in past[k] /\ memo[k] # None
         /\ r = FinalRow(memo, deploy, k)
         /\ r.of = <<k, memo[k].at>> /\ r.word = memo[k].kind.target
         /\ r.by # None =>
              deploy \in Deploy
                /\ \E j \in Keys : deploy[j] # None /\ r.by = <<j, deploy[j].at>>
<1>1. r \in rows /\ r.of # None /\ r.of[1] = k /\ r.word \in TreeWords
  BY RowWord DEF RowsOf
<1>2. memo \in Deploy
  BY <1>1 DEF IInv, RowSound, TreeSound
<1>3. PICK j \in Keys : Due(j, pc) /\ r = FinalRow(memo, deploy, j)
  BY <1>1 DEF IInv, RowSound, TreeSound
<1>4. memo[j] # None /\ memo[j].kind.target \in TreeWords
  BY <1>3, CollectedTree DEF Due
<1>5. deploy \in Deploy \cup {Failed}
  BY <1>2, NoneAssumption DEF IInv, TypeOK, Looks
<1>6. /\ r.of = <<j, memo[j].at>> /\ r.word = memo[j].kind.target
      /\ r.by # None =>
           deploy \in Deploy
             /\ \E i \in Keys : deploy[i] # None /\ r.by = <<i, deploy[i].at>>
  BY <1>2, <1>3, <1>4, <1>5, FinalRowReports
<1>7. j = k
  BY <1>1, <1>6
<1>8. memo[k] \in past[k]
  BY <1>2 DEF IInv, Looks, Tracked
<1> QED BY <1>2, <1>3, <1>4, <1>6, <1>7, <1>8

LEMMA IInvOneRow == IInv => OneRowPerEntry
<1> SUFFICES ASSUME IInv, NEW k \in Keys
             PROVE  /\ \A r \in RowsOf(k) :
                         \E e \in past[k] \ {None} :
                           r.of[2] = e.at /\ r.word = e.kind.target
                    /\ \A r, s \in RowsOf(k) :
                         /\ (r.word = "android" <=> s.word = "android") => r = s
                         /\ (r.word # "android" /\ s.word = "android") => r.of[2] < s.of[2]
                    /\ (pc = "done" /\ memo # Failed /\ \A e \in past[k] : InTree(e)) =>
                         \/ RowsOf(k) # {}
                         \/ \E e, f \in past[k] :
                              /\ e.kind.target = "android"
                              /\ f.kind.target # "android" /\ e.at < f.at
  BY DEF OneRowPerEntry
<1>1. ASSUME NEW r \in RowsOf(k)
      PROVE  \E e \in past[k] \ {None} : r.of[2] = e.at /\ r.word = e.kind.target
  <2>1. CASE r.word = "android"
    <3>1. PICK e \in past[k] \ {None} : e.kind.target = "android" /\ r.of = <<k, e.at>>
      BY <2>1, RowOfDevice
    <3> QED BY <2>1, <3>1
  <2>2. CASE r.word # "android"
    BY <2>2, RowOfEntry
  <2> QED BY <2>1, <2>2
<1>2. ASSUME NEW r \in RowsOf(k), NEW s \in RowsOf(k), r.word = "android" <=> s.word = "android"
      PROVE  r = s
  <2>1. CASE r.word = "android"
    BY <1>2, <2>1 DEF IInv, AndroidOne, RowsOf
  <2>2. CASE r.word # "android"
    BY <1>2, <2>2, RowOfEntry
  <2> QED BY <2>1, <2>2
<1>3. ASSUME NEW r \in RowsOf(k), NEW s \in RowsOf(k), r.word # "android", s.word = "android"
      PROVE  r.of[2] < s.of[2]
  <2>1. memo[k] # None /\ r.of = <<k, memo[k].at>> /\ memo[k].kind.target # "android"
    BY <1>3, RowOfEntry
  <2>2. PICK e \in past[k] \ {None} :
          /\ e.kind.target = "android" /\ s.of = <<k, e.at>>
          /\ memo[k] # None => memo[k] = e \/ memo[k].at < e.at
    BY <1>3, RowOfDevice
  <2>3. memo[k].at < e.at
    BY <2>1, <2>2
  <2> QED BY <2>1, <2>2, <2>3
<1>4. ASSUME pc = "done", memo # Failed, \A e \in past[k] : InTree(e)
      PROVE  \/ RowsOf(k) # {}
             \/ \E e, f \in past[k] :
                  e.kind.target = "android" /\ f.kind.target # "android" /\ e.at < f.at
  <2>1. memo \in Deploy
    BY <1>4 DEF IInv, TypeOK, Looks
  <2>2. memo[k] \in past[k] /\ InTree(memo[k])
    BY <1>4, <2>1 DEF IInv, Looks, Tracked
  <2>3. CASE memo[k].kind.target = "android"
    <3>1. \/ \E r \in RowsOf(k) : r.word = "android"
          \/ \E f \in past[k] \ {None} : f.kind.target # "android" /\ memo[k].at < f.at
      BY <1>4, <2>1, <2>2, <2>3 DEF IInv, AndroidComplete, Asked, InTree
    <3> QED BY <2>2, <2>3, <3>1
  <2>4. CASE memo[k].kind.target # "android"
    <3>1. memo[k] # None /\ memo[k].kind.target \in TreeWords
      BY <2>2, <2>4 DEF InTree, EntryWords
    <3>2. Due(k, pc)
      BY <1>4, <3>1 DEF Due, Collected
    <3>3. FinalRow(memo, deploy, k) \in rows
      BY <2>1, <3>2 DEF IInv, Complete
    <3>4. deploy \in Deploy \cup {Failed}
      BY <1>4 DEF IInv, TypeOK, Looks
    <3> DEFINE r == FinalRow(memo, deploy, k)
    <3>5. r.of = <<k, memo[k].at>> /\ r.of # None
      BY <2>1, <3>1, <3>4, FinalRowReports
    <3>6. r.of[1] = k
      BY <3>5
    <3> QED BY <3>3, <3>5, <3>6 DEF RowsOf
  <2> QED BY <2>3, <2>4
<1> QED BY <1>1, <1>2, <1>3, <1>4

\* However entries are rewritten, retargeted and removed while a request runs,
\* its one resolution of the project gives each entry one row at most, of a
\* version it had, and loses none that stayed in the tree; the charly.yml that
\* the android collector lays over it adds a second row only of an entry that
\* became a device since, and takes one only from an entry that ceased to be one.
THEOREM OneRow == Spec => []OneRowPerEntry
BY Invariant, IInvOneRow, PTL

LEMMA IInvNotNewer == IInv => NotNewerThanRow
<1> SUFFICES ASSUME IInv, NEW r \in rows, r.of # None, r.by # None, r.of[1] = r.by[1]
             PROVE  r.by[2] <= r.of[2]
  BY DEF NotNewerThanRow
<1>1. PICK k \in Keys : r \in RowsOf(k) /\ r.word # "android"
  <2>1. r.word # "android"
    BY EntryOf, TreeRowType DEF IInv, RowSound, AndroidSound, EntryWords, TypeOK
  <2>2. r.word \in TreeWords
    BY <2>1, RowWord
  <2>3. PICK k \in Keys : memo \in Deploy /\ Due(k, pc) /\ r = FinalRow(memo, deploy, k)
    BY <2>2 DEF IInv, RowSound, TreeSound
  <2>4. deploy \in Deploy \cup {Failed}
    BY <2>3, NoneAssumption DEF IInv, TypeOK, Looks
  <2>5. r.of = <<k, memo[k].at>>
    BY <2>3, <2>4, CollectedTree, FinalRowReports DEF Due
  <2> QED BY <2>1, <2>5 DEF RowsOf
<1>2. memo \in Deploy /\ memo[k] # None /\ r.of = <<k, memo[k].at>>
  BY <1>1, RowOfEntry
<1>3. PICK j \in Keys : deploy \in Deploy /\ deploy[j] # None /\ r.by = <<j, deploy[j].at>>
  BY <1>1, RowOfEntry
<1>4. j = k
  BY <1>2, <1>3
<1>5. deploy[k].at <= memo[k].at
  BY <1>2, <1>3, <1>4 DEF IInv, Looks, NoNewer
<1> QED BY <1>2, <1>3, <1>4, <1>5

\* The copy is read before the project is resolved, so what enriches a row is
\* never newer than the row, whatever is written in between.
THEOREM NotNewer == Spec => []NotNewerThanRow
BY Invariant, IInvNotNewer, PTL

-----------------------------------------------------------------------------
(* The entry that enriches.                                                *)

LEMMA IInvNeverAGuess == IInv => NeverAGuess
<1> SUFFICES ASSUME IInv, NEW r \in rows, r.word = "vm", r.by # None, r.by[1] # r.image,
                    NEW k \in Keys \ {r.by[1]}
             PROVE  \E e \in past[k] :
                      ~(e # None /\ e.kind.target = "vm" /\ e.kind.from = r.image)
  BY DEF NeverAGuess
<1> DEFINE j == FindVm(deploy, r.image)
<1>1. deploy \in Deploy /\ j \in Keys /\ deploy[j] # None /\ r.by = <<j, deploy[j].at>>
  BY DEF IInv, RowSound, VmSound, FoundBy
<1>2. j # Empty /\ j # r.image /\ k # j
  BY <1>1, EntriesAssumption
<1>3. VmEntries(deploy, r.image) = {j}
  BY <1>1, <1>2, FindVmOnly
<1> HIDE DEF j
<1>4. k \notin VmEntries(deploy, r.image)
  BY <1>2, <1>3
<1>5. ~(deploy[k] # None /\ deploy[k].kind.target = "vm" /\ deploy[k].kind.from = r.image)
  BY <1>4 DEF VmEntries, IsVm, Has
<1>6. deploy[k] \in past[k]
  BY <1>1 DEF IInv, Looks, Tracked
<1> QED BY <1>5, <1>6

\* With two entries of one template all along, no domain of the template's name
\* is given the port of either.
THEOREM NoGuess == Spec => []NeverAGuess
BY Invariant, IInvNeverAGuess, PTL

\* The key of an instance: its box, a slash and its name.
LEMMA KeyAt ==
  ASSUME NEW b \in Name, NEW i \in Name
  PROVE  LET x == b \o <<"/">> \o i IN
           /\ Len(b) \in Nat /\ Len(i) \in Nat /\ Len(x) = Len(b) + 1 + Len(i)
           /\ \A n \in 1..Len(b) : x[n] = b[n]
           /\ x[Len(b) + 1] = "/"
           /\ \A n \in 1..Len(i) : x[Len(b) + 1 + n] = i[n]
<1> DEFINE s == <<"/">>
           bs == b \o s
           x == bs \o i
<1>1. s \in Seq(Parts) /\ Len(s) = 1 /\ s[1] = "/"
  BY EntriesAssumption
<1>2. b \in Seq(Parts) /\ i \in Seq(Parts) /\ Len(b) \in Nat /\ Len(i) \in Nat
  BY DEF Name
<1> HIDE DEF s
<1>3. /\ b \o s \in Seq(Parts) /\ Len(b \o s) = Len(b) + Len(s)
      /\ \A n \in 1..Len(b) + Len(s) :
           (b \o s)[n] = IF n <= Len(b) THEN b[n] ELSE s[n - Len(b)]
  BY ONLY <1>1, <1>2, ConcatProperties
<1>4. /\ bs \in Seq(Parts) /\ Len(bs) = Len(b) + 1
      /\ \A n \in 1..Len(b) : bs[n] = b[n]
      /\ bs[Len(b) + 1] = "/"
  BY <1>1, <1>2, <1>3
<1> HIDE DEF bs
<1>5. /\ bs \o i \in Seq(Parts) /\ Len(bs \o i) = Len(bs) + Len(i)
      /\ \A n \in 1..Len(bs) + Len(i) :
           (bs \o i)[n] = IF n <= Len(bs) THEN bs[n] ELSE i[n - Len(bs)]
  BY ONLY <1>2, <1>4, ConcatProperties
<1>6. /\ Len(x) = Len(b) + 1 + Len(i)
      /\ \A n \in 1..Len(b) : x[n] = b[n]
      /\ x[Len(b) + 1] = "/"
      /\ \A n \in 1..Len(i) : x[Len(b) + 1 + n] = i[n]
  BY <1>2, <1>4, <1>5
<1> QED BY <1>2, <1>6 DEF bs, s

\* A box without a slash ends where the key has its first one.
LEMMA FirstSlash ==
  ASSUME NEW b \in Name, NEW i \in Name, NEW c \in Name, NEW j \in Name,
         Plain(c), b \o <<"/">> \o i = c \o <<"/">> \o j
  PROVE  Len(c) <= Len(b)
<1> DEFINE x == b \o <<"/">> \o i
           y == c \o <<"/">> \o j
           n == Len(b) + 1
<1>1. x = y /\ Len(b) \in Nat /\ Len(c) \in Nat
  BY KeyAt
<1>2. x[n] = "/"
  BY KeyAt
<1>3. \A m \in 1..Len(c) : y[m] = c[m]
  BY KeyAt
<1> HIDE DEF x, y
<1>4. n \notin 1..Len(c)
  BY <1>1, <1>2, <1>3 DEF Plain
<1> QED BY <1>1, <1>4

\* Boxes without a slash and their instances are told apart by their keys.
LEMMA KeysApart ==
  ASSUME NEW b \in Name, NEW i \in Name, NEW c \in Name, NEW j \in Name,
         Plain(b), Plain(c), b \o <<"/">> \o i = c \o <<"/">> \o j
  PROVE  b = c /\ i = j
<1> DEFINE x == b \o <<"/">> \o i
           y == c \o <<"/">> \o j
<1>1. Len(b) \in Nat /\ Len(c) \in Nat /\ Len(i) \in Nat /\ Len(j) \in Nat
  BY KeyAt
<1>2. Len(b) = Len(c)
  <2>1. Len(c) <= Len(b) /\ Len(b) <= Len(c)
    BY FirstSlash
  <2> QED BY <1>1, <2>1
<1>3. /\ Len(x) = Len(b) + 1 + Len(i)
      /\ \A n \in 1..Len(b) : x[n] = b[n]
      /\ \A n \in 1..Len(i) : x[Len(b) + 1 + n] = i[n]
  BY KeyAt
<1>4. /\ Len(y) = Len(c) + 1 + Len(j)
      /\ \A n \in 1..Len(c) : y[n] = c[n]
      /\ \A n \in 1..Len(j) : y[Len(c) + 1 + n] = j[n]
  BY KeyAt
<1>5. x = y
  OBVIOUS
<1> HIDE DEF x, y
<1>6. Len(i) = Len(j)
  BY <1>1, <1>2, <1>3, <1>4, <1>5
<1>7. b = c
  <2>1. \A n \in 1..Len(b) : b[n] = c[n]
    BY <1>2, <1>3, <1>4, <1>5
  <2> QED BY <1>2, <2>1, SeqEqual DEF Name
<1>8. i = j
  <2>1. \A n \in 1..Len(i) : i[n] = j[n]
    BY <1>2, <1>3, <1>4, <1>5, <1>6
  <2> QED BY <1>6, <2>1, SeqEqual DEF Name
<1> QED BY <1>7, <1>8

\* A key without a slash is that of a box alone, and names its container.
LEMMA PlainKey ==
  ASSUME NEW b \in Name, NEW i \in Name, Plain(DeployKey(b, i))
  PROVE  DeployKey(b, i) = Joined(b, i)
<1>1. CASE i = Empty
  BY <1>1 DEF DeployKey, Joined
<1>2. CASE i # Empty
  <2> DEFINE x == b \o <<"/">> \o i
  <2>1. /\ Len(b) \in Nat /\ Len(i) \in Nat /\ Len(x) = Len(b) + 1 + Len(i)
        /\ x[Len(b) + 1] = "/"
    BY KeyAt
  <2>2. DeployKey(b, i) = x
    BY <1>2 DEF DeployKey
  <2> HIDE DEF x
  <2>3. Len(b) + 1 \in 1..Len(x)
    BY <2>1
  <2> QED BY <2>1, <2>2, <2>3 DEF Plain
<1> QED BY <1>1, <1>2

\* So two rows with one key have one container name.
LEMMA OneName ==
  ASSUME NEW b \in Name, NEW i \in Name, NEW c \in Name, NEW j \in Name,
         Plain(b), Plain(c), DeployKey(b, i) = DeployKey(c, j)
  PROVE  Joined(b, i) = Joined(c, j)
<1>1. CASE i # Empty /\ j # Empty
  <2>1. b = c /\ i = j
    BY <1>1, KeysApart DEF DeployKey
  <2> QED BY <2>1
<1>2. CASE i = Empty \/ j = Empty
  <2>1. Plain(DeployKey(b, i))
    BY <1>2 DEF DeployKey
  <2> QED BY <2>1, PlainKey
<1> QED BY <1>1, <1>2

LEMMA IInvOneContainer == IInv => OneContainerPerEntry
<1> SUFFICES ASSUME IInv, NEW r \in rows, NEW s \in rows, Ordinary(r), Ordinary(s),
                    r.by # None, r.by = s.by
             PROVE  r.container = s.container
  BY DEF OneContainerPerEntry
<1>1. /\ r.image \in Name /\ r.instance \in Name /\ Plain(r.image) /\ Plain(r.container)
      /\ s.image \in Name /\ s.instance \in Name /\ Plain(s.image) /\ Plain(s.container)
  BY DEF IInv, TypeOK, RowSound, PodSound, Ordinary
<1>2. r.container = Joined(r.image, r.instance) /\ s.container = Joined(s.image, s.instance)
  BY DEF Ordinary
<1> DEFINE p == Lookup(deploy, r.image, r.instance, r.container)
           q == Lookup(deploy, s.image, s.instance, s.container)
<1>3. /\ deploy \in Deploy /\ p \in Keys /\ r.by = <<p, deploy[p].at>>
      /\ q \in Keys /\ s.by = <<q, deploy[q].at>>
  BY DEF IInv, RowSound, PodSound, FoundBy, Ordinary
<1>4. /\ p \in {DeployKey(r.image, r.instance), r.container}
      /\ q \in {DeployKey(s.image, s.instance), s.container}
  BY <1>3, LookupFinds, EntriesAssumption
<1> HIDE DEF p, q
<1>5. p = q
  <2>1. <<p, deploy[p].at>> = <<q, deploy[q].at>>
    BY <1>3
  <2> QED BY <2>1
<1>6. CASE p = r.container /\ q = s.container
  BY <1>5, <1>6
<1>7. CASE p = DeployKey(r.image, r.instance) /\ q = DeployKey(s.image, s.instance)
  <2>1. DeployKey(r.image, r.instance) = DeployKey(s.image, s.instance)
    BY <1>5, <1>7
  <2>2. Joined(r.image, r.instance) = Joined(s.image, s.instance)
    BY <1>1, <2>1, OneName
  <2> QED BY <1>2, <2>2
<1>8. CASE p = DeployKey(r.image, r.instance) /\ q = s.container
  BY <1>1, <1>2, <1>5, <1>8, PlainKey
<1>9. CASE p = r.container /\ q = DeployKey(s.image, s.instance)
  BY <1>1, <1>2, <1>5, <1>9, PlainKey
<1> QED BY <1>4, <1>6, <1>7, <1>8, <1>9

\* Of boxes, instances and containers of any names, no two containers named as
\* charly names them are enriched from one entry.
THEOREM OneContainer == Spec => []OneContainerPerEntry
BY Invariant, IInvOneContainer, PTL

-----------------------------------------------------------------------------
(* What enriches a kubevirt row.                                           *)

\* The part of KubevirtEnriched that no entry escapes: one that names no image
\* of its own.
OwnImageEnriched ==
  \A r \in rows : (r.word = "kubevirt" /\ deploy # Failed) =>
    \A e \in past[r.of[1]] :
      (past[r.of[1]] = {e} /\ e.kind.state # "none" /\ e.kind.image = Empty)
        => r.by = r.of

\* The row of such an entry is looked up by the entry's own key, whatever its
\* venue is called, and finds that entry if the copy has it.
LEMMA OwnImageFound ==
  ASSUME NEW dc \in Deploy, NEW k \in Keys, NEW e \in Entry, dc[k] = e,
         e.kind.target = "kubevirt", e.kind.state # "none", e.kind.image = Empty
  PROVE  LET r == EnrichKubevirt(dc, TreeRow("kubevirt", k, e)) IN r.by = <<k, e.at>>
<1> DEFINE row == TreeRow("kubevirt", k, e)
<1>1. row \in RowType /\ row.image = k /\ row.instance = Empty
  BY TreeRowType DEF TreeRow, Row, EntryWords, TreeWords
<1>2. k # Empty /\ Has(dc, k)
  BY EntriesAssumption, NoneAssumption DEF Has
<1>3. DeployKey(row.image, row.instance) = k
  BY <1>1 DEF DeployKey
<1> HIDE DEF row
<1>4. Lookup(dc, row.image, row.instance, row.container) = k
  BY <1>1, <1>2, <1>3 DEF Lookup
<1>5. EnrichKubevirt(dc, row) = EnrichedBy(row, dc, k)
  BY <1>2, <1>4 DEF EnrichKubevirt
<1>6. EnrichedBy(row, dc, k) = [row EXCEPT !.by = <<k, e.at>>]
  BY <1>2 DEF EnrichedBy
<1> QED BY <1>1, <1>5, <1>6 DEF row, RowType

\* A kubevirt row is that of an entry of the resolved project and, if it was
\* left alone, of the copy.
LEMMA KubevirtRowOf ==
  ASSUME IInv, NEW r \in rows, r.word = "kubevirt", deploy # Failed,
         NEW e \in past[r.of[1]], past[r.of[1]] = {e}
  PROVE  /\ deploy \in Deploy /\ e \in Entry /\ e.kind.target = "kubevirt"
         /\ \E k \in Keys :
              /\ deploy[k] = e /\ r.of = <<k, e.at>>
              /\ r = EnrichKubevirt(deploy, TreeRow("kubevirt", k, e))
<1>1. PICK k \in Keys : memo \in Deploy /\ Due(k, pc) /\ r = FinalRow(memo, deploy, k)
  BY DEF IInv, RowSound, TreeSound, TreeWords
<1>2. deploy \in Deploy
  BY <1>1, NoneAssumption DEF IInv, TypeOK, Looks
<1>3. memo[k] # None /\ r.of = <<k, memo[k].at>> /\ memo[k].kind.target = "kubevirt"
  BY <1>1, <1>2, CollectedTree, FinalRowReports DEF Due
<1>4. memo[k] = e /\ deploy[k] = e
  BY <1>1, <1>2, <1>3 DEF IInv, Looks, Tracked
<1>5. e \in Entry
  BY <1>1, <1>3, <1>4, EntryOf
<1>6. r = EnrichKubevirt(deploy, TreeRow("kubevirt", k, e))
  BY <1>1, <1>3, <1>4 DEF FinalRow
<1> QED BY <1>2, <1>3, <1>4, <1>5, <1>6

LEMMA IInvOwnImage == IInv => OwnImageEnriched
<1> SUFFICES ASSUME IInv, NEW r \in rows, r.word = "kubevirt", deploy # Failed,
                    NEW e \in past[r.of[1]], past[r.of[1]] = {e},
                    e.kind.state # "none", e.kind.image = Empty
             PROVE  r.by = r.of
  BY DEF OwnImageEnriched
<1>1. deploy \in Deploy /\ e \in Entry /\ e.kind.target = "kubevirt"
  BY KubevirtRowOf
<1>2. PICK k \in Keys :
        /\ deploy[k] = e /\ r.of = <<k, e.at>>
        /\ r = EnrichKubevirt(deploy, TreeRow("kubevirt", k, e))
  BY KubevirtRowOf
<1> QED BY <1>1, <1>2, OwnImageFound

\* Of any entries, a kubevirt entry that names no image, has a recorded state
\* and is left alone while the request runs enriches its own row, also when
\* its venue is called namespace/vm, which is the key of no such entry.
THEOREM OwnImageFindsEntry == Spec => []OwnImageEnriched
BY Invariant, IInvOwnImage, PTL

\* No kubevirt entry names an image.
OwnImage == \A kd \in Kinds : kd.target = "kubevirt" => kd.image = Empty

\* So what enrichKubevirtRow promises holds of all entries that name no image:
\* a named one is the only way in which a recorded state is missed.
THEOREM KubevirtFound == ASSUME OwnImage PROVE Spec => []KubevirtEnriched
<1>1. IInv /\ OwnImageEnriched => KubevirtEnriched
  <2> SUFFICES ASSUME IInv, OwnImageEnriched,
                      NEW r \in rows, r.word = "kubevirt", deploy # Failed,
                      NEW e \in past[r.of[1]], past[r.of[1]] = {e}, e.kind.state # "none"
               PROVE  r.by = r.of
    BY DEF KubevirtEnriched
  <2>1. e.kind \in Kinds /\ e.kind.target = "kubevirt"
    BY KubevirtRowOf DEF Entry
  <2>2. e.kind.image = Empty
    BY <2>1 DEF OwnImage
  <2> QED BY <2>2 DEF OwnImageEnriched
<1> QED BY Invariant, OwnImageFindsEntry, <1>1, PTL

\* The other half: such an entry, once its namespace is recorded, is passed
\* over by its own row, edited or not.
NamedImageMissed ==
  \A k \in Keys : \A r \in RowsOf(k) :
    (r.word = "kubevirt" /\ memo[k].kind.image \notin {Empty, k}
       /\ memo[k].kind.state = "namespaced")
      => r.by = None \/ r.by[1] # k

\* A name with its namespace in front is another name.
LEMMA NamespacedApart == ASSUME NEW k \in Name PROVE <<"ns", "/">> \o k # k
<1> DEFINE s == <<"ns", "/">>
<1>1. ASSUME NEW S, NEW a \in S, NEW b \in S PROVE <<a, b>> \in Seq(S)
  OBVIOUS
<1>2. s \in Seq(Parts) /\ Len(s) = 2
  BY <1>1, EntriesAssumption
<1>3. k \in Seq(Parts) /\ Len(k) \in Nat
  BY DEF Name
<1> HIDE DEF s
<1>4. Len(s \o k) = Len(s) + Len(k)
  BY ONLY <1>2, <1>3, ConcatProperties
<1>5. Len(s \o k) # Len(k)
  BY <1>2, <1>3, <1>4
<1> QED BY <1>5 DEF s

\* What enriches a kubevirt row is under its image or the name of its venue.
LEMMA KubevirtKeys ==
  ASSUME NEW dc \in Deploy, NEW row \in RowType, row.by = None, row.instance = Empty,
         EnrichKubevirt(dc, row).by # None
  PROVE  EnrichKubevirt(dc, row).by[1] \in {row.image, row.container}
<1> DEFINE j == Lookup(dc, row.image, row.instance, row.container)
<1>1. j # Empty /\ EnrichKubevirt(dc, row) = EnrichedBy(row, dc, j)
  BY DEF EnrichKubevirt
<1>2. j \in {row.image, row.container}
  BY <1>1, LookupFinds DEF DeployKey
<1> HIDE DEF j
<1>3. EnrichKubevirt(dc, row).by = <<j, dc[j].at>>
  BY <1>1 DEF EnrichedBy, RowType
<1> QED BY <1>2, <1>3

LEMMA IInvNamedImage == IInv => NamedImageMissed
<1> SUFFICES ASSUME IInv, NEW k \in Keys, NEW r \in RowsOf(k), r.word = "kubevirt",
                    memo[k].kind.image \notin {Empty, k},
                    memo[k].kind.state = "namespaced", r.by # None
             PROVE  r.by[1] # k
  BY DEF NamedImageMissed
<1> DEFINE row == TreeRow("kubevirt", k, memo[k])
<1>1. /\ memo \in Deploy /\ memo[k] # None /\ deploy \in Deploy
      /\ r = FinalRow(memo, deploy, k) /\ memo[k].kind.target = "kubevirt"
  BY RowOfEntry
<1>2. r = EnrichKubevirt(deploy, row)
  BY <1>1, NoneAssumption DEF FinalRow
<1>3. row \in RowType /\ row.by = None
  BY <1>1, EntryOf, TreeRowType DEF EntryWords, TreeWords
<1>4. /\ row.image = memo[k].kind.image /\ row.instance = Empty
      /\ row.container = <<"ns", "/">> \o k
  BY DEF TreeRow, Row, Venue
<1> HIDE DEF row
<1>5. row.image # k /\ row.container # k
  BY <1>4, NamespacedApart, EntriesAssumption
<1>6. r.by[1] \in {row.image, row.container}
  BY <1>1, <1>2, <1>3, <1>4, KubevirtKeys
<1> QED BY <1>5, <1>6

\* A kubevirt entry that names another image and has its namespace recorded
\* never enriches its own row, whatever is written meanwhile: the row shows
\* none of its state, or what it shows is another entry's.
THEOREM NamedImageIsMissed == Spec => []NamedImageMissed
BY Invariant, IInvNamedImage, PTL
=============================================================================
