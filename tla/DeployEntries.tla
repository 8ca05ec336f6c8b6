---------------------------- MODULE DeployEntries ----------------------------
(***************************************************************************)
(* Which deploy entry is whose: one status fan-out, seen from the entries  *)
(* of the deploy tree.  The kubernetes, kindcluster, firecracker and       *)
(* kubevirt collectors make one row of every entry of their target in the  *)
(* resolved project, and the android collector one of every entry of its   *)
(* own in that project with the per-host charly.yml, read again, laid over *)
(* it; the vm and pod collectors list what runs.  The vm, kubevirt and pod *)
(* rows are then enriched from the entry they match in the copy of         *)
(* charly.yml that the request read first.                                 *)
(*                                                                         *)
(* Entries are written, retargeted and removed while the request runs.  A  *)
(* name is the sequence of its words and separators.  A row is known by    *)
(* the names it is looked up by, the version of the entry it reports, and  *)
(* the version of the entry it was enriched from: what it shows of either  *)
(* (status, network, ports, tunnel, volumes) is not modelled.  Every entry *)
(* is declared in the per-host file, so the resolved project has the same. *)
(***************************************************************************)
EXTENDS Naturals, Sequences

CONSTANTS
  Parts,       \* the words and separators of names
  Keys,        \* keys an entry may have
  Kinds,       \* what an entry may say, of those considered
  Domains,     \* libvirt domains, without the charly- prefix
  Containers,  \* engine containers, without the charly- prefix
  Units,       \* what a container's unit file may describe it as
  Sanitized,   \* kit.SanitizeDeployName: a key as a cluster or microVM name
  MaxEdits,    \* bound: edits of the deploy entries
  None,        \* nothing: no entry, no look yet
  Failed       \* a look that failed

\* Names, and the empty one.
Name  == Seq(Parts)
Empty == <<>>

\* Words whose rows are the entries of the resolved project, words whose rows
\* are entries, and all those modelled here.
TreeWords  == {"kubernetes", "kindcluster", "firecracker", "kubevirt"}
EntryWords == TreeWords \cup {"android"}
Words      == EntryWords \cup {"vm", "pod"}

\* collectFlat's order: the word asked next.
After ==
  [kubernetes |-> "kindcluster", kindcluster |-> "firecracker",
   firecracker |-> "android", android |-> "vm", vm |-> "kubevirt", kubevirt |-> "pod", pod |-> "done"]

\* What an entry says: its target, its image if it names one, its template,
\* and whether it has a kubevirt_state (with a namespace).
Kind == [target : Words, image : Name, from : Name,
         state : {"none", "recorded", "namespaced"}]

ASSUME EntriesAssumption ==
  /\ {"ns", "/", "-"} \subseteq Parts
  /\ Keys \subseteq Name /\ Domains \subseteq Name /\ Containers \subseteq Name
  /\ Empty \notin Keys
  /\ Kinds \subseteq Kind
  /\ Units \subseteq [box : Name, instance : Name]
  /\ Sanitized \in [Keys -> Name]
  /\ MaxEdits \in Nat
  /\ None # Failed /\ None \notin Units

\* One version of an entry: what it says, and the edit that wrote it.
Entry  == [kind : Kinds, at : 0..MaxEdits]
Deploy == [Keys -> Entry \cup {None}]

ASSUME NoneAssumption ==
  /\ None \notin Entry /\ None \notin Keys \X (0..MaxEdits)
  /\ None \notin Deploy /\ Failed \notin Deploy

\* A name without a separator.
Plain(name) == \A i \in 1..Len(name) : name[i] # "/"

\* No engine names a container with a slash, and a box names a container.
ASSUME PlainAssumption ==
  /\ \A c \in Containers : Plain(c)
  /\ \A u \in Units : Plain(u.box)

VARIABLES
  config,  \* the deploy entries on disk
  edits,   \* how often they were written
  pc,      \* the word to collect next
  deploy,  \* flatCollector.deploy: the copy read at the start
  memo,    \* the resolved project of the request
  rows,    \* the rows collected so far
  past     \* history: the versions each key had while the request ran

vars == <<config, edits, pc, deploy, memo, rows, past>>

-----------------------------------------------------------------------------
(* The entry a name finds.                                                 *)

\* spec.DeployKey: an instance's entry is keyed box/instance.
DeployKey(box, inst) == IF inst = Empty THEN box ELSE box \o <<"/">> \o inst

\* kit.ContainerNameInstance, without its charly- prefix.
Joined(box, inst) == IF inst = Empty THEN box ELSE box \o <<"-">> \o inst

Has(dc, k) == k \in Keys /\ dc[k] # None

\* Plausible bug: an instance without an entry gets its box's.
LookupAnyInstance(dc, box, inst, joined) ==
  IF Has(dc, DeployKey(box, inst)) THEN DeployKey(box, inst)
  ELSE IF Has(dc, box) THEN box
  ELSE IF Has(dc, joined) THEN joined ELSE Empty

\* lookupDeploy: the key it finds.  Its second look, the box alone when there
\* is no instance, is its first one again: DeployKey is the box then.
Lookup(dc, box, inst, joined) ==
  IF box # Empty /\ Has(dc, DeployKey(box, inst)) THEN DeployKey(box, inst)
  ELSE IF Has(dc, joined) THEN joined ELSE Empty

\* A vm entry, told by the venue the loader stamps on it: an entry read
\* without its stamp is as good as one of another target here.
IsVm(dc, k) == Has(dc, k) /\ dc[k].kind.target = "vm"

\* The vm entries made from a template.
VmEntries(dc, template) == {k \in Keys : IsVm(dc, k) /\ dc[k].kind.from = template}

\* deploykit.FindVmDeployNode: the vm entry of this name, or else the only
\* one made from the template of this name; several are an error.
FindVm(dc, d) ==
  IF IsVm(dc, d) THEN d
  ELSE IF \E k \in Keys : VmEntries(dc, d) = {k}
       THEN CHOOSE k \in Keys : VmEntries(dc, d) = {k} ELSE Empty

-----------------------------------------------------------------------------
(* Rows: `of` is the key and version of the entry a tree row reports, `by` *)
(* of the one a row was enriched from.                                     *)

Row(word, image, inst, container, of) ==
  [word |-> word, image |-> image, instance |-> inst, container |-> container,
   of |-> of, by |-> None]

\* What a row names its venue: a kubevirt VM with a recorded state is known as
\* namespace/vm, a cluster by its own name, a microVM by its lease instead and
\* a device by its serial, which no entry is looked up by.
Venue(word, k, e) ==
  CASE word = "kindcluster" -> Sanitized[k]
    [] word \in {"firecracker", "android"} -> Empty
    [] word = "kubevirt" /\ e.kind.state = "namespaced" -> <<"ns", "/">> \o k
    [] OTHER -> k

\* The image of an entry is its name unless it says another; a device's is
\* its path.
TreeRow(word, k, e) ==
  Row(word, IF e.kind.image = Empty \/ word = "android" THEN k ELSE e.kind.image,
      IF word = "firecracker" THEN Sanitized[k] ELSE Empty, Venue(word, k, e),
      <<k, e.at>>)

\* The entries of a target in the resolved project, a row each.
EntriesOf(word, tree) ==
  IF tree = Failed THEN {}
  ELSE {k \in Keys : tree[k] # None /\ tree[k].kind.target = word}
TreeRows(word, tree) == {TreeRow(word, k, tree[k]) : k \in EntriesOf(word, tree)}

\* collectAndroidDeployNodes: a per-host entry wins over the project's; what
\* cannot be read lays nothing over it.
Merged(tree, overlay) ==
  IF Failed \in {tree, overlay} THEN tree
  ELSE [k \in Keys |-> IF overlay[k] = None THEN tree[k] ELSE overlay[k]]

\* The row of one libvirt domain.
DomainRow(d) == Row("vm", d, Empty, d, None)

\* The row of one container: as its unit file describes it, if it does.
ContainerRow(c, unit) ==
  IF unit = None THEN Row("pod", c, Empty, c, None)
  ELSE Row("pod", unit.box, unit.instance, c, None)

\* Plausible bug: what the lookup did not find enriches the row, empty.
EnrichedByZero(row, dc, k) ==
  [row EXCEPT !.by = <<k, IF k \in Keys THEN dc[k].at ELSE 0>>]

\* The entry under k, if that is one, is what enriched the row.
EnrichedBy(row, dc, k) == [row EXCEPT !.by = IF k = Empty THEN None ELSE <<k, dc[k].at>>]

\* Plausible bug: that the match is ambiguous is not looked at.
EnrichVmAnyway(dc, row) ==
  EnrichedBy(row, dc,
    IF ~IsVm(dc, row.image) /\ VmEntries(dc, row.image) # {}
    THEN CHOOSE k \in VmEntries(dc, row.image) : TRUE ELSE FindVm(dc, row.image))

\* enrichVmRow: an ambiguous match is as good as none.
EnrichVm(dc, row) == EnrichedBy(row, dc, FindVm(dc, row.image))

\* Plausible bug: the entry is looked up by the name of the venue alone.
EnrichKubevirtByVenue(dc, row) ==
  LET k == Lookup(dc, Empty, Empty, row.container) IN
  IF k # Empty /\ dc[k].kind.state # "none"
  THEN EnrichedBy(row, dc, k) ELSE row

\* enrichKubevirtRow: an entry without a kubevirt_state adds nothing.
EnrichKubevirt(dc, row) ==
  LET k == Lookup(dc, row.image, row.instance, row.container) IN
  IF k # Empty /\ dc[k].kind.state # "none"
  THEN EnrichedBy(row, dc, k) ELSE row

\* enrichOne: the entry it fills empty fields from, before the image's labels.
EnrichOne(dc, row) ==
  EnrichedBy(row, dc, Lookup(dc, row.image, row.instance, row.container))

\* Plausible bug: charly.yml is read again for each word.
CopyReread == config

\* opts.Deploy: the collector's own copy.
Copy == deploy

\* No copy, no enrichment.
Enriched(Op(_, _), found) ==
  IF Copy = Failed THEN found ELSE {Op(Copy, r) : r \in found}

-----------------------------------------------------------------------------

Init ==
  /\ config \in [Keys -> {None} \cup [kind : Kinds, at : {0}]]
  /\ edits = 0
  /\ pc = "idle"
  /\ deploy = None
  /\ memo = None
  /\ rows = {}
  /\ past = [k \in Keys |-> {}]

\* newFlatCollector: charly.yml is read once, or cannot be.
Start ==
  /\ pc = "idle"
  /\ pc' = "kubernetes"
  /\ deploy' \in {config, Failed}
  /\ past' = [k \in Keys |-> {config[k]}]
  /\ UNCHANGED <<config, edits, memo, rows>>

\* Plausible bug: each collector resolves the project for itself.
LookAgain(look) == look \in {config, Failed} /\ memo' = look

\* fetchResolvedProject: one resolution for all of them, failed or not.
Look(look) ==
  /\ look \in IF memo = None THEN {config, Failed} ELSE {memo}
  /\ memo' = look

\* The collectors of tree rows that are final as they are.
CollectTree ==
  /\ pc \in TreeWords \ {"kubevirt"}
  /\ \E look \in {config, memo, Failed} :
       /\ Look(look)
       /\ rows' = rows \cup TreeRows(pc, look)
  /\ pc' = After[pc]
  /\ UNCHANGED <<config, edits, deploy, past>>

\* The devices of the resolved project and of charly.yml as it is now; without
\* the project there are none.
CollectAndroid ==
  /\ pc = "android"
  /\ \E look \in {config, memo, Failed}, overlay \in {config, Failed} :
       /\ Look(look)
       /\ rows' = rows \cup TreeRows(pc, Merged(look, overlay))
  /\ pc' = After[pc]
  /\ UNCHANGED <<config, edits, deploy, past>>

CollectKubevirt ==
  /\ pc = "kubevirt"
  /\ \E look \in {config, memo, Failed} :
       /\ Look(look)
       /\ rows' = rows \cup Enriched(EnrichKubevirt, TreeRows(pc, look))
  /\ pc' = After[pc]
  /\ UNCHANGED <<config, edits, deploy, past>>

\* The domains libvirt lists: none without a session or the plugin.
CollectVm ==
  /\ pc = "vm"
  /\ \E up \in SUBSET Domains :
       rows' = rows \cup Enriched(EnrichVm, {DomainRow(d) : d \in up})
  /\ pc' = After[pc]
  /\ UNCHANGED <<config, edits, deploy, memo, past>>

\* The containers the engine lists, each as its unit file describes it.
CollectPod ==
  /\ pc = "pod"
  /\ \E up \in SUBSET Containers : \E unit \in [up -> Units \cup {None}] :
       rows' = rows \cup Enriched(EnrichOne, {ContainerRow(c, unit[c]) : c \in up})
  /\ pc' = After[pc]
  /\ UNCHANGED <<config, edits, deploy, memo, past>>

\* A deploy, a teardown or the user writes or removes an entry.  Writes before
\* the request are in Init, and nobody looks after it.
Write(k) ==
  /\ pc \notin {"idle", "done"} /\ edits < MaxEdits
  /\ edits' = edits + 1
  /\ \E e \in {None} \cup [kind : Kinds, at : {edits + 1}] :
       /\ config' = [config EXCEPT ![k] = e]
       /\ past' = [past EXCEPT ![k] = @ \cup {e}]
  /\ UNCHANGED <<pc, deploy, memo, rows>>

Next ==
  \/ Start \/ CollectTree \/ CollectAndroid \/ CollectKubevirt
  \/ CollectVm \/ CollectPod
  \/ \E k \in Keys : Write(k)

Spec == Init /\ [][Next]_vars

-----------------------------------------------------------------------------
(* Properties.                                                             *)

Version == (Keys \X (0..MaxEdits)) \cup {None}

\* Besides the types: no entry is newer than the last edit.
TypeOK ==
  /\ config \in Deploy
  /\ edits \in 0..MaxEdits
  /\ \A k \in Keys : config[k] # None => config[k].at <= edits
  /\ pc \in {"idle", "done"} \cup Words
  /\ deploy \in Deploy \cup {None, Failed}
  /\ memo \in Deploy \cup {None, Failed}
  /\ rows \subseteq [word : Words, image : Name, instance : Name,
                     container : Name, of : Version, by : Version]
  /\ past \in [Keys -> SUBSET (Entry \cup {None})]

\* The rows that report the entry under k.
RowsOf(k) == {r \in rows : r.of # None /\ r.of[1] = k}

\* The version e of an entry is one some collector makes a row of.
InTree(e) == e # None /\ e.kind.target \in EntryWords

\* An entry retargeted, rewritten or removed while a request runs is reported
\* in a version it had then, by that version's target, and neither lost between
\* two collectors of the resolved project nor reported by two.  The android
\* collector sees a later charly.yml than they did: only an entry that became
\* an android device after their look is reported by both, and only one that
\* ceased to be one can have no row though every version was a collector's and
\* the project was resolved.
OneRowPerEntry ==
  \A k \in Keys :
    /\ \A r \in RowsOf(k) :
         \E e \in past[k] \ {None} : r.of[2] = e.at /\ r.word = e.kind.target
    /\ \A r, s \in RowsOf(k) :
         /\ (r.word = "android" <=> s.word = "android") => r = s
         /\ (r.word # "android" /\ s.word = "android") => r.of[2] < s.of[2]
    /\ (pc = "done" /\ memo # Failed /\ \A e \in past[k] : InTree(e)) =>
         \/ RowsOf(k) # {}
         \/ \E e, f \in past[k] : /\ e.kind.target = "android"
                                 /\ f.kind.target # "android" /\ e.at < f.at

\* A row is never enriched from a later version of its entry than it reports:
\* the copy is older than the look, so an address may be stale, never foreign
\* to what the row says was deployed.
NotNewerThanRow ==
  \A r \in rows :
    (r.of # None /\ r.by # None /\ r.of[1] = r.by[1]) => r.by[2] <= r.of[2]

\* A container that has the name charly gives its box and instance.
Ordinary(r) == r.word = "pod" /\ r.container = Joined(r.image, r.instance)

\* No two such containers are enriched from one entry: an instance shows
\* neither its box's tunnel, ports and volumes nor another instance's.
OneContainerPerEntry ==
  \A r, s \in rows :
    (Ordinary(r) /\ Ordinary(s) /\ r.by # None /\ r.by = s.by)
      => r.container = s.container

\* A domain is given the SSH port of a vm entry of another name only if no
\* second entry was made from the same template all along: never a guess.
NeverAGuess ==
  \A r \in rows : (r.word = "vm" /\ r.by # None /\ r.by[1] # r.image) =>
    \A k \in Keys \ {r.by[1]} : \E e \in past[k] :
      ~(e # None /\ e.kind.target = "vm" /\ e.kind.from = r.image)

\* enrichKubevirtRow "fills the cluster/venue detail from the matching
\* kind:kubevirt deploy entry's kubevirt_state when one exists": an entry with
\* a recorded state that nobody touched during the request enriches its row.
KubevirtEnriched ==
  \A r \in rows : (r.word = "kubevirt" /\ deploy # Failed) =>
    \A e \in past[r.of[1]] :
      (past[r.of[1]] = {e} /\ e.kind.state # "none") => r.by = r.of
=============================================================================
