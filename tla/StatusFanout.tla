---------------------------- MODULE StatusFanout ----------------------------
(***************************************************************************)
(* The status fan-out: runStatusFanout collects the rows of every          *)
(* substrate word, one word after the other, and enriches those of vm,     *)
(* kubevirt and pod from the per-host charly.yml it read at the start.     *)
(* Five collectors need the resolved project; a memo carried by the        *)
(* request's context resolves it once.  A request for a single word, over  *)
(* the wire, has no memo.                                                  *)
(*                                                                         *)
(* Requests run concurrently in one long-lived plugin process, while the   *)
(* user edits the project and deploys.  A file's content is its version;   *)
(* a row is known by the versions it comes from.                           *)
(***************************************************************************)
EXTENDS Naturals

CONSTANTS
  Requests,   \* status requests
  WireWords,  \* words asked for on their own, over the wire
  MaxEdits,   \* bound: edits of the project, and of the per-host charly.yml
  None,       \* no look yet
  Failed      \* a look that failed

\* collectFlat's order.
Order == <<"local", "kubernetes", "kindcluster", "firecracker", "android",
           "vm", "kubevirt", "pod">>
Words == {"local", "kubernetes", "kindcluster", "firecracker", "android",
          "vm", "kubevirt", "pod"}

\* Words whose collector calls fetchResolvedProject.
ProjectWords ==
  {"kubernetes", "kindcluster", "firecracker", "android", "kubevirt"}

\* Words whose collector looks into the per-host charly.yml itself.
ConfigWords == {"local", "android"}

\* Words whose rows the fan-out enriches.
EnrichedWords == {"vm", "kubevirt", "pod"}

ASSUME StatusAssumption ==
  /\ WireWords \subseteq Words
  /\ MaxEdits \in Nat
  /\ None # Failed /\ None \notin Nat /\ Failed \notin Nat

Version == 0..MaxEdits

VARIABLES
  project,  \* version of the project
  config,   \* version of the per-host charly.yml
  req,      \* "all", or the word of a wire request
  pc,       \* control point of each request
  n,        \* index in Order of the word to collect next
  memo,     \* resolvedProjectMemo of the request's context
  deploy,   \* flatCollector.deploy: the charly.yml it was built with
  rows,     \* per word: the project and charly.yml its rows come from
  resolved  \* history: how often the request resolved the project

files == <<project, config>>
vars == <<files, req, pc, n, memo, deploy, rows, resolved>>

\* Rows: not collected yet, or how that ended and the versions behind it.
Cell(got, p, c) == [got |-> got, project |-> p, config |-> c]
NoRows == Cell("none", None, None)

Init ==
  /\ project = 0
  /\ config = 0
  /\ req \in [Requests -> {"all"} \cup WireWords]
  /\ pc = [r \in Requests |-> "idle"]
  /\ n = [r \in Requests |-> 1]
  /\ memo = [r \in Requests |-> None]
  /\ deploy = [r \in Requests |-> None]
  /\ rows = [r \in Requests |-> [w \in Words |-> NoRows]]
  /\ resolved = [r \in Requests |-> 0]

-----------------------------------------------------------------------------
(* Looking at the files.                                                   *)

\* resolveProjectDirect, loadDeployConfig: either may fail.
Resolutions == {project, Failed}
Configs     == {config, Failed}

\* Plausible bugs.  No memo at all:
FetchDirect(r, v) ==
  /\ v \in Resolutions
  /\ resolved' = [resolved EXCEPT ![r] = @ + 1]
  /\ UNCHANGED memo

\* The memo of any earlier request of the process will do:
FetchAny(r, v) ==
  IF \A q \in Requests : memo[q] = None
  THEN /\ v \in Resolutions
       /\ memo' = [memo EXCEPT ![r] = v]
       /\ resolved' = [resolved EXCEPT ![r] = @ + 1]
  ELSE /\ v \in {memo[q] : q \in Requests} \ {None}
       /\ UNCHANGED <<memo, resolved>>

\* fetchResolvedProject with a memo: once.Do, and its outcome ever after.
Fetch(r, v) ==
  IF memo[r] = None
  THEN /\ v \in Resolutions
       /\ memo' = [memo EXCEPT ![r] = v]
       /\ resolved' = [resolved EXCEPT ![r] = @ + 1]
  ELSE v = memo[r] /\ UNCHANGED <<memo, resolved>>

\* Plausible bug: the entry is looked up in charly.yml as it is now.
EnrichmentReread(r) == config

\* enrichVmRow, enrichKubevirtRow, enrichOne: the collector's own copy.
Enrichment(r) == deploy[r]

\* The charly.yml a word's rows come from, if its collector succeeds.
ConfigOf(r, w, c) ==
  CASE w \in EnrichedWords -> Enrichment(r)
    [] w \in ConfigWords   -> c
    [] OTHER               -> None

-----------------------------------------------------------------------------
(* One request.                                                            *)

\* A fan-out resolves the runtime, reads charly.yml and makes its memo.
Start(r) ==
  /\ pc[r] = "idle"
  /\ pc' = [pc EXCEPT ![r] = "collect"]
  /\ \E c \in Configs :
       deploy' = [deploy EXCEPT ![r] = IF req[r] = "all" THEN c ELSE None]
  /\ UNCHANGED <<files, req, n, memo, rows, resolved>>

\* The runtime cannot be resolved.
StartFails(r) ==
  /\ pc[r] = "idle" /\ req[r] = "all"
  /\ pc' = [pc EXCEPT ![r] = "failed"]
  /\ UNCHANGED <<files, req, n, memo, deploy, rows, resolved>>

\* Plausible bug: the end is looked for one word too late.
ProceedPast(r) ==
  /\ n' = [n EXCEPT ![r] = @ + 1]
  /\ pc' = [pc EXCEPT ![r] = IF n[r] > 8 THEN "done" ELSE @]

\* What follows one word: the next one, or the reply.
Proceed(r) ==
  /\ n' = [n EXCEPT ![r] = @ + 1]
  /\ pc' = [pc EXCEPT ![r] = IF n[r] = 8 THEN "done" ELSE @]

\* A word whose collector needs the project: without one it gets no rows.
CollectProject(r) ==
  LET w == Order[n[r]] IN
  /\ pc[r] = "collect" /\ req[r] = "all"
  /\ w \in ProjectWords
  /\ \E v \in Version \cup {Failed}, c \in Configs :
       /\ Fetch(r, v)
       /\ rows' = [rows EXCEPT ![r][w] =
            IF v = Failed THEN Cell("dropped", v, None)
            ELSE Cell("rows", v, ConfigOf(r, w, c))]
  /\ Proceed(r)
  /\ UNCHANGED <<files, req, deploy>>

\* Plausible bug: the first error ends the fan-out with what there is.
CollectOtherAborts(r) ==
  LET w == Order[n[r]] IN
  /\ pc[r] = "collect" /\ req[r] = "all"
  /\ w \notin ProjectWords
  /\ \/ /\ rows' = [rows EXCEPT ![r][w] =
                      Cell("rows", None, ConfigOf(r, w, config))]
        /\ Proceed(r)
     \/ /\ rows' = [rows EXCEPT ![r][w] = Cell("dropped", None, None)]
        /\ pc' = [pc EXCEPT ![r] = "done"]
        /\ UNCHANGED n
  /\ UNCHANGED <<files, req, memo, deploy, resolved>>

\* The others: the ledger, libvirt or the engine may fail, with a warning.
CollectOther(r) ==
  LET w == Order[n[r]] IN
  /\ pc[r] = "collect" /\ req[r] = "all"
  /\ w \notin ProjectWords
  /\ \E cell \in {Cell("rows", None, ConfigOf(r, w, config)),
                  Cell("dropped", None, None)} :
       rows' = [rows EXCEPT ![r][w] = cell]
  /\ Proceed(r)
  /\ UNCHANGED <<files, req, memo, deploy, resolved>>

\* A word over the wire: no memo, no enrichment, and its error is the reply.
\* Only the engine can fail on pod; vm hides its errors, as it has no rows then.
CollectWire(r) ==
  LET w == req[r] IN
  /\ pc[r] = "collect" /\ w # "all"
  /\ \E v \in IF w \in ProjectWords THEN Resolutions ELSE {None},
        c \in IF w \in ConfigWords THEN Configs ELSE {None},
        ok \in BOOLEAN :
       /\ ok => v # Failed /\ (w = "local" => c # Failed)
       /\ ~ok => v = Failed \/ (w = "local" /\ c = Failed) \/ w = "pod"
       /\ rows' = [rows EXCEPT ![r][w] =
                     IF ok THEN Cell("rows", v, c) ELSE Cell("dropped", v, None)]
       /\ pc' = [pc EXCEPT ![r] = IF ok THEN "done" ELSE "failed"]
  /\ resolved' = [resolved EXCEPT ![r] = IF w \in ProjectWords THEN @ + 1 ELSE @]
  /\ UNCHANGED <<files, req, n, memo, deploy>>

Request(r) ==
  Start(r) \/ StartFails(r) \/ CollectProject(r) \/ CollectOther(r)
    \/ CollectWire(r)

-----------------------------------------------------------------------------

\* The user edits the project.
EditProject ==
  /\ project < MaxEdits
  /\ project' = project + 1
  /\ UNCHANGED <<config, req, pc, n, memo, deploy, rows, resolved>>

\* A deploy, or the user, writes the per-host charly.yml.
EditConfig ==
  /\ config < MaxEdits
  /\ config' = config + 1
  /\ UNCHANGED <<project, req, pc, n, memo, deploy, rows, resolved>>

Next == (\E r \in Requests : Request(r)) \/ EditProject \/ EditConfig

Spec == Init /\ [][Next]_vars

-----------------------------------------------------------------------------
(* Properties.                                                             *)

\* Besides the types: a request that is collecting has a word to collect.
TypeOK ==
  /\ project \in Version
  /\ config \in Version
  /\ req \in [Requests -> {"all"} \cup WireWords]
  /\ pc \in [Requests -> {"idle", "collect", "done", "failed"}]
  /\ n \in [Requests -> 1..9]
  /\ \A r \in Requests : pc[r] \in {"idle", "collect"} => n[r] \in 1..8
  /\ memo \in [Requests -> Version \cup {None, Failed}]
  /\ deploy \in [Requests -> Version \cup {None, Failed}]
  /\ rows \in [Requests -> [Words ->
       [got : {"none", "rows", "dropped"},
        project : Version \cup {None, Failed},
        config : Version \cup {None, Failed}]]]
  /\ resolved \in [Requests -> Nat]

\* What a request's rows come from.
Seen(r) == {rows[r][w].project : w \in Words} \ {None}

\* A request as ProjectView sees it.
Phase(r) ==
  CASE pc[r] = "idle" -> "idle" [] pc[r] = "collect" -> "open"
    [] OTHER -> "closed"

View == INSTANCE ProjectView WITH
  phase <- [r \in Requests |-> Phase(r)],
  seen  <- [r \in Requests |-> Seen(r)]

\* The promise the fan-out implements: each request looks at the project once,
\* while it runs, and all of its rows, or the lack of them, come from that look.
ImplementsView == View!Spec

\* A request pays for one resolution of the project at most, a failed one
\* included: a second one took the status probe past its 2-minute ceiling.
OneResolution == \A r \in Requests : resolved[r] <= 1

\* The rows a fan-out enriches, early or late, are enriched from one copy of
\* charly.yml, or none of them is.
OneEnrichment ==
  \A r \in Requests : req[r] = "all" =>
    \A w, x \in EnrichedWords :
      (rows[r][w].got = "rows" /\ rows[r][x].got = "rows") =>
        rows[r][w].config = rows[r][x].config

\* A word whose collector fails does not keep the words after it from being
\* asked: the fan-out asks every one before it replies, and fails only before
\* the first.  A failed resolution, which five of them share, costs all five
\* their rows.
WordIsolation ==
  \A r \in Requests : req[r] = "all" =>
    /\ pc[r] = "done"   => \A w \in Words : rows[r][w].got # "none"
    /\ pc[r] = "failed" => \A w \in Words : rows[r][w].got = "none"
=============================================================================
