# plugin-substrate: a verification project

`candy/plugin-substrate` is the plugin that serves the eight substrate words of
OpenCharly (`pod`, `vm`, `kubernetes`, `local`, `android`, `kubevirt`,
`kindcluster`, `firecracker`): their structural load, deep validation, template
resolution, the `charly status` collectors with the fan-out over them, and the
command `charly reap-orphans`. This directory holds TLA+ models of the parts
that keep state or run concurrently, the TLC configurations that check them, and
TLAPS proofs. Paths below are relative to `src/candy/plugin-substrate/`.

## 1. Inventory

| Component | Code | State it keeps | Operations | Model |
|---|---|---|---|---|
| Pod collector | `status_pod.go`, host probes in `status_probes.go` | per request: snapshots, `results`, a semaphore channel, two levels of wait groups | list, filter, append enabled quadlets, one goroutine per container, one per host probe, one guest batch, join | `PodFanout`, `PodView` |
| Guest-probe cache | `status_probes.go` 320-404 | a store on disk shared by every status command (30 s TTL) | look up, exec, parse, put | `ProbeCache` |
| Orphan reaper | `command_reap_orphans.go` | none of its own; acts on `charly.yml` and the engines | load, probe every active ephemeral, delete those not alive | `ReapOrphans` |
| Status fan-out, project memo | `status_flat.go`, `status_project_memo.go`, `status_collect.go`, `fetchResolvedProject` | per request: memo on the context, one copy of `charly.yml` | collect eight words in order, enrich three, merge; one word over the wire | `StatusFanout`, `ProjectView` |
| Local collector | `status_local.go` | none; reads the ledger section of `charly.yml` | two passes over Go maps, one row per deploy-id | `LocalLedger` |
| Deploy lookup and enrichment | `status_flat.go` 245-387 | the copy of `charly.yml` read at the start | key shapes, one match per row, field fallbacks | `DeployEntries` |
| Single-container path | `status_flat.go` 204-243, 389-431, `status_pod.go` 88-120 | none | one snapshot, one batch of probes, `systemctl`, the quadlet directory; secrets | `SinglePath` |
| vm collector | `status_vm.go` | none | libvirt listing through a peer plugin, a state table | `DeployEntries`; its failure in `StatusFanout` |
| Declared-row collectors | `status_kubernetes.go`, `status_kindcluster.go`, `status_firecracker.go`, `status_kubevirt.go` | none | enumerate nodes of the resolved project, one row each | `DeployEntries`; their failure in `StatusFanout` |
| android collector | `status_android_collect.go` | none | merge project and `charly.yml`, resolve devices, ask the engine three times | `AndroidStatus`; its rows among the others' in `DeployEntries`, its failure in `StatusFanout` |
| Deep validation | `validate_vm.go`, `validate_kubevirt.go` | none | checks of one decoded value | not modelled |
| Load, resolve, dispatch | `plugin.go`, `resolve.go` | none | echo a node, project a template, route an op | not modelled |
| Declaration, CLI, schema | `plugin.go`, `selectors.go`, `cmd/serve`, `schema/` | static tables | - | not modelled |

How they interact. The host calls `Invoke` with an op and a word, concurrently, on
one long-lived provider. `OpStatusCollectAll` runs `runStatusFanout`, which puts
a memo on the context, reads `charly.yml` once and calls the collectors in
package, one word after the other; `OpStatusCollect` runs one collector without a
memo. Five collectors resolve the project over the host's reverse channel; the
pod collector fans out over goroutines and shares the probe cache with every
other status command of the host; the local and android collectors read
`charly.yml` again. `reap-orphans` reads `charly.yml`, asks the engines, and runs
`charly deploy del` as a child process. Those, the user's edits and the TTL teardown
are concurrent with everything above.

What is hard here, and where a test hardly reaches: the order of goroutines, the
semaphore and the two wait groups; several calls that miss the same cache entry
and write it out of order; probing first and deleting later while the world moves;
probes that fail for reasons of their own; edits between the reads of one request;
results that depend on the iteration order of Go maps; keys of one map that mean
different things to different callers; a container asked about three times while it
is stopped and recreated. `PROJECT.json` lists each hazard at its line.

## 2. Modules

Every module's comments name the code its definitions stand for; `PROJECT.json`,
"map", gives the lines. Definitions marked "Plausible bug" are variants of an
action or operator that a run is expected to reject; they are part of no
specification.

**PodFanout** (`collectPodStatus`). A slot of `results` is named by its snapshot.
Each goroutine has a control point (`pc`): counted (`wg.Add`), holding a token
(`sem <-`), waiting for its probes, row written, token returned, `wg.Done`. The
order Add, token, go and the last-in-first-out order of the deferred calls are the
code's. What a probe answers is `"-"` (tool not there) or `"ok"` (any other
status). The listing is any set of containers the engine may report;
`EnabledQuadlets` adds the units on disk that were not listed.
**PodView** is the abstract promise: one listing, a bounded pool, each row filled in
once by whoever has the slot, the reply when the pool is empty and every row there.
`View` maps it onto the code's state: the pool's members are the goroutines between
their token and its return (`Holding`), its size is `PoolSize`, its rows are `results`.

**ProbeCache** (`runGuestProbes`). Get, exec and put are separate steps of each
call, so that calls interleave in between. An entry holds its payload, the
moment its exec looked (history) and its stamp (`resolved`, the time of the
write). Exec errors and put errors are dropped, as in the code. A call without
probes returns at once and leaves the store alone. Containers lose and gain tools,
and entries' files are damaged, at any time.

**ReapOrphans** (`runReapOrphans`). Per reaper: load, the probe loop, the delete
loop, in any order within each loop (Go map order). `Verdict` is
`ephemeralUnderlyingResourceAlive`: a probe answers "exists", "missing", or one
of the failures the configuration lets its target have. Deleting is a child
process in two observable halves, each of which may fail. The rest of the host
(crashes, other teardowns, redeploys) moves freely.

**StatusFanout** (`runStatusFanout`, `collectFlat`, `fetchResolvedProject`). Files
are their versions; a row is known by the versions it was built from. `Fetch` is
the memo: `sync.Once` and its outcome, a failure included. Requests, fan-outs and
single words over the wire, interleave with edits of both files. A word is
collected in one step: one look at each of the files its collector reads, which is
all of its interaction with the other actors of this module. `WordIsolation` says
that every word is asked, whichever failed before it; a failed resolution, which five
words share, still costs all five their rows.
**ProjectView** is the abstract promise: a request looks at the project at most
once, between its start and its end.

**LocalLedger** (`collectLocalStatus`). Two passes, each over its records in any
order; timestamps are instants, malformed values or empty.

**DeployEntries** (`collectFlat` seen from the entries of the deploy tree). Entries
are written, retargeted and removed while the fan-out asks its words in order. The
four tree collectors make a row of every entry of their target in the resolved
project (one look, shared). The android collector makes one of every entry of its own
in that project with `charly.yml`, read again, laid over it: an entry that became a
device after the look has a row of the collector of its earlier target as well, and
one that ceased to be a device in between may have none. `OneRowPerEntry` says that
nothing else duplicates or loses a row. Libvirt domains and containers bring rows of
their own.
`Lookup` is `lookupDeploy`, `EnrichVm`, `EnrichKubevirt` and `EnrichOne` say which
entry of the copy a row is given. A name is the sequence of its words and separators,
so that `box/instance`, `box-instance` and `namespace/vm` are built as the code builds
them, and the clash of two of them is a state of the model and not an assumption. A
row carries the version of the entry it reports and of the one it was enriched from;
the fields copied are left out, and so are `local` rows, which no entry and no other
collector has a part in. A device nested below another entry has a path no other
collector makes a row of, and is left to `AndroidStatus`. Every entry is declared in the per-host file: a project
that declares others adds rows that report no entry of that file. `FindVm`, `DeployKey`
and the two name conversions are the sdk's, modelled from their use and their tests.

**AndroidStatus** (`collectAndroidStatus`). The merged nodes, then one device after
the other: `StatusOfSpec` is every device decided without a look; the others ask
whether the container runs, inspect its port and, for a `box:` device, ask again
whether it runs. Containers move through "gone", "down", running with and without
the port published, on either engine, between any two of these, and the engine of a
box may be written to `charly.yml`. Any command and any read may fail.

**SinglePath** (`collectSingle`, `collectPodSingle`, `resolveSystemdState`). One
request makes up to four looks - the engine's list, the guest batch, `systemctl`,
the quadlet directory - each of which may fail, while the container and its unit
move. `StatusFromState`, podman and systemd are external; that `systemctl is-active`
succeeds for an active unit alone is systemd's documented behaviour, and the code
reads its output only then.

## 3. Runs

| Run | Instance | Shows |
|---|---|---|
| `pod_fanout` | up to 3 charly containers and a foreign one, any quadlet units, pool of 2, the guest batch | more containers than slots; the pool bound; the reply is complete and leaves nothing behind; one row per container; nobody waits for somebody who is not coming, no step is taken back, every request is answered; refinement of `PodView` |
| `reap` | a vm and a pod, probes that fail in the ways their verdict forgives, failing deletions, 2 reapers, 1 redeploy of each name | only the dead are condemned; a live resource is stopped only after a redeploy, nobody is skipped, every invocation ends |
| `reap_kubevirt` (violation) | 1 kubevirt VM, API server down | a running VM is condemned |
| `probe_cache` | 1 container, scripts that look for `sshd`, for `vnc` and for nothing, 3 calls, TTL 2, lag 1, clock to 4 | each call gets its own probes; crashes and failures are hidden for TTL + lag at most |
| `cache_failed` (violation) | 2 calls | a failed exec is cached as "no tools" |
| `status_fanout` | 2 requests, 1 edit of each file, 3 wire words | one resolution, one enrichment copy, every word asked whichever failed, refinement of `ProjectView` |
| `deploy_entries` | 3 keys (`a`, `a/b`, `a-b`), entries of 4 kinds (vm, kindcluster, android, kubevirt), at most 2 when the request starts, 1 domain, 2 containers with and without a unit file, 2 edits during the request | an entry has one row of the resolved project, of a version it had, and a second or none only if it became or ceased to be an android device meanwhile; no row is enriched from a newer or another deployment's entry; a kubevirt entry without an image does enrich its own |
| `kubevirt_lookup` (violation) | the same keys, kubevirt entries with and without an image, no edit | an entry's state does not reach its own row |
| `android` | a device below a pod and one of its own, 3 places on 2 engines, 4 kinds of node, 2 moves of the host | a row per device; what runs all along is running; what is running ran since its port was looked up |
| `single_path` | every run mode, unit state and container state; the host moves without a bound | the reply was so at some moment of the request; a container that ran all along is reported as running |
| `single_failed` (violation) | the same | a failed unit is reported as "enabled" |
| `local_ledger` | 4 + 4 possible records, every subset, every order | the reply is a function of the ledger |

Bounds. Three containers over two slots is the least instance where the loop
blocks with a goroutine counted and not started while another finishes. `pod_fanout`
leaves the host probes out (`HostProbes` is empty): they race with the guest batch
for the same join, which the proofs cover for every set of probes. Its three charly
containers can be exchanged in every behaviour, so `MCSpec` starts only from listings
that have the busiest first: one of each class, with its behaviours as they are, so
that the temporal properties stay meaningful. Three
calls let the oldest result be written last after a newer one was read; they are of
one binary, or one of each of the three, and a tool that no call asks for stays as it
is, since no result would show it. A clock of 4 with TTL 2 and lag 1 leaves room for an
entry to be written, renewed through a race and to be served past the bound if it were
kept for longer. Two requests and one edit give a memo every chance
to leak; the number of edits only adds versions. The wire words of `status_fanout`
are one that needs the project, one that reads `charly.yml` and one that needs
neither. Two reapers cover every pairwise race; the redeploy bound of 1 allows
exactly the race the property is about. Of the three keys of `deploy_entries` one is
a box, one its instance's entry and one the joined name of its container, which is
every clash two separators allow; two of the keys hold an entry when the request
starts, and the third may be written meanwhile; two edits take an entry from one target
to another and back, and let it be newer in the tree than in the copy. Two moves stop a container
and start it again between two looks at it. The malformed and the empty timestamp and
two instants cover every arm of `newerTimestamp`, and four records of a kind cover
every order of three of them. `SinglePath` has no constant to bound: its run is
exhaustive. The bounds on nodes, entries, devices, records, requests and edits
disappear in the proofs, where `MaxNow`, `MaxGen`, `MaxEdits` and `MaxMoves` stay
arbitrary constants. `MaxLag` is an assumption, not a bound of the code: nothing in
the code limits an exec.

Deadlock checking is off in every run: requests, calls and reapers come to an end,
and the models then stop.

Fairness. `PodFanout`: weak fairness of the loop and of each goroutine is the Go
scheduler's promise; of each probe's answer, the 2 s timeouts of the host probes
and, for the guest batch, that `podman exec` returns - the code sets it no
deadline, and without that `Answered` does not hold. `ReapOrphans`: weak fairness of
each reaper, a sequential process whose probes and children return. No fairness is
assumed of users, files or engines, and the other modules assume none. Every
violation run checks an invariant, which needs no fairness.

## 4. Where the code and its comments disagree

1. `reap_kubevirt`: the kubevirt arm treats every failure of `kubectl get` but
   its absence as "dead" (`command_reap_orphans.go:202`); the comment above it
   promises never to reap on an inconclusive probe. The kubernetes and pod arms
   have the same shape.
2. `cache_failed`: a failed exec is cached as "no tools" (`status_probes.go:354`,
   comment at 334).
3. `single_failed`: `resolveSystemdState` reads the answer of `systemctl is-active`
   only if the command succeeded, which it does for an active unit alone; a failed
   unit is reported as "enabled" (`status_flat.go:396-411`, comment at 389).

4. `kubevirt_lookup`: `enrichKubevirtRow` looks a row up by the names it shows, its
   image and `namespace/vm`, and an entry that names its image is under neither
   (`status_flat.go:346`, `status_kubevirt.go` 51, 62; comment at `status_flat.go:333`).

Observations without a run of their own. The staleness of a probe result is the TTL
plus the duration of its exec, as the stamp is the time of the write
(`status_probes.go:361`; the comment at 366 says "within 30s"): `CrashSeen` is stated
with that lag, and `CrashesAreSeen` proves it. And `charly.yml` is not read once per
fan-out (`status_flat.go:92`): the local and android collectors read it again, which
is why `OneEnrichment` speaks of the enriched words only. In the android collector's
case the user sees it: it lets the entries read at `status_android_collect.go:78` win
over the resolved project (line 103), so that an entry retargeted from kubernetes to
android during the request is reported by both collectors, and one retargeted from
android to kubernetes by neither. `OneRowPerEntry` states exactly that. `status_flat.go` 339-341 says a
kubevirt entry "is identified by its discriminator"; the code asks only whether it
has a `kubevirt_state`. `command_reap_orphans.go` 10-11 says the ledger is read through the
host's loader; `loadDeployConfig` reads the file (`status_flat.go` 43-60), without the
venue stamps the loader adds and `FindVmDeployNode` tells a vm entry by.

## 5. Proofs

Each `*Proofs` module extends its component's module. The pattern is one
inductive invariant `IInv`, `Init => IInv`, `IInv /\ [Next]_vars => IInv'` with one
step per action, and the properties as consequences; action properties are proved
from `IInv /\ [Next]_vars`.

- **PodFanoutProofs**: `sem` and `wg` are the cardinalities of the goroutines that
  hold a token and of those still to be waited for (`CountersExact`); the loop has
  counted everything it has passed (`LoopConsistent`); written rows are final
  (`RowsConsistent`). `wg = 0` after the loop then leaves no unfinished row. Over it, a second
  invariant (`Fresh`) says that no probe has begun and no row been written before a
  goroutine comes to it, and that a loop at the semaphore has counted the goroutine it
  is about to start: with it no step takes anything back (`ForwardOnly`), every step lowers the
  number of steps still to be made (`WorkShrinks`: three for the handler, six per container
  and one per probe at most), until the reply somebody can move (`NobodyStuck`), and each
  step is one of `PodView` or a stutter (`FanoutImplementsPodView`). Assumed: the engine's
  listing and the set of probes are finite, pool floor and CPU count positive.
- **ReapOrphansProofs**: condemned entries were loaded and were dead when probed,
  or their probe is one that can be deceived (`Deceivable`: a fault its verdict does not
  forgive, or an engine it does not see). `CondemnationsExplained` and `KillsExplained`
  state this for any host; `OnlyTheDeadAreCondemned` and `OnlyRedeploysRace` are
  its consequences where no probe is deceivable (`Tolerant`) -
  which is exactly what the kubevirt, kubernetes and pod arms lack. What is condemned
  and yet runs was deployed after its probe (`LivingAreNew`), so that
  `LiveKillOnlyAfterRedeploy` holds of every step. `NobodySkipped` needs no such
  assumption: what a probe told dead waits among the orphans or has been tried
  (`NobodyLost`); nor does `NobodyTwice`, from which a reaper's four sets of things to do
  never grow and each of its turns takes one from them (`ReapersAdvance`).
- **ProbeCacheProofs**: `StoreInv` ties an entry's payload to the tools at the
  moment of its exec, and its stamp to at most `MaxLag` later; `PendingInv` says the
  same of results not yet written. Age bounds follow for any number of racing calls.
  `CachedOfSuccess`
  delimits the finding of `cache_failed`: only a failed exec makes the cache forget a tool.
- **LocalLedgerProofs**: each aggregate equals what the records gathered so far say
  (`Matches`), so that the order of records cannot matter.
- **StatusFanoutProofs**: each request is `Sound`, whatever the others do (`Frame`,
  `OthersKept`): the memo holds its every look at the project (`LooksOnce`), its rows
  come from the memo (`RowsFromMemo`), a fan-out has asked the words before the one
  it is at (`AskedInOrder`), and enriched rows are from its own copy of `charly.yml`
  (`EnrichedFromDeploy`). Two steps, one that reads the memo and one that fills it,
  look alike in `ProjectView`'s terms only because of `RowsFromMemo`: the set a
  request's rows come from is the memo, or empty. Each step then is a step of
  `ProjectView` or a stutter (`Opens`, `Looks`, `Closes`, `Idles`), which gives
  `FanoutImplementsView`. Assumed: the two marks `None` and `Failed` are no versions.

- **DeployEntriesProofs**: the resolved project and the copy are versions each key had
  (`Looks`); a tree row is exactly what its entry in the memo gives, for the targets
  collected so far (`TreeSound`, `Complete`), so that two of them of one entry are equal;
  a device's row is of the memo's version or of a later one (`AndroidSound`), its
  collector reports every device of the memo that no later version replaced
  (`AndroidComplete`) and each of them once (`AndroidOne`), which together bound what
  its second reading can add or lose (`OneRow`);
  a domain's match is its own entry or the copy's only one (`VmSound`); a container's
  is under one of its two keys (`PodSound`). `OneContainerPerEntry` then comes down to a
  fact on sequences: with no slash in a box or container name, `box/instance` and
  `box-instance` never meet, and each determines its parts. Assumed: engines and boxes
  have no slash in their names (`PlainAssumption`), and the marks are no entries. The
  finding of `kubevirt_lookup` is delimited from both sides: an entry that names no image
  and is left alone always enriches its row (`KubevirtFound`, with the hypothesis
  `OwnImage`), one that names another and has its namespace recorded never does
  (`NamedImageIsMissed`).
- **AndroidStatusProofs**: what a row says comes from the looks made so far; the
  history `steady` bounds what a look may have found, and `since` holds every place a
  port's look found running. Assumed: every device has a host and a root, and engines
  are podman or docker.
- **SinglePathProofs**: each control point knows which looks were made, and the host's
  states that were seen contain what each of them answered. `FailedShowsEnabled` states
  the finding of `single_failed` of every behaviour, from an invariant of its own
  (`Misjudged`): a unit that has failed all along leaves the request no choice.

Only model-checked: liveness under fairness (`Answered`, `ReapEnds`), which, like
`ENABLED`, is beyond the prover. What makes it true is proved: a measure every step
lowers (`WorkShrinks`, `ReapersAdvance`) and, for the pod collector, that somebody can
move until the reply (`NobodyStuck`); what is left to TLC is that fair scheduling lets
them. Every safety and action property of a passing run, and the refinements of
`ProjectView` and `PodView`, are theorems.

## 6. Not modelled, and why

- Deep validation (`validate_vm.go`, `validate_kubevirt.go`), template resolution and the
  structural load (`resolve.go`, `plugin.go`): functions of one request without state,
  order or another actor. Each check stands beside its message and each field is copied
  once; a model would restate the code and a property of it could say nothing else.
- Static declarations, argument parsing, marshalling, formatting and wording have no
  behaviour to check.
- What an enrichment copies from the entry it found, and the fallback to the labels of
  an image: field by field, after the choice of the entry, which `DeployEntries` models.
- The parsing of a guest batch's sections: `ProbeCache` has its outcome, a status per
  tool, and a batch cut short, which leaves the tools after the cut without one.
- The sdk (`enginekit`, `kit`, `deploykit`), the engines, the child process and the
  host's reverse channel are outside the repository: they are modelled by the
  answers the code can get from them, and by what the code's comments rely on: that
  `charly deploy del` has no effect on what another teardown already removed. What only they decide is no property here: how a
  name is sanitised, so that two deploys may claim one cluster or microVM; where a
  kubevirt VM without a recorded state runs; how `charly.yml` is locked.
- Two status requests share nothing in `PodFanout` beyond the cache, so it models one.

## 7. What could follow

`DeployEntries` and `ReapOrphans` both read the entries of `charly.yml`; composed, they
would say which resource a condemned entry names when two entries clash. It asks no
question the present runs leave open on their own.
