----------------------------- MODULE ProbeCache -----------------------------
(***************************************************************************)
(* The guest-probe cache: runGuestProbes runs the snippets of every guest  *)
(* probe in one `podman exec`, and keeps the parsed results on disk, under *)
(* the container's name and the script, for probeCacheTTL.                 *)
(*                                                                         *)
(* Several status commands share the store; the read, the exec and the     *)
(* write are separate steps, and containers change in between.  The store, *)
(* the engine and the containers are external to the plugin.               *)
(***************************************************************************)
EXTENDS Naturals

CONSTANTS
  Containers, \* container names
  Tools,      \* what the guest probes look for, one probe per tool
  Scripts,    \* probe lists of the charly binaries that share the store
  Runs,       \* calls of runGuestProbes
  TTL,        \* probeCacheTTL
  MaxLag,     \* assumed: longest time from a probe's look to store.Put
  MaxNow,     \* bound: the clock stops there
  None,       \* no entry, no result
  Garbage     \* the payload of a damaged entry

ASSUME ProbeCacheAssumption ==
  /\ Scripts \subseteq SUBSET Tools
  /\ TTL \in Nat /\ MaxLag \in Nat /\ MaxNow \in Nat

\* A result list has a status for each probe of a script, "-" for no tool.
Status  == {"-", "ok"}
Results == UNION {[s -> Status] : s \in Scripts}

VARIABLES
  now,      \* the clock
  tools,    \* tools that answer in each container ({} when it is down)
  since,    \* history: when a tool last came or went
  failedAt, \* history: when an exec into the container last failed
  store,    \* the cached entries
  pc,       \* control point of each run
  arg,      \* its container and its script
  out,      \* results it parsed, and (history) when its exec looked
  served    \* results it returned

world == <<tools, since, failedAt>>
vars == <<now, world, store, pc, arg, out, served>>

-----------------------------------------------------------------------------

\* Plausible bug: the key leaves out the script.
KeyNoScript(c, s) == <<c, CHOOSE x \in Scripts : TRUE>>

\* container + "|" + the assembled script.
Key(c, s) == <<c, s>>

Keys == Containers \X Scripts

\* Entry.FreshTTL on what Get returned.
Fresh(e) == e # None /\ now < e.resolved + TTL

\* A fresh entry that decodes.
Usable(e) == Fresh(e) /\ e.payload # Garbage

Init ==
  /\ now = 0
  /\ tools \in [Containers -> SUBSET Tools]
  /\ since = [c \in Containers |-> [t \in Tools |-> 0]]
  /\ failedAt = [c \in Containers |-> 0]
  /\ store = [k \in Keys |-> None]
  /\ pc = [r \in Runs |-> "idle"]
  /\ arg \in [Runs -> [container : Containers, script : Scripts]]
  /\ out = [r \in Runs |-> None]
  /\ served = [r \in Runs |-> None]

Entry(r) == store[Key(arg[r].container, arg[r].script)]

\* Plausible bug: the decode of a fresh entry is not checked.
HitUnchecked(r) ==
  /\ pc[r] = "idle" /\ arg[r].script # {}
  /\ Fresh(Entry(r))
  /\ served' = [served EXCEPT ![r] = Entry(r).payload]
  /\ pc' = [pc EXCEPT ![r] = "done"]
  /\ UNCHANGED <<now, world, store, arg, out>>

\* A call without guest probes has no results, and leaves the store alone.
NoProbes(r) ==
  /\ pc[r] = "idle" /\ arg[r].script = {}
  /\ served' = [served EXCEPT ![r] = [t \in {} |-> "-"]]
  /\ pc' = [pc EXCEPT ![r] = "done"]
  /\ UNCHANGED <<now, world, store, arg, out>>

Hit(r) ==
  /\ pc[r] = "idle" /\ arg[r].script # {}
  /\ Usable(Entry(r))
  /\ served' = [served EXCEPT ![r] = Entry(r).payload]
  /\ pc' = [pc EXCEPT ![r] = "done"]
  /\ UNCHANGED <<now, world, store, arg, out>>

Miss(r) ==
  /\ pc[r] = "idle" /\ arg[r].script # {}
  /\ ~Usable(Entry(r))
  /\ pc' = [pc EXCEPT ![r] = "exec"]
  /\ UNCHANGED <<now, world, store, arg, out, served>>

\* splitProbeSections and Parse: a section with no text parses to "-".
Parsed(script, sections) ==
  [t \in script |-> IF t \in sections THEN "ok" ELSE "-"]

\* ExecBatched runs the script: each snippet looks for its tool.
Exec(r) ==
  LET c == arg[r].container  s == arg[r].script IN
  /\ pc[r] = "exec"
  /\ out' = [out EXCEPT ![r] = [results |-> Parsed(s, tools[c]), at |-> now]]
  /\ pc' = [pc EXCEPT ![r] = "put"]
  /\ UNCHANGED <<now, world, store, arg, served>>

\* Plausible bug: after a failed exec the expired entry is good enough.
ExecFailsStale(r) ==
  /\ pc[r] = "exec"
  /\ Entry(r) # None /\ Entry(r).payload # Garbage
  /\ out' = [out EXCEPT ![r] = [results |-> Entry(r).payload, at |-> now]]
  /\ failedAt' = [failedAt EXCEPT ![arg[r].container] = now]
  /\ pc' = [pc EXCEPT ![r] = "put"]
  /\ UNCHANGED <<now, tools, since, store, arg, served>>

\* It fails, after any part of the output: the error is dropped.
ExecFails(r) ==
  LET c == arg[r].container  s == arg[r].script IN
  /\ pc[r] = "exec"
  /\ \E part \in SUBSET (s \cap tools[c]) :
       out' = [out EXCEPT ![r] = [results |-> Parsed(s, part), at |-> now]]
  /\ failedAt' = [failedAt EXCEPT ![c] = now]
  /\ pc' = [pc EXCEPT ![r] = "put"]
  /\ UNCHANGED <<now, tools, since, store, arg, served>>

Return(r) ==
  /\ served' = [served EXCEPT ![r] = out[r].results]
  /\ pc' = [pc EXCEPT ![r] = "done"]

\* Plausible bug: results that show no tool at all are kept for longer.
PutNegativeLonger(r) ==
  LET nothing == \A t \in arg[r].script : out[r].results[t] = "-" IN
  /\ pc[r] = "put"
  /\ store' = [store EXCEPT ![Key(arg[r].container, arg[r].script)] =
       [payload |-> out[r].results, at |-> out[r].at,
        resolved |-> IF nothing THEN now + TTL ELSE now]]
  /\ Return(r)
  /\ UNCHANGED <<now, world, arg, out>>

\* store.Put stamps the entry with the time of the write.
Put(r) ==
  /\ pc[r] = "put"
  /\ store' = [store EXCEPT ![Key(arg[r].container, arg[r].script)] =
       [payload |-> out[r].results, at |-> out[r].at, resolved |-> now]]
  /\ Return(r)
  /\ UNCHANGED <<now, world, arg, out>>

\* Or it fails (no cache directory, a full disk): the error is dropped too.
PutFails(r) ==
  /\ pc[r] = "put"
  /\ Return(r)
  /\ UNCHANGED <<now, world, store, arg, out>>

Run(r) ==
  \/ NoProbes(r) \/ Hit(r) \/ Miss(r)
  \/ Exec(r) \/ ExecFails(r) \/ Put(r) \/ PutFails(r)

-----------------------------------------------------------------------------
(* The rest of the host.                                                   *)

\* A service starts or crashes, or the whole container does.
Change(c) ==
  \E S \in SUBSET Tools \ {tools[c]} :
    /\ tools' = [tools EXCEPT ![c] = S]
    /\ since' = [since EXCEPT ![c] =
         [t \in Tools |-> IF (t \in S) = (t \in tools[c]) THEN @[t] ELSE now]]
    /\ UNCHANGED <<now, failedAt, store, pc, arg, out, served>>

\* An entry's file is damaged.
Damage(k) ==
  /\ store[k] # None
  /\ store' = [store EXCEPT ![k].payload = Garbage]
  /\ UNCHANGED <<now, world, pc, arg, out, served>>

Tick ==
  /\ now < MaxNow
  /\ \A r \in Runs : pc[r] = "put" => now < out[r].at + MaxLag
  /\ now' = now + 1
  /\ UNCHANGED <<world, store, pc, arg, out, served>>

Host == Tick \/ (\E c \in Containers : Change(c)) \/ \E k \in Keys : Damage(k)

Next == (\E r \in Runs : Run(r)) \/ Host

Spec == Init /\ [][Next]_vars

-----------------------------------------------------------------------------
(* Properties.                                                             *)

TypeOK ==
  /\ now \in Nat
  /\ tools \in [Containers -> SUBSET Tools]
  /\ since \in [Containers -> [Tools -> Nat]]
  /\ failedAt \in [Containers -> Nat]
  /\ store \in [Keys -> [payload : Results \cup {Garbage}, at : Nat,
                         resolved : Nat] \cup {None}]
  /\ pc \in [Runs -> {"idle", "exec", "put", "done"}]
  /\ arg \in [Runs -> [container : Containers, script : Scripts]]
  /\ out \in [Runs -> [results : Results, at : Nat] \cup {None}]
  /\ served \in [Runs -> Results \cup {None}]

\* Every call returns one result for each probe it was asked to run, whatever
\* the other binaries that share the store asked for.
RepliesToItsProbes ==
  \A r \in Runs : pc[r] = "done" => DOMAIN served[r] = arg[r].script

Returns(r) == pc[r] # "done" /\ pc'[r] = "done"

\* Whether a call shows a tool, and whether it is wrong about it.
Shows(r, t) == served'[r][t] # "-"
Wrong(r, t) == ~(Shows(r, t) <=> t \in tools[arg[r].container])

\* The tool has been as it is now for no longer than `age`.
ChangedIn(r, t, age) == now <= since[arg[r].container][t] + age

\* A call that shows a tool which is gone: it went no longer than `age` ago.
CrashSeenIn(age) ==
  \A r \in Runs : Returns(r) =>
    \A t \in arg[r].script :
      (Wrong(r, t) /\ Shows(r, t)) => ChangedIn(r, t, age)

\* A crash is seen in time: no call returns a tool as there that has been gone
\* for longer than the TTL and the time an exec's result takes to be stored
\* (an entry is stamped when it is written, so the TTL alone is no bound),
\* in whatever order concurrent calls write the entry.
CrashSeen == [][CrashSeenIn(TTL + MaxLag)]_vars

\* A call that hides a tool which is there: it came, or an exec into the same
\* container failed, no longer than `age` ago.
FailureForgottenIn(age) ==
  \A r \in Runs : Returns(r) =>
    \A t \in arg[r].script :
      (Wrong(r, t) /\ ~Shows(r, t)) =>
         \/ ChangedIn(r, t, age)
         \/ now <= failedAt[arg[r].container] + age

\* A failed exec hides the tools of a container for a bounded time: its empty
\* results are cached, but never renewed from the cache.
FailureForgotten == [][FailureForgottenIn(TTL + MaxLag)]_vars

\* status_probes.go:334-335 says "The results are the container's TOOL
\* availability": a tool that was there all along is not cached as missing.
CachedIsAvailability ==
  \A c \in Containers, s \in Scripts :
    LET e == store[Key(c, s)] IN
      (e # None /\ e.payload # Garbage) =>
        \A t \in s : (t \in tools[c] /\ since[c][t] < e.at) => e.payload[t] # "-"
=============================================================================
