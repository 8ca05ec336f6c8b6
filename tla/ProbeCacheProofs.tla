-------------------------- MODULE ProbeCacheProofs --------------------------
(***************************************************************************)
(* Proofs about ProbeCache, for any number of containers, tools, scripts   *)
(* and concurrent calls, any TTL and any bound on a result's way into the  *)
(* store.                                                                  *)
(*                                                                         *)
(* The safety properties relate what a call returns to what the container  *)
(* was; the invariant carries that relation along: every result on its way *)
(* or in the store is accounted for by what happened since its exec looked.*)
(***************************************************************************)
EXTENDS ProbeCache, TLAPS

\* Where `results`, seen at time `at`, are wrong of container c now, the tool
\* came or went since, or an exec failed since.
Accounted(c, script, results, at) ==
  \A t \in script :
    ~(results[t] # "-" <=> t \in tools[c]) =>
       \/ since[c][t] >= at
       \/ results[t] = "-" /\ failedAt[c] >= at

\* Results that a run has parsed and not yet stored.
PendingInv ==
  \A r \in Runs : pc[r] = "put" =>
    /\ out[r] \in [results : [arg[r].script -> Status], at : Nat]
    /\ out[r].at <= now /\ now <= out[r].at + MaxLag
    /\ Accounted(arg[r].container, arg[r].script, out[r].results, out[r].at)

\* Results in the store.
EntryInv(c, s, e) ==
  /\ e.at <= now /\ e.resolved <= e.at + MaxLag
  /\ e.payload # Garbage => /\ e.payload \in [s -> Status]
                            /\ Accounted(c, s, e.payload, e.at)

StoreInv ==
  \A c \in Containers, s \in Scripts :
    store[<<c, s>>] # None => EntryInv(c, s, store[<<c, s>>])

\* Results a call has returned.
ServedInv ==
  \A r \in Runs : pc[r] = "done" => served[r] \in [arg[r].script -> Status]

IInv == TypeOK /\ PendingInv /\ StoreInv /\ ServedInv

-----------------------------------------------------------------------------
(* Type correctness.                                                       *)

LEMMA KeyTyped ==
  ASSUME TypeOK, NEW r \in Runs
  PROVE  /\ arg[r].container \in Containers /\ arg[r].script \in Scripts
         /\ Key(arg[r].container, arg[r].script) \in Keys
         /\ Entry(r) \in [payload : Results \cup {Garbage}, at : Nat,
                          resolved : Nat] \cup {None}
BY DEF TypeOK, Key, Keys, Entry

LEMMA ParsedTyped ==
  ASSUME NEW s \in Scripts, NEW S
  PROVE  Parsed(s, S) \in [s -> Status] /\ [s -> Status] \subseteq Results
BY DEF Parsed, Results, Status

\* A result of an exec that looks now is accounted for, failed or not.
LEMMA FreshlyAccounted ==
  ASSUME TypeOK, NEW c \in Containers, NEW s \in Scripts, NEW S,
         S = s \cap tools[c] \/ (S \subseteq s /\ S \subseteq tools[c]
                                   /\ failedAt[c] = now)
  PROVE  Accounted(c, s, Parsed(s, S), now)
BY DEF Accounted, Parsed, TypeOK

LEMMA InitialInv == Init => IInv
<1> SUFFICES ASSUME Init PROVE IInv
  OBVIOUS
<1>1. TypeOK
  BY ProbeCacheAssumption DEF Init, TypeOK
<1>2. PendingInv /\ ServedInv
  BY DEF Init, PendingInv, ServedInv
<1>3. StoreInv
  BY DEF Init, StoreInv, Keys
<1> QED
  BY <1>1, <1>2, <1>3 DEF IInv

-----------------------------------------------------------------------------
(* One lemma per action: the invariant is inductive.                       *)

\* A step that leaves clock, containers and results alone, and stores
\* nothing, keeps what it has no hand in.
LEMMA Frame ==
  ASSUME IInv, UNCHANGED <<now, tools, since, failedAt, arg, out>>,
         \A q \in Runs : pc'[q] = "put" => pc[q] = "put"
  PROVE  PendingInv' /\ (store' = store => StoreInv')
<1>1. PendingInv'
  BY DEF IInv, PendingInv, Accounted
<1>2. ASSUME store' = store PROVE StoreInv'
  <2>1. ASSUME NEW c \in Containers, NEW s \in Scripts,
               store'[<<c, s>>] # None
        PROVE  EntryInv(c, s, store[<<c, s>>])'
    <3>1. EntryInv(c, s, store[<<c, s>>])
      BY <1>2, <2>1 DEF IInv, StoreInv
    <3>2. QED BY <3>1, <1>2 DEF EntryInv, Accounted
  <2>2. QED BY <2>1 DEF StoreInv
<1> QED
  BY <1>1, <1>2

LEMMA NoProbesStep ==
  ASSUME IInv, NEW r \in Runs, NoProbes(r)
  PROVE  IInv'
<1> DEFINE none == [t \in {} |-> "-"]
<1>1. /\ UNCHANGED <<now, tools, since, failedAt, store, arg, out>>
      /\ served' = [served EXCEPT ![r] = none]
      /\ pc' = [pc EXCEPT ![r] = "done"]
      /\ arg[r].script = {} /\ {} \in Scripts
  BY KeyTyped DEF IInv, NoProbes, world
<1>2. none \in [{} -> Status]
  OBVIOUS
<1>3. none \in Results
  BY <1>1, <1>2 DEF Results
<1>4. TypeOK'
  BY <1>1, <1>3 DEF IInv, TypeOK
<1>5. PendingInv' /\ StoreInv'
  BY <1>1, Frame DEF IInv, TypeOK
<1>6. ServedInv'
  BY <1>1, <1>2 DEF IInv, ServedInv, TypeOK
<1> QED
  BY <1>4, <1>5, <1>6 DEF IInv

LEMMA HitStep ==
  ASSUME IInv, NEW r \in Runs, Hit(r)
  PROVE  IInv'
<1> DEFINE c == arg[r].container
           s == arg[r].script
<1>1. c \in Containers /\ s \in Scripts
      /\ Entry(r) = store[<<c, s>>] /\ store[<<c, s>>] # None
      /\ store[<<c, s>>].payload # Garbage
  BY KeyTyped DEF IInv, Hit, Entry, Key, Usable, Fresh
<1>2. Entry(r).payload \in [s -> Status]
  BY <1>1 DEF IInv, StoreInv, EntryInv
<1>3. Entry(r).payload \in Results
  BY <1>1, <1>2 DEF Results
<1>4. /\ UNCHANGED <<now, tools, since, failedAt, store, arg, out>>
      /\ served' = [served EXCEPT ![r] = Entry(r).payload]
      /\ pc' = [pc EXCEPT ![r] = "done"]
  BY DEF Hit, world
<1>5. TypeOK'
  BY <1>3, <1>4 DEF IInv, TypeOK
<1>6. PendingInv' /\ StoreInv'
  BY <1>4, Frame DEF IInv, TypeOK
<1>7. ServedInv'
  BY <1>2, <1>4 DEF IInv, ServedInv, TypeOK
<1> QED
  BY <1>5, <1>6, <1>7 DEF IInv

LEMMA MissStep ==
  ASSUME IInv, NEW r \in Runs, Miss(r)
  PROVE  IInv'
<1>1. /\ UNCHANGED <<now, tools, since, failedAt, store, arg, out, served>>
      /\ pc' = [pc EXCEPT ![r] = "exec"]
  BY DEF Miss, world
<1>2. TypeOK'
  BY <1>1 DEF IInv, TypeOK
<1>3. PendingInv' /\ StoreInv'
  BY <1>1, Frame DEF IInv, TypeOK
<1>4. ServedInv'
  BY <1>1 DEF IInv, ServedInv, TypeOK
<1> QED
  BY <1>2, <1>3, <1>4 DEF IInv

\* What Exec and ExecFails have in common.
LEMMA ParsedStep ==
  ASSUME IInv, NEW r \in Runs, NEW S,
         pc[r] = "exec",
         pc' = [pc EXCEPT ![r] = "put"],
         out' = [out EXCEPT ![r] =
                   [results |-> Parsed(arg[r].script, S), at |-> now]],
         Accounted(arg[r].container, arg[r].script,
                   Parsed(arg[r].script, S), now)',
         failedAt' = failedAt \/ failedAt' =
                        [failedAt EXCEPT ![arg[r].container] = now],
         UNCHANGED <<now, tools, since, store, arg, served>>
  PROVE  IInv'
<1> USE DEF IInv
<1>1. arg[r].container \in Containers /\ arg[r].script \in Scripts
  BY KeyTyped
<1>2. /\ Parsed(arg[r].script, S) \in [arg[r].script -> Status]
      /\ Parsed(arg[r].script, S) \in Results
  BY <1>1, ParsedTyped
<1>3. TypeOK'
  BY <1>1, <1>2 DEF TypeOK
<1>4. \A c \in Containers, at \in Nat :
         (failedAt[c] >= at /\ at <= now) => failedAt'[c] >= at
  BY <1>1 DEF TypeOK
<1>5. ASSUME NEW c \in Containers, NEW s, NEW results, NEW at \in Nat,
             at <= now, Accounted(c, s, results, at)
      PROVE  Accounted(c, s, results, at)'
  BY <1>4, <1>5 DEF Accounted
<1>6. PendingInv'
  <2> SUFFICES ASSUME NEW q \in Runs, pc'[q] = "put"
               PROVE  /\ out'[q] \in [results : [arg[q].script -> Status],
                                      at : Nat]
                      /\ out'[q].at <= now /\ now <= out'[q].at + MaxLag
                      /\ Accounted(arg[q].container, arg[q].script,
                                   out[q].results, out[q].at)'
    BY DEF PendingInv
  <2>1. CASE q = r
    BY <2>1, <1>2, ProbeCacheAssumption DEF TypeOK
  <2>2. CASE q # r
    <3>1. pc[q] = "put" /\ out'[q] = out[q]
      BY <2>2 DEF TypeOK
    <3>2. /\ out[q] \in [results : [arg[q].script -> Status], at : Nat]
          /\ out[q].at <= now /\ now <= out[q].at + MaxLag
          /\ Accounted(arg[q].container, arg[q].script,
                       out[q].results, out[q].at)
      BY <3>1 DEF PendingInv
    <3>3. arg[q].container \in Containers
      BY KeyTyped
    <3>4. \A t \in arg[q].script :
            ~(out[q].results[t] # "-" <=> t \in tools[arg[q].container]) =>
              \/ since[arg[q].container][t] >= out[q].at
              \/ out[q].results[t] = "-"
                   /\ failedAt'[arg[q].container] >= out[q].at
      BY <3>2, <3>3, <1>4 DEF Accounted
    <3> QED
      BY <3>1, <3>2, <3>4 DEF Accounted
  <2> QED BY <2>1, <2>2
<1>7. StoreInv'
  <2> SUFFICES ASSUME NEW c \in Containers, NEW s \in Scripts,
                      store[<<c, s>>] # None
               PROVE  LET e == store[<<c, s>>] IN
                        /\ e.at <= now /\ e.resolved <= e.at + MaxLag
                        /\ e.payload # Garbage =>
                             /\ e.payload \in [s -> Status]
                             /\ Accounted(c, s, e.payload, e.at)'
    BY DEF StoreInv, EntryInv, Accounted
  <2>1. store[<<c, s>>].at \in Nat
    BY DEF TypeOK, Keys
  <2> QED BY <2>1, <1>4 DEF StoreInv, EntryInv, Accounted
<1>8. ServedInv'
  BY DEF ServedInv, TypeOK
<1> QED
  BY <1>3, <1>6, <1>7, <1>8

LEMMA ExecStep ==
  ASSUME IInv, NEW r \in Runs, Exec(r)
  PROVE  IInv'
<1> DEFINE c == arg[r].container
           s == arg[r].script
<1>1. c \in Containers /\ s \in Scripts
  BY KeyTyped DEF IInv
<1>2. Parsed(s, tools[c]) = Parsed(s, s \cap tools[c])
  BY DEF Parsed
<1>3. Accounted(c, s, Parsed(s, tools[c]), now)
  BY <1>1, <1>2, FreshlyAccounted DEF IInv
<1>4. Accounted(c, s, Parsed(s, tools[c]), now)'
  BY <1>3 DEF Exec, world, Accounted, Parsed
<1> QED
  BY <1>4, ParsedStep DEF Exec, world

LEMMA ExecFailsStep ==
  ASSUME IInv, NEW r \in Runs, ExecFails(r)
  PROVE  IInv'
<1> DEFINE c == arg[r].container
           s == arg[r].script
<1>1. c \in Containers /\ s \in Scripts
  BY KeyTyped DEF IInv
<1>2. PICK part \in SUBSET (s \cap tools[c]) :
        out' = [out EXCEPT ![r] = [results |-> Parsed(s, part), at |-> now]]
  BY DEF ExecFails
<1>3. failedAt' = [failedAt EXCEPT ![c] = now] /\ now' = now
  BY DEF ExecFails
<1>4. Accounted(c, s, Parsed(s, part), now)'
  BY <1>1, <1>3 DEF ExecFails, Accounted, Parsed, IInv, TypeOK
<1> QED
  BY <1>2, <1>3, <1>4, ParsedStep DEF ExecFails

LEMMA ReturnStep ==
  ASSUME IInv, NEW r \in Runs, Put(r) \/ PutFails(r)
  PROVE  IInv'
<1> USE DEF IInv, world
<1> DEFINE c == arg[r].container
           s == arg[r].script
           new == [payload |-> out[r].results, at |-> out[r].at,
                   resolved |-> now]
<1>1. /\ c \in Containers /\ s \in Scripts
      /\ out[r] \in [results : [s -> Status], at : Nat]
      /\ out[r].at <= now /\ now <= out[r].at + MaxLag
      /\ Accounted(c, s, out[r].results, out[r].at)
  BY KeyTyped DEF Put, PutFails, PendingInv
<1>2. out[r].results \in Results
  BY <1>1 DEF Results
<1>3. /\ UNCHANGED <<now, tools, since, failedAt, arg, out>>
      /\ served' = [served EXCEPT ![r] = out[r].results]
      /\ pc' = [pc EXCEPT ![r] = "done"]
  BY DEF Put, PutFails, Return
<1>4. store' = store \/ store' = [store EXCEPT ![<<c, s>>] = new]
  BY DEF Put, PutFails, Key
<1>5. new \in [payload : Results \cup {Garbage}, at : Nat, resolved : Nat]
  BY <1>1, <1>2 DEF TypeOK
<1>6. TypeOK'
  <2>1. store' \in [Keys -> [payload : Results \cup {Garbage}, at : Nat,
                            resolved : Nat] \cup {None}]
    BY <1>4, <1>5 DEF TypeOK
  <2>2. served' \in [Runs -> Results \cup {None}]
    BY <1>2, <1>3 DEF TypeOK
  <2> QED
    BY <1>3, <2>1, <2>2 DEF TypeOK
<1>7. PendingInv'
  BY <1>3, Frame DEF TypeOK
<1>8. StoreInv'
  <2> SUFFICES ASSUME NEW d \in Containers, NEW x \in Scripts,
                      store'[<<d, x>>] # None
               PROVE  EntryInv(d, x, store[<<d, x>>])'
    BY DEF StoreInv
  <2>1. CASE store'[<<d, x>>] = store[<<d, x>>]
    <3>1. EntryInv(d, x, store[<<d, x>>])
      BY <2>1 DEF StoreInv
    <3> QED
      BY <2>1, <3>1, <1>3 DEF EntryInv, Accounted
  <2>2. CASE store'[<<d, x>>] # store[<<d, x>>]
    <3>1. d = c /\ x = s /\ store'[<<d, x>>] = new
      BY <2>2, <1>1, <1>4 DEF TypeOK, Keys
    <3>2. EntryInv(c, s, new)
      BY <1>1 DEF EntryInv, TypeOK
    <3> QED
      BY <3>1, <3>2, <1>3 DEF EntryInv, Accounted
  <2> QED
    BY <2>1, <2>2
<1>9. ServedInv'
  BY <1>1, <1>3 DEF ServedInv, TypeOK
<1> QED
  BY <1>6, <1>7, <1>8, <1>9

LEMMA ChangeStep ==
  ASSUME IInv, NEW c \in Containers, Change(c)
  PROVE  IInv'
<1> USE DEF IInv
<1>1. PICK S \in SUBSET Tools :
        /\ tools' = [tools EXCEPT ![c] = S]
        /\ since' = [since EXCEPT ![c] =
             [t \in Tools |-> IF (t \in S) = (t \in tools[c])
                              THEN since[c][t] ELSE now]]
        /\ UNCHANGED <<now, failedAt, store, pc, arg, out, served>>
  BY DEF Change
<1>2. TypeOK'
  BY <1>1 DEF TypeOK
<1>3. ASSUME NEW d \in Containers, NEW t \in Tools, NEW at \in Nat, at <= now
      PROVE  /\ since[d][t] >= at => since'[d][t] >= at
             /\ ~(t \in tools[d] <=> t \in tools'[d]) => since'[d][t] >= at
  BY <1>1, <1>3 DEF TypeOK
<1>4. PendingInv'
  <2> SUFFICES ASSUME NEW q \in Runs, pc[q] = "put"
               PROVE  Accounted(arg[q].container, arg[q].script,
                                out[q].results, out[q].at)'
    BY <1>1 DEF PendingInv
  <2>1. /\ arg[q].container \in Containers /\ arg[q].script \subseteq Tools
        /\ out[q].results \in [arg[q].script -> Status]
        /\ out[q].at \in Nat /\ out[q].at <= now
        /\ Accounted(arg[q].container, arg[q].script,
                     out[q].results, out[q].at)
    BY KeyTyped, ProbeCacheAssumption DEF PendingInv
  <2> QED BY <1>1, <1>3, <2>1 DEF Accounted
<1>5. StoreInv'
  <2> SUFFICES ASSUME NEW d \in Containers, NEW s \in Scripts,
                      store[<<d, s>>] # None,
                      store[<<d, s>>].payload # Garbage
               PROVE  Accounted(d, s, store[<<d, s>>].payload,
                                store[<<d, s>>].at)'
    BY <1>1 DEF StoreInv, EntryInv
  <2>1. /\ s \subseteq Tools
        /\ store[<<d, s>>].at \in Nat /\ store[<<d, s>>].at <= now
        /\ store[<<d, s>>].payload \in [s -> Status]
        /\ Accounted(d, s, store[<<d, s>>].payload, store[<<d, s>>].at)
    BY ProbeCacheAssumption DEF StoreInv, EntryInv, TypeOK, Keys
  <2> QED BY <1>1, <1>3, <2>1 DEF Accounted
<1>6. ServedInv'
  BY <1>1 DEF ServedInv
<1> QED
  BY <1>2, <1>4, <1>5, <1>6

LEMMA DamageStep ==
  ASSUME IInv, NEW k \in Keys, Damage(k)
  PROVE  IInv'
<1> USE DEF IInv, Damage, world
<1>1. TypeOK'
  BY DEF TypeOK
<1>2. PendingInv' /\ ServedInv'
  BY DEF PendingInv, ServedInv, Accounted
<1>3. StoreInv'
  <2> SUFFICES ASSUME NEW d \in Containers, NEW x \in Scripts,
                      store'[<<d, x>>] # None
               PROVE  EntryInv(d, x, store[<<d, x>>])'
    BY DEF StoreInv
  <2> DEFINE e == store[<<d, x>>]
  <2>1. <<d, x>> \in Keys
    BY DEF Keys
  <2>2. CASE k = <<d, x>>
    <3>1. e # None /\ e \in [payload : Results \cup {Garbage}, at : Nat,
                             resolved : Nat]
      BY <2>1, <2>2 DEF TypeOK
    <3>2. store'[<<d, x>>] = [e EXCEPT !.payload = Garbage]
      BY <2>1, <2>2 DEF TypeOK
    <3>3. e.at <= now /\ e.resolved <= e.at + MaxLag
      BY <3>1 DEF StoreInv, EntryInv
    <3> QED
      BY <3>1, <3>2, <3>3 DEF EntryInv
  <2>3. CASE k # <<d, x>>
    <3>1. store'[<<d, x>>] = e
      BY <2>1, <2>3 DEF TypeOK
    <3>2. EntryInv(d, x, e)
      BY <3>1 DEF StoreInv
    <3> QED
      BY <3>1, <3>2 DEF EntryInv, Accounted
  <2> QED
    BY <2>2, <2>3
<1> QED
  BY <1>1, <1>2, <1>3

LEMMA TickStep ==
  ASSUME IInv, Tick
  PROVE  IInv'
<1> USE DEF IInv, Tick, world
<1>1. TypeOK'
  BY DEF TypeOK
<1>2. PendingInv'
  BY ProbeCacheAssumption DEF PendingInv, Accounted, TypeOK
<1>3. StoreInv'
  <2> SUFFICES ASSUME NEW d \in Containers, NEW x \in Scripts,
                      store[<<d, x>>] # None
               PROVE  EntryInv(d, x, store[<<d, x>>])'
    BY DEF StoreInv
  <2>1. <<d, x>> \in Keys
    BY DEF Keys
  <2>2. store[<<d, x>>].at \in Nat
    BY <2>1 DEF TypeOK
  <2>3. EntryInv(d, x, store[<<d, x>>])
    BY DEF StoreInv
  <2>4. store[<<d, x>>].at <= now'
    BY <2>2, <2>3 DEF EntryInv, TypeOK
  <2> QED
    BY <2>3, <2>4 DEF EntryInv, Accounted
<1>4. ServedInv'
  BY DEF ServedInv
<1> QED
  BY <1>1, <1>2, <1>3, <1>4

LEMMA StepInv == IInv /\ [Next]_vars => IInv'
<1> SUFFICES ASSUME IInv, [Next]_vars PROVE IInv'
  OBVIOUS
<1>1. ASSUME NEW r \in Runs, Run(r) PROVE IInv'
  BY <1>1, NoProbesStep, HitStep, MissStep, ExecStep, ExecFailsStep, ReturnStep DEF Run
<1>2. CASE Host
  BY <1>2, ChangeStep, DamageStep, TickStep DEF Host
<1>3. CASE UNCHANGED vars
  <2> USE <1>3 DEF vars, world, IInv
  <2>1. TypeOK' /\ ServedInv'
    BY DEF TypeOK, ServedInv
  <2>2. PendingInv' /\ StoreInv'
    BY Frame
  <2> QED
    BY <2>1, <2>2
<1> QED
  BY <1>1, <1>2, <1>3 DEF Next

-----------------------------------------------------------------------------
(* Theorems.                                                               *)

LEMMA Invariance == Spec => []IInv
BY InitialInv, StepInv, PTL DEF Spec

\* The store, the results on their way and the ones returned are well-typed:
\* no damaged payload is ever returned.
THEOREM TypeCorrect == Spec => []TypeOK
BY Invariance, PTL DEF IInv

\* A call answers the probes it was asked to run, no others.
THEOREM AnswersItsProbes == Spec => []RepliesToItsProbes
<1>1. IInv => RepliesToItsProbes
  BY DEF IInv, ServedInv, RepliesToItsProbes
<1> QED
  BY <1>1, Invariance, PTL

\* Results a call returns looked at the container not long ago.
LEMMA ReturnedAreRecent ==
  ASSUME IInv, NEW r \in Runs, Run(r), Returns(r)
  PROVE  \E at \in Nat :
           /\ now <= at + TTL + MaxLag
           /\ served'[r] \in [arg[r].script -> Status]
           /\ Accounted(arg[r].container, arg[r].script, served'[r], at)
<1> USE DEF IInv
<1>1. arg[r].container \in Containers /\ arg[r].script \in Scripts
  BY KeyTyped
<1>2. CASE Hit(r)
  <2>1. /\ Entry(r) = store[<<arg[r].container, arg[r].script>>]
        /\ Entry(r) # None /\ Entry(r).payload # Garbage
        /\ now < Entry(r).resolved + TTL
        /\ served'[r] = Entry(r).payload
    BY <1>2 DEF Hit, Entry, Key, Usable, Fresh, TypeOK
  <2>2. /\ Entry(r).at \in Nat /\ Entry(r).resolved \in Nat
        /\ Entry(r).resolved <= Entry(r).at + MaxLag
        /\ Entry(r).payload \in [arg[r].script -> Status]
        /\ Accounted(arg[r].container, arg[r].script,
                     Entry(r).payload, Entry(r).at)
    BY <1>1, <2>1, KeyTyped DEF StoreInv, EntryInv
  <2>3. now <= Entry(r).at + TTL + MaxLag
    BY <2>1, <2>2, ProbeCacheAssumption DEF TypeOK
  <2> QED
    BY <2>1, <2>2, <2>3
<1>3. CASE Put(r) \/ PutFails(r)
  <2>1. pc[r] = "put" /\ served'[r] = out[r].results
    BY <1>3 DEF Put, PutFails, Return, TypeOK
  <2>2. /\ out[r] \in [results : [arg[r].script -> Status], at : Nat]
        /\ now <= out[r].at + MaxLag
        /\ Accounted(arg[r].container, arg[r].script,
                     out[r].results, out[r].at)
    BY <2>1 DEF PendingInv
  <2>3. now <= out[r].at + TTL + MaxLag
    BY <2>2, ProbeCacheAssumption DEF TypeOK
  <2> QED
    BY <2>1, <2>2, <2>3
<1>4. CASE Miss(r) \/ Exec(r) \/ ExecFails(r)
  BY <1>4 DEF Miss, Exec, ExecFails, Returns, TypeOK
<1>5. CASE NoProbes(r)
  <2>1. arg[r].script = {} /\ served'[r] \in [{} -> Status] /\ now \in Nat
    BY <1>5 DEF NoProbes, TypeOK
  <2>2. now <= now + TTL + MaxLag
    BY <2>1, ProbeCacheAssumption
  <2>3. Accounted(arg[r].container, arg[r].script, served'[r], now)
    BY <2>1 DEF Accounted
  <2> QED
    BY <2>1, <2>2, <2>3
<1> QED
  BY <1>2, <1>3, <1>4, <1>5 DEF Run

LEMMA OnlyRunsReturn ==
  ASSUME TypeOK, [Next]_vars, NEW r \in Runs, Returns(r)
  PROVE  Run(r)
<1>1. ASSUME NEW q \in Runs, q # r, Run(q) PROVE pc'[r] = pc[r]
  BY <1>1 DEF Run, NoProbes, Hit, Miss, Exec, ExecFails, Put, PutFails, Return, TypeOK
<1>2. ASSUME Host \/ UNCHANGED vars PROVE pc' = pc
  BY <1>2 DEF Host, Tick, Change, Damage, vars
<1> QED
  BY <1>1, <1>2 DEF Next, Returns

\* A crash shows within the TTL and the time a result takes to be stored.
THEOREM CrashesAreSeen == Spec => CrashSeen
<1>1. ASSUME IInv, [Next]_vars, NEW r \in Runs, Returns(r),
             NEW t \in arg[r].script, Wrong(r, t), Shows(r, t)
      PROVE  ChangedIn(r, t, TTL + MaxLag)
  <2>1. Run(r)
    BY <1>1, OnlyRunsReturn DEF IInv
  <2>2. PICK at \in Nat :
           /\ now <= at + TTL + MaxLag
           /\ served'[r] \in [arg[r].script -> Status]
           /\ Accounted(arg[r].container, arg[r].script, served'[r], at)
    BY <1>1, <2>1, ReturnedAreRecent
  <2>3. since[arg[r].container][t] >= at
    BY <1>1, <2>2 DEF Accounted, Wrong, Shows
  <2>4. since[arg[r].container][t] \in Nat
    BY <1>1, KeyTyped, ProbeCacheAssumption DEF IInv, TypeOK
  <2> QED
    BY <1>1, <2>2, <2>3, <2>4, ProbeCacheAssumption
       DEF ChangedIn, IInv, TypeOK
<1>2. IInv /\ [Next]_vars => CrashSeenIn(TTL + MaxLag)
  BY <1>1 DEF CrashSeenIn
<1> QED
  BY <1>2, Invariance, PTL DEF Spec, CrashSeen

\* A failed exec hides a tool that is there for no longer than that either.
THEOREM FailuresAreForgotten == Spec => FailureForgotten
<1>1. ASSUME IInv, [Next]_vars, NEW r \in Runs, Returns(r),
             NEW t \in arg[r].script, Wrong(r, t), ~Shows(r, t)
      PROVE  \/ ChangedIn(r, t, TTL + MaxLag)
             \/ now <= failedAt[arg[r].container] + (TTL + MaxLag)
  <2>1. Run(r)
    BY <1>1, OnlyRunsReturn DEF IInv
  <2>2. PICK at \in Nat :
           /\ now <= at + TTL + MaxLag
           /\ served'[r] \in [arg[r].script -> Status]
           /\ Accounted(arg[r].container, arg[r].script, served'[r], at)
    BY <1>1, <2>1, ReturnedAreRecent
  <2>3. \/ since[arg[r].container][t] >= at
        \/ failedAt[arg[r].container] >= at
    BY <1>1, <2>2 DEF Accounted, Wrong, Shows
  <2>4. /\ since[arg[r].container][t] \in Nat
        /\ failedAt[arg[r].container] \in Nat
    BY <1>1, KeyTyped, ProbeCacheAssumption DEF IInv, TypeOK
  <2> QED
    BY <1>1, <2>2, <2>3, <2>4, ProbeCacheAssumption
       DEF ChangedIn, IInv, TypeOK
<1>2. IInv /\ [Next]_vars => FailureForgottenIn(TTL + MaxLag)
  <2> SUFFICES ASSUME IInv, [Next]_vars, NEW r \in Runs, Returns(r),
                      NEW t \in arg[r].script, Wrong(r, t), ~Shows(r, t)
               PROVE  \/ ChangedIn(r, t, TTL + MaxLag)
                      \/ now <= failedAt[arg[r].container] + (TTL + MaxLag)
    BY DEF FailureForgottenIn
  <2> QED
    BY <1>1
<1> QED
  BY <1>2, Invariance, PTL DEF Spec, FailureForgotten

-----------------------------------------------------------------------------
(* What the cache holds.                                                   *)

\* CachedIsAvailability but for failed execs: a cached result that misses a
\* tool which was there all along is of an exec that failed, or an exec into
\* the same container has failed since.
CachedButForFailures ==
  \A c \in Containers, s \in Scripts :
    LET e == store[Key(c, s)] IN
      (e # None /\ e.payload # Garbage) =>
        \A t \in s : (t \in tools[c] /\ since[c][t] < e.at /\ failedAt[c] < e.at)
                      => e.payload[t] # "-"

\* What the cache holds is the containers' tool availability as long as execs
\* succeed: dropped errors are the only thing that makes it less.
THEOREM CachedOfSuccess == Spec => []CachedButForFailures
<1>1. IInv => CachedButForFailures
  <2> SUFFICES ASSUME IInv, NEW c \in Containers, NEW s \in Scripts,
                      store[<<c, s>>] # None, store[<<c, s>>].payload # Garbage,
                      NEW t \in s, t \in tools[c], since[c][t] < store[<<c, s>>].at,
                      failedAt[c] < store[<<c, s>>].at
               PROVE  store[<<c, s>>].payload[t] # "-"
    BY DEF CachedButForFailures, Key
  <2>1. Accounted(c, s, store[<<c, s>>].payload, store[<<c, s>>].at)
    BY DEF IInv, StoreInv, EntryInv
  <2>2. <<c, s>> \in Keys /\ t \in Tools
    BY ProbeCacheAssumption DEF Keys
  <2>3. /\ store[<<c, s>>].at \in Nat
        /\ since[c][t] \in Nat /\ failedAt[c] \in Nat
    BY <2>2 DEF IInv, TypeOK
  <2> QED
    BY <2>1, <2>3 DEF Accounted
<1> QED
  BY <1>1, Invariance, PTL
=============================================================================
