---- MODULE MetadataCache ----
(***************************************************************************)
(* The orchestrator's two caches of model metadata (orchestrator.rs):      *)
(* get_or_fetch_query_metadata and get_or_fetch_ranker_metadata.  A lookup *)
(* reads the map without a lock; on a miss it takes a mutex, reads the     *)
(* metadata file of the version and inserts the parsed object into a copy  *)
(* of the map, which ArcSwap::rcu publishes by compare-and-swap.  The two  *)
(* functions differ in one thing only: the ranker's looks into the map     *)
(* again once it holds the mutex (DoubleCheck), the query's does not.      *)
(*                                                                         *)
(* Abstracted: the parsed contents.  An object is known by the order in    *)
(* which the objects of its version were parsed: 1, 2, ...                 *)
(***************************************************************************)
EXTENDS Naturals, FiniteSets

CONSTANTS
    Threads,      \* the workers that serve requests
    NoThread,     \* the mutex is free
    Versions,     \* model version numbers a lookup may ask for
    Preloaded,    \* versions Orchestrator::new put into the map (version 1)
    MaxCalls      \* bound: lookups each thread makes

ASSUME CacheAssumption ==
    /\ NoThread \notin Threads /\ IsFiniteSet(Threads)
    /\ Preloaded \subseteq Versions
    /\ MaxCalls \in Nat

Absent == 0
Maps == [Versions -> Nat]

VARIABLES
    cache,     \* which of the two this is: "query" or "ranker"
    dict,      \* the published map: the object of each version, or Absent
    exported,  \* versions whose metadata file is on disk
    lock,      \* the thread that holds the write mutex
    pc,        \* what each thread is about to do
    want,      \* the version its lookup is for
    snap,      \* the map rcu read
    mine,      \* the object the lookup has found or parsed
    calls,     \* lookups started
    loads      \* files of each version parsed so far

vars == <<cache, dict, exported, lock, pc, want, snap, mine, calls, loads>>

Steps == {"idle", "lookup", "acquire", "recheck", "load", "rcu", "swap"}
DoubleCheck == cache = "ranker"
Holding(t) == pc[t] \in {"recheck", "load", "rcu", "swap"}

Init ==
    /\ cache \in {"query", "ranker"}
    /\ dict = [v \in Versions |-> IF v \in Preloaded THEN 1 ELSE Absent]
    /\ exported \in {e \in SUBSET Versions : Preloaded \subseteq e}
    /\ lock = NoThread
    /\ pc = [t \in Threads |-> "idle"]
    /\ want \in [Threads -> Versions]
    /\ snap = [t \in Threads |-> dict]
    /\ mine = [t \in Threads |-> Absent]
    /\ calls = [t \in Threads |-> 0]
    /\ loads = dict

Goto(t, step) == pc' = [pc EXCEPT ![t] = step]
\* Mutant: the copy starts empty.
InsertedAlone(map, v, object) ==
    [w \in Versions |-> IF w = v THEN object ELSE Absent]

Inserted(map, v, object) == [map EXCEPT ![v] = object]

\* The version asked for is resolved once, before the map is read.
Call(t) ==
    /\ pc[t] = "idle" /\ calls[t] < MaxCalls
    /\ \E v \in Versions : want' = [want EXCEPT ![t] = v]
    /\ calls' = [calls EXCEPT ![t] = @ + 1]
    /\ Goto(t, "lookup")
    /\ UNCHANGED <<cache, dict, exported, lock, snap, mine, loads>>

FastHit(t) ==
    /\ pc[t] = "lookup" /\ dict[want[t]] # Absent
    /\ mine' = [mine EXCEPT ![t] = dict[want[t]]]
    /\ Goto(t, "idle")
    /\ UNCHANGED <<cache, dict, exported, lock, want, snap, calls, loads>>

FastMiss(t) ==
    /\ pc[t] = "lookup" /\ dict[want[t]] = Absent
    /\ Goto(t, "acquire")
    /\ UNCHANGED <<cache, dict, exported, lock, want, snap, mine, calls, loads>>

\* Mutant: the mutex is not waited for.
AcquireUnlocked(t) ==
    /\ pc[t] = "acquire"
    /\ lock' = t
    /\ Goto(t, IF DoubleCheck THEN "recheck" ELSE "load")
    /\ UNCHANGED <<cache, dict, exported, want, snap, mine, calls, loads>>

\* Mutant: the map is not looked into again.
AcquireWithoutRecheck(t) ==
    /\ pc[t] = "acquire" /\ lock = NoThread
    /\ lock' = t
    /\ Goto(t, "load")
    /\ UNCHANGED <<cache, dict, exported, want, snap, mine, calls, loads>>

Acquire(t) ==
    /\ pc[t] = "acquire" /\ lock = NoThread
    /\ lock' = t
    /\ Goto(t, IF DoubleCheck THEN "recheck" ELSE "load")
    /\ UNCHANGED <<cache, dict, exported, want, snap, mine, calls, loads>>

RecheckHit(t) ==
    /\ pc[t] = "recheck" /\ dict[want[t]] # Absent
    /\ mine' = [mine EXCEPT ![t] = dict[want[t]]]
    /\ lock' = NoThread
    /\ Goto(t, "idle")
    /\ UNCHANGED <<cache, dict, exported, want, snap, calls, loads>>

RecheckMiss(t) ==
    /\ pc[t] = "recheck" /\ dict[want[t]] = Absent
    /\ Goto(t, "load")
    /\ UNCHANGED <<cache, dict, exported, lock, want, snap, mine, calls, loads>>

LoadFromFile(t) ==
    /\ pc[t] = "load" /\ want[t] \in exported
    /\ loads' = [loads EXCEPT ![want[t]] = @ + 1]
    /\ mine' = [mine EXCEPT ![t] = loads'[want[t]]]
    /\ Goto(t, "rcu")
    /\ UNCHANGED <<cache, dict, exported, lock, want, snap, calls>>

\* Mutant: the early return keeps the mutex.
LoadFailsHoldingLock(t) ==
    /\ pc[t] = "load" /\ want[t] \notin exported
    /\ mine' = [mine EXCEPT ![t] = Absent]
    /\ Goto(t, "idle")
    /\ UNCHANGED <<cache, dict, exported, lock, want, snap, calls, loads>>

\* `?` returns the error; the guard is dropped with the scope.
LoadFails(t) ==
    /\ pc[t] = "load" /\ want[t] \notin exported
    /\ mine' = [mine EXCEPT ![t] = Absent]
    /\ lock' = NoThread
    /\ Goto(t, "idle")
    /\ UNCHANGED <<cache, dict, exported, want, snap, calls, loads>>

RcuRead(t) ==
    /\ pc[t] = "rcu"
    /\ snap' = [snap EXCEPT ![t] = dict]
    /\ Goto(t, "swap")
    /\ UNCHANGED <<cache, dict, exported, lock, want, mine, calls, loads>>

\* rcu tries again when the map is no longer the one it copied.
RcuSwap(t) ==
    /\ pc[t] = "swap"
    /\ IF dict = snap[t]
       THEN /\ dict' = Inserted(snap[t], want[t], mine[t])
            /\ lock' = NoThread
            /\ Goto(t, "idle")
       ELSE /\ Goto(t, "rcu")
            /\ UNCHANGED <<dict, lock>>
    /\ UNCHANGED <<cache, exported, want, snap, mine, calls, loads>>

\* The export pipeline publishes one more version.
Export ==
    /\ \E v \in Versions \ exported : exported' = exported \cup {v}
    /\ UNCHANGED <<cache, dict, lock, pc, want, snap, mine, calls, loads>>

Lookup(t) ==
    \/ FastHit(t) \/ FastMiss(t) \/ Acquire(t)
    \/ RecheckHit(t) \/ RecheckMiss(t)
    \/ LoadFromFile(t) \/ LoadFails(t)
    \/ RcuRead(t) \/ RcuSwap(t)

Next == Export \/ \E t \in Threads : Call(t) \/ Lookup(t)

\* A worker that is inside a lookup keeps running; nobody has to start one.
Fairness == \A t \in Threads : WF_vars(Lookup(t))

Spec == Init /\ [][Next]_vars /\ Fairness

-----------------------------------------------------------------------------
TypeOK ==
    /\ cache \in {"query", "ranker"}
    /\ dict \in Maps /\ loads \in Maps
    /\ exported \subseteq Versions
    /\ lock \in Threads \cup {NoThread}
    /\ pc \in [Threads -> Steps]
    /\ want \in [Threads -> Versions]
    /\ snap \in [Threads -> Maps]
    /\ mine \in [Threads -> Nat]
    /\ calls \in [Threads -> Nat]

\* "Only one thread gets past this line at a time" (orchestrator.rs:207):
\* the file read and the publication are never done by two threads at once.
OneLoader == \A s, t \in Threads : Holding(s) /\ Holding(t) => s = t

\* With the second look into the map a version's file is read once in the
\* life of the server, whatever the interleaving of the lookups that miss.
LoadedOnce == DoubleCheck => \A v \in Versions : loads[v] <= 1

\* Without it a version's file is read at most once by each thread: a thread
\* that has inserted a version never misses it again.
LoadedOncePerThread ==
    \A v \in Versions \ Preloaded : loads[v] <= Cardinality(Threads)

\* What a lookup that misses costs, in either cache.
ReadsBounded == LoadedOnce /\ LoadedOncePerThread

\* No concurrent insertion is lost: a version once in the map stays there
\* ("ensuring we don't accidentally overwrite someone else's concurrent
\* insertion", orchestrator.rs:285).
NeverForgets ==
    [][\A v \in Versions : dict[v] # Absent => dict'[v] # Absent]_vars

\* In the ranker's cache an entry is never replaced, so every request that is
\* told about a version is told by the same object.
EntriesStable ==
    [][DoubleCheck =>
         \A v \in Versions : dict[v] # Absent => dict'[v] = dict[v]]_vars

\* What is in the published map stays in it.
EntriesKept == NeverForgets /\ EntriesStable

\* Every lookup ends: with the metadata, or with an error that leaves the
\* mutex free for the next one.
LookupsReturn == \A t \in Threads : (pc[t] # "idle") ~> (pc[t] = "idle")

====
