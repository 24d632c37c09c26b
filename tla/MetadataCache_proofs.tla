---- MODULE MetadataCache_proofs ----
(***************************************************************************)
(* Safety of the metadata caches for any number of threads, versions and   *)
(* lookups.                                                                *)
(***************************************************************************)
EXTENDS MetadataCache, FiniteSetTheorems, TLAPS

\* The mutex is held by whoever is past it.
LockHeld == \A t \in Threads : Holding(t) => lock = t

Publishing(t) == pc[t] \in {"rcu", "swap"}

\* The object about to be published is the last one parsed of its version.
MineIsNewest ==
    \A t \in Threads : Publishing(t) => mine[t] = loads[want[t]] /\ mine[t] >= 1

\* Why the second look suffices: a version that has been parsed is in the map
\* or on its way there, and the thread that parses has seen it absent while
\* holding the mutex.
ParsedIsPublished ==
    /\ \A v \in Versions : loads[v] <= 1 /\ dict[v] <= loads[v]
    /\ \A v \in Versions : loads[v] # 0 =>
          dict[v] # Absent \/ \E t \in Threads : Publishing(t) /\ want[t] = v
    /\ \A t \in Threads : pc[t] = "load" => dict[want[t]] = Absent

CacheInv ==
    /\ TypeOK
    /\ LockHeld
    /\ MineIsNewest
    /\ DoubleCheck => ParsedIsPublished

\* The invariant holds when Orchestrator::new has filled the map.
LEMMA CacheInit == Init => CacheInv
<1> SUFFICES ASSUME Init PROVE CacheInv
  OBVIOUS
<1>1. TypeOK
  BY CacheAssumption DEF Init, TypeOK, Maps, Absent, Steps
<1>2. LockHeld /\ MineIsNewest
  BY DEF Init, LockHeld, MineIsNewest, Holding, Publishing
<1>3. ParsedIsPublished
  <2>1. \A v \in Versions : loads[v] \in {0, 1} /\ dict[v] = loads[v]
    BY DEF Init, Absent
  <2>2. \A t \in Threads : pc[t] = "idle"
    BY DEF Init
  <2>3. \A v \in Versions : loads[v] <= 1 /\ dict[v] <= loads[v]
    BY <2>1
  <2> QED
    BY <2>1, <2>2, <2>3 DEF ParsedIsPublished, Absent
<1> QED
  BY <1>1, <1>2, <1>3 DEF CacheInv

\* The types alone.
LEMMA CacheType == TypeOK /\ [Next]_vars => TypeOK'
<1> SUFFICES ASSUME TypeOK, [Next]_vars PROVE TypeOK'
  OBVIOUS
<1> USE DEF TypeOK, Maps, Steps, Goto, Absent
<1>1. CASE Export
  BY <1>1 DEF Export
<1>2. CASE \E t \in Threads : Call(t)
  BY <1>2 DEF Call
<1>3. CASE \E t \in Threads : FastHit(t) \/ FastMiss(t) \/ Acquire(t)
  BY <1>3 DEF FastHit, FastMiss, Acquire
<1>4. CASE \E t \in Threads : RecheckHit(t) \/ RecheckMiss(t)
  BY <1>4 DEF RecheckHit, RecheckMiss
<1>5. CASE \E t \in Threads : LoadFails(t)
  BY <1>5 DEF LoadFails
<1>6. ASSUME NEW t \in Threads, LoadFromFile(t) PROVE TypeOK'
  <2>1. loads' \in [Versions -> Nat] /\ loads'[want[t]] \in Nat
    BY <1>6 DEF LoadFromFile
  <2> QED
    BY <1>6, <2>1 DEF LoadFromFile
<1>7. CASE \E t \in Threads : RcuRead(t)
  BY <1>7 DEF RcuRead
<1>8. ASSUME NEW t \in Threads, RcuSwap(t) PROVE TypeOK'
  <2>1. snap[t] \in [Versions -> Nat] /\ mine[t] \in Nat
    OBVIOUS
  <2>2. [snap[t] EXCEPT ![want[t]] = mine[t]] \in [Versions -> Nat]
    BY <2>1
  <2>3. dict' \in [Versions -> Nat]
    BY <1>8, <2>2 DEF RcuSwap, Inserted
  <2> QED
    BY <1>8, <2>3 DEF RcuSwap
<1>9. CASE UNCHANGED vars
  BY <1>9 DEF vars
<1> QED
  BY <1>1, <1>2, <1>3, <1>4, <1>5, <1>6, <1>7, <1>8, <1>9 DEF Next, Lookup

\* Mutual exclusion and the freshness of the object to be published.
LEMMA CacheLock ==
    TypeOK /\ LockHeld /\ MineIsNewest /\ [Next]_vars
      => LockHeld' /\ MineIsNewest'
<1> SUFFICES ASSUME TypeOK, LockHeld, MineIsNewest, [Next]_vars
             PROVE  LockHeld' /\ MineIsNewest'
  OBVIOUS
<1> USE CacheAssumption
        DEF TypeOK, Maps, Steps, Goto, LockHeld, MineIsNewest, Holding, Publishing
<1>1. CASE Export
  BY <1>1 DEF Export
<1>2. CASE \E t \in Threads : Call(t)
  BY <1>2 DEF Call
<1>3. CASE \E t \in Threads : FastHit(t) \/ FastMiss(t)
  BY <1>3 DEF FastHit, FastMiss
<1>4. CASE \E t \in Threads : Acquire(t)
  BY <1>4 DEF Acquire
<1>5. CASE \E t \in Threads : RecheckHit(t) \/ RecheckMiss(t)
  BY <1>5 DEF RecheckHit, RecheckMiss
<1>6. CASE \E t \in Threads : LoadFromFile(t)
  BY <1>6 DEF LoadFromFile
<1>7. CASE \E t \in Threads : LoadFails(t)
  BY <1>7 DEF LoadFails
<1>8. CASE \E t \in Threads : RcuRead(t)
  BY <1>8 DEF RcuRead
<1>9. CASE \E t \in Threads : RcuSwap(t)
  BY <1>9 DEF RcuSwap
<1>10. CASE UNCHANGED vars
  BY <1>10 DEF vars
<1> QED
  BY <1>1, <1>2, <1>3, <1>4, <1>5, <1>6, <1>7, <1>8, <1>9, <1>10
  DEF Next, Lookup

\* With the second look, no version is parsed twice.
LEMMA CacheOnce ==
    CacheInv /\ DoubleCheck /\ [Next]_vars => ParsedIsPublished'
<1> SUFFICES ASSUME CacheInv, DoubleCheck, [Next]_vars
             PROVE  ParsedIsPublished'
  OBVIOUS
<1> USE CacheAssumption
        DEF CacheInv, TypeOK, Maps, Steps, Goto, Absent, Holding, Publishing
<1>1. CASE Export
  BY <1>1 DEF Export, ParsedIsPublished
<1>2. CASE \E t \in Threads : Call(t)
  BY <1>2 DEF Call, ParsedIsPublished
<1>3. CASE \E t \in Threads : FastHit(t) \/ FastMiss(t)
  BY <1>3 DEF FastHit, FastMiss, ParsedIsPublished
<1>4. CASE \E t \in Threads : Acquire(t)
  BY <1>4 DEF Acquire, ParsedIsPublished
<1>5. CASE \E t \in Threads : RecheckHit(t) \/ RecheckMiss(t)
  BY <1>5 DEF RecheckHit, RecheckMiss, ParsedIsPublished
<1>6. ASSUME NEW t \in Threads, LoadFromFile(t) PROVE ParsedIsPublished'
  <2> DEFINE v == want[t]
  <2>1. v \in Versions /\ dict[v] = 0
    BY <1>6 DEF LoadFromFile, ParsedIsPublished
  <2>2. loads[v] = 0
    <3>1. \A s \in Threads : Holding(s) => s = t
      BY <1>6 DEF LoadFromFile, LockHeld
    <3>2. ~ \E s \in Threads : Publishing(s) /\ want[s] = v
      BY <3>1, <1>6 DEF LoadFromFile
    <3> QED
      BY <3>2, <2>1 DEF ParsedIsPublished
  <2>3. loads' = [loads EXCEPT ![v] = 1] /\ dict' = dict /\ want' = want
    BY <1>6, <2>2 DEF LoadFromFile
  <2>4. pc' = [pc EXCEPT ![t] = "rcu"]
    BY <1>6 DEF LoadFromFile
  <2>5. (\A w \in Versions : loads[w] <= 1 /\ dict[w] <= loads[w])'
    BY <2>1, <2>3 DEF ParsedIsPublished
  <2>6. (\A w \in Versions : loads[w] # 0 =>
           dict[w] # 0 \/ \E s \in Threads : Publishing(s) /\ want[s] = w)'
    BY <1>6, <2>1, <2>3, <2>4 DEF ParsedIsPublished, LoadFromFile
  <2>7. (\A s \in Threads : pc[s] = "load" => dict[want[s]] = 0)'
    BY <2>3, <2>4 DEF ParsedIsPublished
  <2> QED
    BY <2>5, <2>6, <2>7 DEF ParsedIsPublished
<1>7. CASE \E t \in Threads : LoadFails(t)
  BY <1>7 DEF LoadFails, ParsedIsPublished
<1>8. CASE \E t \in Threads : RcuRead(t)
  BY <1>8 DEF RcuRead, ParsedIsPublished
<1>9. ASSUME NEW t \in Threads, RcuSwap(t) PROVE ParsedIsPublished'
  <2>1. CASE dict # snap[t]
    BY <1>9, <2>1 DEF RcuSwap, ParsedIsPublished
  <2>2. CASE dict = snap[t]
    <3>1. dict' = [dict EXCEPT ![want[t]] = loads[want[t]]] /\ loads' = loads
      BY <1>9, <2>2 DEF RcuSwap, Inserted, MineIsNewest
    <3>2. want' = want /\ pc' = [pc EXCEPT ![t] = "idle"] /\ loads[want[t]] >= 1
      BY <1>9, <2>2 DEF RcuSwap, MineIsNewest
    <3>3. (\A w \in Versions : loads[w] <= 1 /\ dict[w] <= loads[w])'
      BY <3>1, <3>2 DEF ParsedIsPublished
    <3>4. (\A w \in Versions : loads[w] # 0 =>
             dict[w] # 0 \/ \E s \in Threads : Publishing(s) /\ want[s] = w)'
      BY <3>1, <3>2 DEF ParsedIsPublished
    <3>5. (\A s \in Threads : pc[s] = "load" => dict[want[s]] = 0)'
      <4>1. \A s \in Threads : pc[s] # "load"
        BY <1>9 DEF RcuSwap, LockHeld
      <4> QED
        BY <4>1, <3>2
    <3> QED
      BY <3>3, <3>4, <3>5 DEF ParsedIsPublished
  <2> QED
    BY <2>1, <2>2
<1>10. CASE UNCHANGED vars
  BY <1>10 DEF vars, ParsedIsPublished
<1> QED
  BY <1>1, <1>2, <1>3, <1>4, <1>5, <1>6, <1>7, <1>8, <1>9, <1>10
  DEF Next, Lookup

\* The strengthened invariant is inductive.
THEOREM CacheInvariant == Spec => []CacheInv
<1>1. CacheInv /\ [Next]_vars => CacheInv'
  <2> SUFFICES ASSUME CacheInv, [Next]_vars PROVE CacheInv'
    OBVIOUS
  <2>1. DoubleCheck => ParsedIsPublished'
    BY CacheOnce
  <2>2. cache' = cache
    BY DEF Next, Lookup, vars, Export, Call, FastHit, FastMiss, Acquire,
       RecheckHit, RecheckMiss, LoadFromFile, LoadFails, RcuRead, RcuSwap
  <2>3. TypeOK' /\ LockHeld' /\ MineIsNewest'
    BY CacheType, CacheLock DEF CacheInv
  <2> QED
    BY <2>1, <2>2, <2>3 DEF CacheInv, DoubleCheck
<1> QED
  BY <1>1, CacheInit, PTL DEF Spec

\* The types alone, of every state.
THEOREM CacheTypeCorrect == Spec => []TypeOK
<1>1. CacheInv => TypeOK
  BY DEF CacheInv
<1> QED
  BY <1>1, CacheInvariant, PTL

\* At most one thread is between the mutex and its release.
THEOREM MutualExclusion == Spec => []OneLoader
<1>1. CacheInv => OneLoader
  BY DEF CacheInv, LockHeld, OneLoader
<1> QED
  BY <1>1, CacheInvariant, PTL

\* The ranker's cache parses each version's file at most once, for any number
\* of threads.
THEOREM ParsedAtMostOnce == Spec => []LoadedOnce
<1>1. CacheInv => LoadedOnce
  BY DEF CacheInv, ParsedIsPublished, LoadedOnce
<1> QED
  BY <1>1, CacheInvariant, PTL

\* Neither cache loses an entry.
THEOREM NothingForgotten == Spec => NeverForgets
<1>1. CacheInv /\ [Next]_vars
        => [\A v \in Versions : dict[v] # Absent => dict'[v] # Absent]_vars
  <2> SUFFICES ASSUME CacheInv, Next, NEW v \in Versions, dict[v] # Absent
               PROVE  dict'[v] # Absent
    OBVIOUS
  <2>1. CASE UNCHANGED dict
    BY <2>1
  <2>2. ASSUME NEW t \in Threads, RcuSwap(t) PROVE dict'[v] # Absent
    BY <2>2 DEF RcuSwap, Inserted, CacheInv, TypeOK, Maps, Absent,
                MineIsNewest, Publishing
  <2> QED
    BY <2>1, <2>2 DEF Next, Lookup, Export, Call, FastHit, FastMiss, Acquire,
       RecheckHit, RecheckMiss, LoadFromFile, LoadFails, RcuRead
<1> QED
  BY <1>1, CacheInvariant, PTL DEF Spec, NeverForgets

\* The ranker's cache never replaces an entry.
THEOREM NothingReplaced == Spec => EntriesStable
<1>1. CacheInv /\ [Next]_vars
        => [DoubleCheck => \A v \in Versions :
              dict[v] # Absent => dict'[v] = dict[v]]_vars
  <2> SUFFICES ASSUME CacheInv, Next, DoubleCheck,
                      NEW v \in Versions, dict[v] # Absent
               PROVE  dict'[v] = dict[v]
    OBVIOUS
  <2>1. CASE UNCHANGED dict
    BY <2>1
  <2>2. ASSUME NEW t \in Threads, RcuSwap(t) PROVE dict'[v] = dict[v]
    <3>1. dict[v] = 1 /\ loads[v] = 1
      <4>1. ParsedIsPublished
        BY DEF CacheInv
      <4>2. dict[v] \in Nat /\ loads[v] \in Nat
        BY DEF CacheInv, TypeOK, Maps
      <4> QED
        BY <4>1, <4>2 DEF Absent, ParsedIsPublished
    <3>2. CASE want[t] = v
      <4>1. mine[t] = 1
        BY <2>2, <3>1, <3>2
        DEF RcuSwap, CacheInv, MineIsNewest, Publishing
      <4> QED
        BY <2>2, <3>1, <3>2, <4>1 DEF RcuSwap, Inserted, CacheInv, TypeOK, Maps
    <3>3. CASE want[t] # v
      BY <2>2, <3>3 DEF RcuSwap, Inserted, CacheInv, TypeOK, Maps
    <3> QED
      BY <3>2, <3>3
  <2> QED
    BY <2>1, <2>2 DEF Next, Lookup, Export, Call, FastHit, FastMiss, Acquire,
       RecheckHit, RecheckMiss, LoadFromFile, LoadFails, RcuRead
<1> QED
  BY <1>1, CacheInvariant, PTL DEF Spec, EntriesStable
-----------------------------------------------------------------------------
\* Thread t has missed v and not parsed it yet.
Missing(t, v) == want[t] = v /\ pc[t] \in {"acquire", "recheck", "load"}

\* Who can have parsed v so far, one file each: threads that will not miss it
\* again, because it is in the map or they are about to put it there.
Parsers(v, p) ==
    /\ p \subseteq Threads /\ Cardinality(p) = loads[v]
    /\ \A t \in p : ~ Missing(t, v)
    /\ \A t \in p : dict[v] # Absent \/ (Publishing(t) /\ want[t] = v)

EachParsesOnce == \A v \in Versions \ Preloaded : \E p : Parsers(v, p)

\* The files a thread parses are counted where LoadFromFile parses one, and
\* nowhere else does a thread come to miss a version it has parsed.
LEMMA ParsersStep ==
  ASSUME CacheInv, [Next]_vars, EachParsesOnce
  PROVE  EachParsesOnce'
<1> SUFFICES ASSUME NEW v \in Versions \ Preloaded, NEW p, Parsers(v, p)
             PROVE  \E q : Parsers(v, q)'
  BY DEF EachParsesOnce
<1> USE DEF Parsers, Missing, Publishing, Goto, CacheInv, TypeOK, Maps, Steps
<1>1. CASE Export
  BY <1>1 DEF Export
<1>2. ASSUME NEW t \in Threads, Call(t) PROVE Parsers(v, p)'
  BY <1>2 DEF Call
<1>3. ASSUME NEW t \in Threads, FastHit(t) PROVE Parsers(v, p)'
  BY <1>3 DEF FastHit
<1>4. ASSUME NEW t \in Threads, FastMiss(t) PROVE Parsers(v, p)'
  BY <1>4 DEF FastMiss
<1>5. ASSUME NEW t \in Threads, Acquire(t) PROVE Parsers(v, p)'
  BY <1>5 DEF Acquire
<1>6. ASSUME NEW t \in Threads, RecheckHit(t) PROVE Parsers(v, p)'
  BY <1>6 DEF RecheckHit
<1>7. ASSUME NEW t \in Threads, RecheckMiss(t) PROVE Parsers(v, p)'
  BY <1>7 DEF RecheckMiss
<1>8. ASSUME NEW t \in Threads, LoadFails(t) PROVE Parsers(v, p)'
  BY <1>8 DEF LoadFails
<1>9. ASSUME NEW t \in Threads, RcuRead(t) PROVE Parsers(v, p)'
  BY <1>9 DEF RcuRead
<1>10. ASSUME NEW t \in Threads, RcuSwap(t) PROVE Parsers(v, p)'
  <2>1. dict'[v] # Absent \/ dict'[v] = dict[v]
    BY <1>10 DEF RcuSwap, Inserted, MineIsNewest, Absent
  <2>2. dict'[v] # Absent \/ want[t] # v \/ pc'[t] = "rcu"
    BY <1>10 DEF RcuSwap, Inserted, MineIsNewest, Absent
  <2>3. /\ \A s \in Threads \ {t} : pc'[s] = pc[s]
        /\ pc'[t] \in {"idle", "rcu"} /\ pc[t] = "swap"
        /\ want' = want /\ loads' = loads
    BY <1>10 DEF RcuSwap
  <2> QED
    BY <2>1, <2>2, <2>3
<1>11. ASSUME NEW t \in Threads, LoadFromFile(t) PROVE \E q : Parsers(v, q)'
  <2>1. CASE want[t] # v
    BY <1>11, <2>1 DEF LoadFromFile
  <2>2. CASE want[t] = v
    <3>1. t \notin p /\ IsFiniteSet(p)
      BY <1>11, <2>2, CacheAssumption, FS_Subset DEF LoadFromFile
    <3>2. Cardinality(p \cup {t}) = loads[v] + 1
      <4>1. Cardinality(p \cup {t}) = Cardinality(p) + 1
        BY <3>1, FS_AddElement
      <4> QED
        BY <4>1
    <3>3. loads'[v] = loads[v] + 1 /\ dict' = dict /\ want' = want
      BY <1>11, <2>2 DEF LoadFromFile
    <3>4. /\ pc'[t] = "rcu" /\ \A s \in Threads \ {t} : pc'[s] = pc[s]
      BY <1>11 DEF LoadFromFile
    <3>5. Parsers(v, p \cup {t})'
      BY <2>2, <3>2, <3>3, <3>4
    <3> QED
      BY <3>5
  <2> QED
    BY <2>1, <2>2
<1>12. CASE UNCHANGED vars
  BY <1>12 DEF vars
<1> QED
  BY <1>1, <1>2, <1>3, <1>4, <1>5, <1>6, <1>7, <1>8, <1>9, <1>10, <1>11, <1>12
  DEF Next, Lookup

\* In either cache, for any number of threads, a thread parses the file of a
\* version at most once.
THEOREM ParsedOncePerThread == Spec => []LoadedOncePerThread
<1>1. Init => EachParsesOnce
  <2> SUFFICES ASSUME Init, NEW v \in Versions \ Preloaded PROVE \E p : Parsers(v, p)
    BY DEF EachParsesOnce
  <2>1. Parsers(v, {})
    BY FS_EmptySet DEF Parsers, Init, Absent
  <2> QED
    BY <2>1
<1>2. CacheInv /\ EachParsesOnce => LoadedOncePerThread
  <2> SUFFICES ASSUME CacheInv, NEW v \in Versions \ Preloaded, NEW p, Parsers(v, p)
               PROVE  loads[v] <= Cardinality(Threads)
    BY DEF EachParsesOnce, LoadedOncePerThread
  <2> QED
    BY CacheAssumption, FS_Subset DEF Parsers
<1>3. CacheInv /\ EachParsesOnce /\ [Next]_vars => EachParsesOnce'
  BY ParsersStep
<1> QED
  BY <1>1, <1>2, <1>3, CacheInvariant, PTL DEF Spec

\* Both bounds on what is read from disk.
THEOREM ReadsAreBounded == Spec => []ReadsBounded
BY ParsedAtMostOnce, ParsedOncePerThread, PTL DEF ReadsBounded

\* Both promises about what is published.
THEOREM EntriesAreKept == Spec => EntriesKept
BY NothingForgotten, NothingReplaced DEF EntriesKept

====
