---- MODULE Orchestrator_proofs ----
(***************************************************************************)
(* Theorems about Orchestrator, for any number of requests, users, model   *)
(* versions with their batch sizes and numbers of candidates, and          *)
(* generations of the embeddings.                                          *)
(***************************************************************************)
EXTENDS Orchestrator, SequenceTheorems, TLAPS

-----------------------------------------------------------------------------
(* Chunks: cutting the candidates of n users by what each of them brought   *)
(* gives one chunk for each user.                                           *)

LEMMA QuotientUnique ==
  ASSUME NEW c \in Nat \ {0}, NEW q \in Nat, NEW t \in 0 .. c - 1
  PROVE  (c * q + t) \div c = q
  OBVIOUS

LEMMA ProductDivided ==
  ASSUME NEW n \in Nat, NEW c \in Nat \ {0}
  PROVE  n * c \in Nat /\ (n * c) \div c = n
  OBVIOUS

LEMMA ProductGrows ==
  ASSUME NEW m \in Nat, NEW n \in Nat, m <= n, NEW c \in Nat
  PROVE  m * c <= n * c /\ m * c \in Nat /\ n * c \in Nat
<1>1. PICK d \in Nat : n = m + d
  <2>1. n - m \in Nat /\ n = m + (n - m)
    OBVIOUS
  <2> QED BY <2>1
<1>2. (m + d) * c = m * c + d * c /\ d * c \in Nat /\ m * c \in Nat
  OBVIOUS
<1> QED BY <1>1, <1>2

(* The positions of one user's candidates in the list of all.              *)
LEMMA PositionsOfUser ==
  ASSUME NEW n \in Nat, NEW c \in Nat \ {0}, NEW b \in 1 .. n,
         NEW p \in ((b - 1) * c + 1) .. (b * c)
  PROVE  p \in 1 .. (n * c) /\ (p - 1) \div c = b - 1
<1> DEFINE a == b - 1
           t == p - 1 - a * c
<1>1. a \in Nat /\ b \in Nat /\ b <= n /\ b = a + 1
  OBVIOUS
<1>2. a * c \in Nat /\ b * c = a * c + c /\ p \in (a * c + 1) .. (b * c)
  BY <1>1
<1>3. b * c <= n * c /\ n * c \in Nat
  BY <1>1, ProductGrows
<1>4. t \in 0 .. c - 1 /\ p - 1 = c * a + t
  <2>1. c * a = a * c
    BY <1>1
  <2> HIDE DEF a
  <2> QED BY <1>2, <2>1
<1>5. (c * a + t) \div c = a
  <2> HIDE DEF a, t
  <2> QED BY <1>1, <1>4, QuotientUnique
<1>6. p \in 1 .. (n * c)
  <2> HIDE DEF a
  <2> QED BY <1>2, <1>3
<1> QED BY <1>4, <1>5, <1>6

(* One chunk for each user, of its candidates alone.                       *)
LEMMA ChunkPerUser ==
  ASSUME NEW lo \in Nat, NEW hi \in Nat, lo <= hi, NEW c \in Nat \ {0}
  PROVE  /\ CandidatesOf(lo, hi, c) \in Seq(Nat)
         /\ FullChunks(CandidatesOf(lo, hi, c), c) = [b \in 1 .. hi - lo |-> {lo + b}]
<1> DEFINE n == hi - lo
           m == n * c
           cands == [p \in 1 .. m |-> lo + 1 + ((p - 1) \div c)]
<1>1. n \in Nat /\ m \in Nat /\ m \div c = n
  BY ProductDivided
<1>2. \A p \in 1 .. m : (p - 1) \div c \in Nat
  <2> HIDE DEF m
  <2> TAKE p \in 1 .. m
  <2> DEFINE x == p - 1
  <2>1. x \in Nat
    BY <1>1
  <2> HIDE DEF x
  <2>2. x \div c \in Nat
    BY <2>1
  <2> QED BY <2>2 DEF x
<1>3. cands \in Seq(Nat) /\ Len(cands) = m
  <2>1. \A p \in 1 .. m : lo + 1 + ((p - 1) \div c) \in Nat
    BY <1>2
  <2> HIDE DEF m
  <2> QED BY <1>1, <2>1
<1>4. ASSUME NEW b \in 1 .. n
      PROVE  {cands[p] : p \in ((b - 1) * c + 1) .. (b * c)} = {lo + b}
  <2>1. ASSUME NEW p \in ((b - 1) * c + 1) .. (b * c)
        PROVE  cands[p] = lo + b
    <3>1. p \in 1 .. m /\ (p - 1) \div c = b - 1
      BY <1>1, <2>1, PositionsOfUser
    <3>2. cands[p] = lo + 1 + (b - 1)
      <4>1. cands[p] = lo + 1 + ((p - 1) \div c)
        BY <3>1
      <4> QED BY <3>1, <4>1
    <3>3. b \in Nat
      BY <1>1
    <3> HIDE DEF cands
    <3> QED BY <3>2, <3>3
  <2>2. b * c \in ((b - 1) * c + 1) .. (b * c)
    <3>1. (b - 1) * c \in Nat /\ b * c = (b - 1) * c + c
      BY <1>1
    <3> QED BY <3>1
  <2> HIDE DEF cands
  <2> QED BY <2>1, <2>2
<1>5. CandidatesOf(lo, hi, c) = cands
  BY DEF CandidatesOf
<1>6. FullChunks(cands, c) = [b \in 1 .. n |-> {cands[p] : p \in ((b - 1) * c + 1) .. (b * c)}]
  BY <1>1, <1>3 DEF FullChunks
<1> HIDE DEF cands
<1>7. FullChunks(cands, c) = [b \in 1 .. n |-> {lo + b}]
  BY <1>4, <1>6, Zenon
<1> QED BY <1>3, <1>5, <1>7

(* The lists of users 1 .. n, and adding those of the next ones.           *)
Answered(n) == [i \in 1 .. n |-> {i}]

LEMMA AnsweredGrows ==
  ASSUME NEW lo \in Nat, NEW hi \in Nat, lo <= hi
  PROVE  Answered(lo) \o [b \in 1 .. hi - lo |-> {lo + b}] = Answered(hi)
<1> DEFINE n == hi - lo
           s == Answered(lo)
           t == [b \in 1 .. n |-> {lo + b}]
           u == Answered(hi)
<1>1. n \in Nat /\ lo + n = hi
  OBVIOUS
<1>2. /\ s \in Seq(SUBSET Nat) /\ Len(s) = lo /\ \A i \in 1 .. lo : s[i] = {i}
      /\ u \in Seq(SUBSET Nat) /\ Len(u) = hi /\ \A i \in 1 .. hi : u[i] = {i}
  BY DEF Answered
<1>3. /\ t \in Seq(SUBSET Nat) /\ Len(t) = n /\ \A b \in 1 .. n : t[b] = {lo + b}
  <2> HIDE DEF n
  <2> QED BY <1>1
<1> HIDE DEF s, t, u, n
<1>4. /\ s \o t \in Seq(SUBSET Nat) /\ Len(s \o t) = lo + n
      /\ \A i \in 1 .. lo + n : (s \o t)[i] = IF i <= lo THEN s[i] ELSE t[i - lo]
  <2>1. s \in Seq(SUBSET Nat) /\ t \in Seq(SUBSET Nat) /\ Len(s) = lo /\ Len(t) = n
    BY <1>2, <1>3
  <2>2. /\ s \o t \in Seq(SUBSET Nat) /\ Len(s \o t) = Len(s) + Len(t)
        /\ \A i \in 1 .. Len(s) + Len(t) :
             (s \o t)[i] = IF i <= Len(s) THEN s[i] ELSE t[i - Len(s)]
    BY <2>1, ConcatProperties, Zenon
  <2> QED BY <2>1, <2>2, Zenon
<1> DEFINE v == s \o t
<1>5. /\ v \in Seq(SUBSET Nat) /\ Len(v) = hi
      /\ \A i \in 1 .. hi : v[i] = IF i <= lo THEN s[i] ELSE t[i - lo]
  BY <1>1, <1>4
<1> HIDE DEF v
<1>6. \A i \in 1 .. hi : v[i] = {i}
  <2> TAKE i \in 1 .. hi
  <2>1. CASE i <= lo
    BY <1>2, <1>5, <2>1
  <2>2. CASE i > lo
    <3>1. i - lo \in 1 .. n /\ v[i] = t[i - lo] /\ lo + (i - lo) = i
      BY <1>1, <1>5, <2>2
    <3> QED BY <1>3, <3>1
  <2>3. i <= lo \/ i > lo
    OBVIOUS
  <2> QED BY <2>1, <2>2, <2>3, Zenon
<1>7. v = u
  <2>1. Len(v) = Len(u) /\ \A i \in 1 .. Len(v) : v[i] = u[i]
    BY <1>2, <1>5, <1>6
  <2> QED BY <1>2, <1>5, <2>1, SeqEqual
<1> QED BY <1>7 DEF s, t, u, n, v

LEMMA WholeSubSeq ==
  ASSUME NEW S, NEW n \in Nat, NEW s \in Seq(S), Len(s) = n
  PROVE  SubSeq(s, 1, n) = s
  OBVIOUS
-----------------------------------------------------------------------------
(* The inductive invariant.                                                *)

Pcs == {"new", "ann", "embed", "search", "load", "open", "graph", "rank", "topk",
        "done", "failed", "panicked"}

Reasons == {"", "batch", "metadata", "users", "embedding", "search", "ranking"}

Progress ==
    [pc : Pcs, lo : Nat, hi : Nat, batch : Nat, k : Nat, cands : Seq(Nat),
     index : Generations, catalog : Generations, scored : Nat,
     answer : Seq(SUBSET Nat), seen : SUBSET Versions, lost : {0} \cup Versions,
     why : Reasons]

TypeOK ==
    /\ newest \in Pairs /\ stored \in Pairs
    /\ updater \in [Updaters -> [pc : {"idle", "storeQuery", "storeRanker"}, pair : Pairs]]
    /\ embeddings \in Generations /\ indexFile \in Generations
    /\ searcher \in Searchers /\ reload \subseteq Searchers
    /\ cached \subseteq Versions
    /\ ask \in [Requests -> Asks] /\ req \in [Requests -> Progress]

(* Every searcher opened restores the one persisted index, which no catalog *)
(* is older than.                                                           *)
Fresh(s) == s.index = indexFile /\ indexFile <= s.catalog

SearcherInv ==
    /\ indexFile <= embeddings
    /\ Fresh(searcher) /\ \A s \in reload : Fresh(s)

Chunked(a) == a.kind \in {"predict", "diagnostic"}

(* OneShape, of what was asked and the versions seen.                      *)
Shape(a, seen) ==
    /\ \A v, w \in seen : NumCandidates[v] = NumCandidates[w]
    /\ a.k # 0 /\ Chunked(a) =>
         \A v \in seen : BatchSize[v] = a.users => NumCandidates[v] = a.k

(* A chunk of predict or predict_diagnostic: the users it stands for, and   *)
(* where its number of candidates came from.                                *)
ScoredOf(q) == \E w \in q.seen : q.scored = NumCandidates[w]

ChunkInv(a, q) ==
    /\ q.pc # "new" /\ q.pc \in Pcs \ {"done", "failed", "panicked"} =>
         /\ q.lo <= q.hi /\ q.hi <= a.users /\ q.hi - q.lo <= q.batch
         /\ q.k # 0 => q.k = a.k /\ \E w \in q.seen : BatchSize[w] = a.users
         /\ Shape(a, q.seen) => q.answer = Answered(q.lo)
    /\ q.pc \in {"load", "open", "graph", "rank", "topk"} =>
         \E c \in Nat \ {0} :
            /\ q.cands = CandidatesOf(q.lo, q.hi, c)
            /\ IF q.k # 0 THEN c = q.k ELSE \E w \in q.seen : c = NumCandidates[w]
    /\ q.pc \in {"rank", "topk"} => ScoredOf(q)

RequestInv(a, q, file) ==
    /\ q.pc = "new" => q.lo = 0 /\ q.answer = <<>>
    /\ Chunked(a) => ChunkInv(a, q)
    /\ a.kind = "ann" =>
         /\ q.pc \in {"new", "ann", "embed", "search", "done", "failed"}
         /\ q.pc \in {"ann", "embed", "search"} => q.lo = 0 /\ q.hi = a.users
    /\ a.kind = "ranks_only" =>
         /\ q.pc \in {"new", "embed", "load", "open", "graph", "rank", "done", "failed"}
         /\ q.pc \in {"embed", "load", "open", "graph", "rank"} =>
              q.cands = CandidatesOf(0, a.users, a.k)
    /\ Chunked(a) =>
         /\ q.pc \in {"embed", "search", "load", "open", "graph"} => q.index = file
         /\ q.pc = "graph" => file <= q.catalog
    /\ a.kind = "diagnostic" /\ q.pc \in {"open", "graph"} => ScoredOf(q)
    /\ q.why = "batch" =>
         /\ q.pc = "failed"
         /\ a.kind # "ranks_only" => \E v \in q.seen : BatchSize[v] < q.batch
    /\ CatalogNeverShrinks /\ q.pc = "panicked" =>
         a.kind = "diagnostic" /\ ~ Shape(a, q.seen)
    /\ q.pc = "done" /\ Shape(a, q.seen) => q.answer = Answered(a.users)

IInv ==
    /\ TypeOK /\ SearcherInv
    /\ \A r \in Requests : RequestInv(ask[r], req[r], indexFile)

-----------------------------------------------------------------------------
(* Types.                                                                  *)

LEMMA FullChunksType ==
  ASSUME NEW cands \in Seq(Nat), NEW c \in Nat \ {0}
  PROVE  FullChunks(cands, c) \in Seq(SUBSET Nat)
<1> DEFINE l == Len(cands)
           n == l \div c
           t == l % c
<1>1. l \in Nat /\ \A p \in 1 .. l : cands[p] \in Nat
  OBVIOUS
<1>2. n \in Nat /\ t \in 0 .. c - 1 /\ l = c * n + t
  <2> HIDE DEF l
  <2> QED BY <1>1
<1> HIDE DEF l, n, t
<1>3. ASSUME NEW b \in 1 .. n, NEW p \in ((b - 1) * c + 1) .. (b * c)
      PROVE  p \in 1 .. l
  <2>1. p \in 1 .. (n * c)
    BY <1>2, PositionsOfUser
  <2>2. n * c = c * n /\ n * c \in Nat
    BY <1>2
  <2> QED BY <1>1, <1>2, <2>1, <2>2
<1>4. \A b \in 1 .. n : {cands[p] : p \in ((b - 1) * c + 1) .. (b * c)} \in SUBSET Nat
  BY <1>1, <1>3
<1>5. FullChunks(cands, c) = [b \in 1 .. n |-> {cands[p] : p \in ((b - 1) * c + 1) .. (b * c)}]
  BY DEF FullChunks, n, l
<1>6. FullChunks(cands, c) \in [1 .. n -> SUBSET Nat]
  BY <1>4, <1>5, Zenon
<1> QED BY <1>2, <1>6, SeqDef

LEMMA AskTypes ==
  ASSUME TypeOK, NEW r \in Requests
  PROVE  /\ ask[r] \in Asks /\ req[r] \in Progress
         /\ ask[r].kind \in Kinds /\ ask[r].users \in Nat \ {0} /\ ask[r].k \in Nat
         /\ ask[r].kind = "ranks_only" => ask[r].k # 0
         /\ RankerVersion(r) \in Versions
<1>1. ask[r] \in Asks /\ req[r] \in Progress /\ stored.ranker \in Versions
  BY DEF TypeOK, Pairs
<1>2. ask[r].kind \in Kinds /\ ask[r].users \in Nat \ {0} /\ ask[r].k \in Nat
      /\ ask[r].pin \in {0} \cup Versions
      /\ (ask[r].kind = "ranks_only" => ask[r].k # 0)
  BY <1>1, OrchestratorAssumption
<1> QED BY <1>1, <1>2 DEF RankerVersion

LEMMA VersionTypes ==
  ASSUME NEW v \in Versions
  PROVE  BatchSize[v] \in Nat \ {0} /\ NumCandidates[v] \in Nat \ {0}
  BY OrchestratorAssumption

LEMMA ProgressTypes ==
  ASSUME NEW q \in Progress
  PROVE  /\ q.pc \in Pcs /\ q.lo \in Nat /\ q.hi \in Nat /\ q.batch \in Nat /\ q.k \in Nat
         /\ q.cands \in Seq(Nat) /\ q.index \in Generations /\ q.catalog \in Generations
         /\ q.scored \in Nat /\ q.answer \in Seq(SUBSET Nat) /\ q.seen \subseteq Versions
         /\ q.lost \in {0} \cup Versions
         /\ q.why \in Reasons
  BY DEF Progress

(* More versions seen leave no more shapes.                                *)
LEMMA ShapeShrinks ==
  ASSUME NEW a, NEW s, NEW t, s \subseteq t, Shape(a, t)
  PROVE  Shape(a, s)
  BY Zenon DEF Shape

LEMMA ShapeIsOneShape ==
  ASSUME NEW r \in Requests
  PROVE  OneShape(r) <=> Shape(ask[r], req[r].seen)
  BY DEF OneShape, Shape, Chunked

-----------------------------------------------------------------------------
(* A step of one request, and steps of the server.                         *)

(* What a step of a request does with the metadata.                        *)
Looks(r) == UNCHANGED cached \/ Fetched(r)

LEMMA RequestMoves ==
  ASSUME IInv, NEW r \in Requests, NEW q \in Progress,
         req' = [req EXCEPT ![r] = q], UNCHANGED serverVars, Looks(r),
         RequestInv(ask[r], q, indexFile)
  PROVE  IInv'
<1>0. cached' \subseteq Versions
  BY AskTypes DEF IInv, TypeOK, Looks, Fetched
<1>1. TypeOK' /\ SearcherInv'
  BY <1>0 DEF IInv, TypeOK, SearcherInv, Fresh, serverVars
<1>2. /\ UNCHANGED <<ask, indexFile>> /\ req' \in [Requests -> Progress]
      /\ req'[r] = q /\ \A s \in Requests : s # r => req'[s] = req[s]
  BY DEF IInv, TypeOK, serverVars
<1>3. ASSUME NEW s \in Requests PROVE RequestInv(ask[s], req'[s], indexFile)
  <2>1. CASE s = r
    BY <1>2, <2>1
  <2>2. CASE s # r
    BY <1>2, <2>2 DEF IInv
  <2> QED BY <2>1, <2>2
<1>4. \A s \in Requests : RequestInv(ask'[s], req'[s], indexFile')
  BY <1>2, <1>3
<1> HIDE DEF RequestInv
<1> QED BY <1>1, <1>4 DEF IInv

LEMMA ServerMoves ==
  ASSUME IInv, TypeOK', SearcherInv', UNCHANGED <<ask, req, indexFile>>
  PROVE  IInv'
<1> HIDE DEF RequestInv
<1> QED BY DEF IInv

LEMMA PlanStep ==
  ASSUME IInv, NEW r \in Requests, Plan(r), ~ MetadataFails(r)
  PROVE  IInv'
<1> DEFINE a == ask[r]
           q == req[r]
           v == RankerVersion(r)
           w == [q EXCEPT !.pc = "ann", !.batch = BatchSize[v], !.seen = @ \cup {v},
                          !.k = IF a.users = BatchSize[v] THEN a.k ELSE 0,
                          !.hi = Least(a.users, BatchSize[v])]
<1>1. /\ a \in Asks /\ q \in Progress /\ Chunked(a) /\ a.users \in Nat \ {0} /\ a.k \in Nat
      /\ v \in Versions /\ BatchSize[v] \in Nat \ {0} /\ q.pc = "new"
      /\ a.kind \in {"predict", "diagnostic"}
      /\ RequestInv(a, q, indexFile)
  BY AskTypes, VersionTypes DEF IInv, Plan, Chunked
<1>2. req' = [req EXCEPT ![r] = w] /\ UNCHANGED serverVars /\ Looks(r)
  BY DEF Plan, IInv, TypeOK, Looks
<1>3. Least(a.users, BatchSize[v]) \in Nat /\ Least(a.users, BatchSize[v]) <= a.users
      /\ Least(a.users, BatchSize[v]) <= BatchSize[v]
  BY <1>1 DEF Least
<1> HIDE DEF v, a, q
<1>4. /\ w \in Progress /\ w.pc = "ann" /\ w.batch = BatchSize[v] /\ w.seen = q.seen \cup {v}
      /\ w.k = (IF a.users = BatchSize[v] THEN a.k ELSE 0)
      /\ w.hi = Least(a.users, BatchSize[v])
      /\ w.lo = q.lo /\ w.answer = q.answer /\ w.why = q.why
  BY <1>1, <1>3 DEF Progress, Pcs
<1> HIDE DEF w
<1>5. q.lo = 0 /\ q.answer = <<>> /\ q.why # "batch"
  BY <1>1 DEF RequestInv
<1>6. ChunkInv(a, w)
  <2>1. w.lo <= w.hi /\ w.hi <= a.users /\ w.hi - w.lo <= w.batch
    BY <1>1, <1>3, <1>4, <1>5
  <2>2. w.k # 0 => w.k = a.k /\ \E u \in w.seen : BatchSize[u] = a.users
    BY <1>4
  <2>3. w.answer = Answered(w.lo)
    BY <1>4, <1>5 DEF Answered
  <2> QED BY <1>4, <2>1, <2>2, <2>3 DEF ChunkInv
<1>7. RequestInv(a, w, indexFile)
  BY <1>1, <1>4, <1>5, <1>6 DEF RequestInv
<1> QED BY <1>2, <1>4, <1>7, RequestMoves DEF a

LEMMA PlanAnnStep ==
  ASSUME IInv, NEW r \in Requests, PlanAnn(r)
  PROVE  IInv'
<1> DEFINE a == ask[r]
           q == req[r]
           w == [q EXCEPT !.pc = "ann", !.k = a.k, !.hi = a.users]
<1>1. /\ a \in Asks /\ q \in Progress /\ a.kind = "ann" /\ ~ Chunked(a)
      /\ a.users \in Nat \ {0} /\ a.k \in Nat /\ q.pc = "new"
      /\ RequestInv(a, q, indexFile)
  BY AskTypes DEF IInv, PlanAnn, Chunked
<1>2. req' = [req EXCEPT ![r] = w] /\ UNCHANGED serverVars /\ Looks(r)
  BY DEF PlanAnn, IInv, TypeOK, Looks
<1> HIDE DEF a, q
<1>3. /\ w \in Progress /\ w.pc = "ann" /\ w.k = a.k /\ w.hi = a.users
      /\ w.lo = q.lo /\ w.why = q.why
  BY <1>1 DEF Progress, Pcs
<1> HIDE DEF w
<1>4. RequestInv(a, w, indexFile)
  BY <1>1, <1>3 DEF RequestInv
<1> QED BY <1>2, <1>3, <1>4, RequestMoves DEF a

(* A step that only moves on, or also loads a searcher.                    *)
LEMMA MoveOn ==
  ASSUME NEW a, NEW q \in Progress, NEW w \in Progress, NEW file,
         RequestInv(a, q, file),
         w.lo = q.lo, w.hi = q.hi, w.batch = q.batch, w.k = q.k, w.cands = q.cands,
         w.scored = q.scored, w.answer = q.answer, w.seen = q.seen, w.why = q.why,
         \/ q.pc = "ann" /\ w.pc = "embed" /\ w.index = file /\ a.kind # "ranks_only"
         \/ q.pc = "embed" /\ w.pc = "search" /\ w.index = q.index /\ a.kind # "ranks_only"
         \/ q.pc = "embed" /\ w.pc = "load" /\ w.index = q.index /\ a.kind = "ranks_only"
         \/ q.pc = "open" /\ w.pc = "graph" /\ w.index = q.index /\ file <= w.catalog
         \/ q.pc = "rank" /\ w.pc = "topk" /\ a.kind # "ranks_only"
  PROVE  RequestInv(a, w, file)
<1>1. Chunked(a) => ChunkInv(a, w)
  BY DEF RequestInv, ChunkInv, Chunked, Pcs, ScoredOf
<1>2. a.kind = "diagnostic" /\ w.pc \in {"open", "graph"} => ScoredOf(w)
  BY DEF RequestInv, ScoredOf
<1> QED BY <1>1, <1>2 DEF RequestInv, Chunked

(* A request that fails for a reason other than its batch.                 *)
LEMMA Fails ==
  ASSUME IInv, NEW r \in Requests, NEW why \in Reasons \ {"batch"},
         NEW lost \in {0} \cup Versions,
         req' = [req EXCEPT ![r].pc = "failed", ![r].why = why, ![r].lost = lost],
         UNCHANGED serverVars, Looks(r)
  PROVE  IInv'
<1> DEFINE a == ask[r]
           q == req[r]
           w == [q EXCEPT !.pc = "failed", !.why = why, !.lost = lost]
<1>1. /\ a \in Asks /\ q \in Progress /\ RequestInv(a, q, indexFile)
  BY AskTypes DEF IInv
<1>2. req' = [req EXCEPT ![r] = w]
  BY DEF IInv, TypeOK
<1> HIDE DEF a, q
<1>3. w \in Progress /\ w.pc = "failed" /\ w.why = why /\ w.seen = q.seen
  BY <1>1 DEF Progress, Pcs, Reasons
<1> HIDE DEF w
<1>4. RequestInv(a, w, indexFile)
  BY <1>1, <1>3 DEF RequestInv, ChunkInv
<1> QED BY <1>2, <1>3, <1>4, RequestMoves DEF a

LEMMA FailsOutside ==
  ASSUME IInv, NEW r \in Requests, NEW why \in {"users", "embedding", "search", "ranking"},
         End(r, "failed", why), UNCHANGED serverVars, Looks(r)
  PROVE  IInv'
<1> DEFINE lost == req[r].lost
<1>1. lost \in {0} \cup Versions /\ why \in Reasons \ {"batch"}
  BY AskTypes, ProgressTypes DEF IInv, Reasons
<1>2. req' = [req EXCEPT ![r].pc = "failed", ![r].why = why, ![r].lost = lost]
  <2>1. req[r] \in Progress
    BY AskTypes DEF IInv
  <2> QED BY <2>1 DEF End, IInv, TypeOK, Progress
<1> HIDE DEF lost
<1> QED BY <1>1, <1>2, Fails

LEMMA FailsForMetadata ==
  ASSUME IInv, NEW r \in Requests, MetadataFails(r), UNCHANGED serverVars
  PROVE  IInv'
<1> DEFINE v == RankerVersion(r)
<1>1. v \in {0} \cup Versions /\ "metadata" \in Reasons \ {"batch"} /\ Looks(r)
  BY AskTypes DEF IInv, Reasons, MetadataFails, Looks
<1>2. req' = [req EXCEPT ![r].pc = "failed", ![r].why = "metadata", ![r].lost = v]
  BY DEF MetadataFails
<1> HIDE DEF v
<1> QED BY <1>1, <1>2, Fails

LEMMA PlanRanksOnlyStep ==
  ASSUME IInv, NEW r \in Requests, PlanRanksOnly(r)
  PROVE  IInv'
<1> DEFINE a == ask[r]
           q == req[r]
           w == [q EXCEPT !.pc = "embed", !.hi = a.users,
                          !.cands = CandidatesOf(0, a.users, a.k)]
<1>1. /\ a \in Asks /\ q \in Progress /\ a.kind = "ranks_only" /\ ~ Chunked(a)
      /\ a.users \in Nat \ {0} /\ a.k \in Nat \ {0} /\ q.pc = "new"
      /\ RequestInv(a, q, indexFile)
  BY AskTypes DEF IInv, PlanRanksOnly, Chunked
<1>0. UNCHANGED serverVars /\ Looks(r)
  BY DEF PlanRanksOnly, Looks
<1>f. CASE End(r, "failed", "users")
  BY <1>0, <1>f, FailsOutside
<1> SUFFICES ASSUME ~ End(r, "failed", "users") PROVE IInv'
  BY <1>f
<1>2. req' = [req EXCEPT ![r] = w]
  BY DEF PlanRanksOnly, IInv, TypeOK
<1> HIDE DEF a, q
<1>3. CandidatesOf(0, a.users, a.k) \in Seq(Nat)
  <2>1. 0 \in Nat /\ a.users \in Nat /\ 0 <= a.users
    BY <1>1
  <2> QED BY <1>1, <2>1, ChunkPerUser
<1>4. /\ w \in Progress /\ w.pc = "embed" /\ w.cands = CandidatesOf(0, a.users, a.k)
      /\ w.why = q.why
  BY <1>1, <1>3 DEF Progress, Pcs
<1> HIDE DEF w
<1>5. RequestInv(a, w, indexFile)
  BY <1>1, <1>4 DEF RequestInv
<1> QED BY <1>0, <1>2, <1>4, <1>5, RequestMoves DEF a

LEMMA AnnLoadStep ==
  ASSUME IInv, NEW r \in Requests, AnnLoad(r)
  PROVE  IInv'
<1> DEFINE a == ask[r]
           q == req[r]
           w == [q EXCEPT !.pc = "embed", !.index = searcher.index]
<1>1. /\ q \in Progress /\ q.pc = "ann" /\ RequestInv(a, q, indexFile)
      /\ searcher.index = indexFile /\ indexFile \in Generations
  BY AskTypes DEF IInv, AnnLoad, TypeOK, SearcherInv, Fresh
<1>2. req' = [req EXCEPT ![r] = w] /\ UNCHANGED serverVars /\ Looks(r)
  BY DEF AnnLoad, IInv, TypeOK, Looks
<1>3. a.kind # "ranks_only"
  BY <1>1 DEF RequestInv
<1> HIDE DEF a, q
<1>4. /\ w \in Progress /\ w.pc = "embed" /\ w.index = indexFile
      /\ w.lo = q.lo /\ w.hi = q.hi /\ w.batch = q.batch /\ w.k = q.k /\ w.cands = q.cands
      /\ w.scored = q.scored /\ w.answer = q.answer /\ w.seen = q.seen /\ w.why = q.why
  BY <1>1 DEF Progress, Pcs
<1> HIDE DEF w
<1>5. RequestInv(a, w, indexFile)
  BY <1>1, <1>3, <1>4, MoveOn
<1> QED BY <1>2, <1>4, <1>5, RequestMoves DEF a

LEMMA EmbeddedStep ==
  ASSUME IInv, NEW r \in Requests, Embedded(r)
  PROVE  IInv'
<1> DEFINE a == ask[r]
           q == req[r]
           w == [q EXCEPT !.pc = IF a.kind = "ranks_only" THEN "load" ELSE "search"]
<1>1. /\ q \in Progress /\ q.pc = "embed" /\ RequestInv(a, q, indexFile)
      /\ UNCHANGED serverVars /\ Looks(r)
  BY AskTypes DEF IInv, Embedded, Looks
<1>2. CASE End(r, "failed", "embedding")
  BY <1>1, <1>2, FailsOutside
<1>3. CASE ~ End(r, "failed", "embedding")
  <2>1. req' = [req EXCEPT ![r] = w]
    BY <1>3 DEF Embedded, IInv, TypeOK
  <2> HIDE DEF a, q
  <2>2. /\ w \in Progress /\ w.index = q.index
        /\ w.pc = (IF a.kind = "ranks_only" THEN "load" ELSE "search")
        /\ w.lo = q.lo /\ w.hi = q.hi /\ w.batch = q.batch /\ w.k = q.k /\ w.cands = q.cands
        /\ w.scored = q.scored /\ w.answer = q.answer /\ w.seen = q.seen /\ w.why = q.why
    BY <1>1 DEF Progress, Pcs
  <2> HIDE DEF w
  <2>3. RequestInv(a, w, indexFile)
    BY <1>1, <2>2, MoveOn
  <2> QED BY <1>1, <2>1, <2>2, <2>3, RequestMoves DEF a
<1> QED BY <1>2, <1>3

LEMMA RankLoadStep ==
  ASSUME IInv, NEW r \in Requests, RankLoad(r)
  PROVE  IInv'
<1> DEFINE a == ask[r]
           q == req[r]
           w == [q EXCEPT !.pc = "graph", !.catalog = searcher.catalog]
<1>1. /\ q \in Progress /\ q.pc = "open" /\ RequestInv(a, q, indexFile)
      /\ searcher.catalog \in Generations /\ indexFile <= searcher.catalog
  BY AskTypes DEF IInv, RankLoad, TypeOK, Searchers, SearcherInv, Fresh
<1>2. req' = [req EXCEPT ![r] = w] /\ UNCHANGED serverVars /\ Looks(r)
  BY DEF RankLoad, IInv, TypeOK, Looks
<1> HIDE DEF a, q
<1>3. /\ w \in Progress /\ w.pc = "graph" /\ w.index = q.index /\ w.catalog = searcher.catalog
      /\ w.lo = q.lo /\ w.hi = q.hi /\ w.batch = q.batch /\ w.k = q.k /\ w.cands = q.cands
      /\ w.scored = q.scored /\ w.answer = q.answer /\ w.seen = q.seen /\ w.why = q.why
  BY <1>1 DEF Progress, Pcs
<1> HIDE DEF w
<1>4. RequestInv(a, w, indexFile)
  BY <1>1, <1>3, MoveOn
<1> QED BY <1>2, <1>3, <1>4, RequestMoves DEF a
(* The list of a user that was searched for.                               *)
LEMMA SearchStep ==
  ASSUME IInv, NEW r \in Requests, Search(r), ~ MetadataFails(r)
  PROVE  IInv'
<1> DEFINE a == ask[r]
           q == req[r]
           v == RankerVersion(r)
           k == IF q.k # 0 THEN q.k ELSE NumCandidates[v]
           found == CandidatesOf(q.lo, q.hi, k)
           x == [q EXCEPT !.pc = "done", !.seen = @ \cup {v}, !.answer = FullChunks(found, k)]
           y == [q EXCEPT !.pc = "load", !.seen = @ \cup {v}, !.cands = found]
<1>1. /\ a \in Asks /\ q \in Progress /\ q.pc = "search" /\ RequestInv(a, q, indexFile)
      /\ v \in Versions /\ NumCandidates[v] \in Nat \ {0} /\ a.kind \in Kinds
      /\ a.users \in Nat \ {0} /\ UNCHANGED serverVars /\ Looks(r)
  BY AskTypes, VersionTypes DEF IInv, Search, Looks
<1>f. CASE End(r, "failed", "search")
  BY <1>1, <1>f, FailsOutside
<1> SUFFICES ASSUME ~ End(r, "failed", "search") PROVE IInv'
  BY <1>f
<1>2. k \in Nat \ {0} /\ q.lo \in Nat /\ q.hi \in Nat /\ q.lo <= q.hi
  <2>1. q.k \in Nat /\ q.lo \in Nat /\ q.hi \in Nat
    BY <1>1, ProgressTypes
  <2>2. Chunked(a) \/ a.kind = "ann"
    BY <1>1 DEF RequestInv, Chunked, Kinds
  <2>3. Chunked(a) => q.lo <= q.hi
    BY <1>1 DEF RequestInv, ChunkInv, Pcs
  <2>4. a.kind = "ann" => q.lo = 0
    BY <1>1 DEF RequestInv
  <2> QED BY <1>1, <2>1, <2>2, <2>3, <2>4
<1>3. /\ found \in Seq(Nat)
      /\ FullChunks(found, k) = [b \in 1 .. q.hi - q.lo |-> {q.lo + b}]
      /\ FullChunks(found, k) \in Seq(SUBSET Nat)
  <2> HIDE DEF k, q
  <2> QED BY <1>2, ChunkPerUser, FullChunksType
<1>4. CASE a.kind = "ann"
  <2>1. req' = [req EXCEPT ![r] = x]
    BY <1>4 DEF Search, IInv, TypeOK
  <2> HIDE DEF a, q, v, k, found
  <2>2. /\ x \in Progress /\ x.pc = "done" /\ x.answer = FullChunks(found, k)
        /\ x.why = q.why
    BY <1>1, <1>3 DEF Progress, Pcs
  <2> HIDE DEF x
  <2>3. x.answer = Answered(a.users)
    <3>1. q.lo = 0 /\ q.hi = a.users
      BY <1>1, <1>4 DEF RequestInv
    <3>2. Answered(a.users) = [b \in 1 .. q.hi - q.lo |-> {q.lo + b}]
      <4>1. q.hi - q.lo = a.users /\ \A b \in 1 .. a.users : q.lo + b = b
        BY <1>1, <3>1
      <4> QED BY <4>1 DEF Answered
    <3> QED BY <1>3, <2>2, <3>2
  <2>4. RequestInv(a, x, indexFile)
    BY <1>1, <1>4, <2>2, <2>3 DEF RequestInv, Chunked
  <2> QED BY <1>1, <2>1, <2>2, <2>4, RequestMoves DEF a
<1>5. CASE a.kind # "ann"
  <2>1. req' = [req EXCEPT ![r] = y]
    BY <1>5 DEF Search, IInv, TypeOK
  <2>2. k = IF q.k # 0 THEN q.k ELSE NumCandidates[v]
    OBVIOUS
  <2>0. found = CandidatesOf(q.lo, q.hi, k)
    OBVIOUS
  <2> HIDE DEF a, q, v, k, found
  <2>3. /\ y \in Progress /\ y.pc = "load" /\ y.cands = found /\ y.seen = q.seen \cup {v}
        /\ y.lo = q.lo /\ y.hi = q.hi /\ y.batch = q.batch /\ y.k = q.k
        /\ y.index = q.index /\ y.answer = q.answer /\ y.why = q.why
    BY <1>1, <1>3 DEF Progress, Pcs
  <2> HIDE DEF y
  <2>4. Chunked(a)
    BY <1>1, <1>5 DEF RequestInv, Chunked, Kinds
  <2>5. ChunkInv(a, q) /\ q.pc = "search"
    BY <1>1, <2>4 DEF RequestInv
  <2>6. Shape(a, y.seen) => y.answer = Answered(y.lo)
    <3>1. Shape(a, y.seen) => Shape(a, q.seen)
      BY <2>3, ShapeShrinks
    <3> QED BY <2>3, <2>5, <3>1 DEF ChunkInv, Pcs
  <2>7. \E c \in Nat \ {0} :
           /\ y.cands = CandidatesOf(y.lo, y.hi, c)
           /\ IF y.k # 0 THEN c = y.k ELSE \E u \in y.seen : c = NumCandidates[u]
    <3>1. IF y.k # 0 THEN k = y.k ELSE \E u \in y.seen : k = NumCandidates[u]
      BY <2>2, <2>3
    <3> QED BY <1>2, <2>0, <2>3, <3>1
  <2>8. /\ y.lo <= y.hi /\ y.hi <= a.users /\ y.hi - y.lo <= y.batch
        /\ y.k # 0 => y.k = a.k /\ \E u \in y.seen : BatchSize[u] = a.users
    BY <2>3, <2>5 DEF ChunkInv, Pcs
  <2>9. ChunkInv(a, y)
    BY <2>3, <2>6, <2>7, <2>8 DEF ChunkInv
  <2>10. RequestInv(a, y, indexFile)
    BY <1>1, <2>3, <2>4, <2>9 DEF RequestInv, Chunked
  <2> QED BY <1>1, <2>1, <2>3, <2>10, RequestMoves DEF a
<1> QED BY <1>4, <1>5

(* The batch is checked: what goes on fits it.                             *)
LEMMA CheckBatchStep ==
  ASSUME IInv, NEW r \in Requests, NEW next \in {"open", "rank", "panicked"},
         CheckBatch(r, next), UNCHANGED serverVars, Looks(r),
         ask[r].kind # "ann",
         next = "open" => req[r].pc = "load" /\ ask[r].kind = "diagnostic",
         next # "open" => req[r].pc = "graph" /\ ask[r].kind # "diagnostic",
         CatalogNeverShrinks \/ ask[r].kind = "ranks_only" => next # "panicked"
  PROVE  IInv'
<1> DEFINE a == ask[r]
           q == req[r]
           v == RankerVersion(r)
           fits == q.hi - q.lo <= BatchSize[v]
           to == IF fits THEN next ELSE "failed"
           why == IF fits THEN "" ELSE "batch"
           w == [q EXCEPT !.seen = @ \cup {v}, !.scored = NumCandidates[v],
                          !.pc = to, !.why = why]
<1>1. /\ a \in Asks /\ q \in Progress /\ RequestInv(a, q, indexFile)
      /\ v \in Versions /\ NumCandidates[v] \in Nat \ {0} /\ BatchSize[v] \in Nat \ {0}
      /\ a.kind \in Kinds
      /\ q.lo \in Nat /\ q.hi \in Nat /\ q.batch \in Nat /\ q.seen \subseteq Versions
  BY AskTypes, VersionTypes, ProgressTypes DEF IInv
<1>2. req' = [req EXCEPT ![r] = w]
  BY DEF CheckBatch, IInv, TypeOK
<1>3. to \in Pcs /\ why \in Reasons /\ q.pc \in {"load", "graph"}
  BY DEF Pcs, Reasons
<1>4. /\ (fits => to = next /\ why = "") /\ (~ fits => to = "failed" /\ why = "batch")
      /\ fits \in BOOLEAN /\ (fits <=> q.hi - q.lo <= BatchSize[v])
      /\ (a.kind # "ann") /\ (next = "open" => q.pc = "load" /\ a.kind = "diagnostic")
      /\ (next # "open" => q.pc = "graph" /\ a.kind # "diagnostic")
      /\ (CatalogNeverShrinks \/ a.kind = "ranks_only" => next # "panicked")
  OBVIOUS
<1> HIDE DEF a, q, v, fits, to, why
<1>5. /\ w \in Progress /\ w.seen = q.seen \cup {v} /\ w.scored = NumCandidates[v]
      /\ w.pc = to /\ w.why = why
      /\ w.lo = q.lo /\ w.hi = q.hi /\ w.batch = q.batch /\ w.k = q.k /\ w.cands = q.cands
      /\ w.index = q.index /\ w.answer = q.answer
  <2>1. q.seen \cup {v} \subseteq Versions /\ NumCandidates[v] \in Nat
    BY <1>1
  <2> QED BY <1>1, <1>3, <2>1 DEF Progress
<1> HIDE DEF w
<1>6. ScoredOf(w)
  BY <1>5 DEF ScoredOf
<1>7. Chunked(a) => ChunkInv(a, w)
  <2> SUFFICES ASSUME Chunked(a) PROVE ChunkInv(a, w)
    OBVIOUS
  <2>1. ChunkInv(a, q)
    BY <1>1 DEF RequestInv
  <2>2. Shape(a, w.seen) => w.answer = Answered(w.lo)
    <3>1. Shape(a, w.seen) => Shape(a, q.seen)
      BY <1>5, ShapeShrinks
    <3> QED BY <1>3, <1>5, <2>1, <3>1 DEF ChunkInv, Pcs
  <2>3. /\ w.lo <= w.hi /\ w.hi <= a.users /\ w.hi - w.lo <= w.batch
        /\ w.k # 0 => w.k = a.k /\ \E u \in w.seen : BatchSize[u] = a.users
    BY <1>3, <1>5, <2>1 DEF ChunkInv, Pcs
  <2>4. \E c \in Nat \ {0} :
           /\ w.cands = CandidatesOf(w.lo, w.hi, c)
           /\ IF w.k # 0 THEN c = w.k ELSE \E u \in w.seen : c = NumCandidates[u]
    BY <1>3, <1>5, <2>1 DEF ChunkInv
  <2> QED BY <1>6, <2>2, <2>3, <2>4 DEF ChunkInv
<1>8. w.why = "batch" => w.pc = "failed"
                         /\ (a.kind # "ranks_only" => \E u \in w.seen : BatchSize[u] < w.batch)
  <2>1. Chunked(a) => q.hi - q.lo <= q.batch
    BY <1>1, <1>3 DEF RequestInv, ChunkInv, Pcs
  <2>2. a.kind # "ranks_only" => Chunked(a)
    BY <1>1, <1>4 DEF Kinds, Chunked
  <2>3. ~ fits /\ Chunked(a) => BatchSize[v] < q.batch
    BY <1>1, <1>4, <2>1
  <2>4. w.why = "batch" => ~ fits
    BY <1>4, <1>5
  <2> QED BY <1>4, <1>5, <2>2, <2>3, <2>4
<1>9. ~ (CatalogNeverShrinks /\ w.pc = "panicked")
  BY <1>4, <1>5
<1>10. w.pc \in {"failed", "open", "rank", "panicked"}
  BY <1>4, <1>5
<1>11. a.kind = "ranks_only" =>
         /\ w.pc \in {"failed", "rank"}
         /\ w.cands = CandidatesOf(0, a.users, a.k)
  <2>1. a.kind = "ranks_only" => q.cands = CandidatesOf(0, a.users, a.k)
    BY <1>1, <1>3 DEF RequestInv
  <2> QED BY <1>4, <1>5, <2>1
<1>12. Chunked(a) /\ w.pc = "open" => w.index = indexFile
  BY <1>1, <1>3, <1>5 DEF RequestInv
<1>13. RequestInv(a, w, indexFile)
  BY <1>4, <1>6, <1>7, <1>8, <1>9, <1>10, <1>11, <1>12 DEF RequestInv, Chunked
<1> QED BY <1>2, <1>5, <1>13, RequestMoves DEF a

LEMMA RankLookupStep ==
  ASSUME IInv, NEW r \in Requests, RankLookup(r), ~ MetadataFails(r)
  PROVE  IInv'
<1> DEFINE a == ask[r]
           q == req[r]
           v == RankerVersion(r)
           w == [q EXCEPT !.pc = "open", !.seen = @ \cup {v}]
<1>1. /\ a \in Asks /\ q \in Progress /\ q.pc = "load" /\ RequestInv(a, q, indexFile)
      /\ v \in Versions /\ a.kind \in Kinds /\ q.seen \subseteq Versions
      /\ UNCHANGED serverVars /\ Looks(r)
  BY AskTypes, ProgressTypes DEF IInv, RankLookup, Looks
<1>2. a.kind # "ann"
  BY <1>1 DEF RequestInv
<1>3. CASE a.kind = "diagnostic"
  <2>1. CheckBatch(r, "open")
    BY <1>3 DEF RankLookup
  <2> QED BY <1>1, <1>2, <1>3, <2>1, CheckBatchStep
<1>4. CASE a.kind # "diagnostic"
  <2>1. req' = [req EXCEPT ![r] = w]
    BY <1>4 DEF RankLookup, IInv, TypeOK
  <2> HIDE DEF a, q, v
  <2>2. /\ w \in Progress /\ w.pc = "open" /\ w.seen = q.seen \cup {v} /\ w.index = q.index
        /\ w.lo = q.lo /\ w.hi = q.hi /\ w.batch = q.batch /\ w.k = q.k /\ w.cands = q.cands
        /\ w.answer = q.answer /\ w.why = q.why
    BY <1>1 DEF Progress, Pcs
  <2> HIDE DEF w
  <2>3. Shape(a, w.seen) => Shape(a, q.seen)
    BY <2>2, ShapeShrinks
  <2>4. Chunked(a) => ChunkInv(a, w)
    BY <1>1, <2>2, <2>3 DEF RequestInv, ChunkInv, Pcs
  <2>5. RequestInv(a, w, indexFile)
    BY <1>1, <1>2, <1>4, <2>2, <2>4 DEF RequestInv, Chunked
  <2> QED BY <1>1, <2>1, <2>2, <2>5, RequestMoves DEF a
<1> QED BY <1>3, <1>4

LEMMA BuildGraphStep ==
  ASSUME IInv, NEW r \in Requests, BuildGraph(r), ~ MetadataFails(r)
  PROVE  IInv'
<1> DEFINE a == ask[r]
           q == req[r]
           next == IF Covered(r) THEN "rank" ELSE "panicked"
           w == [q EXCEPT !.pc = next]
<1>1. /\ a \in Asks /\ q \in Progress /\ q.pc = "graph" /\ RequestInv(a, q, indexFile)
      /\ a.kind \in Kinds /\ UNCHANGED serverVars /\ Looks(r)
      /\ indexFile \in Generations /\ q.catalog \in Generations
  BY AskTypes, ProgressTypes DEF IInv, BuildGraph, TypeOK, Looks
<1>2. a.kind # "ann"
  BY <1>1 DEF RequestInv
<1>3. CatalogNeverShrinks \/ a.kind = "ranks_only" => Covered(r)
  <2>1. a.kind = "ranks_only" \/ Chunked(a)
    BY <1>1, <1>2 DEF Chunked, Kinds
  <2>2. Chunked(a) => q.index = indexFile /\ indexFile <= q.catalog
    BY <1>1 DEF RequestInv
  <2> QED BY <1>1, <2>1, <2>2 DEF CatalogNeverShrinks, Covered
<1>4. /\ next \in {"rank", "panicked"}
      /\ CatalogNeverShrinks \/ a.kind = "ranks_only" => next # "panicked"
  BY <1>3
<1>5. CASE a.kind # "diagnostic"
  <2>1. CheckBatch(r, next)
    BY <1>5 DEF BuildGraph
  <2> HIDE DEF next
  <2> QED BY <1>1, <1>2, <1>4, <1>5, <2>1, CheckBatchStep
<1>6. CASE a.kind = "diagnostic"
  <2>1. req' = [req EXCEPT ![r] = w]
    BY <1>6 DEF BuildGraph, IInv, TypeOK
  <2> HIDE DEF a, q, next
  <2>2. /\ w \in Progress /\ w.pc = next
        /\ w.lo = q.lo /\ w.hi = q.hi /\ w.batch = q.batch /\ w.k = q.k /\ w.cands = q.cands
        /\ w.scored = q.scored /\ w.answer = q.answer /\ w.seen = q.seen /\ w.why = q.why
    BY <1>1, <1>4 DEF Progress, Pcs
  <2> HIDE DEF w
  <2>3. ScoredOf(w)
    BY <1>1, <1>6, <2>2 DEF RequestInv, ScoredOf
  <2>4. Chunked(a) => ChunkInv(a, w)
    BY <1>1, <1>4, <2>2, <2>3 DEF RequestInv, ChunkInv, Pcs
  <2>5. RequestInv(a, w, indexFile)
    BY <1>1, <1>4, <1>6, <2>2, <2>4 DEF RequestInv, Chunked
  <2> QED BY <1>1, <2>1, <2>2, <2>5, RequestMoves DEF a
<1> QED BY <1>5, <1>6

LEMMA RankedStep ==
  ASSUME IInv, NEW r \in Requests, Ranked(r)
  PROVE  IInv'
<1> DEFINE a == ask[r]
           q == req[r]
           x == [q EXCEPT !.pc = "done", !.answer = FullChunks(q.cands, a.k)]
           y == [q EXCEPT !.pc = "topk"]
<1>1. /\ q \in Progress /\ q.pc = "rank" /\ RequestInv(a, q, indexFile)
      /\ UNCHANGED serverVars /\ Looks(r) /\ a.users \in Nat \ {0} /\ a.k \in Nat
      /\ a.kind = "ranks_only" => a.k # 0
  BY AskTypes DEF IInv, Ranked, Looks
<1>2. CASE a.kind = "ranks_only" /\ req' = [req EXCEPT ![r] = x]
  <2> DEFINE found == CandidatesOf(0, a.users, a.k)
  <2>1. q.cands = found
    BY <1>1, <1>2 DEF RequestInv
  <2>2. /\ found \in Seq(Nat)
        /\ FullChunks(found, a.k) = [b \in 1 .. a.users - 0 |-> {0 + b}]
        /\ FullChunks(found, a.k) \in Seq(SUBSET Nat)
    <3>1. 0 \in Nat /\ a.users \in Nat /\ 0 <= a.users /\ a.k \in Nat \ {0}
      BY <1>1, <1>2
    <3> HIDE DEF a
    <3> QED BY <3>1, ChunkPerUser, FullChunksType
  <2>3. FullChunks(found, a.k) = Answered(a.users)
    <3>1. a.users - 0 = a.users /\ \A b \in 1 .. a.users : 0 + b = b
      BY <1>1
    <3> HIDE DEF found, a
    <3> QED BY <2>2, <3>1 DEF Answered
  <2> HIDE DEF a, q, found
  <2>4. /\ x \in Progress /\ x.pc = "done" /\ x.answer = Answered(a.users) /\ x.why = q.why
    BY <1>1, <2>1, <2>2, <2>3 DEF Progress, Pcs
  <2> HIDE DEF x
  <2>5. RequestInv(a, x, indexFile)
    BY <1>1, <1>2, <2>4 DEF RequestInv, Chunked
  <2> QED BY <1>1, <1>2, <2>4, <2>5, RequestMoves DEF a
<1>3. CASE a.kind # "ranks_only" /\ req' = [req EXCEPT ![r] = y]
  <2> HIDE DEF a, q
  <2>1. /\ y \in Progress /\ y.pc = "topk"
        /\ y.lo = q.lo /\ y.hi = q.hi /\ y.batch = q.batch /\ y.k = q.k /\ y.cands = q.cands
        /\ y.scored = q.scored /\ y.answer = q.answer /\ y.seen = q.seen /\ y.why = q.why
    BY <1>1 DEF Progress, Pcs
  <2> HIDE DEF y
  <2>2. RequestInv(a, y, indexFile)
    BY <1>1, <1>3, <2>1, MoveOn
  <2> QED BY <1>1, <1>3, <2>1, <2>2, RequestMoves DEF a
<1>4. CASE End(r, "failed", "ranking")
  BY <1>1, <1>4, FailsOutside
<1> QED BY <1>2, <1>3, <1>4 DEF Ranked, IInv, TypeOK
(* Under one shape the candidates of a chunk are cut the way they were      *)
(* found, whatever version each half of the request asked.                  *)
LEMMA ChunkCandidates ==
  ASSUME NEW a, NEW q \in Progress, Chunked(a), q.pc = "topk", ChunkInv(a, q),
         NEW v \in Versions, Shape(a, q.seen \cup {v})
  PROVE  /\ FullChunks(q.cands, NumCandidates[v]) = [b \in 1 .. q.hi - q.lo |-> {q.lo + b}]
         /\ q.scored = NumCandidates[v]
         /\ q.answer = Answered(q.lo)
<1>1. q.lo \in Nat /\ q.hi \in Nat /\ q.k \in Nat /\ q.lo <= q.hi
  BY ProgressTypes DEF ChunkInv, Pcs
<1>2. \A u \in q.seen : NumCandidates[u] = NumCandidates[v]
  BY Zenon DEF Shape
<1>3. PICK c \in Nat \ {0} :
         /\ q.cands = CandidatesOf(q.lo, q.hi, c)
         /\ IF q.k # 0 THEN c = q.k ELSE \E w \in q.seen : c = NumCandidates[w]
  BY DEF ChunkInv
<1>4. c = NumCandidates[v]
  <2>1. CASE q.k # 0
    <3>1. c = q.k /\ q.k = a.k /\ a.k # 0
      BY <1>3, <2>1 DEF ChunkInv, Pcs
    <3>2. PICK u \in q.seen : BatchSize[u] = a.users
      BY <2>1 DEF ChunkInv, Pcs
    <3>3. NumCandidates[u] = a.k
      BY <3>1, <3>2 DEF Shape
    <3> QED BY <1>2, <3>1, <3>2, <3>3
  <2>2. CASE ~ (q.k # 0)
    BY <1>2, <1>3, <2>2
  <2> QED BY <2>1, <2>2
<1>5. FullChunks(q.cands, c) = [b \in 1 .. q.hi - q.lo |-> {q.lo + b}]
  <2> DEFINE lo == q.lo
             hi == q.hi
  <2>1. lo \in Nat /\ hi \in Nat /\ lo <= hi
    BY <1>1
  <2> HIDE DEF lo, hi
  <2>2. FullChunks(CandidatesOf(lo, hi, c), c) = [b \in 1 .. hi - lo |-> {lo + b}]
    BY <2>1, ChunkPerUser
  <2> QED BY <1>3, <2>2 DEF lo, hi
<1>6. q.scored = NumCandidates[v]
  BY <1>2 DEF ChunkInv, ScoredOf
<1>7. q.answer = Answered(q.lo)
  <2>1. Shape(a, q.seen)
    BY ShapeShrinks
  <2> QED BY <2>1 DEF ChunkInv, Pcs
<1> QED BY <1>4, <1>5, <1>6, <1>7

(* The chunk is answered; the next one starts where it ended.              *)
LEMMA NextChunkStep ==
  ASSUME IInv, NEW r \in Requests, NEW v \in Versions, NEW top \in Seq(SUBSET Nat),
         req[r].pc = "topk", Chunked(ask[r]), UNCHANGED serverVars, Looks(r),
         NextChunk(r, v, top),
         Shape(ask[r], req[r].seen \cup {v}) =>
           top = [b \in 1 .. req[r].hi - req[r].lo |-> {req[r].lo + b}]
  PROVE  IInv'
<1> DEFINE a == ask[r]
           q == req[r]
           last == q.hi = a.users
           end == Least(q.hi + q.batch, a.users)
           w == [q EXCEPT !.answer = @ \o top, !.seen = @ \cup {v},
                          !.pc = IF last THEN "done" ELSE "ann",
                          !.lo = IF last THEN @ ELSE q.hi, !.hi = end]
<1>1. /\ q \in Progress /\ q.pc = "topk" /\ RequestInv(a, q, indexFile) /\ Chunked(a)
      /\ q.lo \in Nat /\ q.hi \in Nat /\ q.batch \in Nat /\ q.k \in Nat
      /\ q.answer \in Seq(SUBSET Nat) /\ q.seen \subseteq Versions
      /\ a.users \in Nat \ {0} /\ ChunkInv(a, q)
  BY AskTypes, ProgressTypes DEF IInv, RequestInv
<1>2. req' = [req EXCEPT ![r] = w]
  BY DEF NextChunk, IInv, TypeOK
<1>3. q.lo <= q.hi /\ q.hi <= a.users
  BY <1>1 DEF ChunkInv, Pcs
<1>4. end \in Nat /\ q.hi <= end /\ end <= a.users /\ end - q.hi <= q.batch
  BY <1>1, <1>3 DEF Least
<1>5. Shape(a, q.seen \cup {v}) => q.answer \o top = Answered(q.hi)
  <2> SUFFICES ASSUME Shape(a, q.seen \cup {v}) PROVE q.answer \o top = Answered(q.hi)
    OBVIOUS
  <2>1. q.answer = Answered(q.lo)
    <3> HIDE DEF a, q
    <3> QED BY <1>1, ChunkCandidates
  <2>2. top = [b \in 1 .. q.hi - q.lo |-> {q.lo + b}]
    OBVIOUS
  <2>3. Answered(q.lo) \o [b \in 1 .. q.hi - q.lo |-> {q.lo + b}] = Answered(q.hi)
    <3> HIDE DEF q
    <3> QED BY <1>1, <1>3, AnsweredGrows
  <2> QED BY <2>1, <2>2, <2>3, Zenon
<1> DEFINE next == IF last THEN "done" ELSE "ann"
           start == IF last THEN q.lo ELSE q.hi
           answer == q.answer \o top
           seen == q.seen \cup {v}
<1>6. /\ next \in Pcs /\ start \in Nat /\ seen \subseteq Versions
      /\ answer \in Seq(SUBSET Nat)
  <2>1. next \in Pcs
    BY DEF Pcs
  <2>2. start \in Nat
    BY <1>1
  <2>3. answer \in Seq(SUBSET Nat)
    <3> HIDE DEF q
    <3> QED BY <1>1, ConcatProperties
  <2> QED BY <1>1, <2>1, <2>2, <2>3
<1>7. w = [q EXCEPT !.answer = answer, !.seen = seen, !.pc = next, !.lo = start, !.hi = end]
  OBVIOUS
<1>8. Shape(a, seen) => answer = Answered(q.hi)
  BY <1>5
<1>9. (last <=> q.hi = a.users) /\ (last => next = "done") /\ (~ last => next = "ann" /\ start = q.hi)
  OBVIOUS
<1> HIDE DEF a, q, last, end, w, next, start, answer, seen
<1>10. /\ w \in Progress /\ w.pc = next /\ w.lo = start /\ w.hi = end /\ w.answer = answer
       /\ w.seen = seen /\ w.k = q.k /\ w.batch = q.batch /\ w.why = q.why
  BY <1>1, <1>4, <1>6, <1>7 DEF Progress
<1>11. q.k # 0 => q.k = a.k /\ \E u \in w.seen : BatchSize[u] = a.users
  <2>1. q.k # 0 => q.k = a.k /\ \E u \in q.seen : BatchSize[u] = a.users
    BY <1>1 DEF ChunkInv, Pcs
  <2> QED BY <1>10, <2>1 DEF seen
<1>12. q.why # "batch"
  BY <1>1 DEF RequestInv
<1>13. CASE last
  <2>1. w.pc = "done" /\ (Shape(a, w.seen) => w.answer = Answered(a.users))
    BY <1>8, <1>9, <1>10, <1>13
  <2> QED BY <1>1, <1>2, <1>10, <1>12, <2>1, RequestMoves DEF RequestInv, ChunkInv, Chunked, a
<1>14. CASE ~ last
  <2>1. w.pc = "ann" /\ w.lo = q.hi /\ w.hi = end
    BY <1>9, <1>10, <1>14
  <2>2. Shape(a, w.seen) => w.answer = Answered(w.lo)
    BY <1>8, <1>10, <2>1
  <2>3. ChunkInv(a, w)
    BY <1>1, <1>4, <1>10, <1>11, <2>1, <2>2 DEF ChunkInv
  <2>4. RequestInv(a, w, indexFile)
    BY <1>1, <1>10, <1>12, <2>1, <2>3 DEF RequestInv, Chunked
  <2> QED BY <1>1, <1>2, <1>10, <2>4, RequestMoves DEF a
<1> QED BY <1>13, <1>14

LEMMA TopKStep ==
  ASSUME IInv, NEW r \in Requests, TopK(r), ~ MetadataFails(r)
  PROVE  IInv'
<1> DEFINE a == ask[r]
           q == req[r]
           v == RankerVersion(r)
           top == FullChunks(q.cands, NumCandidates[v])
<1>1. /\ q \in Progress /\ q.pc = "topk" /\ Chunked(a) /\ ChunkInv(a, q)
      /\ v \in Versions /\ NumCandidates[v] \in Nat \ {0} /\ q.cands \in Seq(Nat)
      /\ UNCHANGED serverVars /\ Looks(r) /\ NextChunk(r, v, top)
  BY AskTypes, VersionTypes, ProgressTypes DEF IInv, TopK, RequestInv, Chunked, Looks
<1> HIDE DEF v
<1>2. top \in Seq(SUBSET Nat)
  <2> HIDE DEF q
  <2> QED BY <1>1, FullChunksType
<1>3. Shape(a, q.seen \cup {v}) => top = [b \in 1 .. q.hi - q.lo |-> {q.lo + b}]
  <2> HIDE DEF a, q
  <2> QED BY <1>1, ChunkCandidates
<1> HIDE DEF top
<1> QED BY <1>1, <1>2, <1>3, NextChunkStep

LEMMA TopKDiagnosticStep ==
  ASSUME IInv, NEW r \in Requests, TopKDiagnostic(r), ~ MetadataFails(r)
  PROVE  IInv'
<1> DEFINE a == ask[r]
           q == req[r]
           v == RankerVersion(r)
           n == q.hi - q.lo
           chunks == FullChunks(q.cands, NumCandidates[v])
           top == SubSeq(chunks, 1, n)
           fits == n <= Len(chunks) /\ NumCandidates[v] <= q.scored
           w == [q EXCEPT !.pc = "panicked", !.seen = @ \cup {v}]
<1>1. /\ q \in Progress /\ q.pc = "topk" /\ Chunked(a) /\ ChunkInv(a, q)
      /\ a.kind = "diagnostic" /\ RequestInv(a, q, indexFile)
      /\ v \in Versions /\ NumCandidates[v] \in Nat \ {0} /\ q.cands \in Seq(Nat)
      /\ q.lo \in Nat /\ q.hi \in Nat /\ q.lo <= q.hi /\ q.seen \subseteq Versions
      /\ UNCHANGED serverVars /\ Looks(r)
  BY AskTypes, VersionTypes, ProgressTypes
  DEF IInv, TopKDiagnostic, RequestInv, Chunked, ChunkInv, Pcs, Looks
<1>2. n \in Nat /\ chunks \in Seq(SUBSET Nat)
  <2> HIDE DEF q, v
  <2> QED BY <1>1, FullChunksType
<1>3. Shape(a, q.seen \cup {v}) =>
        /\ chunks = [b \in 1 .. n |-> {q.lo + b}]
        /\ q.scored = NumCandidates[v]
  <2> HIDE DEF a, q, v
  <2> QED BY <1>1, ChunkCandidates
<1>4. Shape(a, q.seen \cup {v}) => Len(chunks) = n /\ fits
  <2> HIDE DEF a, q, v, n, chunks
  <2> QED BY <1>1, <1>2, <1>3
<1>5. CASE fits
  <2>1. top \in Seq(SUBSET Nat)
    <3> HIDE DEF n, chunks
    <3>1. \A i \in 1 .. n : chunks[i] \in SUBSET Nat
      BY <1>2, <1>5
    <3> QED BY <1>2, <3>1, SubSeqProperties
  <2>2. Shape(a, q.seen \cup {v}) => top = [b \in 1 .. n |-> {q.lo + b}]
    <3> HIDE DEF n, chunks, a, q, v
    <3>1. Len(chunks) = n => top = chunks
      BY <1>2, WholeSubSeq
    <3> QED BY <1>3, <1>4, <3>1
  <2>3. NextChunk(r, v, top)
    BY <1>5 DEF TopKDiagnostic
  <2> HIDE DEF top, v
  <2> QED BY <1>1, <2>1, <2>2, <2>3, NextChunkStep
<1>6. CASE ~ fits
  <2>1. req' = [req EXCEPT ![r] = w]
    BY <1>6 DEF TopKDiagnostic, IInv, TypeOK
  <2>2. ~ Shape(a, q.seen \cup {v})
    BY <1>4, <1>6
  <2> HIDE DEF a, q, v, n, chunks, fits
  <2>3. /\ w \in Progress /\ w.pc = "panicked" /\ w.seen = q.seen \cup {v} /\ w.why = q.why
    BY <1>1 DEF Progress, Pcs
  <2> HIDE DEF w
  <2>4. RequestInv(a, w, indexFile)
    BY <1>1, <2>2, <2>3 DEF RequestInv, ChunkInv, Chunked
  <2> QED BY <1>1, <2>1, <2>3, <2>4, RequestMoves DEF a
<1> QED BY <1>5, <1>6

-----------------------------------------------------------------------------
(* The theorems.                                                           *)

LEMMA ServerStep ==
  ASSUME IInv,
         \/ \E u \in Updaters : Update(u)
         \/ Publish \/ ExportEmbeddings \/ ReloadOpen \/ ReloadSwap
  PROVE  IInv'
<1>1. TypeOK /\ SearcherInv
  BY DEF IInv
<1>2. CASE \E u \in Updaters : Update(u)
  <2>1. PICK u \in Updaters : Update(u)
    BY <1>2
  <2>2. /\ UNCHANGED <<ask, req, indexFile, searcher, reload, embeddings, newest, cached>>
    BY <2>1 DEF Update, FetchVersions, StoreQuery, StoreRanker
  <2>3. updater[u].pair \in Pairs /\ updater[u].pair.query \in 1 .. MaxQuery
        /\ updater[u].pair.ranker \in Versions
    BY <1>1 DEF TypeOK, Pairs
  <2>4. stored' \in Pairs
    BY <1>1, <2>1, <2>3 DEF Update, FetchVersions, StoreQuery, StoreRanker, TypeOK, Pairs
  <2>5. updater' \in [Updaters -> [pc : {"idle", "storeQuery", "storeRanker"}, pair : Pairs]]
    BY <1>1, <2>1 DEF Update, FetchVersions, StoreQuery, StoreRanker, TypeOK
  <2>6. TypeOK' /\ SearcherInv'
    BY <1>1, <2>2, <2>4, <2>5 DEF TypeOK, SearcherInv, Fresh
  <2> QED BY <2>2, <2>6, ServerMoves
<1>3. CASE Publish
  <2>1. newest' \in Pairs
    <3>1. /\ newest \in Pairs /\ newest.query \in 1 .. MaxQuery /\ newest.ranker \in 1 .. MaxRanker
          /\ MaxQuery \in Nat /\ MaxRanker \in Nat
      BY <1>1, OrchestratorAssumption DEF TypeOK, Pairs, Versions
    <3>2. CASE newest.query < MaxQuery /\ newest' = [newest EXCEPT !.query = @ + 1]
      <4>1. newest.query + 1 \in 1 .. MaxQuery
        BY <3>1, <3>2
      <4> QED BY <3>1, <3>2, <4>1 DEF Pairs
    <3>3. CASE newest.ranker < MaxRanker /\ newest' = [newest EXCEPT !.ranker = @ + 1]
      <4>1. newest.ranker + 1 \in Versions
        BY <3>1, <3>3 DEF Versions
      <4> QED BY <3>1, <3>3, <4>1 DEF Pairs
    <3> QED BY <1>3, <3>2, <3>3 DEF Publish
  <2> QED BY <1>1, <1>3, <2>1, ServerMoves DEF Publish, TypeOK, SearcherInv, Fresh
<1>4. CASE ExportEmbeddings
  <2>1. embeddings' \in Generations /\ indexFile <= embeddings' /\ UNCHANGED indexFile
    BY <1>1, <1>4, OrchestratorAssumption
    DEF ExportEmbeddings, TypeOK, Generations, SearcherInv
  <2> QED BY <1>1, <1>4, <2>1, ServerMoves DEF ExportEmbeddings, TypeOK, SearcherInv, Fresh
<1>5. CASE ReloadOpen
  <2>1. indexFile # 0
    BY <1>1, OrchestratorAssumption DEF TypeOK, Generations
  <2>2. /\ Opened(indexFile, embeddings) \in Searchers
        /\ Fresh(Opened(indexFile, embeddings))
    BY <1>1, <2>1 DEF Opened, Searchers, Fresh, TypeOK, SearcherInv
  <2>3. reload' = {Opened(indexFile, embeddings)}
        /\ UNCHANGED <<newest, stored, updater, embeddings, indexFile, searcher, cached,
                       ask, req>>
    BY <1>5 DEF ReloadOpen
  <2>4. TypeOK'
    BY <1>1, <2>2, <2>3 DEF TypeOK
  <2>5. SearcherInv'
    BY <1>1, <2>2, <2>3 DEF SearcherInv, Fresh
  <2> QED BY <2>3, <2>4, <2>5, ServerMoves
<1>6. CASE ReloadSwap
  <2>1. searcher' \in reload /\ reload' = {}
        /\ UNCHANGED <<newest, stored, updater, embeddings, indexFile, cached, ask, req>>
    BY <1>6 DEF ReloadSwap
  <2>2. TypeOK' /\ SearcherInv'
    BY <1>1, <2>1 DEF TypeOK, SearcherInv, Fresh
  <2> QED BY <2>1, <2>2, ServerMoves
<1> QED BY <1>2, <1>3, <1>4, <1>5, <1>6

(* What the server promises each request is kept by every step of every     *)
(* other request, of the updates and of the reloads.                        *)
THEOREM InductiveInvariant == Spec => []IInv
<1>1. Init => IInv
  <2> SUFFICES ASSUME Init PROVE IInv
    OBVIOUS
  <2>1. /\ newest \in Pairs /\ stored = newest /\ embeddings \in Generations
        /\ updater = [u \in Updaters |-> [pc |-> "idle", pair |-> newest]]
        /\ reload = {} /\ ask \in [Requests -> Asks]
    BY DEF Init
  <2>1a. cached \subseteq Versions
    <3>1. 1 \in Versions
      BY OrchestratorAssumption DEF Versions
    <3> QED BY <3>1 DEF Init
  <2>2. PICK file \in 0 .. embeddings :
           searcher = Opened(file, embeddings) /\ indexFile = searcher.index
    BY DEF Init
  <2>3. /\ searcher \in Searchers /\ indexFile \in Generations /\ indexFile <= embeddings
        /\ Fresh(searcher)
    BY <2>1, <2>2, OrchestratorAssumption DEF Opened, Searchers, Generations, Fresh
  <2> DEFINE start == [pc |-> "new", lo |-> 0, hi |-> 0, batch |-> 0, k |-> 0,
                       cands |-> <<>>, index |-> 1, catalog |-> 1, scored |-> 0,
                       answer |-> <<>>, seen |-> {}, lost |-> 0, why |-> ""]
  <2>4. req = [r \in Requests |-> start]
    BY DEF Init
  <2>5. start \in Progress
    <3>1. 1 \in Generations /\ <<>> \in Seq(Nat) /\ <<>> \in Seq(SUBSET Nat)
      BY OrchestratorAssumption DEF Generations
    <3> QED BY <3>1 DEF Progress, Pcs, Reasons
  <2>6. start.pc = "new" /\ start.lo = 0 /\ start.answer = <<>> /\ start.why = ""
    OBVIOUS
  <2> HIDE DEF start
  <2>7. TypeOK
    BY <2>1, <2>1a, <2>3, <2>4, <2>5 DEF TypeOK
  <2>8. SearcherInv
    BY <2>1, <2>3 DEF SearcherInv
  <2>9. \A r \in Requests : RequestInv(ask[r], req[r], indexFile)
    BY <2>4, <2>6 DEF RequestInv, ChunkInv
  <2> QED BY <2>7, <2>8, <2>9 DEF IInv
<1>2. ASSUME IInv, [Next]_vars PROVE IInv'
  <2>1. CASE \E r \in Requests : Serve(r)
    <3>1. PICK r \in Requests : Serve(r)
      BY <2>1
    <3>2. CASE MetadataFails(r)
      <4>1. UNCHANGED serverVars
        BY <3>1 DEF Serve, Plan, PlanAnn, PlanRanksOnly, AnnLoad, Embedded, Search, RankLookup,
           RankLoad, BuildGraph, Ranked, TopK, TopKDiagnostic
      <4> QED BY <1>2, <3>2, <4>1, FailsForMetadata
    <3>3. CASE ~ MetadataFails(r)
      BY <1>2, <3>1, <3>3, PlanStep, PlanAnnStep, PlanRanksOnlyStep, AnnLoadStep, EmbeddedStep,
         SearchStep, RankLookupStep, RankLoadStep, BuildGraphStep, RankedStep, TopKStep,
         TopKDiagnosticStep
      DEF Serve
    <3> QED BY <3>2, <3>3
  <2>2. CASE \/ \E u \in Updaters : Update(u)
             \/ Publish \/ ExportEmbeddings \/ ReloadOpen \/ ReloadSwap
    BY <1>2, <2>2, ServerStep
  <2>3. CASE UNCHANGED vars
    <3>1. TypeOK' /\ SearcherInv'
      BY <1>2, <2>3 DEF vars, IInv, TypeOK, SearcherInv, Fresh
    <3> QED BY <1>2, <2>3, <3>1, ServerMoves DEF vars
  <2> QED BY <1>2, <2>1, <2>2, <2>3 DEF Next
<1> QED BY <1>1, <1>2, PTL DEF Spec

(* A finished request has one list for each of its users, in the order      *)
(* asked and from that user's candidates alone: cutting the request by any  *)
(* batch size and its candidates by any number undo each other, over every  *)
(* change of version that leaves the number of candidates as it was.        *)
THEOREM OneAnswerPerUser == Spec => []AnswerPerUser
<1>1. IInv => AnswerPerUser
  BY ShapeIsOneShape DEF IInv, AnswerPerUser, RequestInv, Answered
<1> QED BY <1>1, InductiveInvariant, PTL

(* What the cache holds of what a request was told, and what a request that *)
(* failed for metadata had been told.                                      *)
Known(a, q, cache) ==
    /\ q.seen \subseteq cache
    /\ a.pin # 0 => q.seen \subseteq {a.pin}
    /\ q.why = "metadata" =>
         /\ q.pc = "failed" /\ q.lost \notin q.seen
         /\ a.pin # 0 => q.seen = {}

KnownInv == \A r \in Requests : Known(ask[r], req[r], cached)

(* What a step of a request that finds its metadata does to what it knows. *)
Learns(q, w, v) ==
    /\ q.pc # "failed"
    /\ \/ w.seen = q.seen
       \/ w.seen = q.seen \cup {v} /\ cached' = cached \cup {v}
    /\ w.why # "metadata" \/ w.why = q.why

LEMMA StepLearns ==
  ASSUME TypeOK, NEW r \in Requests, NEW w, req' = [req EXCEPT ![r] = w],
         UNCHANGED serverVars, req[r].pc # "failed",
         \/ w.seen = req[r].seen /\ Looks(r)
         \/ w.seen = req[r].seen \cup {RankerVersion(r)} /\ Fetched(r),
         w.why # "metadata" \/ w.why = req[r].why
  PROVE  /\ Learns(req[r], req'[r], RankerVersion(r))
         /\ cached \subseteq cached' /\ ask' = ask
         /\ \A s \in Requests : s # r => req'[s] = req[s]
<1>1. req'[r] = w /\ \A s \in Requests : s # r => req'[s] = req[s]
  BY DEF TypeOK
<1>2. cached \subseteq cached' /\ ask' = ask
  BY DEF Looks, Fetched, serverVars
<1>3. Learns(req[r], w, RankerVersion(r))
  BY DEF Learns, Fetched
<1> QED BY <1>1, <1>2, <1>3

LEMMA CheckBatchLearns ==
  ASSUME TypeOK, NEW r \in Requests, NEW next, CheckBatch(r, next), Fetched(r),
         UNCHANGED serverVars, req[r].pc # "failed"
  PROVE  /\ Learns(req[r], req'[r], RankerVersion(r))
         /\ cached \subseteq cached' /\ ask' = ask
         /\ \A s \in Requests : s # r => req'[s] = req[s]
<1> DEFINE v == RankerVersion(r)
           q == req[r]
           fits == q.hi - q.lo <= BatchSize[v]
           to == IF fits THEN next ELSE "failed"
           why == IF fits THEN "" ELSE "batch"
           w == [q EXCEPT !.seen = @ \cup {v}, !.scored = NumCandidates[v],
                          !.pc = to, !.why = why]
<1>1. q \in Progress /\ req' = [req EXCEPT ![r] = w] /\ why # "metadata"
  BY DEF CheckBatch, TypeOK
<1> HIDE DEF v, fits, to, why
<1>2. w.seen = q.seen \cup {v} /\ w.why = why
  BY <1>1 DEF Progress
<1> HIDE DEF w
<1> QED BY <1>1, <1>2, StepLearns DEF v

LEMMA ServeLearns ==
  ASSUME TypeOK, NEW r \in Requests, Serve(r), ~ MetadataFails(r)
  PROVE  /\ Learns(req[r], req'[r], RankerVersion(r))
         /\ cached \subseteq cached' /\ ask' = ask
         /\ \A s \in Requests : s # r => req'[s] = req[s]
<1> DEFINE G == /\ Learns(req[r], req'[r], RankerVersion(r))
                /\ cached \subseteq cached' /\ ask' = ask
                /\ \A s \in Requests : s # r => req'[s] = req[s]
<1>0. req \in [Requests -> Progress] /\ req[r] \in Progress
  BY DEF TypeOK
<1>1. CASE Plan(r)
  BY <1>0, <1>1 DEF Plan, Learns, Fetched, serverVars, Progress
<1>2. CASE PlanAnn(r)
  BY <1>0, <1>2 DEF PlanAnn, Learns, serverVars, Progress
<1>3. CASE PlanRanksOnly(r)
  BY <1>0, <1>3 DEF PlanRanksOnly, End, Learns, serverVars, Progress
<1>4. CASE AnnLoad(r)
  BY <1>0, <1>4 DEF AnnLoad, Learns, serverVars, Progress
<1>5. CASE Embedded(r)
  BY <1>0, <1>5 DEF Embedded, End, Learns, serverVars, Progress
<1>6. CASE Search(r)
  <2> DEFINE v == RankerVersion(r)
             q == req[r]
             k == IF q.k # 0 THEN q.k ELSE NumCandidates[v]
             found == CandidatesOf(q.lo, q.hi, k)
             x == [q EXCEPT !.pc = "done", !.seen = @ \cup {v}, !.answer = FullChunks(found, k)]
             y == [q EXCEPT !.pc = "load", !.seen = @ \cup {v}, !.cands = found]
             z == [q EXCEPT !.pc = "failed", !.why = "search"]
  <2>1. /\ q.pc = "search" /\ Fetched(r) /\ UNCHANGED serverVars
        /\ \/ req' = [req EXCEPT ![r] = x]
           \/ req' = [req EXCEPT ![r] = y]
           \/ req' = [req EXCEPT ![r] = z]
    BY <1>0, <1>6 DEF Search, End
  <2> HIDE DEF v, k, found
  <2>2. /\ x.seen = q.seen \cup {v} /\ x.why = q.why
        /\ y.seen = q.seen \cup {v} /\ y.why = q.why
        /\ z.seen = q.seen /\ z.why = "search"
    BY <1>0 DEF Progress
  <2> HIDE DEF x, y, z
  <2> QED BY <2>1, <2>2, StepLearns DEF Looks, v
<1>7. CASE RankLookup(r)
  <2>1. req[r].pc = "load" /\ Fetched(r) /\ UNCHANGED serverVars
    BY <1>7 DEF RankLookup
  <2>2. CASE CheckBatch(r, "open")
    BY <2>1, <2>2, CheckBatchLearns
  <2>3. CASE ~ CheckBatch(r, "open")
    BY <1>0, <1>7, <2>1, <2>3 DEF RankLookup, Learns, Fetched, serverVars, Progress
  <2> QED BY <2>2, <2>3
<1>8. CASE RankLoad(r)
  BY <1>0, <1>8 DEF RankLoad, Learns, serverVars, Progress
<1>9. CASE BuildGraph(r)
  <2> DEFINE next == IF Covered(r) THEN "rank" ELSE "panicked"
  <2>1. req[r].pc = "graph" /\ UNCHANGED serverVars
    BY <1>9 DEF BuildGraph
  <2>2. CASE CheckBatch(r, next) /\ Fetched(r)
    <3> HIDE DEF next
    <3> QED BY <2>1, <2>2, CheckBatchLearns
  <2>3. CASE req' = [req EXCEPT ![r].pc = next] /\ UNCHANGED cached
    <3> HIDE DEF next
    <3> QED BY <1>0, <2>1, <2>3 DEF Learns, serverVars, Progress
  <2> QED BY <1>9, <2>2, <2>3 DEF BuildGraph
<1>10. CASE Ranked(r)
  BY <1>0, <1>10 DEF Ranked, End, Learns, serverVars, Progress
<1>11. CASE TopK(r)
  BY <1>0, <1>11 DEF TopK, NextChunk, Learns, Fetched, serverVars, Progress
<1>12. CASE TopKDiagnostic(r)
  <2> DEFINE n == req[r].hi - req[r].lo
             chunks == FullChunks(req[r].cands, NumCandidates[RankerVersion(r)])
             top == SubSeq(chunks, 1, n)
  <2>1. req[r].pc = "topk" /\ Fetched(r) /\ UNCHANGED serverVars
    BY <1>12 DEF TopKDiagnostic
  <2>2. CASE NextChunk(r, RankerVersion(r), top)
    <3> HIDE DEF top
    <3> QED BY <1>0, <2>1, <2>2 DEF NextChunk, Learns, Fetched, serverVars, Progress
  <2>3. CASE req' = [req EXCEPT ![r].pc = "panicked", ![r].seen = @ \cup {RankerVersion(r)}]
    BY <1>0, <2>1, <2>3 DEF Learns, Fetched, serverVars, Progress
  <2> QED BY <1>12, <2>2, <2>3 DEF TopKDiagnostic
<1> HIDE DEF G
<1> QED BY <1>1, <1>2, <1>3, <1>4, <1>5, <1>6, <1>7, <1>8, <1>9, <1>10, <1>11, <1>12 DEF Serve, G

(* Metadata that were read are never looked for in vain again.             *)
LEMMA KnownKept ==
  ASSUME TypeOK, KnownInv, [Next]_vars
  PROVE  KnownInv'
<1>1. CASE \E r \in Requests : Serve(r)
  <2>1. PICK r \in Requests : Serve(r)
    BY <1>1
  <2> DEFINE v == RankerVersion(r)
  <2>2. ask[r].pin # 0 => v = ask[r].pin
    BY DEF RankerVersion
  <2>3. CASE MetadataFails(r)
    <3>1. UNCHANGED <<ask, cached>>
      BY <2>1, <2>3
      DEF MetadataFails, Serve, Plan, PlanAnn, PlanRanksOnly, AnnLoad, Embedded, Search,
          RankLookup, RankLoad, BuildGraph, Ranked, TopK, TopKDiagnostic, serverVars
    <3>2. /\ v \notin cached /\ \A s \in Requests : s # r => req'[s] = req[s]
          /\ req'[r].pc = "failed" /\ req'[r].lost = v /\ req'[r].seen = req[r].seen
      BY <2>3 DEF MetadataFails, TypeOK, Progress
    <3>3. Known(ask[r], req'[r], cached)
      BY <2>2, <3>2 DEF KnownInv, Known
    <3> QED BY <3>1, <3>2, <3>3 DEF KnownInv
  <2>4. CASE ~ MetadataFails(r)
    <3>1. /\ Learns(req[r], req'[r], v) /\ cached \subseteq cached' /\ ask' = ask
          /\ \A s \in Requests : s # r => req'[s] = req[s]
      BY <2>1, <2>4, ServeLearns
    <3> HIDE DEF v
    <3>2. Known(ask[r], req'[r], cached')
      BY <2>2, <3>1 DEF KnownInv, Known, Learns
    <3>3. \A s \in Requests : Known(ask[s], req[s], cached')
      BY <3>1 DEF KnownInv, Known
    <3> QED BY <3>1, <3>2, <3>3 DEF KnownInv
  <2> QED BY <2>3, <2>4
<1>2. CASE \/ \E u \in Updaters : Update(u)
           \/ Publish \/ ExportEmbeddings \/ ReloadOpen \/ ReloadSwap
  <2>1. UNCHANGED <<ask, req, cached>>
    BY <1>2 DEF Update, FetchVersions, StoreQuery, StoreRanker, Publish, ExportEmbeddings,
       ReloadOpen, ReloadSwap
  <2> QED BY <2>1 DEF KnownInv
<1>3. CASE UNCHANGED vars
  BY <1>3 DEF vars, KnownInv
<1> QED BY <1>1, <1>2, <1>3 DEF Next

(* What a request was told of a version it is never refused later: it fails *)
(* for metadata only at a version it has not met, a pinned one at the start. *)
THEOREM MetadataAlwaysKept == Spec => []MetadataKept
<1>1. Init => KnownInv
  <2> SUFFICES ASSUME Init, NEW r \in Requests PROVE Known(ask[r], req[r], cached)
    BY DEF KnownInv
  <2>1. req[r].seen = {} /\ req[r].why = ""
    BY DEF Init
  <2> QED BY <2>1 DEF Known
<1>2. IInv /\ KnownInv /\ [Next]_vars => KnownInv'
  BY KnownKept DEF IInv
<1>3. KnownInv => MetadataKept
  BY DEF KnownInv, Known, MetadataKept
<1> QED BY <1>1, <1>2, <1>3, InductiveInvariant, PTL DEF Spec

(* No request is refused for its size unless the batch size shrank under    *)
(* it, no handler panics unless the number of candidates changed under it,  *)
(* and no metadata are missing but those of a version the request has not   *)
(* met - as long as movies are only ever added to the catalog, which the    *)
(* index persisted from an earlier one relies on.                           *)
THEOREM FailuresAlwaysExplained ==
  ASSUME CatalogNeverShrinks
  PROVE  Spec => []FailuresExplained
<1>1. IInv => ChunksFit
  <2> SUFFICES ASSUME IInv, NEW r \in Requests, req[r].why = "batch",
                      ask[r].kind # "ranks_only"
               PROVE  \E v \in req[r].seen : BatchSize[v] < req[r].batch
    BY DEF ChunksFit
  <2> QED BY DEF IInv, RequestInv
<1>2. IInv => NoPanic
  BY CatalogNeverShrinks, ShapeIsOneShape DEF IInv, NoPanic, RequestInv
<1> QED BY <1>1, <1>2, InductiveInvariant, MetadataAlwaysKept, PTL DEF FailuresExplained
====
