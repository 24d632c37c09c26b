-------------------------- MODULE Negatives_proofs --------------------------
(***************************************************************************)
(* What a record is trained with, for every catalog, every row of          *)
(* recommendations, every length of history and number of candidates, and  *)
(* every pair of files in which a user rates a movie once.                 *)
(*                                                                         *)
(* The history is told by a list of the places of a line that count        *)
(* (SetListed): the code's running counts number them (BeforeIs), so the   *)
(* columns are the end of that list, backwards.  The candidates are told   *)
(* by what each source leaves in the pool (QuotasKept).                    *)
(***************************************************************************)
EXTENDS Negatives, SequenceTheorems, FiniteSetTheorems, TLAPS

-----------------------------------------------------------------------------
(* Lists of numbers.                                                       *)

(* A strict order of all elements of a set, and how many come before one.  *)
Orders(R, S) ==
  /\ \A x \in S : <<x, x>> \notin R
  /\ \A x, y, z \in S : <<x, y>> \in R /\ <<y, z>> \in R => <<x, z>> \in R
  /\ \A x, y \in S : x = y \/ <<x, y>> \in R \/ <<y, x>> \in R

Below(R, S, n) == {x \in S : <<x, n>> \in R}
RankIn(R, S, n) == Cardinality(Below(R, S, n)) + 1

(* Every rank is that of one element.                                      *)
LEMMA Ranks ==
  ASSUME NEW S, IsFiniteSet(S), NEW R, Orders(R, S)
  PROVE  /\ Cardinality(S) \in Nat
         /\ \A n \in S : RankIn(R, S, n) \in 1 .. Cardinality(S)
         /\ \A m, n \in S : <<m, n>> \in R <=> RankIn(R, S, m) < RankIn(R, S, n)
         /\ \A m, n \in S : RankIn(R, S, m) = RankIn(R, S, n) => m = n
         /\ \A k \in 1 .. Cardinality(S) : \E n \in S : RankIn(R, S, n) = k
<1>. DEFINE c == Cardinality(S)
<1>1. c \in Nat
  BY FS_CardinalityType
<1>2. \A n \in S : IsFiniteSet(Below(R, S, n)) /\ Cardinality(Below(R, S, n)) \in Nat
  <2>. TAKE n \in S
  <2>1. Below(R, S, n) \in SUBSET S
    BY DEF Below
  <2>2. IsFiniteSet(Below(R, S, n))
    BY <2>1, FS_Subset
  <2>. QED  BY <2>2, FS_CardinalityType
<1>3. ASSUME NEW m \in S, NEW n \in S, <<m, n>> \in R
      PROVE  RankIn(R, S, m) < RankIn(R, S, n)
  <2>1. Below(R, S, m) \subseteq Below(R, S, n)
    BY <1>3 DEF Orders, Below
  <2>2. m \in Below(R, S, n) /\ m \notin Below(R, S, m)
    BY <1>3 DEF Orders, Below
  <2>3. /\ Cardinality(Below(R, S, m)) <= Cardinality(Below(R, S, n))
        /\ Cardinality(Below(R, S, n)) = Cardinality(Below(R, S, m)) => Below(R, S, n) = Below(R, S, m)
    BY <1>2, <2>1, FS_Subset
  <2>4. Cardinality(Below(R, S, n)) # Cardinality(Below(R, S, m))
    BY <2>2, <2>3
  <2>. QED  BY <1>2, <2>3, <2>4 DEF RankIn
<1>4. ASSUME NEW n \in S  PROVE RankIn(R, S, n) \in 1 .. c
  <2>1. Below(R, S, n) \in SUBSET S /\ n \notin Below(R, S, n)
    BY DEF Below, Orders
  <2>2. /\ Cardinality(Below(R, S, n)) <= c
        /\ c = Cardinality(Below(R, S, n)) => S = Below(R, S, n)
    BY <2>1, FS_Subset
  <2>3. Cardinality(Below(R, S, n)) # c
    BY <2>1, <2>2
  <2>. QED  BY <1>1, <1>2, <2>2, <2>3 DEF RankIn
<1>5. ASSUME NEW m \in S, NEW n \in S, RankIn(R, S, m) < RankIn(R, S, n)  PROVE <<m, n>> \in R
  <2>1. RankIn(R, S, m) \in Int /\ RankIn(R, S, n) \in Int
    BY <1>1, <1>4
  <2>2. CASE <<n, m>> \in R
    <3>1. RankIn(R, S, n) < RankIn(R, S, m)
      BY <1>3, <2>2
    <3>. QED  BY <1>5, <2>1, <3>1
  <2>3. m # n
    BY <1>5, <2>1
  <2>. QED  BY <2>2, <2>3 DEF Orders
<1>6. ASSUME NEW m \in S, NEW n \in S, RankIn(R, S, m) = RankIn(R, S, n)  PROVE m = n
  <2>1. RankIn(R, S, m) \in Int /\ RankIn(R, S, n) \in Int
    BY <1>1, <1>4
  <2>2. ~ (RankIn(R, S, m) < RankIn(R, S, n)) /\ ~ (RankIn(R, S, n) < RankIn(R, S, m))
    BY <1>6, <2>1
  <2>3. <<m, n>> \notin R /\ <<n, m>> \notin R
    BY <1>3, <2>2
  <2>. QED  BY <2>3 DEF Orders
<1>7. ASSUME NEW k \in 1 .. c  PROVE \E n \in S : RankIn(R, S, n) = k
  <2>. DEFINE r == [n \in S |-> RankIn(R, S, n)]
  <2>1. r \in [S -> 1 .. c] /\ \A m, n \in S : r[m] = r[n] => m = n
    BY <1>4, <1>6
  <2>2. \A n \in S : r[n] = RankIn(R, S, n)
    OBVIOUS
  <2>. HIDE DEF r, c
  <2>3. r \in Injection(S, 1 .. c)
    BY <2>1 DEF Injection, IsInjective
  <2>4. IsFiniteSet(1 .. c) /\ Cardinality(1 .. c) = c
    <3>1. 1 \in Int /\ c \in Int
      BY <1>1
    <3>2. IsFiniteSet(1 .. c) /\ Cardinality(1 .. c) = IF 1 > c THEN 0 ELSE c - 1 + 1
      BY <3>1, FS_Interval
    <3>. QED  BY <1>1, <3>2
  <2>5. r \in Surjection(S, 1 .. c)
    BY <2>3, <2>4, FS_Injection DEF c
  <2>. QED  BY <2>2, <2>5 DEF Surjection
<1>. QED
  BY <1>1, <1>3, <1>4, <1>5, <1>6, <1>7 DEF c

(* f lists the elements of S from the least to the greatest.               *)
Lists(f, S, m) ==
  /\ f \in [1 .. m -> S]
  /\ \A i, j \in 1 .. m : i < j => f[i] < f[j]
  /\ \A n \in S : \E i \in 1 .. m : f[i] = n

(* Any finite set of numbers can be listed.                                *)
LEMMA SetListed ==
  ASSUME NEW S \in SUBSET Int, IsFiniteSet(S)
  PROVE  \E f : Lists(f, S, Cardinality(S))
<1>. DEFINE R == {e \in S \X S : e[1] < e[2]}
           c == Cardinality(S)
           f == [k \in 1 .. c |-> CHOOSE n \in S : RankIn(R, S, n) = k]
<1>1. \A x, y \in S : <<x, y>> \in R <=> x < y
  OBVIOUS
<1>. HIDE DEF R
<1>2. Orders(R, S)
  BY <1>1 DEF Orders
<1>3. /\ c \in Nat
      /\ \A n \in S : RankIn(R, S, n) \in 1 .. c
      /\ \A m, n \in S : m < n <=> RankIn(R, S, m) < RankIn(R, S, n)
      /\ \A m, n \in S : RankIn(R, S, m) = RankIn(R, S, n) => m = n
      /\ \A k \in 1 .. c : \E n \in S : RankIn(R, S, n) = k
  BY <1>1, <1>2, Ranks
<1>4. \A k \in 1 .. c : f[k] \in S /\ RankIn(R, S, f[k]) = k
  BY <1>3
<1>5. f \in [1 .. c -> S]
  BY <1>4
<1>. HIDE DEF f, c
<1>6. \A i, j \in 1 .. c : i < j => f[i] < f[j]
  BY <1>3, <1>4
<1>7. \A n \in S : \E i \in 1 .. c : f[i] = n
  BY <1>3, <1>4
<1>. QED
  BY <1>5, <1>6, <1>7 DEF Lists, c

-----------------------------------------------------------------------------
(* Sorting by time.                                                        *)

Rating == [movie : Catalog, time : 0 .. Never - 1]

(* b has the entries of a, sorted by time.                                 *)
SortedFrom(b, a) ==
  /\ DOMAIN b = DOMAIN a
  /\ \A i \in DOMAIN b : \E j \in DOMAIN a : b[i] = a[j]
  /\ \A j \in DOMAIN a : \E i \in DOMAIN b : b[i] = a[j]
  /\ \A i, j \in DOMAIN b : i < j => b[i].time <= b[j].time
  /\ \A i, j \in DOMAIN b : b[i] = b[j] /\ i # j => \E k, l \in DOMAIN a : k # l /\ a[k] = a[l]

(* build_history_lookup sorts.                                             *)
LEMMA ByTimeSorts ==
  ASSUME NEW a \in Seq(Rating)
  PROVE  SortedFrom(ByTime(a), a)
<1>. DEFINE D == DOMAIN a
           n == Len(a)
           before(i, j) == \/ a[i].time < a[j].time
                           \/ a[i].time = a[j].time /\ i < j
           R == {e \in D \X D : before(e[1], e[2])}
           p == [r \in D |-> CHOOSE j \in D : RankIn(R, D, j) = r]
           b == ByTime(a)
<1>1. n \in Nat /\ D = 1 .. n
  OBVIOUS
<1>2. \A i \in D : a[i].time \in Int /\ i \in Int
  <2>1. \A i \in D : a[i] \in Rating
    BY ElementOfSeq
  <2>2. \A x \in Rating : x.time \in Int
    <3>1. \A x \in Rating : x.time \in 0 .. Never - 1
      BY DEF Rating
    <3>2. Never \in Int
      BY DEF Never
    <3>. QED  BY <3>1, <3>2
  <2>. HIDE DEF D
  <2>3. \A i \in D : a[i].time \in Int
    BY <2>1, <2>2
  <2>. QED  BY <1>1, <2>3
<1>3. \A i, j \in D : <<i, j>> \in R <=> before(i, j)
  OBVIOUS
<1>. HIDE DEF R
<1>4. Orders(R, D)
  <2>1. \A x \in D : ~ before(x, x)
    BY <1>2
  <2>2. \A x, y, z \in D : before(x, y) /\ before(y, z) => before(x, z)
    BY <1>2
  <2>3. \A x, y \in D : x = y \/ before(x, y) \/ before(y, x)
    BY <1>2
  <2>. HIDE DEF before, D
  <2>. QED  BY <1>3, <2>1, <2>2, <2>3 DEF Orders
<1>5. IsFiniteSet(D) /\ Cardinality(D) = n
  <2>1. 1 \in Int /\ n \in Int
    BY <1>1
  <2>2. IsFiniteSet(1 .. n) /\ Cardinality(1 .. n) = IF 1 > n THEN 0 ELSE n - 1 + 1
    BY <2>1, FS_Interval
  <2>. QED  BY <1>1, <2>2
<1>. HIDE DEF D
<1>6. /\ \A i \in D : RankIn(R, D, i) \in 1 .. n
      /\ \A i, j \in D : <<i, j>> \in R <=> RankIn(R, D, i) < RankIn(R, D, j)
      /\ \A i, j \in D : RankIn(R, D, i) = RankIn(R, D, j) => i = j
      /\ \A k \in 1 .. n : \E j \in D : RankIn(R, D, j) = k
  BY <1>4, <1>5, Ranks
<1>7. \A r \in D : p[r] \in D /\ RankIn(R, D, p[r]) = r
  BY <1>1, <1>6
<1>8. b = [r \in D |-> a[p[r]]]
  <2>1. b = [r \in D |-> a[CHOOSE j \in D : Cardinality({i \in D : before(i, j)}) + 1 = r]]
    BY DEF ByTime, D
  <2>2. ASSUME NEW j \in D  PROVE Cardinality({i \in D : before(i, j)}) + 1 = RankIn(R, D, j)
    <3>1. {i \in D : before(i, j)} = Below(R, D, j)
      <4>. HIDE DEF before
      <4>. QED  BY <1>3 DEF Below
    <3>. HIDE DEF before
    <3>. QED  BY <3>1 DEF RankIn
  <2>. HIDE DEF before
  <2>3. \A r : (CHOOSE j \in D : Cardinality({i \in D : before(i, j)}) + 1 = r) = (CHOOSE j \in D : RankIn(R, D, j) = r)
    <3>. TAKE r
    <3>. DEFINE F(j) == Cardinality({i \in D : before(i, j)}) + 1 = r
               G(j) == RankIn(R, D, j) = r
    <3>1. \A j \in D : F(j) <=> G(j)
      BY <2>2
    <3>. HIDE DEF F, G
    <3>2. (CHOOSE j \in D : F(j)) = (CHOOSE j \in D : G(j))
      BY <3>1, Zenon
    <3>. QED  BY <3>2 DEF F, G
  <2>. DEFINE q(r) == CHOOSE j \in D : Cardinality({i \in D : before(i, j)}) + 1 = r
  <2>4. b = [r \in D |-> a[q(r)]]
    BY <2>1
  <2>5. \A r \in D : q(r) = p[r]
    <3>. TAKE r \in D
    <3>1. p[r] = CHOOSE j \in D : RankIn(R, D, j) = r
      OBVIOUS
    <3>. HIDE DEF p
    <3>. QED  BY <2>3, <3>1, Zenon
  <2>. HIDE DEF q, p
  <2>. QED  BY <2>4, <2>5
<1>. HIDE DEF p, b
<1>9. DOMAIN b = D /\ \A r \in D : b[r] = a[p[r]]
  BY <1>8
<1>10. \A r \in D : \E j \in D : b[r] = a[j]
  BY <1>7, <1>9
<1>11. \A j \in D : \E r \in D : b[r] = a[j]
  <2>. TAKE j \in D
  <2>. DEFINE r == RankIn(R, D, j)
  <2>1. r \in D
    BY <1>1, <1>6
  <2>2. p[r] = j
    BY <1>6, <1>7, <2>1
  <2>. QED  BY <1>9, <2>1, <2>2
<1>12. \A i, j \in D : i < j => b[i].time <= b[j].time
  <2>. SUFFICES ASSUME NEW i \in D, NEW j \in D, i < j  PROVE b[i].time <= b[j].time
    OBVIOUS
  <2>1. <<p[i], p[j]>> \in R
    BY <1>6, <1>7
  <2>2. before(p[i], p[j])
    BY <1>3, <1>7, <2>1
  <2>. QED  BY <1>2, <1>7, <1>9, <2>2
<1>13. \A i, j \in D : b[i] = b[j] /\ i # j => \E k, l \in D : k # l /\ a[k] = a[l]
  <2>. SUFFICES ASSUME NEW i \in D, NEW j \in D, b[i] = b[j], i # j  PROVE \E k, l \in D : k # l /\ a[k] = a[l]
    OBVIOUS
  <2>1. p[i] # p[j]
    BY <1>7
  <2>. QED  BY <1>7, <1>9, <2>1
<1>. QED
  BY <1>9, <1>10, <1>11, <1>12, <1>13 DEF SortedFrom, D, b

-----------------------------------------------------------------------------
(* The columns of a history.                                               *)

(* The first k of a list.                                                  *)
FirstOf(f, k) == {f[i] : i \in 1 .. k}

(* They are k.                                                             *)
LEMMA ListCounts ==
  ASSUME NEW S \in SUBSET Int, NEW m \in Nat, NEW f, Lists(f, S, m), NEW k \in Nat, k <= m
  PROVE  Cardinality(FirstOf(f, k)) = k /\ IsFiniteSet(FirstOf(f, k))
<1>. DEFINE T == {f[i] : i \in 1 .. k}
           g == [i \in 1 .. k |-> f[i]]
<1>1. g \in [1 .. k -> T]
  OBVIOUS
<1>2. \A i, j \in 1 .. k : g[i] = g[j] => i = j
  <2>. SUFFICES ASSUME NEW i \in 1 .. k, NEW j \in 1 .. k, f[i] = f[j]  PROVE i = j
    OBVIOUS
  <2>1. i \in 1 .. m /\ j \in 1 .. m
    OBVIOUS
  <2>2. f[i] \in Int /\ f[j] \in Int
    BY <2>1 DEF Lists
  <2>3. i < j => f[i] < f[j]
    BY <2>1 DEF Lists
  <2>4. j < i => f[j] < f[i]
    BY <2>1 DEF Lists
  <2>. QED  BY <2>2, <2>3, <2>4
<1>3. \A t \in T : \E i \in 1 .. k : g[i] = t
  OBVIOUS
<1>4. g \in Bijection(1 .. k, T)
  <2>. HIDE DEF g, T
  <2>. QED  BY <1>1, <1>2, <1>3 DEF Bijection, Injection, Surjection, IsInjective
<1>5. ExistsBijection(1 .. k, T)
  BY <1>4 DEF ExistsBijection
<1>. HIDE DEF T
<1>6. IsFiniteSet(1 .. k) /\ k \in Nat
  BY FS_Interval
<1>7. IsFiniteSet(T)
  BY <1>5, <1>6, FS_Bijection
<1>8. Cardinality(T) = k
  BY <1>5, <1>6, FS_CountingElements
<1>. QED  BY <1>7, <1>8 DEF T, FirstOf

(* A list leaves no element out.                                           *)
LEMMA ListedIsAll ==
  ASSUME NEW S, NEW m \in Nat, NEW f, Lists(f, S, m)
  PROVE  S = FirstOf(f, m)
<1>1. \A i \in 1 .. m : f[i] \in S
  BY DEF Lists
<1>2. \A n \in S : \E i \in 1 .. m : f[i] = n
  BY DEF Lists
<1>. QED  BY <1>1, <1>2 DEF FirstOf

(* The places of a row that count, and what a row of a history is.         *)
Kept(row, time) == {i \in DOMAIN row : Valid(row[i], time)}

BeforeTells(h, row, f, m, w) ==
  /\ DOMAIN h = 1 .. w
  /\ \A c \in 1 .. w : h[c] = IF c <= Least(m, w) THEN row[f[m - c + 1]].movie ELSE Pad

(* get_history_with_timestamps_before_timestamp: the running counts give   *)
(* the last entries the first columns, the latest in front.                *)
LEMMA BeforeIs ==
  ASSUME NEW row, NEW n \in Nat, DOMAIN row = 1 .. n, NEW time, NEW w \in Nat,
         NEW m \in Nat, NEW f, Lists(f, Kept(row, time), m)
  PROVE  BeforeTells(Before(row, time, w), row, f, m, w)
<1>. DEFINE V == Kept(row, time)
           valid(i) == Valid(row[i], time)
           occ(i) == Cardinality({j \in 1 .. i : valid(j)})
           total == Cardinality({j \in DOMAIN row : valid(j)})
           recent(i) == valid(i) /\ occ(i) > total - w
           recentOcc(i) == Cardinality({j \in 1 .. i : recent(j)})
           count == Least(total, w)
           column(i) == count - recentOcc(i)
           c0 == Least(m, w)
           n0 == m - c0
<1>1. V \in SUBSET Int /\ \A i \in V : i \in 1 .. n /\ valid(i)
  BY DEF Kept
<1>2. /\ \A k \in 1 .. m : f[k] \in V
      /\ \A i, j \in 1 .. m : i < j => f[i] < f[j]
      /\ \A i \in V : \E k \in 1 .. m : f[k] = i
  BY DEF Lists
<1>3. \A i \in 1 .. n : valid(i) => i \in V
  BY DEF Kept
<1>4. c0 \in Nat /\ c0 <= m /\ c0 <= w /\ n0 \in Nat /\ n0 <= m /\ (c0 = m \/ c0 = w) /\ (c0 = m => m <= w)
  BY DEF Least
<1>. HIDE DEF V, valid, c0, n0
<1>5. \A k, l \in 1 .. m : f[l] <= f[k] <=> l <= k
  <2>. SUFFICES ASSUME NEW k \in 1 .. m, NEW l \in 1 .. m  PROVE f[l] <= f[k] <=> l <= k
    OBVIOUS
  <2>1. f[k] \in Int /\ f[l] \in Int
    BY <1>1, <1>2
  <2>2. (k < l => f[k] < f[l]) /\ (l < k => f[l] < f[k])
    BY <1>2
  <2>. QED  BY <2>1, <2>2
<1>6. \A k, l \in 1 .. m : f[l] \in 1 .. f[k] <=> l <= k
  <2>. SUFFICES ASSUME NEW k \in 1 .. m, NEW l \in 1 .. m  PROVE f[l] \in 1 .. f[k] <=> l <= k
    OBVIOUS
  <2>1. f[l] \in 1 .. n /\ f[k] \in 1 .. n
    BY <1>1, <1>2
  <2>2. f[l] <= f[k] <=> l <= k
    BY <1>5
  <2>. QED  BY <2>1, <2>2
<1>7. \A k \in 1 .. m : \A j \in 1 .. f[k] : j \in 1 .. n
  <2>. SUFFICES ASSUME NEW k \in 1 .. m, NEW j \in 1 .. f[k]  PROVE j \in 1 .. n
    OBVIOUS
  <2>1. f[k] \in 1 .. n
    BY <1>1, <1>2
  <2>. QED  BY <2>1
<1>8. ASSUME NEW k \in 1 .. m  PROVE occ(f[k]) = k
  <2>1. \A j : j \in {i \in 1 .. f[k] : valid(i)} <=> j \in FirstOf(f, k)
    <3>1. ASSUME NEW j \in 1 .. f[k], valid(j)  PROVE \E l \in 1 .. k : j = f[l]
      <4>1. PICK l \in 1 .. m : f[l] = j
        BY <1>2, <1>3, <1>7, <3>1
      <4>2. l <= k
        BY <1>6, <4>1
      <4>. QED  BY <4>1, <4>2
    <3>2. ASSUME NEW l \in 1 .. k  PROVE f[l] \in 1 .. f[k] /\ valid(f[l])
      <4>1. l \in 1 .. m /\ l <= k
        OBVIOUS
      <4>. QED  BY <1>1, <1>2, <1>6, <4>1
    <3>. QED  BY <3>1, <3>2 DEF FirstOf
  <2>2. {i \in 1 .. f[k] : valid(i)} = FirstOf(f, k)
    BY <2>1, Zenon
  <2>3. k \in Nat /\ k <= m
    OBVIOUS
  <2>4. Cardinality(FirstOf(f, k)) = k
    BY <1>1, <2>3, ListCounts, SMT DEF V
  <2>. QED  BY <2>2, <2>4
<1>9. total = m
  <2>1. \A j : j \in {i \in DOMAIN row : valid(i)} <=> j \in V
    BY <1>1, <1>3
  <2>2. {i \in DOMAIN row : valid(i)} = V
    BY <2>1, Zenon
  <2>3. V = FirstOf(f, m)
    BY ListedIsAll DEF V
  <2>4. m \in Nat /\ m <= m
    OBVIOUS
  <2>5. Cardinality(FirstOf(f, m)) = m
    BY <1>1, <2>4, ListCounts, SMT DEF V
  <2>. QED  BY <2>2, <2>3, <2>5
<1>10. count = c0
  BY <1>9 DEF c0
<1>. HIDE DEF total, occ
<1>11. \A k \in 1 .. m : recent(f[k]) <=> k > n0
  <2>. SUFFICES ASSUME NEW k \in 1 .. m  PROVE recent(f[k]) <=> k > n0
    OBVIOUS
  <2>1. valid(f[k]) /\ occ(f[k]) = k /\ total = m
    BY <1>1, <1>2, <1>8, <1>9
  <2>2. k > m - w <=> k > n0
    BY <1>4 DEF n0
  <2>. QED  BY <2>1, <2>2
<1>12. \A i \in 1 .. n : recent(i) => \E k \in 1 .. m : f[k] = i /\ k > n0
  BY <1>2, <1>3, <1>11
<1>. HIDE DEF recent
<1>13. ASSUME NEW k \in 1 .. m, k > n0  PROVE column(f[k]) = m - k
  <2>1. \A j : j \in {i \in 1 .. f[k] : recent(i)} <=> j \in FirstOf(f, k) \ FirstOf(f, n0)
    <3>1. ASSUME NEW j \in 1 .. f[k], recent(j)
          PROVE  (\E l \in 1 .. k : j = f[l]) /\ ~ \E l \in 1 .. n0 : j = f[l]
      <4>1. PICK l \in 1 .. m : f[l] = j /\ l > n0
        BY <1>7, <1>12, <3>1
      <4>2. l <= k
        BY <1>6, <4>1
      <4>3. ASSUME NEW x \in 1 .. n0, j = f[x]  PROVE FALSE
        <5>1. x \in 1 .. m /\ f[x] <= f[l] /\ f[l] <= f[x]
          <6>1. x \in 1 .. m
            BY <1>4
          <6>2. f[l] \in Int
            BY <1>1, <1>2
          <6>. QED  BY <4>1, <4>3, <6>1, <6>2
        <5>2. l <= x
          BY <1>5, <5>1
        <5>. QED  BY <1>4, <4>1, <5>2
      <4>. QED  BY <4>1, <4>2, <4>3
    <3>2. ASSUME NEW l \in 1 .. k, ~ \E x \in 1 .. n0 : f[l] = f[x]
          PROVE  f[l] \in 1 .. f[k] /\ recent(f[l])
      <4>1. l \in 1 .. m /\ l <= k /\ ~ (l \in 1 .. n0)
        BY <3>2
      <4>2. l > n0
        BY <1>4, <4>1
      <4>. QED  BY <1>6, <1>11, <4>1, <4>2
    <3>. QED  BY <3>1, <3>2 DEF FirstOf
  <2>2. {i \in 1 .. f[k] : recent(i)} = FirstOf(f, k) \ FirstOf(f, n0)
    BY <2>1, Zenon
  <2>3. k \in Nat /\ k <= m /\ n0 \in Nat /\ n0 <= m
    BY <1>4
  <2>4. /\ Cardinality(FirstOf(f, k)) = k /\ IsFiniteSet(FirstOf(f, k))
        /\ Cardinality(FirstOf(f, n0)) = n0
    BY <1>1, <2>3, ListCounts, SMT DEF V
  <2>5. FirstOf(f, k) \cap FirstOf(f, n0) = FirstOf(f, n0)
    BY <1>4, <1>13 DEF FirstOf
  <2>6. Cardinality(FirstOf(f, k) \ FirstOf(f, n0)) = k - n0
    <3>. DEFINE A == FirstOf(f, k)
                B == FirstOf(f, n0)
    <3>1. IsFiniteSet(A) /\ A \cap B = B /\ Cardinality(A) = k /\ Cardinality(B) = n0
      BY <2>4, <2>5
    <3>. HIDE DEF A, B
    <3>2. Cardinality(A \ B) = Cardinality(A) - Cardinality(A \cap B)
      BY <3>1, FS_Difference
    <3>3. Cardinality(A \ B) = k - n0
      BY <3>1, <3>2
    <3>. QED  BY <3>3 DEF A, B
  <2>7. column(f[k]) = c0 - (k - n0)
    BY <1>10, <2>2, <2>6
  <2>. HIDE DEF column
  <2>. QED  BY <1>4, <2>3, <2>7 DEF n0
<1>. HIDE DEF column
<1>14. Before(row, time, w) =
         [c \in 1 .. w |->
           IF c > count THEN Pad
           ELSE row[CHOOSE i \in DOMAIN row : recent(i) /\ column(i) = c - 1].movie]
  BY DEF Before, valid, occ, total, recent, column
<1>. HIDE DEF count
<1>15. ASSUME NEW c \in 1 .. w, c <= c0
       PROVE  (CHOOSE i \in DOMAIN row : recent(i) /\ column(i) = c - 1) = f[m - c + 1]
  <2>. DEFINE k == m - c + 1
  <2>1. k \in 1 .. m /\ k > n0 /\ m - k = c - 1
    BY <1>4, <1>15 DEF n0
  <2>. HIDE DEF k
  <2>2. f[k] \in DOMAIN row /\ recent(f[k]) /\ column(f[k]) = c - 1
    BY <1>1, <1>2, <1>11, <1>13, <2>1
  <2>3. ASSUME NEW i \in DOMAIN row, recent(i), column(i) = c - 1  PROVE i = f[k]
    <3>1. PICK l \in 1 .. m : f[l] = i /\ l > n0
      BY <1>12, <2>3
    <3>2. column(i) = m - l
      BY <1>13, <3>1
    <3>3. l = k
      BY <2>1, <2>3, <3>2
    <3>. QED  BY <3>1, <3>3
  <2>4. \A i \in DOMAIN row : recent(i) /\ column(i) = c - 1 => i = f[k]
    BY <2>3
  <2>5. (CHOOSE i \in DOMAIN row : recent(i) /\ column(i) = c - 1) = f[k]
    BY <2>2, <2>4, Zenon
  <2>. QED  BY <2>5 DEF k
<1>16. ASSUME NEW c \in 1 .. w
       PROVE  Before(row, time, w)[c] = IF c <= c0 THEN row[f[m - c + 1]].movie ELSE Pad
  <2>1. CASE c <= c0
    <3>1. ~ (c > count)
      BY <1>4, <1>10, <2>1
    <3>2. Before(row, time, w)[c] = row[CHOOSE i \in DOMAIN row : recent(i) /\ column(i) = c - 1].movie
      BY <1>14, <3>1
    <3>. QED  BY <1>15, <2>1, <3>2
  <2>2. CASE ~ (c <= c0)
    <3>1. c > count
      BY <1>4, <1>10, <2>2
    <3>. QED  BY <1>14, <2>2, <3>1
  <2>. QED  BY <2>1, <2>2
<1>17. DOMAIN Before(row, time, w) = 1 .. w
  BY <1>14
<1>. QED
  BY <1>16, <1>17 DEF BeforeTells, c0

-----------------------------------------------------------------------------
(* The past of a user.                                                     *)

(* The movies of a file that were rated before a time.                     *)
Past(a, time) == {a[i].movie : i \in Kept(a, time)}

LEMMA KeptFinite ==
  ASSUME NEW row \in Seq(Rating), NEW time
  PROVE  /\ Kept(row, time) \in SUBSET Int /\ IsFiniteSet(Kept(row, time))
         /\ Cardinality(Kept(row, time)) \in Nat
         /\ Cardinality(Kept(row, time)) <= Len(row)
<1>. DEFINE V == Kept(row, time)
           D == 1 .. Len(row)
<1>1. Len(row) \in Nat /\ DOMAIN row = D
  OBVIOUS
<1>2. V \in SUBSET D
  BY <1>1 DEF Kept
<1>3. V \in SUBSET Int
  BY <1>2
<1>4. IsFiniteSet(D) /\ Cardinality(D) = Len(row)
  BY <1>1, FS_Interval
<1>. HIDE DEF V, D
<1>5. IsFiniteSet(V) /\ Cardinality(V) <= Cardinality(D)
  BY <1>2, <1>4, FS_Subset
<1>6. Cardinality(V) \in Nat
  BY <1>5, FS_CardinalityType
<1>. QED  BY <1>3, <1>4, <1>5, <1>6 DEF V

(* A whole past: every movie rated before, and padding behind.             *)
LEMMA UptoBefore ==
  ASSUME NEW row \in Seq(Rating), NEW time, NEW w \in Nat, Len(row) <= w
  PROVE  Upto(Before(row, time, w)) = Past(row, time)
<1>. DEFINE V == Kept(row, time)
           m == Cardinality(V)
           n == Len(row)
           h == Before(row, time, w)
<1>1. n \in Nat /\ DOMAIN row = 1 .. n
  OBVIOUS
<1>2. V \in SUBSET Int /\ IsFiniteSet(V) /\ m \in Nat /\ m <= n
  BY KeptFinite
<1>. HIDE DEF m
<1>3. PICK f : Lists(f, V, m)
  <2>. HIDE DEF V
  <2>. QED  BY <1>2, SetListed, Zenon DEF m
<1>4. BeforeTells(h, row, f, m, w)
  <2>1. Lists(f, Kept(row, time), m)
    BY <1>3
  <2>. HIDE DEF n, V
  <2>. QED  BY <1>1, <1>2, <2>1, BeforeIs
<1>5. m <= w
  BY <1>1, <1>2
<1>. HIDE DEF h
<1>6. DOMAIN h = 1 .. w
  BY <1>4 DEF BeforeTells
<1>7. \A c \in 1 .. m : h[c] = row[f[m - c + 1]].movie
  BY <1>2, <1>4, <1>5 DEF BeforeTells, Least
<1>8. \A c \in 1 .. w : c > m => h[c] = Pad
  BY <1>2, <1>4, <1>5 DEF BeforeTells, Least
<1>9. \A k \in 1 .. m : f[k] \in V
  BY <1>3 DEF Lists
<1>10. \A i \in V : i \in 1 .. n /\ row[i].movie # Pad
  <2>. SUFFICES ASSUME NEW i \in V  PROVE i \in 1 .. n /\ row[i].movie # Pad
    OBVIOUS
  <2>1. i \in 1 .. n
    BY <1>1 DEF Kept
  <2>2. row[i] \in Rating
    BY <2>1
  <2>3. row[i].movie \in Nat
    BY <2>2, NegativesAssumption DEF Rating
  <2>. QED  BY <2>1, <2>3 DEF Pad
<1>11. \A i \in V : \E k \in 1 .. m : f[k] = i
  BY <1>3 DEF Lists
<1>. HIDE DEF V, n
<1>12. \A c \in 1 .. m : h[c] # Pad
  <2>. SUFFICES ASSUME NEW c \in 1 .. m  PROVE h[c] # Pad
    OBVIOUS
  <2>1. m - c + 1 \in 1 .. m
    BY <1>2
  <2>. QED  BY <1>7, <1>9, <1>10, <2>1
<1>13. \A j \in 1 .. w : (\A x \in 1 .. j : h[x] # Pad) <=> j \in 1 .. m
  <2>. SUFFICES ASSUME NEW j \in 1 .. w  PROVE (\A x \in 1 .. j : h[x] # Pad) <=> j \in 1 .. m
    OBVIOUS
  <2>1. CASE j <= m
    <3>1. \A x \in 1 .. j : x \in 1 .. m
      BY <1>2, <2>1
    <3>. QED  BY <1>2, <1>12, <2>1, <3>1
  <2>2. CASE ~ (j <= m)
    <3>1. h[j] = Pad /\ j \in 1 .. j
      BY <1>2, <1>8, <2>2
    <3>. QED  BY <2>2, <3>1
  <2>. QED  BY <2>1, <2>2
<1>14. \A v : v \in Upto(h) <=> \E j \in 1 .. m : v = h[j]
  <2>1. \A j \in 1 .. m : j \in 1 .. w
    BY <1>2, <1>5
  <2>. QED  BY <1>6, <1>13, <2>1 DEF Upto
<1>15. \A v : v \in Upto(h) <=> \E i \in V : v = row[i].movie
  <2>1. ASSUME NEW j \in 1 .. m  PROVE \E i \in V : h[j] = row[i].movie
    <3>1. m - j + 1 \in 1 .. m
      BY <1>2
    <3>. QED  BY <1>7, <1>9, <3>1
  <2>2. ASSUME NEW i \in V  PROVE \E j \in 1 .. m : row[i].movie = h[j]
    <3>1. PICK k \in 1 .. m : f[k] = i
      BY <1>11
    <3>2. m - k + 1 \in 1 .. m /\ m - (m - k + 1) + 1 = k
      BY <1>2
    <3>. QED  BY <1>7, <3>1, <3>2
  <2>. QED  BY <1>14, <2>1, <2>2
<1>16. Upto(h) = {row[i].movie : i \in V}
  BY <1>15
<1>. QED  BY <1>16 DEF Past, V, h

(* Sorting changes nothing of what is past.                                *)
LEMMA SortedPast ==
  ASSUME NEW a \in Seq(Rating), NEW time
  PROVE  /\ ByTime(a) \in Seq(Rating) /\ Len(ByTime(a)) = Len(a)
         /\ Past(ByTime(a), time) = Past(a, time)
<1>. DEFINE b == ByTime(a)
<1>1. SortedFrom(b, a)
  BY ByTimeSorts
<1>2. b = [i \in DOMAIN b |-> b[i]]
  BY DEF ByTime
<1>. HIDE DEF b
<1>3. Len(a) \in Nat /\ DOMAIN a = 1 .. Len(a) /\ \A j \in DOMAIN a : a[j] \in Rating
  BY ElementOfSeq
<1>4. DOMAIN b = 1 .. Len(a) /\ \A i \in DOMAIN b : b[i] \in Rating
  BY <1>1, <1>3 DEF SortedFrom
<1>5. b \in [1 .. Len(a) -> Rating]
  BY <1>2, <1>4
<1>6. b \in Seq(Rating) /\ Len(b) = Len(a)
  BY <1>3, <1>5
<1>7. \A v : v \in Past(b, time) <=> v \in Past(a, time)
  <2>1. \A i \in DOMAIN b : \E j \in DOMAIN a : b[i] = a[j]
    BY <1>1 DEF SortedFrom
  <2>2. \A j \in DOMAIN a : \E i \in DOMAIN b : b[i] = a[j]
    BY <1>1 DEF SortedFrom
  <2>. QED  BY <2>1, <2>2 DEF Past, Kept
<1>. QED  BY <1>6, <1>7 DEF b

(* What the record says of a movie, in either file.                        *)
LEMMA DataIs ==
  ASSUME data \in DataSets
  PROVE  /\ data.movie \in Catalog /\ data.time \in Int /\ data.time >= 0 /\ data.time < Never
         /\ data.liked \in Seq(Rating) /\ data.disliked \in Seq(Rating)
         /\ AllRatings \in Seq(Rating)
         /\ \A i, j \in DOMAIN AllRatings : AllRatings[i].movie = AllRatings[j].movie => i = j
         /\ \A i \in DOMAIN AllRatings : AllRatings[i].movie = data.movie => AllRatings[i].time = data.time
<1>1. IsDataSet(data)
  BY NegativesAssumption
<1>2. data.movie \in Catalog /\ data.time \in 0 .. Never - 1
  BY <1>1 DEF IsDataSet
<1>3. data.time \in Int /\ data.time >= 0 /\ data.time < Never
  BY <1>2 DEF Never
<1>. DEFINE ok(file) ==
       /\ file \in Seq([movie : Catalog, time : 0 .. Never - 1])
       /\ \A i, j \in DOMAIN file : file[i].movie = file[j].movie => i = j
       /\ \A i \in DOMAIN file : file[i].movie = data.movie => file[i].time = data.time
<1>4. \A file \in {data.liked, data.disliked, data.liked \o data.disliked} : ok(file)
  BY <1>1, Zenon DEF IsDataSet
<1>5. ok(data.liked) /\ ok(data.disliked) /\ ok(data.liked \o data.disliked)
  <2>. HIDE DEF ok
  <2>. QED  BY <1>4
<1>. QED  BY <1>2, <1>3, <1>5, Zenon DEF Rating, AllRatings

-----------------------------------------------------------------------------
(* Rows and padding.                                                       *)

PaddedMovies == Catalog \cup {Pad}

LEMMA CatalogIs ==
  /\ \A m \in Catalog : m \in Nat /\ m # Pad /\ m # 0
  /\ Recommended \in Seq(Catalog) /\ IsInjective(Recommended) /\ IsFiniteSet(Catalog)
  /\ NumCandidates \in Nat /\ NumCandidates >= 1 /\ NumNegatives \in Nat /\ NumCandidates = NumNegatives + 1
  /\ MaxHistory \in Nat
BY NegativesAssumption DEF Pad, NumNegatives

(* A history is a row of movies and padding.                               *)
LEMMA BeforeRow ==
  ASSUME NEW row \in Seq(Rating), NEW time, NEW w \in Nat
  PROVE  Before(row, time, w) \in Seq(PaddedMovies) /\ Len(Before(row, time, w)) = w
<1>. DEFINE V == Kept(row, time)
           m == Cardinality(V)
           n == Len(row)
           h == Before(row, time, w)
<1>1. n \in Nat /\ DOMAIN row = 1 .. n
  OBVIOUS
<1>2. V \in SUBSET Int /\ IsFiniteSet(V) /\ m \in Nat /\ m <= n
  BY KeptFinite
<1>. HIDE DEF m
<1>3. PICK f : Lists(f, V, m)
  <2>. HIDE DEF V
  <2>. QED  BY <1>2, SetListed, Zenon DEF m
<1>4. BeforeTells(h, row, f, m, w)
  <2>1. Lists(f, Kept(row, time), m)
    BY <1>3
  <2>. HIDE DEF n, V
  <2>. QED  BY <1>1, <1>2, <2>1, BeforeIs
<1>5. h = [i \in DOMAIN h |-> h[i]]
  BY DEF Before
<1>. HIDE DEF h
<1>6. DOMAIN h = 1 .. w
  BY <1>4 DEF BeforeTells
<1>7. ASSUME NEW c \in 1 .. w  PROVE h[c] \in PaddedMovies
  <2>1. CASE c <= m /\ c <= w
    <3>1. h[c] = row[f[m - c + 1]].movie
      BY <1>2, <1>4, <2>1 DEF BeforeTells, Least
    <3>2. m - c + 1 \in 1 .. m
      BY <1>2, <2>1
    <3>3. f[m - c + 1] \in V
      BY <1>3, <3>2 DEF Lists
    <3>4. f[m - c + 1] \in 1 .. n
      BY <1>1, <3>3 DEF Kept
    <3>5. row[f[m - c + 1]] \in Rating
      BY <3>4
    <3>. QED  BY <3>1, <3>5 DEF Rating, PaddedMovies
  <2>2. CASE ~ (c <= m /\ c <= w)
    <3>1. h[c] = Pad
      BY <1>2, <1>4, <2>2 DEF BeforeTells, Least
    <3>. QED  BY <3>1 DEF PaddedMovies
  <2>. QED  BY <2>1, <2>2
<1>8. h \in [1 .. w -> PaddedMovies]
  BY <1>5, <1>6, <1>7
<1>9. h \in Seq(PaddedMovies) /\ Len(h) = w
  BY <1>8
<1>. QED  BY <1>9 DEF h

(* What a user's whole line says: what was rated before the record.        *)
LEMMA PastOfFile ==
  ASSUME data \in DataSets, NEW a \in Seq(Rating)
  PROVE  /\ Upto(Before(UserRow(a), data.time, Width(a))) = RatedBefore(a)
         /\ Before(UserRow(a), data.time, Width(a)) \in Seq(PaddedMovies)
<1>1. UserRow(a) \in Seq(Rating) /\ Len(UserRow(a)) <= Len(a)
  <2>1. ByTime(a) \in Seq(Rating) /\ Len(ByTime(a)) = Len(a)
    BY SortedPast
  <2>2. Len(a) \in Nat /\ <<>> \in Seq(Rating) /\ Len(<<>>) = 0
    OBVIOUS
  <2>. QED  BY <2>1, <2>2 DEF UserRow
<1>2. Width(a) \in Nat /\ Len(a) <= Width(a)
  BY CatalogIs DEF Width
<1>3. Len(UserRow(a)) <= Width(a)
  BY <1>1, <1>2
<1>4. Upto(Before(UserRow(a), data.time, Width(a))) = Past(UserRow(a), data.time)
  BY <1>1, <1>2, <1>3, UptoBefore
<1>5. Past(UserRow(a), data.time) = IF data.known THEN Past(a, data.time) ELSE {}
  <2>1. CASE data.known
    BY <2>1, SortedPast DEF UserRow
  <2>2. CASE ~ data.known
    BY <2>2 DEF UserRow, Past, Kept
  <2>. QED  BY <2>1, <2>2
<1>6. Past(a, data.time) = {r.movie : r \in {q \in Rated(a) : q.time < data.time}}
  <2>1. \A i \in DOMAIN a : Valid(a[i], data.time) <=> a[i].time < data.time
    <3>. SUFFICES ASSUME NEW i \in DOMAIN a  PROVE Valid(a[i], data.time) <=> a[i].time < data.time
      OBVIOUS
    <3>1. a[i] \in Rating
      BY ElementOfSeq
    <3>2. a[i].time \in 0 .. Never - 1
      BY <3>1 DEF Rating
    <3>3. Never \in Int
      BY DEF Never
    <3>4. a[i].time < Never
      BY <3>2, <3>3
    <3>. QED  BY <3>4 DEF Valid
  <2>. DEFINE rec(r) == [movie |-> r.movie, time |-> r.time]
  <2>2. \A r : r \in Rated(a) <=> \E i \in DOMAIN a : r = rec(a[i])
    BY DEF Rated, ToSet
  <2>3. \A i \in DOMAIN a : rec(a[i]).movie = a[i].movie /\ rec(a[i]).time = a[i].time
    OBVIOUS
  <2>. HIDE DEF rec
  <2>4. \A v : v \in Past(a, data.time) <=> \E i \in DOMAIN a : a[i].time < data.time /\ v = a[i].movie
    BY <2>1 DEF Past, Kept
  <2>5. \A v : (\E r \in Rated(a) : r.time < data.time /\ v = r.movie)
               <=> \E i \in DOMAIN a : a[i].time < data.time /\ v = a[i].movie
    BY <2>2, <2>3
  <2>. QED  BY <2>4, <2>5
<1>7. Upto(Before(UserRow(a), data.time, Width(a))) = RatedBefore(a)
  BY <1>4, <1>5, <1>6 DEF RatedBefore
<1>8. Before(UserRow(a), data.time, Width(a)) \in Seq(PaddedMovies)
  BY <1>1, <1>2, BeforeRow
<1>. QED  BY <1>7, <1>8

(* A row without padding counts whole, and the positive before one hides   *)
(* nothing.                                                                *)
LEMMA UptoWhole ==
  ASSUME NEW a \in Seq(Catalog)
  PROVE  Upto(a) = ToSet(a)
<1>1. \A i \in DOMAIN a : a[i] # Pad /\ \A h \in 1 .. i : h \in DOMAIN a
  <2>. SUFFICES ASSUME NEW i \in DOMAIN a  PROVE a[i] # Pad /\ \A h \in 1 .. i : h \in DOMAIN a
    OBVIOUS
  <2>1. a[i] \in Catalog
    BY ElementOfSeq
  <2>2. i \in 1 .. Len(a) /\ Len(a) \in Nat /\ DOMAIN a = 1 .. Len(a)
    OBVIOUS
  <2>3. \A h \in 1 .. i : h \in 1 .. Len(a)
    BY <2>2
  <2>. QED  BY <2>1, <2>2, <2>3, CatalogIs
<1>2. {j \in DOMAIN a : \A h \in 1 .. j : a[h] # Pad} = DOMAIN a
  BY <1>1
<1>. QED  BY <1>2 DEF Upto, ToSet

LEMMA UptoPrepended ==
  ASSUME NEW h \in Seq(PaddedMovies), NEW m \in Catalog
  PROVE  Upto(<<m>> \o h) = {m} \cup Upto(h)
<1>. DEFINE n == Len(h)
           g == <<m>> \o h
<1>1. n \in Nat /\ DOMAIN h = 1 .. n
  OBVIOUS
<1>2. m \in PaddedMovies
  BY DEF PaddedMovies
<1>3. DOMAIN g = 1 .. n + 1 /\ g[1] = m /\ \A i \in 1 .. n : g[i + 1] = h[i]
  BY <1>1, <1>2
<1>. HIDE DEF g, n
<1>4. m # Pad
  BY CatalogIs
<1>5. \A i \in 1 .. n : (\A x \in 1 .. i + 1 : g[x] # Pad) <=> (\A x \in 1 .. i : h[x] # Pad)
  <2>. SUFFICES ASSUME NEW i \in 1 .. n
                PROVE  (\A x \in 1 .. i + 1 : g[x] # Pad) <=> (\A x \in 1 .. i : h[x] # Pad)
    OBVIOUS
  <2>1. ASSUME NEW x \in 1 .. i + 1, x # 1  PROVE x - 1 \in 1 .. i /\ g[x] = h[x - 1]
    <3>1. x - 1 \in 1 .. i /\ x - 1 \in 1 .. n /\ x = (x - 1) + 1
      BY <1>1, <2>1
    <3>. QED  BY <1>3, <3>1
  <2>2. ASSUME NEW x \in 1 .. i  PROVE x + 1 \in 1 .. i + 1 /\ g[x + 1] = h[x]
    <3>1. x + 1 \in 1 .. i + 1 /\ x \in 1 .. n
      BY <1>1
    <3>. QED  BY <1>3, <3>1
  <2>3. ASSUME \A x \in 1 .. i + 1 : g[x] # Pad, NEW x \in 1 .. i  PROVE h[x] # Pad
    BY <2>2, <2>3
  <2>4. ASSUME \A x \in 1 .. i : h[x] # Pad, NEW x \in 1 .. i + 1  PROVE g[x] # Pad
    <3>1. CASE x = 1
      BY <1>3, <1>4, <3>1
    <3>2. CASE x # 1
      BY <2>1, <2>4, <3>2
    <3>. QED  BY <3>1, <3>2
  <2>. QED  BY <2>3, <2>4
<1>6. \A x \in 1 .. 1 : g[x] # Pad
  <2>1. \A x \in 1 .. 1 : x = 1
    OBVIOUS
  <2>. QED  BY <1>3, <1>4, <2>1
<1>7. ASSUME NEW v, v \in Upto(g)  PROVE v \in {m} \cup Upto(h)
  <2>1. PICK j \in 1 .. n + 1 : v = g[j] /\ \A x \in 1 .. j : g[x] # Pad
    BY <1>3, <1>7 DEF Upto
  <2>2. CASE j = 1
    BY <1>3, <2>1, <2>2
  <2>3. CASE j # 1
    <3>. DEFINE i == j - 1
    <3>1. i \in 1 .. n /\ j = i + 1
      BY <1>1, <2>3
    <3>. HIDE DEF i
    <3>2. v = h[i] /\ \A x \in 1 .. i : h[x] # Pad
      BY <1>3, <1>5, <2>1, <3>1
    <3>. QED  BY <1>1, <3>1, <3>2 DEF Upto
  <2>. QED  BY <2>2, <2>3
<1>8. ASSUME NEW v, v \in {m} \cup Upto(h)  PROVE v \in Upto(g)
  <2>1. CASE v = m
    <3>1. 1 \in 1 .. n + 1
      BY <1>1
    <3>. QED  BY <1>3, <1>6, <2>1, <3>1 DEF Upto
  <2>2. CASE v \in Upto(h)
    <3>1. PICK i \in 1 .. n : v = h[i] /\ \A x \in 1 .. i : h[x] # Pad
      BY <1>1, <2>2 DEF Upto
    <3>2. i + 1 \in 1 .. n + 1
      BY <1>1
    <3>3. v = g[i + 1] /\ \A x \in 1 .. i + 1 : g[x] # Pad
      BY <1>3, <1>5, <3>1
    <3>. QED  BY <1>3, <3>2, <3>3 DEF Upto
  <2>. QED  BY <1>8, <2>1, <2>2
<1>. QED  BY <1>7, <1>8 DEF g

-----------------------------------------------------------------------------
(* What was rated, and what was not seen.                                  *)

LEMMA RatedBeforeIs ==
  ASSUME NEW a
  PROVE  \A v : v \in RatedBefore(a)
                <=> data.known /\ \E i \in DOMAIN a : a[i].time < data.time /\ v = a[i].movie
<1>. DEFINE rec(r) == [movie |-> r.movie, time |-> r.time]
<1>1. \A r : r \in Rated(a) <=> \E i \in DOMAIN a : r = rec(a[i])
  BY DEF Rated, ToSet
<1>2. \A i \in DOMAIN a : rec(a[i]).movie = a[i].movie /\ rec(a[i]).time = a[i].time
  OBVIOUS
<1>. HIDE DEF rec
<1>3. \A v : (\E r \in Rated(a) : r.time < data.time /\ v = r.movie)
             <=> \E i \in DOMAIN a : a[i].time < data.time /\ v = a[i].movie
  BY <1>1, <1>2
<1>. QED  BY <1>3 DEF RatedBefore

(* Where a rating of the user stands.                                      *)
LEMMA AllIs ==
  ASSUME data \in DataSets
  PROVE  /\ \A i \in DOMAIN AllRatings : \/ \E j \in DOMAIN data.liked : AllRatings[i] = data.liked[j]
                                         \/ \E j \in DOMAIN data.disliked : AllRatings[i] = data.disliked[j]
         /\ \A j \in DOMAIN data.liked : \E i \in DOMAIN AllRatings : AllRatings[i] = data.liked[j]
         /\ \A j \in DOMAIN data.disliked : \E i \in DOMAIN AllRatings : AllRatings[i] = data.disliked[j]
         /\ \A j \in DOMAIN data.liked, k \in DOMAIN data.disliked : data.liked[j].movie # data.disliked[k].movie
<1>. DEFINE a == data.liked
           b == data.disliked
           c == AllRatings
<1>1. a \in Seq(Rating) /\ b \in Seq(Rating) /\ c = a \o b
  BY DataIs DEF AllRatings
<1>2. \A i, j \in DOMAIN c : c[i].movie = c[j].movie => i = j
  BY DataIs
<1>. HIDE DEF a, b, c
<1>3. Len(a) \in Nat /\ Len(b) \in Nat /\ DOMAIN a = 1 .. Len(a) /\ DOMAIN b = 1 .. Len(b)
  BY <1>1
<1>4. DOMAIN c = 1 .. Len(a) + Len(b)
  BY <1>1
<1>5. \A i \in 1 .. Len(a) : c[i] = a[i]
  BY <1>1
<1>6. \A i \in 1 .. Len(b) : c[Len(a) + i] = b[i]
  BY <1>1
<1>7. ASSUME NEW i \in DOMAIN c
      PROVE  (\E j \in DOMAIN a : c[i] = a[j]) \/ \E j \in DOMAIN b : c[i] = b[j]
  <2>1. CASE i <= Len(a)
    <3>1. i \in 1 .. Len(a)
      BY <1>3, <1>4, <2>1
    <3>. QED  BY <1>3, <1>5, <3>1
  <2>2. CASE ~ (i <= Len(a))
    <3>1. i - Len(a) \in 1 .. Len(b) /\ i = Len(a) + (i - Len(a))
      BY <1>3, <1>4, <2>2
    <3>. QED  BY <1>3, <1>6, <3>1
  <2>. QED  BY <2>1, <2>2
<1>8. \A j \in DOMAIN a : j \in DOMAIN c
  BY <1>3, <1>4
<1>9. \A j \in DOMAIN b : Len(a) + j \in DOMAIN c
  BY <1>3, <1>4
<1>10. ASSUME NEW j \in DOMAIN a, NEW k \in DOMAIN b  PROVE a[j].movie # b[k].movie
  <2>1. c[j] = a[j] /\ c[Len(a) + k] = b[k]
    BY <1>3, <1>5, <1>6
  <2>2. j # Len(a) + k
    BY <1>3
  <2>. QED  BY <1>2, <1>8, <1>9, <2>1, <2>2
<1>. QED  BY <1>3, <1>5, <1>6, <1>7, <1>8, <1>9, <1>10 DEF a, b, c

(* The past is what was liked and what was disliked, nothing both, and the *)
(* record's movie is not in it.                                            *)
LEMMA PastSplits ==
  ASSUME data \in DataSets
  PROVE  /\ RatedBefore(AllRatings) = LikedBefore \cup DislikedBefore
         /\ LikedBefore \cap DislikedBefore = {}
         /\ data.movie \notin RatedBefore(AllRatings)
         /\ RatedBefore(AllRatings) \subseteq Catalog
<1>. DEFINE a == data.liked
           b == data.disliked
           c == AllRatings
<1>1. /\ \A i \in DOMAIN c : (\E j \in DOMAIN a : c[i] = a[j]) \/ \E j \in DOMAIN b : c[i] = b[j]
      /\ \A j \in DOMAIN a : \E i \in DOMAIN c : c[i] = a[j]
      /\ \A j \in DOMAIN b : \E i \in DOMAIN c : c[i] = b[j]
      /\ \A j \in DOMAIN a, k \in DOMAIN b : a[j].movie # b[k].movie
  BY AllIs
<1>2. c \in Seq(Rating) /\ \A i \in DOMAIN c : c[i].movie = data.movie => c[i].time = data.time
  BY DataIs
<1>3. data.time \in Int
  BY DataIs
<1>4. /\ \A v : v \in RatedBefore(a) <=> data.known /\ \E i \in DOMAIN a : a[i].time < data.time /\ v = a[i].movie
      /\ \A v : v \in RatedBefore(b) <=> data.known /\ \E i \in DOMAIN b : b[i].time < data.time /\ v = b[i].movie
      /\ \A v : v \in RatedBefore(c) <=> data.known /\ \E i \in DOMAIN c : c[i].time < data.time /\ v = c[i].movie
  BY RatedBeforeIs
<1>5. \A i \in DOMAIN c : c[i].movie \in Catalog
  <2>1. \A i \in DOMAIN c : c[i] \in Rating
    BY <1>2, ElementOfSeq
  <2>. QED  BY <2>1 DEF Rating
<1>. HIDE DEF a, b, c
<1>6. RatedBefore(c) = RatedBefore(a) \cup RatedBefore(b)
  <2>1. \A v : v \in RatedBefore(c) <=> v \in RatedBefore(a) \/ v \in RatedBefore(b)
    BY <1>1, <1>4
  <2>. QED  BY <2>1
<1>7. RatedBefore(a) \cap RatedBefore(b) = {}
  BY <1>1, <1>4
<1>8. data.movie \notin RatedBefore(c)
  BY <1>2, <1>3, <1>4
<1>9. RatedBefore(c) \subseteq Catalog
  BY <1>4, <1>5
<1>. QED  BY <1>6, <1>7, <1>8, <1>9 DEF a, b, c, LikedBefore, DislikedBefore

(* What the recommendations count as unseen.                               *)
LEMMA UnseenIs ==
  ASSUME data \in DataSets, NEW m
  PROVE  /\ Unseen(m) <=> m # data.movie /\ ~\E r \in Rated(AllRatings) : r.movie = m /\ r.time <= data.time
         /\ Unseen(m) => m \notin RatedBefore(AllRatings)
<1>. DEFINE c == AllRatings
           at == {r.time : r \in {q \in ToSet(c) : q.movie = m}}
           seen == \E i \in DOMAIN c : c[i].movie = m /\ c[i].time <= data.time
<1>1. \A i, j \in DOMAIN c : c[i].movie = c[j].movie => i = j
  BY DataIs
<1>2. data.time \in Int /\ data.time < Never
  BY DataIs
<1>3. \A i \in DOMAIN c : c[i].time \in Int
  <2>1. \A i \in DOMAIN c : c[i] \in Rating
    BY DataIs, ElementOfSeq
  <2>. QED  BY <2>1 DEF Rating
<1>4. \A t : t \in at <=> \E i \in DOMAIN c : c[i].movie = m /\ t = c[i].time
  BY DEF ToSet
<1>5. (\E r \in Rated(c) : r.movie = m /\ r.time <= data.time) <=> seen
  <2>. DEFINE rec(r) == [movie |-> r.movie, time |-> r.time]
  <2>1. \A r : r \in Rated(c) <=> \E i \in DOMAIN c : r = rec(c[i])
    BY DEF Rated, ToSet
  <2>2. \A i \in DOMAIN c : rec(c[i]).movie = c[i].movie /\ rec(c[i]).time = c[i].time
    OBVIOUS
  <2>. HIDE DEF rec, c
  <2>. QED  BY <2>1, <2>2
<1>6. SeenAt(m) = IF m = data.movie THEN data.time ELSE IF at = {} THEN Never ELSE CHOOSE t \in at : TRUE
  BY DEF SeenAt
<1>7. \A v : v \in RatedBefore(c) => \E i \in DOMAIN c : c[i].time < data.time /\ v = c[i].movie
  BY RatedBeforeIs
<1>. HIDE DEF c, at
<1>8. Never \in Int
  BY DEF Never
<1>9. Unseen(m) <=> m # data.movie /\ ~ seen
  <2>1. CASE m = data.movie
    BY <1>2, <1>6, <2>1 DEF Unseen
  <2>2. CASE m # data.movie /\ at = {}
    <3>1. Unseen(m)
      BY <1>2, <1>6, <1>8, <2>2 DEF Unseen
    <3>2. ~ seen
      BY <1>4, <2>2
    <3>. QED  BY <2>2, <3>1, <3>2
  <2>3. CASE m # data.movie /\ at # {}
    <3>1. (CHOOSE t \in at : TRUE) \in at
      BY <2>3
    <3>2. PICK i \in DOMAIN c : c[i].movie = m /\ (CHOOSE t \in at : TRUE) = c[i].time
      BY <1>4, <3>1
    <3>3. SeenAt(m) = c[i].time
      BY <1>6, <2>3, <3>2
    <3>4. seen <=> c[i].time <= data.time
      BY <1>1, <3>2
    <3>. HIDE DEF seen
    <3>. QED  BY <1>2, <1>3, <2>3, <3>3, <3>4 DEF Unseen
  <2>. QED  BY <2>1, <2>2, <2>3
<1>10. seen \/ m \notin RatedBefore(c)
  BY <1>2, <1>3, <1>7
<1>. QED  BY <1>5, <1>9, <1>10 DEF c

UnseenOf(a) == {m \in ToSet(a) : Unseen(m)}

(* get_unseen_movies: as many unseen ones as asked for, or all there are.  *)
LEMMA FirstUnseenIs ==
  ASSUME NEW a \in Seq(Catalog), IsInjective(a), NEW k \in Nat
  PROVE  /\ FirstUnseen(a, k) \subseteq UnseenOf(a)
         /\ IsFiniteSet(FirstUnseen(a, k))
         /\ FirstUnseen(a, k) = UnseenOf(a) \/ Cardinality(FirstUnseen(a, k)) = k
<1>. DEFINE V == {j \in DOMAIN a : Unseen(a[j])}
           n == Len(a)
           m == Cardinality(V)
           cnt(j) == Cardinality({h \in 1 .. j : Unseen(a[h])})
           F == FirstUnseen(a, k)
<1>1. n \in Nat /\ DOMAIN a = 1 .. n
  OBVIOUS
<1>2. V \in SUBSET (1 .. n) /\ V \in SUBSET Int
  BY <1>1
<1>3. IsFiniteSet(V) /\ m \in Nat
  <2>1. IsFiniteSet(1 .. n)
    BY <1>1, FS_Interval
  <2>. HIDE DEF V
  <2>. QED  BY <1>2, <2>1, FS_Subset, FS_CardinalityType
<1>. HIDE DEF m
<1>4. PICK f : Lists(f, V, m)
  <2>. HIDE DEF V
  <2>. QED  BY <1>2, <1>3, SetListed, Zenon DEF m
<1>5. /\ \A i \in 1 .. m : f[i] \in V
      /\ \A i, j \in 1 .. m : i < j => f[i] < f[j]
      /\ \A i \in V : \E l \in 1 .. m : f[l] = i
  <2>. HIDE DEF V
  <2>. QED  BY <1>4 DEF Lists
<1>6. \A j : j \in V <=> j \in 1 .. n /\ Unseen(a[j])
  BY <1>1
<1>7. \A v : v \in F <=> \E j \in V : cnt(j) <= k /\ v = a[j]
  BY DEF FirstUnseen
<1>8. \A v : v \in UnseenOf(a) <=> \E j \in V : v = a[j]
  BY DEF UnseenOf, ToSet
<1>9. \A i, j \in V : a[i] = a[j] => i = j
  BY DEF IsInjective
<1>. HIDE DEF V, F
<1>10. \A i, j \in 1 .. m : f[j] <= f[i] <=> j <= i
  <2>. SUFFICES ASSUME NEW i \in 1 .. m, NEW j \in 1 .. m  PROVE f[j] <= f[i] <=> j <= i
    OBVIOUS
  <2>1. f[i] \in Int /\ f[j] \in Int
    BY <1>2, <1>5
  <2>2. (i < j => f[i] < f[j]) /\ (j < i => f[j] < f[i])
    BY <1>5
  <2>. QED  BY <2>1, <2>2
<1>11. ASSUME NEW c \in 1 .. m  PROVE cnt(f[c]) = c
  <2>1. f[c] \in 1 .. n
    BY <1>2, <1>5
  <2>2. \A h : h \in {x \in 1 .. f[c] : Unseen(a[x])} <=> \E l \in 1 .. c : h = f[l]
    <3>1. ASSUME NEW h \in 1 .. f[c], Unseen(a[h])  PROVE \E l \in 1 .. c : h = f[l]
      <4>1. h \in V
        BY <1>1, <1>6, <2>1, <3>1
      <4>2. PICK l \in 1 .. m : f[l] = h
        BY <1>5, <4>1
      <4>3. f[l] <= f[c]
        BY <2>1, <4>2
      <4>4. l <= c
        BY <1>10, <4>3
      <4>. QED  BY <1>3, <4>2, <4>4
    <3>2. ASSUME NEW l \in 1 .. c  PROVE f[l] \in 1 .. f[c] /\ Unseen(a[f[l]])
      <4>1. l \in 1 .. m /\ l <= c
        BY <1>3
      <4>2. f[l] <= f[c] /\ f[l] \in V
        BY <1>5, <1>10, <4>1
      <4>3. f[l] \in 1 .. n /\ Unseen(a[f[l]])
        BY <1>6, <4>2
      <4>. QED  BY <2>1, <4>2, <4>3
    <3>. QED  BY <3>1, <3>2
  <2>3. {x \in 1 .. f[c] : Unseen(a[x])} = FirstOf(f, c)
    BY <2>2 DEF FirstOf
  <2>4. c \in Nat /\ c <= m
    BY <1>3
  <2>5. Cardinality(FirstOf(f, c)) = c
    BY <1>2, <1>3, <1>4, <2>4, ListCounts
  <2>. QED  BY <2>3, <2>5
<1>. HIDE DEF cnt
<1>12. F \subseteq UnseenOf(a)
  BY <1>7, <1>8
<1>13. CASE m <= k
  <2>1. \A j \in V : cnt(j) <= k
    BY <1>3, <1>5, <1>11, <1>13
  <2>2. F = UnseenOf(a)
    BY <1>7, <1>8, <2>1
  <2>. DEFINE g == [j \in V |-> a[j]]
  <2>3. g \in Surjection(V, F)
    BY <1>7, <2>1 DEF Surjection
  <2>. HIDE DEF g
  <2>4. IsFiniteSet(F)
    BY <1>3, <2>3, FS_Surjection
  <2>. QED  BY <2>2, <2>4 DEF F
<1>14. CASE k < m
  <2>. DEFINE X == FirstOf(f, k)
             g == [j \in X |-> a[j]]
  <2>1. Cardinality(X) = k /\ IsFiniteSet(X)
    BY <1>2, <1>3, <1>4, <1>14, ListCounts
  <2>2. \A j : j \in X <=> j \in V /\ cnt(j) <= k
    <3>1. ASSUME NEW l \in 1 .. k  PROVE f[l] \in V /\ cnt(f[l]) <= k
      <4>1. l \in 1 .. m /\ l <= k
        BY <1>3, <1>14
      <4>. QED  BY <1>5, <1>11, <4>1
    <3>2. ASSUME NEW j \in V, cnt(j) <= k  PROVE \E l \in 1 .. k : j = f[l]
      <4>1. PICK l \in 1 .. m : f[l] = j
        BY <1>5
      <4>2. l <= k
        BY <1>11, <3>2, <4>1
      <4>. QED  BY <4>1, <4>2
    <3>. QED  BY <3>1, <3>2 DEF FirstOf
  <2>. HIDE DEF X
  <2>3. g \in [X -> F] /\ (\A i, j \in X : g[i] = g[j] => i = j) /\ \A v \in F : \E j \in X : g[j] = v
    BY <1>7, <1>9, <2>2
  <2>. HIDE DEF g
  <2>4. g \in Bijection(X, F)
    BY <2>3 DEF Bijection, Injection, Surjection, IsInjective
  <2>5. ExistsBijection(X, F)
    BY <2>4 DEF ExistsBijection
  <2>6. IsFiniteSet(F) /\ Cardinality(F) = k
    BY <2>1, <2>5, FS_Bijection
  <2>. QED  BY <1>12, <2>6 DEF F
<1>. QED  BY <1>3, <1>12, <1>13, <1>14 DEF F

-----------------------------------------------------------------------------
(* Sequences of distinct elements.                                         *)

(* A set that is put in some order keeps what it has.                      *)
LEMMA SetToSeqIs ==
  ASSUME NEW S, IsFiniteSet(S)
  PROVE  /\ SetToSeq(S) \in Seq(S) /\ Len(SetToSeq(S)) = Cardinality(S)
         /\ IsInjective(SetToSeq(S)) /\ ToSet(SetToSeq(S)) = S /\ Cardinality(S) \in Nat
<1>. DEFINE c == Cardinality(S)
           P(f) == IsInjective(f)
           s == SetToSeq(S)
<1>1. c \in Nat /\ ExistsBijection(1 .. c, S)
  BY FS_CardinalityType
<1>. HIDE DEF c
<1>2. PICK g : g \in Bijection(1 .. c, S)
  BY <1>1, Zenon DEF ExistsBijection
<1>3. g \in [1 .. c -> S] /\ P(g)
  BY <1>2 DEF Bijection, Injection, IsInjective
<1>4. s = CHOOSE f \in [1 .. c -> S] : P(f)
  BY DEF SetToSeq, c
<1>. HIDE DEF P, s
<1>5. s \in [1 .. c -> S] /\ P(s)
  BY <1>3, <1>4, Zenon
<1>6. s \in Injection(1 .. c, S)
  BY <1>5 DEF P, Injection, IsInjective
<1>7. s \in Surjection(1 .. c, S)
  <2>1. IsFiniteSet(1 .. c) /\ Cardinality(1 .. c) = c
    BY <1>1, FS_Interval
  <2>2. Cardinality(1 .. c) = Cardinality(S)
    BY <2>1 DEF c
  <2>. QED  BY <1>6, <2>2, FS_Injection
<1>8. \A v : v \in ToSet(s) <=> v \in S
  <2>1. DOMAIN s = 1 .. c /\ \A i \in 1 .. c : s[i] \in S
    BY <1>5
  <2>2. \A v \in S : \E i \in 1 .. c : s[i] = v
    BY <1>7 DEF Surjection
  <2>. QED  BY <2>1, <2>2 DEF ToSet
<1>9. s \in Seq(S) /\ Len(s) = c
  BY <1>1, <1>5
<1>10. ToSet(s) = S
  BY <1>8
<1>. QED  BY <1>1, <1>5, <1>9, <1>10 DEF P, s, c

(* What is behind what, and how much it is.                                *)
LEMMA Concatenated ==
  ASSUME NEW X, NEW s \in Seq(X), NEW t \in Seq(X), IsInjective(s), IsInjective(t),
         ToSet(s) \cap ToSet(t) = {}
  PROVE  /\ s \o t \in Seq(X) /\ Len(s \o t) = Len(s) + Len(t)
         /\ IsInjective(s \o t) /\ ToSet(s \o t) = ToSet(s) \cup ToSet(t)
<1>. DEFINE a == Len(s)
           b == Len(t)
           u == s \o t
<1>1. a \in Nat /\ b \in Nat /\ DOMAIN s = 1 .. a /\ DOMAIN t = 1 .. b
  OBVIOUS
<1>2. u \in Seq(X) /\ Len(u) = a + b /\ DOMAIN u = 1 .. a + b
  OBVIOUS
<1>3. /\ \A i \in 1 .. a : u[i] = s[i]
      /\ \A i \in 1 .. b : u[a + i] = t[i]
  OBVIOUS
<1>4. \A i \in 1 .. a : i \in 1 .. a + b
  BY <1>1
<1>5. \A i \in 1 .. b : a + i \in 1 .. a + b
  BY <1>1
<1>6. \A i \in 1 .. a + b : i \in 1 .. a \/ \E j \in 1 .. b : i = a + j
  <2>. SUFFICES ASSUME NEW i \in 1 .. a + b, ~ (i \in 1 .. a)  PROVE \E j \in 1 .. b : i = a + j
    OBVIOUS
  <2>1. i - a \in 1 .. b /\ i = a + (i - a)
    BY <1>1
  <2>. QED  BY <2>1
<1>. HIDE DEF a, b, u
<1>7. ToSet(u) = ToSet(s) \cup ToSet(t)
  <2>1. \A v : v \in ToSet(u) <=> v \in ToSet(s) \/ v \in ToSet(t)
    <3>1. ASSUME NEW v, v \in ToSet(u)  PROVE v \in ToSet(s) \/ v \in ToSet(t)
      <4>1. PICK i \in 1 .. a + b : v = u[i]
        BY <1>2, <3>1 DEF ToSet
      <4>2. CASE i \in 1 .. a
        BY <1>1, <1>3, <4>1, <4>2 DEF ToSet
      <4>3. CASE \E j \in 1 .. b : i = a + j
        BY <1>1, <1>3, <4>1, <4>3 DEF ToSet
      <4>. QED  BY <1>6, <4>2, <4>3
    <3>2. \A v \in ToSet(s) : v \in ToSet(u)
      BY <1>1, <1>2, <1>3, <1>4 DEF ToSet
    <3>3. \A v \in ToSet(t) : v \in ToSet(u)
      BY <1>1, <1>2, <1>3, <1>5 DEF ToSet
    <3>. QED  BY <3>1, <3>2, <3>3
  <2>. QED  BY <2>1
<1>8. IsInjective(u)
  <2>1. \A i, j \in 1 .. a : s[i] = s[j] => i = j
    BY <1>1 DEF IsInjective
  <2>2. \A i, j \in 1 .. b : t[i] = t[j] => i = j
    BY <1>1 DEF IsInjective
  <2>3. \A i \in 1 .. a, j \in 1 .. b : s[i] # t[j]
    BY <1>1 DEF ToSet
  <2>4. \A i, j \in 1 .. a + b : u[i] = u[j] => i = j
    BY <1>3, <1>6, <2>1, <2>2, <2>3
  <2>. QED  BY <1>2, <2>4 DEF IsInjective
<1>. QED  BY <1>2, <1>7, <1>8 DEF a, b, u

(* Without repetition there are as many as there are places.               *)
LEMMA InjectiveCounts ==
  ASSUME NEW X, NEW s \in Seq(X), IsInjective(s)
  PROVE  IsFiniteSet(ToSet(s)) /\ Cardinality(ToSet(s)) = Len(s)
<1>. DEFINE n == Len(s)
           T == ToSet(s)
<1>1. n \in Nat /\ DOMAIN s = 1 .. n /\ s \in [1 .. n -> X]
  OBVIOUS
<1>2. s \in [1 .. n -> T] /\ \A v \in T : \E i \in 1 .. n : s[i] = v
  BY <1>1 DEF ToSet
<1>3. s \in Bijection(1 .. n, T)
  <2>1. \A i, j \in 1 .. n : s[i] = s[j] => i = j
    BY <1>1 DEF IsInjective
  <2>. HIDE DEF n, T
  <2>. QED  BY <1>2, <2>1 DEF Bijection, Injection, Surjection, IsInjective
<1>. HIDE DEF n, T
<1>4. ExistsBijection(1 .. n, T)
  BY <1>3, Zenon DEF ExistsBijection
<1>5. IsFiniteSet(1 .. n) /\ Cardinality(1 .. n) = n
  BY <1>1, FS_Interval
<1>6. IsFiniteSet(T) /\ Cardinality(T) = n
  BY <1>4, <1>5, FS_Bijection
<1>. QED  BY <1>6 DEF n, T

(* The pool after one source: distinct values of it were added, as many as *)
(* were asked for, are there, or fit.                                      *)
Added(take, values, maxTake) ==
  /\ take \subseteq values \ ToSet(pool) /\ IsFiniteSet(take)
  /\ Cardinality(take) = Least(Least(maxTake, NumNegatives - Len(pool)), Cardinality(values \ ToSet(pool)))
  /\ Cardinality(take) \in Nat
  /\ pool' \in Seq(Catalog) /\ IsInjective(pool') /\ Len(pool') = Len(pool) + Cardinality(take)
  /\ ToSet(pool') = ToSet(pool) \cup take

LEMMA AppendIs ==
  ASSUME pool \in Seq(Catalog), IsInjective(pool),
         NEW values, values \subseteq Catalog, NEW maxTake, AppendShuffled(values, maxTake)
  PROVE  \E take : Added(take, values, maxTake)
<1>. DEFINE k == Least(Least(maxTake, NumNegatives - Len(pool)), Cardinality(values \ ToSet(pool)))
           A == values \ ToSet(pool)
<1>1. PICK take \in kSubset(k, A) : pool' = pool \o SetToSeq(take)
  BY Zenon DEF AppendShuffled, Fresh
<1>2. take \subseteq A /\ Cardinality(take) = k
  BY <1>1 DEF kSubset
<1>. HIDE DEF k
<1>3. take \in SUBSET Catalog /\ take \cap ToSet(pool) = {}
  BY <1>2
<1>4. IsFiniteSet(take)
  BY <1>3, CatalogIs, FS_Subset
<1>5. /\ SetToSeq(take) \in Seq(take) /\ Len(SetToSeq(take)) = Cardinality(take)
      /\ IsInjective(SetToSeq(take)) /\ ToSet(SetToSeq(take)) = take /\ Cardinality(take) \in Nat
  BY <1>4, SetToSeqIs
<1>. DEFINE t == SetToSeq(take)
<1>. HIDE DEF t
<1>6. t \in Seq(take) /\ Len(t) = Cardinality(take) /\ IsInjective(t) /\ ToSet(t) = take
  BY <1>5 DEF t
<1>7. t \in Seq(Catalog)
  BY <1>3, <1>6
<1>8. /\ pool \o t \in Seq(Catalog) /\ Len(pool \o t) = Len(pool) + Len(t)
      /\ IsInjective(pool \o t) /\ ToSet(pool \o t) = ToSet(pool) \cup ToSet(t)
  <2>1. ToSet(pool) \cap ToSet(t) = {}
    BY <1>3, <1>6
  <2>. QED  BY <1>6, <1>7, <2>1, Concatenated
<1>9. pool' = pool \o t
  BY <1>1 DEF t
<1>10. pool' \in Seq(Catalog) /\ IsInjective(pool')
  BY <1>8, <1>9, Zenon
<1>11. Len(pool') = Len(pool) + Cardinality(take)
  BY <1>6, <1>8, <1>9
<1>12. ToSet(pool') = ToSet(pool) \cup take
  BY <1>6, <1>8, <1>9
<1>13. Added(take, values, maxTake)
  BY <1>2, <1>4, <1>5, <1>10, <1>11, <1>12, Zenon DEF Added, k
<1>. QED  BY <1>13

(* MoveFirst brings the first to its place and keeps all others.           *)
MovedFirst(r, s, i) ==
  /\ DOMAIN r = 1 .. Len(s)
  /\ \A p \in 1 .. Len(s) : r[p] = IF p < i THEN s[p + 1] ELSE IF p = i THEN s[1] ELSE s[p]

LEMMA MoveFirstIs ==
  ASSUME NEW X, NEW s \in Seq(X), NEW i \in 1 .. Len(s)
  PROVE  MoveFirst(s, i) \in Seq(X) /\ MovedFirst(MoveFirst(s, i), s, i)
<1>. DEFINE n == Len(s)
           t == Tail(s)
           a == SubSeq(t, 1, i - 1)
           b == SubSeq(t, i, Len(t))
<1>1. n \in Nat /\ n >= 1 /\ i \in 1 .. n /\ s # <<>> /\ i \in Int
  OBVIOUS
<1>2. t \in Seq(X) /\ Len(t) = n - 1 /\ \A p \in 1 .. n - 1 : t[p] = s[p + 1]
  BY <1>1
<1>3. s[1] \in X /\ Head(s) = s[1]
  BY <1>1
<1>. HIDE DEF t
<1>4. a \in Seq(X) /\ Len(a) = i - 1 /\ \A p \in 1 .. i - 1 : a[p] = t[p]
  BY <1>1, <1>2
<1>5. b \in Seq(X) /\ Len(b) = n - i /\ \A p \in 1 .. n - i : b[p] = t[i + p - 1]
  BY <1>1, <1>2
<1>. HIDE DEF a, b
<1>6. MoveFirst(s, i) = (a \o <<s[1]>>) \o b
  BY <1>3 DEF MoveFirst, InsertAt, a, b, t
<1>. DEFINE c == a \o <<s[1]>>
           d == c \o b
<1>7. c \in Seq(X) /\ Len(c) = i /\ (\A p \in 1 .. i - 1 : c[p] = a[p]) /\ c[i] = s[1]
  BY <1>1, <1>3, <1>4
<1>. HIDE DEF c
<1>8. d \in Seq(X) /\ Len(d) = n /\ (\A p \in 1 .. i : d[p] = c[p]) /\ \A p \in 1 .. n - i : d[i + p] = b[p]
  BY <1>1, <1>5, <1>7
<1>. HIDE DEF d, n
<1>9. ASSUME NEW p \in 1 .. n  PROVE d[p] = IF p < i THEN s[p + 1] ELSE IF p = i THEN s[1] ELSE s[p]
  <2>1. CASE p < i
    <3>1. p \in 1 .. i - 1 /\ p \in 1 .. i /\ p \in 1 .. n - 1
      BY <1>1, <2>1
    <3>. QED  BY <1>2, <1>4, <1>7, <1>8, <2>1, <3>1
  <2>2. CASE p = i
    <3>1. p \in 1 .. i
      BY <1>1, <2>2
    <3>. QED  BY <1>7, <1>8, <2>2, <3>1
  <2>3. CASE p > i
    <3>. DEFINE q == p - i
    <3>1. q \in 1 .. n - i /\ p = i + q /\ i + q - 1 \in 1 .. n - 1 /\ (i + q - 1) + 1 = p
      BY <1>1, <2>3
    <3>. HIDE DEF q
    <3>2. d[p] = b[q]
      BY <1>8, <3>1
    <3>3. b[q] = t[i + q - 1]
      BY <1>5, <3>1
    <3>4. t[i + q - 1] = s[p]
      BY <1>2, <3>1
    <3>. QED  BY <1>1, <2>3, <3>2, <3>3, <3>4
  <2>. QED  BY <1>1, <2>1, <2>2, <2>3
<1>10. MoveFirst(s, i) = d
  BY <1>6 DEF d, c
<1>11. DOMAIN d = 1 .. n
  BY <1>8
<1>12. MovedFirst(d, s, i)
  BY <1>9, <1>11 DEF MovedFirst, n
<1>. QED  BY <1>8, <1>10, <1>12

-----------------------------------------------------------------------------
(* The invariant.                                                          *)

(* What is known of the user once the past has been looked up.             *)
PastKnown ==
  /\ watched \in Seq(PaddedMovies)
  /\ stage = "lookup" => history = Before(UserRow(AllRatings), data.time, MaxHistory)
  /\ stage \notin {"history", "lookup"} =>
       /\ Upto(watched) = RatedBefore(AllRatings)
       /\ Upto(disliked) = DislikedBefore

(* Easy negatives are neither the record's movie nor anything watched.     *)
EasyUnrated ==
  /\ easy \subseteq Catalog \ ({data.movie} \cup RatedBefore(AllRatings))
  /\ stage \notin {"history", "lookup", "easy"} => Cardinality(easy) = NumNegatives

(* The pool has no repetition and not the record's movie, and is full when *)
(* the row is assembled.                                                   *)
PoolChosen ==
  /\ pool \in Seq(Catalog) /\ IsInjective(pool)
  /\ data.movie \notin ToSet(pool) /\ Len(pool) <= NumNegatives
  /\ stage \in {"history", "lookup", "easy", "pool_1"} => pool = <<>>
  /\ stage \in {"assemble", "shuffle", "done"} => Len(pool) = NumNegatives

(* What each source leaves in the pool: all that was disliked or, if that  *)
(* is more, as many as the quota says; of the unseen the quota or all.     *)
AllOrQuota(S, values, quota) == Cardinality(S \cap values) = Least(quota, Cardinality(values))
QuotaOrAll(S, values, quota) == Cardinality(S \cap values) >= quota \/ values \subseteq S

Mixed(st, S, n, bad, shown, unseen, T) ==
  /\ st = "pool_2" => S \subseteq bad \cap shown /\ n <= T[1]
  /\ st = "pool_3" => S \cap (bad \ shown) = {} /\ n <= T[1] + T[2]
  /\ st \in {"pool_2", "pool_3", "pool_4", "assemble", "shuffle", "done"} =>
       AllOrQuota(S, bad \cap shown, T[1])
  /\ st \in {"pool_3", "pool_4", "assemble", "shuffle", "done"} => QuotaOrAll(S, unseen, T[2])
  /\ st \in {"pool_4", "assemble", "shuffle", "done"} => AllOrQuota(S, bad \ shown, T[3])

Worst(st, S, bad, unseen, T) ==
  /\ S \cap bad = {}
  /\ st \in {"pool_2", "pool_3", "pool_4", "assemble", "shuffle", "done"} =>
       QuotaOrAll(S, unseen, T[1])

Unrated == UnseenOf(Recommended)
Shown == ToSet(Recommended)

QuotasKept ==
  /\ ToSet(pool) \cap LikedBefore = {}
  /\ strategy = "mixed_hard" =>
       Mixed(stage, ToSet(pool), Len(pool), DislikedBefore, Shown, Unrated, Target)
  /\ strategy = "worst_recommended" => Worst(stage, ToSet(pool), DislikedBefore, Unrated, Target)

(* The row is the record's movie and the pool; the shuffle moves the two   *)
(* rows alike.                                                             *)
Row == <<data.movie>> \o pool
FirstLabelled == [i \in 1 .. NumCandidates |-> IF i = 1 THEN 1 ELSE 0]
RowAssembled ==
  /\ stage = "shuffle" => candidates = Row /\ labels = FirstLabelled
  /\ stage = "done" => \E i \in 1 .. NumCandidates :
       candidates = MoveFirst(Row, i) /\ labels = MoveFirst(FirstLabelled, i)

Known == data \in DataSets /\ strategy \in {"mixed_hard", "worst_recommended"} /\ stage \in Stages

SampleInv == Known /\ PastKnown /\ EasyUnrated /\ PoolChosen /\ QuotasKept /\ RowAssembled

(* Within a sampling the data and the strategy stand still, and so does    *)
(* all that is said in their terms.                                        *)
Still ==
  /\ RatedBefore(AllRatings)' = RatedBefore(AllRatings)
  /\ DislikedBefore' = DislikedBefore /\ LikedBefore' = LikedBefore
  /\ Unrated' = Unrated /\ Shown' = Shown /\ Target' = Target
  /\ data' = data /\ strategy' = strategy

LEMMA Frame ==
  ASSUME data' = data, strategy' = strategy
  PROVE  Still
<1>1. RatedBefore(AllRatings)' = RatedBefore(AllRatings)
  BY DEF RatedBefore, AllRatings, Rated
<1>2. DislikedBefore' = DislikedBefore /\ LikedBefore' = LikedBefore
  BY DEF DislikedBefore, LikedBefore, RatedBefore, Rated
<1>3. Unrated' = Unrated /\ Shown' = Shown
  BY DEF Unrated, Shown, UnseenOf, Unseen, SeenAt, AllRatings
<1>4. Target' = Target
  BY DEF Target
<1>. QED  BY <1>1, <1>2, <1>3, <1>4 DEF Still

(* The three quotas never exceed the negatives there are places for.       *)
LEMMA RoundedIs ==
  ASSUME NEW percent \in Nat
  PROVE  /\ Rounded(percent) \in Nat
         /\ 100 * Rounded(percent) <= NumNegatives * percent + 50
<1>. DEFINE x == NumNegatives * percent
           q == x \div 100
           r == x % 100
<1>1. \A a, b \in Nat : a * b \in Nat
  OBVIOUS
<1>2. x \in Nat
  BY <1>1, CatalogIs
<1>3. Rounded(percent) = IF r > 50 \/ (r = 50 /\ q % 2 = 1) THEN q + 1 ELSE q
  BY DEF Rounded
<1>. HIDE DEF x
<1>4. q \in Nat /\ r \in 0 .. 99 /\ x = 100 * q + r
  BY <1>2
<1>. HIDE DEF q, r
<1>5. Rounded(percent) = q \/ (Rounded(percent) = q + 1 /\ r >= 50)
  BY <1>3, <1>4
<1>6. Rounded(percent) \in Nat /\ 100 * Rounded(percent) <= x + 50
  BY <1>2, <1>4, <1>5
<1>. QED  BY <1>6 DEF x

LEMMA QuotasFit ==
  /\ Rounded(15) \in Nat /\ Rounded(55) \in Nat
  /\ Rounded(15) + Rounded(55) + Rounded(15) <= NumNegatives
  /\ Rounded(55) <= NumNegatives
<1>. DEFINE N == NumNegatives
           a == Rounded(15)
           b == Rounded(55)
<1>1. N \in Nat
  BY CatalogIs
<1>2. a \in Nat /\ 100 * a <= N * 15 + 50
  BY RoundedIs
<1>3. b \in Nat /\ 100 * b <= N * 55 + 50
  BY RoundedIs
<1>. HIDE DEF N, a, b
<1>4. a + b + a <= N /\ b <= N
  <2>1. CASE N >= 10
    BY <1>1, <1>2, <1>3, <2>1
  <2>2. CASE N < 10
    <3>1. N \in {0, 1, 2, 3, 4, 5, 6, 7, 8, 9}
      BY <1>1, <2>2
    <3>. QED  BY <1>2, <1>3, <3>1
  <2>. QED  BY <1>1, <2>1, <2>2
<1>. QED  BY <1>2, <1>3, <1>4 DEF N, a, b

-----------------------------------------------------------------------------
(* The sources.                                                            *)

(* What is taken of the unseen: the quota, or all of them.                 *)
LEMMA UnseenTaken ==
  ASSUME NEW a \in Seq(Catalog), IsInjective(a), NEW k \in Nat, NEW t \in Nat,
         k >= t \/ k >= Len(a),
         NEW T, T \subseteq FirstUnseen(a, k),
         Cardinality(T) = Least(t, Cardinality(FirstUnseen(a, k)))
  PROVE  Cardinality(T) >= t \/ T = UnseenOf(a)
<1>. DEFINE F == FirstUnseen(a, k)
           G == UnseenOf(a)
           n == Len(a)
<1>1. F \subseteq G /\ IsFiniteSet(F) /\ (F = G \/ Cardinality(F) = k)
  BY FirstUnseenIs
<1>2. IsFiniteSet(ToSet(a)) /\ Cardinality(ToSet(a)) = n
  BY InjectiveCounts
<1>3. G \in SUBSET ToSet(a)
  BY DEF UnseenOf
<1>4. n \in Nat
  OBVIOUS
<1>5. T \in SUBSET F /\ Cardinality(T) = Least(t, Cardinality(F)) /\ (k >= t \/ k >= n)
  OBVIOUS
<1>. HIDE DEF F, G, n
<1>6. IsFiniteSet(G) /\ Cardinality(G) <= n
  BY <1>2, <1>3, FS_Subset
<1>7. Cardinality(F) \in Nat /\ Cardinality(G) \in Nat
  BY <1>1, <1>6, FS_CardinalityType
<1>8. F \in SUBSET G
  BY <1>1
<1>9. Cardinality(F) <= Cardinality(G) /\ (Cardinality(G) = Cardinality(F) => G = F)
  BY <1>6, <1>8, FS_Subset
<1>10. Cardinality(F) = Cardinality(T) => F = T
  BY <1>1, <1>5, FS_Subset
<1>11. Cardinality(T) >= t \/ Cardinality(T) = Cardinality(F)
  BY <1>5, <1>7 DEF Least
<1>12. CASE F = G
  BY <1>10, <1>11, <1>12 DEF G
<1>13. CASE Cardinality(F) = k /\ k >= t
  BY <1>5, <1>7, <1>13 DEF Least
<1>14. CASE Cardinality(F) = k /\ k >= n
  <2>1. F = G
    BY <1>4, <1>6, <1>7, <1>9, <1>14
  <2>. QED  BY <1>12, <2>1
<1>. QED  BY <1>1, <1>5, <1>12, <1>13, <1>14

LEMMA ReversedIs ==
  /\ Reverse(Recommended) \in Seq(Catalog) /\ IsInjective(Reverse(Recommended))
  /\ Len(Reverse(Recommended)) = Len(Recommended)
  /\ UnseenOf(Reverse(Recommended)) = UnseenOf(Recommended)
<1>. DEFINE s == Recommended
           n == Len(s)
           r == Reverse(s)
<1>1. s \in Seq(Catalog) /\ IsInjective(s)
  BY CatalogIs
<1>2. n \in Nat /\ DOMAIN s = 1 .. n
  BY <1>1
<1>3. r = [i \in 1 .. n |-> s[(n - i) + 1]]
  BY DEF Reverse
<1>. HIDE DEF n, r
<1>4. \A i \in 1 .. n : (n - i) + 1 \in 1 .. n /\ n - ((n - i) + 1) + 1 = i
  BY <1>2
<1>5. \A i \in 1 .. n : s[i] \in Catalog
  BY <1>1, <1>2, ElementOfSeq DEF n
<1>6. r \in [1 .. n -> Catalog]
  BY <1>3, <1>4, <1>5
<1>7. r \in Seq(Catalog) /\ Len(r) = n /\ DOMAIN r = 1 .. n
  BY <1>2, <1>6
<1>8. IsInjective(r)
  <2>1. ASSUME NEW i \in 1 .. n, NEW j \in 1 .. n, r[i] = r[j]  PROVE i = j
    <3>1. s[(n - i) + 1] = s[(n - j) + 1]
      BY <1>3, <2>1
    <3>2. (n - i) + 1 = (n - j) + 1
      BY <1>1, <1>2, <1>4, <3>1 DEF IsInjective
    <3>. QED  BY <1>2, <3>2
  <2>. QED  BY <1>7, <2>1 DEF IsInjective
<1>9. \A v : v \in ToSet(r) <=> v \in ToSet(s)
  <2>1. ASSUME NEW i \in 1 .. n  PROVE \E j \in 1 .. n : s[i] = r[j]
    <3>1. (n - i) + 1 \in 1 .. n /\ r[(n - i) + 1] = s[n - ((n - i) + 1) + 1]
      BY <1>3, <1>4
    <3>. QED  BY <1>4, <3>1
  <2>2. ASSUME NEW i \in 1 .. n  PROVE \E j \in 1 .. n : r[i] = s[j]
    BY <1>3, <1>4
  <2>3. \A v : v \in ToSet(s) <=> \E i \in 1 .. n : v = s[i]
    BY <1>2 DEF ToSet
  <2>4. \A v : v \in ToSet(r) <=> \E i \in 1 .. n : v = r[i]
    BY <1>7 DEF ToSet
  <2>. HIDE DEF s
  <2>. QED  BY <2>1, <2>2, <2>3, <2>4
<1>10. ToSet(r) = ToSet(s)
  BY <1>9
<1>11. UnseenOf(r) = UnseenOf(s)
  BY <1>10 DEF UnseenOf
<1>. QED  BY <1>7, <1>8, <1>11 DEF r, n

(* Where the negatives come from.                                          *)
AskedFor == LatestK(IF NumNegatives > 10 THEN 2 * NumNegatives ELSE 20)

MixedSources ==
  /\ Source[1] = DislikedBefore \cap Shown
  /\ Source[2] = FirstUnseen(Recommended, AskedFor)
  /\ Source[3] = DislikedBefore \ Shown
  /\ Target[1] = Rounded(15) /\ Target[2] = Rounded(55) /\ Target[3] = Rounded(15)

WorstSources ==
  /\ Source[1] = WorstUnseen(LatestK(2 * NumNegatives)) /\ Source[2] = {} /\ Source[3] = {}
  /\ Target[1] = NumNegatives /\ Target[2] = 0 /\ Target[3] = 0

(* The past and the unseen of the recommendations.                         *)
LEMMA UnratedIs ==
  ASSUME data \in DataSets
  PROVE  /\ Unrated \subseteq Catalog /\ Unrated \subseteq Shown /\ IsFiniteSet(Unrated)
         /\ Unrated \cap RatedBefore(AllRatings) = {} /\ data.movie \notin Unrated
<1>1. \A m \in Unrated : m \in ToSet(Recommended) /\ Unseen(m)
  BY DEF Unrated, UnseenOf
<1>2. ToSet(Recommended) \subseteq Catalog
  <2>1. \A i \in DOMAIN Recommended : Recommended[i] \in Catalog
    BY CatalogIs, ElementOfSeq
  <2>. QED  BY <2>1 DEF ToSet
<1>3. \A m \in Unrated : m # data.movie /\ m \notin RatedBefore(AllRatings)
  BY <1>1, UnseenIs
<1>4. Unrated \in SUBSET Catalog
  BY <1>1, <1>2
<1>5. IsFiniteSet(Unrated)
  BY <1>4, CatalogIs, FS_Subset
<1>. QED  BY <1>1, <1>3, <1>4, <1>5 DEF Shown

LEMMA SourcesAre ==
  ASSUME data \in DataSets, watched \in Seq(PaddedMovies),
         Upto(watched) = RatedBefore(AllRatings), Upto(disliked) = DislikedBefore
  PROVE  /\ Upto(WatchedAndPositive) = {data.movie} \cup RatedBefore(AllRatings)
         /\ strategy = "mixed_hard" => MixedSources
         /\ strategy = "worst_recommended" => WorstSources
         /\ strategy \in {"mixed_hard", "worst_recommended"} =>
              \A i \in 1 .. 3 : Source[i] \subseteq Catalog \ {data.movie}
<1>1. data.movie \in Catalog
  BY DataIs
<1>2. Upto(WatchedAndPositive) = {data.movie} \cup RatedBefore(AllRatings)
  BY <1>1, UptoPrepended DEF WatchedAndPositive
<1>3. Upto(Recommended) = Shown
  BY CatalogIs, UptoWhole DEF Shown
<1>4. \A k : FirstUnseen(Recommended, k) \cap Upto(WatchedAndPositive) = {}
             /\ WorstUnseen(k) \cap Upto(WatchedAndPositive) = {}
             /\ FirstUnseen(Recommended, k) \subseteq Unrated /\ WorstUnseen(k) \subseteq Unrated
  <2>. SUFFICES ASSUME NEW k
                PROVE  /\ FirstUnseen(Recommended, k) \cap Upto(WatchedAndPositive) = {}
                       /\ WorstUnseen(k) \cap Upto(WatchedAndPositive) = {}
                       /\ FirstUnseen(Recommended, k) \subseteq Unrated /\ WorstUnseen(k) \subseteq Unrated
    OBVIOUS
  <2>1. FirstUnseen(Recommended, k) \subseteq UnseenOf(Recommended)
    BY DEF FirstUnseen, UnseenOf, ToSet
  <2>2. WorstUnseen(k) \subseteq UnseenOf(Reverse(Recommended))
    BY DEF WorstUnseen, FirstUnseen, UnseenOf, ToSet
  <2>3. FirstUnseen(Recommended, k) \subseteq Unrated /\ WorstUnseen(k) \subseteq Unrated
    BY <2>1, <2>2, ReversedIs DEF Unrated
  <2>. QED  BY <1>2, <2>3, UnratedIs
<1>5. ASSUME strategy = "mixed_hard"  PROVE MixedSources
  <2>1. Source = <<Intersect(Upto(Recommended), disliked),
                   Subtract(FirstUnseen(Recommended, AskedFor), WatchedAndPositive),
                   Subtract(Upto(disliked), Recommended)>>
    BY <1>5 DEF Source, AskedFor
  <2>2. Target = <<Rounded(15), Rounded(55), Rounded(15)>>
    BY <1>5 DEF Target
  <2>3. Intersect(Upto(Recommended), disliked) = DislikedBefore \cap Shown
    BY <1>3 DEF Intersect
  <2>4. Subtract(FirstUnseen(Recommended, AskedFor), WatchedAndPositive) = FirstUnseen(Recommended, AskedFor)
    BY <1>4 DEF Subtract
  <2>5. Subtract(Upto(disliked), Recommended) = DislikedBefore \ Shown
    BY <1>3 DEF Subtract
  <2>. QED  BY <2>1, <2>2, <2>3, <2>4, <2>5 DEF MixedSources
<1>6. ASSUME strategy = "worst_recommended"  PROVE WorstSources
  <2>. DEFINE F == WorstUnseen(LatestK(2 * NumNegatives))
  <2>1. Source = <<Subtract(F, WatchedAndPositive), {}, {}>>
    BY <1>6 DEF Source
  <2>2. Target = <<NumNegatives, 0, 0>>
    BY <1>6 DEF Target
  <2>3. F \cap Upto(WatchedAndPositive) = {}
    BY <1>4
  <2>4. Subtract(F, WatchedAndPositive) = F
    BY <2>3 DEF Subtract
  <2>. QED  BY <2>1, <2>2, <2>4 DEF WorstSources
<1>7. ASSUME strategy \in {"mixed_hard", "worst_recommended"}, NEW i \in 1 .. 3
      PROVE  Source[i] \subseteq Catalog \ {data.movie}
  <2>1. Unrated \subseteq Catalog \ {data.movie}
    BY UnratedIs
  <2>2. DislikedBefore \subseteq Catalog \ {data.movie}
    BY PastSplits
  <2>3. i = 1 \/ i = 2 \/ i = 3
    OBVIOUS
  <2>4. CASE strategy = "mixed_hard"
    <3>1. FirstUnseen(Recommended, AskedFor) \subseteq Catalog \ {data.movie}
      BY <1>4, <2>1
    <3>2. /\ Source[1] = DislikedBefore \cap Shown
          /\ Source[2] = FirstUnseen(Recommended, AskedFor)
          /\ Source[3] = DislikedBefore \ Shown
      BY <1>5, <2>4 DEF MixedSources
    <3>. QED  BY <2>2, <2>3, <3>1, <3>2
  <2>5. CASE strategy = "worst_recommended"
    <3>1. WorstUnseen(LatestK(2 * NumNegatives)) \subseteq Catalog \ {data.movie}
      BY <1>4, <2>1
    <3>2. /\ Source[1] = WorstUnseen(LatestK(2 * NumNegatives))
          /\ Source[2] = {} /\ Source[3] = {}
      BY <1>6, <2>5 DEF WorstSources
    <3>. QED  BY <2>3, <3>1, <3>2
  <2>. QED  BY <1>7, <2>4, <2>5
<1>. QED  BY <1>2, <1>5, <1>6, <1>7

-----------------------------------------------------------------------------
(* Quotas.                                                                 *)

(* What a source adds, and what it leaves as it was.                       *)
LEMMA KeepsAll ==
  ASSUME NEW S, NEW values, NEW quota, NEW take,
         AllOrQuota(S, values, quota), take \cap values = {}
  PROVE  AllOrQuota(S \cup take, values, quota)
<1>1. (S \cup take) \cap values = S \cap values
  OBVIOUS
<1>. QED  BY <1>1 DEF AllOrQuota

LEMMA KeepsQuota ==
  ASSUME NEW S, NEW values, NEW quota \in Int, NEW take, IsFiniteSet(S), IsFiniteSet(take),
         QuotaOrAll(S, values, quota)
  PROVE  QuotaOrAll(S \cup take, values, quota)
<1>. DEFINE A == S \cap values
           B == (S \cup take) \cap values
           C == S \cup take
<1>1. IsFiniteSet(C)
  BY FS_Union
<1>2. B \in SUBSET C /\ A \in SUBSET B
  OBVIOUS
<1>. HIDE DEF A, B, C
<1>3. IsFiniteSet(B)
  BY <1>1, <1>2, FS_Subset
<1>4. IsFiniteSet(A) /\ Cardinality(A) <= Cardinality(B)
  BY <1>2, <1>3, FS_Subset
<1>5. Cardinality(A) \in Nat /\ Cardinality(B) \in Nat
  BY <1>3, <1>4, FS_CardinalityType
<1>6. Cardinality(A) >= quota \/ values \subseteq S
  BY DEF QuotaOrAll, A
<1>7. Cardinality(B) >= quota \/ values \subseteq C
  <2>1. S \subseteq C
    BY DEF C
  <2>2. CASE Cardinality(A) >= quota
    BY <1>4, <1>5, <2>2
  <2>3. CASE values \subseteq S
    BY <2>1, <2>3
  <2>. QED  BY <1>6, <2>2, <2>3
<1>. QED  BY <1>7 DEF QuotaOrAll, B, C

LEMMA TakesAll ==
  ASSUME NEW S, NEW values, NEW quota \in Int, NEW room \in Int, NEW take,
         IsFiniteSet(values), S \cap values = {}, take \subseteq values, quota <= room,
         Cardinality(take) = Least(Least(quota, room), Cardinality(values \ S))
  PROVE  AllOrQuota(S \cup take, values, quota) /\ Cardinality(take) <= quota
<1>1. (S \cup take) \cap values = take /\ values \ S = values
  OBVIOUS
<1>2. Cardinality(values) \in Nat
  BY FS_CardinalityType
<1>3. Least(quota, room) = quota
  BY DEF Least
<1>4. Cardinality(take) = Least(quota, Cardinality(values))
  BY <1>1, <1>3
<1>5. Cardinality(take) <= quota
  BY <1>2, <1>4 DEF Least
<1>. QED  BY <1>1, <1>4, <1>5 DEF AllOrQuota

LEMMA TakesQuota ==
  ASSUME NEW S, NEW a \in Seq(Catalog), IsInjective(a), NEW k \in Nat,
         NEW quota \in Nat, NEW room \in Int, NEW take,
         k >= quota \/ k >= Len(a), quota <= room,
         S \cap FirstUnseen(a, k) = {}, take \subseteq FirstUnseen(a, k) \ S,
         Cardinality(take) = Least(Least(quota, room), Cardinality(FirstUnseen(a, k) \ S)),
         NEW values, values = UnseenOf(a), IsFiniteSet(values), IsFiniteSet(S)
  PROVE  QuotaOrAll(S \cup take, values, quota) /\ Cardinality(take) <= quota
<1>. DEFINE F == FirstUnseen(a, k)
<1>1. F \ S = F /\ take \subseteq F
  OBVIOUS
<1>2. Least(quota, room) = quota
  BY DEF Least
<1>3. Cardinality(take) = Least(quota, Cardinality(F))
  BY <1>1, <1>2
<1>4. F \subseteq values /\ IsFiniteSet(F)
  BY FirstUnseenIs
<1>5. Cardinality(take) >= quota \/ take = values
  BY <1>1, <1>3, UnseenTaken
<1>6. take \in SUBSET values
  BY <1>1, <1>4
<1>. HIDE DEF F
<1>7. QuotaOrAll(take, values, quota)
  <2>1. take \cap values = take
    BY <1>6
  <2>. QED  BY <1>5, <2>1 DEF QuotaOrAll
<1>8. IsFiniteSet(take)
  BY <1>6, FS_Subset
<1>9. take \cup S = S \cup take
  OBVIOUS
<1>10. QuotaOrAll(S \cup take, values, quota)
  <2>1. QuotaOrAll(take \cup S, values, quota)
    BY <1>7, <1>8, KeepsQuota
  <2>. QED  BY <1>9, <2>1
<1>11. Cardinality(take) <= quota
  <2>1. Cardinality(F) \in Nat
    BY <1>4, FS_CardinalityType
  <2>. QED  BY <1>3, <2>1 DEF Least
<1>. QED  BY <1>10, <1>11

(* What the sets in question have in common, and that they are finite.     *)
LEMMA SetsAre ==
  ASSUME data \in DataSets
  PROVE  /\ DislikedBefore \subseteq Catalog
         /\ IsFiniteSet(DislikedBefore \cap Shown) /\ IsFiniteSet(DislikedBefore \ Shown)
         /\ IsFiniteSet(Unrated) /\ Unrated \subseteq Shown
         /\ Unrated \cap DislikedBefore = {} /\ Unrated \cap LikedBefore = {}
         /\ DislikedBefore \cap LikedBefore = {}
         /\ LikedBefore \cup DislikedBefore = RatedBefore(AllRatings)
<1>1. /\ RatedBefore(AllRatings) = LikedBefore \cup DislikedBefore
      /\ LikedBefore \cap DislikedBefore = {} /\ RatedBefore(AllRatings) \subseteq Catalog
  BY PastSplits
<1>2. /\ Unrated \subseteq Shown /\ IsFiniteSet(Unrated) /\ Unrated \cap RatedBefore(AllRatings) = {}
  BY UnratedIs
<1>3. (DislikedBefore \cap Shown) \in SUBSET Catalog /\ (DislikedBefore \ Shown) \in SUBSET Catalog
  BY <1>1
<1>4. IsFiniteSet(DislikedBefore \cap Shown) /\ IsFiniteSet(DislikedBefore \ Shown)
  BY <1>3, CatalogIs, FS_Subset
<1>. QED  BY <1>1, <1>2, <1>4

-----------------------------------------------------------------------------
(* One source after the other.                                             *)

LEMMA FillPool ==
  ASSUME SampleInv, NEW values, values \subseteq Catalog \ {data.movie}, NEW maxTake \in Int,
         AppendShuffled(values, maxTake)
  PROVE  \E take : /\ Added(take, values, maxTake)
                   /\ data.movie \notin ToSet(pool') /\ Len(pool') <= NumNegatives
                   /\ Len(pool) \in Nat /\ IsFiniteSet(ToSet(pool)) /\ IsFiniteSet(ToSet(pool'))
<1>1. pool \in Seq(Catalog) /\ IsInjective(pool) /\ data.movie \notin ToSet(pool) /\ Len(pool) <= NumNegatives
  BY DEF SampleInv, PoolChosen
<1>2. values \subseteq Catalog
  OBVIOUS
<1>3. PICK take : Added(take, values, maxTake)
  BY <1>1, <1>2, AppendIs
<1>4. data.movie \notin ToSet(pool')
  BY <1>1, <1>3 DEF Added
<1>5. Len(pool) \in Nat /\ NumNegatives \in Nat
  BY <1>1, CatalogIs
<1>6. IsFiniteSet(values \ ToSet(pool))
  <2>1. (values \ ToSet(pool)) \in SUBSET Catalog
    BY <1>2
  <2>. QED  BY <2>1, CatalogIs, FS_Subset
<1>7. Cardinality(values \ ToSet(pool)) \in Nat
  BY <1>6, FS_CardinalityType
<1>8. Cardinality(take) = Least(Least(maxTake, NumNegatives - Len(pool)), Cardinality(values \ ToSet(pool)))
  BY <1>3 DEF Added
<1>9. Cardinality(take) <= NumNegatives - Len(pool)
  BY <1>5, <1>7, <1>8 DEF Least
<1>10. Len(pool') = Len(pool) + Cardinality(take) /\ Cardinality(take) \in Nat
  BY <1>3 DEF Added
<1>11. Len(pool') <= NumNegatives
  BY <1>5, <1>9, <1>10
<1>12. IsFiniteSet(ToSet(pool)) /\ IsFiniteSet(ToSet(pool'))
  <2>1. pool' \in Seq(Catalog) /\ IsInjective(pool')
    BY <1>3 DEF Added
  <2>. QED  BY <1>1, <2>1, InjectiveCounts
<1>. QED  BY <1>3, <1>4, <1>5, <1>11, <1>12

-----------------------------------------------------------------------------
(* The quotas of each strategy.                                            *)

Filling == {"pool_1", "pool_2", "pool_3", "pool_4", "assemble", "shuffle", "done"}

LEMMA PastStays ==
  ASSUME SampleInv, UNCHANGED <<data, strategy, history, watched, disliked, easy>>,
         stage \in Filling, stage' \in Filling
  PROVE  /\ Known' /\ PastKnown' /\ EasyUnrated' /\ Still
         /\ data \in DataSets /\ watched \in Seq(PaddedMovies)
         /\ strategy \in {"mixed_hard", "worst_recommended"}
         /\ Upto(watched) = RatedBefore(AllRatings) /\ Upto(disliked) = DislikedBefore
<1>1. Known /\ PastKnown /\ EasyUnrated
  BY DEF SampleInv
<1>2. Still
  BY Frame
<1>3. stage \notin {"history", "lookup", "easy"} /\ stage' \notin {"history", "lookup", "easy"} /\ stage' \in Stages
  BY DEF Filling, Stages
<1>4. Known'
  BY <1>1, <1>3 DEF Known
<1>5. Upto(watched)' = Upto(watched) /\ Upto(disliked)' = Upto(disliked)
  BY DEF Upto
<1>6. Upto(watched) = RatedBefore(AllRatings) /\ Upto(disliked) = DislikedBefore
  BY <1>1, <1>3 DEF PastKnown
<1>7. PastKnown'
  BY <1>1, <1>2, <1>3, <1>5, <1>6 DEF PastKnown, Still
<1>8. EasyUnrated'
  BY <1>1, <1>2, <1>3 DEF EasyUnrated, Still
<1>. QED  BY <1>1, <1>2, <1>4, <1>6, <1>7, <1>8 DEF Known, PastKnown

LEMMA TargetIs ==
  ASSUME strategy \in {"mixed_hard", "worst_recommended"}
  PROVE  /\ \A i \in 1 .. 3 : Target[i] \in Nat
         /\ strategy = "mixed_hard" => Target[1] + Target[2] + Target[3] <= NumNegatives /\ Target[2] <= NumNegatives
         /\ strategy = "worst_recommended" => Target[1] = NumNegatives
<1>1. NumNegatives \in Nat
  BY CatalogIs
<1>2. /\ Rounded(15) \in Nat /\ Rounded(55) \in Nat
      /\ Rounded(15) + Rounded(55) + Rounded(15) <= NumNegatives /\ Rounded(55) <= NumNegatives
  BY QuotasFit
<1>3. \A i \in 1 .. 3 : i = 1 \/ i = 2 \/ i = 3
  OBVIOUS
<1>4. CASE strategy = "mixed_hard"
  <2>1. Target = <<Rounded(15), Rounded(55), Rounded(15)>>
    BY <1>4 DEF Target
  <2>. QED  BY <1>2, <1>3, <1>4, <2>1
<1>5. CASE strategy = "worst_recommended"
  <2>1. Target = <<NumNegatives, 0, 0>>
    BY <1>5 DEF Target
  <2>. QED  BY <1>1, <1>3, <1>5, <2>1
<1>. QED  BY <1>4, <1>5

LEMMA AskedForIs ==
  /\ AskedFor \in Nat /\ (AskedFor >= NumNegatives \/ AskedFor >= Len(Recommended))
  /\ LatestK(2 * NumNegatives) \in Nat
  /\ (LatestK(2 * NumNegatives) >= NumNegatives \/ LatestK(2 * NumNegatives) >= Len(Recommended))
<1>1. Recommended \in Seq(Catalog) /\ NumNegatives \in Nat
  BY CatalogIs
<1>2. Len(Recommended) \in Nat
  BY <1>1
<1>. QED  BY <1>1, <1>2 DEF AskedFor, LatestK, Least

(* The quotas after each source, for each strategy.                        *)
LEMMA MixedFill ==
  ASSUME SampleInv, NEW i \in 1 .. 3, FillFrom(i), strategy = "mixed_hard", MixedSources, data \in DataSets,
         NEW take, Added(take, Source[i], Target[i]),
         Len(pool) \in Nat, IsFiniteSet(ToSet(pool)), Len(pool') <= NumNegatives
  PROVE  Mixed(stage', ToSet(pool'), Len(pool'), DislikedBefore, Shown, Unrated, Target)
<1>. DEFINE S == ToSet(pool)
           n == Len(pool)
           room == NumNegatives - Len(pool)
           D == DislikedBefore
           T1 == Target[1]
           T2 == Target[2]
           T3 == Target[3]
<1>1. T1 \in Nat /\ T2 \in Nat /\ T3 \in Nat /\ T1 + T2 + T3 <= NumNegatives /\ T2 <= NumNegatives
  BY TargetIs
<1>2. NumNegatives \in Nat /\ n \in Nat /\ room \in Int /\ IsFiniteSet(S)
  BY CatalogIs
<1>3. Mixed(stage, S, n, D, Shown, Unrated, Target)
  BY DEF SampleInv, QuotasKept
<1>4. /\ D \subseteq Catalog /\ IsFiniteSet(D \cap Shown) /\ IsFiniteSet(D \ Shown)
      /\ IsFiniteSet(Unrated) /\ Unrated \subseteq Shown /\ Unrated \cap D = {}
  BY SetsAre
<1>5. /\ take \subseteq Source[i] \ S /\ IsFiniteSet(take)
      /\ Cardinality(take) = Least(Least(Target[i], room), Cardinality(Source[i] \ S))
      /\ Cardinality(take) \in Nat /\ Len(pool') = n + Cardinality(take)
      /\ ToSet(pool') = S \cup take
  BY DEF Added
<1>6. CASE i = 1
  <2>1. stage = "pool_1" /\ stage' = "pool_2" /\ Source[1] = D \cap Shown
    BY <1>6 DEF FillFrom, MixedSources
  <2>2. pool = <<>>
    BY <2>1 DEF SampleInv, PoolChosen
  <2>3. S = {} /\ n = 0
    BY <2>2 DEF ToSet
  <2>4. take \subseteq D \cap Shown
    BY <1>5, <1>6, <2>1
  <2>. HIDE DEF S, n, D, T1, T2, T3
  <2>5. T1 <= room
    <3>1. room = NumNegatives - n
      BY DEF n
    <3>. HIDE DEF room
    <3>. QED  BY <1>1, <1>2, <2>3, <3>1
  <2>6. Cardinality(take) = Least(Least(T1, room), Cardinality((D \cap Shown) \ S))
    BY <1>5, <1>6, <2>1 DEF T1
  <2>7. T1 \in Int /\ room \in Int /\ S \cap (D \cap Shown) = {}
    BY <1>1, <1>2, <2>3
  <2>. HIDE DEF room
  <2>8. AllOrQuota(S \cup take, D \cap Shown, T1) /\ Cardinality(take) <= T1
    BY <1>4, <2>4, <2>5, <2>6, <2>7, TakesAll
  <2>9. Len(pool') <= T1 /\ ToSet(pool') \subseteq D \cap Shown
    BY <1>1, <1>5, <2>3, <2>4, <2>8
  <2>. QED  BY <1>5, <2>1, <2>8, <2>9 DEF Mixed, T1, D
<1>7. CASE i = 2
  <2>1. stage = "pool_2" /\ stage' = "pool_3" /\ Source[2] = FirstUnseen(Recommended, AskedFor)
    BY <1>7 DEF FillFrom, MixedSources
  <2>. DEFINE F == FirstUnseen(Recommended, AskedFor)
  <2>2. S \subseteq D \cap Shown /\ n <= T1 /\ AllOrQuota(S, D \cap Shown, T1)
    BY <1>3, <2>1 DEF Mixed
  <2>3. F \subseteq Unrated
    BY DEF FirstUnseen, Unrated, UnseenOf, ToSet
  <2>4. take \subseteq F \ S /\ Cardinality(take) = Least(Least(T2, room), Cardinality(F \ S))
    BY <1>5, <1>7, <2>1
  <2>5. T2 <= room
    <3>1. room = NumNegatives - n
      OBVIOUS
    <3>. HIDE DEF room, T1, T2, T3, n
    <3>. QED  BY <1>1, <1>2, <2>2, <3>1
  <2>6. AskedFor \in Nat /\ (AskedFor >= T2 \/ AskedFor >= Len(Recommended))
    <3>1. Recommended \in Seq(Catalog)
      BY CatalogIs
    <3>2. Len(Recommended) \in Nat
      BY <3>1
    <3>. HIDE DEF T1, T2, T3
    <3>. QED  BY <1>1, <1>2, <3>2, AskedForIs
  <2>. HIDE DEF F
  <2>7. S \cap F = {}
    BY <1>4, <2>2, <2>3
  <2>. HIDE DEF S, n, D, T1, T2, T3, room
  <2>8. QuotaOrAll(S \cup take, Unrated, T2) /\ Cardinality(take) <= T2
    <3>1. Recommended \in Seq(Catalog) /\ IsInjective(Recommended)
      BY CatalogIs
    <3>2. Unrated = UnseenOf(Recommended)
      BY DEF Unrated
    <3>3. room \in Int /\ IsFiniteSet(S) /\ T2 \in Nat
      BY <1>1, <1>2
    <3>4. IsFiniteSet(Unrated)
      BY <1>4
    <3>. QED  BY <2>4, <2>5, <2>6, <2>7, <3>1, <3>2, <3>3, <3>4, TakesQuota DEF F
  <2>9. take \cap (D \cap Shown) = {} /\ take \cap (D \ Shown) = {}
    BY <1>4, <2>3, <2>4
  <2>10. AllOrQuota(S \cup take, D \cap Shown, T1)
    BY <2>2, <2>9, KeepsAll
  <2>11. (S \cup take) \cap (D \ Shown) = {}
    BY <2>2, <2>9
  <2>12. Len(pool') <= T1 + T2
    BY <1>1, <1>2, <1>5, <2>2, <2>8
  <2>. QED  BY <1>5, <2>1, <2>8, <2>10, <2>11, <2>12 DEF Mixed, T1, T2, D
<1>8. CASE i = 3
  <2>1. stage = "pool_3" /\ stage' = "pool_4" /\ Source[3] = D \ Shown
    BY <1>8 DEF FillFrom, MixedSources
  <2>2. /\ S \cap (D \ Shown) = {} /\ n <= T1 + T2
        /\ AllOrQuota(S, D \cap Shown, T1) /\ QuotaOrAll(S, Unrated, T2)
    BY <1>3, <2>1 DEF Mixed
  <2>3. take \subseteq D \ Shown /\ Cardinality(take) = Least(Least(T3, room), Cardinality((D \ Shown) \ S))
    BY <1>5, <1>8, <2>1
  <2>4. T3 <= room
    <3>1. room = NumNegatives - n
      OBVIOUS
    <3>. HIDE DEF room, T1, T2, T3, n
    <3>. QED  BY <1>1, <1>2, <2>2, <3>1
  <2>. HIDE DEF S, n, D, T1, T2, T3, room
  <2>5. AllOrQuota(S \cup take, D \ Shown, T3)
    <3>1. T3 \in Int /\ room \in Int
      BY <1>1, <1>2
    <3>. QED  BY <1>4, <2>2, <2>3, <2>4, <3>1, TakesAll
  <2>6. AllOrQuota(S \cup take, D \cap Shown, T1)
    <3>1. take \cap (D \cap Shown) = {}
      BY <2>3
    <3>. QED  BY <2>2, <3>1, KeepsAll
  <2>7. QuotaOrAll(S \cup take, Unrated, T2)
    <3>1. T2 \in Int
      BY <1>1
    <3>. QED  BY <1>2, <1>5, <2>2, <3>1, KeepsQuota
  <2>. QED  BY <1>5, <2>1, <2>5, <2>6, <2>7 DEF Mixed, T1, T2, T3, D
<1>9. i = 1 \/ i = 2 \/ i = 3
  OBVIOUS
<1>. QED  BY <1>6, <1>7, <1>8, <1>9

LEMMA WorstFill ==
  ASSUME SampleInv, NEW i \in 1 .. 3, FillFrom(i), strategy = "worst_recommended", WorstSources,
         data \in DataSets, NEW take, Added(take, Source[i], Target[i]),
         Len(pool) \in Nat, IsFiniteSet(ToSet(pool))
  PROVE  Worst(stage', ToSet(pool'), DislikedBefore, Unrated, Target)
<1>. DEFINE S == ToSet(pool)
           D == DislikedBefore
           T1 == Target[1]
           room == NumNegatives - Len(pool)
           k == LatestK(2 * NumNegatives)
           F == WorstUnseen(k)
<1>1. T1 = NumNegatives /\ T1 \in Nat /\ NumNegatives \in Nat
  BY CatalogIs DEF WorstSources
<1>2. Worst(stage, S, D, Unrated, Target)
  BY DEF SampleInv, QuotasKept
<1>3. IsFiniteSet(Unrated) /\ Unrated \cap D = {} /\ IsFiniteSet(S)
  BY SetsAre
<1>4. /\ take \subseteq Source[i] \ S /\ IsFiniteSet(take)
      /\ Cardinality(take) = Least(Least(Target[i], room), Cardinality(Source[i] \ S))
      /\ ToSet(pool') = S \cup take
  BY DEF Added
<1>5. CASE i = 1
  <2>1. stage = "pool_1" /\ stage' = "pool_2" /\ Source[1] = F
    BY <1>5 DEF FillFrom, WorstSources
  <2>2. pool = <<>>
    BY <2>1 DEF SampleInv, PoolChosen
  <2>3. S = {} /\ Len(pool) = 0
    BY <2>2 DEF ToSet
  <2>4. F = FirstUnseen(Reverse(Recommended), k)
    BY DEF WorstUnseen
  <2>5. take \subseteq F \ S /\ Cardinality(take) = Least(Least(T1, room), Cardinality(F \ S))
    BY <1>4, <1>5, <2>1
  <2>6. T1 <= room /\ room \in Int
    BY <1>1, <2>3
  <2>7. k \in Nat /\ (k >= T1 \/ k >= Len(Reverse(Recommended)))
    <3>1. Len(Reverse(Recommended)) = Len(Recommended)
      BY ReversedIs
    <3>. HIDE DEF k
    <3>. QED  BY <1>1, <3>1, AskedForIs DEF k
  <2>8. F \subseteq Unrated
    <3>1. FirstUnseen(Reverse(Recommended), k) \subseteq UnseenOf(Reverse(Recommended))
      BY DEF FirstUnseen, UnseenOf, ToSet
    <3>. QED  BY <2>4, <3>1, ReversedIs DEF Unrated
  <2>. HIDE DEF F, S, D, T1, room, k
  <2>9. QuotaOrAll(S \cup take, Unrated, T1)
    <3>1. Reverse(Recommended) \in Seq(Catalog) /\ IsInjective(Reverse(Recommended))
      BY ReversedIs
    <3>2. Unrated = UnseenOf(Reverse(Recommended))
      BY ReversedIs DEF Unrated
    <3>3. S \cap FirstUnseen(Reverse(Recommended), k) = {}
      BY <2>3
    <3>4. IsFiniteSet(Unrated) /\ IsFiniteSet(S) /\ T1 \in Nat
      BY <1>1, <1>3
    <3>5. /\ take \subseteq FirstUnseen(Reverse(Recommended), k) \ S
          /\ Cardinality(take) = Least(Least(T1, room), Cardinality(FirstUnseen(Reverse(Recommended), k) \ S))
      BY <2>4, <2>5
    <3>. HIDE DEF Reverse
    <3>. QED  BY <2>6, <2>7, <3>1, <3>2, <3>3, <3>4, <3>5, TakesQuota
  <2>10. (S \cup take) \cap D = {}
    BY <1>3, <2>3, <2>5, <2>8
  <2>. QED  BY <1>4, <2>9, <2>10 DEF Worst, T1, D
<1>6. CASE i = 2 \/ i = 3
  <2>1. Source[i] = {} /\ stage \in {"pool_2", "pool_3"}
    BY <1>6 DEF FillFrom, WorstSources
  <2>2. ToSet(pool') = S
    BY <1>4, <2>1
  <2>3. S \cap D = {} /\ QuotaOrAll(S, Unrated, T1)
    BY <1>2, <2>1 DEF Worst
  <2>. QED  BY <2>2, <2>3 DEF Worst
<1>7. i = 1 \/ i = 2 \/ i = 3
  OBVIOUS
<1>. QED  BY <1>5, <1>6, <1>7

-----------------------------------------------------------------------------
(* Each action.                                                            *)

LEMMA FillFromStep ==
  ASSUME SampleInv, NEW i \in 1 .. 3, FillFrom(i)
  PROVE  SampleInv'
<1>1. /\ stage \in {"pool_1", "pool_2", "pool_3"} /\ stage' \in {"pool_2", "pool_3", "pool_4"}
      /\ AppendShuffled(Source[i], Target[i])
      /\ UNCHANGED <<data, strategy, history, watched, disliked, easy, candidates, labels>>
  <2>1. i = 1 \/ i = 2 \/ i = 3
    OBVIOUS
  <2>. QED  BY <2>1 DEF FillFrom
<1>2. stage \in Filling /\ stage' \in Filling
  BY <1>1 DEF Filling
<1>3. /\ Known' /\ PastKnown' /\ EasyUnrated' /\ Still
      /\ data \in DataSets /\ watched \in Seq(PaddedMovies)
      /\ strategy \in {"mixed_hard", "worst_recommended"}
      /\ Upto(watched) = RatedBefore(AllRatings) /\ Upto(disliked) = DislikedBefore
  BY <1>1, <1>2, PastStays
<1>4. /\ strategy = "mixed_hard" => MixedSources
      /\ strategy = "worst_recommended" => WorstSources
      /\ Source[i] \subseteq Catalog \ {data.movie}
  BY <1>3, SourcesAre
<1>5. Target[i] \in Nat
  BY <1>3, TargetIs
<1>. DEFINE values == Source[i]
           maxTake == Target[i]
<1>6. values \subseteq Catalog \ {data.movie} /\ maxTake \in Int /\ AppendShuffled(values, maxTake)
  BY <1>1, <1>4, <1>5
<1>. HIDE DEF values, maxTake
<1>7. PICK take :
        /\ Added(take, values, maxTake)
        /\ data.movie \notin ToSet(pool') /\ Len(pool') <= NumNegatives
        /\ Len(pool) \in Nat /\ IsFiniteSet(ToSet(pool)) /\ IsFiniteSet(ToSet(pool'))
  BY <1>6, FillPool
<1>8. Added(take, Source[i], Target[i])
  BY <1>7 DEF values, maxTake
<1>9. take \subseteq values /\ ToSet(pool') = ToSet(pool) \cup take
      /\ pool' \in Seq(Catalog) /\ IsInjective(pool')
  BY <1>7 DEF Added
<1>10. PoolChosen'
  <2>1. data' = data
    BY <1>1
  <2>2. stage' \notin {"history", "lookup", "easy", "pool_1", "assemble", "shuffle", "done"}
    BY <1>1
  <2>. QED  BY <1>7, <1>9, <2>1, <2>2 DEF PoolChosen
<1>11. RowAssembled'
  BY <1>1 DEF RowAssembled
<1>12. QuotasKept'
  <2>1. ASSUME strategy = "mixed_hard"
        PROVE  Mixed(stage', ToSet(pool'), Len(pool'), DislikedBefore, Shown, Unrated, Target)
    BY <1>3, <1>4, <1>7, <1>8, <2>1, MixedFill
  <2>2. ASSUME strategy = "worst_recommended"
        PROVE  Worst(stage', ToSet(pool'), DislikedBefore, Unrated, Target)
    BY <1>3, <1>4, <1>7, <1>8, <2>2, WorstFill
  <2>3. take \cap LikedBefore = {}
    <3>1. Unrated \cap LikedBefore = {} /\ DislikedBefore \cap LikedBefore = {}
      BY <1>3, SetsAre
    <3>2. \A k : WorstUnseen(k) \subseteq Unrated /\ FirstUnseen(Recommended, k) \subseteq Unrated
      <4>1. \A k : WorstUnseen(k) \subseteq UnseenOf(Reverse(Recommended))
        BY DEF WorstUnseen, FirstUnseen, UnseenOf, ToSet
      <4>2. \A k : FirstUnseen(Recommended, k) \subseteq UnseenOf(Recommended)
        BY DEF FirstUnseen, UnseenOf, ToSet
      <4>. QED  BY <4>1, <4>2, ReversedIs DEF Unrated
    <3>3. i = 1 \/ i = 2 \/ i = 3
      OBVIOUS
    <3>4. CASE strategy = "mixed_hard"
      <4>1. /\ Source[1] = DislikedBefore \cap Shown
            /\ Source[2] = FirstUnseen(Recommended, AskedFor)
            /\ Source[3] = DislikedBefore \ Shown
        BY <1>4, <3>4 DEF MixedSources
      <4>2. Source[i] \cap LikedBefore = {}
        BY <3>1, <3>2, <3>3, <4>1
      <4>. QED  BY <1>9, <4>2 DEF values
    <3>5. CASE strategy = "worst_recommended"
      <4>1. /\ Source[1] = WorstUnseen(LatestK(2 * NumNegatives))
            /\ Source[2] = {} /\ Source[3] = {}
        BY <1>4, <3>5 DEF WorstSources
      <4>2. Source[i] \cap LikedBefore = {}
        BY <3>1, <3>2, <3>3, <4>1
      <4>. QED  BY <1>9, <4>2 DEF values
    <3>. QED  BY <1>3, <3>4, <3>5
  <2>4. ToSet(pool') \cap LikedBefore = {}
    <3>1. ToSet(pool) \cap LikedBefore = {}
      BY DEF SampleInv, QuotasKept
    <3>. QED  BY <1>9, <2>3, <3>1
  <2>5. /\ DislikedBefore' = DislikedBefore /\ LikedBefore' = LikedBefore
        /\ Unrated' = Unrated /\ Shown' = Shown /\ Target' = Target /\ strategy' = strategy
    BY <1>3 DEF Still
  <2>6. ToSet(pool)' = ToSet(pool')
    BY DEF ToSet
  <2>. QED  BY <2>1, <2>2, <2>4, <2>5, <2>6 DEF QuotasKept
<1>. QED  BY <1>3, <1>10, <1>11, <1>12 DEF SampleInv

LEMMA FillUpStep ==
  ASSUME SampleInv, FillUp
  PROVE  SampleInv'
<1>1. /\ stage = "pool_4" /\ stage' = "assemble"
      /\ AppendShuffled(easy, NumNegatives - Len(pool))
      /\ UNCHANGED <<data, strategy, history, watched, disliked, easy, candidates, labels>>
  BY DEF FillUp
<1>2. stage \in Filling /\ stage' \in Filling
  BY <1>1 DEF Filling
<1>3. /\ Known' /\ PastKnown' /\ EasyUnrated' /\ Still
      /\ data \in DataSets
      /\ strategy \in {"mixed_hard", "worst_recommended"}
  BY <1>1, <1>2, PastStays
<1>4. easy \subseteq Catalog \ ({data.movie} \cup RatedBefore(AllRatings)) /\ Cardinality(easy) = NumNegatives
  BY <1>1 DEF SampleInv, EasyUnrated
<1>5. pool \in Seq(Catalog) /\ IsInjective(pool) /\ Len(pool) <= NumNegatives
  BY DEF SampleInv, PoolChosen
<1>. DEFINE n == Len(pool)
           room == NumNegatives - n
           S == ToSet(pool)
<1>6. n \in Nat /\ NumNegatives \in Nat /\ room \in Int /\ easy \subseteq Catalog \ {data.movie}
  BY <1>4, <1>5, CatalogIs
<1>7. PICK take :
        /\ Added(take, easy, room)
        /\ data.movie \notin ToSet(pool') /\ Len(pool') <= NumNegatives
        /\ Len(pool) \in Nat /\ IsFiniteSet(ToSet(pool)) /\ IsFiniteSet(ToSet(pool'))
  BY <1>1, <1>6, FillPool
<1>8. /\ take \subseteq easy \ S /\ IsFiniteSet(take)
      /\ Cardinality(take) = Least(Least(room, NumNegatives - n), Cardinality(easy \ S))
      /\ Len(pool') = n + Cardinality(take) /\ ToSet(pool') = S \cup take
      /\ pool' \in Seq(Catalog) /\ IsInjective(pool')
  BY <1>7 DEF Added
<1>9. Len(pool') = NumNegatives
  <2>1. IsFiniteSet(easy)
    <3>1. easy \in SUBSET Catalog
      BY <1>4
    <3>. QED  BY <3>1, CatalogIs, FS_Subset
  <2>2. Cardinality(S) = n /\ IsFiniteSet(S)
    BY <1>5, InjectiveCounts
  <2>3. Cardinality(easy \ S) = Cardinality(easy) - Cardinality(easy \cap S)
    BY <2>1, FS_Difference
  <2>4. Cardinality(easy \cap S) <= Cardinality(S) /\ Cardinality(easy \cap S) \in Nat
    <3>1. IsFiniteSet(easy \cap S) /\ Cardinality(easy \cap S) <= Cardinality(S)
      BY <2>2, FS_Intersection
    <3>. QED  BY <3>1, FS_CardinalityType
  <2>5. Cardinality(easy \ S) >= NumNegatives - n
    BY <1>4, <1>6, <2>2, <2>3, <2>4
  <2>6. Cardinality(easy \ S) \in Int
    BY <1>4, <1>6, <2>3, <2>4
  <2>7. Cardinality(take) = NumNegatives - n
    BY <1>6, <1>8, <2>5, <2>6 DEF Least
  <2>. QED  BY <1>6, <1>8, <2>7
<1>10. PoolChosen'
  <2>1. data' = data
    BY <1>1
  <2>2. stage' \notin {"history", "lookup", "easy", "pool_1"}
    BY <1>1
  <2>. QED  BY <1>6, <1>7, <1>8, <1>9, <2>1, <2>2 DEF PoolChosen
<1>11. RowAssembled'
  BY <1>1 DEF RowAssembled
<1>12. QuotasKept'
  <2>1. take \cap LikedBefore = {} /\ take \cap DislikedBefore = {}
    <3>1. LikedBefore \cup DislikedBefore = RatedBefore(AllRatings)
      BY <1>3, SetsAre
    <3>. QED  BY <1>4, <1>8, <3>1
  <2>2. QuotasKept
    BY DEF SampleInv
  <2>3. Target[1] \in Int /\ Target[2] \in Int
    BY <1>3, TargetIs
  <2>4. IsFiniteSet(S)
    BY <1>7
  <2>. DEFINE D == DislikedBefore
             T1 == Target[1]
             T2 == Target[2]
             T3 == Target[3]
  <2>5. ASSUME strategy = "mixed_hard"
        PROVE  Mixed(stage', ToSet(pool'), Len(pool'), DislikedBefore, Shown, Unrated, Target)
    <3>1. AllOrQuota(S, D \cap Shown, T1) /\ QuotaOrAll(S, Unrated, T2) /\ AllOrQuota(S, D \ Shown, T3)
      BY <1>1, <2>2, <2>5 DEF QuotasKept, Mixed
    <3>2. take \cap (D \cap Shown) = {} /\ take \cap (D \ Shown) = {}
      BY <2>1
    <3>3. IsFiniteSet(take) /\ T2 \in Int
      BY <1>8, <2>3
    <3>. HIDE DEF S, D, T1, T2, T3
    <3>4. AllOrQuota(S \cup take, D \cap Shown, T1) /\ AllOrQuota(S \cup take, D \ Shown, T3)
      BY <3>1, <3>2, KeepsAll
    <3>5. QuotaOrAll(S \cup take, Unrated, T2)
      BY <2>4, <3>1, <3>3, KeepsQuota
    <3>. QED  BY <1>1, <1>8, <3>4, <3>5 DEF Mixed, T1, T2, T3, D
  <2>6. ASSUME strategy = "worst_recommended"
        PROVE  Worst(stage', ToSet(pool'), DislikedBefore, Unrated, Target)
    <3>1. S \cap D = {} /\ QuotaOrAll(S, Unrated, T1)
      BY <1>1, <2>2, <2>6 DEF QuotasKept, Worst
    <3>2. IsFiniteSet(take) /\ T1 \in Int /\ (S \cup take) \cap D = {}
      BY <1>8, <2>1, <2>3, <3>1
    <3>. HIDE DEF S, D, T1, T2, T3
    <3>3. QuotaOrAll(S \cup take, Unrated, T1)
      BY <2>4, <3>1, <3>2, KeepsQuota
    <3>. QED  BY <1>8, <3>2, <3>3 DEF Worst, T1, D
  <2>7. ToSet(pool') \cap LikedBefore = {}
    BY <1>8, <2>1, <2>2 DEF QuotasKept
  <2>8. /\ DislikedBefore' = DislikedBefore /\ LikedBefore' = LikedBefore
        /\ Unrated' = Unrated /\ Shown' = Shown /\ Target' = Target /\ strategy' = strategy
    BY <1>3 DEF Still
  <2>9. ToSet(pool)' = ToSet(pool')
    BY DEF ToSet
  <2>. QED  BY <2>5, <2>6, <2>7, <2>8, <2>9 DEF QuotasKept
<1>. QED  BY <1>3, <1>10, <1>11, <1>12 DEF SampleInv

-----------------------------------------------------------------------------
(* The other actions.                                                      *)

Early == {"history", "lookup", "easy", "pool_1"}

LEMMA EmptyPool ==
  /\ <<>> \in Seq(Catalog) /\ <<>> \in Seq(PaddedMovies) /\ IsInjective(<<>>) /\ ToSet(<<>>) = {} /\ Len(<<>>) = 0
BY DEF IsInjective, ToSet

LEMMA InitEstablishes ==
  ASSUME Init
  PROVE  SampleInv
<1>1. /\ data \in DataSets /\ strategy \in {"mixed_hard", "worst_recommended"} /\ stage = "history"
      /\ watched = <<>> /\ easy = {} /\ pool = <<>>
  BY DEF Init
<1>2. Known
  BY <1>1 DEF Known, Stages
<1>3. PastKnown
  BY <1>1, EmptyPool DEF PastKnown
<1>4. EasyUnrated
  BY <1>1 DEF EasyUnrated
<1>5. PoolChosen
  BY <1>1, EmptyPool, CatalogIs DEF PoolChosen
<1>6. QuotasKept
  BY <1>1, EmptyPool DEF QuotasKept, Mixed, Worst
<1>7. RowAssembled
  BY <1>1 DEF RowAssembled
<1>. QED  BY <1>2, <1>3, <1>4, <1>5, <1>6, <1>7 DEF SampleInv

(* Before the first source nothing of the pool can have gone wrong.        *)
LEMMA EarlySteps ==
  ASSUME SampleInv, stage \in Early, stage' \in Early, UNCHANGED <<data, strategy, pool>>
  PROVE  Known' /\ PoolChosen' /\ QuotasKept' /\ RowAssembled' /\ Still
<1>1. pool = <<>> /\ Known
  BY DEF SampleInv, PoolChosen, Early
<1>2. pool' = <<>>
  BY <1>1
<1>3. Still
  BY Frame
<1>4. Known'
  BY <1>1 DEF Known, Stages, Early
<1>5. stage' \notin {"pool_2", "pool_3", "pool_4", "assemble", "shuffle", "done"}
  BY DEF Early
<1>6. PoolChosen'
  BY <1>2, <1>5, EmptyPool, CatalogIs DEF PoolChosen
<1>7. QuotasKept'
  <2>1. ToSet(pool)' = {}
    BY <1>2, EmptyPool DEF ToSet
  <2>. QED  BY <1>5, <2>1 DEF QuotasKept, Mixed, Worst
<1>8. RowAssembled'
  BY <1>5 DEF RowAssembled
<1>. QED  BY <1>3, <1>4, <1>6, <1>7, <1>8

LEMMA MapHistoryStep ==
  ASSUME SampleInv, MapHistory
  PROVE  SampleInv'
<1>1. /\ stage = "history" /\ stage' = "lookup"
      /\ history' = Before(UserRow(AllRatings), data.time, MaxHistory)
      /\ UNCHANGED <<data, strategy, watched, disliked, easy, pool, candidates, labels>>
  BY DEF MapHistory
<1>2. Known' /\ PoolChosen' /\ QuotasKept' /\ RowAssembled' /\ Still
  BY <1>1, EarlySteps DEF Early
<1>3. PastKnown'
  <2>1. (Before(UserRow(AllRatings), data.time, MaxHistory))' = Before(UserRow(AllRatings), data.time, MaxHistory)
    BY <1>1 DEF UserRow, AllRatings
  <2>2. watched' \in Seq(PaddedMovies)
    BY <1>1 DEF SampleInv, PastKnown
  <2>. QED  BY <1>1, <2>1, <2>2 DEF PastKnown
<1>4. EasyUnrated'
  BY <1>1, <1>2 DEF SampleInv, EasyUnrated, Still
<1>. QED  BY <1>2, <1>3, <1>4 DEF SampleInv

LEMMA LookupPastStep ==
  ASSUME SampleInv, LookupPast
  PROVE  SampleInv'
<1>1. /\ stage = "lookup" /\ stage' = "easy"
      /\ watched' = Before(UserRow(AllRatings), data.time, Width(AllRatings))
      /\ disliked' = Before(UserRow(data.disliked), data.time, Width(data.disliked))
      /\ UNCHANGED <<data, strategy, history, easy, pool, candidates, labels>>
  BY DEF LookupPast
<1>2. Known' /\ PoolChosen' /\ QuotasKept' /\ RowAssembled' /\ Still
  BY <1>1, EarlySteps DEF Early
<1>3. PastKnown'
  <2>1. data \in DataSets
    BY DEF SampleInv, Known
  <2>2. AllRatings \in Seq(Rating) /\ data.disliked \in Seq(Rating)
    BY <2>1, DataIs
  <2>3. Upto(watched') = RatedBefore(AllRatings) /\ watched' \in Seq(PaddedMovies)
    BY <1>1, <2>1, <2>2, PastOfFile
  <2>4. Upto(disliked') = RatedBefore(data.disliked)
    BY <1>1, <2>1, <2>2, PastOfFile
  <2>5. Upto(watched)' = Upto(watched') /\ Upto(disliked)' = Upto(disliked')
    BY DEF Upto
  <2>. QED  BY <1>1, <1>2, <2>3, <2>4, <2>5 DEF PastKnown, Still, DislikedBefore
<1>4. EasyUnrated'
  BY <1>1, <1>2 DEF SampleInv, EasyUnrated, Still
<1>. QED  BY <1>2, <1>3, <1>4 DEF SampleInv

LEMMA EasySteps ==
  ASSUME SampleInv, DrawEasy \/ EasyDrawn
  PROVE  SampleInv'
<1>1. /\ stage = "easy" /\ stage' \in {"easy", "pool_1"}
      /\ UNCHANGED <<data, strategy, history, watched, disliked, pool, candidates, labels>>
  BY DEF DrawEasy, EasyDrawn
<1>2. Known' /\ PoolChosen' /\ QuotasKept' /\ RowAssembled' /\ Still
  BY <1>1, EarlySteps DEF Early
<1>3. Upto(watched) = RatedBefore(AllRatings) /\ Upto(disliked) = DislikedBefore /\ watched \in Seq(PaddedMovies)
  BY <1>1 DEF SampleInv, PastKnown
<1>4. PastKnown'
  <2>1. Upto(watched)' = Upto(watched) /\ Upto(disliked)' = Upto(disliked)
    BY <1>1 DEF Upto
  <2>. QED  BY <1>1, <1>2, <1>3, <2>1 DEF PastKnown, Still
<1>5. EasyUnrated'
  <2>1. easy \subseteq Catalog \ ({data.movie} \cup RatedBefore(AllRatings))
    BY DEF SampleInv, EasyUnrated
  <2>2. CASE DrawEasy
    <3>1. Upto(WatchedAndPositive) = {data.movie} \cup RatedBefore(AllRatings)
      <4>1. data \in DataSets
        BY DEF SampleInv, Known
      <4>. QED  BY <1>3, <4>1, SourcesAre
    <3>2. PICK m \in Catalog \ Upto(WatchedAndPositive) : easy' = easy \cup {m}
      BY <2>2 DEF DrawEasy
    <3>3. easy' \subseteq Catalog \ ({data.movie} \cup RatedBefore(AllRatings))
      BY <2>1, <3>1, <3>2
    <3>4. stage' = "easy"
      BY <1>1, <2>2 DEF DrawEasy
    <3>. QED  BY <1>1, <1>2, <3>3, <3>4 DEF EasyUnrated, Still
  <2>3. CASE EasyDrawn
    <3>1. Cardinality(easy) = NumNegatives /\ easy' = easy
      BY <2>3 DEF EasyDrawn
    <3>. QED  BY <1>1, <1>2, <2>1, <3>1 DEF EasyUnrated, Still
  <2>. QED  BY <2>2, <2>3
<1>. QED  BY <1>2, <1>4, <1>5 DEF SampleInv

(* After the pool is full, nothing of it changes.                          *)
LEMMA LateSteps ==
  ASSUME SampleInv, stage \in {"assemble", "shuffle", "done"}, stage' \in {"assemble", "shuffle", "done"},
         UNCHANGED <<data, strategy, history, watched, disliked, easy, pool>>
  PROVE  Known' /\ PastKnown' /\ EasyUnrated' /\ PoolChosen' /\ QuotasKept' /\ Still
<1>1. stage \in Filling /\ stage' \in Filling
  BY DEF Filling
<1>2. Known' /\ PastKnown' /\ EasyUnrated' /\ Still
  BY <1>1, PastStays
<1>3. PoolChosen'
  <2>1. PoolChosen
    BY DEF SampleInv
  <2>2. ToSet(pool)' = ToSet(pool) /\ pool' = pool /\ data' = data
    BY DEF ToSet
  <2>. QED  BY <2>1, <2>2 DEF PoolChosen
<1>4. QuotasKept'
  <2>1. QuotasKept
    BY DEF SampleInv
  <2>2. ToSet(pool)' = ToSet(pool)
    BY DEF ToSet
  <2>3. /\ DislikedBefore' = DislikedBefore /\ LikedBefore' = LikedBefore
        /\ Unrated' = Unrated /\ Shown' = Shown /\ Target' = Target /\ strategy' = strategy
    BY <1>2 DEF Still
  <2>4. Len(pool)' = Len(pool)
    OBVIOUS
  <2>. QED  BY <2>1, <2>2, <2>3, <2>4 DEF QuotasKept, Mixed, Worst
<1>. QED  BY <1>2, <1>3, <1>4

LEMMA AssembleStep ==
  ASSUME SampleInv, Assemble
  PROVE  SampleInv'
<1>1. /\ stage = "assemble" /\ stage' = "shuffle"
      /\ \E refill \in [1 .. NumNegatives - Len(pool) -> Catalog] :
           candidates' = <<data.movie>> \o pool \o refill
      /\ labels' = FirstLabelled
      /\ UNCHANGED <<data, strategy, history, watched, disliked, easy, pool>>
  BY DEF Assemble, FirstLabelled
<1>2. Known' /\ PastKnown' /\ EasyUnrated' /\ PoolChosen' /\ QuotasKept' /\ Still
  BY <1>1, LateSteps
<1>3. pool \in Seq(Catalog) /\ Len(pool) = NumNegatives /\ data.movie \in Catalog
  <2>1. data.movie \in Catalog
    BY DataIs DEF SampleInv, Known
  <2>. QED  BY <1>1, <2>1 DEF SampleInv, PoolChosen
<1>4. candidates' = Row
  <2>1. PICK refill \in [1 .. NumNegatives - Len(pool) -> Catalog] :
          candidates' = <<data.movie>> \o pool \o refill
    BY <1>1
  <2>2. NumNegatives \in Nat
    BY CatalogIs
  <2>3. DOMAIN refill = {}
    BY <1>3, <2>2
  <2>4. refill = <<>>
    BY <2>1, <2>3
  <2>5. Row \in Seq(Catalog)
    BY <1>3 DEF Row
  <2>. QED  BY <2>1, <2>4, <2>5 DEF Row
<1>5. RowAssembled'
  <2>1. Row' = Row /\ FirstLabelled' = FirstLabelled
    BY <1>1 DEF Row, FirstLabelled
  <2>. QED  BY <1>1, <1>4, <2>1 DEF RowAssembled
<1>. QED  BY <1>2, <1>5 DEF SampleInv

LEMMA ShuffleStep ==
  ASSUME SampleInv, Shuffle
  PROVE  SampleInv'
<1>1. /\ stage = "shuffle" /\ stage' = "done"
      /\ \E i \in 1 .. NumCandidates :
           candidates' = MoveFirst(candidates, i) /\ labels' = MoveFirst(labels, i)
      /\ UNCHANGED <<data, strategy, history, watched, disliked, easy, pool>>
  BY DEF Shuffle
<1>2. Known' /\ PastKnown' /\ EasyUnrated' /\ PoolChosen' /\ QuotasKept' /\ Still
  BY <1>1, LateSteps
<1>3. candidates = Row /\ labels = FirstLabelled
  BY <1>1 DEF SampleInv, RowAssembled
<1>4. RowAssembled'
  <2>1. Row' = Row /\ FirstLabelled' = FirstLabelled
    BY <1>1 DEF Row, FirstLabelled
  <2>2. PICK i \in 1 .. NumCandidates :
          candidates' = MoveFirst(Row, i) /\ labels' = MoveFirst(FirstLabelled, i)
    BY <1>1, <1>3
  <2>3. (\E j \in 1 .. NumCandidates :
          candidates = MoveFirst(Row, j) /\ labels = MoveFirst(FirstLabelled, j))'
    BY <2>1, <2>2
  <2>. QED  BY <1>1, <2>3 DEF RowAssembled
<1>. QED  BY <1>2, <1>4 DEF SampleInv

LEMMA StutterStep ==
  ASSUME SampleInv, UNCHANGED vars
  PROVE  SampleInv'
<1>. USE DEF vars
<1>1. Still
  BY Frame
<1>2. Known' /\ PastKnown'
  <2>1. Upto(watched)' = Upto(watched) /\ Upto(disliked)' = Upto(disliked)
    BY DEF Upto
  <2>2. (Before(UserRow(AllRatings), data.time, MaxHistory))' = Before(UserRow(AllRatings), data.time, MaxHistory)
    BY DEF UserRow, AllRatings
  <2>. QED  BY <1>1, <2>1, <2>2 DEF SampleInv, Known, PastKnown, Still
<1>3. EasyUnrated'
  BY <1>1 DEF SampleInv, EasyUnrated, Still
<1>4. PoolChosen'
  BY DEF SampleInv, PoolChosen, ToSet
<1>5. QuotasKept'
  <2>1. ToSet(pool)' = ToSet(pool) /\ Len(pool)' = Len(pool) /\ stage' = stage
    BY DEF ToSet
  <2>2. QuotasKept
    BY DEF SampleInv
  <2>. QED  BY <1>1, <2>1, <2>2 DEF QuotasKept, Mixed, Worst, Still
<1>6. RowAssembled'
  BY DEF SampleInv, RowAssembled, Row, FirstLabelled
<1>. QED  BY <1>2, <1>3, <1>4, <1>5, <1>6 DEF SampleInv

-----------------------------------------------------------------------------
(* What the invariant says of the row.                                     *)

(* Where the shuffle took each place of the rows from.                     *)
Shuffled(src) ==
  /\ src \in [1 .. NumCandidates -> 1 .. NumCandidates]
  /\ \A p, q \in 1 .. NumCandidates : src[p] = src[q] => p = q
  /\ \A q \in 1 .. NumCandidates : \E p \in 1 .. NumCandidates : src[p] = q
  /\ \A p \in 1 .. NumCandidates : candidates[p] = Row[src[p]]
  /\ \A p \in 1 .. NumCandidates : labels[p] = IF src[p] = 1 THEN 1 ELSE 0

LEMMA RowIs ==
  ASSUME SampleInv, stage = "done"
  PROVE  /\ Row \in Seq(Catalog) /\ Len(Row) = NumCandidates /\ IsInjective(Row)
         /\ Row[1] = data.movie /\ \A k \in 1 .. NumNegatives : Row[k + 1] = pool[k]
         /\ DOMAIN pool = 1 .. NumNegatives
         /\ NumNegatives \in Nat /\ NumCandidates = NumNegatives + 1
<1>1. /\ pool \in Seq(Catalog) /\ IsInjective(pool) /\ data.movie \notin ToSet(pool)
      /\ Len(pool) = NumNegatives
  BY DEF SampleInv, PoolChosen
<1>2. data.movie \in Catalog
  BY DataIs DEF SampleInv, Known
<1>3. NumNegatives \in Nat /\ NumCandidates = NumNegatives + 1
  BY CatalogIs
<1>. DEFINE s == <<data.movie>>
<1>4. s \in Seq(Catalog) /\ Len(s) = 1 /\ IsInjective(s) /\ ToSet(s) = {data.movie}
  <2>1. s \in Seq(Catalog) /\ Len(s) = 1 /\ DOMAIN s = {1} /\ s[1] = data.movie
    BY <1>2
  <2>. HIDE DEF s
  <2>. QED  BY <2>1 DEF IsInjective, ToSet
<1>5. ToSet(s) \cap ToSet(pool) = {}
  BY <1>1, <1>4
<1>6. /\ s \o pool \in Seq(Catalog) /\ Len(s \o pool) = Len(s) + Len(pool) /\ IsInjective(s \o pool)
  <2>. HIDE DEF s
  <2>. QED  BY <1>1, <1>4, <1>5, Concatenated
<1>7. (s \o pool)[1] = data.movie /\ \A k \in 1 .. NumNegatives : (s \o pool)[k + 1] = pool[k]
  BY <1>1, <1>2, <1>3
<1>8. DOMAIN pool = 1 .. NumNegatives
  BY <1>1
<1>9. Len(s \o pool) = NumCandidates
  BY <1>1, <1>3, <1>4, <1>6
<1>. QED  BY <1>3, <1>6, <1>7, <1>8, <1>9 DEF Row

LEMMA ShuffledIs ==
  ASSUME SampleInv, stage = "done"
  PROVE  /\ candidates \in Seq(Catalog) /\ Len(candidates) = NumCandidates
         /\ \E src : Shuffled(src)
<1>. DEFINE n == NumCandidates
<1>1. PICK i \in 1 .. n : candidates = MoveFirst(Row, i) /\ labels = MoveFirst(FirstLabelled, i)
  BY DEF SampleInv, RowAssembled
<1>2. n \in Nat /\ Row \in Seq(Catalog) /\ Len(Row) = n
  BY RowIs
<1>3. FirstLabelled \in Seq({0, 1}) /\ Len(FirstLabelled) = n /\ \A p \in 1 .. n : FirstLabelled[p] = IF p = 1 THEN 1 ELSE 0
  BY <1>2 DEF FirstLabelled
<1>. DEFINE src == [p \in 1 .. n |-> IF p < i THEN p + 1 ELSE IF p = i THEN 1 ELSE p]
           L == FirstLabelled
           c == MoveFirst(Row, i)
           l == MoveFirst(L, i)
<1>4. c \in Seq(Catalog) /\ MovedFirst(c, Row, i)
  BY <1>1, <1>2, MoveFirstIs
<1>5. MovedFirst(l, L, i)
  <2>. HIDE DEF L
  <2>1. L \in Seq({0, 1}) /\ i \in 1 .. Len(L)
    BY <1>1, <1>3 DEF L
  <2>. QED  BY <2>1, MoveFirstIs
<1>6. src \in [1 .. n -> 1 .. n]
  BY <1>1, <1>2
<1>7. \A p, q \in 1 .. n : src[p] = src[q] => p = q
  BY <1>1, <1>2
<1>8. \A q \in 1 .. n : \E p \in 1 .. n : src[p] = q
  <2>. SUFFICES ASSUME NEW q \in 1 .. n  PROVE \E p \in 1 .. n : src[p] = q
    OBVIOUS
  <2>1. CASE q = 1
    <3>1. src[i] = q
      BY <1>1, <1>2, <2>1
    <3>. QED  BY <1>1, <3>1
  <2>2. CASE q # 1 /\ q <= i
    <3>1. q - 1 \in 1 .. n /\ src[q - 1] = q
      BY <1>1, <1>2, <2>2
    <3>. QED  BY <3>1
  <2>3. CASE q > i
    <3>1. src[q] = q
      BY <1>1, <1>2, <2>3
    <3>. QED  BY <3>1
  <2>. QED  BY <1>1, <1>2, <2>1, <2>2, <2>3
<1>9. \A p \in 1 .. n : c[p] = Row[src[p]]
  <2>1. \A p \in 1 .. n : c[p] = IF p < i THEN Row[p + 1] ELSE IF p = i THEN Row[1] ELSE Row[p]
    BY <1>2, <1>4 DEF MovedFirst
  <2>. HIDE DEF c
  <2>. QED  BY <2>1
<1>10. \A p \in 1 .. n : l[p] = IF src[p] = 1 THEN 1 ELSE 0
  <2>1. \A p \in 1 .. n : l[p] = L[src[p]]
    <3>1. \A p \in 1 .. n : l[p] = IF p < i THEN L[p + 1] ELSE IF p = i THEN L[1] ELSE L[p]
      BY <1>3, <1>5 DEF MovedFirst
    <3>. HIDE DEF l, L
    <3>. QED  BY <3>1
  <2>2. \A p \in 1 .. n : src[p] \in 1 .. n
    BY <1>6
  <2>. HIDE DEF src, l
  <2>. QED  BY <1>3, <2>1, <2>2
<1>11. Len(c) = n
  BY <1>2, <1>4 DEF MovedFirst
<1>. HIDE DEF src
<1>12. Shuffled(src)
  BY <1>1, <1>6, <1>7, <1>8, <1>9, <1>10 DEF Shuffled
<1>. QED  BY <1>1, <1>4, <1>11, <1>12

LEMMA RowIsSoundHolds ==
  ASSUME SampleInv
  PROVE  RowIsSound
<1>1. PoolIsFull
  BY DEF SampleInv, PoolChosen, PoolIsFull
<1>2. CASE ~ Sampled
  BY <1>1, <1>2 DEF RowIsSound, CandidatesDistinct, LabelFollowsPositive
<1>3. CASE Sampled
  <2>1. stage = "done"
    BY <1>3 DEF Sampled
  <2>. DEFINE n == NumCandidates
  <2>2. /\ Row \in Seq(Catalog) /\ Len(Row) = n /\ IsInjective(Row) /\ Row[1] = data.movie /\ n \in Nat /\ n >= 1
    BY <2>1, RowIs
  <2>3. candidates \in Seq(Catalog) /\ Len(candidates) = n
    BY <2>1, ShuffledIs
  <2>4. PICK src : Shuffled(src)
    BY <2>1, ShuffledIs
  <2>5. \A p, q \in 1 .. n : Row[p] = Row[q] => p = q
    BY <2>2 DEF IsInjective
  <2>6. IsInjective(candidates)
    <3>1. ASSUME NEW p \in 1 .. n, NEW q \in 1 .. n, candidates[p] = candidates[q]  PROVE p = q
      <4>1. src[p] \in 1 .. n /\ src[q] \in 1 .. n
        BY <2>4 DEF Shuffled
      <4>2. candidates[p] = Row[src[p]] /\ candidates[q] = Row[src[q]]
        BY <2>4 DEF Shuffled
      <4>3. src[p] = src[q]
        BY <2>5, <3>1, <4>1, <4>2
      <4>. QED  BY <2>4, <4>3 DEF Shuffled
    <3>2. DOMAIN candidates = 1 .. n
      BY <2>3
    <3>. QED  BY <3>1, <3>2 DEF IsInjective
  <2>7. \A p \in 1 .. n : labels[p] = 1 <=> candidates[p] = data.movie
    <3>. SUFFICES ASSUME NEW p \in 1 .. n  PROVE labels[p] = 1 <=> candidates[p] = data.movie
      OBVIOUS
    <3>1. src[p] \in 1 .. n /\ candidates[p] = Row[src[p]] /\ labels[p] = IF src[p] = 1 THEN 1 ELSE 0
      BY <2>4 DEF Shuffled
    <3>2. 1 \in 1 .. n
      BY <2>2
    <3>. QED  BY <2>2, <2>5, <3>1, <3>2
  <2>. QED  BY <1>1, <2>3, <2>6, <2>7 DEF RowIsSound, CandidatesDistinct, LabelFollowsPositive
<1>. QED  BY <1>2, <1>3

LEMMA HardNegativesFirstHolds ==
  ASSUME SampleInv
  PROVE  HardNegativesFirst
<1>1. CASE ~ Sampled
  BY <1>1 DEF HardNegativesFirst, WatchedNegativesAreDisliked, UnseenBeforeEasy
<1>2. CASE Sampled
  <2>1. stage = "done"
    BY <1>2 DEF Sampled
  <2>. DEFINE n == NumCandidates
             S == ToSet(pool)
             D == DislikedBefore
             A == D \cap Shown
             B == D \ Shown
             negatives == {candidates[i] : i \in {j \in 1 .. n : Negative(j)}}
  <2>2. /\ Row[1] = data.movie /\ \A k \in 1 .. NumNegatives : Row[k + 1] = pool[k]
        /\ DOMAIN pool = 1 .. NumNegatives /\ NumNegatives \in Nat /\ n = NumNegatives + 1
    BY <2>1, RowIs
  <2>3. DOMAIN candidates = 1 .. n
    <3>1. candidates \in Seq(Catalog) /\ Len(candidates) = n
      BY <2>1, ShuffledIs
    <3>. QED  BY <3>1
  <2>4. PICK src : Shuffled(src)
    BY <2>1, ShuffledIs
  <2>5. \A p \in 1 .. n : src[p] # 1 => candidates[p] \in S
    <3>. SUFFICES ASSUME NEW p \in 1 .. n, src[p] # 1  PROVE candidates[p] \in S
      OBVIOUS
    <3>1. src[p] \in 1 .. n /\ candidates[p] = Row[src[p]]
      BY <2>4 DEF Shuffled
    <3>2. src[p] - 1 \in 1 .. NumNegatives /\ src[p] = (src[p] - 1) + 1
      BY <2>2, <3>1
    <3>3. Row[(src[p] - 1) + 1] = pool[src[p] - 1]
      BY <2>2, <3>2
    <3>4. candidates[p] = pool[src[p] - 1]
      BY <3>1, <3>2, <3>3
    <3>. QED  BY <2>2, <3>2, <3>4 DEF ToSet
  <2>6. \A v \in S : \E p \in 1 .. n : src[p] # 1 /\ candidates[p] = v
    <3>. SUFFICES ASSUME NEW v \in S  PROVE \E p \in 1 .. n : src[p] # 1 /\ candidates[p] = v
      OBVIOUS
    <3>1. PICK k \in 1 .. NumNegatives : v = pool[k]
      BY <2>2 DEF ToSet
    <3>2. k + 1 \in 1 .. n /\ k + 1 # 1
      BY <2>2
    <3>3. PICK p \in 1 .. n : src[p] = k + 1
      BY <2>4, <3>2 DEF Shuffled
    <3>4. candidates[p] = Row[src[p]]
      BY <2>4 DEF Shuffled
    <3>5. Row[k + 1] = pool[k]
      BY <2>2
    <3>. QED  BY <3>1, <3>2, <3>3, <3>4, <3>5
  <2>7. \A p \in 1 .. n : Negative(p) <=> src[p] # 1
    BY <2>4 DEF Shuffled, Negative
  <2>8. \A p \in 1 .. n : src[p] = 1 => candidates[p] = data.movie
    <3>1. \A p \in 1 .. n : candidates[p] = Row[src[p]]
      BY <2>4 DEF Shuffled
    <3>2. Row[1] = data.movie
      BY <2>2
    <3>. QED  BY <3>1, <3>2
  <2>. HIDE DEF S
  <2>9. negatives = S
    <3>1. \A v : v \in negatives <=> \E p \in 1 .. n : Negative(p) /\ v = candidates[p]
      OBVIOUS
    <3>. HIDE DEF negatives, n
    <3>. QED  BY <2>5, <2>6, <2>7, <3>1
  <2>10. S \subseteq ToSet(candidates) /\ ToSet(candidates) \subseteq S \cup {data.movie}
    <3>. HIDE DEF n
    <3>. QED  BY <2>3, <2>5, <2>6, <2>8 DEF ToSet
  <2>11. /\ data \in DataSets /\ strategy \in {"mixed_hard", "worst_recommended"} /\ S \cap LikedBefore = {}
         /\ strategy = "mixed_hard" =>
              AllOrQuota(S, A, Target[1]) /\ QuotaOrAll(S, Unrated, Target[2]) /\ AllOrQuota(S, B, Target[3])
         /\ strategy = "worst_recommended" => S \cap D = {} /\ QuotaOrAll(S, Unrated, Target[1])
    <3>1. Known /\ QuotasKept
      BY DEF SampleInv
    <3>. QED  BY <2>1, <3>1 DEF Known, QuotasKept, Mixed, Worst, S
  <2>12. /\ Unrated \cap RatedBefore(AllRatings) = {} /\ data.movie \notin Unrated /\ IsFiniteSet(Unrated)
    BY <2>11, UnratedIs
  <2>13. IsFiniteSet(S)
    <3>1. pool \in Seq(Catalog) /\ IsInjective(pool)
      BY DEF SampleInv, PoolChosen
    <3>. QED  BY <3>1, InjectiveCounts DEF S
  <2>14. WatchedNegativesAreDisliked
    <3>. DEFINE quota == IF strategy = "worst_recommended" THEN 0
                        ELSE Least(Target[1], Cardinality(A)) + Least(Target[3], Cardinality(B))
    <3>1. Cardinality(S \cap D) = quota
      <4>1. CASE strategy = "worst_recommended"
        BY <2>11, <4>1, FS_EmptySet
      <4>2. CASE strategy = "mixed_hard"
        <5>. DEFINE X == S \cap A
                   Y == S \cap B
        <5>1. S \cap D = X \cup Y /\ X \cap Y = {}
          OBVIOUS
        <5>2. IsFiniteSet(X) /\ IsFiniteSet(Y)
          BY <2>13, FS_Intersection
        <5>3. Cardinality(X) = Least(Target[1], Cardinality(A)) /\ Cardinality(Y) = Least(Target[3], Cardinality(B))
          BY <2>11, <4>2 DEF AllOrQuota
        <5>. HIDE DEF X, Y
        <5>4. Cardinality(X \cup Y) = Cardinality(X) + Cardinality(Y) - Cardinality(X \cap Y)
          BY <5>2, FS_Union
        <5>5. Cardinality(X) \in Nat /\ Cardinality(Y) \in Nat /\ Cardinality(X \cap Y) = 0
          BY <5>1, <5>2, FS_CardinalityType, FS_EmptySet
        <5>6. Cardinality(S \cap D) = Cardinality(X) + Cardinality(Y)
          BY <5>1, <5>4, <5>5
        <5>7. quota = Least(Target[1], Cardinality(A)) + Least(Target[3], Cardinality(B))
          BY <4>2
        <5>. HIDE DEF quota
        <5>. QED  BY <5>3, <5>6, <5>7
      <4>. QED  BY <2>11, <4>1, <4>2
    <3>2. negatives \cap LikedBefore = {} /\ Cardinality(negatives \cap D) = quota
      BY <2>9, <2>11, <3>1
    <3>. HIDE DEF S
    <3>. QED  BY <3>2 DEF WatchedNegativesAreDisliked, Shown
  <2>15. UnseenBeforeEasy
    <3>. DEFINE unseen == {m \in ToSet(Recommended) :
                     m # data.movie /\ m \notin LikedBefore \cup DislikedBefore
                     /\ ~\E r \in Rated(AllRatings) :
                          r.movie = m /\ r.time <= data.time}
               quota == IF strategy = "worst_recommended" THEN Target[1] ELSE Target[2]
               used == ToSet(candidates) \cap unseen
    <3>1. unseen = Unrated
      <4>1. LikedBefore \cup DislikedBefore = RatedBefore(AllRatings)
        BY <2>11, SetsAre
      <4>2. \A m : Unseen(m) <=> m # data.movie /\ ~\E r \in Rated(AllRatings) : r.movie = m /\ r.time <= data.time
        BY <2>11, UnseenIs
      <4>3. \A m : Unseen(m) => m \notin RatedBefore(AllRatings)
        BY <2>11, UnseenIs
      <4>4. \A m : m \in unseen <=> m \in UnseenOf(Recommended)
        BY <4>1, <4>2, <4>3 DEF UnseenOf
      <4>. QED  BY <4>4 DEF Unrated
    <3>2. QuotaOrAll(S, Unrated, quota)
      BY <2>11
    <3>. HIDE DEF unseen, quota
    <3>3. used = S \cap Unrated
      BY <2>10, <2>12, <3>1
    <3>4. Cardinality(used) >= quota \/ used = unseen
      <4>1. Unrated \subseteq S => S \cap Unrated = Unrated
        OBVIOUS
      <4>. QED  BY <3>1, <3>2, <3>3, <4>1 DEF QuotaOrAll
    <3>. QED  BY <3>4 DEF UnseenBeforeEasy, unseen, quota
  <2>. QED  BY <2>14, <2>15 DEF HardNegativesFirst
<1>. QED  BY <1>1, <1>2

-----------------------------------------------------------------------------
(* What it says of the history.                                            *)

(* A user's line: sorted by time, a movie in it once, and what of it       *)
(* counts is what was rated before the record.                             *)
PastOf == {r \in Rated(AllRatings) : data.known /\ r.time < data.time}

Line(row) ==
  /\ row \in Seq(Rating)
  /\ \A i, j \in DOMAIN row : row[i].movie = row[j].movie => i = j
  /\ \A i, j \in DOMAIN row : i < j => row[i].time <= row[j].time
  /\ PastOf = {row[i] : i \in Kept(row, data.time)}

LEMMA UserRowIs ==
  ASSUME data \in DataSets
  PROVE  Line(UserRow(AllRatings))
<1>. DEFINE a == AllRatings
           b == ByTime(a)
<1>1. a \in Seq(Rating) /\ \A i, j \in DOMAIN a : a[i].movie = a[j].movie => i = j
  BY DataIs
<1>2. data.time \in Int /\ data.time < Never
  BY DataIs
<1>3. b \in Seq(Rating)
  BY <1>1, SortedPast
<1>4. SortedFrom(b, a)
  BY <1>1, ByTimeSorts
<1>. HIDE DEF a, b
<1>5. \A j \in DOMAIN a : a[j] \in Rating
  BY <1>1, ElementOfSeq
<1>6. \A r : r \in Rated(a) <=> \E j \in DOMAIN a : r = a[j]
  <2>1. \A r \in Rating : r = [movie |-> r.movie, time |-> r.time]
    BY DEF Rating
  <2>2. \A r : r \in Rated(a) <=> \E j \in DOMAIN a : r = [movie |-> a[j].movie, time |-> a[j].time]
    BY DEF Rated, ToSet
  <2>3. \A j \in DOMAIN a : a[j] = [movie |-> a[j].movie, time |-> a[j].time]
    BY <1>5, <2>1
  <2>4. ASSUME NEW r, r \in Rated(a)  PROVE \E j \in DOMAIN a : r = a[j]
    BY <2>2, <2>3, <2>4
  <2>5. ASSUME NEW j \in DOMAIN a  PROVE a[j] \in Rated(a)
    BY <2>2, <2>3
  <2>. QED  BY <2>4, <2>5
<1>7. \A r : r \in PastOf <=> data.known /\ \E j \in DOMAIN a : r = a[j] /\ a[j].time < data.time
  BY <1>6 DEF PastOf, a
<1>8. CASE ~ data.known
  <2>1. UserRow(AllRatings) = <<>>
    BY <1>8 DEF UserRow
  <2>2. PastOf = {}
    BY <1>7, <1>8
  <2>. QED  BY <2>1, <2>2 DEF Line, Kept
<1>9. CASE data.known
  <2>1. UserRow(AllRatings) = b
    BY <1>9 DEF UserRow, a, b
  <2>2. /\ DOMAIN b = DOMAIN a
        /\ \A i \in DOMAIN b : \E j \in DOMAIN a : b[i] = a[j]
        /\ \A j \in DOMAIN a : \E i \in DOMAIN b : b[i] = a[j]
        /\ \A i, j \in DOMAIN b : i < j => b[i].time <= b[j].time
        /\ \A i, j \in DOMAIN b : b[i] = b[j] /\ i # j => \E k, l \in DOMAIN a : k # l /\ a[k] = a[l]
    BY <1>4 DEF SortedFrom
  <2>3. \A i, j \in DOMAIN b : b[i] = b[j] => i = j
    BY <1>1, <2>2
  <2>4. ASSUME NEW i \in DOMAIN b, NEW j \in DOMAIN b, b[i].movie = b[j].movie  PROVE i = j
    <3>1. PICK k \in DOMAIN a : b[i] = a[k]
      BY <2>2
    <3>2. PICK l \in DOMAIN a : b[j] = a[l]
      BY <2>2
    <3>3. k = l
      BY <1>1, <2>4, <3>1, <3>2
    <3>. QED  BY <2>3, <3>1, <3>2, <3>3
  <2>5. \A i \in DOMAIN b : Valid(b[i], data.time) <=> b[i].time < data.time
    <3>. SUFFICES ASSUME NEW i \in DOMAIN b  PROVE Valid(b[i], data.time) <=> b[i].time < data.time
      OBVIOUS
    <3>1. b[i] \in Rating
      BY <1>3, ElementOfSeq
    <3>2. b[i].time \in 0 .. Never - 1
      BY <3>1 DEF Rating
    <3>3. Never \in Int
      BY DEF Never
    <3>4. b[i].time < Never
      BY <3>2, <3>3
    <3>. QED  BY <3>4 DEF Valid
  <2>6. \A r : r \in PastOf <=> \E i \in Kept(b, data.time) : r = b[i]
    <3>1. ASSUME NEW r, r \in PastOf  PROVE \E i \in Kept(b, data.time) : r = b[i]
      <4>1. PICK j \in DOMAIN a : r = a[j] /\ a[j].time < data.time
        BY <1>7, <3>1
      <4>2. PICK i \in DOMAIN b : b[i] = a[j]
        BY <2>2
      <4>. QED  BY <2>5, <4>1, <4>2 DEF Kept
    <3>2. ASSUME NEW i \in Kept(b, data.time)  PROVE b[i] \in PastOf
      <4>1. i \in DOMAIN b /\ b[i].time < data.time
        BY <2>5 DEF Kept
      <4>2. PICK j \in DOMAIN a : b[i] = a[j]
        BY <2>2, <4>1
      <4>. QED  BY <1>7, <1>9, <4>1, <4>2
    <3>. QED  BY <3>1, <3>2
  <2>7. PastOf = {b[i] : i \in Kept(b, data.time)}
    BY <2>6
  <2>. QED  BY <1>3, <2>1, <2>2, <2>4, <2>7 DEF Line
<1>. QED  BY <1>8, <1>9

(* Places without repetition make as many entries.                         *)
LEMMA ImageCounts ==
  ASSUME NEW X, IsFiniteSet(X), NEW g, NEW Y, g \in [X -> Y],
         \A i, j \in X : g[i] = g[j] => i = j, \A v \in Y : \E i \in X : g[i] = v
  PROVE  IsFiniteSet(Y) /\ Cardinality(Y) = Cardinality(X)
<1>1. g \in Bijection(X, Y)
  BY DEF Bijection, Injection, Surjection, IsInjective
<1>2. ExistsBijection(X, Y)
  BY <1>1, Zenon DEF ExistsBijection
<1>. QED  BY <1>2, FS_Bijection

LEMMA HistoryHolds ==
  ASSUME SampleInv
  PROVE  HistoryIsRecentPast
<1>. SUFFICES ASSUME stage = "lookup"  PROVE HistoryIsRecentPast
  BY DEF HistoryIsRecentPast
<1>. DEFINE row == UserRow(AllRatings)
           len == Len(row)
           V == Kept(row, data.time)
           w == MaxHistory
           m == Cardinality(V)
           c0 == Least(m, w)
           past == {r \in Rated(AllRatings) : data.known /\ r.time < data.time}
           kept == {r \in past : \E i \in DOMAIN history : history[i] = r.movie}
           time(x) == (CHOOSE r \in past : r.movie = x).time
           n == Cardinality(kept)
<1>1. data \in DataSets /\ history = Before(row, data.time, w)
  BY DEF SampleInv, Known, PastKnown
<1>2. Line(row)
  BY <1>1, UserRowIs
<1>3. w \in Nat
  BY CatalogIs
<1>4. /\ row \in Seq(Rating)
      /\ \A i, j \in DOMAIN row : row[i].movie = row[j].movie => i = j
      /\ \A i, j \in DOMAIN row : i < j => row[i].time <= row[j].time
      /\ past = {row[i] : i \in V}
  BY <1>2 DEF Line, PastOf
<1>5. history \in Seq(PaddedMovies) /\ Len(history) = w
  BY <1>1, <1>3, <1>4, BeforeRow
<1>6. len \in Nat /\ DOMAIN row = 1 .. len
  BY <1>4
<1>7. V \in SUBSET Int /\ IsFiniteSet(V) /\ m \in Nat
  BY <1>4, KeptFinite
<1>. HIDE DEF m
<1>8. PICK f : Lists(f, V, m)
  <2>. HIDE DEF V
  <2>. QED  BY <1>7, SetListed, Zenon DEF m
<1>9. BeforeTells(history, row, f, m, w)
  <2>1. Lists(f, Kept(row, data.time), m)
    BY <1>8
  <2>2. BeforeTells(Before(row, data.time, w), row, f, m, w)
    <3>. HIDE DEF len, row, V, w
    <3>. QED  BY <1>3, <1>6, <1>7, <2>1, BeforeIs
  <2>. QED  BY <1>1, <2>2
<1>10. V \in SUBSET (DOMAIN row)
  BY DEF Kept
<1>. HIDE DEF V, row, len, w, past
<1>11. c0 \in Nat /\ c0 <= m /\ c0 <= w /\ (c0 = m \/ c0 = w)
  BY <1>3, <1>7 DEF Least
<1>12. /\ \A k \in 1 .. m : f[k] \in V
       /\ \A i, j \in 1 .. m : i < j => f[i] < f[j]
       /\ \A i \in V : \E k \in 1 .. m : f[k] = i
  BY <1>8 DEF Lists
<1>. DEFINE e(k) == row[f[k]]
<1>13. /\ DOMAIN history = 1 .. w
       /\ \A c \in 1 .. c0 : history[c] = e(m - c + 1).movie
       /\ \A c \in 1 .. w : c > c0 => history[c] = Pad
  <2>1. DOMAIN history = 1 .. w /\ \A c \in 1 .. w : history[c] = IF c <= c0 THEN e(m - c + 1).movie ELSE Pad
    BY <1>9 DEF BeforeTells
  <2>. HIDE DEF c0, e
  <2>. QED  BY <1>3, <1>7, <1>11, <2>1
<1>. HIDE DEF c0
<1>14. ASSUME NEW k \in 1 .. m
       PROVE  /\ f[k] \in DOMAIN row /\ f[k] \in Int
              /\ e(k) \in past /\ e(k).movie # Pad /\ e(k).movie \in Catalog /\ e(k).time \in Int
  <2>1. f[k] \in V
    BY <1>12
  <2>2. f[k] \in DOMAIN row /\ f[k] \in Int
    BY <1>7, <1>10, <2>1
  <2>3. e(k) \in Rating
    BY <1>4, <2>2, ElementOfSeq
  <2>4. e(k) \in past
    BY <1>4, <2>1
  <2>5. e(k).movie \in Catalog /\ e(k).time \in 0 .. Never - 1
    BY <2>3 DEF Rating
  <2>6. e(k).movie # Pad
    BY <2>5, CatalogIs
  <2>7. e(k).time \in Int
    BY <2>5
  <2>. QED  BY <2>2, <2>4, <2>5, <2>6, <2>7
<1>15. \A r \in past : \E k \in 1 .. m : r = e(k)
  BY <1>4, <1>12
<1>16. ASSUME NEW k \in 1 .. m, NEW l \in 1 .. m, e(k).movie = e(l).movie  PROVE k = l
  <2>1. f[k] = f[l]
    BY <1>4, <1>14, <1>16
  <2>2. ~ (k < l) /\ ~ (l < k)
    BY <1>12, <1>14, <2>1
  <2>. QED  BY <2>2
<1>17. ASSUME NEW k \in 1 .. m, NEW l \in 1 .. m, k <= l  PROVE e(k).time <= e(l).time
  <2>1. CASE k = l
    BY <1>14, <2>1
  <2>2. CASE k < l
    <3>1. f[k] < f[l] /\ f[k] \in DOMAIN row /\ f[l] \in DOMAIN row
      BY <1>12, <1>14, <2>2
    <3>. QED  BY <1>4, <3>1
  <2>. QED  BY <1>17, <2>1, <2>2
<1>. HIDE DEF e
<1>18. ASSUME NEW k \in 1 .. m  PROVE time(e(k).movie) = e(k).time
  <2>. DEFINE P(r) == r.movie = e(k).movie
             x == CHOOSE r \in past : P(r)
  <2>1. e(k) \in past /\ P(e(k))
    BY <1>14
  <2>2. \A r \in past : P(r) => r = e(k)
    BY <1>15, <1>16
  <2>. HIDE DEF P
  <2>3. x = e(k)
    BY <2>1, <2>2, Zenon
  <2>4. time(e(k).movie) = x.time
    BY DEF P
  <2>. QED  BY <2>3, <2>4
<1>19. IsFiniteSet(past) /\ Cardinality(past) = m
  <2>. DEFINE g == [k \in 1 .. m |-> e(k)]
             X == 1 .. m
  <2>1. IsFiniteSet(X) /\ Cardinality(X) = m
    BY <1>7, FS_Interval
  <2>2. g \in [X -> past]
    BY <1>14
  <2>3. \A i, j \in X : g[i] = g[j] => i = j
    BY <1>16
  <2>4. \A v \in past : \E i \in X : g[i] = v
    BY <1>15
  <2>. HIDE DEF g, X
  <2>. QED  BY <2>1, <2>2, <2>3, <2>4, ImageCounts
<1>20. ASSUME NEW k \in 1 .. m
       PROVE  (\E i \in DOMAIN history : history[i] = e(k).movie) <=> k > m - c0
  <2>1. ASSUME NEW i \in 1 .. w, history[i] = e(k).movie  PROVE k > m - c0
    <3>1. ~ (i > c0)
      BY <1>13, <1>14, <2>1
    <3>2. i \in 1 .. c0 /\ m - i + 1 \in 1 .. m
      BY <1>3, <1>7, <1>11, <3>1
    <3>3. history[i] = e(m - i + 1).movie
      BY <1>13, <3>2
    <3>4. k = m - i + 1
      BY <1>16, <2>1, <3>2, <3>3
    <3>. QED  BY <1>7, <1>11, <3>2, <3>4
  <2>2. ASSUME k > m - c0  PROVE \E i \in 1 .. w : history[i] = e(k).movie
    <3>1. m - k + 1 \in 1 .. c0 /\ m - k + 1 \in 1 .. w /\ m - (m - k + 1) + 1 = k
      BY <1>3, <1>7, <1>11, <2>2
    <3>2. history[m - k + 1] = e(m - (m - k + 1) + 1).movie
      BY <1>13, <3>1
    <3>3. e(m - (m - k + 1) + 1) = e(k)
      BY <3>1
    <3>. QED  BY <3>1, <3>2, <3>3
  <2>. QED  BY <1>13, <2>1, <2>2
<1>21. \A r : r \in kept <=> \E k \in 1 .. m : k > m - c0 /\ r = e(k)
  <2>1. ASSUME NEW r, r \in kept  PROVE \E k \in 1 .. m : k > m - c0 /\ r = e(k)
    <3>1. r \in past /\ \E i \in DOMAIN history : history[i] = r.movie
      BY <2>1
    <3>2. PICK k \in 1 .. m : r = e(k)
      BY <1>15, <3>1
    <3>. QED  BY <1>20, <3>1, <3>2
  <2>2. ASSUME NEW k \in 1 .. m, k > m - c0  PROVE e(k) \in kept
    BY <1>14, <1>20, <2>2
  <2>. QED  BY <2>1, <2>2
<1>. HIDE DEF kept
<1>22. n = c0
  <2>. DEFINE g == [c \in 1 .. c0 |-> e(m - c + 1)]
             X == 1 .. c0
  <2>1. IsFiniteSet(X) /\ Cardinality(X) = c0
    BY <1>11, FS_Interval
  <2>2. \A c \in 1 .. c0 : m - c + 1 \in 1 .. m /\ m - c + 1 > m - c0
    BY <1>7, <1>11
  <2>3. g \in [X -> kept]
    BY <1>21, <2>2
  <2>4. \A i, j \in X : g[i] = g[j] => i = j
    <3>. SUFFICES ASSUME NEW i \in 1 .. c0, NEW j \in 1 .. c0, e(m - i + 1) = e(m - j + 1)  PROVE i = j
      OBVIOUS
    <3>1. m - i + 1 = m - j + 1
      BY <1>16, <2>2
    <3>. QED  BY <1>7, <1>11, <3>1
  <2>5. \A v \in kept : \E i \in X : g[i] = v
    <3>. SUFFICES ASSUME NEW v \in kept  PROVE \E i \in 1 .. c0 : e(m - i + 1) = v
      OBVIOUS
    <3>1. PICK k \in 1 .. m : k > m - c0 /\ v = e(k)
      BY <1>21
    <3>2. m - k + 1 \in 1 .. c0 /\ m - (m - k + 1) + 1 = k
      BY <1>7, <1>11, <3>1
    <3>3. e(m - (m - k + 1) + 1) = e(k)
      BY <3>2
    <3>. QED  BY <3>1, <3>2, <3>3
  <2>. HIDE DEF g, X
  <2>. QED  BY <2>1, <2>3, <2>4, <2>5, ImageCounts
<1>23. n = Least(Cardinality(past), MaxHistory)
  BY <1>19, <1>22 DEF c0, w
<1>24. \A i \in n + 1 .. MaxHistory : history[i] = Pad
  <2>1. \A i \in c0 + 1 .. w : i \in 1 .. w /\ i > c0
    BY <1>3, <1>11
  <2>. QED  BY <1>13, <1>22, <2>1 DEF w
<1>25. \A i \in 1 .. n : \A j \in 1 .. i : time(history[i]) <= time(history[j])
  <2>. HIDE DEF n
  <2>. SUFFICES ASSUME NEW i \in 1 .. c0, NEW j \in 1 .. i
                PROVE  time(history[i]) <= time(history[j])
    BY <1>22
  <2>1. j \in 1 .. c0 /\ m - i + 1 \in 1 .. m /\ m - j + 1 \in 1 .. m /\ m - i + 1 <= m - j + 1
    BY <1>7, <1>11
  <2>2. history[i] = e(m - i + 1).movie /\ history[j] = e(m - j + 1).movie
    BY <1>13, <2>1
  <2>. HIDE DEF time
  <2>. QED  BY <1>17, <1>18, <2>1, <2>2
<1>26. \A r \in past \ kept, q \in kept : r.time <= q.time
  <2>. SUFFICES ASSUME NEW r \in past \ kept, NEW q \in kept  PROVE r.time <= q.time
    OBVIOUS
  <2>1. PICK k \in 1 .. m : r = e(k)
    BY <1>15
  <2>2. PICK l \in 1 .. m : l > m - c0 /\ q = e(l)
    BY <1>21
  <2>3. ~ (k > m - c0)
    BY <1>21, <2>1
  <2>4. k <= l
    BY <1>7, <1>11, <2>2, <2>3
  <2>. QED  BY <1>17, <2>1, <2>2, <2>4
<1>27. Len(history) = MaxHistory
  BY <1>5 DEF w
<1>. HIDE DEF n, time, past
<1>28. /\ Len(history) = MaxHistory
       /\ n = Least(Cardinality(past), MaxHistory)
       /\ \A i \in n + 1 .. MaxHistory : history[i] = Pad
       /\ \A i \in 1 .. n : \A j \in 1 .. i : time(history[i]) <= time(history[j])
       /\ \A r \in past \ kept, q \in kept : r.time <= q.time
  BY <1>23, <1>24, <1>25, <1>26, <1>27
<1>. QED  BY <1>28 DEF HistoryIsRecentPast, n, time, past, kept

-----------------------------------------------------------------------------
(* The inductive invariant of a record's way through the transforms: what  *)
(* the lookups returned, what is in the pool after each source, and how    *)
(* the row is put together and moved.                                      *)
THEOREM SampleInvariant == Spec => []SampleInv
<1>1. Init => SampleInv
  BY InitEstablishes
<1>2. SampleInv /\ [Next]_vars => SampleInv'
  <2>. SUFFICES ASSUME SampleInv, [Next]_vars  PROVE SampleInv'
    OBVIOUS
  <2>1. CASE MapHistory
    BY <2>1, MapHistoryStep
  <2>2. CASE LookupPast
    BY <2>2, LookupPastStep
  <2>3. CASE DrawEasy \/ EasyDrawn
    BY <2>3, EasySteps
  <2>4. ASSUME NEW i \in 1 .. 3, FillFrom(i)  PROVE SampleInv'
    BY <2>4, FillFromStep
  <2>5. CASE FillUp
    BY <2>5, FillUpStep
  <2>6. CASE Assemble
    BY <2>6, AssembleStep
  <2>7. CASE Shuffle
    BY <2>7, ShuffleStep
  <2>8. CASE UNCHANGED vars
    BY <2>8, StutterStep
  <2>. QED  BY <2>1, <2>2, <2>3, <2>4, <2>5, <2>6, <2>7, <2>8 DEF Next
<1>. QED  BY <1>1, <1>2, PTL DEF Spec

(* Every row is complete, without repetition and rightly labelled, and its *)
(* pool is always filled without movies of no account                      *)
(* (HardNegativeSamplingTransform.py 176-185, util_numba.py 273-304).      *)
THEOREM RowAlwaysSound == Spec => []RowIsSound
BY SampleInvariant, RowIsSoundHolds, PTL

(* The history is the latest of what the user rated strictly before the    *)
(* record, the latest first (UserHistory.py 117-146).                      *)
THEOREM HistoryAlwaysRecent == Spec => []HistoryIsRecentPast
BY SampleInvariant, HistoryHolds, PTL

(* Nothing that was liked is a negative, what was disliked is one up to    *)
(* its quotas, and the unseen recommendations come before easy negatives   *)
(* (HardNegativeSamplingTransform.py 142-161, RecommendedMovies.py 83-87). *)
THEOREM HardNegativesAlwaysFirst == Spec => []HardNegativesFirst
BY SampleInvariant, HardNegativesFirstHolds, PTL
=============================================================================
