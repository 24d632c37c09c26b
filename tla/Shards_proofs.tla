---------------------------- MODULE Shards_proofs ----------------------------
(***************************************************************************)
(* For every size of data set, batch, and number of processes, workers and *)
(* epochs: a pass deals the records to full batches, each record to one,   *)
(* and no process reads with a reader that it was handed.                  *)
(***************************************************************************)
EXTENDS Shards, FiniteSetTheorems, TLAPS

LEMMA MaxOfTwo ==
  ASSUME NEW a \in Int, NEW b \in Int
  PROVE  Max({a, b}) = IF a >= b THEN a ELSE b
<1>1. \E x \in {a, b} : \A y \in {a, b} : x >= y
  BY SMT
<1>. QED
  BY <1>1, SMT DEF Max

LEMMA MinOfTwo ==
  ASSUME NEW a \in Int, NEW b \in Int
  PROVE  Min({a, b}) = IF a <= b THEN a ELSE b
<1>1. \E x \in {a, b} : \A y \in {a, b} : x <= y
  BY SMT
<1>. QED
  BY <1>1, SMT DEF Min

(* A quotient lies between two multiples.                                  *)
LEMMA Quotient ==
  ASSUME NEW x \in Nat, NEW d \in Nat \ {0}
  PROVE  /\ x \div d \in Nat
         /\ d * (x \div d) \in Nat
         /\ d * (x \div d) <= x
         /\ x < d * (x \div d) + d
<1>. QED
  BY SMT

(* A multiple of a larger number is larger by at least the factor.         *)
LEMMA Multiples ==
  ASSUME NEW d \in Nat \ {0}, NEW b \in Nat, NEW c \in Nat, b < c
  PROVE  b * d \in Nat /\ c * d \in Nat /\ b * d + d <= c * d
<1>1. c * d = b * d + d + (c - b - 1) * d
  BY SMT
<1>2. (c - b - 1) * d >= 0
  BY SMT
<1>. QED
  BY <1>1, <1>2, SMT
-----------------------------------------------------------------------------
(* The blocks past the check of _create_dataloader.                        *)
Blocks == 0 .. NumBlocks - 1

LEMMA BlockCount ==
  ASSUME size \in Nat
  PROVE  /\ NumBlocks \in Nat \ {0}
         /\ ~TooSmall => /\ NumBlocks * BatchSize \in Nat
                         /\ NumBlocks * BatchSize <= size
                         /\ size < NumBlocks * BatchSize + BatchSize
                         /\ NumBlocks \div NumProcs \in Nat \ {0}
<1>1. BatchSize \in Nat \ {0} /\ NumProcs \in Nat \ {0}
  BY ShardAssumption
<1>2. size \div BatchSize \in Nat
  BY <1>1, Quotient
<1>3. NumBlocks = IF 1 >= size \div BatchSize THEN 1 ELSE size \div BatchSize
  BY <1>2, MaxOfTwo DEF NumBlocks
<1>4. ASSUME ~TooSmall
      PROVE  /\ NumBlocks = size \div BatchSize
             /\ NumBlocks \div NumProcs \in Nat \ {0}
  <2>1. (size \div BatchSize) \div NumProcs \in Nat
    BY <1>1, <1>2, Quotient
  <2>2. NumProcs * ((size \div BatchSize) \div NumProcs) <= size \div BatchSize
    BY <1>1, <1>2, Quotient
  <2>3. size \div BatchSize # 0
    BY <1>1, <1>2, <1>4, <2>1, <2>2, SMT DEF TooSmall
  <2>. QED
    BY <1>2, <1>3, <1>4, <2>1, <2>3, SMT DEF TooSmall
<1>5. BatchSize * (size \div BatchSize) = (size \div BatchSize) * BatchSize
  BY <1>1, <1>2, SMT
<1>. QED
  BY <1>1, <1>2, <1>3, <1>4, <1>5, Quotient, SMT

(* Every block is full, and they do not overlap.                           *)
LEMMA BlockIsFull ==
  ASSUME size \in Nat, ~TooSmall, NEW b \in Blocks
  PROVE  /\ b * BatchSize \in Nat
         /\ Block(b) = b * BatchSize .. b * BatchSize + BatchSize - 1
         /\ Block(b) \subseteq Records
         /\ Cardinality(Block(b)) = BatchSize
<1>1. BatchSize \in Nat \ {0} /\ NumBlocks \in Nat \ {0} /\ b \in Nat /\ b < NumBlocks
  BY BlockCount, ShardAssumption, SMT DEF Blocks
<1>2. /\ b * BatchSize \in Nat
      /\ b * BatchSize + BatchSize <= NumBlocks * BatchSize
  BY <1>1, Multiples
<1>3. b * BatchSize + BatchSize <= size
  BY <1>1, <1>2, BlockCount, SMT
<1>4. Block(b) = b * BatchSize .. b * BatchSize + BatchSize - 1
  BY <1>1, <1>2, <1>3, MinOfTwo, SMT DEF Block
<1>5. Cardinality(Block(b)) = BatchSize
  BY <1>1, <1>2, <1>4, FS_Interval, SMT
<1>. QED
  BY <1>1, <1>2, <1>3, <1>4, <1>5, SMT DEF Records

(* Also where a block is cut short it ends with the data set.              *)
LEMMA BlockInRecords ==
  ASSUME size \in Nat, NEW b \in Blocks
  PROVE  Block(b) \subseteq Records
<1>1. BatchSize \in Nat \ {0} /\ b \in Nat
  BY ShardAssumption, BlockCount, SMT DEF Blocks
<1>2. b * BatchSize \in Nat
  BY <1>1, SMT
<1>. QED
  BY <1>1, <1>2, MinOfTwo, SMT DEF Block, Records

LEMMA BlocksApart ==
  ASSUME size \in Nat, ~TooSmall, NEW b \in Blocks, NEW c \in Blocks,
         NEW r \in Block(b), r \in Block(c)
  PROVE  b = c
<1>1. BatchSize \in Nat \ {0} /\ b \in Nat /\ c \in Nat
  BY BlockCount, ShardAssumption, SMT DEF Blocks
<1>2. r \in Int /\ r >= b * BatchSize /\ r < b * BatchSize + BatchSize /\ b * BatchSize \in Nat
  BY <1>1, BlockIsFull, SMT
<1>3. r >= c * BatchSize /\ r < c * BatchSize + BatchSize /\ c * BatchSize \in Nat
  BY <1>1, BlockIsFull, SMT
<1>4. CASE b < c
  BY <1>1, <1>2, <1>3, <1>4, Multiples, SMT
<1>5. CASE c < b
  BY <1>1, <1>2, <1>3, <1>5, Multiples, SMT
<1>. QED
  BY <1>1, <1>4, <1>5, SMT

(* A record is in a block, or in the tail that is shorter than a batch.    *)
LEMMA TailIsShort ==
  ASSUME size \in Nat, ~TooSmall, NEW r \in Records, \A b \in Blocks : r \notin Block(b)
  PROVE  r \in NumBlocks * BatchSize .. size - 1
<1>1. BatchSize \in Nat \ {0} /\ NumBlocks \in Nat \ {0} /\ NumBlocks * BatchSize \in Nat
  BY BlockCount, ShardAssumption
<1>2. r \in Nat /\ r < size
  BY SMT DEF Records
<1>3. SUFFICES ASSUME r < NumBlocks * BatchSize PROVE FALSE
  BY <1>1, <1>2, SMT
<1>. DEFINE q == r \div BatchSize
<1>4. q \in Nat /\ q * BatchSize <= r /\ r < q * BatchSize + BatchSize
  <2>1. BatchSize * q = q * BatchSize
    BY <1>1, <1>2, Quotient, SMT
  <2>. QED
    BY <1>1, <1>2, <2>1, Quotient
<1>5. q < NumBlocks
  <2>1. CASE NumBlocks < q
    BY <1>1, <1>2, <1>3, <1>4, <2>1, Multiples, SMT
  <2>2. CASE NumBlocks = q
    BY <1>1, <1>2, <1>3, <1>4, <2>2, SMT
  <2>. QED
    BY <1>1, <1>4, <2>1, <2>2, SMT
<1>6. q \in Blocks
  BY <1>1, <1>4, <1>5, SMT DEF Blocks
<1>7. r \in Block(q)
  <2>. HIDE DEF q
  <2>. QED
    BY <1>1, <1>2, <1>4, <1>6, BlockIsFull, SMT
<1>. QED
  BY <1>6, <1>7
-----------------------------------------------------------------------------
(* Where the share of process p begins.                                    *)
Start(p) == p * (NumBlocks \div NumProcs) + Extra(p)

LEMMA Even ==
  ASSUME size \in Nat
  PROVE  /\ NumBlocks \div NumProcs \in Nat
         /\ NumBlocks % NumProcs \in 0 .. NumProcs - 1
         /\ NumProcs * (NumBlocks \div NumProcs) \in Nat
         /\ NumBlocks = NumProcs * (NumBlocks \div NumProcs) + (NumBlocks % NumProcs)
<1>1. NumBlocks \in Nat \ {0} /\ NumProcs \in Nat \ {0}
  BY BlockCount, ShardAssumption
<1>2. \A x \in Nat, d \in Nat \ {0} :
        x % d \in 0 .. d - 1 /\ x = d * (x \div d) + (x % d)
  BY SMT
<1>. QED
  BY <1>1, <1>2, Quotient

LEMMA StartIs ==
  ASSUME size \in Nat, NEW p \in 0 .. NumProcs
  PROVE  /\ p * (NumBlocks \div NumProcs) \in Nat
         /\ Extra(p) = IF p <= NumBlocks % NumProcs THEN p ELSE NumBlocks % NumProcs
         /\ Start(p) \in Nat
<1>1. /\ NumBlocks \div NumProcs \in Nat /\ NumBlocks % NumProcs \in Nat
      /\ NumProcs \in Nat \ {0}
  BY Even, ShardAssumption, SMT
<1>2. Extra(p) = IF p <= NumBlocks % NumProcs THEN p ELSE NumBlocks % NumProcs
  BY <1>1, MinOfTwo, SMT DEF Extra
<1>3. p * (NumBlocks \div NumProcs) \in Nat
  BY <1>1, SMT
<1>. QED
  BY <1>1, <1>2, <1>3, SMT DEF Start

LEMMA StartGrows ==
  ASSUME size \in Nat, NEW p \in 0 .. NumProcs, NEW o \in 0 .. NumProcs, p <= o
  PROVE  Start(p) <= Start(o)
<1>. DEFINE q == NumBlocks \div NumProcs
<1>1. q \in Nat /\ NumBlocks % NumProcs \in Nat /\ NumProcs \in Nat \ {0}
  BY Even, ShardAssumption, SMT
<1>2. p * q <= o * q
  <2>. HIDE DEF q
  <2>1. o * q = p * q + (o - p) * q /\ (o - p) * q >= 0
    BY <1>1, SMT
  <2>. QED
    BY <1>1, <2>1, SMT
<1>3. Extra(p) <= Extra(o)
  BY <1>1, StartIs, SMT
<1>4. Start(p) = p * q + Extra(p) /\ Start(o) = o * q + Extra(o)
  BY DEF Start
<1>5. p * q \in Nat /\ o * q \in Nat /\ Extra(p) \in Nat /\ Extra(o) \in Nat
  BY <1>1, StartIs, SMT
<1>. HIDE DEF q
<1>. QED
  BY <1>2, <1>3, <1>4, <1>5, SMT

LEMMA SharesAreBlocks ==
  ASSUME size \in Nat
  PROVE  /\ \A p \in Procs : Share(p) = Start(p) .. Start(p + 1) - 1
         /\ \A p \in Procs : Share(p) \subseteq Blocks
<1>1. NumProcs \in Nat \ {0}
  BY ShardAssumption
<1>2. ASSUME NEW p \in Procs PROVE Share(p) = Start(p) .. Start(p + 1) - 1
  <2>1. p \in 0 .. NumProcs /\ p + 1 \in 0 .. NumProcs
    BY <1>1, SMT DEF Procs
  <2>2. /\ p * (NumBlocks \div NumProcs) \in Nat /\ Extra(p) \in Nat
        /\ (p + 1) * (NumBlocks \div NumProcs) \in Nat /\ Extra(p + 1) \in Nat
    BY <2>1, Even, StartIs, SMT
  <2>. QED
    BY <2>2, SMT DEF Share, Start
<1>3. Start(NumProcs) = NumBlocks
  BY <1>1, Even, StartIs, SMT DEF Start
<1>4. ASSUME NEW p \in Procs PROVE Share(p) \subseteq Blocks
  <2>1. p \in 0 .. NumProcs /\ p + 1 \in 0 .. NumProcs
    BY <1>1, SMT DEF Procs
  <2>2. Start(p) \in Nat /\ Start(p + 1) \in Nat /\ Start(p + 1) <= NumBlocks
    BY <1>1, <1>3, <2>1, StartIs, StartGrows, SMT
  <2>. QED
    BY <1>2, <2>2, BlockCount, SMT DEF Blocks
<1>. QED
  BY <1>2, <1>4

LEMMA SharesApart ==
  ASSUME size \in Nat, NEW p \in Procs, NEW o \in Procs,
         NEW b \in Share(p), b \in Share(o)
  PROVE  p = o
<1>1. /\ NumProcs \in Nat \ {0}
      /\ {p, p + 1, o, o + 1} \subseteq 0 .. NumProcs
  BY ShardAssumption, SMT DEF Procs
<1>2. /\ Start(p) \in Nat /\ Start(p + 1) \in Nat
      /\ Start(o) \in Nat /\ Start(o + 1) \in Nat
  BY <1>1, StartIs
<1>3. /\ b \in Int /\ Start(p) <= b /\ b < Start(p + 1)
      /\ Start(o) <= b /\ b < Start(o + 1)
  BY <1>2, SharesAreBlocks, SMT
<1>4. CASE p < o
  <2>1. Start(p + 1) <= Start(o)
    BY <1>1, <1>4, StartGrows, SMT
  <2>. QED
    BY <1>2, <1>3, <2>1, SMT
<1>5. CASE o < p
  <2>1. Start(o + 1) <= Start(p)
    BY <1>1, <1>5, StartGrows, SMT
  <2>. QED
    BY <1>2, <1>3, <2>1, SMT
<1>. QED
  BY <1>1, <1>4, <1>5, SMT

(* No block is left out of the deal.                                       *)
LEMMA SharesCover ==
  ASSUME size \in Nat, ~TooSmall, NEW b \in Blocks
  PROVE  \E p \in Procs : b \in Share(p)
<1>. DEFINE q == NumBlocks \div NumProcs
            m == NumBlocks % NumProcs
<1>1. /\ NumProcs \in Nat \ {0} /\ b \in Nat /\ b < NumProcs * q + m
      /\ q \in Nat \ {0} /\ m \in Nat /\ m < NumProcs
  <2>1. NumProcs \in Nat \ {0} /\ q \in Nat \ {0} /\ NumBlocks \in Nat
    BY BlockCount, ShardAssumption
  <2>2. m \in 0 .. NumProcs - 1 /\ NumBlocks = NumProcs * q + m
    BY Even
  <2>3. b \in Nat /\ b < NumBlocks
    BY <2>1, SMT DEF Blocks
  <2>. HIDE DEF q, m
  <2>. QED
    BY <2>1, <2>2, <2>3, SMT
<1>2. CASE b < m * (q + 1)
  <2>. DEFINE p == b \div (q + 1)
  <2>1. /\ p \in Nat /\ p * (q + 1) <= b /\ b < p * (q + 1) + (q + 1)
    <3>1. (q + 1) * p = p * (q + 1)
      BY <1>1, Quotient, SMT
    <3>. QED
      BY <1>1, <3>1, Quotient
  <2>. HIDE DEF p
  <2>2. p < m
    <3>1. CASE m < p
      BY <1>1, <1>2, <2>1, <3>1, Multiples, SMT
    <3>2. CASE m = p
      BY <1>1, <1>2, <2>1, <3>2, SMT
    <3>. QED
      BY <1>1, <2>1, <3>1, <3>2, SMT
  <2>3. p \in Procs /\ p \in 0 .. NumProcs /\ p + 1 \in 0 .. NumProcs
    BY <1>1, <2>1, <2>2, SMT DEF Procs
  <2>4. Extra(p) = p /\ Extra(p + 1) = p + 1
    BY <1>1, <2>1, <2>2, <2>3, StartIs, SMT
  <2>5. p * (q + 1) = p * q + p /\ (p + 1) * q = p * q + q /\ p * q \in Nat
    BY <1>1, <2>1, SMT
  <2>6. Start(p) <= b /\ b < Start(p + 1) /\ Start(p) \in Nat /\ Start(p + 1) \in Nat
    BY <1>1, <2>1, <2>3, <2>4, <2>5, StartIs, SMT DEF Start
  <2>. QED
    BY <1>1, <2>3, <2>6, SharesAreBlocks, SMT
<1>3. CASE b >= m * (q + 1)
  <2>. DEFINE c == b - m * (q + 1)
              p == m + c \div q
  <2>0. c \in Nat
    BY <1>1, <1>3, SMT
  <2>1. /\ c \div q \in Nat /\ (c \div q) * q <= c /\ c < (c \div q) * q + q
    <3>1. q * (c \div q) = (c \div q) * q
      BY <1>1, <2>0, Quotient, SMT
    <3>. QED
      BY <1>1, <2>0, <3>1, Quotient
  <2>2. /\ p * q = m * q + (c \div q) * q /\ m * (q + 1) = m * q + m
        /\ (p + 1) * q = p * q + q /\ m * q \in Nat
    BY <1>1, <2>1, SMT
  <2>3. p * q + m <= b /\ b < (p + 1) * q + m /\ p \in Nat /\ m <= p /\ p * q \in Nat
    BY <1>1, <2>0, <2>1, <2>2, SMT
  <2>. HIDE DEF p, c
  <2>4. p < NumProcs
    <3>1. CASE NumProcs < p
      BY <1>1, <2>3, <3>1, Multiples, SMT
    <3>2. CASE NumProcs = p
      BY <1>1, <2>3, <3>2, SMT
    <3>. QED
      BY <1>1, <2>3, <3>1, <3>2, SMT
  <2>5. p \in Procs /\ p \in 0 .. NumProcs /\ p + 1 \in 0 .. NumProcs
    BY <1>1, <2>3, <2>4, SMT DEF Procs
  <2>6. Extra(p) = m /\ Extra(p + 1) = m
    BY <1>1, <2>3, <2>5, StartIs, SMT
  <2>7. Start(p) <= b /\ b < Start(p + 1) /\ Start(p) \in Nat /\ Start(p + 1) \in Nat
    BY <1>1, <2>3, <2>5, <2>6, StartIs, SMT DEF Start
  <2>. QED
    BY <1>1, <2>5, <2>7, SharesAreBlocks, SMT
<1>. QED
  BY <1>1, <1>2, <1>3, SMT
-----------------------------------------------------------------------------
(* Where a process is in its share.                                        *)
Places ==
  \A p \in Procs :
    /\ at[p] \in {"start", "raised"} => epoch[p] = 0
    /\ at[p] \notin {"start", "raised"} => ~TooSmall
    /\ at[p] # "ready" => batch[p] = {}
    /\ at[p] = "ready" => \E b \in Share(p) \ left[p] : batch[p] = Block(b)
    /\ at[p] = "done" => left[p] = {}

(* Block b of p's share has been drawn in pass e, and record r of it is    *)
(* not in the batch that still waits for its step.                         *)
Through(p, e, b, r) ==
  /\ at[p] \notin {"start", "raised"}
  /\ epoch[p] > e \/ (epoch[p] = e /\ b \notin left[p])
  /\ ~(epoch[p] = e /\ r \in batch[p])

Counted(e, r) ==
  \E p \in Procs : \E b \in Share(p) : r \in Block(b) /\ Through(p, e, b, r)

(* The counts say exactly which records are through.                       *)
CountsAreRight ==
  \A e \in 0 .. NumEpochs - 1, r \in Records :
    times[e][r] = IF Counted(e, r) THEN 1 ELSE 0

(* The inductive invariant.                                                *)
ShardInv == TypeOK /\ OwnReader /\ Places /\ CountsAreRight

-----------------------------------------------------------------------------
LEMMA SizeIsNat == ASSUME TypeOK PROVE size \in Nat
  BY ShardAssumption DEF TypeOK

LEMMA SizeFixed ==
  ASSUME [Next]_vars
  PROVE  size' = size /\ loader' = loader
<1>. QED
  BY DEF Next, vars, Step, Work, CreateDataloader, Draw, NextPass, Exhausted

(* What the size alone decides.                                            *)
LEMMA Fixed ==
  ASSUME size' = size
  PROVE  /\ TooSmall' = TooSmall /\ NumBlocks' = NumBlocks /\ Records' = Records
         /\ \A p : Share(p)' = Share(p)
         /\ \A b : Block(b)' = Block(b)
<1>1. TooSmall' = TooSmall /\ NumBlocks' = NumBlocks /\ Records' = Records
  BY DEF TooSmall, NumBlocks, Records
<1>2. \A p : Extra(p)' = Extra(p)
  BY <1>1 DEF Extra
<1>3. \A p : Share(p)' = Share(p)
  BY <1>1, <1>2 DEF Share
<1>. QED
  BY <1>1, <1>3 DEF Block

LEMMA InitShardInv == Init => ShardInv
<1>. SUFFICES ASSUME Init PROVE ShardInv
  OBVIOUS
<1>1. NumEpochs \in Nat \ {0} /\ size \in Nat
  BY ShardAssumption DEF Init
<1>2. TypeOK
  BY <1>1, SMT DEF Init, TypeOK
<1>3. OwnReader /\ Places
  BY DEF Init, OwnReader, Places
<1>4. CountsAreRight
  BY DEF Init, CountsAreRight, Counted, Through
<1>. QED
  BY <1>2, <1>3, <1>4 DEF ShardInv

(* Some of the processes are a finite number.                              *)
LEMMA HowMany ==
  ASSUME NEW S \in SUBSET Procs
  PROVE  IsFiniteSet(S) /\ Cardinality(S) \in Nat
<1>1. NumProcs \in Nat
  BY ShardAssumption
<1>2. IsFiniteSet(Procs)
  BY <1>1, FS_Interval, SMT DEF Procs
<1>. QED
  BY <1>2, FS_Subset, FS_CardinalityType

PlaceNames == {"start", "raised", "drawing", "ready", "done"}

LEMMA TypeAgain ==
  ASSUME TypeOK, size' = size, loader' = loader,
         at' \in [Procs -> PlaceNames], reader' \in [Readers -> Readers \cup {None}],
         epoch' \in [Procs -> 0 .. NumEpochs - 1],
         left' \in [Procs -> SUBSET (0 .. NumBlocks - 1)],
         \A p \in Procs : left'[p] \subseteq Share(p),
         batch' \in [Procs -> SUBSET Records], steps' \in Nat,
         times' \in [0 .. NumEpochs - 1 -> [Records -> Nat]]
  PROVE  TypeOK'
<1>1. left' \in [Procs -> SUBSET (0 .. NumBlocks' - 1)] /\ batch' \in [Procs -> SUBSET Records']
  BY Fixed
<1>2. \A p \in Procs : left'[p] \subseteq Share(p)'
  BY Fixed
<1>3. times' \in [0 .. NumEpochs - 1 -> [Records' -> Nat]]
  BY Fixed
<1>. QED
  BY <1>1, <1>2, <1>3 DEF TypeOK, PlaceNames

LEMMA NextTypeOK == TypeOK /\ [Next]_vars => TypeOK'
<1>. SUFFICES ASSUME TypeOK, [Next]_vars PROVE TypeOK'
  OBVIOUS
<1>0. /\ size' = size /\ loader' = loader /\ size \in Nat
      /\ NumEpochs \in Nat \ {0}
  BY SizeFixed, SizeIsNat, ShardAssumption
<1>t. /\ at \in [Procs -> PlaceNames] /\ reader \in [Readers -> Readers \cup {None}]
      /\ epoch \in [Procs -> 0 .. NumEpochs - 1]
      /\ left \in [Procs -> SUBSET (0 .. NumBlocks - 1)]
      /\ \A p \in Procs : left[p] \subseteq Share(p)
      /\ batch \in [Procs -> SUBSET Records] /\ steps \in Nat
      /\ times \in [0 .. NumEpochs - 1 -> [Records -> Nat]]
  BY DEF TypeOK, PlaceNames
<1>. USE <1>0, <1>t
<1>1. ASSUME NEW p \in Procs, CreateDataloader(p) PROVE TypeOK'
  <2>1. reader' \in [Readers -> Readers \cup {None}]
    BY <1>1 DEF CreateDataloader, Pickled
  <2>2. Share(p) \subseteq 0 .. NumBlocks - 1
    BY SharesAreBlocks DEF Blocks
  <2>3. /\ left' \in [Procs -> SUBSET (0 .. NumBlocks - 1)]
        /\ \A o \in Procs : left'[o] \subseteq Share(o)
        /\ at' \in [Procs -> PlaceNames]
    BY <1>1, <2>2 DEF CreateDataloader, PlaceNames
  <2>. QED
    BY <1>1, <2>1, <2>3, TypeAgain DEF CreateDataloader
<1>2. ASSUME NEW p \in Procs, Draw(p) PROVE TypeOK'
  <2>1. PICK b \in left[p], w \in Workers :
          Fetch(p, w, b) /\ left' = [left EXCEPT ![p] = @ \ {b}]
    BY <1>2 DEF Draw
  <2>2. <<p, w>> \in Readers
    BY ShardAssumption, SMT DEF Readers, Workers
  <2>3. reader' \in [Readers -> Readers \cup {None}]
    BY <2>1, <2>2 DEF Fetch, EnsureReader
  <2>4. Block(b) \subseteq Records
    BY BlockInRecords DEF Blocks
  <2>5. /\ left' \in [Procs -> SUBSET (0 .. NumBlocks - 1)]
        /\ \A o \in Procs : left'[o] \subseteq Share(o)
        /\ batch' \in [Procs -> SUBSET Records]
        /\ at' \in [Procs -> PlaceNames]
    BY <1>2, <2>1, <2>4 DEF Fetch, Draw, PlaceNames
  <2>. QED
    BY <1>2, <2>3, <2>5, TypeAgain DEF Draw
<1>3. ASSUME NEW p \in Procs, NextPass(p) PROVE TypeOK'
  <2>1. Share(p) \subseteq 0 .. NumBlocks - 1
    BY SharesAreBlocks DEF Blocks
  <2>2. epoch' \in [Procs -> 0 .. NumEpochs - 1]
    BY <1>3, SMT DEF NextPass, Passes
  <2>3. /\ left' \in [Procs -> SUBSET (0 .. NumBlocks - 1)]
        /\ \A o \in Procs : left'[o] \subseteq Share(o)
    BY <1>3, <2>1 DEF NextPass
  <2>. QED
    BY <1>3, <2>2, <2>3, TypeAgain DEF NextPass
<1>4. ASSUME NEW p \in Procs, Exhausted(p) PROVE TypeOK'
  <2>1. at' \in [Procs -> PlaceNames]
    BY <1>4 DEF Exhausted, PlaceNames
  <2>. QED
    BY <1>4, <2>1, TypeAgain DEF Exhausted
<1>5. ASSUME Step PROVE TypeOK'
  <2>1. ASSUME NEW e \in 0 .. NumEpochs - 1, NEW r \in Records
        PROVE  times[e][r] + Cardinality({p \in Procs : epoch[p] = e /\ r \in batch[p]}) \in Nat
    <3>1. Cardinality({p \in Procs : epoch[p] = e /\ r \in batch[p]}) \in Nat
      BY HowMany
    <3>2. times[e][r] \in Nat
      BY Zenon
    <3>. QED
      BY <3>1, <3>2, SMT
  <2>2. times' \in [0 .. NumEpochs - 1 -> [Records -> Nat]]
    BY <1>5, <2>1, Zenon DEF Step
  <2>3. /\ at' \in [Procs -> PlaceNames]
        /\ batch' \in [Procs -> SUBSET Records] /\ steps' \in Nat
    BY <1>5, SMT DEF Step, PlaceNames
  <2>. QED
    BY <1>5, <2>2, <2>3, TypeAgain DEF Step
<1>6. CASE UNCHANGED vars
  BY <1>6, TypeAgain DEF vars
<1>. QED
  BY <1>1, <1>2, <1>3, <1>4, <1>5, <1>6 DEF Next, Work
-----------------------------------------------------------------------------
LEMMA NextOwnReader == TypeOK /\ OwnReader /\ [Next]_vars => OwnReader'
<1>. SUFFICES ASSUME TypeOK, OwnReader, [Next]_vars PROVE OwnReader'
  OBVIOUS
<1>1. ASSUME NEW p \in Procs, CreateDataloader(p) PROVE OwnReader'
  BY <1>1 DEF CreateDataloader, Pickled, OwnReader
<1>2. ASSUME NEW p \in Procs, NEW w \in Workers, NEW b, Fetch(p, w, b) PROVE OwnReader'
  BY <1>2 DEF Fetch, EnsureReader, OwnReader, TypeOK
<1>3. ASSUME UNCHANGED reader PROVE OwnReader'
  BY <1>3 DEF OwnReader
<1>. QED
  BY <1>1, <1>2, <1>3 DEF Next, Work, Draw, NextPass, Exhausted, Step, vars

(* An action of one process leaves the others where they are.              *)
Elsewhere(p) ==
  \A o \in Procs \ {p} :
    at'[o] = at[o] /\ epoch'[o] = epoch[o] /\ left'[o] = left[o] /\ batch'[o] = batch[o]

PlaceOf(p) ==
  /\ at[p] \in {"start", "raised"} => epoch[p] = 0
  /\ at[p] \notin {"start", "raised"} => ~TooSmall
  /\ at[p] # "ready" => batch[p] = {}
  /\ at[p] = "ready" => \E b \in Share(p) \ left[p] : batch[p] = Block(b)
  /\ at[p] = "done" => left[p] = {}

LEMMA OnlyOnePlace ==
  ASSUME Places, size' = size, NEW p \in Procs, Elsewhere(p), PlaceOf(p)'
  PROVE  Places'
<1>. SUFFICES ASSUME NEW o \in Procs PROVE PlaceOf(o)'
  BY DEF Places, PlaceOf
<1>1. CASE o = p
  BY <1>1
<1>2. CASE o # p
  BY <1>2, Fixed DEF Places, PlaceOf, Elsewhere
<1>. QED
  BY <1>1, <1>2

(* A step of process p changes nothing for what others have been through.  *)
LEMMA OnlyOneCount ==
  ASSUME CountsAreRight, size' = size, times' = times, NEW p \in Procs, Elsewhere(p),
         \A e \in 0 .. NumEpochs - 1 : \A b \in Share(p) : \A r \in Block(b) :
           Through(p, e, b, r)' <=> Through(p, e, b, r)
  PROVE  CountsAreRight'
<1>. SUFFICES ASSUME NEW e \in 0 .. NumEpochs - 1, NEW r \in Records
     PROVE  times'[e][r] = IF Counted(e, r)' THEN 1 ELSE 0
  BY Fixed DEF CountsAreRight
<1>1. ASSUME NEW o \in Procs, NEW b \in Share(o), r \in Block(b)
      PROVE  Through(o, e, b, r)' <=> Through(o, e, b, r)
  <2>1. CASE o = p
    BY <1>1, <2>1
  <2>2. CASE o # p
    BY <1>1, <2>2 DEF Through, Elsewhere
  <2>. QED
    BY <2>1, <2>2
<1>2. Counted(e, r)' <=>
      \E o \in Procs : \E b \in Share(o) : r \in Block(b) /\ Through(o, e, b, r)'
  BY Fixed DEF Counted
<1>3. Counted(e, r)' <=> Counted(e, r)
  BY <1>1, <1>2 DEF Counted
<1>. QED
  BY <1>3 DEF CountsAreRight

LEMMA CreateKeeps ==
  ASSUME ShardInv, size' = size, NEW p \in Procs, CreateDataloader(p)
  PROVE  Places' /\ CountsAreRight'
<1>0. /\ at[p] = "start" /\ epoch[p] = 0 /\ batch[p] = {} /\ Elsewhere(p)
      /\ epoch' = epoch /\ batch' = batch /\ times' = times
      /\ at'[p] = IF TooSmall THEN "raised" ELSE "drawing"
      /\ ~TooSmall => left'[p] = Share(p)
  BY DEF ShardInv, TypeOK, Places, CreateDataloader, Elsewhere
<1>1. PlaceOf(p)'
  BY <1>0, Fixed DEF PlaceOf
<1>2. ASSUME NEW e \in 0 .. NumEpochs - 1, NEW b \in Share(p), NEW r
      PROVE  ~Through(p, e, b, r)' /\ ~Through(p, e, b, r)
  BY <1>0, SMT DEF Through
<1>. QED
  BY <1>0, <1>1, <1>2, OnlyOnePlace, OnlyOneCount DEF ShardInv

LEMMA DrawKeeps ==
  ASSUME ShardInv, size' = size, NEW p \in Procs, Draw(p)
  PROVE  Places' /\ CountsAreRight'
<1>1. PICK c \in left[p] : /\ batch' = [batch EXCEPT ![p] = Block(c)]
                           /\ left' = [left EXCEPT ![p] = @ \ {c}]
  BY DEF Draw, Fetch
<1>2. /\ at[p] = "drawing" /\ batch[p] = {} /\ Elsewhere(p) /\ ~TooSmall
      /\ epoch' = epoch /\ times' = times /\ at'[p] = "ready"
      /\ batch'[p] = Block(c) /\ left'[p] = left[p] \ {c} /\ c \in Share(p)
  BY <1>1 DEF ShardInv, TypeOK, Places, Draw, Elsewhere
<1>3. PlaceOf(p)'
  BY <1>2, Fixed DEF PlaceOf
<1>4. size \in Nat /\ Share(p) \subseteq Blocks
  BY SizeIsNat, SharesAreBlocks DEF ShardInv
<1>5. ASSUME NEW e \in 0 .. NumEpochs - 1, NEW b \in Share(p), NEW r \in Block(b)
      PROVE  Through(p, e, b, r)' <=> Through(p, e, b, r)
  <2>1. r \in Block(c) => b = c
    BY <1>2, <1>4, BlocksApart
  <2>2. epoch[p] \in Int /\ (epoch[p] > e => epoch[p] # e)
    BY SMT DEF ShardInv, TypeOK
  <2>3. CASE b = c
    BY <1>2, <2>2, <2>3 DEF Through
  <2>4. CASE b # c
    BY <1>2, <2>1, <2>4 DEF Through
  <2>. QED
    BY <2>3, <2>4
<1>. QED
  BY <1>2, <1>3, <1>5, OnlyOnePlace, OnlyOneCount DEF ShardInv

LEMMA NextPassKeeps ==
  ASSUME ShardInv, size' = size, NEW p \in Procs, NextPass(p)
  PROVE  Places' /\ CountsAreRight'
<1>0. /\ at[p] = "drawing" /\ batch[p] = {} /\ left[p] = {} /\ Elsewhere(p) /\ ~TooSmall
      /\ at' = at /\ batch' = batch /\ times' = times
      /\ epoch'[p] = epoch[p] + 1 /\ left'[p] = Share(p)
  BY DEF ShardInv, TypeOK, Places, NextPass, Elsewhere
<1>1. PlaceOf(p)'
  BY <1>0, Fixed DEF PlaceOf
<1>2. ASSUME NEW e \in 0 .. NumEpochs - 1, NEW b \in Share(p), NEW r
      PROVE  Through(p, e, b, r)' <=> Through(p, e, b, r)
  <2>1. epoch[p] \in Int /\ e \in Int
    BY SMT DEF ShardInv, TypeOK
  <2>. QED
    BY <1>0, <2>1, SMT DEF Through
<1>. QED
  BY <1>0, <1>1, <1>2, OnlyOnePlace, OnlyOneCount DEF ShardInv

LEMMA ExhaustedKeeps ==
  ASSUME ShardInv, size' = size, NEW p \in Procs, Exhausted(p)
  PROVE  Places' /\ CountsAreRight'
<1>0. /\ at[p] = "drawing" /\ batch[p] = {} /\ left[p] = {} /\ Elsewhere(p) /\ ~TooSmall
      /\ batch' = batch /\ times' = times /\ epoch' = epoch /\ left' = left
      /\ at'[p] = "done"
  BY DEF ShardInv, TypeOK, Places, Exhausted, Elsewhere
<1>1. PlaceOf(p)'
  BY <1>0, Fixed DEF PlaceOf
<1>2. ASSUME NEW e \in 0 .. NumEpochs - 1, NEW b \in Share(p), NEW r
      PROVE  Through(p, e, b, r)' <=> Through(p, e, b, r)
  BY <1>0 DEF Through
<1>. QED
  BY <1>0, <1>1, <1>2, OnlyOnePlace, OnlyOneCount DEF ShardInv

(* The batches of a step are different blocks: a record is in one at most, *)
(* and had not been counted before.                                        *)
LEMMA StepKeeps ==
  ASSUME ShardInv, size' = size, Step
  PROVE  Places' /\ CountsAreRight'
<1>0. /\ size \in Nat
      /\ \A p \in Procs : /\ at[p] = "ready" /\ ~TooSmall
                          /\ \E b \in Share(p) \ left[p] : batch[p] = Block(b)
                          /\ at'[p] = "drawing" /\ batch'[p] = {}
      /\ epoch' = epoch /\ left' = left
  BY SizeIsNat DEF ShardInv, Places, Step
<1>1. Places'
  BY <1>0, Fixed DEF Places
<1>2. ASSUME NEW e \in 0 .. NumEpochs - 1, NEW r \in Records
      PROVE  times'[e][r] = IF Counted(e, r)' THEN 1 ELSE 0
  <2>. DEFINE here == {p \in Procs : epoch[p] = e /\ r \in batch[p]}
  <2>1. times'[e][r] = times[e][r] + Cardinality(here)
    BY DEF Step, ShardInv, TypeOK
  <2>2. times[e][r] = IF Counted(e, r) THEN 1 ELSE 0
    BY DEF ShardInv, CountsAreRight
  <2>3. Counted(e, r)' <=>
        \E p \in Procs : \E b \in Share(p) : r \in Block(b) /\ Through(p, e, b, r)'
    BY Fixed DEF Counted
  <2>4. ASSUME NEW p \in Procs, p \in here
        PROVE  here = {p} /\ ~Counted(e, r) /\ Counted(e, r)'
    <3>1. PICK b \in Share(p) \ left[p] : batch[p] = Block(b)
      BY <1>0
    <3>2. ~TooSmall /\ r \in Block(b) /\ epoch[p] = e
      BY <1>0, <2>4, <3>1
    <3>3. ASSUME NEW o \in Procs, NEW c \in Share(o), r \in Block(c)
          PROVE  c = b /\ o = p
      <4>1. b \in Blocks /\ c \in Blocks
        BY <1>0, SharesAreBlocks
      <4>2. c = b
        BY <1>0, <3>2, <3>3, <4>1, BlocksApart
      <4>. QED
        BY <1>0, <4>2, SharesApart
    <3>4. here = {p}
      <4>1. ASSUME NEW o \in here PROVE o = p
        <5>1. PICK c \in Share(o) \ left[o] : batch[o] = Block(c)
          BY <1>0
        <5>. QED
          BY <3>3, <5>1
      <4>. QED
        BY <2>4, <4>1
    <3>5. ~Counted(e, r)
      BY <2>4, <3>3 DEF Counted, Through
    <3>6. Through(p, e, b, r)'
      BY <1>0, <3>1, <3>2 DEF Through
    <3>. QED
      BY <2>3, <3>2, <3>4, <3>5, <3>6
  <2>5. CASE here # {}
    <3>1. PICK p \in Procs : p \in here
      BY <2>5
    <3>2. Cardinality(here) = 1
      BY <2>4, <3>1, FS_Singleton
    <3>. QED
      BY <2>1, <2>2, <2>4, <3>1, <3>2, SMT
  <2>6. CASE here = {}
    <3>1. Cardinality(here) = 0
      BY <2>6, FS_EmptySet
    <3>2. ASSUME NEW p \in Procs, NEW b \in Share(p), r \in Block(b)
          PROVE  Through(p, e, b, r)' <=> Through(p, e, b, r)
      BY <1>0, <2>6 DEF Through
    <3>3. Counted(e, r)' <=> Counted(e, r)
      BY <2>3, <3>2 DEF Counted
    <3>. QED
      BY <2>1, <2>2, <3>1, <3>3, SMT
  <2>. QED
    BY <2>5, <2>6
<1>. QED
  BY <1>1, <1>2, Fixed DEF CountsAreRight
-----------------------------------------------------------------------------
THEOREM ShardInvariant == Spec => []ShardInv
<1>1. Init => ShardInv
  BY InitShardInv
<1>2. ShardInv /\ [Next]_vars => ShardInv'
  <2>. SUFFICES ASSUME ShardInv, [Next]_vars PROVE ShardInv'
    OBVIOUS
  <2>1. TypeOK' /\ OwnReader' /\ size' = size
    BY NextTypeOK, NextOwnReader, SizeFixed DEF ShardInv
  <2>2. ASSUME NEW p \in Procs, Work(p) PROVE Places' /\ CountsAreRight'
    BY <2>1, <2>2, CreateKeeps, DrawKeeps, NextPassKeeps, ExhaustedKeeps DEF Work
  <2>3. ASSUME Step PROVE Places' /\ CountsAreRight'
    BY <2>1, <2>3, StepKeeps
  <2>4. ASSUME UNCHANGED vars PROVE Places' /\ CountsAreRight'
    <3>1. Places'
      BY <2>1, <2>4, Fixed DEF ShardInv, Places, vars
    <3>2. CountsAreRight'
      BY <2>1, <2>4, Fixed DEF ShardInv, CountsAreRight, Counted, Through, vars
    <3>. QED
      BY <3>1, <3>2
  <2>. QED
    BY <2>1, <2>2, <2>3, <2>4 DEF Next, ShardInv
<1>. QED
  BY <1>1, <1>2, PTL DEF Spec

(* The variables keep their types; no share has a block that is not there. *)
THEOREM ShardsTypeCorrect == Spec => []TypeOK
<1>1. ShardInv => TypeOK
  BY DEF ShardInv
<1>. QED
  BY <1>1, ShardInvariant, PTL

(* No process or worker ever reads with a reader another one opened.       *)
THEOREM NobodyBorrowsAReader == Spec => []OwnReader
<1>1. ShardInv => OwnReader
  BY DEF ShardInv
<1>. QED
  BY <1>1, ShardInvariant, PTL

LEMMA InvOncePerPass == ShardInv => OncePerPass
<1>. SUFFICES ASSUME ShardInv, NEW e \in DOMAIN times, NEW r \in Records
     PROVE  times[e][r] <= 1
  BY DEF OncePerPass
<1>1. times[e][r] = IF Counted(e, r) THEN 1 ELSE 0
  BY DEF ShardInv, TypeOK, CountsAreRight
<1>. QED
  BY <1>1, SMT

LEMMA InvFullBatches == ShardInv => FullBatches
<1>. SUFFICES ASSUME ShardInv, NEW p \in Procs, at[p] = "ready"
     PROVE  Cardinality(batch[p]) = BatchSize
  BY DEF FullBatches
<1>1. ~TooSmall /\ size \in Nat /\ Share(p) \subseteq Blocks
  BY SizeIsNat, SharesAreBlocks DEF ShardInv, Places
<1>2. PICK b \in Share(p) \ left[p] : batch[p] = Block(b)
  BY DEF ShardInv, Places
<1>. QED
  BY <1>1, <1>2, BlockIsFull

LEMMA InvPassIsComplete == ShardInv => PassIsComplete
<1>. SUFFICES ASSUME ShardInv, NEW e \in DOMAIN times,
                     \A p \in Procs : epoch[p] > e \/ (epoch[p] = e /\ at[p] = "done")
     PROVE  Cardinality({r \in Records : times[e][r] = 0}) < BatchSize
  BY DEF PassIsComplete
<1>0. /\ size \in Nat /\ BatchSize \in Nat \ {0} /\ NumProcs \in Nat \ {0}
      /\ e \in 0 .. NumEpochs - 1
  BY SizeIsNat, ShardAssumption DEF ShardInv, TypeOK
<1>1. ASSUME NEW p \in Procs PROVE at[p] \notin {"start", "raised"} /\ ~TooSmall
  <2>1. at[p] \in {"start", "raised"} => epoch[p] = 0 /\ at[p] # "done"
    BY DEF ShardInv, Places
  <2>2. epoch[p] > e \/ at[p] = "done"
    OBVIOUS
  <2>3. at[p] \notin {"start", "raised"}
    BY <1>0, <2>1, <2>2, SMT
  <2>. QED
    BY <2>3 DEF ShardInv, Places
<1>2. ~TooSmall
  <2>1. 0 \in Procs
    BY <1>0, SMT DEF Procs
  <2>. QED
    BY <1>1, <2>1
<1>3. ASSUME NEW p \in Procs, NEW b \in Share(p), NEW r PROVE Through(p, e, b, r)
  <2>1. CASE epoch[p] > e
    <3>1. epoch[p] # e
      BY <1>0, <2>1, SMT DEF ShardInv, TypeOK
    <3>. QED
      BY <1>1, <2>1, <3>1 DEF Through
  <2>2. CASE epoch[p] = e /\ at[p] = "done"
    BY <2>2 DEF ShardInv, Places, Through
  <2>. QED
    BY <2>1, <2>2
<1>4. ASSUME NEW r \in Records, times[e][r] = 0
      PROVE  r \in NumBlocks * BatchSize .. size - 1
  <2>1. ~Counted(e, r)
    BY <1>0, <1>4, SMT DEF ShardInv, CountsAreRight
  <2>2. ASSUME NEW b \in Blocks PROVE r \notin Block(b)
    BY <1>0, <1>2, <1>3, <2>1, SharesCover DEF Counted
  <2>. QED
    BY <1>0, <1>2, <2>2, TailIsShort
<1>5. /\ NumBlocks * BatchSize \in Nat
      /\ size < NumBlocks * BatchSize + BatchSize
  BY <1>0, <1>2, BlockCount
<1>6. /\ IsFiniteSet(NumBlocks * BatchSize .. size - 1)
      /\ Cardinality(NumBlocks * BatchSize .. size - 1) < BatchSize
  <2>. DEFINE n == NumBlocks * BatchSize
              m == size - 1
  <2>1. /\ n \in Int /\ m \in Int /\ BatchSize \in Nat \ {0}
        /\ m - n + 1 < BatchSize
    BY <1>0, <1>5, SMT
  <2>. HIDE DEF n, m
  <2>2. IsFiniteSet(n .. m) /\ Cardinality(n .. m) = IF n > m THEN 0 ELSE m - n + 1
    BY <2>1, FS_Interval
  <2>3. Cardinality(n .. m) < BatchSize
    BY <2>1, <2>2, SMT
  <2>. QED
    BY <2>2, <2>3 DEF n, m
<1>7. /\ Cardinality({r \in Records : times[e][r] = 0})
           <= Cardinality(NumBlocks * BatchSize .. size - 1)
      /\ Cardinality({r \in Records : times[e][r] = 0}) \in Nat
  BY <1>4, <1>6, FS_Subset, FS_CardinalityType
<1>. QED
  BY <1>0, <1>5, <1>6, <1>7, FS_CardinalityType, SMT

(* A pass deals the records to full batches: none twice, and all but a     *)
(* tail that is shorter than a batch.                                      *)
THEOREM PassesAlwaysPartition == Spec => []PassesPartition
<1>1. ShardInv => PassesPartition
  BY InvOncePerPass, InvFullBatches, InvPassIsComplete DEF PassesPartition
<1>. QED
  BY <1>1, ShardInvariant, PTL
-----------------------------------------------------------------------------
(* Steps and draws: what a process has drawn is what has been in a step,   *)
(* and the batch that waits for its own.                                   *)
Waiting(p) == IF at[p] = "ready" THEN 1 ELSE 0

InStep(p) ==
  IF at[p] \in {"start", "raised"} THEN steps = 0
  ELSE steps + Waiting(p) =
         epoch[p] * Cardinality(Share(p)) + Cardinality(Share(p)) - Cardinality(left[p])

StepsInv == \A p \in Procs : InStep(p)

LEMMA ShareSize ==
  ASSUME size \in Nat, NEW p \in Procs, NEW S \in SUBSET Share(p)
  PROVE  /\ IsFiniteSet(Share(p)) /\ Cardinality(Share(p)) \in Nat
         /\ IsFiniteSet(S) /\ Cardinality(S) \in Nat /\ Cardinality(S) <= Cardinality(Share(p))
<1>1. IsFiniteSet(Blocks)
  BY BlockCount, FS_Interval, SMT DEF Blocks
<1>2. IsFiniteSet(Share(p))
  BY <1>1, SharesAreBlocks, FS_Subset
<1>. QED
  BY <1>2, FS_Subset, FS_CardinalityType

LEMMA NextStepsInv == ShardInv /\ StepsInv /\ [Next]_vars => StepsInv'
<1>. SUFFICES ASSUME ShardInv, StepsInv, [Next]_vars, NEW o \in Procs PROVE InStep(o)'
  BY DEF StepsInv
<1>. DEFINE s == Cardinality(Share(o))
<1>0. size \in Nat /\ size' = size /\ Share(o)' = Share(o) /\ InStep(o)
  BY SizeIsNat, SizeFixed, Fixed DEF ShardInv, StepsInv
<1>t. /\ steps \in Nat /\ epoch[o] \in Nat /\ s \in Nat /\ left[o] \subseteq Share(o)
      /\ IsFiniteSet(left[o]) /\ Cardinality(left[o]) \in Nat
      /\ epoch[o] * s \in Nat
  <2>1. steps \in Nat /\ epoch[o] \in Nat /\ left[o] \subseteq Share(o)
    BY SMT DEF ShardInv, TypeOK
  <2>2. s \in Nat /\ IsFiniteSet(left[o]) /\ Cardinality(left[o]) \in Nat
    BY <1>0, <2>1, ShareSize
  <2>. HIDE DEF s
  <2>. QED
    BY <2>1, <2>2, SMT
<1>1. ASSUME NEW p \in Procs, p # o, Work(p) PROVE InStep(o)'
  <2>1. /\ at'[o] = at[o] /\ epoch'[o] = epoch[o] /\ left'[o] = left[o] /\ steps' = steps
    BY <1>1 DEF ShardInv, TypeOK, Work, CreateDataloader, Draw, NextPass, Exhausted
  <2>. QED
    BY <1>0, <2>1 DEF InStep, Waiting
<1>2. ASSUME CreateDataloader(o) PROVE InStep(o)'
  <2>1. /\ steps' = steps /\ epoch'[o] = 0 /\ steps = 0
        /\ \/ at'[o] = "raised"
           \/ at'[o] = "drawing" /\ left'[o] = Share(o)
    BY <1>0, <1>2 DEF ShardInv, TypeOK, Places, InStep, CreateDataloader
  <2>2. 0 * s = 0
    BY <1>t, SMT
  <2>. QED
    BY <1>0, <1>t, <2>1, <2>2, SMT DEF InStep, Waiting
<1>3. ASSUME Draw(o) PROVE InStep(o)'
  <2>1. PICK c \in left[o] : left' = [left EXCEPT ![o] = @ \ {c}]
    BY <1>3 DEF Draw
  <2>2. /\ at[o] = "drawing" /\ at'[o] = "ready" /\ steps' = steps /\ epoch' = epoch
        /\ left'[o] = left[o] \ {c}
    BY <1>3, <2>1 DEF Draw, ShardInv, TypeOK
  <2>3. Cardinality(left[o] \ {c}) = Cardinality(left[o]) - 1
    BY <1>t, FS_RemoveElement
  <2>. QED
    BY <1>0, <1>t, <2>2, <2>3, SMT DEF InStep, Waiting
<1>4. ASSUME NextPass(o) PROVE InStep(o)'
  <2>1. /\ at[o] = "drawing" /\ at' = at /\ steps' = steps /\ epoch'[o] = epoch[o] + 1
        /\ left[o] = {} /\ left'[o] = Share(o)
    BY <1>4 DEF NextPass, ShardInv, TypeOK
  <2>2. Cardinality({}) = 0
    BY FS_EmptySet
  <2>3. (epoch[o] + 1) * s = epoch[o] * s + s
    <3>. HIDE DEF s
    <3>. QED
      BY <1>t, SMT
  <2>. QED
    BY <1>0, <1>t, <2>1, <2>2, <2>3, SMT DEF InStep, Waiting
<1>5. ASSUME Exhausted(o) PROVE InStep(o)'
  <2>1. /\ at[o] = "drawing" /\ at'[o] = "done" /\ steps' = steps /\ epoch' = epoch
        /\ left' = left
    BY <1>5 DEF Exhausted, ShardInv, TypeOK
  <2>. QED
    BY <1>0, <2>1 DEF InStep, Waiting
<1>6. ASSUME Step PROVE InStep(o)'
  <2>1. /\ at[o] = "ready" /\ at'[o] = "drawing" /\ steps' = steps + 1 /\ epoch' = epoch
        /\ left' = left
    BY <1>6 DEF Step
  <2>. QED
    BY <1>0, <1>t, <2>1, SMT DEF InStep, Waiting
<1>7. ASSUME UNCHANGED vars PROVE InStep(o)'
  BY <1>0, <1>7 DEF InStep, Waiting, vars
<1>. QED
  BY <1>1, <1>2, <1>3, <1>4, <1>5, <1>6, <1>7 DEF Next, Work

LEMMA EvenShare ==
  ASSUME size \in Nat, ~TooSmall, NumBlocks % NumProcs = 0, NEW p \in Procs
  PROVE  Cardinality(Share(p)) = StepsPerEpoch
<1>. DEFINE q == NumBlocks \div NumProcs
<1>1. p \in 0 .. NumProcs /\ p + 1 \in 0 .. NumProcs /\ p \in Nat
  BY ShardAssumption, SMT DEF Procs
<1>2. q \in Nat \ {0}
  BY BlockCount
<1>3. Extra(p) = 0 /\ Extra(p + 1) = 0
  BY <1>1, StartIs, SMT
<1>4. Start(p) = p * q + 0 /\ Start(p + 1) = (p + 1) * q + 0
  BY <1>3 DEF Start
<1>5. p * q \in Nat /\ (p + 1) * q = p * q + q
  <2>. HIDE DEF q
  <2>. QED
    BY <1>1, <1>2, SMT
<1>6. Share(p) = Start(p) .. Start(p + 1) - 1
  BY SharesAreBlocks
<1>. HIDE DEF q
<1>7. /\ Start(p) \in Int /\ Start(p + 1) - 1 \in Int
      /\ Start(p) <= Start(p + 1) - 1 /\ Start(p + 1) - 1 - Start(p) + 1 = q
  BY <1>2, <1>4, <1>5, SMT
<1>8. Cardinality(Start(p) .. Start(p + 1) - 1) = q
  BY <1>7, FS_Interval, SMT
<1>. QED
  BY <1>6, <1>8 DEF q, StepsPerEpoch

(* At the end of an epoch of the loop a process is at the end of a pass:   *)
(* it has drawn all of its share, or of the next pass at most the batch    *)
(* that waits.                                                             *)
LEMMA EpochEnd ==
  ASSUME ShardInv, StepsInv, ~TooSmall, NumBlocks % NumProcs = 0, AtEpochEnd,
         NEW p \in Procs, at[p] \notin {"start", "raised"},
         NEW e \in 0 .. NumEpochs - 1, NEW b \in Share(p), NEW r \in Block(b)
  PROVE  Through(p, e, b, r) <=> e < steps \div StepsPerEpoch
<1>. DEFINE q == StepsPerEpoch
            k == steps \div StepsPerEpoch
            l == Cardinality(left[p])
            w == Waiting(p)
<1>1. size \in Nat /\ q \in Nat \ {0} /\ Cardinality(Share(p)) = q /\ e \in Nat
  BY SizeIsNat, BlockCount, EvenShare, SMT DEF ShardInv, StepsPerEpoch
<1>2. /\ left[p] \subseteq Share(p) /\ IsFiniteSet(left[p]) /\ IsFiniteSet(Share(p))
      /\ l \in Nat /\ l <= q
  BY <1>1, ShareSize DEF ShardInv, TypeOK
<1>3. steps \in Nat /\ epoch[p] \in Nat
  BY SMT DEF ShardInv, TypeOK
<1>4. steps + w = epoch[p] * q + q - l
  BY <1>1 DEF StepsInv, InStep
<1>5. k \in Nat /\ steps = k * q
  <2>1. \A x \in Nat, d \in Nat \ {0} : x % d = 0 => x = (x \div d) * d
    BY SMT
  <2>. QED
    BY <1>1, <1>3, <2>1, Quotient DEF AtEpochEnd
<1>6. w = 0 => at[p] # "ready" /\ batch[p] = {}
  BY DEF Waiting, ShardInv, Places
<1>7. w = 1 => \E c \in Share(p) \ left[p] : batch[p] = Block(c)
  BY DEF Waiting, ShardInv, Places
<1>8. w \in {0, 1}
  BY DEF Waiting
<1>9. w = 1 => l < q
  <2>. SUFFICES ASSUME w = 1, l = q PROVE FALSE
    BY <1>1, <1>2, SMT
  <2>1. left[p] = Share(p)
    BY <1>1, <1>2, FS_Subset
  <2>. QED
    BY <1>7, <2>1
<1>. HIDE DEF q, k, l, w
<1>10. \/ k = epoch[p] /\ l + w = q
       \/ k = epoch[p] + 1 /\ l = 0 /\ w = 0
  <2>1. epoch[p] * q \in Nat /\ k * q \in Nat /\ (epoch[p] + 1) * q = epoch[p] * q + q
    BY <1>1, <1>3, <1>5, SMT
  <2>2. k * q + w + l = epoch[p] * q + q
    <3>. DEFINE x == epoch[p] * q
    <3>1. x \in Nat /\ steps + w = x + q - l /\ q \in Nat /\ l \in Nat /\ w \in Nat
      BY <1>1, <1>2, <1>4, <1>8, <2>1
    <3>. HIDE DEF x
    <3>2. steps + w + l = x + q
      BY <1>3, <3>1, SMT
    <3>. QED
      BY <1>5, <3>2 DEF x
  <2>3. CASE k < epoch[p]
    <3>1. k * q + q <= epoch[p] * q
      BY <1>1, <1>3, <1>5, <2>3, Multiples
    <3>. QED
      BY <1>1, <1>2, <1>8, <1>9, <2>1, <2>2, <3>1, SMT
  <2>4. CASE epoch[p] + 1 < k
    <3>1. (epoch[p] + 1) * q + q <= k * q
      BY <1>1, <1>3, <1>5, <2>4, Multiples, SMT
    <3>. QED
      BY <1>1, <1>2, <1>8, <2>1, <2>2, <3>1, SMT
  <2>5. CASE k = epoch[p]
    BY <1>1, <1>2, <1>8, <2>1, <2>2, <2>5, SMT
  <2>6. CASE k = epoch[p] + 1
    BY <1>1, <1>2, <1>8, <2>1, <2>2, <2>6, SMT
  <2>. QED
    BY <1>3, <1>5, <2>3, <2>4, <2>5, <2>6, SMT
<1>11. CASE k = epoch[p] /\ l + w = q
  <2>1. epoch[p] = e => b \in left[p] \/ r \in batch[p]
    <3>1. CASE w = 0
      <4>1. left[p] = Share(p)
        BY <1>1, <1>2, <1>11, <3>1, FS_Subset, SMT DEF l
      <4>. QED
        BY <4>1
    <3>2. CASE w = 1
      <4>1. PICK c \in Share(p) \ left[p] : batch[p] = Block(c)
        BY <1>7, <3>2
      <4>2. /\ IsFiniteSet(Share(p) \ {c}) /\ Cardinality(Share(p) \ {c}) = q - 1
        BY <1>1, <1>2, FS_RemoveElement
      <4>3. l = q - 1
        BY <1>1, <1>2, <1>11, <3>2, SMT
      <4>4. left[p] = Share(p) \ {c}
        BY <1>2, <4>1, <4>2, <4>3, FS_Subset DEF l
      <4>. QED
        BY <4>1, <4>4
    <3>. QED
      BY <1>8, <3>1, <3>2
  <2>2. e < k <=> epoch[p] > e
    BY <1>1, <1>3, <1>11, SMT
  <2>3. epoch[p] > e => epoch[p] # e
    BY <1>1, <1>3, SMT
  <2>. QED
    BY <2>1, <2>2, <2>3 DEF Through, k
<1>12. CASE k = epoch[p] + 1 /\ l = 0 /\ w = 0
  <2>1. left[p] = {} /\ batch[p] = {}
    BY <1>2, <1>6, <1>12, FS_EmptySet DEF l
  <2>2. e < k <=> epoch[p] > e \/ epoch[p] = e
    BY <1>1, <1>3, <1>12, SMT
  <2>. QED
    BY <2>1, <2>2 DEF Through, k
<1>. QED
  BY <1>10, <1>11, <1>12

LEMMA InvEpochsArePasses == ShardInv /\ StepsInv => EpochsArePasses
<1>. SUFFICES ASSUME ShardInv, StepsInv, NumBlocks % NumProcs = 0, AtEpochEnd,
                     NEW e \in DOMAIN times, NEW b \in 0 .. NumBlocks - 1, NEW r \in Block(b)
     PROVE  times[e][r] >= 1 <=> e < steps \div StepsPerEpoch
  BY DEF EpochsArePasses
<1>0. size \in Nat /\ e \in 0 .. NumEpochs - 1 /\ b \in Blocks /\ r \in Records
  BY SizeIsNat, BlockInRecords DEF ShardInv, TypeOK, Blocks
<1>1. ASSUME NEW p \in Procs PROVE at[p] \notin {"start", "raised"} /\ ~TooSmall
  <2>1. steps # 0
    BY SMT DEF ShardInv, TypeOK, AtEpochEnd
  <2>. QED
    BY <2>1 DEF StepsInv, InStep, ShardInv, Places
<1>2. ~TooSmall
  <2>1. 0 \in Procs
    BY ShardAssumption, SMT DEF Procs
  <2>. QED
    BY <1>1, <2>1
<1>3. PICK p \in Procs : b \in Share(p)
  BY <1>0, <1>2, SharesCover
<1>4. ASSUME NEW o \in Procs, NEW c \in Share(o), r \in Block(c) PROVE o = p /\ c = b
  <2>1. c \in Blocks
    BY <1>0, SharesAreBlocks
  <2>2. c = b
    BY <1>0, <1>2, <1>4, <2>1, BlocksApart
  <2>. QED
    BY <1>0, <1>3, <2>2, SharesApart
<1>5. Counted(e, r) <=> Through(p, e, b, r)
  BY <1>3, <1>4 DEF Counted
<1>6. Through(p, e, b, r) <=> e < steps \div StepsPerEpoch
  BY <1>0, <1>1, <1>2, <1>3, EpochEnd
<1>7. times[e][r] = IF Counted(e, r) THEN 1 ELSE 0
  BY <1>0 DEF ShardInv, CountsAreRight
<1>. QED
  BY <1>5, <1>6, <1>7, SMT

(* Where the blocks come out even, the loop's epochs are passes.           *)
THEOREM EpochsAreAlwaysPasses == Spec => []EpochsArePasses
<1>1. Init => StepsInv
  BY DEF Init, StepsInv, InStep
<1>2. ShardInv /\ StepsInv /\ [Next]_vars => StepsInv'
  BY NextStepsInv
<1>3. ShardInv /\ StepsInv => EpochsArePasses
  BY InvEpochsArePasses
<1>. QED
  BY <1>1, <1>2, <1>3, ShardInvariant, PTL DEF Spec
=============================================================================
