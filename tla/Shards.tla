------------------------------- MODULE Shards -------------------------------
(***************************************************************************)
(* The records of a data set on their way to the training step             *)
(* (data_loading.py, BatchSampler.py, RandomAccessArrayRecordDataSource.py *)
(* and the step counts of _train_fn).  A block is a run of batch_size      *)
(* records; grain gives every JAX process a share of the blocks, the grain *)
(* workers of a process read them, and a step is a collective that needs a *)
(* batch from every process.                                               *)
(*                                                                         *)
(* Simplifications.  A batch is the set of its record numbers: the order   *)
(* inside it is shuffled and nothing depends on it.  Which worker reads a  *)
(* block is left open.  What transforms do to a batch is in Negatives and  *)
(* SuperGraph, how far a process reads ahead in TrainLoop.                 *)
(***************************************************************************)
EXTENDS Integers, FiniteSets, FiniteSetsExt

CONSTANTS
  Sizes,       \* numbers of records a data set may have
  BatchSize,   \* config['batch_size']
  NumEpochs,   \* config['num_epochs'], of the train loader
  NumProcs,    \* jax.process_count()
  NumWorkers   \* grain worker processes of one JAX process

ASSUME ShardAssumption ==
  /\ Sizes \subseteq Nat
  /\ {BatchSize, NumEpochs, NumProcs, NumWorkers} \subseteq Nat \ {0}

Procs == 0 .. NumProcs - 1
Workers == 1 .. NumWorkers
Loaders == {"train", "val", "test"}

VARIABLES
  loader,   \* which of the three data loaders this is
  size,     \* len(datasource)
  at,       \* where each process is
  reader,   \* who opened the reader a process or worker holds; None: nobody
  epoch,    \* the pass over its share each process is in
  left,     \* the blocks of its share not drawn in this pass
  batch,    \* the batch a process brings to the next step
  steps,    \* steps taken
  times     \* how often each record was trained in each pass

vars == <<loader, size, at, reader, epoch, left, batch, steps, times>>

(* The JAX process itself is worker 0 of its own.                          *)
Readers == Procs \X (0 .. NumWorkers)
None == <<-1, -1>>

Records == 0 .. size - 1
Passes == IF loader = "train" THEN NumEpochs ELSE 1
Shuffled == loader = "train"

-----------------------------------------------------------------------------
(* num_batches_per_epoch: the tail of the data set makes no block.         *)
NumBlocks == Max({1, size \div BatchSize})

(* The records of block b: start .. stop - 1.                              *)
Block(b) == b * BatchSize .. Min({b * BatchSize + BatchSize, size}) - 1

(* ShardByJaxProcess, drop_remainder = False (external): an even split in  *)
(* which the first shards have one block more when it does not come out.   *)
Extra(p) == Min({p, NumBlocks % NumProcs})
Share(p) == p * (NumBlocks \div NumProcs) + Extra(p)
              .. (p + 1) * (NumBlocks \div NumProcs) + Extra(p + 1) - 1

(* Mutant: the steps of all processes together.                            *)
StepsPerEpochGlobal == NumBlocks

(* STEPS_PER_EPOCH_LOCAL, and where _train_fn takes an epoch to end.       *)
StepsPerEpoch == NumBlocks \div NumProcs
AtEpochEnd == steps > 0 /\ steps % StepsPerEpoch = 0

(* Mutant: the check leaves out the number of processes.                   *)
TooSmallForOne == size \div BatchSize = 0

(* What _create_dataloader refuses.                                        *)
TooSmall == (size \div BatchSize) \div NumProcs = 0

-----------------------------------------------------------------------------
Init ==
  /\ loader \in Loaders /\ size \in Sizes
  /\ at = [p \in Procs |-> "start"]
  /\ reader = [r \in Readers |-> None]
  /\ epoch = [p \in Procs |-> 0] /\ left = [p \in Procs |-> {}]
  /\ batch = [p \in Procs |-> {}]
  /\ steps = 0
  /\ times = [e \in 0 .. NumEpochs - 1 |-> [r \in Records |-> 0]]

(* Mutant: the data source is pickled with its open reader.                *)
PickledWithReader(p) ==
  [r \in Readers |-> IF r[1] = p THEN <<p, 0>> ELSE reader[r]]

(* len(datasource) opens the reader of the process; its workers get a copy *)
(* of the data source that has none (__getstate__).                        *)
Pickled(p) ==
  [r \in Readers |-> IF r = <<p, 0>> THEN r ELSE IF r[1] = p THEN None ELSE reader[r]]

CreateDataloader(p) ==
  /\ at[p] = "start"
  /\ reader' = Pickled(p)
  /\ at' = [at EXCEPT ![p] = IF TooSmall THEN "raised" ELSE "drawing"]
  /\ left' = [left EXCEPT ![p] = IF TooSmall THEN {} ELSE Share(p)]
  /\ UNCHANGED <<loader, size, epoch, batch, steps, times>>

(* _ensure_reader, in the worker that reads the block.                     *)
EnsureReader(r) == IF reader[r] = None THEN [reader EXCEPT ![r] = r] ELSE reader

(* __getitems__: the worker reads the records of a block.                  *)
Fetch(p, w, b) ==
  /\ reader' = EnsureReader(<<p, w>>)
  /\ batch' = [batch EXCEPT ![p] = Block(b)]

(* BatchSampler.__getitem__: in a shuffled loader any block that is left,  *)
(* otherwise the next one.                                                 *)
Draw(p) ==
  /\ at[p] = "drawing" /\ left[p] # {}
  /\ \E b \in left[p], w \in Workers :
       /\ Shuffled \/ b = Min(left[p])
       /\ Fetch(p, w, b)
       /\ left' = [left EXCEPT ![p] = @ \ {b}]
  /\ at' = [at EXCEPT ![p] = "ready"]
  /\ UNCHANGED <<loader, size, epoch, steps, times>>

(* Mutant: a new pass starts with the blocks of the first process.         *)
NextPassOfFirst(p) ==
  /\ at[p] = "drawing" /\ left[p] = {} /\ epoch[p] + 1 < Passes
  /\ epoch' = [epoch EXCEPT ![p] = @ + 1]
  /\ left' = [left EXCEPT ![p] = Share(0)]
  /\ UNCHANGED <<loader, size, at, reader, batch, steps, times>>

(* The sampler starts another pass over the share.                         *)
NextPass(p) ==
  /\ at[p] = "drawing" /\ left[p] = {} /\ epoch[p] + 1 < Passes
  /\ epoch' = [epoch EXCEPT ![p] = @ + 1]
  /\ left' = [left EXCEPT ![p] = Share(p)]
  /\ UNCHANGED <<loader, size, at, reader, batch, steps, times>>

(* The iterator of the process ends, and with it its loop.                 *)
Exhausted(p) ==
  /\ at[p] = "drawing" /\ left[p] = {} /\ epoch[p] + 1 >= Passes
  /\ at' = [at EXCEPT ![p] = "done"]
  /\ UNCHANGED <<loader, size, reader, epoch, left, batch, steps, times>>

(* train_step or eval_step: everyone's batch, or nobody's.                 *)
Step ==
  /\ \A p \in Procs : at[p] = "ready"
  /\ times' = [e \in DOMAIN times |-> [r \in Records |->
       times[e][r] + Cardinality({p \in Procs : epoch[p] = e /\ r \in batch[p]})]]
  /\ steps' = steps + 1
  /\ batch' = [p \in Procs |-> {}]
  /\ at' = [p \in Procs |-> "drawing"]
  /\ UNCHANGED <<loader, size, reader, epoch, left>>

Work(p) == CreateDataloader(p) \/ Draw(p) \/ NextPass(p) \/ Exhausted(p)

Next == Step \/ \E p \in Procs : Work(p)

Spec == Init /\ [][Next]_vars

(* Every process runs its loop; a step is taken once all have come to it.  *)
FairSpec == Spec /\ WF_vars(Step) /\ \A p \in Procs : WF_vars(Work(p))

-----------------------------------------------------------------------------
(* Types; a process draws from its own share and of the records there are. *)
TypeOK ==
  /\ loader \in Loaders /\ size \in Sizes
  /\ at \in [Procs -> {"start", "raised", "drawing", "ready", "done"}]
  /\ reader \in [Readers -> Readers \cup {None}]
  /\ epoch \in [Procs -> 0 .. NumEpochs - 1]
  /\ left \in [Procs -> SUBSET (0 .. NumBlocks - 1)]
  /\ \A p \in Procs : left[p] \subseteq Share(p)
  /\ batch \in [Procs -> SUBSET Records]
  /\ steps \in Nat
  /\ times \in [0 .. NumEpochs - 1 -> [Records -> Nat]]

(* Nobody trains a record twice in a pass, whichever process it went to,   *)
(* and however the passes of different processes lie against each other    *)
(* (BatchSampler.py 22-43).                                                *)
OncePerPass == \A e \in DOMAIN times, r \in Records : times[e][r] <= 1

(* When a process has begun its next pass, or its loop has ended, every    *)
(* record of its blocks has been in a step: nothing but the tail, which is *)
(* shorter than a batch, is ever left out (BatchSampler.py 8).             *)
PassIsComplete ==
  \A e \in DOMAIN times :
    (\A p \in Procs : epoch[p] > e \/ (epoch[p] = e /\ at[p] = "done")) =>
      Cardinality({r \in Records : times[e][r] = 0}) < BatchSize

(* Every step gets batches of one and the same shape: past the check in    *)
(* _create_dataloader neither the max of line 8 nor the min of line 30 of  *)
(* BatchSampler.py ever cuts a batch short, which compiled steps rely on.  *)
FullBatches == \A p \in Procs : at[p] = "ready" => Cardinality(batch[p]) = BatchSize

(* A pass deals the records that fill whole batches to the steps, each to  *)
(* one of them.                                                            *)
PassesPartition == OncePerPass /\ PassIsComplete /\ FullBatches

(* When the blocks come out even, the step in which _train_fn ends an      *)
(* epoch (train.py 640, 760) is the last of a pass: every block of it has  *)
(* been trained, and none of the next.  (When they do not, epochs of the   *)
(* loop drift against passes over the data.)                               *)
EpochsArePasses ==
  (NumBlocks % NumProcs = 0 /\ AtEpochEnd) =>
    \A e \in DOMAIN times, b \in 0 .. NumBlocks - 1 : \A r \in Block(b) :
      times[e][r] >= 1 <=> e < steps \div StepsPerEpoch

(* A reader is used by the process that opened it, never by one that got   *)
(* it with a pickled data source (RandomAccessArrayRecordDataSource.py     *)
(* 51-59, 106-115).                                                        *)
OwnReader == \A r \in Readers : reader[r] \in {r, None}

(* When the blocks come out even every process reaches the end of its loop *)
(* or all refuse to start.  (When they do not, a process whose share has a *)
(* block more waits in a step the others have left: data_loading.py 162    *)
(* does not refuse that.)                                                  *)
EvenSharesEnd ==
  (NumBlocks % NumProcs = 0 \/ size < BatchSize * NumProcs) ~>
    \A p \in Procs : at[p] \in {"done", "raised"}
=============================================================================
