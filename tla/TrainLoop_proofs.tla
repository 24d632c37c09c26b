------------------------- MODULE TrainLoop_proofs -------------------------
(***************************************************************************)
(* Theorems about TrainLoop, for every length of the stream, epoch, buffer,*)
(* patience and number of kept checkpoints.                                *)
(***************************************************************************)
EXTENDS TrainLoop, TLAPS

-----------------------------------------------------------------------------
(* The inductive invariant.                                                *)

LastOf(s) == IF s = <<>> THEN -1 ELSE s[Len(s)]

InTraining == IF pc = "train" THEN 1 ELSE 0
Body == Locations \ {"stopped", "next", "train"}

(* Batches the generator has yielded to the loop, or skipped.              *)
Yielded == iterPos - Len(queue)

(* The deque holds the batches from Yielded to the iterator's position, and *)
(* is full unless the iterator is at its end.                               *)
QueueInv ==
  /\ Len(queue) <= iterPos
  /\ \A i \in 1 .. Len(queue) : queue[i] = Yielded + i - 1
  /\ Len(queue) <= BufferSize
  /\ pc # "next" => Len(queue) <= BufferSize - 1
  /\ pc = "next" /\ Len(queue) < BufferSize => iterPos = NumBatches
  /\ pc # "next" /\ Len(queue) < BufferSize - 1 => iterPos = NumBatches

(* The lineage: increasing, behind what was yielded, missing at most the    *)
(* batches that resumes skipped.                                            *)
ModelInv ==
  /\ Increasing(model)
  /\ \A i \in 1 .. Len(model) : model[i] < Yielded - InTraining
  /\ Yielded - InTraining - Len(model) <= resumes * (BufferSize - 1)
  /\ Yielded - InTraining <= LastOf(model) + BufferSize
  /\ pc = "train" => cur = Yielded - 1
  /\ pc \in Body => model # <<>> /\ LastOf(model) = Yielded - 1

CheckpointInv(c) ==
  /\ c.model # <<>>
  /\ Increasing(c.model)
  /\ \A i \in 1 .. Len(c.model) : c.model[i] < c.iterPos
  /\ c.iterPos - Len(c.model) <= (c.resumes + 1) * (BufferSize - 1)
  /\ c.iterPos <= LastOf(c.model) + BufferSize
  /\ (c.globalStep \div GlobalBatch) \div StepsPerEpoch = c.epoch

DiskInv ==
  /\ \A i \in 1 .. Len(latest) : CheckpointInv(latest[i])
  /\ \A i \in 1 .. Len(bestCkpt) : CheckpointInv(bestCkpt[i])

(* The epoch under way is the one after the newest checkpoint's at most.   *)
EpochInv ==
  /\ pc \in {"next", "train", "epoch_end", "save_latest"} /\ SaveCheckpoints =>
       IF latest = <<>> THEN Epoch = 0 ELSE Epoch <= NewestOf(latest).epoch + 1
  /\ pc \in {"validate", "update_best", "save_best", "check_stop"} /\ SaveCheckpoints =>
       latest # <<>> /\ Epoch <= NewestOf(latest).epoch
  /\ pc \in {"validate", "save_latest", "save_best"} => SaveCheckpoints
  /\ latest # <<>> => SaveCheckpoints

EpochPart == EpochInv /\ CheckpointsInStep

(* What holds of the loop while a session runs, and of the lineage always. *)
LoopInv ==
  /\ pc # "stopped" => QueueInv /\ ModelInv /\ outcome = "running"
  /\ Increasing(model)

IInv == TypeOK /\ LoopInv /\ DiskInv /\ EpochPart /\ BoundedLoss

-----------------------------------------------------------------------------
(* Arithmetic of batches, epochs and the prefetcher.                       *)

LEMMA DivisionUnique ==
  ASSUME NEW s \in Nat \ {0}, NEW q \in Nat, NEW r \in 0 .. s - 1
  PROVE  (s * q + r) \div s = q /\ (s * q + r) % s = r
  OBVIOUS

LEMMA EpochOfBatch ==
  ASSUME NEW b \in Nat, NEW s \in Nat \ {0}
  PROVE  /\ b \div s \in Nat
         /\ (b + 1) \div s <= (b \div s) + 1
         /\ (b + 1) % s # 0 => (b + 1) \div s = b \div s
<1> DEFINE q == b \div s
           r == b % s
<1>1. q \in Nat /\ r \in 0 .. s - 1 /\ b = s * q + r
  OBVIOUS
<1>2. CASE r + 1 < s
  <2>1. b + 1 = s * q + (r + 1) /\ r + 1 \in 0 .. s - 1
    BY <1>1, <1>2
  <2>2. (b + 1) \div s = q
    BY <1>1, <2>1, DivisionUnique
  <2> QED BY <1>1, <2>2
<1>3. CASE r + 1 = s
  <2>1. b + 1 = s * (q + 1) + 0 /\ q + 1 \in Nat /\ 0 \in 0 .. s - 1
    BY <1>1, <1>3
  <2>2. (b + 1) \div s = q + 1 /\ (b + 1) % s = 0
    <3>1. \A k \in Nat : (s * k + 0) \div s = k /\ (s * k + 0) % s = 0
      BY <2>1, DivisionUnique
    <3>2. (s * (q + 1) + 0) \div s = q + 1 /\ (s * (q + 1) + 0) % s = 0
      BY <2>1, <3>1
    <3> HIDE DEF q, r
    <3> QED BY <2>1, <3>2, Zenon
  <2> QED BY <1>1, <2>2
<1> QED BY <1>1, <1>2, <1>3

LEMMA StepOfBatch ==
  ASSUME NEW b \in Nat, NEW g \in Nat \ {0}
  PROVE  b * g \in Nat /\ (b * g) \div g = b
  OBVIOUS

LEMMA StagedShape ==
  ASSUME NEW pos \in 0 .. NumBatches, NEW n \in Nat
  PROVE  /\ Drawn(pos, n) \in pos .. NumBatches
         /\ Drawn(pos, n) \in 0 .. NumBatches
         /\ Drawn(pos, n) <= pos + n
         /\ Drawn(pos, n) < pos + n => Drawn(pos, n) = NumBatches
         /\ Staged(pos, n) \in Seq(Nat)
         /\ Len(Staged(pos, n)) = Drawn(pos, n) - pos
         /\ \A i \in 1 .. Len(Staged(pos, n)) : Staged(pos, n)[i] = pos + i - 1
<1>1. /\ Drawn(pos, n) \in pos .. NumBatches
      /\ Drawn(pos, n) \in 0 .. NumBatches
      /\ Drawn(pos, n) <= pos + n
      /\ Drawn(pos, n) < pos + n => Drawn(pos, n) = NumBatches
  BY TrainAssumption DEF Drawn, Least
<1> DEFINE k == Drawn(pos, n) - pos
           f == [i \in 1 .. k |-> pos + i - 1]
<1>2. k \in Nat
  BY <1>1
<1>3. f \in Seq(Nat) /\ Len(f) = k /\ \A i \in 1 .. k : f[i] = pos + i - 1
  <2> HIDE DEF k
  <2> QED BY <1>2
<1>4. Staged(pos, n) = f
  BY DEF Staged
<1> HIDE DEF f
<1> QED BY <1>1, <1>3, <1>4

(* A snapshot taken in a well-typed state is a checkpoint, and saving one   *)
(* keeps a manager's list a list of checkpoints that is not empty.          *)
LEMMA SnapshotType ==
  ASSUME TypeOK
  PROVE  BatchIdx \in Nat /\ Epoch \in Nat /\ Snapshot \in Checkpoint
<1>1. BatchIdx \in Nat
  BY DEF TypeOK, BatchIdx
<1>2. Epoch \in Nat
  BY <1>1, EpochOfBatch, TrainAssumption DEF Epoch
<1>3. BatchIdx * GlobalBatch \in Nat
  BY <1>1, StepOfBatch, TrainAssumption
<1> QED BY <1>1, <1>2, <1>3 DEF TypeOK, Snapshot, Checkpoint

LEMMA OrbaxSaveShape ==
  ASSUME NEW S, NEW kept \in Seq(S), NEW c \in S, NEW n \in Nat \ {0}
  PROVE  /\ OrbaxSave(kept, c, n) \in Seq(S)
         /\ OrbaxSave(kept, c, n) # <<>>
  BY DEF OrbaxSave

(* What StartSession sets, from a position that a checkpoint may hold.     *)
LEMMA StartTypes ==
  ASSUME TypeOK, NEW pos \in 0 .. NumBatches, NEW start \in Nat,
         NEW weights \in Seq(Nat), NEW n \in Nat, NEW check \in Nat,
         StartSession(pos, start, weights, n, check)
  PROVE  TypeOK'
<1>1. iterPos' \in 0 .. NumBatches /\ queue' \in Seq(Nat)
  BY StagedShape, TrainAssumption DEF StartSession
<1> QED BY <1>1 DEF TypeOK, StartSession, Locations, diskVars

LEMMA NextIterationTypes ==
  ASSUME TypeOK, NextIteration
  PROVE  iterPos' \in 0 .. NumBatches /\ queue' \in Seq(Nat) /\ loopIdx' \in Nat
         /\ pc' \in Locations
<1>1. iterPos \in 0 .. NumBatches /\ queue \in Seq(Nat) /\ loopIdx \in Nat
  BY DEF TypeOK
<1>2. Drawn(iterPos, 1) \in 0 .. NumBatches /\ Staged(iterPos, 1) \in Seq(Nat)
  BY <1>1, StagedShape, TrainAssumption
<1> QED BY <1>1, <1>2 DEF NextIteration, Locations

(* The resumed session starts from values of the checkpoint's types.       *)
LEMMA ResumeTypes ==
  ASSUME TypeOK, latest # <<>>
  PROVE  LET c == NewestOf(latest)
         IN  /\ c \in Checkpoint /\ c.iterPos \in 0 .. NumBatches
             /\ c.globalStep \div GlobalBatch \in Nat
             /\ c.model \in Seq(Nat) /\ c.resumes + 1 \in Nat
<1> DEFINE c == NewestOf(latest)
<1>1. c \in Checkpoint
  BY DEF TypeOK, NewestOf
<1>2. c.globalStep \in Nat /\ c.resumes \in Nat /\ c.model \in Seq(Nat)
      /\ c.iterPos \in 0 .. NumBatches
  BY <1>1 DEF Checkpoint
<1>3. c.globalStep \div GlobalBatch \in Nat
  <2> HIDE DEF c
  <2> QED BY <1>2, EpochOfBatch, TrainAssumption
<1> QED BY <1>1, <1>2, <1>3

(* Every variable keeps its type: in particular the iterator never runs     *)
(* past the stream and every checkpoint written can be read back.           *)
THEOREM TypeCorrect == Spec => []TypeOK
<1>1. Init => TypeOK
  BY TrainAssumption DEF Init, TypeOK, Locations
<1>2. ASSUME TypeOK, [Next]_vars PROVE TypeOK'
  <2> USE <1>2
  <2>1. CASE Launch
    <3>1. WantedChecks \in Nat
      BY DEF WantedChecks
    <3>2. 0 \in 0 .. NumBatches /\ <<>> \in Seq(Nat)
      BY TrainAssumption
    <3>3. StartSession(0, 0, <<>>, 0, WantedChecks)
      BY <2>1 DEF Launch
    <3> QED BY <3>1, <3>2, <3>3, StartTypes
  <2>2. CASE Resume
    <3> DEFINE c == NewestOf(latest)
    <3>1. StartSession(c.iterPos, c.globalStep \div GlobalBatch, c.model,
                       c.resumes + 1, 0)
      BY <2>2 DEF Resume
    <3>2. latest # <<>>
      BY <2>2 DEF Resume
    <3> QED BY <3>1, <3>2, ResumeTypes, StartTypes
  <2>3. CASE NextBatch
    BY <2>3 DEF TypeOK, NextBatch, Locations, evalVars, diskVars
  <2>4. CASE Exhausted
    BY <2>4 DEF TypeOK, Exhausted, Locations, loopVars, evalVars, diskVars
  <2>5. CASE TrainStep
    <3>1. /\ iterPos' \in 0 .. NumBatches /\ queue' \in Seq(Nat)
          /\ loopIdx' \in Nat /\ pc' \in Locations
      BY <2>5, NextIterationTypes DEF TrainStep, TypeOK, Locations
    <3> QED BY <2>5, <3>1 DEF TypeOK, TrainStep, evalVars, diskVars
  <2>6. CASE EpochValidation
    BY <2>6, SnapshotType, TrainAssumption DEF TypeOK, EpochValidation, Locations, diskVars
  <2>7. CASE SaveLatest
    <3>1. latest' \in Seq(Checkpoint)
      BY <2>7, SnapshotType, OrbaxSaveShape, TrainAssumption DEF TypeOK, SaveLatest
    <3> QED BY <2>7, <3>1 DEF TypeOK, SaveLatest, Locations, loopVars, evalVars
  <2>8. CASE AssertCheckpointsRestore
    BY <2>8 DEF TypeOK, AssertCheckpointsRestore, Locations, loopVars, diskVars
  <2>9. CASE UpdateBest
    BY <2>9 DEF TypeOK, UpdateBest, Locations, loopVars, diskVars
  <2>10. CASE SaveBest
    <3>1. bestCkpt' \in Seq(Checkpoint)
      BY <2>10, SnapshotType, OrbaxSaveShape, TrainAssumption DEF TypeOK, SaveBest
    <3> QED BY <2>10, <3>1 DEF TypeOK, SaveBest, Locations, loopVars, evalVars
  <2>11. CASE EarlyStop
    BY <2>11 DEF TypeOK, EarlyStop, Locations, loopVars, evalVars, diskVars
  <2>12. CASE LogMetrics
    <3>1. logged' \in Seq(Nat)
      BY <2>12, SnapshotType DEF TypeOK, LogMetrics
    <3> QED BY <2>12, <3>1, NextIterationTypes DEF TypeOK, LogMetrics, diskVars
  <2>13. CASE Crash
    BY <2>13 DEF TypeOK, Crash, Locations, loopVars, evalVars, diskVars
  <2>14. CASE UNCHANGED vars
    BY <2>14 DEF TypeOK, vars, loopVars, evalVars, diskVars
  <2> QED BY <2>1, <2>2, <2>3, <2>4, <2>5, <2>6, <2>7, <2>8, <2>9, <2>10,
             <2>11, <2>12, <2>13, <2>14 DEF Next, Step
<1> QED BY <1>1, <1>2, PTL DEF Spec

-----------------------------------------------------------------------------
(* The loop part of the invariant: queue, lineage and iterator.            *)

LEMMA StartLoop ==
  ASSUME TypeOK, NEW pos \in 0 .. NumBatches, NEW start \in Nat,
         NEW weights \in Seq(Nat), NEW n \in Nat, NEW check \in Nat,
         Increasing(weights),
         \A i \in 1 .. Len(weights) : weights[i] < pos,
         pos - Len(weights) <= n * (BufferSize - 1),
         pos <= LastOf(weights) + BufferSize,
         StartSession(pos, start, weights, n, check)
  PROVE  LoopInv'
<1>1. /\ pc' = "next" /\ outcome' = "running" /\ model' = weights /\ resumes' = n
      /\ iterPos' = Drawn(pos, BufferSize) /\ queue' = Staged(pos, BufferSize)
  BY DEF StartSession
<1>2. /\ iterPos' \in pos .. NumBatches
      /\ iterPos' <= pos + BufferSize
      /\ iterPos' < pos + BufferSize => iterPos' = NumBatches
      /\ queue' \in Seq(Nat)
      /\ Len(queue') = iterPos' - pos
      /\ \A i \in 1 .. Len(queue') : queue'[i] = pos + i - 1
  BY <1>1, StagedShape, TrainAssumption
<1>3. Yielded' = pos /\ InTraining' = 0
  BY <1>1, <1>2, TrainAssumption DEF Yielded, InTraining
<1>4. QueueInv'
  BY <1>1, <1>2, <1>3, TrainAssumption DEF QueueInv
<1>5. ModelInv'
  BY <1>1, <1>2, <1>3, TrainAssumption DEF ModelInv, Body
<1> QED BY <1>1, <1>4, <1>5 DEF LoopInv, ModelInv

(* Growing an increasing sequence by a larger element.                     *)
LEMMA IncreasingAppend ==
  ASSUME NEW s \in Seq(Nat), NEW b \in Nat, Increasing(s),
         \A i \in 1 .. Len(s) : s[i] < b
  PROVE  /\ Append(s, b) \in Seq(Nat) /\ Increasing(Append(s, b))
         /\ Len(Append(s, b)) = Len(s) + 1
         /\ \A i \in 1 .. Len(Append(s, b)) : Append(s, b)[i] <= b
         /\ LastOf(Append(s, b)) = b /\ Append(s, b) # <<>>
<1> DEFINE t == Append(s, b)
<1>1. /\ t \in Seq(Nat) /\ Len(t) = Len(s) + 1 /\ t[Len(s) + 1] = b
      /\ \A i \in 1 .. Len(s) : t[i] = s[i]
      /\ \A i \in 1 .. Len(s) : s[i] \in Nat
  OBVIOUS
<1>2. t # <<>>
  BY <1>1
<1> HIDE DEF t
<1>3. Len(s) \in Nat /\ \A i \in 1 .. Len(s) : s[i] < b /\ s[i] \in Nat
  BY <1>1
<1>4. ASSUME NEW i \in 1 .. Len(t), NEW j \in 1 .. Len(t), i < j
      PROVE  t[i] < t[j]
  <2>1. i \in 1 .. Len(s) /\ t[i] = s[i] /\ s[i] < b
    BY <1>1, <1>3, <1>4
  <2>2. CASE j = Len(s) + 1
    BY <1>1, <2>1, <2>2
  <2>3. CASE j # Len(s) + 1
    <3>1. j \in 1 .. Len(s) /\ t[j] = s[j]
      BY <1>1, <1>3, <2>3
    <3> QED BY <1>4, <2>1, <3>1 DEF Increasing
  <2> QED BY <2>2, <2>3
<1>5. ASSUME NEW i \in 1 .. Len(t) PROVE t[i] <= b
  <2>1. CASE i = Len(s) + 1
    BY <1>1, <2>1
  <2>2. CASE i # Len(s) + 1
    <3>1. i \in 1 .. Len(s) /\ t[i] = s[i]
      BY <1>1, <1>3, <2>2
    <3> QED BY <1>3, <3>1
  <2> QED BY <2>1, <2>2
<1>6. LastOf(t) = b
  BY <1>1, <1>2 DEF LastOf
<1>7. Increasing(t)
  BY <1>4 DEF Increasing
<1> QED BY <1>1, <1>2, <1>5, <1>6, <1>7 DEF t

(* The generator resumed at the end of a loop body.                        *)
LEMMA RefillQueue ==
  ASSUME TypeOK, NextIteration, Len(queue) <= iterPos,
         \A i \in 1 .. Len(queue) : queue[i] = Yielded + i - 1,
         Len(queue) <= BufferSize - 1,
         Len(queue) < BufferSize - 1 => iterPos = NumBatches
  PROVE  QueueInv' /\ Yielded' = Yielded
<1> DEFINE q == Staged(iterPos, 1)
<1>1. /\ iterPos \in 0 .. NumBatches /\ queue \in Seq(Nat)
      /\ NumBatches \in Nat /\ BufferSize \in Nat \ {0}
  BY TrainAssumption DEF TypeOK
<1>2. /\ iterPos' \in iterPos .. NumBatches /\ iterPos' <= iterPos + 1
      /\ iterPos' < iterPos + 1 => iterPos' = NumBatches
      /\ q \in Seq(Nat) /\ Len(q) = iterPos' - iterPos
      /\ \A i \in 1 .. Len(q) : q[i] = iterPos + i - 1
  BY <1>1, StagedShape DEF NextIteration
<1>3. queue' = queue \o q /\ pc' = "next"
  BY DEF NextIteration
<1> HIDE DEF q
<1>4. queue' \in Seq(Nat) /\ Len(queue') = Len(queue) + (iterPos' - iterPos)
  BY <1>1, <1>2, <1>3
<1>5. Yielded' = Yielded
  BY <1>1, <1>2, <1>4 DEF Yielded
<1>6. \A i \in 1 .. Len(queue') : queue'[i] = Yielded + i - 1
  <2> TAKE i \in 1 .. Len(queue')
  <2>1. CASE i <= Len(queue)
    BY <1>1, <1>2, <1>3, <2>1
  <2>2. CASE i > Len(queue)
    <3>1. i - Len(queue) \in 1 .. Len(q) /\ queue'[i] = q[i - Len(queue)]
      BY <1>1, <1>2, <1>3, <1>4, <2>2
    <3>2. q[i - Len(queue)] = iterPos + (i - Len(queue)) - 1
      BY <1>2, <3>1
    <3>3. Len(queue) \in Nat /\ i \in Int /\ iterPos \in Int
      BY <1>1, <1>4
    <3> QED BY <3>1, <3>2, <3>3 DEF Yielded
  <2> QED BY <1>1, <1>4, <2>1, <2>2
<1> QED BY <1>1, <1>2, <1>3, <1>4, <1>5, <1>6 DEF QueueInv

(* The body of a loop iteration changes neither queue nor lineage.         *)
LEMMA BodyKeepsLoop ==
  ASSUME TypeOK, LoopInv, pc \in Body, UNCHANGED <<iterPos, queue, cur, model, resumes>>,
         outcome' = "running", pc' \in Body
  PROVE  LoopInv'
<1>1. Yielded' = Yielded /\ InTraining' = InTraining
  BY DEF Yielded, InTraining, Body
<1>2. QueueInv /\ ModelInv /\ pc # "next" /\ pc # "train"
  BY DEF LoopInv, Body
<1>3. QueueInv'
  BY <1>1, <1>2 DEF QueueInv, Body
<1>4. ModelInv'
  BY <1>1, <1>2 DEF ModelInv, Body
<1> QED BY <1>3, <1>4 DEF LoopInv, ModelInv

LEMMA StoppingKeepsLoop ==
  ASSUME LoopInv, pc' = "stopped", UNCHANGED model
  PROVE  LoopInv'
  BY DEF LoopInv, Increasing

LEMMA NextBatchKeepsLoop ==
  ASSUME TypeOK, LoopInv, NextBatch
  PROVE  LoopInv'
<1>1. /\ queue \in Seq(Nat) /\ queue # <<>> /\ iterPos \in 0 .. NumBatches
      /\ model \in Seq(Nat) /\ BufferSize \in Nat \ {0} /\ NumBatches \in Nat
      /\ pc = "next" /\ QueueInv /\ ModelInv
  BY TrainAssumption DEF TypeOK, NextBatch, LoopInv
<1>2. /\ cur' = Head(queue) /\ queue' = Tail(queue) /\ pc' = "train"
      /\ UNCHANGED <<iterPos, model, resumes, outcome>>
  BY DEF NextBatch
<1>3. /\ Len(queue) \in Nat \ {0} /\ Len(queue') = Len(queue) - 1
      /\ queue' \in Seq(Nat) /\ cur' = queue[1]
      /\ \A i \in 1 .. Len(queue') : queue'[i] = queue[i + 1]
  BY <1>1, <1>2
<1>4. Yielded' = Yielded + 1 /\ InTraining = 0 /\ InTraining' = 1 /\ Yielded \in Int
  BY <1>1, <1>2, <1>3 DEF Yielded, InTraining
<1>5. cur' = Yielded
  BY <1>1, <1>3, <1>4 DEF QueueInv
<1>6. \A i \in 1 .. Len(queue') : queue'[i] = Yielded' + i - 1
  <2> TAKE i \in 1 .. Len(queue')
  <2>1. i + 1 \in 1 .. Len(queue) /\ queue'[i] = queue[i + 1]
    BY <1>3
  <2>2. queue[i + 1] = Yielded + (i + 1) - 1
    BY <1>1, <2>1 DEF QueueInv
  <2> QED BY <1>3, <1>4, <2>1, <2>2
<1>7. QueueInv'
  BY <1>1, <1>2, <1>3, <1>6 DEF QueueInv
<1>8. ModelInv'
  BY <1>1, <1>2, <1>4, <1>5 DEF ModelInv, Body
<1> QED BY <1>1, <1>2, <1>7, <1>8 DEF LoopInv, ModelInv

LEMMA TrainStepKeepsLoop ==
  ASSUME TypeOK, LoopInv, TrainStep
  PROVE  LoopInv'
<1>1. /\ queue \in Seq(Nat) /\ iterPos \in 0 .. NumBatches /\ cur \in Nat
      /\ model \in Seq(Nat) /\ BufferSize \in Nat \ {0} /\ NumBatches \in Nat
      /\ resumes \in Nat
      /\ pc = "train" /\ QueueInv /\ ModelInv /\ outcome = "running"
  BY TrainAssumption DEF TypeOK, TrainStep, LoopInv
<1>2. Yielded \in Int /\ InTraining = 1 /\ cur = Yielded - 1 /\ InTraining' = 0
  BY <1>1 DEF Yielded, InTraining, ModelInv, TrainStep, NextIteration
<1>3. \A i \in 1 .. Len(model) : model[i] < cur
  BY <1>1, <1>2 DEF ModelInv
<1>4. /\ model' \in Seq(Nat) /\ Increasing(model') /\ Len(model') = Len(model) + 1
      /\ \A i \in 1 .. Len(model') : model'[i] <= cur
      /\ LastOf(model') = cur /\ model' # <<>>
  BY <1>1, <1>3, IncreasingAppend DEF TrainStep, ModelInv
<1>5. UNCHANGED <<resumes, cur, outcome>>
  BY DEF TrainStep
<1>6. \A i \in 1 .. Len(model') : model'[i] < Yielded
  <2> TAKE i \in 1 .. Len(model')
  <2>1. model'[i] \in Nat /\ model'[i] <= cur
    BY <1>4
  <2> QED BY <1>2, <2>1
<1>7. Yielded - Len(model') <= resumes * (BufferSize - 1)
  <2>1. Yielded - 1 - Len(model) <= resumes * (BufferSize - 1)
    BY <1>1, <1>2 DEF ModelInv
  <2> DEFINE bound == resumes * (BufferSize - 1)
  <2>2. bound \in Int
    BY <1>1
  <2> HIDE DEF bound
  <2>3. Yielded - Len(model') = Yielded - 1 - Len(model)
    BY <1>1, <1>2, <1>4
  <2> QED BY <2>1, <2>3
<1>8. Yielded' = Yielded /\ QueueInv' /\ (pc' = "next" \/ pc' = "epoch_end")
  <2>1. CASE EndsEpoch
    <3>1. UNCHANGED <<iterPos, queue>> /\ pc' = "epoch_end"
      BY <2>1 DEF TrainStep
    <3> QED BY <1>1, <3>1 DEF QueueInv, Yielded
  <2>2. CASE ~EndsEpoch
    <3>1. NextIteration
      BY <2>2 DEF TrainStep
    <3> QED BY <1>1, <3>1, RefillQueue DEF QueueInv, NextIteration
  <2> QED BY <2>1, <2>2
<1>9. ModelInv'
  <2>1. Yielded' - InTraining' = Yielded
    BY <1>2, <1>8
  <2>2. Yielded <= LastOf(model') + BufferSize
    BY <1>1, <1>2, <1>4
  <2>3. pc' # "train"
    BY <1>8
  <2>4. LastOf(model') = Yielded' - 1
    BY <1>2, <1>4, <1>8
  <2> QED BY <1>4, <1>5, <1>6, <1>7, <2>1, <2>2, <2>3, <2>4 DEF ModelInv
<1> QED BY <1>1, <1>4, <1>5, <1>8, <1>9 DEF LoopInv

LEMMA LogMetricsKeepsLoop ==
  ASSUME TypeOK, LoopInv, LogMetrics
  PROVE  LoopInv'
<1>1. /\ pc = "check_stop" /\ QueueInv /\ ModelInv /\ outcome = "running"
      /\ UNCHANGED <<model, resumes, cur, outcome>> /\ NextIteration
  BY DEF LogMetrics, LoopInv
<1>2. QueueInv' /\ Yielded' = Yielded /\ pc' = "next"
  BY <1>1, RefillQueue DEF QueueInv, NextIteration
<1>3. InTraining = 0 /\ InTraining' = 0
  BY <1>1, <1>2 DEF InTraining
<1>4. ModelInv'
  BY <1>1, <1>2, <1>3 DEF ModelInv, Body
<1> QED BY <1>1, <1>2, <1>4 DEF LoopInv, ModelInv

LEMMA ResumeKeepsLoop ==
  ASSUME TypeOK, LoopInv, DiskInv, Resume
  PROVE  LoopInv'
<1> DEFINE c == NewestOf(latest)
<1>1. /\ c \in Checkpoint /\ c.iterPos \in 0 .. NumBatches
      /\ c.globalStep \div GlobalBatch \in Nat
      /\ c.model \in Seq(Nat) /\ c.resumes + 1 \in Nat
  BY ResumeTypes DEF Resume
<1>2. CheckpointInv(c)
  <2>1. Len(latest) \in 1 .. Len(latest)
    BY DEF Resume, TypeOK
  <2> QED BY <2>1 DEF DiskInv, NewestOf
<1>3. StartSession(c.iterPos, c.globalStep \div GlobalBatch, c.model, c.resumes + 1, 0)
  BY DEF Resume
<1>4. /\ Increasing(c.model) /\ \A i \in 1 .. Len(c.model) : c.model[i] < c.iterPos
      /\ c.iterPos - Len(c.model) <= (c.resumes + 1) * (BufferSize - 1)
      /\ c.iterPos <= LastOf(c.model) + BufferSize
  BY <1>2 DEF CheckpointInv
<1> HIDE DEF c
<1> QED BY <1>1, <1>3, <1>4, StartLoop

LEMMA LaunchKeepsLoop ==
  ASSUME TypeOK, Launch
  PROVE  LoopInv'
<1>1. /\ 0 \in 0 .. NumBatches /\ <<>> \in Seq(Nat) /\ WantedChecks \in Nat
      /\ BufferSize \in Nat \ {0} /\ Len(<<>>) = 0 /\ LastOf(<<>>) = -1
  BY TrainAssumption DEF WantedChecks, LastOf
<1>2. Increasing(<<>>)
  BY DEF Increasing
<1>3. 0 - Len(<<>>) <= 0 * (BufferSize - 1) /\ 0 <= LastOf(<<>>) + BufferSize
  BY <1>1
<1>4. \A i \in 1 .. Len(<<>>) : <<>>[i] < 0
  OBVIOUS
<1>5. StartSession(0, 0, <<>>, 0, WantedChecks)
  BY DEF Launch
<1> QED BY <1>1, <1>2, <1>3, <1>4, <1>5, StartLoop

LEMMA LoopStep ==
  ASSUME TypeOK, LoopInv, DiskInv, [Next]_vars
  PROVE  LoopInv'
<1>1. CASE Launch
  BY <1>1, LaunchKeepsLoop
<1>2. CASE Resume
  BY <1>2, ResumeKeepsLoop
<1>3. CASE NextBatch
  BY <1>3, NextBatchKeepsLoop
<1>4. CASE Exhausted
  BY <1>4, StoppingKeepsLoop DEF Exhausted, loopVars
<1>5. CASE TrainStep
  BY <1>5, TrainStepKeepsLoop
<1>6. CASE EpochValidation
  BY <1>6, BodyKeepsLoop DEF EpochValidation, Body, Locations, LoopInv
<1>7. CASE SaveLatest
  BY <1>7, BodyKeepsLoop DEF SaveLatest, loopVars, Body, Locations, LoopInv
<1>8. CASE AssertCheckpointsRestore
  <2>1. CASE RestoredModelAgrees
    BY <1>8, <2>1, BodyKeepsLoop
       DEF AssertCheckpointsRestore, loopVars, Body, Locations, LoopInv
  <2>2. CASE ~RestoredModelAgrees
    BY <1>8, <2>2, StoppingKeepsLoop DEF AssertCheckpointsRestore, loopVars
  <2> QED BY <2>1, <2>2
<1>9. CASE UpdateBest
  BY <1>9, BodyKeepsLoop DEF UpdateBest, loopVars, Body, Locations, LoopInv
<1>10. CASE SaveBest
  BY <1>10, BodyKeepsLoop DEF SaveBest, loopVars, Body, Locations, LoopInv
<1>11. CASE EarlyStop
  BY <1>11, StoppingKeepsLoop DEF EarlyStop, loopVars
<1>12. CASE LogMetrics
  BY <1>12, LogMetricsKeepsLoop
<1>13. CASE Crash
  BY <1>13, StoppingKeepsLoop DEF Crash, loopVars
<1>14. CASE UNCHANGED vars
  <2>1. CASE pc = "stopped"
    BY <1>14, <2>1, StoppingKeepsLoop DEF vars, loopVars
  <2>2. CASE pc # "stopped"
    BY <1>14, <2>2 DEF vars, loopVars, LoopInv, QueueInv, ModelInv, Yielded,
         InTraining, Body, Increasing
  <2> QED BY <2>1, <2>2
<1> QED BY <1>1, <1>2, <1>3, <1>4, <1>5, <1>6, <1>7, <1>8, <1>9, <1>10,
           <1>11, <1>12, <1>13, <1>14 DEF Next, Step
-----------------------------------------------------------------------------
(* What is on disk.                                                        *)

(* A save keeps old checkpoints and may add the new one, nothing else.     *)
LEMMA OrbaxSaveElements ==
  ASSUME NEW S, NEW kept \in Seq(S), NEW c \in S, NEW n \in Nat \ {0}
  PROVE  LET k == OrbaxSave(kept, c, n)
         IN  \A i \in 1 .. Len(k) :
               k[i] = c \/ \E j \in 1 .. Len(kept) : k[i] = kept[j]
<1>1. CASE kept # <<>> /\ NewestOf(kept).epoch >= c.epoch
  BY <1>1 DEF OrbaxSave
<1>2. CASE ~(kept # <<>> /\ NewestOf(kept).epoch >= c.epoch) /\ Len(kept) < n
  BY <1>2 DEF OrbaxSave
<1>3. CASE ~(kept # <<>> /\ NewestOf(kept).epoch >= c.epoch) /\ ~(Len(kept) < n)
  <2>1. OrbaxSave(kept, c, n) = Append(Tail(kept), c)
    BY <1>3 DEF OrbaxSave
  <2>2. kept # <<>> /\ Tail(kept) \in Seq(S) /\ Len(Tail(kept)) = Len(kept) - 1
        /\ \A i \in 1 .. Len(Tail(kept)) : Tail(kept)[i] = kept[i + 1]
    BY <1>3
  <2> DEFINE t == Tail(kept)
  <2> HIDE DEF t
  <2>3. Len(Append(t, c)) = Len(t) + 1 /\ Append(t, c)[Len(t) + 1] = c
        /\ \A i \in 1 .. Len(t) : Append(t, c)[i] = t[i]
    BY <2>2 DEF t
  <2>4. ASSUME NEW i \in 1 .. Len(Append(t, c))
        PROVE  Append(t, c)[i] = c \/ \E j \in 1 .. Len(kept) : Append(t, c)[i] = kept[j]
    <3>1. CASE i = Len(t) + 1
      BY <2>3, <3>1
    <3>2. CASE i # Len(t) + 1
      <4> DEFINE l == Len(t)
      <4>0. l \in Nat /\ Len(kept) = l + 1 /\ i \in 1 .. l + 1
        BY <2>2, <2>3 DEF t
      <4> HIDE DEF l
      <4>1. i \in 1 .. l /\ i + 1 \in 1 .. Len(kept)
        BY <4>0, <3>2 DEF l
      <4> USE DEF l
      <4>2. Append(t, c)[i] = kept[i + 1]
        BY <2>2, <2>3, <4>1 DEF t
      <4> QED BY <4>1, <4>2
    <3> QED BY <3>1, <3>2
  <2> QED BY <2>1, <2>4 DEF t
<1> QED BY <1>1, <1>2, <1>3

(* A checkpoint taken inside the body misses the deque of staged batches at *)
(* most, on top of what earlier resumes missed.                             *)
LEMMA SnapshotKeepsPromise ==
  ASSUME TypeOK, LoopInv, pc \in {"save_latest", "save_best"}
  PROVE  CheckpointInv(Snapshot)
<1>1. /\ queue \in Seq(Nat) /\ Len(queue) \in Nat /\ iterPos \in 0 .. NumBatches
      /\ NumBatches \in Nat /\ model \in Seq(Nat) /\ Len(model) \in Nat
      /\ resumes \in Nat /\ BufferSize \in Nat \ {0} /\ BatchIdx \in Nat
      /\ QueueInv /\ ModelInv /\ InTraining = 0
  BY TrainAssumption, SnapshotType DEF TypeOK, LoopInv, InTraining
<1>2. /\ Len(queue) <= BufferSize - 1 /\ Len(queue) <= iterPos
      /\ model # <<>> /\ LastOf(model) = Yielded - 1 /\ Increasing(model)
  BY <1>1 DEF QueueInv, ModelInv, Body, Locations
<1>3. \A i \in 1 .. Len(model) : model[i] < iterPos
  <2> TAKE i \in 1 .. Len(model)
  <2>1. model[i] \in Nat /\ model[i] < Yielded
    BY <1>1 DEF ModelInv, Yielded
  <2> QED BY <1>1, <2>1 DEF Yielded
<1>4. iterPos - Len(model) <= (resumes + 1) * (BufferSize - 1)
  <2> DEFINE skipped == resumes * (BufferSize - 1)
  <2>1. skipped \in Int /\ (resumes + 1) * (BufferSize - 1) = skipped + (BufferSize - 1)
    BY <1>1
  <2>2. Yielded - Len(model) <= skipped
    BY <1>1 DEF ModelInv, Yielded
  <2> HIDE DEF skipped
  <2> QED BY <1>1, <1>2, <2>1, <2>2 DEF Yielded
<1>5. iterPos <= LastOf(model) + BufferSize
  BY <1>1, <1>2 DEF Yielded
<1>6. ((BatchIdx * GlobalBatch) \div GlobalBatch) \div StepsPerEpoch = Epoch
  BY <1>1, StepOfBatch, TrainAssumption DEF Epoch
<1> QED BY <1>2, <1>3, <1>4, <1>5, <1>6 DEF CheckpointInv, Snapshot

LEMMA SavingKeepsDisk ==
  ASSUME TypeOK, NEW kept \in Seq(Checkpoint), NEW c \in Checkpoint, NEW n \in Nat \ {0},
         \A i \in 1 .. Len(kept) : CheckpointInv(kept[i]), CheckpointInv(c)
  PROVE  LET k == OrbaxSave(kept, c, n) IN \A i \in 1 .. Len(k) : CheckpointInv(k[i])
<1> DEFINE k == OrbaxSave(kept, c, n)
<1>1. \A i \in 1 .. Len(k) : k[i] = c \/ \E j \in 1 .. Len(kept) : k[i] = kept[j]
  BY OrbaxSaveElements
<1> HIDE DEF k
<1>2. \A i \in 1 .. Len(k) : CheckpointInv(k[i])
  BY <1>1
<1> QED BY <1>2 DEF k

LEMMA DiskStep ==
  ASSUME TypeOK, LoopInv, DiskInv, [Next]_vars
  PROVE  DiskInv'
<1>1. CASE SaveLatest
  <2>1. CheckpointInv(Snapshot) /\ Snapshot \in Checkpoint
    BY <1>1, SnapshotKeepsPromise, SnapshotType DEF SaveLatest
  <2>2. \A i \in 1 .. Len(latest') : CheckpointInv(latest'[i])
    BY <1>1, <2>1, SavingKeepsDisk, TrainAssumption DEF SaveLatest, DiskInv, TypeOK
  <2> QED BY <1>1, <2>2 DEF SaveLatest, DiskInv, CheckpointInv, Increasing
<1>2. CASE SaveBest
  <2>1. CheckpointInv(Snapshot) /\ Snapshot \in Checkpoint
    BY <1>2, SnapshotKeepsPromise, SnapshotType DEF SaveBest
  <2>2. \A i \in 1 .. Len(bestCkpt') : CheckpointInv(bestCkpt'[i])
    BY <1>2, <2>1, SavingKeepsDisk, TrainAssumption DEF SaveBest, DiskInv, TypeOK
  <2> QED BY <1>2, <2>2 DEF SaveBest, DiskInv, CheckpointInv, Increasing
<1>3. CASE UNCHANGED <<latest, bestCkpt>>
  BY <1>3 DEF DiskInv
<1> QED BY <1>1, <1>2, <1>3 DEF Next, Step, Launch, Resume, StartSession, NextBatch,
        Exhausted, TrainStep, EpochValidation, AssertCheckpointsRestore, UpdateBest,
        EarlyStop, LogMetrics, Crash, vars, diskVars
-----------------------------------------------------------------------------
(* Epochs: the one under way and those on disk.                            *)

Successive(kept) == \A i \in 1 .. Len(kept) - 1 : kept[i + 1].epoch = kept[i].epoch + 1

LEMMA CheckpointEpoch ==
  ASSUME NEW c \in Checkpoint
  PROVE  c.epoch \in Nat
  BY DEF Checkpoint

(* A save leaves the later of the old newest step and the new one newest.  *)
LEMMA OrbaxSaveNewest ==
  ASSUME NEW kept \in Seq(Checkpoint), NEW c \in Checkpoint, NEW n \in Nat \ {0}
  PROVE  LET k == OrbaxSave(kept, c, n)
         IN  /\ k # <<>> /\ c.epoch <= NewestOf(k).epoch
             /\ kept # <<>> => NewestOf(kept).epoch <= NewestOf(k).epoch
             /\ NewestOf(k).epoch \in Nat
             /\ NewestOf(k) = c \/ (kept # <<>> /\ NewestOf(k) = NewestOf(kept))
<1>1. c.epoch \in Nat /\ \A i \in 1 .. Len(kept) : kept[i].epoch \in Nat
  BY CheckpointEpoch
<1>2. kept # <<>> => Len(kept) \in 1 .. Len(kept)
  OBVIOUS
<1>3. CASE kept # <<>> /\ NewestOf(kept).epoch >= c.epoch
  BY <1>1, <1>2, <1>3 DEF OrbaxSave, NewestOf
<1>4. CASE ~(kept # <<>> /\ NewestOf(kept).epoch >= c.epoch)
  <2>1. PICK t \in Seq(Checkpoint) : OrbaxSave(kept, c, n) = Append(t, c)
    <3>1. CASE Len(kept) < n
      BY <1>4, <3>1 DEF OrbaxSave
    <3>2. CASE ~(Len(kept) < n)
      <4>1. Tail(kept) \in Seq(Checkpoint)
        BY <3>2
      <4> QED BY <1>4, <3>2, <4>1 DEF OrbaxSave
    <3> QED BY <3>1, <3>2
  <2>2. OrbaxSave(kept, c, n) # <<>> /\ NewestOf(OrbaxSave(kept, c, n)) = c
    BY <2>1 DEF NewestOf
  <2>3. kept # <<>> => NewestOf(kept).epoch <= c.epoch
    BY <1>1, <1>2, <1>4 DEF NewestOf
  <2> QED BY <1>1, <2>2, <2>3
<1> QED BY <1>3, <1>4

(* Saving at most one epoch past the newest keeps the steps successive.    *)
LEMMA OrbaxSaveSuccessive ==
  ASSUME NEW kept \in Seq(Checkpoint), NEW c \in Checkpoint, NEW n \in Nat \ {0},
         Successive(kept), kept # <<>> => c.epoch <= NewestOf(kept).epoch + 1
  PROVE  Successive(OrbaxSave(kept, c, n))
<1>1. c.epoch \in Nat /\ \A i \in 1 .. Len(kept) : kept[i].epoch \in Nat
  BY CheckpointEpoch
<1>2. CASE kept # <<>> /\ NewestOf(kept).epoch >= c.epoch
  BY <1>2 DEF OrbaxSave
<1>3. CASE ~(kept # <<>> /\ NewestOf(kept).epoch >= c.epoch)
  <2>1. ASSUME NEW t \in Seq(Checkpoint), Successive(t),
               t # <<>> => c.epoch = t[Len(t)].epoch + 1
        PROVE  Successive(Append(t, c))
    <3>1. /\ Len(Append(t, c)) = Len(t) + 1 /\ Append(t, c)[Len(t) + 1] = c
          /\ \A i \in 1 .. Len(t) : Append(t, c)[i] = t[i]
          /\ Len(t) \in Nat
      BY <2>1
    <3>2. ASSUME NEW i \in 1 .. Len(t) + 1 - 1
          PROVE  Append(t, c)[i + 1].epoch = Append(t, c)[i].epoch + 1
      <4>1. CASE i = Len(t)
        BY <2>1, <3>1, <3>2, <4>1
      <4>2. CASE i # Len(t)
        <5> DEFINE l == Len(t)
        <5>1. l \in Nat /\ i \in 1 .. l + 1 - 1 /\ i # l
          BY <3>1, <3>2, <4>2
        <5> HIDE DEF l
        <5>2. i \in 1 .. l /\ i + 1 \in 1 .. l /\ i \in 1 .. l - 1
          BY <5>1
        <5>3. t[i + 1].epoch = t[i].epoch + 1
          BY <2>1, <5>2 DEF Successive, l
        <5>4. Append(t, c)[i + 1] = t[i + 1] /\ Append(t, c)[i] = t[i]
          BY <3>1, <5>2 DEF l
        <5> QED BY <5>3, <5>4
      <4> QED BY <4>1, <4>2
    <3> HIDE DEF Successive
    <3> QED BY <3>1, <3>2 DEF Successive
  <2>2. kept # <<>> => c.epoch = kept[Len(kept)].epoch + 1
    <3>1. kept # <<>> => Len(kept) \in 1 .. Len(kept)
      OBVIOUS
    <3> QED BY <1>1, <1>3, <3>1 DEF NewestOf
  <2>3. CASE Len(kept) < n
    BY <1>3, <2>1, <2>2, <2>3 DEF OrbaxSave
  <2>4. CASE ~(Len(kept) < n)
    <3>1. /\ kept # <<>> /\ Tail(kept) \in Seq(Checkpoint)
          /\ Len(Tail(kept)) = Len(kept) - 1 /\ Len(kept) \in Nat \ {0}
          /\ \A i \in 1 .. Len(Tail(kept)) : Tail(kept)[i] = kept[i + 1]
      BY <2>4
    <3> DEFINE t == Tail(kept)
               l == Len(kept)
    <3>2. l \in Nat \ {0} /\ Len(t) = l - 1 /\ \A i \in 1 .. l - 1 : t[i] = kept[i + 1]
      BY <3>1
    <3>3. Successive(t)
      <4>1. \A i \in 1 .. l - 1 : kept[i + 1].epoch = kept[i].epoch + 1
        BY DEF Successive
      <4> HIDE DEF t, l
      <4>2. ASSUME NEW i \in 1 .. Len(t) - 1 PROVE t[i + 1].epoch = t[i].epoch + 1
        <5>1. i \in 1 .. l - 1 /\ i + 1 \in 1 .. l - 1
          BY <3>2, <4>2
        <5> QED BY <3>2, <4>1, <5>1
      <4> QED BY <4>2 DEF Successive
    <3>4. t # <<>> => c.epoch = t[Len(t)].epoch + 1
      <4>1. t # <<>> => Len(t) # 0
        BY <3>1
      <4>2. kept # <<>>
        BY <3>1
      <4>3. c.epoch = kept[l].epoch + 1
        BY <2>2, <4>2
      <4> HIDE DEF t, l
      <4>4. Len(t) # 0 => t[l - 1] = kept[l - 1 + 1] /\ l - 1 + 1 = l
        BY <3>2
      <4> QED BY <3>2, <4>1, <4>3, <4>4
    <3> QED BY <1>3, <2>1, <2>4, <3>1, <3>3, <3>4 DEF OrbaxSave
  <2> QED BY <2>3, <2>4
<1> QED BY <1>2, <1>3
(* Steps that leave the disk, and the number of the batch, as they are.    *)
LEMMA SameEpochKeepsEpochs ==
  ASSUME EpochPart, UNCHANGED <<latest, bestCkpt, startIdx, loopIdx>>,
         \/ pc' = "stopped"
         \/ /\ pc \in {"next", "train", "epoch_end", "save_latest"}
            /\ pc' \in {"next", "train", "epoch_end", "save_latest"}
         \/ /\ pc \in {"validate", "update_best", "save_best", "check_stop"}
            /\ pc' \in {"validate", "update_best", "save_best", "check_stop"}
         \/ ~SaveCheckpoints,
         pc' \in {"validate", "save_latest", "save_best"} => SaveCheckpoints
  PROVE  EpochPart'
<1>1. Epoch' = Epoch
  BY DEF Epoch, BatchIdx
<1> QED BY <1>1 DEF EpochPart, EpochInv, CheckpointsInStep

LEMMA NewestLatest ==
  ASSUME TypeOK, latest # <<>>
  PROVE  NewestOf(latest) \in Checkpoint /\ NewestOf(latest).epoch \in Nat
<1>1. NewestOf(latest) \in Checkpoint
  BY DEF TypeOK, NewestOf
<1> QED BY <1>1, CheckpointEpoch

LEMMA StartKeepsEpochs ==
  ASSUME TypeOK, EpochPart, NEW pos, NEW start \in Nat, NEW weights, NEW n, NEW check,
         StartSession(pos, start, weights, n, check),
         IF latest = <<>> THEN start \div StepsPerEpoch = 0
         ELSE start \div StepsPerEpoch <= NewestOf(latest).epoch + 1
  PROVE  EpochPart'
<1>1. startIdx' = start /\ loopIdx' = 0 /\ pc' = "next" /\ UNCHANGED <<latest, bestCkpt>>
  BY DEF StartSession, diskVars
<1>2. BatchIdx' = start
  BY <1>1 DEF BatchIdx
<1>3. Epoch' = start \div StepsPerEpoch
  BY <1>2 DEF Epoch
<1> QED BY <1>1, <1>3 DEF EpochPart, EpochInv, CheckpointsInStep

(* The step to the next batch enters the next epoch after its last batch.  *)
LEMMA NextIterationEpoch ==
  ASSUME TypeOK, NextIteration, UNCHANGED startIdx
  PROVE  /\ Epoch \in Nat /\ Epoch' \in Nat /\ Epoch' <= Epoch + 1
         /\ ~EndsEpoch => Epoch' = Epoch
<1>1. BatchIdx \in Nat /\ BatchIdx' = BatchIdx + 1
  BY DEF TypeOK, NextIteration, BatchIdx
<1>2. Epoch' = (BatchIdx + 1) \div StepsPerEpoch
  BY <1>1 DEF Epoch
<1> DEFINE b == BatchIdx
<1>3. b \in Nat
  BY <1>1
<1> HIDE DEF b
<1>4. /\ b \div StepsPerEpoch \in Nat /\ (b + 1) \div StepsPerEpoch \in Nat
      /\ (b + 1) \div StepsPerEpoch <= (b \div StepsPerEpoch) + 1
      /\ (b + 1) % StepsPerEpoch # 0 => (b + 1) \div StepsPerEpoch = b \div StepsPerEpoch
  <2>1. b + 1 \in Nat
    BY <1>3
  <2> QED BY <1>3, <2>1, EpochOfBatch, TrainAssumption
<1> QED BY <1>2, <1>4 DEF Epoch, EndsEpoch, b

LEMMA EpochStep ==
  ASSUME TypeOK, DiskInv, EpochPart, [Next]_vars
  PROVE  EpochPart'
<1>1. CASE Launch
  <2>1. 0 \div StepsPerEpoch = 0
    BY TrainAssumption
  <2>2. StartSession(0, 0, <<>>, 0, WantedChecks)
    BY <1>1 DEF Launch
  <2> QED BY <2>1, <2>2, StartKeepsEpochs, NewestLatest
<1>2. CASE Resume
  <2> DEFINE c == NewestOf(latest)
             start == c.globalStep \div GlobalBatch
  <2>1. latest # <<>> /\ start \in Nat
    BY <1>2, ResumeTypes DEF Resume
  <2>2. start \div StepsPerEpoch = c.epoch
    <3>1. Len(latest) \in 1 .. Len(latest)
      BY <2>1 DEF TypeOK
    <3> QED BY <3>1 DEF DiskInv, NewestOf, CheckpointInv
  <2>3. c.epoch \in Nat
    BY <2>1, NewestLatest
  <2>4. StartSession(c.iterPos, start, c.model, c.resumes + 1, 0)
    BY <1>2 DEF Resume
  <2> DEFINE pos == c.iterPos
             weights == c.model
             n == c.resumes + 1
  <2>5. start \div StepsPerEpoch <= NewestOf(latest).epoch + 1
    BY <2>2, <2>3
  <2>6. StartSession(pos, start, weights, n, 0)
    BY <2>4
  <2> HIDE DEF start, pos, weights, n
  <2> QED BY <2>1, <2>5, <2>6, StartKeepsEpochs
<1>3. CASE NextBatch
  BY <1>3, SameEpochKeepsEpochs DEF NextBatch, diskVars
<1>4. CASE Exhausted
  BY <1>4, SameEpochKeepsEpochs DEF Exhausted, loopVars, diskVars
<1>5. CASE TrainStep
  <2>1. CASE EndsEpoch
    BY <1>5, <2>1, SameEpochKeepsEpochs DEF TrainStep, diskVars
  <2>2. CASE ~EndsEpoch
    <3>1. NextIteration /\ pc = "train" /\ pc' = "next"
          /\ UNCHANGED <<startIdx, latest, bestCkpt>>
      BY <1>5, <2>2 DEF TrainStep, NextIteration, diskVars
    <3>2. Epoch' = Epoch
      BY <2>2, <3>1, NextIterationEpoch
    <3> QED BY <3>1, <3>2 DEF EpochPart, EpochInv, CheckpointsInStep
  <2> QED BY <2>1, <2>2
<1>6. CASE EpochValidation
  BY <1>6, SameEpochKeepsEpochs, TrainAssumption DEF EpochValidation, diskVars
<1>7. CASE SaveLatest
  <2>1. /\ Snapshot \in Checkpoint /\ Snapshot.epoch = Epoch /\ Epoch \in Nat
        /\ latest \in Seq(Checkpoint) /\ KeepLatest \in Nat \ {0}
    BY SnapshotType, TrainAssumption DEF TypeOK, Snapshot
  <2>2. /\ latest' = OrbaxSave(latest, Snapshot, KeepLatest)
        /\ UNCHANGED <<startIdx, loopIdx, bestCkpt>> /\ pc = "save_latest"
        /\ pc' \in {"validate", "update_best"}
    BY <1>7 DEF SaveLatest, loopVars
  <2>3. /\ latest' # <<>> /\ Epoch <= NewestOf(latest').epoch
        /\ latest # <<>> => NewestOf(latest).epoch <= NewestOf(latest').epoch
        /\ NewestOf(latest').epoch \in Nat
    BY <2>1, <2>2, OrbaxSaveNewest
  <2>4. Successive(latest')
    <3>1. SaveCheckpoints
      BY <2>2 DEF EpochPart, EpochInv
    <3>2. latest # <<>> => Epoch <= NewestOf(latest).epoch + 1
      BY <2>2, <3>1 DEF EpochPart, EpochInv
    <3>3. Successive(latest)
      BY DEF EpochPart, CheckpointsInStep, Successive
    <3> QED BY <2>1, <2>2, <3>2, <3>3, OrbaxSaveSuccessive
  <2>5. bestCkpt # <<>> => NewestOf(bestCkpt).epoch <= NewestOf(latest').epoch
    <3>1. bestCkpt # <<>> => NewestOf(bestCkpt).epoch \in Nat
      <4>1. bestCkpt # <<>> => NewestOf(bestCkpt) \in Checkpoint
        BY DEF TypeOK, NewestOf
      <4> QED BY <4>1, CheckpointEpoch
    <3>2. bestCkpt # <<>> => latest # <<>> /\ NewestOf(bestCkpt).epoch <= NewestOf(latest).epoch
      BY DEF EpochPart, CheckpointsInStep
    <3>3. latest # <<>> => NewestOf(latest).epoch \in Nat
      BY NewestLatest
    <3> QED BY <2>3, <3>1, <3>2, <3>3
  <2>6. Epoch' = Epoch
    BY <2>2 DEF Epoch, BatchIdx
  <2>7. EpochInv'
    BY <2>2, <2>3, <2>6 DEF EpochPart, EpochInv
  <2>8. CheckpointsInStep'
    BY <2>2, <2>3, <2>4, <2>5 DEF CheckpointsInStep, Successive, NewestOf
  <2> QED BY <2>7, <2>8 DEF EpochPart
<1>8. CASE AssertCheckpointsRestore
  BY <1>8, SameEpochKeepsEpochs DEF AssertCheckpointsRestore, loopVars, diskVars
<1>9. CASE UpdateBest
  BY <1>9, SameEpochKeepsEpochs DEF UpdateBest, loopVars, diskVars
<1>10. CASE SaveBest
  <2>1. /\ Snapshot \in Checkpoint /\ Snapshot.epoch = Epoch /\ Epoch \in Nat
        /\ bestCkpt \in Seq(Checkpoint) /\ KeepBest \in Nat \ {0}
    BY SnapshotType, TrainAssumption DEF TypeOK, Snapshot
  <2>2. /\ bestCkpt' = OrbaxSave(bestCkpt, Snapshot, KeepBest)
        /\ UNCHANGED <<startIdx, loopIdx, latest>> /\ pc = "save_best"
        /\ pc' = "check_stop"
    BY <1>10 DEF SaveBest, loopVars
  <2>3. SaveCheckpoints /\ latest # <<>> /\ Epoch <= NewestOf(latest).epoch
    BY <2>2 DEF EpochPart, EpochInv
  <2>4. NewestOf(bestCkpt') = Snapshot \/ (bestCkpt # <<>> /\ NewestOf(bestCkpt') = NewestOf(bestCkpt))
    BY <2>1, <2>2, OrbaxSaveNewest
  <2>5. NewestOf(bestCkpt').epoch <= NewestOf(latest).epoch
    BY <2>1, <2>3, <2>4 DEF EpochPart, CheckpointsInStep
  <2>6. Epoch' = Epoch
    BY <2>2 DEF Epoch, BatchIdx
  <2> QED BY <2>2, <2>3, <2>5, <2>6 DEF EpochPart, EpochInv, CheckpointsInStep, NewestOf
<1>11. CASE EarlyStop
  BY <1>11, SameEpochKeepsEpochs DEF EarlyStop, loopVars, diskVars
<1>12. CASE LogMetrics
  <2>1. NextIteration /\ pc = "check_stop" /\ pc' = "next"
        /\ UNCHANGED <<startIdx, latest, bestCkpt>>
    BY <1>12 DEF LogMetrics, NextIteration, diskVars
  <2>2. Epoch \in Nat /\ Epoch' \in Nat /\ Epoch' <= Epoch + 1
    BY <2>1, NextIterationEpoch
  <2>3. SaveCheckpoints => latest # <<>> /\ Epoch <= NewestOf(latest).epoch
    BY <2>1 DEF EpochPart, EpochInv
  <2>4. SaveCheckpoints => Epoch' <= NewestOf(latest).epoch + 1
    BY <2>2, <2>3, NewestLatest
  <2>5. EpochInv'
    BY <2>1, <2>3, <2>4 DEF EpochPart, EpochInv
  <2> QED BY <2>1, <2>5 DEF EpochPart, CheckpointsInStep
<1>13. CASE Crash
  BY <1>13, SameEpochKeepsEpochs DEF Crash, loopVars, diskVars
<1>14. CASE UNCHANGED vars
  BY <1>14 DEF vars, loopVars, diskVars, EpochPart, EpochInv, CheckpointsInStep,
       Epoch, BatchIdx
<1> QED BY <1>1, <1>2, <1>3, <1>4, <1>5, <1>6, <1>7, <1>8, <1>9, <1>10,
           <1>11, <1>12, <1>13, <1>14 DEF Next, Step
-----------------------------------------------------------------------------
(* The theorems.                                                           *)

LEMMA LossStep ==
  ASSUME TypeOK, LoopInv, BoundedLoss, [Next]_vars
  PROVE  BoundedLoss'
<1>1. CASE Exhausted
  <2>1. /\ iterPos = NumBatches /\ Len(queue) = 0 /\ InTraining = 0
        /\ Yielded - InTraining - Len(model) <= resumes * (BufferSize - 1)
    BY <1>1, TrainAssumption DEF Exhausted, LoopInv, QueueInv, ModelInv, InTraining
  <2>2. NumBatches - Len(model) <= resumes * (BufferSize - 1)
    BY <2>1, TrainAssumption DEF Yielded
  <2> QED BY <1>1, <2>2 DEF BoundedLoss, Exhausted, loopVars
<1>2. CASE UNCHANGED <<outcome, model, resumes>>
  BY <1>2 DEF BoundedLoss
<1>3. CASE outcome' # "exhausted"
  BY <1>3 DEF BoundedLoss
<1>4. CASE TrainStep
  BY <1>4 DEF TrainStep, LoopInv, BoundedLoss
<1> QED BY <1>1, <1>2, <1>3, <1>4 DEF Next, Step, Launch, Resume, StartSession,
        NextBatch, EpochValidation, SaveLatest, AssertCheckpointsRestore, UpdateBest,
        SaveBest, EarlyStop, LogMetrics, Crash, vars, loopVars

(* The inductive invariant holds in every reachable state.                 *)
THEOREM InductiveInvariant == Spec => []IInv
<1>1. Init => IInv
  <2> SUFFICES ASSUME Init PROVE IInv
    OBVIOUS
  <2>1. TypeOK
    BY TrainAssumption DEF Init, TypeOK, Locations
  <2>2. LoopInv /\ DiskInv /\ EpochPart /\ BoundedLoss
    BY DEF Init, LoopInv, Increasing, DiskInv, EpochPart, EpochInv,
           CheckpointsInStep, BoundedLoss
  <2> QED BY <2>1, <2>2 DEF IInv
<1>2. IInv /\ TypeOK' /\ [Next]_vars => IInv'
  BY LoopStep, DiskStep, EpochStep, LossStep DEF IInv
<1> QED BY <1>1, <1>2, TypeCorrect, PTL DEF Spec

(* For any stream, epoch and buffer length and any sequence of crashes,     *)
(* relaunches and resumes, no batch is trained twice into the same weights. *)
THEOREM NeverTrainedTwice == Spec => []NoBatchTrainedTwice
<1>1. IInv => NoBatchTrainedTwice
  BY DEF IInv, LoopInv, DiskInv, CheckpointInv, NoBatchTrainedTwice
<1> QED BY <1>1, InductiveInvariant, PTL

(* A run that comes to its end lost at most BufferSize - 1 batches per      *)
(* resume to the prefetcher.                                                *)
THEOREM LossIsBounded == Spec => []BoundedLoss
<1>1. IInv => BoundedLoss
  BY DEF IInv
<1> QED BY <1>1, InductiveInvariant, PTL

(* The latest checkpoints are of successive epochs and none of the best     *)
(* ones is ahead of them, also when saves are refused after a relaunch.     *)
THEOREM CheckpointsStayInStep == Spec => []CheckpointsInStep
<1>1. IInv => CheckpointsInStep
  BY DEF IInv, EpochPart
<1> QED BY <1>1, InductiveInvariant, PTL

Saved == DiskModels(latest) \cup DiskModels(bestCkpt)

(* Training the batch the queue yielded is a bounded step forward.         *)
LEMMA TrainStepTrains ==
  ASSUME IInv, TrainStep
  PROVE  Abstract!Train
<1>1. /\ cur \in Nat /\ model \in Seq(Nat) /\ BufferSize \in Nat \ {0}
      /\ pc = "train" /\ ModelInv /\ InTraining = 1 /\ cur = Yielded - 1
  BY TrainAssumption DEF IInv, TypeOK, LoopInv, ModelInv, TrainStep, InTraining
<1>2. model # <<>> => Len(model) \in 1 .. Len(model) /\ model[Len(model)] \in Nat
  BY <1>1
<1>3. LastOf(model) \in Int /\ LastOf(model) < cur /\ cur <= LastOf(model) + BufferSize
  <2>0. Yielded \in Int
    BY DEF IInv, TypeOK, Yielded
  <2>1. cur <= LastOf(model) + BufferSize
    BY <1>1, <2>0 DEF ModelInv
  <2>2. LastOf(model) \in Int /\ LastOf(model) < cur
    BY <1>1, <1>2 DEF LastOf, ModelInv
  <2> QED BY <2>1, <2>2
<1>4. Abstract!LastBatch = LastOf(model)
  BY DEF Abstract!LastBatch, LastOf
<1>5. cur \in LastOf(model) + 1 .. LastOf(model) + BufferSize
  BY <1>1, <1>3
<1>6. Abstract!TrainOn(cur)
  <2>1. model' = Append(model, cur) /\ UNCHANGED <<latest, bestCkpt>>
    BY DEF TrainStep, diskVars
  <2> QED BY <1>3, <1>4, <2>1 DEF Abstract!TrainOn, DiskModels
<1> QED BY <1>4, <1>5, <1>6 DEF Abstract!Train

(* Saving puts at most the weights on disk and leaves something there.     *)
LEMMA SavingSaves ==
  ASSUME NEW kept \in Seq(Checkpoint), NEW c \in Checkpoint, NEW n \in Nat \ {0}
  PROVE  LET k == OrbaxSave(kept, c, n)
         IN  /\ DiskModels(k) # {}
             /\ DiskModels(k) \subseteq DiskModels(kept) \cup {c.model}
<1> DEFINE k == OrbaxSave(kept, c, n)
<1>1. k # <<>> /\ k \in Seq(Checkpoint)
  BY OrbaxSaveShape
<1>2. \A i \in 1 .. Len(k) : k[i] = c \/ \E j \in 1 .. Len(kept) : k[i] = kept[j]
  BY OrbaxSaveElements
<1> HIDE DEF k
<1>3. 1 \in 1 .. Len(k)
  BY <1>1
<1>4. DiskModels(k) # {}
  BY <1>3 DEF DiskModels
<1>5. DiskModels(k) \subseteq DiskModels(kept) \cup {c.model}
  BY <1>2 DEF DiskModels
<1> QED BY <1>4, <1>5 DEF k

(* Whatever the loop, the prefetcher, the checkpoint managers and restarts  *)
(* do, the weights only move forward along the stream in bounded steps, or  *)
(* go back to fresh or saved weights.                                       *)
THEOREM TrainLoopRefines == Spec => RefinesCheckpointedTraining
<1>1. Init => Abstract!Init
  BY DEF Init, Abstract!Init, DiskModels
<1>2. ASSUME IInv, [Next]_vars
      PROVE  [Abstract!Next]_<<model, Saved>>
  <2>1. CASE TrainStep
    BY <1>2, <2>1, TrainStepTrains DEF Abstract!Next
  <2>2. CASE Launch
    <3>1. model' = <<>> /\ UNCHANGED <<latest, bestCkpt>>
      BY <2>2 DEF Launch, StartSession, diskVars
    <3> QED BY <3>1 DEF Abstract!Next, Abstract!Recover, DiskModels
  <2>3. CASE Resume
    <3>1. /\ model' = latest[Len(latest)].model /\ latest # <<>>
          /\ UNCHANGED <<latest, bestCkpt>>
      BY <2>3 DEF Resume, StartSession, diskVars, NewestOf
    <3>2. Len(latest) \in 1 .. Len(latest)
      BY <1>2, <3>1 DEF IInv, TypeOK
    <3>3. model' \in DiskModels(latest)
      BY <3>1, <3>2 DEF DiskModels
    <3>4. Saved' = Saved
      BY <3>1 DEF Saved, DiskModels
    <3> QED BY <3>3, <3>4 DEF Abstract!Next, Abstract!Recover, Saved
  <2>4. CASE SaveLatest
    <3>1. /\ Snapshot \in Checkpoint /\ Snapshot.model = model
          /\ latest \in Seq(Checkpoint) /\ KeepLatest \in Nat \ {0}
      BY <1>2, SnapshotType, TrainAssumption DEF IInv, TypeOK, Snapshot
    <3>2. latest' = OrbaxSave(latest, Snapshot, KeepLatest) /\ UNCHANGED <<model, bestCkpt>>
      BY <2>4 DEF SaveLatest, loopVars
    <3>3. DiskModels(latest') # {} /\ DiskModels(latest') \subseteq DiskModels(latest) \cup {model}
      <4>1. LET k == OrbaxSave(latest, Snapshot, KeepLatest)
            IN  /\ DiskModels(k) # {}
                /\ DiskModels(k) \subseteq DiskModels(latest) \cup {Snapshot.model}
        BY <3>1, SavingSaves
      <4> QED BY <3>1, <3>2, <4>1
    <3>4. DiskModels(bestCkpt') = DiskModels(bestCkpt)
      BY <3>2 DEF DiskModels
    <3>5. Saved' # {} /\ Saved' \subseteq Saved \cup {model}
      BY <3>3, <3>4 DEF Saved, DiskModels
    <3> QED BY <3>2, <3>5 DEF Abstract!Next, Abstract!Save, Saved
  <2>5. CASE SaveBest
    <3>1. /\ Snapshot \in Checkpoint /\ Snapshot.model = model
          /\ bestCkpt \in Seq(Checkpoint) /\ KeepBest \in Nat \ {0}
      BY <1>2, SnapshotType, TrainAssumption DEF IInv, TypeOK, Snapshot
    <3>2. bestCkpt' = OrbaxSave(bestCkpt, Snapshot, KeepBest) /\ UNCHANGED <<model, latest>>
      BY <2>5 DEF SaveBest, loopVars
    <3>3. DiskModels(bestCkpt') # {} /\ DiskModels(bestCkpt') \subseteq DiskModels(bestCkpt) \cup {model}
      <4>1. LET k == OrbaxSave(bestCkpt, Snapshot, KeepBest)
            IN  /\ DiskModels(k) # {}
                /\ DiskModels(k) \subseteq DiskModels(bestCkpt) \cup {Snapshot.model}
        BY <3>1, SavingSaves
      <4> QED BY <3>1, <3>2, <4>1
    <3>4. DiskModels(latest') = DiskModels(latest)
      BY <3>2 DEF DiskModels
    <3>5. Saved' # {} /\ Saved' \subseteq Saved \cup {model}
      BY <3>3, <3>4 DEF Saved, DiskModels
    <3> QED BY <3>2, <3>5 DEF Abstract!Next, Abstract!Save, Saved
  <2>6. CASE UNCHANGED <<model, latest, bestCkpt>>
    <3>1. UNCHANGED <<model, Saved>>
      BY <2>6 DEF Saved, DiskModels
    <3> QED BY <3>1
  <2> QED BY <1>2, <2>1, <2>2, <2>3, <2>4, <2>5, <2>6 DEF Next, Step, NextBatch,
          Exhausted, EpochValidation, AssertCheckpointsRestore, UpdateBest, EarlyStop,
          LogMetrics, Crash, vars, loopVars, diskVars
<1> QED BY <1>1, <1>2, InductiveInvariant, PTL
        DEF Spec, RefinesCheckpointedTraining, Abstract!Spec, Saved
-----------------------------------------------------------------------------
(* What a crash costs: the loop body past the training step runs only at    *)
(* the end of an epoch, so every "latest" checkpoint ends one.              *)

StepEnds(c) == ((c.globalStep \div GlobalBatch) + 1) % StepsPerEpoch = 0

WorkInv ==
  /\ pc \in Body => EndsEpoch
  /\ \A i \in 1 .. Len(latest) : StepEnds(latest[i])

(* From the last batch of an epoch to a batch of the next one.             *)
LEMMA WithinNextEpoch ==
  ASSUME NEW b \in Nat, NEW c \in Nat, NEW s \in Nat \ {0},
         (c + 1) % s = 0, b \div s <= (c \div s) + 1
  PROVE  b - c <= s
<1> DEFINE q == b \div s
           r == b % s
           p == c \div s
           t == c % s
<1>1. /\ q \in Nat /\ r \in 0 .. s - 1 /\ b = s * q + r
      /\ p \in Nat /\ t \in 0 .. s - 1 /\ c = s * p + t
      /\ q <= p + 1
  OBVIOUS
<1> HIDE DEF q, r, p, t
<1>2. t = s - 1
  <2>1. SUFFICES ASSUME t + 1 <= s - 1 PROVE FALSE
    BY <1>1
  <2>2. c + 1 = s * p + (t + 1) /\ t + 1 \in 0 .. s - 1 /\ t + 1 # 0
    BY <1>1, <2>1
  <2>3. (c + 1) % s = t + 1
    <3> DEFINE u == t + 1
    <3>1. u \in 0 .. s - 1 /\ p \in Nat /\ c + 1 = s * p + u
      BY <1>1, <2>2
    <3> HIDE DEF u
    <3>2. (s * p + u) % s = u
      BY <3>1, DivisionUnique
    <3> QED BY <3>1, <3>2 DEF u
  <2> QED BY <2>2, <2>3
<1>3. s * q <= s * (p + 1)
  <2>1. PICK d \in Nat : p + 1 = q + d
    <3>1. p + 1 - q \in Nat /\ p + 1 = q + (p + 1 - q)
      BY <1>1
    <3> QED BY <3>1
  <2>2. s * (q + d) = s * q + s * d /\ s * d \in Nat /\ s * q \in Nat
    BY <1>1, <2>1
  <2> QED BY <2>1, <2>2
<1>4. s * (p + 1) = s * p + s /\ s * p \in Nat /\ s * q \in Nat
  BY <1>1
<1> QED BY <1>1, <1>2, <1>3, <1>4

LEMMA WorkStep ==
  ASSUME TypeOK, WorkInv, [Next]_vars
  PROVE  WorkInv'
<1>1. CASE SaveLatest
  <2>1. /\ Snapshot \in Checkpoint /\ BatchIdx \in Nat
        /\ Snapshot.globalStep = BatchIdx * GlobalBatch /\ EndsEpoch
        /\ latest' = OrbaxSave(latest, Snapshot, KeepLatest)
        /\ latest \in Seq(Checkpoint) /\ KeepLatest \in Nat \ {0}
        /\ EndsEpoch' = EndsEpoch
    BY <1>1, SnapshotType, TrainAssumption
    DEF SaveLatest, TypeOK, Snapshot, WorkInv, Body, Locations, loopVars, EndsEpoch, BatchIdx
  <2>2. StepEnds(Snapshot)
    <3>1. (BatchIdx * GlobalBatch) \div GlobalBatch = BatchIdx
      BY <2>1, StepOfBatch, TrainAssumption
    <3> QED BY <2>1, <3>1 DEF StepEnds, EndsEpoch
  <2>3. \A i \in 1 .. Len(latest') :
          latest'[i] = Snapshot \/ \E j \in 1 .. Len(latest) : latest'[i] = latest[j]
    BY <2>1, OrbaxSaveElements
  <2>4. \A i \in 1 .. Len(latest') : StepEnds(latest'[i])
    BY <2>2, <2>3 DEF WorkInv
  <2> QED BY <2>1, <2>4 DEF WorkInv, StepEnds
<1>2. CASE TrainStep
  BY <1>2 DEF TrainStep, NextIteration, WorkInv, Body, StepEnds, EndsEpoch, BatchIdx, diskVars
<1>3. CASE pc' \notin Body /\ UNCHANGED latest
  BY <1>3 DEF WorkInv, StepEnds
<1>4. CASE pc \in Body /\ UNCHANGED <<latest, startIdx, loopIdx>>
  BY <1>4 DEF WorkInv, StepEnds, EndsEpoch, BatchIdx
<1>5. CASE UNCHANGED vars
  BY <1>5 DEF WorkInv, StepEnds, EndsEpoch, BatchIdx, vars, loopVars, diskVars
<1>6. CASE Launch \/ Resume \/ NextBatch \/ Exhausted \/ EarlyStop \/ LogMetrics \/ Crash
  <2>1. pc' \notin Body /\ UNCHANGED latest
    BY <1>6 DEF Launch, Resume, StartSession, NextBatch, Exhausted, EarlyStop,
       LogMetrics, NextIteration, Crash, Body, diskVars
  <2> QED BY <1>3, <2>1
<1>7. CASE EpochValidation \/ AssertCheckpointsRestore \/ UpdateBest \/ SaveBest
  <2>1. pc \in Body /\ UNCHANGED <<latest, startIdx, loopIdx>>
    BY <1>7 DEF EpochValidation, AssertCheckpointsRestore, UpdateBest, SaveBest,
       Body, Locations, loopVars, diskVars
  <2> QED BY <1>4, <2>1
<1> QED BY <1>1, <1>2, <1>5, <1>6, <1>7 DEF Next, Step

LEMMA WorkInvariant == Spec => []WorkInv
<1>1. Init => WorkInv
  BY DEF Init, WorkInv, Body
<1>2. IInv /\ WorkInv /\ [Next]_vars => WorkInv'
  BY WorkStep DEF IInv
<1> QED BY <1>1, <1>2, InductiveInvariant, PTL DEF Spec

(* A crash at any point loses less than the epoch under way: the batch      *)
(* being trained is at most StepsPerEpoch past the newest checkpoint's, or  *)
(* of the first epoch when there is none.                                   *)
THEOREM WorkAtRiskIsAnEpoch == Spec => []WorkAtRisk
<1>1. IInv /\ WorkInv => WorkAtRisk
  <2> SUFFICES ASSUME IInv, WorkInv, SaveCheckpoints, pc # "stopped"
               PROVE  IF latest = <<>> THEN BatchIdx < StepsPerEpoch
                      ELSE BatchIdx - (NewestOf(latest).globalStep \div GlobalBatch)
                             <= StepsPerEpoch
    BY DEF WorkAtRisk
  <2>1. BatchIdx \in Nat /\ Epoch \in Nat /\ StepsPerEpoch \in Nat \ {0}
    BY SnapshotType, TrainAssumption DEF IInv
  <2>2. pc \in {"next", "train", "epoch_end", "save_latest", "validate", "update_best",
                "save_best", "check_stop"}
    BY DEF IInv, TypeOK, Locations
  <2>3. CASE latest = <<>>
    <3>1. BatchIdx \div StepsPerEpoch = 0
      BY <2>2, <2>3 DEF IInv, EpochPart, EpochInv, Epoch
    <3> DEFINE b == BatchIdx
    <3>2. b \in Nat /\ b \div StepsPerEpoch = 0
      BY <2>1, <3>1
    <3> HIDE DEF b
    <3>3. b < StepsPerEpoch
      BY <2>1, <3>2
    <3> QED BY <2>3, <3>3 DEF b
  <2>4. CASE latest # <<>>
    <3> DEFINE c == NewestOf(latest)
               s == c.globalStep \div GlobalBatch
    <3>1. Len(latest) \in 1 .. Len(latest)
      BY <2>4 DEF IInv, TypeOK
    <3>2. (s + 1) % StepsPerEpoch = 0 /\ s \div StepsPerEpoch = c.epoch
      BY <3>1 DEF WorkInv, StepEnds, NewestOf, IInv, DiskInv, CheckpointInv
    <3>3. s \in Nat /\ c.epoch \in Nat
      BY <2>4, ResumeTypes, NewestLatest DEF IInv
    <3>4. Epoch <= c.epoch + 1
      <4>1. Epoch <= c.epoch + 1 \/ Epoch <= c.epoch
        BY <2>2, <2>4 DEF IInv, EpochPart, EpochInv
      <4> QED BY <2>1, <3>3, <4>1
    <3> DEFINE b == BatchIdx
    <3>5. b \in Nat /\ b \div StepsPerEpoch <= (s \div StepsPerEpoch) + 1
      BY <2>1, <3>2, <3>4 DEF Epoch
    <3> HIDE DEF b, s
    <3>6. b - s <= StepsPerEpoch
      BY <2>1, <3>2, <3>3, <3>5, WithinNextEpoch
    <3> QED BY <2>4, <3>6 DEF b, s
  <2> QED BY <2>3, <2>4
<1> QED BY <1>1, InductiveInvariant, WorkInvariant, PTL
-----------------------------------------------------------------------------
(* Early stopping: what best and stale say about the validations judged.   *)

Unjudged == pc \in {"save_latest", "validate", "update_best"}
Judged == Len(evals) - (IF Unjudged THEN 1 ELSE 0)

(* Of the first n validations in e, b is the best metric (-1 for none), and *)
(* k counts the ones at the end that failed to improve at or after epoch    *)
(* Delay: the one before them improved, or was of an earlier epoch.         *)
Verdict(e, n, b, k) ==
  /\ n = 0 => b = -1 /\ k = 0
  /\ n > 0 => k < n /\ \E i \in 1 .. n : e[i][2] = b
  /\ \A i \in 1 .. n : e[i][2] <= b
  /\ \A i \in 1 .. n : i > n - k =>
       e[i][1] >= Delay /\ \E j \in 1 .. i - 1 : e[j][2] >= e[i][2]
  /\ \A i \in 1 .. n : i = n - k =>
       e[i][1] < Delay \/ \A j \in 1 .. i - 1 : e[j][2] < e[i][2]

JudgeInv ==
  pc # "stopped" =>
    /\ Judged > 0 => evals[Judged][1] <= Epoch
    /\ Unjudged => evals # <<>> /\ evals[Len(evals)] = <<Epoch, score>>
    /\ Verdict(evals, Judged, best, stale)
    /\ pc \in {"next", "train", "epoch_end"} => stale < Patience

(* The verdict is about the validations judged, not the one just appended. *)
LEMMA VerdictKept ==
  ASSUME NEW e \in Seq(Nat \X Nat), NEW x \in Nat \X Nat, NEW b, NEW k \in Nat,
         Verdict(e, Len(e), b, k)
  PROVE  Verdict(Append(e, x), Len(e), b, k)
<1> DEFINE n == Len(e)
           f == Append(e, x)
<1>1. n \in Nat /\ \A i \in 1 .. n : f[i] = e[i]
  OBVIOUS
<1>2. Verdict(e, n, b, k)
  OBVIOUS
<1> HIDE DEF n, f
<1>3. \A i \in 1 .. n : \A j \in 1 .. i - 1 : j \in 1 .. n
  BY <1>1
<1>4. Verdict(f, n, b, k)
  BY <1>1, <1>2, <1>3 DEF Verdict
<1> QED BY <1>4 DEF n, f

LEMMA EvalTypes ==
  ASSUME NEW e \in Seq(Nat \X Nat)
  PROVE  \A i \in 1 .. Len(e) : e[i][1] \in Nat /\ e[i][2] \in Nat
<1>1. \A i \in 1 .. Len(e) : e[i] \in Nat \X Nat
  OBVIOUS
<1> QED BY <1>1

(* Judging one more validation: an improvement gives the patience back, and *)
(* otherwise it is counted from epoch Delay on.                             *)
LEMMA VerdictImproved ==
  ASSUME NEW e, NEW n \in Nat, NEW b \in Int, NEW k \in Nat,
         NEW m \in Nat, m = n + 1,
         \A i \in 1 .. m : e[i][1] \in Nat /\ e[i][2] \in Nat,
         Verdict(e, n, b, k), e[m][2] > b
  PROVE  Verdict(e, m, e[m][2], 0)
<1>1. \A i \in 1 .. n : e[i][2] <= b
  BY DEF Verdict
<1>2. /\ \A i \in 1 .. n : e[i][2] < e[m][2]
      /\ e[m][2] \in Nat /\ m \in 1 .. m
  <2>1. m \in 1 .. m /\ \A i \in 1 .. n : i \in 1 .. m
    OBVIOUS
  <2>2. e[m][2] \in Nat
    BY <2>1
  <2>3. ASSUME NEW i \in 1 .. n PROVE e[i][2] < e[m][2]
    <3>1. e[i][2] <= b /\ e[i][2] \in Nat
      BY <1>1, <2>1
    <3> QED BY <2>2, <3>1
  <2> QED BY <2>1, <2>2, <2>3
<1>3. \A i \in 1 .. m : e[i][2] <= e[m][2]
  <2> TAKE i \in 1 .. m
  <2>1. CASE i = m
    BY <1>2, <2>1
  <2>2. CASE i # m
    <3>1. i \in 1 .. n
      BY <2>2
    <3>2. e[i][2] < e[m][2] /\ e[i][2] \in Nat
      BY <1>2, <3>1
    <3> QED BY <1>2, <3>2
  <2> QED BY <2>1, <2>2
<1>4. \A i \in 1 .. m : i = m - 0 => \A j \in 1 .. i - 1 : e[j][2] < e[i][2]
  <2> SUFFICES ASSUME NEW i \in 1 .. m, i = m - 0, NEW j \in 1 .. i - 1
               PROVE  e[j][2] < e[i][2]
    OBVIOUS
  <2>1. i = m /\ j \in 1 .. n
    OBVIOUS
  <2> QED BY <1>2, <2>1
<1>5. \A i \in 1 .. m : ~(i > m - 0)
  OBVIOUS
<1>6. m # 0 /\ 0 < m /\ \E i \in 1 .. m : e[i][2] = e[m][2]
  BY <1>2
<1> QED BY <1>3, <1>4, <1>5, <1>6, Zenon DEF Verdict

LEMMA VerdictFailed ==
  ASSUME NEW e, NEW n \in Nat, NEW b \in Int, NEW k \in Nat,
         NEW m \in Nat, m = n + 1,
         \A i \in 1 .. m : e[i][1] \in Nat /\ e[i][2] \in Nat,
         Verdict(e, n, b, k), e[m][2] <= b, Delay \in Nat,
         n > 0 => e[n][1] <= e[m][1]
  PROVE  Verdict(e, m, b, IF e[m][1] >= Delay THEN k + 1 ELSE k)
<1>1. m \in 1 .. m /\ \A i \in 1 .. m : i # m => i \in 1 .. n
  OBVIOUS
<1>2. e[m][1] \in Nat /\ e[m][2] \in Nat
  BY <1>1
<1>3. n > 0 /\ n \in 1 .. n /\ n \in 1 .. m
  BY <1>2 DEF Verdict
<1>4. k < n /\ \A i \in 1 .. n : e[i][2] <= b
  BY <1>3 DEF Verdict
<1>5. \A i \in 1 .. m : e[i][2] <= b
  BY <1>1, <1>4
<1>6. PICK w \in 1 .. n : e[w][2] = b
  BY <1>3 DEF Verdict
<1>7. w \in 1 .. m /\ e[w][2] >= e[m][2]
  BY <1>2, <1>6
<1>8. CASE e[m][1] >= Delay
  <2>1. \A i \in 1 .. m : i > m - (k + 1) =>
          e[i][1] >= Delay /\ \E j \in 1 .. i - 1 : e[j][2] >= e[i][2]
    <3> SUFFICES ASSUME NEW i \in 1 .. m, i > m - (k + 1)
                 PROVE  e[i][1] >= Delay /\ \E j \in 1 .. i - 1 : e[j][2] >= e[i][2]
      OBVIOUS
    <3>1. CASE i = m
      <4>1. w \in 1 .. i - 1
        BY <1>6, <3>1
      <4> QED BY <1>7, <1>8, <3>1, <4>1
    <3>2. CASE i # m
      <4>1. i \in 1 .. n /\ i > n - k
        BY <3>2
      <4> QED BY <4>1 DEF Verdict
    <3> QED BY <3>1, <3>2
  <2>2. \A i \in 1 .. m : i = m - (k + 1) =>
          e[i][1] < Delay \/ \A j \in 1 .. i - 1 : e[j][2] < e[i][2]
    <3> SUFFICES ASSUME NEW i \in 1 .. m, i = m - (k + 1)
                 PROVE  e[i][1] < Delay \/ \A j \in 1 .. i - 1 : e[j][2] < e[i][2]
      OBVIOUS
    <3>1. i \in 1 .. n /\ i = n - k
      BY <1>4
    <3> QED BY <3>1 DEF Verdict
  <2>3. m # 0 /\ k + 1 < m /\ \E i \in 1 .. m : e[i][2] = b
    BY <1>4, <1>6, <1>7
  <2>4. Verdict(e, m, b, k + 1)
    BY <1>5, <2>1, <2>2, <2>3, Zenon DEF Verdict
  <2> QED BY <1>8, <2>4
<1>9. CASE ~(e[m][1] >= Delay)
  <2>1. e[n][1] < Delay /\ e[m][1] < Delay
    <3>1. e[n][1] \in Nat /\ e[n][1] <= e[m][1]
      BY <1>3
    <3> QED BY <1>2, <1>9, <3>1
  <2>2. k = 0
    <3>1. k > 0 => n > n - k
      OBVIOUS
    <3>2. k > 0 => e[n][1] >= Delay
      BY <1>3, <3>1 DEF Verdict
    <3>3. e[n][1] \in Nat
      BY <1>3
    <3> QED BY <2>1, <3>2, <3>3
  <2>3. \A i \in 1 .. m : ~(i > m - 0)
    OBVIOUS
  <2>4. \A i \in 1 .. m : i = m - 0 => e[i][1] < Delay
    <3>1. \A i \in 1 .. m : i = m - 0 => i = m
      OBVIOUS
    <3> QED BY <2>1, <3>1, Zenon
  <2>5. m # 0 /\ 0 < m /\ \E i \in 1 .. m : e[i][2] = b
    BY <1>6, <1>7
  <2>6. Verdict(e, m, b, 0)
    BY <1>5, <2>3, <2>4, <2>5, Zenon DEF Verdict
  <2> QED BY <1>9, <2>2, <2>6
<1> QED BY <1>8, <1>9

(* The next batch is of the same epoch, or of the next one after the last. *)
LEMMA EpochAdvances ==
  ASSUME TypeOK, NextIteration, UNCHANGED startIdx
  PROVE  /\ EndsEpoch => Epoch' = Epoch + 1
         /\ Epoch \in Nat /\ Epoch' \in Nat /\ Epoch <= Epoch'
<1>1. BatchIdx \in Nat /\ BatchIdx' = BatchIdx + 1
  BY DEF TypeOK, NextIteration, BatchIdx
<1> DEFINE b == BatchIdx
           s == StepsPerEpoch
           q == b \div s
           r == b % s
<1>2. b \in Nat /\ s \in Nat \ {0}
  BY <1>1, TrainAssumption
<1>3. ASSUME (b + 1) % s = 0 PROVE (b + 1) \div s = q + 1
  <2>1. q \in Nat /\ r \in 0 .. s - 1 /\ b = s * q + r
    <3> HIDE DEF b, s
    <3> QED BY <1>2
  <2> HIDE DEF b, s, q, r
  <2>2. CASE r + 1 < s
    <3> DEFINE u == r + 1
    <3>1. u \in 0 .. s - 1 /\ u # 0 /\ b + 1 = s * q + u
      BY <2>1, <2>2, <1>2
    <3> HIDE DEF u
    <3>2. (s * q + u) % s = u
      BY <1>2, <2>1, <3>1, DivisionUnique
    <3> QED BY <1>3, <3>1, <3>2
  <2>3. CASE ~(r + 1 < s)
    <3> DEFINE w == q + 1
    <3>1. w \in Nat /\ 0 \in 0 .. s - 1 /\ b + 1 = s * w + 0
      BY <1>2, <2>1, <2>3
    <3> HIDE DEF w
    <3>2. (s * w + 0) \div s = w
      BY <1>2, <3>1, DivisionUnique
    <3> QED BY <3>1, <3>2 DEF w
  <2> QED BY <2>2, <2>3
<1>4. EndsEpoch => Epoch' = Epoch + 1
  BY <1>1, <1>3 DEF EndsEpoch, Epoch
<1>5. /\ Epoch \in Nat /\ Epoch' \in Nat
      /\ ~EndsEpoch => Epoch' = Epoch
  BY NextIterationEpoch
<1> QED BY <1>4, <1>5

LEMMA JudgeStep ==
  ASSUME TypeOK, TypeOK', JudgeInv, [Next]_vars
  PROVE  JudgeInv'
<1> USE DEF JudgeInv
<1>0. /\ evals \in Seq(Nat \X Nat) /\ Len(evals) \in Nat /\ stale \in Nat
      /\ best \in Nat \cup {-1} /\ score \in Nat /\ Patience \in Nat \ {0}
      /\ Epoch \in Nat /\ best \in Int /\ Delay \in Nat
      /\ (evals # <<>> <=> Len(evals) > 0)
      /\ \A i \in 1 .. Len(evals) : evals[i][1] \in Nat /\ evals[i][2] \in Nat
  <2>1. evals \in Seq(Nat \X Nat) /\ best \in Nat \cup {-1}
    BY DEF TypeOK
  <2>2. \A i \in 1 .. Len(evals) : evals[i][1] \in Nat /\ evals[i][2] \in Nat
    BY <2>1, EvalTypes
  <2>3. evals # <<>> <=> Len(evals) > 0
    BY <2>1
  <2>4. best \in Int /\ Len(evals) \in Nat
    BY <2>1
  <2> QED BY <2>1, <2>2, <2>3, <2>4, SnapshotType, TrainAssumption DEF TypeOK
<1>1. CASE Launch \/ Resume
  <2>1. pc' = "next" /\ best' = -1 /\ stale' = 0 /\ evals' = <<>>
    BY <1>1 DEF Launch, Resume, StartSession
  <2>2. Judged' = 0 /\ ~Unjudged'
    BY <2>1 DEF Judged, Unjudged
  <2>3. Verdict(evals', 0, -1, 0)
    BY DEF Verdict
  <2> QED BY <1>0, <2>1, <2>2, <2>3
<1>2. CASE NextBatch
  BY <1>2 DEF NextBatch, Judged, Unjudged, Verdict, Epoch, BatchIdx, evalVars
<1>3. CASE TrainStep
  <2>1. /\ pc = "train" /\ UNCHANGED <<score, best, stale, evals>> /\ ~Unjudged
    BY <1>3 DEF TrainStep, evalVars, Unjudged
  <2>2. CASE EndsEpoch
    BY <1>3, <2>1, <2>2 DEF TrainStep, Judged, Unjudged, Verdict, Epoch, BatchIdx
  <2>3. CASE ~EndsEpoch
    <3>1. NextIteration /\ pc' = "next" /\ UNCHANGED startIdx
      BY <1>3, <2>3 DEF TrainStep, NextIteration
    <3>2. Epoch' = Epoch
      BY <2>3, <3>1, NextIterationEpoch
    <3> QED BY <2>1, <3>1, <3>2 DEF Judged, Unjudged, Verdict
  <2> QED BY <2>2, <2>3
<1>4. CASE EpochValidation
  <2>1. /\ pc = "epoch_end" /\ ~Unjudged /\ Judged = Len(evals)
        /\ UNCHANGED <<best, stale, startIdx, loopIdx>>
        /\ pc' \in {"save_latest", "update_best"} /\ Unjudged'
    BY <1>0, <1>4 DEF EpochValidation, Unjudged, Judged
  <2>2. evals' = Append(evals, <<Epoch, score'>>) /\ score' \in Nat
    BY <1>4, TrainAssumption DEF EpochValidation
  <2>3. /\ Len(evals') = Len(evals) + 1 /\ evals'[Len(evals')] = <<Epoch, score'>>
        /\ \A i \in 1 .. Len(evals) : evals'[i] = evals[i]
        /\ evals' # <<>>
    BY <1>0, <2>2
  <2>4. Judged' = Len(evals) /\ Epoch' = Epoch
    BY <1>0, <2>1, <2>3 DEF Judged, Epoch, BatchIdx
  <2>5. Verdict(evals', Len(evals), best, stale)
    <3>1. Verdict(evals, Len(evals), best, stale)
      BY <2>1
    <3>2. <<Epoch, score'>> \in Nat \X Nat
      BY <1>0, <2>2
    <3> QED BY <1>0, <2>2, <3>1, <3>2, VerdictKept
  <2>6. Judged' > 0 => evals'[Judged'][1] <= Epoch'
    BY <1>0, <2>1, <2>3, <2>4
  <2> QED BY <2>1, <2>3, <2>4, <2>5, <2>6
<1>5. CASE SaveLatest
  BY <1>5 DEF SaveLatest, Judged, Unjudged, Verdict, Epoch, BatchIdx, loopVars, evalVars
<1>6. CASE AssertCheckpointsRestore
  BY <1>6 DEF AssertCheckpointsRestore, Judged, Unjudged, Verdict, Epoch, BatchIdx, loopVars
<1>7. CASE UpdateBest
  <2>1. /\ pc = "update_best" /\ Unjudged /\ Judged = Len(evals) - 1
        /\ UNCHANGED <<evals, score, startIdx, loopIdx>>
        /\ pc' \in {"save_best", "check_stop"} /\ ~Unjudged'
    BY <1>7 DEF UpdateBest, Unjudged, Judged, loopVars
  <2> DEFINE n == Judged
  <2>2. /\ n \in Nat /\ n + 1 = Len(evals) /\ evals[n + 1] = <<Epoch, score>>
        /\ Verdict(evals, n, best, stale) /\ (n > 0 => evals[n][1] <= Epoch)
    BY <1>0, <2>1
  <2>3. evals[n + 1][1] = Epoch /\ evals[n + 1][2] = score
    BY <2>2
  <2>4. Judged' = n + 1 /\ Epoch' = Epoch
    BY <2>1, <2>2 DEF Judged, Epoch, BatchIdx
  <2>7. \A i \in 1 .. n + 1 : evals[i][1] \in Nat /\ evals[i][2] \in Nat
    BY <1>0, <2>2
  <2> HIDE DEF n
  <2>5. Verdict(evals, n + 1, best', stale')
    <3>1. CASE score > best
      <4>1. best' = score /\ stale' = 0
        BY <1>0, <1>7, <3>1 DEF UpdateBest
      <4>2. Verdict(evals, n + 1, evals[n + 1][2], 0)
        BY <1>0, <2>2, <2>3, <2>7, <3>1, VerdictImproved
      <4> QED BY <2>3, <4>1, <4>2
    <3>2. CASE score <= best
      <4>1. best' = best /\ stale' = IF Epoch >= Delay THEN stale + 1 ELSE stale
        BY <1>0, <1>7, <3>2 DEF UpdateBest
      <4>2. Verdict(evals, n + 1, best, IF evals[n + 1][1] >= Delay THEN stale + 1 ELSE stale)
        <5>1. n + 1 <= Len(evals) /\ evals[n + 1][2] <= best
              /\ (n > 0 => evals[n][1] <= evals[n + 1][1])
          BY <1>0, <2>2, <2>3, <3>2
        <5> QED BY <1>0, <2>2, <2>7, <5>1, VerdictFailed
      <4> QED BY <2>3, <4>1, <4>2
    <3> QED BY <1>0, <3>1, <3>2
  <2>6. Judged' > 0 => evals'[Judged'][1] <= Epoch'
    BY <1>0, <2>1, <2>3, <2>4
  <2> QED BY <2>1, <2>4, <2>5, <2>6
<1>8. CASE SaveBest
  BY <1>8 DEF SaveBest, Judged, Unjudged, Verdict, Epoch, BatchIdx, loopVars, evalVars
<1>9. CASE LogMetrics
  <2>1. /\ pc = "check_stop" /\ stale < Patience /\ NextIteration /\ pc' = "next"
        /\ UNCHANGED <<startIdx, best, stale, evals>>
        /\ ~Unjudged /\ ~Unjudged'
    BY <1>9 DEF LogMetrics, NextIteration, Unjudged
  <2>2. Epoch <= Epoch' /\ Epoch' \in Nat
    BY <2>1, EpochAdvances
  <2>3. Judged' = Judged /\ Judged = Len(evals)
    BY <1>0, <2>1 DEF Judged
  <2>4. Judged > 0 => evals[Judged][1] \in Nat
    <3>1. Judged > 0 => evals[Judged] \in Nat \X Nat
      BY <1>0, <2>3
    <3> QED BY <3>1
  <2>5. Judged' > 0 => evals'[Judged'][1] <= Epoch'
    BY <1>0, <2>1, <2>2, <2>3, <2>4
  <2>6. Verdict(evals', Judged', best', stale')
    BY <2>1, <2>3
  <2> QED BY <2>1, <2>5, <2>6
<1>10. CASE Exhausted \/ EarlyStop \/ Crash
  BY <1>10 DEF Exhausted, EarlyStop, Crash
<1>11. CASE UNCHANGED vars
  BY <1>11 DEF vars, Judged, Unjudged, Verdict, Epoch, BatchIdx, loopVars, evalVars
<1> QED BY <1>1, <1>2, <1>3, <1>4, <1>5, <1>6, <1>7, <1>8, <1>9, <1>10, <1>11
        DEF Next, Step

(* The verdict with the counter at its bound is what PatienceSpent says of  *)
(* the validations themselves.                                              *)
SpentOf(e) ==
  /\ Len(e) > Patience
  /\ \A i \in Len(e) - Patience + 1 .. Len(e) :
       e[i][1] >= Delay /\ \E j \in 1 .. i - 1 : e[j][2] >= e[i][2]

LEMMA SpentIsStale ==
  ASSUME NEW e \in Seq(Nat \X Nat), NEW b, NEW k \in Nat, Verdict(e, Len(e), b, k)
  PROVE  SpentOf(e) <=> k >= Patience
<1> DEFINE n == Len(e)
<1>1. /\ n \in Nat /\ Verdict(e, n, b, k) /\ Patience \in Nat \ {0} /\ Delay \in Nat
      /\ \A i \in 1 .. n : e[i][1] \in Nat /\ e[i][2] \in Nat
  BY EvalTypes, TrainAssumption
<1>2. SpentOf(e) <=>
        /\ n > Patience
        /\ \A i \in n - Patience + 1 .. n :
             e[i][1] >= Delay /\ \E j \in 1 .. i - 1 : e[j][2] >= e[i][2]
  BY DEF SpentOf
<1> HIDE DEF n
<1>3. ASSUME k >= Patience PROVE SpentOf(e)
  <2>1. n > 0 /\ k < n
    BY <1>1, <1>3 DEF Verdict
  <2>2. ASSUME NEW i \in n - Patience + 1 .. n PROVE i \in 1 .. n /\ i > n - k
    BY <1>1, <1>3, <2>1, <2>2
  <2>3. n > Patience
    BY <1>1, <1>3, <2>1
  <2> QED BY <1>1, <1>2, <2>2, <2>3 DEF Verdict
<1>4. ASSUME SpentOf(e), k < Patience PROVE FALSE
  <2>1. n > Patience /\ n > 0
    BY <1>1, <1>2, <1>4
  <2> DEFINE i == n - k
  <2>2. i \in n - Patience + 1 .. n /\ i \in 1 .. n /\ i = n - k
    BY <1>1, <1>4, <2>1
  <2> HIDE DEF i
  <2>3. e[i][1] >= Delay /\ \E j \in 1 .. i - 1 : e[j][2] >= e[i][2]
    BY <1>2, <1>4, <2>2
  <2>4. e[i][1] < Delay \/ \A j \in 1 .. i - 1 : e[j][2] < e[i][2]
    BY <1>1, <2>2 DEF Verdict
  <2>5. e[i][1] \in Nat /\ e[i][2] \in Nat
    BY <1>1, <2>2
  <2>6. PICK j \in 1 .. i - 1 : e[j][2] >= e[i][2]
    BY <2>3
  <2>7. e[j][2] \in Nat /\ e[j][2] < e[i][2]
    <3>1. j \in 1 .. n
      BY <1>1, <2>2, <2>6
    <3>2. ~(e[i][1] < Delay)
      BY <1>1, <2>3, <2>5
    <3> QED BY <1>1, <2>4, <3>1, <3>2
  <2> QED BY <2>5, <2>6, <2>7
<1> QED BY <1>1, <1>3, <1>4

LEMMA JudgeInvariant == Spec => []JudgeInv
<1>1. Init => JudgeInv
  BY DEF Init, JudgeInv
<1>2. IInv /\ IInv' /\ JudgeInv /\ [Next]_vars => JudgeInv'
  BY JudgeStep DEF IInv
<1> QED BY <1>1, <1>2, InductiveInvariant, PTL DEF Spec

(* For every patience, delay and sequence of metrics, a session stops early *)
(* exactly when its last Patience validations, all at or after epoch Delay, *)
(* beat nothing that came before them.                                      *)
THEOREM StopsExactlyWhenSpent == Spec => []EarlyStopExactlyWhenSpent
<1>1. Init => EarlyStopExactlyWhenSpent
  BY DEF Init, EarlyStopExactlyWhenSpent
<1>2. ASSUME IInv, IInv', JudgeInv, JudgeInv', EarlyStopExactlyWhenSpent, [Next]_vars
      PROVE  EarlyStopExactlyWhenSpent'
  <2>1. /\ evals \in Seq(Nat \X Nat) /\ stale \in Nat /\ Patience \in Nat \ {0}
        /\ Delay \in Nat /\ evals' \in Seq(Nat \X Nat) /\ stale' \in Nat
    BY <1>2, TrainAssumption DEF IInv, TypeOK
  <2>2. ASSUME pc' \in {"next", "train"} PROVE ~PatienceSpent'
    <3>1. Judged' = Len(evals)'
      BY <2>1, <2>2 DEF Judged, Unjudged
    <3>2. stale' < Patience /\ Verdict(evals', Len(evals'), best', stale')
      BY <1>2, <2>2, <3>1 DEF JudgeInv
    <3>3. SpentOf(evals') <=> stale' >= Patience
      BY <2>1, <3>2, SpentIsStale
    <3>4. PatienceSpent' <=> SpentOf(evals')
      BY DEF PatienceSpent, SpentOf
    <3> QED BY <2>1, <3>2, <3>3, <3>4
  <2>3. ASSUME outcome' = "early_stop" PROVE PatienceSpent'
    <3>1. CASE EarlyStop
      <4>1. pc = "check_stop" /\ stale >= Patience /\ UNCHANGED evals
        BY <3>1 DEF EarlyStop, evalVars
      <4>2. Judged = Len(evals)
        BY <2>1, <4>1 DEF Judged, Unjudged
      <4>3. Verdict(evals, Len(evals), best, stale)
        BY <1>2, <4>1, <4>2 DEF JudgeInv
      <4>4. SpentOf(evals)
        BY <2>1, <4>1, <4>3, SpentIsStale
      <4> QED BY <4>1, <4>4 DEF PatienceSpent, SpentOf
    <3>2. CASE UNCHANGED <<outcome, evals>>
      BY <1>2, <2>3, <3>2 DEF EarlyStopExactlyWhenSpent, PatienceSpent
    <3>3. CASE pc # "stopped" /\ UNCHANGED outcome
      <4>1. outcome = "running"
        BY <1>2, <3>3 DEF IInv, LoopInv
      <4> QED BY <2>3, <3>3, <4>1
    <3>4. CASE outcome' # "early_stop"
      BY <2>3, <3>4
    <3> QED BY <1>2, <3>1, <3>2, <3>3, <3>4 DEF Next, Step, Launch, Resume, StartSession,
            NextBatch, Exhausted, TrainStep, EpochValidation, SaveLatest,
            AssertCheckpointsRestore, UpdateBest, SaveBest, LogMetrics, Crash, vars,
            evalVars
  <2> QED BY <2>2, <2>3 DEF EarlyStopExactlyWhenSpent
<1> QED BY <1>1, <1>2, InductiveInvariant, JudgeInvariant, PTL DEF Spec
-----------------------------------------------------------------------------
(* The best checkpoint of the first session: on disk as soon as an          *)
(* improvement has been judged, and of an epoch that lets the next          *)
(* improvement's save through.                                              *)

BestInv ==
  /\ sessions = 0 => bestCkpt = <<>> /\ latest = <<>> /\ pc = "stopped"
  /\ pc = "save_best" => best = score
  /\ sessions = 1 /\ SaveCheckpoints /\ pc # "stopped" =>
       /\ bestCkpt # <<>> =>
            IF pc = "check_stop" THEN NewestOf(bestCkpt).epoch <= Epoch
            ELSE NewestOf(bestCkpt).epoch < Epoch
       /\ Judged > 0 /\ pc # "save_best" =>
            bestCkpt # <<>> /\ NewestOf(bestCkpt).score = best

LEMMA NewestBest ==
  ASSUME TypeOK, bestCkpt # <<>>
  PROVE  NewestOf(bestCkpt) \in Checkpoint /\ NewestOf(bestCkpt).epoch \in Nat
<1>1. NewestOf(bestCkpt) \in Checkpoint
  BY DEF TypeOK, NewestOf
<1> QED BY <1>1, CheckpointEpoch

LEMMA BestStep ==
  ASSUME TypeOK, WorkInv, JudgeInv, BestInv, [Next]_vars
  PROVE  BestInv'
<1>0. /\ Epoch \in Nat /\ sessions \in Nat /\ evals \in Seq(Nat \X Nat)
      /\ Len(evals) \in Nat /\ best \in Int /\ score \in Nat
      /\ (evals # <<>> => Len(evals) > 0)
  BY SnapshotType DEF TypeOK
<1>1. CASE Launch
  <2>1. /\ sessions' = sessions + 1 /\ pc' = "next" /\ evals' = <<>>
        /\ UNCHANGED <<latest, bestCkpt>>
    BY <1>1 DEF Launch, StartSession, diskVars
  <2>2. sessions' = 1 => bestCkpt' = <<>>
    BY <1>0, <2>1 DEF BestInv
  <2>3. sessions' # 0
    BY <1>0, <2>1
  <2>4. ~(Judged' > 0)
    BY <2>1 DEF Judged, Unjudged
  <2> QED BY <2>1, <2>2, <2>3, <2>4 DEF BestInv
<1>2. CASE Resume
  <2>1. /\ sessions' = sessions + 1 /\ pc' = "next" /\ latest # <<>>
    BY <1>2 DEF Resume, StartSession
  <2>2. sessions' # 0 /\ sessions' # 1
    BY <1>0, <2>1 DEF BestInv
  <2> QED BY <2>1, <2>2 DEF BestInv
<1>3. CASE NextBatch
  BY <1>3 DEF NextBatch, BestInv, Judged, Unjudged, Epoch, BatchIdx, evalVars, diskVars
<1>4. CASE TrainStep
  <2>1. /\ pc = "train" /\ pc' \in {"next", "epoch_end"}
        /\ UNCHANGED <<sessions, score, best, evals, latest, bestCkpt>>
    BY <1>4 DEF TrainStep, NextIteration, evalVars, diskVars
  <2>2. Epoch' = Epoch
    <3>1. CASE EndsEpoch
      BY <1>4, <3>1 DEF TrainStep, Epoch, BatchIdx
    <3>2. CASE ~EndsEpoch
      <4>1. NextIteration /\ UNCHANGED startIdx
        BY <1>4, <3>2 DEF TrainStep, NextIteration
      <4> QED BY <3>2, <4>1, NextIterationEpoch
    <3> QED BY <3>1, <3>2
  <2>3. Judged' = Judged
    BY <2>1 DEF Judged, Unjudged
  <2> QED BY <2>1, <2>2, <2>3 DEF BestInv
<1>5. CASE EpochValidation
  <2>1. /\ pc = "epoch_end" /\ pc' \in {"save_latest", "update_best"}
        /\ UNCHANGED <<sessions, best, latest, bestCkpt, startIdx, loopIdx>>
        /\ \E s \in Scores : evals' = Append(evals, <<Epoch, s>>)
    BY <1>5 DEF EpochValidation, diskVars
  <2>2. Len(evals') = Len(evals) + 1
    <3>1. PICK s \in Scores : evals' = Append(evals, <<Epoch, s>>)
      BY <2>1
    <3>2. s \in Nat
      BY TrainAssumption
    <3> QED BY <1>0, <3>1, <3>2
  <2>3. Judged' = Judged /\ Epoch' = Epoch
    BY <1>0, <2>1, <2>2 DEF Judged, Unjudged, Epoch, BatchIdx
  <2> QED BY <2>1, <2>3 DEF BestInv
<1>6. CASE SaveLatest
  <2>1. /\ pc = "save_latest" /\ pc' \in {"validate", "update_best"}
        /\ UNCHANGED <<sessions, score, best, evals, bestCkpt, startIdx, loopIdx>>
    BY <1>6 DEF SaveLatest, loopVars, evalVars
  <2>2. Judged' = Judged /\ Epoch' = Epoch
    BY <2>1 DEF Judged, Unjudged, Epoch, BatchIdx
  <2>3. sessions # 0
    BY <2>1 DEF BestInv
  <2> QED BY <2>1, <2>2, <2>3 DEF BestInv
<1>7. CASE AssertCheckpointsRestore
  BY <1>7 DEF AssertCheckpointsRestore, BestInv, Judged, Unjudged, Epoch, BatchIdx,
     loopVars, diskVars
<1>8. CASE UpdateBest
  <2>1. /\ pc = "update_best" /\ pc' \in {"save_best", "check_stop"}
        /\ UNCHANGED <<sessions, evals, score, latest, bestCkpt, startIdx, loopIdx>>
    BY <1>8 DEF UpdateBest, loopVars, diskVars
  <2>2. Epoch' = Epoch /\ Judged = Len(evals) - 1 /\ Judged' = Len(evals)
    BY <2>1 DEF Judged, Unjudged, Epoch, BatchIdx
  <2>3. Verdict(evals, Judged, best, stale) /\ evals # <<>>
    BY <2>1 DEF JudgeInv, Unjudged
  <2>4. bestCkpt # <<>> => NewestOf(bestCkpt).epoch \in Nat
    BY NewestBest
  <2>5. CASE score > best
    <3>1. best' = score /\ (SaveCheckpoints => pc' = "save_best")
      BY <1>0, <1>8, <2>5 DEF UpdateBest
    <3> QED BY <2>1, <2>2, <3>1 DEF BestInv
  <2>6. CASE score <= best
    <3>1. best' = best /\ pc' = "check_stop"
      BY <1>0, <1>8, <2>6 DEF UpdateBest
    <3>2. Judged > 0
      BY <1>0, <2>2, <2>3, <2>6 DEF Verdict
    <3> QED BY <1>0, <2>1, <2>2, <2>4, <3>1, <3>2 DEF BestInv
  <2> QED BY <1>0, <2>5, <2>6
<1>9. CASE SaveBest
  <2>1. /\ Snapshot \in Checkpoint /\ Snapshot.epoch = Epoch /\ Snapshot.score = score
        /\ bestCkpt \in Seq(Checkpoint) /\ KeepBest \in Nat \ {0}
    BY SnapshotType, TrainAssumption DEF TypeOK, Snapshot
  <2>2. /\ bestCkpt' = OrbaxSave(bestCkpt, Snapshot, KeepBest)
        /\ UNCHANGED <<sessions, best, score, startIdx, loopIdx, latest>>
        /\ pc = "save_best" /\ pc' = "check_stop"
    BY <1>9 DEF SaveBest, loopVars, evalVars
  <2>3. Epoch' = Epoch
    BY <2>2 DEF Epoch, BatchIdx
  <2>4. bestCkpt' # <<>> /\ Epoch <= NewestOf(bestCkpt').epoch
        /\ \/ NewestOf(bestCkpt') = Snapshot
           \/ bestCkpt # <<>> /\ NewestOf(bestCkpt') = NewestOf(bestCkpt)
    BY <2>1, <2>2, OrbaxSaveNewest
  <2>5. ASSUME sessions = 1, SaveCheckpoints PROVE NewestOf(bestCkpt') = Snapshot
    <3>1. bestCkpt # <<>> => NewestOf(bestCkpt).epoch < Epoch /\ NewestOf(bestCkpt).epoch \in Nat
      BY <2>2, <2>5, NewestBest DEF BestInv
    <3> QED BY <1>0, <2>4, <3>1
  <2>6. best = score
    BY <2>2 DEF BestInv
  <2>7. sessions # 0
    BY <2>2 DEF BestInv
  <2> QED BY <1>0, <2>1, <2>2, <2>3, <2>4, <2>5, <2>6, <2>7 DEF BestInv
<1>10. CASE LogMetrics
  <2>1. /\ pc = "check_stop" /\ NextIteration /\ pc' = "next" /\ EndsEpoch
        /\ UNCHANGED <<startIdx, sessions, best, evals, latest, bestCkpt>>
    BY <1>10 DEF LogMetrics, NextIteration, WorkInv, Body, Locations, diskVars
  <2>2. Epoch' = Epoch + 1
    BY <2>1, EpochAdvances
  <2>3. Judged' = Judged
    BY <2>1 DEF Judged, Unjudged
  <2>4. bestCkpt # <<>> => NewestOf(bestCkpt).epoch \in Nat
    BY NewestBest
  <2>5. bestCkpt # <<>> /\ NewestOf(bestCkpt).epoch <= Epoch => NewestOf(bestCkpt).epoch < Epoch'
    BY <1>0, <2>2, <2>4
  <2> QED BY <2>1, <2>3, <2>5 DEF BestInv
<1>11. CASE Exhausted \/ EarlyStop \/ Crash
  BY <1>11 DEF Exhausted, EarlyStop, Crash, BestInv, diskVars
<1>12. CASE UNCHANGED vars
  BY <1>12 DEF vars, BestInv, Judged, Unjudged, Epoch, BatchIdx, loopVars, evalVars, diskVars
<1> QED BY <1>1, <1>2, <1>3, <1>4, <1>5, <1>6, <1>7, <1>8, <1>9, <1>10, <1>11, <1>12
        DEF Next, Step

(* A run that was started once and ended by itself returns the best metric  *)
(* of all its validations, and left a checkpoint with that metric on disk:  *)
(* neither refused saves nor deleted steps lose the best model.             *)
THEOREM BestIsKept == Spec => []BestOnDiskIsReturned
<1> DEFINE Done == IInv /\ WorkInv /\ JudgeInv /\ BestInv
<1>1. Init => BestInv /\ BestOnDiskIsReturned
  BY DEF Init, BestInv, BestOnDiskIsReturned
<1>2. Done /\ [Next]_vars => BestInv'
  BY BestStep DEF IInv
<1>3. ASSUME Done, BestOnDiskIsReturned, [Next]_vars PROVE BestOnDiskIsReturned'
  <2>1. CASE (Exhausted \/ EarlyStop) /\ evals # <<>>
    <3>1. /\ pc \in {"next", "check_stop"} /\ UNCHANGED <<sessions, evals, best, bestCkpt>>
          /\ evals \in Seq(Nat \X Nat)
      BY <1>3, <2>1 DEF Exhausted, EarlyStop, evalVars, diskVars, IInv, TypeOK
    <3>2. Judged = Len(evals) /\ Judged > 0
      BY <2>1, <3>1 DEF Judged, Unjudged
    <3>3. \A i \in 1 .. Len(evals) : evals[i][2] <= best
      BY <1>3, <3>1, <3>2 DEF JudgeInv, Verdict
    <3>4. sessions = 1 /\ SaveCheckpoints =>
            bestCkpt # <<>> /\ NewestOf(bestCkpt).score = best
      BY <1>3, <3>1, <3>2 DEF BestInv
    <3> QED BY <3>1, <3>3, <3>4 DEF BestOnDiskIsReturned
  <2>2. CASE (Exhausted \/ EarlyStop) /\ evals = <<>>
    BY <2>2 DEF Exhausted, EarlyStop, evalVars, BestOnDiskIsReturned
  <2>3. CASE outcome' \notin {"exhausted", "early_stop"}
    BY <2>3 DEF BestOnDiskIsReturned
  <2>4. CASE pc # "stopped" /\ UNCHANGED outcome
    <3>1. outcome = "running"
      BY <1>3, <2>4 DEF IInv, LoopInv
    <3> QED BY <2>4, <3>1 DEF BestOnDiskIsReturned
  <2>5. CASE UNCHANGED vars
    BY <1>3, <2>5 DEF vars, BestOnDiskIsReturned, evalVars, diskVars
  <2> QED BY <1>3, <2>1, <2>2, <2>3, <2>4, <2>5 DEF Next, Step, Launch, Resume,
          StartSession, NextBatch, TrainStep, EpochValidation, SaveLatest,
          AssertCheckpointsRestore, UpdateBest, SaveBest, LogMetrics, Crash
<1> QED BY <1>1, <1>2, <1>3, InductiveInvariant, WorkInvariant, JudgeInvariant, PTL DEF Spec
=============================================================================
