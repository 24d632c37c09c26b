------------------------ MODULE CheckpointedTraining ------------------------
(***************************************************************************)
(* What checkpointed training promises, whatever loop and storage do it:   *)
(* the weights only ever move forward along the stream of batches, skipping *)
(* fewer than MaxGap of them, and after a failure they are either fresh or  *)
(* exactly some weights that were saved.  Old saves may be deleted, but     *)
(* never the last one.  An abstraction of _train_fn, resume_train_fn and    *)
(* the checkpoint managers.                                                 *)
(***************************************************************************)
EXTENDS Integers, Sequences

CONSTANT MaxGap    \* a step forward is at most this long

VARIABLES
  weights,         \* the sequence of batches trained into the weights
  saved            \* the set of weights on disk

Init == weights = <<>> /\ saved = {}

LastBatch == IF weights = <<>> THEN -1 ELSE weights[Len(weights)]

TrainOn(b) ==
  /\ LastBatch < b /\ b <= LastBatch + MaxGap
  /\ weights' = Append(weights, b)
  /\ UNCHANGED saved

Save ==
  /\ saved' # {} /\ saved' \subseteq saved \cup {weights}
  /\ UNCHANGED weights

Recover ==
  /\ weights' \in saved \cup {<<>>}
  /\ UNCHANGED saved

Train == \E b \in LastBatch + 1 .. LastBatch + MaxGap : TrainOn(b)

Next == Train \/ Save \/ Recover

Spec == Init /\ [][Next]_<<weights, saved>>
=============================================================================
