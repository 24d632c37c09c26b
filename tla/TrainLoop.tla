----------------------------- MODULE TrainLoop -----------------------------
(***************************************************************************)
(* The training session of one worker: _train_fn of train.py with the      *)
(* device prefetcher it pulls batches through, the two Orbax checkpoint    *)
(* managers it writes ("latest" and "best"), early stopping, the metrics   *)
(* it logs, and the two ways a run comes back after it died:               *)
(*   - Launch: run_train_phase again, from scratch, into the same          *)
(*     checkpoint directories (they are named by study and train_id);      *)
(*   - Resume: resume_train_fn, from the newest "latest" checkpoint.       *)
(*                                                                         *)
(* Simplifications.  A batch is its position in the dataloader's stream.   *)
(* The model's weights are the sequence of batches it was trained on (its  *)
(* lineage).  The validation metric is any element of Scores.  An Orbax    *)
(* save followed by wait_until_finished is one atomic commit.  All the     *)
(* workers of an SPMD run take the same steps on the same metric (the      *)
(* metric is a pmean over the devices), so one worker stands for all.      *)
(***************************************************************************)
EXTENDS Integers, Sequences

CONSTANTS
  NumBatches,       \* batches in this worker's dataloader stream, all epochs
  StepsPerEpoch,    \* STEPS_PER_EPOCH_LOCAL
  GlobalBatch,      \* TRAIN_BATCH_SIZE * NUM_TRAIN_SHARDS
  BufferSize,       \* buffer_size of the prefetcher (2 in the code)
  Patience,         \* epochs without improvement that stop the run (5)
  Delay,            \* first epoch whose failure to improve counts (10)
  KeepLatest,       \* max_to_keep of the "latest" manager (2)
  KeepBest,         \* max_to_keep of the "best" manager (1)
  Scores,           \* values of the validation metric, scaled to naturals
  SaveCheckpoints,  \* save_checkpoints: TRUE in "train", FALSE in "tune"
  ValidateRestores, \* config['validate_checkpoint_restores']
  MaxSessions       \* bound on how many times the run is started

(* data_loading raises unless a worker has at least one batch per epoch.   *)
ASSUME TrainAssumption ==
  /\ NumBatches \in Nat /\ StepsPerEpoch \in Nat \ {0}
  /\ GlobalBatch \in Nat \ {0} /\ BufferSize \in Nat \ {0}
  /\ Patience \in Nat \ {0} /\ Delay \in Nat
  /\ KeepLatest \in Nat \ {0} /\ KeepBest \in Nat \ {0}
  /\ Scores \subseteq Nat
  /\ SaveCheckpoints \in BOOLEAN /\ ValidateRestores \in BOOLEAN
  /\ MaxSessions \in Nat

VARIABLES
  pc,        \* where the process is; "stopped" when there is none
  outcome,   \* how the last session ended, "running" while it has not
  sessions,  \* sessions started so far (bounded by MaxSessions)
  iterPos,   \* position of the dataloader iterator: batches drawn from it
  queue,     \* the prefetcher's deque of staged batches
  cur,       \* padded_super_graph: the batch the loop body works on
  startIdx,  \* start_batch_idx
  loopIdx,   \* loop_idx
  model,     \* lineage of the weights
  resumes,   \* history: Resume steps in the lineage of model
  losses,    \* length of epoch_avg_train_loss
  score,     \* global_avg_val_composite_ndcg of the epoch just validated
  best,      \* best_composite_ndcg
  stale,     \* epochs_without_improvement
  checks,    \* restore checks still wanted: validate_checkpoint_restores, 0 or 1
  evals,     \* history: <<epoch, score>> of this session's validations
  logged,    \* epochs sent to MLflow and Vizier by this session
  latest,    \* checkpoints of mngr_latest, oldest first
  bestCkpt   \* checkpoints of mngr_best, oldest first

loopVars == <<iterPos, queue, cur, startIdx, loopIdx, model, resumes, losses>>
evalVars == <<score, best, stale, checks, evals, logged>>
diskVars == <<latest, bestCkpt>>
vars == <<pc, outcome, sessions, loopVars, evalVars, diskVars>>

-----------------------------------------------------------------------------
(* Helpers.                                                                *)

NewestOf(s) == s[Len(s)]
Least(a, b) == IF a < b THEN a ELSE b

BatchIdx == startIdx + loopIdx
Epoch == BatchIdx \div StepsPerEpoch
EndsEpoch == (BatchIdx + 1) % StepsPerEpoch = 0

(* What a save writes: the composite's items, and as history the lineage's *)
(* number of resumes and the metric the saved weights had.                 *)
Snapshot ==
  [epoch |-> Epoch, globalStep |-> BatchIdx * GlobalBatch,
   iterPos |-> iterPos, model |-> model, resumes |-> resumes, score |-> score]

(* CheckpointManager.save(step): refused without an error when a step as   *)
(* new is already there; otherwise committed, and the oldest step beyond   *)
(* max_to_keep deleted.                                                    *)
OrbaxSave(kept, c, maxToKeep) ==
  IF kept # <<>> /\ NewestOf(kept).epoch >= c.epoch THEN kept
  ELSE IF Len(kept) < maxToKeep THEN Append(kept, c) ELSE Append(Tail(kept), c)

(* _enqueue(n): draw up to n batches from the iterator onto the deque.     *)
Drawn(pos, n) == Least(pos + n, NumBatches)
Staged(pos, n) == [i \in 1 .. Drawn(pos, n) - pos |-> pos + i - 1]

(* The loop body ended: the generator resumes after its yield and draws    *)
(* one batch before it looks at the deque again.                           *)
NextIteration ==
  /\ iterPos' = Drawn(iterPos, 1)
  /\ queue' = queue \o Staged(iterPos, 1)
  /\ loopIdx' = loopIdx + 1
  /\ pc' = "next"

-----------------------------------------------------------------------------
Init ==
  /\ pc = "stopped" /\ outcome = "none" /\ sessions = 0
  /\ iterPos = 0 /\ queue = <<>> /\ cur = 0
  /\ startIdx = 0 /\ loopIdx = 0 /\ model = <<>> /\ resumes = 0 /\ losses = 0
  /\ score = 0 /\ best = -1 /\ stale = 0 /\ checks = 0
  /\ evals = <<>> /\ logged = <<>>
  /\ latest = <<>> /\ bestCkpt = <<>>

(* The locals of _train_fn, and the prefetcher's first _enqueue.           *)
StartSession(pos, start, weights, nResumes, check) ==
  /\ pc = "stopped" /\ sessions < MaxSessions
  /\ sessions' = sessions + 1
  /\ outcome' = "running" /\ pc' = "next"
  /\ iterPos' = Drawn(pos, BufferSize) /\ queue' = Staged(pos, BufferSize)
  /\ cur' = 0 /\ startIdx' = start /\ loopIdx' = 0
  /\ model' = weights /\ resumes' = nResumes /\ losses' = 0
  /\ score' = 0 /\ best' = -1 /\ stale' = 0 /\ checks' = check
  /\ evals' = <<>> /\ logged' = <<>>
  /\ UNCHANGED diskVars

(* run_train_phase: fresh weights and a fresh iterator.                    *)
WantedChecks == IF ValidateRestores THEN 1 ELSE 0

Launch == StartSession(0, 0, <<>>, 0, WantedChecks)

(* Mutant: the weights are restored, the dataloader starts over.           *)
ResumeRewound ==
  /\ latest # <<>>
  /\ LET c == NewestOf(latest)
     IN  StartSession(0, c.globalStep \div GlobalBatch, c.model, c.resumes + 1, 0)

(* Mutant: the dataloader is restored, the weights are fresh.              *)
ResumeFreshWeights ==
  /\ latest # <<>>
  /\ LET c == NewestOf(latest)
     IN  StartSession(c.iterPos, c.globalStep \div GlobalBatch, <<>>, c.resumes + 1, 0)

(* resume_train_fn: everything comes from the newest "latest" checkpoint;  *)
(* with none there restore_items_from_checkpoint raises and nothing starts.*)
(* The best metric and the patience counter are not in the checkpoint.     *)
Resume ==
  /\ latest # <<>>
  /\ LET c == NewestOf(latest)
     IN  StartSession(c.iterPos, c.globalStep \div GlobalBatch, c.model,
                      c.resumes + 1, 0)

(* The generator yields the oldest staged batch.                           *)
NextBatch ==
  /\ pc = "next" /\ queue # <<>>
  /\ cur' = Head(queue) /\ queue' = Tail(queue)
  /\ pc' = "train"
  /\ UNCHANGED <<outcome, sessions, iterPos, startIdx, loopIdx, model,
                 resumes, losses, evalVars, diskVars>>

(* Mutant: the generator ends with the iterator and drops what is staged.  *)
ExhaustedTooEarly ==
  /\ pc = "next" /\ iterPos = NumBatches
  /\ pc' = "stopped" /\ outcome' = "exhausted"
  /\ UNCHANGED <<sessions, loopVars, evalVars, diskVars>>

(* Mutant: the generator polls the empty deque ("while True").             *)
ExhaustedPolls == pc = "next" /\ queue = <<>> /\ UNCHANGED vars

(* The deque is empty: the for loop ends and _train_fn returns best.       *)
Exhausted ==
  /\ pc = "next" /\ queue = <<>>
  /\ pc' = "stopped" /\ outcome' = "exhausted"
  /\ UNCHANGED <<sessions, loopVars, evalVars, diskVars>>

(* train_step on the current batch.                                        *)
TrainStep ==
  /\ pc = "train"
  /\ model' = Append(model, cur)
  /\ losses' = losses + 1
  /\ IF EndsEpoch
     THEN pc' = "epoch_end" /\ UNCHANGED <<iterPos, queue, loopIdx>>
     ELSE NextIteration
  /\ UNCHANGED <<outcome, sessions, cur, startIdx, resumes, evalVars, diskVars>>

(* The end of an epoch: the average loss is taken, the model validated.    *)
EpochValidation ==
  /\ pc = "epoch_end"
  /\ losses' = 0
  /\ \E s \in Scores :
       score' = s /\ evals' = Append(evals, <<Epoch, s>>)
  /\ pc' = IF SaveCheckpoints THEN "save_latest" ELSE "update_best"
  /\ UNCHANGED <<outcome, sessions, iterPos, queue, cur, startIdx, loopIdx,
                 model, resumes, best, stale, checks, logged, diskVars>>

(* Mutant: only epochs that improve the metric are saved.                  *)
SaveLatestIfBetter ==
  /\ pc = "save_latest"
  /\ latest' = IF score > best THEN OrbaxSave(latest, Snapshot, KeepLatest) ELSE latest
  /\ pc' = IF checks > 0 THEN "validate" ELSE "update_best"
  /\ UNCHANGED <<outcome, sessions, loopVars, evalVars, bestCkpt>>

SaveLatest ==
  /\ pc = "save_latest"
  /\ latest' = OrbaxSave(latest, Snapshot, KeepLatest)
  /\ pc' = IF checks > 0 THEN "validate" ELSE "update_best"
  /\ UNCHANGED <<outcome, sessions, loopVars, evalVars, bestCkpt>>

(* _assert_checkpoints_restore: the newest checkpoint must hold the model. *)
RestoredModelAgrees == NewestOf(latest).model = model

AssertCheckpointsRestore ==
  /\ pc = "validate"
  /\ IF RestoredModelAgrees
     THEN /\ checks' = 0 /\ pc' = "update_best" /\ UNCHANGED outcome
     ELSE /\ pc' = "stopped" /\ outcome' = "failed" /\ UNCHANGED checks
  /\ UNCHANGED <<sessions, loopVars, score, best, stale, evals, logged, diskVars>>

(* Mutant: an improvement does not give the patience back.                 *)
UpdateBestKeepsStale ==
  /\ pc = "update_best"
  /\ \/ /\ score > best
        /\ best' = score /\ UNCHANGED stale
        /\ pc' = IF SaveCheckpoints THEN "save_best" ELSE "check_stop"
     \/ /\ score <= best
        /\ stale' = IF Epoch >= Delay THEN stale + 1 ELSE stale
        /\ pc' = "check_stop" /\ UNCHANGED best
  /\ UNCHANGED <<outcome, sessions, loopVars, score, checks, evals, logged,
                 diskVars>>

(* Mutant: the comparison is with the previous epoch, not with the best.   *)
UpdateBestFollowsLast ==
  /\ pc = "update_best"
  /\ best' = score
  /\ \/ /\ score > best /\ stale' = 0
        /\ pc' = IF SaveCheckpoints THEN "save_best" ELSE "check_stop"
     \/ /\ score <= best
        /\ stale' = IF Epoch >= Delay THEN stale + 1 ELSE stale
        /\ pc' = "check_stop"
  /\ UNCHANGED <<outcome, sessions, loopVars, score, checks, evals, logged,
                 diskVars>>

(* Better by more than the tolerance, or one more epoch of patience gone.  *)
UpdateBest ==
  /\ pc = "update_best"
  /\ \/ /\ score > best
        /\ best' = score /\ stale' = 0
        /\ pc' = IF SaveCheckpoints THEN "save_best" ELSE "check_stop"
     \/ /\ score <= best
        /\ stale' = IF Epoch >= Delay THEN stale + 1 ELSE stale
        /\ pc' = "check_stop" /\ UNCHANGED best
  /\ UNCHANGED <<outcome, sessions, loopVars, score, checks, evals, logged,
                 diskVars>>

SaveBest ==
  /\ pc = "save_best"
  /\ bestCkpt' = OrbaxSave(bestCkpt, Snapshot, KeepBest)
  /\ pc' = "check_stop"
  /\ UNCHANGED <<outcome, sessions, loopVars, evalVars, latest>>

(* Patience ran out: leave the loop, ahead of the logging below it.        *)
EarlyStop ==
  /\ pc = "check_stop" /\ stale >= Patience
  /\ pc' = "stopped" /\ outcome' = "early_stop"
  /\ UNCHANGED <<sessions, loopVars, evalVars, diskVars>>

(* mlflow.log_metrics and trial.add_measurement, then the next batch.      *)
LogMetrics ==
  /\ pc = "check_stop" /\ stale < Patience
  /\ logged' = Append(logged, Epoch)
  /\ NextIteration
  /\ UNCHANGED <<outcome, sessions, cur, startIdx, model, resumes, losses,
                 score, best, stale, checks, evals, diskVars>>

(* The process dies: only the checkpoints survive.                         *)
Crash ==
  /\ pc # "stopped"
  /\ pc' = "stopped" /\ outcome' = "crashed"
  /\ UNCHANGED <<sessions, loopVars, evalVars, diskVars>>

Step ==
  \/ NextBatch \/ Exhausted \/ TrainStep \/ EpochValidation
  \/ SaveLatest \/ AssertCheckpointsRestore \/ UpdateBest \/ SaveBest
  \/ EarlyStop \/ LogMetrics

Next == Launch \/ Resume \/ Step \/ Crash

Spec == Init /\ [][Next]_vars

(* A live process keeps executing; nobody is obliged to start it again.    *)
FairSpec == Spec /\ WF_vars(Step)

-----------------------------------------------------------------------------
(* Type invariant.                                                         *)

Checkpoint ==
  [epoch : Nat, globalStep : Nat, iterPos : 0 .. NumBatches, model : Seq(Nat),
   resumes : Nat, score : Nat]

Locations ==
  {"stopped", "next", "train", "epoch_end", "save_latest", "validate",
   "update_best", "save_best", "check_stop"}

TypeOK ==
  /\ pc \in Locations
  /\ outcome \in {"none", "running", "exhausted", "early_stop", "failed", "crashed"}
  /\ sessions \in Nat
  /\ iterPos \in 0 .. NumBatches /\ queue \in Seq(Nat) /\ cur \in Nat
  /\ startIdx \in Nat /\ loopIdx \in Nat
  /\ model \in Seq(Nat) /\ resumes \in Nat /\ losses \in Nat
  /\ score \in Nat /\ best \in Nat \cup {-1} /\ stale \in Nat
  /\ checks \in Nat
  /\ evals \in Seq(Nat \X Nat) /\ logged \in Seq(Nat)
  /\ latest \in Seq(Checkpoint) /\ bestCkpt \in Seq(Checkpoint)

-----------------------------------------------------------------------------
(* Properties.                                                             *)

Increasing(s) == \A i, j \in 1 .. Len(s) : i < j => s[i] < s[j]

(* No batch of the stream is trained into one set of weights twice, however *)
(* often the run died and was resumed: the iterator saved with the weights  *)
(* is never behind them.                                                    *)
NoBatchTrainedTwice ==
  /\ Increasing(model)
  /\ \A i \in 1 .. Len(latest) : Increasing(latest[i].model)
  /\ \A i \in 1 .. Len(bestCkpt) : Increasing(bestCkpt[i].model)

(* The prefetcher runs ahead of training when the iterator is saved, so a   *)
(* resume skips staged batches: never more than BufferSize - 1 per resume,  *)
(* and a run that was never resumed and came to its end skipped none.       *)
BoundedLoss ==
  outcome = "exhausted" =>
    NumBatches - Len(model) <= resumes * (BufferSize - 1)

(* The two kept checkpoints are of successive epochs, and no "best"         *)
(* checkpoint is of a later epoch than the newest "latest": whatever the    *)
(* crashes, relaunches and refused saves, a resume can always reach the     *)
(* epoch the best model came from.                                          *)
CheckpointsInStep ==
  /\ \A i \in 1 .. Len(latest) - 1 : latest[i + 1].epoch = latest[i].epoch + 1
  /\ bestCkpt # <<>> =>
       latest # <<>> /\ NewestOf(bestCkpt).epoch <= NewestOf(latest).epoch

(* A crash throws away the work of one epoch at most: the batch being       *)
(* trained is never more than StepsPerEpoch past the one of the newest      *)
(* checkpoint, and of the first epoch when there is none.                   *)
WorkAtRisk ==
  SaveCheckpoints /\ pc # "stopped" =>
    IF latest = <<>> THEN BatchIdx < StepsPerEpoch
    ELSE BatchIdx - (NewestOf(latest).globalStep \div GlobalBatch) <= StepsPerEpoch

(* Early stopping happens exactly when the last Patience validations of the *)
(* session, all of them at or after epoch Delay, failed to beat what came   *)
(* before them: never sooner, and a session that goes on has not seen that. *)
PatienceSpent ==
  /\ Len(evals) > Patience
  /\ \A i \in Len(evals) - Patience + 1 .. Len(evals) :
       /\ evals[i][1] >= Delay
       /\ \E j \in 1 .. i - 1 : evals[j][2] >= evals[i][2]

EarlyStopExactlyWhenSpent ==
  /\ outcome = "early_stop" => PatienceSpent
  /\ pc \in {"next", "train"} => ~PatienceSpent

(* Of a run that was started once and ended by itself, the "best"           *)
(* checkpoint on disk is of a model that reached the metric returned, and   *)
(* no validated epoch did better.                                           *)
BestOnDiskIsReturned ==
  sessions = 1 /\ outcome \in {"exhausted", "early_stop"} /\ evals # <<>> =>
    /\ \A i \in 1 .. Len(evals) : evals[i][2] <= best
    /\ SaveCheckpoints => bestCkpt # <<>> /\ NewestOf(bestCkpt).score = best

(* A session that was started ends: the prefetcher drains, the loop leaves. *)
SessionEnds == pc # "stopped" ~> pc = "stopped"

-----------------------------------------------------------------------------
(* The promise of checkpointing, and its refinement mapping.               *)

DiskModels(kept) == {kept[i].model : i \in 1 .. Len(kept)}

Abstract == INSTANCE CheckpointedTraining WITH
  weights <- model, saved <- DiskModels(latest) \cup DiskModels(bestCkpt),
  MaxGap <- BufferSize

RefinesCheckpointedTraining == Abstract!Spec
=============================================================================
