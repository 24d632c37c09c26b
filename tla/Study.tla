------------------------------- MODULE Study -------------------------------
(***************************************************************************)
(* Hyperparameter tuning and the training with its winner, as the workers  *)
(* of one SPMD job run them (app_runner_inner.py): run_tune and run_train  *)
(* for phase 'train-best'.  Every worker runs the same code; worker 0 alone *)
(* talks to Vizier and MLflow, between collectives in which all workers    *)
(* must take part.  A launch may lose any worker at any point and the      *)
(* phase may then be launched again; Vizier and MLflow keep what they have. *)
(*                                                                         *)
(* Simplifications.  The parameters of a trial are the trial's number: two *)
(* trials of one tier are still told apart.  A training session (_train_fn) *)
(* is one collective with any metric; TrainLoop opens it.  A collective is *)
(* one step of all workers.  Launches come one after the other.            *)
(***************************************************************************)
EXTENDS Integers, Sequences, FiniteSets

CONSTANTS
  NumWorkers,   \* jax.process_count()
  NumTrials,    \* len(config['trial_ids']) of a 'tune' launch
  NumTiers,     \* feasible values of hpo_tier (3)
  Scores,       \* values of the validation metric, scaled to naturals
  MaxLaunches   \* bound on how often a phase is launched

ASSUME StudyAssumption ==
  /\ NumWorkers \in Nat \ {0} /\ NumTrials \in Nat \ {0}
  /\ NumTiers \in Nat \ {0} /\ Scores \subseteq Nat /\ MaxLaunches \in Nat

Workers == 0 .. NumWorkers - 1
Phases == {"tune", "train-best"}

VARIABLES
  phase,      \* config['phase'] of the latest launch
  launches,   \* launches so far
  at,         \* where each worker is; "off" when its process is gone
  turn,       \* each worker's index into trial_ids, from 1
  hparams,    \* the trial whose parameters each worker holds; 0: {}
  suggested,  \* worker 0's suggested_trials
  extras,     \* worker 0's delete_trials, as a set
  metric,     \* best_val_composite_ndcg_k of the latest session; -1.0 at first
  trials,     \* Vizier: every trial of the study, by number
  parents,    \* MLflow: parent runs of each phase; -1: no experiment yet
  runs        \* MLflow: the child runs, in the order they were started

localVars == <<turn, hparams, suggested, extras, metric>>
storeVars == <<trials, parents, runs>>
vars == <<phase, launches, at, localVars, storeVars>>

Over == \A w \in Workers : at[w] \in {"off", "done"}
All(place) == \A w \in Workers : at[w] = place
Go(w, place) == at' = [at EXCEPT ![w] = place]
GoApart(chief, others) == at' = [w \in Workers |-> IF w = 0 THEN chief ELSE others]

TierOf(t) == trials[t].tier
Have == {TierOf(suggested[i]) : i \in DOMAIN suggested}

-----------------------------------------------------------------------------
(* Vizier (external).                                                      *)

(* GRID_SEARCH walks the only parameter with more than one value.          *)
GridTier(t) == (t - 1) % NumTiers

(* The trials a client has been given and not yet reported.                *)
OwnActive(client) ==
  {t \in DOMAIN trials : trials[t].state = "ACTIVE" /\ trials[t].client = client}

InOrder(S) ==
  CHOOSE s \in [1 .. Cardinality(S) -> S] : \A i, j \in DOMAIN s : i < j => s[i] < s[j]

(* study.suggest(count, client_id): a client that has ACTIVE trials is     *)
(* given those first, and new ones only for what is missing to the count.  *)
Missing(count, client) ==
  IF Cardinality(OwnActive(client)) >= count THEN 0 ELSE count - Cardinality(OwnActive(client))

Created(n, client) ==
  [i \in 1 .. n |-> [tier |-> GridTier(Len(trials) + i), state |-> "ACTIVE",
                     client |-> client, metric |-> -1, run |-> 0]]

Given(count, client) ==
  LET own == InOrder(OwnActive(client))
      new == [i \in 1 .. Missing(count, client) |-> Len(trials) + i]
  IN  SubSeq(own \o new, 1, count)

-----------------------------------------------------------------------------
Init ==
  /\ phase = "tune" /\ launches = 0
  /\ at = [w \in Workers |-> "off"]
  /\ turn = [w \in Workers |-> 1] /\ hparams = [w \in Workers |-> 0]
  /\ suggested = <<>> /\ extras = {} /\ metric = -1
  /\ trials = <<>> /\ parents = [p \in Phases |-> -1] /\ runs = <<>>

(* A launch starts all workers; all but worker 0 go straight to the first  *)
(* collective of the phase.                                                *)
Launch ==
  /\ Over /\ launches < MaxLaunches
  /\ launches' = launches + 1
  /\ phase' \in Phases
  /\ GoApart("start", IF phase' = "tune" THEN "at_vizier" ELSE "share")
  /\ turn' = [w \in Workers |-> 1] /\ hparams' = [w \in Workers |-> 0]
  /\ suggested' = <<>> /\ extras' = {} /\ metric' = -1
  /\ UNCHANGED storeVars

AfterParent == IF phase = "tune" THEN "at_vizier" ELSE "best"

(* The experiment is created when there is none; its parent run of this    *)
(* phase is looked up when there is one.                                   *)
OpenExperiment ==
  /\ at[0] = "start"
  /\ parents' = IF parents[phase] = -1 THEN [p \in Phases |-> 0] ELSE parents
  /\ Go(0, IF parents[phase] > 0 THEN AfterParent ELSE "parent")
  /\ UNCHANGED <<phase, launches, localVars, trials, runs>>

StartParentRun ==
  /\ at[0] = "parent"
  /\ parents' = [parents EXCEPT ![phase] = @ + 1]
  /\ Go(0, AfterParent)
  /\ UNCHANGED <<phase, launches, localVars, trials, runs>>

(* sync_global_devices("sync_barrier_for_vizier").                         *)
PassVizierBarrier ==
  /\ All("at_vizier")
  /\ GoApart("suggest", "share")
  /\ UNCHANGED <<phase, launches, localVars, storeVars>>

(* Mutant: the client is named by the study alone.                         *)
ClientOfStudy == 1

(* The resource name with a fresh uuid4: no two launches share it.         *)
ClientId == launches

(* A suggested trial whose tier is there already is set aside to be        *)
(* deleted, even when it is the one that brought the tier.                 *)
Sort(kept, t, tierOf) ==
  IF \E i \in DOMAIN kept.keep : tierOf[kept.keep[i]] = tierOf[t]
  THEN [kept EXCEPT !.drop = @ \cup {t}]
  ELSE [kept EXCEPT !.keep = Append(@, t)]

(* What is kept and what set aside after all that was given.               *)
Sorted(given, tierOf) ==
  LET kept[i \in 0 .. Len(given)] ==
        IF i = 0 THEN [keep |-> suggested, drop |-> extras]
        ELSE Sort(kept[i - 1], given[i], tierOf)
  IN  kept[Len(given)]

(* One round of the loop over study.suggest.                               *)
Suggest ==
  /\ at[0] = "suggest" /\ Cardinality(Have) < NumTrials
  /\ trials' = trials \o Created(Missing(NumTrials, ClientId), ClientId)
  /\ LET tierOf == [t \in DOMAIN trials' |-> trials'[t].tier]
         sorted == Sorted(Given(NumTrials, ClientId), tierOf)
     IN  suggested' = sorted.keep /\ extras' = sorted.drop
  /\ UNCHANGED <<phase, launches, at, turn, hparams, metric, parents, runs>>

(* Mutant: the loop asks for one tier more than there are trials.          *)
FinishSuggestionsLate ==
  /\ at[0] = "suggest" /\ Cardinality(Have) > NumTrials
  /\ hparams' = [hparams EXCEPT ![0] = suggested[1]]
  /\ Go(0, "share")
  /\ UNCHANGED <<phase, launches, turn, suggested, extras, metric, storeVars>>

(* The loop is left and what was set aside is deleted.                     *)
FinishSuggestions ==
  /\ at[0] = "suggest" /\ Cardinality(Have) >= NumTrials
  /\ trials' = [t \in DOMAIN trials |->
       IF t \in extras THEN [trials[t] EXCEPT !.state = "DELETED"] ELSE trials[t]]
  /\ extras' = {}
  /\ hparams' = [hparams EXCEPT ![0] = suggested[1]]
  /\ Go(0, "share")
  /\ UNCHANGED <<phase, launches, turn, suggested, metric, parents, runs>>

(* Mutant: the best of all trials, whatever became of them.                *)
GetBestOfAny ==
  /\ at[0] = "best"
  /\ \E t \in DOMAIN trials : hparams' = [hparams EXCEPT ![0] = t]
  /\ Go(0, "share")
  /\ UNCHANGED <<phase, launches, turn, suggested, extras, metric, storeVars>>

Completed == {t \in DOMAIN trials : trials[t].state = "COMPLETED"}
Optimal == {t \in Completed : \A u \in Completed : trials[u].metric <= trials[t].metric}

(* study.optimal_trials().                                                 *)
GetBest ==
  /\ at[0] = "best"
  /\ \E t \in Optimal : hparams' = [hparams EXCEPT ![0] = t]
  /\ Go(0, "share")
  /\ UNCHANGED <<phase, launches, turn, suggested, extras, metric, storeVars>>

NoBestTrial ==
  /\ at[0] = "best" /\ Optimal = {}
  /\ Go(0, "off")
  /\ UNCHANGED <<phase, launches, localVars, storeVars>>

(* Mutant: every worker keeps the parameters it came with.                 *)
ShareNothing ==
  /\ All("share")
  /\ at' = [w \in Workers |-> "at_trial"]
  /\ UNCHANGED <<phase, launches, localVars, storeVars>>

(* sync_hyperparams: an allgather of which everyone keeps worker 0's part. *)
ShareParams ==
  /\ All("share")
  /\ hparams' = [w \in Workers |-> hparams[0]]
  /\ at' = [w \in Workers |-> "at_trial"]
  /\ UNCHANGED <<phase, launches, turn, suggested, extras, metric, storeVars>>

(* sync_barrier_for_trial_{trial_id}, sync_barrier_for_train_best: the     *)
(* barrier's name is part of it.                                           *)
PassTrialBarrier ==
  /\ All("at_trial") /\ \A v, w \in Workers : turn[v] = turn[w]
  /\ GoApart("train", "session")
  /\ metric' = -1
  /\ UNCHANGED <<phase, launches, turn, hparams, suggested, extras, storeVars>>

StartRun ==
  /\ at[0] = "train"
  /\ runs' = Append(runs, [phase |-> phase, trial |-> hparams[0], state |-> "RUNNING",
                           metric |-> -1, launch |-> launches])
  /\ Go(0, "session")
  /\ UNCHANGED <<phase, launches, localVars, trials, parents>>

(* Mutant: the loop over trial_ids leaves out the last.                    *)
AfterTrialShort(w) ==
  IF phase = "tune" /\ turn[w] < NumTrials - 1 THEN "share" ELSE "done"

(* Where worker w goes after a trial: to the next of trial_ids, or out.    *)
AfterTrial(w) == IF phase = "tune" /\ turn[w] < NumTrials THEN "share" ELSE "done"

(* _train_fn: the collectives inside it make one step of it.  What worker  *)
(* 0 does next is still to be recorded; the others are through.            *)
TrainSession ==
  /\ All("session")
  /\ metric' \in Scores
  /\ at' = [w \in Workers |-> IF w = 0 THEN "end_run" ELSE AfterTrial(w)]
  /\ turn' = [w \in Workers |-> IF w = 0 THEN turn[w] ELSE turn[w] + 1]
  /\ UNCHANGED <<phase, launches, hparams, suggested, extras, storeVars>>

FinishedRuns ==
  [runs EXCEPT ![Len(runs)] = [@ EXCEPT !.state = "FINISHED", !.metric = metric]]

(* The finally block of run_train_phase, reached with the session's metric. *)
EndRun ==
  /\ at[0] = "end_run"
  /\ runs' = FinishedRuns
  /\ Go(0, IF phase = "tune" THEN "metadata" ELSE "done")
  /\ UNCHANGED <<phase, launches, localVars, trials, parents>>

UpdateMetadata ==
  /\ at[0] = "metadata"
  /\ trials' = [trials EXCEPT ![suggested[turn[0]]].run = Len(runs)]
  /\ Go(0, "complete")
  /\ UNCHANGED <<phase, launches, localVars, parents, runs>>

(* Mutant: the metric goes to the trial that is up next.                   *)
CompleteOffByOne ==
  /\ at[0] = "complete"
  /\ LET next == IF turn[0] < NumTrials THEN turn[0] + 1 ELSE turn[0]
     IN  /\ trials' = [trials EXCEPT ![suggested[next]] =
                         [@ EXCEPT !.state = "COMPLETED", !.metric = metric]]
         /\ hparams' = [hparams EXCEPT ![0] = suggested[next]]
  /\ turn' = [turn EXCEPT ![0] = @ + 1]
  /\ Go(0, AfterTrial(0))
  /\ UNCHANGED <<phase, launches, suggested, extras, metric, parents, runs>>

(* The metric is reported; the next trial's parameters are taken.          *)
Complete ==
  /\ at[0] = "complete"
  /\ trials' = [trials EXCEPT ![suggested[turn[0]]] =
                  [@ EXCEPT !.state = "COMPLETED", !.metric = metric]]
  /\ turn' = [turn EXCEPT ![0] = @ + 1]
  /\ hparams' = IF turn[0] < NumTrials
                THEN [hparams EXCEPT ![0] = suggested[turn[0] + 1]] ELSE hparams
  /\ Go(0, AfterTrial(0))
  /\ UNCHANGED <<phase, launches, suggested, extras, metric, parents, runs>>

(* A worker's process is gone, or raised where nothing catches.            *)
Fail(w) ==
  /\ at[w] \notin {"off", "done"}
  /\ Go(w, "off")
  /\ UNCHANGED <<phase, launches, localVars, storeVars>>

(* Worker 0 raises in the session: the finally block ends the run as if it *)
(* had been completed, with the metric it was given before the session.    *)
RaiseInSession ==
  /\ at[0] = "session"
  /\ runs' = FinishedRuns
  /\ Go(0, "off")
  /\ UNCHANGED <<phase, launches, localVars, trials, parents>>

(* The coordination service ends whoever has lost a peer (external).       *)
Teardown ==
  /\ \E v \in Workers : at[v] = "off"
  /\ \E w \in Workers : Fail(w)

Step ==
  \/ OpenExperiment \/ StartParentRun \/ PassVizierBarrier
  \/ Suggest \/ FinishSuggestions \/ GetBest \/ NoBestTrial
  \/ ShareParams \/ PassTrialBarrier \/ StartRun \/ TrainSession
  \/ EndRun \/ UpdateMetadata \/ Complete

Next ==
  \/ Launch \/ Step \/ RaiseInSession \/ Teardown
  \/ \E w \in Workers : Fail(w)

Spec == Init /\ [][Next]_vars

(* Worker code keeps running, and a job that has lost a worker is ended.   *)
FairSpec == Spec /\ WF_vars(Step) /\ WF_vars(Teardown)

-----------------------------------------------------------------------------
(* Types of what a worker moves by.                                        *)
TypeOK ==
  /\ phase \in Phases /\ launches \in Nat
  /\ at \in [Workers -> {"off", "done", "start", "parent", "at_vizier", "suggest", "best",
                         "share", "at_trial", "train", "session", "end_run",
                         "metadata", "complete"}]
  /\ turn \in [Workers -> Nat]
  /\ DOMAIN hparams = Workers
  /\ metric \in Scores \cup {-1}
  /\ parents \in [Phases -> Nat \cup {-1}]

(* Workers in a session together train the same trial, in the same round   *)
(* of the loop, and it is the one worker 0 will report the metric of:      *)
(* otherwise the collectives inside the session mix models of different    *)
(* shapes (run_tune 484-490, run_train 577-588).                           *)
SameParameters ==
  All("session") =>
    /\ \A v, w \in Workers : hparams[v] = hparams[w] /\ turn[v] = turn[w]
    /\ phase = "tune" => hparams[0] = suggested[turn[0]]
    /\ runs[Len(runs)].trial = hparams[0]

(* The two stores agree: a trial Vizier holds as completed names, in its    *)
(* metadata, a finished MLflow run that trained this trial in the tune     *)
(* phase and logged the same metric, although the three writes (end_run,   *)
(* update_metadata, complete) may be cut short anywhere (508-510).         *)
MetricOfItsRun ==
  \A t \in Completed :
    LET r == trials[t].run
    IN  /\ r # 0
        /\ runs[r].phase = "tune" /\ runs[r].trial = t
        /\ runs[r].state = "FINISHED" /\ runs[r].metric = trials[t].metric

(* No trial is trained by two tune runs, even when a launch failed and the *)
(* phase is launched again: the client's fresh id (447) sees to that.      *)
TrainedOnce ==
  \A q, r \in DOMAIN runs :
    runs[q].phase = "tune" /\ runs[r].phase = "tune" /\ runs[q].trial = runs[r].trial
      => q = r

(* A phase never gets two parent runs, whatever was cut short before: the  *)
(* one of an earlier launch is found again (399-427, 545-572).             *)
OneParentRun == \A p \in Phases : parents[p] <= 1

(* What was done before a failure is not done again after it.              *)
NothingTwice == TrainedOnce /\ OneParentRun

(* Training for the release uses a completed trial, and none that was      *)
(* completed when it began had a higher metric (get_best_parameters).      *)
BestIsTrained ==
  (phase = "train-best" /\ All("session")) => hparams[0] \in Optimal

(* A tune launch in which nobody failed leaves one completed trial for     *)
(* each of its trial_ids, each of another tier, and no trial of its own    *)
(* active (455-510).                                                       *)
TuneAccounts ==
  (phase = "tune" /\ All("done")) =>
    LET mine == {t \in DOMAIN trials : trials[t].client = launches}
    IN  /\ mine \subseteq Completed /\ Cardinality(mine) = NumTrials
        /\ \A t, u \in mine : trials[t].tier = trials[u].tier => t = u

(* A launch ends: every worker finishes, or is ended because another       *)
(* failed.  Between collectives no worker waits for one that will not come. *)
LaunchEnds == ~Over ~> Over
=============================================================================
