------------------------------ MODULE Pipeline ------------------------------
(***************************************************************************)
(* The pipeline around the phases: tune, export, train with the winner,    *)
(* export, test, export.  Four programs drive it; the stores of a behaviour *)
(* are those of one of them (kind and kfp read the same train_job.yaml, and *)
(* what the one can do to the other is ClusterTakenAway):                   *)
(*   xmanager  launcher_pipeline.py: empties the stores first, no test;    *)
(*   tmp       tmp_launcher.py: the same, but only tunes and exports;      *)
(*   kind      run_app_trainer.py: a TrainJob per phase in a kind cluster  *)
(*             made for the pipeline, over stores mounted from the host;   *)
(*   kfp       run_app_trainer_kfp.py: the same TrainJobs as the tasks of  *)
(*             an Argo workflow in the cluster; once it is submitted, pc   *)
(*             is the workflow's, and the program only waits for it.       *)
(* What a phase does to the stores is main of app_runner_inner.py: run_tune, *)
(* run_train, run_test_phase and run_export_results.                       *)
(*                                                                         *)
(* Simplifications.  The workers of a job act as one and Vizier answers    *)
(* with trials of different tiers (Study opens both).  A trial is told by  *)
(* the MLflow run that trained it.  A checkpoint is the run and epoch that *)
(* saved it.  Of a checkpoint directory only the newest step is kept: it is *)
(* the only one a save or a restore looks at.  Pipelines come one by one.  *)
(***************************************************************************)
EXTENDS Integers, Sequences, FiniteSets, FiniteSetsExt, Functions

CONSTANTS
  Drivers,      \* the programs to look at
  TrialCounts,  \* for each driver, the values of num_trials to look at
  PerWorker,    \* for each driver, num_trials_per_worker
  NumTiers,     \* values of hpo_tier a study has (3)
  NumEpochs,    \* num_epochs (2)
  Scores,       \* values of a trial's metric, scaled to naturals
  MaxRetries,   \* of a command that reaches the network (3)
  MaxPipelines  \* bound on how many pipelines are started

Launchers == {"xmanager", "tmp"}
Clustered == {"kind", "kfp"}

ASSUME PipelineAssumption ==
  /\ Drivers \subseteq Launchers \union Clustered
  /\ \A d \in Drivers : TrialCounts[d] \subseteq Nat \ {0} /\ PerWorker[d] \in Nat \ {0}
  /\ NumTiers \in Nat /\ MaxRetries \in Nat /\ NumEpochs \in Nat \ {0}
  /\ Scores \subseteq Nat /\ MaxPipelines \in Nat

VARIABLES
  driver,     \* which program
  numTrials,  \* num_trials of this pipeline
  pipeline,   \* pipelines started so far: the number of this one
  waiting,    \* kfp: its program waits for the workflow it submitted
  pc,         \* where the driver is; "idle" between pipelines
  at,         \* the entry of the plan (or of ResetOrder) it is at
  ended,      \* history: jobs of this pipeline whose program ran to its end
  cleared,    \* history: which of Traced had their reset succeed
  uses,       \* history: what the phases of this pipeline picked
  cluster,    \* whether the kind cluster exists
  job,        \* the job on the machines: its phase and how far it is
  trials,     \* Vizier: the completed trials of the study, in order
  runs,       \* MLflow: the runs of the experiment, by run id
  lastRun,    \* the newest run id given out
  bucket,     \* the newest step of the "latest" and the "best" directory
  results     \* hpo-results-bucket: the run each file was written from

driverVars == <<driver, numTrials, pipeline, waiting, pc, at>>
storeVars == <<trials, runs, lastRun, bucket, results>>
vars == <<driverVars, ended, cleared, uses, cluster, job, storeVars>>

-----------------------------------------------------------------------------
(* The plans: which jobs in which order.                                   *)

Ids(from, upTo) == [k \in 1 .. upTo - from |-> from + k - 1]
NumChunks == (numTrials + PerWorker[driver] - 1) \div PerWorker[driver]

(* range(i, i + num_trials_per_worker), not cut at num_trials.             *)
LauncherChunk(i) == Ids((i - 1) * PerWorker[driver], i * PerWorker[driver])

(* Mutant: the comprehension of the kind driver forgets val < NUM_TRIALS.  *)
KindChunkUncut(i) == LauncherChunk(i)

(* The kind driver keeps of that range what is below num_trials.           *)
Cut(n) == IF n < numTrials THEN n ELSE numTrials
KindChunk(i) == Ids((i - 1) * PerWorker[driver], Cut(i * PerWorker[driver]))

Tune(ids) == [phase |-> "tune", ids |-> ids]
Phase(p) == [phase |-> p, ids |-> <<>>]

XmanagerPlan ==
  [i \in 1 .. NumChunks |-> Tune(LauncherChunk(i))]
    \o <<Phase("export-hpo-results"), Phase("train-best")>>

TmpPlan == <<Tune(Ids(0, numTrials)), Phase("export-hpo-results")>>

KindPlan ==
  [i \in 1 .. NumChunks |-> Tune(KindChunk(i))]
    \o <<Phase("export-hpo-results"), Phase("train-best"),
         Phase("export-train-results"), Phase("test-best"),
         Phase("export-test-results")>>

GenerateTrialIds == Ids(0, numTrials)

KfpPlan ==
  <<Tune(GenerateTrialIds), Phase("export-hpo-results"), Phase("train-best"),
    Phase("export-train-results"), Phase("test-best"),
    Phase("export-test-results")>>

Plan == CASE driver = "xmanager" -> XmanagerPlan
          [] driver = "tmp" -> TmpPlan
          [] driver = "kind" -> KindPlan
          [] driver = "kfp" -> KfpPlan

(* validate_checkpoint_restores: the launcher asks for it, train_job.yaml  *)
(* does not.                                                               *)
Validates == driver = "xmanager"

-----------------------------------------------------------------------------
(* The stores.                                                             *)

NoStep == [run |-> 0, by |-> 0, epoch |-> -1]
NoResults == [hparams |-> 0, tune |-> 0, train |-> 0, test |-> 0]
NoUses == [exported |-> 0, trained |-> 0, trainRun |-> 0, trainExport |-> 0,
           tested |-> 0, model |-> NoStep]
NoJob == [phase |-> "none", left |-> <<>>, step |-> 0, run |-> 0, by |-> 0,
          state |-> "none"]

(* study.optimal_trials(), its first element; 0 when there is none         *)
(* (external).                                                             *)
Optimal ==
  LET best == {i \in DOMAIN trials :
                 \A j \in DOMAIN trials : trials[j].score <= trials[i].score}
  IN  IF best = {} THEN 0 ELSE trials[Min(best)].run

(* The runs that mlflow.search_runs finds for a name like 'train_%'        *)
(* (external), and the two orders the code asks for.                       *)
RunsOf(kind) == {r \in DOMAIN runs : runs[r].kind = kind}
StartedLast(kind) == Max(RunsOf(kind))
EndedLast(kind) ==
  CHOOSE r \in RunsOf(kind) : \A q \in RunsOf(kind) : runs[q].end <= runs[r].end

StartRun(kind) ==
  /\ lastRun' = lastRun + 1
  /\ runs' = [r \in DOMAIN runs \union {lastRun + 1} |->
                IF r \in DOMAIN runs THEN runs[r]
                ELSE [kind |-> kind, by |-> job.by, end |-> 0]]

(* mlflow.end_run: 0 is a run that is still open.                          *)
Ending(r) ==
  [runs EXCEPT ![r].end = 1 + Cardinality({q \in DOMAIN runs : runs[q].end > 0})]

(* CheckpointManager.save: refused without an error at a step that is not  *)
(* above the newest one (external, as in CheckpointedTraining).            *)
SaveStep(kept, r, e) ==
  IF kept.epoch >= e THEN kept ELSE [run |-> r, by |-> job.by, epoch |-> e]

-----------------------------------------------------------------------------
(* The driver.                                                             *)

(* The stores a stale item could be picked from.                           *)
Traced == {"latest", "best", "vizier"}

(* A trial's id is the one thing left out: it comes out of the plan.        *)
TypeOK ==
  /\ driver \in Drivers /\ numTrials \in TrialCounts[driver]
  /\ pipeline \in 0 .. MaxPipelines
  /\ pc \in {"idle", "reset", "create", "prepare", "deploy",
            "backend", "submit", "watch", "paused", "teardown"}
  /\ waiting \in BOOLEAN
  /\ at \in Nat \ {0} /\ ended \in Nat /\ lastRun \in Nat /\ cluster \in BOOLEAN
  /\ cleared \subseteq Traced
  /\ DOMAIN job = DOMAIN NoJob
  /\ job.step \in Nat /\ job.run \in Nat /\ job.by \in Nat
  /\ job.state \in {"none", "running", "succeeded", "failed"}
  /\ \A i \in DOMAIN trials :
       trials[i].run \in Nat /\ trials[i].by \in Nat /\ trials[i].score \in Scores
  /\ DOMAIN runs \subseteq 1 .. lastRun
  /\ runs \in [DOMAIN runs -> [kind : {"tune", "train", "test"}, by : Nat, end : Nat]]
  /\ bucket \in [latest : [run : Nat, by : Nat, epoch : Int],
                 best : [run : Nat, by : Nat, epoch : Int]]
  /\ DOMAIN uses = DOMAIN NoUses /\ DOMAIN results = DOMAIN NoResults

Init ==
  /\ driver \in Drivers /\ numTrials \in TrialCounts[driver]
  /\ pipeline = 0 /\ waiting = FALSE /\ pc = "idle" /\ at = 1
  /\ ended = 0 /\ cleared = {} /\ uses = NoUses
  /\ cluster = FALSE /\ job = NoJob
  /\ trials = <<>> /\ runs = <<>> /\ lastRun = 0
  /\ bucket = [latest |-> NoStep, best |-> NoStep] /\ results = NoResults

(* main of a driver: the launchers begin with the resets, the others with  *)
(* the cluster (one begun while an older workflow goes on is refused there, *)
(* and is left out).                                                       *)
Begin ==
  /\ pc = "idle" /\ ~waiting /\ pipeline < MaxPipelines
  /\ pipeline' = pipeline + 1 /\ at' = 1
  /\ pc' = IF driver \in Launchers THEN "reset" ELSE "create"
  /\ numTrials' \in TrialCounts[driver]
  /\ ended' = 0 /\ cleared' = {} /\ uses' = NoUses
  /\ UNCHANGED <<driver, waiting, cluster, job, storeVars>>

(* Mutant: the path of the second command names "latest" again.             *)
ResetLatestTwice(subdir) ==
  /\ bucket' = [bucket EXCEPT !.latest = NoStep]
  /\ UNCHANGED <<trials, runs, lastRun, results>>

(* The resets of launcher_helper.py.  Each is a command or a transaction   *)
(* of its own that takes all of a store or nothing of it.                  *)
ResetCheckpointBuckets(subdir) ==
  /\ bucket' = [bucket EXCEPT ![subdir] = NoStep]
  /\ UNCHANGED <<trials, runs, lastRun, results>>
ResetHpoResultsBucket ==
  /\ results' = NoResults
  /\ UNCHANGED <<trials, runs, lastRun, bucket>>
ResetVizierRecords ==
  /\ trials' = <<>>
  /\ UNCHANGED <<runs, lastRun, bucket, results>>
ResetMlflowRecords ==
  /\ runs' = <<>>
  /\ UNCHANGED <<trials, lastRun, bucket, results>>

ResetOrder == <<"latest", "best", "results", "vizier", "mlflow">>
Reset(s) == CASE s \in {"latest", "best"} -> ResetCheckpointBuckets(s)
              [] s = "results" -> ResetHpoResultsBucket
              [] s = "vizier" -> ResetVizierRecords
              [] s = "mlflow" -> ResetMlflowRecords

(* Whatever goes wrong is printed or passed over, and main goes on.        *)
ResetStore ==
  /\ pc = "reset"
  /\ \/ Reset(ResetOrder[at]) /\ cleared' = cleared \union ({ResetOrder[at]} \intersect Traced)
     \/ UNCHANGED <<storeVars, cleared>>
  /\ IF at < Len(ResetOrder) THEN at' = at + 1 /\ pc' = pc
                             ELSE at' = 1 /\ pc' = "submit"
  /\ UNCHANGED <<driver, numTrials, pipeline, waiting, ended, uses, cluster,
                 job>>

(* Mutant: a cluster that exists is taken over.                            *)
CreateOverExisting ==
  /\ pc = "create" /\ cluster' = TRUE /\ pc' = "prepare"
  /\ UNCHANGED <<driver, numTrials, pipeline, waiting, at, ended, cleared,
                 uses, job, storeVars>>

(* setup_cluster: kind refuses a name that exists, and the program goes to *)
(* its finally.                                                            *)
CreateCluster ==
  /\ pc = "create"
  /\ \/ ~cluster /\ cluster' = TRUE /\ pc' = "prepare"
     \/ UNCHANGED cluster /\ pc' = "teardown"
  /\ UNCHANGED <<driver, numTrials, pipeline, waiting, at, ended, cleared,
                 uses, job, storeVars>>

(* run_cmd: a command is tried again until max_retries is used up; then    *)
(* the program exits, through its finally.  `at' counts the tries.         *)
RunCmd(maxRetries, next) ==
  \/ pc' = next /\ at' = 1
  \/ at <= maxRetries /\ at' = at + 1 /\ UNCHANGED pc
  \/ at > maxRetries /\ pc' = "teardown" /\ UNCHANGED at

(* wait_for_deployment: ready in time, or the program pauses for somebody  *)
(* to debug the cluster.                                                   *)
TimesOut == pc' = "paused" /\ UNCHANGED at
WaitForDeployment(next) == TimesOut \/ (pc' = next /\ UNCHANGED at)

(* A call of the Kubernetes client, or a command without retries, fails.   *)
CallRaises == pc' = "teardown" /\ UNCHANGED at

(* input: Enter is pressed, and the program exits through its finally.     *)
PressEnter ==
  /\ pc = "paused" /\ pc' = "teardown"
  /\ UNCHANGED <<driver, numTrials, pipeline, waiting, at, ended, cleared, uses,
                 cluster, job, storeVars>>

(* The middle of setup_cluster: the trainer's controller and runtimes, the *)
(* images.  The commands that reach the network may be retried thrice, and *)
(* two deployments are awaited.                                            *)
InstallTrainer ==
  /\ pc = "prepare" /\ (RunCmd(MaxRetries, "deploy") \/ TimesOut \/ CallRaises)
  /\ UNCHANGED <<driver, numTrials, pipeline, waiting, ended, cleared, uses,
                 cluster, job, storeVars>>

(* The boot command of the storage emulator: it empties                    *)
(* /storage/fake-gcs-server/checkpoint-bucket, but the mounted directory   *)
(* is /storage itself, so nothing is there to remove.                      *)
CleanOldCheckpoints(b) == b

(* The end of setup_cluster: the databases open the files the host kept.   *)
DeployDatabases ==
  /\ pc = "deploy" /\ bucket' = CleanOldCheckpoints(bucket)
  /\ \/ WaitForDeployment(IF driver = "kfp" THEN "backend" ELSE "submit")
     \/ CallRaises
  /\ UNCHANGED <<driver, numTrials, pipeline, waiting, ended, cleared, uses,
                 cluster, job,
                 trials, runs, lastRun, results>>

(* setup_kfpv2_backend, the tunnel and run_pipeline, which is asynchronous: *)
(* any of it may raise; else the workflow is on its way.                   *)
SetupKfpBackend ==
  /\ pc = "backend"
  /\ \/ pc' = "submit" /\ waiting' = TRUE
     \/ pc' = "teardown" /\ UNCHANGED waiting
  /\ UNCHANGED <<driver, numTrials, pipeline, at, ended, cleared, uses, cluster,
                 job, storeVars>>

(* Where it goes on when all is done or something was raised: the kind     *)
(* program has a finally, the workflow is over, a launcher just ends.       *)
After == IF driver = "kind" THEN "teardown" ELSE "idle"

(* experiment.add, or create_namespaced_custom_object, which may raise.    *)
SubmitJob ==
  /\ pc = "submit"
  /\ \/ /\ job' = [phase |-> Plan[at].phase, left |-> Plan[at].ids, step |-> 0,
                   run |-> 0, by |-> pipeline, state |-> "running"]
        /\ pc' = "watch"
     \/ /\ driver \in Clustered
        /\ pc' = After /\ UNCHANGED job
  /\ UNCHANGED <<driver, numTrials, pipeline, waiting, at, ended, cleared,
                 uses, cluster, storeVars>>

(* wait_until_complete returns, or the condition Complete is seen; then the *)
(* TrainJob is deleted.                                                    *)
JobCompleted ==
  /\ pc = "watch" /\ job.state = "succeeded"
  /\ job' = NoJob
  /\ IF at < Len(Plan) THEN at' = at + 1 /\ pc' = "submit"
                       ELSE at' = at /\ pc' = After
  /\ UNCHANGED <<driver, numTrials, pipeline, waiting, ended, cleared, uses,
                 cluster, storeVars>>

(* The job failed; or, in a cluster, a call that is no ApiException raised  *)
(* while the job goes on.  The finally deletes the TrainJob, if it can.     *)
WatchRaises ==
  /\ pc = "watch"
  /\ job.state = "failed" \/ driver \in Clustered
  /\ job' = NoJob \/ (driver \in Clustered /\ job' = job)
  /\ pc' = After
  /\ UNCHANGED <<driver, numTrials, pipeline, waiting, at, ended, cleared,
                 uses, cluster, storeVars>>

(* Mutant: the client waits without a timeout.                             *)
KfpWaitsOn ==
  /\ waiting /\ pc = "idle" /\ waiting' = FALSE
  /\ UNCHANGED <<driver, numTrials, pipeline, pc, at, ended, cleared, uses,
                 cluster,
                 job, storeVars>>

(* wait_for_run_completion ends: the run is over, or an hour is, or         *)
(* something was raised.  All of it is logged, and the program ends as in   *)
(* CleanupRaises; the workflow goes on with the tasks it has left.          *)
KfpGivesUp ==
  /\ waiting /\ waiting' = FALSE
  /\ UNCHANGED <<driver, numTrials, pipeline, pc, at, ended, cleared, uses,
                 cluster,
                 job, storeVars>>

(* kind's finally.  Nobody looks at the exit code of delete_cluster: a job  *)
(* dies with its cluster, and its MLflow run stays open.                    *)
DeleteCluster ==
  /\ pc = "teardown" /\ driver = "kind" /\ pc' = "idle"
  /\ \/ cluster' = FALSE /\ job' = NoJob
     \/ UNCHANGED <<cluster, job>>
  /\ UNCHANGED <<driver, numTrials, pipeline, waiting, at, ended, cleared,
                 uses, storeVars>>

(* kfp's finally: cleanup_cluster_resources is a component of a pipeline,   *)
(* which takes no positional argument, so the call raises.                  *)
CleanupRaises ==
  /\ pc = "teardown" /\ driver = "kfp" /\ pc' = "idle"
  /\ UNCHANGED <<driver, numTrials, pipeline, waiting, at, ended, cleared, uses,
                 cluster, job, storeVars>>

(* The cluster kfp left behind is deleted by run_app.sh or by the finally   *)
(* of a kind program, which names the same one: its workflow dies with it.  *)
ClusterTakenAway ==
  /\ driver = "kfp" /\ cluster /\ pc \in {"idle", "submit", "watch"}
  /\ cluster' = FALSE /\ job' = NoJob /\ pc' = "idle"
  /\ UNCHANGED <<driver, numTrials, pipeline, waiting, at, ended, cleared,
                 uses, storeVars>>

-----------------------------------------------------------------------------
(* The job: main of app_runner_inner.py for its phase.                     *)

Running(p) == job.state = "running" /\ job.phase = p
Uses(u) == IF job.by = pipeline THEN u ELSE uses
Ended == IF job.by = pipeline THEN ended + 1 ELSE ended
WorkerFrame == UNCHANGED <<driverVars, cleared, cluster>>

(* restore_items_from_checkpoint: the newest step of the best directory.    *)
RestoreItems == bucket.best

(* What makes a phase raise before it has done anything.                   *)
NothingToWorkOn ==
  job.step = 0 /\ CASE job.phase = "export-hpo-results" -> Optimal \notin DOMAIN runs
                    [] job.phase = "train-best" -> Optimal = 0
                    [] job.phase = "export-train-results" -> RunsOf("train") = {}
                    [] job.phase = "test-best" ->
                         RunsOf("train") = {} \/ RestoreItems = NoStep
                    [] job.phase = "export-test-results" -> RunsOf("test") = {}
                    [] OTHER -> FALSE

(* The program raises, or is killed: the finally ends its run, or does not. *)
JobFails ==
  /\ job.state = "running"
  /\ job' = [job EXCEPT !.state = "failed", !.run = 0]
  /\ runs' = runs \/ (job.run # 0 /\ runs' = Ending(job.run))
  /\ UNCHANGED <<ended, uses, trials, lastRun, bucket, results>> /\ WorkerFrame

JobRaises == NothingToWorkOn /\ JobFails

JobEnds == job' = [job EXCEPT !.state = "succeeded", !.run = 0] /\ ended' = Ended

(* run_tune: suggest until as many tiers are seen as trials are wanted.     *)
Suggest ==
  /\ Running("tune") /\ job.step = 0 /\ Len(job.left) <= NumTiers
  /\ job' = [job EXCEPT !.step = 1]
  /\ UNCHANGED <<ended, uses, storeVars>> /\ WorkerFrame

TrialStart ==
  /\ Running("tune") /\ job.step = 1 /\ job.left # <<>> /\ job.run = 0
  /\ StartRun("tune") /\ job' = [job EXCEPT !.run = lastRun + 1]
  /\ UNCHANGED <<ended, uses, trials, bucket, results>> /\ WorkerFrame

(* run_train_phase returns; the trial gets its run and its metric.         *)
TrialComplete ==
  /\ Running("tune") /\ job.run # 0
  /\ \E s \in Scores :
       trials' = Append(trials, [id |-> Head(job.left), run |-> job.run,
                                 by |-> job.by, score |-> s])
  /\ runs' = Ending(job.run)
  /\ job' = [job EXCEPT !.run = 0, !.left = Tail(@)]
  /\ UNCHANGED <<ended, uses, lastRun, bucket, results>> /\ WorkerFrame

TuneEnd ==
  /\ Running("tune") /\ job.left = <<>> /\ JobEnds
  /\ UNCHANGED <<uses, storeVars>> /\ WorkerFrame

(* run_export_results of the study: hyperparameters, then metrics.         *)
ExportHparams ==
  /\ Running("export-hpo-results") /\ job.step = 0 /\ ~NothingToWorkOn
  /\ results' = [results EXCEPT !.hparams = Optimal]
  /\ uses' = Uses([uses EXCEPT !.exported = Optimal])
  /\ job' = [job EXCEPT !.step = 1]
  /\ UNCHANGED <<ended, trials, runs, lastRun, bucket>> /\ WorkerFrame

ExportMetrics ==
  /\ Running("export-hpo-results") /\ job.step = 1 /\ JobEnds
  /\ results' = [results EXCEPT !.tune = results.hparams]
  /\ UNCHANGED <<uses, trials, runs, lastRun, bucket>> /\ WorkerFrame

(* Mutant: the substitution is only made for the training results.         *)
OutputFolderTrainOnly(kind) == IF kind = "train" THEN "train" ELSE "tune"

(* The folder that run_train_job_phase puts into the output uris: the      *)
(* manifest says "tune".                                                   *)
OutputFolder(kind) == kind

(* run_export_results of a run: the newest of its kind.                    *)
ExportRun(kind) ==
  /\ ~NothingToWorkOn /\ JobEnds
  /\ results' = [results EXCEPT ![OutputFolder(kind)] = StartedLast(kind)]
  /\ uses' = IF kind = "test" THEN uses
             ELSE Uses([uses EXCEPT !.trainExport = StartedLast("train")])
  /\ UNCHANGED <<trials, runs, lastRun, bucket>> /\ WorkerFrame
ExportTrain == Running("export-train-results") /\ ExportRun("train")
ExportTest == Running("export-test-results") /\ ExportRun("test")

(* Mutant: the trial that completed last is taken, not the best one.       *)
NewestTrial == IF trials = <<>> THEN 0 ELSE trials[Len(trials)].run

(* get_best_parameters_for_training.                                       *)
GetBestParameters == Optimal

(* run_train with the winner's hyperparameters.                            *)
TrainStart ==
  /\ Running("train-best") /\ job.step = 0 /\ ~NothingToWorkOn
  /\ StartRun("train")
  /\ job' = [job EXCEPT !.step = 1, !.run = lastRun + 1]
  /\ uses' = Uses([uses EXCEPT !.trained = GetBestParameters, !.trainRun = lastRun + 1])
  /\ UNCHANGED <<ended, trials, bucket, results>> /\ WorkerFrame

(* The end of an epoch: the latest checkpoint, read back once if it is to  *)
(* be validated (another run's may agree with the model by chance), and    *)
(* the best one if the metric improved, as it does at first.               *)
TrainEpoch ==
  /\ Running("train-best") /\ job.step \in 1 .. NumEpochs
  /\ LET epoch == job.step - 1
         latest == SaveStep(bucket.latest, job.run, epoch)
         best == SaveStep(bucket.best, job.run, epoch)
     IN  \/ /\ bucket' \in {[latest |-> latest, best |-> b] :
                              b \in {best} \union (IF epoch = 0 THEN {} ELSE {bucket.best})}
            /\ job' = [job EXCEPT !.step = @ + 1]
            /\ UNCHANGED runs
         \/ /\ Validates /\ epoch = 0 /\ latest.run # job.run
            /\ bucket' = [bucket EXCEPT !.latest = latest]
            /\ job' = [job EXCEPT !.state = "failed", !.run = 0]
            /\ runs' = Ending(job.run)
  /\ UNCHANGED <<ended, uses, trials, lastRun, results>> /\ WorkerFrame

(* The stream has run out, or patience has.                                *)
TrainEnd ==
  /\ Running("train-best") /\ job.step > 1 /\ JobEnds /\ runs' = Ending(job.run)
  /\ UNCHANGED <<uses, trials, lastRun, bucket, results>> /\ WorkerFrame

(* get_best_checkpoint_uri_for_testing: the run that ended last.           *)
GetBestCheckpointUri == EndedLast("train")

(* run_test: what the best directory holds is restored, and tested in a run *)
(* of its own.                                                             *)
TestStart ==
  /\ Running("test-best") /\ job.step = 0 /\ ~NothingToWorkOn
  /\ StartRun("test")
  /\ job' = [job EXCEPT !.step = 1, !.run = lastRun + 1]
  /\ uses' = Uses([uses EXCEPT !.tested = GetBestCheckpointUri, !.model = RestoreItems])
  /\ UNCHANGED <<ended, trials, bucket, results>> /\ WorkerFrame
TestEnd ==
  /\ Running("test-best") /\ job.step = 1 /\ JobEnds /\ runs' = Ending(job.run)
  /\ UNCHANGED <<uses, trials, lastRun, bucket, results>> /\ WorkerFrame

JobStep == \/ Suggest \/ TrialStart \/ TrialComplete \/ TuneEnd
           \/ ExportHparams \/ ExportMetrics \/ ExportTrain \/ ExportTest
           \/ TrainStart \/ TrainEpoch \/ TrainEnd \/ TestStart \/ TestEnd

DriverStep == \/ ResetStore \/ CreateCluster \/ InstallTrainer
              \/ DeployDatabases \/ SetupKfpBackend \/ SubmitJob \/ JobCompleted
              \/ WatchRaises \/ DeleteCluster \/ CleanupRaises

Next == \/ Begin \/ DriverStep \/ KfpGivesUp \/ PressEnter \/ ClusterTakenAway
        \/ JobStep \/ JobFails

(* A poll is answered sooner or later and a program that can go on does;   *)
(* the client's clock runs.  No driver need be started, no job need fail,  *)
(* nobody need press Enter or delete a cluster.                            *)
Spec == /\ Init /\ [][Next]_vars
        /\ WF_vars(ResetStore) /\ WF_vars(CreateCluster) /\ WF_vars(InstallTrainer)
        /\ WF_vars(DeployDatabases) /\ WF_vars(SetupKfpBackend)
        /\ WF_vars(SubmitJob)
        /\ WF_vars(DeleteCluster) /\ WF_vars(CleanupRaises)
        /\ WF_vars(JobCompleted) /\ WF_vars(job.state = "failed" /\ WatchRaises)
        /\ WF_vars(KfpGivesUp) /\ WF_vars(JobStep) /\ WF_vars(JobRaises)
-----------------------------------------------------------------------------
(* What should come out of it.                                             *)

(* A job runs for a pipeline only when the programs of all the phases      *)
(* before it ran to their ends: a failed phase or a lost connection never  *)
(* lets a later one start on what is not there, and neither does a workflow *)
(* whose client has left.                                                  *)
PhasesInOrder ==
  job.state = "running" /\ job.by = pipeline /\ pc = "watch" => ended = at - 1

Tuned == \E i \in 1 .. at - 1 :
           Plan[i].phase = "tune" /\ (i < Len(Plan) => Plan[i + 1].phase # "tune")

(* This pipeline completed the trial ids below n, in order and once each.  *)
OwnTrials == {i \in DOMAIN trials : trials[i].by = pipeline}
Did(n) ==
  /\ {trials[i].id : i \in OwnTrials} = 0 .. n - 1
  /\ \A i, j \in OwnTrials : i < j => trials[i].id < trials[j].id

(* When the tune jobs are behind, this pipeline completed each trial id    *)
(* from 0 to num_trials - 1 once, however they were dealt to jobs.         *)
EveryTrialOnce == pc \in {"submit", "watch"} /\ Tuned => Did(numTrials)

(* What a phase starts from is there, whole.                               *)
PhasesBehindAreDone == PhasesInOrder /\ EveryTrialOnce

(* Two programs ask Vizier for the winner, one to export its hyperparameters *)
(* and a later one to train with them: they speak of the same trial, also  *)
(* when trials tie and when older pipelines left theirs.                    *)
TrainsWhatItExported == uses.trained # 0 => uses.trained = uses.exported

(* The training run whose curves are exported (the one that started last), *)
(* the one whose checkpoint is tested (the one that ended last) and the one *)
(* this pipeline trained are the same, whatever crashed runs are around.   *)
OneRunThroughout ==
  /\ uses.trainExport # 0 => uses.trainExport = uses.trainRun
  /\ uses.tested # 0 => uses.tested = uses.trainRun

(* All phases of a pipeline speak of one winner and of one training run.   *)
OneWinnerThroughout == TrainsWhatItExported /\ OneRunThroughout

(* A results folder only ever holds the results of runs of its kind, and   *)
(* the hyperparameters and the metrics of the study are of one run once a  *)
(* pipeline is past its export, though they are written one by one.        *)
ResultsKeptApart ==
  /\ \A f \in {"tune", "train", "test"} :
       results[f] \in DOMAIN runs => runs[results[f]].kind = f
  /\ uses.trained # 0 => results.hparams = results.tune

(* Of a store whose reset succeeded, whatever became of the other resets,  *)
(* nothing older is used: the winner is a trial of this pipeline, and its   *)
(* finished training leaves its own newest checkpoints.                    *)
FreshStoresFreshResults ==
  /\ "vizier" \in cleared /\ uses.trained # 0 =>
       \E i \in DOMAIN trials : trials[i].run = uses.trained /\ trials[i].by = pipeline
  /\ job.phase = "train-best" /\ job.state = "succeeded" =>
       \A d \in {"latest", "best"} \intersect cleared : bucket[d].by = job.by

(* No program is put on the machines while another one runs there, though  *)
(* a driver may leave before its job has ended and the next pipeline come, *)
(* and a workflow goes on submitting when its client has left.             *)
OneJobAtATime ==
  [][job.state = "running" /\ job'.state = "running"
       => <<job'.by, job'.phase>> = <<job.by, job.phase>>]_vars

(* Whether the tune jobs have tiers enough for their trials: one that has  *)
(* not waits for ever, and so does what waits for it.                      *)
TuneCanEnd == \A i \in DOMAIN Plan : Len(Plan[i].ids) <= NumTiers

(* A client does not wait for ever, whatever became of its workflow.  And a *)
(* pipeline whose tune jobs can end comes to an end, through resets, failed *)
(* retries and setups, jobs that fail or are lost from sight, or it has     *)
(* paused for somebody to press Enter.                                     *)
PipelineEnds ==
  /\ waiting ~> ~waiting
  /\ (pc # "idle" /\ TuneCanEnd) ~> pc \in {"idle", "paused"}

(* A pipeline tests the model it trained (expected to fail: the stores     *)
(* outlive the cluster, and the boot command that says it cleans the old   *)
(* checkpoints does not reach them).                                       *)
TestsItsOwnModel == uses.model.by \in {0, pipeline}
=============================================================================
