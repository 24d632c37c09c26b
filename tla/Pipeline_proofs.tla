--------------------------- MODULE Pipeline_proofs ---------------------------
(***************************************************************************)
(* For any number of pipelines, trials, tiers, retries and epochs, with a  *)
(* failure after any step: one job runs at a time and its phases come in   *)
(* order; all phases speak of one winner and of one training run; results  *)
(* are not mixed up; of a store that was emptied nothing older is used; and *)
(* when the tune jobs are behind, each trial was done, once.               *)
(*                                                                         *)
(* What leads there.  A job needs the cluster, and the program or          *)
(* workflow that watches one watches its own.  A plan is tune jobs and     *)
(* then a beginning of one list of phases, so what a phase may count on    *)
(* is told by where the program is.  Run ids are not given twice and ends  *)
(* are counted, so that the run that started last and the one that ended   *)
(* last can be told.  What a pipeline has completed is what its plan       *)
(* dealt to the jobs so far, but for what is left of the job at hand.      *)
(***************************************************************************)
EXTENDS Pipeline, FiniteSetTheorems, WellFoundedInduction, NaturalsInduction,
        SequenceTheorems, TLAPS

-----------------------------------------------------------------------------
(* Types, in three parts: the driver, the job, the stores.                 *)

DriverOK ==
  /\ driver \in Drivers /\ numTrials \in TrialCounts[driver]
  /\ pipeline \in 0 .. MaxPipelines
  /\ pc \in {"idle", "reset", "create", "prepare", "deploy",
            "backend", "submit", "watch", "paused", "teardown"}
  /\ waiting \in BOOLEAN
  /\ at \in Nat \ {0} /\ cluster \in BOOLEAN /\ cleared \subseteq Traced
  /\ pc = "reset" => at \in 1 .. Len(ResetOrder)

JobOK ==
  /\ ended \in Nat
  /\ DOMAIN job = DOMAIN NoJob
  /\ job.step \in Nat /\ job.run \in Nat /\ job.by \in Nat
  /\ job.state \in {"none", "running", "succeeded", "failed"}

(* Vizier's answers are a list, whatever is in it.                         *)
Listed == \E S : trials \in Seq(S)

TrialsOK ==
  /\ Listed
  /\ \A i \in DOMAIN trials :
       trials[i].run \in Nat /\ trials[i].by \in Nat /\ trials[i].score \in Scores

Steps == [run : Nat, by : Nat, epoch : Int]
StoresOK ==
  /\ lastRun \in Nat /\ DOMAIN runs \subseteq 1 .. lastRun
  /\ runs \in [DOMAIN runs -> [kind : {"tune", "train", "test"}, by : Nat, end : Nat]]
  /\ bucket \in [latest : Steps, best : Steps]
  /\ DOMAIN uses = DOMAIN NoUses /\ DOMAIN results = DOMAIN NoResults

(* The steps by which a program or a workflow is over.                     *)
Leaves == DeleteCluster \/ CleanupRaises \/ PressEnter \/ ClusterTakenAway

LEMMA LeavesIs ==
  ASSUME Leaves
  PROVE  /\ UNCHANGED <<driver, numTrials, pipeline, waiting, at, ended, cleared, uses,
                        storeVars>>
         /\ job' \in {job, NoJob} /\ pc' \in {"idle", "teardown"}
         /\ pc = "idle" => pc' = "idle"
         /\ \/ cluster' = FALSE /\ job' = NoJob
            \/ UNCHANGED <<cluster, job>>
         /\ driver \in Clustered \/ pc = "paused"
  BY DEF Leaves, DeleteCluster, CleanupRaises, PressEnter, ClusterTakenAway, Clustered

(* A client that gives up changes nothing that anything else looks at.     *)
seen == <<driver, numTrials, pipeline, pc, at, ended, cleared, uses, cluster, job,
          storeVars>>

LEMMA SeenSame == KfpGivesUp \/ UNCHANGED vars => UNCHANGED seen
  BY DEF KfpGivesUp, vars, driverVars, seen

Typed == DriverOK /\ JobOK /\ TrialsOK /\ StoresOK

LEMMA TypedIsTypeOK == Typed => TypeOK
  BY DEF Typed, DriverOK, JobOK, TrialsOK, StoresOK, Steps, TypeOK

LEMMA AppendListed ==
  ASSUME Listed, NEW t, trials' = Append(trials, t)
  PROVE  /\ Listed'
         /\ Len(trials') = Len(trials) + 1 /\ Len(trials) \in Nat
         /\ DOMAIN trials = 1 .. Len(trials) /\ DOMAIN trials' = 1 .. Len(trials')
         /\ \A i \in DOMAIN trials : trials'[i] = trials[i]
         /\ trials'[Len(trials) + 1] = t
<1>1. PICK S : trials \in Seq(S)
  BY DEF Listed
<1>2. trials \in Seq(S \union {t})
  BY <1>1, SMT
<1>3. trials' \in Seq(S \union {t})
  BY <1>2, SMT
<1>4. Listed'
  BY <1>3 DEF Listed
<1>. QED
  BY <1>2, <1>4, SMT

(* What a step leaves alone keeps its type.                                *)
LEMMA SameTrials == TrialsOK /\ trials' = trials => TrialsOK'
  BY DEF TrialsOK, Listed
LEMMA NoTrials == trials' = <<>> => TrialsOK'
<1>. SUFFICES ASSUME trials' = <<>> PROVE TrialsOK'
  OBVIOUS
<1>1. trials' \in Seq({}) /\ DOMAIN trials' = {}
  OBVIOUS
<1>. QED
  BY <1>1 DEF TrialsOK, Listed
LEMMA SameStores ==
  StoresOK /\ UNCHANGED <<runs, lastRun, bucket, results>> /\ DOMAIN uses' = DOMAIN uses
    => StoresOK'
  BY DEF StoresOK

LEMMA ResetOrderIs ==
  /\ Len(ResetOrder) = 5
  /\ \A i \in 1 .. 5 : ResetOrder[i] \in {"latest", "best", "results", "vizier", "mlflow"}
<1>1. Len(ResetOrder) = 5
  BY DEF ResetOrder
<1>2. /\ ResetOrder[1] = "latest" /\ ResetOrder[2] = "best" /\ ResetOrder[3] = "results"
      /\ ResetOrder[4] = "vizier" /\ ResetOrder[5] = "mlflow"
  BY SMT DEF ResetOrder
<1>3. \A i \in 1 .. 5 : i = 1 \/ i = 2 \/ i = 3 \/ i = 4 \/ i = 5
  BY SMT
<1>. QED
  BY <1>1, <1>2, <1>3

(* A reset takes all of one store, or nothing.                             *)
LEMMA ResetIs ==
  ASSUME DriverOK, ResetStore
  PROVE  \/ \E d \in {"latest", "best"} :
              ResetCheckpointBuckets(d) /\ cleared' = cleared \union {d}
         \/ ResetHpoResultsBucket /\ cleared' = cleared
         \/ ResetVizierRecords /\ cleared' = cleared \union {"vizier"}
         \/ ResetMlflowRecords /\ cleared' = cleared
         \/ UNCHANGED <<storeVars, cleared>>
<1>. DEFINE st == ResetOrder[at]
<1>1. st \in {"latest", "best", "results", "vizier", "mlflow"}
  BY ResetOrderIs DEF DriverOK, ResetStore
<1>2. \/ Reset(st) /\ cleared' = cleared \union ({st} \intersect Traced)
      \/ UNCHANGED <<storeVars, cleared>>
  BY DEF ResetStore
<1>. HIDE DEF st
<1>3. CASE st \in {"latest", "best"}
  <2>1. {st} \intersect Traced = {st}
    BY <1>3 DEF Traced
  <2>. QED
    BY <1>2, <1>3, <2>1 DEF Reset
<1>4. CASE st = "results"
  <2>1. {st} \intersect Traced = {} /\ (Reset(st) => ResetHpoResultsBucket)
    BY <1>4 DEF Traced, Reset
  <2>. QED
    BY <1>2, <2>1
<1>5. CASE st = "vizier"
  <2>1. {st} \intersect Traced = {"vizier"} /\ (Reset(st) => ResetVizierRecords)
    BY <1>5 DEF Traced, Reset
  <2>. QED
    BY <1>2, <2>1
<1>6. CASE st = "mlflow"
  <2>1. {st} \intersect Traced = {} /\ (Reset(st) => ResetMlflowRecords)
    BY <1>6 DEF Traced, Reset
  <2>. QED
    BY <1>2, <2>1
<1>. QED
  BY <1>1, <1>3, <1>4, <1>5, <1>6

LEMMA InitTyped == Init => Typed
<1>. SUFFICES ASSUME Init PROVE Typed
  OBVIOUS
<1>1. trials \in Seq({})
  BY DEF Init
<1>2. DOMAIN trials = {} /\ DOMAIN runs = {} /\ runs = [x \in {} |-> x]
  BY DEF Init
<1>3. TrialsOK
  BY <1>1, <1>2 DEF TrialsOK, Listed
<1>4. DriverOK
  <2>1. cluster \in BOOLEAN /\ waiting \in BOOLEAN /\ cleared \subseteq Traced
    BY DEF Init
  <2>. QED
    BY <2>1, PipelineAssumption, SMT DEF Init, DriverOK
<1>6. JobOK
  BY SMT DEF Init, JobOK, NoJob
<1>5. StoresOK
  <2>1. runs \in [DOMAIN runs -> [kind : {"tune", "train", "test"}, by : Nat, end : Nat]]
    BY <1>2
  <2>2. bucket \in [latest : Steps, best : Steps]
    BY SMT DEF Init, NoStep, Steps
  <2>. QED
    BY <1>2, <2>1, <2>2 DEF StoresOK, Init
<1>. QED
  BY <1>3, <1>4, <1>5, <1>6 DEF Typed

(* The driver's own variables.                                             *)
LEMMA NextDriverOK == DriverOK /\ [Next]_vars => DriverOK'
<1>. SUFFICES ASSUME DriverOK, [Next]_vars PROVE DriverOK'
  OBVIOUS
<1>1. ASSUME Begin PROVE DriverOK'
  <2>1. Len(ResetOrder') = 5
    BY ResetOrderIs DEF ResetOrder
  <2>. QED
    BY <1>1, <2>1, PipelineAssumption, SMT DEF Begin, DriverOK
<1>2. ASSUME ResetStore PROVE DriverOK'
  <2>1. cleared' \subseteq Traced
    BY <1>2, ResetIs DEF DriverOK, Traced
  <2>2. /\ pc = "reset" /\ UNCHANGED <<driver, numTrials, pipeline, waiting, cluster>>
        /\ \/ at < Len(ResetOrder) /\ at' = at + 1 /\ pc' = pc
           \/ at' = 1 /\ pc' = "submit"
    BY <1>2 DEF ResetStore
  <2>3. cluster' \in BOOLEAN /\ waiting' \in BOOLEAN
    BY <2>2 DEF DriverOK
  <2>4. Len(ResetOrder') = Len(ResetOrder)
    BY DEF ResetOrder
  <2>. QED
    BY <2>1, <2>2, <2>3, <2>4, ResetOrderIs, SMT DEF DriverOK
<1>3. ASSUME CreateCluster PROVE DriverOK'
  <2>1. cluster' \in BOOLEAN
    BY <1>3 DEF CreateCluster, DriverOK
  <2>2. pc' \in {"prepare", "teardown"} /\ UNCHANGED <<driver, numTrials, pipeline, at, cleared>>
    BY <1>3 DEF CreateCluster
  <2>3. waiting' = waiting
    BY <1>3 DEF CreateCluster
  <2>. QED
    BY <2>1, <2>2, <2>3, SMT DEF DriverOK
<1>4. ASSUME InstallTrainer PROVE DriverOK'
  BY <1>4, SMT DEF InstallTrainer, RunCmd, TimesOut, CallRaises, DriverOK
<1>5. ASSUME DeployDatabases PROVE DriverOK'
  BY <1>5, SMT DEF DeployDatabases, WaitForDeployment, TimesOut, CallRaises, DriverOK
<1>6. ASSUME SetupKfpBackend \/ Leaves \/ KfpGivesUp PROVE DriverOK'
  <2>1. cluster' \in {cluster, FALSE} /\ waiting' \in {waiting, TRUE, FALSE}
    BY <1>6, LeavesIs DEF SetupKfpBackend, KfpGivesUp
  <2>2. /\ pc' \in {pc, "submit", "teardown", "idle"}
        /\ UNCHANGED <<driver, numTrials, pipeline, at, cleared>>
    BY <1>6, LeavesIs DEF SetupKfpBackend, KfpGivesUp
  <2>3. cluster' \in BOOLEAN /\ waiting' \in BOOLEAN
    BY <2>1 DEF DriverOK
  <2>. QED
    BY <2>2, <2>3, SMT DEF DriverOK
<1>7. ASSUME SubmitJob \/ WatchRaises PROVE DriverOK'
  BY <1>7, SMT DEF SubmitJob, WatchRaises, After, DriverOK
<1>8. ASSUME JobCompleted PROVE DriverOK'
  <2>1. /\ cluster' \in BOOLEAN /\ cleared' \subseteq Traced /\ waiting' \in BOOLEAN
        /\ pc' \in {"submit", "teardown", "idle"}
        /\ UNCHANGED <<driver, numTrials, pipeline>> /\ at' \in {at, at + 1}
    BY <1>8 DEF JobCompleted, After, DriverOK
  <2>. QED
    BY <2>1, SMT DEF DriverOK
<1>9. ASSUME WorkerFrame PROVE DriverOK'
  BY <1>9 DEF WorkerFrame, driverVars, DriverOK
<1>10. ASSUME JobStep \/ JobFails PROVE WorkerFrame
  BY <1>10 DEF JobStep, JobFails, Suggest, TrialStart, TrialComplete, TuneEnd,
     ExportHparams, ExportMetrics, ExportTrain, ExportTest, ExportRun,
     TrainStart, TrainEpoch, TrainEnd, TestStart, TestEnd
<1>11. CASE UNCHANGED vars
  BY <1>11 DEF vars, driverVars, DriverOK
<1>. QED
  BY <1>1, <1>2, <1>3, <1>4, <1>5, <1>6, <1>7, <1>8, <1>9, <1>10, <1>11, SeenSame
     DEF Next, DriverStep, Leaves

(* The job.                                                                *)
LEMMA NextJobOK == DriverOK /\ JobOK /\ lastRun \in Nat /\ [Next]_vars => JobOK'
<1>. SUFFICES ASSUME DriverOK, JobOK, lastRun \in Nat, [Next]_vars PROVE JobOK'
  OBVIOUS
<1>1. ASSUME UNCHANGED job, ended' \in {0, ended} PROVE JobOK'
  BY <1>1, SMT DEF JobOK
<1>2. ASSUME job' = NoJob, UNCHANGED ended PROVE JobOK'
  BY <1>2, SMT DEF JobOK, NoJob
<1>3. ASSUME Begin \/ ResetStore \/ CreateCluster \/ InstallTrainer
               \/ DeployDatabases \/ SetupKfpBackend
      PROVE  JobOK'
  BY <1>1, <1>3 DEF Begin, ResetStore, CreateCluster, InstallTrainer,
     DeployDatabases, SetupKfpBackend
<1>4. ASSUME JobCompleted \/ WatchRaises \/ Leaves PROVE JobOK'
  BY <1>1, <1>2, <1>4, LeavesIs DEF JobCompleted, WatchRaises
<1>5. ASSUME SubmitJob PROVE JobOK'
  <2>1. CASE UNCHANGED job
    BY <1>1, <1>5, <2>1 DEF SubmitJob
  <2>2. CASE job' = [phase |-> Plan[at].phase, left |-> Plan[at].ids, step |-> 0,
                     run |-> 0, by |-> pipeline, state |-> "running"]
    <3>. HIDE DEF Plan
    <3>. QED
      BY <1>5, <2>2, SMT DEF SubmitJob, JobOK, DriverOK, NoJob
  <2>. QED
    BY <1>5, <2>1, <2>2 DEF SubmitJob
<1>6. ASSUME Suggest \/ TrialStart \/ TrialComplete \/ ExportHparams \/ TrainStart
               \/ TestStart
      PROVE  JobOK'
  <2>1. /\ ended' = ended
        /\ \/ job' = [job EXCEPT !.step = 1]
           \/ job' = [job EXCEPT !.run = lastRun + 1]
           \/ job' = [job EXCEPT !.run = 0, !.left = Tail(@)]
           \/ job' = [job EXCEPT !.step = 1, !.run = lastRun + 1]
    BY <1>6 DEF Suggest, TrialStart, TrialComplete, ExportHparams, TrainStart, TestStart
  <2>. HIDE DEF NoJob
  <2>2. DOMAIN job' = DOMAIN job
    BY <2>1
  <2>3. {"phase", "left", "step", "run", "by", "state"} = DOMAIN job
    BY DEF JobOK, NoJob
  <2>4. job'.state = job.state /\ job'.by = job.by /\ job'.step \in {1, job.step}
        /\ job'.run \in {0, job.run, lastRun + 1}
    BY <2>1, <2>3
  <2>. QED
    BY <2>1, <2>2, <2>4, SMT DEF JobOK
<1>7. ASSUME TrainEpoch \/ JobFails PROVE JobOK'
  <2>1. /\ ended' = ended
        /\ \/ job' = [job EXCEPT !.step = @ + 1]
           \/ job' = [job EXCEPT !.state = "failed", !.run = 0]
    BY <1>7 DEF TrainEpoch, JobFails
  <2>2. DOMAIN job' = DOMAIN job
    BY <2>1
  <2>3. {"phase", "left", "step", "run", "by", "state"} = DOMAIN job
    BY DEF JobOK, NoJob
  <2>4. job'.state \in {job.state, "failed"} /\ job'.by = job.by
        /\ job'.step \in {job.step + 1, job.step} /\ job'.run \in {0, job.run}
    BY <2>1, <2>3
  <2>. QED
    BY <2>1, <2>2, <2>4, SMT DEF JobOK
<1>8. ASSUME JobEnds PROVE JobOK'
  BY <1>8, SMT DEF JobEnds, Ended, JobOK, NoJob
<1>9. ASSUME TuneEnd \/ ExportMetrics \/ ExportTrain \/ ExportTest \/ TrainEnd \/ TestEnd
      PROVE  JobOK'
  BY <1>8, <1>9 DEF TuneEnd, ExportMetrics, ExportTrain, ExportTest, ExportRun,
     TrainEnd, TestEnd
<1>10. CASE UNCHANGED seen
  BY <1>1, <1>10 DEF seen
<1>. QED
  BY <1>3, <1>4, <1>5, <1>6, <1>7, <1>9, <1>10, SeenSame
     DEF Next, DriverStep, JobStep, Leaves

(* How many runs have ended.                                               *)
EndedRuns == {q \in DOMAIN runs : runs[q].end > 0}

LEMMA EndedRunsFinite ==
  ASSUME lastRun \in Nat, DOMAIN runs \subseteq 1 .. lastRun
  PROVE  IsFiniteSet(EndedRuns) /\ Cardinality(EndedRuns) \in Nat
<1>1. IsFiniteSet(1 .. lastRun)
  BY FS_Interval
<1>2. EndedRuns \subseteq 1 .. lastRun
  BY DEF EndedRuns
<1>. QED
  BY <1>1, <1>2, FS_Subset, FS_CardinalityType

RunRecords == [kind : {"tune", "train", "test"}, by : Nat, end : Nat]

LEMMA StartRunIs ==
  ASSUME StoresOK, JobOK, NEW kind \in {"tune", "train", "test"}, StartRun(kind)
  PROVE  /\ lastRun' = lastRun + 1 /\ lastRun' \in Nat /\ lastRun + 1 \notin DOMAIN runs
         /\ DOMAIN runs' = DOMAIN runs \union {lastRun + 1}
         /\ DOMAIN runs' \subseteq 1 .. lastRun'
         /\ runs' \in [DOMAIN runs' -> RunRecords]
         /\ \A r \in DOMAIN runs : runs'[r] = runs[r]
         /\ runs'[lastRun + 1] = [kind |-> kind, by |-> job.by, end |-> 0]
<1>1. lastRun + 1 \notin DOMAIN runs
  BY SMT DEF StoresOK
<1>2. lastRun' = lastRun + 1 /\ DOMAIN runs' = DOMAIN runs \union {lastRun + 1}
  BY DEF StartRun
<1>3. runs'[lastRun + 1] = [kind |-> kind, by |-> job.by, end |-> 0]
  BY <1>1 DEF StartRun
<1>4. \A r \in DOMAIN runs : runs'[r] = runs[r] /\ runs[r] \in RunRecords
  BY DEF StartRun, StoresOK, RunRecords
<1>5. DOMAIN runs' \subseteq 1 .. lastRun'
  BY <1>2, SMT DEF StoresOK
<1>6. \A r \in DOMAIN runs' : runs'[r] \in RunRecords
  <2>1. [kind |-> kind, by |-> job.by, end |-> 0] \in RunRecords
    BY SMT DEF RunRecords, JobOK
  <2>. QED
    BY <1>2, <1>3, <1>4, <2>1
<1>7. runs' = [r \in DOMAIN runs' |-> runs'[r]]
  BY <1>2 DEF StartRun
<1>8. lastRun' \in Nat
  BY <1>2, SMT DEF StoresOK
<1>. QED
  BY <1>1, <1>2, <1>3, <1>4, <1>5, <1>6, <1>7, <1>8

LEMMA EndingIs ==
  ASSUME StoresOK, NEW r, runs' = Ending(r)
  PROVE  /\ DOMAIN runs' = DOMAIN runs
         /\ runs' \in [DOMAIN runs' -> RunRecords]
         /\ \A q \in DOMAIN runs \ {r} : runs'[q] = runs[q]
         /\ r \in DOMAIN runs =>
              /\ runs'[r].kind = runs[r].kind /\ runs'[r].by = runs[r].by
              /\ runs'[r].end = 1 + Cardinality(EndedRuns)
<1>. DEFINE n == 1 + Cardinality(EndedRuns)
<1>1. n \in Nat
  BY EndedRunsFinite, SMT DEF StoresOK
<1>2. runs' = [runs EXCEPT ![r].end = n]
  BY DEF Ending, EndedRuns
<1>. HIDE DEF n
<1>3. DOMAIN runs' = DOMAIN runs /\ \A q \in DOMAIN runs \ {r} : runs'[q] = runs[q]
  BY <1>2 DEF StoresOK
<1>4. \A q \in DOMAIN runs : runs[q] \in RunRecords
  BY DEF StoresOK, RunRecords
<1>5. r \in DOMAIN runs => runs'[r] = [runs[r] EXCEPT !.end = n]
  BY <1>2, SMT DEF StoresOK
<1>6. r \in DOMAIN runs =>
        /\ runs'[r].kind = runs[r].kind /\ runs'[r].by = runs[r].by /\ runs'[r].end = n
        /\ runs'[r] \in RunRecords
  BY <1>1, <1>4, <1>5, SMT DEF RunRecords
<1>7. runs' = [q \in DOMAIN runs' |-> runs'[q]]
  BY <1>2 DEF StoresOK
<1>8. runs' \in [DOMAIN runs' -> RunRecords]
  BY <1>3, <1>4, <1>6, <1>7
<1>. QED
  BY <1>3, <1>6, <1>8 DEF n

LEMMA NextTrialsOK == DriverOK /\ TrialsOK /\ JobOK /\ [Next]_vars => TrialsOK'
<1>. SUFFICES ASSUME DriverOK, TrialsOK, JobOK, [Next]_vars PROVE TrialsOK'
  OBVIOUS
<1>1. ASSUME ResetStore PROVE TrialsOK'
  <2>1. trials' = trials \/ trials' = <<>>
    BY <1>1, ResetIs DEF ResetCheckpointBuckets, ResetHpoResultsBucket,
       ResetVizierRecords, ResetMlflowRecords, storeVars
  <2>. QED
    BY <2>1, SameTrials, NoTrials
<1>2. ASSUME TrialComplete PROVE TrialsOK'
  <2>1. PICK sc \in Scores :
          trials' = Append(trials, [id |-> Head(job.left), run |-> job.run,
                                    by |-> job.by, score |-> sc])
    BY <1>2 DEF TrialComplete
  <2>. DEFINE t == [id |-> Head(job.left), run |-> job.run, by |-> job.by, score |-> sc]
  <2>2. t.run \in Nat /\ t.by \in Nat /\ t.score \in Scores
    BY DEF JobOK
  <2>. HIDE DEF t
  <2>3. trials' = Append(trials, t) /\ Listed
    BY <2>1 DEF t, TrialsOK
  <2>4. /\ Listed' /\ DOMAIN trials' = 1 .. Len(trials') /\ Len(trials') = Len(trials) + 1
        /\ Len(trials) \in Nat /\ DOMAIN trials = 1 .. Len(trials)
        /\ \A i \in DOMAIN trials : trials'[i] = trials[i]
        /\ trials'[Len(trials) + 1] = t
    BY <2>3, AppendListed
  <2>5. \A i \in DOMAIN trials' : i \in DOMAIN trials \/ i = Len(trials) + 1
    BY <2>4, SMT
  <2>. QED
    BY <2>2, <2>4, <2>5 DEF TrialsOK
<1>3. ASSUME Begin \/ CreateCluster \/ InstallTrainer \/ DeployDatabases
               \/ SetupKfpBackend \/ SubmitJob \/ JobCompleted \/ WatchRaises
               \/ Leaves
      PROVE  trials' = trials
  BY <1>3, LeavesIs DEF Begin, CreateCluster, InstallTrainer, DeployDatabases,
     SetupKfpBackend, SubmitJob, JobCompleted, WatchRaises, storeVars
<1>4. ASSUME JobFails \/ Suggest \/ TrialStart \/ TuneEnd \/ ExportHparams
               \/ ExportMetrics \/ ExportTrain \/ ExportTest \/ TrainStart \/ TrainEpoch
               \/ TrainEnd \/ TestStart \/ TestEnd
      PROVE  trials' = trials
  BY <1>4 DEF JobFails, Suggest, TrialStart, TuneEnd, ExportHparams, ExportMetrics,
     ExportTrain, ExportTest, ExportRun, TrainStart, TrainEpoch, TrainEnd,
     TestStart, TestEnd, storeVars
<1>5. CASE UNCHANGED seen
  BY <1>5, SameTrials DEF seen, storeVars
<1>. QED
  BY <1>1, <1>2, <1>3, <1>4, <1>5, SameTrials, SeenSame
     DEF Next, DriverStep, JobStep, Leaves

LEMMA NextStoresOK == Typed /\ [Next]_vars => StoresOK'
<1>. SUFFICES ASSUME Typed, [Next]_vars PROVE StoresOK'
  OBVIOUS
<1>. USE DEF Typed
<1>1. ASSUME Begin PROVE StoresOK'
  BY <1>1 DEF Begin, StoresOK, storeVars, NoUses
<1>2. ASSUME ResetStore PROVE StoresOK'
  <2>1. DOMAIN uses' = DOMAIN uses
    BY <1>2 DEF ResetStore
  <2>2. ASSUME NEW d \in {"latest", "best"}, ResetCheckpointBuckets(d) PROVE StoresOK'
    <3>1. NoStep \in Steps
      BY SMT DEF NoStep, Steps
    <3>2. bucket' \in [latest : Steps, best : Steps]
      BY <2>2, <3>1 DEF ResetCheckpointBuckets, StoresOK
    <3>. QED
      BY <2>1, <2>2, <3>2 DEF ResetCheckpointBuckets, StoresOK
  <2>3. ASSUME ResetHpoResultsBucket PROVE StoresOK'
    BY <2>1, <2>3 DEF ResetHpoResultsBucket, StoresOK, NoResults
  <2>4. ASSUME ResetVizierRecords PROVE StoresOK'
    BY <2>1, <2>4 DEF ResetVizierRecords, StoresOK
  <2>5. ASSUME ResetMlflowRecords PROVE StoresOK'
    <3>1. DOMAIN runs' = {} /\ runs' = [x \in {} |-> x]
      BY <2>5 DEF ResetMlflowRecords
    <3>2. runs' \in [DOMAIN runs' -> RunRecords]
      BY <3>1
    <3>. QED
      BY <2>1, <2>5, <3>1, <3>2 DEF ResetMlflowRecords, StoresOK, RunRecords
  <2>6. ASSUME UNCHANGED storeVars PROVE StoresOK'
    BY <2>1, <2>6 DEF StoresOK, storeVars
  <2>. QED
    BY <1>2, <2>2, <2>3, <2>4, <2>5, <2>6, ResetIs
<1>3. ASSUME CreateCluster \/ InstallTrainer \/ DeployDatabases
               \/ SetupKfpBackend \/ SubmitJob \/ JobCompleted \/ WatchRaises
               \/ Leaves
      PROVE  StoresOK'
  BY <1>3, SameStores, LeavesIs DEF CreateCluster, InstallTrainer, DeployDatabases,
     CleanOldCheckpoints, SetupKfpBackend, SubmitJob, JobCompleted, WatchRaises,
     storeVars
<1>4. ASSUME NEW r, runs' = Ending(r), UNCHANGED lastRun,
             bucket' \in [latest : Steps, best : Steps],
             UNCHANGED <<uses, results>>
      PROVE  StoresOK'
  BY <1>4, EndingIs DEF StoresOK, RunRecords
<1>5. ASSUME NEW kind \in {"tune", "train", "test"}, StartRun(kind),
             UNCHANGED <<bucket, results>>, DOMAIN uses' = DOMAIN uses
      PROVE  StoresOK'
  BY <1>5, StartRunIs DEF StoresOK, RunRecords
<1>6. bucket \in [latest : Steps, best : Steps]
  BY DEF StoresOK
<1>7. ASSUME JobFails PROVE StoresOK'
  BY <1>4, <1>6, <1>7, SameStores DEF JobFails
<1>8. ASSUME TrialComplete \/ TrainEnd \/ TestEnd PROVE StoresOK'
  BY <1>4, <1>6, <1>8 DEF TrialComplete, TrainEnd, TestEnd
<1>9. ASSUME Suggest \/ TuneEnd PROVE StoresOK'
  BY <1>9, SameStores DEF Suggest, TuneEnd, storeVars
<1>10. ASSUME TrialStart \/ TrainStart \/ TestStart PROVE StoresOK'
  BY <1>5, <1>10 DEF TrialStart, TrainStart, TestStart, Uses
<1>11. ASSUME ExportHparams \/ ExportMetrics \/ ExportTrain \/ ExportTest PROVE StoresOK'
  <2>1. DOMAIN uses' = DOMAIN uses /\ DOMAIN results' = DOMAIN results
    BY <1>11 DEF ExportHparams, ExportMetrics, ExportTrain, ExportTest, ExportRun,
       Uses, OutputFolder
  <2>2. UNCHANGED <<runs, lastRun, bucket>>
    BY <1>11 DEF ExportHparams, ExportMetrics, ExportTrain, ExportTest, ExportRun
  <2>. QED
    BY <2>1, <2>2 DEF StoresOK
<1>12. ASSUME TrainEpoch PROVE StoresOK'
  <2>. DEFINE latest == SaveStep(bucket.latest, job.run, job.step - 1)
              best == SaveStep(bucket.best, job.run, job.step - 1)
  <2>1. latest \in Steps /\ best \in Steps /\ bucket.best \in Steps /\ bucket.latest \in Steps
    BY <1>6, SMT DEF SaveStep, Steps, JobOK
  <2>2. \/ /\ \E b \in {best, bucket.best} : bucket' = [latest |-> latest, best |-> b]
           /\ UNCHANGED runs
        \/ /\ bucket' = [bucket EXCEPT !.latest = latest]
           /\ runs' = Ending(job.run)
    BY <1>12 DEF TrainEpoch
  <2>3. UNCHANGED <<uses, lastRun, results>>
    BY <1>12 DEF TrainEpoch
  <2>. HIDE DEF latest, best
  <2>4. bucket' \in [latest : Steps, best : Steps]
    BY <1>6, <2>1, <2>2
  <2>5. CASE UNCHANGED runs
    BY <2>3, <2>4, <2>5 DEF StoresOK
  <2>. QED
    BY <1>4, <2>2, <2>3, <2>4, <2>5
<1>13. CASE UNCHANGED seen
  BY <1>13, SameStores DEF seen, storeVars
<1>. QED
  BY <1>1, <1>2, <1>3, <1>7, <1>8, <1>9, <1>10, <1>11, <1>12, <1>13, SeenSame
     DEF Next, DriverStep, JobStep, Leaves

LEMMA NextTyped == Typed /\ [Next]_vars => Typed'
  BY NextDriverOK, NextJobOK, NextTrialsOK, NextStoresOK DEF Typed, StoresOK

(* Every variable has its type: TypeOK.                                    *)
THEOREM PipelineTypeCorrect == Spec => []TypeOK
<1>1. Typed => TypeOK
  BY TypedIsTypeOK
<1>. QED
  BY InitTyped, NextTyped, <1>1, PTL DEF Spec

-----------------------------------------------------------------------------
(* One job at a time, and the phases in order.                             *)

(* Only the two programs with a cluster may leave a job behind, and they   *)
(* start none before they have made a new cluster.                         *)
JobNeedsCluster ==
  /\ driver \in Launchers /\ pc \in {"idle", "reset"} => job = NoJob
  /\ driver \in Clustered /\ ~cluster => job = NoJob
  /\ pc \in {"prepare", "deploy", "backend", "submit"} => job = NoJob
  /\ driver \in Clustered /\ pc \in {"prepare", "deploy", "backend", "submit", "watch"} =>
       cluster
  /\ pc = "reset" => driver \in Launchers
  /\ pc \in {"create", "prepare", "deploy", "backend", "paused", "teardown"} =>
       driver \in Clustered

(* A job that is watched is the pipeline's own, and the one for `at'.      *)
JobIsNext ==
  /\ job.by <= pipeline
  /\ pc # "idle" => pipeline >= 1
  /\ pc \in {"reset", "create", "prepare", "deploy", "backend"} =>
       job.by < pipeline /\ ended = 0
  /\ pc \in {"deploy", "backend"} => at = 1
  /\ pc = "submit" => ended = at - 1
  /\ pc = "watch" =>
       /\ job.by = pipeline /\ job.state # "none"
       /\ job.state = "running" => ended = at - 1
       /\ job.state = "succeeded" => ended = at

LEMMA DriverKinds == driver \in Drivers => (driver \in Launchers <=> driver \notin Clustered)
  BY PipelineAssumption DEF Launchers, Clustered

(* What every step of a job has in common.                                 *)
LEMMA WorkIs ==
  ASSUME JobOK, JobStep \/ JobFails
  PROVE  /\ job.state = "running" /\ job'.phase = job.phase /\ job'.by = job.by
         /\ \/ job'.state \in {"running", "failed"} /\ ended' = ended
            \/ job'.state = "succeeded" /\ ended' = Ended
         /\ WorkerFrame
<1>1. {"phase", "left", "step", "run", "by", "state"} = DOMAIN job
  BY DEF JobOK, NoJob
<1>2. WorkerFrame /\ job.state = "running"
  BY DEF JobStep, JobFails, Suggest, TrialStart, TrialComplete, TuneEnd,
     ExportHparams, ExportMetrics, ExportTrain, ExportTest, ExportRun,
     TrainStart, TrainEpoch, TrainEnd, TestStart, TestEnd, Running
<1>3. \/ /\ ended' = ended
         /\ \/ job' = [job EXCEPT !.step = 1]
            \/ job' = [job EXCEPT !.run = lastRun + 1]
            \/ job' = [job EXCEPT !.run = 0, !.left = Tail(@)]
            \/ job' = [job EXCEPT !.step = 1, !.run = lastRun + 1]
            \/ job' = [job EXCEPT !.step = @ + 1]
            \/ job' = [job EXCEPT !.state = "failed", !.run = 0]
      \/ JobEnds
  BY DEF JobStep, JobFails, Suggest, TrialStart, TrialComplete, TuneEnd,
     ExportHparams, ExportMetrics, ExportTrain, ExportTest, ExportRun,
     TrainStart, TrainEpoch, TrainEnd, TestStart, TestEnd
<1>. QED
  BY <1>1, <1>2, <1>3 DEF JobEnds

LEMMA NoJobIs ==
  NoJob.by = 0 /\ NoJob.state = "none" /\ NoJob.phase = "none" /\ NoJob.step = 0 /\ NoJob.run = 0
  BY DEF NoJob

LEMMA InitOneJob == Init => JobNeedsCluster /\ JobIsNext
<1>. SUFFICES ASSUME Init PROVE JobNeedsCluster /\ JobIsNext
  OBVIOUS
<1>1. JobNeedsCluster
  BY DEF Init, JobNeedsCluster
<1>2. job.by = 0 /\ pipeline = 0 /\ pc = "idle"
  BY NoJobIs DEF Init
<1>. QED
  BY <1>1, <1>2, SMT DEF JobIsNext

LEMMA NextJobNeedsCluster ==
  DriverOK /\ JobOK /\ JobNeedsCluster /\ [Next]_vars => JobNeedsCluster'
<1>. SUFFICES ASSUME DriverOK, JobOK, JobNeedsCluster, [Next]_vars
              PROVE  JobNeedsCluster'
  OBVIOUS
<1>0. driver \in Launchers <=> driver \notin Clustered
  BY DriverKinds DEF DriverOK
<1>. USE DEF JobNeedsCluster
<1>1. ASSUME Begin PROVE JobNeedsCluster'
  BY <1>0, <1>1 DEF Begin
<1>2. ASSUME ResetStore PROVE JobNeedsCluster'
  BY <1>0, <1>2 DEF ResetStore
<1>3. ASSUME CreateCluster PROVE JobNeedsCluster'
  BY <1>0, <1>3 DEF CreateCluster
<1>4. ASSUME InstallTrainer PROVE JobNeedsCluster'
  BY <1>0, <1>4 DEF InstallTrainer, RunCmd, TimesOut, CallRaises
<1>5. ASSUME DeployDatabases PROVE JobNeedsCluster'
  BY <1>0, <1>5 DEF DeployDatabases, WaitForDeployment, TimesOut, CallRaises
<1>6. ASSUME SetupKfpBackend PROVE JobNeedsCluster'
  BY <1>0, <1>6 DEF SetupKfpBackend
<1>7. ASSUME SubmitJob PROVE JobNeedsCluster'
  <2>1. /\ pc = "submit" /\ UNCHANGED <<driver, cluster>>
        /\ \/ pc' = "watch"
           \/ driver \in Clustered /\ pc' = After /\ UNCHANGED job
    BY <1>7 DEF SubmitJob
  <2>. QED
    BY <1>0, <2>1 DEF After, Clustered
<1>8. ASSUME JobCompleted \/ WatchRaises PROVE JobNeedsCluster'
  <2>1. /\ pc = "watch" /\ UNCHANGED <<driver, cluster>>
        /\ \/ job' = NoJob /\ pc' \in {"submit", After}
           \/ driver \in Clustered /\ job' = job /\ pc' = After
    BY <1>8 DEF JobCompleted, WatchRaises
  <2>. QED
    BY <1>0, <2>1 DEF After, Clustered
<1>10. ASSUME Leaves PROVE JobNeedsCluster'
  <2>1. /\ driver' = driver /\ driver \in Clustered /\ pc' \in {"idle", "teardown"}
        /\ (cluster' = FALSE /\ job' = NoJob) \/ UNCHANGED <<cluster, job>>
    BY <1>10, LeavesIs
  <2>. QED
    BY <1>0, <2>1
<1>11. ASSUME JobStep \/ JobFails PROVE JobNeedsCluster'
  <2>1. job # NoJob /\ UNCHANGED <<driver, pc, cluster>>
    BY <1>11, WorkIs, NoJobIs DEF WorkerFrame, driverVars
  <2>. QED
    BY <2>1
<1>12. CASE UNCHANGED seen
  BY <1>12 DEF seen
<1>. QED
  BY <1>1, <1>2, <1>3, <1>4, <1>5, <1>6, <1>7, <1>8, <1>10, <1>11, <1>12, SeenSame
     DEF Next, DriverStep, Leaves

LEMMA NextJobIsNext ==
  DriverOK /\ JobOK /\ JobNeedsCluster /\ JobIsNext /\ [Next]_vars => JobIsNext'
<1>. SUFFICES ASSUME DriverOK, JobOK, JobNeedsCluster, JobIsNext, [Next]_vars
              PROVE  JobIsNext'
  OBVIOUS
<1>0. /\ driver \in Launchers <=> driver \notin Clustered
      /\ pipeline \in Nat /\ at \in Nat \ {0} /\ ended \in Nat /\ job.by \in Nat
  BY DriverKinds, PipelineAssumption, SMT DEF DriverOK, JobOK
<1>. HIDE DEF NoJob
<1>1. ASSUME Begin PROVE JobIsNext'
  <2>1. /\ pipeline' = pipeline + 1 /\ pc' \in {"reset", "create"} /\ ended' = 0
        /\ job' = job
    BY <1>1 DEF Begin
  <2>. QED
    BY <1>0, <2>1, SMT DEF JobIsNext
<1>2. ASSUME ResetStore PROVE JobIsNext'
  <2>1. /\ UNCHANGED <<pipeline, ended, job>> /\ pc = "reset"
        /\ \/ pc' = "reset"
           \/ at' = 1 /\ pc' = "submit"
    BY <1>2 DEF ResetStore
  <2>. QED
    BY <1>0, <2>1, SMT DEF JobIsNext
<1>3. ASSUME CreateCluster \/ InstallTrainer \/ DeployDatabases \/ SetupKfpBackend
      PROVE  JobIsNext'
  <2>1. /\ UNCHANGED <<pipeline, ended, job>>
        /\ pc \in {"create", "prepare", "deploy", "backend"}
        /\ \/ pc' = "prepare"
           \/ pc' = "deploy" /\ at' = 1
           \/ pc \in {"deploy", "backend"} /\ pc' \in {"backend", "submit"} /\ UNCHANGED at
           \/ pc' \in {"paused", "teardown"}
    BY <1>3 DEF CreateCluster, InstallTrainer, RunCmd, DeployDatabases, TimesOut,
       CallRaises, WaitForDeployment, SetupKfpBackend
  <2>. QED
    BY <1>0, <2>1, SMT DEF JobIsNext
<1>4. ASSUME SubmitJob PROVE JobIsNext'
  <2>1. /\ UNCHANGED <<pipeline, ended, at>> /\ pc = "submit"
        /\ \/ pc' = "watch" /\ job'.by = pipeline /\ job'.state = "running"
           \/ pc' \in {"idle", "teardown"} /\ job' = job
    BY <1>4 DEF SubmitJob, After
  <2>. QED
    BY <1>0, <2>1, SMT DEF JobIsNext
<1>5. ASSUME JobCompleted PROVE JobIsNext'
  <2>1. /\ UNCHANGED <<pipeline, ended>> /\ pc = "watch" /\ job.state = "succeeded"
        /\ job'.by = 0
        /\ (pc' = "submit" /\ at' = at + 1) \/ pc' \in {"idle", "teardown"}
    BY <1>5, NoJobIs DEF JobCompleted, After
  <2>. QED
    BY <1>0, <2>1, SMT DEF JobIsNext
<1>6. ASSUME WatchRaises \/ Leaves PROVE JobIsNext'
  <2>1. /\ UNCHANGED <<pipeline, ended, at>> /\ job'.by \in {0, job.by}
        /\ pc' \in {"idle", "teardown"} /\ (pc = "idle" => pc' = "idle")
    BY <1>6, NoJobIs, LeavesIs DEF WatchRaises, After
  <2>. QED
    BY <1>0, <2>1, SMT DEF JobIsNext
<1>7. ASSUME JobStep \/ JobFails PROVE JobIsNext'
  <2>1. /\ UNCHANGED <<pipeline, pc, at>> /\ job.state = "running" /\ job'.by = job.by
        /\ \/ job'.state \in {"running", "failed"} /\ ended' = ended
           \/ /\ job'.state = "succeeded"
              /\ ended' = IF job.by = pipeline THEN ended + 1 ELSE ended
    BY <1>7, WorkIs DEF WorkerFrame, driverVars, Ended
  <2>2. pc # "submit"
    BY <2>1, NoJobIs DEF JobNeedsCluster
  <2>. QED
    BY <1>0, <2>1, <2>2, SMT DEF JobIsNext
<1>8. CASE UNCHANGED seen
  BY <1>8 DEF seen, JobIsNext
<1>. QED
  BY <1>1, <1>2, <1>3, <1>4, <1>5, <1>6, <1>7, <1>8, SeenSame
     DEF Next, DriverStep, Leaves

OneJobInv == Typed /\ JobNeedsCluster /\ JobIsNext

(* The inductive invariant of this part: a driver and its job go together. *)
THEOREM OneJobInvariant == Spec => []OneJobInv
<1>1. Init => OneJobInv
  BY InitTyped, InitOneJob DEF OneJobInv
<1>2. OneJobInv /\ [Next]_vars => OneJobInv'
  BY NextTyped, NextJobNeedsCluster, NextJobIsNext DEF OneJobInv, Typed
<1>. QED
  BY <1>1, <1>2, PTL DEF Spec

(* A job runs for a pipeline only when all before it ran to their ends.    *)
THEOREM PhasesAlwaysInOrder == Spec => []PhasesInOrder
<1>1. OneJobInv => PhasesInOrder
  BY DEF OneJobInv, JobIsNext, PhasesInOrder
<1>. QED
  BY <1>1, OneJobInvariant, PTL

(* Never two programs on the machines, though a workflow goes on when its  *)
(* client has left and leaves the cluster behind: OneJobAtATime.           *)
THEOREM NeverTwoJobs == Spec => OneJobAtATime
<1>. DEFINE Steady == job.state = "running" /\ job'.state = "running"
                        => <<job'.by, job'.phase>> = <<job.by, job.phase>>
<1>1. OneJobInv /\ [Next]_vars => [Steady]_vars
  <2>. SUFFICES ASSUME OneJobInv, [Next]_vars, job.state = "running",
                       job'.state = "running"
                PROVE  <<job'.by, job'.phase>> = <<job.by, job.phase>>
    OBVIOUS
  <2>. USE DEF OneJobInv, Typed
  <2>1. ASSUME JobStep \/ JobFails PROVE job'.by = job.by /\ job'.phase = job.phase
    BY <2>1, WorkIs
  <2>2. ASSUME SubmitJob PROVE job' = job
    BY <2>2, NoJobIs DEF SubmitJob, JobNeedsCluster
  <2>3. ASSUME Begin \/ ResetStore \/ CreateCluster \/ InstallTrainer \/ DeployDatabases
                 \/ SetupKfpBackend \/ JobCompleted \/ WatchRaises \/ Leaves
        PROVE  job' = job
    BY <2>3, NoJobIs, LeavesIs DEF Begin, ResetStore, CreateCluster, InstallTrainer,
       DeployDatabases, SetupKfpBackend, JobCompleted, WatchRaises
  <2>4. CASE UNCHANGED seen
    BY <2>4 DEF seen
  <2>. QED
    BY <2>1, <2>2, <2>3, <2>4, SeenSame DEF Next, DriverStep, Leaves
<1>2. Spec => [][Next]_vars
  BY PTL DEF Spec
<1>. QED
  BY <1>1, <1>2, OneJobInvariant, PTL DEF OneJobAtATime

-----------------------------------------------------------------------------
(* The least and the greatest of a set of numbers.                         *)

Less == {ss \in Nat \X Nat : ss[1] < ss[2]}

LEMMA LessWellFounded == IsWellFoundedOn(Less, Nat)
  BY NatLessThanWellFounded DEF OpToRel, Less

LEMMA MinExists ==
  ASSUME NEW S, S \subseteq Nat, S # {}
  PROVE  Min(S) \in S /\ \A y \in S : Min(S) <= y
<1>1. PICK x \in S : \A y \in S : ~ (<<y, x>> \in Less)
  BY LessWellFounded, WFMin
<1>2. ASSUME NEW y \in S PROVE x <= y
  <2>1. x \in Nat /\ y \in Nat
    BY <1>1
  <2>2. ~(<<y, x>>[1] < <<y, x>>[2])
    BY <1>1, <2>1, <1>2, Zenon DEF Less
  <2>. QED
    BY <2>1, <2>2, SMT
<1>. QED
  BY <1>2 DEF Min

LEMMA MaxExists ==
  ASSUME NEW n \in Nat, NEW S, S \subseteq 1 .. n, S # {}
  PROVE  Max(S) \in S /\ \A y \in S : Max(S) >= y
<1>. DEFINE T == {n - x : x \in S}
<1>1. T \subseteq Nat
  BY SMT
<1>2. T # {}
  OBVIOUS
<1>3. PICK x \in S : Min(T) = n - x
  BY <1>1, <1>2, MinExists
<1>4. \A y \in S : n - x <= n - y
  BY <1>1, <1>2, <1>3, MinExists
<1>5. \A y \in S : x >= y
  BY <1>4, SMT
<1>. QED
  BY <1>5 DEF Max

-----------------------------------------------------------------------------
(* What a plan looks like, whichever driver's: tune jobs, then a beginning *)
(* of the list of the other phases.                                        *)

Rest == <<"export-hpo-results", "train-best", "export-train-results",
          "test-best", "export-test-results">>

Shaped(plan) ==
  \E n \in Nat, m \in 1 .. 5 :
    /\ Len(plan) = n + m
    /\ \A i \in 1 .. n : plan[i].phase = "tune"
    /\ \A j \in 1 .. m : plan[n + j].phase = Rest[j]

LEMMA Joined ==
  ASSUME NEW n \in Nat, NEW s1, DOMAIN s1 = 1 .. n, s1 = [i \in 1 .. n |-> s1[i]],
         NEW T, NEW s2 \in Seq(T)
  PROVE  /\ Len(s1 \o s2) = n + Len(s2)
         /\ \A i \in 1 .. n : (s1 \o s2)[i] = s1[i]
         /\ \A j \in 1 .. Len(s2) : (s1 \o s2)[n + j] = s2[j]
<1>. DEFINE U == {s1[i] : i \in 1 .. n} \union T
<1>1. s1 \in Seq(U) /\ s2 \in Seq(U) /\ Len(s1) = n
  BY SMT
<1>2. Len(s2) \in Nat
  BY SMT
<1>. HIDE DEF U
<1>. QED
  BY <1>1, <1>2, ConcatProperties, SMT

LEMMA TuneJobs ==
  ASSUME NEW n \in Nat, NEW s1, s1 = [i \in 1 .. n |-> s1[i]],
         \A i \in 1 .. n : s1[i].phase = "tune",
         NEW T, NEW s2 \in Seq(T), Len(s2) \in 1 .. 5,
         \A j \in 1 .. Len(s2) : s2[j].phase = Rest[j]
  PROVE  Shaped(s1 \o s2)
<1>1. DOMAIN s1 = 1 .. n
  OBVIOUS
<1>2. /\ Len(s1 \o s2) = n + Len(s2)
      /\ \A i \in 1 .. n : (s1 \o s2)[i] = s1[i]
      /\ \A j \in 1 .. Len(s2) : (s1 \o s2)[n + j] = s2[j]
  BY <1>1, Joined
<1>. QED
  BY <1>2 DEF Shaped

LEMMA ChunkCount ==
  ASSUME DriverOK
  PROVE  NumChunks \in Nat /\ numTrials \in Nat \ {0} /\ PerWorker[driver] \in Nat \ {0}
<1>1. numTrials \in Nat \ {0} /\ PerWorker[driver] \in Nat \ {0}
  BY PipelineAssumption DEF DriverOK
<1>2. \A x \in Nat, d \in Nat \ {0} : (x + d - 1) \div d \in Nat
  BY SMT
<1>. QED
  BY <1>1, <1>2 DEF NumChunks

LEMMA PlanShape == ASSUME DriverOK PROVE Shaped(Plan)
<1>1. NumChunks \in Nat
  BY ChunkCount
<1>2. CASE driver = "xmanager"
  <2>. DEFINE s1 == [i \in 1 .. NumChunks |-> Tune(LauncherChunk(i))]
              s2 == <<Phase("export-hpo-results"), Phase("train-best")>>
  <2>1. s1 = [i \in 1 .. NumChunks |-> s1[i]] /\ \A i \in 1 .. NumChunks : s1[i].phase = "tune"
    BY DEF Tune
  <2>2. /\ s2 \in Seq({s2[1], s2[2]}) /\ Len(s2) = 2
        /\ s2[1].phase = Rest[1] /\ s2[2].phase = Rest[2]
    BY SMT DEF Phase, Rest
  <2>3. Plan = s1 \o s2
    BY <1>2 DEF Plan, XmanagerPlan
  <2>. HIDE DEF s1, s2
  <2>4. Len(s2) \in 1 .. 5 /\ \A j \in 1 .. Len(s2) : s2[j].phase = Rest[j]
    BY <2>2, SMT
  <2>. QED
    BY <1>1, <2>1, <2>2, <2>3, <2>4, TuneJobs
<1>3. CASE driver = "kind"
  <2>. DEFINE s1 == [i \in 1 .. NumChunks |-> Tune(KindChunk(i))]
              s2 == <<Phase("export-hpo-results"), Phase("train-best"),
                      Phase("export-train-results"), Phase("test-best"),
                      Phase("export-test-results")>>
  <2>1. s1 = [i \in 1 .. NumChunks |-> s1[i]] /\ \A i \in 1 .. NumChunks : s1[i].phase = "tune"
    BY DEF Tune
  <2>2. /\ s2 \in Seq({s2[1], s2[2], s2[3], s2[4], s2[5]}) /\ Len(s2) = 5
        /\ s2[1].phase = Rest[1] /\ s2[2].phase = Rest[2] /\ s2[3].phase = Rest[3]
        /\ s2[4].phase = Rest[4] /\ s2[5].phase = Rest[5]
    BY SMT DEF Phase, Rest
  <2>3. Plan = s1 \o s2
    BY <1>3 DEF Plan, KindPlan
  <2>. HIDE DEF s1, s2
  <2>4. Len(s2) \in 1 .. 5 /\ \A j \in 1 .. Len(s2) : s2[j].phase = Rest[j]
    BY <2>2, SMT
  <2>. QED
    BY <1>1, <2>1, <2>2, <2>3, <2>4, TuneJobs
<1>4. CASE driver = "tmp"
  <2>1. Plan = <<Tune(Ids(0, numTrials)), Phase("export-hpo-results")>>
    BY <1>4 DEF Plan, TmpPlan
  <2>2. /\ Len(Plan) = 1 + 1 /\ Plan[1].phase = "tune" /\ Plan[1 + 1].phase = Rest[1]
    BY <2>1, SMT DEF Tune, Phase, Rest
  <2>3. \A k \in 1 .. 1 : k = 1
    BY SMT
  <2>. QED
    BY <2>2, <2>3, SMT DEF Shaped
<1>5. CASE driver = "kfp"
  <2>1. Plan = KfpPlan
    BY <1>5 DEF Plan
  <2>2. /\ Len(Plan) = 1 + 5 /\ Plan[1].phase = "tune" /\ Plan[1 + 1].phase = Rest[1]
        /\ Plan[1 + 2].phase = Rest[2] /\ Plan[1 + 3].phase = Rest[3]
        /\ Plan[1 + 4].phase = Rest[4] /\ Plan[1 + 5].phase = Rest[5]
    BY <2>1, SMT DEF KfpPlan, Tune, Phase, Rest
  <2>3. /\ \A k \in 1 .. 1 : k = 1
        /\ \A k \in 1 .. 5 : k = 1 \/ k = 2 \/ k = 3 \/ k = 4 \/ k = 5
    BY SMT
  <2>4. /\ \A i \in 1 .. 1 : Plan[i].phase = "tune"
        /\ \A j \in 1 .. 5 : Plan[1 + j].phase = Rest[j]
    BY <2>2, <2>3
  <2>. HIDE DEF Plan
  <2>5. 1 \in Nat /\ 5 \in 1 .. 5
    BY SMT
  <2>. QED
    BY <2>2, <2>4, <2>5 DEF Shaped
<1>. QED
  BY <1>2, <1>3, <1>4, <1>5, PipelineAssumption DEF DriverOK, Launchers, Clustered

(* Which phase comes after which.                                          *)
Follows(p, q) ==
  \/ p = "tune" /\ q \in {"tune", "export-hpo-results"}
  \/ p = "export-hpo-results" /\ q = "train-best"
  \/ p = "train-best" /\ q = "export-train-results"
  \/ p = "export-train-results" /\ q = "test-best"
  \/ p = "test-best" /\ q = "export-test-results"

LEMMA PlanOrder ==
  ASSUME DriverOK
  PROVE  /\ Len(Plan) \in Nat \ {0}
         /\ Plan[1].phase \in {"tune", "export-hpo-results"}
         /\ \A i \in 1 .. Len(Plan) :
              /\ \/ Plan[i].phase = "tune"
                 \/ \E j \in 1 .. 5 : Plan[i].phase = Rest[j]
              /\ i < Len(Plan) => Follows(Plan[i].phase, Plan[i + 1].phase)
<1>. DEFINE plan == Plan
<1>1. PICK n \in Nat, m \in 1 .. 5 :
        /\ Len(plan) = n + m
        /\ \A i \in 1 .. n : plan[i].phase = "tune"
        /\ \A j \in 1 .. m : plan[n + j].phase = Rest[j]
  BY PlanShape DEF Shaped
<1>. HIDE DEF plan
<1>2. /\ Rest[1] = "export-hpo-results" /\ Rest[2] = "train-best"
      /\ Rest[3] = "export-train-results" /\ Rest[4] = "test-best"
      /\ Rest[5] = "export-test-results"
  BY SMT DEF Rest
<1>3. \A j \in 1 .. 4 : Follows(Rest[j], Rest[j + 1])
  <2>1. \A j \in 1 .. 4 : j = 1 \/ j = 2 \/ j = 3 \/ j = 4
    BY SMT
  <2>. QED
    BY <1>2, <2>1, SMT DEF Follows
<1>4. /\ Len(plan) \in Nat \ {0}
      /\ \A i \in 1 .. Len(plan) : i \in 1 .. n \/ \E j \in 1 .. m : i = n + j
  <2>1. \A i \in 1 .. Len(plan) : i \in 1 .. n \/ (i - n \in 1 .. m /\ i = n + (i - n))
    BY <1>1, SMT
  <2>. QED
    BY <1>1, <2>1, SMT
<1>5. plan[1].phase \in {"tune", "export-hpo-results"}
  <2>1. CASE n = 0
    <3>1. 1 \in 1 .. m /\ n + 1 = 1
      BY <2>1, SMT
    <3>. QED
      BY <1>1, <1>2, <3>1
  <2>2. CASE n # 0
    <3>1. 1 \in 1 .. n
      BY <2>2, SMT
    <3>. QED
      BY <1>1, <3>1
  <2>. QED
    BY <2>1, <2>2
<1>6. ASSUME NEW i \in 1 .. Len(plan), i < Len(plan)
      PROVE  Follows(plan[i].phase, plan[i + 1].phase)
  <2>1. CASE i \in 1 .. n
    <3>1. plan[i].phase = "tune"
      BY <1>1, <2>1
    <3>2. i + 1 \in 1 .. n \/ (i + 1 = n + 1 /\ 1 \in 1 .. m)
      BY <2>1, SMT
    <3>3. plan[i + 1].phase \in {"tune", "export-hpo-results"}
      BY <1>1, <1>2, <3>2
    <3>. QED
      BY <3>1, <3>3 DEF Follows
  <2>2. CASE i \notin 1 .. n
    <3>1. PICK j \in 1 .. m : i = n + j
      BY <1>4, <2>2
    <3>2. j \in 1 .. 4 /\ j + 1 \in 1 .. m /\ i + 1 = n + (j + 1)
      BY <1>1, <1>6, <3>1, SMT
    <3>3. plan[i].phase = Rest[j] /\ plan[i + 1].phase = Rest[j + 1]
      BY <1>1, <3>1, <3>2
    <3>. QED
      BY <1>3, <3>2, <3>3
  <2>. QED
    BY <2>1, <2>2
<1>7. ASSUME NEW i \in 1 .. Len(plan)
      PROVE  plan[i].phase = "tune" \/ \E j \in 1 .. 5 : plan[i].phase = Rest[j]
  <2>1. 1 .. m \subseteq 1 .. 5
    BY SMT
  <2>. QED
    BY <1>1, <1>4, <1>7, <2>1
<1>. QED
  BY <1>4, <1>5, <1>6, <1>7 DEF plan

-----------------------------------------------------------------------------
(* The runs: a run that ends is the last one to have ended, and a job's    *)
(* run is open, and of the kind its phase starts.                          *)

EndsCounted == \A r \in DOMAIN runs : runs[r].end <= Cardinality(EndedRuns)

OpenRun ==
  job.run # 0 =>
    /\ job.state = "running" /\ job.run \in DOMAIN runs /\ runs[job.run].end = 0
    /\ job.phase \in {"tune", "train-best", "test-best"}
    /\ job.phase = "tune" => runs[job.run].kind = "tune"
    /\ job.phase = "train-best" => runs[job.run].kind = "train"
    /\ job.phase = "test-best" => runs[job.run].kind = "test"

RunsInv == EndsCounted /\ OpenRun

LEMMA SameEnds == EndsCounted /\ runs' = runs => EndsCounted'
  BY DEF EndsCounted, EndedRuns

LEMMA EndingCounts ==
  ASSUME StoresOK, EndsCounted, NEW r, r \in DOMAIN runs => runs[r].end = 0,
         runs' = Ending(r)
  PROVE  EndsCounted'
<1>1. /\ DOMAIN runs' = DOMAIN runs
      /\ \A q \in DOMAIN runs \ {r} : runs'[q] = runs[q]
      /\ r \in DOMAIN runs => runs'[r].end = 1 + Cardinality(EndedRuns)
  BY EndingIs
<1>2. IsFiniteSet(EndedRuns) /\ Cardinality(EndedRuns) \in Nat
  BY EndedRunsFinite DEF StoresOK
<1>3. \A q \in DOMAIN runs : runs[q].end \in Nat
  BY DEF StoresOK
<1>4. CASE r \notin DOMAIN runs
  <2>1. EndedRuns' = EndedRuns
    BY <1>1, <1>4 DEF EndedRuns
  <2>. QED
    BY <1>1, <1>4, <2>1 DEF EndsCounted
<1>5. CASE r \in DOMAIN runs
  <2>1. runs[r].end = 0 /\ r \notin EndedRuns
    BY <1>5 DEF EndedRuns
  <2>2. runs'[r].end > 0
    BY <1>1, <1>2, <1>5, SMT
  <2>3. EndedRuns' = EndedRuns \union {r}
    BY <1>1, <1>5, <2>2 DEF EndedRuns
  <2>4. Cardinality(EndedRuns') = Cardinality(EndedRuns) + 1
    BY <1>2, <2>1, <2>3, FS_AddElement
  <2>5. ASSUME NEW q \in DOMAIN runs' PROVE runs'[q].end <= Cardinality(EndedRuns')
    <3>1. CASE q = r
      BY <1>1, <1>2, <1>5, <2>4, <3>1, SMT
    <3>2. CASE q # r
      <4>1. runs'[q].end = runs[q].end /\ runs[q].end \in Nat
            /\ runs[q].end <= Cardinality(EndedRuns)
        BY <1>1, <1>3, <3>2, <2>5 DEF EndsCounted
      <4>. QED
        BY <1>2, <2>4, <4>1, SMT
    <3>. QED
      BY <3>1, <3>2
  <2>. QED
    BY <2>5 DEF EndsCounted
<1>. QED
  BY <1>4, <1>5

LEMMA StartCounts ==
  ASSUME StoresOK, JobOK, EndsCounted, NEW kind \in {"tune", "train", "test"}, StartRun(kind)
  PROVE  EndsCounted'
<1>1. /\ lastRun + 1 \notin DOMAIN runs
      /\ DOMAIN runs' = DOMAIN runs \union {lastRun + 1}
      /\ \A r \in DOMAIN runs : runs'[r] = runs[r]
      /\ runs'[lastRun + 1].end = 0
  BY StartRunIs
<1>2. EndedRuns' = EndedRuns
  <2>1. ~(0 > 0)
    BY SMT
  <2>. QED
    BY <1>1, <2>1 DEF EndedRuns
<1>3. Cardinality(EndedRuns) >= 0
  BY EndedRunsFinite, SMT DEF StoresOK
<1>. QED
  BY <1>1, <1>2, <1>3 DEF EndsCounted

(* What the driver does between the resets leaves the stores alone.        *)
Quiet ==
  \/ CreateCluster \/ InstallTrainer \/ DeployDatabases \/ SetupKfpBackend
  \/ SubmitJob \/ JobCompleted \/ WatchRaises \/ Leaves

LEMMA QuietIs ==
  ASSUME Quiet
  PROVE  /\ UNCHANGED <<driver, numTrials, pipeline, ended, cleared, uses, storeVars>>
         /\ \/ job' \in {job, NoJob}
            \/ /\ pc = "submit" /\ pc' = "watch" /\ at' = at
               /\ job'.phase = Plan[at].phase /\ job'.step = 0 /\ job'.run = 0
               /\ job'.by = pipeline /\ job'.state = "running"
<1>1. UNCHANGED <<driver, numTrials, pipeline, ended, cleared, uses, storeVars>>
  BY LeavesIs DEF Quiet, CreateCluster, InstallTrainer, DeployDatabases,
     CleanOldCheckpoints, SetupKfpBackend, SubmitJob, JobCompleted, WatchRaises,
     storeVars
<1>2. ASSUME SubmitJob
      PROVE  \/ job' = job
             \/ /\ pc = "submit" /\ pc' = "watch" /\ at' = at
                /\ job'.phase = Plan[at].phase /\ job'.step = 0 /\ job'.run = 0
                /\ job'.by = pipeline /\ job'.state = "running"
  <2>1. CASE job' = [phase |-> Plan[at].phase, left |-> Plan[at].ids, step |-> 0,
                     run |-> 0, by |-> pipeline, state |-> "running"] /\ pc' = "watch"
    <3>. DEFINE entry == Plan[at]
    <3>. HIDE DEF entry
    <3>1. job' = [phase |-> entry.phase, left |-> entry.ids, step |-> 0,
                  run |-> 0, by |-> pipeline, state |-> "running"]
      BY <2>1 DEF entry
    <3>2. /\ job'.phase = entry.phase /\ job'.step = 0 /\ job'.run = 0
          /\ job'.by = pipeline /\ job'.state = "running"
      BY <3>1
    <3>. QED
      BY <1>2, <2>1, <3>2 DEF SubmitJob, entry
  <2>. QED
    BY <1>2, <2>1 DEF SubmitJob
<1>3. ASSUME CreateCluster \/ InstallTrainer \/ DeployDatabases \/ SetupKfpBackend
               \/ JobCompleted \/ WatchRaises \/ Leaves
      PROVE  job' \in {job, NoJob}
  BY <1>3, LeavesIs DEF CreateCluster, InstallTrainer, DeployDatabases,
     SetupKfpBackend, JobCompleted, WatchRaises
<1>. QED
  BY <1>1, <1>2, <1>3 DEF Quiet

(* What the steps of a job do to its record.                               *)
LEMMA JobFields ==
  ASSUME JobOK
  PROVE  /\ \A n : [job EXCEPT !.step = n].step = n
         /\ \A n : /\ [job EXCEPT !.step = n].run = job.run
                   /\ [job EXCEPT !.step = n].state = job.state
                   /\ [job EXCEPT !.step = n].phase = job.phase
                   /\ [job EXCEPT !.step = n].by = job.by
         /\ \A n : /\ [job EXCEPT !.run = n].run = n
                   /\ [job EXCEPT !.run = n].step = job.step
                   /\ [job EXCEPT !.run = n].state = job.state
                   /\ [job EXCEPT !.run = n].phase = job.phase
                   /\ [job EXCEPT !.run = n].by = job.by
         /\ \A n, m : /\ [job EXCEPT !.step = m, !.run = n].run = n
                      /\ [job EXCEPT !.step = m, !.run = n].step = m
                      /\ [job EXCEPT !.step = m, !.run = n].state = job.state
                      /\ [job EXCEPT !.step = m, !.run = n].phase = job.phase
                      /\ [job EXCEPT !.step = m, !.run = n].by = job.by
         /\ \A n, m : /\ [job EXCEPT !.run = n, !.left = m].run = n
                      /\ [job EXCEPT !.run = n, !.left = m].step = job.step
                      /\ [job EXCEPT !.run = n, !.left = m].state = job.state
                      /\ [job EXCEPT !.run = n, !.left = m].phase = job.phase
                      /\ [job EXCEPT !.run = n, !.left = m].by = job.by
         /\ \A n, m : /\ [job EXCEPT !.state = m, !.run = n].run = n
                      /\ [job EXCEPT !.state = m, !.run = n].step = job.step
                      /\ [job EXCEPT !.state = m, !.run = n].state = m
                      /\ [job EXCEPT !.state = m, !.run = n].phase = job.phase
                      /\ [job EXCEPT !.state = m, !.run = n].by = job.by
<1>1. {"phase", "left", "step", "run", "by", "state"} = DOMAIN job
  BY DEF JobOK, NoJob
<1>. QED
  BY <1>1

LEMMA NextRunsInv ==
  OneJobInv /\ RunsInv /\ [Next]_vars => RunsInv'
<1>. SUFFICES ASSUME OneJobInv, RunsInv, [Next]_vars PROVE RunsInv'
  OBVIOUS
<1>0. StoresOK /\ JobOK /\ DriverOK /\ EndsCounted
  BY DEF OneJobInv, Typed, RunsInv
<1>1. ASSUME UNCHANGED <<runs, job>> PROVE RunsInv'
  BY <1>1, SameEnds DEF RunsInv, OpenRun
<1>2. ASSUME runs' = runs, job'.run = 0 PROVE RunsInv'
  BY <1>2, SameEnds DEF RunsInv, OpenRun
<1>3. ASSUME runs' = Ending(job.run), job'.run = 0 PROVE RunsInv'
  <2>1. job.run \in DOMAIN runs => runs[job.run].end = 0
    <3>1. 0 \notin DOMAIN runs
      BY <1>0, SMT DEF StoresOK
    <3>. QED
      BY <3>1 DEF RunsInv, OpenRun
  <2>. QED
    BY <1>0, <1>3, <2>1, EndingCounts DEF RunsInv, OpenRun
<1>4. ASSUME NEW kind \in {"tune", "train", "test"}, StartRun(kind),
             job'.run = lastRun + 1, job'.state = "running", job'.phase = job.phase,
             job.phase \in {"tune", "train-best", "test-best"},
             /\ job.phase = "tune" => kind = "tune"
             /\ job.phase = "train-best" => kind = "train"
             /\ job.phase = "test-best" => kind = "test"
      PROVE  RunsInv'
  <2>1. EndsCounted'
    BY <1>0, <1>4, StartCounts
  <2>2. /\ DOMAIN runs' = DOMAIN runs \union {lastRun + 1}
        /\ runs'[lastRun + 1].kind = kind /\ runs'[lastRun + 1].end = 0
    BY <1>0, <1>4, StartRunIs
  <2>. QED
    BY <1>4, <2>1, <2>2 DEF RunsInv, OpenRun
<1>5. ASSUME Begin PROVE RunsInv'
  BY <1>1, <1>5 DEF Begin, storeVars
<1>6. ASSUME ResetStore PROVE RunsInv'
  <2>1. job' = job /\ job.run = 0
    BY <1>6, NoJobIs DEF ResetStore, OneJobInv, JobNeedsCluster
  <2>2. ASSUME runs' = runs PROVE RunsInv'
    BY <1>1, <2>1, <2>2
  <2>3. ASSUME runs' = <<>> PROVE RunsInv'
    <3>1. DOMAIN runs' = {}
      BY <2>3
    <3>. QED
      BY <2>1, <3>1 DEF RunsInv, EndsCounted, OpenRun
  <2>. QED
    BY <1>0, <1>6, <2>2, <2>3, ResetIs DEF ResetCheckpointBuckets, ResetHpoResultsBucket,
       ResetVizierRecords, ResetMlflowRecords, storeVars
<1>7. ASSUME Quiet PROVE RunsInv'
  BY <1>1, <1>2, <1>7, QuietIs, NoJobIs DEF storeVars
<1>8. ASSUME JobFails PROVE RunsInv'
  <2>1. job'.run = 0
    BY <1>0, <1>8, JobFields DEF JobFails
  <2>. QED
    BY <1>2, <1>3, <1>8, <2>1 DEF JobFails
<1>9. ASSUME JobEnds PROVE job'.run = 0
  BY <1>0, <1>9, JobFields DEF JobEnds
<1>10. ASSUME TuneEnd \/ ExportMetrics \/ ExportTrain \/ ExportTest PROVE RunsInv'
  <2>1. JobEnds /\ runs' = runs
    BY <1>10 DEF TuneEnd, ExportMetrics, ExportTrain, ExportTest, ExportRun, storeVars
  <2>. QED
    BY <1>2, <1>9, <2>1
<1>11. ASSUME TrainEnd \/ TestEnd PROVE RunsInv'
  BY <1>3, <1>9, <1>11 DEF TrainEnd, TestEnd
<1>12. ASSUME TrialComplete PROVE RunsInv'
  <2>1. runs' = Ending(job.run) /\ job' = [job EXCEPT !.run = 0, !.left = Tail(job.left)]
    BY <1>12 DEF TrialComplete
  <2>. QED
    BY <1>0, <1>3, <2>1, JobFields
<1>13. ASSUME Suggest \/ ExportHparams PROVE RunsInv'
  <2>1. runs' = runs /\ job' = [job EXCEPT !.step = 1]
    BY <1>13 DEF Suggest, ExportHparams, storeVars
  <2>2. /\ job'.run = job.run /\ job'.state = job.state /\ job'.phase = job.phase
    BY <1>0, <2>1, JobFields
  <2>. QED
    BY <2>1, <2>2, SameEnds DEF RunsInv, OpenRun
<1>14. ASSUME TrialStart PROVE RunsInv'
  <2>1. /\ StartRun("tune") /\ job.phase = "tune" /\ job.state = "running"
        /\ job' = [job EXCEPT !.run = lastRun + 1]
    BY <1>14 DEF TrialStart, Running
  <2>2. job'.run = lastRun + 1 /\ job'.state = "running" /\ job'.phase = job.phase
    BY <1>0, <2>1, JobFields
  <2>. QED
    BY <1>4, <2>1, <2>2
<1>15. ASSUME TrainStart PROVE RunsInv'
  <2>1. /\ StartRun("train") /\ job.phase = "train-best" /\ job.state = "running"
        /\ job' = [job EXCEPT !.step = 1, !.run = lastRun + 1]
    BY <1>15 DEF TrainStart, Running
  <2>2. job'.run = lastRun + 1 /\ job'.state = "running" /\ job'.phase = job.phase
    BY <1>0, <2>1, JobFields
  <2>. QED
    BY <1>4, <2>1, <2>2
<1>16. ASSUME TestStart PROVE RunsInv'
  <2>1. /\ StartRun("test") /\ job.phase = "test-best" /\ job.state = "running"
        /\ job' = [job EXCEPT !.step = 1, !.run = lastRun + 1]
    BY <1>16 DEF TestStart, Running
  <2>2. job'.run = lastRun + 1 /\ job'.state = "running" /\ job'.phase = job.phase
    BY <1>0, <2>1, JobFields
  <2>. QED
    BY <1>4, <2>1, <2>2
<1>17. ASSUME TrainEpoch PROVE RunsInv'
  <2>1. CASE runs' = runs /\ job' = [job EXCEPT !.step = @ + 1]
    <3>1. job'.run = job.run /\ job'.state = job.state /\ job'.phase = job.phase
      BY <1>0, <2>1, JobFields
    <3>. QED
      BY <2>1, <3>1, SameEnds DEF RunsInv, OpenRun
  <2>2. CASE runs' = Ending(job.run) /\ job' = [job EXCEPT !.state = "failed", !.run = 0]
    BY <1>0, <1>3, <2>2, JobFields
  <2>. QED
    BY <1>17, <2>1, <2>2 DEF TrainEpoch
<1>18. CASE UNCHANGED seen
  BY <1>1, <1>18 DEF seen, storeVars
<1>. QED
  BY <1>5, <1>6, <1>7, <1>8, <1>10, <1>11, <1>12, <1>13, <1>14, <1>15, <1>16, <1>17, <1>18,
     SeenSame
     DEF Next, DriverStep, JobStep, Quiet, Leaves

-----------------------------------------------------------------------------
(* The results: what a folder names is a run of its kind, or one that is   *)
(* gone, and an id that is given out is never given out again.             *)

Known(r, k) == r \in Nat /\ r <= lastRun /\ (r \in DOMAIN runs => runs[r].kind = k)

Kept == [hparams |-> "tune", tune |-> "tune", train |-> "train", test |-> "test"]

ResultsInv ==
  /\ \A i \in DOMAIN trials : Known(trials[i].run, "tune")
  /\ \A f \in DOMAIN NoResults : Known(results[f], Kept[f])
  /\ job.phase \in {"export-train-results", "export-test-results"} => job.step = 0

(* Whatever a step does to the runs, those that stay keep their kind.      *)
RunsKept ==
  /\ lastRun \in Nat /\ lastRun' \in Nat /\ lastRun <= lastRun'
  /\ \A r \in Nat : r <= lastRun /\ r \in DOMAIN runs' =>
       r \in DOMAIN runs /\ runs'[r].kind = runs[r].kind

LEMMA NextRunsKept == OneJobInv /\ [Next]_vars => RunsKept
<1>. SUFFICES ASSUME OneJobInv, [Next]_vars PROVE RunsKept
  OBVIOUS
<1>0. StoresOK /\ JobOK /\ DriverOK /\ lastRun \in Nat
  BY DEF OneJobInv, Typed, StoresOK
<1>1. ASSUME runs' = runs, lastRun' = lastRun PROVE RunsKept
  BY <1>0, <1>1, SMT DEF RunsKept
<1>2. ASSUME NEW r, runs' = Ending(r), lastRun' = lastRun PROVE RunsKept
  <2>1. /\ DOMAIN runs' = DOMAIN runs
        /\ \A q \in DOMAIN runs : runs'[q].kind = runs[q].kind
    BY <1>0, <1>2, EndingIs
  <2>2. lastRun <= lastRun'
    BY <1>0, <1>2, SMT
  <2>. QED
    BY <1>0, <1>2, <2>1, <2>2 DEF RunsKept
<1>3. ASSUME NEW kind \in {"tune", "train", "test"}, StartRun(kind) PROVE RunsKept
  <2>1. /\ lastRun' = lastRun + 1
        /\ DOMAIN runs' = DOMAIN runs \union {lastRun + 1}
        /\ \A q \in DOMAIN runs : runs'[q] = runs[q]
    BY <1>0, <1>3, StartRunIs
  <2>2. lastRun' \in Nat /\ lastRun <= lastRun' /\ ~(lastRun + 1 <= lastRun)
    BY <1>0, <2>1, SMT
  <2>. QED
    BY <1>0, <2>1, <2>2 DEF RunsKept
<1>4. ASSUME ResetStore PROVE RunsKept
  <2>1. ASSUME ResetMlflowRecords PROVE RunsKept
    <3>1. DOMAIN runs' = {} /\ lastRun' = lastRun
      BY <2>1 DEF ResetMlflowRecords
    <3>. QED
      BY <1>0, <3>1, SMT DEF RunsKept
  <2>. QED
    BY <1>0, <1>1, <1>4, <2>1, ResetIs DEF ResetCheckpointBuckets, ResetHpoResultsBucket,
       ResetVizierRecords, storeVars
<1>5. ASSUME Begin \/ Quiet PROVE RunsKept
  BY <1>1, <1>5, QuietIs DEF Begin, storeVars
<1>6. ASSUME Suggest \/ TuneEnd \/ ExportHparams \/ ExportMetrics \/ ExportTrain
               \/ ExportTest
      PROVE  RunsKept
  BY <1>1, <1>6 DEF Suggest, TuneEnd, ExportHparams, ExportMetrics, ExportTrain,
     ExportTest, ExportRun, storeVars
<1>7. ASSUME TrialStart \/ TrainStart \/ TestStart PROVE RunsKept
  BY <1>3, <1>7 DEF TrialStart, TrainStart, TestStart
<1>8. ASSUME TrialComplete \/ TrainEnd \/ TestEnd \/ TrainEpoch \/ JobFails PROVE RunsKept
  BY <1>1, <1>2, <1>8 DEF TrialComplete, TrainEnd, TestEnd, TrainEpoch, JobFails
<1>9. CASE UNCHANGED seen
  BY <1>1, <1>9 DEF seen, storeVars
<1>. QED
  BY <1>4, <1>5, <1>6, <1>7, <1>8, <1>9, SeenSame
     DEF Next, DriverStep, JobStep, Quiet, Leaves

LEMMA KnownStays ==
  ASSUME RunsKept, NEW r, NEW k, Known(r, k)
  PROVE  r \in Nat /\ r <= lastRun' /\ (r \in DOMAIN runs' => runs'[r].kind = k)
<1>1. r \in Nat /\ r <= lastRun /\ (r \in DOMAIN runs => runs[r].kind = k)
  BY DEF Known
<1>2. r <= lastRun'
  BY <1>1, SMT DEF RunsKept
<1>. QED
  BY <1>1, <1>2 DEF RunsKept

(* The winner is a trial's run.                                            *)
LEMMA OptimalIs ==
  ASSUME TrialsOK
  PROVE  Optimal # 0 => \E i \in DOMAIN trials : Optimal = trials[i].run
<1>. DEFINE best == {i \in DOMAIN trials :
                      \A j \in DOMAIN trials : trials[j].score <= trials[i].score}
<1>1. DOMAIN trials \subseteq Nat
  <2>1. PICK S : trials \in Seq(S)
    BY DEF TrialsOK, Listed
  <2>. QED
    BY <2>1, SMT
<1>2. best \subseteq DOMAIN trials /\ best \subseteq Nat
  BY <1>1
<1>3. Optimal = IF best = {} THEN 0 ELSE trials[Min(best)].run
  BY DEF Optimal
<1>. HIDE DEF best
<1>4. best # {} => Min(best) \in best
  BY <1>2, MinExists
<1>. QED
  BY <1>2, <1>3, <1>4

LEMMA StartedLastIs ==
  ASSUME StoresOK, NEW k, RunsOf(k) # {}
  PROVE  /\ StartedLast(k) \in DOMAIN runs /\ runs[StartedLast(k)].kind = k
         /\ StartedLast(k) \in Nat /\ StartedLast(k) <= lastRun
<1>1. RunsOf(k) \subseteq 1 .. lastRun /\ lastRun \in Nat
  BY DEF StoresOK, RunsOf
<1>2. StartedLast(k) \in RunsOf(k)
  BY <1>1, MaxExists DEF StartedLast
<1>3. StartedLast(k) \in 1 .. lastRun
  BY <1>1, <1>2
<1>. QED
  BY <1>1, <1>2, <1>3, SMT DEF RunsOf

LEMMA InitResults == Init => RunsInv /\ ResultsInv
<1>. SUFFICES ASSUME Init PROVE RunsInv /\ ResultsInv
  OBVIOUS
<1>1. DOMAIN runs = {} /\ DOMAIN trials = {} /\ lastRun = 0 /\ job.run = 0 /\ job.phase = "none"
  BY NoJobIs DEF Init
<1>2. \A f \in DOMAIN NoResults : results[f] = 0
  BY DEF Init, NoResults
<1>. QED
  BY <1>1, <1>2, SMT DEF RunsInv, ResultsInv, EndsCounted, OpenRun, Known

LEMMA NextResultsInv ==
  OneJobInv /\ RunsInv /\ ResultsInv /\ [Next]_vars => ResultsInv'
<1>. SUFFICES ASSUME OneJobInv, RunsInv, ResultsInv, [Next]_vars PROVE ResultsInv'
  OBVIOUS
<1>0. StoresOK /\ JobOK /\ DriverOK /\ TrialsOK
  BY DEF OneJobInv, Typed
<1>1. RunsKept
  BY NextRunsKept
<1>2. DOMAIN NoResults = {"hparams", "tune", "train", "test"} /\ DOMAIN results = DOMAIN NoResults
  BY <1>0 DEF NoResults, StoresOK
<1>. DEFINE TrialsKnown == \A i \in DOMAIN trials : Known(trials[i].run, "tune")
            FoldersKnown == \A f \in DOMAIN NoResults : Known(results[f], Kept[f])
            NoSteps == job.phase \in {"export-train-results", "export-test-results"}
                         => job.step = 0
(* The three parts, each where it is not touched.                          *)
<1>3. ASSUME trials' = trials PROVE TrialsKnown'
  BY <1>1, <1>3, KnownStays DEF ResultsInv, Known
<1>4. ASSUME results' = results PROVE FoldersKnown'
  BY <1>1, <1>4, KnownStays DEF ResultsInv, Known, NoResults, Kept
<1>5. ASSUME job'.phase = job.phase, job'.step = job.step PROVE NoSteps'
  BY <1>5 DEF ResultsInv
<1>6. ASSUME job' \in {job, NoJob} PROVE NoSteps'
  BY <1>5, <1>6, NoJobIs
<1>7. ASSUME JobEnds PROVE NoSteps'
  BY <1>0, <1>5, <1>7, JobFields DEF JobEnds
<1>8. ASSUME job.phase \notin {"export-train-results", "export-test-results"},
             job'.phase = job.phase
      PROVE  NoSteps'
  BY <1>8
<1>. HIDE DEF NoSteps, TrialsKnown, FoldersKnown
<1>9. ASSUME TrialsKnown', FoldersKnown', NoSteps' PROVE ResultsInv'
  BY <1>9 DEF ResultsInv, TrialsKnown, FoldersKnown, NoSteps
<1>10. ASSUME Begin PROVE ResultsInv'
  BY <1>3, <1>4, <1>6, <1>9, <1>10 DEF Begin, storeVars
<1>11. ASSUME ResetStore PROVE ResultsInv'
  <2>1. NoSteps'
    BY <1>6, <1>11 DEF ResetStore
  <2>2. ASSUME ResetHpoResultsBucket PROVE FoldersKnown' /\ TrialsKnown'
    <3>1. \A f \in DOMAIN NoResults : results'[f] = 0
      BY <2>2 DEF ResetHpoResultsBucket, NoResults
    <3>2. 0 \in Nat /\ 0 <= lastRun' /\ 0 \notin DOMAIN runs'
      <4>1. runs' = runs /\ lastRun' \in Nat
        BY <1>1, <2>2 DEF ResetHpoResultsBucket, RunsKept
      <4>. QED
        BY <1>0, <4>1, SMT DEF StoresOK
    <3>3. FoldersKnown'
      BY <3>1, <3>2 DEF FoldersKnown, Known, NoResults
    <3>. QED
      BY <1>3, <2>2, <3>3 DEF ResetHpoResultsBucket
  <2>3. ASSUME ResetVizierRecords PROVE FoldersKnown' /\ TrialsKnown'
    <3>1. DOMAIN trials' = {}
      BY <2>3 DEF ResetVizierRecords
    <3>. QED
      BY <1>4, <2>3, <3>1 DEF ResetVizierRecords, TrialsKnown
  <2>4. ASSUME results' = results, trials' = trials PROVE FoldersKnown' /\ TrialsKnown'
    BY <1>3, <1>4, <2>4
  <2>. QED
    BY <1>0, <1>9, <1>11, <2>1, <2>2, <2>3, <2>4, ResetIs
       DEF ResetCheckpointBuckets, ResetMlflowRecords, storeVars
<1>12. ASSUME Quiet PROVE ResultsInv'
  <2>1. NoSteps'
    BY <1>6, <1>12, QuietIs DEF NoSteps
  <2>. QED
    BY <1>3, <1>4, <1>9, <1>12, <2>1, QuietIs DEF storeVars
<1>13. ASSUME JobFails PROVE ResultsInv'
  <2>1. NoSteps'
    BY <1>0, <1>5, <1>13, JobFields DEF JobFails
  <2>. QED
    BY <1>3, <1>4, <1>9, <1>13, <2>1 DEF JobFails
<1>14. ASSUME TuneEnd \/ TrainEnd \/ TestEnd PROVE ResultsInv'
  BY <1>3, <1>4, <1>7, <1>9, <1>14 DEF TuneEnd, TrainEnd, TestEnd, storeVars
<1>15. ASSUME Suggest \/ TrialStart \/ TrainStart \/ TestStart \/ TrainEpoch
       PROVE  ResultsInv'
  <2>1. /\ job.phase \notin {"export-train-results", "export-test-results"}
        /\ UNCHANGED <<trials, results>>
    BY <1>15 DEF Suggest, TrialStart, TrainStart, TestStart, TrainEpoch, Running, storeVars
  <2>2. job'.phase = job.phase
    BY <1>0, <1>15, WorkIs DEF JobStep
  <2>. QED
    BY <1>3, <1>4, <1>8, <1>9, <2>1, <2>2
<1>16. ASSUME TrialComplete PROVE ResultsInv'
  <2>1. PICK sc \in Scores :
          trials' = Append(trials, [id |-> Head(job.left), run |-> job.run,
                                    by |-> job.by, score |-> sc])
    BY <1>16 DEF TrialComplete
  <2>. DEFINE t == [id |-> Head(job.left), run |-> job.run, by |-> job.by, score |-> sc]
  <2>2. t.run = job.run
    OBVIOUS
  <2>. HIDE DEF t
  <2>3. trials' = Append(trials, t) /\ Listed
    BY <1>0, <2>1 DEF t, TrialsOK
  <2>4. /\ DOMAIN trials' = 1 .. Len(trials') /\ Len(trials') = Len(trials) + 1
        /\ Len(trials) \in Nat /\ DOMAIN trials = 1 .. Len(trials)
        /\ \A i \in DOMAIN trials : trials'[i] = trials[i]
        /\ trials'[Len(trials) + 1] = t
    BY <2>3, AppendListed
  <2>5. \A i \in DOMAIN trials' : i \in DOMAIN trials \/ i = Len(trials) + 1
    BY <2>4, SMT
  <2>6. job.run \in DOMAIN runs /\ runs[job.run].kind = "tune"
    BY <1>16 DEF TrialComplete, Running, RunsInv, OpenRun
  <2>7. Known(job.run, "tune")
    <3>1. job.run \in 1 .. lastRun
      BY <1>0, <2>6 DEF StoresOK
    <3>. QED
      BY <1>0, <2>6, <3>1, SMT DEF Known, StoresOK
  <2>8. TrialsKnown'
    <3>1. \A i \in DOMAIN trials' : Known(trials'[i].run, "tune")
      BY <2>2, <2>4, <2>5, <2>7 DEF ResultsInv
    <3>. QED
      BY <1>1, <3>1, KnownStays DEF TrialsKnown, Known
  <2>9. /\ job.phase = "tune" /\ results' = results
        /\ job' = [job EXCEPT !.run = 0, !.left = Tail(job.left)]
    BY <1>16 DEF TrialComplete, Running
  <2>10. NoSteps'
    BY <1>0, <1>5, <2>9, JobFields
  <2>. QED
    BY <1>4, <1>9, <2>8, <2>9, <2>10
<1>17. ASSUME NEW f \in DOMAIN NoResults, NEW r, Known(r, Kept[f]),
              results' = [results EXCEPT ![f] = r]
       PROVE  FoldersKnown'
  <2>1. \A g \in DOMAIN NoResults : Known(results'[g], Kept[g])
    BY <1>2, <1>17 DEF ResultsInv
  <2>. QED
    BY <1>1, <2>1, KnownStays DEF FoldersKnown, Known, Kept, NoResults
<1>18. ASSUME ExportHparams PROVE ResultsInv'
  <2>1. /\ job.phase = "export-hpo-results" /\ job.step = 0 /\ ~NothingToWorkOn
        /\ results' = [results EXCEPT !.hparams = Optimal]
        /\ trials' = trials /\ job' = [job EXCEPT !.step = 1]
    BY <1>18 DEF ExportHparams, Running
  <2>2. Optimal \in DOMAIN runs
    BY <2>1 DEF NothingToWorkOn
  <2>3. Optimal # 0
    <3>1. 0 \notin DOMAIN runs
      BY <1>0, SMT DEF StoresOK
    <3>. QED
      BY <2>2, <3>1
  <2>4. PICK i \in DOMAIN trials : Optimal = trials[i].run
    BY <1>0, <2>3, OptimalIs
  <2>5. Known(Optimal, Kept["hparams"])
    BY <2>4 DEF ResultsInv, Kept
  <2>6. NoSteps'
    BY <1>0, <1>8, <2>1, JobFields
  <2>. QED
    BY <1>2, <1>3, <1>9, <1>17, <2>1, <2>5, <2>6
<1>19. ASSUME ExportMetrics PROVE ResultsInv'
  <2>1. results' = [results EXCEPT !.tune = results.hparams] /\ trials' = trials /\ JobEnds
    BY <1>19 DEF ExportMetrics
  <2>2. Known(results.hparams, Kept["tune"])
    BY <1>2 DEF ResultsInv, Kept
  <2>. QED
    BY <1>2, <1>3, <1>7, <1>9, <1>17, <2>1, <2>2
<1>20. ASSUME NEW k \in {"train", "test"}, ExportRun(k), RunsOf(k) # {} PROVE ResultsInv'
  <2>1. results' = [results EXCEPT ![k] = StartedLast(k)] /\ trials' = trials /\ JobEnds
    BY <1>20 DEF ExportRun, OutputFolder
  <2>2. Known(StartedLast(k), k) /\ Kept[k] = k /\ k \in DOMAIN NoResults
    BY <1>0, <1>2, <1>20, StartedLastIs DEF Known, Kept
  <2>. QED
    BY <1>3, <1>7, <1>9, <1>17, <2>1, <2>2
<1>21. ASSUME ExportTrain PROVE ResultsInv'
  <2>1. job.phase = "export-train-results" /\ ExportRun("train") /\ ~NothingToWorkOn
    BY <1>21 DEF ExportTrain, ExportRun, Running
  <2>2. RunsOf("train") # {}
    BY <2>1 DEF ResultsInv, NothingToWorkOn
  <2>. QED
    BY <1>20, <2>1, <2>2
<1>22. ASSUME ExportTest PROVE ResultsInv'
  <2>1. job.phase = "export-test-results" /\ ExportRun("test") /\ ~NothingToWorkOn
    BY <1>22 DEF ExportTest, ExportRun, Running
  <2>2. RunsOf("test") # {}
    BY <2>1 DEF ResultsInv, NothingToWorkOn
  <2>. QED
    BY <1>20, <2>1, <2>2
<1>23. CASE UNCHANGED seen
  BY <1>3, <1>4, <1>6, <1>9, <1>23 DEF seen, storeVars
<1>. QED
  BY <1>10, <1>11, <1>12, <1>13, <1>14, <1>15, <1>16, <1>18, <1>19, <1>21, <1>22, <1>23,
     SeenSame
     DEF Next, DriverStep, JobStep, Quiet, Leaves

-----------------------------------------------------------------------------
(* The trail of a pipeline: what its phases have picked, before each phase *)
(* and in it.                                                              *)

NewestTrain(r) ==
  /\ r \in DOMAIN runs /\ runs[r].kind = "train"
  /\ \A q \in DOMAIN runs : runs[q].kind = "train" => q <= r
EndedTrain(r) ==
  \A q \in DOMAIN runs : runs[q].kind = "train" /\ q # r => runs[q].end < runs[r].end

Nothing == uses = NoUses
Winner == uses.exported = Optimal
Exported == Winner /\ uses.trained = 0 /\ uses.trainRun = 0
                   /\ uses.trainExport = 0 /\ uses.tested = 0
Training == /\ Winner /\ uses.trained = uses.exported /\ NewestTrain(uses.trainRun)
            /\ uses.trainExport = 0 /\ uses.tested = 0
Trained == /\ Winner /\ uses.trained = uses.exported
           /\ NewestTrain(uses.trainRun) /\ EndedTrain(uses.trainRun)
           /\ uses.trainExport \in {0, uses.trainRun} /\ uses.tested \in {0, uses.trainRun}
Whole == results.hparams = results.tune

LastPhases == {"export-train-results", "test-best", "export-test-results"}

Ready(p) ==
  /\ p \in {"tune", "export-hpo-results"} => Nothing
  /\ p = "train-best" => Exported /\ Whole
  /\ p \in LastPhases => Trained /\ Whole

Doing ==
  /\ job.phase = "tune" => Nothing
  /\ job.phase = "export-hpo-results" =>
       /\ job.step = 0 => Nothing /\ job.state # "succeeded"
       /\ job.step # 0 => Exported
       /\ job.state = "succeeded" => Whole
  /\ job.phase = "train-best" =>
       /\ Whole
       /\ job.step = 0 => Exported /\ job.state # "succeeded"
       /\ job.step # 0 /\ job.state = "running" => Training /\ job.run = uses.trainRun
       /\ job.state = "succeeded" => Trained
  /\ job.phase \in LastPhases => Trained /\ Whole

SafeUses == OneWinnerThroughout /\ (uses.trained # 0 => Whole)

Own == job.state # "none" /\ job.by = pipeline
Foreign == job.state # "none" /\ job.by # pipeline

UsesInv ==
  /\ SafeUses
  /\ pc \in {"reset", "create", "prepare", "deploy", "backend"} => Nothing
  /\ pc = "submit" => at \in 1 .. Len(Plan) /\ Ready(Plan[at].phase)
  /\ pc = "watch" => at \in 1 .. Len(Plan) /\ job.phase = Plan[at].phase
  /\ Foreign => Nothing
  /\ Own => Doing

LEMMA NothingIsSafe == Nothing => SafeUses
  BY DEF Nothing, NoUses, SafeUses, OneWinnerThroughout, TrainsWhatItExported,
     OneRunThroughout

LEMMA InitUses == Init => UsesInv
<1>. SUFFICES ASSUME Init PROVE UsesInv
  OBVIOUS
<1>1. Nothing /\ job.state = "none" /\ pc = "idle"
  BY NoJobIs DEF Init, Nothing
<1>. QED
  BY <1>1, NothingIsSafe DEF UsesInv, Own, Foreign

(* Where a driver's step leads.                                            *)
LEMMA DriverKeepsTrail ==
  ASSUME OneJobInv, UsesInv, Begin \/ ResetStore \/ Quiet
  PROVE  UsesInv'
<1>0. DriverOK /\ JobOK /\ JobIsNext /\ JobNeedsCluster
  BY DEF OneJobInv, Typed
<1>1. ASSUME Begin PROVE UsesInv'
  <2>1. Nothing' /\ pc' \in {"reset", "create"} /\ job' = job /\ pipeline' = pipeline + 1
    BY <1>1 DEF Begin, Nothing, NoUses
  <2>2. SafeUses'
    BY <2>1 DEF Nothing, NoUses, SafeUses, OneWinnerThroughout, TrainsWhatItExported,
       OneRunThroughout
  <2>3. ~Own'
    <3>1. job'.by # pipeline'
      BY <1>0, <2>1, PipelineAssumption, SMT DEF JobIsNext, DriverOK, JobOK
    <3>. QED
      BY <3>1 DEF Own
  <2>. QED
    BY <2>1, <2>2, <2>3 DEF UsesInv
<1>2. ASSUME ResetStore PROVE UsesInv'
  <2>1. /\ Nothing /\ uses' = uses /\ job = NoJob /\ job' = job
        /\ UNCHANGED <<driver, numTrials>>
        /\ \/ pc' = "reset"
           \/ at' = 1 /\ pc' = "submit"
    BY <1>0, <1>2 DEF ResetStore, UsesInv, JobNeedsCluster
  <2>2. Nothing'
    BY <2>1 DEF Nothing, NoUses
  <2>3. SafeUses'
    BY <2>2 DEF Nothing, NoUses, SafeUses, OneWinnerThroughout, TrainsWhatItExported,
       OneRunThroughout
  <2>4. ~Own' /\ ~Foreign'
    BY <2>1, NoJobIs DEF Own, Foreign
  <2>5. ASSUME pc' = "submit" PROVE at' \in 1 .. Len(Plan') /\ Ready(Plan[at].phase)'
    <3>1. at' = 1 /\ DriverOK'
      BY <1>0, <2>1, <2>5, NextDriverOK, <1>2 DEF Next, DriverStep
    <3>2. /\ Len(Plan') \in Nat \ {0}
          /\ Plan'[1].phase \in {"tune", "export-hpo-results"}
      <4>1. /\ Len(Plan) \in Nat \ {0}
            /\ Plan[1].phase \in {"tune", "export-hpo-results"}
        BY <1>0, PlanOrder
      <4>2. Plan' = Plan
        BY <2>1 DEF Plan, XmanagerPlan, TmpPlan, KindPlan, KfpPlan, NumChunks,
           LauncherChunk, KindChunk, GenerateTrialIds
      <4>. QED
        BY <4>1, <4>2
    <3>. HIDE DEF Plan
    <3>3. 1 \in 1 .. Len(Plan')
      BY <3>2, SMT
    <3>4. Ready(Plan[at].phase)'
      BY <2>2, <3>1, <3>2 DEF Ready, LastPhases
    <3>. QED
      BY <3>1, <3>3, <3>4
  <2>. QED
    BY <2>1, <2>2, <2>3, <2>4, <2>5 DEF UsesInv
<1>3. ASSUME Quiet PROVE UsesInv'
  <2>0. UNCHANGED <<driver, numTrials, pipeline, uses, trials, runs, results>>
    BY <1>3, QuietIs DEF storeVars
  <2>. DEFINE plan == Plan
  <2>1. Plan' = plan
    BY <2>0 DEF Plan, XmanagerPlan, TmpPlan, KindPlan, KfpPlan, NumChunks,
       LauncherChunk, KindChunk, GenerateTrialIds
  <2>2. /\ Len(plan) \in Nat \ {0}
        /\ plan[1].phase \in {"tune", "export-hpo-results"}
        /\ \A i \in 1 .. Len(plan) : i < Len(plan) => Follows(plan[i].phase, plan[i + 1].phase)
    BY <1>0, PlanOrder
  <2>3. /\ pc = "submit" => at \in 1 .. Len(plan) /\ Ready(plan[at].phase)
        /\ pc = "watch" => at \in 1 .. Len(plan) /\ job.phase = plan[at].phase
    BY DEF UsesInv
  <2>4. /\ Nothing' = Nothing /\ Exported' = Exported /\ Training' = Training
        /\ Trained' = Trained /\ Whole' = Whole /\ SafeUses' = SafeUses
        /\ uses' = uses
    BY <2>0 DEF Nothing, NoUses, Winner, Exported, Training, Trained, Whole, SafeUses,
       NewestTrain, EndedTrain, Optimal, OneWinnerThroughout, TrainsWhatItExported,
       OneRunThroughout
  <2>. HIDE DEF plan
  <2>. USE DEF LastPhases
  <2>5. ASSUME job' \in {job, NoJob}, pc' \in {"idle", "teardown"} PROVE UsesInv'
    <3>1. (Foreign' => Foreign) /\ (Own' => Own /\ job' = job)
      BY <2>0, <2>5, NoJobIs DEF Foreign, Own
    <3>. QED
      BY <2>4, <2>5, <3>1 DEF UsesInv, Doing
  <2>6. ASSUME CreateCluster \/ InstallTrainer \/ DeployDatabases \/ SetupKfpBackend
        PROVE  UsesInv'
    <3>1. /\ job' = job /\ pc \in {"create", "prepare", "deploy", "backend"}
          /\ \/ pc' \in {"prepare", "deploy", "backend", "paused", "teardown"}
             \/ pc' = "submit" /\ at' = at /\ pc \in {"deploy", "backend"}
      BY <2>6 DEF CreateCluster, InstallTrainer, RunCmd, DeployDatabases, TimesOut,
         CallRaises, WaitForDeployment, SetupKfpBackend
    <3>2. Nothing /\ Nothing'
      BY <2>4, <3>1 DEF UsesInv
    <3>3. (Foreign' => Foreign) /\ (Own' => Own)
      BY <2>0, <3>1 DEF Foreign, Own
    <3>4. ASSUME pc' = "submit" PROVE at' \in 1 .. Len(plan) /\ Ready(Plan[at].phase)'
      <4>1. at' = 1
        BY <1>0, <3>1, <3>4 DEF JobIsNext
      <4>2. 1 \in 1 .. Len(plan)
        BY <2>2, SMT
      <4>. QED
        BY <2>1, <2>2, <3>2, <4>1, <4>2 DEF Ready
    <3>5. ASSUME Own' PROVE Doing'
      BY <2>4, <3>1, <3>3, <3>5 DEF UsesInv, Doing
    <3>. QED
      BY <2>1, <2>4, <3>1, <3>2, <3>4, <3>5 DEF UsesInv
  <2>7. ASSUME SubmitJob PROVE UsesInv'
    <3>1. CASE job' = job
      <4>1. pc' \in {"idle", "teardown"}
        <5>1. job = NoJob
          BY <1>0, <2>7 DEF SubmitJob, JobNeedsCluster
        <5>2. job'.state # "running"
          BY <3>1, <5>1, NoJobIs
        <5>3. \/ job'.state = "running"
              \/ driver \in Clustered /\ pc' = After
          BY <2>7 DEF SubmitJob
        <5>. QED
          BY <5>2, <5>3 DEF After
      <4>. QED
        BY <2>5, <3>1, <4>1
    <3>2. CASE /\ pc = "submit" /\ pc' = "watch" /\ at' = at
               /\ job'.phase = plan[at].phase /\ job'.step = 0 /\ job'.run = 0
               /\ job'.by = pipeline /\ job'.state = "running"
      <4>1. Doing'
        BY <2>3, <2>4, <3>2 DEF Doing, Ready
      <4>2. ~Foreign'
        BY <2>0, <3>2 DEF Foreign
      <4>. QED
        BY <2>1, <2>3, <2>4, <3>2, <4>1, <4>2 DEF UsesInv
    <3>3. CASE job' = NoJob
      <4>1. job'.state # "running"
        BY <3>3, NoJobIs
      <4>2. \/ job'.state = "running"
            \/ driver \in Clustered /\ pc' = After /\ job' = job
        BY <2>7 DEF SubmitJob
      <4>. QED
        BY <3>1, <4>1, <4>2
    <3>. QED
      BY <1>3, <3>1, <3>2, <3>3, QuietIs DEF plan
  <2>8. ASSUME JobCompleted PROVE UsesInv'
    <3>1. CASE pc' \in {"idle", "teardown"}
      BY <2>5, <2>8, <3>1 DEF JobCompleted
    <3>2. CASE at < Len(plan)
      <4>1. /\ pc = "watch" /\ job.state = "succeeded" /\ pc' = "submit" /\ at' = at + 1
            /\ job' = NoJob
        BY <2>8, <3>2 DEF JobCompleted, plan
      <4>2. /\ job.by = pipeline /\ at \in 1 .. Len(plan) /\ job.phase = plan[at].phase
            /\ at' \in 1 .. Len(plan)
        <5>1. job.by = pipeline /\ at \in 1 .. Len(plan) /\ job.phase = plan[at].phase
          BY <1>0, <2>3, <4>1 DEF JobIsNext
        <5>. QED
          BY <2>2, <3>2, <4>1, <5>1, SMT
      <4>3. Doing
        BY <4>1, <4>2 DEF UsesInv, Own
      <4>4. Follows(job.phase, plan[at + 1].phase)
        BY <2>2, <3>2, <4>2
      <4>5. Ready(plan[at + 1].phase)
        BY <4>1, <4>3, <4>4 DEF Doing, Follows, Ready
      <4>6. Ready(Plan[at].phase)'
        BY <2>1, <2>4, <4>1, <4>5 DEF Ready
      <4>7. ~Own' /\ ~Foreign'
        BY <4>1, NoJobIs DEF Own, Foreign
      <4>. QED
        BY <2>1, <2>4, <4>1, <4>2, <4>6, <4>7 DEF UsesInv
    <3>. QED
      BY <2>8, <3>1, <3>2 DEF JobCompleted, After, plan
  <2>9. ASSUME WatchRaises \/ Leaves PROVE UsesInv'
    <3>1. pc' \in {"idle", "teardown"} /\ job' \in {job, NoJob}
      BY <2>9, LeavesIs DEF WatchRaises, After
    <3>. QED
      BY <2>5, <3>1
  <2>. QED
    BY <1>3, <2>6, <2>7, <2>8, <2>9 DEF Quiet
<1>. QED
  BY <1>1, <1>2, <1>3

(* The last training run stays the last while no other one is touched.     *)
LEMMA TrainStays ==
  ASSUME StoresOK, JobOK, NEW r, NewestTrain(r), EndedTrain(r),
         \/ runs' = runs
         \/ \E q : runs' = Ending(q) /\ (q \in DOMAIN runs => runs[q].kind # "train")
         \/ StartRun("test")
  PROVE  NewestTrain(r)' /\ EndedTrain(r)'
<1>1. CASE runs' = runs
  BY <1>1 DEF NewestTrain, EndedTrain
<1>2. ASSUME NEW q, runs' = Ending(q), q \in DOMAIN runs => runs[q].kind # "train"
      PROVE  NewestTrain(r)' /\ EndedTrain(r)'
  <2>1. /\ DOMAIN runs' = DOMAIN runs
        /\ \A x \in DOMAIN runs \ {q} : runs'[x] = runs[x]
        /\ q \in DOMAIN runs => runs'[q].kind = runs[q].kind
    BY <1>2, EndingIs
  <2>. QED
    BY <1>2, <2>1 DEF NewestTrain, EndedTrain
<1>3. ASSUME StartRun("test") PROVE NewestTrain(r)' /\ EndedTrain(r)'
  <2>1. /\ lastRun + 1 \notin DOMAIN runs
        /\ DOMAIN runs' = DOMAIN runs \union {lastRun + 1}
        /\ \A x \in DOMAIN runs : runs'[x] = runs[x]
        /\ runs'[lastRun + 1].kind = "test"
    BY <1>3, StartRunIs
  <2>. QED
    BY <2>1 DEF NewestTrain, EndedTrain
<1>. QED
  BY <1>1, <1>2, <1>3

(* It is what both orders of mlflow.search_runs bring to the front.        *)
LEMMA BothFindTheRun ==
  ASSUME StoresOK, NEW r, NewestTrain(r), EndedTrain(r)
  PROVE  StartedLast("train") = r /\ EndedLast("train") = r
<1>1. r \in RunsOf("train") /\ RunsOf("train") \subseteq Int
  BY SMT DEF NewestTrain, RunsOf, StoresOK
<1>2. \A q \in RunsOf("train") : q <= r
  BY DEF NewestTrain, RunsOf
<1>3. StartedLast("train") = r
  <2>1. \A y \in RunsOf("train") : r >= y
    BY <1>1, <1>2, SMT
  <2>2. ASSUME NEW x \in RunsOf("train"), \A y \in RunsOf("train") : x >= y PROVE x = r
    BY <1>1, <1>2, <2>2, SMT
  <2>. QED
    BY <1>1, <2>1, <2>2 DEF StartedLast, Max
<1>4. EndedLast("train") = r
  <2>1. \A q \in RunsOf("train") : runs[q].end \in Nat
    BY DEF StoresOK, RunsOf
  <2>2. \A q \in RunsOf("train") : q # r => runs[q].end < runs[r].end
    BY DEF EndedTrain, RunsOf
  <2>3. \A q \in RunsOf("train") : runs[q].end <= runs[r].end
    BY <1>1, <2>1, <2>2, SMT
  <2>4. ASSUME NEW x \in RunsOf("train"), \A q \in RunsOf("train") : runs[q].end <= runs[x].end
        PROVE  x = r
    BY <1>1, <2>1, <2>2, <2>4, SMT
  <2>. QED
    BY <1>1, <2>3, <2>4 DEF EndedLast
<1>. QED
  BY <1>3, <1>4

(* What a step of the pipeline's own job does.                             *)
LEMMA OwnJobKeepsTrail ==
  ASSUME OneJobInv, RunsInv, ResultsInv, SafeUses, Doing, job.by = pipeline,
         JobStep \/ JobFails
  PROVE  SafeUses' /\ Doing'
<1>0. StoresOK /\ JobOK /\ DriverOK /\ TrialsOK
  BY DEF OneJobInv, Typed
<1>1. job.state = "running" /\ job'.phase = job.phase
  BY <1>0, WorkIs
<1>2. \A u : Uses(u) = u
  BY DEF Uses
<1>3. DOMAIN uses = {"exported", "trained", "trainRun", "trainExport", "tested", "model"}
  BY <1>0 DEF StoresOK, NoUses
<1>4. DOMAIN results = {"hparams", "tune", "train", "test"}
  BY <1>0 DEF StoresOK, NoResults
<1>5. ASSUME JobEnds PROVE job'.state = "succeeded" /\ job'.step = job.step /\ job'.run = 0
  BY <1>0, <1>5, JobFields DEF JobEnds
<1>. USE DEF LastPhases
<1>6. ASSUME uses' = uses, results.hparams' = results.hparams, results.tune' = results.tune
      PROVE  SafeUses' /\ Whole' = Whole /\ Nothing' = Nothing
  BY <1>6 DEF SafeUses, Whole, Nothing, NoUses, OneWinnerThroughout,
     TrainsWhatItExported, OneRunThroughout
<1>7. ASSUME uses' = uses, trials' = trials PROVE Exported' = Exported
  BY <1>7 DEF Exported, Winner, Optimal
<1>8. ASSUME uses' = uses, trials' = trials, Trained,
             \/ runs' = runs
             \/ \E q : runs' = Ending(q) /\ (q \in DOMAIN runs => runs[q].kind # "train")
             \/ StartRun("test")
      PROVE  Trained'
  <2>1. NewestTrain(uses.trainRun)' /\ EndedTrain(uses.trainRun)'
    <3>1. PICK x : x = uses.trainRun
      OBVIOUS
    <3>2. NewestTrain(x)' /\ EndedTrain(x)'
      BY <1>0, <1>8, <3>1, TrainStays DEF Trained
    <3>. QED
      BY <1>8, <3>1, <3>2 DEF NewestTrain, EndedTrain
  <2>. QED
    BY <1>8, <2>1 DEF Trained, Winner, Optimal
<1>9. job.run \in DOMAIN runs /\ job.phase \in LastPhases => runs[job.run].kind # "train"
  <2>1. 0 \notin DOMAIN runs
    BY <1>0, SMT DEF StoresOK
  <2>. QED
    BY <2>1 DEF RunsInv, OpenRun
<1>11. ASSUME JobFails PROVE SafeUses' /\ Doing'
  <2>1. /\ UNCHANGED <<uses, trials, results>>
        /\ job' = [job EXCEPT !.state = "failed", !.run = 0]
        /\ runs' = runs \/ runs' = Ending(job.run)
    BY <1>11 DEF JobFails
  <2>2. job'.state = "failed" /\ job'.step = job.step
    BY <1>0, <2>1, JobFields
  <2>3. /\ SafeUses' /\ Whole' = Whole /\ Nothing' = Nothing /\ Exported' = Exported
    BY <1>6, <1>7, <2>1
  <2>4. job.phase \in LastPhases /\ Trained => Trained'
    BY <1>8, <1>9, <2>1
  <2>. QED
    BY <1>1, <2>2, <2>3, <2>4 DEF Doing
<1>12. ASSUME Suggest \/ TrialStart \/ TrialComplete \/ TuneEnd PROVE SafeUses' /\ Doing'
  <2>1. job.phase = "tune" /\ UNCHANGED <<uses, results>>
    BY <1>12 DEF Suggest, TrialStart, TrialComplete, TuneEnd, Running, storeVars
  <2>. QED
    BY <1>1, <1>6, <2>1 DEF Doing
<1>13. ASSUME ExportHparams PROVE SafeUses' /\ Doing'
  <2>1. /\ job.phase = "export-hpo-results" /\ job.step = 0
        /\ uses' = [uses EXCEPT !.exported = Optimal] /\ trials' = trials
        /\ job' = [job EXCEPT !.step = 1]
    BY <1>2, <1>13 DEF ExportHparams, Running
  <2>2. job'.step = 1 /\ job'.state = "running"
    BY <1>0, <1>1, <2>1, JobFields
  <2>3. uses = NoUses
    BY <2>1 DEF Doing, Nothing
  <2>4. /\ uses'.exported = Optimal /\ uses'.trained = 0 /\ uses'.trainRun = 0
        /\ uses'.trainExport = 0 /\ uses'.tested = 0
    BY <2>1, <2>3 DEF NoUses
  <2>5. Exported' /\ SafeUses'
    BY <2>1, <2>4 DEF Exported, Winner, Optimal, SafeUses, OneWinnerThroughout,
       TrainsWhatItExported, OneRunThroughout
  <2>. QED
    BY <1>1, <2>1, <2>2, <2>5 DEF Doing
<1>14. ASSUME ExportMetrics PROVE SafeUses' /\ Doing'
  <2>1. /\ job.phase = "export-hpo-results" /\ job.step = 1 /\ JobEnds
        /\ results' = [results EXCEPT !.tune = results.hparams]
        /\ UNCHANGED <<uses, trials>>
    BY <1>14 DEF ExportMetrics, Running
  <2>2. job'.state = "succeeded" /\ job'.step = 1
    BY <1>5, <2>1
  <2>3. Whole'
    BY <1>4, <2>1 DEF Whole
  <2>4. Exported'
    <3>1. job.step # 0
      BY <2>1, SMT
    <3>. QED
      BY <1>7, <2>1, <3>1 DEF Doing
  <2>5. SafeUses'
    BY <2>3, <2>4 DEF Exported, SafeUses, OneWinnerThroughout, TrainsWhatItExported,
       OneRunThroughout
  <2>6. job'.step # 0
    BY <2>2, SMT
  <2>. QED
    BY <1>1, <2>1, <2>2, <2>3, <2>4, <2>5, <2>6 DEF Doing
<1>15. ASSUME TrainStart PROVE SafeUses' /\ Doing'
  <2>1. /\ job.phase = "train-best" /\ job.step = 0 /\ StartRun("train")
        /\ uses' = [uses EXCEPT !.trained = Optimal, !.trainRun = lastRun + 1]
        /\ job' = [job EXCEPT !.step = 1, !.run = lastRun + 1]
        /\ UNCHANGED <<trials, results>>
    BY <1>2, <1>15 DEF TrainStart, Running, GetBestParameters
  <2>2. job'.step = 1 /\ job'.state = "running" /\ job'.run = lastRun + 1
    BY <1>0, <1>1, <2>1, JobFields
  <2>3. Exported /\ Whole /\ Whole'
    BY <2>1 DEF Doing, Whole
  <2>4. /\ uses'.exported = Optimal /\ uses'.trained = Optimal /\ uses'.trainRun = lastRun + 1
        /\ uses'.trainExport = 0 /\ uses'.tested = 0
    BY <1>3, <2>1, <2>3 DEF Exported, Winner
  <2>5. NewestTrain(uses.trainRun)'
    <3>1. /\ DOMAIN runs' = DOMAIN runs \union {lastRun + 1}
          /\ runs'[lastRun + 1].kind = "train"
      BY <1>0, <2>1, StartRunIs
    <3>2. \A q \in DOMAIN runs \union {lastRun + 1} : q <= lastRun + 1
      BY <1>0, SMT DEF StoresOK
    <3>. QED
      BY <2>4, <3>1, <3>2 DEF NewestTrain
  <2>6. Optimal' = Optimal
    BY <2>1 DEF Optimal
  <2>7. Training' /\ SafeUses'
    BY <2>3, <2>4, <2>5, <2>6 DEF Training, Winner, SafeUses, OneWinnerThroughout,
       TrainsWhatItExported, OneRunThroughout
  <2>8. job'.step # 0
    BY <2>2, SMT
  <2>. QED
    BY <1>1, <2>1, <2>2, <2>3, <2>4, <2>7, <2>8 DEF Doing
<1>16. ASSUME TrainEpoch PROVE SafeUses' /\ Doing'
  <2>1. /\ job.phase = "train-best" /\ job.step \in 1 .. NumEpochs
        /\ UNCHANGED <<uses, trials, results>>
        /\ \/ job' = [job EXCEPT !.step = job.step + 1] /\ UNCHANGED runs
           \/ job' = [job EXCEPT !.state = "failed", !.run = 0]
    BY <1>16 DEF TrainEpoch, Running
  <2>2. job.step # 0 /\ job.step + 1 # 0
    BY <2>1, SMT
  <2>3. SafeUses' /\ Whole' = Whole
    BY <1>6, <2>1
  <2>4. CASE job' = [job EXCEPT !.step = job.step + 1] /\ UNCHANGED runs
    <3>1. job'.step # 0 /\ job'.state = "running" /\ job'.run = job.run
      BY <1>0, <1>1, <2>2, <2>4, JobFields
    <3>2. Training' = Training
      BY <2>1, <2>4 DEF Training, Winner, Optimal, NewestTrain
    <3>. QED
      BY <1>1, <2>1, <2>2, <2>3, <3>1, <3>2 DEF Doing
  <2>5. CASE job' = [job EXCEPT !.state = "failed", !.run = 0]
    <3>1. job'.step # 0 /\ job'.state = "failed"
      BY <1>0, <2>2, <2>5, JobFields
    <3>. QED
      BY <1>1, <2>1, <2>3, <3>1 DEF Doing
  <2>. QED
    BY <2>1, <2>4, <2>5
<1>17. ASSUME TrainEnd PROVE SafeUses' /\ Doing'
  <2>1. /\ job.phase = "train-best" /\ job.step > 1 /\ JobEnds /\ runs' = Ending(job.run)
        /\ UNCHANGED <<uses, trials, results>>
    BY <1>17 DEF TrainEnd, Running
  <2>2. job.step # 0
    BY <2>1, SMT
  <2>3. Training /\ job.run = uses.trainRun /\ Whole
    BY <1>1, <2>1, <2>2 DEF Doing
  <2>4. /\ DOMAIN runs' = DOMAIN runs
        /\ \A q \in DOMAIN runs \ {job.run} : runs'[q] = runs[q]
        /\ job.run \in DOMAIN runs => /\ runs'[job.run].kind = runs[job.run].kind
                                      /\ runs'[job.run].end = 1 + Cardinality(EndedRuns)
    BY <1>0, <2>1, EndingIs
  <2>5. NewestTrain(uses.trainRun)'
    BY <2>1, <2>3, <2>4 DEF Training, NewestTrain
  <2>6. EndedTrain(uses.trainRun)'
    <3>1. \A q \in DOMAIN runs : runs[q].end \in Nat /\ runs[q].end <= Cardinality(EndedRuns)
      BY <1>0 DEF StoresOK, RunsInv, EndsCounted
    <3>2. Cardinality(EndedRuns) \in Nat
      BY <1>0, EndedRunsFinite DEF StoresOK
    <3>3. \A q \in DOMAIN runs : runs[q].end < 1 + Cardinality(EndedRuns)
      BY <3>1, <3>2, SMT
    <3>4. job.run \in DOMAIN runs
      BY <2>3 DEF Training, NewestTrain
    <3>. QED
      BY <2>1, <2>3, <2>4, <3>3, <3>4 DEF EndedTrain
  <2>7. Trained'
    BY <2>1, <2>3, <2>5, <2>6 DEF Training, Trained, Winner, Optimal
  <2>8. SafeUses' /\ Whole' = Whole
    BY <1>6, <2>1
  <2>9. job'.state = "succeeded" /\ job'.step # 0
    BY <1>5, <2>1, <2>2
  <2>. QED
    BY <1>1, <2>1, <2>3, <2>7, <2>8, <2>9 DEF Doing
<1>18. ASSUME Trained, SafeUses, uses' = uses, UNCHANGED trials,
              results.hparams' = results.hparams, results.tune' = results.tune,
              \/ runs' = runs
              \/ runs' = Ending(job.run)
              \/ StartRun("test"),
              job.phase \in LastPhases
       PROVE  SafeUses' /\ Doing'
  <2>1. Trained' /\ Whole' = Whole /\ SafeUses'
    BY <1>6, <1>8, <1>9, <1>18
  <2>2. Whole
    BY <1>18 DEF Doing
  <2>. QED
    BY <1>1, <1>18, <2>1, <2>2 DEF Doing
<1>19. ASSUME NEW k \in {"train", "test"}, ExportRun(k)
       PROVE  /\ results.hparams' = results.hparams /\ results.tune' = results.tune
              /\ UNCHANGED <<trials, runs>>
  <2>1. results' = [results EXCEPT ![k] = StartedLast(k)] /\ UNCHANGED <<trials, runs>>
    BY <1>19 DEF ExportRun, OutputFolder
  <2>. QED
    BY <1>4, <2>1
<1>20. ASSUME ExportTest PROVE SafeUses' /\ Doing'
  <2>1. ExportRun("test") /\ job.phase = "export-test-results" /\ uses' = uses
    BY <1>20 DEF ExportTest, ExportRun, Running
  <2>. QED
    BY <1>18, <1>19, <2>1 DEF Doing
<1>21. ASSUME TestEnd PROVE SafeUses' /\ Doing'
  <2>1. /\ job.phase = "test-best" /\ runs' = Ending(job.run)
        /\ UNCHANGED <<uses, trials, results>>
    BY <1>21 DEF TestEnd, Running
  <2>. QED
    BY <1>18, <2>1 DEF Doing
(* The two phases that look the run up.                                    *)
<1>22. ASSUME Trained, Whole, Whole', UNCHANGED trials,
              \/ runs' = runs
              \/ StartRun("test"),
              \/ \E x : uses' = [uses EXCEPT !.trainExport = x] /\ x = uses.trainRun
              \/ \E x, m : uses' = [uses EXCEPT !.tested = x, !.model = m] /\ x = uses.trainRun
       PROVE  SafeUses' /\ Trained'
  <2>1. /\ uses'.exported = uses.exported /\ uses'.trained = uses.trained
        /\ uses'.trainRun = uses.trainRun
        /\ uses'.trainExport \in {0, uses.trainRun} /\ uses'.tested \in {0, uses.trainRun}
    BY <1>3, <1>22 DEF Trained
  <2>2. NewestTrain(uses.trainRun)' /\ EndedTrain(uses.trainRun)'
    <3>1. PICK x : x = uses.trainRun
      OBVIOUS
    <3>2. NewestTrain(x)' /\ EndedTrain(x)'
      BY <1>0, <1>22, <3>1, TrainStays DEF Trained
    <3>. QED
      BY <2>1, <3>1, <3>2 DEF NewestTrain, EndedTrain
  <2>3. Optimal' = Optimal
    BY <1>22 DEF Optimal
  <2>4. Trained'
    BY <1>22, <2>1, <2>2, <2>3 DEF Trained, Winner
  <2>5. SafeUses'
    BY <1>22, <2>4 DEF Trained, SafeUses, OneWinnerThroughout, TrainsWhatItExported,
       OneRunThroughout
  <2>. QED
    BY <2>4, <2>5
<1>23. ASSUME ExportTrain PROVE SafeUses' /\ Doing'
  <2>1. /\ ExportRun("train") /\ job.phase = "export-train-results"
        /\ uses' = [uses EXCEPT !.trainExport = StartedLast("train")]
    BY <1>2, <1>23 DEF ExportTrain, ExportRun, Running
  <2>2. Trained /\ Whole
    BY <2>1 DEF Doing
  <2>3. StartedLast("train") = uses.trainRun
    BY <1>0, <2>2, BothFindTheRun DEF Trained
  <2>4. Whole' /\ UNCHANGED <<trials, runs>>
    BY <1>19, <2>1, <2>2 DEF Whole
  <2>5. SafeUses' /\ Trained'
    BY <1>22, <2>1, <2>2, <2>3, <2>4
  <2>. QED
    BY <1>1, <2>1, <2>4, <2>5 DEF Doing
<1>24. ASSUME TestStart PROVE SafeUses' /\ Doing'
  <2>1. /\ StartRun("test") /\ job.phase = "test-best" /\ UNCHANGED <<trials, results>>
        /\ uses' = [uses EXCEPT !.tested = EndedLast("train"), !.model = RestoreItems]
    BY <1>2, <1>24 DEF TestStart, Running, GetBestCheckpointUri
  <2>2. Trained /\ Whole /\ Whole'
    BY <2>1 DEF Doing, Whole
  <2>3. EndedLast("train") = uses.trainRun
    BY <1>0, <2>2, BothFindTheRun DEF Trained
  <2>5. SafeUses' /\ Trained'
    BY <1>22, <2>1, <2>2, <2>3
  <2>. QED
    BY <1>1, <2>1, <2>2, <2>5 DEF Doing
<1>. QED
  BY <1>11, <1>12, <1>13, <1>14, <1>15, <1>16, <1>17, <1>20, <1>21, <1>23, <1>24 DEF JobStep

LEMMA NextUsesInv ==
  OneJobInv /\ RunsInv /\ ResultsInv /\ UsesInv /\ [Next]_vars => UsesInv'
<1>. SUFFICES ASSUME OneJobInv, RunsInv, ResultsInv, UsesInv, [Next]_vars PROVE UsesInv'
  OBVIOUS
<1>0. DriverOK /\ JobOK /\ JobNeedsCluster /\ JobIsNext
  BY DEF OneJobInv, Typed
<1>1. ASSUME JobStep \/ JobFails PROVE UsesInv'
  <2>1. /\ job.state = "running" /\ job'.phase = job.phase /\ job'.by = job.by
        /\ job'.state # "none"
        /\ UNCHANGED <<driver, numTrials, pipeline, pc, at>>
    BY <1>0, <1>1, WorkIs DEF WorkerFrame, driverVars
  <2>2. pc # "submit"
    BY <1>0, <2>1, NoJobIs DEF JobNeedsCluster
  <2>3. Plan' = Plan
    BY <2>1 DEF Plan, XmanagerPlan, TmpPlan, KindPlan, KfpPlan, NumChunks,
       LauncherChunk, KindChunk, GenerateTrialIds
  <2>4. pc \in {"reset", "create", "prepare", "deploy", "backend"} => job.by # pipeline
    BY <1>0, PipelineAssumption, SMT DEF JobIsNext, DriverOK, JobOK
  <2>5. CASE job.by = pipeline
    <3>1. Doing /\ SafeUses
      BY <2>1, <2>5 DEF UsesInv, Own
    <3>2. Doing' /\ SafeUses'
      BY <1>1, <2>5, <3>1, OwnJobKeepsTrail
    <3>. QED
      BY <2>1, <2>2, <2>3, <2>4, <2>5, <3>2 DEF UsesInv, Own, Foreign
  <2>6. CASE job.by # pipeline
    <3>1. Nothing
      BY <2>1, <2>6 DEF UsesInv, Foreign
    <3>2. \A u : Uses(u) = uses
      BY <2>6 DEF Uses
    <3>3. uses' = uses
      BY <1>1, <3>2 DEF JobStep, JobFails, Suggest, TrialStart, TrialComplete, TuneEnd,
         ExportHparams, ExportMetrics, ExportTrain, ExportTest, ExportRun,
         TrainStart, TrainEpoch, TrainEnd, TestStart, TestEnd
    <3>4. Nothing' /\ SafeUses'
      BY <3>1, <3>3 DEF Nothing, NoUses, SafeUses, OneWinnerThroughout,
         TrainsWhatItExported, OneRunThroughout
    <3>. QED
      BY <2>1, <2>2, <2>3, <2>6, <3>4 DEF UsesInv, Own, Foreign
  <2>. QED
    BY <2>5, <2>6
<1>2. CASE UNCHANGED seen
  <2>1. Plan' = Plan
    BY <1>2 DEF seen, Plan, XmanagerPlan, TmpPlan, KindPlan, KfpPlan, NumChunks,
       LauncherChunk, KindChunk, GenerateTrialIds
  <2>. QED
    BY <1>2, <2>1 DEF seen, storeVars, UsesInv, Own, Foreign, Doing, Ready,
       Nothing, NoUses, Winner, Exported, Training, Trained, Whole, SafeUses,
       NewestTrain, EndedTrain, Optimal, OneWinnerThroughout, TrainsWhatItExported,
       OneRunThroughout
<1>. QED
  BY <1>1, <1>2, DriverKeepsTrail, SeenSame DEF Next, DriverStep, Quiet, Leaves

-----------------------------------------------------------------------------
(* What a reset that succeeded is good for.                                *)

FreshInv ==
  /\ cleared # {} => driver \in Launchers
  /\ "vizier" \in cleared => \A i \in DOMAIN trials : trials[i].by = pipeline
  /\ uses.trained # 0 => \E i \in DOMAIN trials : trials[i].run = uses.trained
  /\ \A d \in {"latest", "best"} \intersect cleared :
       bucket[d] = NoStep \/ bucket[d].by = pipeline
  /\ job.phase = "train-best" /\ job.state = "succeeded" => job.step > 1
  /\ Own /\ job.phase = "train-best" /\ job.step > 1 =>
       \A d \in {"latest", "best"} \intersect cleared : bucket[d].by = pipeline

(* A launcher has no job running but the one it waits for.                 *)
LEMMA LauncherOwns ==
  ASSUME OneJobInv, driver \in Launchers, job.state # "none"
  PROVE  job.by = pipeline
<1>1. driver \notin Clustered /\ job # NoJob
  BY DriverKinds, NoJobIs DEF OneJobInv, Typed, DriverOK
<1>2. pc = "watch"
  BY <1>1 DEF OneJobInv, Typed, DriverOK, JobNeedsCluster
<1>. QED
  BY <1>2 DEF OneJobInv, JobIsNext

LEMMA InitFresh == Init => FreshInv
<1>. SUFFICES ASSUME Init PROVE FreshInv
  OBVIOUS
<1>1. cleared = {} /\ uses.trained = 0 /\ job.phase = "none"
  BY NoJobIs DEF Init, NoUses
<1>. QED
  BY <1>1 DEF FreshInv

LEMMA NextFreshInv ==
  OneJobInv /\ UsesInv /\ FreshInv /\ [Next]_vars => FreshInv'
<1>. SUFFICES ASSUME OneJobInv, UsesInv, FreshInv, [Next]_vars PROVE FreshInv'
  OBVIOUS
<1>0. StoresOK /\ JobOK /\ DriverOK /\ TrialsOK /\ JobNeedsCluster
  BY DEF OneJobInv, Typed
<1>. DEFINE TrialsFresh == "vizier" \in cleared => \A i \in DOMAIN trials : trials[i].by = pipeline
            WinnerThere == uses.trained # 0 => \E i \in DOMAIN trials : trials[i].run = uses.trained
            Cleared == {"latest", "best"} \intersect cleared
            StepsFresh == \A d \in Cleared : bucket[d] = NoStep \/ bucket[d].by = pipeline
            Trains == job.phase = "train-best" /\ job.state = "succeeded" => job.step > 1
            OwnSteps == Own /\ job.phase = "train-best" /\ job.step > 1 =>
                          \A d \in Cleared : bucket[d].by = pipeline
<1>1. ASSUME Begin PROVE FreshInv'
  <2>1. /\ cleared' = {} /\ uses'.trained = 0 /\ job' = job
    BY <1>1 DEF Begin, NoUses
  <2>. QED
    BY <2>1 DEF FreshInv
<1>2. ASSUME ResetStore PROVE FreshInv'
  <2>1. /\ job' = job /\ job.state = "none" /\ UNCHANGED <<driver, pipeline, uses>>
        /\ uses.trained = 0 /\ driver \in Launchers
    BY <1>0, <1>2, NoJobIs DEF ResetStore, JobNeedsCluster, UsesInv, Nothing, NoUses
  <2>2. WinnerThere' /\ Trains' /\ OwnSteps'
    BY <2>1 DEF Own
  <2>3. ASSUME NEW d \in {"latest", "best"}, ResetCheckpointBuckets(d),
               cleared' = cleared \union {d}
        PROVE  TrialsFresh' /\ StepsFresh'
    <3>1. /\ bucket' = [bucket EXCEPT ![d] = NoStep] /\ trials' = trials
          /\ DOMAIN bucket = {"latest", "best"}
      BY <1>0, <2>3 DEF ResetCheckpointBuckets, StoresOK
    <3>2. StepsFresh'
      BY <2>1, <2>3, <3>1 DEF FreshInv
    <3>. QED
      BY <2>1, <2>3, <3>1, <3>2 DEF FreshInv
  <2>4. ASSUME ResetVizierRecords, cleared' = cleared \union {"vizier"}
        PROVE  TrialsFresh' /\ StepsFresh'
    <3>1. DOMAIN trials' = {} /\ bucket' = bucket
      BY <2>4 DEF ResetVizierRecords
    <3>. QED
      BY <2>1, <2>4, <3>1 DEF FreshInv
  <2>5. ASSUME UNCHANGED <<trials, bucket, cleared>> PROVE TrialsFresh' /\ StepsFresh'
    BY <2>1, <2>5 DEF FreshInv
  <2>6. TrialsFresh' /\ StepsFresh'
    BY <1>0, <1>2, <2>3, <2>4, <2>5, ResetIs
       DEF ResetHpoResultsBucket, ResetMlflowRecords, storeVars
  <2>. QED
    BY <2>1, <2>2, <2>6 DEF FreshInv
<1>3. ASSUME Quiet PROVE FreshInv'
  <2>1. UNCHANGED <<driver, pipeline, cleared, uses, trials, bucket>>
    BY <1>3, QuietIs DEF storeVars
  <2>2. ASSUME job' \in {job, NoJob} PROVE Trains' /\ OwnSteps'
    BY <2>1, <2>2, NoJobIs DEF FreshInv, Own
  <2>3. ASSUME job'.step = 0, job'.state = "running" PROVE Trains' /\ OwnSteps'
    BY <2>3, SMT
  <2>4. Trains' /\ OwnSteps'
    BY <1>3, <2>2, <2>3, QuietIs
  <2>. QED
    BY <2>1, <2>4 DEF FreshInv
<1>4. ASSUME JobStep \/ JobFails
      PROVE  /\ job.state = "running" /\ job'.phase = job.phase /\ job'.by = job.by
             /\ UNCHANGED <<driver, pipeline, cleared>>
  BY <1>0, <1>4, WorkIs DEF WorkerFrame, driverVars
<1>5. ASSUME cleared # {}, job.state = "running" PROVE job.by = pipeline
  BY <1>5, LauncherOwns DEF FreshInv
<1>6. ASSUME TrialComplete PROVE FreshInv'
  <2>1. PICK sc \in Scores :
          trials' = Append(trials, [id |-> Head(job.left), run |-> job.run,
                                    by |-> job.by, score |-> sc])
    BY <1>6 DEF TrialComplete
  <2>. DEFINE t == [id |-> Head(job.left), run |-> job.run, by |-> job.by, score |-> sc]
  <2>2. t.by = job.by
    OBVIOUS
  <2>. HIDE DEF t
  <2>3. trials' = Append(trials, t) /\ Listed
    BY <1>0, <2>1 DEF t, TrialsOK
  <2>4. /\ DOMAIN trials' = 1 .. Len(trials') /\ Len(trials') = Len(trials) + 1
        /\ Len(trials) \in Nat /\ DOMAIN trials = 1 .. Len(trials)
        /\ \A i \in DOMAIN trials : trials'[i] = trials[i]
        /\ trials'[Len(trials) + 1] = t
    BY <2>3, AppendListed
  <2>5. /\ \A i \in DOMAIN trials' : i \in DOMAIN trials \/ i = Len(trials) + 1
        /\ DOMAIN trials \subseteq DOMAIN trials'
    BY <2>4, SMT
  <2>6. /\ job.phase = "tune" /\ uses' = uses /\ job'.phase = "tune" /\ bucket' = bucket
        /\ job.state = "running" /\ UNCHANGED <<driver, pipeline, cleared>>
    BY <1>4, <1>6 DEF TrialComplete, Running, JobStep
  <2>7. TrialsFresh'
    BY <1>5, <2>2, <2>4, <2>5, <2>6 DEF FreshInv
  <2>8. WinnerThere'
    BY <2>4, <2>5, <2>6 DEF FreshInv
  <2>. QED
    BY <2>6, <2>7, <2>8 DEF FreshInv
<1>7. ASSUME JobStep \/ JobFails, UNCHANGED <<trials, bucket>>,
             uses'.trained = uses.trained, Trains', OwnSteps'
      PROVE  FreshInv'
  BY <1>4, <1>7 DEF FreshInv
<1>8. ASSUME JobStep \/ JobFails, job.phase # "train-best" PROVE Trains' /\ OwnSteps'
  BY <1>4, <1>8
<1>9. \A u : Uses(u) \in {u, uses}
  BY DEF Uses
<1>10. ASSUME Suggest \/ TrialStart \/ TuneEnd \/ ExportHparams \/ ExportMetrics
                \/ ExportTrain \/ ExportTest \/ TestStart \/ TestEnd
       PROVE  FreshInv'
  <2>1. JobStep /\ job.phase # "train-best" /\ UNCHANGED <<trials, bucket>>
    BY <1>10 DEF JobStep, Suggest, TrialStart, TuneEnd, ExportHparams, ExportMetrics,
       ExportTrain, ExportTest, ExportRun, TestStart, TestEnd, Running, storeVars
  <2>2. uses'.trained = uses.trained
    <3>1. \A x, m : /\ [uses EXCEPT !.exported = x].trained = uses.trained
                    /\ [uses EXCEPT !.trainExport = x].trained = uses.trained
                    /\ [uses EXCEPT !.tested = x, !.model = m].trained = uses.trained
      BY <1>0 DEF StoresOK, NoUses
    <3>2. \/ uses' = uses
          \/ \E x : uses' = Uses([uses EXCEPT !.exported = x])
          \/ \E x : uses' = Uses([uses EXCEPT !.trainExport = x])
          \/ \E x, m : uses' = Uses([uses EXCEPT !.tested = x, !.model = m])
      <4>1. ASSUME Suggest \/ TrialStart \/ TuneEnd \/ ExportMetrics \/ TestEnd PROVE uses' = uses
        BY <4>1 DEF Suggest, TrialStart, TuneEnd, ExportMetrics, TestEnd
      <4>2. ASSUME ExportHparams PROVE \E x : uses' = Uses([uses EXCEPT !.exported = x])
        BY <4>2 DEF ExportHparams
      <4>3. ASSUME ExportTrain PROVE \E x : uses' = Uses([uses EXCEPT !.trainExport = x])
        BY <4>3 DEF ExportTrain, ExportRun
      <4>4. ASSUME ExportTest PROVE uses' = uses
        BY <4>4 DEF ExportTest, ExportRun
      <4>5. ASSUME TestStart
            PROVE  \E x, m : uses' = Uses([uses EXCEPT !.tested = x, !.model = m])
        BY <4>5 DEF TestStart
      <4>. QED
        BY <1>10, <4>1, <4>2, <4>3, <4>4, <4>5
    <3>3. ASSUME NEW u, uses' = Uses(u), u.trained = uses.trained
          PROVE  uses'.trained = uses.trained
      BY <3>3 DEF Uses
    <3>4. ASSUME NEW x, uses' = Uses([uses EXCEPT !.exported = x])
          PROVE  uses'.trained = uses.trained
      BY <3>1, <3>3, <3>4
    <3>5. ASSUME NEW x, uses' = Uses([uses EXCEPT !.trainExport = x])
          PROVE  uses'.trained = uses.trained
      BY <3>1, <3>3, <3>5
    <3>6. ASSUME NEW x, NEW m, uses' = Uses([uses EXCEPT !.tested = x, !.model = m])
          PROVE  uses'.trained = uses.trained
      BY <3>1, <3>3, <3>6
    <3>. QED
      BY <3>2, <3>4, <3>5, <3>6
  <2>. QED
    BY <1>7, <1>8, <2>1, <2>2
<1>11. ASSUME JobFails PROVE FreshInv'
  <2>1. /\ job' = [job EXCEPT !.state = "failed", !.run = 0]
        /\ UNCHANGED <<uses, trials, bucket>>
    BY <1>11 DEF JobFails
  <2>2. job'.state = "failed" /\ job'.step = job.step
    BY <1>0, <2>1, JobFields
  <2>3. Own' => Own
    BY <1>4, <1>11 DEF Own
  <2>. QED
    BY <1>4, <1>7, <1>11, <2>1, <2>2, <2>3 DEF FreshInv
<1>12. ASSUME TrainStart PROVE FreshInv'
  <2>1. /\ job' = [job EXCEPT !.step = 1, !.run = lastRun + 1] /\ JobStep
        /\ UNCHANGED <<trials, bucket>>
        /\ uses' = Uses([uses EXCEPT !.trained = Optimal, !.trainRun = lastRun + 1])
    BY <1>12 DEF TrainStart, GetBestParameters, JobStep
  <2>2. job'.step = 1 /\ job'.state = job.state
    BY <1>0, <2>1, JobFields
  <2>3. uses'.trained \in {Optimal, uses.trained}
    <3>1. \A x, m : [uses EXCEPT !.trained = x, !.trainRun = m].trained = x
      BY <1>0 DEF StoresOK, NoUses
    <3>. QED
      BY <1>9, <2>1, <3>1
  <2>4. WinnerThere'
    BY <1>0, <2>1, <2>3, OptimalIs DEF FreshInv
  <2>5. ~(job'.step > 1) /\ job'.state = "running"
    BY <1>4, <2>1, <2>2, SMT
  <2>. QED
    BY <1>4, <2>1, <2>4, <2>5 DEF FreshInv
<1>13. ASSUME TrainEnd PROVE FreshInv'
  <2>1. /\ JobEnds /\ JobStep /\ job.step > 1 /\ UNCHANGED <<uses, trials, bucket>>
    BY <1>13 DEF TrainEnd, JobStep
  <2>2. job'.step = job.step
    BY <1>0, <2>1, JobFields DEF JobEnds
  <2>3. Own' => Own
    BY <1>4, <2>1 DEF Own
  <2>. QED
    BY <1>4, <1>7, <2>1, <2>2, <2>3 DEF FreshInv
<1>14. ASSUME TrainEpoch PROVE FreshInv'
  <2>. DEFINE epoch == job.step - 1
              latest == SaveStep(bucket.latest, job.run, epoch)
              best == SaveStep(bucket.best, job.run, epoch)
  <2>1. /\ JobStep /\ job.phase = "train-best" /\ job.step \in 1 .. NumEpochs
        /\ UNCHANGED <<uses, trials>> /\ job.state = "running"
    BY <1>14 DEF TrainEpoch, JobStep, Running
  <2>2. \/ /\ \E b : /\ bucket' = [latest |-> latest, best |-> b]
                     /\ b = best \/ (b = bucket.best /\ epoch # 0)
           /\ job' = [job EXCEPT !.step = job.step + 1]
        \/ /\ bucket' = [bucket EXCEPT !.latest = latest]
           /\ job' = [job EXCEPT !.state = "failed", !.run = 0]
           /\ epoch = 0
    BY <1>14 DEF TrainEpoch
  <2>. HIDE DEF latest, best
  <2>3. bucket \in [latest : Steps, best : Steps] /\ job.step \in Nat /\ job.step >= 1
    BY <1>0, <2>1, SMT DEF StoresOK
  <2>4. ASSUME NEW kept \in Steps, kept = NoStep \/ kept.by = pipeline, job.by = pipeline
        PROVE  SaveStep(kept, job.run, epoch).by = pipeline
    <3>1. NoStep.epoch = -1 /\ epoch >= 0
      BY <2>3, SMT DEF NoStep
    <3>2. kept.epoch >= epoch => kept # NoStep
      <4>1. ~(-1 >= epoch)
        BY <2>3, SMT
      <4>. QED
        BY <3>1, <4>1
    <3>. QED
      BY <2>4, <3>2 DEF SaveStep
  <2>5. ASSUME NEW d \in {"latest", "best"} \intersect cleared
        PROVE  /\ job.by = pipeline
               /\ SaveStep(bucket[d], job.run, epoch).by = pipeline
               /\ epoch # 0 => bucket[d].by = pipeline
    <3>1. job.by = pipeline
      BY <1>5, <2>1
    <3>2. bucket[d] \in Steps
      BY <2>3
    <3>3. bucket[d] = NoStep \/ bucket[d].by = pipeline
      BY DEF FreshInv
    <3>4. epoch # 0 => job.step > 1
      BY <2>3, SMT
    <3>5. job.step > 1 => bucket[d].by = pipeline
      BY <2>1, <3>1 DEF FreshInv, Own
    <3>. QED
      BY <2>4, <3>1, <3>2, <3>3, <3>4, <3>5
  <2>6. ASSUME NEW d \in {"latest", "best"} \intersect cleared,
               job' = [job EXCEPT !.step = job.step + 1]
        PROVE  bucket'[d].by = pipeline
    <3>1. job'.state = "running"
      BY <1>0, <2>1, <2>6, JobFields
    <3>2. job' # [job EXCEPT !.state = "failed", !.run = 0]
      <4>1. [job EXCEPT !.state = "failed", !.run = 0].state = "failed"
        BY <1>0, JobFields
      <4>. QED
        BY <3>1, <4>1
    <3>. DEFINE Saved == \E b : /\ bucket' = [latest |-> latest, best |-> b]
                                /\ b = best \/ (b = bucket.best /\ epoch # 0)
    <3>a. Saved \/ job' = [job EXCEPT !.state = "failed", !.run = 0]
      BY <2>2
    <3>b. Saved
      BY <3>2, <3>a
    <3>3. PICK b : /\ bucket' = [latest |-> latest, best |-> b]
                   /\ b = best \/ (b = bucket.best /\ epoch # 0)
      BY <3>b
    <3>4. CASE d = "latest"
      BY <2>5, <3>3, <3>4 DEF latest
    <3>5. CASE d = "best"
      BY <2>5, <3>3, <3>5 DEF best
    <3>. QED
      BY <3>4, <3>5
  <2>7. CASE job' = [job EXCEPT !.step = job.step + 1]
    <3>1. job'.state = "running"
      BY <1>0, <2>1, <2>7, JobFields
    <3>. QED
      BY <1>4, <2>1, <2>6, <2>7, <3>1 DEF FreshInv
  <2>8. CASE /\ bucket' = [bucket EXCEPT !.latest = latest]
             /\ job' = [job EXCEPT !.state = "failed", !.run = 0]
             /\ epoch = 0
    <3>1. job'.state = "failed" /\ job'.step = job.step
      BY <1>0, <2>8, JobFields
    <3>2. ~(job'.step > 1)
      BY <2>3, <2>8, <3>1, SMT
    <3>3. StepsFresh'
      <4>1. DOMAIN bucket = {"latest", "best"}
        BY <2>3
      <4>. QED
        BY <1>4, <2>1, <2>5, <2>8, <4>1 DEF FreshInv, latest
    <3>. QED
      BY <1>4, <2>1, <3>1, <3>2, <3>3 DEF FreshInv
  <2>. QED
    BY <2>2, <2>7, <2>8
<1>15. CASE UNCHANGED seen
  BY <1>15 DEF seen, storeVars, FreshInv, Own
<1>. QED
  BY <1>1, <1>2, <1>3, <1>6, <1>10, <1>11, <1>12, <1>13, <1>14, <1>15,
     SeenSame DEF Next, DriverStep, JobStep, Quiet, Leaves

-----------------------------------------------------------------------------
(* What follows from all parts together.                                   *)

PipelineInv == OneJobInv /\ RunsInv /\ ResultsInv /\ UsesInv /\ FreshInv

(* The inductive invariant: the drivers, the runs, the results, what the   *)
(* phases picked and what the cleared stores hold.                         *)
THEOREM PipelineInvariant == Spec => []PipelineInv
<1>1. Init => PipelineInv
  BY InitTyped, InitOneJob, InitResults, InitUses, InitFresh DEF PipelineInv, OneJobInv
<1>2. OneJobInv /\ [Next]_vars => OneJobInv'
  BY NextTyped, NextJobNeedsCluster, NextJobIsNext DEF OneJobInv, Typed
<1>3. PipelineInv /\ [Next]_vars => PipelineInv'
  BY <1>2, NextRunsInv, NextResultsInv, NextUsesInv, NextFreshInv DEF PipelineInv
<1>. QED
  BY <1>1, <1>3, PTL DEF Spec

(* The winner exported is the one trained with, and the run trained is the *)
(* one exported and tested: OneWinnerThroughout.                           *)
THEOREM AlwaysOneWinner == Spec => []OneWinnerThroughout
<1>1. PipelineInv => OneWinnerThroughout
  BY DEF PipelineInv, UsesInv, SafeUses
<1>. QED
  BY <1>1, PipelineInvariant, PTL

(* Results of different kinds are never mixed up: ResultsKeptApart.        *)
THEOREM ResultsAlwaysApart == Spec => []ResultsKeptApart
<1>1. PipelineInv => ResultsKeptApart
  <2>1. ASSUME ResultsInv, NEW f \in {"tune", "train", "test"}, results[f] \in DOMAIN runs
        PROVE  runs[results[f]].kind = f
    <3>1. f \in DOMAIN NoResults /\ Kept[f] = f
      BY DEF NoResults, Kept
    <3>. QED
      BY <2>1, <3>1 DEF ResultsInv, Known
  <2>. QED
    BY <2>1 DEF PipelineInv, UsesInv, SafeUses, Whole, ResultsKeptApart
<1>. QED
  BY <1>1, PipelineInvariant, PTL

(* Of a store that was reset nothing older is used:                        *)
(* FreshStoresFreshResults.                                                *)
THEOREM FreshAlwaysFresh == Spec => []FreshStoresFreshResults
<1>1. PipelineInv => FreshStoresFreshResults
  <2>. SUFFICES ASSUME PipelineInv PROVE FreshStoresFreshResults
    OBVIOUS
  <2>. USE DEF PipelineInv, FreshInv
  <2>1. ASSUME "vizier" \in cleared, uses.trained # 0
        PROVE  \E i \in DOMAIN trials :
                 trials[i].run = uses.trained /\ trials[i].by = pipeline
    BY <2>1
  <2>2. ASSUME job.phase = "train-best", job.state = "succeeded",
               NEW d \in {"latest", "best"} \intersect cleared
        PROVE  bucket[d].by = job.by
    <3>1. Own
      BY <2>2, LauncherOwns DEF Own
    <3>. QED
      BY <2>2, <3>1 DEF Own
  <2>. QED
    BY <2>1, <2>2 DEF FreshStoresFreshResults
<1>. QED
  BY <1>1, PipelineInvariant, PTL

-----------------------------------------------------------------------------
(* Trials dealt to jobs: division, and ranges of ids.                      *)

LEMMA Quotient ==
  ASSUME NEW x \in Nat \ {0}, NEW d \in Nat \ {0}
  PROVE  LET q == (x + d - 1) \div d
         IN  q \in Nat /\ q * d >= x /\ q * d < x + d /\ (x % d = 0 => q * d = x)
<1>. DEFINE y == x + d - 1
            q == y \div d
<1>1. y \in Nat /\ q \in Int /\ y % d \in 0 .. d - 1 /\ y = d * q + (y % d)
  BY SMT
<1>2. y = q * d + (y % d)
  BY <1>1, SMT
<1>3. q * d >= x /\ q * d < x + d
  BY <1>1, <1>2, SMT
<1>4. q \in Nat
  BY <1>1, <1>3, SMT
<1>5. ASSUME x % d = 0 PROVE q * d = x
  <2>1. PICK k \in Int : k = x \div d
    BY SMT
  <2>2. x = k * d
    BY <1>5, <2>1, SMT
  <2>3. k = q
    BY <1>3, <1>4, <2>2, SMT
  <2>. QED
    BY <2>2, <2>3
<1>. QED
  BY <1>3, <1>4, <1>5

(* What is left of a range of ids when its first one is done.              *)
LEMMA IdsIs ==
  ASSUME NEW k \in Nat, NEW m \in Nat, k <= m
  PROVE  /\ Ids(k, m) \in Seq(Int) /\ Len(Ids(k, m)) = m - k
         /\ Ids(k, m) = <<>> <=> k = m
         /\ k < m => Head(Ids(k, m)) = k /\ Tail(Ids(k, m)) = Ids(k + 1, m)
<1>. DEFINE s == Ids(k, m)
<1>1. s \in Seq(Int) /\ Len(s) = m - k
  BY SMT DEF Ids
<1>2. \A i \in 1 .. m - k : s[i] = k + i - 1
  BY SMT DEF Ids
<1>3. s = <<>> <=> k = m
  <2>1. k = m => s = <<>>
    BY SMT DEF Ids
  <2>2. s = <<>> => Len(s) = 0
    BY SMT
  <2>. QED
    BY <1>1, <2>1, <2>2, SMT
<1>4. ASSUME k < m PROVE Head(s) = k /\ Tail(s) = Ids(k + 1, m)
  <2>1. Ids(k + 1, m) \in Seq(Int) /\ Len(Ids(k + 1, m)) = m - (k + 1)
    BY <1>4, SMT DEF Ids
  <2>2. \A i \in 1 .. m - (k + 1) : Ids(k + 1, m)[i] = k + 1 + i - 1
    BY SMT DEF Ids
  <2>. HIDE DEF s
  <2>3. s # <<>> /\ Head(s) = s[1] /\ 1 \in 1 .. m - k
    BY <1>1, <1>4, SMT
  <2>4. /\ Tail(s) \in Seq(Int) /\ Len(Tail(s)) = Len(s) - 1
        /\ \A i \in 1 .. Len(s) - 1 : Tail(s)[i] = s[i + 1]
    BY <1>1, <2>3, HeadTailProperties
  <2>5. \A i \in 1 .. Len(s) - 1 : Tail(s)[i] = Ids(k + 1, m)[i]
    BY <1>1, <1>2, <2>2, <2>4, SMT
  <2>6. Tail(s) = Ids(k + 1, m)
    <3>. DEFINE rest == Tail(s)
                ids == Ids(k + 1, m)
    <3>1. /\ rest \in Seq(Int) /\ ids \in Seq(Int) /\ Len(rest) = Len(ids)
          /\ \A i \in 1 .. Len(rest) : rest[i] = ids[i]
      BY <1>1, <2>1, <2>4, <2>5, SMT
    <3>. HIDE DEF rest, ids
    <3>2. rest = ids
      BY <3>1, SeqEqual
    <3>. QED
      BY <3>2 DEF rest, ids
  <2>. QED
    BY <1>2, <2>3, <2>6, SMT
<1>. QED
  BY <1>1, <1>3, <1>4

-----------------------------------------------------------------------------
(* How the trials of a pipeline are dealt to its jobs: an entry of the plan *)
(* gets the ids from Dealt(i) up to Dealt(i + 1), and only a tune job gets *)
(* any.                                                                    *)

Dealt(i) ==
  IF driver \in {"xmanager", "kind"} THEN Cut((i - 1) * PerWorker[driver])
  ELSE IF i = 1 THEN 0 ELSE numTrials

(* The launcher of xmanager does not cut its last chunk at num_trials (its *)
(* 4 trials are two chunks of 2): the ids are whole only for whole chunks. *)
WholeChunks ==
  "xmanager" \in Drivers =>
    \A n \in TrialCounts["xmanager"] : n % PerWorker["xmanager"] = 0

TuneCount == IF driver \in {"xmanager", "kind"} THEN NumChunks ELSE 1

(* One chunk after the other, and num_trials when they are all given out.  *)
LEMMA DealtIs ==
  ASSUME DriverOK
  PROVE  /\ TuneCount \in Nat /\ Dealt(1) = 0
         /\ \A i \in Nat \ {0} : /\ Dealt(i) \in 0 .. numTrials
                                 /\ Dealt(i) <= Dealt(i + 1)
                                 /\ i > TuneCount => Dealt(i) = numTrials
<1>. DEFINE d == PerWorker[driver]
<1>1. numTrials \in Nat \ {0} /\ d \in Nat \ {0} /\ NumChunks \in Nat
  BY ChunkCount
<1>2. NumChunks * d >= numTrials
  BY <1>1, Quotient DEF NumChunks
<1>. HIDE DEF d
<1>3. \A i \in Nat \ {0} : (i - 1) * d \in Nat /\ (i - 1) * d <= (i + 1 - 1) * d
  BY <1>1, SMT
<1>4. ASSUME NEW i \in Nat \ {0}, i > NumChunks PROVE (i - 1) * d >= numTrials
  BY <1>1, <1>2, <1>4, SMT
<1>5. (1 - 1) * d = 0
  BY <1>1, SMT
<1>6. CASE driver \in {"xmanager", "kind"}
  <2>1. TuneCount = NumChunks /\ \A i : Dealt(i) = Cut((i - 1) * d)
    BY <1>6 DEF TuneCount, Dealt, d
  <2>2. /\ \A n \in Nat : Cut(n) \in 0 .. numTrials
        /\ \A n, m \in Nat : n <= m => Cut(n) <= Cut(m)
        /\ \A n \in Nat : n >= numTrials => Cut(n) = numTrials
        /\ Cut(0) = 0
    BY <1>1, SMT DEF Cut
  <2>3. ASSUME NEW i \in Nat \ {0}
        PROVE  /\ Dealt(i) \in 0 .. numTrials /\ Dealt(i) <= Dealt(i + 1)
               /\ i > TuneCount => Dealt(i) = numTrials
    <3>1. (i - 1) * d \in Nat /\ (i + 1 - 1) * d \in Nat
          /\ (i - 1) * d <= (i + 1 - 1) * d
      <4>1. i + 1 \in Nat \ {0}
        BY SMT
      <4>. QED
        BY <1>3, <4>1
    <3>. QED
      BY <1>4, <2>1, <2>2, <3>1
  <2>. QED
    BY <1>1, <1>5, <2>1, <2>2, <2>3
<1>7. CASE driver \notin {"xmanager", "kind"}
  BY <1>1, <1>7, SMT DEF TuneCount, Dealt
<1>. QED
  BY <1>6, <1>7

(* The tune jobs of a plan and what each gets.                             *)
Parcels(plan) ==
  /\ Len(plan) \in Nat /\ TuneCount < Len(plan)
  /\ \A i \in 1 .. Len(plan) :
       /\ plan[i].phase = "tune" <=> i <= TuneCount
       /\ plan[i].ids = Ids(Dealt(i), Dealt(i + 1))

LEMMA ParcelsOf ==
  ASSUME DriverOK,
         NEW s1, s1 = [i \in 1 .. TuneCount |-> s1[i]],
         \A i \in 1 .. TuneCount : s1[i] = Tune(Ids(Dealt(i), Dealt(i + 1))),
         NEW T, NEW s2 \in Seq(T), Len(s2) \in 1 .. 5,
         \A j \in 1 .. Len(s2) : s2[j].phase # "tune" /\ s2[j].ids = <<>>
  PROVE  Parcels(s1 \o s2)
<1>. DEFINE n == TuneCount
            plan == s1 \o s2
<1>1. n \in Nat /\ numTrials \in Nat
  BY DealtIs, ChunkCount
<1>2. /\ Len(plan) = n + Len(s2)
      /\ \A i \in 1 .. n : plan[i] = s1[i]
      /\ \A j \in 1 .. Len(s2) : plan[n + j] = s2[j]
  <2>1. DOMAIN s1 = 1 .. n
    OBVIOUS
  <2>. HIDE DEF n
  <2>. QED
    BY <1>1, <2>1, Joined DEF n
<1>. HIDE DEF n, plan
<1>3. ASSUME NEW i \in 1 .. Len(plan), i <= n
      PROVE  plan[i].phase = "tune" /\ plan[i].ids = Ids(Dealt(i), Dealt(i + 1))
  <2>1. i \in 1 .. n
    BY <1>1, <1>2, <1>3, SMT
  <2>2. plan[i] = Tune(Ids(Dealt(i), Dealt(i + 1)))
    BY <1>2, <2>1 DEF n
  <2>. QED
    BY <2>2 DEF Tune
<1>4. ASSUME NEW i \in 1 .. Len(plan), ~(i <= n)
      PROVE  plan[i].phase # "tune" /\ plan[i].ids = Ids(Dealt(i), Dealt(i + 1))
  <2>1. PICK j \in 1 .. Len(s2) : i = n + j
    <3>1. i - n \in 1 .. Len(s2) /\ i = n + (i - n)
      BY <1>1, <1>2, <1>4, SMT
    <3>. QED
      BY <3>1
  <2>2. plan[i].phase # "tune" /\ plan[i].ids = <<>>
    BY <1>2, <2>1
  <2>3. i \in Nat \ {0} /\ i + 1 \in Nat \ {0} /\ i > n /\ i + 1 > n
    BY <1>1, <1>2, <1>4, SMT
  <2>4. Dealt(i) = numTrials /\ Dealt(i + 1) = numTrials
    BY <2>3, DealtIs DEF n
  <2>5. Ids(numTrials, numTrials) = <<>>
    BY <1>1, IdsIs, SMT
  <2>. QED
    BY <2>2, <2>4, <2>5
<1>5. Len(plan) \in Nat /\ n < Len(plan)
  <2>. DEFINE l == Len(s2)
  <2>1. l \in 1 .. 5 /\ Len(plan) = n + l
    BY <1>2
  <2>. HIDE DEF l
  <2>. QED
    BY <1>1, <2>1, SMT
<1>. QED
  BY <1>3, <1>4, <1>5 DEF Parcels, n, plan

LEMMA PlanParcels == ASSUME DriverOK, WholeChunks PROVE Parcels(Plan)
<1>1. /\ NumChunks \in Nat /\ numTrials \in Nat \ {0} /\ PerWorker[driver] \in Nat \ {0}
      /\ driver \in Drivers /\ numTrials \in TrialCounts[driver]
  BY ChunkCount DEF DriverOK
<1>. DEFINE d == PerWorker[driver]
<1>2. /\ NumChunks * d >= numTrials /\ NumChunks * d < numTrials + d
      /\ numTrials % d = 0 => NumChunks * d = numTrials
  BY <1>1, Quotient DEF NumChunks
<1>3. ASSUME NEW i \in 1 .. NumChunks
      PROVE  (i - 1) * d < numTrials /\ (i - 1) * d \in Nat /\ i * d <= NumChunks * d
             /\ i * d \in Nat /\ (i + 1 - 1) * d = i * d
  <2>. HIDE DEF d
  <2>1. d \in Nat \ {0}
    BY <1>1 DEF d
  <2>2. (i - 1) * d <= (NumChunks - 1) * d /\ i * d <= NumChunks * d
    BY <1>1, <2>1, SMT
  <2>. QED
    BY <1>1, <1>2, <2>1, <2>2, SMT
<1>4. \A n \in Nat : n <= numTrials => Cut(n) = n
  BY <1>1, SMT DEF Cut
<1>5. ASSUME NEW i \in 1 .. NumChunks
      PROVE  /\ Cut((i - 1) * d) = (i - 1) * d
             /\ i * d <= numTrials => Cut(i * d) = i * d
  <2>1. (i - 1) * d \in Nat /\ i * d \in Nat /\ (i - 1) * d <= numTrials
    BY <1>1, <1>3, SMT
  <2>. QED
    BY <1>4, <2>1
<1>6. CASE driver = "xmanager"
  <2>. DEFINE s1 == [i \in 1 .. NumChunks |-> Tune(LauncherChunk(i))]
              s2 == <<Phase("export-hpo-results"), Phase("train-best")>>
  <2>1. NumChunks * d = numTrials
    BY <1>1, <1>2, <1>6 DEF WholeChunks
  <2>2. ASSUME NEW i \in 1 .. NumChunks
        PROVE  s1[i] = Tune(Ids(Dealt(i), Dealt(i + 1)))
    <3>1. Cut((i - 1) * d) = (i - 1) * d /\ Cut(i * d) = i * d
      BY <1>3, <1>5, <2>1
    <3>2. Dealt(i) = (i - 1) * d /\ Dealt(i + 1) = i * d
      BY <1>3, <1>6, <3>1 DEF Dealt
    <3>. QED
      BY <3>2 DEF LauncherChunk
  <2>3. TuneCount = NumChunks /\ Plan = s1 \o s2
    BY <1>6 DEF Plan, XmanagerPlan, TuneCount
  <2>4. s1 = [i \in 1 .. NumChunks |-> s1[i]]
    OBVIOUS
  <2>5. /\ s2 \in Seq({s2[1], s2[2]}) /\ Len(s2) = 2
        /\ s2[1].phase # "tune" /\ s2[1].ids = <<>>
        /\ s2[2].phase # "tune" /\ s2[2].ids = <<>>
    BY SMT DEF Phase
  <2>. HIDE DEF s1, s2
  <2>6. Len(s2) \in 1 .. 5 /\ \A j \in 1 .. Len(s2) : s2[j].phase # "tune" /\ s2[j].ids = <<>>
    BY <2>5, SMT
  <2>. QED
    BY <2>2, <2>3, <2>4, <2>5, <2>6, ParcelsOf
<1>7. CASE driver = "kind"
  <2>. DEFINE s1 == [i \in 1 .. NumChunks |-> Tune(KindChunk(i))]
              s2 == <<Phase("export-hpo-results"), Phase("train-best"),
                      Phase("export-train-results"), Phase("test-best"),
                      Phase("export-test-results")>>
  <2>2. ASSUME NEW i \in 1 .. NumChunks
        PROVE  s1[i] = Tune(Ids(Dealt(i), Dealt(i + 1)))
    <3>1. Cut((i - 1) * d) = (i - 1) * d
      BY <1>5
    <3>2. Dealt(i) = (i - 1) * d /\ Dealt(i + 1) = Cut(i * d)
      BY <1>3, <1>7, <3>1 DEF Dealt
    <3>. QED
      BY <3>2 DEF KindChunk
  <2>3. TuneCount = NumChunks /\ Plan = s1 \o s2
    BY <1>7 DEF Plan, KindPlan, TuneCount
  <2>4. s1 = [i \in 1 .. NumChunks |-> s1[i]]
    OBVIOUS
  <2>5. /\ s2 \in Seq({s2[1], s2[2], s2[3], s2[4], s2[5]}) /\ Len(s2) = 5
        /\ s2[1].phase # "tune" /\ s2[1].ids = <<>>
        /\ s2[2].phase # "tune" /\ s2[2].ids = <<>>
        /\ s2[3].phase # "tune" /\ s2[3].ids = <<>>
        /\ s2[4].phase # "tune" /\ s2[4].ids = <<>>
        /\ s2[5].phase # "tune" /\ s2[5].ids = <<>>
    BY SMT DEF Phase
  <2>. HIDE DEF s1, s2
  <2>6. Len(s2) \in 1 .. 5 /\ \A j \in 1 .. Len(s2) : s2[j].phase # "tune" /\ s2[j].ids = <<>>
    BY <2>5, SMT
  <2>. QED
    BY <2>2, <2>3, <2>4, <2>5, <2>6, ParcelsOf
<1>8. CASE driver \in {"tmp", "kfp"}
  <2>1. TuneCount = 1 /\ Dealt(1) = 0 /\ Dealt(1 + 1) = numTrials
        /\ \A i : i # 1 => Dealt(i) = numTrials
    BY <1>8, SMT DEF TuneCount, Dealt
  <2>2. Ids(numTrials, numTrials) = <<>>
    BY <1>1, IdsIs, SMT
  <2>3. CASE driver = "tmp"
    <3>1. Plan = <<Tune(Ids(0, numTrials)), Phase("export-hpo-results")>>
      BY <2>3 DEF Plan, TmpPlan
    <3>2. /\ Len(Plan) = 2 /\ Plan[1] = Tune(Ids(0, numTrials))
          /\ Plan[2].phase # "tune" /\ Plan[2].ids = <<>>
      BY <3>1, SMT DEF Phase
    <3>3. Plan[1].phase = "tune" /\ Plan[1].ids = Ids(0, numTrials)
      BY <3>2 DEF Tune
    <3>4. \A i \in 1 .. 2 : i = 1 \/ (i = 2 /\ i # 1 /\ i + 1 # 1)
      BY SMT
    <3>5. ASSUME NEW i \in 1 .. 2
          PROVE  /\ Plan[i].phase = "tune" <=> i <= 1
                 /\ Plan[i].ids = Ids(Dealt(i), Dealt(i + 1))
      <4>1. CASE i = 1
        BY <2>1, <3>3, <4>1, SMT
      <4>2. CASE i = 2 /\ i # 1 /\ i + 1 # 1
        <5>1. Dealt(i) = numTrials /\ Dealt(i + 1) = numTrials /\ ~(i <= 1)
          BY <2>1, <4>2, SMT
        <5>. QED
          BY <2>2, <3>2, <4>2, <5>1
      <4>. QED
        BY <3>4, <4>1, <4>2
    <3>. HIDE DEF Plan
    <3>. QED
      BY <2>1, <3>2, <3>5, SMT DEF Parcels
  <2>4. CASE driver = "kfp"
    <3>1. Plan = KfpPlan
      BY <2>4 DEF Plan
    <3>2. /\ Len(Plan) = 6 /\ Plan[1] = Tune(Ids(0, numTrials))
          /\ Plan[2].phase # "tune" /\ Plan[2].ids = <<>>
          /\ Plan[3].phase # "tune" /\ Plan[3].ids = <<>>
          /\ Plan[4].phase # "tune" /\ Plan[4].ids = <<>>
          /\ Plan[5].phase # "tune" /\ Plan[5].ids = <<>>
          /\ Plan[6].phase # "tune" /\ Plan[6].ids = <<>>
      BY <3>1, SMT DEF KfpPlan, GenerateTrialIds, Phase
    <3>3. Plan[1].phase = "tune" /\ Plan[1].ids = Ids(0, numTrials)
      BY <3>2 DEF Tune
    <3>4. \A i \in 1 .. 6 : \/ i = 1
                            \/ i \in {2, 3, 4, 5, 6} /\ i # 1 /\ i + 1 # 1
      BY SMT
    <3>5. ASSUME NEW i \in 1 .. 6
          PROVE  /\ Plan[i].phase = "tune" <=> i <= 1
                 /\ Plan[i].ids = Ids(Dealt(i), Dealt(i + 1))
      <4>1. CASE i = 1
        BY <2>1, <3>3, <4>1, SMT
      <4>2. CASE i \in {2, 3, 4, 5, 6} /\ i # 1 /\ i + 1 # 1
        <5>1. Dealt(i) = numTrials /\ Dealt(i + 1) = numTrials /\ ~(i <= 1)
          BY <2>1, <4>2, SMT
        <5>2. Plan[i].phase # "tune" /\ Plan[i].ids = <<>>
          BY <3>2, <4>2
        <5>. QED
          BY <2>2, <5>1, <5>2
      <4>. QED
        BY <3>4, <4>1, <4>2
    <3>. HIDE DEF Plan
    <3>. QED
      BY <2>1, <3>2, <3>5, SMT DEF Parcels
  <2>. QED
    BY <1>8, <2>3, <2>4
<1>. QED
  BY <1>1, <1>6, <1>7, <1>8, PipelineAssumption DEF Launchers, Clustered

(* What is left to do changes when a trial completes, and only then.       *)
LEMMA WorkLeft ==
  ASSUME JobOK, JobStep \/ JobFails
  PROVE  \/ TrialComplete
         \/ /\ trials' = trials /\ job'.left = job.left
            /\ job'.state = "succeeded" => job.phase # "tune" \/ job.left = <<>>
            /\ job.phase = "tune" /\ job'.run # 0 => job.run # 0 \/ job.left # <<>>
<1>1. {"phase", "left", "step", "run", "by", "state"} = DOMAIN job
  BY DEF JobOK, NoJob
<1>2. job.state = "running"
  BY WorkIs
<1>3. ASSUME Suggest \/ TrialStart \/ ExportHparams \/ TrainStart \/ TestStart
      PROVE  /\ trials' = trials /\ job'.left = job.left /\ job'.state = job.state
             /\ job.phase = "tune" /\ job'.run # 0 => job.run # 0 \/ job.left # <<>>
  <2>1. CASE Suggest \/ ExportHparams
    <3>1. trials' = trials /\ job' = [job EXCEPT !.step = 1]
      BY <2>1 DEF Suggest, ExportHparams, storeVars
    <3>. QED
      BY <1>1, <3>1
  <2>2. CASE TrialStart
    <3>1. trials' = trials /\ job' = [job EXCEPT !.run = lastRun + 1] /\ job.left # <<>>
      BY <2>2 DEF TrialStart
    <3>. QED
      BY <1>1, <3>1
  <2>3. CASE TrainStart \/ TestStart
    <3>1. /\ trials' = trials /\ job' = [job EXCEPT !.step = 1, !.run = lastRun + 1]
          /\ job.phase # "tune"
      BY <2>3 DEF TrainStart, TestStart, Running
    <3>. QED
      BY <1>1, <3>1
  <2>. QED
    BY <1>3, <2>1, <2>2, <2>3
<1>4. ASSUME TrainEpoch \/ JobFails
      PROVE  /\ trials' = trials /\ job'.left = job.left /\ job'.state # "succeeded"
             /\ job'.run # 0 => job.run # 0
  <2>1. /\ trials' = trials
        /\ \/ job' = [job EXCEPT !.step = @ + 1]
           \/ job' = [job EXCEPT !.state = "failed", !.run = 0]
    BY <1>4 DEF TrainEpoch, JobFails
  <2>. QED
    BY <1>1, <1>2, <2>1
<1>5. ASSUME TuneEnd \/ ExportMetrics \/ ExportTrain \/ ExportTest \/ TrainEnd \/ TestEnd
      PROVE  /\ trials' = trials /\ job'.left = job.left /\ job'.run = 0
             /\ job.phase # "tune" \/ job.left = <<>>
  <2>1. /\ trials' = trials /\ JobEnds
        /\ job.phase # "tune" \/ job.left = <<>>
    BY <1>5 DEF TuneEnd, ExportMetrics, ExportTrain, ExportTest, ExportRun, TrainEnd,
       TestEnd, Running, storeVars
  <2>. QED
    BY <1>1, <2>1 DEF JobEnds
<1>. QED
  BY <1>2, <1>3, <1>4, <1>5 DEF JobStep

Midway(k) == Did(k) /\ job.left = Ids(k, Dealt(at + 1))

(* While its tune jobs are under way a pipeline has completed what was     *)
(* dealt so far but for what is left of the job at hand.                   *)
DealtInv ==
  /\ \A i \in DOMAIN trials : trials[i].by <= pipeline
  /\ pc \in {"reset", "create", "prepare", "deploy", "backend"} => OwnTrials = {}
  /\ pc \in {"submit", "watch"} => at \in 1 .. Len(Plan)
  /\ pc = "submit" => Did(Dealt(at))
  /\ pc = "watch" => \E k \in Dealt(at) .. Dealt(at + 1) : Midway(k)
  /\ job.state = "succeeded" => job.left = <<>>
  /\ job.phase # "tune" => job.left = <<>>
  /\ job.phase = "tune" /\ job.run # 0 => job.left # <<>>

LEMMA InitDealt == Init => DealtInv
<1>. SUFFICES ASSUME Init PROVE DealtInv
  OBVIOUS
<1>1. DOMAIN trials = {} /\ pc = "idle" /\ job = NoJob
  BY DEF Init
<1>2. NoJob.left = <<>> /\ NoJob.run = 0
  BY DEF NoJob
<1>. QED
  BY <1>1, <1>2 DEF DealtInv

(* The next trial of a pipeline, and one of an older pipeline.             *)
LEMMA OneMore ==
  ASSUME Listed, NEW k \in Nat, Did(k), NEW t, trials' = Append(trials, t),
         pipeline' = pipeline
  PROVE  /\ t.by = pipeline /\ t.id = k => Did(k + 1)'
         /\ t.by # pipeline => Did(k)'
<1>1. /\ DOMAIN trials' = 1 .. Len(trials') /\ Len(trials') = Len(trials) + 1
      /\ Len(trials) \in Nat /\ DOMAIN trials = 1 .. Len(trials)
      /\ \A i \in DOMAIN trials : trials'[i] = trials[i]
      /\ trials'[Len(trials) + 1] = t
  BY AppendListed
<1>. DEFINE last == Len(trials) + 1
<1>2. /\ DOMAIN trials' = DOMAIN trials \union {last} /\ last \notin DOMAIN trials
      /\ \A i \in DOMAIN trials : i < last /\ ~(last < i)
      /\ ~(last < last)
  <2>. DEFINE l == Len(trials)
  <2>1. l \in Nat /\ last = l + 1 /\ DOMAIN trials = 1 .. l /\ DOMAIN trials' = 1 .. last
    BY <1>1
  <2>. HIDE DEF l, last
  <2>2. \A i : i \in 1 .. last <=> i \in 1 .. l \/ i = last
    BY <2>1, SMT
  <2>3. /\ last \notin 1 .. l /\ \A i \in 1 .. l : i < last /\ ~(last < i)
        /\ ~(last < last)
    BY <2>1, SMT
  <2>. QED
    BY <2>1, <2>2, <2>3
<1>3. trials'[last] = t
  BY <1>1
<1>. HIDE DEF last
<1>4. ASSUME t.by # pipeline PROVE Did(k)'
  <2>1. OwnTrials' = OwnTrials
    BY <1>1, <1>2, <1>3, <1>4 DEF OwnTrials
  <2>2. \A i \in OwnTrials : trials'[i] = trials[i]
    BY <1>1 DEF OwnTrials
  <2>3. {trials'[i].id : i \in OwnTrials'} = {trials[i].id : i \in OwnTrials}
    BY <2>1, <2>2
  <2>4. \A i, j \in OwnTrials' : i < j => trials'[i].id < trials'[j].id
    BY <2>1, <2>2 DEF Did
  <2>. QED
    BY <2>3, <2>4 DEF Did
<1>5. ASSUME t.by = pipeline, t.id = k PROVE Did(k + 1)'
  <2>1. OwnTrials' = OwnTrials \union {last}
    BY <1>1, <1>2, <1>3, <1>5 DEF OwnTrials
  <2>2. \A i \in OwnTrials : i \in DOMAIN trials /\ trials'[i] = trials[i]
    BY <1>1 DEF OwnTrials
  <2>. DEFINE ids == {trials[i].id : i \in OwnTrials}
  <2>3. ids = 0 .. k - 1
    BY DEF Did
  <2>4. {trials'[i].id : i \in OwnTrials'} = ids \union {k}
    BY <1>3, <1>5, <2>1, <2>2
  <2>. HIDE DEF ids
  <2>5. ids \union {k} = 0 .. k
    BY <2>3, SMT
  <2>6. 0 .. k = 0 .. (k + 1) - 1
    BY SMT
  <2>7. \A i \in OwnTrials : trials[i].id < k
    <3>1. \A i \in OwnTrials : trials[i].id \in ids
      BY DEF ids
    <3>. QED
      BY <2>3, <3>1, SMT
  <2>8. ASSUME NEW i \in OwnTrials', NEW j \in OwnTrials', i < j
        PROVE  trials'[i].id < trials'[j].id
    <3>1. i \in OwnTrials
      BY <1>2, <2>1, <2>2, <2>8
    <3>2. CASE j = last
      BY <1>3, <1>5, <2>2, <2>7, <3>1, <3>2
    <3>3. CASE j \in OwnTrials
      BY <2>2, <2>8, <3>1, <3>3 DEF Did
    <3>. QED
      BY <2>1, <3>2, <3>3
  <2>. QED
    BY <2>4, <2>5, <2>6, <2>8 DEF Did
<1>. QED
  BY <1>4, <1>5

LEMMA NoneYet == ASSUME OwnTrials' = {} PROVE Did(0)'
<1>1. 0 .. 0 - 1 = {}
  BY SMT
<1>. QED
  BY <1>1 DEF Did

LEMMA StillDid == ASSUME NEW k, Did(k), UNCHANGED <<trials, pipeline>> PROVE Did(k)'
  BY DEF Did, OwnTrials

LEMMA SamePlan ==
  ASSUME UNCHANGED <<driver, numTrials>>
  PROVE  Plan' = Plan /\ \A i : Dealt(i)' = Dealt(i)
<1>1. Plan' = Plan
  BY DEF Plan, XmanagerPlan, TmpPlan, KindPlan, KfpPlan, NumChunks, LauncherChunk,
     KindChunk, Cut, GenerateTrialIds
<1>2. \A i : Dealt(i)' = Dealt(i)
  BY DEF Dealt, Cut
<1>. QED
  BY <1>1, <1>2

LEMMA NextDealt ==
  WholeChunks /\ OneJobInv /\ DealtInv /\ [Next]_vars => DealtInv'
<1>. SUFFICES ASSUME WholeChunks, OneJobInv, DealtInv, [Next]_vars PROVE DealtInv'
  OBVIOUS
<1>. DEFINE Early == {"reset", "create", "prepare", "deploy", "backend"}
<1>0. /\ DriverOK /\ JobOK /\ TrialsOK /\ JobNeedsCluster /\ JobIsNext
      /\ pipeline \in Nat /\ at \in Nat \ {0}
  BY PipelineAssumption, SMT DEF OneJobInv, Typed, DriverOK
<1>1. Parcels(Plan) /\ numTrials \in Nat
  BY <1>0, PlanParcels, ChunkCount
<1>. HIDE DEF Plan
<1>2. NoJob.left = <<>> /\ NoJob.run = 0 /\ NoJob.state = "none" /\ NoJob.phase = "none"
  BY DEF NoJob
<1>. HIDE DEF NoJob
<1>3. Dealt(1) = 0 /\ 1 \in 1 .. Len(Plan)
  BY <1>0, <1>1, DealtIs, SMT DEF Parcels
<1>4. /\ Dealt(at) \in Nat /\ Dealt(at + 1) \in Nat /\ Dealt(at) <= Dealt(at + 1)
      /\ at + 1 \in Nat \ {0}
  <2>1. at + 1 \in Nat \ {0} /\ 0 .. numTrials \subseteq Nat
    BY <1>0, <1>1, SMT
  <2>. QED
    BY <1>0, <2>1, DealtIs
<1>5. ASSUME job' \in {job, NoJob}
      PROVE  /\ job'.state = "succeeded" => job'.left = <<>>
             /\ job'.phase # "tune" => job'.left = <<>>
             /\ job'.phase = "tune" /\ job'.run # 0 => job'.left # <<>>
  BY <1>2, <1>5 DEF DealtInv
<1>6. ASSUME UNCHANGED <<trials, pipeline>>, job' \in {job, NoJob},
             pc' \in Early \union {"idle", "paused", "teardown"}, pc' \in Early => pc \in Early
      PROVE  DealtInv'
  BY <1>5, <1>6 DEF DealtInv, OwnTrials
<1>7. ASSUME Begin PROVE DealtInv'
  <2>1. /\ UNCHANGED <<trials, job>> /\ pipeline' = pipeline + 1
        /\ pc' \in {"reset", "create"}
    BY <1>7 DEF Begin, storeVars
  <2>2. \A i \in DOMAIN trials : /\ trials[i].by <= pipeline' /\ trials[i].by # pipeline'
    <3>1. \A i \in DOMAIN trials : trials[i].by \in Nat /\ trials[i].by <= pipeline
      BY <1>0 DEF TrialsOK, DealtInv
    <3>2. \A n \in Nat : n <= pipeline => n <= pipeline' /\ n # pipeline'
      BY <1>0, <2>1, SMT
    <3>. QED
      BY <3>1, <3>2
  <2>3. OwnTrials' = {}
    BY <2>1, <2>2 DEF OwnTrials
  <2>. QED
    BY <1>5, <2>1, <2>2, <2>3 DEF DealtInv
<1>8. ASSUME ResetStore PROVE DealtInv'
  <2>1. trials' = trials \/ trials' = <<>>
    BY <1>0, <1>8, ResetIs DEF ResetCheckpointBuckets, ResetHpoResultsBucket,
       ResetVizierRecords, ResetMlflowRecords, storeVars
  <2>2. /\ UNCHANGED <<driver, numTrials, pipeline, job>> /\ pc = "reset"
        /\ \/ pc' = "reset"
           \/ at' = 1 /\ pc' = "submit"
    BY <1>8 DEF ResetStore
  <2>3. \A i \in DOMAIN trials' : i \in DOMAIN trials /\ trials'[i] = trials[i]
    <3>1. DOMAIN <<>> = {}
      OBVIOUS
    <3>. QED
      BY <2>1, <3>1
  <2>4. OwnTrials' = {}
    BY <2>2, <2>3 DEF DealtInv, OwnTrials
  <2>5. Did(0)'
    BY <2>4, NoneYet
  <2>6. \A i \in DOMAIN trials' : trials'[i].by <= pipeline'
    BY <2>2, <2>3 DEF DealtInv
  <2>7. Plan' = Plan /\ Dealt(1)' = 0
    BY <1>3, <2>2, SamePlan
  <2>8. CASE pc' = "reset"
    BY <1>5, <2>2, <2>4, <2>6, <2>8 DEF DealtInv
  <2>9. CASE at' = 1 /\ pc' = "submit"
    <3>1. Did(Dealt(at))' /\ at' \in 1 .. Len(Plan')
      BY <1>3, <2>5, <2>7, <2>9
    <3>. QED
      BY <1>5, <2>2, <2>6, <2>9, <3>1 DEF DealtInv
  <2>. QED
    BY <2>2, <2>8, <2>9
<1>9. ASSUME pc \in {"deploy", "backend"}, pc' = "submit", at' = 1,
             UNCHANGED <<driver, numTrials, pipeline, trials, job>>
      PROVE  DealtInv'
  <2>1. OwnTrials' = {}
    BY <1>9 DEF DealtInv, OwnTrials
  <2>2. Plan' = Plan /\ Dealt(1)' = 0 /\ Did(0)'
    BY <1>3, <1>9, <2>1, NoneYet, SamePlan
  <2>3. Did(Dealt(at))' /\ at' \in 1 .. Len(Plan')
    BY <1>3, <1>9, <2>2
  <2>. QED
    BY <1>5, <1>9, <2>3 DEF DealtInv
<1>10. ASSUME CreateCluster \/ InstallTrainer PROVE DealtInv'
  <2>1. /\ UNCHANGED <<trials, pipeline, job>> /\ pc \in Early
        /\ pc' \in Early \union {"paused", "teardown"}
    BY <1>10 DEF CreateCluster, InstallTrainer, RunCmd, TimesOut, CallRaises, storeVars
  <2>. QED
    BY <1>6, <2>1
<1>11. ASSUME DeployDatabases \/ SetupKfpBackend PROVE DealtInv'
  <2>1. /\ UNCHANGED <<driver, numTrials, pipeline, at, trials, job>>
        /\ pc \in {"deploy", "backend"}
        /\ pc' \in {"backend", "submit", "paused", "teardown"}
        /\ at = 1
    BY <1>0, <1>11 DEF DeployDatabases, WaitForDeployment, TimesOut, CallRaises,
       SetupKfpBackend, storeVars, JobIsNext
  <2>. QED
    BY <1>6, <1>9, <2>1
<1>12. ASSUME SubmitJob PROVE DealtInv'
  <2>1. /\ UNCHANGED <<driver, numTrials, pipeline, at, trials>> /\ pc = "submit"
    BY <1>12 DEF SubmitJob, storeVars
  <2>2. CASE job' = [phase |-> Plan[at].phase, left |-> Plan[at].ids, step |-> 0,
                     run |-> 0, by |-> pipeline, state |-> "running"] /\ pc' = "watch"
    <3>1. /\ job'.phase = Plan[at].phase /\ job'.left = Plan[at].ids /\ job'.run = 0
          /\ job'.state = "running"
      BY <2>2
    <3>2. /\ at \in 1 .. Len(Plan) /\ Plan[at].ids = Ids(Dealt(at), Dealt(at + 1))
          /\ Plan[at].phase = "tune" <=> at <= TuneCount
      BY <1>1, <2>1 DEF DealtInv, Parcels
    <3>3. PICK k, m : k = Dealt(at) /\ m = Dealt(at + 1)
      OBVIOUS
    <3>4. k \in k .. m /\ Did(k)' /\ job'.left = Ids(k, m)
      <4>1. k \in k .. m
        BY <1>4, <3>3, SMT
      <4>2. Did(k)
        BY <2>1, <3>3 DEF DealtInv
      <4>. QED
        BY <2>1, <3>1, <3>2, <3>3, <4>1, <4>2, StillDid
    <3>5. /\ Dealt(at)' = k /\ Dealt(at + 1)' = m /\ Plan' = Plan
          /\ Ids(k, m)' = Ids(k, m)
      BY <2>1, <3>3, SamePlan DEF Ids
    <3>6. Midway(k)'
      BY <3>4, <3>5 DEF Midway
    <3>7. job'.phase # "tune" => job'.left = <<>>
      <4>1. ASSUME job'.phase # "tune" PROVE job'.left = <<>>
        <5>1. ~(at <= TuneCount)
          BY <3>1, <3>2, <4>1
        <5>2. at > TuneCount /\ at + 1 > TuneCount
          BY <1>0, <5>1, DealtIs, SMT
        <5>3. k = numTrials /\ m = numTrials
          BY <1>0, <1>4, <3>3, <5>2, DealtIs
        <5>. QED
          BY <1>1, <3>4, <5>3, IdsIs, SMT
      <4>. QED
        BY <4>1
    <3>. QED
      BY <2>1, <2>2, <3>1, <3>2, <3>4, <3>5, <3>6, <3>7 DEF DealtInv
  <2>3. CASE job' = job /\ pc' = After
    BY <1>6, <2>1, <2>3 DEF After
  <2>. QED
    BY <1>12, <2>2, <2>3 DEF SubmitJob
<1>13. ASSUME JobCompleted PROVE DealtInv'
  <2>1. /\ UNCHANGED <<driver, numTrials, pipeline, trials>> /\ pc = "watch"
        /\ job.state = "succeeded" /\ job' = NoJob
        /\ \/ at < Len(Plan) /\ at' = at + 1 /\ pc' = "submit"
           \/ pc' = After
    BY <1>13 DEF JobCompleted, storeVars
  <2>2. CASE at < Len(Plan) /\ at' = at + 1 /\ pc' = "submit"
    <3>1. PICK k \in Dealt(at) .. Dealt(at + 1) : Midway(k)
      BY <2>1 DEF DealtInv
    <3>2. k \in Nat /\ k <= Dealt(at + 1)
      BY <1>4, <3>1, SMT
    <3>3. Ids(k, Dealt(at + 1)) = <<>>
      BY <2>1, <3>1 DEF Midway, DealtInv
    <3>4. k = Dealt(at + 1)
      BY <1>4, <3>2, <3>3, IdsIs
    <3>5. Did(k)'
      BY <2>1, <3>1, StillDid DEF Midway
    <3>6. Plan' = Plan /\ Dealt(at)' = k
      BY <2>1, <2>2, <3>4, SamePlan DEF Dealt, Cut
    <3>7. at' \in 1 .. Len(Plan')
      BY <1>0, <1>1, <2>2, <3>6, SMT DEF Parcels
    <3>. QED
      BY <1>5, <2>1, <2>2, <3>5, <3>6, <3>7 DEF DealtInv
  <2>3. CASE pc' = After
    BY <1>6, <2>1, <2>3 DEF After
  <2>. QED
    BY <2>1, <2>2, <2>3
<1>14. ASSUME WatchRaises \/ Leaves PROVE DealtInv'
  <2>1. /\ UNCHANGED <<pipeline, trials>> /\ job' \in {job, NoJob}
        /\ pc' \in {"idle", "teardown"}
    BY <1>14, LeavesIs DEF WatchRaises, After, storeVars
  <2>. QED
    BY <1>6, <2>1
<1>15. ASSUME JobStep \/ JobFails
       PROVE  /\ UNCHANGED <<driver, numTrials, pipeline, pc, at>> /\ pc # "submit"
              /\ job'.phase = job.phase
              /\ Plan' = Plan /\ Dealt(at)' = Dealt(at) /\ Dealt(at + 1)' = Dealt(at + 1)
  <2>1. /\ UNCHANGED <<driver, numTrials, pipeline, pc, at>> /\ job.state = "running"
        /\ job'.phase = job.phase
    BY <1>0, <1>15, WorkIs DEF WorkerFrame, driverVars
  <2>2. pc # "submit"
    BY <1>0, <1>2, <2>1 DEF JobNeedsCluster
  <2>. QED
    BY <2>1, <2>2, SamePlan DEF Dealt, Cut
<1>16. ASSUME JobStep \/ JobFails, trials' = trials, job'.left = job.left,
              job'.state = "succeeded" => job.phase # "tune" \/ job.left = <<>>,
              job.phase = "tune" /\ job'.run # 0 => job.run # 0 \/ job.left # <<>>
       PROVE  DealtInv'
  <2>1. ASSUME pc = "watch" PROVE (\E k \in Dealt(at) .. Dealt(at + 1) : Midway(k))'
    <3>1. PICK k \in Dealt(at) .. Dealt(at + 1) : Midway(k)
      BY <2>1 DEF DealtInv
    <3>2. PICK m : m = Dealt(at + 1)
      OBVIOUS
    <3>3. Did(k)' /\ Ids(k, m)' = Ids(k, m) /\ job'.left = Ids(k, m)
      BY <1>15, <1>16, <3>1, <3>2, StillDid DEF Midway, Ids
    <3>4. Midway(k)'
      BY <1>15, <1>16, <3>2, <3>3 DEF Midway
    <3>. QED
      BY <1>15, <1>16, <3>1, <3>4
  <2>2. OwnTrials' = OwnTrials
    BY <1>15, <1>16 DEF OwnTrials
  <2>3. job'.state = "succeeded" => job'.left = <<>>
    BY <1>16 DEF DealtInv
  <2>. QED
    BY <1>15, <1>16, <2>1, <2>2, <2>3 DEF DealtInv
<1>17. ASSUME TrialComplete PROVE DealtInv'
  <2>1. JobStep /\ job.phase = "tune" /\ job.run # 0 /\ job.state = "running"
    BY <1>17 DEF JobStep, TrialComplete, Running
  <2>2. PICK sc \in Scores :
          trials' = Append(trials, [id |-> Head(job.left), run |-> job.run,
                                    by |-> job.by, score |-> sc])
    BY <1>17 DEF TrialComplete
  <2>. DEFINE t == [id |-> Head(job.left), run |-> job.run, by |-> job.by, score |-> sc]
  <2>3. t.by = job.by /\ t.id = Head(job.left)
    OBVIOUS
  <2>. HIDE DEF t
  <2>4. trials' = Append(trials, t) /\ Listed
    BY <1>0, <2>2 DEF t, TrialsOK
  <2>5. /\ DOMAIN trials' = 1 .. Len(trials') /\ Len(trials') = Len(trials) + 1
        /\ Len(trials) \in Nat /\ DOMAIN trials = 1 .. Len(trials)
        /\ \A i \in DOMAIN trials : trials'[i] = trials[i]
        /\ trials'[Len(trials) + 1] = t
    BY <2>4, AppendListed
  <2>6. \A i \in DOMAIN trials' : i \in DOMAIN trials \/ i = Len(trials) + 1
    BY <2>5, SMT
  <2>7. \A i \in DOMAIN trials' : trials'[i].by <= pipeline'
    <3>1. t.by <= pipeline
      BY <1>0, <2>3 DEF JobIsNext
    <3>. QED
      BY <1>15, <2>1, <2>5, <2>6, <3>1 DEF DealtInv
  <2>8. /\ job'.left = Tail(job.left) /\ job'.run = 0 /\ job'.state = job.state
    <3>1. {"phase", "left", "step", "run", "by", "state"} = DOMAIN job
      BY <1>0 DEF JobOK, NoJob
    <3>2. job' = [job EXCEPT !.run = 0, !.left = Tail(job.left)]
      BY <1>17 DEF TrialComplete
    <3>. QED
      BY <3>1, <3>2
  <2>9. ASSUME pc \in Early PROVE OwnTrials' = {}
    <3>1. t.by # pipeline
      BY <1>0, <2>3, <2>9, SMT DEF JobIsNext, JobOK
    <3>. QED
      BY <1>15, <2>1, <2>5, <2>6, <2>9, <3>1 DEF DealtInv, OwnTrials
  <2>10. ASSUME pc = "watch" PROVE (\E k \in Dealt(at) .. Dealt(at + 1) : Midway(k))'
    <3>1. PICK k \in Dealt(at) .. Dealt(at + 1) : Midway(k)
      BY <2>10 DEF DealtInv
    <3>2. PICK m : m = Dealt(at + 1)
      OBVIOUS
    <3>3. k \in Nat /\ m \in Nat /\ k <= m /\ Did(k) /\ job.left = Ids(k, m)
      BY <1>4, <3>1, <3>2, SMT DEF Midway
    <3>4. job.left # <<>>
      BY <2>1 DEF DealtInv
    <3>5. k < m
      BY <3>3, <3>4, IdsIs, SMT
    <3>6. Head(job.left) = k /\ Tail(job.left) = Ids(k + 1, m)
      <4>1. Head(Ids(k, m)) = k /\ Tail(Ids(k, m)) = Ids(k + 1, m)
        BY <3>3, <3>5, IdsIs
      <4>. QED
        BY <3>3, <4>1
    <3>7. t.by = pipeline
      BY <1>0, <2>3, <2>10 DEF JobIsNext
    <3>8. Did(k + 1)'
      BY <1>15, <2>1, <2>3, <2>4, <3>3, <3>6, <3>7, OneMore
    <3>9. job'.left = Ids(k + 1, m) /\ Ids(k + 1, m)' = Ids(k + 1, m)
      BY <2>8, <3>6 DEF Ids
    <3>10. k + 1 \in Dealt(at) .. Dealt(at + 1)
      BY <1>4, <3>1, <3>2, <3>5, SMT
    <3>11. Midway(k + 1)'
      BY <1>15, <2>1, <3>2, <3>8, <3>9 DEF Midway
    <3>. QED
      BY <1>15, <2>1, <3>10, <3>11
  <2>. QED
    BY <1>15, <2>1, <2>7, <2>8, <2>9, <2>10 DEF DealtInv
<1>18. CASE UNCHANGED seen
  <2>1. UNCHANGED <<driver, numTrials, pipeline, pc, at, trials, job>>
    BY <1>18 DEF seen, storeVars
  <2>2. Plan' = Plan /\ Dealt(at)' = Dealt(at) /\ Dealt(at + 1)' = Dealt(at + 1)
    BY <2>1, SamePlan DEF Dealt, Cut
  <2>3. OwnTrials' = OwnTrials /\ (Did(Dealt(at)) => Did(Dealt(at))')
    BY <2>1, <2>2 DEF OwnTrials, Did
  <2>4. \A k : Midway(k) => Midway(k)'
    BY <2>1, <2>2 DEF Midway, Did, OwnTrials, Ids
  <2>. QED
    BY <2>1, <2>2, <2>3, <2>4 DEF DealtInv
<1>19. ASSUME JobStep \/ JobFails PROVE DealtInv'
  BY <1>0, <1>16, <1>17, <1>19, WorkLeft
<1>. QED
  BY <1>7, <1>8, <1>10, <1>11, <1>12, <1>13, <1>14, <1>18, <1>19, SeenSame
     DEF Next, DriverStep, Leaves

(* What a phase starts from is there, whole, however many pipelines went   *)
(* before and whatever failed: PhasesBehindAreDone.                        *)
THEOREM PhasesBehindAlwaysDone ==
  ASSUME WholeChunks PROVE Spec => []PhasesBehindAreDone
<1>1. OneJobInv /\ DealtInv => PhasesBehindAreDone
  <2>. SUFFICES ASSUME OneJobInv, DealtInv PROVE PhasesBehindAreDone
    OBVIOUS
  <2>1. PhasesInOrder
    BY DEF OneJobInv, JobIsNext, PhasesInOrder
  <2>2. ASSUME pc \in {"submit", "watch"}, Tuned PROVE Did(numTrials)
    <3>1. DriverOK /\ Parcels(Plan) /\ at \in 1 .. Len(Plan)
      BY <2>2, PlanParcels DEF OneJobInv, Typed, DealtInv
    <3>. HIDE DEF Plan
    <3>2. PICK i \in 1 .. at - 1 :
            Plan[i].phase = "tune" /\ (i < Len(Plan) => Plan[i + 1].phase # "tune")
      BY <2>2 DEF Tuned
    <3>3. /\ Len(Plan) \in Nat /\ TuneCount \in Nat
          /\ i < Len(Plan) /\ i + 1 \in 1 .. Len(Plan) /\ i + 1 <= at
          /\ at \in Nat \ {0} /\ at + 1 \in Nat \ {0}
      <4>1. Len(Plan) \in Nat /\ TuneCount \in Nat
        BY <3>1, DealtIs DEF Parcels
      <4>. QED
        BY <3>1, <3>2, <4>1, SMT
    <3>4. ~(i + 1 <= TuneCount)
      BY <3>1, <3>2, <3>3 DEF Parcels
    <3>5. at > TuneCount /\ at + 1 > TuneCount
      BY <3>3, <3>4, SMT
    <3>6. Dealt(at) = numTrials /\ Dealt(at + 1) = numTrials
      BY <3>1, <3>3, <3>5, DealtIs
    <3>7. CASE pc = "submit"
      BY <3>6, <3>7 DEF DealtInv
    <3>8. CASE pc = "watch"
      <4>1. PICK k \in numTrials .. numTrials : Midway(k)
        BY <3>6, <3>8 DEF DealtInv
      <4>2. k = numTrials
        BY <3>1, <4>1, ChunkCount, SMT
      <4>. QED
        BY <4>1, <4>2 DEF Midway
    <3>. QED
      BY <2>2, <3>7, <3>8
  <2>. QED
    BY <2>1, <2>2 DEF PhasesBehindAreDone, EveryTrialOnce
<1>2. Init => OneJobInv /\ DealtInv
  BY InitTyped, InitOneJob, InitDealt DEF OneJobInv
<1>3. OneJobInv /\ [Next]_vars => OneJobInv'
  BY NextTyped, NextJobNeedsCluster, NextJobIsNext DEF OneJobInv, Typed
<1>4. OneJobInv /\ DealtInv /\ [Next]_vars => OneJobInv' /\ DealtInv'
  BY <1>3, NextDealt
<1>. QED
  BY <1>1, <1>2, <1>4, PTL DEF Spec

=============================================================================
