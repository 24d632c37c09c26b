# Verification of nking/ranker

The repository trains a graph neural network that ranks movies for a user
(Python, JAX, several worker processes), exports it, and serves recommendations
with it (Rust, in front of TensorFlow Serving). This directory holds TLA+
models of the parts in which state, concurrency and failure matter, TLC
configurations that check them on small instances, and TLAPS proofs.

`PROJECT.json` maps every definition to the lines it models and lists runs,
mutants (a plausible bug per property that the run must catch), findings,
hazards and theorems.

Paths below are relative to the repository: `train.py`,
`app_runner_inner.py` and the other Python files of the trainer are in
`src/main/python/movie_lens_ranker/`, `orchestrator.rs` and the other Rust files
in `inference_src/main/rust/src/`, the drivers in `orchestration/xmanager` and
`orchestration/k8s`.

## Inventory

| Component | State | Operations | What is hard |
|---|---|---|---|
| Training session (`train.py`) | model, optimizer, `global_step`, dataloader iterator, prefetcher's deque, two checkpoint directories, best metric, early-stopping counter | `run_train_phase`, `resume_train_fn`, `_train_fn`, `_async_device_prefetcher`, checkpoint saves, restore check | crash between two saves; iterator ahead of the training loop; relaunch into an old directory; boundaries of epochs after a resume |
| HPO study and phases (`app_runner_inner.py`) | Vizier trials, MLflow experiment, parent and child runs, per-worker loop state | `run_tune`, `run_train`, `sync_hyperparams`, `get_best_parameters_for_training`, `run_test`, `run_export_results` | worker 0 alone does I/O between collectives; three writes to two stores report one trial; launches fail and are repeated |
| Sampler and data loading (`BatchSampler.py`, `data_loading.py`, `RandomAccessArrayRecordDataSource.py`) | position of each process and worker, readers | block of an index, share of a process, pickling a source into a worker | tails dropped; unequal shares before a collective; readers shared between processes |
| Transforms (`*Transform.py`, `UserHistory.py`, `RecommendedMovies.py`, `util_numba.py`) | read-only tables, the random generator | history before a time, hard negatives, local graph, padding | boundaries and ties of timestamps; sources that may be empty; a rejection loop; two arrays shuffled together |
| Super graphs and network (`util_np.py`, `util.py`, `model.py`, `train.py` 112-319, 387-437, 557-592) | none between batches | batch and pad, message passing, slots and rows, masks | offsets, padding, several devices and processes; everything is found by position |
| Metrics (`util*.py`) | none | numerics | floating point |
| Export (`export_src`) | SavedModel version directories | restore, convert, write metadata | order in which the server sees its files |
| Metadata caches (`orchestrator.rs` 190-297) | an `ArcSwap` of a map and a mutex, twice | `get_or_fetch_query_metadata`, `get_or_fetch_ranker_metadata` | readers without the lock; double-checked loading; early returns under the lock |
| Orchestrator (`orchestrator.rs`) | latest versions (atomics), searcher (`ArcSwap`) | `predict`, `predict_diagnostic`, `ranks_only`, `approx_nearest_neighbors`, `reload_embeddings`, `update_latest_model_versions` | shared state read again after every await, in chunks, while it changes |
| Searcher (`embeddings_ann.rs`) | catalog and index, persisted index file | `new`, `search` | persisted index of other embeddings |
| Client, graph builder (`model_client.rs`, `graph_builder.rs`, `util.rs`) | none | build and parse tensors, pad | sizes, offsets, unknown users |
| Histories and stores (`user_history.rs`, `user_db.rs`, `movie_db.rs`) | read-only | lookups before a timestamp | boundaries |
| Server lifecycle (`main.rs`, `app_runner.rs`) | task, channels, health status | start, serve, shut down | a task that dies before it listens |
| Pipelines (`orchestration/xmanager`, `orchestration/k8s`) | Vizier and MLflow stores, checkpoint and results buckets, the kind cluster | reset, create and delete a cluster, tune, export, train-best, test | swallowed failures, stale records, jobs that outlive their driver |

The parts meet as follows. A pipeline launches phases one after the other; each
is an SPMD job whose workers meet in JAX collectives. `tune` and `train-best`
call the training session (`run_train_phase`), which leaves checkpoints and an
MLflow run; `tune` reports to Vizier, from which `train-best` takes its
parameters. Export turns a best checkpoint into a version directory that
TensorFlow Serving loads by itself and whose metadata file the orchestrator
reads through its caches. A request to the orchestrator goes through version,
metadata, searcher, graph, TensorFlow Serving, and back.

What makes each part correct: a session neither trains a batch twice nor loses
more than the prefetcher holds, and its checkpoints restore a state it was in;
the workers of a job train the same parameters and the two stores agree about
every trial; a cache loads once and forgets nothing; a request is answered for
all of its users, and always ends; every record is in at most one batch of a
pass and the processes stay in step; the negatives of a record are distinct,
rightly labelled and nothing the user liked; a score depends on the graph of its
own user alone; and what a phase of a pipeline picks up from the stores is what
an earlier phase of the same pipeline left there.

## Modules

| Module | Models | Checked by | Proved in |
|---|---|---|---|
| `CheckpointedTraining` | what checkpointing promises | refinement in run `train` | `TrainLoop_proofs` |
| `TrainLoop` | the training session | `train`, `tune` | `TrainLoop_proofs` |
| `Study` | `run_tune`, `run_train('train-best')`, Vizier, MLflow | `study` | `Study_proofs` |
| `Pipeline` | the drivers, the cluster, and what all phases do to the stores | `pipeline`, `stale_bucket` | `Pipeline_proofs` |
| `Shards` | sampler, dataloaders, readers, steps in lockstep | `shards` | `Shards_proofs` |
| `Negatives` | history and candidates of a record | `negatives` | `Negatives_proofs` |
| `SuperGraph` | batches of graphs, from records to masked scores | `supergraph`, `history_mask`, `two_processes` | `SuperGraph_proofs` |
| `MetadataCache` | both metadata caches | `caches` | `MetadataCache_proofs` |
| `Orchestrator` | the request handlers, reload, version update | `serve` | `Orchestrator_proofs` |

`MC*` modules give a configuration what a `.cfg` cannot write. The modules stack
where the components do, each using in one step what another opens up:
`Pipeline` runs a phase in a few steps, `Study` opens the tune and train-best
phases by their workers and collectives, `TrainLoop` opens a training session
(`TrainSession` in `Study`), `Shards` opens where its batches come from, and
`Negatives` and `SuperGraph` what is in a batch. `Orchestrator` looks up
metadata in one step because a lookup, as `MetadataCache` shows, returns what is
in the file of its version, or fails if that cannot be read.

### TrainLoop

State: the weights as the sequence of batches trained into them (`model`), the
iterator's position, the prefetcher's deque, `outcome` and a program counter for
the statements of one loop iteration, the two checkpoint directories, and the
metric state of early stopping. Actions are the statements of `_train_fn`:
drawing (folded into the yields of the generator, as Python runs it),
`TrainStep`, `EpochValidation`, `SaveLatest`, `AssertCheckpointsRestore`,
`UpdateBest`, `SaveBest`, `EarlyStop`, `LogMetrics`; around them `Launch`,
`Resume` and `Crash` at any point. Orbax (external) keeps the newest `n` saves
and refuses a step that is not above the newest.

`CheckpointedTraining` says: training extends a lineage of batches; a crash
falls back to a lineage some checkpoint holds, or to nothing. The refinement
mapping takes the models on disk and in memory.

### Study

State: where each worker is, its loop index and parameters, worker 0's list of
suggestions, and the two stores: every Vizier trial (tier, state, client,
metric, the run its metadata names) and the MLflow runs. A collective is one
step of all workers and enabled only when all have arrived (`ShareParams` is the
allgather of `sync_hyperparams`). Everything worker 0 does between collectives
is a step of its own, and `Fail(w)` may come between any two. `RaiseInSession`
is the `finally` block of `run_train_phase`, which ends the MLflow run as if it
had been completed. `Teardown` is the coordination service of JAX ending the
rest of a job that lost a worker. Under GRID_SEARCH and with at most three
`trial_ids` the first call of `suggest` always brings distinct tiers; the
deletion of superfluous trials is modelled but has nothing to delete there.

### Pipeline

State: which driver and where it is in its plan, the kind cluster, the job on
the machines with its phase and step, and the five stores the phases meet in:
Vizier's completed trials, MLflow's runs, the newest step of the `latest` and of
the `best` checkpoint directory, and the files of the results bucket. `Plan` has
the jobs of each driver in order, the dealing of trial ids to jobs included.
`ResetStore` clears a store or, since every exception is passed over, does not.
`CreateCluster` to `SetupKfpBackend` are the steps of `setup_cluster` and of the
Kubeflow backend, with `run_cmd`'s retries; a deployment that is not ready in
time leaves the program in `input()` (`TimesOut`) until somebody presses Enter
(`PressEnter`). `WatchRaises` is every way the poll of a TrainJob is left other
than its completion, with or without the job being deleted. For kfp the jobs are
the tasks of an Argo workflow: from `submit` on the program counter is the
workflow's, and `waiting` says whether the client still waits for it.
`KfpGivesUp` ends the wait and nothing else: the workflow submits what it has
left. The program does not delete its cluster (`CleanupRaises` is the clean-up
that raises before that); the cluster stays until somebody takes it away, with
the workflow in it (`ClusterTakenAway`). The job's actions are the phases of
`main` in `app_runner_inner.py`: what they ask a store for (`Optimal`,
`StartedLast`, `EndedLast`, `RestoreItems`) is translated with its order and
filter, and `JobFails` may come between any two. `ended`, `cleared` and `uses`
are history variables.

### Shards

State: where each process is, who opened the reader that a process or worker
holds, the blocks left in each process's share of a pass, its batch, and a count
of how often each record was trained. `CreateDataloader` is the check on sizes
and the pickling of the data source into the workers, `EnsureReader` and `Fetch`
are a worker's read, `Draw` a block of the share, `Step` the collective.

### Negatives

State: one record on its way through `RatingsHistoryLookupTransform.map` and
`HardNegativeSamplingTransform.sample_candidates`: the stage, the histories read,
the easy negatives drawn, the pool and the candidates with their labels. Every
choice of the random generator is a nondeterministic one, the loops that draw
and that shuffle step by step. What is drawn from is a set, since its order is
lost in a shuffle; the running counts by which the code fills the columns of a
history and masks what was seen are kept.

### SuperGraph

State: the records of each process, their padded graph, the graph the devices
see, the rows of slots the network fills and the rows with masks that training
and evaluation use. A node is told by what it is (which user, which movie, which
type); a score is the set of nodes its node heard of over the layers of
message passing. The arithmetic is left out. Edges are pairs of positions, moved
by the offsets the code moves them by.

### MetadataCache

State: the published map, the exported files, who holds the mutex, per thread
the program counter, the version asked for, the map read and the object found,
and how many files of each version were parsed. `cache` chooses which of the two functions is modelled: they differ
in the second look under the lock, which only the ranker's has. `LoadFails` is
the early return with the guard dropped.

### Orchestrator

State: the atomics with the latest versions, the current searcher as a pair of
catalog and index generations, the persisted index, the versions and batch sizes TensorFlow
Serving has, the versions whose metadata a cache holds, and per request where it
is, its users, its `k`, what it has read and what has come back. A step is what
the handler does between two awaits. Each step begins with the metadata lookup
of the code it stands for (`Fetched`), and has a branch in which that lookup
fails because the file of a version not cached yet cannot be read
(`MetadataFails`); the search and the calls to TensorFlow Serving have theirs.
`update_latest_model_versions` is two stores, one step each; `reload_embeddings`
opens a searcher in one and swaps it in another.

## Runs

Passing runs:

| Run | Instance | Shows |
|---|---|---|
| `train` | 7 batches, epochs of 2, buffer 2, 2 latest and 1 best checkpoint, up to 3 sessions, metrics {0, 1} | over crash, relaunch and resume at any point: no batch twice in one lineage; at most `BufferSize - 1` batches lost per resume; latest checkpoints of successive epochs, the best never ahead of them; after a crash at most an epoch of work is lost; what is returned is on disk; sessions end; refinement |
| `tune` | nine one-batch epochs, no checkpoints | early stopping fires exactly when the patience is spent; the returned metric is the best seen |
| `study` | 2 workers, 2 trials, 3 tiers, up to 3 launches of either phase | workers in a session hold the same parameters; completed trials name a finished run with the same metric; no trial trained twice; one parent run per phase; train-best uses an optimal trial; a clean launch accounts for all its trials; launches end |
| `pipeline` | 2 pipelines of each of four drivers over the same stores; 3 tiers, 2 epochs, 3 retries; 2 to 4 trials | a phase starts only after the ones before it ended; every trial id is tuned once; the exported, trained and tested winner and run are the same; results of different kinds stay apart; what was reset is fresh; never two jobs at a time, also when a Kubeflow workflow goes on without its client; no client waits for ever, and a pipeline whose tune jobs can end ends or has paused for Enter |
| `shards` | 2 processes with 2 readers each, batches of 2, data sets of 1 to 9 records, 2 shuffled passes or one in order | no record twice in a pass; a pass trains all that the sampler keeps; full batches; the loop's epochs are passes where the shares are even; nobody reads with another process's reader; with even shares everyone gets to the end |
| `negatives` | one user with up to six ratings in two files, 8 movies, 4 recommended, 5 candidates, both strategies | the history is the recent past; candidates are distinct; the label follows the positive; of what was watched only the disliked is a negative; unseen recommendations come before easy negatives; the pool fills; drawing ends |
| `supergraph` | every batch of 3 records with 0 to 2 movies of history and 2 candidates, 2 devices, 2 layers | the graph has room; edges stay in their graph; a score hears its own user's history and nobody else's; rows are graphs; the softmax is over something; every user is evaluated |
| `caches` | 2 threads, 3 lookups each, 3 versions, both caches | mutual exclusion; the ranker's cache loads each version at most once, the query cache at most once per thread; no insertion is lost; entries are stable; lookups return, also after a failed load |
| `serve` | a request of each kind for 1 to 3 users, versions of other batch sizes and numbers of candidates, a reload | one answer per user; a request fails by itself only for a cause that can be named: a batch size that shrank, a number of candidates that changed, or metadata of a version it has not met (chunks fit the arrays built for them, no slice is out of range, what was cached stays); requests end |

Violation runs, each the counterexample of a finding in `PROJECT.json`:

| Run | Finding |
|---|---|
| `history_mask` | the history nodes of a super graph are compacted and cut into rows of `max_history`; after one shorter history a candidate is masked because of another user's history (`train.py` 167) |
| `two_processes` | with several processes the arrays are put behind one another but the edges still count from each process's own first node (`train.py` 573) |
| `stale_bucket` | the boot command that says it cleans old checkpoints removes a path that is not the mounted one; the next pipeline's saves are refused at the steps still there and its test phase tests the older model (`deploy/k8s/dbs.yaml` 104) |

Five more things the models show and no run carries; all are in the hazards.
One contradicts a comment: `orchestrator.rs` 313-314 says that a request that is
executing when a searcher is swapped in "keeps using the old index until it
finishes", but a request loads the searcher for the neighbour search and again
for the graph (746, 377), and one across the swap uses both. No property here
says that it keeps one: `FailuresExplained` says that the mixture makes no
request panic. The other four contradict nothing the program says of itself: a
resumed session forgets the best metric (`train.py` 688) and averages its first
epoch over fewer batches (702); a searcher reloaded with new embeddings restores
the persisted index of the old ones (`embeddings_ann.rs` 54); with more
`trial_ids` than values of `hpo_tier` `run_tune` asks Vizier for ever
(`app_runner_inner.py` 455), and the Kubeflow client that gives up then leaves
the job asking; and the Kubeflow program never deletes its cluster, since its
`finally` calls a pipeline component with a positional argument
(`run_app_trainer_kfp.py` 408).

Bounds, and why they are enough. In `TrainLoop` the interesting positions of a
crash are relative to an epoch and to the deque; three epochs and a tail, a
deque of two and two restarts reach every combination of them, a checkpoint
being rotated out included. In `Study` two workers are the chief and one other
(all others run the same code and hold no store state); two trials have a first
and a last; three launches allow a failure, a retry and the use of what both
left, and more launches than tiers make the grid wrap around. In
`MetadataCache` two threads race for the lock, and a third version is inserted
after a lost race. In `Orchestrator` a request writes nothing that another request
reads but the metadata caches, where what one inserts can only spare another a
failure, so one request suffices; three users in batches of up to two give full
and short chunks. In `Pipeline` the second pipeline finds what the first left
in every store, however far that one came; trial ids are dealt in chunks that
divide, that must be cut, and that are more than the tiers. In `Shards` the
sizes are below one block, below one per process, with and without a tail, with
an even and an odd number of blocks. In `Negatives` the ratings are before, at
and after the record's time, out of order, tied and in both files, for users
with enough and with too few movies left. In `SuperGraph` three records have a
first, a middle and a last, and fill neither the granule nor the devices evenly;
what `SuperGraphFits` needs of the arithmetic is proved for every size. Metrics of two values tell better from worse and equal. Every
bound is a constant of its module. Deadlock checking is off where the bounded
number of sessions, launches or lookups makes the system stop.

Fairness. `TrainLoop`: a live process executes its next statement (weak
fairness of the process's steps; `Launch`, `Resume` and `Crash` have none).
`Study`: weak fairness of the workers' steps, a collective included once all
are there, and of `Teardown`, since the coordination service of JAX has
heartbeats; failures have none. `caches`: weak fairness per thread, the mutex
included, because between the acquisition and the release nothing waits.
`Shards`: weak
fairness of each process and of a step for which all processes have a batch.
`Negatives`: weak fairness of the next step, a draw of an easy negative being an
acceptable one sooner or later; a user who has watched everything has no such
movie, and the property excludes that. `Pipeline`: weak fairness of the driver's
steps (a command returns or raises, a poll is answered), of a job's next
statement, of a job that can only raise, and of the client's clock; none of
starting a pipeline, none of a failure, none of pressing Enter and none of
deleting a cluster. So `PipelineEnds` does not say that every pipeline ends: one
whose set-up timed out waits for Enter, and one with a tune job of more trials
than tiers goes on for ever, while its client leaves. `serve`: weak fairness per request. It assumes that TensorFlow Serving answers
every call: `model_client.rs` sets a connect timeout and no request timeout, so
a call that is never answered does keep its request open.

## Proofs

`TrainLoop_proofs`, for every length of stream, epoch and buffer, and any number
of sessions:

- `TypeCorrect`, `NeverTrainedTwice`, `LossIsBounded`, `CheckpointsStayInStep`,
  `TrainLoopRefines` (the refinement of `CheckpointedTraining`).
- They rest on `InductiveInvariant`. That a batch is not trained twice is not
  inductive: one must know where the next batch comes from. The strengthening
  says that the deque holds exactly the batches between the last one yielded and
  the iterator, that the lineage in memory is increasing and behind them, that
  every checkpoint satisfies the same with respect to the iterator stored in it,
  and that epochs of checkpoints follow each other up to the one being written.
- `WorkAtRiskIsAnEpoch` (`WorkAtRisk`), from `WorkInv`: the body of the loop is
  left for the end of an epoch only at the epoch's last batch, so the steps of
  all checkpoints kept are such batches, and the newest is an epoch behind at most.
- `StopsExactlyWhenSpent` (`EarlyStopExactlyWhenSpent`), from `JudgeInv`: `best`
  is the greatest of the metrics judged, and exactly the last `stale` of them
  failed to beat what came before.
- `BestIsKept` (`BestOnDiskIsReturned`), from `BestInv`: in a first session the
  newest best checkpoint has the best score so far, except between the verdict
  and the save, and its epoch is never ahead of the epoch trained.
- Assumption: `TrainAssumption` on the constants (lengths are naturals, the
  positive ones positive).

`MetadataCache_proofs`, for any number of threads, versions and lookups:

- `MutualExclusion`, `ReadsAreBounded` (`ParsedAtMostOnce` for the ranker's
  cache, `ParsedOncePerThread` for the query cache) and `EntriesAreKept`.
- They rest on `CacheInvariant`: a thread past the acquisition holds the lock; a
  map read under the lock is still the published one when it is swapped; and a
  version that was parsed is in the published map or about to be put there by
  the holder. The last part needs the second look, which is why only the
  ranker's cache has `ParsedAtMostOnce`.
- `ParsedOncePerThread` needs more than what a state shows: that there is a set
  of threads, one for each file of a version that was parsed, none of which can
  miss the version again. A thread that parses joins it, since it looked the
  version up before and could not have been in it.
- Assumption: `CacheAssumption` (the threads are finitely many).

`SuperGraph_proofs`, for any number of processes, every batch size, history
length, number of candidates, layers, granule and devices, and every set of
records:

- `SuperGraphAlwaysFits`, `EdgesAlwaysStayHome`, and `GraphsPerDevice` (the
  number of graphs divides among the local devices). They rest on
  `BatchesInvariant`: while a batch is built its nodes and edges are at most as
  many as a full star per graph added, and every edge is within the graph it was
  added with. Neither property is inductive without it: that the last graph fits
  needs the sizes of all before, that an edge stays home needs the offset it was
  moved by.
- `RowsAlwaysGraphs` (`RowsAreGraphs`) and `EveryUserAlwaysCounts`
  (`EveryUserCounts`). They rest on `GraphsInvariant`, whose new part `LaidInv`
  says where the nodes are: the users of a batch, and its candidates, stand graph
  by graph, a fixed number of each, every graph has one positive and all the
  edges of its star, and the first node of all is a user. What is at a position
  is said through a function that lists the nodes of a type in order (`Ranked`).
  Such a list survives another star and the padding (`RankedMore`, `RankedSame`),
  can be put behind those of other processes (`OrderedAcross`), and is what
  compaction by type computes (`CompactedIs`, by counting the nodes up to each).
  So row r is the graph of user r, and a row that no user has consists of the
  first node of all, which is no candidate.
- `CandidatesHearTheirHistory` (`HearsItsHistory`), with the hypothesis of one
  process and at least two layers, from `HeardInv`: what a node has heard of
  after each number of layers. `app_runner_inner.py` 249 offers two or
  three layers; with two processes the property does not hold (the run
  `two_processes`).
- Assumption: `SuperGraphAssumption` (sizes are positive, and records are what
  the sampler of negatives hands on).

`Shards_proofs`, for every number of processes, workers and passes, every batch
size and every size of the data set:

- `NobodyBorrowsAReader` (`OwnReader`), `PassesAlwaysPartition`
  (`PassesPartition`) and `EpochsAreAlwaysPasses` (`EpochsArePasses`).
- They rest on `ShardInvariant`. A count of how often each record was trained is
  tied to where every process is: a record is through a pass exactly if it is of
  the share of a process, in no block that process has left, and not in the batch
  it holds. The rest is arithmetic: shares and blocks are disjoint intervals, and
  together they cover what the sampler keeps; and a step takes one batch of every
  process, so that steps and draws can be counted against each other.
- Assumption: `ShardAssumption` (the numbers are naturals, the positive ones
  positive).

`Study_proofs`, for any number of workers, trials, tiers, metrics and launches:

- `SameParametersAlways` (`SameParameters`), `NoSecondParentRun`
  (`OneParentRun`), `BestIsAlwaysTrained` (`BestIsTrained`), `StoresAgree`
  (`MetricOfItsRun`), `NothingIsDoneTwice` (`NothingTwice`) and
  `EveryTrialAccountedFor` (`TuneAccounts`).
- The first three rest on `StudyInvariant`: what worker 0 holds at each place of the code
  (its suggestion of this turn, or an optimal trial in train-best); the run in
  progress is of the trial that worker 0 trains; a parent run is started only
  where there is none; and a worker that waits or trains together with worker 0
  holds what worker 0 holds.
- The other three also need `AccountInvariant`. One round creates all trials of
  a launch at the end of the study and their tiers follow the grid, so they are
  distinct when there are as many tiers as trials (with fewer the loop of
  `run_tune` does not end), and none of them is dropped. Worker 0's turn tells
  the state of each of them, which of them the run in progress is of, and that no
  earlier run is of the same; and each of the three steps that record a result
  finds the one before it done.
- What `Sorted` leaves of the suggestions is a recursion over the trials given:
  keep the first of each tier, drop the others. `SortedSteps` states its two
  ends without induction: it rests on `LeastOf` (a set of naturals has a least
  element), `HandedOn` (what no step destroys arrives) and `StepsMakeFunction` (a
  function is determined by its steps).
- Assumption: `StudyAssumption`.

`Pipeline_proofs`, for each driver, any number of pipelines, trials, tiers,
epochs and retries, and a failure after any step:

- `PhasesBehindAlwaysDone` (`PhasesBehindAreDone`), one half of which is
  `PhasesAlwaysInOrder`, and `NeverTwoJobs`
  (`OneJobAtATime`), `AlwaysOneWinner` (`OneWinnerThroughout`),
  `ResultsAlwaysApart` (`ResultsKeptApart`) and `FreshAlwaysFresh`
  (`FreshStoresFreshResults`).
- They rest on `PipelineInvariant`, in five parts. A job needs its cluster, the
  program or workflow that watches a job watches its own, and `ended` is its
  place in the plan (`OneJobInv`). That is also why `NeverTwoJobs` holds of a
  workflow without a client: it submits only where the job before is gone, and
  its cluster, which nobody but a stranger deletes, keeps the next pipeline from
  being set up. Ends of runs are counted, so the run that ended last is
  strictly the last, and run ids are not given twice (`RunsInv`). A file of
  results names a run of its kind, or one whose record was deleted
  (`ResultsInv`). What the phases picked so far is told by the phase and step the
  job is at: a plan is tune jobs and then a beginning of one list of phases, so
  the trial picked for the export is still the optimal one when training starts
  (`UsesInv`). A cleared store holds nothing older (`FreshInv`).
- That every trial id is tuned once, the other half of `PhasesBehindAreDone`,
  rests on `DealtInv`: the trials done are those of the parcels of the tune jobs
  behind in the plan, and within a job the ids done are the first of its parcel.
  `PlanParcels` is the arithmetic: the parcels of a plan are intervals that
  follow each other and together are `0 .. numTrials - 1`.
- Assumption: `PipelineAssumption`, and for `PhasesBehindAlwaysDone` the
  hypothesis `WholeChunks`: the chunks of the xmanager launcher, which it does
  not cut at the number of trials (`launcher_pipeline.py` 264), divide that
  number. They do with the launcher's own constants (4 and 2, lines 143-144);
  kind cuts its chunks, the other two deal all trials to one job, and none of
  the three needs a hypothesis.

`Orchestrator_proofs`, for any number of users, versions, batch sizes and
embeddings:

- `OneAnswerPerUser` (`AnswerPerUser`), `MetadataAlwaysKept` (`MetadataKept`) and
  `FailuresAlwaysExplained` (`FailuresExplained`).
- They rest on `InductiveInvariant`: where a request is in its chunks, and that
  the answers so far are those of the users of the chunks behind it, one per user
  and in their order (`ChunkInv`, `ChunkPerUser`); and that every searcher
  that was opened restored the one persisted index, which is no newer than any
  catalog beside it (`SearcherInv`). `MetadataKept` needs `KnownInv` besides:
  every version a request has met is cached, and a cache loses nothing, so a
  lookup can fail only at one it has not met.
- Assumption: `OrchestratorAssumption`, and for `FailuresAlwaysExplained` the
  hypothesis `CatalogNeverShrinks`: `embeddings_ann.rs` 54 restores a persisted
  index beside newer embeddings, and an index that names more movies than the
  newer catalog has would make a lookup fail.

`Negatives_proofs`, for every catalog, row of recommendations, length of history
and number of candidates, every pair of files and both strategies:

- `RowAlwaysSound` (`RowIsSound`), `HistoryAlwaysRecent` (`HistoryIsRecentPast`)
  and `HardNegativesAlwaysFirst` (`HardNegativesFirst`).
- They rest on `SampleInvariant`: the two lookups returned what was rated before
  the record (`PastKnown`); easy negatives are nothing that was rated before and
  not the record's movie (`EasyUnrated`); the pool has no repetition, is full
  when the row is assembled (`PoolChosen`), and holds after each source what that
  source's quota says of what there was (`QuotasKept`); and both rows are moved
  alike (`RowAssembled`). What a source took cannot be told from the finished
  row, so the quotas are not inductive without the stages in between.
- That the columns of a history are the end of the past backwards is
  `BeforeIs`: the places that count are listed in order (`SetListed`, by ranks,
  without induction), and the code's running counts are positions in that list.
  `ByTimeSorts` and `FirstUnseenIs` are of the same kind. `QuotasFit` is that the
  three rounded quotas never exceed the places, for every number of negatives.
- Assumption: `NegativesAssumption`. The code does not check what it says of the
  data: a user rates a movie once, in one of the files; a record's rating has the
  record's time; recommendations do not repeat a movie. A movie rated twice could
  be liked and disliked, and be trained as a negative of a user who likes it.

The type invariants of the modules proved about are proved with them
(`TypeCorrect`, `CacheTypeCorrect`, `ShardsTypeCorrect`, `StudyTypeCorrect`,
`PipelineTypeCorrect`), so that no run spends a property on them.

Only model-checked: all liveness (the prover has no rule for fairness or
`ENABLED` here), `SamplingEnds` of `Negatives` included. Every invariant and
action property of a passing run is proved for all values of the constants that
the assumptions and the hypotheses named above allow.
The library's induction theorems take an operator as parameter, which no
installed prover can instantiate; where a proof needs an induction over a
number it takes the least counterexample instead. No module proved about
declares a `RECURSIVE` operator.

## Not modelled

- Floating point numerics: network weights, losses, metrics, plots, the
  statistics of `bayesian.rs`. TLC has no reals, and there is no state.
- Manifests, Docker options, flags, addresses and the format of files, except
  the one boot command that decides what survives a cluster.
- The preparation of an air-gapped machine and the transfer of images into the
  kind cluster: run by hand, and what fails there fails at the next command.
- The lifecycle of the inference server (`main.rs`, `app_runner.rs`): a straight
  line around the shutdown of tonic.
- Read-only lookups and conversions of the server: `user_history.rs`,
  `user_db.rs`, `movie_db.rs`, the tensors of `model_client.rs`, the padding of
  `graph_builder.rs`. They share no state that changes; the trainer's
  counterparts of the history and of the padding are modelled from its own code.
- Of `Orchestrator`: `rank_only_return_all`, `_predict_for_analysis` and the
  search for a single user's neighbours outside a request, which repeat the
  modelled handlers without a new shared access; users the store does not know.
- Of `Study` and `Pipeline`: two pipelines at the same time, and phase
  `train-given`. Addresses and names are fixed, so that two at once are not meant
  to be; a program begun while a Kubeflow workflow goes on without its client
  finds the cluster there, is refused and, if it is the kind one, deletes it
  (`ClusterTakenAway`). Nor pipelines of kind and kfp in turn over the stores
  they share (they read one `train_job.yaml`): a behaviour has one driver.
- Export to a SavedModel: a sequential batch job whose hand-over (version
  directory before metadata file) is the external part of `MetadataCache`.
- The TensorFlow C++ op under `tf_c++_op_src`, which is not part of the running
  system.

## Plan

What would be worth adding, in order: the tensors and unknown users of a
request composed with `Orchestrator`'s chunks; an abstract specification of a
request (asked, then answered once or refused) and its refinement; and the
lookups of `user_history.rs` and the backfill of watched movies
(`orchestrator.rs` 945) against a reference definition.
