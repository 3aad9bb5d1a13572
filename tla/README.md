# A TLA+ model of the fraud detection platform

This directory holds TLA+ modules, TLC configurations and TLAPS proofs for the
Real-Time Financial Fraud Detection & Risk Scoring Platform: a Python system
that trains fraud models on a historical data set, deploys the best one as
pickled files, serves it from FastAPI workers, and moves transactions through
Kafka and features through Redis. Paths below are relative to the repository
root.

## 1. The system

| Component | State | Operations | What makes it correct | Module |
|---|---|---|---|---|
| Data set validation (`src/data/`) | the report | twelve checks, `fail_fast` or not | the report says of the file what is the case | DatasetValidator |
| Training job: data (`training/run_experiments.py`, `src/models/temporal_split.py`, `src/features/pipeline.py`) | frame, split, fitted maps, features | load, split, fit, generate, mask | no row in two parts, no look-ahead, features stay with labels | TrainingData |
| Training job: selection (same file, `src/calibration/`, `src/scoring/decision_engine.py`) | results, calibrator, best pair | four experiments, selection, two fits, grid search | the first best pair, of the better method | ModelSelection, CostModel |
| Training job: saves (same file, `src/models/artifact_bundle.py`) | `production_*` files | six saves in a fixed order | whatever is on disk when it stops is usable | Artifacts, TrainingJob |
| Retraining operations (`src/retraining/pipeline.py`) | backup file, decision | `should_retrain`, gates, backup, rollback | only a candidate that shows something passes; a rollback leaves a whole file | PromotionGates, TrainingJob |
| Drift detection (`src/drift/detector.py`) | readings, report | `full_drift_check` | the report hides no feature that was compared | PromotionGates |
| API workers: model (`src/api/app.py`) | `ModelState`, gauge | start, load, reload | components belong together, readiness is true, reloads converge | FraudApi, ModelServing |
| API workers: requests (same file, `src/security/auth.py`, `src/monitoring/`) | counters, audit records | predict, batch, reload, ready | counters agree with the answers given, batches are in order | PredictionService |
| Scoring (`src/scoring/`) | - | score, level, decide | order of the probabilities is kept | RiskScoring |
| Features of a request (`src/features/`) | fitted maps | `generate_online_features`, alignment | the same as in training | OnlineFeatures, FeatureRegistry |
| Replay service, Kafka producer (`replay/`, `src/streaming/`) | loop position, client queue | send, dead letter, flush | order, no silent loss, termination | TransactionReplay |
| Kafka consumer (`src/streaming/`) | position, group offset | connect, consume, stop, close | at least once | TransactionConsumer |
| Feature store (`src/feature_store/store.py`) | Redis keys with TTL, or a dict | increment, expire, update | counters count their window | FeatureStore |
| Topic manager, explainability, scripts, deployment | - | - | - | not modelled (section 6) |

How they meet: the job reads the data set, writes files, and the workers read
the same files with no lock, no atomic rename and no version check, at start-up
and on `POST /admin/reload-model`, which reaches one worker. `/predict` builds
the features of one transaction, scores it, counts it and hands a record of it to
the audit logger. The replay service feeds Kafka through a client with a background
thread; the consumer reads topics with automatic commits. `/predict` handlers are
`async def` without a suspension point, so on one worker requests and loads
exclude each other, and only a crash falls between two of their steps.

What is hard: in-place writes racing multi-file loads, crashes between writes,
loads that fail half way, batch items that fail between others, counters that
die with the process while its clients keep their answers, timeouts on sends that
still succeed later, batches sent again because their answer was lost, positions
that move before the handler has run; and in the sequential parts rows that shift against their labels, rates over
no row, ties, and float products that fall below an integer. `PROJECT.json`
lists each hazard at its line with the properties about it.

## 2. Modules

```
Artifacts -- TrainingJob --+-- ModelServing -- MCModelServing,       ModelServing_proofs
    \------- FraudApi -----+       \-- ReleaseService (abstract, INSTANCE)
RiskScoring -- PredictionService ---- MCPredictionService,  PredictionService_proofs
DatasetValidator -- TrainingData ---- MCTrainingData,       TrainingData_proofs
CostModel -- ModelSelection --+
    \------- PromotionGates --+-- RetrainingCycle -- MCRetrainingCycle, RetrainingCycle_proofs
FeatureRegistry -- OnlineFeatures --- MCOnlineFeatures,     OnlineFeatures_proofs
TransactionReplay ------------------- MCTransactionReplay,  TransactionReplay_proofs
TransactionConsumer ----------------- MCTransactionConsumer, TransactionConsumer_proofs
FeatureStore ------------------------ MCFeatureStore,       FeatureStore_proofs
```

**Artifacts** - the files in `artifacts/models`. A file's content is the
training run it comes from, `Absent`, or `Torn`: opened for writing and not
(yet) completely rewritten. `best` records which experiment won in a run, which
decides feature set, column order and whether the model is a `Pipeline`.

**TrainingJob** - the writing process. `OpenFile`/`CloseFile` are the two halves
of every `save_artifact`, `ProductionArtifactBundle.save`, `save_json` and
`shutil.copy2`, in the order of `run_experiments.py`; `AbortJob` is an exception
or a kill between any two steps, which leaves torn files. Training, backup and
rollback run one at a time. `released` is a history variable, the last run whose
bundle was completely written; the refinement needs it while the bundle is torn.

**FraudApi** - the workers. `ModelState` has the fields of the Python class;
0 stands for a missing component. `load()` is one action per file, because the
files change between two reads: `LoadBundle`, or `LoadModelFile`,
`LoadCalibratorFile`, `LoadScalerFile`, `LoadManifest`, each replacing its own
component, with `LoadFails` for the `except` branch, which keeps what has been
assigned. A manifest gives the name of an experiment for a version, which does
not tell one run from another (`NameOnly`). `Predict` keeps the provenance of an
answer: the run of each component, the column layout, whether the scaler was
applied, and the `model_version` that is answered.

**ReleaseService** - the abstract promise: a worker serves one whole release or
nothing, adopts only the newest, and `newest` only grows. **ModelServing**
composes TrainingJob and FraudApi and holds the refinement mapping.

**PredictionService** - what one worker does with requests. `Accept`/`Refuse`
are `verify_api_key` and the readiness check; a request then goes through
`Score_`, `Meter` (`record_prediction`) and `Audit` (`log_prediction`, and the
response), item by item for a batch; `ScoringFails` is the exception handler of
`/predict`, of which `/predict/batch` makes a `REVIEW` response; `Crash` can fall
between any two steps and takes the counters along. Audit records go through
`Emit`: they are of level INFO, the logger `fraud.audit` has no level of its own
and no module that the API imports configures logging, so the level of the root
logger (`RootLevel`, 30 for WARNING as delivered) drops them and `trail` stays
empty. History variables: `answered`, what clients were told, and `since`, how
much of it before the present process.

**RiskScoring** - `RiskScorer` and `DecisionEngine`. A probability is its place
among the boundaries of the scores (a half point: on a boundary, or between
two); `Lost` are the scores whose boundary a float product misses by one ulp and
truncation puts one lower. `BatchScore` takes the root before it clips.

**DatasetValidator** - `validate_dataset`, one action per check, `_pass` and
`_fail` with `fail_fast`, the early returns, and the crashes of a check that
needs what an earlier one found missing. **TrainingData** - the data path of the
job: `Check`, `Load` (sorted, ties in any order), `SplitByTime`,
`FitCategoricalMaps`, `GenerateFeatures` with history (frames are put together,
sorted, computed and cut), `SubSplits` (the masks over the validation part). A
feature row records which rows its values come from.

**CostModel** - `compute_cost`, `compute_fraud_metrics` and the Brier score, on
integers. **ModelSelection** - the experiments, of which three may fail, the
selection, both fits, the active method and the grid search, one pair a step.
**PromotionGates** - `full_drift_check` (with `check_drift`), `should_retrain` and
`ModelPromotionValidator.evaluate`, each a call of its own: nothing under `src/`
calls one with the answer of another, so that there is drift, leakage or a
calibrator is an argument that takes both values, and `evaluate` runs under every
choice of the optional gates (`require_*`). **RetrainingCycle** - a process runs
the selection or makes one of these calls: no code under `src/` chains them.

**FeatureRegistry**, **OnlineFeatures** - the registry of definitions and the two
implementations of each feature: columns of a frame with pandas (`pd.cut`,
`np.where`), and the dict of a request (`np.searchsorted`, `if`), aligned to the
model's features with `features.get(f, 0)`. Both are written in groups of
features, which `Combined` puts beside each other as `pd.concat` does. A row is
`[own, velocity]`: the features of the transaction alone by name, and the
velocities by entity type and statistic, five statistics for each of six types as
the generator makes them; the registry lists its own choice of those pairs.

**TransactionReplay** - `ReplayService.run` and `KafkaProducer.send` against a
model of kafka-python's sender thread and a broker (external, modelled from
`acks="all"`, `retries`, `max_in_flight_requests_per_connection=1`, idempotence
off). `Publish` queues a record; `Acknowledged`, `SendFails` (given up, or ten
seconds passed) and `SendRefused` lead to the next row; `DeadLetter` queues the
dead letter that nobody waits for. The queue of a partition holds batches: after a
timeout the next records of the partition may join the one that still waits, as
long as it was not sent (`Enqueue`). The sender thread sends, retries and gives up
whole batches: `Deliver`, `LoseRequest`, `LoseAnswer`, which appends the batch and
queues it again, so a log may read 1, 3, 1, 3, and `Expire`.

**TransactionConsumer** - `KafkaConsumer`: `Connect`, `Consume`, `Yield`,
`HandlerReturns`, `HandlerRaises`, `Interrupt`, `Close`, `Stop` from another
thread, and `Crash` at any point. `Poll` and `AutoCommit` stand for kafka-python.
Which records do not parse (`poison`) is chosen at the start, `max_messages` at
each call of `consume`. History variable: `past`, the records handed out whose
handler ended or that a stop or an interrupt cut off.

**FeatureStore** - `OnlineFeatureStore` in several processes against one Redis.
`Incr` and `Expire` for each counter and `SetLast` are the commands of
`update_from_transaction`, each of which may fail or, with `retry_on_timeout`, be
carried out twice; `Tick` is time. History variables: `counted` (transactions in
a counter's present value), `left` (what remains of each transaction's window)
and `sure` (increment and expiry set in one unit of time).

Operators named `<definition>_<Change>` beside a definition are mutated forms of
it, what the code would be with a plausible bug; no specification uses them. They
show that each property notices the bug it is there for.

## 3. Runs

| Run | Bounds | What it shows |
|---|---|---|
| ModelServing | 2 training runs, 1 worker, LR and XGBoost | a worker ready from a bundle holds one release; an answer names the version that scored it; readiness and gauge agree; no step back to an older release; loads end; reloads converge; refinement of ReleaseService |
| PredictionService | 2 transactions, batches up to 2, 2 requests, 1 crash, 4 probabilities at the band boundaries, 2 keys | counters equal the scored answers since the process started, by decision, but for the one in flight; batches are answered in order and in full; of two answers the higher probability has no lower score and no milder band |
| TrainingData | 4 rows at 8 times in, between and at the borders of the parts, 2 entities; 2 x 1928 files | the report is exact; parts follow each other in time; features stay with their rows through history, cut and masks; velocities look back only |
| RetrainingCycle | 2 rows, grid of 9 pairs of which 3 are invalid, 2 features with readings at and beside each threshold | the search ends with the first best valid pair, of the method with the lower Brier score; an approved candidate was evaluated on both classes, caught fraud and met the requirements switched on; the drift report hides no feature that was compared |
| OnlineFeatures | transactions at and beside every edge, every clock boundary, set of foreign countries and proxy value; histories of up to two | without history, both implementations give the same features, and they are the registry's; what the registry has over a history is a column |
| TransactionReplay | 3 transactions, 2 partitions, 1 retry | no transaction overtakes an older one of its partition, in the order of first appearances; copies are at most the tries; what is not published was logged; the replay ends |
| TransactionConsumer | 2 partitions x 3 records, all fine or one unparsable, `max_messages` None or 2 | committed records were handed out; offsets never go back; a consumer left running gets through the topic, failing handlers included |
| FeatureStore | 2 processes, 2 counters with windows of 1 and 2, 2 transactions, 2 tries | a transaction is counted for its whole window; no update is lost and retries overcount boundedly; without failures every counter gets an expiry and the entity is forgotten |
| ServesWhatWasTrained | as ModelServing | violated: boosted trees are served behind a scaler they were not trained with |
| RollbackTakesEffect | as ModelServing | violated: rollback leaves the bundle, which is what is loaded |
| NoSkew | as OnlineFeatures | violated: velocity features are zero in every request |
| EveryScoreAudited | as PredictionService | violated: no scored answer has an audit record as delivered |

Why the bounds are enough. Two training runs are what it takes to mix old and
new; workers share no state but files that they do not write, so a second worker
adds nothing (the theorems hold for any number). In PredictionService two items
let one fail before or after another was recorded, two requests put a reload or a
crash between answers, and the probabilities lie on both sides of a boundary of
levels, of decisions, and on one that truncation moves; `MaxRequests` and
`MaxCrashes` bound the exploration only. In TrainingData four rows
allow two of one part, a tie in time and a gap; a file property that no check
distinguishes has one value. In RetrainingCycle two rows give a sample with no,
one or only fraud; the grid has ties and invalid pairs; readings lie at and beside
each threshold. In OnlineFeatures two earlier transactions are the fewest that
have a deviation, one the fewest that has a mean. Three transactions on
alternating partitions give two records of one partition, which may share a
batch, and one beside them; one retry gives the first try, the retry and the
giving up (the code has three). Three records per partition allow polls that stop between them, and more records
than `max_messages`. Two
updates are what it takes to renew an expiry or to overlap on a counter; a window
of two units tells its middle from its end.

Deadlock is checked for ModelServing, PredictionService, the consumer and the
feature store; the replay, the job, the search and the features end, so their
configurations switch the check off.

Fairness. ModelServing assumes only that a worker inside `load()` goes on:
`load()` runs on the worker's own thread and waits for nobody. Nothing is
assumed of the operator, the clients or the training job; `Converges` says in its
antecedent that the worker is reloaded again and again. TransactionReplay assumes
that the loop and the sender thread keep running, not that a request succeeds.
TransactionConsumer assumes that the loop runs, that a handler ends and that the
auto-commit timer fires. FeatureStore assumes that time passes and that an update
that has begun goes on while its process lives; `Forgets` says in its antecedent
that nothing fails. The others state safety only.

## 4. Proofs

Every `*_proofs` module rests on the named assumptions on the constants only, and
holds for all their values. `IInv` is the inductive invariant where there is one.

* **ModelServing_proofs** - `TypeCorrect`, `OneRelease`, `AnswerVersion`,
  `Readiness`, `Forward`, `Refinement`. A worker may become ready
  again by a failed load followed by a fallback or a "no model" return, so
  `WorkerInv` says that a state from a bundle is one release whether or not it
  is ready, `DiskInv` that a bundle never disappears, `AnswerInv` carries the
  fact into the answers. `BundleStep` (a step into a bundle adopts the newest
  release) gives `Forward` and the refinement: a job's step is `Publish` or
  stutters, a worker's is `Adopt`, `Withdraw` or stutters.
* **PredictionService_proofs** - `TypeCorrect`, `CountersAgree`, `InOrder`,
  `MonotoneAnswers`. `JobInv` says what is known of a request at each of its
  steps: between `Score_` and `Audit` exactly one result of the engine is in hand;
  `AllHonest` that every scored response holds what `Decide` gives. The counters
  are compared with three sets: the responses told since the process started
  (`Told`), those of the batch being handled (`InHand`), and the one that was
  counted and is not yet a response (`Ahead`). The work is in their cardinalities:
  a response moves from the last to the second, and at the end of a request all of
  the second move to the first. None of it depends on `RootLevel`.
  The module starts with the scores: `ScoreMonotone`, `BandsMonotone`,
  `BatchAgrees`. Truncation takes at most one from a score, and only on the
  boundary itself, so the order of all half points survives, whichever
  boundaries are lost.
* **TransactionReplay_proofs** - `TypeCorrect`, `Chronological`,
  `AtMostEveryTry`, `NothingLostSilently`. `Ordered` relates a partition's queue
  to its log: the batches ascend, inside and among themselves; each is newer than
  the whole log, but for a first one that is being tried again and is in the log
  already; the copies of a record in the log are at most the tries its batch has
  had. A batch that is newer, or all there, keeps the order of first appearances
  (`InOrderGrows`) and adds at most one copy of each of its records
  (`CopiesGrow`); a record that joins a batch is newer than all queued and
  appended. `PlaceInv` and `OutcomeInv` tie records to futures: what is done is in
  the log of its partition, what run() has left behind is done or was logged.
* **TrainingData_proofs** - `TypeCorrect`, `ReportExact`, `PartsApart`,
  `Aligned`, `LooksBack`. `RunningInv` says that while the call runs, the report
  is about the checks before the next one, and that with `fail_fast` nothing has
  failed; one lemma for each way a check goes on, raises, returns or crashes.
  `PartsApart` then follows from the order of the dates and the sorted frame.
  `TablesInv` says what every table of features is, row for row (`Table`), and
  `JobInv` that it is so at each stage. A frame is the ascending list of its
  rows, which exists and is the only one (`AscendingExists`, `AscendingUnique`).
  History before a part that starts after it ascends again (`ConcatFacts`), so
  nothing is sorted anew, what is above a row is what is earlier
  (`VelocityFacts`), and cutting off as many rows as the history has leaves the
  part (`AllFacts`). The rows of a mask are an ascending list of an ascending
  list (`MaskFacts`), and so the frame of the sub-split.
* **RetrainingCycle_proofs** - `TypeCorrect`, `Optimum`, `Guarded`,
  `DriftReported`. `SearchInv`
  says that the best pair so far is valid and cheapest among those before the
  next one, and cheaper than every one before it; the invariants of the stages
  before carry which model and which method the search is made for. That
  the cost of a pair and the Brier score are integers is not by computation but
  by least counterexample: of the sets of rows over which a sum has no integer
  value there is none of the least size. `ReportInv` and
  `EvaluatedInv` keep each answer with what it was asked for: with no fraud caught
  recall is `AtLeast(0, missed, MinRecall)`, which is false for any number of
  missed, and of rows of one class the PR-AUC is zero, which is below its minimum. The severities of a report
  are those of single statistics (`ResultsFacts`), and each is what its two
  thresholds make of it (`SeverityFacts`).
* **OnlineFeatures_proofs** - `BucketsAgree`, `SameFeatures`, `SixUndefined`,
  `VelocitiesAreZero`. The edges on the left of a value are the first ones, and
  their number is the one interval that has the value, or zero when none has it.
  The groups of features share no name, so each feature is that of its group in
  both implementations, and the groups are compared one by one: a ratio that is
  not negative is not clipped at zero, a chain of `where` picks what a chain of
  `if` picks. Together the groups are the registry's definitions without history,
  and its definitions over a history are pairs of an entity and a statistic that
  the generator has as columns (`RegistryFacts`); the converse fails for exactly
  six pairs, which `SixUndefined` names.
* **TransactionConsumer_proofs** - `TypeCorrect`, `AtLeastOnce`,
  `OffsetsForward`. A committed offset is at most the position, that at most the
  end of what was fetched, and every record below the position has an outcome or
  is in the handler, unless the process was killed in it.
* **FeatureStore_proofs** - `TypeCorrect`, `WholeWindow`, `Bounds`, `ExpirySet`.
  An expiry is not before the end of any window still open; `Expire` sees its own
  increment unless time has passed; a client's transaction is new to every
  counter still ahead, which gives the exact growth of `counted`.

Every invariant and action property of a passing run is proved, and so is the
refinement. Only model-checked are the liveness properties (`LoadEnds`,
`Converges`, `ReplayEnds`, `CatchesUp`, `Forgets`): they rest on fairness, and so
on ENABLED, which the prover does not handle.

What the proofs changed in the models. The type invariant of RetrainingCycle was
false where no run went: for a grid of fewer than three pairs, a job that fails
in its experiments leaves the index of the next one, which was taken for the
index of a pair. `SelectionInv` was checked with a grid of one pair as well. The
indices of a frame are the ascending list of a set by its definition
(`Ascending`) instead of by a sorting operator that the provers cannot unfold,
and feature tables are put together with `Combined` for the same reason.

## 5. Abstractions and observations

* Reading one file is one step: a read that overlaps a rewrite sees the old
  content, the new one or `Torn`, not a spliced pickle. `verify_compatibility`
  never fails for a bundle a run has built; a failing one is `AbortJob`.
* Areas under curves, fits and drift statistics are any value of a small set.
* Redis carries out a command within the step that sends it, at most once per
  try, and loses no data. Kafka: one consumer, no rebalance, a broker that loses
  no acknowledged record.

Seen while modelling, and part of the models as they are:

* Loading single files (no bundle) mixes runs and verifies nothing; a later run
  overwrites the last good model in place, and no code calls the backup first.
* Every increment renews the expiry of the whole counter, so a window stays open
  as long as transactions keep coming. The in-memory fallback never expires.
* `stop()` before `consume()`, or on an idle topic, ends nothing; the record at
  hand on a stop may be committed unhandled.
* Nothing hands the outcome of a drift check to `should_retrain` or to the gates:
  `has_drift` is an argument that defaults to False, so the gate that the docs
  call one for severe drift passes a caller that says nothing. In a report a
  warning is `drift_detected` like a critical one.
* Velocities go by the place in the frame: of several transactions of an entity at
  one time the later rows count the earlier ones as prior, although
  `src/features/pipeline.py:12` says "strictly-prior". `NoLookAhead` is stated
  with that.
* `src/features/definitions.py:4` says that every production feature has a formal
  definition. Six columns that the engineered models are fitted on have none: the
  time since the earlier transaction of merchant and account, and the z-score of
  device, ip, merchant and account (`SixUndefined`).
* Audit records at INFO reach no handler in the program as delivered
  (EveryScoreAudited); neither do those of reloads.
* The job never calls the gates, and the thresholds it optimises are saved and
  not used by `decide`. Model selection and early stopping use the whole of the
  validation part, of which VAL_OPT is a piece; the job's own cost metric leaves
  reviews out.
* `data_types` is listed as passed as well as failed when the call goes on; the
  failure of the timestamp check is listed twice with `fail_fast`.
* The registry lists windowed counts that no fast generator computes. A negative
  ratio is clipped at zero in training only, and a time that
  `generate_online_features` cannot parse becomes the present.

## 6. Not modelled

* `get_features` and `get_transaction_context` of the feature store only read and
  have no caller under `src/`; `last_txn_ts` is written and never read.
* Of the features, the exact rolling windows (`generate_velocity_features`), which
  only tests call.
* Topic manager: one idempotent administrative call. Explainability: calls into a
  numerical library. Bootstrap and sweeps: statistics for reports. JWTs and
  `validate_api_key`: no caller. `/health`, `/version`, `/model/info`, `/metrics`:
  read only.
* Command line scripts: sequential tools around the same components with output
  only. Deployment: configuration; replicas without a shared volume are
  independent instances of ModelServing.
