# NetSentinel: TLA+ models, checks and proofs

NetSentinel is a network-security platform in Python: an intrusion-detection
engine (A), a network-health engine (B), a configuration-remediation engine (C),
syslog ingestion, a correlation engine, streaming replay, live logging, a demo
orchestrator and a model registry with an inference API.  It is built from
command-line programs and one API process that talk to each other through files
under `outputs/`.  There are few threads; what is hard is what happens to those
files: programs that read, compute and write back without locks, writes that
truncate before they fill, runs that die half way, retries after a partial
success, and documents that are read in a different order than they were
written.

Every module here is translated from the source under `src/`; `PROJECT.json`
maps each definition to the lines it stands for.

## Inventory

(Paths are relative to the repository.)

| Component | State it keeps | Operations | Talks to |
|---|---|---|---|
| Model registry (`src/registry`, `scripts/build_model_registry.py`, `scripts/promote_model.py`) | `registry.json`, `best_per_dataset.json`, `production.json` | rebuild, promote, pick a candidate, resolve | experiment manifests, inference API |
| Inference API (`src/api`) | bundle cache in memory | predict (CSV, JSON), models, health | registry files, preprocessing artefacts |
| Training (`src/training`, `src/models`, `src/ml_workflow`) | experiment directories, manifests, experiment index | train, evaluate, persist, index, rebuild index | features, registry |
| Optimisation, explainability, error analysis, visualisation | reports per experiment | search, explain, report | experiments |
| Data and feature pipelines (`src/data`, `src/features`) | processed splits, fitted transforms | prepare, preprocess, select features | training, inference |
| Network health (`src/network_health`, Engine B) | processed windows, baselines, reports | prepare, train, report | correlation |
| Network configuration (`src/network_config`, Engine C) | snapshot, findings, recommendations, planned actions, audit log | parse, validate, find, recommend, plan, dry-run, diff, verify | correlation, dashboard |
| Syslog ingestion (`src/syslog_ingestion`) | normalised events | parse, redact, classify, report | correlation, streaming |
| Live logging (`src/live_logging`) | `events.jsonl`, raw records, a checkpoint per source, status file | run once, run adapters, preflight | switches, health and configuration sources |
| Streaming (`src/streaming`) | event log, monitoring state, current-state files | collect, order, replay, stop | reports of every engine |
| Correlation (`src/correlation`) | incidents, playbooks, reports | load inputs, apply rules, score, export | outputs of the engines |
| Demo orchestrator (`src/demo`, `scripts/prepare_full_demo.py`) | plan, stage results, readiness report | plan, run, recheck, report | every other CLI |
| Dashboards (`src/dashboard`, `webapp`) | none of its own; exported JSON | export, serve | outputs of the engines |

### What is hard here, component by component

* **Model registry.** Two programs write three files without a lock; each write
  truncates first.  Correct means: the files agree with each other whenever no
  command died half way, a rebuild repairs what a crash left, an archived run
  stays archived, a promotion is never lost, and no interleaving gives a dataset
  two production runs.
* **Inference API.** The cache outlives promotions; a request reads two registry
  files one after the other.  Correct means: the model served was assigned since
  the server started, changes at restarts only, is registered for its dataset,
  and failures do not stick.
* **Live logging.** A source is parsed, persisted and checkpointed in separate
  steps, and the whole attempt is repeated when a later step fails.  Correct
  means: no event is lost, the checkpoint never runs ahead of the store, one
  source's failure leaves the others alone.
* **Engine C remediation.** A snapshot is analyzed phase by phase, its plan is
  dry-run, the switch changes in between, and a later snapshot is judged against
  the earlier plan.  Correct means: a plan is enough and does no harm, what it
  changes can be taken back, a verdict agrees with the switch, and a comparison
  shows the cause of what it reports.
* **Demo orchestrator.** Decisions are made at plan time and the outputs they
  rest on change while the stages run.  Correct means: nothing runs that is not
  allowed, a required failure stops the run, the report tells what happened.
* **Syslog ingestion and correlation.** Lines are dropped, collapsed, binned and
  grouped before anybody looks at them; rules run in a fixed order and cover
  signals for those after them; the run that is read may be in the middle of
  being written.  Correct means: what happened in the logs reaches an incident,
  every serious signal is in one, the evidence is of one run, and a summary is
  never newer than the incidents beside it.
* **Engine C reports.** Risks, action items and the cards of the dashboard are
  computed from five files that may be of different analyses.  Correct means: no
  serious finding is without an item, a risk follows the verdict on its port, and
  no card contradicts its findings.
* **Streaming.** A replay loops, is capped, is interrupted, and its log and state
  are written at different moments.  Correct means: the state is what the log
  says, an incident counts once however often it is replayed, and a replay ends.
* **Dashboards.** Pages are put together from files that are being written, through
  a cache.  Correct means: the page becomes what is on the disk.  (Which run it shows is the
  order of the server, where one without a readable date comes first.)
* **Network health.** Raw exports have holes, resets, duplicates and times nobody
  can parse; scripts write their files one by one.  Correct means: a counter's
  growth is counted once, a number or feature is of its own series, no feature looks ahead,
  splits follow one another in time, and no manifest describes what is not there.  The code
  does not keep all of it: see "Met while modelling".
* **Data, training, optimization.** Cleaning, encoding and selection depend on each
  other's order and are fitted on one split; trainings share a store and an index
  with each other and with kills.  Correct means: scaler and encoder are fitted on
  training rows (fill values are not), a model keeps its best epoch, an experiment is whole and stays, and the
  index can be rebuilt from the manifests.

## Model registry: `ModelRegistry`, `ProductionRegister`

The two commands are writers: `StartRebuild` is `build_model_registry`,
`StartPromote` and `PickCandidate` are `promote_model` with and without an
experiment id.  A writer takes one step per file it reads, truncates or fills, in
the order of the code, so other commands, training runs and crashes fall between
any two of them.

| Code | Model |
|---|---|
| `registry.json` | `entries`: a status per experiment |
| `best_per_dataset.json`, `production.json` | `best`, `production` |
| truncated file (`open(path, "w")`) | `file[f] = "torn"`; JSON decode errors end a command |
| previous entries, production map, manifest list of a command | `doc`, `seen`, `todo` |
| experiment directory | `manifest[e]`, `model[e]` |

`Exclusive` says whether the documented single-writer discipline
(`artifacts.py`: "single-writer by design") is assumed.  `ProductionRegister` is
the abstract specification: an assignment per dataset that a promotion replaces.

Runs:

* `registry_single`: one writer, crashes and manual edits; three experiments of
  two datasets.  Two experiments of a dataset are the least that can be confused
  with one another; the third, of the other dataset, is what a promotion must not
  disturb.  Statuses agree with the production map at rest, archived runs are not
  revived, a promotion without an id takes the best, the best of a dataset can be
  loaded, a rebuild publishes it, and the registry implements `ProductionRegister`.
  One run has a metric of zero, which the sort key of `promote_model` takes for a missing
  one.  What is published is claimed where `registry.json` can be read; torn, it stops every
  rebuild until somebody removes it.
* `registry_race`: two writers at once.  Lost updates happen there, and are
  outside what the code promises; at most one production run per dataset holds
  all the same.

One crash is enough to leave every file torn in every combination of steps; two
edits are enough to archive a run and to lose a model.

## Inference API: `InferenceService`, `ModelServing`

The service extends the registry: the same three files, one request in hand at a
time (the handlers never await between reading the registry and answering).
`Predict`, `ReadRegistry`, `ReadStage`, `LoadModel`, `LoadTransforms` are the
reads of `BundleCache.get` and `load_bundle` in order; `Fail` is each error
answer.  `Refit` overwrites the transforms of a dataset, `RestartServer` empties
the cache.  The directories of the transforms are found through the registry entry, which
names them only if they existed when a rebuild made the entry: `recorded` is the set of the
entries that do, `scanned` that of the document in a command's memory (`RecordDirectories`),
`named` what the request in hand read of it.  `ModelServing` is the abstract specification: the model behind
`/predict` was assigned when the server started or later, and only a restart
changes it.

* `serving_production` shows the refinement, that requests resolve to registered
  runs, and, under weak fairness of the handler in progress (an event loop keeps
  running the coroutine it is in), that nothing a failed request met sticks to
  the server: once the files are in order, requests are answered.  In order includes that
  the entry names the directories: transforms that were missing at a rebuild and are fitted
  afterwards end in a 404 until the next rebuild.  Two
  promotions, a restart and two fits are the least that let a stale cache, a
  stale transform and a new assignment meet.

## Live ingestion: `LiveIngestion`

The one-shot programs of `src/live_logging` share two logs (`events.jsonl`,
`raw_events.jsonl`) and a checkpoint per source.  A run is a process; a step is
one thing that can fail, be killed or be overtaken by another run.

| Code | Model |
|---|---|
| a source's sample file | `sample`: the records in it so far |
| `events.jsonl`, `raw_events.jsonl` | `events`, `raws`: readable lines per record; `torn`: logs whose last line has no end |
| checkpoint file, its `.tmp` | `checkpoint`, `temp`: absent, torn or ok, and the records it covers |
| `IngestionScheduler.run_once` with retries | runs of `driver = "logger"` |
| `AdapterRuntime` | runs of `driver = "adapter"` (no retry, no in-place write) |
| parse, append, append raw, save | `Parse`, `AppendNormalized`, `AppendRaw`, `OpenInPlace` / `OpenTemp`, `FillTemp`, `Replace` |
| `OSError`, `kill` | `BreakAppend`, `BreakSave`, `Die` |

* `ingestion_single`: one run at a time of two sources, one disabled, a record
  that makes the parser raise, two failed writes and a kill.  A source fails only
  for a record of its own or after as many failed writes as it had attempts, the log never holds more copies of a
  record than attempts were made, no raw record is stored more often than its event,
  and no later run puts into place the half-written temporary file of a killed one:
  a checkpoint that was good stays good.  Runs that overlap can tear one another's.
* `ingestion_overlap`: two overlapping runs.  A checkpoint covers only what is in
  the log (also when two runs share the temporary file), and a run ends under weak fairness of its process: the
  operating system keeps scheduling a process that is not killed.
* `ingestion_torn`: `CheckpointCovers` with a line that a killed run left without
  its end: it fails (see Findings).

Three runs with two failed writes reach every pairing of an attempt with a later
one; one kill reaches every step of a run.  A write is one step because the lines
of one attempt fit the buffer of the file object.

## Network configuration: `ConfigAnalysis`, `ConfigWorkflow`

`ConfigAnalysis` holds the engine's pure part, one operator per computation:
`Inventory` of a capture, `Topology`, `Findings` by the ten rules, `Plan`,
`Records` of the dry run, `Diff` and `Verification` of two snapshots.
`ConfigWorkflow` is what an operator does with it.

| Code | Model |
|---|---|
| the switch (external) | `network`; `Change` brings it to another state, `Apply` types in a validated action |
| saved command outputs of a snapshot | `captured[s]`: a switch and the set of outputs that were saved |
| `inventory`, `topology`, `findings`, `plan`, `audit`, `execution` files | `files[s][f]`: missing, `Torn`, or data with its origin |
| `diffs/before__to__after` | `compared` |
| `analyze_network_config.py` with its `--skip-*` options | `Analyze(s)` |
| `dry_run_network_actions.py` | `DryRun(s)` |
| `compare_network_snapshots.py` | `Compare` |

A command is one step: the commands are run by one operator, one after the other,
and nothing else reads the directory meanwhile.  It may die after any prefix of
its files (`Command`, `Written`), in the order the code writes them, and leaves
the next one `Torn`; files of phases that are switched off stay as they were, so
snapshots mix files of several analyses.  The origin (`of`) of a file exists for
the properties only.

* `config_workflow`: a switch of two ports in four states (healthy; miswired with
  a missing and an unauthorized VLAN and a port without power; unplugged; and a
  disorder that only investigations address), two snapshots, four commands, one
  change and one lapse (a command that dies or leaves out phases), outputs that
  are complete or lack the running configuration, the trunks and the power.
  Plans mend what they are about, validated actions can be taken back, verdicts
  agree with the switch, comparisons explain their findings.  Four commands are
  the least for analyze, dry-run, analyze, compare.  The switch itself may hold
  a port down ("err-disabled", in the miswired state; "inactive" is in the proofs too); the topology warns of more than two
  addresses on a port and the rule of more than one, as the two thresholds are settings of
  their own (`topology.py:352`, `rules.py:172`).

`PlanMends` holds for policies whose required VLANs are authorized; with others
two rules of the engine contradict each other and a plan cannot satisfy both.
`RollbackRestores` leaves out the PoE rule, whose rollback is not an inverse.
`VerdictsTrue` judges an unused port by the goal in the code, "no longer flagged": the status
is searched for parts of words (`ShowsDown`), so that "err-disabled" passes for "disabled".
`DiffExplains` leaves out a crowded port that the topology does not warn of (`BelowWarning`):
there the comparison shows the finding and no cause.

## Demo orchestrator: `DemoOrchestrator`

`prepare_full_demo` builds its plan from the artefacts it finds, executes the
commands of ten stages, looks at the artefacts again after each stage and writes a
report with a pointer to it.

| Code | Model |
|---|---|
| artefacts of the engines, `registry.json`, `production.json`, `parser_summary.json` of a syslog run | `files[f]`: missing, `Torn`, or the run that wrote it and what it read |
| `DemoConfig` | `options`, one record per invocation |
| `build_plan` and the `_..._stage` functions | `BuildPlan` and an operator per stage |
| `DemoRunner.run`, `_run_stage`, `_run_commands` | `Enter`, `PassOver`, `Execute`, `CommandFails`, `Settle` |
| `_recheck_...`, `readiness.py` | `Recheck`, `Marked`, `StageReady` |
| `write_demo_run`, `latest.json` | `Finish`, `latest` |
| timeout, kill, other programs | `CommandFails`, `Kill`, `Outside` |

Of a command the model keeps which of the files that somebody looks at it writes, in
which order, from what, and when it must give up (`Writes`, `Reads`, `MustFail`); it
may end after any prefix of its files or inside one.  The switches that turn the
correlation or the streaming off in their own configurations are taken as shipped,
that is, on; turned off, their commands succeed without writing.

* `demo_prepare`: two runs in every combination of eight invocations (plain, syslog
  required with and without a fixture, a pinned syslog run, the assessment kept, dry,
  no training with retraining forced, no input), two datasets, one failing command,
  one kill, two promotions or ingestions beside the runs.  Two runs are the least in
  which one meets what another left; two datasets are the least for a training list
  with a middle.  What is reported ready was made whole by that run from what is
  there, the report tells what happened, and the next ordinary run repairs what an
  earlier one left.

No fairness is assumed: a run is a sequential program and its properties are about
where it ends.

## Syslog ingestion and correlation: `SyslogIngestion`, `Signals`, `CorrelationRules`, `Evidence`

`SyslogIngestion` is what the ingestion computes from the lines of its files, one
operator per step: `Preprocess`, the patterns of the parser, windows, features, weak
labels, the split, findings.  `Signals` turns the artefacts of the engines and of a
syslog run into signals, `CorrelationRules` holds the rules and what they cover, and
`Evidence` runs the two programs over the files.  `Artefacts` has what every module
of this kind needs: a file is `None`, `Torn` or its content.

| Code | Model |
|---|---|
| a cleaned log line | a record whose `shape` says which patterns match; equal lines are equal records |
| log directory | `logs` |
| `outputs/syslog_ingestion/<run>`, its modification order | `runs`, `byAge` |
| `ingest_switch_syslog.py` | `StartIngest`, then `TruncateRunFile`, `FillRunFile` per file in the order of `RunFiles`; `KillIngest` |
| `run_correlation.py`: configuration, experiments, syslog | `StartCorrelation`, `LoadConfig`, `LoadExperiments`, `ResolveSyslog`, `LoadSyslog`: a step per read, so that an ingestion falls between |
| `--strict`, `--require-syslog` | refusals of `Decide` |
| `CorrelationEngine.run` | `Correlate`: `RunRule` folded over `RuleOrder`, then the fallbacks |
| `outputs/correlation/<id>` | `reports`, with the number of the pass that wrote each file; `TruncateReport`, `FillReport`, `KillCorrelation` |
| a snapshot of Engine C | `snapshot`: whole, or with a torn topology and no cards, as a killed analysis leaves it |

The run `evidence` starts from a storm that crosses an hour, a campaign with repeated
lines and hosts that forget their clock, and a loop; two run ids (so that a newer run
appears while an older one is read), two command lines, one ingestion beside two
correlations, one kill.  The logs may have been ingested before.

* `WindowsSound`: types; no line is lost or counted twice between the files and the
  windows, however lines were dropped, collapsed, binned and grouped; a window is never
  in an earlier split than an older one.
* `LogsReported`: a storm of link changes in the raw lines is an unstable port although
  the hours are cut at the clock, repeats that were collapsed still make a campaign, and
  lines logged by a boot clock make an incident about clocks or a warning.
* `IncidentsSound`: every high or critical signal is in an incident, and a fallback takes
  only what no other rule took; an incident is critical because a signal is or because
  two engines agree, and a loop only with two kinds of evidence; the syslog evidence is
  of one run.
* `SummaryLast`: who finds a summary finds signals and incidents of the same pass or a
  later one, also after a kill.

Two correlations are the least in which files of two passes meet, one ingestion the
least that overtakes a correlation between two reads.  No fairness: each property is
about what was written.  Left out: the numbers a signal of Engine A quotes, playbooks,
hypotheses and the wording of reports.

## Engine C reports, streaming and dashboards: `ConfigIntelligence`, `Exports`, `EventStream`, `Replay`, `Dashboard`, `Monitoring`

`ConfigIntelligence` continues `ConfigAnalysis`: health score, risks, action items,
the intelligence report and the cards and views of the dashboard export, as operators
over the files of a snapshot.  `EventStream` makes events of the artefacts and orders
them.  `Exports` holds the producers, `Replay` and `Dashboard` the two readers, and
`Monitoring` puts the producers beside one of the readers.

| Code | Model |
|---|---|
| files of a snapshot and of a comparison | `artefacts`; `Reanalyse` replaces them |
| exported views, correlation reports | `views`, `reports` |
| `export_network_config_dashboard.py`, `run_correlation.py` | `StartExport`, `StartCorrelation`, then `TruncateFile`, `FillFile`; `KillProducer`; `producer` is the one that runs |
| `run_streaming_demo.py` | `StartReplay`, `ReadSource` per file, `FinishCollect`, `BeginReplay`, `Emit` per event, `FinishReplay`, `TruncateState`, `FillState`; `KillReplay` |
| `events.jsonl`, monitoring state, its four files | `log`, `state`, `current` |
| the web server's artefact cache, the overview page | `cache` with an age per entry, `page`; `GetOverview`, `Tick` |

`reader` is the replay or the server: they share nothing that either of them writes, so
each behaves beside the other as it does alone, and exploring them one at a time loses
nothing.

The run `monitoring` starts from four directories (complete; without a plan; an old
plan beside a torn topology; an inventory that cannot be used), with no comparison or
one that found a difference.  In the second directory two addresses move, so that findings
share an id.  Two productions or replays started in all and one kill,
so that a production meets a replay, and a replay another; a cap of eleven events, more than
those of a pass over most directories, so that a loop comes round and is cut off in the middle
of a pass; a cache of two ticks, so that entries of different ages are used on one page.

* `AnalysisSound`: types; when the plan was made from the findings of the snapshot, each
  open finding of high or critical severity has an action item, also where its template
  is off or blocked; a verdict moves a risk the right way and keeps it in 0..100; cards
  agree with the findings they count.
* `ReplaySound`: the monitoring state is what the log says, though it is never computed
  from it; a pass is chronological; an incident is active once however often it is
  replayed; after a replay the live page adds up.
* `ReplayEnds`: a replay comes to its end, looping or not, unless it is killed.
* `PagesCurrent`: once nobody writes any more, the page of the server becomes what its
  loaders read of the disk and stays it, though its parts are cached at different times.
  That it shows the newest run is not claimed: a run without a readable date comes first.

Fairness: weak fairness of the steps of a started replay (the operating system keeps
scheduling it), of `GetOverview` (pages are asked for) and of `Tick` (time passes).
Producers need none and get none.  Left out: the other pages, which show what the same
loaders return, the React front end, and two replays at once.

## Network health: `TelemetryAdapters`, `TelemetryPreparation`, `TelemetryPipeline`

`TelemetryAdapters` turns a raw export into canonical rows, `TelemetryPreparation` holds
validation, preprocessing, the split and the features, `TelemetryPipeline` the four
scripts with their files.

| Code | Model |
|---|---|
| what lies at `source_paths`, and what replaces it | `history`; `Export` |
| canonical CSV, `adapter_report.json` | `csv`, `adapted`; `Prepare`, `WriteCanonical`, `WriteAdapterReport` |
| validation report at its one path | `validation`; `Validate` |
| splits and `preprocessing_manifest.json` | `processed`; `Preprocess`, `WriteSplit`, `WritePreprocessingManifest` |
| experiment directories | `experiments`; `Train`, `Fit`, `CreateExperiment`, `WriteExperiment` |
| `network_health_report.md` | `report`; `WriteReport` |
| the script that runs, how the last one ended | `job`, `exit`; `Kill` |

The run `telemetry` takes every pattern of a hole, a zero and a number in four minutes
of a counter (81), beside a second port with a hole, a duplicate and a reading out of
bounds, and exports of the `lcore_d` type with aliases, words where numbers belong, fault
labels, and times nobody can parse; four scripts, one kill, and one change of the second
(two experiments may fall into one).  Four rows are the least with a training, a validation and a test
row and a row whose lags reach back twice.

* `RowsSound`: telemetry with a time that cannot be parsed does not pass validation;
  what validation leaves to preprocessing is mended there; the deltas of a series without
  a reset add up to its growth, however many series, duplicates and holes there are;
  every number of a row is one its own series has in the file, and a later one only where
  there is none before; splits follow one another in time; a lag comes from an earlier row
  of the series, and a rolling window from rows of the series that are not later, where
  `InterfacesInOrder` holds.  The condition is needed: pandas returns the windows in the
  order of its groups (`GroupedOrder`) and `features.py:88` puts them into the rows by
  position, so that with `core/p2`, `edge/p1`, `edge/p2`, as one of the histories has them,
  rows get the windows of other series.
* `ArtefactsSound`: types; when a manifest is there, so are the splits it counts or later
  ones; an experiment with a manifest has the model and metrics it speaks of; of up to a
  hundred training rows at most one is flagged.
* `ExperimentsKept`: an experiment that has its manifest is never written to again, also
  when the next training starts in the same second.

No fairness: scripts are sequential and their properties are about what they leave.
The isolation forest is external (`Score`: any function of the row); the synthetic
generator and the explanation of single anomalies are left out.

## Engine A: `DatasetPreparation`, `FeatureSelection`, `TrainingPlan`, `EngineA`

`DatasetPreparation` is cleaning, splitting, encoding and scaling of a table with
columns of numbers and words, `FeatureSelection` the filters of `src/features`,
`TrainingPlan` the epochs of a deep model, the trials of a search and the plan of the
offline workflow, and `EngineA` the scripts with their files, run by workers.

| Code | Model |
|---|---|
| raw files | `raw` picks one of the `histories`; `Replace` |
| processed splits, transforms, report, manifest | `processed`; `Load`, `WriteProcessedSplit`, `WriteTransforms` |
| selected splits, `feature_metadata.json`, selector | `features`; `ReadSplit`, `SelectFeatures`, `WriteFeatureSplit`, `WriteMetadata`, `WriteSelector` |
| experiment directory `<model>_<second>[_n]` | `experiments`, keyed by model, second and suffix; `NameExperiment`, `MakeDirectory`, `WriteExperiment` |
| `experiment_index.csv` | `index`, its lines; `LookAtIndex`, `AppendRow`; rebuilt by `CollectManifests`, `TruncateIndex`, `FillIndex` |
| `outputs/optimization` | `studies`; `RunTrial`, `TrainFinalModel`, `WriteStudy` |
| `run_offline_ml_workflow.py` | `Start` takes the plan apart into `agenda`; `RunElsewhere` is a step of another component that ends one way or the other |
| training | `Audit`, `Fit` (for a deep model the epochs one after the other) |
| a process, its kill | `job[w]`, `Kill` |

The run `engine_a` is a list of scenarios, because the product of all its data with all
its interleavings is out of reach and the two do not touch: what a column holds decides
how a split looks, never which step comes next, except where a step raises, and those
data are in the scenarios with interleavings too.

* Data: every pattern of a hole, an infinity and two numbers in four rows of a column
  (256); 96 ways of cleaning (three for duplicates, four for the holes of numbers, four
  for those of words, on two tables); eight rows, the least that a stratified split in
  three can divide here; a deep model with every history of losses of four epochs out of
  not-a-number and four numbers (625).
* Files: raw files replaced by seven others (other data, no usable numbers, no labels, a
  class of one row, a file missing, words where numbers were, all labels missing) between
  two workflows that stop or go on, with up to one kill, one failing step and one new
  second; two workers: a workflow beside a training and a rebuild of the index, a
  preparation beside a search; one worker that prepares twice, from other raw files the
  second time, and searches; the whole plan with one kill.

Two trials, patience two, `min_delta` one and two best columns are the least for which
"best", "wait" and "tie" differ from "last".

* `PreparedSound`: a strategy that fills or drops holes leaves none in any prepared
  split; scaler and encoder are fitted on the training rows only
  (`ScalerAndEncoderOfTraining`; the medians and modes that fill holes are of all rows,
  held-out ones included: see "Met while modelling"); a class of a held-out split is
  one the label encoder has learned.
* `SelectionSound`: of the columns the filters leave no two say the same, whatever chains
  of correlated columns there were, and none has one number in all training rows; where a
  column varies, one is left.
* `TrainingSound`: a model is fitted on the columns feature engineering recorded, the
  same in each split and without holes, also when files of two runs are mixed; a
  workflow that prepares, selects and trains, and stops at a failure, trains on what it
  prepared when nobody else writes splits; no epoch is better than the one whose weights
  are kept; training stops when the patience since the best epoch is used up.
* `StoreSound`: types; an experiment with a manifest has the model and metrics it speaks
  of when one training had the directory to itself; rows of the index are of runs with
  manifests; a study names the experiment of its best trial, if that training had the
  directory to itself.
* `StoreKept`: a finished experiment is changed only by a training that chose its name
  before the directory was there; a rebuild that no finishing run overtook lists each
  readable manifest once, the oldest first.

As pandas does, two columns are compared over the rows where both have a value, a column
without a value is kept by the variance filter (its variance is no number), and a column
of words without a most frequent one is filled with `Filler`, the configured constant.

No fairness is assumed.  Left out: clipping of outliers and normalisation of types (both
off in the shipped configuration), the mean as a filling, downcasting, PCA, RFE and the score methods other than
the shipped one, the loaders other than the two-file one, statistics, audits of the raw
data, fingerprints, several datasets in one workflow, two studies of one second, the
explanation hooks after a training, checkpoints.  Scores, the shuffle and the values a
sampler proposes are external.

## Findings

`ingestion_torn` expects a violation: the first event after a killed run is glued to
its unfinished line and lost to every reader, while the checkpoint counts it
(`PROJECT.json` quotes the lines).  Everything below was met while modelling; the
models take the code as it is, and properties keep clear of it where they say so.

### Met while modelling: where code and documentation part

* Registry: a manifest that does not parse ends a rebuild (`artifacts.py:117`), though
  "Invalid manifests are skipped with a warning, never fatal" (`:73`).
* Inference: transforms are taken from dataset artefacts that a later fit overwrites
  (`loader.py:151`), though requests go through the "SAME" saved preprocessing.
* Engine C: a port that the switch has put into "err-disabled" is verified as shut down
  (`verification.py:116` looks for "disabled" in the status), though the tokens are
  "states that show a port was actually shut down" (`:29`).
* Engine C: a goal about power is "failed" when the second snapshot has no power output
  (`verification.py:181`), though such goals are "unknown" (`:6-8`); the audit log,
  "append-only" in `docs/engine_c_network_config.md`, is replaced by the next dry run.
* Demo: the correlation stage is planned before the syslog stage has run
  (`planner.py:238`), so that the first run with `--require-syslog` and a fixture reports
  itself ready though its correlation read no syslog; `--continue-on-error` has no effect.
* Correlation: confidence never looks at clocks (`README.md:245` says unreliable clocks
  demote it); incidents about power can merge two devices though
  `configs/correlation.yaml:98-100` says never; the signal about clocks names the first
  host of the alphabet, whichever clock was wrong (`syslog_loader.py:196-216`).
* Checkpoints: "Writes are atomic" (`checkpoint.py`), but two overlapping runs share one
  temporary file and can tear it; `CheckpointAtomic` is proved for runs that do not overlap.
* Engine B: the filling of holes takes later values (`preprocessing.py:165`), though "no
  future information leaks into training" (`:11-12`); validation "blocks the pipeline"
  (`validation.py:9`), but neither preprocessing nor training consults it; rolling features
  are "computed per (device, interface) series" (`features.py:7-8`), but where devices name
  their interfaces differently rows get those of other series (`features.py:80-88`, theorem
  `WindowsMisplaced`).
* Engine A: holes are filled before the split, though `data/audit.py:39` says to fit
  imputers on the training split only; two trainings of the same second share a directory
  that is "never overwritten" (`trainer.py:8`).
* Web server: undated runs come first in a list that is "newest first" (`history.js:80`).

### Met while modelling: surprising, but nowhere denied

* Registry: a promotion without an id ranks by score whatever `higher_is_better` says.
* Inference: transforms that are missing at a rebuild are unknown to the server, also when
  they have been fitted again, until the next rebuild (`registry.py:132-141`).
* Live logging: a second run of the logger reads a source from its start again.
* Engine C: a missing `findings.json` makes every finding of the other snapshot resolved
  or new (`diff.py:441`), and so does a renamed device; several findings about moving
  addresses share one id; a plan that stayed after `--skip-remediation` is verified as if
  it were new; the rollback of a PoE action is always `power inline never`
  (`remediation.py:172`).
* Demo: `--reuse-assessment` keeps an assessment with torn findings, since readiness
  looks at existence only; a `production.json` that does not parse stops every later
  preparation; a pinned syslog run that is missing is reported as skipped although its
  fixture was ingested.
* Syslog: SSH logins under the TELNET facility are tagged insecure; `drop_prompt_echo` has
  no effect; the rows of a host and of its interfaces may lie in different splits;
  boot-clock events are left out of features but counted in hour bins; a run is "ready"
  once its parser summary exists; re-ingesting into an existing id does not make it the
  newest; one line in two files counts twice.
* Streaming and dashboards: incidents with syslog evidence are counted again in each pass
  of a loop; the event "replay started" is stamped now and comes after historic ones; torn
  incidents beside a good summary read as "Stable"; with a stale plan serious findings get
  no action item; a text search for "0.0%" decides the network's status
  (`dashboard/loader.py:526-540`).
* Engine B: validation raises on a word in a counter column (`validation.py:170`); a
  numeric label column with a hole and no `label_map` makes every row faulty
  (`adapters.py:354-380`); the report quotes whichever validation lies at the shared path;
  a filled gap makes the next rate count two intervals in one; killed preprocessing leaves
  splits of two generations; a hole in the label makes training raise after the splits were
  written, and resampling would average labels.
* Engine A: duplicates that arise by filling holes may straddle splits; a numeric label
  would be imputed; chains of correlated columns lose more than one column for one; a class
  unknown to the label encoder would silently be class 0; one failing assertion ends the
  whole loop of datasets and models; killed feature engineering leaves mixed splits which
  the audit accepts when columns agree; a categorical provenance column would be one-hot
  encoded and escape its filter; a rebuild of the index between a manifest and its row
  doubles or loses rows, and a killed one leaves an empty index to which rows are appended
  without a header; a failing final training loses all trials of a study.

## Proofs

Every theorem is about every value of the constants that the named assumptions
of its module allow.

`RegistryProofs` proves, for every set of experiments, datasets, writers and
every policy, without the single-writer assumption: type correctness, at most one
production run per dataset, production assignments fit their dataset.  The
inductive invariant `IInv` adds what a running command knows: a promotion past its
check holds a document with its target as the one production entry; a rebuild has
given that status only to what the production map it read assigns.  Without these
the properties are not inductive, because a command writes what it computed many
steps earlier.

Its second part assumes `Exclusive` and proves that the statuses agree with the
production map at rest and that the registry implements `ProductionRegister`.  The
invariant `SingleInv` adds that one writer runs at a time and that what it read of
`production.json` is still current when it writes.

Its third part, `PublishedInv`, proves `BestPublished` and, where higher is better,
`PromotionsInOrder` (the ranking of `promote_model` is highest first whatever the
setting, so the theorem needs it).  The invariant says what the command in hand is about
to write (a promotion: the entries with its target on top; a rebuild: archived entries
still archived, unless `production.json` assigns them or their manifest is gone) and what
is whole on disk.  That some entry is unbeaten needs finitely many of them, which is not
assumed: every registered run once wrote a manifest, and only finitely many did.  The
unbeaten one is then the entry with the fewest betters, least in the order of inclusion.

Its last part is about `InferenceService` and proves `ServiceSound`, for either
stage, and, for the stage "production", the refinement of `ModelServing`.  The argument
is about histories: `production.json` holds the assignment that came last; the
experiment in a request was assigned since the server started and is registered; and
the dataset of a request in hand is not cached, so a bundle that is cached is never
replaced.

`LiveIngestionProofs` proves type correctness and, when no line is left torn
(`MaxTears = 0`), `CheckpointCovers` for any number of overlapping runs, sources,
records, retries, failures and kills.  Its invariant carries the claim along the
path of a cursor: the batch of a run past its appends is in the log, and so is
what any temporary file or open handle holds.  For runs that do not overlap
(`Alone`) it proves `CheckpointAtomic`, whatever is torn or killed: only a run that
fills its temporary file has a file open, and that file is whole before it is moved.  For
such runs, when no line is left torn either, it proves `AttemptsAccounted`: what failed had a
record that raises, or no fewer writes have failed than it had attempts, and the logs hold no more copies of a record than attempts were
made.  There the invariant counts: the copies of a record are bounded by the attempts of
the runs before, those of the current run at the record's source, and the one in hand.

`ConfigProofs` proves every property of Engine C's run, for every switch, policy, set of
outputs and way the commands can be cut short.  The invariant `Inv` is about provenance: whatever
files a snapshot mixes, each complete one was computed from a capture it names, and so was a
comparison whose inputs name one capture a side.  Each property is then about what the engine
computes from one or two captures:

* `RollbackRestores`: the VLAN that a rollback removes was absent before, because the action's
  finding said so of that very capture.
* `VerdictsTrue`: a finding's id names its rule, device and place, so on the second snapshot it is
  open again exactly where the goal is not met (`FoundAgain`), and a port whose status reads as
  disabled is not flagged; ids are unique among trunk findings,
  so the VLANs a verdict looks for are those of the action.
* `PlanMends`, within `PlansSound`: commands on a port only add required VLANs and only remove
  unauthorized ones (`OnBounds`), and every open finding has its commands in the plan (`OnHas`).  It
  assumes `ConsistentPolicy`: required VLANs are authorized wherever VLANs are restricted.
* `DiffExplains`: a rule looks at one row of a table, or at what a topology warning also tells; with
  the same row and the same warnings it finds the same (`TableCause`, `WarningCause`).  The two
  thresholds of addresses are any two numbers.

The last three assume `Markers`: `None` is no field, row or content of a file.

The second half of `ConfigProofs` proves `AnalysisSound` and `ReplaySound` of `Monitoring`, for every
set of directories, comparisons, incidents, options and bounds.  Its invariant `MonitoringInv` (TLC
checked it on the instance of `monitoring` first) has three parts.

* `ExportsInv`: the producer under way holds what its program computes from the snapshot directory,
  which nobody replaces meanwhile, and what can be read in any of its files was put there by an
  export or a correlation.  With it the properties are about functions: `SeriousHaveItems` on
  plans, `RisksFollow` on scores, and `CardsMatch`, which counts findings and warnings of a device.
* `ReplayInv`: the events collected and ordered are events (`EventSeq`), the ordered ones are `InTime`,
  and `Explained(state, log)` says of the state what a reader of the log would: as many events of a
  type and severity as lines that carry one, the incidents its lines name, each once, the last
  lines as recent events.  `EmitExplained` is the step, one event more in the log and in the
  state.  Of the four files, those before the one being written hold this state, the others an older one.
* `ServerInv`: an entry of the cache is younger than its time to live.

`ViewsOK` and `CollectOK` say that events can be made of whatever was exported, also where a source
is missing, half-written, of an older run or of another directory.  `OrderEventsOK` is about the
stable order: an event comes as late as there are events before it, so each place is taken once.
`ListedFacts` turns finite sets into lists, by the sizes of their subsets.  The hypothesis of both theorems is `Marked`: a file that was written is not the mark of a
missing or a torn one, and `None` is neither a verdict nor a summary.

`Exports` assumes of a directory that its findings are told apart by their ids and addresses, that its
sets are finite and that an action is planned with commands or blocked without (`LeftByAnalysis`).
That is no assumption on the code: `DirectoriesAsAssumed` proves it of every directory the commands of
`ConfigWorkflow` can leave, from the provenance of its files, for a switch with finitely many ports,
VLANs and addresses (`FiniteSwitch`).  A finding is determined by its rule, its place and its address
(`FindingKeyed`): it is this that a moving address needs, whose findings all have one id.

`DemoOrchestratorProofs` proves every property of the demo run, for every configuration, set
of invocations and history of faults, kills and outside steps, by invariants that
build on each other.

* `RunInv`, for `OnlyAsked` and `FailureStops`: executed commands belong to the stage the
  run is at or an earlier one, with training off every planned command is harmless and
  the one it is at is one of them, and no required stage has failed before the run ended.
* `Ledger`, for `ReportSound`: every stage behind the run is reported with exactly the
  commands it executed, every stage before it is waiting with none, and the stage it is at
  has executed those up to the one in hand.
* `Provenance` and `Pointer`, for `PreparedIsFresh`: while no required stage has failed, what
  an executed command wrote is still there, with the stamps of sources that are still there
  too.  The argument is that the areas of the stages are disjoint and that no later stage
  writes what an earlier one read.
* `Supplied`, for `RepairsItself`: in an ordinary run that is left alone every dataset,
  the metrics and the log are there or are still to be written by a command that has not
  been executed.  So no command gives up and no stage fails its check.

The last two assume `Markers`: a file's content is none of the marks for missing or torn.

`EvidenceProofs` proves `SummaryLast` and `IncidentsSound` for all logs, rules, command lines,
passes and kills.  For the first the invariant is `EInv`: a readable file carries the number of a
pass that has begun; the pass that writes has put its own number on every file before the one it
is at; the file it is filling cannot be read.

`IncidentsSound` is mostly about one function.  `CorrelatedSound` says of every set of signals whose
names tell them apart that the incidents made of it cover what has a high risk, that a fallback
shares no signal with another incident, and that what is critical is corroborated.  Its proof goes
rule by rule: `Drafts` says what the drafts of a rule may hold (a loop with one kind of evidence is
capped), `CriticalDraft` that the cap outlives the score; `After(state, k, S)` is what holds after
`k` rules, namely that exactly the signals of the incidents so far are covered, and `RunIs` and
`PassOf` unroll the fold over the thirteen rules.  Both programs together then keep

* `LogInv`: a file of a run lies in a directory that somebody made, which is what makes "the latest"
  run one of those on disk; the findings of an ingestion, and so those on disk, are one for each rule
  and subject (`FindingsAre`);
* `CorrInv`: the sources still to load come in their order and each at most once (`Ranked`), a signal
  that is loaded was made from a file that is no longer among them (`Origin`), so names tell the
  signals apart; syslog signals are of the run that was resolved, and nothing of the syslog is loaded
  before it is; the incidents are `Correlated(loaded)`.

The theorem assumes `Markers` (`None` is no severity and neither of the two types that make a loop)
and that neither fallback is disabled, without which a high-risk signal that no rule wants stays
alone.  `EvidenceAssumption` says what the other engines write: the findings of one rule have
its severity and a title no other rule has (`network_config/rules.py`), and experiments of Engine B
are told apart by their names.  `byAge` lists the directories as entries are made in them, the same
directory as often as it gets one; the last entry of a directory is the time the code compares.

`TelemetryProofs` proves every property of Engine B's run, for all datasets, exports, scripts
and kills.  `ExperimentsKept` needs only `XInv`: the training that writes its files writes into
the last directory, and that one has no manifest yet.  `ArtefactsSound` and `RowsSound` need
`SInv`, which says what every file and the script in hand hold:

* a canonical file has the core columns and names in the columns of names (`CsvOK`);
* the rows of a preprocessing are those `Prepared` makes of the canonical file that still lies
  there, the splits it has written so far are theirs, and the manifest in their place is an
  earlier one's (`PreprocessJob`); splits and manifest bear the number of their job, the manifest
  counts splits that are there or newer, and when all bear one number they are the split of some
  rows in their order (`FileOK`);
* a training holds what its epochs and metrics were computed from, and a manifest speaks of what
  lies beside it (`TrainJob`, `DirectoryOK`); the suffix of a directory counts those before it in
  its second, so no two have one name (`DirectoriesOK`).

The rest is about data.  `SortedFacts` says what a stable sort returns for a sequence of any length,
`ChosenFacts` what a selection keeps, `FilledFacts` where a filled number was read, `PreparedFacts`
puts them together for a whole preprocessing.  On them rest `QuantileGrows` (the bound of the
training rows is not above that of the validation rows, so the splits follow one another),
`BudgetKept` (at the quantile that is the threshold at most one of a hundred rows lies above it), `MendedRows`
(sorted, filled and clipped rows only have the issues preprocessing leaves), `GroupedAsTheyAre` (the
windows come back in the order the rows have, where the interfaces are in order) and `DeltasOfSeries`: by
`SumRuns` and `Telescope` the deltas add up, row by row, to the last reading less the first.
`ReadKey` and `SeriesInTime` follow a filled number back to a row of the file.

`WindowsMisplaced` is the other side of `InterfacesInOrder`: for rows sorted as preprocessing leaves
them, wherever the condition fails some row is in none of its own windows.  `GroupOrderStrict` makes
the order of the groups a permutation of the rows; were every row in its own windows, no place
would be given the windows of an earlier row, so none would move (`NoneMoves`), and an order that moves nothing is the
condition.  `InterfacesInOrder` is therefore all that is missing for the claim of `features.py`.

The assumptions on the constants say what an export is: a CSV file whose rows have the columns of its
header, with words the order of names knows where names belong (`CSVFile`).  The last two theorems
assume `Markers`: a split file is not the mark of a missing one, nor is a torn one.

`EngineAProofs` proves every property of Engine A's run for every list of scenarios
(`EngineAAssumption`: raw files are tables with the same columns, a cleaning is one of the configured
ones, a worker has a list of calls), any number of workers, overlapping trainings and searches,
rebuilds and kills.  It assumes that what is written in a file is not the mark of a missing one
(`Markers`) and that no script is the mark of an idle worker (`NoScript`).

* `EInv`, for the first two, follows a name: a training that holds one found the directory
  free when it chose, a directory that one training ever had to itself has that one owner,
  numbers are not used twice, and the rows, studies and rows collected by a rebuild describe
  manifests that were there.
* `LearnedInv`, for `TrainingSound`, follows the splits.  The scripts of a worker stand in its agenda
  in the canonical order, call after call (`WorkOK`); what a script needs was made in its call or by a
  script that still comes before it (`FreshOK`); the splits that the script in hand has written or
  read are of the preparation its call has made (`ProgressOK`).  A call that fails takes its other
  scripts with it, so none of them is left to train on older splits.  With `~goesOn` dropped this
  fails, and `EndAnyhow` is the mutant.
* What the epochs left is proved epoch by epoch (`LoopSoFar`): the best loss is that of the epoch
  whose weights are kept, within `MinDelta`, and the bad epochs are those since.
* `DataInv`, for `PreparedSound` and `SelectionSound`, says what scripts have computed until they
  have written it: the frames of a preprocessing are as `PreparedOK` says, a split on the disk that
  can be read is a frame (`FrameOK`), and so is what feature engineering reads of it, which is why
  its result is as `SelectionOK` says, whoever replaced the files in between.

These two are mostly about the functions, and their lemmas stand in `PreparationProofs`, on top of
`DatasetPreparation` and `FeatureSelection` alone.  `CleanedCells` follows the cells of a table through
cleaning, whatever it drops and fills; `SplitFacts` shows that the stratified split of
scikit-learn leaves each class a row in the rest when at most half of the rows are taken out, and
`SplitsFacts` does it for the two splits in a row.  This is the hypothesis `Halves`, about
`Shares`: `configs/data.yaml` takes 15 of 100 for the test and 15 of 85 for validation.
`ScaledTotal` says that what is scaled by its own count and sum adds up to zero, and `PipelinePrepared`
puts this together.  For the selection, `CorrelationFacts` shows of the greedy filter that of two
columns it keeps neither is correlated with the other, in whichever order they came;
`CovarianceSymmetric` is the reason that the order does not matter.  `ConstantVariance` and
`VaryingVariance` say that the variance is zero for a column of one number and above zero for one with
two, through the sum of the squared distances of all pairs of rows (`Spread`).  `TopFacts`
is about the choice of the best columns and `OneIsKept` about the last column that varies.

The proofs found two things in the model: two cases of the filling of a column were not
exclusive, and the correlation of two columns was computed over other rows than their variances.
Both now say what the code does.  Those about the exports found three more: two
moving addresses came out as one row of the exported findings, though the code lists both; so did two
warnings of one kind about one port; and two cases of the severity of a health event overlapped.

Facts on lists that usually take an induction (the first row of a run, distinct rows, the order of
names) are proved by the least counterexample, by ranks and by the pigeonhole principle,
all from the library's theorems on finite sets.  Folds are reached the same way: `Inductive`
(a set of numbers that has 0 and the successors of its members has them all) is proved from the
least number, `FoldExists` unrolls a fold into the function of its intermediate results, and
`ChosenFacts`, `FlattenFacts` and `LoopFacts` say what the selection of elements, the concatenation of
plans and the loop over the epochs come to, for sequences of every length.  `Chosen` takes a
set where `SelectSeq` takes a predicate, which the provers cannot expand.

### Only model-checked

* Liveness: `ServesWhenInOrder`, `RunsEnd`, `ReplayEnds`, `PagesCurrent`.
* `WindowsSound` and `LogsReported` of the evidence: windows, ranks and findings over sets of lines.  A
  general statement of each needs an induction of its own, of the kind that `TelemetryProofs` makes for
  sums and quantiles.

Several runs check a conjunction whose parts are defined and commented one by one next to
it: `PromotionsInOrder` is `ArchivedNotRevived` and `DefaultPromotionIsBest`,
`BestPublished` is `BestResolvable` and `RebuildPublishesBest`, `AttemptsAccounted` is
`FailuresHaveACause` and `BoundedCopies`, `PlansSound` and `ReportSound` carry the types of
their modules.  `PROJECT.json` names a mutant for each property: a plausible slip in one
modelled definition that the run must notice.

## Not modelled

* The live gate and the preflight (`src/live_logging/adapters`, `runtime.py`): a decision on
  environment variables, taken once and in one step, in front of sources that are not
  connected in this repository.
* Parsing and wording: regular expressions of the parsers, the Huawei configuration parser,
  redaction, reports in Markdown and HTML.  Lines and findings are classes of values.
* Numeric work: fitting of models, metrics, SHAP, plots, error analysis, the sampler and
  pruner of the search, the synthetic telemetry generator.
* Loaders of datasets other than the two-file one, and the options named under "Engine A".
* The React front end, which renders what the server answers, and utilities, which are part
  of the steps that use them.
* Two replays, two preparations of the demo or two ingestions of syslog at once: nothing in
  the repository starts them together, and they would share their files without a lock.

## What is left

1. The live gate in front of `LiveIngestion`, with the theorem that nothing is collected
   that is not read-only.
2. Engine A's store as the source of the experiments of `ModelRegistry`, whose training steps it
   would refine.
3. The remaining loaders and the score methods of feature selection.
