-------------------------------- MODULE EngineA --------------------------------
(***************************************************************************)
(* Engine A as its scripts run it: a raw dataset is prepared, its features *)
(* are selected, models are trained on them into experiment directories,   *)
(* hyperparameters are searched and the index of the experiments is kept.  *)
(* Workers run the scripts, by hand or from an offline workflow; they      *)
(* share the files and nothing else, write them one by one, and may be     *)
(* killed.  The raw files may be replaced.                                 *)
(***************************************************************************)
EXTENDS TrainingPlan

CONSTANTS
  Torn,       \* a file cut off while it was written
  Header,     \* the first line of experiment_index.csv
  Workers,
  Scenarios,  \* a sequence of [histories, calls, cleaning, losses, limits]: the raw files one after
              \* the other, what each worker runs, how data is cleaned, the losses epochs may have,
              \* and the kills, the faults and the seconds there may be
  Deep,       \* the models trained in epochs
  MinRows,    \* training.min_train_rows
  NTrials     \* optimization.n_trials

ASSUME EngineAAssumption ==
  /\ MinRows \in Nat /\ NTrials \in Nat \ {0}
  /\ Deep \subseteq ToSet(MODELS)
  /\ \A i \in DOMAIN Scenarios :
       /\ Scenarios[i].histories # <<>> /\ Listed(Scenarios[i].histories)
       /\ \A n \in DOMAIN Scenarios[i].histories, f \in {TrainFile, TestFile} :
            LET file == Scenarios[i].histories[n][f] IN file # None => IsRaw(file, Scenarios[i].histories[n])
       /\ Scenarios[i].cleaning \in Cleanings
       /\ DOMAIN Scenarios[i].calls = Workers
       /\ \A w \in Workers : Listed(Scenarios[i].calls[w])
       /\ \A losses \in Scenarios[i].losses : losses \in Seq(Int \cup {Missing})
       /\ Scenarios[i].limits \in [{"kills", "faults", "seconds"} -> Nat]

VARIABLES
  place,        \* which of the scenarios this is
  raw,          \* which of the histories lies in the raw directory
  processed,    \* the prepared splits, and "artefacts": transforms, reports, manifest
  features,     \* the selected splits, "metadata" and "artefacts"
  experiments,  \* the directories: <<model, second, suffix>> to their files, and how many
                \* trainings have taken them
  index,        \* the lines of experiment_index.csv, or None
  studies,      \* outputs/optimization
  agenda,       \* per worker the scripts still to run
  job,          \* per worker the script that runs, or None
  made,         \* per worker the call and the number of its last preprocessing
  number, second, kills, faults
stores == <<processed, features, experiments, index, studies>>
engineVars == <<place, raw, stores, agenda, job, made, number, second, kills, faults>>

scenario == Scenarios[place]

With(record, more) ==
  [f \in DOMAIN record \cup DOMAIN more |-> IF f \in DOMAIN more THEN more[f] ELSE record[f]]

\* A call is a workflow, or the one script run_optimization.
Scripts(call) ==
  IF call.steps = <<"optimize">> THEN <<[step |-> "optimize", model |-> "xgboost"]>>
  ELSE BuildPlan(call.steps, call.models)
Agenda(calls) ==
  FlattenSeq([k \in DOMAIN calls |->
    [i \in DOMAIN Scripts(calls[k]) |->
      With(Scripts(calls[k])[i], [call |-> k, goesOn |-> calls[k].goesOn])]])

Absent(parts) == [f \in ToSet(SplitNames) \cup parts |-> None]

EngineInit ==
  /\ place \in DOMAIN Scenarios /\ raw = 1
  /\ processed = Absent({"artefacts"}) /\ features = Absent({"metadata", "artefacts"})
  /\ experiments = <<>> /\ index = None /\ studies = <<>>
  /\ agenda = [w \in Workers |-> Agenda(scenario.calls[w])]
  /\ job = [w \in Workers |-> None] /\ made = [w \in Workers |-> <<0, 0>>]
  /\ number = 0 /\ second = 0 /\ kills = 0 /\ faults = 0

FirstStage(step) ==
  CASE step = "preprocess" -> "load"
    [] step \in {"features", "train", "optimize"} -> "read"
    [] step = "experiment_index" -> "collect"
    [] OTHER -> "elsewhere"

\* _run_step: the next script of the plan.
Start(w) ==
  /\ job[w] = None /\ agenda[w] # <<>>
  /\ agenda' = [agenda EXCEPT ![w] = Tail(@)] /\ number' = number + 1
  /\ LET item == Head(agenda[w])
     IN job' = [job EXCEPT ![w] = With(item, [ stage |-> FirstStage(item.step), number |-> number', read |-> <<>>,
                                               trials |-> <<>>, best |-> 0 ])]
  /\ UNCHANGED <<place, raw, stores, made, second, kills, faults>>

\* The scripts of a call come one after the other.
Rest(items, call) ==
  LET others == {i \in DOMAIN items : items[i].call # call}
  IN IF others = {} THEN <<>> ELSE SubSeq(items, Least(others), Len(items))

\* A script that fails ends the workflow it is of, unless --continue-on-error.
End(w, code) ==
  /\ job' = [job EXCEPT ![w] = None]
  /\ agenda' = [agenda EXCEPT ![w] =
       IF code = "ok" \/ job[w].goesOn THEN @ ELSE Rest(@, job[w].call)]
  /\ made' = [made EXCEPT ![w] = IF job[w].step = "preprocess" /\ code = "ok" THEN <<job[w].call, job[w].number>> ELSE @]

At(w, step, stage) == job[w] # None /\ job[w].step = step /\ job[w].stage = stage
InStage(w, stage) == job[w] # None /\ job[w].stage = stage
Go(w, stage, more) ==
  job' = [job EXCEPT ![w] = With([@ EXCEPT !.stage = stage], more)] /\ UNCHANGED <<agenda, made>>
Steady == UNCHANGED <<place, raw, number, second, kills, faults>>

\* The scripts that are not modelled here end one way or the other.
RunElsewhere(w) ==
  /\ InStage(w, "elsewhere")
  /\ \/ End(w, "ok") /\ UNCHANGED faults
     \/ faults < scenario.limits.faults /\ faults' = faults + 1 /\ End(w, "failed")
  /\ UNCHANGED <<place, raw, stores, number, second, kills>>

-----------------------------------------------------------------------------
(* run_preprocessing and run_feature_engineering.                          *)

Load(w) ==
  /\ At(w, "preprocess", "load") /\ Steady /\ UNCHANGED stores
  /\ \E table \in {CleanTable(scenario.histories[raw], scenario.cleaning)} :
       LET result == PrepareSplits(table)
       IN IF result = None THEN End(w, "failed") ELSE Go(w, "train", [result |-> result])

Following(stage) ==
  CASE stage = "train" -> "validation" [] stage = "validation" -> "test" [] stage = "test" -> "metadata"
    [] stage = "metadata" -> "artefacts"

WriteProcessedSplit(w, s) ==
  /\ At(w, "preprocess", s) /\ Steady
  /\ Go(w, IF s = "test" THEN "artefacts" ELSE Following(s), <<>>)
  /\ processed' = [processed EXCEPT ![s] = [number |-> job[w].number, frame |-> job[w].result.frames[s]]]
  /\ UNCHANGED <<features, experiments, index, studies>>

\* Encoder, scaler, label encoder, four reports and the manifest.
WriteTransforms(w) ==
  /\ At(w, "preprocess", "artefacts") /\ Steady /\ End(w, "ok")
  /\ processed' = [processed EXCEPT !["artefacts"] = [number |-> job[w].number, transforms |-> job[w].result.transforms]]
  /\ UNCHANGED <<features, experiments, index, studies>>

Needed(columns, frame) == ToSet(columns) \subseteq ToSet(FeatureColumns(frame))

\* _load_split and _load_splits, one file after the other: feature engineering
\* needs them all; training needs train, and of the others the columns of train.
ReadSplit(w) ==
  /\ InStage(w, "read") /\ Steady /\ UNCHANGED stores
  /\ LET s == SplitNames[Len(job[w].read) + 1]
         file == IF job[w].step = "features" THEN processed[s] ELSE features[s]
         lacks == /\ job[w].step # "features" /\ file \notin {None, Torn} /\ s # "train"
                  /\ ~Needed(FeatureColumns(job[w].read[1].frame), file.frame)
         next == IF s # "test" THEN "read"
                 ELSE CASE job[w].step = "features" -> "select"
                        [] job[w].step = "optimize" /\ job[w].best = 0 -> "trial"
                        [] OTHER -> "audit"
     IN IF file = Torn \/ (file = None /\ (job[w].step = "features" \/ s = "train")) \/ lacks
        THEN End(w, "failed")
        ELSE Go(w, next, [read |-> Append(job[w].read, file)])

SelectFeatures(w) ==
  /\ At(w, "features", "select") /\ Steady /\ UNCHANGED stores
  /\ LET read == job[w].read
         result == RunFeaturePipeline([s \in ToSet(SplitNames) |->
                     read[CHOOSE i \in 1..3 : SplitNames[i] = s].frame])
     IN IF result = None THEN End(w, "failed")
        ELSE Go(w, "train", [ result |-> result, read |-> <<>>,
                              from |-> [s \in ToSet(SplitNames) |-> read[CHOOSE i \in 1..3 : SplitNames[i] = s].number] ])

WriteFeatureSplit(w, s) ==
  /\ At(w, "features", s) /\ Steady /\ Go(w, Following(s), <<>>)
  /\ features' = [features EXCEPT ![s] = [number |-> job[w].from[s], frame |-> job[w].result.frames[s]]]
  /\ UNCHANGED <<processed, experiments, index, studies>>

\* feature_report.json and feature_metadata.json.
WriteMetadata(w) ==
  /\ At(w, "features", "metadata") /\ Steady /\ Go(w, "artefacts", <<>>)
  /\ features' = [features EXCEPT !["metadata"] = [retained |-> job[w].result.retained]]
  /\ UNCHANGED <<processed, experiments, index, studies>>

\* selected_features.json, removed_features.json and the selector.
WriteSelector(w) ==
  /\ At(w, "features", "artefacts") /\ Steady /\ End(w, "ok")
  /\ features' = [features EXCEPT !["artefacts"] = [selected |-> job[w].result.retained]]
  /\ UNCHANGED <<processed, experiments, index, studies>>

-----------------------------------------------------------------------------
(* train_model, and the same at the end of run_optimization.               *)

\* filter_provenance_names over retained_features; None when nothing is recorded,
\* and selected_features.json is never there alone.
ExpectedFeatures ==
  IF features["metadata"] = None THEN None
  ELSE SelectSeq(features["metadata"].retained, LAMBDA x : ~(x[2] = None /\ x[1] \in Provenance))

\* The assertions of train_model and audit_features.
AuditFeatures(read) ==
  LET columns == FeatureColumns(read[1].frame)
      holes == \E i \in {k \in 1..3 : read[k] # None} : \E x \in ToSet(columns) :
                 Missing \in Values(read[i].frame, x)
  IN /\ columns # <<>> /\ Len(read[1].frame.rows) > MinRows
     /\ ExpectedFeatures # None => columns = ExpectedFeatures
     /\ ~holes

Audit(w) ==
  /\ InStage(w, "audit") /\ Steady /\ UNCHANGED stores
  /\ IF features["metadata"] = Torn THEN End(w, "failed")
     ELSE IF AuditFeatures(job[w].read) THEN Go(w, "fit", [expected |-> ExpectedFeatures]) ELSE End(w, "failed")

\* What a model remembers: the script that trained it, the preprocessing its
\* splits are of, its columns, the trial its parameters are of, and the epochs.
Fit(w) ==
  /\ InStage(w, "fit") /\ Steady /\ UNCHANGED stores
  /\ \E losses \in IF job[w].model \in Deep THEN scenario.losses ELSE {<<>>} :
       LET read == job[w].read
           known == {i \in 1..3 : read[i] # None}
       IN Go(w, "name", [ read |-> <<>>, losses |-> losses,
                          content |-> [ by |-> job[w].number, from |-> {read[i].number : i \in known},
                                        columns |-> FeatureColumns(read[1].frame), trial |-> job[w].best,
                                        loop |-> TrainLoop(losses) ] ])

\* Mutant: the name of the second is taken whether it is free or not.
FirstName(model, t) == <<model, t, 0>>

\* candidate.exists(): the first name of the second that is free.
FreeName(model, t) ==
  <<model, t, Least({k \in 0..Cardinality(DOMAIN experiments) : <<model, t, k>> \notin DOMAIN experiments})>>

\* Time has passed, or not, since the last name was chosen.
NameExperiment(w) ==
  /\ InStage(w, "name") /\ second' \in second..scenario.limits.seconds /\ number' = number + 1
  /\ Go(w, "mkdir", [key |-> FreeName(job[w].model, second'), created |-> number'])
  /\ UNCHANGED <<place, raw, stores, kills, faults>>

\* ensure_dir takes a directory that has come to be in the meantime.
MakeDirectory(w) ==
  /\ InStage(w, "mkdir") /\ Steady /\ Go(w, "model", <<>>)
  /\ LET key == job[w].key
     IN experiments' = [k \in DOMAIN experiments \cup {key} |->
          IF k \in DOMAIN experiments THEN [experiments[k] EXCEPT !.makers = IF k = key THEN @ + 1 ELSE @]
          ELSE [model |-> None, metrics |-> None, manifest |-> None, makers |-> 1, born |-> number]]
  /\ UNCHANGED <<processed, features, index, studies>>

Manifest(w) ==
  [ run |-> job[w].key, created |-> job[w].created, content |-> job[w].content,
    study |-> IF job[w].step = "optimize" THEN job[w].number ELSE 0 ]
Contents(w, part) == IF part = "manifest" THEN Manifest(w) ELSE job[w].content

\* Mutant: the index is told before the manifest is there.
WriteExperimentIndexFirst(w, part) ==
  /\ InStage(w, part) /\ Steady
  /\ Go(w, CASE part = "model" -> "metrics" [] part = "metrics" -> "look" [] part = "manifest" -> "row", <<>>)
  /\ experiments' = [experiments EXCEPT ![job[w].key] = [@ EXCEPT ![part] = Contents(w, part)]]
  /\ UNCHANGED <<processed, features, index, studies>>

WriteExperiment(w, part) ==
  /\ InStage(w, part) /\ Steady
  /\ Go(w, CASE part = "model" -> "metrics" [] part = "metrics" -> "manifest" [] part = "manifest" -> "look", <<>>)
  /\ experiments' = [experiments EXCEPT ![job[w].key] = [@ EXCEPT ![part] = Contents(w, part)]]
  /\ UNCHANGED <<processed, features, index, studies>>

Row(manifest) == [run |-> manifest.run, created |-> manifest.created, by |-> manifest.content.by]

\* append_index_row looks whether the file is there before it opens it.
LookAtIndex(w) ==
  /\ InStage(w, "look") /\ Steady /\ UNCHANGED stores
  /\ Go(w, "row", [header |-> IF index = None THEN <<Header>> ELSE <<>>])

Finish(w) == IF job[w].step = "optimize" THEN Go(w, "summary", <<>>) ELSE End(w, "ok")

\* The row; an index that cannot be opened is only logged.
AppendRow(w) ==
  /\ InStage(w, "row") /\ Finish(w)
  /\ \/ /\ index' = (IF index = None THEN <<>> ELSE index) \o job[w].header \o <<Row(Manifest(w))>>
        /\ UNCHANGED faults
     \/ faults < scenario.limits.faults /\ faults' = faults + 1 /\ UNCHANGED index
  /\ UNCHANGED <<place, raw, processed, features, experiments, studies, number, second, kills>>

-----------------------------------------------------------------------------
(* run_optimization.                                                       *)

\* A trial fits the splits read at the start; it may fail, and Optuna goes on.
\* Without a validation split there is no objective.
RunTrial(w) ==
  /\ At(w, "optimize", "trial") /\ Len(job[w].trials) < NTrials /\ Steady /\ UNCHANGED stores
  /\ IF job[w].read[2] = None THEN End(w, "failed")
     ELSE \E value \in {Missing, 1, 2} : Go(w, "trial", [trials |-> Append(job[w].trials, value)])

\* study.best_trial: the first of the best.
BestTrial(trials) ==
  CHOOSE i \in DOMAIN trials : /\ trials[i] # Missing
                               /\ \A j \in DOMAIN trials : trials[j] # Missing =>
                                    trials[j] < trials[i] \/ (trials[j] = trials[i] /\ i <= j)

\* The best parameters are trained like any model: the splits are read again.
TrainFinalModel(w) ==
  /\ At(w, "optimize", "trial") /\ Len(job[w].trials) = NTrials /\ Steady /\ UNCHANGED stores
  /\ IF ToSet(job[w].trials) = {Missing} THEN End(w, "failed")
     ELSE Go(w, "read", [read |-> <<>>, best |-> BestTrial(job[w].trials)])

\* metadata, trials, best_params, best_trial and the summary.
WriteStudy(w) ==
  /\ At(w, "optimize", "summary") /\ Steady /\ End(w, "ok")
  /\ studies' = Append(studies, [ number |-> job[w].number, trials |-> job[w].trials, best |-> job[w].best,
                                  experiment |-> job[w].key ])
  /\ UNCHANGED <<processed, features, experiments, index>>

-----------------------------------------------------------------------------
(* build_experiment_index.                                                 *)

Readable == {k \in DOMAIN experiments : experiments[k].manifest \notin {None, Torn}}

\* The rows of the manifests that can be read, by the time of the experiments.
RowsOfManifests ==
  LET created == {experiments[k].manifest.created : k \in Readable}
      At1(i) == CHOOSE k \in Readable : Cardinality({t \in created : t < experiments[k].manifest.created}) = i - 1
  IN [i \in 1..Cardinality(Readable) |-> Row(experiments[At1(i)].manifest)]

CollectManifests(w) ==
  /\ At(w, "experiment_index", "collect") /\ Steady /\ UNCHANGED stores
  /\ Go(w, "truncate", [rows |-> RowsOfManifests, known |-> Readable])

\* The file is emptied when it is opened and filled when it is closed.
TruncateIndex(w) ==
  /\ At(w, "experiment_index", "truncate") /\ Steady /\ Go(w, "fill", <<>>)
  /\ index' = <<>> /\ UNCHANGED <<processed, features, experiments, studies>>

FillIndex(w) ==
  /\ At(w, "experiment_index", "fill") /\ Steady
  /\ index' = <<Header>> \o job[w].rows
  /\ End(w, IF job[w].rows = <<>> THEN "failed" ELSE "ok")
  /\ UNCHANGED <<processed, features, experiments, studies>>

-----------------------------------------------------------------------------
(* The surroundings.                                                       *)

Replace ==
  /\ raw < Len(scenario.histories) /\ raw' = raw + 1
  /\ UNCHANGED <<place, stores, agenda, job, made, number, second, kills, faults>>

\* A file that was being written is torn, or had not been opened.
Kill(w) ==
  /\ job[w] # None /\ kills < scenario.limits.kills /\ kills' = kills + 1 /\ End(w, "killed")
  /\ \/ UNCHANGED stores
     \/ /\ job[w].step = "preprocess" /\ job[w].stage \in DOMAIN processed
        /\ processed' = [processed EXCEPT ![job[w].stage] = Torn]
        /\ UNCHANGED <<features, experiments, index, studies>>
     \/ /\ job[w].step = "features" /\ job[w].stage \in DOMAIN features
        /\ features' = [features EXCEPT ![job[w].stage] = Torn]
        /\ UNCHANGED <<processed, experiments, index, studies>>
     \/ /\ job[w].step \in {"train", "optimize"} /\ job[w].stage \in {"model", "metrics", "manifest"}
        /\ experiments' = [experiments EXCEPT ![job[w].key] = [@ EXCEPT ![job[w].stage] = Torn]]
        /\ UNCHANGED <<processed, features, index, studies>>
  /\ UNCHANGED <<place, raw, number, second, faults>>

EngineNext ==
  \/ \E w \in Workers :
       \/ Start(w) \/ RunElsewhere(w) \/ Load(w) \/ WriteTransforms(w) \/ ReadSplit(w) \/ SelectFeatures(w)
       \/ WriteMetadata(w) \/ WriteSelector(w) \/ Audit(w) \/ Fit(w) \/ NameExperiment(w) \/ MakeDirectory(w)
       \/ LookAtIndex(w) \/ AppendRow(w) \/ RunTrial(w) \/ TrainFinalModel(w) \/ WriteStudy(w)
       \/ CollectManifests(w) \/ TruncateIndex(w) \/ FillIndex(w) \/ Kill(w)
       \/ \E s \in ToSet(SplitNames) : WriteProcessedSplit(w, s) \/ WriteFeatureSplit(w, s)
       \/ \E part \in {"model", "metrics", "manifest"} : WriteExperiment(w, part)
  \/ Replace

EngineSpec == EngineInit /\ [][EngineNext]_engineVars

-----------------------------------------------------------------------------
(* Properties.                                                             *)

\* Files, directories and jobs have the shape the scripts give them.
EngineTypeOK ==
  /\ \A s \in ToSet(SplitNames) :
       /\ processed[s] \in {None, Torn} \/ processed[s].number \in 1..number
       /\ features[s] \in {None, Torn} \/ features[s].number \in 1..number
  /\ \A k \in DOMAIN experiments : k[1] \in ToSet(MODELS) /\ k[2] \in 0..second /\ experiments[k].makers >= 1
  /\ \A w \in Workers : job[w] # None => job[w].number \in 1..number
  /\ index # None => \A i \in DOMAIN index : index[i] = Header \/ index[i].run \in DOMAIN experiments

\* What cleaning is for: whatever holes, infinities, twins and constant columns
\* the raw files have, a strategy that fills or drops holes leaves none of them
\* in any prepared split.
PreparedComplete ==
  \A w \in Workers : At(w, "preprocess", "train") /\ "none" \notin {scenario.cleaning.numbers, scenario.cleaning.words} =>
    \A s \in ToSet(SplitNames) :
      LET frame == job[w].result.frames[s]
      IN \A x \in ToSet(frame.columns) : Values(frame, x) \cap {Missing, Infinite} = {}

\* scaling.py and encoding.py: "fit on train only".  A scaled column has mean
\* zero over the training rows, and a category of the encoder occurs in them.
\* This is about the scaler and the encoder alone: the medians and modes that
\* fill holes are taken from all the rows before the split, so they do carry
\* something of the held-out rows, against audit.py ("fit imputers on the
\* training split only").
ScalerAndEncoderOfTraining ==
  \A w \in Workers : At(w, "preprocess", "train") =>
    LET train == job[w].result.frames["train"]
    IN \A x \in train.numeric :
         IF x[2] = None THEN Total(Present(train, x)) = 0 ELSE 1 \in Values(train, x)

\* A class of the held-out splits is one the label encoder has learned: -1,
\* which training would take for the first class, never comes out.
EveryClassLearned ==
  \A w \in Workers : At(w, "preprocess", "train") =>
    \A s \in ToSet(SplitNames) : \A i \in DOMAIN job[w].result.frames[s].rows :
      job[w].result.frames[s].rows[i].label >= 0

\* correlation.py: of the columns that are left no two say the same, whatever
\* chains of correlated columns there were, and none of them has one number in all
\* the rows of training.
KeptApart ==
  \A w \in Workers : At(w, "features", "train") =>
    LET kept == job[w].result.kept
        train == job[w].result.frames["train"]
        retained == job[w].result.retained
    IN /\ ToSet(retained) \subseteq ToSet(kept) /\ ToSet(kept) \subseteq ToSet(job[w].result.original)
       /\ \A i, j \in DOMAIN retained : i # j => ~Correlated(train, retained[i], retained[j])
       /\ \A x \in ToSet(retained) : \A v \in Values(train, x) :
            Values(train, x) = {v} => v = Missing \/ Len(train.rows) = 1

\* Columns are removed because another one stands for them: where a column
\* varies in training, one is left.
SomethingIsKept ==
  \A w \in Workers : At(w, "features", "select") =>
    LET train == job[w].read[1].frame
        original == FeatureColumns(train)
    IN (\E x \in ToSet(original) : Cardinality(Values(train, x) \ {Missing}) > 1) =>
         FitCorrelationFilter(train, FitVarianceThreshold(train, original)) # <<>>

\* feature_audit.py: a model is fitted on the columns feature engineering
\* recorded, the same ones in each split and without a hole, also when the
\* files come from two runs of it, one of them killed.
SplitsAgree ==
  \A w \in Workers : InStage(w, "fit") =>
    LET read == job[w].read
        columns == FeatureColumns(read[1].frame)
    IN /\ job[w].expected \in {None, columns}
       /\ \A i \in {k \in 1..3 : read[k] # None} : \A x \in ToSet(columns) :
            x \in ToSet(read[i].frame.columns) /\ Missing \notin Values(read[i].frame, x)

\* _train_loop: "restored best model".  No epoch that was run has a loss better
\* than the one whose weights are kept, by more than min_delta.
BestRestored ==
  \A w \in Workers : InStage(w, "name") =>
    LET loop == job[w].content.loop
        losses == SubSeq(job[w].losses, 1, loop.epochs)
    IN ToSet(losses) \ {Missing} # {} =>
         /\ losses[loop.weights] # Missing
         /\ \A e \in DOMAIN losses : losses[e] # Missing => losses[e] >= losses[loop.weights] - MinDelta

\* Training stops early exactly when the patience is used up since the best
\* epoch, not since the first bad one.
StopsAfterPatience ==
  \A w \in Workers : InStage(w, "name") =>
    LET loop == job[w].content.loop
        losses == SubSeq(job[w].losses, 1, loop.epochs)
        since == loop.epochs - IF ToSet(losses) \ {Missing} = {} THEN 0 ELSE loop.weights
    IN since <= Patience /\ (loop.epochs < Len(job[w].losses) => since = Patience)

\* A call writes splits; it prepares, selects and goes no further than its first
\* failure; and nobody else writes any.
Prepares(call) == call.steps = <<>> \/ ToSet(call.steps) \cap {"all", "preprocess", "features"} # {}
PreparesBoth(call) ==
  call.steps = <<>> \/ "all" \in ToSet(call.steps) \/ {"preprocess", "features"} \subseteq ToSet(call.steps)
Strict(w, call) ==
  /\ PreparesBoth(call) /\ ~call.goesOn
  /\ \A v \in Workers \ {w} : \A k \in DOMAIN scenario.calls[v] : ~Prepares(scenario.calls[v][k])

\* A workflow that prepares, selects and trains and stops at a failure trains on
\* what it has prepared itself, whatever lay there before and whatever is killed,
\* when nobody else writes splits.
TrainedOnFresh ==
  \A w \in Workers : InStage(w, "name") =>
    (Strict(w, scenario.calls[w][job[w].call]) =>
       made[w][1] = job[w].call /\ job[w].content.from = {made[w][2]})

\* An experiment with a manifest has the model and the metrics it speaks of,
\* when one training had the directory to itself.
ManifestWhole ==
  \A k \in Readable : experiments[k].makers = 1 =>
    experiments[k].model = experiments[k].manifest.content /\ experiments[k].metrics = experiments[k].manifest.content

\* trainer.py: "a unique, never-overwritten directory".  Once a directory has a
\* manifest, only a training that chose its name before the directory was there
\* changes anything in it.
FinishedStays ==
  [][\A k \in DOMAIN experiments : experiments[k].manifest # None =>
       /\ k \in DOMAIN experiments'
       /\ experiments'[k] # experiments[k] =>
            \E w \in Workers : /\ job[w] # None /\ "key" \in DOMAIN job[w]
                              /\ job[w].key = k /\ job[w].created <= experiments[k].born]_engineVars

\* experiment_index.py: "rows are always derived from manifests (the single
\* source of truth)": a row is of a run whose manifest is there.
RowsHaveManifests ==
  index # None => \A i \in DOMAIN index : index[i] # Header => experiments[index[i].run].manifest # None

\* rebuild_index "repairs a diverged index": unless a run has finished in the
\* meantime, each readable manifest is listed once, the oldest first, whatever
\* rows were lost, doubled or out of place, and unreadable manifests are left out.
RebuildRestores ==
  [][\A w \in Workers :
       At(w, "experiment_index", "fill") /\ job'[w] = None /\ index' # index /\ job[w].known = Readable =>
         /\ index'[1] = Header /\ Len(index') = Cardinality(Readable) + 1
         /\ {index'[i].run : i \in 2..Len(index')} = Readable
         /\ \A i, j \in 2..Len(index') : i < j => index'[i].created < index'[j].created]_engineVars

\* A study names the experiment of its best trial: its model was trained with the
\* parameters no completed trial was better than, and its manifest says so, when
\* one training had the directory to itself.
StudyNamesItsModel ==
  \A i \in DOMAIN studies :
    LET study == studies[i]
        experiment == experiments[study.experiment]
    IN experiment.makers = 1 =>
         /\ \A t \in DOMAIN study.trials :
              study.trials[t] # Missing => study.trials[t] <= study.trials[experiment.model.trial]
         /\ experiment.manifest.study = study.number /\ experiment.manifest.content = experiment.model

\* Prepared splits have no holes, are scaled and encoded by what the training
\* rows say, and have no class that is not known.
PreparedSound == PreparedComplete /\ ScalerAndEncoderOfTraining /\ EveryClassLearned

\* Selection leaves columns that do not say the same, and never none.
SelectionSound == KeptApart /\ SomethingIsKept

\* In a workflow that stops at failures and has the prepared data to itself a
\* training has its splits from one preparation; any training keeps its best epoch.
TrainingSound == SplitsAgree /\ TrainedOnFresh /\ BestRestored /\ StopsAfterPatience

\* Experiments, their index and the studies describe one another.
StoreSound == EngineTypeOK /\ ManifestWhole /\ RowsHaveManifests /\ StudyNamesItsModel

\* What was finished stays, and a rebuild of the index lists all of it.
StoreKept == FinishedStays /\ RebuildRestores
=============================================================================
