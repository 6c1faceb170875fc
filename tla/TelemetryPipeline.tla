--------------------------- MODULE TelemetryPipeline ---------------------------
(***************************************************************************)
(* Engine B as its four scripts run it: a raw export becomes a canonical   *)
(* CSV, is validated, preprocessed into splits and trained on.  Each       *)
(* script writes its files one by one and may be killed between them, or   *)
(* while it writes one; the raw export may change between two scripts.     *)
(***************************************************************************)
EXTENDS TelemetryPreparation

CONSTANTS
  Torn,          \* a file cut off while it was written
  None,
  Histories,     \* what may come to lie at the source_paths: sequences of functions
                 \* from the datasets to an export or None
  MaxJobs, MaxKills, MaxSeconds

Datasets == DOMAIN Definitions

ASSUME PipelineAssumption ==
  /\ {MaxJobs, MaxKills, MaxSeconds} \subseteq Nat
  /\ \A h \in Histories :
       /\ h # <<>> /\ Listed(h)
       /\ \A i \in DOMAIN h :
            DOMAIN h[i] = Datasets /\ \A d \in Datasets : h[i][d] # None => CSVFile(Definitions[d], h[i][d])

VARIABLES
  history,     \* what lies at the source_paths, and what will replace it
  csv,         \* per dataset the canonical file at output_path, or None
  adapted,     \* per dataset adapter_report.json
  validation,  \* validation/validation_report.json, one for all the datasets
  processed,   \* per dataset and split the file; "manifest" is preprocessing_manifest.json
  experiments, \* the experiment directories: [dataset, second, suffix, model, metrics, manifest]
  report,      \* reports/network_health_report.md
  job,         \* the script that runs: [stage, dataset, ...], or None
  exit,        \* how the last one ended: ok, failed (it said so), raised or killed
  second, jobs, kills
files == <<csv, adapted, validation, processed, experiments, report>>
telemetryVars == <<history, files, job, exit, second, jobs, kills>>

raw == Head(history)
NoSplits == [f \in ToSet(SplitNames) \cup {"manifest"} |-> None]

TelemetryInit ==
  /\ history \in Histories
  /\ csv = [d \in Datasets |-> None] /\ adapted = [d \in Datasets |-> None]
  /\ validation = None /\ processed = [d \in Datasets |-> NoSplits]
  /\ experiments = <<>> /\ report = None /\ job = None /\ exit = "ok"
  /\ second = 0 /\ jobs = 0 /\ kills = 0

Begin(first) == job' = first /\ exit' = "ok"
Continue(stage) == job' = [job EXCEPT !.stage = stage] /\ UNCHANGED exit
End(how) == job' = None /\ exit' = how
Started == job = None /\ jobs < MaxJobs /\ jobs' = jobs + 1 /\ UNCHANGED <<history, second, kills>>
At(script, stage) == job # None /\ job.script = script /\ job.stage = stage
Running(script, stage) == At(script, stage) /\ UNCHANGED <<history, second, jobs, kills>>

-----------------------------------------------------------------------------
(* prepare_network_health_dataset                                          *)

Prepare(d) ==
  /\ Started /\ UNCHANGED files
  /\ IF raw[d] = None \/ Adapt(Definitions[d], raw[d]) = Missing THEN End("failed")
     ELSE Begin([ script |-> "prepare", stage |-> "canonical", dataset |-> d,
                  frame |-> Adapt(Definitions[d], raw[d]), report |-> AdapterReport(Definitions[d], raw[d]) ])

WriteCanonical ==
  /\ Running("prepare", "canonical") /\ Continue("report")
  /\ csv' = [csv EXCEPT ![job.dataset] = job.frame]
  /\ UNCHANGED <<adapted, validation, processed, experiments, report>>

WriteAdapterReport ==
  /\ Running("prepare", "report") /\ End("ok")
  /\ adapted' = [adapted EXCEPT ![job.dataset] = job.report]
  /\ UNCHANGED <<csv, validation, processed, experiments, report>>

-----------------------------------------------------------------------------
(* validate_network_health                                                 *)

Validate(d) ==
  /\ Started /\ UNCHANGED <<csv, adapted, processed, experiments, report>>
  /\ CASE csv[d] = None -> End("failed") /\ UNCHANGED validation
       [] csv[d] # None /\ ValidationRaises(csv[d]) -> End("raised") /\ UNCHANGED validation
       [] OTHER -> /\ validation' = ValidateTelemetry(d, csv[d])
                   /\ End(IF validation'.passed THEN "ok" ELSE "failed")

-----------------------------------------------------------------------------
(* run_network_health_preprocessing: it does not ask what validation said. *)

Preprocess(d) ==
  /\ Started /\ UNCHANGED files
  /\ IF csv[d] = None THEN End("failed")
     ELSE Begin([ script |-> "preprocess", stage |-> "train", dataset |-> d,
                  rows |-> Prepared(csv[d]), all |-> Len(csv[d].rows), number |-> jobs' ])

NextOf(stage) ==
  CASE stage = "train" -> "validation" [] stage = "validation" -> "test" [] stage = "test" -> "manifest"

\* Mutant: the manifest is written before the splits.
WriteSplitAfterManifest(s) ==
  /\ Running("preprocess", s) /\ Continue(NextOf(s))
  /\ processed' = [processed EXCEPT
       ![job.dataset][s] = [number |-> job.number, rows |-> ChronologicalSplit(job.rows)[s]],
       ![job.dataset]["manifest"] =
         [ number |-> job.number, raw |-> job.all, rows |-> Len(job.rows),
           splits |-> [n \in ToSet(SplitNames) |-> Len(ChronologicalSplit(job.rows)[n])] ]]
  /\ UNCHANGED <<csv, adapted, validation, experiments, report>>

WriteSplit(s) ==
  /\ Running("preprocess", s) /\ Continue(NextOf(s))
  /\ processed' = [processed EXCEPT
       ![job.dataset][s] = [number |-> job.number, rows |-> ChronologicalSplit(job.rows)[s]]]
  /\ UNCHANGED <<csv, adapted, validation, experiments, report>>

WritePreprocessingManifest ==
  /\ Running("preprocess", "manifest") /\ End("ok")
  /\ processed' = [processed EXCEPT ![job.dataset]["manifest"] =
       [ number |-> job.number, raw |-> job.all, rows |-> Len(job.rows),
         splits |-> [s \in ToSet(SplitNames) |-> Len(ChronologicalSplit(job.rows)[s])] ]]
  /\ UNCHANGED <<csv, adapted, validation, experiments, report>>

-----------------------------------------------------------------------------
(* train_network_health_model                                              *)

Present(d) == {s \in ToSet(SplitNames) : processed[d][s] # None}

\* The features of the splits that are there.
Train(d) ==
  /\ Started /\ UNCHANGED files
  /\ CASE processed[d]["train"] = None -> End("failed")
       [] processed[d]["train"] # None /\ (\E s \in Present(d) : processed[d][s] = Torn) -> End("raised")
       [] OTHER -> Begin([ script |-> "train", stage |-> "fit", dataset |-> d,
                           splits |-> [s \in Present(d) |-> processed[d][s].rows],
                           features |-> [s \in Present(d) |-> BuildFeatures(processed[d][s].rows)] ])

\* Healthy rows teach the model where there are labels and healthy rows.
Labelled(rows) == rows # <<>> /\ "label" \in DOMAIN rows[1]
Taught(rows) ==
  LET healthy == {i \in DOMAIN rows : Labelled(rows) /\ rows[i].label = 0}
  IN IF healthy = {} THEN DOMAIN rows ELSE healthy

\* The isolation forest, from outside: how many of its numbers lie beyond those
\* of the rows it was fitted on.
Score(train, taught, row) ==
  Cardinality({c \in DOMAIN row.value :
    \/ \A i \in taught : train[i].value[c] < row.value[c]
    \/ \A i \in taught : train[i].value[c] > row.value[c]})
  + IF \A i \in taught : train[i].delta < row.delta THEN 1 ELSE 0

\* The 0.99 quantile of the scores of all the rows of the split.
Threshold(train) ==
  Quantile([i \in DOMAIN train |-> Score(train, Taught(train), train[i])], 99, 100)
Flagged(train, rows) == {i \in DOMAIN rows : 100 * Score(train, Taught(train), rows[i]) > Threshold(train)}

Metrics(splits) ==
  [s \in {n \in DOMAIN splits : splits[n] # <<>>} |->
     [ n |-> Len(splits[s]), flagged |-> Cardinality(Flagged(splits["train"], splits[s])),
       mode |-> IF Labelled(splits["train"]) THEN "labeled" ELSE "unlabeled" ]]

\* An empty split cannot be fitted, a label that is missing not be counted.
Fit ==
  /\ Running("train", "fit") /\ UNCHANGED files
  /\ LET train == job.splits["train"]
         holes == Labelled(train) /\ \E s \in DOMAIN job.splits :
                    \E i \in DOMAIN job.splits[s] : job.splits[s][i].label = Missing
     IN IF train = <<>> \/ holes THEN End("raised")
        ELSE /\ job' = [script |-> "train", stage |-> "create", dataset |-> job.dataset, splits |-> job.splits,
                        metrics |-> Metrics(job.splits), threshold |-> Threshold(train)]
             /\ UNCHANGED exit

\* The first free name of the second t.
Suffix(d, t) == Cardinality({i \in DOMAIN experiments : experiments[i].dataset = d /\ experiments[i].second = t})
Fresh(d, t, suffix) ==
  [dataset |-> d, second |-> t, suffix |-> suffix, model |-> None, metrics |-> None, manifest |-> None]

\* Mutant: an experiment of the same second is taken over.
CreateOrReuseExperiment ==
  /\ At("train", "create") /\ second' \in second..MaxSeconds
  /\ experiments' = IF Suffix(job.dataset, second') > 0
                    THEN [experiments EXCEPT ![Len(experiments)] = Fresh(job.dataset, second', 0)]
                    ELSE Append(experiments, Fresh(job.dataset, second', 0))
  /\ Continue("model") /\ UNCHANGED <<csv, adapted, validation, processed, report, history, jobs, kills>>

\* Time has passed, or not, since the last directory was made.
CreateExperiment ==
  /\ At("train", "create") /\ second' \in second..MaxSeconds
  /\ experiments' = Append(experiments, Fresh(job.dataset, second', Suffix(job.dataset, second')))
  /\ Continue("model") /\ UNCHANGED <<csv, adapted, validation, processed, report, history, jobs, kills>>

Contents(part) ==
  CASE part = "model" -> job.threshold
    [] part = "metrics" -> job.metrics
    [] part = "manifest" -> [threshold |-> job.threshold, metrics |-> job.metrics]

WriteExperiment(part) ==
  /\ Running("train", part)
  /\ experiments' = [experiments EXCEPT ![Len(experiments)] = [@ EXCEPT ![part] = Contents(part)]]
  /\ Continue(CASE part = "model" -> "metrics" [] part = "metrics" -> "manifest" [] part = "manifest" -> "report")
  /\ UNCHANGED <<csv, adapted, validation, processed, report>>

\* The report reads the manifest of the splits again and the validation report
\* that is there, whichever dataset it is of.
WriteReport ==
  /\ Running("train", "report") /\ UNCHANGED <<csv, adapted, validation, processed, experiments>>
  /\ LET manifest == processed[job.dataset]["manifest"]
     IN IF manifest \in {None, Torn} THEN End("raised") /\ UNCHANGED report
        ELSE /\ report' = [ dataset |-> job.dataset, experiment |-> Len(experiments), manifest |-> manifest,
                            metrics |-> job.metrics, validation |-> validation ]
             /\ End("ok")

-----------------------------------------------------------------------------
(* The surroundings.                                                       *)

Export ==
  /\ Len(history) > 1 /\ history' = Tail(history)
  /\ UNCHANGED <<files, job, exit, second, jobs, kills>>

\* A canonical file that was being written keeps the rows written so far, any
\* other one is of no use.
Kill ==
  /\ job # None /\ kills < MaxKills /\ kills' = kills + 1 /\ End("killed")
  /\ \/ UNCHANGED files
     \/ /\ At("prepare", "canonical")
        /\ \E n \in 1..Len(job.frame.rows) :
             csv' = [csv EXCEPT ![job.dataset] = [job.frame EXCEPT !.rows = SubSeq(@, 1, n)]]
        /\ UNCHANGED <<adapted, validation, processed, experiments, report>>
     \/ /\ job.script = "preprocess"
        /\ processed' = [processed EXCEPT ![job.dataset][job.stage] = Torn]
        /\ UNCHANGED <<csv, adapted, validation, experiments, report>>
     \/ /\ job.script = "train" /\ job.stage \in {"model", "metrics", "manifest"}
        /\ experiments' = [experiments EXCEPT ![Len(experiments)] = [@ EXCEPT ![job.stage] = Torn]]
        /\ UNCHANGED <<csv, adapted, validation, processed, report>>
  /\ UNCHANGED <<history, second, jobs>>

TelemetryNext ==
  \/ \E d \in Datasets : Prepare(d) \/ Validate(d) \/ Preprocess(d) \/ Train(d)
  \/ WriteCanonical \/ WriteAdapterReport
  \/ \E s \in ToSet(SplitNames) : WriteSplit(s)
  \/ WritePreprocessingManifest
  \/ Fit \/ CreateExperiment
  \/ \E part \in {"model", "metrics", "manifest"} : WriteExperiment(part)
  \/ WriteReport \/ Kill \/ Export

TelemetrySpec == TelemetryInit /\ [][TelemetryNext]_telemetryVars

-----------------------------------------------------------------------------
(* Properties.                                                             *)

\* Files and jobs have the shape the scripts give them.
TelemetryTypeOK ==
  /\ \A d \in Datasets :
       /\ csv[d] = None \/ ToSet(Core) \subseteq csv[d].columns
       /\ DOMAIN processed[d] = ToSet(SplitNames) \cup {"manifest"}
  /\ \A i \in DOMAIN experiments : experiments[i].dataset \in Datasets /\ experiments[i].second \in 0..second
  /\ job # None => job.script \in {"prepare", "preprocess", "train"} /\ job.dataset \in Datasets
  /\ exit \in {"ok", "failed", "raised", "killed"}

\* adapters.py warns of times it cannot parse and leaves them to validation:
\* telemetry with such a time does not pass it.
BadTimesAreFlagged ==
  At("prepare", "canonical") /\ job.report.badTimes > 0 => ~Passed(Issues(job.frame))

\* What validation leaves to preprocessing ("removed in", "clipped in
\* preprocessing") is mended there, whatever came in: the same checks find
\* nothing of the kind in the prepared rows.
AsFrame(rows) ==
  [ columns |-> Required \cap ToSet(Core \o Optional),
    rows |-> [i \in DOMAIN rows |-> [c \in Required |->
      CASE c = "timestamp" -> rows[i].time [] c = "device_id" -> rows[i].series[1]
        [] c = "interface_id" -> rows[i].series[2] [] c = Status -> rows[i].status
        [] OTHER -> rows[i].value[c]]] ]
WarningsAreMended ==
  job # None /\ job.script = "preprocess" /\ Required \subseteq csv[job.dataset].columns =>
    {x[2] : x \in Issues(AsFrame(job.rows))} \subseteq {"missing_values", "counter_monotonicity"}

\* The sum of the deltas of a series, row by row.
DeltaSum(rows, x) == FoldLeft(LAMBDA total, r : IF r.series = x THEN total + r.delta ELSE total, 0, rows)

\* The growth of a counter is counted once: in telemetry that passes
\* validation, the deltas of a series without a reset add up to what lies
\* between its first and its last reading, however many series, duplicates and
\* holes there are.
DeltasAddUp ==
  LET rows == job.rows
      Of(x) == {i \in DOMAIN rows : rows[i].series = x}
      Steady(x) == \A i, j \in Of(x) : i < j => rows[i].value[Counter] <= rows[j].value[Counter]
  IN job # None /\ job.script = "preprocess" /\ Has(csv[job.dataset], Counter) /\ Passed(Issues(csv[job.dataset])) =>
       \A x \in {rows[i].series : i \in DOMAIN rows} :
         Steady(x) => DeltaSum(rows, x) = rows[Largest(Of(x))].value[Counter] - rows[Smallest(Of(x))].value[Counter]

\* The splits of one preprocessing hold its rows and follow one another in
\* time, for all the series together.
SplitNeverGoesBack ==
  \A d \in Datasets :
    LET p == processed[d]
        whole == {f \in DOMAIN p : p[f] \notin {None, Torn}} = DOMAIN p
    IN whole /\ Cardinality({p[f].number : f \in DOMAIN p}) = 1 =>
         /\ p["manifest"].rows = Len(p["train"].rows) + Len(p["validation"].rows) + Len(p["test"].rows)
         /\ \A a, b \in 1..3 : a < b =>
              \A i \in DOMAIN p[SplitNames[a]].rows, j \in DOMAIN p[SplitNames[b]].rows :
                p[SplitNames[a]].rows[i].time < p[SplitNames[b]].rows[j].time

\* The manifest is the last file: when it is there, so are the splits it
\* counts, or later ones.
ManifestDescribesSplits ==
  \A d \in Datasets : processed[d]["manifest"] \notin {None, Torn} =>
    \A s \in ToSet(SplitNames) :
      /\ processed[d][s] # None
      /\ processed[d][s] # Torn =>
           /\ processed[d][s].number >= processed[d]["manifest"].number
           /\ processed[d][s].number = processed[d]["manifest"].number =>
                Len(processed[d][s].rows) = processed[d]["manifest"].splits[s]

\* Of the readings with the same key the first one counts.
FirstOfKey(file, k) == \A m \in 1..(k-1) : Key(file[m]) # Key(file[k])

\* Row "from" of the file has the number of column c for a row of this series
\* and time; it is a later one only when no reading up to then has the number.
TakenRightly(file, c, from, series, time) ==
  /\ from \in DOMAIN file /\ Series(file[from]) = series /\ file[from][c] \in Int
  /\ file[from]["timestamp"] > time =>
       \A k \in DOMAIN file :
         /\ FirstOfKey(file, k) /\ Series(file[k]) = series
         /\ file[k]["timestamp"] \in Int /\ file[k]["timestamp"] <= time
         => file[k][c] \notin Int

\* Every number of a prepared row is one that its own series has in the file,
\* whatever the duplicates and the order of the rows, and a later reading gives
\* it only where there is none before.  Such numbers do come from the future, and
\* over the boundaries of the splits, as the back-fill runs before the split:
\* that "no future information leaks into training" is not claimed.
NumbersFromSeries ==
  job # None /\ job.script = "preprocess" =>
    \A i \in DOMAIN job.rows : \A c \in DOMAIN job.rows[i].value :
      TakenRightly(csv[job.dataset].rows, c, job.rows[i].from[c], job.rows[i].series, job.rows[i].time)

\* features.py: "computed per (device, interface) series", "strictly causal".
\* Whatever rows a split has, a lag of a row is computed from an earlier row of
\* its series; a window from the row itself and earlier ones of its series
\* where the interfaces are in order.  Where they are not, rows get the windows
\* of other series.
FeaturesLookBack ==
  At("train", "fit") => \A s \in DOMAIN job.splits : \A i \in DOMAIN job.splits[s] :
    LET rows == job.splits[s]
        f == job.features[s][i]
        Past(j) == rows[j].series = rows[i].series /\ rows[j].time <= rows[i].time
    IN /\ InterfacesInOrder(rows) => \A w \in Windows : i \in f.rolling[w] /\ \A j \in f.rolling[w] : Past(j)
       /\ \A n \in Lags : f.lag[n] # 0 => Past(f.lag[n]) /\ rows[f.lag[n]].time < rows[i].time

\* The threshold is a budget of alarms: of up to a hundred training rows at most
\* one is flagged, however few of them the model was fitted on.
AlarmBudget ==
  At("train", "create") /\ job.metrics["train"].n <= 100 => job.metrics["train"].flagged <= 1

\* An experiment with a manifest has its model and the metrics the manifest
\* speaks of, and no other one its name.
ExperimentWhole ==
  \A i \in DOMAIN experiments :
    LET e == experiments[i]
    IN /\ e.manifest \notin {None, Torn} => e.model = e.manifest.threshold /\ e.metrics = e.manifest.metrics
       /\ \A j \in DOMAIN experiments : j # i =>
            <<e.dataset, e.second, e.suffix>> # <<experiments[j].dataset, experiments[j].second, experiments[j].suffix>>

\* artifacts.py: "never overwrite an experiment".  Once it has its manifest it
\* stays as it is, also when the next training starts in the same second.
ExperimentsKept ==
  [][\A i \in DOMAIN experiments :
       experiments[i].manifest # None => i \in DOMAIN experiments' /\ experiments'[i] = experiments[i]]_telemetryVars

\* The rows of Engine B, from the warnings of the adapters to the features of
\* the model: what is wrong with them is flagged or mended, their numbers are
\* those of their series, splits follow one another and features look back.
RowsSound ==
  /\ BadTimesAreFlagged /\ WarningsAreMended /\ NumbersFromSeries /\ DeltasAddUp
  /\ SplitNeverGoesBack /\ FeaturesLookBack

\* What lies on the disk can be believed: files keep their types, manifests
\* describe what is beside them, the threshold is the budget it is said to be.
ArtefactsSound == TelemetryTypeOK /\ ManifestDescribesSplits /\ ExperimentWhole /\ AlarmBudget
=============================================================================
