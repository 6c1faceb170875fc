----------------------------- MODULE ModelRegistry -----------------------------
(***************************************************************************)
(* The file-based model registry: registry.json, best_per_dataset.json and *)
(* production.json, written by two command-line programs that take no lock *)
(* (build_model_registry and promote_model) from the experiment manifests  *)
(* that training runs leave on disk.                                       *)
(*                                                                         *)
(* write_json truncates its target and then fills it, so every file has a  *)
(* "torn" state that a reader or a crash can meet; a torn file cannot be   *)
(* parsed.  A command is a writer process that takes one step per file it  *)
(* reads, opens or fills, so that training runs, other commands and        *)
(* crashes fall between any two of them.                                   *)
(*                                                                         *)
(* entries[e] is the status of experiment e in registry.json, None when it *)
(* has no entry; it keeps the last contents of a torn file, which nobody   *)
(* reads.  The status "staging" is left out: the code treats it as it      *)
(* treats "candidate".  The selection metric is test_f1, its default.      *)
(***************************************************************************)
EXTENDS Naturals, FiniteSets

CONSTANTS
  Experiments,         \* experiment ids; numbers, because ids are compared
  Datasets,
  Models,              \* model types
  DatasetOf,           \* dataset_id of each manifest
  ModelOf,             \* model_name of each manifest
  TestF1,              \* test_f1 of each manifest, None when not recorded
  Optimized,           \* the runs whose provenance is "optimization"
  Writers,             \* the operators that run registry commands
  None,
  Exclusive,           \* TRUE: the documented single-writer discipline holds
  HigherIsBetter,      \* registry.higher_is_better
  RequireTestMetrics,  \* registry.require_test_metrics
  AllowOptimized,      \* registry.allow_optimized_models
  MaxCrashes,          \* bound on crashes of commands and training runs
  MaxEdits             \* bound on manual edits of the disk and the registry

ASSUME IdsAssumption == Experiments \subseteq Nat
ASSUME NoneAssumption ==
  /\ None \notin Experiments
  /\ None \notin Datasets
  /\ None \notin {"candidate", "production", "archived"}
ASSUME ManifestAssumption ==
  /\ DatasetOf \in [Experiments -> Datasets]
  /\ ModelOf \in [Experiments -> Models]
  /\ TestF1 \in [Experiments -> Nat \cup {None}]
  /\ Optimized \subseteq Experiments
ASSUME PolicyAssumption ==
  {Exclusive, HigherIsBetter, RequireTestMetrics, AllowOptimized} \subseteq BOOLEAN
ASSUME BoundsAssumption == MaxCrashes \in Nat /\ MaxEdits \in Nat

VARIABLES
  manifest,    \* manifest.json of each experiment
  model,       \* does model.joblib of each experiment exist?
  file,        \* state of each of the three registry files
  entries,     \* registry.json
  best,        \* best_per_dataset.json
  production,  \* production.json
  open,        \* the writers that have a file open for writing
  mixed,       \* a file was opened by two writers at once
  pc,          \* where each writer stands in its command
  ds,          \* dataset of a promotion, None in a rebuild
  target,      \* experiment a promotion promotes
  doc,         \* registry document in the writer's memory
  seen,        \* production.json as the writer read it
  todo,        \* manifests a rebuild still has to read
  interrupted, \* a command died between two writes, and no rebuild ended since
  crashes,
  edits

disk == <<manifest, model>>
files == <<file, entries, best, production, open, mixed>>
memory == <<ds, target, doc, seen, todo>>
bounds == <<crashes, edits>>
vars == <<disk, files, pc, memory, interrupted, bounds>>

Statuses == {"candidate", "production", "archived"}
Files == {"registry", "best", "production"}
Documents == [Experiments -> Statuses \cup {None}]
Assignments == [Datasets -> Experiments \cup {None}]
NoEntries == [e \in Experiments |-> None]
NoAssignment == [d \in Datasets |-> None]

Ended == {"idle", "failed", "crashed"}
Running == {"load_registry", "load_production", "glob", "scan",
            "open_registry", "write_registry", "open_best", "write_best",
            "check_production", "open_production", "write_production"}

TypeOK ==
  /\ manifest \in [Experiments -> {"absent", "writing", "torn", "ok"}]
  /\ model \in [Experiments -> BOOLEAN]
  /\ file \in [Files -> {"absent", "torn", "ok"}]
  /\ entries \in Documents
  /\ best \in Assignments
  /\ production \in Assignments
  /\ open \in [Files -> SUBSET Writers]
  /\ mixed \in [Files -> BOOLEAN]
  /\ pc \in [Writers -> Ended \cup Running]
  /\ ds \in [Writers -> Datasets \cup {None}]
  /\ target \in [Writers -> Experiments \cup {None}]
  /\ doc \in [Writers -> Documents]
  /\ seen \in [Writers -> Assignments]
  /\ todo \in [Writers -> SUBSET Experiments]
  /\ interrupted \in BOOLEAN
  /\ crashes \in 0..MaxCrashes
  /\ edits \in 0..MaxEdits

Init ==
  /\ manifest = [e \in Experiments |-> "absent"]
  /\ model = [e \in Experiments |-> FALSE]
  /\ file = [f \in Files |-> "absent"]
  /\ entries = NoEntries
  /\ best = NoAssignment
  /\ production = NoAssignment
  /\ open = [f \in Files |-> {}]
  /\ mixed = [f \in Files |-> FALSE]
  /\ pc = [w \in Writers |-> "idle"]
  /\ ds = [w \in Writers |-> None]
  /\ target = [w \in Writers |-> None]
  /\ doc = [w \in Writers |-> NoEntries]
  /\ seen = [w \in Writers |-> NoAssignment]
  /\ todo = [w \in Writers |-> {}]
  /\ interrupted = FALSE
  /\ crashes = 0
  /\ edits = 0

-----------------------------------------------------------------------------
(* Selection policies. *)

\* filter_registrable: the configured registration policy.
Registrable(e) ==
  /\ RequireTestMetrics => TestF1[e] # None
  /\ AllowOptimized \/ e \notin Optimized

\* The comparison of select_best_per_dataset, ties broken by the smaller id.
Beats(e, f) ==
  \/ HigherIsBetter /\ TestF1[e] > TestF1[f]
  \/ ~HigherIsBetter /\ TestF1[e] < TestF1[f]
  \/ TestF1[e] = TestF1[f] /\ e < f

\* Mutant: the best one is sought among archived entries as well.
ComparableArchived(entry, d) ==
  {e \in Experiments : DatasetOf[e] = d /\ entry[e] # None /\ TestF1[e] # None}

\* The entries of a dataset that select_best_per_dataset compares.
Comparable(entry, d) ==
  {e \in Experiments : /\ DatasetOf[e] = d
                       /\ entry[e] \notin {None, "archived"}
                       /\ TestF1[e] # None}

Unbeaten(entry, d) ==
  {e \in Comparable(entry, d) : \A f \in Comparable(entry, d) \ {e} : Beats(e, f)}

SelectBest(entry, d) ==
  IF Unbeaten(entry, d) = {} THEN None ELSE CHOOSE e \in Unbeaten(entry, d) : TRUE

\* The entries promote_model chooses from when it is given no experiment id.
Candidates(entry, d, m) ==
  {e \in Experiments : /\ DatasetOf[e] = d
                       /\ ModelOf[e] = m
                       /\ entry[e] \notin {None, "archived"}}

\* Mutant: the sort key without its minus sign.
AheadAscending(e, f) ==
  LET Rank(x) == IF TestF1[x] = None THEN 0 ELSE TestF1[x] IN
  Rank(e) < Rank(f) \/ (Rank(e) = Rank(f) /\ e < f)

\* Its sort key: -(metric or -inf), then the id.  A missing metric and a
\* metric of 0.0 are both falsy, and both sort last.
Ahead(e, f) ==
  LET Unranked(x) == TestF1[x] \in {None, 0} IN
  \/ ~Unranked(e) /\ Unranked(f)
  \/ ~Unranked(e) /\ ~Unranked(f) /\ TestF1[e] > TestF1[f]
  \/ /\ \/ Unranked(e) /\ Unranked(f)
        \/ TestF1[e] = TestF1[f]
     /\ e < f

FirstRanked(entry, d, m) ==
  {e \in Candidates(entry, d, m) : \A f \in Candidates(entry, d, m) \ {e} : Ahead(e, f)}

-----------------------------------------------------------------------------
(* write_json: open(target, "w") truncates the file, json.dump fills it.   *)
(* When two writers have it open at once, what the one writes over the     *)
(* other need not parse.                                                   *)

Open(w, f) ==
  /\ file' = [file EXCEPT ![f] = "torn"]
  /\ mixed' = [mixed EXCEPT ![f] = open[f] # {}]
  /\ open' = [open EXCEPT ![f] = @ \cup {w}]

Fill(w, f, result) ==
  /\ result \in IF mixed[f] THEN {"ok", "torn"} ELSE {"ok"}
  /\ file' = [file EXCEPT ![f] = result]
  /\ open' = [open EXCEPT ![f] = @ \ {w}]
  /\ UNCHANGED mixed

Goto(w, label) == pc' = [pc EXCEPT ![w] = label]

\* The process of a command ends and its memory is gone.
End(w, how) ==
  /\ Goto(w, how)
  /\ ds' = [ds EXCEPT ![w] = None]
  /\ target' = [target EXCEPT ![w] = None]
  /\ doc' = [doc EXCEPT ![w] = NoEntries]
  /\ seen' = [seen EXCEPT ![w] = NoAssignment]
  /\ todo' = [todo EXCEPT ![w] = {}]

Rebuilding(w) == ds[w] = None

-----------------------------------------------------------------------------
(* Starting a command. *)

MayStart(w) ==
  /\ pc[w] \in Ended
  /\ Exclusive => \A u \in Writers : pc[u] \in Ended

StartRebuild(w) ==
  /\ MayStart(w)
  /\ Goto(w, "load_registry")
  /\ UNCHANGED <<disk, files, memory, interrupted, bounds>>

\* promote_model --experiment-id: any id the operator types.
StartPromote(w, d, e) ==
  /\ MayStart(w)
  /\ ds' = [ds EXCEPT ![w] = d]
  /\ target' = [target EXCEPT ![w] = e]
  /\ Goto(w, "load_registry")
  /\ UNCHANGED <<disk, files, doc, seen, todo, interrupted, bounds>>

\* promote_model without an id: _pick_candidate reads the registry first, and
\* the command ends there when it finds no candidate.
PickCandidate(w, d, m) ==
  /\ MayStart(w)
  /\ file["registry"] # "torn"
  /\ ds' = [ds EXCEPT ![w] = d]
  /\ \E e \in FirstRanked(entries, d, m) : target' = [target EXCEPT ![w] = e]
  /\ Goto(w, "load_registry")
  /\ UNCHANGED <<disk, files, doc, seen, todo, interrupted, bounds>>

-----------------------------------------------------------------------------
(* The steps of a command. *)

\* A JSON decode error is no RegistryError: it ends the command.
LoadTorn(w) ==
  /\ \/ pc[w] = "load_registry" /\ file["registry"] = "torn"
     \/ pc[w] = "load_production" /\ file["production"] = "torn"
  /\ End(w, "failed")
  /\ UNCHANGED <<disk, files, interrupted, bounds>>

RebuildLoadRegistry(w) ==
  /\ pc[w] = "load_registry"
  /\ Rebuilding(w)
  /\ file["registry"] # "torn"
  /\ doc' = [doc EXCEPT ![w] = entries]
  /\ Goto(w, "load_production")
  /\ UNCHANGED <<disk, files, ds, target, seen, todo, interrupted, bounds>>

\* Mutant: the entry may be one of another dataset.
IsRegisteredAnywhere(w) == entries[target[w]] # None

\* The experiment must be registered, and registered for the dataset.
IsRegistered(w) ==
  entries[target[w]] # None /\ DatasetOf[target[w]] = ds[w]

\* Mutants: the previous production entry is not demoted, or to a status that
\* the registry does not know.
PromotedOnTop(w) == [entries EXCEPT ![target[w]] = "production"]
PromotedRetiring(w) ==
  [e \in Experiments |->
     IF e = target[w] THEN "production"
     ELSE IF DatasetOf[e] = ds[w] /\ entries[e] = "production" THEN "retired"
     ELSE entries[e]]

\* The document promote writes: the dataset's production entries return to
\* candidate and the target becomes production.
Promoted(w) ==
  [e \in Experiments |->
     IF e = target[w] THEN "production"
     ELSE IF DatasetOf[e] = ds[w] /\ entries[e] = "production" THEN "candidate"
     ELSE entries[e]]

PromoteLoadRegistry(w) ==
  /\ pc[w] = "load_registry"
  /\ ~Rebuilding(w)
  /\ file["registry"] # "torn"
  /\ IF IsRegistered(w)
     THEN /\ doc' = [doc EXCEPT ![w] = Promoted(w)]
          /\ Goto(w, "load_production")
          /\ UNCHANGED <<ds, target, seen, todo>>
     ELSE End(w, "idle")
  /\ UNCHANGED <<disk, files, interrupted, bounds>>

LoadProduction(w) ==
  /\ pc[w] = "load_production"
  /\ file["production"] # "torn"
  /\ seen' = [seen EXCEPT ![w] = production]
  /\ Goto(w, IF Rebuilding(w) THEN "glob" ELSE "open_registry")
  /\ UNCHANGED <<disk, files, ds, target, doc, todo, interrupted, bounds>>

\* sorted(glob("*/*/*/manifest.json")): only these experiments can be entries.
GlobManifests(w) ==
  LET found == {e \in Experiments : manifest[e] # "absent"} IN
  /\ pc[w] = "glob"
  /\ todo' = [todo EXCEPT ![w] = found]
  /\ doc' = [doc EXCEPT ![w] =
               [e \in Experiments |-> IF e \in found THEN @[e] ELSE None]]
  /\ Goto(w, "scan")
  /\ UNCHANGED <<disk, files, ds, target, seen, interrupted, bounds>>

\* The status a rebuild gives an entry: production.json decides "production",
\* otherwise the previous status is kept; a new entry is a candidate.
Status(e, previous, assigned) ==
  IF \E d \in Datasets : assigned[d] = e THEN "production"
  ELSE IF previous \in {None, "production"} THEN "candidate"
  ELSE previous

\* entry_from_manifest and filter_registrable for one manifest.  The code
\* reads them in path order; the order changes no document that is written.
ScanManifest(w, e) ==
  /\ pc[w] = "scan"
  /\ e \in todo[w]
  /\ manifest[e] \in {"absent", "ok"}
  /\ doc' = [doc EXCEPT ![w][e] =
               IF manifest[e] = "ok" /\ model[e] /\ Registrable(e)
               THEN Status(e, doc[w][e], seen[w])
               ELSE None]
  /\ todo' = [todo EXCEPT ![w] = @ \ {e}]
  /\ UNCHANGED <<disk, files, pc, ds, target, seen, interrupted, bounds>>

\* Only RegistryError is caught in the loop: a manifest that cannot be parsed
\* ends the whole rebuild.
ScanTornManifest(w, e) ==
  /\ pc[w] = "scan"
  /\ e \in todo[w]
  /\ manifest[e] \in {"writing", "torn"}
  /\ End(w, "failed")
  /\ UNCHANGED <<disk, files, interrupted, bounds>>

OpenRegistry(w) ==
  /\ \/ pc[w] = "open_registry"
     \/ pc[w] = "scan" /\ todo[w] = {}
  /\ Open(w, "registry")
  /\ Goto(w, "write_registry")
  /\ UNCHANGED <<disk, entries, best, production, memory, interrupted, bounds>>

WriteRegistry(w) ==
  /\ pc[w] = "write_registry"
  /\ \E result \in {"ok", "torn"} :
       /\ Fill(w, "registry", result)
       /\ entries' = IF result = "ok" THEN doc[w] ELSE entries
  /\ Goto(w, IF Rebuilding(w) THEN "open_best" ELSE "open_production")
  /\ UNCHANGED <<disk, best, production, memory, interrupted, bounds>>

OpenBest(w) ==
  /\ pc[w] = "open_best"
  /\ Open(w, "best")
  /\ Goto(w, "write_best")
  /\ UNCHANGED <<disk, entries, best, production, memory, interrupted, bounds>>

WriteBest(w) ==
  /\ pc[w] = "write_best"
  /\ \E result \in {"ok", "torn"} :
       /\ Fill(w, "best", result)
       /\ best' = IF result = "ok"
                  THEN [d \in Datasets |-> SelectBest(doc[w], d)]
                  ELSE best
  /\ Goto(w, "check_production")
  /\ UNCHANGED <<disk, entries, production, memory, interrupted, bounds>>

\* The rebuild leaves an existing production.json alone ...
KeepProduction(w) ==
  /\ pc[w] = "check_production"
  /\ file["production"] # "absent"
  /\ End(w, "idle")
  /\ interrupted' = FALSE
  /\ UNCHANGED <<disk, files, bounds>>

\* ... and creates an empty one otherwise.
OpenProduction(w) ==
  /\ \/ pc[w] = "open_production"
     \/ pc[w] = "check_production" /\ file["production"] = "absent"
  /\ Open(w, "production")
  /\ Goto(w, "write_production")
  /\ UNCHANGED <<disk, entries, best, production, memory, interrupted, bounds>>

\* Mutant: a promotion writes its own dataset only.
NewProductionAlone(w) ==
  IF Rebuilding(w) THEN NoAssignment ELSE [NoAssignment EXCEPT ![ds[w]] = target[w]]

\* What production.json is given.
NewProduction(w) ==
  IF Rebuilding(w) THEN NoAssignment ELSE [seen[w] EXCEPT ![ds[w]] = target[w]]

WriteProduction(w) ==
  /\ pc[w] = "write_production"
  /\ \E result \in {"ok", "torn"} :
       /\ Fill(w, "production", result)
       /\ production' = IF result = "ok" THEN NewProduction(w) ELSE production
  /\ End(w, "idle")
  /\ interrupted' = IF Rebuilding(w) THEN FALSE ELSE interrupted
  /\ UNCHANGED <<disk, entries, best, bounds>>

\* The process dies: what it had opened stays truncated.
Crash(w) ==
  /\ pc[w] \in Running
  /\ crashes < MaxCrashes
  /\ crashes' = crashes + 1
  /\ open' = [f \in Files |-> open[f] \ {w}]
  /\ interrupted' = \/ interrupted
                    \/ pc[w] \in {"write_registry", "open_best", "write_best",
                                  "open_production", "write_production"}
  /\ End(w, "crashed")
  /\ UNCHANGED <<disk, file, entries, best, production, mixed, edits>>

-----------------------------------------------------------------------------
(* The disk under the registry: training runs, and the operator's hand. *)

\* _persist_experiment: the model is saved first, the manifest last.
SaveModel(e) ==
  /\ manifest[e] = "absent"
  /\ ~model[e]
  /\ model' = [model EXCEPT ![e] = TRUE]
  /\ UNCHANGED <<manifest, files, pc, memory, interrupted, bounds>>

OpenManifest(e) ==
  /\ manifest[e] = "absent"
  /\ model[e]
  /\ manifest' = [manifest EXCEPT ![e] = "writing"]
  /\ UNCHANGED <<model, files, pc, memory, interrupted, bounds>>

WriteManifest(e) ==
  /\ manifest[e] = "writing"
  /\ manifest' = [manifest EXCEPT ![e] = "ok"]
  /\ UNCHANGED <<model, files, pc, memory, interrupted, bounds>>

CrashTraining(e) ==
  /\ manifest[e] = "writing"
  /\ crashes < MaxCrashes
  /\ crashes' = crashes + 1
  /\ manifest' = [manifest EXCEPT ![e] = "torn"]
  /\ UNCHANGED <<model, files, pc, memory, interrupted, edits>>

\* A model artefact of a finished run is moved away, or put back.
MoveModel(e) ==
  /\ manifest[e] = "ok"
  /\ edits < MaxEdits
  /\ edits' = edits + 1
  /\ model' = [model EXCEPT ![e] = ~@]
  /\ UNCHANGED <<manifest, files, pc, memory, interrupted, crashes>>

\* No program sets "archived": an operator edits registry.json by hand, while
\* no command is running.
Archive(e) ==
  /\ \A w \in Writers : pc[w] \in Ended
  /\ file["registry"] = "ok"
  /\ entries[e] = "candidate"
  /\ edits < MaxEdits
  /\ edits' = edits + 1
  /\ entries' = [entries EXCEPT ![e] = "archived"]
  /\ UNCHANGED <<disk, file, best, production, open, mixed, pc, memory,
                 interrupted, crashes>>

-----------------------------------------------------------------------------

Command(w) ==
  \/ StartRebuild(w)
  \/ \E d \in Datasets, e \in Experiments : StartPromote(w, d, e)
  \/ \E d \in Datasets, m \in Models : PickCandidate(w, d, m)

Step(w) ==
  \/ LoadTorn(w)
  \/ RebuildLoadRegistry(w)
  \/ PromoteLoadRegistry(w)
  \/ LoadProduction(w)
  \/ GlobManifests(w)
  \/ \E e \in Experiments : ScanManifest(w, e) \/ ScanTornManifest(w, e)
  \/ OpenRegistry(w)
  \/ WriteRegistry(w)
  \/ OpenBest(w)
  \/ WriteBest(w)
  \/ KeepProduction(w)
  \/ OpenProduction(w)
  \/ WriteProduction(w)

Training(e) ==
  \/ SaveModel(e)
  \/ OpenManifest(e)
  \/ WriteManifest(e)
  \/ CrashTraining(e)

Next ==
  \/ \E w \in Writers : Command(w) \/ Step(w) \/ Crash(w)
  \/ \E e \in Experiments : Training(e) \/ MoveModel(e) \/ Archive(e)

Spec == Init /\ [][Next]_vars

-----------------------------------------------------------------------------
(* Properties. *)

AtRest == \A w \in Writers : pc[w] \in Ended
Settled == Exclusive /\ AtRest /\ ~interrupted

\* Whatever the commands interleave with and wherever they die, registry.json
\* never calls two experiments of one dataset "production": promote demotes
\* the previous one and a rebuild derives the status from production.json.
OneProductionPerDataset ==
  \A e, f \in Experiments :
    /\ entries[e] = "production" /\ entries[f] = "production"
    /\ DatasetOf[e] = DatasetOf[f]
    => e = f

\* production.json never assigns a dataset an experiment trained on another.
AssignmentFitsDataset ==
  \A d \in Datasets : production[d] # None => DatasetOf[production[d]] = d

\* At rest, unless a command died half way since the last rebuild, the two
\* files tell the same story: a registered experiment has the status
\* "production" exactly when production.json assigns it.
StatusAgreement ==
  Settled =>
    \A e \in Experiments :
      entries[e] # None =>
        (entries[e] = "production" <=> production[DatasetOf[e]] = e)

\* At rest, unless a command died half way since the last rebuild, every file
\* parses and what best_per_dataset.json names is in the registry, so that the
\* stage "best" resolves.
BestResolvable ==
  Settled =>
    /\ \A f \in Files : file[f] # "torn"
    /\ \A d \in Datasets : best[d] # None => entries[best[d]] # None

\* When a rebuild ends, no live entry with a metric beats the published best
\* one of its dataset, whatever happened to the files before.
RebuildEnds(w) ==
  /\ Rebuilding(w)
  /\ pc[w] \in {"check_production", "write_production"}
  /\ pc'[w] = "idle"

RebuildPublishesBest ==
  [][\A w \in Writers : Exclusive /\ RebuildEnds(w) =>
       \A e \in Experiments :
         /\ entries'[e] \in {"candidate", "production"}
         /\ TestF1[e] # None
         => /\ best'[DatasetOf[e]] # None
            /\ entries'[best'[DatasetOf[e]]] # "archived"
            /\ ~ (IF HigherIsBetter
                  THEN TestF1[e] > TestF1[best'[DatasetOf[e]]]
                  ELSE TestF1[e] < TestF1[best'[DatasetOf[e]]])]_vars

\* An archived entry never turns back into a candidate in one step of any
\* command: a rebuild keeps the status.  It turns into production when that
\* very run is promoted, or when production.json still assigns it (a promotion
\* of another run died before production.json, the operator archived the run
\* that registry.json had demoted, and a rebuild lets production.json decide).
ArchivedNotRevived ==
  [][\A e \in Experiments : Exclusive /\ entries[e] = "archived" =>
       \/ entries'[e] \in {"archived", None}
       \/ /\ entries'[e] = "production"
          /\ \/ \E w \in Writers : target[w] = e
             \/ production[DatasetOf[e]] = e]_vars

\* Under the single-writer discipline production.json is an atomic register
\* per dataset: each change of it is one promotion, none is lost or invented.
Register == INSTANCE ProductionRegister WITH assigned <- production
ImplementsRegister == Register!Spec

\* Promoting a model type without naming a run promotes the run of it that the
\* registry's policy ranks best.
DefaultPromotionIsBest ==
  [][\A w \in Writers, d \in Datasets, m \in Models :
       PickCandidate(w, d, m) =>
         \A e \in Candidates(entries, d, m) :
           TestF1[e] # None /\ TestF1[target'[w]] # None =>
             IF HigherIsBetter THEN TestF1[e] <= TestF1[target'[w]]
                               ELSE TestF1[e] >= TestF1[target'[w]]]_vars

\* Promotions keep to the order of the runs: by default the best one, and none
\* that was archived comes back otherwise.
PromotionsInOrder == ArchivedNotRevived /\ DefaultPromotionIsBest

\* What best_per_dataset.json says can be resolved whenever nothing died half
\* way, and is unbeaten whenever a rebuild ends.
BestPublished == []BestResolvable /\ RebuildPublishesBest
=============================================================================
