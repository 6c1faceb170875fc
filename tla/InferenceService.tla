---------------------------- MODULE InferenceService ----------------------------
(***************************************************************************)
(* The inference API beside the model registry: one FastAPI process whose  *)
(* handlers never yield between reading the registry and answering, so it  *)
(* has at most one request in hand, while registry commands, training runs *)
(* and operators change the files under it between any two of its reads.   *)
(*                                                                         *)
(* The bundle cache keeps what it loaded until the process ends: nothing   *)
(* calls BundleCache.clear.  GET /models and GET /health change nothing    *)
(* and are left out; so is the scoring of the rows once a bundle is there. *)
(*                                                                         *)
(* The fitted transforms (encoder, scaler, label encoder, feature          *)
(* selector, expected features) are kept per dataset, not per experiment:  *)
(* preprocessing and feature engineering overwrite them, here in one step. *)
(* The server finds them through the registry: an entry names their        *)
(* directories when they existed as a rebuild made the entry.              *)
(***************************************************************************)
EXTENDS ModelRegistry, Sequences

CONSTANTS
  Stage,          \* api.stage: "production" or "best"
  CacheEnabled,   \* api.model_cache_enabled
  MaxRestarts,    \* bound on restarts of the server
  MaxPromotions,  \* bound on the promotions of a dataset
  MaxFits         \* bound on the fits of a dataset's transforms

ASSUME StageAssumption == Stage \in {"production", "best"}
ASSUME CacheAssumption == CacheEnabled \in BOOLEAN
ASSUME ServiceBoundsAssumption == {MaxRestarts, MaxPromotions, MaxFits} \subseteq Nat

VARIABLES
  serverPc,  \* where the request in hand stands
  dataset,   \* the dataset it is for
  view,      \* registry.json as the request read it
  named,     \* and its entries that name the directories of the transforms
  resolved,  \* the experiment it resolved to
  bundles,   \* the bundle cache: the experiment loaded for each dataset
  using,     \* and the fit of the transforms in its bundle
  answer,    \* how the request in hand, or the last one, ended
  fitted,    \* which fit of its transforms each dataset has on disk, 0 for none
  fits,      \* how often they have been fitted
  recorded,  \* the entries of registry.json that name their directories
  scanned,   \* those of the document in each registry command's memory
  restarts,
  history,   \* history variable: the values production.json has had
  mark       \* history variable: how many of them when the server started

request == <<serverPc, dataset, view, named, resolved>>
cache == <<bundles, using>>
server == <<request, cache, answer, restarts, mark>>
transforms == <<fitted, fits, recorded, scanned>>
serviceVars == <<vars, transforms, server, history>>

\* The handler returned: nothing of the request is left in memory.
NoRequest ==
  /\ serverPc' = "ready"
  /\ dataset' = None
  /\ view' = NoEntries
  /\ named' = {}
  /\ resolved' = None

ServiceTypeOK ==
  /\ TypeOK
  /\ serverPc \in {"ready", "read_registry", "read_stage", "load_model",
                   "load_transforms"}
  /\ dataset \in Datasets \cup {None}
  /\ view \in Documents
  /\ named \subseteq Experiments
  /\ resolved \in Experiments \cup {None}
  /\ bundles \in Assignments
  /\ using \in [Datasets -> Nat]
  /\ fitted \in [Datasets -> 0..MaxFits]
  /\ fits \in [Datasets -> 0..MaxFits]
  /\ recorded \subseteq Experiments
  /\ scanned \in [Writers -> SUBSET Experiments]
  /\ answer \in {"none", "served", "not_available", "internal_error"}
  /\ restarts \in 0..MaxRestarts
  /\ history \in [Datasets -> Seq(Experiments \cup {None})]
  /\ mark \in [Datasets -> Nat]

ServiceInit ==
  /\ Init
  /\ serverPc = "ready"
  /\ dataset = None
  /\ view = NoEntries
  /\ named = {}
  /\ resolved = None
  /\ bundles = NoAssignment
  /\ using = [d \in Datasets |-> 0]
  /\ fitted = [d \in Datasets |-> 0]
  /\ fits = [d \in Datasets |-> 0]
  /\ recorded = {}
  /\ scanned = [w \in Writers |-> {}]
  /\ answer = "none"
  /\ restarts = 0
  /\ history = [d \in Datasets |-> << >>]
  /\ mark = [d \in Datasets |-> 0]

-----------------------------------------------------------------------------
(* One prediction request: _predict, BundleCache.get, load_bundle.         *)

\* Mutant: the cache is filled and never consulted.
PredictUncached(d) ==
  /\ serverPc = "ready"
  /\ serverPc' = "read_registry"
  /\ dataset' = d
  /\ answer' = "none"
  /\ UNCHANGED <<view, named, resolved>>
  /\ UNCHANGED <<vars, transforms, cache, restarts, history, mark>>

\* A cached bundle answers at once; otherwise it has to be loaded.
Predict(d) ==
  /\ serverPc = "ready"
  /\ IF CacheEnabled /\ bundles[d] # None
     THEN answer' = "served" /\ UNCHANGED request
     ELSE /\ serverPc' = "read_registry"
          /\ dataset' = d
          /\ answer' = "none"
          /\ UNCHANGED <<view, named, resolved>>
  /\ UNCHANGED <<vars, transforms, cache, restarts, history, mark>>

\* A request that fails leaves nothing in the cache.  A RegistryError or a
\* missing artefact is a 404, a file that does not parse a 500.
Refuse(how) ==
  /\ answer' = how
  /\ NoRequest
  /\ UNCHANGED <<vars, transforms, cache, restarts, history, mark>>

\* resolve_model reads registry.json first ...
ReadRegistry ==
  /\ serverPc = "read_registry"
  /\ file["registry"] # "torn"
  /\ entries # NoEntries
  /\ view' = entries
  /\ named' = recorded
  /\ serverPc' = "read_stage"
  /\ UNCHANGED <<vars, transforms, dataset, resolved, cache, answer, restarts, history, mark>>

\* ... and the file of its stage afterwards; what that names must be among
\* the entries read before.
StageFile == IF Stage = "production" THEN "production" ELSE "best"
Assigned == IF Stage = "production" THEN production[dataset] ELSE best[dataset]

\* Mutant: what the stage names is not looked up in the registry.
ReadStageUnchecked ==
  /\ serverPc = "read_stage"
  /\ file[StageFile] # "torn"
  /\ Assigned # None
  /\ resolved' = Assigned
  /\ serverPc' = "load_model"
  /\ UNCHANGED <<vars, transforms, dataset, view, named, cache, answer, restarts,
                 history, mark>>

ReadStage ==
  /\ serverPc = "read_stage"
  /\ file[StageFile] # "torn"
  /\ Assigned # None
  /\ view[Assigned] # None
  /\ resolved' = Assigned
  /\ serverPc' = "load_model"
  /\ UNCHANGED <<vars, transforms, dataset, view, named, cache, answer, restarts,
                 history, mark>>

\* Mutant: only an entry in production is served, whatever the stage.
UnresolvableCandidate ==
  \/ /\ serverPc = "read_registry"
     /\ file["registry"] # "torn"
     /\ entries = NoEntries
  \/ /\ serverPc = "read_stage"
     /\ file[StageFile] # "torn"
     /\ Assigned # None => view[Assigned] # "production"

Unresolvable ==
  \/ /\ serverPc = "read_registry"
     /\ file["registry"] # "torn"
     /\ entries = NoEntries
  \/ /\ serverPc = "read_stage"
     /\ file[StageFile] # "torn"
     /\ Assigned # None => view[Assigned] = None

Unreadable ==
  \/ serverPc = "read_registry" /\ file["registry"] = "torn"
  \/ serverPc = "read_stage" /\ file[StageFile] = "torn"

LoadModel ==
  /\ serverPc = "load_model"
  /\ model[resolved]
  /\ serverPc' = "load_transforms"
  /\ UNCHANGED <<vars, transforms, dataset, view, named, resolved, cache, answer,
                 restarts, history, mark>>

\* Where the entry names their directories, the transforms that lie there now
\* complete the bundle; the cache keeps it.
LoadTransforms ==
  /\ serverPc = "load_transforms"
  /\ resolved \in named
  /\ fitted[dataset] # 0
  /\ IF CacheEnabled
     THEN /\ bundles' = [bundles EXCEPT ![dataset] = resolved]
          /\ using' = [using EXCEPT ![dataset] = fitted[dataset]]
     ELSE UNCHANGED cache
  /\ answer' = "served"
  /\ NoRequest
  /\ UNCHANGED <<vars, transforms, restarts, history, mark>>

\* One of the files a bundle needs is not on disk, or its directory is not in
\* the entry.
MissingArtefact ==
  \/ serverPc = "load_model" /\ ~model[resolved]
  \/ serverPc = "load_transforms" /\ (resolved \notin named \/ fitted[dataset] = 0)

Fail ==
  \/ (Unresolvable \/ MissingArtefact) /\ Refuse("not_available")
  \/ Unreadable /\ Refuse("internal_error")

\* The server is stopped and started again: its memory is empty.
RestartServer ==
  /\ restarts < MaxRestarts
  /\ restarts' = restarts + 1
  /\ bundles' = NoAssignment
  /\ using' = [d \in Datasets |-> 0]
  /\ NoRequest
  /\ mark' = [d \in Datasets |-> Len(history[d])]
  /\ UNCHANGED <<vars, transforms, answer, history>>

\* run_preprocessing and run_feature_engineering fit the dataset's transforms
\* and overwrite the ones before.
Refit(d) ==
  /\ fits[d] < MaxFits
  /\ fits' = [fits EXCEPT ![d] = @ + 1]
  /\ fitted' = [fitted EXCEPT ![d] = fits[d] + 1]
  /\ UNCHANGED <<vars, recorded, scanned, server, history>>

\* The artefacts of a dataset are moved away by hand.
RemoveTransforms(d) ==
  /\ fitted[d] # 0
  /\ edits < MaxEdits
  /\ edits' = edits + 1
  /\ fitted' = [fitted EXCEPT ![d] = 0]
  /\ UNCHANGED <<disk, files, pc, memory, interrupted, crashes, fits, recorded,
                 scanned, server, history>>

-----------------------------------------------------------------------------

Handle == ReadRegistry \/ ReadStage \/ LoadModel \/ LoadTransforms \/ Fail

\* entry_from_manifest names the directories in the entry when they exist; a
\* promotion writes back the entries it read, and with registry.json written
\* they are what its entries name.
ScanDirectories(w) ==
  LET read == IF pc'[w] = "scan" THEN todo[w] \ todo'[w] ELSE {} IN
  IF pc'[w] \in Ended THEN {}
  ELSE IF pc[w] = "load_registry" /\ pc'[w] = "load_production" THEN recorded
  ELSE (scanned[w] \ read) \cup {e \in read : fitted[DatasetOf[e]] # 0}

WritesRegistry(w) ==
  /\ pc[w] = "write_registry"
  /\ pc'[w] \in {"open_best", "open_production"}
  /\ file'["registry"] = "ok"

RecordDirectories ==
  LET writing == {w \in Writers : WritesRegistry(w)} IN
  /\ scanned' = [w \in Writers |-> ScanDirectories(w)]
  /\ recorded' = IF writing = {} THEN recorded
                 ELSE UNION {scanned[w] : w \in writing}

\* The registry and the training runs move on; a run is trained on the
\* features its dataset has, and the history variable follows production.json.
RegistryStep ==
  /\ Next
  /\ \A e \in Experiments :
       manifest[e] = "absent" /\ model'[e] => fitted[DatasetOf[e]] # 0
  /\ \A w \in Writers :
       pc'[w] = "load_registry" /\ ds'[w] # None => Len(history[ds'[w]]) < MaxPromotions
  /\ history' = [d \in Datasets |->
                   IF production'[d] = production[d] THEN history[d]
                   ELSE Append(history[d], production'[d])]
  /\ RecordDirectories
  /\ UNCHANGED <<server, fitted, fits>>

ServiceNext ==
  \/ RegistryStep
  \/ \E d \in Datasets : Predict(d) \/ Refit(d) \/ RemoveTransforms(d)
  \/ Handle
  \/ RestartServer

ServiceSpec == ServiceInit /\ [][ServiceNext]_serviceVars

\* The event loop keeps running the handler it is in.
FairServiceSpec == ServiceSpec /\ WF_serviceVars(Handle)

-----------------------------------------------------------------------------
(* Properties. *)

\* Behind /predict stands a model that was assigned to the dataset when the
\* server started or later, whatever was promoted, torn or rebuilt between the
\* two reads of resolve_model, and the same one until the next restart.
Serving == INSTANCE ModelServing WITH serving <- bundles
ImplementsServing == Serving!Spec

\* A request resolves to an experiment of the dataset it is for, registered in
\* the registry.json it read, and only such a bundle is cached.
ResolvedIsRegistered ==
  /\ resolved # None => /\ view[resolved] # None
                        /\ DatasetOf[resolved] = dataset
  /\ \A d \in Datasets : bundles[d] # None => DatasetOf[bundles[d]] = d

\* Nothing a request met while the registry was half written, or artefacts
\* were missing, sticks to the server: once the files of a dataset are in order
\* and stay so, its requests are served, without a restart.  In order means that
\* the entry names the directories as well: transforms that were missing when a
\* rebuild made the entry and are fitted afterwards need another rebuild.
InOrder(d) ==
  LET e == IF Stage = "production" THEN production[d] ELSE best[d] IN
  /\ file["registry"] = "ok" /\ file[StageFile] = "ok"
  /\ e # None /\ entries[e] # None /\ model[e]
  /\ e \in recorded /\ fitted[d] # 0

ServesWhenInOrder ==
  \A d \in Datasets : <>[]InOrder(d) => <>[](dataset = d => <>(answer = "served"))

\* The server keeps its types, and what a request resolves to is registered.
ServiceSound == ServiceTypeOK /\ ResolvedIsRegistered
=============================================================================
