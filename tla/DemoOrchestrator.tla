-------------------------- MODULE DemoOrchestrator --------------------------
(***************************************************************************)
(* prepare_full_demo: a run plans its stages from the artefacts it finds,  *)
(* executes the commands of each stage one after the other, looks at the   *)
(* artefacts again, and ends with a report and a pointer to it.  A command *)
(* may fail or time out in the middle of its files, a run may be killed    *)
(* together with its command, and models are promoted and syslog is        *)
(* ingested beside it.                                                     *)
(*                                                                         *)
(* A file is missing, Torn, or says which run wrote it and from what.      *)
(***************************************************************************)
EXTENDS Naturals, Sequences, FiniteSets

CONSTANTS
  EngineADatasets,  \* datasets of Engine A, in the order of the configuration
  Options,          \* the ways in which the command may be invoked
  None, Torn,
  MaxRuns,          \* bound on runs
  MaxFaults,        \* bound on commands that fail
  MaxKills,         \* bound on runs that are killed
  MaxOutside        \* bound on promotions and ingestions beside the runs

Datasets == {EngineADatasets[i] : i \in DOMAIN EngineADatasets}
SyslogRuns == {"lab", "demo_syslog"}

\* configs/demo.yaml and the command line.
AllOptions ==
  [ inputDir : BOOLEAN,         \* the input directory of Engine C exists
    force : SUBSET {"engine_a", "engine_b"},
    skipTraining : BOOLEAN, requireSyslog : BOOLEAN, reuseAssessment : BOOLEAN,
    dryRun : BOOLEAN,
    fixture : BOOLEAN,          \* a fallback fixture is configured
    syslogRun : {"latest", "lab"} ]

ASSUME OptionsAssumption == Options \subseteq AllOptions
ASSUME DatasetsAssumption == EngineADatasets \in Seq(Datasets) /\ EngineADatasets # <<>>
ASSUME BoundsAssumption == {MaxRuns, MaxFaults, MaxKills, MaxOutside} \subseteq Nat

\* The files that the readiness checks and the commands look at, in the order
\* in which they are written.  A syslog run stands for its parser_summary.json,
\* "production" for the datasets with an entry in production.json.
Assessment == <<"inventory", "findings", "remediation_plan">>
Dashboard ==
  <<"dashboard_summary", "topology_view", "findings_view", "remediation_view",
    "device_health_cards">>
Correlation == <<"signals", "incidents", "correlation_summary", "correlation_report">>
Streaming == <<"current_state", "stream_summary">>
Names(list) == {list[i] : i \in DOMAIN list}
Artefacts ==
  {"metrics", "registry", "production"} \cup SyslogRuns
  \cup Names(Assessment) \cup Names(Dashboard)
  \cup Names(Correlation) \cup Names(Streaming)

VARIABLES
  files,       \* each artefact
  newest,      \* the syslog run whose directory got its files last
  run,         \* number of the current run
  options,     \* its options
  stages,      \* its stages
  at, cmd,     \* the stage it is at, the command it is at
  executed,    \* the commands it executed, as pairs of a stage and an index
  latest,      \* outputs/demo/latest.json
  pc,
  clean,       \* the registry could be read when the run started, and since then
               \* nothing failed or happened beside the run
  spent        \* faults, kills and outside steps so far
artefacts == <<files, newest>>
vars == <<artefacts, run, options, stages, at, cmd, executed, latest, pc, clean, spent>>

-----------------------------------------------------------------------------
(* Readiness, which looks at existence only. *)

Exists(names) == \A f \in names : files[f] # None
Readable(f) == files[f] \notin {None, Torn}

Promoted == IF Readable("production") THEN files["production"] ELSE {}
EngineAReady == Datasets \subseteq Promoted
EngineBReady == Exists({"metrics"})
DashboardReady == Exists(Names(Assessment) \cup (Names(Dashboard) \ {"device_health_cards"}))
CoreReady == Exists(Names(Assessment))

\* A run counts as soon as its parser_summary.json is there.
ReadyLogs == {r \in SyslogRuns : Exists({r})}
ResolveRun(name) ==
  IF name # "latest" THEN IF name \in ReadyLogs THEN name ELSE None
  ELSE IF ReadyLogs = {} THEN None
  ELSE IF newest \in ReadyLogs THEN newest
  ELSE CHOOSE r \in ReadyLogs : TRUE
SyslogReady == ResolveRun(options.syslogRun) # None

\* The sections of the frontend that have to be there, by its own loaders.
SectionsReady ==
  /\ Readable("correlation_summary") \/ Readable("incidents")
  /\ Promoted # {}
  /\ EngineBReady
  /\ Readable("topology_view") /\ Readable("remediation_view")
  /\ Readable("current_state")

-----------------------------------------------------------------------------
(* The plan. *)

Cmd(module, arg) == [module |-> module, arg |-> arg]
ForEach(module, datasets) == [i \in DOMAIN datasets |-> Cmd(module, datasets[i])]

Training(datasets) ==
  ForEach("validate_datasets", datasets) \o ForEach("run_preprocessing", datasets)
  \o ForEach("run_feature_engineering", datasets) \o ForEach("train_model", datasets)
  \o << Cmd("generate_validation_report", None), Cmd("build_experiment_index", None),
        Cmd("build_model_registry", None) >>
  \o ForEach("promote_model", datasets)

Stage(name, required, commands) ==
  [name |-> name, required |-> required, commands |-> commands, status |-> "pending"]
Reused(name, required) == [Stage(name, required, <<>>) EXCEPT !.status = "reused_existing"]

\* The datasets of a set, in the order of the configuration.
InOrder(chosen) ==
  LET places == {i \in DOMAIN EngineADatasets : EngineADatasets[i] \in chosen}
      Nth(n) == CHOOSE i \in places : Cardinality({j \in places : j < i}) = n - 1
  IN [n \in 1..Cardinality(places) |-> EngineADatasets[Nth(n)]]

EngineAStage(o) ==
  LET missing == {d \in Datasets : "engine_a" \in o.force \/ d \notin Promoted} IN
  IF missing = {} THEN Reused("engine_a", TRUE)
  ELSE Stage("engine_a", TRUE, IF o.skipTraining THEN <<>> ELSE Training(InOrder(missing)))

\* Mutant: the option to retrain is looked at before the one to train nothing.
EngineBForced(o) ==
  IF EngineBReady /\ "engine_b" \notin o.force THEN Reused("engine_b", TRUE)
  ELSE Stage("engine_b", TRUE,
             IF o.skipTraining /\ "engine_b" \notin o.force THEN <<>>
             ELSE << Cmd("train_network_health_model", None) >>)

EngineBStage(o) ==
  IF EngineBReady /\ "engine_b" \notin o.force THEN Reused("engine_b", TRUE)
  ELSE Stage("engine_b", TRUE,
             IF o.skipTraining THEN <<>>
             ELSE << Cmd("prepare_network_health_dataset", None),
                     Cmd("validate_network_health", None),
                     Cmd("run_network_health_preprocessing", None),
                     Cmd("train_network_health_model", None) >>)

Analysis ==
  << Cmd("analyze_network_config", None), Cmd("dry_run_network_actions", None),
     Cmd("generate_network_config_report", None) >>

\* Mutant: an assessment that is there is kept without being asked to.
AssessmentKept(o) ==
  IF CoreReady /\ DashboardReady THEN Reused("engine_c_assessment", TRUE)
  ELSE Stage("engine_c_assessment", TRUE, Analysis)

AssessmentStage(o) ==
  IF o.reuseAssessment /\ CoreReady /\ DashboardReady
    THEN Reused("engine_c_assessment", TRUE)
  ELSE Stage("engine_c_assessment", TRUE, Analysis)

SyslogStage(o) ==
  IF ResolveRun(o.syslogRun) # None THEN Reused("syslog", o.requireSyslog)
  ELSE Stage("syslog", o.requireSyslog,
             IF o.fixture THEN << Cmd("ingest_switch_syslog", None) >> ELSE <<>>)

\* Which model and which syslog run to correlate is decided with the plan.
CorrelationArgs(o) ==
  LET ready == InOrder(Promoted) IN
  [ dataset |-> IF "unsw_nb15" \in Names(ready) THEN "unsw_nb15"
                ELSE IF ready # <<>> THEN ready[1] ELSE EngineADatasets[1],
    syslog |-> IF ResolveRun(o.syslogRun) # None THEN o.syslogRun ELSE None ]
CorrelationStage(o) ==
  Stage("correlation", TRUE, << Cmd("run_correlation", CorrelationArgs(o)) >>)

BuildPlan(o) ==
  << Stage("env_validation", TRUE, <<>>), EngineAStage(o), EngineBStage(o),
     AssessmentStage(o), SyslogStage(o),
     Stage("engine_c_dashboard", TRUE, << Cmd("export_network_config_dashboard", None) >>),
     CorrelationStage(o),
     Stage("streaming", TRUE, << Cmd("run_streaming_demo", None) >>),
     Stage("frontend_readiness", TRUE, << Cmd("validate_engine_c_safety", None) >>),
     Stage("final_report", TRUE, <<>>) >>

Internal == {"env_validation", "final_report"}

Allowlist ==
  { "validate_datasets", "run_audit", "run_preprocessing", "run_feature_engineering",
    "train_model", "generate_validation_report", "build_experiment_index",
    "build_model_registry", "promote_model", "prepare_network_health_dataset",
    "validate_network_health", "run_network_health_preprocessing",
    "train_network_health_model", "analyze_network_config", "dry_run_network_actions",
    "generate_network_config_report", "export_network_config_dashboard",
    "ingest_switch_syslog", "run_correlation", "run_streaming_demo",
    "validate_engine_c_safety", "run_dashboard" }

-----------------------------------------------------------------------------
Init ==
  /\ files = [f \in Artefacts |-> None]
  /\ newest = None
  /\ run = 0 /\ options = None /\ stages = <<>> /\ at = 1 /\ cmd = 1 /\ executed = {}
  /\ latest = None /\ pc = "idle" /\ clean = TRUE
  /\ spent = [faults |-> 0, kills |-> 0, outside |-> 0]

Start(o) ==
  /\ pc = "idle" /\ run < MaxRuns
  /\ run' = run + 1
  /\ options' = o
  /\ stages' = BuildPlan(o)
  /\ at' = 1 /\ cmd' = 1 /\ executed' = {}
  /\ clean' = (Torn \notin {files["registry"], files["production"]})
  /\ pc' = "stage"
  /\ UNCHANGED <<artefacts, latest, spent>>

OkStatuses == {"success", "skipped", "reused_existing"}

Current == stages[at]
Command == Current.commands[cmd]
Refused == Command.module \notin Allowlist

\* Mutant: the stages after a required one that failed are run all the same.
SettleOn(status) ==
  /\ stages' = [stages EXCEPT ![at].status = status]
  /\ IF at = Len(stages)
       THEN pc' = "report" /\ UNCHANGED at
       ELSE pc' = "stage" /\ at' = at + 1
  /\ cmd' = 1

\* The stage gets its status.  A required stage that is not ok ends the run.
Settle(status) ==
  LET halt == Current.required /\ status \notin OkStatuses IN
  /\ stages' = [i \in DOMAIN stages |->
                  IF i = at THEN [stages[i] EXCEPT !.status = status]
                  ELSE IF halt /\ i > at THEN [stages[i] EXCEPT !.status = "skipped"]
                  ELSE stages[i]]
  /\ IF halt \/ at = Len(stages)
       THEN pc' = "report" /\ UNCHANGED at
       ELSE pc' = "stage" /\ at' = at + 1
  /\ cmd' = 1

\* A dry run holds the commands against the allowlist and executes none.
Enter ==
  /\ pc = "stage"
  /\ IF Current.status = "reused_existing" \/ Current.commands = <<>>
       THEN pc' = "check" /\ UNCHANGED stages
       ELSE /\ stages' = [stages EXCEPT ![at].status = "running"]
            /\ pc' = "command"
  /\ UNCHANGED <<artefacts, run, options, at, cmd, executed, latest, clean, spent>>

\* Mutant: the last command is left out.
AdvanceEarly ==
  IF cmd + 1 >= Len(Current.commands)
    THEN pc' = "check" /\ UNCHANGED cmd
    ELSE cmd' = cmd + 1 /\ UNCHANGED pc

\* On to the next command, or to the check behind the last one.
Advance ==
  IF cmd = Len(Current.commands)
    THEN pc' = "check" /\ UNCHANGED cmd
    ELSE cmd' = cmd + 1 /\ UNCHANGED pc

PassOver ==
  /\ pc = "command" /\ ~Refused /\ options.dryRun
  /\ Advance
  /\ UNCHANGED <<artefacts, run, options, stages, at, executed, latest, clean, spent>>

-----------------------------------------------------------------------------
(* What a command does to the files. *)

Writes(c) ==
  CASE c.module = "analyze_network_config" -> Assessment
    [] c.module = "export_network_config_dashboard" -> Dashboard
    [] c.module = "run_correlation" -> Correlation
    [] c.module = "run_streaming_demo" -> Streaming
    [] c.module = "train_network_health_model" -> <<"metrics">>
    [] c.module = "ingest_switch_syslog" -> <<"demo_syslog">>
    [] c.module = "promote_model" -> <<"registry", "production">>
    [] c.module = "build_model_registry" ->
         IF files["production"] = None THEN <<"registry", "production">> ELSE <<"registry">>
    [] OTHER -> <<>>

Reads(c) ==
  CASE c.module = "export_network_config_dashboard" -> Names(Assessment)
    [] c.module = "run_correlation" -> {"findings", "device_health_cards", "metrics"}
    [] c.module = "run_streaming_demo" -> {"incidents", "findings_view"}
    [] OTHER -> {}

\* Which run wrote the file, as far as one can tell.
Stamp(f) == IF Readable(f) THEN files[f].by ELSE files[f]

\* The syslog run of a correlation is resolved when the command runs.
SyslogRead(c) ==
  IF c.module = "run_correlation" /\ c.arg.syslog # None THEN ResolveRun(c.arg.syslog) ELSE None

NewContent(f, c) ==
  IF f = "production"
    THEN IF c.module = "promote_model" THEN Promoted \cup {c.arg} ELSE {}
    ELSE [by |-> run, read |-> [g \in Reads(c) |-> Stamp(g)], syslog |-> SyslogRead(c)]

\* The command gives up before it has written anything.
MustFail(c) ==
  CASE c.module = "dry_run_network_actions" -> ~Readable("remediation_plan")
    [] c.module \in {"generate_network_config_report", "export_network_config_dashboard"} ->
         ~Readable("inventory")
    [] c.module \in {"build_model_registry", "promote_model"} ->
         Torn \in {files["registry"], files["production"]}
    [] OTHER -> FALSE

\* A command ends after some of its files, perhaps in the middle of the next.
Endings(c) ==
  {e \in [written : 0..Len(Writes(c)), torn : BOOLEAN] :
     e.torn => e.written < Len(Writes(c))}
Whole(c) == [written |-> Len(Writes(c)), torn |-> FALSE]

Effect(c, end) ==
  LET list == Writes(c)
      Place(f) == CHOOSE i \in DOMAIN list : list[i] = f IN
  /\ files' = [f \in Artefacts |->
                 IF f \notin Names(list) THEN files[f]
                 ELSE IF Place(f) <= end.written THEN NewContent(f, c)
                 ELSE IF end.torn /\ Place(f) = end.written + 1 THEN Torn
                 ELSE files[f]]
  /\ newest' = IF files["demo_syslog"] = None /\ files'["demo_syslog"] # None
                 THEN "demo_syslog" ELSE newest

Runs == pc = "command" /\ ~Refused /\ ~options.dryRun

Execute ==
  /\ Runs /\ ~MustFail(Command)
  /\ Effect(Command, Whole(Command))
  /\ executed' = executed \cup {<<at, cmd>>}
  /\ Advance
  /\ UNCHANGED <<run, options, stages, at, latest, clean, spent>>

\* A command is refused, exits with an error or is cut off by the timeout.  The
\* artefacts are not looked at again.
CommandFails ==
  /\ pc = "command"
  /\ executed' = IF Runs THEN executed \cup {<<at, cmd>>} ELSE executed
  /\ Settle("failed")
  /\ \/ /\ Refused \/ (Runs /\ MustFail(Command))
        /\ UNCHANGED <<artefacts, clean, spent>>
     \/ /\ Runs /\ ~MustFail(Command) /\ spent.faults < MaxFaults
        /\ \E end \in Endings(Command) : Effect(Command, end)
        /\ clean' = FALSE
        /\ spent' = [spent EXCEPT !.faults = @ + 1]
  /\ UNCHANGED <<run, options, latest>>

-----------------------------------------------------------------------------
(* The artefacts are looked at again. *)

StageReady(name) ==
  CASE name = "env_validation" -> options.inputDir
    [] name = "engine_a" -> EngineAReady
    [] name = "engine_b" -> EngineBReady
    [] name = "engine_c_assessment" -> CoreReady
    [] name = "engine_c_dashboard" -> DashboardReady
    [] name = "syslog" -> SyslogReady
    [] name = "correlation" -> Exists(Names(Correlation))
    [] name = "streaming" -> Exists(Names(Streaming))
    [] name = "frontend_readiness" -> SectionsReady
    [] name = "final_report" -> TRUE

Marked ==
  LET ready == StageReady(Current.name)
      idle == Current.commands = <<>> IN
  CASE Current.name \notin Internal /\ options.dryRun ->
         IF Current.status = "reused_existing" THEN "reused_existing" ELSE "skipped"
    [] Current.name = "syslog" /\ ~options.dryRun ->
         IF ready THEN IF idle THEN "reused_existing" ELSE "success"
         ELSE IF options.requireSyslog THEN "failed" ELSE "skipped"
    [] OTHER ->
         IF ~ready THEN "failed"
         ELSE IF Current.status = "reused_existing" \/ (Current.name = "engine_a" /\ idle)
           THEN "reused_existing" ELSE "success"

Recheck ==
  /\ pc = "check"
  /\ Settle(Marked)
  /\ UNCHANGED <<artefacts, run, options, executed, latest, clean, spent>>

AllRequiredOk == \A i \in DOMAIN stages : stages[i].required => stages[i].status \in OkStatuses

\* The report of the run, and the pointer to it last.
Finish ==
  /\ pc = "report"
  /\ latest' = [run |-> run, ok |-> AllRequiredOk, dry |-> options.dryRun]
  /\ pc' = "idle"
  /\ UNCHANGED <<artefacts, run, options, stages, at, cmd, executed, clean, spent>>

\* The run and the command it is at are killed.
Kill ==
  /\ pc # "idle" /\ spent.kills < MaxKills
  /\ spent' = [spent EXCEPT !.kills = @ + 1]
  /\ IF Runs /\ ~MustFail(Command)
       THEN \E end \in Endings(Command) : Effect(Command, end)
       ELSE UNCHANGED artefacts
  /\ latest' \in {latest} \cup (IF pc = "report" THEN {Torn} ELSE {})
  /\ pc' = "idle" /\ stages' = <<>> /\ at' = 1 /\ cmd' = 1 /\ executed' = {} /\ clean' = FALSE
  /\ UNCHANGED <<run, options>>

\* Somebody promotes a model or ingests the logs of the lab.
Outside ==
  /\ spent.outside < MaxOutside
  /\ spent' = [spent EXCEPT !.outside = @ + 1]
  /\ \/ \E d \in Datasets :
          /\ Torn \notin {files["registry"], files["production"]}
          /\ files' = [files EXCEPT !["registry"] = [by |-> 0, read |-> <<>>, syslog |-> None],
                                    !["production"] = Promoted \cup {d}]
          /\ UNCHANGED newest
     \/ /\ files' = [files EXCEPT !["lab"] = [by |-> 0, read |-> <<>>, syslog |-> None]]
        /\ newest' = IF Exists({"lab"}) THEN newest ELSE "lab"
  /\ clean' = FALSE
  /\ UNCHANGED <<run, options, stages, at, cmd, executed, latest, pc>>

Next ==
  \/ \E o \in Options : Start(o)
  \/ Enter \/ PassOver \/ Execute \/ CommandFails \/ Recheck \/ Finish
  \/ Kill \/ Outside

Spec == Init /\ [][Next]_vars

-----------------------------------------------------------------------------
(* Properties. *)

Statuses == OkStatuses \cup {"pending", "running", "failed"}

\* Types: there is always a stage and a command to be at while a run is on.
DemoTypeOK ==
  /\ DOMAIN files = Artefacts
  /\ newest \in SyslogRuns \cup {None}
  /\ run \in 0..MaxRuns
  /\ \A i \in DOMAIN stages : stages[i].status \in Statuses
  /\ pc \in {"idle", "stage", "command", "check", "report"}
  /\ pc # "idle" => at \in DOMAIN stages
  /\ pc = "command" => cmd \in DOMAIN Current.commands
  /\ latest \in {None, Torn} \cup [run : 1..MaxRuns, ok : BOOLEAN, dry : BOOLEAN]

\* The pointer says that the current run has prepared everything.
Prepared ==
  /\ latest \notin {None, Torn}
  /\ latest.run = run /\ latest.ok /\ ~latest.dry

WrittenNow(names) == \A f \in names : Readable(f) /\ files[f].by = run
MadeFromPresent(names) ==
  \A f \in names : \A g \in DOMAIN files[f].read : files[f].read[g] = Stamp(g)

\* What the frontend shows after a run that reports itself ready was made by that
\* run, whole, and from the files that are there: nothing a killed or failed run
\* left behind is passed off as prepared.  The assessment itself may be older
\* when the user asked to keep it.
PreparedIsFresh ==
  Prepared =>
    /\ WrittenNow(Names(Dashboard) \cup Names(Correlation) \cup Names(Streaming))
    /\ ~options.reuseAssessment => WrittenNow(Names(Assessment))
    /\ MadeFromPresent(Names(Dashboard) \cup Names(Correlation) \cup Names(Streaming))

TrainingModules == {"train_model", "train_network_health_model", "promote_model"}

\* A run does no more than it was asked to: a dry run executes nothing, a run that
\* may not train trains and promotes nothing even if a retraining is forced, and
\* whatever was executed is on the allowlist.
OnlyAsked ==
  pc # "idle" =>
    /\ options.dryRun => executed = {}
    /\ \A e \in executed :
         LET module == stages[e[1]].commands[e[2]].module IN
         /\ module \in Allowlist
         /\ options.skipTraining => module \notin TrainingModules

\* The report tells what happened: every stage has come to an end, a stage is a
\* success only if all its commands were executed, and reused only if none was.
ReportTruthful ==
  pc = "report" =>
    \A i \in DOMAIN stages :
      LET done == {e \in executed : e[1] = i} IN
      /\ stages[i].status \notin {"pending", "running"}
      /\ stages[i].status = "success" =>
           Cardinality(done) = Len(stages[i].commands)
      /\ stages[i].status = "reused_existing" => done = {}

\* A required stage that failed is the end: the stages behind it are reported as
\* skipped, and none of their commands was executed.
FailureStops ==
  pc = "report" =>
    \A i, j \in DOMAIN stages :
      stages[i].required /\ stages[i].status = "failed" /\ i < j =>
        /\ stages[j].status = "skipped"
        /\ \A e \in executed : e[1] # j

\* An invocation without restrictions, which the inputs of the demo suffice for.
Ordinary ==
  /\ options.inputDir /\ ~options.skipTraining /\ ~options.dryRun /\ ~options.reuseAssessment
  /\ options.requireSyslog => options.fixture /\ options.syslogRun = "latest"

\* Whatever an earlier run left behind when it failed or was killed, short of an
\* unreadable registry, the next ordinary run that is left alone prepares
\* the demo.
RepairsItself ==
  pc = "report" /\ clean /\ Ordinary => AllRequiredOk

\* The state of a run keeps its types, and its report tells what happened.
ReportSound == DemoTypeOK /\ ReportTruthful
=============================================================================
