----------------------- MODULE DemoOrchestratorProofs -----------------------
(***************************************************************************)
(* For every configuration, set of invocations and history of faults, kills *)
(* and steps beside the runs: a run does no more than it was asked to, a    *)
(* required stage that failed is the end of it, its report tells what       *)
(* happened, what it reports as prepared was made by it from the files that *)
(* are there, and an ordinary run that is left alone repairs what earlier   *)
(* ones left behind.                                                        *)
(***************************************************************************)
EXTENDS DemoOrchestrator, FiniteSetTheorems, SequenceTheorems, TLAPS

Places == 1..10

\* The commands of a stage that may not train.
Harmless(commands) ==
  \/ commands = <<>>
  \/ /\ Len(commands) \in Nat \ {0} /\ DOMAIN commands = 1..Len(commands)
     /\ \A j \in DOMAIN commands : commands[j].module \notin TrainingModules

HasStatus(stage) == "status" \in DOMAIN stage

\* What a run keeps to: it has ten stages; the commands it executed belong to the
\* stage it is at or to one before; with training switched off every planned
\* command is harmless and the one it is at is one of them; and there is no
\* required stage that failed, but for the last one of a run that has ended.
RunShape ==
  /\ DOMAIN stages = Places /\ Len(stages) = 10
  /\ \A i \in Places : HasStatus(stages[i])
  /\ at \in Places
  /\ options.dryRun => executed = {}
  /\ \A e \in executed :
       /\ e[1] \in Places /\ e[1] <= at
       /\ stages[e[1]].commands[e[2]].module \in Allowlist

AtCommand ==
  /\ pc = "stage" => cmd = 1
  /\ pc = "command" /\ options.skipTraining => cmd \in DOMAIN stages[at].commands

RunHarmless ==
  options.skipTraining =>
    /\ \A i \in Places : Harmless(stages[i].commands)
    /\ \A e \in executed : stages[e[1]].commands[e[2]].module \notin TrainingModules

RunHalts ==
  \A i \in Places :
    stages[i].required /\ stages[i].status = "failed" =>
      /\ pc = "report" /\ i = at
      /\ \A j \in Places : i < j => stages[j].status = "skipped"

RunInv ==
  pc # "idle" => RunShape /\ AtCommand /\ RunHarmless /\ RunHalts

\* The plan has ten stages, none of which has failed.
LEMMA PlanShape ==
  ASSUME NEW o
  PROVE  LET plan == BuildPlan(o) IN
         /\ DOMAIN plan = Places /\ Len(plan) = 10
         /\ \A i \in Places : HasStatus(plan[i]) /\ plan[i].status # "failed"
<1> DEFINE plan == BuildPlan(o)
<1>1. DOMAIN plan = Places /\ Len(plan) = 10
  BY DEF BuildPlan, Places
<1>2. HasStatus(EngineAStage(o)) /\ EngineAStage(o).status # "failed"
  BY DEF HasStatus, EngineAStage, Stage, Reused
<1>3. HasStatus(EngineBStage(o)) /\ EngineBStage(o).status # "failed"
  BY DEF HasStatus, EngineBStage, Stage, Reused
<1>4. HasStatus(AssessmentStage(o)) /\ AssessmentStage(o).status # "failed"
  BY DEF HasStatus, AssessmentStage, Stage, Reused
<1>5. HasStatus(SyslogStage(o)) /\ SyslogStage(o).status # "failed"
  BY DEF HasStatus, SyslogStage, Stage, Reused
<1>6. HasStatus(CorrelationStage(o)) /\ CorrelationStage(o).status # "failed"
  BY DEF HasStatus, CorrelationStage, Stage
<1>7. \A i \in Places : HasStatus(plan[i]) /\ plan[i].status # "failed"
  BY <1>2, <1>3, <1>4, <1>5, <1>6 DEF BuildPlan, Places, Stage, HasStatus
<1> QED
  BY <1>1, <1>7

\* A list of one or of three commands that do not train.
LEMMA HarmlessLists ==
  ASSUME NEW a, NEW b, NEW c,
         a.module \notin TrainingModules, b.module \notin TrainingModules,
         c.module \notin TrainingModules
  PROVE  Harmless(<<a>>) /\ Harmless(<<a, b, c>>)
<1>1. /\ Len(<<a>>) = 1 /\ DOMAIN <<a>> = 1..1 /\ <<a>>[1] = a
      /\ Len(<<a, b, c>>) = 3 /\ DOMAIN <<a, b, c>> = 1..3
      /\ <<a, b, c>>[1] = a /\ <<a, b, c>>[2] = b /\ <<a, b, c>>[3] = c
  OBVIOUS
<1>2. Harmless(<<a>>)
  BY <1>1 DEF Harmless
<1>3. Harmless(<<a, b, c>>)
  BY <1>1 DEF Harmless
<1> QED
  BY <1>2, <1>3

\* Without training every planned command is harmless, whatever is forced.
LEMMA PlanHarmless ==
  ASSUME NEW o, o.skipTraining
  PROVE  \A i \in Places : Harmless(BuildPlan(o)[i].commands)
<1>1. Harmless(EngineAStage(o).commands)
  BY DEF EngineAStage, Stage, Reused, Harmless
<1>2. Harmless(EngineBStage(o).commands)
  BY DEF EngineBStage, Stage, Reused, Harmless
<1>3. \A module, arg : module \notin TrainingModules => Cmd(module, arg).module \notin TrainingModules
  BY DEF Cmd
<1>4. {"analyze_network_config", "dry_run_network_actions", "generate_network_config_report",
       "ingest_switch_syslog", "run_correlation", "export_network_config_dashboard",
       "run_streaming_demo", "validate_engine_c_safety"} \cap TrainingModules = {}
  BY DEF TrainingModules
<1>5. \A name, required, commands : Stage(name, required, commands).commands = commands
  BY DEF Stage
<1>6. Harmless(<<>>)
  BY DEF Harmless
<1>7. Harmless(Analysis)
  BY <1>3, <1>4, HarmlessLists DEF Analysis
<1>8. \A module, arg : module \notin TrainingModules => Harmless(<<Cmd(module, arg)>>)
  BY <1>3, HarmlessLists
<1>9. \A name, required : Reused(name, required).commands = <<>>
  BY DEF Reused, Stage
<1>10. Harmless(AssessmentStage(o).commands)
  BY <1>5, <1>7, <1>6, <1>9 DEF AssessmentStage
<1>11. Harmless(SyslogStage(o).commands)
  BY <1>4, <1>5, <1>6, <1>8, <1>9 DEF SyslogStage
<1>12. Harmless(CorrelationStage(o).commands)
  <2>1. Harmless(<<Cmd("run_correlation", CorrelationArgs(o))>>)
    BY <1>4, <1>8
  <2> QED
    BY <2>1, <1>5 DEF CorrelationStage
<1>13. /\ Harmless(<<Cmd("export_network_config_dashboard", None)>>)
       /\ Harmless(<<Cmd("run_streaming_demo", None)>>)
       /\ Harmless(<<Cmd("validate_engine_c_safety", None)>>)
  BY <1>4, <1>8
<1> DEFINE plan == BuildPlan(o)
<1>14. /\ plan[1].commands = <<>> /\ plan[2] = EngineAStage(o) /\ plan[3] = EngineBStage(o)
       /\ plan[4] = AssessmentStage(o) /\ plan[5] = SyslogStage(o)
       /\ plan[6].commands = <<Cmd("export_network_config_dashboard", None)>>
       /\ plan[7] = CorrelationStage(o)
       /\ plan[8].commands = <<Cmd("run_streaming_demo", None)>>
       /\ plan[9].commands = <<Cmd("validate_engine_c_safety", None)>>
       /\ plan[10].commands = <<>>
  BY <1>5 DEF BuildPlan
<1> HIDE DEF plan
<1>15. ASSUME NEW i \in Places
       PROVE  Harmless(plan[i].commands)
  <2>1. i \in {1, 2, 3, 4, 5, 6, 7, 8, 9, 10}
    BY DEF Places
  <2> QED
    BY <2>1, <1>1, <1>2, <1>6, <1>10, <1>11, <1>12, <1>13, <1>14
<1> QED
  BY <1>15 DEF plan
\* What it means for a stage to get its status, while no required stage has failed.
LEMMA Settling ==
  ASSUME RunShape, pc # "report", RunHalts, NEW status, Settle(status)
  PROVE  /\ DOMAIN stages' = Places /\ Len(stages') = 10
         /\ \A i \in Places : HasStatus(stages'[i]) /\ stages'[i].commands = stages[i].commands
         /\ at' \in Places /\ at <= at'
         /\ pc' \in {"stage", "report"}
         /\ RunHalts'
<1> DEFINE halt == stages[at].required /\ status \notin OkStatuses
           New(i) == IF i = at THEN [stages[i] EXCEPT !.status = status]
                     ELSE IF halt /\ i > at THEN [stages[i] EXCEPT !.status = "skipped"]
                     ELSE stages[i]
<1>1. /\ DOMAIN stages = Places /\ Len(stages) = 10 /\ at \in Places
      /\ \A i \in Places : HasStatus(stages[i])
  BY DEF RunShape
<1>2. stages' = [i \in Places |-> New(i)]
  BY <1>1 DEF Settle, Current
<1>3. DOMAIN stages' = Places /\ \A i \in Places : stages'[i] = New(i)
  BY <1>2
<1>4. Len(stages') = 10
  BY <1>3 DEF Places
<1>5. \A i \in Places :
        /\ HasStatus(New(i)) /\ New(i).commands = stages[i].commands
        /\ New(i).required = stages[i].required
        /\ i = at => New(i).status = status
        /\ halt /\ i > at => New(i).status = "skipped"
        /\ ~halt /\ i # at => New(i).status = stages[i].status
        /\ i < at => New(i).status = stages[i].status
  BY <1>1 DEF HasStatus, Places
<1>6. /\ at' \in Places /\ at <= at' /\ pc' \in {"stage", "report"}
      /\ halt => pc' = "report" /\ at' = at
  BY <1>1 DEF Settle, Current, Places
<1>7. \A i \in Places : ~(stages[i].required /\ stages[i].status = "failed")
  BY DEF RunHalts
<1>8. "skipped" # "failed" /\ "failed" \notin OkStatuses
  BY DEF OkStatuses
<1>9. ASSUME NEW i \in Places, stages'[i].required, stages'[i].status = "failed"
      PROVE  /\ pc' = "report" /\ i = at'
             /\ \A j \in Places : i < j => stages'[j].status = "skipped"
  <2>1. i = at
    <3>1. CASE i < at
      BY <3>1, <1>3, <1>5, <1>7, <1>9
    <3>2. CASE i > at
      BY <3>2, <1>1, <1>3, <1>5, <1>7, <1>8, <1>9 DEF Places
    <3> QED
      BY <3>1, <3>2, <1>1 DEF Places
  <2>2. halt
    BY <2>1, <1>3, <1>5, <1>8, <1>9
  <2> QED
    BY <2>1, <2>2, <1>1, <1>3, <1>5, <1>6 DEF Places
<1>10. RunHalts'
  BY <1>9 DEF RunHalts
<1>11. \A i \in Places : HasStatus(stages'[i]) /\ stages'[i].commands = stages[i].commands
  BY <1>3, <1>5
<1> QED
  BY <1>3, <1>4, <1>6, <1>10, <1>11

LEMMA RunInit == Init => RunInv
  BY DEF Init, RunInv

\* The stages keep their commands while the run goes on.  What is executed is the
\* command the run is at, or nothing.
LEMMA Going ==
  ASSUME RunShape, AtCommand, RunHarmless,
         DOMAIN stages' = Places, Len(stages') = 10,
         \A i \in Places : HasStatus(stages'[i]) /\ stages'[i].commands = stages[i].commands,
         at' \in Places, at <= at', options' = options,
         \/ executed' = executed
         \/ /\ executed' = executed \cup {<<at, cmd>>}
            /\ pc = "command" /\ Command.module \in Allowlist /\ ~options.dryRun
  PROVE  RunShape' /\ RunHarmless'
<1>1. ASSUME NEW e \in executed
      PROVE  /\ e[1] \in Places /\ e[1] <= at'
             /\ stages'[e[1]].commands[e[2]].module \in Allowlist
             /\ options.skipTraining =>
                  stages'[e[1]].commands[e[2]].module \notin TrainingModules
  <2>1. /\ e[1] \in Places /\ e[1] <= at /\ at \in Places
        /\ stages[e[1]].commands[e[2]].module \in Allowlist
    BY DEF RunShape
  <2>2. options.skipTraining => stages[e[1]].commands[e[2]].module \notin TrainingModules
    BY DEF RunHarmless
  <2> QED
    BY <2>1, <2>2 DEF Places
<1>2. ASSUME pc = "command", Command.module \in Allowlist
      PROVE  /\ at \in Places
             /\ stages'[at].commands[cmd].module \in Allowlist
             /\ options.skipTraining => stages'[at].commands[cmd].module \notin TrainingModules
  <2>1. at \in Places
    BY DEF RunShape
  <2>2. options.skipTraining => Harmless(stages[at].commands) /\ cmd \in DOMAIN stages[at].commands
    BY <1>2, <2>1 DEF RunHarmless, AtCommand
  <2>3. options.skipTraining => stages[at].commands[cmd].module \notin TrainingModules
    BY <2>2 DEF Harmless
  <2> QED
    BY <1>2, <2>1, <2>3 DEF Command, Current
<1>3. ASSUME NEW e \in executed', e \notin executed
      PROVE  e[1] = at /\ e[2] = cmd /\ pc = "command" /\ Command.module \in Allowlist
  BY <1>3
<1>4. ASSUME NEW e \in executed'
      PROVE  /\ e[1] \in Places /\ e[1] <= at'
             /\ stages'[e[1]].commands[e[2]].module \in Allowlist
             /\ options.skipTraining =>
                  stages'[e[1]].commands[e[2]].module \notin TrainingModules
  <2>1. CASE e \in executed
    BY <1>1, <2>1
  <2>2. CASE e \notin executed
    BY <1>2, <1>3, <1>4, <2>2
  <2> QED
    BY <2>1, <2>2
<1>5. options.dryRun => executed' = {}
  BY DEF RunShape
<1>6. RunShape'
  BY <1>4, <1>5 DEF RunShape
<1>7. RunHarmless'
  BY <1>4 DEF RunHarmless
<1> QED
  BY <1>6, <1>7

\* A stage gets its status, perhaps after a command that failed.
LEMMA Settled ==
  ASSUME RunInv, pc \in {"command", "check"}, NEW status, Settle(status), options' = options,
         \/ executed' = executed
         \/ /\ executed' = executed \cup {<<at, cmd>>}
            /\ pc = "command" /\ Command.module \in Allowlist /\ ~options.dryRun
  PROVE  RunInv'
<1>1. RunShape /\ AtCommand /\ RunHarmless /\ RunHalts /\ pc # "report"
  BY DEF RunInv
<1>2. /\ DOMAIN stages' = Places /\ Len(stages') = 10
      /\ \A i \in Places : HasStatus(stages'[i]) /\ stages'[i].commands = stages[i].commands
      /\ at' \in Places /\ at <= at' /\ pc' \in {"stage", "report"} /\ RunHalts'
  BY <1>1, Settling
<1>3. RunShape' /\ RunHarmless'
  BY <1>1, <1>2, Going
<1>4. AtCommand'
  BY <1>2 DEF Settle, AtCommand
<1> QED
  BY <1>2, <1>3, <1>4 DEF RunInv

\* The run goes on to the next command or to the check.
LEMMA Advanced ==
  ASSUME RunInv, pc = "command", Advance, UNCHANGED <<stages, at, options>>,
         \/ executed' = executed
         \/ /\ executed' = executed \cup {<<at, cmd>>}
            /\ Command.module \in Allowlist /\ ~options.dryRun
  PROVE  RunInv'
<1>1. RunShape /\ AtCommand /\ RunHarmless /\ RunHalts
  BY DEF RunInv
<1>2. /\ DOMAIN stages = Places /\ Len(stages) = 10 /\ at \in Places /\ at <= at
      /\ \A i \in Places : HasStatus(stages[i])
  BY <1>1 DEF RunShape, Places
<1>3. RunShape' /\ RunHarmless'
  BY <1>1, <1>2, Going
<1>4. pc' \in {"command", "check"}
  BY DEF Advance
<1>5. ASSUME options.skipTraining, pc' = "command"
      PROVE  cmd' \in DOMAIN stages[at].commands
  <2>1. cmd' = cmd + 1 /\ cmd # Len(stages[at].commands)
    BY <1>5 DEF Advance, Current
  <2>2. Harmless(stages[at].commands) /\ cmd \in DOMAIN stages[at].commands
    BY <1>1, <1>2, <1>5 DEF RunHarmless, AtCommand
  <2> QED
    BY <2>1, <2>2 DEF Harmless
<1>6. AtCommand'
  BY <1>4, <1>5 DEF AtCommand
<1>7. RunHalts'
  BY <1>1 DEF RunHalts
<1> QED
  BY <1>3, <1>6, <1>7 DEF RunInv

LEMMA RunNext == RunInv /\ [Next]_vars => RunInv'
<1> SUFFICES ASSUME RunInv, [Next]_vars
             PROVE  RunInv'
  OBVIOUS
<1>1. ASSUME NEW o \in Options, Start(o)
      PROVE  RunInv'
  <2>1. /\ stages' = BuildPlan(o) /\ options' = o /\ at' = 1 /\ cmd' = 1 /\ executed' = {}
        /\ pc' = "stage"
    BY <1>1 DEF Start
  <2>2. RunShape'
    BY <2>1, PlanShape DEF RunShape, Places
  <2>3. RunHarmless' /\ AtCommand'
    BY <2>1, PlanHarmless DEF RunHarmless, AtCommand
  <2>4. RunHalts'
    BY <2>1, PlanShape DEF RunHalts
  <2> QED
    BY <2>2, <2>3, <2>4 DEF RunInv
<1>2. CASE Enter
  <2>1. /\ RunShape /\ AtCommand /\ RunHarmless /\ RunHalts /\ pc = "stage" /\ cmd = 1
        /\ at' = at /\ executed' = executed /\ options' = options /\ cmd' = cmd
    BY <1>2 DEF Enter, RunInv, AtCommand
  <2>2. \/ /\ pc' = "check" /\ stages' = stages
        \/ /\ pc' = "command" /\ Current.commands # <<>>
           /\ stages' = [stages EXCEPT ![at].status = "running"]
    BY <1>2 DEF Enter
  <2>3. /\ DOMAIN stages' = Places /\ Len(stages') = 10 /\ at \in Places /\ at <= at
        /\ \A i \in Places :
             /\ HasStatus(stages'[i]) /\ stages'[i].commands = stages[i].commands
             /\ stages'[i].required = stages[i].required
             /\ stages'[i].status \in {stages[i].status, "running"}
    <3>1. /\ DOMAIN stages = Places /\ Len(stages) = 10 /\ at \in Places /\ at <= at
          /\ \A i \in Places : HasStatus(stages[i])
      BY <2>1 DEF RunShape, Places
    <3>2. CASE stages' = stages
      BY <3>1, <3>2
    <3>3. CASE stages' = [stages EXCEPT ![at].status = "running"]
      <4>1. stages' = [i \in Places |->
                         IF i = at THEN [stages[i] EXCEPT !.status = "running"] ELSE stages[i]]
        BY <3>1, <3>3
      <4>2. DOMAIN stages' = Places /\ Len(stages') = 10
        BY <4>1 DEF Places
      <4> QED
        BY <3>1, <4>1, <4>2 DEF HasStatus
    <3> QED
      BY <2>2, <3>2, <3>3
  <2>4. RunShape' /\ RunHarmless'
    BY <2>1, <2>3, Going
  <2>5. RunHalts'
    BY <2>1, <2>3 DEF RunHalts
  <2>6. ASSUME options.skipTraining, pc' = "command"
        PROVE  1 \in DOMAIN stages[at].commands
    BY <2>1, <2>2, <2>3, <2>6 DEF RunHarmless, Harmless, Current
  <2>7. AtCommand'
    BY <2>1, <2>2, <2>3, <2>6 DEF AtCommand
  <2> QED
    BY <2>4, <2>5, <2>7 DEF RunInv
<1>3. CASE PassOver
  BY <1>3, Advanced DEF PassOver
<1>4. CASE Execute
  BY <1>4, Advanced DEF Execute, Runs, Refused
<1>5. CASE CommandFails
  BY <1>5, Settled DEF CommandFails, Runs, Refused
<1>6. CASE Recheck
  BY <1>6, Settled DEF Recheck
<1>7. CASE Finish \/ Kill
  BY <1>7 DEF Finish, Kill, RunInv
<1>8. CASE Outside \/ UNCHANGED vars
  BY <1>8 DEF Outside, vars, RunInv, RunShape, AtCommand, RunHarmless, RunHalts
<1> QED
  BY <1>1, <1>2, <1>3, <1>4, <1>5, <1>6, <1>7, <1>8 DEF Next

LEMMA RunAlways == Spec => []RunInv
<1>1. Init => RunInv
  BY RunInit
<1>2. RunInv /\ [Next]_vars => RunInv'
  BY RunNext
<1> QED
  BY <1>1, <1>2, PTL DEF Spec

\* Whatever is planned, forced or found, a dry run executes nothing, a run without
\* training trains and promotes nothing, and only allowed commands are executed.
THEOREM OnlyAskedHolds == Spec => []OnlyAsked
<1>1. RunInv => OnlyAsked
  BY DEF RunInv, RunShape, RunHarmless, OnlyAsked
<1> QED
  BY <1>1, RunAlways, PTL

\* Once a required stage has failed, no command of a later stage was executed and
\* the report calls all of them skipped.
THEOREM FailureStopsHolds == Spec => []FailureStops
<1>1. ASSUME RunInv, pc = "report", NEW i \in DOMAIN stages, NEW j \in DOMAIN stages,
             stages[i].required, stages[i].status = "failed", i < j
      PROVE  /\ stages[j].status = "skipped"
             /\ \A e \in executed : e[1] # j
  <2>1. RunShape /\ RunHalts
    BY <1>1 DEF RunInv
  <2>2. i \in Places /\ j \in Places /\ i = at
    BY <1>1, <2>1 DEF RunShape, RunHalts
  <2> QED
    BY <1>1, <2>1, <2>2 DEF RunShape, RunHalts, Places
<1>2. RunInv => FailureStops
  BY <1>1 DEF FailureStops
<1> QED
  BY <1>2, RunAlways, PTL
-----------------------------------------------------------------------------
(* What a run has done so far, and what the files say of it.               *)

Done(i) == {e \in executed : e[1] = i}
AllOf(i, n) == {<<i, j>> : j \in 1..n}

StageNames ==
  << "env_validation", "engine_a", "engine_b", "engine_c_assessment", "syslog",
     "engine_c_dashboard", "correlation", "streaming", "frontend_readiness", "final_report" >>

\* The modules of a stage.
TrainingSteps ==
  { "validate_datasets", "run_preprocessing", "run_feature_engineering", "train_model",
    "generate_validation_report", "build_experiment_index", "build_model_registry", "promote_model" }
HealthSteps ==
  { "prepare_network_health_dataset", "validate_network_health",
    "run_network_health_preprocessing", "train_network_health_model" }
AnalysisSteps == {"analyze_network_config", "dry_run_network_actions", "generate_network_config_report"}
ModulesOf ==
  << {}, TrainingSteps, HealthSteps, AnalysisSteps, {"ingest_switch_syslog"},
     {"export_network_config_dashboard"}, {"run_correlation"}, {"run_streaming_demo"},
     {"validate_engine_c_safety"}, {} >>

\* A list of commands of some modules.
ListOf(commands, modules) ==
  /\ Len(commands) \in Nat /\ DOMAIN commands = 1..Len(commands)
  /\ \A j \in DOMAIN commands : commands[j].module \in modules
  /\ Len(commands) = 0 <=> commands = <<>>

\* What every plan for some options looks like.
Planned(plan, o) ==
  /\ \A i \in Places :
       /\ plan[i].name = StageNames[i] /\ (plan[i].required <=> i # 5 \/ o.requireSyslog)
       /\ ListOf(plan[i].commands, ModulesOf[i])
  /\ \A j \in DOMAIN plan[2].commands :
       plan[2].commands[j].module = "promote_model" => plan[2].commands[j].arg \in Datasets
  /\ plan[3].commands # <<>> =>
       Len(plan[3].commands) = 4 /\ plan[3].commands[4].module = "train_network_health_model"
  /\ plan[4].commands = Analysis \/ (o.reuseAssessment /\ plan[4].commands = <<>>)
  /\ Len(plan[5].commands) \in {0, 1}
  /\ \A i \in {6, 7, 8, 9} : Len(plan[i].commands) = 1

\* A required stage has failed.
Halted == \E k \in Places : stages[k].required /\ stages[k].status = "failed"

\* A stage that has its status.
Reported(i) ==
  /\ stages[i].status \notin {"pending", "running"}
  /\ stages[i].status = "success" => Done(i) = AllOf(i, Len(stages[i].commands))
  /\ stages[i].status = "reused_existing" => Done(i) = {} /\ stages[i].commands = <<>>
  /\ stages[i].status = "skipped" /\ stages[i].required /\ ~options.dryRun => Halted

\* A stage that is still to come.
Waiting(i) ==
  /\ stages[i].status \in {"pending", "reused_existing"} /\ Done(i) = {}
  /\ stages[i].status = "reused_existing" => stages[i].commands = <<>>

\* The stage the run is at.
Halfway ==
  /\ pc = "stage" => Waiting(at)
  /\ pc = "command" =>
       /\ stages[at].status = "running" /\ cmd \in 1..Len(stages[at].commands)
       /\ Done(at) = IF options.dryRun THEN {} ELSE AllOf(at, cmd - 1)
  /\ pc = "check" =>
       /\ Done(at) = IF options.dryRun THEN {} ELSE AllOf(at, Len(stages[at].commands))
       /\ \/ stages[at].status = "running" /\ stages[at].commands # <<>>
          \/ stages[at].status \in {"pending", "reused_existing"} /\ stages[at].commands = <<>>
  /\ pc = "report" => at = 10 \/ Halted

\* The report can be written from the run.
Ledger ==
  /\ Planned(stages, options)
  /\ \A i \in Places : stages[i].status \in Statuses
  /\ executed \subseteq Places \X Nat
  /\ \A i \in Places : i < at \/ pc = "report" => Reported(i)
  /\ \A i \in Places : i > at /\ pc # "report" => Waiting(i)
  /\ Halfway

\* The variables beside the plan.
Typed ==
  /\ DOMAIN files = Artefacts
  /\ newest \in SyslogRuns \cup {None}
  /\ run \in 0..MaxRuns
  /\ pc \in {"idle", "stage", "command", "check", "report"}
  /\ pc = "idle" => \A i \in DOMAIN stages : stages[i].status \in Statuses
  /\ pc # "idle" => run # 0 /\ options \in Options
  /\ latest \in {None, Torn} \cup [run : 1..MaxRuns, ok : BOOLEAN, dry : BOOLEAN]

LInv == RunInv /\ Typed /\ (pc # "idle" => Ledger)
\* What a file of the run says: when it was written and from what.
WrittenFrom(names, sources) ==
  \A f \in names : Readable(f) /\ files[f].by = run /\ files[f].read = [g \in sources |-> Stamp(g)]

DashboardFrom == Names(Assessment)
CorrelationFrom == {"findings", "device_health_cards", "metrics"}
StreamingFrom == {"incidents", "findings_view"}

\* While no required stage has failed, the files are those of the run: an earlier
\* stage's are not written to by a later one.
Provenance ==
  ~options.dryRun /\ ~Halted =>
    /\ <<4, 1>> \in executed => WrittenNow(Names(Assessment))
    /\ <<6, 1>> \in executed => WrittenFrom(Names(Dashboard), DashboardFrom)
    /\ <<7, 1>> \in executed => WrittenFrom(Names(Correlation), CorrelationFrom)
    /\ <<8, 1>> \in executed => WrittenFrom(Names(Streaming), StreamingFrom)

\* What the pointer promises, and that a run in progress is not the one it names.
Pointer ==
  /\ latest \notin {None, Torn} => latest.run <= run /\ (pc # "idle" => latest.run # run)
  /\ Prepared =>
       /\ ~options.reuseAssessment => WrittenNow(Names(Assessment))
       /\ WrittenFrom(Names(Dashboard), DashboardFrom)
       /\ WrittenFrom(Names(Correlation), CorrelationFrom)
       /\ WrittenFrom(Names(Streaming), StreamingFrom)

PInv == LInv /\ Pointer /\ (pc # "idle" => Provenance)

\* In an ordinary run that is left alone nothing fails: what a later stage needs is
\* there already or a command still to come will write it.
Supplied ==
  /\ ~Halted
  /\ Torn \notin {files["registry"], files["production"]}
  /\ \A d \in Datasets :
       \/ d \in Promoted
       \/ \E j \in DOMAIN stages[2].commands :
            stages[2].commands[j] = Cmd("promote_model", d) /\ <<2, j>> \notin executed
  /\ files["metrics"] = None => stages[3].commands # <<>> /\ <<3, 4>> \notin executed
  /\ options.requireSyslog /\ ReadyLogs = {} => stages[5].commands # <<>> /\ <<5, 1>> \notin executed

\* The models in production are those of datasets.
Registered == files["production"] \in {None, Torn} \cup SUBSET Datasets

SInv == PInv /\ Registered /\ (pc # "idle" /\ clean /\ Ordinary => Supplied)
-----------------------------------------------------------------------------
(* The plan.                                                               *)

\* Two numbers of a finite set have their ranks in their order, and every rank
\* is that of a number.
Below(T, t) == {u \in T : u < t}

LEMMA Ranks ==
  ASSUME NEW T, T \subseteq Nat, IsFiniteSet(T)
  PROVE  /\ \A t \in T : Cardinality(Below(T, t)) \in 0..Cardinality(T) - 1
         /\ \A s, t \in T : s < t => Cardinality(Below(T, s)) < Cardinality(Below(T, t))
         /\ \A n \in 0..Cardinality(T) - 1 : \E t \in T : Cardinality(Below(T, t)) = n
<1>1. Cardinality(T) \in Nat
  BY FS_CardinalityType
<1>2. \A t \in T : IsFiniteSet(Below(T, t)) /\ Cardinality(Below(T, t)) \in Nat
  <2>1. \A t \in T : Below(T, t) \in SUBSET T
    BY DEF Below
  <2>2. QED
    BY <2>1, FS_Subset, FS_CardinalityType
<1>3. ASSUME NEW t \in T PROVE Cardinality(Below(T, t)) \in 0..Cardinality(T) - 1
  <2>1. Below(T, t) \in SUBSET (T \ {t})
    BY DEF Below
  <2>2. IsFiniteSet(T \ {t}) /\ Cardinality(T \ {t}) = Cardinality(T) - 1
    BY FS_RemoveElement
  <2>3. Cardinality(Below(T, t)) <= Cardinality(T \ {t})
    BY <2>1, <2>2, FS_Subset
  <2>4. QED
    BY <1>1, <1>2, <2>2, <2>3
<1>4. ASSUME NEW s \in T, NEW t \in T, s < t
      PROVE  Cardinality(Below(T, s)) < Cardinality(Below(T, t))
  <2>0. s \in Nat /\ t \in Nat
    OBVIOUS
  <2>1. Below(T, s) \in SUBSET Below(T, t) /\ s \in Below(T, t) /\ s \notin Below(T, s)
    <3>1. ASSUME NEW u \in Below(T, s) PROVE u \in Below(T, t)
      <4>1. u \in T /\ u \in Nat /\ u < s
        BY DEF Below
      <4>2. u < t
        BY <1>4, <2>0, <4>1
      <4>3. QED
        BY <4>1, <4>2 DEF Below
    <3>2. s \in Below(T, t) /\ s \notin Below(T, s)
      BY <1>4, <2>0 DEF Below
    <3>3. QED
      BY <3>1, <3>2
  <2>2. /\ Cardinality(Below(T, s)) <= Cardinality(Below(T, t))
        /\ Cardinality(Below(T, t)) = Cardinality(Below(T, s)) => Below(T, t) = Below(T, s)
    BY <1>2, <2>1, FS_Subset
  <2>3. QED
    BY <1>2, <2>1, <2>2
<1>5. \A n \in 0..Cardinality(T) - 1 : \E t \in T : Cardinality(Below(T, t)) = n
  <2> DEFINE rank == [t \in T |-> Cardinality(Below(T, t))]
             places == 0..Cardinality(T) - 1
  <2>1. rank \in [T -> places]
    BY <1>3
  <2>2. \A s, t \in T : rank[s] = rank[t] => s = t
    BY <1>2, <1>4
  <2>3. rank \in Injection(T, places)
    BY <2>1, <2>2 DEF Injection, IsInjective
  <2>4. IsFiniteSet(places) /\ Cardinality(places) = Cardinality(T)
    <3>1. 0 \in Int /\ Cardinality(T) - 1 \in Int
      BY <1>1
    <3>2. /\ IsFiniteSet(0..Cardinality(T) - 1)
          /\ Cardinality(0..Cardinality(T) - 1) =
               IF 0 > Cardinality(T) - 1 THEN 0 ELSE Cardinality(T) - 1 - 0 + 1
      BY ONLY <3>1, FS_Interval
    <3>3. QED
      BY <1>1, <3>2
  <2>5. rank \in Surjection(T, places)
    <3> HIDE DEF rank, places
    <3>1. QED
      BY <2>3, <2>4, FS_Injection
  <2>6. QED
    BY <2>5 DEF Surjection
<1>6. QED
  BY <1>3, <1>4, <1>5
\* The datasets of a set are all listed, and no others.
LEMMA InOrderLists ==
  ASSUME NEW chosen
  PROVE  /\ InOrder(chosen) \in Seq(chosen \cap Datasets)
         /\ \A d \in chosen \cap Datasets : \E n \in DOMAIN InOrder(chosen) : InOrder(chosen)[n] = d
<1> DEFINE places == {i \in DOMAIN EngineADatasets : EngineADatasets[i] \in chosen}
           Nth(n) == CHOOSE i \in places : Cardinality({j \in places : j < i}) = n - 1
           N == Cardinality(places)
<1>1. Len(EngineADatasets) \in Nat /\ DOMAIN EngineADatasets = 1..Len(EngineADatasets)
  BY DatasetsAssumption
<1>2. places \subseteq Nat /\ IsFiniteSet(places)
  <2>1. IsFiniteSet(1..Len(EngineADatasets)) /\ places \in SUBSET (1..Len(EngineADatasets))
    BY <1>1, FS_Interval
  <2>2. QED
    BY <2>1, FS_Subset
<1>3. N \in Nat
  BY <1>2, FS_CardinalityType
<1>4. \A i : Below(places, i) = {j \in places : j < i}
  BY DEF Below
<1> HIDE DEF places
<1>5. /\ \A i \in places : Cardinality(Below(places, i)) \in 0..N - 1
      /\ \A i, j \in places : i < j => Cardinality(Below(places, i)) < Cardinality(Below(places, j))
      /\ \A n \in 0..N - 1 : \E i \in places : Cardinality(Below(places, i)) = n
  BY <1>2, Ranks
<1>6. \A n \in 1..N : Nth(n) \in places /\ Cardinality(Below(places, Nth(n))) = n - 1
  <2> SUFFICES ASSUME NEW n \in 1..N PROVE \E i \in places : Cardinality({j \in places : j < i}) = n - 1
    BY <1>4
  <2>1. n - 1 \in 0..N - 1
    BY <1>3
  <2>2. QED
    BY <2>1, <1>4, <1>5
<1>7. InOrder(chosen) = [n \in 1..N |-> EngineADatasets[Nth(n)]]
  BY DEF InOrder, places
<1> HIDE DEF Nth, N
<1>8. \A i \in places : EngineADatasets[i] \in chosen \cap Datasets
  BY DEF places, Datasets
<1>9. InOrder(chosen) \in Seq(chosen \cap Datasets)
  <2>1. \A n \in 1..N : EngineADatasets[Nth(n)] \in chosen \cap Datasets
    BY <1>6, <1>8
  <2>2. QED
    BY <1>3, <1>7, <2>1
<1>10. ASSUME NEW d \in chosen \cap Datasets
       PROVE  \E n \in DOMAIN InOrder(chosen) : InOrder(chosen)[n] = d
  <2>1. PICK i \in places : EngineADatasets[i] = d
    BY DEF places, Datasets
  <2>2. PICK r \in 0..N - 1 : r = Cardinality(Below(places, i))
    BY <1>5
  <2>3. r + 1 \in 1..N /\ r + 1 - 1 = r
    BY <1>3
  <2>4. Nth(r + 1) \in places /\ Cardinality(Below(places, Nth(r + 1))) = r
    BY <1>6, <2>3
  <2>5. Nth(r + 1) = i
    <3>1. i \in Nat /\ Nth(r + 1) \in Nat
      BY <1>2, <2>4
    <3>2. ~(i < Nth(r + 1)) /\ ~(Nth(r + 1) < i)
      BY <1>5, <2>2, <2>4
    <3>3. QED
      BY <3>1, <3>2
  <2>6. QED
    BY <1>7, <2>1, <2>3, <2>5
<1>11. QED
  BY <1>9, <1>10
\* The lists a plan is made of.
LEMMA ListOfSeq ==
  ASSUME NEW modules, NEW S, \A c \in S : c.module \in modules, NEW list \in Seq(S)
  PROVE  ListOf(list, modules)
BY DEF ListOf

LEMMA ListsOfCommands ==
  ASSUME NEW modules
  PROVE  /\ ListOf(<<>>, modules) /\ Len(<<>>) = 0
         /\ \A a : a.module \in modules => ListOf(<<a>>, modules) /\ Len(<<a>>) = 1 /\ <<a>>[1] = a /\ <<a>> # <<>>
<1>1. Len(<<>>) = 0 /\ DOMAIN <<>> = 1..0
  OBVIOUS
<1>2. ListOf(<<>>, modules)
  BY <1>1 DEF ListOf
<1>3. ASSUME NEW a, a.module \in modules
      PROVE  ListOf(<<a>>, modules) /\ Len(<<a>>) = 1 /\ <<a>>[1] = a /\ <<a>> # <<>>
  <2>1. Len(<<a>>) = 1 /\ DOMAIN <<a>> = 1..1 /\ <<a>>[1] = a /\ <<a>> # <<>>
    OBVIOUS
  <2>2. QED
    BY <1>3, <2>1 DEF ListOf
<1>4. QED
  BY <1>1, <1>2, <1>3

\* A training runs commands of its steps only, and promotes every dataset of its list.
LEMMA TrainingCommands ==
  ASSUME NEW list \in Seq(Datasets)
  PROVE  /\ ListOf(Training(list), TrainingSteps) /\ Training(list) # <<>>
         /\ \A n \in DOMAIN list : \E j \in DOMAIN Training(list) :
              Training(list)[j] = Cmd("promote_model", list[n])
         /\ \A j \in DOMAIN Training(list) :
              Training(list)[j].module = "promote_model" => Training(list)[j].arg \in Datasets
<1> DEFINE C == {Cmd(m, d) : m \in TrainingSteps, d \in Datasets}
                  \cup {Cmd(m, None) : m \in TrainingSteps \ {"promote_model"}}
           first == ForEach("validate_datasets", list) \o ForEach("run_preprocessing", list)
                    \o ForEach("run_feature_engineering", list) \o ForEach("train_model", list)
                    \o << Cmd("generate_validation_report", None), Cmd("build_experiment_index", None),
                          Cmd("build_model_registry", None) >>
           last == ForEach("promote_model", list)
<1>1. \A m \in TrainingSteps, a \in Datasets : Cmd(m, a) \in C
  OBVIOUS
<1>2. \A m \in TrainingSteps : \A n \in DOMAIN list : Cmd(m, list[n]) \in C
  <2>1. \A n \in DOMAIN list : list[n] \in Datasets
    OBVIOUS
  <2>2. QED
    BY <1>1, <2>1
<1>3. \A c \in C : c.module \in TrainingSteps /\ (c.module = "promote_model" => c.arg \in Datasets)
  BY DEF Cmd
<1>4. /\ Cmd("generate_validation_report", None) \in C /\ Cmd("build_experiment_index", None) \in C
      /\ Cmd("build_model_registry", None) \in C
  BY DEF TrainingSteps
<1> HIDE DEF C
<1>5. \A m \in TrainingSteps :
        /\ ForEach(m, list) \in Seq(C) /\ Len(ForEach(m, list)) = Len(list)
        /\ \A n \in DOMAIN list : ForEach(m, list)[n] = Cmd(m, list[n])
  <2> SUFFICES ASSUME NEW m \in TrainingSteps
               PROVE  /\ ForEach(m, list) \in Seq(C) /\ Len(ForEach(m, list)) = Len(list)
                      /\ \A n \in DOMAIN list : ForEach(m, list)[n] = Cmd(m, list[n])
    OBVIOUS
  <2>1. DOMAIN list = 1..Len(list) /\ Len(list) \in Nat
    OBVIOUS
  <2>2. ForEach(m, list) = [n \in 1..Len(list) |-> Cmd(m, list[n])]
    BY <2>1 DEF ForEach
  <2>3. \A n \in 1..Len(list) : Cmd(m, list[n]) \in C
    BY <1>2, <2>1
  <2>4. QED
    BY <2>1, <2>2, <2>3
<1>6. <<Cmd("generate_validation_report", None), Cmd("build_experiment_index", None),
        Cmd("build_model_registry", None)>> \in Seq(C)
  BY <1>4
<1>7. {"validate_datasets", "run_preprocessing", "run_feature_engineering", "train_model",
       "promote_model"} \subseteq TrainingSteps
  BY DEF TrainingSteps
<1>8. /\ ForEach("validate_datasets", list) \in Seq(C) /\ ForEach("run_preprocessing", list) \in Seq(C)
      /\ ForEach("run_feature_engineering", list) \in Seq(C) /\ ForEach("train_model", list) \in Seq(C)
      /\ last \in Seq(C)
  BY <1>5, <1>7
<1>9. \A s, t \in Seq(C) : s \o t \in Seq(C)
  OBVIOUS
<1>10. first \in Seq(C)
  BY <1>6, <1>8, <1>9
<1>11. Training(list) = first \o last
  BY DEF Training
<1>12. Len(first) > 0
  <2>1. \A s \in Seq(C), t \in Seq(C) : Len(s \o t) = Len(s) + Len(t) /\ Len(s) \in Nat /\ Len(t) \in Nat
    OBVIOUS
  <2>2. Len(<<Cmd("generate_validation_report", None), Cmd("build_experiment_index", None),
              Cmd("build_model_registry", None)>>) = 3
    OBVIOUS
  <2> DEFINE a == ForEach("validate_datasets", list) \o ForEach("run_preprocessing", list)
                  \o ForEach("run_feature_engineering", list) \o ForEach("train_model", list)
             b == <<Cmd("generate_validation_report", None), Cmd("build_experiment_index", None),
                    Cmd("build_model_registry", None)>>
  <2>3. a \in Seq(C) /\ b \in Seq(C) /\ first = a \o b
    BY <1>6, <1>8, <1>9
  <2>4. Len(b) = 3
    BY <2>2
  <2> HIDE DEF a, b, first
  <2>5. QED
    BY <2>1, <2>3, <2>4
<1> HIDE DEF first, last
<1>13. Training(list) \in Seq(C) /\ Len(Training(list)) = Len(first) + Len(last)
  BY <1>8, <1>10, <1>11
<1>14. Training(list) # <<>>
  <2>1. Len(Training(list)) # 0
    BY <1>8, <1>10, <1>12, <1>13
  <2>2. QED
    BY <2>1
<1>15. ASSUME NEW n \in DOMAIN list
       PROVE  \E j \in DOMAIN Training(list) : Training(list)[j] = Cmd("promote_model", list[n])
  <2>1. last[n] = Cmd("promote_model", list[n]) /\ n \in 1..Len(last) /\ n \in DOMAIN last
    BY <1>5, <1>7, <1>8 DEF last
  <2>2. Len(first) + n \in DOMAIN Training(list) /\ Training(list)[Len(first) + n] = last[n]
    BY <1>8, <1>10, <1>11, <1>13, <2>1
  <2>3. QED
    BY <2>1, <2>2
<1>16. ListOf(Training(list), TrainingSteps)
  BY <1>3, <1>13, ListOfSeq
<1>17. \A j \in DOMAIN Training(list) :
         Training(list)[j].module = "promote_model" => Training(list)[j].arg \in Datasets
  BY <1>3, <1>13
<1>18. QED
  BY <1>14, <1>15, <1>16, <1>17
\* A stage of a plan is pending or has nothing to do.
Fitting(stage, name) ==
  /\ stage.name = name /\ stage.status \in {"pending", "reused_existing"}
  /\ stage.status = "reused_existing" => stage.commands = <<>>

LEMMA OneCommand ==
  ASSUME NEW m, NEW a
  PROVE  /\ ListOf(<<Cmd(m, a)>>, {m}) /\ Len(<<Cmd(m, a)>>) = 1
         /\ <<Cmd(m, a)>> # <<>> /\ <<Cmd(m, a)>>[1].module = m
<1> DEFINE c == Cmd(m, a)
<1>1. c.module = m
  BY DEF Cmd
<1> HIDE DEF c
<1>2. Len(<<c>>) = 1 /\ DOMAIN <<c>> = 1..1 /\ <<c>>[1] = c /\ <<c>> # <<>>
  OBVIOUS
<1>3. ListOf(<<c>>, {m})
  BY <1>1, <1>2 DEF ListOf
<1>4. QED
  BY <1>1, <1>2, <1>3 DEF c

LEMMA EngineAPlanned ==
  ASSUME NEW o
  PROVE  /\ Fitting(EngineAStage(o), "engine_a") /\ EngineAStage(o).required
         /\ ListOf(EngineAStage(o).commands, TrainingSteps)
         /\ \A j \in DOMAIN EngineAStage(o).commands :
              EngineAStage(o).commands[j].module = "promote_model" => EngineAStage(o).commands[j].arg \in Datasets
         /\ ~o.skipTraining => \A d \in Datasets \ Promoted : \E j \in DOMAIN EngineAStage(o).commands :
              EngineAStage(o).commands[j] = Cmd("promote_model", d)
<1> DEFINE missing == {d \in Datasets : "engine_a" \in o.force \/ d \notin Promoted}
           training == Training(InOrder(missing))
<1>1. \/ EngineAStage(o) = Reused("engine_a", TRUE)
      \/ EngineAStage(o) = Stage("engine_a", TRUE, <<>>)
      \/ EngineAStage(o) = Stage("engine_a", TRUE, training)
  BY DEF EngineAStage
<1>2. Datasets \ Promoted \subseteq missing /\ missing \subseteq Datasets
  OBVIOUS
<1>3. ~o.skipTraining /\ missing # {} => EngineAStage(o) = Stage("engine_a", TRUE, training)
  BY DEF EngineAStage
<1> HIDE DEF missing
<1>4. InOrder(missing) \in Seq(Datasets)
  <2>1. InOrder(missing) \in Seq(missing \cap Datasets)
    BY InOrderLists
  <2>2. QED
    BY <2>1
<1>5. ListOf(training, TrainingSteps)
  BY <1>4, TrainingCommands
<1>6. ListOf(<<>>, TrainingSteps)
  BY ListsOfCommands
<1>7. \A j \in DOMAIN training : training[j].module = "promote_model" => training[j].arg \in Datasets
  BY <1>4, TrainingCommands
<1>8. ASSUME NEW d \in missing PROVE \E j \in DOMAIN training : training[j] = Cmd("promote_model", d)
  <2>1. PICK n \in DOMAIN InOrder(missing) : InOrder(missing)[n] = d
    BY <1>2, InOrderLists
  <2>2. QED
    BY <1>4, <2>1, TrainingCommands
<1> HIDE DEF training
<1>9. /\ Fitting(EngineAStage(o), "engine_a") /\ EngineAStage(o).required
       /\ ListOf(EngineAStage(o).commands, TrainingSteps)
  BY <1>1, <1>5, <1>6 DEF Fitting, Stage, Reused
<1>10. EngineAStage(o).commands \in {<<>>, training}
  BY <1>1 DEF Stage, Reused
<1>11. \A j \in DOMAIN EngineAStage(o).commands :
         EngineAStage(o).commands[j].module = "promote_model" => EngineAStage(o).commands[j].arg \in Datasets
  BY <1>7, <1>10
<1>12. ASSUME ~o.skipTraining, NEW d \in Datasets \ Promoted
       PROVE  \E j \in DOMAIN EngineAStage(o).commands : EngineAStage(o).commands[j] = Cmd("promote_model", d)
  <2>1. d \in missing
    BY <1>2
  <2>2. EngineAStage(o).commands = training
    BY <1>3, <1>12, <2>1 DEF Stage
  <2>3. QED
    BY <1>8, <2>1, <2>2
<1>13. QED
  BY <1>9, <1>11, <1>12

LEMMA EngineBPlanned ==
  ASSUME NEW o
  PROVE  /\ Fitting(EngineBStage(o), "engine_b") /\ EngineBStage(o).required
         /\ ListOf(EngineBStage(o).commands, HealthSteps)
         /\ EngineBStage(o).commands # <<>> =>
              Len(EngineBStage(o).commands) = 4 /\ EngineBStage(o).commands[4].module = "train_network_health_model"
<1> DEFINE four == << Cmd("prepare_network_health_dataset", None), Cmd("validate_network_health", None),
                      Cmd("run_network_health_preprocessing", None), Cmd("train_network_health_model", None) >>
<1>1. Len(four) = 4 /\ DOMAIN four = 1..4 /\ four # <<>>
  OBVIOUS
<1>2. \A j \in 1..4 : four[j].module \in HealthSteps
  BY DEF HealthSteps, Cmd
<1>3. ListOf(four, HealthSteps) /\ four[4].module = "train_network_health_model"
  BY <1>1, <1>2 DEF ListOf, Cmd
<1>4. \/ EngineBStage(o) = Reused("engine_b", TRUE)
      \/ EngineBStage(o) = Stage("engine_b", TRUE, <<>>)
      \/ EngineBStage(o) = Stage("engine_b", TRUE, four)
  BY DEF EngineBStage
<1>5. ListOf(<<>>, HealthSteps)
  BY ListsOfCommands
<1> HIDE DEF four
<1>6. QED
  BY <1>1, <1>3, <1>4, <1>5 DEF Fitting, Stage, Reused

LEMMA AssessmentPlanned ==
  ASSUME NEW o
  PROVE  /\ Fitting(AssessmentStage(o), "engine_c_assessment") /\ AssessmentStage(o).required
         /\ ListOf(AssessmentStage(o).commands, AnalysisSteps)
         /\ AssessmentStage(o).commands = Analysis \/ (o.reuseAssessment /\ AssessmentStage(o).commands = <<>>)
<1>1. Len(Analysis) = 3 /\ DOMAIN Analysis = 1..3 /\ Analysis # <<>>
  BY DEF Analysis
<1>2. \A j \in 1..3 : Analysis[j].module \in AnalysisSteps
  BY DEF Analysis, AnalysisSteps, Cmd
<1>3. ListOf(Analysis, AnalysisSteps)
  BY <1>1, <1>2 DEF ListOf
<1>4. ListOf(<<>>, AnalysisSteps)
  BY ListsOfCommands
<1>5. QED
  BY <1>3, <1>4, SMT DEF AssessmentStage, Fitting, Stage, Reused

LEMMA SyslogPlanned ==
  ASSUME NEW o
  PROVE  /\ Fitting(SyslogStage(o), "syslog") /\ (SyslogStage(o).required <=> o.requireSyslog)
         /\ ListOf(SyslogStage(o).commands, {"ingest_switch_syslog"})
         /\ Len(SyslogStage(o).commands) \in {0, 1}
<1> DEFINE ingest == <<Cmd("ingest_switch_syslog", None)>>
<1>1. ListOf(ingest, {"ingest_switch_syslog"}) /\ Len(ingest) = 1
  BY OneCommand
<1>2. ListOf(<<>>, {"ingest_switch_syslog"}) /\ Len(<<>>) = 0
  BY ListsOfCommands
<1>3. \/ SyslogStage(o) = Reused("syslog", o.requireSyslog)
      \/ SyslogStage(o) = Stage("syslog", o.requireSyslog, <<>>)
      \/ SyslogStage(o) = Stage("syslog", o.requireSyslog, ingest)
  BY DEF SyslogStage
<1> HIDE DEF ingest
<1>4. QED
  BY <1>1, <1>2, <1>3 DEF Fitting, Stage, Reused

\* Every plan looks as planned.
LEMMA PlanPlanned ==
  ASSUME NEW o
  PROVE  /\ Planned(BuildPlan(o), o)
         /\ \A i \in Places : Fitting(BuildPlan(o)[i], StageNames[i])
<1> DEFINE plan == BuildPlan(o)
<1>1. /\ plan[2] = EngineAStage(o) /\ plan[3] = EngineBStage(o) /\ plan[4] = AssessmentStage(o)
      /\ plan[5] = SyslogStage(o)
  BY DEF BuildPlan
<1>2. /\ plan[1].commands = <<>> /\ plan[10].commands = <<>>
      /\ plan[6].commands = <<Cmd("export_network_config_dashboard", None)>>
      /\ plan[7].commands = <<Cmd("run_correlation", CorrelationArgs(o))>>
      /\ plan[8].commands = <<Cmd("run_streaming_demo", None)>>
      /\ plan[9].commands = <<Cmd("validate_engine_c_safety", None)>>
  BY DEF BuildPlan, CorrelationStage, Stage
<1>3. \A i \in {1, 6, 7, 8, 9, 10} : plan[i].required /\ plan[i].status = "pending"
  BY DEF BuildPlan, CorrelationStage, Stage
<1>4. /\ plan[1].name = "env_validation" /\ plan[6].name = "engine_c_dashboard" /\ plan[7].name = "correlation"
      /\ plan[8].name = "streaming" /\ plan[9].name = "frontend_readiness" /\ plan[10].name = "final_report"
  BY DEF BuildPlan, CorrelationStage, Stage
<1> HIDE DEF plan
<1>5. ListOf(plan[1].commands, {}) /\ ListOf(plan[10].commands, {})
  BY <1>2, ListsOfCommands
<1>6. /\ ListOf(plan[6].commands, {"export_network_config_dashboard"}) /\ Len(plan[6].commands) = 1
       /\ ListOf(plan[7].commands, {"run_correlation"}) /\ Len(plan[7].commands) = 1
       /\ ListOf(plan[8].commands, {"run_streaming_demo"}) /\ Len(plan[8].commands) = 1
       /\ ListOf(plan[9].commands, {"validate_engine_c_safety"}) /\ Len(plan[9].commands) = 1
  BY <1>2, OneCommand
<1>7. /\ StageNames[1] = "env_validation" /\ StageNames[2] = "engine_a" /\ StageNames[3] = "engine_b"
      /\ StageNames[4] = "engine_c_assessment" /\ StageNames[5] = "syslog" /\ StageNames[6] = "engine_c_dashboard"
      /\ StageNames[7] = "correlation" /\ StageNames[8] = "streaming" /\ StageNames[9] = "frontend_readiness"
      /\ StageNames[10] = "final_report"
  BY DEF StageNames
<1>8. /\ ModulesOf[1] = {} /\ ModulesOf[2] = TrainingSteps /\ ModulesOf[3] = HealthSteps
      /\ ModulesOf[4] = AnalysisSteps /\ ModulesOf[5] = {"ingest_switch_syslog"}
      /\ ModulesOf[6] = {"export_network_config_dashboard"} /\ ModulesOf[7] = {"run_correlation"}
      /\ ModulesOf[8] = {"run_streaming_demo"} /\ ModulesOf[9] = {"validate_engine_c_safety"} /\ ModulesOf[10] = {}
  BY DEF ModulesOf
<1>9. Places = {1, 2, 3, 4, 5, 6, 7, 8, 9, 10}
  BY DEF Places
<1>10. \A i \in {1, 6, 7, 8, 9, 10} : Fitting(plan[i], StageNames[i]) /\ plan[i].required
  BY <1>3, <1>4, <1>7 DEF Fitting
<1>11. \A i \in {2, 3, 4} : Fitting(plan[i], StageNames[i]) /\ plan[i].required
  BY <1>1, <1>7, EngineAPlanned, EngineBPlanned, AssessmentPlanned
<1>12. Fitting(plan[5], StageNames[5]) /\ (plan[5].required <=> o.requireSyslog)
  BY <1>1, <1>7, SyslogPlanned
<1>13. \A i \in Places : Fitting(plan[i], StageNames[i])
  BY <1>9, <1>10, <1>11, <1>12
<1>14. \A i \in Places : ListOf(plan[i].commands, ModulesOf[i])
  <2>1. /\ ListOf(plan[2].commands, TrainingSteps) /\ ListOf(plan[3].commands, HealthSteps)
        /\ ListOf(plan[4].commands, AnalysisSteps) /\ ListOf(plan[5].commands, {"ingest_switch_syslog"})
    BY <1>1, EngineAPlanned, EngineBPlanned, AssessmentPlanned, SyslogPlanned
  <2>2. /\ ListOf(plan[1].commands, ModulesOf[1]) /\ ListOf(plan[2].commands, ModulesOf[2])
        /\ ListOf(plan[3].commands, ModulesOf[3]) /\ ListOf(plan[4].commands, ModulesOf[4])
        /\ ListOf(plan[5].commands, ModulesOf[5]) /\ ListOf(plan[6].commands, ModulesOf[6])
        /\ ListOf(plan[7].commands, ModulesOf[7]) /\ ListOf(plan[8].commands, ModulesOf[8])
        /\ ListOf(plan[9].commands, ModulesOf[9]) /\ ListOf(plan[10].commands, ModulesOf[10])
    BY <1>8, <1>5, <1>6, <2>1
  <2>3. QED
    BY <1>9, <2>2
<1>15. \A i \in Places : plan[i].required <=> (i # 5 \/ o.requireSyslog)
  BY <1>9, <1>10, <1>11, <1>12
<1>16. \A i \in Places : plan[i].name = StageNames[i]
  BY <1>13 DEF Fitting
<1>17. plan[3].commands # <<>> =>
         Len(plan[3].commands) = 4 /\ plan[3].commands[4].module = "train_network_health_model"
  BY <1>1, EngineBPlanned
<1>18. plan[4].commands = Analysis \/ (o.reuseAssessment /\ plan[4].commands = <<>>)
  BY <1>1, AssessmentPlanned
<1>19. Len(plan[5].commands) \in {0, 1} /\ \A i \in {6, 7, 8, 9} : Len(plan[i].commands) = 1
  BY <1>1, <1>6, SyslogPlanned
<1>20. \A j \in DOMAIN plan[2].commands :
         plan[2].commands[j].module = "promote_model" => plan[2].commands[j].arg \in Datasets
  BY <1>1, EngineAPlanned
<1>21. Planned(plan, o)
  BY <1>14, <1>15, <1>16, <1>17, <1>18, <1>19, <1>20 DEF Planned
<1>22. QED
  BY <1>13, <1>21 DEF plan
-----------------------------------------------------------------------------
(* The steps of a run, as its report tells them.                           *)

\* A plan stays as planned while only statuses change.
LEMMA PlannedStays ==
  ASSUME Planned(stages, options), options' = options,
         \A i \in Places : /\ stages'[i].name = stages[i].name /\ stages'[i].commands = stages[i].commands
                           /\ stages'[i].required = stages[i].required
  PROVE  Planned(stages, options)'
<1>1. {2, 3, 4, 5, 6, 7, 8, 9} \subseteq Places
  BY DEF Places
<1>2. QED
  BY <1>1 DEF Planned

\* What every stage and the run look like once a stage has its status.
LEMMA SettleFields ==
  ASSUME RunShape, NEW status, Settle(status)
  PROVE  LET halt == stages[at].required /\ status \notin OkStatuses IN
         /\ \A i \in Places : /\ stages'[i].name = stages[i].name /\ stages'[i].commands = stages[i].commands
                              /\ stages'[i].required = stages[i].required
         /\ stages'[at].status = status
         /\ \A i \in Places : i < at => stages'[i].status = stages[i].status
         /\ \A i \in Places : i > at => stages'[i].status = IF halt THEN "skipped" ELSE stages[i].status
         /\ halt \/ at = 10 => pc' = "report" /\ at' = at
         /\ ~halt /\ at # 10 => pc' = "stage" /\ at' = at + 1
         /\ cmd' = 1
<1> DEFINE halt == stages[at].required /\ status \notin OkStatuses
           New(i) == IF i = at THEN [stages[i] EXCEPT !.status = status]
                     ELSE IF halt /\ i > at THEN [stages[i] EXCEPT !.status = "skipped"]
                     ELSE stages[i]
<1>1. /\ DOMAIN stages = Places /\ Len(stages) = 10 /\ at \in Places
      /\ \A i \in Places : HasStatus(stages[i])
  BY DEF RunShape
<1>2. stages' = [i \in Places |-> New(i)]
  BY <1>1 DEF Settle, Current
<1>3. \A i \in Places : stages'[i] = New(i)
  BY <1>2
<1>4. \A i \in Places :
        /\ New(i).name = stages[i].name /\ New(i).commands = stages[i].commands
        /\ New(i).required = stages[i].required
        /\ i = at => New(i).status = status
        /\ halt /\ i > at => New(i).status = "skipped"
        /\ ~halt /\ i # at => New(i).status = stages[i].status
        /\ i < at => New(i).status = stages[i].status
  BY <1>1 DEF HasStatus, Places
<1>5. /\ halt \/ at = 10 => pc' = "report" /\ at' = at
      /\ ~halt /\ at # 10 => pc' = "stage" /\ at' = at + 1
      /\ cmd' = 1
  BY <1>1 DEF Settle, Current
<1>6. \A i \in Places : i > at => i # at
  BY <1>1 DEF Places
<1> HIDE DEF New, halt
<1>7. \A i \in Places : i > at => stages'[i].status = IF halt THEN "skipped" ELSE stages[i].status
  BY <1>3, <1>4, <1>6
<1>8. \A i \in Places : /\ stages'[i].name = stages[i].name /\ stages'[i].commands = stages[i].commands
                        /\ stages'[i].required = stages[i].required
                        /\ i < at => stages'[i].status = stages[i].status
                        /\ i = at => stages'[i].status = status
  BY <1>3, <1>4
<1>9. QED
  BY <1>1, <1>5, <1>7, <1>8 DEF halt

\* A stage gets its status.
LEMMA LedgerSettled ==
  ASSUME LInv, pc \in {"command", "check"}, NEW status, Settle(status), options' = options,
         status \in {"success", "skipped", "reused_existing", "failed"},
         executed' = executed \/ (pc = "command" /\ executed' = executed \cup {<<at, cmd>>}),
         \A e : e \in executed' /\ e \notin executed => e[1] = at,
         status = "success" => Done(at) = AllOf(at, Len(stages[at].commands)) /\ executed' = executed,
         status = "reused_existing" => Done(at) = {} /\ stages[at].commands = <<>> /\ executed' = executed,
         status = "skipped" => ~stages[at].required \/ options.dryRun
  PROVE  Ledger'
<1> DEFINE halt == stages[at].required /\ status \notin OkStatuses
<1>1. RunShape /\ RunHalts /\ Ledger /\ at \in Places
  BY DEF LInv, RunInv, RunShape
<1>2. /\ \A i \in Places : /\ stages'[i].name = stages[i].name /\ stages'[i].commands = stages[i].commands
                           /\ stages'[i].required = stages[i].required
      /\ stages'[at].status = status
      /\ \A i \in Places : i < at => stages'[i].status = stages[i].status
      /\ \A i \in Places : i > at => stages'[i].status = IF halt THEN "skipped" ELSE stages[i].status
      /\ halt \/ at = 10 => pc' = "report" /\ at' = at
      /\ ~halt /\ at # 10 => pc' = "stage" /\ at' = at + 1
      /\ cmd' = 1
  BY <1>1, SettleFields
<1>3. halt <=> stages[at].required /\ status = "failed"
  BY DEF OkStatuses
<1>4. ~Halted
  BY <1>1 DEF Halted, RunHalts
<1>5. halt => Halted'
  BY <1>1, <1>2, <1>3 DEF Halted
<1> HIDE DEF halt
<1>6. Planned(stages, options)'
  BY <1>1, <1>2, PlannedStays DEF Ledger
<1>7. \A i \in Places : stages'[i].status \in Statuses
  <2>1. \A i \in Places : i < at \/ i = at \/ i > at
    BY <1>1 DEF Places
  <2>2. status \in Statuses /\ "skipped" \in Statuses
    BY DEF Statuses, OkStatuses
  <2>3. \A i \in Places : stages[i].status \in Statuses
    BY <1>1 DEF Ledger
  <2>4. QED
    BY <1>2, <2>1, <2>2, <2>3
<1>8. executed' \subseteq Places \X Nat
  <2>1. pc = "command" => cmd \in Nat
    BY <1>1 DEF Ledger, Halfway
  <2>2. executed \subseteq Places \X Nat
    BY <1>1 DEF Ledger
  <2>3. QED
    BY <1>1, <2>1, <2>2
<1>9. \A i : i # at => Done(i)' = Done(i)
  BY DEF Done
<1>10. PICK here \in Places : here = at
  BY <1>1
<1>11. executed' = executed => Done(here)' = Done(here)
  BY DEF Done
<1>12. ASSUME NEW i \in Places, i < at PROVE Reported(i)'
  <2>1. Reported(i) /\ i # at
    BY <1>1, <1>12 DEF Ledger, Places
  <2>2. stages'[i].status = stages[i].status /\ Done(i)' = Done(i)
    BY <1>2, <1>9, <1>12, <2>1
  <2>3. QED
    BY <1>2, <1>4, <2>1, <2>2 DEF Reported, AllOf
<1>13. Reported(here)'
  <2>1. Done(here) = Done(at) /\ AllOf(here, Len(stages[here].commands)) = AllOf(at, Len(stages[at].commands))
    BY <1>10
  <2>2. stages'[here].status = status /\ stages'[here].commands = stages[here].commands
        /\ stages'[here].required = stages[here].required
    BY <1>2, <1>10
  <2>3. stages'[here].status \notin {"pending", "running"}
    BY <2>2
  <2>4. stages'[here].status = "success" => Done(here)' = AllOf(here, Len(stages'[here].commands))
    BY <1>10, <1>11, <2>1, <2>2
  <2>5. stages'[here].status = "reused_existing" => Done(here)' = {} /\ stages'[here].commands = <<>>
    BY <1>10, <1>11, <2>1, <2>2
  <2>6. stages'[here].status = "skipped" /\ stages'[here].required /\ ~options'.dryRun => Halted'
    BY <1>10, <2>2
  <2>7. QED
    BY <2>3, <2>4, <2>5, <2>6 DEF Reported, AllOf
<1>14. ASSUME NEW i \in Places, i > at, halt PROVE Reported(i)'
  <2>1. stages'[i].status = "skipped"
    BY <1>2, <1>14
  <2>2. QED
    BY <1>5, <1>14, <2>1 DEF Reported
<1>15. ASSUME NEW i \in Places, i > at, ~halt PROVE Waiting(i)'
  <2>1. Waiting(i) /\ i # at
    BY <1>1, <1>15 DEF Ledger, Places
  <2>2. QED
    BY <1>2, <1>9, <1>15, <2>1 DEF Waiting
<1>16. CASE halt
  <2>1. pc' = "report" /\ at' = at /\ Halted'
    BY <1>2, <1>5, <1>16
  <2>2. \A i \in Places : Reported(i)'
    <3>1. \A i \in Places : i < at \/ i = here \/ i > at
      BY <1>1, <1>10 DEF Places
    <3>2. QED
      BY <1>12, <1>13, <1>14, <1>16, <3>1
  <2>3. Halfway'
    BY <2>1 DEF Halfway
  <2>4. QED
    BY <1>6, <1>7, <1>8, <2>1, <2>2, <2>3 DEF Ledger
<1>17. CASE ~halt /\ at = 10
  <2>1. pc' = "report" /\ at' = at
    BY <1>2, <1>17
  <2>2. \A i \in Places : Reported(i)'
    <3>1. \A i \in Places : i < at \/ i = here
      BY <1>10, <1>17 DEF Places
    <3>2. QED
      BY <1>12, <1>13, <3>1
  <2>3. Halfway'
    BY <1>17, <2>1 DEF Halfway
  <2>4. QED
    BY <1>6, <1>7, <1>8, <2>1, <2>2, <2>3 DEF Ledger
<1>18. CASE ~halt /\ at # 10
  <2>1. pc' = "stage" /\ at' = at + 1
    BY <1>2, <1>18
  <2>2. \A i \in Places : i < at' => Reported(i)'
    <3>1. \A i \in Places : i < at' => i < at \/ i = here
      BY <1>1, <1>10, <2>1 DEF Places
    <3>2. QED
      BY <1>12, <1>13, <3>1
  <2>3. \A i \in Places : i > at' => Waiting(i)'
    <3>1. \A i \in Places : i > at' => i > at
      BY <1>1, <2>1 DEF Places
    <3>2. QED
      BY <1>15, <1>18, <3>1
  <2>4. PICK next \in Places : next = at + 1
    BY <1>1, <1>18 DEF Places
  <2>5. Waiting(next)'
    BY <1>1, <1>15, <1>18, <2>4 DEF Places
  <2>6. Halfway'
    BY <2>1, <2>4, <2>5 DEF Halfway, Waiting, Done
  <2>7. QED
    BY <1>6, <1>7, <1>8, <2>1, <2>2, <2>3, <2>6 DEF Ledger
<1>19. QED
  BY <1>16, <1>17, <1>18
\* The commands of a stage are a list.
LEMMA Listing ==
  ASSUME Planned(stages, options), NEW i \in Places
  PROVE  /\ Len(stages[i].commands) \in Nat
         /\ DOMAIN stages[i].commands = 1..Len(stages[i].commands)
         /\ Len(stages[i].commands) = 0 <=> stages[i].commands = <<>>
         /\ \A j \in 1..Len(stages[i].commands) : stages[i].commands[j].module \in ModulesOf[i]
BY DEF Planned, ListOf

\* The run goes on to the next command or to the check.
LEMMA LedgerAdvanced ==
  ASSUME LInv, pc = "command", Advance, UNCHANGED <<stages, at, options>>,
         executed' = IF options.dryRun THEN executed ELSE executed \cup {<<at, cmd>>}
  PROVE  Ledger'
<1>1. RunShape /\ Ledger /\ at \in Places
  BY DEF LInv, RunInv, RunShape
<1>2. PICK here \in Places : here = at
  BY <1>1
<1> DEFINE n == Len(stages[here].commands)
<1>3. /\ stages[here].status = "running" /\ cmd \in 1..n /\ n \in Nat
      /\ Done(here) = IF options.dryRun THEN {} ELSE AllOf(here, cmd - 1)
      /\ stages[here].commands # <<>>
  <2>1. n \in Nat /\ (n = 0 <=> stages[here].commands = <<>>)
    BY <1>1, Listing DEF Ledger
  <2>2. cmd \in 1..n /\ stages[here].status = "running"
    BY <1>1, <1>2 DEF Ledger, Halfway
  <2>3. Done(here) = IF options.dryRun THEN {} ELSE AllOf(here, cmd - 1)
    BY <1>1, <1>2 DEF Ledger, Halfway
  <2>4. QED
    BY <2>1, <2>2, <2>3
<1>4. \A i : i # here => Done(i)' = Done(i)
  BY <1>2 DEF Done
<1>5. Done(here)' = IF options.dryRun THEN {} ELSE AllOf(here, cmd)
  <2>1. CASE options.dryRun
    BY <1>3, <2>1 DEF Done
  <2>2. CASE ~options.dryRun
    <3>1. Done(here)' = Done(here) \cup {<<here, cmd>>}
      BY <1>2, <2>2 DEF Done
    <3>2. AllOf(here, cmd) = AllOf(here, cmd - 1) \cup {<<here, cmd>>}
      <4>1. 1..cmd = 1..cmd - 1 \cup {cmd}
        BY <1>3
      <4>2. QED
        BY <4>1 DEF AllOf
    <3>3. QED
      BY <1>3, <2>2, <3>1, <3>2
  <2>3. QED
    BY <2>1, <2>2
<1>6. Planned(stages, options)'
  BY <1>1, PlannedStays DEF Ledger
<1>7. pc' \in {"command", "check"}
  BY DEF Advance
<1>8. \A i \in Places : i < at => Reported(i)'
  <2> SUFFICES ASSUME NEW i \in Places, i < at PROVE Reported(i)'
    OBVIOUS
  <2>1. Reported(i) /\ i # here /\ Done(i)' = Done(i)
    BY <1>1, <1>2, <1>4 DEF Ledger, Places
  <2>2. Halted' <=> Halted
    BY DEF Halted
  <2>3. QED
    BY <2>1, <2>2 DEF Reported, AllOf
<1>9. \A i \in Places : i > at => Waiting(i)'
  <2> SUFFICES ASSUME NEW i \in Places, i > at PROVE Waiting(i)'
    OBVIOUS
  <2>1. Waiting(i) /\ i # here /\ Done(i)' = Done(i)
    BY <1>1, <1>2, <1>4 DEF Ledger, Places
  <2>2. QED
    BY <2>1 DEF Waiting
<1>10. executed' \subseteq Places \X Nat
  <2>1. executed \subseteq Places \X Nat
    BY <1>1 DEF Ledger
  <2>2. <<at, cmd>> \in Places \X Nat
    BY <1>1, <1>3
  <2>3. QED
    BY <2>1, <2>2
<1>11. Done(at)' = Done(here)'
  BY <1>2
<1>12. Halfway'
  <2>1. CASE cmd = n
    <3>1. pc' = "check"
      BY <1>2, <2>1 DEF Advance, Current
    <3>2. QED
      BY <1>2, <1>3, <1>5, <1>11, <2>1, <3>1 DEF Halfway, AllOf
  <2>2. CASE cmd # n
    <3>1. pc' = "command" /\ cmd' = cmd + 1
      BY <1>2, <2>2 DEF Advance, Current
    <3>2. cmd' \in 1..n /\ cmd' - 1 = cmd
      BY <1>3, <2>2, <3>1
    <3>3. QED
      BY <1>2, <1>3, <1>5, <1>11, <3>1, <3>2 DEF Halfway, AllOf
  <2>3. QED
    BY <2>1, <2>2
<1>13. QED
  BY <1>1, <1>6, <1>7, <1>8, <1>9, <1>10, <1>12 DEF Ledger

\* A run begins.
LEMMA LedgerStart ==
  ASSUME NEW o \in Options, Start(o)
  PROVE  Ledger'
<1>1. stages' = BuildPlan(o) /\ options' = o /\ at' = 1 /\ executed' = {} /\ pc' = "stage"
  BY DEF Start
<1>2. Planned(stages', options') /\ \A i \in Places : Fitting(stages'[i], StageNames[i])
  BY <1>1, PlanPlanned
<1>3. \A i : Done(i)' = {}
  BY <1>1 DEF Done
<1>4. \A i \in Places : Waiting(i)'
  BY <1>2, <1>3 DEF Fitting, Waiting
<1>5. \A i \in Places : stages'[i].status \in Statuses
  BY <1>2 DEF Fitting, Statuses, OkStatuses
<1>6. Halfway'
  <2>1. 1 \in Places
    BY DEF Places
  <2>2. Waiting(at)'
    BY <1>1, <1>4, <2>1 DEF Waiting, Done
  <2>3. QED
    BY <1>1, <2>2 DEF Halfway
<1>7. \A i \in Places : ~(i < at')
  BY <1>1 DEF Places
<1>8. QED
  BY <1>1, <1>2, <1>4, <1>5, <1>6, <1>7 DEF Ledger

\* The run enters a stage.
LEMMA LedgerEnter ==
  ASSUME LInv, Enter
  PROVE  Ledger'
<1>1. RunShape /\ Ledger /\ at \in Places /\ pc = "stage" /\ cmd = 1
  BY DEF LInv, RunInv, RunShape, AtCommand, Enter
<1>2. /\ DOMAIN stages = Places /\ \A i \in Places : HasStatus(stages[i])
  BY <1>1 DEF RunShape
<1>3. PICK here \in Places : here = at
  BY <1>1
<1>4. Waiting(here)
  BY <1>1, <1>3 DEF Ledger, Halfway, Waiting, Done
<1>5. UNCHANGED <<options, at, cmd, executed>>
  BY DEF Enter
<1>6. /\ \A i \in Places :
           /\ stages'[i].name = stages[i].name /\ stages'[i].commands = stages[i].commands
           /\ stages'[i].required = stages[i].required
           /\ i # here => stages'[i].status = stages[i].status
      /\ \/ /\ pc' = "check" /\ stages[here].commands = <<>> /\ stages'[here].status = stages[here].status
         \/ /\ pc' = "command" /\ stages[here].commands # <<>> /\ stages'[here].status = "running"
  <2>1. CASE stages[here].status = "reused_existing" \/ stages[here].commands = <<>>
    <3>1. pc' = "check" /\ stages' = stages
      BY <1>3, <2>1 DEF Enter, Current
    <3>2. stages[here].commands = <<>>
      BY <1>4, <2>1 DEF Waiting
    <3>3. QED
      BY <3>1, <3>2
  <2>2. CASE ~(stages[here].status = "reused_existing" \/ stages[here].commands = <<>>)
    <3>1. pc' = "command" /\ stages' = [stages EXCEPT ![here].status = "running"]
      BY <1>3, <2>2 DEF Enter, Current
    <3>2. \A i \in Places : stages'[i] = IF i = here THEN [stages[i] EXCEPT !.status = "running"] ELSE stages[i]
      BY <1>2, <3>1
    <3>3. QED
      BY <1>2, <2>2, <3>1, <3>2 DEF HasStatus
  <2>3. QED
    BY <2>1, <2>2
<1>7. Planned(stages, options)'
  BY <1>1, <1>5, <1>6, PlannedStays DEF Ledger
<1>8. \A i : Done(i)' = Done(i)
  BY <1>5 DEF Done
<1>9. \A i \in Places : i < at => Reported(i)'
  <2> SUFFICES ASSUME NEW i \in Places, i < at PROVE Reported(i)'
    OBVIOUS
  <2>1. Reported(i) /\ i # here
    BY <1>1, <1>3 DEF Ledger, Places
  <2>2. Halted => Halted'
    <3>1. \A k \in Places : stages[k].status = "failed" => k # here
      BY <1>4 DEF Waiting
    <3>2. QED
      BY <1>6, <3>1 DEF Halted
  <2>3. QED
    BY <1>5, <1>6, <1>8, <2>1, <2>2 DEF Reported, AllOf
<1>10. \A i \in Places : i > at => Waiting(i)'
  <2> SUFFICES ASSUME NEW i \in Places, i > at PROVE Waiting(i)'
    OBVIOUS
  <2>1. Waiting(i) /\ i # here
    BY <1>1, <1>3 DEF Ledger, Places
  <2>2. QED
    BY <1>6, <1>8, <2>1 DEF Waiting
<1>11. \A i \in Places : stages'[i].status \in Statuses
  BY <1>1, <1>6 DEF Ledger, Statuses
<1>12. Done(at)' = {}
  BY <1>3, <1>4, <1>5 DEF Waiting, Done
<1>13. Halfway'
  <2>0. Len(stages[here].commands) \in Nat /\ (Len(stages[here].commands) = 0 <=> stages[here].commands = <<>>)
    BY <1>1, Listing DEF Ledger
  <2>1. AllOf(at', 0) = {}
    BY DEF AllOf
  <2>2. CASE pc' = "check"
    <3>1. stages[here].commands = <<>> /\ stages'[here].commands = <<>> /\ stages'[here].status \in {"pending", "reused_existing"}
      BY <1>4, <1>6, <2>2 DEF Waiting
    <3>2. Len(stages'[here].commands) = 0
      BY <2>0, <3>1
    <3>3. QED
      BY <1>3, <1>5, <1>12, <2>1, <2>2, <3>1, <3>2 DEF Halfway
  <2>3. CASE pc' = "command"
    <3>1. stages'[here].commands # <<>> /\ stages'[here].status = "running"
          /\ stages'[here].commands = stages[here].commands
      BY <1>6, <2>3
    <3>2. cmd' = 1 /\ cmd' \in 1..Len(stages'[here].commands) /\ cmd' - 1 = 0
      BY <1>1, <1>5, <2>0, <3>1
    <3>3. QED
      BY <1>3, <1>5, <1>12, <2>1, <2>3, <3>1, <3>2 DEF Halfway
  <2>4. QED
    BY <1>6, <2>2, <2>3
<1>14. executed' \subseteq Places \X Nat
  BY <1>1, <1>5 DEF Ledger
<1>15. pc' # "report"
  BY <1>6
<1>16. QED
  BY <1>5, <1>7, <1>9, <1>10, <1>11, <1>13, <1>14, <1>15 DEF Ledger
\* A stage that has been looked at again is a success when its commands were
\* executed, and reused when it has none.
LEMMA LedgerRecheck ==
  ASSUME LInv, Recheck
  PROVE  Ledger'
<1>1. RunShape /\ Ledger /\ at \in Places /\ pc = "check"
  BY DEF LInv, RunInv, RunShape, Recheck
<1>2. PICK here \in Places : here = at
  BY <1>1
<1> DEFINE n == Len(stages[here].commands)
           stage == stages[here]
<1>3. /\ Done(here) = IF options.dryRun THEN {} ELSE AllOf(here, n)
      /\ \/ stage.status = "running" /\ stage.commands # <<>>
         \/ stage.status \in {"pending", "reused_existing"} /\ stage.commands = <<>>
  BY <1>1, <1>2 DEF Ledger, Halfway
<1>4. n \in Nat /\ (n = 0 <=> stage.commands = <<>>) /\ \A j \in 1..n : stage.commands[j].module \in ModulesOf[here]
  BY <1>1, Listing DEF Ledger
<1>5. /\ stage.name = StageNames[here]
      /\ stage.required <=> (here # 5 \/ options.requireSyslog)
  BY <1>1 DEF Ledger, Planned
<1>6. stage.name \in Internal => stage.commands = <<>>
  <2>1. stage.name \in Internal => here \in {1, 10}
    BY <1>5 DEF Internal, StageNames, Places
  <2>2. here \in {1, 10} => ModulesOf[here] = {}
    BY DEF ModulesOf
  <2>3. here \in {1, 10} => n = 0
    <3>1. n # 0 => 1 \in 1..n
      BY <1>4
    <3>2. QED
      BY <1>4, <2>2, <3>1
  <2>4. QED
    BY <1>4, <2>1, <2>3
<1>7. stage.name = "syslog" => here = 5
  BY <1>5 DEF StageNames, Places
<1>8. stage.commands = <<>> => AllOf(here, n) = {}
  BY <1>4 DEF AllOf
<1>9. Current = stage
  BY <1>2 DEF Current
<1> HIDE DEF stage, n
<1>10. Marked \in {"success", "skipped", "reused_existing", "failed"}
  BY DEF Marked
<1>11. Marked = "success" => Done(here) = AllOf(here, n)
  <2>1. CASE options.dryRun
    <3>1. Marked = "success" => stage.name \in Internal
      BY <1>9, <2>1 DEF Marked
    <3>2. QED
      BY <1>3, <1>6, <1>8, <2>1, <3>1
  <2>2. CASE ~options.dryRun
    BY <1>3, <2>2
  <2>3. QED
    BY <2>1, <2>2
<1>12. Marked = "reused_existing" => Done(here) = {} /\ stage.commands = <<>>
  <2>1. Marked = "reused_existing" => stage.commands = <<>>
    BY <1>3, <1>9 DEF Marked
  <2>2. QED
    BY <1>3, <1>8, <2>1
<1>13. Marked = "skipped" => ~stage.required \/ options.dryRun
  BY <1>5, <1>7, <1>9 DEF Marked
<1>14. Settle(Marked) /\ UNCHANGED <<options, executed>>
  BY DEF Recheck
<1>15. /\ Marked = "success" => Done(at) = AllOf(at, Len(stages[at].commands)) /\ executed' = executed
       /\ Marked = "reused_existing" => Done(at) = {} /\ stages[at].commands = <<>> /\ executed' = executed
       /\ Marked = "skipped" => ~stages[at].required \/ options.dryRun
  BY <1>2, <1>11, <1>12, <1>13, <1>14 DEF stage, n
<1>16. QED
  BY <1>1, <1>10, <1>14, <1>15, LedgerSettled

LEMMA LedgerFails ==
  ASSUME LInv, CommandFails
  PROVE  Ledger'
<1>1. Settle("failed") /\ pc = "command" /\ options' = options
  BY DEF CommandFails
<1>2. executed' \in {executed, executed \cup {<<at, cmd>>}}
  BY DEF CommandFails
<1>3. "failed" \notin {"success", "reused_existing", "skipped"}
  OBVIOUS
<1>4. QED
  BY <1>1, <1>2, <1>3, LedgerSettled

\* What a command leaves on the disk are artefacts.
LEMMA EffectTyped ==
  ASSUME Typed, NEW c, NEW end, Effect(c, end)
  PROVE  DOMAIN files' = Artefacts /\ newest' \in SyslogRuns \cup {None}
BY DEF Typed, Effect, SyslogRuns

LEMMA TypedNext ==
  ASSUME LInv, [Next]_vars
  PROVE  Typed'
<1>1. Typed /\ (pc # "idle" => Ledger)
  BY DEF LInv
<1>2. ASSUME NEW o \in Options, Start(o) PROVE Typed'
  <2>1. run + 1 \in 0..MaxRuns /\ run + 1 # 0
    BY <1>1, <1>2, BoundsAssumption DEF Typed, Start
  <2>2. QED
    BY <1>1, <1>2, <2>1 DEF Typed, Start, artefacts
<1>3. CASE Enter \/ PassOver
  <2>1. UNCHANGED <<files, newest, run, options, latest>> /\ pc' \in {"check", "command"} /\ pc # "idle"
    BY <1>3 DEF Enter, PassOver, Advance, artefacts
  <2>2. QED
    BY <1>1, <2>1 DEF Typed
<1>4. CASE Execute
  <2>1. UNCHANGED <<run, options, latest>> /\ pc' \in {"check", "command"} /\ pc # "idle"
    BY <1>4 DEF Execute, Advance, Runs
  <2>2. DOMAIN files' = Artefacts /\ newest' \in SyslogRuns \cup {None}
    BY <1>1, <1>4, EffectTyped DEF Execute
  <2>3. QED
    BY <1>1, <2>1, <2>2 DEF Typed
<1>5. CASE CommandFails
  <2>1. UNCHANGED <<run, options, latest>> /\ pc' \in {"stage", "report"} /\ pc # "idle"
    BY <1>5 DEF CommandFails, Settle
  <2>2. DOMAIN files' = Artefacts /\ newest' \in SyslogRuns \cup {None}
    <3>1. UNCHANGED artefacts \/ \E end \in Endings(Command) : Effect(Command, end)
      BY <1>5 DEF CommandFails
    <3>2. UNCHANGED artefacts => DOMAIN files' = Artefacts /\ newest' \in SyslogRuns \cup {None}
      BY <1>1 DEF Typed, artefacts
    <3>3. QED
      BY <1>1, <3>1, <3>2, EffectTyped
  <2>3. QED
    BY <1>1, <2>1, <2>2 DEF Typed
<1>6. CASE Recheck
  <2>1. UNCHANGED <<files, newest, run, options, latest>> /\ pc' \in {"stage", "report"} /\ pc # "idle"
    BY <1>6 DEF Recheck, Settle, artefacts
  <2>2. QED
    BY <1>1, <2>1 DEF Typed
<1>7. CASE Finish
  <2>1. /\ UNCHANGED <<files, newest, run, options, stages>> /\ pc' = "idle" /\ pc = "report"
        /\ latest' = [run |-> run, ok |-> AllRequiredOk, dry |-> options.dryRun]
    BY <1>7 DEF Finish, artefacts
  <2>2. AllRequiredOk \in BOOLEAN
    BY DEF AllRequiredOk
  <2>3. options.dryRun \in BOOLEAN
    <3>1. options \in AllOptions
      BY <1>1, <2>1, OptionsAssumption DEF Typed
    <3>2. QED
      BY <3>1 DEF AllOptions
  <2>4. run \in 1..MaxRuns
    BY <1>1, <2>1, BoundsAssumption DEF Typed
  <2>5. DOMAIN stages = Places /\ \A i \in Places : stages[i].status \in Statuses
    BY <2>1 DEF LInv, Ledger, RunInv, RunShape
  <2>6. latest' \in [run : 1..MaxRuns, ok : BOOLEAN, dry : BOOLEAN]
    BY <2>1, <2>2, <2>3, <2>4
  <2>7. QED
    BY <1>1, <2>1, <2>5, <2>6 DEF Typed
<1>8. CASE Kill
  <2>1. UNCHANGED <<run, options>> /\ pc' = "idle" /\ stages' = <<>> /\ latest' \in {latest, Torn}
    BY <1>8 DEF Kill
  <2>2. DOMAIN files' = Artefacts /\ newest' \in SyslogRuns \cup {None}
    <3>1. UNCHANGED artefacts \/ \E end \in Endings(Command) : Effect(Command, end)
      BY <1>8 DEF Kill
    <3>2. UNCHANGED artefacts => DOMAIN files' = Artefacts /\ newest' \in SyslogRuns \cup {None}
      BY <1>1 DEF Typed, artefacts
    <3>3. QED
      BY <1>1, <3>1, <3>2, EffectTyped
  <2>3. DOMAIN stages' = {}
    BY <2>1
  <2>4. QED
    BY <1>1, <2>1, <2>2, <2>3 DEF Typed
<1>9. CASE Outside
  <2>1. UNCHANGED <<run, options, stages, latest, pc>>
    BY <1>9 DEF Outside
  <2>2. DOMAIN files' = Artefacts /\ newest' \in SyslogRuns \cup {None}
    BY <1>1, <1>9 DEF Typed, Outside, SyslogRuns
  <2>3. QED
    BY <1>1, <2>1, <2>2 DEF Typed
<1>10. CASE UNCHANGED vars
  BY <1>1, <1>10 DEF vars, artefacts, Typed
<1>11. QED
  BY <1>2, <1>3, <1>4, <1>5, <1>6, <1>7, <1>8, <1>9, <1>10 DEF Next

LEMMA LInit == Init => LInv
<1> SUFFICES ASSUME Init PROVE LInv
  OBVIOUS
<1>1. RunInv
  BY RunInit
<1>2. 0 \in 0..MaxRuns /\ DOMAIN <<>> = {}
  BY BoundsAssumption
<1>3. Typed
  BY <1>2 DEF Init, Typed
<1>4. QED
  BY <1>1, <1>3 DEF LInv, Init

LEMMA LNext == LInv /\ [Next]_vars => LInv'
<1> SUFFICES ASSUME LInv, [Next]_vars PROVE LInv'
  OBVIOUS
<1>1. RunInv' /\ Typed'
  BY RunNext, TypedNext DEF LInv
<1>2. (\E o \in Options : Start(o)) => Ledger'
  BY LedgerStart
<1>3. Enter => Ledger'
  BY LedgerEnter
<1>4. PassOver => Ledger'
  BY LedgerAdvanced DEF PassOver
<1>5. Execute => Ledger'
  BY LedgerAdvanced DEF Execute, Runs
<1>6. CommandFails => Ledger'
  BY LedgerFails
<1>7. Recheck => Ledger'
  BY LedgerRecheck
<1>8. Finish \/ Kill => pc' = "idle"
  BY DEF Finish, Kill
<1>9. (Outside \/ UNCHANGED vars) /\ pc' # "idle" => Ledger'
  <2> SUFFICES ASSUME Outside \/ UNCHANGED vars, pc' # "idle" PROVE Ledger'
    OBVIOUS
  <2>1. UNCHANGED <<stages, options, at, cmd, executed, pc>>
    BY DEF Outside, vars
  <2>2. Ledger
    BY <2>1 DEF LInv
  <2>3. Planned(stages, options)'
    BY <2>1, <2>2, PlannedStays DEF Ledger
  <2>4. \A i : /\ Reported(i) <=> Reported(i)'
               /\ Waiting(i) <=> Waiting(i)'
    BY <2>1 DEF Reported, Waiting, Done, AllOf, Halted
  <2>5. Halfway'
    BY <2>1, <2>2 DEF Ledger, Halfway, Waiting, Done, AllOf, Halted
  <2>6. QED
    BY <2>1, <2>2, <2>3, <2>4, <2>5 DEF Ledger
<1>10. pc' # "idle" => Ledger'
  BY <1>2, <1>3, <1>4, <1>5, <1>6, <1>7, <1>8, <1>9 DEF Next
<1>11. QED
  BY <1>1, <1>10 DEF LInv

\* As many commands as were executed.
LEMMA HowMany ==
  ASSUME NEW i, NEW n \in Nat
  PROVE  Cardinality(AllOf(i, n)) = n
<1> DEFINE pair == [j \in 1..n |-> <<i, j>>]
<1>1. pair \in Bijection(1..n, AllOf(i, n))
  <2>1. pair \in Surjection(1..n, AllOf(i, n))
    BY DEF Surjection, AllOf
  <2>2. pair \in Injection(1..n, AllOf(i, n))
    BY DEF Injection, IsInjective, AllOf
  <2>3. QED
    BY <2>1, <2>2 DEF Bijection
<1>2. IsFiniteSet(1..n) /\ Cardinality(1..n) = n
  BY FS_Interval
<1>3. QED
  BY <1>1, <1>2, FS_Bijection DEF ExistsBijection

\* Whatever fails, times out, is killed or happens beside it: a report is written
\* from stages that all have an end, a success has executed all its commands, and
\* what was reused none.
THEOREM ReportSoundHolds == Spec => []ReportSound
<1>1. LInv => DemoTypeOK
  <2> SUFFICES ASSUME LInv PROVE DemoTypeOK
    OBVIOUS
  <2>1. Typed /\ (pc # "idle" => Ledger /\ RunShape)
    BY DEF LInv, RunInv
  <2>2. pc # "idle" => at \in DOMAIN stages /\ \A i \in DOMAIN stages : stages[i].status \in Statuses
    BY <2>1 DEF Ledger, RunShape
  <2>3. pc = "command" => cmd \in DOMAIN Current.commands
    <3>1. pc = "command" => at \in Places /\ cmd \in 1..Len(stages[at].commands)
      BY <2>1 DEF Ledger, RunShape, Halfway
    <3>2. pc = "command" => DOMAIN stages[at].commands = 1..Len(stages[at].commands)
      BY <2>1, <3>1, Listing DEF Ledger
    <3>3. QED
      BY <3>1, <3>2 DEF Current
  <2>4. QED
    BY <2>1, <2>2, <2>3 DEF Typed, DemoTypeOK
<1>2. LInv => ReportTruthful
  <2> SUFFICES ASSUME LInv, pc = "report", NEW i \in DOMAIN stages
               PROVE  /\ stages[i].status \notin {"pending", "running"}
                      /\ stages[i].status = "success" =>
                           Cardinality({e \in executed : e[1] = i}) = Len(stages[i].commands)
                      /\ stages[i].status = "reused_existing" => {e \in executed : e[1] = i} = {}
    BY DEF ReportTruthful
  <2>1. Ledger /\ i \in Places
    BY DEF LInv, RunInv, RunShape
  <2>2. Reported(i)
    BY <2>1 DEF Ledger
  <2>3. Len(stages[i].commands) \in Nat
    BY <2>1, Listing DEF Ledger
  <2>4. Cardinality(AllOf(i, Len(stages[i].commands))) = Len(stages[i].commands)
    BY <2>3, HowMany
  <2>5. QED
    BY <2>2, <2>4 DEF Reported, Done
<1>3. Init => LInv
  BY LInit
<1>4. LInv /\ [Next]_vars => LInv'
  BY LNext
<1>5. LInv => ReportSound
  BY <1>1, <1>2 DEF ReportSound
<1>6. QED
  BY <1>3, <1>4, <1>5, PTL DEF Spec
-----------------------------------------------------------------------------
(* What the commands leave on the disk.                                    *)

\* What is written in files is none of the marks for a file that is missing or
\* torn, and no log is called by such a mark.
Markers ==
  /\ Torn # None /\ None \notin SyslogRuns
  /\ \A b, r, s : [by |-> b, read |-> r, syslog |-> s] \notin {None, Torn}
  /\ \A S \in SUBSET Datasets : S \notin {None, Torn}

\* The artefacts that the commands of a stage write.
Area ==
  << {}, {"registry", "production"}, {"metrics"}, Names(Assessment), {"demo_syslog"},
     Names(Dashboard), Names(Correlation), Names(Streaming), {}, {} >>

LEMMA NamesOf ==
  /\ Names(Assessment) = {"inventory", "findings", "remediation_plan"}
  /\ Names(Dashboard) = {"dashboard_summary", "topology_view", "findings_view", "remediation_view",
                         "device_health_cards"}
  /\ Names(Correlation) = {"signals", "incidents", "correlation_summary", "correlation_report"}
  /\ Names(Streaming) = {"current_state", "stream_summary"}
<1>1. Names(Assessment) = {"inventory", "findings", "remediation_plan"}
  <2>1. DOMAIN Assessment = {1, 2, 3}
    BY DEF Assessment
  <2>2. QED
    BY <2>1 DEF Names, Assessment
<1>2. Names(Dashboard) = {"dashboard_summary", "topology_view", "findings_view", "remediation_view",
                          "device_health_cards"}
  <2>1. DOMAIN Dashboard = {1, 2, 3, 4, 5}
    BY DEF Dashboard
  <2>2. QED
    BY <2>1 DEF Names, Dashboard
<1>3. Names(Correlation) = {"signals", "incidents", "correlation_summary", "correlation_report"}
  <2>1. DOMAIN Correlation = {1, 2, 3, 4}
    BY DEF Correlation
  <2>2. QED
    BY <2>1 DEF Names, Correlation
<1>4. Names(Streaming) = {"current_state", "stream_summary"}
  <2>1. DOMAIN Streaming = {1, 2}
    BY DEF Streaming
  <2>2. QED
    BY <2>1 DEF Names, Streaming
<1>5. QED
  BY <1>1, <1>2, <1>3, <1>4

\* A list of files.
Filed(list) == Len(list) \in Nat /\ DOMAIN list = 1..Len(list)

\* What a command writes lies in the area of its stage.
LEMMA WritesInArea ==
  ASSUME NEW i \in Places, NEW c, c.module \in ModulesOf[i]
  PROVE  Filed(Writes(c)) /\ Names(Writes(c)) \subseteq Area[i]
<1>1. /\ Filed(<<>>) /\ Names(<<>>) = {}
      /\ \A f : Filed(<<f>>) /\ Names(<<f>>) = {f}
      /\ \A f, g : Filed(<<f, g>>) /\ Names(<<f, g>>) = {f, g}
  <2>1. Filed(<<>>) /\ Names(<<>>) = {}
    BY DEF Filed, Names
  <2>2. \A f : Filed(<<f>>) /\ Names(<<f>>) = {f}
    BY DEF Filed, Names
  <2>3. ASSUME NEW f, NEW g PROVE Filed(<<f, g>>) /\ Names(<<f, g>>) = {f, g}
    <3>1. DOMAIN <<f, g>> = {1, 2} /\ Len(<<f, g>>) = 2
      OBVIOUS
    <3>2. QED
      BY <3>1 DEF Filed, Names
  <2>4. QED
    BY <2>1, <2>2, <2>3
<1>2. Filed(Assessment) /\ Filed(Dashboard) /\ Filed(Correlation) /\ Filed(Streaming)
  BY DEF Filed, Assessment, Dashboard, Correlation, Streaming
<1>3. CASE i = 2
  <2>1. c.module \in TrainingSteps /\ Area[i] = {"registry", "production"}
    BY <1>3 DEF ModulesOf, Area
  <2>2. CASE c.module = "promote_model"
    <3>1. Writes(c) = <<"registry", "production">>
      BY <2>2 DEF Writes
    <3>2. QED
      BY <1>1, <2>1, <3>1
  <2>3. CASE c.module = "build_model_registry"
    <3>1. Writes(c) \in {<<"registry", "production">>, <<"registry">>}
      BY <2>3 DEF Writes
    <3>2. QED
      BY <1>1, <2>1, <3>1
  <2>4. CASE c.module \notin {"promote_model", "build_model_registry"}
    <3>1. Writes(c) = <<>>
      BY <2>1, <2>4 DEF TrainingSteps, Writes
    <3>2. QED
      BY <1>1, <3>1
  <2>5. QED
    BY <2>2, <2>3, <2>4
<1>4. CASE i = 3
  <2>1. c.module \in HealthSteps /\ Area[i] = {"metrics"}
    BY <1>4 DEF ModulesOf, Area
  <2>2. Writes(c) \in {<<>>, <<"metrics">>}
    BY <2>1 DEF HealthSteps, Writes
  <2>3. QED
    BY <1>1, <2>1, <2>2
<1>5. CASE i = 4
  <2>1. c.module \in AnalysisSteps /\ Area[i] = Names(Assessment)
    BY <1>5 DEF ModulesOf, Area
  <2>2. Writes(c) \in {<<>>, Assessment}
    BY <2>1 DEF AnalysisSteps, Writes
  <2>3. QED
    BY <1>1, <1>2, <2>1, <2>2
<1>6. CASE i \in {5, 6, 7, 8}
  <2>1. \/ c.module = "ingest_switch_syslog" /\ Area[i] = {"demo_syslog"}
        \/ c.module = "export_network_config_dashboard" /\ Area[i] = Names(Dashboard)
        \/ c.module = "run_correlation" /\ Area[i] = Names(Correlation)
        \/ c.module = "run_streaming_demo" /\ Area[i] = Names(Streaming)
    BY <1>6 DEF ModulesOf, Area
  <2>2. \/ Writes(c) = <<"demo_syslog">> /\ Area[i] = {"demo_syslog"}
        \/ Writes(c) = Dashboard /\ Area[i] = Names(Dashboard)
        \/ Writes(c) = Correlation /\ Area[i] = Names(Correlation)
        \/ Writes(c) = Streaming /\ Area[i] = Names(Streaming)
    BY <2>1 DEF Writes
  <2>3. QED
    BY <1>1, <1>2, <2>2
<1>7. CASE i \in {1, 9, 10}
  <2>1. c.module = "validate_engine_c_safety"
    BY <1>7 DEF ModulesOf
  <2>2. Writes(c) = <<>>
    BY <2>1 DEF Writes
  <2>3. QED
    BY <1>1, <2>2
<1>8. QED
  BY <1>3, <1>4, <1>5, <1>6, <1>7 DEF Places

\* A command touches no other file, and one that ends well writes all of its own.
LEMMA EffectFiles ==
  ASSUME Typed, NEW c, Filed(Writes(c)), NEW end, Effect(c, end)
  PROVE  /\ \A f \in Artefacts : f \notin Names(Writes(c)) => files'[f] = files[f]
         /\ end = Whole(c) => \A f \in Artefacts \cap Names(Writes(c)) : files'[f] = NewContent(f, c)
         /\ \A f \in Artefacts : files'[f] \in {files[f], Torn, NewContent(f, c)}
<1> DEFINE list == Writes(c)
           Place(f) == CHOOSE i \in DOMAIN list : list[i] = f
<1>1. files' = [f \in Artefacts |->
                  IF f \notin Names(list) THEN files[f]
                  ELSE IF Place(f) <= end.written THEN NewContent(f, c)
                  ELSE IF end.torn /\ Place(f) = end.written + 1 THEN Torn
                  ELSE files[f]]
  BY DEF Effect
<1>2. \A f \in Names(list) : Place(f) \in 1..Len(list)
  BY DEF Filed, Names
<1> HIDE DEF Place, list
<1>3. \A f \in Artefacts : f \notin Names(list) => files'[f] = files[f]
  BY <1>1
<1>4. ASSUME end = Whole(c), NEW f \in Artefacts \cap Names(list) PROVE files'[f] = NewContent(f, c)
  <2>1. end.written = Len(list) /\ Len(list) \in Nat
    BY <1>4 DEF Whole, Filed, list
  <2>2. Place(f) <= end.written
    BY <1>2, <2>1
  <2>3. QED
    BY <1>1, <2>2
<1>5. \A f \in Artefacts : files'[f] \in {files[f], Torn, NewContent(f, c)}
  BY <1>1
<1>6. QED
  BY <1>3, <1>4, <1>5 DEF list
-----------------------------------------------------------------------------
(* Where the files of a run come from.                                     *)

\* What was written stays what it was while its files and sources do.
LEMMA WrittenStays ==
  ASSUME NEW names, NEW sources, WrittenFrom(names, sources), run' = run,
         \A f \in names \cup sources : files'[f] = files[f]
  PROVE  WrittenFrom(names, sources)'
<1>1. \A f \in names \cup sources : Stamp(f)' = Stamp(f) /\ (Readable(f)' <=> Readable(f))
  BY DEF Stamp, Readable
<1>2. [g \in sources |-> Stamp(g)]' = [g \in sources |-> Stamp(g)]
  BY <1>1
<1>3. ASSUME NEW f \in names
      PROVE  Readable(f)' /\ files'[f].by = run' /\ files'[f].read = [g \in sources |-> Stamp(g)']
  <2>1. files'[f] = files[f] /\ (Readable(f)' <=> Readable(f))
    BY <1>1
  <2>2. Readable(f) /\ files[f].by = run /\ files[f].read = [g \in sources |-> Stamp(g)]
    BY DEF WrittenFrom
  <2>3. QED
    BY <1>2, <2>1, <2>2
<1>4. QED
  BY <1>3 DEF WrittenFrom

LEMMA WrittenNowStays ==
  ASSUME NEW names, WrittenNow(names), run' = run, \A f \in names : files'[f] = files[f]
  PROVE  WrittenNow(names)'
BY DEF WrittenNow, Readable

\* A command has just written them.
LEMMA JustWritten ==
  ASSUME Markers, NEW names, NEW c, "production" \notin names, run' = run,
         \A f \in names : files'[f] = NewContent(f, c),
         NEW sources, sources = Reads(c)
  PROVE  /\ WrittenNow(names)'
         /\ (\A g \in sources : files'[g] = files[g]) => WrittenFrom(names, sources)'
<1> DEFINE stamps == [g \in Reads(c) |-> Stamp(g)]
           content == [by |-> run, read |-> stamps, syslog |-> SyslogRead(c)]
<1>1. \A f \in names : files'[f] = content
  BY DEF NewContent
<1>2. content \notin {None, Torn} /\ content.by = run /\ content.read = stamps
  BY DEF Markers
<1> HIDE DEF content
<1>3. \A f \in names : Readable(f)' /\ files'[f].by = run' /\ files'[f].read = stamps
  BY <1>1, <1>2 DEF Readable
<1>4. WrittenNow(names)'
  BY <1>3 DEF WrittenNow
<1>5. ASSUME \A g \in sources : files'[g] = files[g]
      PROVE  WrittenFrom(names, sources)'
  <2>1. \A g \in sources : Stamp(g)' = Stamp(g)
    BY <1>5 DEF Stamp, Readable
  <2>2. stamps = [g \in sources |-> Stamp(g)']
    BY <2>1
  <2>3. \A f \in names : Readable(f)' /\ files'[f].by = run' /\ files'[f].read = [g \in sources |-> Stamp(g)']
    BY <1>3, <2>2
  <2>4. QED
    BY <2>3 DEF WrittenFrom
<1>6. QED
  BY <1>4, <1>5

\* What a command that is executed to its end does to the files.
LEMMA ExecuteFacts ==
  ASSUME LInv, Execute
  PROVE  /\ at \in Places /\ cmd \in 1..Len(stages[at].commands) /\ ~options.dryRun /\ pc = "command"
         /\ Command = stages[at].commands[cmd] /\ Command.module \in ModulesOf[at]
         /\ \A f \in Artefacts \ Area[at] : files'[f] = files[f]
         /\ \A f \in Artefacts \ Names(Writes(Command)) : files'[f] = files[f]
         /\ \A f \in Artefacts \cap Names(Writes(Command)) : files'[f] = NewContent(f, Command)
         /\ executed' = executed \cup {<<at, cmd>>}
         /\ UNCHANGED <<run, options, stages, at, latest, clean, spent>>
<1>1. RunShape /\ Ledger /\ Typed /\ at \in Places /\ pc = "command" /\ ~options.dryRun
  BY DEF LInv, RunInv, RunShape, Execute, Runs
<1>2. cmd \in 1..Len(stages[at].commands)
  BY <1>1 DEF Ledger, Halfway
<1>3. Command = stages[at].commands[cmd] /\ Command.module \in ModulesOf[at]
  BY <1>1, <1>2, Listing DEF Ledger, Command, Current
<1>4. Effect(Command, Whole(Command)) /\ executed' = executed \cup {<<at, cmd>>}
      /\ UNCHANGED <<run, options, stages, at, latest, clean, spent>>
  BY DEF Execute
<1>5. Filed(Writes(Command)) /\ Names(Writes(Command)) \subseteq Area[at]
  BY <1>1, <1>3, WritesInArea
<1>6. /\ \A f \in Artefacts : f \notin Names(Writes(Command)) => files'[f] = files[f]
      /\ \A f \in Artefacts \cap Names(Writes(Command)) : files'[f] = NewContent(f, Command)
  BY <1>1, <1>4, <1>5, EffectFiles
<1>7. QED
  BY <1>1, <1>2, <1>3, <1>4, <1>5, <1>6

\* What the stages behind engine_b write and read.
LEMMA StageFiles ==
  /\ \A c : c.module \in ModulesOf[6] =>
       Names(Writes(c)) = Names(Dashboard) /\ Reads(c) = DashboardFrom
  /\ \A c : c.module \in ModulesOf[7] =>
       Names(Writes(c)) = Names(Correlation) /\ Reads(c) = CorrelationFrom
  /\ \A c : c.module \in ModulesOf[8] =>
       Names(Writes(c)) = Names(Streaming) /\ Reads(c) = StreamingFrom
  /\ \A c : c.module = "analyze_network_config" => Names(Writes(c)) = Names(Assessment)
  /\ \A c : c.module \in {"dry_run_network_actions", "generate_network_config_report"} =>
       Names(Writes(c)) = {}
<1>1. ModulesOf[6] = {"export_network_config_dashboard"} /\ ModulesOf[7] = {"run_correlation"}
      /\ ModulesOf[8] = {"run_streaming_demo"}
  BY DEF ModulesOf
<1>2. Names(<<>>) = {}
  BY DEF Names
<1>3. QED
  BY <1>1, <1>2 DEF Writes, Reads, DashboardFrom, CorrelationFrom, StreamingFrom

\* The areas of the stages lie apart, and so do what they read of each other.
LEMMA AreasApart ==
  /\ \A i \in Places : i > 4 => Area[i] \cap Names(Assessment) = {}
  /\ \A i \in Places : i > 6 => Area[i] \cap (Names(Dashboard) \cup DashboardFrom) = {}
  /\ \A i \in Places : i > 7 => Area[i] \cap (Names(Correlation) \cup CorrelationFrom) = {}
  /\ \A i \in Places : i > 8 => Area[i] \cap (Names(Streaming) \cup StreamingFrom) = {}
  /\ Names(Assessment) \cup Names(Dashboard) \cup Names(Correlation) \cup Names(Streaming)
       \cup DashboardFrom \cup CorrelationFrom \cup StreamingFrom \subseteq Artefacts
  /\ {"registry", "production", "lab"}
       \cap (Names(Assessment) \cup Names(Dashboard) \cup Names(Correlation) \cup Names(Streaming)
               \cup DashboardFrom \cup CorrelationFrom \cup StreamingFrom) = {}
  /\ Names(Dashboard) \cap DashboardFrom = {} /\ Names(Correlation) \cap CorrelationFrom = {}
  /\ Names(Streaming) \cap StreamingFrom = {}
<1>1. \A i \in Places : i > 4 => i \in {5, 6, 7, 8, 9, 10}
  BY DEF Places
<1>2. /\ Area[5] = {"demo_syslog"} /\ Area[6] = Names(Dashboard) /\ Area[7] = Names(Correlation)
      /\ Area[8] = Names(Streaming) /\ Area[9] = {} /\ Area[10] = {}
  BY DEF Area
<1>3. \A i \in Places : i > 4 => Area[i] \cap Names(Assessment) = {}
  BY <1>1, <1>2, NamesOf
<1>4. \A i \in Places : i > 6 => Area[i] \cap (Names(Dashboard) \cup DashboardFrom) = {}
  <2>1. \A i \in Places : i > 6 => i \in {7, 8, 9, 10}
    BY DEF Places
  <2>2. \A S \in {Names(Correlation), Names(Streaming), {}} :
          S \cap (Names(Dashboard) \cup DashboardFrom) = {}
    BY NamesOf DEF DashboardFrom
  <2>3. QED
    BY <1>2, <2>1, <2>2
<1>5. \A i \in Places : i > 7 => Area[i] \cap (Names(Correlation) \cup CorrelationFrom) = {}
  <2>1. \A i \in Places : i > 7 => i \in {8, 9, 10}
    BY DEF Places
  <2>2. \A S \in {Names(Streaming), {}} : S \cap (Names(Correlation) \cup CorrelationFrom) = {}
    BY NamesOf DEF CorrelationFrom
  <2>3. QED
    BY <1>2, <2>1, <2>2
<1>6. \A i \in Places : i > 8 => Area[i] \cap (Names(Streaming) \cup StreamingFrom) = {}
  <2>1. \A i \in Places : i > 8 => i \in {9, 10}
    BY DEF Places
  <2>2. QED
    BY <1>2, <2>1
<1>7. Names(Assessment) \cup Names(Dashboard) \cup Names(Correlation) \cup Names(Streaming)
       \cup DashboardFrom \cup CorrelationFrom \cup StreamingFrom \subseteq Artefacts
  BY NamesOf DEF Artefacts, DashboardFrom, CorrelationFrom, StreamingFrom
<1>8. {"registry", "production", "lab"}
       \cap (Names(Assessment) \cup Names(Dashboard) \cup Names(Correlation) \cup Names(Streaming)
               \cup DashboardFrom \cup CorrelationFrom \cup StreamingFrom) = {}
  BY NamesOf DEF DashboardFrom, CorrelationFrom, StreamingFrom
<1>9. /\ Names(Dashboard) \cap DashboardFrom = {} /\ Names(Correlation) \cap CorrelationFrom = {}
      /\ Names(Streaming) \cap StreamingFrom = {}
  BY NamesOf DEF DashboardFrom, CorrelationFrom, StreamingFrom
<1>10. QED
  BY <1>3, <1>4, <1>5, <1>6, <1>7, <1>8, <1>9
\* A command of a run that may still succeed leaves the files of earlier stages alone.
LEMMA ProvenanceExecute ==
  ASSUME Markers, PInv, Execute
  PROVE  Provenance'
<1>1. LInv /\ Provenance /\ Ledger /\ RunShape /\ RunHalts
  BY DEF PInv, LInv, RunInv, Execute, Runs
<1>2. /\ at \in Places /\ cmd \in 1..Len(stages[at].commands) /\ ~options.dryRun
      /\ Command = stages[at].commands[cmd] /\ Command.module \in ModulesOf[at]
      /\ \A f \in Artefacts \ Area[at] : files'[f] = files[f]
      /\ \A f \in Artefacts \ Names(Writes(Command)) : files'[f] = files[f]
      /\ \A f \in Artefacts \cap Names(Writes(Command)) : files'[f] = NewContent(f, Command)
      /\ executed' = executed \cup {<<at, cmd>>}
      /\ UNCHANGED <<run, options, stages, at>>
  BY <1>1, ExecuteFacts
<1>3. ~Halted
  BY <1>1 DEF Halted, RunHalts, Execute, Runs
<1>4. \A k : <<k, 1>> \in executed' => <<k, 1>> \in executed \/ (k = at /\ cmd = 1)
  BY <1>2
<1>5. \A k : <<k, 1>> \in executed => k \in Places /\ k <= at
  BY <1>1 DEF RunShape
<1>6. \A i \in {6, 7, 8} : i = at => Len(stages[i].commands) = 1 /\ cmd = 1
  BY <1>1, <1>2 DEF Ledger, Planned
<1>7. "production" \notin Names(Assessment) \cup Names(Dashboard) \cup Names(Correlation) \cup Names(Streaming)
  BY AreasApart
<1>8. ASSUME <<4, 1>> \in executed' PROVE WrittenNow(Names(Assessment))'
  <2>1. CASE at > 4
    <3>1. <<4, 1>> \in executed
      BY <1>4, <1>8, <2>1
    <3>2. \A f \in Names(Assessment) : files'[f] = files[f]
      BY <1>2, <2>1, AreasApart
    <3>3. QED
      BY <1>1, <1>2, <1>3, <3>1, <3>2, WrittenNowStays DEF Provenance
  <2>2. CASE at = 4
    <3>1. stages[4].commands = Analysis
      <4>1. Len(stages[4].commands) # 0
        BY <1>2, <2>2
      <4>2. QED
        BY <1>1, <4>1 DEF Ledger, Planned
    <3>2. cmd \in {1, 2, 3} /\ Command = Analysis[cmd]
      BY <1>2, <2>2, <3>1 DEF Analysis
    <3>3. CASE cmd = 1
      <4>1. Command.module = "analyze_network_config"
        BY <3>2, <3>3 DEF Analysis, Cmd
      <4>2. \A f \in Names(Assessment) : files'[f] = NewContent(f, Command)
        BY <1>2, <4>1, StageFiles, AreasApart
      <4>3. QED
        BY <1>2, <1>7, <4>2, JustWritten
    <3>4. CASE cmd # 1
      <4>1. Command.module \in {"dry_run_network_actions", "generate_network_config_report"}
        BY <3>2, <3>4 DEF Analysis, Cmd
      <4>2. \A f \in Names(Assessment) : files'[f] = files[f]
        BY <1>2, <4>1, StageFiles, AreasApart
      <4>3. <<4, 1>> \in executed
        BY <1>4, <1>8, <3>4
      <4>4. QED
        BY <1>1, <1>2, <1>3, <4>2, <4>3, WrittenNowStays DEF Provenance
    <3>5. QED
      BY <3>3, <3>4
  <2>3. at \in Nat /\ at >= 4
    BY <1>2, <1>4, <1>5, <1>8 DEF Places
  <2>4. QED
    BY <2>1, <2>2, <2>3
<1>9. ASSUME <<6, 1>> \in executed' PROVE WrittenFrom(Names(Dashboard), DashboardFrom)'
  <2>1. CASE at > 6
    <3>1. <<6, 1>> \in executed
      BY <1>4, <1>9, <2>1
    <3>2. \A f \in Names(Dashboard) \cup DashboardFrom : files'[f] = files[f]
      BY <1>2, <2>1, AreasApart
    <3>3. QED
      BY <1>1, <1>2, <1>3, <3>1, <3>2, WrittenStays DEF Provenance, DashboardFrom
  <2>2. CASE at = 6
    <3>1. Names(Writes(Command)) = Names(Dashboard) /\ Reads(Command) = DashboardFrom
      BY <1>2, <2>2, StageFiles
    <3>2. \A f \in Names(Dashboard) : files'[f] = NewContent(f, Command)
      BY <1>2, <3>1, AreasApart
    <3>3. \A g \in DashboardFrom : files'[g] = files[g]
      BY <1>2, <3>1, AreasApart
    <3>4. PICK c : c = Command
      OBVIOUS
    <3>5. PICK sources : sources = DashboardFrom
      OBVIOUS
    <3>6. WrittenFrom(Names(Dashboard), sources)'
      BY <1>2, <1>7, <3>1, <3>2, <3>3, <3>4, <3>5, JustWritten
    <3>7. DashboardFrom' = DashboardFrom
      BY DEF DashboardFrom
    <3>8. QED
      BY <3>5, <3>6, <3>7 DEF WrittenFrom
  <2>3. at \in Nat /\ at >= 6
    BY <1>2, <1>4, <1>5, <1>9 DEF Places
  <2>4. QED
    BY <2>1, <2>2, <2>3
<1>10. ASSUME <<7, 1>> \in executed' PROVE WrittenFrom(Names(Correlation), CorrelationFrom)'
  <2>1. CASE at > 7
    <3>1. <<7, 1>> \in executed
      BY <1>4, <1>10, <2>1
    <3>2. \A f \in Names(Correlation) \cup CorrelationFrom : files'[f] = files[f]
      BY <1>2, <2>1, AreasApart
    <3>3. QED
      BY <1>1, <1>2, <1>3, <3>1, <3>2, WrittenStays DEF Provenance, CorrelationFrom
  <2>2. CASE at = 7
    <3>1. Names(Writes(Command)) = Names(Correlation) /\ Reads(Command) = CorrelationFrom
      BY <1>2, <2>2, StageFiles
    <3>2. \A f \in Names(Correlation) : files'[f] = NewContent(f, Command)
      BY <1>2, <3>1, AreasApart
    <3>3. \A g \in CorrelationFrom : files'[g] = files[g]
      BY <1>2, <3>1, AreasApart
    <3>4. PICK c : c = Command
      OBVIOUS
    <3>5. PICK sources : sources = CorrelationFrom
      OBVIOUS
    <3>6. WrittenFrom(Names(Correlation), sources)'
      BY <1>2, <1>7, <3>1, <3>2, <3>3, <3>4, <3>5, JustWritten
    <3>7. CorrelationFrom' = CorrelationFrom
      BY DEF CorrelationFrom
    <3>8. QED
      BY <3>5, <3>6, <3>7 DEF WrittenFrom
  <2>3. at \in Nat /\ at >= 7
    BY <1>2, <1>4, <1>5, <1>10 DEF Places
  <2>4. QED
    BY <2>1, <2>2, <2>3
<1>11. ASSUME <<8, 1>> \in executed' PROVE WrittenFrom(Names(Streaming), StreamingFrom)'
  <2>1. CASE at > 8
    <3>1. <<8, 1>> \in executed
      BY <1>4, <1>11, <2>1
    <3>2. \A f \in Names(Streaming) \cup StreamingFrom : files'[f] = files[f]
      BY <1>2, <2>1, AreasApart
    <3>3. QED
      BY <1>1, <1>2, <1>3, <3>1, <3>2, WrittenStays DEF Provenance, StreamingFrom
  <2>2. CASE at = 8
    <3>1. Names(Writes(Command)) = Names(Streaming) /\ Reads(Command) = StreamingFrom
      BY <1>2, <2>2, StageFiles
    <3>2. \A f \in Names(Streaming) : files'[f] = NewContent(f, Command)
      BY <1>2, <3>1, AreasApart
    <3>3. \A g \in StreamingFrom : files'[g] = files[g]
      BY <1>2, <3>1, AreasApart
    <3>4. PICK c : c = Command
      OBVIOUS
    <3>5. PICK sources : sources = StreamingFrom
      OBVIOUS
    <3>6. WrittenFrom(Names(Streaming), sources)'
      BY <1>2, <1>7, <3>1, <3>2, <3>3, <3>4, <3>5, JustWritten
    <3>7. StreamingFrom' = StreamingFrom
      BY DEF StreamingFrom
    <3>8. QED
      BY <3>5, <3>6, <3>7 DEF WrittenFrom
  <2>3. at \in Nat /\ at >= 8
    BY <1>2, <1>4, <1>5, <1>11 DEF Places
  <2>4. QED
    BY <2>1, <2>2, <2>3
<1>12. QED
  BY <1>2, <1>8, <1>9, <1>10, <1>11 DEF Provenance

\* While a run is on, the pointer is not its own.
LEMMA PointerWaits ==
  ASSUME PInv, pc # "idle", latest' \in {latest, Torn}, run' = run
  PROVE  Pointer'
<1>1. latest \notin {None, Torn} => latest.run <= run /\ latest.run # run
  BY DEF PInv, Pointer
<1>2. latest' \notin {None, Torn} => latest'.run <= run' /\ latest'.run # run'
  BY <1>1
<1>3. QED
  BY <1>2 DEF Pointer, Prepared

\* The files of the run are left alone, and no command but those of the syslog is
\* executed.
LEMMA ProvenanceStays ==
  ASSUME Provenance, ~Halted \/ Halted', run' = run, options' = options,
         \A k \in {4, 6, 7, 8} : <<k, 1>> \in executed' => <<k, 1>> \in executed,
         \A f \in Artefacts \ {"registry", "production", "lab", "demo_syslog"} : files'[f] = files[f]
  PROVE  Provenance'
<1> SUFFICES ASSUME ~options'.dryRun, ~Halted' PROVE Provenance'
  BY DEF Provenance
<1>1. ~Halted /\ ~options.dryRun
  OBVIOUS
<1>2. \A f \in Names(Assessment) \cup Names(Dashboard) \cup Names(Correlation) \cup Names(Streaming)
                \cup DashboardFrom \cup CorrelationFrom \cup StreamingFrom : files'[f] = files[f]
  <2>1. "demo_syslog" \notin Names(Assessment) \cup Names(Dashboard) \cup Names(Correlation) \cup Names(Streaming)
                \cup DashboardFrom \cup CorrelationFrom \cup StreamingFrom
    BY NamesOf DEF DashboardFrom, CorrelationFrom, StreamingFrom
  <2>2. QED
    BY <2>1, AreasApart
<1>3. <<4, 1>> \in executed' => WrittenNow(Names(Assessment))'
  BY <1>1, <1>2, WrittenNowStays DEF Provenance
<1>4. <<6, 1>> \in executed' => WrittenFrom(Names(Dashboard), DashboardFrom)'
  BY <1>1, <1>2, WrittenStays DEF Provenance, DashboardFrom
<1>5. <<7, 1>> \in executed' => WrittenFrom(Names(Correlation), CorrelationFrom)'
  BY <1>1, <1>2, WrittenStays DEF Provenance, CorrelationFrom
<1>6. <<8, 1>> \in executed' => WrittenFrom(Names(Streaming), StreamingFrom)'
  BY <1>1, <1>2, WrittenStays DEF Provenance, StreamingFrom
<1>7. QED
  BY <1>3, <1>4, <1>5, <1>6 DEF Provenance

\* The command of a required stage that fails is the end of the run, and that of
\* the syslog writes none of the files.
LEMMA ProvenanceFails ==
  ASSUME PInv, CommandFails
  PROVE  Provenance'
<1>1. LInv /\ Provenance /\ Ledger /\ RunShape /\ RunHalts /\ Typed /\ at \in Places /\ pc = "command"
  BY DEF PInv, LInv, RunInv, RunShape, CommandFails
<1>2. /\ stages'[at].status = "failed"
      /\ \A i \in Places : stages'[i].required = stages[i].required
  BY <1>1, SettleFields DEF CommandFails
<1>3. CASE stages[at].required
  <2>1. Halted'
    BY <1>1, <1>2, <1>3 DEF Halted
  <2>2. QED
    BY <2>1 DEF Provenance
<1>4. CASE ~stages[at].required
  <2>1. at = 5
    BY <1>1, <1>4 DEF Ledger, Planned
  <2>2. ~Halted
    BY <1>1 DEF Halted, RunHalts
  <2>3. executed' \subseteq executed \cup {<<5, cmd>>}
    BY <2>1 DEF CommandFails
  <2>4. \A k \in {4, 6, 7, 8} : <<k, 1>> \in executed' => <<k, 1>> \in executed
    BY <2>3
  <2>5. \A f \in Artefacts \ {"registry", "production", "lab", "demo_syslog"} : files'[f] = files[f]
    <3>1. CASE UNCHANGED artefacts
      BY <3>1 DEF artefacts
    <3>2. CASE \E end \in Endings(Command) : Effect(Command, end)
      <4>1. cmd \in 1..Len(stages[at].commands)
        BY <1>1 DEF Ledger, Halfway
      <4>2. Command.module \in ModulesOf[5]
        BY <1>1, <2>1, <4>1, Listing DEF Ledger, Command, Current
      <4>3. Filed(Writes(Command)) /\ Names(Writes(Command)) \subseteq Area[5]
        BY <1>1, <2>1, <4>2, WritesInArea
      <4>4. \A f \in Artefacts : f \notin Names(Writes(Command)) => files'[f] = files[f]
        BY <1>1, <3>2, <4>3, EffectFiles
      <4>5. Area[5] = {"demo_syslog"}
        BY DEF Area
      <4>6. QED
        BY <4>3, <4>4, <4>5
    <3>3. QED
      BY <3>1, <3>2 DEF CommandFails
  <2>6. run' = run /\ options' = options
    BY DEF CommandFails
  <2>7. QED
    BY <1>1, <2>2, <2>4, <2>5, <2>6, ProvenanceStays
<1>5. QED
  BY <1>3, <1>4

\* A run that says it has prepared everything has executed the commands for it.
LEMMA PointerFinish ==
  ASSUME PInv, Finish
  PROVE  Pointer'
<1>1. /\ LInv /\ Provenance /\ Ledger /\ RunShape /\ Typed /\ pc = "report" /\ pc' = "idle"
      /\ latest' = [run |-> run, ok |-> AllRequiredOk, dry |-> options.dryRun]
      /\ UNCHANGED <<files, run, options>>
  BY DEF PInv, LInv, RunInv, Finish, artefacts
<1>2. latest'.run = run' /\ run' \in Nat
  BY <1>1, BoundsAssumption DEF Typed
<1>3. ASSUME AllRequiredOk, ~options.dryRun
      PROVE  /\ ~options.reuseAssessment => WrittenNow(Names(Assessment))
             /\ WrittenFrom(Names(Dashboard), DashboardFrom)
             /\ WrittenFrom(Names(Correlation), CorrelationFrom)
             /\ WrittenFrom(Names(Streaming), StreamingFrom)
  <2>1. \A i \in Places : stages[i].required => stages[i].status \in OkStatuses
    BY <1>1, <1>3 DEF AllRequiredOk, RunShape
  <2>2. ~Halted
    BY <2>1 DEF Halted, OkStatuses
  <2>3. \A i \in Places : Reported(i)
    BY <1>1 DEF Ledger
  <2>4. \A i \in Places : stages[i].required /\ stages[i].commands # <<>> =>
          Done(i) = AllOf(i, Len(stages[i].commands))
    BY <1>3, <2>1, <2>2, <2>3 DEF Reported, OkStatuses
  <2>5. \A i \in {4, 6, 7, 8} : i \in Places /\ stages[i].required
    BY <1>1 DEF Ledger, Planned, Places
  <2>6. \A i \in {6, 7, 8} : Len(stages[i].commands) = 1 /\ stages[i].commands # <<>>
    <3>1. \A i \in {6, 7, 8} : Len(stages[i].commands) = 1
      BY <1>1 DEF Ledger, Planned
    <3>2. \A i \in {6, 7, 8} : Len(stages[i].commands) = 0 <=> stages[i].commands = <<>>
      BY <1>1, <2>5 DEF Ledger, Planned, ListOf
    <3>3. QED
      BY <3>1, <3>2
  <2>7. \A i \in {6, 7, 8} : <<i, 1>> \in executed
    <3>1. \A i \in {6, 7, 8} : Done(i) = AllOf(i, 1)
      BY <2>4, <2>5, <2>6
    <3>2. \A i : <<i, 1>> \in AllOf(i, 1)
      BY DEF AllOf
    <3>3. QED
      BY <3>1, <3>2 DEF Done
  <2>8. ~options.reuseAssessment => <<4, 1>> \in executed
    <3> SUFFICES ASSUME ~options.reuseAssessment PROVE <<4, 1>> \in executed
      OBVIOUS
    <3>1. stages[4].commands = Analysis /\ Analysis # <<>> /\ Len(Analysis) = 3
      BY <1>1 DEF Ledger, Planned, Analysis
    <3>2. Done(4) = AllOf(4, 3)
      BY <2>4, <2>5, <3>1
    <3>3. <<4, 1>> \in AllOf(4, 3)
      BY DEF AllOf
    <3>4. QED
      BY <3>2, <3>3 DEF Done
  <2>9. QED
    BY <1>1, <1>3, <2>2, <2>7, <2>8 DEF Provenance
<1>4. Prepared' => AllRequiredOk /\ ~options.dryRun
  BY <1>1 DEF Prepared
<1>5. /\ WrittenNow(Names(Assessment)) => WrittenNow(Names(Assessment))'
      /\ WrittenFrom(Names(Dashboard), DashboardFrom) => WrittenFrom(Names(Dashboard), DashboardFrom)'
      /\ WrittenFrom(Names(Correlation), CorrelationFrom) => WrittenFrom(Names(Correlation), CorrelationFrom)'
      /\ WrittenFrom(Names(Streaming), StreamingFrom) => WrittenFrom(Names(Streaming), StreamingFrom)'
  BY <1>1, WrittenStays, WrittenNowStays DEF DashboardFrom, CorrelationFrom, StreamingFrom
<1>6. Prepared' =>
        /\ ~options'.reuseAssessment => WrittenNow(Names(Assessment))'
        /\ WrittenFrom(Names(Dashboard), DashboardFrom)'
        /\ WrittenFrom(Names(Correlation), CorrelationFrom)'
        /\ WrittenFrom(Names(Streaming), StreamingFrom)'
  BY <1>1, <1>3, <1>4, <1>5
<1>7. latest' \notin {None, Torn} => latest'.run <= run' /\ (pc' # "idle" => latest'.run # run')
  BY <1>1, <1>2
<1>8. QED
  BY <1>6, <1>7 DEF Pointer

LEMMA PInit == Init => PInv
<1>1. Init => Pointer /\ pc = "idle"
  BY DEF Init, Pointer, Prepared
<1>2. QED
  BY <1>1, LInit DEF PInv

LEMMA PNext == Markers /\ PInv /\ [Next]_vars => PInv'
<1> SUFFICES ASSUME Markers, PInv, [Next]_vars PROVE PInv'
  OBVIOUS
<1>1. LInv /\ LInv' /\ Typed /\ Pointer
  BY LNext DEF PInv, LInv
<1> SUFFICES Pointer' /\ (pc' # "idle" => Provenance')
  BY <1>1 DEF PInv
<1>2. pc # "idle" => Provenance /\ (pc # "report" => ~Halted)
  BY <1>1 DEF PInv, LInv, RunInv, RunHalts, Halted
<1>3. ASSUME NEW o \in Options, Start(o) PROVE Pointer' /\ (pc' # "idle" => Provenance')
  <2>1. latest' = latest /\ run' = run + 1 /\ executed' = {} /\ run \in Nat
    BY <1>1, <1>3, BoundsAssumption DEF Start, Typed
  <2>2. latest \notin {None, Torn} => latest.run \in Nat /\ latest.run <= run
    <3>1. latest \notin {None, Torn} => latest.run \in 1..MaxRuns
      BY <1>1 DEF Typed
    <3>2. QED
      BY <1>1, <3>1, BoundsAssumption DEF Pointer
  <2>3. latest' \notin {None, Torn} => latest'.run <= run' /\ latest'.run # run'
    BY <2>1, <2>2
  <2>4. Pointer'
    BY <2>3 DEF Pointer, Prepared
  <2>5. Provenance'
    BY <2>1 DEF Provenance
  <2>6. QED
    BY <2>4, <2>5
<1>4. ASSUME Enter \/ PassOver \/ Recheck PROVE Pointer' /\ (pc' # "idle" => Provenance')
  <2>1. pc # "idle" /\ pc # "report" /\ UNCHANGED <<files, run, options, executed, latest>>
    BY <1>4 DEF Enter, PassOver, Recheck, artefacts
  <2>2. Pointer'
    BY <2>1, PointerWaits
  <2>3. Provenance'
    BY <1>2, <2>1, ProvenanceStays
  <2>4. QED
    BY <2>2, <2>3
<1>5. ASSUME Execute PROVE Pointer' /\ (pc' # "idle" => Provenance')
  <2>1. pc # "idle" /\ UNCHANGED <<run, latest>>
    BY <1>5 DEF Execute, Runs
  <2>2. QED
    BY <1>5, <2>1, PointerWaits, ProvenanceExecute
<1>6. ASSUME CommandFails PROVE Pointer' /\ (pc' # "idle" => Provenance')
  <2>1. pc # "idle" /\ UNCHANGED <<run, latest>>
    BY <1>6 DEF CommandFails
  <2>2. QED
    BY <1>6, <2>1, PointerWaits, ProvenanceFails
<1>7. ASSUME Finish PROVE Pointer' /\ (pc' # "idle" => Provenance')
  BY <1>7, PointerFinish DEF Finish
<1>8. ASSUME Kill PROVE Pointer' /\ (pc' # "idle" => Provenance')
  <2>1. pc # "idle" /\ pc' = "idle" /\ run' = run /\ latest' \in {latest, Torn}
    BY <1>8 DEF Kill
  <2>2. QED
    BY <2>1, PointerWaits
<1>9. ASSUME Outside \/ UNCHANGED vars PROVE Pointer' /\ (pc' # "idle" => Provenance')
  <2>1. UNCHANGED <<run, options, stages, executed, latest, pc>>
    BY <1>9 DEF Outside, vars, artefacts
  <2>2. \A f \in Artefacts \ {"registry", "production", "lab"} : files'[f] = files[f]
    <3>1. CASE Outside
      BY <1>1, <3>1 DEF Outside, Typed
    <3>2. CASE UNCHANGED vars
      BY <3>2 DEF vars, artefacts
    <3>3. QED
      BY <1>9, <3>1, <3>2
  <2>3. Halted' <=> Halted
    BY <2>1 DEF Halted
  <2>4. pc' # "idle" => Provenance'
    BY <1>2, <2>1, <2>2, <2>3, ProvenanceStays
  <2>5. \A f \in Names(Assessment) \cup Names(Dashboard) \cup Names(Correlation) \cup Names(Streaming)
                \cup DashboardFrom \cup CorrelationFrom \cup StreamingFrom : files'[f] = files[f]
    BY <2>2, AreasApart
  <2>6. /\ WrittenNow(Names(Assessment)) => WrittenNow(Names(Assessment))'
        /\ WrittenFrom(Names(Dashboard), DashboardFrom) => WrittenFrom(Names(Dashboard), DashboardFrom)'
        /\ WrittenFrom(Names(Correlation), CorrelationFrom) => WrittenFrom(Names(Correlation), CorrelationFrom)'
        /\ WrittenFrom(Names(Streaming), StreamingFrom) => WrittenFrom(Names(Streaming), StreamingFrom)'
    BY <2>1, <2>5, WrittenStays, WrittenNowStays DEF DashboardFrom, CorrelationFrom, StreamingFrom
  <2>7. Prepared' => Prepared
    BY <2>1 DEF Prepared
  <2>8. Pointer'
    BY <1>1, <2>1, <2>6, <2>7 DEF Pointer
  <2>9. QED
    BY <2>4, <2>8
<1>10. QED
  BY <1>3, <1>4, <1>5, <1>6, <1>7, <1>8, <1>9 DEF Next

\* After a run that reports itself ready what the frontend shows was made by that
\* run, whole, from the files that are there: nothing that a killed or failed run
\* left behind is passed off as prepared, and no promotion or ingestion beside the
\* run changes that.
THEOREM PreparedIsFreshHolds == ASSUME Markers PROVE Spec => []PreparedIsFresh
<1>1. PInv => PreparedIsFresh
  <2>1. ASSUME NEW names, NEW sources, WrittenFrom(names, sources)
        PROVE  WrittenNow(names) /\ MadeFromPresent(names)
    BY <2>1 DEF WrittenFrom, WrittenNow, MadeFromPresent
  <2>2. ASSUME NEW A, NEW B, NEW C, WrittenNow(A), WrittenNow(B), WrittenNow(C)
        PROVE  WrittenNow(A \cup B \cup C)
    BY <2>2 DEF WrittenNow
  <2>3. ASSUME NEW A, NEW B, NEW C, MadeFromPresent(A), MadeFromPresent(B), MadeFromPresent(C)
        PROVE  MadeFromPresent(A \cup B \cup C)
    BY <2>3 DEF MadeFromPresent
  <2>4. QED
    BY <2>1, <2>2, <2>3 DEF PInv, Pointer, PreparedIsFresh
<1>2. Init => PInv
  BY PInit
<1>3. PInv /\ [Next]_vars => PInv'
  BY PNext
<1>4. QED
  BY <1>1, <1>2, <1>3, PTL DEF Spec
-----------------------------------------------------------------------------
(* A run that is left alone.                                               *)

\* A required stage that has been passed has executed all its commands, and so
\* has one that is looked at again.
LEMMA StageDone ==
  ASSUME LInv, pc # "idle", ~Halted, ~options.dryRun, NEW i \in Places,
         \/ i < at /\ stages[i].required
         \/ i = at /\ pc = "check"
  PROVE  Done(i) = AllOf(i, Len(stages[i].commands))
<1>1. Ledger
  BY DEF LInv
<1>2. CASE i < at /\ stages[i].required
  <2>1. Reported(i) /\ stages[i].status \in Statuses
    BY <1>1, <1>2 DEF Ledger
  <2>2. stages[i].status # "failed"
    BY <1>2 DEF Halted
  <2>3. stages[i].status \in {"success", "reused_existing"}
    BY <1>2, <2>1, <2>2 DEF Reported, Statuses, OkStatuses
  <2>4. stages[i].status = "reused_existing" => Done(i) = {} /\ Len(stages[i].commands) = 0
    <3>1. Len(stages[i].commands) = 0 <=> stages[i].commands = <<>>
      BY <1>1, Listing DEF Ledger
    <3>2. QED
      BY <2>1, <3>1 DEF Reported
  <2>5. AllOf(i, 0) = {}
    BY DEF AllOf
  <2>6. QED
    BY <2>1, <2>3, <2>4, <2>5 DEF Reported
<1>3. CASE i = at /\ pc = "check"
  BY <1>1, <1>3 DEF Ledger, Halfway, Done, AllOf
<1>4. QED
  BY <1>2, <1>3

\* What the stages of such a run have written is there.
LEMMA StagesWrote ==
  ASSUME PInv, pc # "idle", ~Halted, ~options.dryRun, ~options.reuseAssessment, NEW k \in {4, 6, 7, 8},
         k < at \/ (k = at /\ pc = "check")
  PROVE  /\ k = 4 => WrittenNow(Names(Assessment))
         /\ k = 6 => WrittenNow(Names(Dashboard))
         /\ k = 7 => WrittenNow(Names(Correlation))
         /\ k = 8 => WrittenNow(Names(Streaming))
<1>1. LInv /\ Ledger /\ Provenance /\ k \in Places
  BY DEF PInv, LInv, Places
<1>2. stages[k].required
  BY <1>1 DEF Ledger, Planned
<1>3. Done(k) = AllOf(k, Len(stages[k].commands))
  BY <1>1, <1>2, StageDone
<1>4. Len(stages[k].commands) \in {1, 3}
  <2>1. Len(Analysis) = 3 /\ Analysis # <<>>
    BY DEF Analysis
  <2>2. QED
    BY <1>1, <2>1 DEF Ledger, Planned
<1>5. <<k, 1>> \in executed
  <2>1. <<k, 1>> \in AllOf(k, 1) /\ <<k, 1>> \in AllOf(k, 3)
    BY DEF AllOf
  <2>2. QED
    BY <1>3, <1>4, <2>1 DEF Done
<1>6. \A names, sources : WrittenFrom(names, sources) => WrittenNow(names)
  BY DEF WrittenFrom, WrittenNow
<1>7. QED
  BY <1>1, <1>5, <1>6 DEF Provenance

\* What such a run needs for its models and its log is there once the stages for
\* them have been passed.
LEMMA Models ==
  ASSUME PInv, pc # "idle", ~options.dryRun, Supplied
  PROVE  /\ 2 < at \/ (2 = at /\ pc = "check") => EngineAReady
         /\ 3 < at \/ (3 = at /\ pc = "check") => EngineBReady
         /\ 5 = at /\ pc = "check" /\ options.requireSyslog => ReadyLogs # {}
<1>1. LInv /\ Ledger /\ ~Halted /\ {2, 3, 5} \subseteq Places
  BY DEF PInv, LInv, Supplied, Places
<1>2. stages[2].required /\ stages[3].required
  BY <1>1 DEF Ledger, Planned
<1>3. ASSUME 2 < at \/ (2 = at /\ pc = "check") PROVE EngineAReady
  <2>1. Done(2) = AllOf(2, Len(stages[2].commands))
    BY <1>1, <1>2, <1>3, StageDone
  <2>2. DOMAIN stages[2].commands = 1..Len(stages[2].commands)
    BY <1>1, Listing DEF Ledger
  <2>3. \A j \in DOMAIN stages[2].commands : <<2, j>> \in executed
    BY <2>1, <2>2 DEF Done, AllOf
  <2>4. QED
    BY <2>3 DEF Supplied, EngineAReady
<1>4. ASSUME 3 < at \/ (3 = at /\ pc = "check") PROVE EngineBReady
  <2>1. Done(3) = AllOf(3, Len(stages[3].commands))
    BY <1>1, <1>2, <1>4, StageDone
  <2>2. stages[3].commands # <<>> => Len(stages[3].commands) = 4
    BY <1>1 DEF Ledger, Planned
  <2>3. stages[3].commands # <<>> => <<3, 4>> \in executed
    BY <2>1, <2>2 DEF Done, AllOf
  <2>4. QED
    BY <2>3 DEF Supplied, EngineBReady, Exists
<1>5. ASSUME 5 = at, pc = "check", options.requireSyslog PROVE ReadyLogs # {}
  <2>1. Done(5) = AllOf(5, Len(stages[5].commands))
    BY <1>1, <1>5, StageDone
  <2>2. stages[5].commands # <<>> => Len(stages[5].commands) = 1
    <3>1. Len(stages[5].commands) = 0 <=> stages[5].commands = <<>>
      BY <1>1, Listing DEF Ledger
    <3>2. QED
      BY <1>1, <3>1 DEF Ledger, Planned
  <2>3. stages[5].commands # <<>> => <<5, 1>> \in executed
    BY <2>1, <2>2 DEF Done, AllOf
  <2>4. QED
    BY <1>5, <2>3 DEF Supplied
<1>6. QED
  BY <1>3, <1>4, <1>5

\* No command of such a run gives up.
LEMMA NoFailure ==
  ASSUME PInv, pc = "command", ~options.dryRun, ~options.reuseAssessment, Supplied
  PROVE  ~Refused /\ ~MustFail(Command)
<1>1. LInv /\ Ledger /\ ~Halted /\ at \in Places /\ Provenance
  BY DEF PInv, LInv, RunInv, RunShape, Supplied
<1>2. cmd \in 1..Len(stages[at].commands) /\ Done(at) = AllOf(at, cmd - 1)
  BY <1>1 DEF Ledger, Halfway, Done, AllOf
<1>3. Command = stages[at].commands[cmd] /\ Command.module \in ModulesOf[at]
  BY <1>1, <1>2, Listing DEF Ledger, Command, Current
<1>4. \A i \in Places : ModulesOf[i] \subseteq Allowlist
  BY DEF ModulesOf, Places, Allowlist, TrainingSteps, HealthSteps, AnalysisSteps
<1>5. ~Refused
  BY <1>1, <1>3, <1>4 DEF Refused
<1>6. CASE Command.module \in {"build_model_registry", "promote_model"}
  BY <1>5, <1>6 DEF MustFail, Supplied
<1>7. \A f \in {"inventory", "remediation_plan"} : WrittenNow(Names(Assessment)) => Readable(f)
  BY NamesOf DEF WrittenNow
<1>8. CASE Command.module \in {"dry_run_network_actions", "generate_network_config_report"}
  <2>1. at = 4
    BY <1>1, <1>3, <1>8 DEF ModulesOf, Places, TrainingSteps, HealthSteps
  <2>2. stages[4].commands = Analysis
    <3>1. Len(stages[4].commands) # 0
      BY <1>2, <2>1
    <3>2. QED
      BY <1>1, <3>1 DEF Ledger, Planned
  <2>3. cmd \in {2, 3}
    <3>1. cmd \in {1, 2, 3} /\ Command = Analysis[cmd]
      BY <1>2, <1>3, <2>1, <2>2 DEF Analysis
    <3>2. QED
      BY <1>8, <3>1 DEF Analysis, Cmd
  <2>4. <<4, 1>> \in executed
    <3>1. 1 \in 1..(cmd - 1)
      BY <2>3
    <3>2. QED
      BY <1>2, <2>1, <3>1 DEF Done, AllOf
  <2>5. WrittenNow(Names(Assessment))
    BY <1>1, <2>4 DEF Provenance
  <2>6. QED
    BY <1>5, <1>7, <1>8, <2>5 DEF MustFail
<1>9. CASE Command.module = "export_network_config_dashboard"
  <2>1. at = 6
    BY <1>1, <1>3, <1>9 DEF ModulesOf, Places, TrainingSteps, HealthSteps, AnalysisSteps
  <2>2. WrittenNow(Names(Assessment))
    BY <1>1, <2>1, StagesWrote
  <2>3. QED
    BY <1>5, <1>7, <1>9, <2>2 DEF MustFail
<1>10. CASE Command.module \notin {"build_model_registry", "promote_model", "dry_run_network_actions",
                                  "generate_network_config_report", "export_network_config_dashboard"}
  BY <1>5, <1>10 DEF MustFail
<1>11. QED
  BY <1>6, <1>8, <1>9, <1>10

\* Whatever is looked at again is ready.
LEMMA ReadyAtCheck ==
  ASSUME Markers, PInv, pc = "check", Ordinary, Supplied, stages[at].required
  PROVE  StageReady(Current.name)
<1>1. LInv /\ Ledger /\ ~Halted /\ at \in Places
  BY DEF PInv, LInv, RunInv, RunShape, Supplied
<1>2. Current.name = StageNames[at] /\ (at = 5 => options.requireSyslog)
  BY <1>1 DEF Ledger, Planned, Current
<1>3. options.inputDir /\ ~options.dryRun /\ ~options.reuseAssessment
  BY DEF Ordinary
<1>4. \A names : WrittenNow(names) => Exists(names) /\ \A f \in names : Readable(f)
  BY DEF WrittenNow, Exists, Readable
<1>5. \A k \in {4, 6, 7, 8} : k <= at =>
        /\ k = 4 => WrittenNow(Names(Assessment))
        /\ k = 6 => WrittenNow(Names(Dashboard))
        /\ k = 7 => WrittenNow(Names(Correlation))
        /\ k = 8 => WrittenNow(Names(Streaming))
  <2> SUFFICES ASSUME NEW k \in {4, 6, 7, 8}, k <= at
               PROVE  /\ k = 4 => WrittenNow(Names(Assessment))
                      /\ k = 6 => WrittenNow(Names(Dashboard))
                      /\ k = 7 => WrittenNow(Names(Correlation))
                      /\ k = 8 => WrittenNow(Names(Streaming))
    OBVIOUS
  <2>1. k < at \/ k = at
    BY <1>1 DEF Places
  <2>2. QED
    BY <1>1, <1>3, <2>1, StagesWrote
<1>6. CASE at = 1
  BY <1>2, <1>3, <1>6 DEF StageNames, StageReady
<1>7. CASE at = 2
  BY <1>2, <1>3, <1>7, Models DEF StageNames, StageReady
<1>8. CASE at = 3
  BY <1>2, <1>3, <1>8, Models DEF StageNames, StageReady
<1>9. CASE at = 4
  <2>1. CoreReady
    BY <1>4, <1>5, <1>9 DEF CoreReady
  <2>2. QED
    BY <1>2, <1>9, <2>1 DEF StageNames, StageReady
<1>10. CASE at = 5
  <2>1. ReadyLogs # {} /\ options.syslogRun = "latest"
    BY <1>2, <1>3, <1>10, Models DEF Ordinary
  <2>2. ResolveRun("latest") \in ReadyLogs
    BY <2>1 DEF ResolveRun
  <2>3. None \notin ReadyLogs
    BY DEF ReadyLogs, Markers
  <2>4. SyslogReady
    BY <2>1, <2>2, <2>3 DEF SyslogReady
  <2>5. QED
    BY <1>2, <1>10, <2>4 DEF StageNames, StageReady
<1>11. CASE at = 6
  <2>1. Exists(Names(Assessment)) /\ Exists(Names(Dashboard))
    BY <1>4, <1>5, <1>11
  <2>2. DashboardReady
    BY <2>1 DEF DashboardReady, Exists
  <2>3. QED
    BY <1>2, <1>11, <2>2 DEF StageNames, StageReady
<1>12. CASE at = 7
  <2>1. Exists(Names(Correlation))
    BY <1>4, <1>5, <1>12
  <2>2. QED
    BY <1>2, <1>12, <2>1 DEF StageNames, StageReady
<1>13. CASE at = 8
  <2>1. Exists(Names(Streaming))
    BY <1>4, <1>5, <1>13
  <2>2. QED
    BY <1>2, <1>13, <2>1 DEF StageNames, StageReady
<1>14. CASE at = 9
  <2>1. EngineAReady /\ EngineBReady
    BY <1>3, <1>14, Models
  <2>2. Datasets # {}
    BY DatasetsAssumption DEF Datasets
  <2>3. Promoted # {}
    BY <2>1, <2>2 DEF EngineAReady
  <2>4. /\ \A f \in Names(Dashboard) : Readable(f)
        /\ \A f \in Names(Correlation) : Readable(f)
        /\ \A f \in Names(Streaming) : Readable(f)
    BY <1>4, <1>5, <1>14
  <2>5. Readable("correlation_summary") /\ Readable("topology_view") /\ Readable("remediation_view")
        /\ Readable("current_state")
    BY <2>4, NamesOf
  <2>6. SectionsReady
    BY <2>1, <2>3, <2>5 DEF SectionsReady
  <2>7. QED
    BY <1>2, <1>14, <2>6 DEF StageNames, StageReady
<1>15. CASE at = 10
  BY <1>2, <1>15 DEF StageNames, StageReady
<1>16. QED
  BY <1>1, <1>6, <1>7, <1>8, <1>9, <1>10, <1>11, <1>12, <1>13, <1>14, <1>15 DEF Places

\* The plan of such a run makes up for what is missing.
LEMMA SuppliedStart ==
  ASSUME NEW o \in Options, Start(o), clean', Ordinary'
  PROVE  Supplied'
<1>1. /\ stages' = BuildPlan(o) /\ options' = o /\ executed' = {} /\ files' = files
      /\ Torn \notin {files["registry"], files["production"]}
  BY DEF Start, artefacts
<1>2. ~o.skipTraining /\ (o.requireSyslog => o.fixture /\ o.syslogRun = "latest")
  BY <1>1 DEF Ordinary
<1>3. ~Halted'
  <2>1. \A i \in Places : stages'[i].status # "failed"
    BY <1>1, PlanShape
  <2>2. QED
    BY <2>1 DEF Halted
<1>4. stages'[2] = EngineAStage(o) /\ stages'[3] = EngineBStage(o) /\ stages'[5] = SyslogStage(o)
  BY <1>1 DEF BuildPlan
<1>5. Promoted' = Promoted /\ ReadyLogs' = ReadyLogs
  BY <1>1 DEF Promoted, Readable, ReadyLogs, Exists
<1>6. \A d \in Datasets : d \in Promoted \/
        \E j \in DOMAIN stages'[2].commands : stages'[2].commands[j] = Cmd("promote_model", d)
  BY <1>2, <1>4, EngineAPlanned
<1>7. files["metrics"] = None => stages'[3].commands # <<>>
  <2>1. files["metrics"] = None => ~EngineBReady
    BY DEF EngineBReady, Exists
  <2>2. QED
    BY <1>2, <1>4, <2>1 DEF EngineBStage, Stage
<1>8. o.requireSyslog /\ ReadyLogs = {} => stages'[5].commands # <<>>
  <2>1. ReadyLogs = {} => ResolveRun("latest") = None
    BY DEF ResolveRun
  <2> DEFINE ingest == <<Cmd("ingest_switch_syslog", None)>>
  <2>2. o.requireSyslog /\ ReadyLogs = {} => SyslogStage(o) = Stage("syslog", o.requireSyslog, ingest)
    BY <1>2, <2>1 DEF SyslogStage
  <2>3. Stage("syslog", o.requireSyslog, ingest).commands = ingest
    BY DEF Stage
  <2>4. ingest # <<>>
    BY OneCommand
  <2>5. QED
    BY <1>4, <2>2, <2>3, <2>4
<1>9. QED
  BY <1>1, <1>3, <1>5, <1>6, <1>7, <1>8 DEF Supplied

\* A dataset is promoted under its own name.
LEMMA ProductionContent ==
  ASSUME Markers, LInv, Registered, at \in Places, Command.module \in ModulesOf[at],
         cmd \in 1..Len(stages[at].commands), Command = stages[at].commands[cmd],
         pc # "idle", "production" \in Names(Writes(Command))
  PROVE  /\ at = 2 /\ NewContent("production", Command) \in SUBSET Datasets
         /\ NewContent("production", Command) \notin {None, Torn}
         /\ Promoted \subseteq NewContent("production", Command)
         /\ Command.module = "promote_model" => Command.arg \in NewContent("production", Command)
<1>1. Ledger
  BY DEF LInv
<1>2. at = 2
  <2>1. "production" \in Area[at]
    BY WritesInArea
  <2>2. \A i \in Places : "production" \in Area[i] => i = 2
    BY NamesOf DEF Area, Places
  <2>3. QED
    BY <2>1, <2>2
<1>3. Command.module = "promote_model" => Command.arg \in Datasets
  <2>1. DOMAIN stages[2].commands = 1..Len(stages[2].commands)
    BY <1>1, <1>2, Listing DEF Ledger
  <2>2. QED
    BY <1>1, <1>2, <2>1 DEF Ledger, Planned
<1>4. Promoted \subseteq Datasets
  BY DEF Promoted, Registered, Readable
<1>5. Command.module # "promote_model" => Promoted = {}
  <2>1. Command.module \in TrainingSteps
    BY <1>2 DEF ModulesOf
  <2>2. Command.module \notin {"promote_model", "build_model_registry"} => Writes(Command) = <<>>
    BY <2>1 DEF TrainingSteps, Writes
  <2>3. Names(<<>>) = {} /\ Names(<<"registry">>) = {"registry"}
    BY DEF Names
  <2>4. Command.module = "build_model_registry" => files["production"] = None
    BY <2>3 DEF Writes
  <2>5. QED
    BY <2>2, <2>3, <2>4 DEF Promoted, Readable
<1>6. NewContent("production", Command) =
        IF Command.module = "promote_model" THEN Promoted \cup {Command.arg} ELSE {}
  BY DEF NewContent
<1>7. NewContent("production", Command) \in SUBSET Datasets
  BY <1>3, <1>4, <1>6
<1>8. QED
  BY <1>2, <1>5, <1>6, <1>7 DEF Markers

\* What such a run executes takes nothing away, and does what it was planned for.
LEMMA SuppliedExecute ==
  ASSUME Markers, SInv, Execute, Supplied
  PROVE  Supplied'
<1>1. LInv /\ Ledger /\ Registered /\ Typed
  BY DEF SInv, PInv, LInv, Execute, Runs
<1>2. /\ at \in Places /\ cmd \in 1..Len(stages[at].commands) /\ pc = "command"
      /\ Command = stages[at].commands[cmd] /\ Command.module \in ModulesOf[at]
      /\ \A f \in Artefacts \ Area[at] : files'[f] = files[f]
      /\ \A f \in Artefacts \ Names(Writes(Command)) : files'[f] = files[f]
      /\ \A f \in Artefacts \cap Names(Writes(Command)) : files'[f] = NewContent(f, Command)
      /\ executed' = executed \cup {<<at, cmd>>}
      /\ UNCHANGED <<run, options, stages>>
  BY <1>1, ExecuteFacts
<1>3. Halted' <=> Halted
  BY <1>2 DEF Halted
<1>4. \A f \in Artefacts \cap Names(Writes(Command)) : files'[f] \notin {None, Torn}
  <2> SUFFICES ASSUME NEW f \in Artefacts \cap Names(Writes(Command))
               PROVE  NewContent(f, Command) \notin {None, Torn}
    BY <1>2
  <2>1. CASE f = "production"
    BY <1>1, <1>2, <2>1, ProductionContent
  <2>2. CASE f # "production"
    <3>1. NewContent(f, Command) =
            [by |-> run, read |-> [g \in Reads(Command) |-> Stamp(g)], syslog |-> SyslogRead(Command)]
      BY <2>2 DEF NewContent
    <3>2. QED
      BY <3>1 DEF Markers
  <2>3. QED
    BY <2>1, <2>2
<1>5. \A f \in Artefacts : files'[f] \in {None, Torn} => files'[f] = files[f]
  BY <1>2, <1>4
<1>6. {"registry", "production", "metrics"} \cup SyslogRuns \subseteq Artefacts
  BY DEF Artefacts
<1>7. Torn \notin {files'["registry"], files'["production"]}
  BY <1>5, <1>6 DEF Supplied
<1>8. ASSUME NEW d \in Datasets
      PROVE  \/ d \in Promoted'
             \/ \E j \in DOMAIN stages'[2].commands :
                  stages'[2].commands[j] = Cmd("promote_model", d) /\ <<2, j>> \notin executed'
  <2>1. Promoted \subseteq Promoted'
    <3>1. CASE "production" \in Names(Writes(Command))
      <4>1. files'["production"] = NewContent("production", Command) /\ files'["production"] \notin {None, Torn}
        BY <1>2, <1>4, <1>6, <3>1
      <4>2. Promoted' = NewContent("production", Command)
        BY <4>1 DEF Promoted, Readable
      <4>3. QED
        BY <1>1, <1>2, <3>1, <4>2, ProductionContent
    <3>2. CASE "production" \notin Names(Writes(Command))
      BY <1>2, <1>6, <3>2 DEF Promoted, Readable
    <3>3. QED
      BY <3>1, <3>2
  <2>2. CASE d \in Promoted
    BY <2>1, <2>2
  <2>3. CASE d \notin Promoted
    <3>1. PICK j \in DOMAIN stages[2].commands :
            stages[2].commands[j] = Cmd("promote_model", d) /\ <<2, j>> \notin executed
      BY <2>3 DEF Supplied
    <3>2. CASE at = 2 /\ cmd = j
      <4>1. Command.module = "promote_model" /\ Command.arg = d
        BY <1>2, <3>1, <3>2 DEF Cmd
      <4>2. "production" \in Names(Writes(Command))
        <5>1. Writes(Command) = <<"registry", "production">>
          BY <4>1 DEF Writes
        <5>2. DOMAIN <<"registry", "production">> = {1, 2}
          OBVIOUS
        <5>3. QED
          BY <5>1, <5>2 DEF Names
      <4>3. files'["production"] = NewContent("production", Command) /\ files'["production"] \notin {None, Torn}
        BY <1>2, <1>4, <1>6, <4>2
      <4>4. d \in Promoted'
        BY <1>1, <1>2, <4>1, <4>2, <4>3, ProductionContent DEF Promoted, Readable
      <4>5. QED
        BY <4>4
    <3>3. CASE ~(at = 2 /\ cmd = j)
      BY <1>2, <3>1, <3>3
    <3>4. QED
      BY <3>2, <3>3
  <2>4. QED
    BY <2>2, <2>3
<1>9. files'["metrics"] = None => stages'[3].commands # <<>> /\ <<3, 4>> \notin executed'
  <2> SUFFICES ASSUME files'["metrics"] = None
               PROVE  stages[3].commands # <<>> /\ <<3, 4>> \notin executed'
    BY <1>2
  <2>1. files["metrics"] = None
    BY <1>5, <1>6
  <2>2. stages[3].commands # <<>> /\ <<3, 4>> \notin executed
    BY <2>1 DEF Supplied
  <2>3. stages[3].commands[4].module = "train_network_health_model"
    BY <1>1, <2>2 DEF Ledger, Planned
  <2>4. "metrics" \notin Names(Writes(Command))
    BY <1>4, <1>6
  <2>5. ~(at = 3 /\ cmd = 4)
    <3> SUFFICES ASSUME at = 3, cmd = 4 PROVE "metrics" \in Names(Writes(Command))
      BY <2>4
    <3>1. Writes(Command) = <<"metrics">>
      BY <1>2, <2>3 DEF Writes
    <3>2. DOMAIN <<"metrics">> = {1}
      OBVIOUS
    <3>3. QED
      BY <3>1, <3>2 DEF Names
  <2>6. QED
    BY <1>2, <2>2, <2>5
<1>10. options'.requireSyslog /\ ReadyLogs' = {} => stages'[5].commands # <<>> /\ <<5, 1>> \notin executed'
  <2> SUFFICES ASSUME options.requireSyslog, ReadyLogs' = {}
               PROVE  stages[5].commands # <<>> /\ <<5, 1>> \notin executed'
    BY <1>2
  <2>1. \A r \in SyslogRuns : files'[r] = None
    BY DEF ReadyLogs, Exists
  <2>2. \A r \in SyslogRuns : files[r] = None /\ r \notin Names(Writes(Command))
    BY <1>4, <1>5, <1>6, <2>1
  <2>3. ReadyLogs = {}
    BY <2>2 DEF ReadyLogs, Exists
  <2>4. stages[5].commands # <<>> /\ <<5, 1>> \notin executed
    BY <2>3 DEF Supplied
  <2>5. at # 5
    <3> SUFFICES ASSUME at = 5 PROVE "demo_syslog" \in Names(Writes(Command))
      BY <2>2 DEF SyslogRuns
    <3>1. Command.module = "ingest_switch_syslog"
      BY <1>2 DEF ModulesOf
    <3>2. Writes(Command) = <<"demo_syslog">> /\ DOMAIN <<"demo_syslog">> = {1}
      BY <3>1 DEF Writes
    <3>3. QED
      BY <3>2 DEF Names
  <2>6. QED
    BY <1>2, <2>4, <2>5
<1>11. QED
  BY <1>3, <1>7, <1>8, <1>9, <1>10 DEF Supplied

\* The stages of such a run get through the check.
LEMMA SuppliedRecheck ==
  ASSUME Markers, PInv, Recheck, Ordinary, Supplied
  PROVE  Supplied'
<1>1. LInv /\ RunShape /\ Ledger /\ at \in Places /\ ~Halted /\ pc = "check"
  BY DEF PInv, LInv, RunInv, RunShape, Recheck, Supplied
<1>2. stages[at].required => Marked \in OkStatuses
  <2> SUFFICES ASSUME stages[at].required PROVE Marked \in OkStatuses
    OBVIOUS
  <2>1. StageReady(Current.name) /\ ~options.dryRun
    BY <1>1, ReadyAtCheck DEF Ordinary
  <2>2. QED
    BY <2>1 DEF Marked, OkStatuses
<1>3. Settle(Marked) /\ UNCHANGED <<files, options, executed>>
  BY DEF Recheck, artefacts
<1>4. /\ \A i \in Places : stages'[i].commands = stages[i].commands /\ stages'[i].required = stages[i].required
      /\ stages'[at].status = Marked
      /\ \A i \in Places : i < at \/ i > at => stages'[i].status = stages[i].status
  BY <1>1, <1>2, <1>3, SettleFields
<1>5. \A i \in Places : i < at \/ i = at \/ i > at
  BY <1>1 DEF Places
<1>6. ~Halted'
  <2>1. "failed" \notin OkStatuses
    BY DEF OkStatuses
  <2>2. PICK here \in Places : here = at
    BY <1>1
  <2>3. \A i \in Places : stages'[i].required /\ stages'[i].status = "failed" =>
          stages[i].required /\ stages[i].status = "failed"
    BY <1>2, <1>4, <1>5, <2>1, <2>2
  <2>4. QED
    BY <1>1, <2>3 DEF Halted
<1>7. {2, 3, 5} \subseteq Places
  BY DEF Places
<1>8. Promoted' = Promoted /\ ReadyLogs' = ReadyLogs
  BY <1>3 DEF Promoted, Readable, ReadyLogs, Exists
<1>9. QED
  BY <1>3, <1>4, <1>6, <1>7, <1>8 DEF Supplied

\* However a command ends, the models in production are those of datasets.
LEMMA RegisteredEffect ==
  ASSUME Markers, LInv, Registered, pc = "command", NEW end, Effect(Command, end)
  PROVE  Registered'
<1>1. RunShape /\ Ledger /\ Typed /\ at \in Places
  BY DEF LInv, RunInv, RunShape
<1>2. cmd \in 1..Len(stages[at].commands)
  BY <1>1 DEF Ledger, Halfway
<1>3. Command = stages[at].commands[cmd] /\ Command.module \in ModulesOf[at]
  BY <1>1, <1>2, Listing DEF Ledger, Command, Current
<1>4. Filed(Writes(Command))
  BY <1>1, <1>3, WritesInArea
<1>5. "production" \in Artefacts
  BY DEF Artefacts
<1>6. /\ files'["production"] \in {files["production"], Torn, NewContent("production", Command)}
      /\ "production" \notin Names(Writes(Command)) => files'["production"] = files["production"]
  BY <1>1, <1>4, <1>5, EffectFiles
<1>7. "production" \in Names(Writes(Command)) => NewContent("production", Command) \in SUBSET Datasets
  BY <1>1, <1>2, <1>3, ProductionContent
<1>8. QED
  BY <1>6, <1>7 DEF Registered

LEMMA RegisteredNext == Markers /\ SInv /\ [Next]_vars => Registered'
<1> SUFFICES ASSUME Markers, SInv, [Next]_vars PROVE Registered'
  OBVIOUS
<1>1. LInv /\ Typed /\ Registered
  BY DEF SInv, PInv, LInv
<1>2. CASE \/ \E o \in Options : Start(o)
           \/ Enter \/ PassOver \/ Recheck \/ Finish \/ UNCHANGED vars
  <2>1. files' = files
    BY <1>2 DEF Start, Enter, PassOver, Recheck, Finish, vars, artefacts
  <2>2. QED
    BY <1>1, <2>1 DEF Registered
<1>3. CASE Execute
  BY <1>1, <1>3, RegisteredEffect DEF Execute, Runs
<1>4. CASE CommandFails
  <2>1. pc = "command" /\ (files' = files \/ \E end \in Endings(Command) : Effect(Command, end))
    BY <1>4 DEF CommandFails, artefacts
  <2>2. CASE files' = files
    BY <1>1, <2>2 DEF Registered
  <2>3. CASE \E end \in Endings(Command) : Effect(Command, end)
    BY <1>1, <2>1, <2>3, RegisteredEffect
  <2>4. QED
    BY <2>1, <2>2, <2>3
<1>5. CASE Kill
  <2>1. files' = files \/ (pc = "command" /\ \E end \in Endings(Command) : Effect(Command, end))
    BY <1>5 DEF Kill, Runs, artefacts
  <2>2. CASE files' = files
    BY <1>1, <2>2 DEF Registered
  <2>3. CASE pc = "command" /\ \E end \in Endings(Command) : Effect(Command, end)
    BY <1>1, <2>3, RegisteredEffect
  <2>4. QED
    BY <2>1, <2>2, <2>3
<1>6. CASE Outside
  <2>1. DOMAIN files = Artefacts /\ {"production", "lab"} \subseteq Artefacts
    BY <1>1 DEF Typed, Artefacts, SyslogRuns
  <2>2. Promoted \subseteq Datasets
    BY <1>1 DEF Promoted, Registered, Readable
  <2>3. files'["production"] = files["production"] \/ \E d \in Datasets : files'["production"] = Promoted \cup {d}
    BY <1>6, <2>1 DEF Outside
  <2>4. QED
    BY <1>1, <2>2, <2>3 DEF Registered
<1>7. QED
  BY <1>2, <1>3, <1>4, <1>5, <1>6 DEF Next

LEMMA SInit == Init => SInv
<1>1. Init => Registered /\ pc = "idle"
  BY DEF Init, Registered, Artefacts
<1>2. QED
  BY <1>1, PInit DEF SInv

LEMMA SNext == Markers /\ SInv /\ [Next]_vars => SInv'
<1> SUFFICES ASSUME Markers, SInv, [Next]_vars PROVE SInv'
  OBVIOUS
<1>1. PInv /\ PInv' /\ Registered'
  BY PNext, RegisteredNext DEF SInv
<1> SUFFICES ASSUME pc' # "idle", clean', Ordinary' PROVE Supplied'
  BY <1>1 DEF SInv
<1>2. CASE \E o \in Options : Start(o)
  BY <1>2, SuppliedStart
<1>3. CASE Enter \/ PassOver
  <2>1. /\ pc # "idle" /\ UNCHANGED <<files, options, executed, clean>>
        /\ stages' = stages \/ stages' = [stages EXCEPT ![at].status = "running"]
    BY <1>3 DEF Enter, PassOver, artefacts
  <2>2. Supplied /\ RunShape
    BY <1>1, <2>1 DEF SInv, Ordinary, PInv, LInv, RunInv
  <2>3. \A i \in Places : /\ stages'[i].commands = stages[i].commands /\ stages'[i].required = stages[i].required
                          /\ stages'[i].status = "failed" => stages[i].status = "failed"
    <3>1. CASE stages' = stages
      BY <3>1
    <3>2. CASE stages' = [stages EXCEPT ![at].status = "running"]
      <4>1. PICK here \in Places : here = at
        BY <2>2 DEF RunShape
      <4>2. DOMAIN stages = Places /\ \A i \in Places : HasStatus(stages[i])
        BY <2>2 DEF RunShape
      <4>3. \A i \in Places : stages'[i] = IF i = here THEN [stages[i] EXCEPT !.status = "running"] ELSE stages[i]
        BY <3>2, <4>1, <4>2
      <4>4. ASSUME NEW i \in Places
            PROVE  /\ stages'[i].commands = stages[i].commands /\ stages'[i].required = stages[i].required
                   /\ stages'[i].status = "failed" => stages[i].status = "failed"
        <5>1. CASE i = here
          <6> DEFINE running == [stages[i] EXCEPT !.status = "running"]
          <6>1. stages'[i] = running
            BY <4>3, <5>1
          <6>2. running.commands = stages[i].commands /\ running.required = stages[i].required
                /\ running.status = "running"
            BY <4>2 DEF HasStatus
          <6>3. QED
            BY <6>1, <6>2
        <5>2. CASE i # here
          BY <4>3, <5>2
        <5>3. QED
          BY <5>1, <5>2
      <4>5. QED
        BY <4>4
    <3>3. QED
      BY <2>1, <3>1, <3>2
  <2>4. ~Halted'
    BY <2>2, <2>3 DEF Supplied, Halted
  <2>5. {2, 3, 5} \subseteq Places
    BY DEF Places
  <2>6. Promoted' = Promoted /\ ReadyLogs' = ReadyLogs
    BY <2>1 DEF Promoted, Readable, ReadyLogs, Exists
  <2>7. QED
    BY <2>1, <2>2, <2>3, <2>4, <2>5, <2>6 DEF Supplied
<1>4. CASE Execute
  <2>1. pc # "idle" /\ UNCHANGED <<options, clean>>
    BY <1>4 DEF Execute, Runs
  <2>2. Supplied
    BY <2>1 DEF SInv, Ordinary
  <2>3. QED
    BY <1>4, <2>2, SuppliedExecute
<1>5. CASE CommandFails
  <2>1. pc = "command" /\ options' = options /\ (clean' = clean \/ clean' = FALSE)
        /\ (clean' = clean => Refused \/ MustFail(Command) \/ clean = FALSE)
    BY <1>5 DEF CommandFails
  <2>2. clean /\ Ordinary /\ Supplied
    BY <2>1 DEF SInv, Ordinary
  <2>3. ~Refused /\ ~MustFail(Command)
    BY <1>1, <2>1, <2>2, NoFailure DEF Ordinary
  <2>4. QED
    BY <2>1, <2>2, <2>3
<1>6. CASE Recheck
  <2>1. pc # "idle" /\ UNCHANGED <<options, clean>>
    BY <1>6 DEF Recheck
  <2>2. Ordinary /\ Supplied
    BY <2>1 DEF SInv, Ordinary
  <2>3. QED
    BY <1>1, <1>6, <2>2, SuppliedRecheck
<1>7. CASE Finish \/ Kill \/ Outside
  BY <1>7 DEF Finish, Kill, Outside
<1>8. CASE UNCHANGED vars
  <2>1. UNCHANGED <<files, options, executed, clean, pc, stages>>
    BY <1>8 DEF vars, artefacts
  <2>2. Supplied
    BY <2>1 DEF SInv, Ordinary
  <2>3. Promoted' = Promoted /\ ReadyLogs' = ReadyLogs /\ (Halted' <=> Halted)
    BY <2>1 DEF Promoted, Readable, ReadyLogs, Exists, Halted
  <2>4. QED
    BY <2>1, <2>2, <2>3 DEF Supplied
<1>9. QED
  BY <1>2, <1>3, <1>4, <1>5, <1>6, <1>7, <1>8 DEF Next

\* Whatever an earlier run left behind when it failed or was killed, short of an
\* unreadable registry, the next ordinary run that is left alone prepares the demo.
THEOREM RepairsItselfHolds == ASSUME Markers PROVE Spec => []RepairsItself
<1>1. SInv => RepairsItself
  <2> SUFFICES ASSUME SInv, pc = "report", clean, Ordinary PROVE AllRequiredOk
    BY DEF RepairsItself
  <2>1. Supplied /\ Ledger /\ RunShape
    BY DEF SInv, PInv, LInv, RunInv
  <2>2. \A i \in Places : Reported(i) /\ stages[i].status \in Statuses
    BY <2>1 DEF Ledger
  <2>3. \A i \in Places : stages[i].required => stages[i].status # "failed"
    BY <2>1 DEF Supplied, Halted
  <2>4. \A i \in Places : stages[i].required => stages[i].status \in OkStatuses
    BY <2>2, <2>3 DEF Reported, Statuses
  <2>5. QED
    BY <2>1, <2>4 DEF AllRequiredOk, RunShape
<1>2. Init => SInv
  BY SInit
<1>3. SInv /\ [Next]_vars => SInv'
  BY SNext
<1>4. QED
  BY <1>1, <1>2, <1>3, PTL DEF Spec
=============================================================================
