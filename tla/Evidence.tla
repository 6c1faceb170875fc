-------------------------------- MODULE Evidence --------------------------------
(***************************************************************************)
(* From saved logs and artefacts to incidents: the program that ingests    *)
(* switch logs (scripts/ingest_switch_syslog.py), the one that correlates  *)
(* the artefacts of the engines and of the logs (run_correlation.py).      *)
(* They share the output directory and take no lock.  The snapshot of the  *)
(* configuration engine may be one whose analysis was interrupted.         *)
(*                                                                         *)
(* A JSON artefact is truncated when it is opened and filled when it is    *)
(* closed: in between a reader finds it Torn.  The files of a directory    *)
(* are written in a fixed order.  A program may be killed at any point.    *)
(***************************************************************************)
EXTENDS Signals

CONSTANTS
  RunIds,         \* the ids --run-id may name
  Inputs,         \* what the log directory may hold for each run: its files
  Snapshots,      \* what the configuration engine may have left, by file
  Commands,       \* the command lines of run_correlation
  Ingestions,     \* the command lines of ingest_switch_syslog
  HealthRuns,     \* experiments of Engine B on disk: [name, metrics]
  MaxIngests, MaxCorrelations, MaxKills  \* bounds


\* The files somebody reads, in the order of writing.
RunFiles == <<"parsed_events", "parser_summary", "windows", "weak_labels", "syslog_findings">>
ConfigFiles == <<"findings", "topology", "cards">>
\* Mutant: the summary is written first.
ReportFilesSummaryFirst == <<"correlation_summary", "signals", "incidents">>

ReportFiles == <<"signals", "incidents", "correlation_summary">>
Names(files) == {files[n] : n \in DOMAIN files}

\* What the configuration engine writes: the findings of one rule have its
\* severity and a title no other rule has, and a warning's message says how
\* severe it is.  Experiments are told apart by their names.
Snapshot(files) ==
  LET Same(f, g) == f.category = g.category /\ f.device = g.device /\ f.iface = g.iface /\ f.title = g.title
  IN /\ DOMAIN files = Names(ConfigFiles)
     /\ Readable(files["findings"]) =>
          /\ \A f \in files["findings"] : f.severity \in Severities
          /\ \A f, g \in files["findings"] : Same(f, g) => f.rule = g.rule /\ f.severity = g.severity
     /\ Readable(files["topology"]) => \A v, w \in files["topology"] : Same(v, w) => v.severity = w.severity

ASSUME EvidenceAssumption ==
  /\ {MaxIngests, MaxCorrelations, MaxKills} \subseteq Nat
  /\ \A a \in Ingestions : a.run \in RunIds
  /\ \A files \in Snapshots : Snapshot(files)
  /\ \A e, o \in HealthRuns : e.name \in Nat /\ (e.name = o.name => e = o)

VARIABLES
  logs,       \* the lines in the log directory
  runs,       \* outputs/syslog_ingestion: the files of each run
  byAge,      \* its directories as entries were made in them, the last one at the end
  ingest,     \* the ingestion under way, or None
  snapshot,   \* outputs/network_config/<snapshot>
  command,    \* the command line of the last correlation
  pc,         \* where it stands
  todo,       \* the artefacts still to load or to write
  loaded,     \* the signals it loaded
  warned,     \* the artefacts it warned about
  chosen,     \* the syslog run it resolved
  incidents,
  reports,    \* outputs/correlation/<id>: each file with the pass that wrote it
  passes, ingests, kills  \* counted for the bounds
ingestVars == <<logs, runs, byAge, ingest, ingests>>
work == <<command, loaded, warned, chosen, incidents>>
correlationVars == <<work, pc, todo, reports, passes>>
vars == <<ingestVars, snapshot, correlationVars, kills>>

-----------------------------------------------------------------------------
(* The ingestion of the logs. *)

StartIngest(a) ==
  /\ ingest = None /\ ingests < MaxIngests
  /\ logs # <<>>
  /\ ingest' = [args |-> a, out |-> Ingest(logs, a.keepBoot, a.holdout), todo |-> RunFiles, open |-> FALSE]
  /\ ingests' = ingests + 1
  /\ UNCHANGED <<logs, runs, byAge, snapshot, correlationVars, kills>>

\* A new entry changes the time of the directory, a rewritten file does not.
TruncateRunFile ==
  /\ ingest # None /\ ~ingest.open
  /\ LET r == ingest.args.run
         file == Head(ingest.todo)
     IN /\ runs' = [runs EXCEPT ![r][file] = Torn]
        /\ byAge' = IF Missing(runs[r][file]) THEN Append(byAge, r) ELSE byAge
  /\ ingest' = [ingest EXCEPT !.open = TRUE]
  /\ UNCHANGED <<logs, ingests, snapshot, correlationVars, kills>>

ContentOf(file, out) ==
  CASE file = "parsed_events" -> out.events
    [] file = "parser_summary" -> ParserSummary(out)
    [] file = "windows" -> out.split
    [] file = "weak_labels" -> WeakLabels(out.rows)
    [] file = "syslog_findings" -> out.findings

FillRunFile ==
  /\ ingest # None /\ ingest.open
  /\ LET file == Head(ingest.todo)
         rest == Tail(ingest.todo)
     IN /\ runs' = [runs EXCEPT ![ingest.args.run][file] = ContentOf(file, ingest.out)]
        /\ ingest' = IF rest = <<>> THEN None ELSE [ingest EXCEPT !.todo = rest, !.open = FALSE]
  /\ UNCHANGED <<logs, byAge, ingests, snapshot, correlationVars, kills>>

-----------------------------------------------------------------------------
(* The correlation: loading. *)

SyslogWanted(c) == ~c.skipSyslog /\ (c.syslogRun # None \/ c.requireSyslog)

Sources(c) ==
  (IF "engine_c" \in c.engines THEN ConfigFiles ELSE <<>>)
  \o (IF "engine_b" \in c.engines THEN <<"health">> ELSE <<>>)
  \o (IF "engine_a" \in c.engines THEN <<"cyber">> ELSE <<>>)
  \o (IF SyslogWanted(c) THEN <<"resolve", "parser_summary", "syslog_findings", "parsed_events">> ELSE <<>>)

StartCorrelation(c) ==
  /\ pc \in {"idle", "done", "failed"} /\ passes < MaxCorrelations
  /\ command' = c /\ pc' = "load" /\ todo' = Sources(c)
  /\ loaded' = {} /\ warned' = {} /\ chosen' = None /\ incidents' = {}
  /\ passes' = passes + 1
  /\ UNCHANGED <<reports, ingestVars, snapshot, kills>>

Loading(file) == pc = "load" /\ todo # <<>> /\ Head(todo) = file
Continue == todo' = Tail(todo) /\ UNCHANGED <<pc, command, incidents, reports, passes, ingestVars, snapshot, kills>>

\* A missing file and one that cannot be read are both warned about.
LoadConfig(file) ==
  /\ Loading(file)
  /\ IF Readable(snapshot[file])
     THEN loaded' = loaded \cup ConfigSignalsOf(file, snapshot[file]) /\ UNCHANGED warned
     ELSE warned' = warned \cup {file} /\ UNCHANGED loaded
  /\ UNCHANGED chosen /\ Continue

LoadExperiments(source, signals) ==
  /\ Loading(source)
  /\ loaded' = loaded \cup signals
  /\ warned' = IF signals = {} THEN warned \cup {source} ELSE warned
  /\ UNCHANGED chosen /\ Continue

\* A run counts as soon as its parser_summary.json is there; the latest one is
\* the one whose directory was modified last.
ReadyRuns == {r \in RunIds : ~Missing(runs[r]["parser_summary"])}
ResolveRun(name) ==
  IF name # "latest" THEN PickOne(ReadyRuns \cap {name})
  ELSE IF ReadyRuns = {} THEN None
  ELSE byAge[Max({n \in DOMAIN byAge : byAge[n] \in ReadyRuns})]

\* Resolved once; without a run there is nothing more to read.
ResolveSyslog ==
  /\ Loading("resolve")
  /\ chosen' = ResolveRun(IF command.syslogRun = None THEN "latest" ELSE command.syslogRun)
  /\ todo' = IF chosen' = None THEN <<>> ELSE Tail(todo)
  /\ warned' = IF chosen' = None THEN warned \cup {"syslog"} ELSE warned
  /\ UNCHANGED <<pc, command, loaded, incidents, reports, passes, ingestVars, snapshot, kills>>

\* Mutant: each file is looked up in what is the latest run by now.
LoadSyslogLatest(file) ==
  /\ Loading(file)
  /\ LET run == ResolveRun("latest")
         content == runs[run][file]
     IN /\ loaded' = loaded \cup (IF Readable(content) THEN SyslogSignalsOf(run, file, content) ELSE {})
        /\ warned' = IF content = Torn THEN warned \cup {file} ELSE warned
  /\ UNCHANGED chosen /\ Continue

\* Unlike those of Engine C, a file of the run that is missing is not warned
\* about, only one that cannot be read.
LoadSyslog(file) ==
  /\ Loading(file)
  /\ LET content == runs[chosen][file]
     IN /\ loaded' = loaded \cup (IF Readable(content) THEN SyslogSignalsOf(chosen, file, content) ELSE {})
        /\ warned' = IF content = Torn THEN warned \cup {file} ELSE warned
  /\ UNCHANGED chosen /\ Continue

Load ==
  \/ \E file \in Names(ConfigFiles) : LoadConfig(file)
  \/ LoadExperiments("health", HealthSignalsOf(HealthRuns))
  \/ LoadExperiments("cyber", CyberSignals)
  \/ ResolveSyslog
  \/ \E file \in {"parser_summary", "syslog_findings", "parsed_events"} : LoadSyslog(file)

\* The refusals, in the order of main.
Refused ==
  \/ SyslogWanted(command) /\ command.requireSyslog /\ Of(loaded, "syslog") = {}
  \/ command.strict /\ \E e \in command.engines : Of(loaded, e) = {}
  \/ loaded = {}

Decide ==
  /\ pc = "load" /\ todo = <<>>
  /\ pc' = IF Refused THEN "failed" ELSE "rules"
  /\ UNCHANGED <<work, todo, reports, passes, ingestVars, snapshot, kills>>

-----------------------------------------------------------------------------
(* The correlation: the rules, then the artefacts. *)

\* The rules in their order, each on all signals; a fallback sees which signals
\* the rules before it have covered.  Nothing shared is touched on the way.
RunRule(state, rule) ==
  LET scored == {Score(d) : d \in DraftsOf(rule, state.signals, state.covered)}
  IN [state EXCEPT !.incidents = AddIncidents(@, scored),
                   !.covered = @ \cup UNION {i.signals : i \in scored}]

Correlated(S) ==
  FoldLeft(RunRule, [signals |-> S, incidents |-> {}, covered |-> {}], RuleOrder \o Fallbacks).incidents

Correlate ==
  /\ pc = "rules"
  /\ incidents' = Correlated(loaded)
  /\ pc' = "write" /\ todo' = ReportFiles
  /\ UNCHANGED <<command, loaded, warned, chosen, reports, passes, ingestVars, snapshot, kills>>

Reported(file) ==
  CASE file = "signals" -> loaded
    [] file = "incidents" -> incidents
    [] file = "correlation_summary" -> Summarise(loaded, incidents)

\* "write": the next file is truncated; "fill": it is filled.
TruncateReport ==
  /\ pc = "write"
  /\ reports' = [reports EXCEPT ![Head(todo)] = Torn]
  /\ pc' = "fill"
  /\ UNCHANGED <<work, todo, passes, ingestVars, snapshot, kills>>

FillReport ==
  /\ pc = "fill"
  /\ reports' = [reports EXCEPT ![Head(todo)] = [pass |-> passes, content |-> Reported(Head(todo))]]
  /\ todo' = Tail(todo)
  /\ pc' = IF Tail(todo) = <<>> THEN "done" ELSE "write"
  /\ UNCHANGED <<work, passes, ingestVars, snapshot, kills>>

-----------------------------------------------------------------------------

KillIngest ==
  /\ ingest # None /\ kills < MaxKills
  /\ ingest' = None /\ kills' = kills + 1
  /\ UNCHANGED <<logs, runs, byAge, ingests, snapshot, correlationVars>>

KillCorrelation ==
  /\ pc \in {"load", "rules", "write", "fill"} /\ kills < MaxKills
  /\ pc' = "idle" /\ todo' = <<>> /\ kills' = kills + 1
  /\ loaded' = {} /\ warned' = {} /\ chosen' = None /\ incidents' = {}
  /\ UNCHANGED <<command, reports, passes, ingestVars, snapshot>>

\* What a completed ingestion leaves.
Completed(a, lines) ==
  LET out == Ingest(lines, a.keepBoot, a.holdout) IN [f \in Names(RunFiles) |-> ContentOf(f, out)]

\* The logs may have been ingested before, and the configuration analysed.
Init ==
  /\ logs \in Inputs
  /\ \E earlier \in Ingestions \cup {None} :
       /\ runs = [r \in RunIds |-> IF earlier # None /\ earlier.run = r THEN Completed(earlier, logs)
                                   ELSE [f \in Names(RunFiles) |-> None]]
       /\ byAge = IF earlier = None THEN <<>> ELSE <<earlier.run>>
  /\ ingest = None
  /\ snapshot \in Snapshots
  /\ command = None /\ pc = "idle" /\ todo = <<>>
  /\ loaded = {} /\ warned = {} /\ chosen = None /\ incidents = {}
  /\ reports = [f \in Names(ReportFiles) |-> None]
  /\ passes = 0 /\ ingests = 0 /\ kills = 0

Next ==
  \/ \E a \in Ingestions : StartIngest(a)
  \/ TruncateRunFile \/ FillRunFile
  \/ \E c \in Commands : StartCorrelation(c)
  \/ Load \/ Decide \/ Correlate \/ TruncateReport \/ FillReport
  \/ KillIngest \/ KillCorrelation

Spec == Init /\ [][Next]_vars

-----------------------------------------------------------------------------
(* Properties. *)

\* Every variable keeps its type; an incident holds signals that were loaded.
EvidenceTypeOK ==
  /\ \A r \in RunIds : DOMAIN runs[r] = Names(RunFiles)
  /\ Names(byAge) \subseteq RunIds
  /\ ingest # None => /\ ingest.args \in Ingestions /\ ingest.open \in BOOLEAN
                      /\ Names(ingest.todo) \subseteq Names(RunFiles)
  /\ DOMAIN snapshot = Names(ConfigFiles)
  /\ command \in Commands \cup {None}
  /\ pc \in {"idle", "load", "rules", "write", "fill", "done", "failed"}
  /\ chosen \in RunIds \cup {None}
  /\ \A i \in incidents : i.signals # {} /\ i.signals \subseteq {s.id : s \in loaded}
  /\ DOMAIN reports = Names(ReportFiles)
  /\ passes \in 0..MaxCorrelations /\ ingests \in 0..MaxIngests
  /\ kills \in 0..MaxKills

RawLines == UNION {{<<f, n>> : n \in DOMAIN logs[f]} : f \in DOMAIN logs}
LineAt(p) == logs[p[1]][p[2]]
Timed == {p \in RawLines : LineAt(p).shape = "event" /\ LineAt(p).at # None}

\* No line of the logs is lost or counted twice: those that were dropped and
\* the weights of the events add up to the lines read, and the host windows of
\* every size weigh each line with a usable time once, however the lines were
\* collapsed, binned and grouped (preprocess.py, features.py).
EveryLineCounted ==
  ingest = None \/
  LET usable == {p \in Timed : ingest.args.keepBoot \/ ~LineAt(p).boot}
      dropped(f) == Cardinality(Dropped(logs[f]))
      weighted(row) == IF row.scope = "host" THEN row.weighted ELSE 0
      tables == {ingest.out.rows} \cup {ingest.out.extra[m] : m \in ExtraWindows}
  IN /\ ParserSummary(ingest.out).weighted + Total(dropped, DOMAIN logs) = Cardinality(RawLines)
     /\ \A rows \in tables : Total(weighted, rows) = Cardinality(usable)

\* A window is never in an earlier split than an older one, so that a model is
\* tested on what came later, and the windows of the host that is held out are
\* the test split (chronological_split).
SplitNeverGoesBack ==
  ingest = None \/
  LET split == ingest.out.split
      Position == [train |-> 1, validation |-> 2, test |-> 3]
      held == {r \in DOMAIN split : r.host = ingest.args.holdout}
  IN /\ \A r \in held : split[r] = "test"
     /\ \A r, s \in (DOMAIN split) \ held : r.start < s.start => Position[split[r]] <= Position[split[s]]
     /\ held # {} => \A r \in (DOMAIN split) \ held : split[r] # "test"

Correlating == pc \in {"write", "fill", "done"}
FindingsRead == Correlating /\ \E s \in loaded : s.engine = "syslog" /\ s.id[2] = <<chosen, "findings">>

\* The links that went up or down so often within some hour that one of the two
\* clock hours it meets must reach the threshold, and the hosts with as many
\* failed SNMP requests as a campaign needs.
Storms ==
  LET flaps == {p \in Timed : LineAt(p).code \in LinkUp \cup LinkDown /\ LineAt(p).iface # None}
      After(p) == {q \in flaps : /\ LineAt(q).host = LineAt(p).host /\ LineAt(q).iface = LineAt(p).iface
                                 /\ LineAt(q).at - LineAt(p).at \in 0..59}
  IN {[device |-> LineAt(p).host, iface |-> LineAt(p).iface] : p \in {q \in flaps : Cardinality(After(q)) >= 2 * FlapWarn - 1}}

Campaigns ==
  LET failures == {p \in RawLines : LineAt(p).shape = "event" /\ LineAt(p).host # None
                     /\ LineAt(p).code \in {"COMMUNITY_AUTHOR_FAILED", "USER_AUTH_FAILED"}}
      hosts == {LineAt(p).host : p \in failures}
  IN {h \in hosts : Cardinality({p \in failures : LineAt(p).host = h}) >= MinAttempts}

\* What went on in the raw logs reaches the incidents: a storm of link changes
\* is an unstable port although the hours are cut at the clock, and repeats
\* that were collapsed still make a campaign of failed SNMP requests.
OutbreaksReported ==
  FindingsRead =>
    /\ \A storm \in Storms : \E i \in incidents :
         i.rule = "PORT_INSTABILITY" /\ storm.device \in i.devices /\ storm.iface \in i.interfaces
    /\ \A h \in Campaigns : \E i \in incidents : i.rule = "SYSLOG_SNMP_AUTH_CAMPAIGN" /\ h \in i.devices

\* A host that logged by its boot clock is not taken at its word: the incidents
\* say that clocks are unreliable, or the pass warned that it could not read
\* the summary of the run it had resolved.
BootClocksReported ==
  Correlating /\ chosen # None /\ (\E p \in Timed : LineAt(p).boot) =>
    \/ "parser_summary" \in warned
    \/ \E i \in incidents : i.rule = "CLOCK_INTEGRITY_RISK"

\* Whatever the order of the rules, a high or critical signal is in an
\* incident, and a fallback takes up those only that no other rule took.
HighRiskCovered ==
  LET fallback == {i \in incidents : i.rule \in Names(Fallbacks)}
  IN Correlating =>
       /\ \A s \in loaded : s.severity <= High => \E i \in incidents : s.id \in i.signals
       /\ \A i \in fallback, j \in incidents : i # j => i.signals \cap j.signals = {}

\* An incident is critical because a signal is or because two engines agree,
\* and a loop only with two kinds of evidence (require_multi_source_for_critical).
CriticalCorroborated ==
  \A i \in incidents :
    LET members == {s \in loaded : s.id \in i.signals}
        kinds == {IF s.engine = "engine_c" THEN "topology" ELSE s.stype : s \in members}
    IN i.severity = 0 =>
         /\ (\E s \in members : s.severity = 0) \/ Cardinality({s.engine : s \in members}) > 1
         /\ i.rule = "LOOP_OR_REDUNDANCY_INSTABILITY" => Cardinality(kinds) > 1

\* The syslog evidence of a pass is of one run, whatever was ingested while it
\* was being loaded.
SyslogOfOneRun ==
  \A s \in Of(loaded, "syslog") : s.id[2][1] = chosen

\* Who finds a summary finds incidents and signals of the same pass or of a
\* later one, also when a pass was killed between two files.
SummaryLast ==
  LET AsRecent(a, b) == Readable(reports[a]) /\ Readable(reports[b]) => reports[a].pass >= reports[b].pass
  IN AsRecent("signals", "incidents") /\ AsRecent("incidents", "correlation_summary")

\* Ingestion makes of the logs what they say: types are kept, lines are counted
\* once, splits follow one another in time.
WindowsSound == EvidenceTypeOK /\ EveryLineCounted /\ SplitNeverGoesBack

\* Nothing that went on is lost between the raw logs and the incidents.
LogsReported == OutbreaksReported /\ BootClocksReported

\* Incidents say no more and no less than the signals of one set of runs.
IncidentsSound == HighRiskCovered /\ CriticalCorroborated /\ SyslogOfOneRun
=============================================================================
