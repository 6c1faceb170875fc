-------------------------------- MODULE Exports --------------------------------
(***************************************************************************)
(* The producers the monitoring reads from: the analysis of a snapshot     *)
(* (ConfigWorkflow has its files one by one; here a directory is replaced  *)
(* by another one it may hold), scripts/export_network_config_dashboard.py *)
(* and scripts/run_correlation.py, whose files are truncated and filled    *)
(* one after the other while others read them.                             *)
(***************************************************************************)
EXTENDS EventStream

CONSTANTS
  Directories,    \* what outputs/network_config/<snapshot> may hold
  Comparisons,    \* the diff directories an export may name, and None
  ReportIds,      \* the correlation ids in use
  IncidentSets,   \* the incidents a correlation may come to
  MaxProductions, MaxKills  \* bounds

\* What an analysis leaves in its files: findings of the rules, told apart by
\* their ids and addresses, and plans whose command actions have commands.
LeftByAnalysis(d) ==
  /\ DOMAIN d = ArtefactFiles
  /\ Readable(d["findings"]) =>
       /\ IsFiniteSet(d["findings"])
       /\ \A f \in d["findings"] : f.rule \in Rules
       /\ \A f, g \in d["findings"] : f.id = g.id /\ f.mac = g.mac => f = g
  /\ Readable(d["topology"]) => IsFiniteSet(d["topology"].warnings)
  /\ Readable(d["plan"]) =>
       /\ IsFiniteSet(d["plan"])
       /\ \A a \in d["plan"] :
            /\ a.status \in {"planned", "blocked", "skipped"}
            /\ a.type # "investigation" /\ a.status = "planned" => a.commands # {}
            /\ a.type = "investigation" => a.commands = {}

ASSUME ExportsAssumption ==
  /\ {MaxProductions, MaxKills} \subseteq Nat
  /\ None \in Comparisons
  /\ \A d \in Directories : LeftByAnalysis(d)
  /\ \A incidents \in IncidentSets :
       IsFiniteSet(incidents) /\ \A i \in incidents : i.severity \in DOMAIN SeverityRank

AllViews == ToSet(ViewFiles("named"))
ReportFiles == <<"signals", "incidents", "correlation_summary">>

VARIABLES
  artefacts,  \* the snapshot directory
  views,      \* its dashboard directory: None, Torn, or [at, content]
  reports,    \* outputs/correlation, by id and file
  producer,   \* the program under way, or None
  now,        \* counts the productions; stamps what they write
  kills
exportVars == <<artefacts, views, reports, producer, now, kills>>

Reanalyse ==
  /\ producer = None /\ now < MaxProductions
  /\ artefacts' \in Directories \ {artefacts}
  /\ now' = now + 1
  /\ UNCHANGED <<views, reports, producer, kills>>

\* Refused without a readable inventory.
StartExport(diff) ==
  /\ producer = None /\ now < MaxProductions
  /\ Readable(artefacts["inventory"])
  /\ producer' = [kind |-> "export", into |-> "views", at |-> now + 1, out |-> Views(artefacts, diff),
                  intel |-> Intelligence(artefacts, diff), diff |-> diff, todo |-> ViewFiles(diff), open |-> FALSE]
  /\ now' = now + 1
  /\ UNCHANGED <<artefacts, views, reports, kills>>

StartCorrelation(id, incidents) ==
  /\ producer = None /\ now < MaxProductions
  /\ producer' = [kind |-> "correlation", into |-> id, at |-> now + 1,
                  out |-> [f \in ToSet(ReportFiles) |-> IF f = "incidents" THEN incidents ELSE {}],
                  todo |-> ReportFiles, open |-> FALSE]
  /\ now' = now + 1
  /\ UNCHANGED <<artefacts, views, reports, kills>>

\* Of a view the time of its export is kept with it, of a correlation run its
\* summary has the time.
Filled(file) ==
  IF producer.kind = "export" \/ file = "correlation_summary"
  THEN [at |-> producer.at, content |-> producer.out[file]] ELSE producer.out[file]
PutFile(file, content) ==
  IF producer.kind = "export"
  THEN views' = [views EXCEPT ![file] = content] /\ UNCHANGED reports
  ELSE reports' = [reports EXCEPT ![producer.into][file] = content] /\ UNCHANGED views

TruncateFile ==
  /\ producer # None /\ ~producer.open
  /\ PutFile(Head(producer.todo), Torn)
  /\ producer' = [producer EXCEPT !.open = TRUE]
  /\ UNCHANGED <<artefacts, now, kills>>

FillFile ==
  /\ producer # None /\ producer.open
  /\ LET file == Head(producer.todo)
         rest == Tail(producer.todo)
     IN /\ PutFile(file, Filled(file))
        /\ producer' = IF rest = <<>> THEN None ELSE [producer EXCEPT !.todo = rest, !.open = FALSE]
  /\ UNCHANGED <<artefacts, now, kills>>

KillProducer ==
  /\ producer # None /\ kills < MaxKills
  /\ producer' = None /\ kills' = kills + 1
  /\ UNCHANGED <<artefacts, views, reports, now>>

\* What a completed export leaves.
Exported(directory) ==
  [f \in AllViews |-> IF f \in ToSet(ViewFiles(None)) /\ Readable(directory["inventory"])
                      THEN [at |-> 0, content |-> Views(directory, None)[f]] ELSE None]

ExportsInit ==
  /\ artefacts \in Directories
  /\ views = Exported(artefacts)
  /\ reports = [r \in ReportIds |-> [f \in ToSet(ReportFiles) |-> None]]
  /\ producer = None /\ now = 0 /\ kills = 0

ExportsNext ==
  \/ Reanalyse
  \/ \E diff \in Comparisons : StartExport(diff)
  \/ \E id \in ReportIds, incidents \in IncidentSets : StartCorrelation(id, incidents)
  \/ TruncateFile \/ FillFile \/ KillProducer

-----------------------------------------------------------------------------
(* Properties of what is exported. *)

Exporting == producer # None /\ producer.kind = "export"

\* An operator is told of every serious finding: when the plan was made from
\* the findings of the snapshot, each open finding of high or critical severity
\* has an action item, also where its template was switched off or blocked
\* (generate_action_items takes the items from the plan alone).
SeriousFindingsHaveItems ==
  Exporting =>
    LET fresh == {a.finding : a \in PlanOf(artefacts)} = {f.id : f \in OpenFindings(artefacts)}
    IN fresh \/ ~Readable(artefacts["plan"]) =>
         \A f \in OpenFindings(artefacts) :
           SeverityOf(f) \in SevereSet => \E i \in producer.intel.items : i.finding = f.id

\* A verdict moves a risk the right way and never out of 0..100: who failed a
\* verification is not ranked lower than before it, who passed not higher.
RiskFollowsVerdict ==
  Exporting =>
    \A r \in producer.intel.ranked :
      LET f == r.finding
          plain == Score(RuleMeta[f.rule], <<f.device, f.interface>> \in TopologyEnds(artefacts),
                         f.id \in CommandBearing(artefacts), None)
          verdict == VerdictOn(f.id, producer.diff)
      IN /\ r.risk \in 0..100
         /\ verdict = "failed" => r.risk >= plain
         /\ verdict = "passed" => r.risk <= plain

\* The card of a device and the list of findings tell the same story: as many
\* findings, critical with a serious one, healthy with none.
CardsMatchFindings ==
  Exporting =>
    \A c \in producer.out["device_health_cards"] :
      LET own == {f \in producer.out["findings_view"] : f.device = c.device}
      IN /\ c.findings = Cardinality(own)
         /\ c.status = "healthy" => own = {}
         /\ c.status = "critical" => \E f \in own : f.severity \in SevereSet
         /\ c.status = "warning" => own # {} /\ \A f \in own : f.severity \notin SevereSet

=============================================================================
