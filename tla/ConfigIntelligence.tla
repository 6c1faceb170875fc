--------------------------- MODULE ConfigIntelligence ---------------------------
(***************************************************************************)
(* What Engine C makes of the artefacts of a snapshot for its operators:   *)
(* risk scores, hypotheses, action items (src/network_config/intelligence) *)
(* and the views of the dashboards (dashboard_export).  Everything is a    *)
(* function of the artefacts and, optionally, of a diff directory.         *)
(***************************************************************************)
EXTENDS ConfigAnalysis, SequencesExt

CONSTANTS
  RuleMeta  \* severity, confidence and category of each rule, by the YAML

SeverityRank == [critical |-> 0, high |-> 1, medium |-> 2, low |-> 3, info |-> 4]

ASSUME IntelligenceAssumption ==
  /\ Torn # None
  /\ RuleMeta \in [Rules -> [severity : DOMAIN SeverityRank, confidence : {"high", "medium", "low"},
                             category : STRING]]

Readable(file) == file \notin {None, Torn}
ReadOr(file, default) == IF Readable(file) THEN file ELSE default

SeverityOf(f) == RuleMeta[f.rule].severity
SevereSet == {"critical", "high"}

\* An export reads these files of a snapshot, and those of a diff if one is
\* named; the inventory is required, the others may be missing.
ArtefactFiles == {"inventory", "topology", "findings", "plan", "audit"}
DiffFiles == {"diff", "verification"}

OpenFindings(art) == Open(ReadOr(art["findings"], {}))
PlanOf(art) == ReadOr(art["plan"], {})
Judgements(diff) == IF diff = None THEN {} ELSE ReadOr(diff["verification"], {})

-----------------------------------------------------------------------------
(* Risk. *)

Weight == [critical |-> 100, high |-> 75, medium |-> 50, low |-> 25, info |-> 10]
Factor == [high |-> 100, medium |-> 85, low |-> 70]
Bump(category) ==
  CASE category \in {"security", "loop risk", "loop_risk"} -> 10
    [] category = "stp" -> 5
    [] category = "topology" -> 3
    [] OTHER -> 0
Delta(verdict) ==
  CASE verdict = "failed" -> 15
    [] verdict = "unknown" -> 5
    [] verdict = "passed" -> -25
    [] OTHER -> 0

\* round() of a number of hundredths: a half goes to the even neighbour.
Rounded(h) ==
  LET q == h \div 100
      r == h % 100
  IN IF r > 50 \/ (r = 50 /\ q % 2 = 1) THEN q + 1 ELSE q

\* Mutant: the score is clamped before the verdict counts.
ScoreEarlyClamp(meta, linked, planned, verdict) ==
  LET base == Weight[meta.severity] * Factor[meta.confidence] + 100 * Bump(meta.category)
      raw == Rounded(base + (IF linked THEN 500 ELSE 0) + (IF planned THEN 500 ELSE 0))
  IN (IF raw > 100 THEN 100 ELSE raw) + Delta(verdict)

Score(meta, linked, planned, verdict) ==
  LET base == Weight[meta.severity] * Factor[meta.confidence] + 100 * Bump(meta.category)
      raw == Rounded(base + (IF linked THEN 500 ELSE 0) + (IF planned THEN 500 ELSE 0) + 100 * Delta(verdict))
  IN IF raw > 100 THEN 100 ELSE IF raw < 0 THEN 0 ELSE raw

TopologyEnds(art) ==
  IF ~Readable(art["topology"]) THEN {}
  ELSE UNION {{<<art["inventory"].device, n.port>>, <<n.device, n.remote>>} : n \in art["topology"].links}

CommandBearing(art) == {a.finding : a \in {a \in PlanOf(art) : a.commands # {} /\ a.status = "planned"}}

\* By the id of a finding; several verdicts with one id leave one of them.
VerdictsOn(id, diff) == {v.status : v \in {v \in Judgements(diff) : v.action.finding = id}}
VerdictOn(id, diff) == IF VerdictsOn(id, diff) = {} THEN None ELSE CHOOSE s \in VerdictsOn(id, diff) : TRUE

RiskOf(f, art, diff) ==
  Score(RuleMeta[f.rule], <<f.device, f.interface>> \in TopologyEnds(art), f.id \in CommandBearing(art),
        VerdictOn(f.id, diff))

Ranked(art, diff) == {[finding |-> f, risk |-> RiskOf(f, art, diff)] : f \in OpenFindings(art)}

-----------------------------------------------------------------------------
(* Hypotheses. *)

Likelihood(n) == CASE n >= 3 -> "likely" [] n = 2 -> "candidate" [] OTHER -> "possible"
ByRule(art, rule) == {f \in OpenFindings(art) : f.rule = rule}

Hypothesis(kind, severity, confidence, findings) ==
  [kind |-> kind, severity |-> severity, confidence |-> confidence,
   interfaces |-> {f.interface : f \in findings} \ {None}, findings |-> {f.id : f \in findings}]
Unless(findings, hypothesis) == IF findings = {} THEN {} ELSE {hypothesis}

LoopHypothesis(art) ==
  LET stp == ByRule(art, "STP_BLOCKING_ACCESS_PORT")
      mac == ByRule(art, "MAC_ON_MULTIPLE_INTERFACES")
  IN IF {} \in {stp, mac} THEN {}
     ELSE {Hypothesis("loop", "high", Likelihood(Cardinality(stp) + Cardinality(mac)), stp \cup mac)}

StaleUplink(art) ==
  LET blocked == {b[1] : b \in art["inventory"].blocking}
      hits == {f \in ByRule(art, "TRUNK_WITHOUT_NEIGHBOR") : f.interface \notin blocked}
  IN Unless(hits, Hypothesis("stale_uplink", "medium", Likelihood(1 + Cardinality(hits)), hits))

UnusedExposed(art) ==
  LET inv == art["inventory"]
      busy == {m[2] : m \in inv.macs} \cup {n.port : n \in inv.neighbors}
      exposed == {f \in ByRule(art, "UNUSED_PORT_ADMIN_UP") : f.interface \notin busy}
  IN Unless(exposed, Hypothesis("unused_exposed", "medium", "likely", exposed))

VlanNotRemediated(art, diff) ==
  LET left == {f \in ByRule(art, "TRUNK_MISSING_REQUIRED_VLAN") : VerdictOn(f.id, diff) \in {"failed", "unknown"}}
  IN Unless(left, Hypothesis("vlan_not_remediated", "high", Likelihood(1 + Cardinality(left)), left))

\* The records of the diff name the rule of a new finding and no id.
UnauthorizedVlan(diff) ==
  IF diff = None \/ ~Readable(diff["diff"]) THEN {}
  ELSE LET added == {id \in diff["diff"].new : id[1] = "TRUNK_UNAUTHORIZED_VLAN"}
       IN Unless(added, [kind |-> "unauthorized_vlan", severity |-> "high", confidence |-> "candidate",
                         interfaces |-> {id[3] : id \in added} \ {None}, findings |-> {}])

Hypotheses(art, diff) ==
  LoopHypothesis(art) \cup StaleUplink(art) \cup UnusedExposed(art)
  \cup VlanNotRemediated(art, diff) \cup UnauthorizedVlan(diff)

-----------------------------------------------------------------------------
(* Action items. *)

Priority == [critical |-> "P1", high |-> "P1", medium |-> "P2", low |-> "P3", info |-> "P3"]

Item(priority, type, finding, device, interface) ==
  [priority |-> priority, type |-> type, finding |-> finding, device |-> device, interface |-> interface]

ItemForAction(a) ==
  LET Say(priority, type) == {Item(priority, type, a.finding, a.device, a.interface)}
      own == Priority[RuleMeta[a.rule].severity]
  IN CASE a.status = "planned" /\ a.commands # {} -> Say(own, "config-plan")
       [] ~(a.status = "planned" /\ a.commands # {}) /\ a.type = "investigation" -> Say(own, "investigate")
       [] a.type # "investigation" /\ a.status \in {"blocked", "skipped"} -> Say("P3", "investigate")
       [] OTHER -> {}

ItemForFinding(f) == Item(Priority[SeverityOf(f)], "investigate", f.id, f.device, f.interface)

ItemForVerdict(v) ==
  LET Say(priority, type) == Item(priority, type, v.action.finding, v.action.device, v.action.interface)
  IN CASE v.status = "failed" -> Say("P1", "verify")
       [] v.status = "unknown" -> Say("P2", "verify")
       [] OTHER -> Say("P3", "monitor")

\* With a plan the items are its actions, whatever the findings are by now.
ActionItems(art, diff) ==
  (IF Readable(art["plan"])
     THEN UNION {ItemForAction(a) : a \in PlanOf(art)}
     ELSE {ItemForFinding(f) : f \in {f \in OpenFindings(art) : SeverityOf(f) \in SevereSet}})
  \cup {ItemForVerdict(v) : v \in Judgements(diff)}

Intelligence(art, diff) ==
  [ranked |-> Ranked(art, diff), hypotheses |-> Hypotheses(art, diff), items |-> ActionItems(art, diff)]

-----------------------------------------------------------------------------
(* Views. *)

MaxRisk(ranked) == IF ranked = {} THEN 0 ELSE Max({r.risk : r \in ranked})

SummaryView(art, intel, diff) ==
  [findings |-> Cardinality(OpenFindings(art)), devices |-> {r.finding.device : r \in intel.ranked},
   risk |-> MaxRisk(intel.ranked), actions |-> Cardinality(PlanOf(art)),
   dryRun |-> Readable(art["audit"]), compared |-> diff # None]

\* A warning with its severity; the links with what is known of their ends.
TopologyView(art) ==
  IF ~Readable(art["topology"]) THEN [available |-> FALSE, links |-> {}, warnings |-> {}]
  ELSE [available |-> TRUE, links |-> art["topology"].links,
        warnings |-> {[kind |-> w[1], device |-> art["inventory"].device, severity |-> "warning",
                       interface |-> IF w[1] = "moving_mac" THEN None ELSE w[2], message |-> <<w[2], w[3]>>] :
                        w \in art["topology"].warnings}]

\* A row is the whole finding: addresses that move share their id.
FindingsView(intel) ==
  {[id |-> r.finding.id, rule |-> r.finding.rule, severity |-> SeverityOf(r.finding),
    device |-> r.finding.device, interface |-> r.finding.interface, mac |-> r.finding.mac,
    risk |-> r.risk] : r \in intel.ranked}

RemediationView(art) ==
  [available |-> Readable(art["plan"]), actions |-> PlanOf(art),
   commands |-> {a \in PlanOf(art) : a.commands # {}},
   investigations |-> {a \in PlanOf(art) : a.type = "investigation"},
   blocked |-> {a \in PlanOf(art) : a.status = "blocked"}]

\* The executor never runs a command: its records have no "executed".
AuditView(art) ==
  [available |-> Readable(art["audit"]), records |-> ReadOr(art["audit"], {}), executed |-> 0]

HealthStatus(interfaces, severities) ==
  CASE interfaces = {} -> "unknown"
    [] interfaces # {} /\ severities \cap SevereSet # {} -> "critical"
    [] interfaces # {} /\ severities # {} /\ severities \cap SevereSet = {} -> "warning"
    [] OTHER -> "healthy"

HealthCards(art) ==
  LET inv == art["inventory"]
      own == {f \in OpenFindings(art) : f.device = inv.device}
  IN {[device |-> inv.device, findings |-> Cardinality(own),
       actions |-> Cardinality({a \in PlanOf(art) : a.device = inv.device}),
       trunks |-> Cardinality(DOMAIN inv.trunks), blocked |-> Cardinality(inv.blocking),
       status |-> HealthStatus(DOMAIN inv.interfaces, {SeverityOf(f) : f \in own})]}

\* What the export used: the files that are there, readable or not.
UsedFiles(art, diff) ==
  {f \in ArtefactFiles : art[f] # None}
  \cup (IF diff = None THEN {} ELSE {f \in DiffFiles : f = "verification" \/ Readable(diff[f])})

VerificationView(diff) ==
  [s \in {"passed", "failed", "unknown", "not_applicable"} |-> {v \in Judgements(diff) : v.status = s}]
DiffView(diff) == ReadOr(diff["diff"], None)

\* The views by file, in the order they are written; those of a diff are
\* written only if one was named, and stay behind otherwise.  The inventory view
\* and the timeline of the files repeat their sources and are left out.
ViewFiles(diff) ==
  <<"dashboard_summary", "topology_view", "findings_view", "remediation_view", "action_audit_view",
    "device_health_cards", "export_metadata">>
  \o (IF diff = None THEN <<>> ELSE <<"diff_view", "verification_view">>)

Views(art, diff) ==
  LET intel == Intelligence(art, diff)
  IN [file \in ToSet(ViewFiles(diff)) |->
        CASE file = "dashboard_summary" -> SummaryView(art, intel, diff)
          [] file = "topology_view" -> TopologyView(art)
          [] file = "findings_view" -> FindingsView(intel)
          [] file = "remediation_view" -> RemediationView(art)
          [] file = "action_audit_view" -> AuditView(art)
          [] file = "device_health_cards" -> HealthCards(art)
          [] file = "export_metadata" -> UsedFiles(art, diff)
          [] file = "diff_view" -> DiffView(diff)
          [] file = "verification_view" -> VerificationView(diff)]

=============================================================================
