---------------------------- MODULE CorrelationRules ----------------------------
(***************************************************************************)
(* The correlation of signals into incidents as functions of the signals:  *)
(* src/correlation/rules.py, the scoring of engine.py and the matching of  *)
(* entities in signal_normalization.py.                                    *)
(*                                                                         *)
(* A signal is a record.  labels holds its tags and its category, severity *)
(* is 0 (critical) to 4 (info), confidence counts hundredths.  An incident *)
(* is named by its rule and by the names of its signals, as its digest is. *)
(***************************************************************************)
EXTENDS Artefacts, FiniteSetsExt

CONSTANTS
  NormalName,   \* the short form of each interface name
  MinAttempts,  \* rules.SYSLOG_SNMP_AUTH_CAMPAIGN.minimum_attempts
  MinFlaps,     \* rules.PORT_INSTABILITY.minimum_transitions
  MinMacFlaps,  \* rules.LOOP_OR_REDUNDANCY_INSTABILITY.minimum_mac_flaps
  Boosts,       \* rules.*.severity_boost
  Disabled      \* the rules with enabled: false

RuleOrder ==
  <<"DOS_SATURATION", "LINK_DEGRADATION", "CONFIG_EXPOSURE", "VLAN_POLICY_RISK",
    "SYSLOG_SNMP_AUTH_CAMPAIGN", "PORT_INSTABILITY", "LOOP_OR_REDUNDANCY_INSTABILITY",
    "DUPLICATE_IP_CONFLICT", "POE_ENDPOINT_FAILURE", "MANAGEMENT_ACCESS_EXPOSURE",
    "CLOCK_INTEGRITY_RISK">>
Fallbacks == <<"SINGLE_ENGINE_HIGH_RISK", "SINGLE_SYSLOG_HIGH_RISK">>
Rules == {RuleOrder[n] : n \in DOMAIN RuleOrder} \cup {Fallbacks[n] : n \in DOMAIN Fallbacks}

ASSUME RulesAssumption ==
  /\ {MinAttempts, MinFlaps, MinMacFlaps} \subseteq Nat
  /\ Boosts \in [Rules -> Nat]
  /\ Disabled \subseteq Rules

Severities == 0..4
High == 1
Engines == {"engine_a", "engine_b", "engine_c", "syslog"}

-----------------------------------------------------------------------------
(* Entities. *)

\* Two names that differ in case only are one name here.
MatchEntities(a, b) ==
  LET sameDevice == a.device # None /\ a.device = b.device
      bothNamed == a.iface # None /\ b.iface # None
  IN IF ~sameDevice THEN IF bothNamed /\ a.iface = b.iface THEN "uncertain" ELSE "none"
     ELSE IF ~bothNamed \/ a.iface = b.iface THEN "exact"
     ELSE IF NormalName[a.iface] = NormalName[b.iface] THEN "normalized"
     ELSE "uncertain"

MatchRank == [exact |-> 0, normalized |-> 1, uncertain |-> 2, none |-> 3]

-----------------------------------------------------------------------------
(* Views of the signals the rules share. *)

Of(S, engine) == {s \in S : s.engine = engine}
Labelled(S, labels) == {s \in S : s.labels \cap labels # {}}
OfType(S, type) == {s \in S : s.stype = type}
OnDevice(S, device) == {s \in S : s.device = device}
Weight(S) == LET w(s) == IF s.count > 1 THEN s.count ELSE 1 IN MapThenSumSet(w, S)

DosSignals(S) == Labelled(Of(S, "engine_a"), {"dos", "ddos", "flood"})
AttackSignals(S) == Labelled(Of(S, "engine_a"), {"attack"})
HealthSignals(S) == Labelled(Of(S, "engine_b"), {"anomaly", "degradation"})
ConfigSignals(S, labels) == Labelled(Of(S, "engine_c"), labels)

\* Engine C signals on the same interface of the same device.
SameInterface(S, sig) ==
  {s \in Of(S, "engine_c") : s.iface # None /\ MatchEntities(sig, s) \in {"exact", "normalized"}}

\* Signals that name no device are grouped together.
DeviceKey(s) == IF s.device = None THEN "unknown" ELSE s.device
DeviceKeys(S) == {DeviceKey(s) : s \in S}
Group(S, key) == {s \in S : DeviceKey(s) = key}
GroupsByDevice(S) == {Group(S, key) : key \in DeviceKeys(S)}

SaturationLabels == {"performance", "topology", "availability", "interface"}
DegradationLabels == {"port", "stp", "performance", "availability", "loop_risk", "topology"}
ExposureLabels == {"UNUSED_PORT_ADMIN_UP", "TRUNK_WITHOUT_NEIGHBOR", "TRUNK_UNAUTHORIZED_VLAN",
                   "STP_DISABLED", "STP_MISSING", "PORT_UP_NO_DESCRIPTION"}
VlanLabels == {"TRUNK_UNAUTHORIZED_VLAN", "TRUNK_MISSING_REQUIRED_VLAN", "WRONG_ACCESS_VLAN",
               "WRONG_NATIVE_VLAN"}

-----------------------------------------------------------------------------
(* The rules: from the signals to drafts of incidents. *)

Draft(rule, members, base) == [rule |-> rule, members |-> members, base |-> base, cap |-> None]
CappedDraft(rule, members, base, cap) == [Draft(rule, members, base) EXCEPT !.cap = cap]

DosSaturation(S) ==
  LET attack == IF DosSignals(S) # {} THEN DosSignals(S) ELSE AttackSignals(S)
      members == attack \cup HealthSignals(S) \cup ConfigSignals(S, SaturationLabels)
  IN IF attack = {} \/ HealthSignals(S) = {} THEN {} ELSE {Draft("DOS_SATURATION", members, 45)}

LinkDegradation(S) ==
  IF AttackSignals(S) # {} \/ HealthSignals(S) = {} THEN {}
  ELSE {Draft("LINK_DEGRADATION", HealthSignals(S) \cup group, 40) :
          group \in GroupsByDevice(ConfigSignals(S, DegradationLabels))}

ConfigExposure(S) ==
  {Draft("CONFIG_EXPOSURE", group \cup AttackSignals(S), 40) :
     group \in GroupsByDevice(ConfigSignals(S, ExposureLabels))}

VlanPolicyRisk(S) ==
  IF AttackSignals(S) = {} THEN {}
  ELSE {Draft("VLAN_POLICY_RISK", group \cup AttackSignals(S), 42) :
          group \in GroupsByDevice(ConfigSignals(S, VlanLabels))}

SnmpAuthCampaign(S) ==
  {Draft("SYSLOG_SNMP_AUTH_CAMPAIGN", group \cup AttackSignals(S), 50) :
     group \in {g \in GroupsByDevice(OfType(S, "SNMP_AUTH_ACTIVITY")) : Weight(g) >= MinAttempts}}

PortInstability(S) ==
  {Draft("PORT_INSTABILITY",
         {sig} \cup OnDevice(HealthSignals(S), DeviceKey(sig))
               \cup (IF sig.iface = None THEN {} ELSE SameInterface(S, sig)), 50) :
     sig \in {s \in OfType(S, "PORT_FLAP") : Weight({s}) >= MinFlaps}}

\* Signals without a device do not take part.
LoopOrRedundancy(S) ==
  LET mac == OfType(S, "MAC_FLAP")
      erps == OfType(S, "ERPS_CHURN")
      topo == ConfigSignals(S, {"topology"})
      Sources(d) == {group \in {OnDevice(mac, d), OnDevice(erps, d), OnDevice(topo, d)} : group # {}}
      fires == {d \in {s.device : s \in mac \cup erps} \ {None} :
                  OnDevice(erps, d) # {} \/ Weight(OnDevice(mac, d)) >= MinMacFlaps}
  IN {CappedDraft("LOOP_OR_REDUNDANCY_INSTABILITY", OnDevice(mac \cup erps \cup topo, d), 50,
                  IF Cardinality(Sources(d)) < 2 THEN High ELSE None) : d \in fires}

DuplicateIp(S) ==
  LET dup == OfType(S, "DUPLICATE_IP")
  IN {CappedDraft("DUPLICATE_IP_CONFLICT", Group(dup, d) \cup OnDevice(OfType(S, "MAC_FLAP"), d), 55, High) :
        d \in DeviceKeys(dup)}

\* The port flaps are matched by the name of the interface only.
PoeEndpointFailure(S) ==
  {Draft("POE_ENDPOINT_FAILURE",
         {sig} \cup (IF sig.iface = None THEN {}
                     ELSE {p \in OfType(S, "PORT_FLAP") : p.iface = sig.iface} \cup SameInterface(S, sig)), 50) :
     sig \in OfType(S, "POE_FAULT")}

ManagementAccess(S) ==
  LET mgmt == OfType(S, "MANAGEMENT_ACCESS")
      beside == OfType(S, "SNMP_AUTH_ACTIVITY") \cup ConfigSignals(S, ExposureLabels)
  IN {Draft("MANAGEMENT_ACCESS_EXPOSURE", Group(mgmt, d) \cup OnDevice(beside, d) \cup AttackSignals(S), 45) :
        d \in DeviceKeys(mgmt)}

ClockIntegrity(S) ==
  LET clock == Labelled(Of(S, "syslog"), {"clock_unreliable"})
  IN IF clock = {} THEN {} ELSE {Draft("CLOCK_INTEGRITY_RISK", clock, 40)}

\* What no rule has covered and is high or critical, one incident each.
SingleHighRisk(rule, S, covered, base) ==
  {Draft(rule, {s}, base) : s \in {t \in S : t.id \notin covered /\ t.severity <= High}}

DraftsOf(rule, S, covered) ==
  IF rule \in Disabled THEN {} ELSE
  CASE rule = "DOS_SATURATION" -> DosSaturation(S)
    [] rule = "LINK_DEGRADATION" -> LinkDegradation(S)
    [] rule = "CONFIG_EXPOSURE" -> ConfigExposure(S)
    [] rule = "VLAN_POLICY_RISK" -> VlanPolicyRisk(S)
    [] rule = "SYSLOG_SNMP_AUTH_CAMPAIGN" -> SnmpAuthCampaign(S)
    [] rule = "PORT_INSTABILITY" -> PortInstability(S)
    [] rule = "LOOP_OR_REDUNDANCY_INSTABILITY" -> LoopOrRedundancy(S)
    [] rule = "DUPLICATE_IP_CONFLICT" -> DuplicateIp(S)
    [] rule = "POE_ENDPOINT_FAILURE" -> PoeEndpointFailure(S)
    [] rule = "MANAGEMENT_ACCESS_EXPOSURE" -> ManagementAccess(S)
    [] rule = "CLOCK_INTEGRITY_RISK" -> ClockIntegrity(S)
    [] rule = "SINGLE_ENGINE_HIGH_RISK" -> SingleHighRisk(rule, S \ Of(S, "syslog"), covered, 30)
    [] rule = "SINGLE_SYSLOG_HIGH_RISK" -> SingleHighRisk(rule, Of(S, "syslog"), covered, 35)

-----------------------------------------------------------------------------
(* Scoring. *)

EnginesOf(members) == {s.engine : s \in members}

\* An interface, or a device, that signals of two engines name.
CrossEngineInterface(members) ==
  \E s, t \in members : s.iface # None /\ s.iface = t.iface /\ s.engine # t.engine
CrossEngineDevice(members) ==
  \E s, t \in members : s.device # None /\ s.device = t.device /\ s.engine # t.engine

Clamp(low, value, high) == IF value < low THEN low ELSE IF value > high THEN high ELSE value

WorstSeverity(members) == Min({s.severity : s \in members})

Severity(draft) ==
  LET boost == (IF Cardinality(EnginesOf(draft.members)) >= 2 THEN Boosts[draft.rule] ELSE 0)
                 + (IF CrossEngineInterface(draft.members) THEN 1 ELSE 0)
      boosted == Clamp(0, WorstSeverity(draft.members) - boost, 4)
  IN IF draft.cap # None /\ boosted < draft.cap THEN draft.cap ELSE boosted

Confidence(draft) ==
  Clamp(0, draft.base + 20 * (Cardinality(EnginesOf(draft.members)) - 1)
             + (IF CrossEngineInterface(draft.members) THEN 25 ELSE 0)
             + (IF CrossEngineDevice(draft.members) THEN 15 ELSE 0)
             - (IF \E s \in draft.members : s.aggregate THEN 20 ELSE 0), 100)

TimeReliability(members) ==
  IF \A s \in members : s.clockUnreliable THEN "unreliable"
  ELSE IF \E s \in members : s.clockUnreliable THEN "approximate"
  ELSE "reliable"

\* The worst match between members of different engines.
EntityMatchConfidence(members) ==
  LET compared == {p \in members \X members : p[1].engine # p[2].engine}
      ranks == {MatchRank[MatchEntities(p[1], p[2])] : p \in compared}
  IN IF compared = {} THEN "n/a" ELSE CHOOSE m \in DOMAIN MatchRank : MatchRank[m] = Max(ranks)

QualityNotes(members) ==
  {n \in {"clock", "aggregate", "low", "identity"} :
     \/ n = "clock" /\ \E s \in members : s.clockUnreliable
     \/ n = "aggregate" /\ \E s \in members : s.aggregate
     \/ n = "low" /\ \E s \in members : s.band = "low"
     \/ n = "identity" /\ \E s \in members : ~s.entityConfident}

Score(draft) ==
  [rule |-> draft.rule,
   signals |-> {s.id : s \in draft.members},
   severity |-> Severity(draft),
   confidence |-> Confidence(draft),
   engines |-> EnginesOf(draft.members),
   devices |-> {s.device : s \in draft.members} \ {None},
   interfaces |-> {s.iface : s \in draft.members} \ {None},
   syslogSignals |-> {s.id : s \in Of(draft.members, "syslog")},
   aggregateOnly |-> \A s \in draft.members : s.aggregate,
   time |-> TimeReliability(draft.members),
   match |-> EntityMatchConfidence(draft.members),
   notes |-> QualityNotes(draft.members)]

IncidentId(incident) == <<incident.rule, incident.signals>>

\* The first incident with a name stays.
AddIncidents(incidents, scored) ==
  incidents \cup {i \in scored : \A j \in incidents : IncidentId(j) # IncidentId(i)}

Summarise(S, incidents) ==
  [signals |-> Cardinality(S),
   byEngine |-> [e \in Engines |-> Cardinality(Of(S, e))],
   incidents |-> Cardinality(incidents),
   bySeverity |-> [s \in Severities |-> Cardinality({i \in incidents : i.severity = s})],
   multiEngine |-> Cardinality({i \in incidents : Cardinality(i.engines) > 1}),
   aggregate |-> Cardinality({s \in S : s.aggregate}),
   withSyslog |-> Cardinality({i \in incidents : i.syslogSignals # {}})]

=============================================================================
