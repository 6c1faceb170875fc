------------------------------ MODULE EventStream ------------------------------
(***************************************************************************)
(* The event stream of src/streaming: events out of the artefacts of the   *)
(* engines, the order of their replay, and the monitoring state that the   *)
(* replay maintains.  An event is named by what its digest is taken of.    *)
(***************************************************************************)
EXTENDS ConfigIntelligence

CONSTANTS
  RecentMax,    \* how many events the state remembers (_RECENT_MAX)
  HealthTests,  \* Engine B, by dataset: the latest test, [n, predicted]
  ProductionModels, \* Engine A: datasets with a production model
  SyslogRun     \* the ingested run the stream is configured with, or None

\* An ingested run is finite, and its findings have the severities of its rules.
ASSUME EventStreamAssumption ==
  /\ RecentMax \in Nat \ {0}
  /\ IsFiniteSet(DOMAIN HealthTests) /\ IsFiniteSet(ProductionModels)
  /\ SyslogRun # None =>
       /\ IsFiniteSet(SyslogRun.findings) /\ IsFiniteSet(DOMAIN SyslogRun.labels)
       /\ SyslogRun.last \in Nat \cup {None}
       /\ \A f \in SyslogRun.findings :
            f.severity \in DOMAIN SeverityRank /\ f.last \in Nat \cup {None}

Event(type, engine, entity, severity, at) ==
  [id |-> <<type, engine, entity>>, type |-> type, engine |-> engine, severity |-> severity,
   at |-> at, device |-> None, incident |-> None, syslog |-> FALSE, category |-> "other"]

\* The stream's own two events are stamped with the time of the collection.
SystemEvents(now) ==
  <<Event("system_status", "system", "stream", "info", now), Event("safety_status", "system", "safety", "info", now)>>

\* Sets come in a fixed order; which one does not matter.
Listed(S) == FoldSet(LAMBDA x, listed : Append(listed, x), <<>>, S)

IncidentEvent(i, at) ==
  [Event("correlation_incident", "correlation", i.id, i.severity, at)
     EXCEPT !.device = i.device, !.incident = i.id, !.syslog = i.syslog]

CorrelationEvents(summary, incidents) ==
  IF ~Readable(summary) /\ ~Readable(incidents) THEN <<>>
  ELSE LET at == IF Readable(summary) THEN summary.at ELSE None
           found == Listed(ReadOr(incidents, {}))
       IN [n \in DOMAIN found |-> IncidentEvent(found[n], at)]

FindingEvent(f, at) ==
  [Event("config_finding", "engine_c", f.id, f.severity, at) EXCEPT !.device = f.device]
WarningEvent(w, at) ==
  [Event("topology_warning", "engine_c", <<w.kind, w.message>>, IF w.severity = "warning" THEN "medium" ELSE w.severity, at)
     EXCEPT !.device = w.device]
\* Its severity is the risk of its template (configs/remediation.yaml).
PlanEvent(a, at) ==
  [Event("remediation_plan", "engine_c", a.finding,
         IF a.rule = "TRUNK_UNAUTHORIZED_VLAN" THEN "high" ELSE "medium", at) EXCEPT !.device = a.device]

Mapped(S, Op(_, _), at) ==
  LET listed == Listed(S) IN [n \in DOMAIN listed |-> Op(listed[n], at)]

\* The views that can be read, with the time of their export if its file can.
ConfigEvents(views) ==
  LET meta == views["export_metadata"]
      at == IF Readable(meta) THEN meta.at ELSE None
      Get(file, none) == IF Readable(views[file]) THEN views[file].content ELSE none
      remediation == Get("remediation_view", [commands |-> {}])
      topology == Get("topology_view", [warnings |-> {}])
  IN Mapped(Get("findings_view", {}), FindingEvent, at) \o Mapped(topology.warnings, WarningEvent, at)
     \o Mapped(remediation.commands, PlanEvent, at)

HealthSeverity(t) ==
  IF 100 * t.predicted >= 20 * t.n THEN "high" ELSE IF 100 * t.predicted >= 5 * t.n THEN "medium" ELSE "low"

HealthEvents ==
  LET anomalous == {d \in DOMAIN HealthTests : HealthTests[d].predicted > 0}
      One(d, at) == Event("health_anomaly", "engine_b", d, HealthSeverity(HealthTests[d]), at)
  IN Mapped(anomalous, One, None)

ModelEvents ==
  LET One(d, at) == Event("cyber_alert", "engine_a", d, "info", at) IN Mapped(ProductionModels, One, None)

\* Findings of the logs by their rule, weak labels with windows, a notice of
\* unreliable clocks and a status; a finding carries the time of its last event.
SyslogType(category) ==
  CASE category = "security" -> "cyber_alert"
    [] category \in {"loop", "topology"} -> "topology_warning"
    [] OTHER -> "config_finding"
SyslogCategory(rule) ==
  CASE rule = "SYS-SNMP-AUTHFAIL" -> "snmp_auth" [] rule = "SYS-PORT-FLAP" -> "port_instability"
    [] rule \in {"SYS-MAC-FLAP", "SYS-ERPS-CHURN"} -> "loop_redundancy" [] rule = "SYS-ARP-FAST" -> "duplicate_ip"
    [] rule = "SYS-POE-FAULT" -> "poe" [] rule = "SYS-TELNET" -> "management_access"
    [] rule = "SYS-DEVICE" -> "device_health" [] OTHER -> "other"

LabelSeverity(n) == CASE n >= 20 -> "high" [] n \in 5..19 -> "medium" [] OTHER -> "low"

SyslogEvents ==
  IF SyslogRun = None THEN <<>>
  ELSE LET One(f, at) == [Event(SyslogType(f.category), "syslog", f.rule, f.severity, IF f.last = None THEN at ELSE f.last)
                            EXCEPT !.device = f.device, !.category = SyslogCategory(f.rule)]
           Label(l, at) == [Event("health_anomaly", "syslog", l, LabelSeverity(SyslogRun.labels[l]), at)
                              EXCEPT !.category = "health_anomaly"]
           Notice(e, at) == [Event("safety_status", "syslog", "clock", "low", at) EXCEPT !.category = "clock_integrity"]
           Notified(e, at) == [Event("system_status", "syslog", "syslog", "info", at) EXCEPT !.category = "status"]
       IN Mapped(SyslogRun.findings, One, SyslogRun.last)
          \o Mapped({l \in DOMAIN SyslogRun.labels : SyslogRun.labels[l] > 0}, Label, SyslogRun.last)
          \o Mapped(IF SyslogRun.boot > 0 THEN {"clock"} ELSE {}, Notice, SyslogRun.last)
          \o Mapped({"status"}, Notified, SyslogRun.last)

-----------------------------------------------------------------------------
(* The order of the replay. *)

\* By time, then as collected; those without a time are last.
OrderEvents(events) ==
  LET Untimed(n) == events[n].at = None
      Before(m, n) ==
        \/ ~Untimed(m) /\ Untimed(n)
        \/ Untimed(m) /\ Untimed(n) /\ m < n
        \/ ~Untimed(m) /\ ~Untimed(n) /\ (events[m].at < events[n].at \/ (events[m].at = events[n].at /\ m < n))
      Place(n) == Cardinality({m \in DOMAIN events : Before(m, n)}) + 1
  IN [p \in DOMAIN events |-> events[CHOOSE n \in DOMAIN events : Place(n) = p]]

-----------------------------------------------------------------------------
(* The monitoring state. *)

Types ==
  {"cyber_alert", "health_anomaly", "config_finding", "topology_warning", "remediation_plan",
   "correlation_incident", "safety_status", "system_status"}
Engines == {"engine_a", "engine_b", "engine_c", "correlation", "syslog", "system"}
SyslogCategories ==
  {"snmp_auth", "port_instability", "loop_redundancy", "duplicate_ip", "poe", "management_access",
   "device_health", "health_anomaly", "clock_integrity", "status", "other"}
Zero(S) == [x \in S |-> 0]

Fresh ==
  [total |-> 0, types |-> Zero(Types), severities |-> Zero(DOMAIN SeverityRank), engines |-> Zero(Engines),
   incidents |-> <<>>, devices |-> {}, recent |-> <<>>, categories |-> Zero(SyslogCategories),
   syslogFindings |-> 0, clock |-> "reliable", withSyslog |-> 0]

\* The events of the logs are counted by category; only a notice about clocks
\* makes the clock state degraded, and nothing takes it back.
ApplySyslog(state, e) ==
  IF e.engine # "syslog" THEN state
  ELSE [state EXCEPT
          !.categories[e.category] = @ + 1,
          !.syslogFindings = @ + (IF e.type \in {"config_finding", "topology_warning", "cyber_alert"} THEN 1 ELSE 0),
          !.clock = IF e.type = "safety_status" THEN "degraded" ELSE @]

\* An incident replaces the one with its id; repeats are counted as evidence again.
ApplyIncident(state, e) ==
  IF e.type # "correlation_incident" \/ e.incident = None THEN state
  ELSE [state EXCEPT
          !.incidents = [i \in DOMAIN @ \cup {e.incident} |-> IF i = e.incident THEN e.severity ELSE @[i]],
          !.withSyslog = @ + (IF e.syslog THEN 1 ELSE 0)]

Remember(recent, e) ==
  IF Len(recent) < RecentMax THEN Append(recent, e.id) ELSE Append(Tail(recent), e.id)

ApplyCounts(state, e) ==
  [state EXCEPT !.total = @ + 1, !.types[e.type] = @ + 1, !.severities[e.severity] = @ + 1,
                !.engines[e.engine] = @ + 1, !.devices = @ \cup ({e.device} \ {None}),
                !.recent = Remember(@, e)]

ApplyEvent(state, e) == ApplyIncident(ApplySyslog(ApplyCounts(state, e), e), e)

CriticalIncidents(state) ==
  Cardinality({i \in DOMAIN state.incidents : state.incidents[i] \in SevereSet})

\* What a replay leaves behind: its state, the two lists, its summary.
StateFiles == <<"current_state", "active_incidents", "recent_events", "stream_summary">>
Totals(state) ==
  [total |-> state.total, types |-> state.types, severities |-> state.severities,
   active |-> Cardinality(DOMAIN state.incidents), critical |-> CriticalIncidents(state), clock |-> state.clock]
ContentOfState(file, state) ==
  CASE file \in {"current_state", "stream_summary"} -> Totals(state)
    [] file = "active_incidents" -> state.incidents
    [] file = "recent_events" -> state.recent

=============================================================================
