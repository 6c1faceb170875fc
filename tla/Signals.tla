--------------------------------- MODULE Signals ---------------------------------
(***************************************************************************)
(* What the correlation loads as signals: src/correlation/loader.py and    *)
(* syslog_loader.py as functions of the artefacts of the three engines and *)
(* of the ingested logs.  The name of a signal is the tuple its digest is  *)
(* taken of; the run or snapshot is part of the artefact it came from.     *)
(***************************************************************************)
EXTENDS CorrelationRules, SyslogIngestion

CONSTANTS
  Registry,   \* what production.json and best_per_dataset.json name
  CyberRuns,  \* numbers, by age: experiments of Engine A with a metrics.json
  Families,   \* engine_a.attack_families_by_dataset of the dataset
  MaxGeneric  \* syslog.max_generic_signals

ASSUME SignalsAssumption == CyberRuns \subseteq Nat /\ MaxGeneric \in Nat

-----------------------------------------------------------------------------
(* Signals out of artefacts. *)

Signal(engine, artefact, category, severity, device, iface, title) ==
  [id |-> <<engine, artefact, category, device, iface, title>>,
   engine |-> engine, labels |-> {category}, stype |-> None, severity |-> severity,
   device |-> device, iface |-> iface, count |-> 1, aggregate |-> FALSE,
   clockUnreliable |-> FALSE, band |-> None, entityConfident |-> TRUE]

ConfigFindingSignal(f) ==
  [Signal("engine_c", "findings", f.category, f.severity, f.device, f.iface, f.title)
     EXCEPT !.labels = @ \cup {f.rule}]

\* Severity names of topology warnings and of device cards are mapped.
TopologySignal(w) ==
  LET severity == CASE w.severity = "critical" -> 0 [] w.severity = "warning" -> 2 [] OTHER -> 4
  IN [Signal("engine_c", "topology", "topology", severity, w.device, w.iface, w.title)
        EXCEPT !.id[3] = <<@, w.category>>, !.labels = @ \cup {w.category}]

CardSignals(cards) ==
  {[Signal("engine_c", "cards", "device_health", IF c.status = "critical" THEN High ELSE 2, c.device, None, c.status)
      EXCEPT !.aggregate = TRUE] :
     c \in {c \in cards : c.status \in {"critical", "warning"}}}

ConfigSignalsOf(file, content) ==
  CASE file = "findings" -> {ConfigFindingSignal(f) : f \in content}
    [] file = "topology" -> {TopologySignal(w) : w \in content}
    [] file = "cards" -> CardSignals(content)

RatioSeverity(n, predicted) ==
  IF n = 0 THEN 4
  ELSE IF 100 * predicted >= 20 * n THEN 1
  ELSE IF 100 * predicted >= 5 * n THEN 2
  ELSE IF predicted > 0 THEN 3 ELSE 4

\* The newest experiment by its name; none if its metrics cannot be read.
HealthSignalsOf(experiments) ==
  LET latest == {e \in experiments : \A o \in experiments : o.name <= e.name}
  IN {[Signal("engine_b", e.name, "network_health", RatioSeverity(e.metrics.n, e.metrics.predicted), None, None, "aggregate")
         EXCEPT !.aggregate = TRUE, !.labels = @ \cup {"anomaly", "degradation"}] :
        e \in {e \in latest : e.metrics # Torn}}

\* What the registry names, the newest experiment where that is not on disk.
CyberExperiment ==
  LET picked == IF Registry.production # None THEN Registry.production ELSE Registry.best
  IN IF picked \in CyberRuns THEN picked
     ELSE IF CyberRuns = {} THEN None ELSE Max(CyberRuns)

CyberSignals ==
  {[Signal("engine_a", e, "intrusion", 2, None, None, "coverage")
      EXCEPT !.aggregate = TRUE, !.labels = @ \cup {"attack"} \cup Families] :
     e \in {CyberExperiment} \ {None}}

SourceTypes ==
  [r \in {"SYS-SNMP-AUTHFAIL", "SYS-PORT-FLAP", "SYS-MAC-FLAP", "SYS-ARP-FAST", "SYS-ERPS-CHURN",
          "SYS-POE-FAULT", "SYS-TELNET", "SYS-DEVICE"} |->
     CASE r = "SYS-SNMP-AUTHFAIL" -> "SNMP_AUTH_ACTIVITY"
       [] r = "SYS-PORT-FLAP" -> "PORT_FLAP"
       [] r = "SYS-MAC-FLAP" -> "MAC_FLAP"
       [] r = "SYS-ARP-FAST" -> "DUPLICATE_IP"
       [] r = "SYS-ERPS-CHURN" -> "ERPS_CHURN"
       [] r = "SYS-POE-FAULT" -> "POE_FAULT"
       [] r = "SYS-TELNET" -> "MANAGEMENT_ACCESS"
       [] r = "SYS-DEVICE" -> "HA_STATE_CHANGE"]
AggregateTypes == {"SNMP_AUTH_ACTIVITY", "HA_STATE_CHANGE", "GENERIC_WARNING", "CLOCK_UNRELIABLE"}

\* The band of confidence: an unreliable clock makes it low, an incomplete
\* identity takes the best band away.
Band(type, clockUnreliable, entityConfident) ==
  IF clockUnreliable \/ type \in {"GENERIC_WARNING", "CLOCK_UNRELIABLE"} THEN "low"
  ELSE IF type \in {"MAC_FLAP", "MANAGEMENT_ACCESS"} \/ ~entityConfident THEN "medium" ELSE "high"

SeverityNumber == [critical |-> 0, high |-> 1, medium |-> 2, low |-> 3, info |-> 4]

SyslogSignal(run, file, type, severity, device, iface, title, count) ==
  LET aggregate == type \in AggregateTypes
      confident == device # None /\ (aggregate \/ iface # None)
  IN [Signal("syslog", <<run, file>>, type, severity, device, iface, title)
        EXCEPT !.stype = type, !.count = count, !.aggregate = aggregate, !.entityConfident = confident,
               !.band = Band(type, FALSE, confident)]

FindingSignals(run, findings) ==
  {SyslogSignal(run, "findings", SourceTypes[f.rule], SeverityNumber[f.sev], f.device, f.iface, f.entity, f.count) :
     f \in findings}

\* One signal for the clocks of the run, on the first of its hosts.
ClockSignals(run, parsed) ==
  LET first == {h \in parsed.hosts : \A g \in parsed.hosts : NameRank[h] <= NameRank[g]}
  IN IF parsed.boot = 0 \/ "CLOCK_INTEGRITY_RISK" \in Disabled THEN {}
     ELSE {[SyslogSignal(run, "summary", "CLOCK_UNRELIABLE", 3, PickOne(first), None, "clock", parsed.boot)
              EXCEPT !.labels = @ \cup {"clock_unreliable"}, !.clockUnreliable = TRUE, !.band = "low"]}

\* Events no handler knows, by host and code, the most frequent ones.
GenericSignals(run, events) ==
  LET generic == {i \in DOMAIN events : events[i].status = "generic"}
      Key(e) == <<HostName(e), e.code>>
      groups == GroupsBy(events, generic, Key)
      Pos(I) == <<-WeightOf(events, I), NameRank[HostName(OneOf(events, I))], NameRank[OneOf(events, I).code]>>
      Ahead(J, I) == \E n \in 1..3 : Pos(J)[n] < Pos(I)[n] /\ \A m \in 1..(n - 1) : Pos(J)[m] = Pos(I)[m]
      kept == {I \in groups : Cardinality({J \in groups : Ahead(J, I)}) < MaxGeneric}
  IN {[SyslogSignal(run, "events", "GENERIC_WARNING", 4, HostName(OneOf(events, I)), None,
                    OneOf(events, I).code, WeightOf(events, I)) EXCEPT !.entityConfident = FALSE] : I \in kept}

SyslogSignalsOf(run, file, content) ==
  CASE file = "parser_summary" -> ClockSignals(run, content)
    [] file = "syslog_findings" -> FindingSignals(run, content)
    [] file = "parsed_events" -> GenericSignals(run, content)

=============================================================================
