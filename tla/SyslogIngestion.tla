---------------------------- MODULE SyslogIngestion ----------------------------
(***************************************************************************)
(* The offline ingestion of saved switch logs as functions of the input:   *)
(* what src/syslog_ingestion makes of the lines of the files it is given.  *)
(*                                                                         *)
(* A cleaned line is a record.  Its shape says which of the patterns it    *)
(* matches; two lines are the same text exactly when the records are the   *)
(* same.  Times are minutes of one day, None where the date does not exist.*)
(***************************************************************************)
EXTENDS Artefacts, Sequences, FiniteSetsExt, SequencesExt

CONSTANTS
  FlapWarn, FlapHigh,    \* thresholds.port_flaps_per_hour_*
  MovesWarn, MovesHigh,  \* thresholds.mac_moves_*
  SnmpWarn, SnmpHigh,    \* thresholds.snmp_auth_fail_*_per_5min
  ErpsWarn,              \* thresholds.erps_events_warning_per_hour
  Window, ExtraWindows,  \* default_window_minutes, additional_window_minutes
  TrainPct, ValPct,      \* splitting.train_ratio, validation_ratio
  NameRank               \* the position of each name in the order of strings

ASSUME ThresholdsAssumption ==
  /\ {FlapWarn, FlapHigh, MovesWarn, MovesHigh, SnmpWarn, SnmpHigh, ErpsWarn} \subseteq Nat
  /\ FlapWarn <= FlapHigh /\ MovesWarn <= MovesHigh /\ SnmpWarn <= SnmpHigh
  /\ {Window} \cup ExtraWindows \subseteq Nat \ {0}
  /\ {TrainPct, ValPct} \subseteq 0..100 /\ TrainPct + ValPct <= 100

Total(f(_), S) == MapThenSumSet(f, S)

-----------------------------------------------------------------------------
(* Cleaning: noise is dropped, exact repeats within a file are collapsed. *)

Noise == {"empty", "putty_header", "logging_header", "logging_context", "logging_level",
          "command_echo", "bare_command", "no_syslog_marker"}
Malformed == {"no_timestamp", "no_host_code", "no_code"}

\* Mutant: only the line before is looked at for a repeat.
PreprocessNeighbours(file) ==
  LET kept == {i \in DOMAIN file : file[i].shape \notin Noise /\ (i > 1 => file[i - 1] # file[i])}
      inOrder == SetToSortSeq(kept, <)
  IN [n \in DOMAIN inOrder |->
        [line |-> file[inOrder[n]],
         weight |-> Cardinality({j \in DOMAIN file : file[j] = file[inOrder[n]]})]]

\* The kept lines of one file in the order of their first occurrence, each
\* with the number of times it stands in the file.
Preprocess(file) ==
  LET kept == {i \in DOMAIN file : file[i].shape \notin Noise /\ \A j \in 1..(i - 1) : file[j] # file[i]}
      inOrder == SetToSortSeq(kept, <)
  IN [n \in DOMAIN inOrder |->
        [line |-> file[inOrder[n]],
         weight |-> Cardinality({j \in DOMAIN file : file[j] = file[inOrder[n]]})]]

Dropped(file) == {i \in DOMAIN file : file[i].shape \in Noise}

-----------------------------------------------------------------------------
(* Parsing: the code of a line selects what is extracted from it. *)

LinkUp == {"LINEPROTO_UP", "INTERFACE_UP"}
LinkDown == {"LINEPROTO_DOWN", "INTERFACE_DOWN"}

Handled == LinkUp \cup LinkDown \cup
  {"MAC_ADDR_FLAPPING_VLAN", "MAC_CHANGE_TOO_FAST", "COMMUNITY_AUTHOR_FAILED", "USER_AUTH_FAILED",
   "POWER_ABNORMAL", "POWER_ON", "POWER_OFF", "RING_STAT_CHG", "RING_PORT_BLK", "PWR", "FAN",
   "UNIT_STATE_NORMAL", "DEV_CLOCK_CHANGE", "PROCESS", "LOGIN", "WEB_LOGIN"}

\* The tags a handler gives; bad says that the message names a short circuit or
\* none of the words normal, inserted and online.
TagsOf(code, bad) ==
  CASE code \in LinkUp -> {"port_flap", "link_state", "link_up"}
    [] code \in LinkDown -> {"port_flap", "link_state", "link_down"}
    [] code = "MAC_ADDR_FLAPPING_VLAN" -> {"mac_flap", "loop_risk"}
    [] code = "MAC_CHANGE_TOO_FAST" -> {"arp_instability", "duplicate_ip_possible"}
    [] code = "COMMUNITY_AUTHOR_FAILED" -> {"snmp_auth_failed", "recon_possible"}
    [] code = "USER_AUTH_FAILED" -> {"snmp_user_auth_failed", "management_auth_failed"}
    [] code = "POWER_ABNORMAL" -> {"poe_fault"} \cup (IF bad THEN {"short_detected"} ELSE {})
    [] code \in {"POWER_ON", "POWER_OFF"} -> {"poe_power_churn"}
    [] code \in {"RING_STAT_CHG", "RING_PORT_BLK"} -> {"erps_churn", "topology_instability"}
    [] code = "PWR" -> {"device_health"} \cup (IF bad THEN {"power_fault"} ELSE {})
    [] code = "FAN" -> {"device_health"} \cup (IF bad THEN {"fan_fault"} ELSE {})
    [] code \in {"UNIT_STATE_NORMAL", "PROCESS"} -> {"device_health", "reboot"}
    [] code = "DEV_CLOCK_CHANGE" -> {"device_health", "clock_change"}
    [] code = "LOGIN" -> {"management_access", "insecure_telnet"}
    [] code = "WEB_LOGIN" -> {"management_access"}
    [] OTHER -> {}

\* The entities without which an event counts as partially parsed only.
Needs(code) ==
  CASE code \in LinkUp \cup LinkDown \cup {"POWER_ABNORMAL", "POWER_ON", "POWER_OFF"} -> {"iface"}
    [] code = "MAC_ADDR_FLAPPING_VLAN" -> {"entity", "vlan"}
    [] code \in Handled \ {"UNIT_STATE_NORMAL", "DEV_CLOCK_CHANGE", "LOGIN", "WEB_LOGIN"} -> {"entity"}
    [] OTHER -> {}

\* entity is the MAC or IP address, the community or user, the ring, the power
\* or fan unit or the process: each code names one of them at most.
ParseLine(kept) ==
  LET c == kept.line
      failed == c.shape \in Malformed
      handled == ~failed /\ c.code \in Handled
  IN [status |-> IF failed THEN "failed"
                 ELSE IF ~handled THEN "generic"
                 ELSE IF \A field \in Needs(c.code) : c[field] # None THEN "parsed"
                 ELSE "partially_parsed",
      at |-> IF failed THEN None ELSE c.at,
      boot |-> ~failed /\ c.boot /\ c.at # None,
      host |-> IF failed THEN None ELSE c.host,
      code |-> IF failed THEN None ELSE c.code,
      tags |-> IF handled THEN TagsOf(c.code, c.bad) ELSE {},
      iface |-> IF handled THEN c.iface ELSE None,
      vlan |-> IF handled THEN c.vlan ELSE None,
      entity |-> IF handled THEN c.entity ELSE None,
      moves |-> IF handled THEN c.moves ELSE 0,
      weight |-> kept.weight]

\* The files one after the other.
ParseFiles(files) ==
  FlattenSeq([f \in DOMAIN files |->
    LET kept == Preprocess(files[f]) IN [n \in DOMAIN kept |-> ParseLine(kept[n])]])

-----------------------------------------------------------------------------
(* Engine B: windows of a host and of its interfaces. *)

FloorToBin(at, minutes) == (at \div minutes) * minutes

\* An event of a boot clock (a date before 2000) carries no usable time.
Eligible(e, dropBoot) == e.status # "failed" /\ e.at # None /\ (dropBoot => ~e.boot)
HostName(e) == IF e.host = None THEN "unknown" ELSE e.host

WeightOf(events, I) == LET w(i) == events[i].weight IN Total(w, I)
Tagged(events, I, tags) == {i \in I : events[i].tags \cap tags # {}}

\* Links are recognised by their code too, those of a family without a handler
\* included.
LinkEvents(events, I) ==
  Tagged(events, I, {"link_state"}) \cup {i \in I : events[i].code = "FOREIGN_LINEPROTO"}

Row(events, I, key) ==
  LET moves(i) == events[i].moves
      weigh(tags) == WeightOf(events, Tagged(events, I, tags))
  IN [scope |-> key.scope, host |-> key.host, iface |-> key.iface, start |-> key.start, size |-> key.size,
      total |-> Cardinality(I), weighted |-> WeightOf(events, I),
      flaps |-> WeightOf(events, LinkEvents(events, I)),
      macMoves |-> Total(moves, Tagged(events, I, {"mac_flap"})),
      erps |-> weigh({"erps_churn"}), poe |-> weigh({"poe_fault"}),
      snmp |-> weigh({"snmp_auth_failed", "snmp_user_auth_failed"}),
      instability |-> weigh({"reboot", "clock_change"}) + weigh({"power_fault"}) + weigh({"fan_fault"})]

BuildWindows(events, minutes, dropBoot) ==
  LET I == {i \in DOMAIN events : Eligible(events[i], dropBoot)}
      HostKey(i) == [scope |-> "host", host |-> HostName(events[i]), iface |-> None,
                     start |-> FloorToBin(events[i].at, minutes), size |-> minutes]
      IfaceKey(i) == [HostKey(i) EXCEPT !.scope = "interface", !.iface = events[i].iface]
      named == {i \in I : events[i].iface # None}
  IN {Row(events, {i \in I : HostKey(i) = k}, k) : k \in {HostKey(i) : i \in I}} \cup
     {Row(events, {i \in named : IfaceKey(i) = k}, k) : k \in {IfaceKey(i) : i \in named}}

Level(value, warning, high) == IF value >= high THEN "high" ELSE IF value >= warning THEN "warning" ELSE "none"

\* Rates are compared without division: n per window against a rate per span.
Labels(row) ==
  {l \in {"degradation", "loop_risk", "snmp_attack", "device_instability", "poe_fault", "erps_churn"} :
     \/ l = "degradation" /\ Level(row.flaps * 60, FlapWarn * row.size, FlapHigh * row.size) # "none"
     \/ l = "loop_risk" /\ Level(row.macMoves, MovesWarn, MovesHigh) # "none"
     \/ l = "snmp_attack" /\ Level(row.snmp * 5, SnmpWarn * row.size, SnmpHigh * row.size) # "none"
     \/ l = "device_instability" /\ row.instability >= 1
     \/ l = "poe_fault" /\ row.poe > 0
     \/ l = "erps_churn" /\ row.erps * 60 >= ErpsWarn * row.size}

\* weak_label_summary.json: how many windows each label holds in.
WeakLabels(rows) ==
  [l \in UNION {Labels(r) : r \in rows} |-> Cardinality({r \in rows : l \in Labels(r)})]

\* The chronological order of the rows, ties by host, scope and interface.
Before(a, b) ==
  LET Pos(r) == <<r.start, NameRank[r.host], IF r.scope = "host" THEN 0 ELSE 1,
                  IF r.iface = None THEN 0 ELSE NameRank[r.iface]>>
  IN \E n \in 1..4 : Pos(a)[n] < Pos(b)[n] /\ \A m \in 1..(n - 1) : Pos(a)[m] = Pos(b)[m]

\* The split of each row.  A host that is held out is the whole test split.
ChronologicalSplit(rows, holdout) ==
  LET rest == {r \in rows : r.host # holdout}
      nTrain == (Cardinality(rest) * TrainPct) \div 100
      nVal == IF holdout # None THEN Cardinality(rest) - nTrain ELSE (Cardinality(rest) * ValPct) \div 100
      Rank(r) == Cardinality({s \in rest : Before(s, r)})
  IN [r \in rows |-> IF r.host = holdout THEN "test"
                     ELSE IF Rank(r) < nTrain THEN "train"
                     ELSE IF Rank(r) < nTrain + nVal THEN "validation"
                     ELSE "test"]

-----------------------------------------------------------------------------
(* Engine C: findings.  They look at every event, whatever its clock. *)

Finding(rule, sev, device, iface, entity, count) ==
  [rule |-> rule, sev |-> sev, device |-> device, iface |-> iface, entity |-> entity, count |-> count]

\* The largest weight of one clock bin; bins do not slide.
PeakPerBin(events, I, minutes) ==
  LET timed == {i \in I : events[i].at # None}
      Bin(b) == {i \in timed : FloorToBin(events[i].at, minutes) = b}
  IN Max({0} \cup {WeightOf(events, Bin(FloorToBin(events[i].at, minutes))) : i \in timed})

\* Mutant: a threshold that is met is not passed.
GradedAbove(value, warn, high) ==
  IF value > high THEN {"high"} ELSE IF value > warn THEN {"medium"} ELSE {}

Graded(value, warn, high) ==
  IF value >= high THEN {"high"} ELSE IF value >= warn THEN {"medium"} ELSE {}

\* The events with one of the tags, in groups that agree on the fields.
GroupsBy(events, I, Key(_)) == {{i \in I : Key(events[i]) = k} : k \in {Key(events[i]) : i \in I}}
OneOf(events, I) == events[PickOne(I)]
LastOf(events, I) == events[Max(I)]

PortFlapFindings(events) ==
  LET Key(e) == <<e.host, e.iface>>
      flaps == {i \in Tagged(events, DOMAIN events, {"port_flap"}) : events[i].iface # None}
  IN {Finding("SYS-PORT-FLAP", g.sev, OneOf(events, g.I).host, OneOf(events, g.I).iface, None,
              WeightOf(events, g.I)) :
        g \in UNION {[I : {I}, sev : Graded(PeakPerBin(events, I, 60), FlapWarn, FlapHigh)] :
                       I \in GroupsBy(events, flaps, Key)}}

MacFlapFindings(events) ==
  LET Key(e) == <<e.host, e.entity, e.vlan>>
      Moves(I) == Max({events[i].moves : i \in I})
      Severity(I) == IF Moves(I) >= MovesHigh
                     THEN IF Cardinality(I) > 1 THEN "critical" ELSE "high"
                     ELSE "medium"
  IN {Finding("SYS-MAC-FLAP", Severity(I), OneOf(events, I).host, LastOf(events, I).iface,
              <<OneOf(events, I).entity, OneOf(events, I).vlan>>, WeightOf(events, I)) :
        I \in {I \in GroupsBy(events, Tagged(events, DOMAIN events, {"mac_flap"}), Key) : Moves(I) >= MovesWarn}}

SnmpFindings(events) ==
  LET insecure(I) == \E i \in Tagged(events, I, {"snmp_auth_failed"}) : events[i].entity \in {"public", "private"}
      Severity(I) == LET graded == Graded(PeakPerBin(events, I, 5), SnmpWarn, SnmpHigh)
                     IN IF graded # {} THEN PickOne(graded) ELSE IF insecure(I) THEN "medium" ELSE "low"
  IN {Finding("SYS-SNMP-AUTHFAIL", Severity(I), HostName(OneOf(events, I)), None, None, WeightOf(events, I)) :
        I \in GroupsBy(events, Tagged(events, DOMAIN events, {"snmp_auth_failed", "snmp_user_auth_failed"}), HostName)}

ArpFindings(events) ==
  LET Key(e) == <<e.host, e.entity>>
  IN {Finding("SYS-ARP-FAST", IF WeightOf(events, I) >= 5 THEN "high" ELSE "medium",
              OneOf(events, I).host, None, OneOf(events, I).entity, WeightOf(events, I)) :
        I \in GroupsBy(events, Tagged(events, DOMAIN events, {"arp_instability"}), Key)}

PoeFindings(events) ==
  LET Key(e) == <<e.host, e.iface>>
  IN {Finding("SYS-POE-FAULT", "high", OneOf(events, I).host, OneOf(events, I).iface, None, WeightOf(events, I)) :
        I \in GroupsBy(events, Tagged(events, DOMAIN events, {"poe_fault"}), Key)}

ErpsFindings(events) ==
  LET Key(e) == <<e.host, e.entity>>
  IN {Finding("SYS-ERPS-CHURN", g.sev, OneOf(events, g.I).host, None, OneOf(events, g.I).entity,
              WeightOf(events, g.I)) :
        g \in UNION {[I : {I}, sev : Graded(PeakPerBin(events, I, 60), ErpsWarn, 2 * ErpsWarn)] :
                       I \in GroupsBy(events, Tagged(events, DOMAIN events, {"erps_churn"}), Key)}}

TelnetFindings(events) ==
  {Finding("SYS-TELNET", "medium", HostName(OneOf(events, I)), None, None, WeightOf(events, I)) :
     I \in GroupsBy(events, Tagged(events, DOMAIN events, {"insecure_telnet"}), HostName)}

DeviceFindings(events) ==
  LET faults == {"power_fault", "fan_fault"}
  IN {Finding("SYS-DEVICE", IF Tagged(events, I, faults) # {} THEN "high" ELSE "medium",
              HostName(OneOf(events, I)), None, None, WeightOf(events, I)) :
        I \in GroupsBy(events, Tagged(events, DOMAIN events, faults \cup {"reboot", "clock_change"}), HostName)}

GenerateFindings(events) ==
  PortFlapFindings(events) \cup MacFlapFindings(events) \cup SnmpFindings(events) \cup ArpFindings(events)
    \cup PoeFindings(events) \cup ErpsFindings(events) \cup TelnetFindings(events) \cup DeviceFindings(events)

-----------------------------------------------------------------------------
(* One run: ingest and the summary of it. *)

Ingest(files, keepBoot, holdout) ==
  LET events == ParseFiles(files)
      rows == BuildWindows(events, Window, ~keepBoot)
  IN [events |-> events,
      rows |-> rows,
      extra |-> [m \in ExtraWindows |-> BuildWindows(events, m, ~keepBoot)],
      split |-> ChronologicalSplit(rows, holdout),
      findings |-> GenerateFindings(events)]

ParserSummary(run) ==
  LET I == DOMAIN run.events
      OfStatus(s) == Cardinality({i \in I : run.events[i].status = s})
  IN [parsed |-> Len(run.events), weighted |-> WeightOf(run.events, I),
      generic |-> OfStatus("generic"), failed |-> OfStatus("failed"),
      hosts |-> {run.events[i].host : i \in I} \ {None},
      boot |-> Cardinality({i \in I : run.events[i].boot})]

=============================================================================
