------------------------------- MODULE MCEvidence -------------------------------
(***************************************************************************)
(* Small logs, artefacts and command lines to check Evidence with.         *)
(***************************************************************************)
EXTENDS Evidence

Blank == [shape |-> "event", at |-> None, boot |-> FALSE, host |-> "a", code |-> "OTHER",
          iface |-> None, vlan |-> None, entity |-> None, moves |-> 0, bad |-> FALSE]
Link(code, host, iface, at) == [Blank EXCEPT !.code = code, !.host = host, !.iface = iface, !.at = at]
Snmp(code, who, at) == [Blank EXCEPT !.code = code, !.entity = who, !.at = at]
Login(host, at) == [Blank EXCEPT !.code = "LOGIN", !.host = host, !.at = at]
Moves(iface, n, at) ==
  [Blank EXCEPT !.code = "MAC_ADDR_FLAPPING_VLAN", !.entity = "m1", !.vlan = 10, !.iface = iface, !.moves = n, !.at = at]
AtBoot(line) == [line EXCEPT !.boot = TRUE]
Noise1 == [Blank EXCEPT !.shape = "putty_header", !.host = None]
Broken == [Blank EXCEPT !.shape = "no_code", !.at = 5]

MCNameRank == [n \in {"a", "b", "p1", "p1/long", "p2", "unknown", "OTHER", "FOREIGN_LINEPROTO", "LOGIN"} |->
  CASE n = "a" -> 1 [] n = "b" -> 2 [] n = "unknown" -> 3 [] n = "p1" -> 4 [] n = "p1/long" -> 5 [] n = "p2" -> 6
    [] n = "FOREIGN_LINEPROTO" -> 7 [] n = "LOGIN" -> 8 [] n = "OTHER" -> 9]
MCNormalName == [n \in {"p1", "p1/long", "p2"} |-> IF n = "p2" THEN "p2" ELSE "p1"]

\* A storm across the hour; a campaign with repeats, a boot clock and lines
\* nobody understands; a loop seen by two devices' logs, a short circuit and
\* the same interface name on another device.
Storm == << <<Link("INTERFACE_DOWN", "a", "p1", 59), Link("INTERFACE_UP", "a", "p1", 60), Noise1,
              Link("INTERFACE_DOWN", "a", "p1", 61), Login("a", 61), [Blank EXCEPT !.at = 62]>>,
            <<Link("INTERFACE_DOWN", "b", "p2", 10), Link("FOREIGN_LINEPROTO", "b", "p2", 75)>> >>
Campaign == << <<Snmp("COMMUNITY_AUTHOR_FAILED", "public", 3), Snmp("USER_AUTH_FAILED", "u", 4), Broken,
                 Snmp("COMMUNITY_AUTHOR_FAILED", "public", 3), AtBoot(Login("b", 1)),
                 [Login("a", 90) EXCEPT !.host = None]>> >>
Loop == << <<Moves("p1", 1, 2), Moves("p1", 5, 40), [Blank EXCEPT !.code = "RING_STAT_CHG", !.entity = "r1", !.at = 20],
             [Blank EXCEPT !.code = "POWER_ABNORMAL", !.iface = "p2", !.bad = TRUE, !.at = 30],
             [Blank EXCEPT !.code = "FAN", !.entity = "f1", !.bad = TRUE, !.at = 31],
             [Blank EXCEPT !.code = "MAC_CHANGE_TOO_FAST", !.entity = "i1", !.host = "b", !.at = 33]>>,
           <<Link("LINEPROTO_DOWN", "b", "p2", 50), Link("LINEPROTO_UP", "b", "p2", 51)>> >>
MCInputs == {Storm, Campaign, Loop}

Raw(rule, category, severity, device, iface) ==
  [rule |-> rule, category |-> category, severity |-> severity, device |-> device, iface |-> iface, title |-> rule]
Whole ==
  [findings |-> {Raw("PORT_ERRORS", "port", 1, "a", "p1/long"), Raw("STP_DISABLED", "stp", 0, "b", None),
                 Raw("WRONG_ACCESS_VLAN", "vlan", 1, None, None)},
   topology |-> {[severity |-> "warning", category |-> "loop_risk", device |-> "a", iface |-> None, title |-> "t"]},
   cards |-> {[device |-> "a", status |-> "critical"], [device |-> "b", status |-> "ok"]}]
MCSnapshots == {Whole, [Whole EXCEPT !.topology = Torn, !.cards = None]}

All == {"engine_a", "engine_b", "engine_c"}
MCCommands == {
  [engines |-> All, syslogRun |-> "latest", requireSyslog |-> FALSE, skipSyslog |-> FALSE, strict |-> FALSE],
  [engines |-> {"engine_c"}, syslogRun |-> "r1", requireSyslog |-> TRUE, skipSyslog |-> FALSE, strict |-> TRUE]}
MCIngestions == {
  [run |-> "r1", keepBoot |-> FALSE, holdout |-> None],
  [run |-> "r2", keepBoot |-> TRUE, holdout |-> "b"]}
MCRegistry == [production |-> 3, best |-> 1]
MCHealthRuns == {[name |-> 1, metrics |-> [n |-> 10, predicted |-> 0]], [name |-> 2, metrics |-> [n |-> 10, predicted |-> 3]]}
MCFamilies == {"dos", "probe"}
MCBoosts == [r \in Rules |-> IF r \in {"DOS_SATURATION", "VLAN_POLICY_RISK", "SYSLOG_SNMP_AUTH_CAMPAIGN", "PORT_INSTABILITY"}
                             THEN 1 ELSE 0]

=============================================================================
