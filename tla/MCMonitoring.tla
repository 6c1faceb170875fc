------------------------------ MODULE MCMonitoring ------------------------------
(***************************************************************************)
(* A switch of two ports in three states, directories its analyses may     *)
(* leave, and small sets of incidents and command lines for Monitoring.    *)
(***************************************************************************)
EXTENDS Monitoring

Port(mode, vlan, admin, linked, powered) ==
  [ mode |-> mode, vlan |-> vlan, admin |-> admin, linked |-> linked, powered |-> powered,
    held |-> "no" ]
Healthy ==
  [ hostname |-> "edge",
    ports |-> (1 :> Port("trunk", None, "up", TRUE, FALSE) @@ 2 :> Port("access", 10, "up", TRUE, TRUE)),
    trunks |-> (1 :> [allowed |-> {10, 20}, native |-> 10]),
    power |-> (2 :> [admin |-> "auto", draws |-> TRUE]),
    neighbors |-> {[port |-> 1, device |-> "core", remote |-> 1]}, macs |-> {<<"m1", 2>>}, blocking |-> {} ]
\* A required VLAN is missing, a port does not power its device.
Miswired == [Healthy EXCEPT !.trunks = (1 :> [allowed |-> {10}, native |-> 10]),
                            !.power = (2 :> [admin |-> "never", draws |-> TRUE])]
\* The neighbour is gone, two addresses move, an access port blocks.
Disorder == [Healthy EXCEPT !.neighbors = {}, !.macs = {"m1", "m2"} \X {1, 2}, !.blocking = {<<2, 10>>},
                            !.trunks = (1 :> [allowed |-> {10}, native |-> 10])]
\* The access port has lost its link.
Unplugged == [Healthy EXCEPT !.ports[2] = Port("access", 10, "up", FALSE, FALSE), !.macs = {}]

Shipped == [confirm |-> TRUE, dryRun |-> TRUE, needRollback |-> TRUE, needVerification |-> TRUE]
Analysed(switch) ==
  LET inv == Inventory([switch |-> switch, saved |-> Outputs], "s")
      findings == Findings(inv, Topology(inv))
      plan == Plan(findings, Shipped)
  IN [inventory |-> inv, topology |-> Topology(inv), findings |-> findings, plan |-> plan, audit |-> Records(plan)]

\* Complete; interrupted before there was a plan; with the plan of an earlier
\* analysis and a topology half-written; unusable, and so never exported.
MCDirectories ==
  {Analysed(Miswired),
   [Analysed(Disorder) EXCEPT !.plan = None, !.audit = None],
   [Analysed(Unplugged) EXCEPT !.plan = Analysed(Healthy).plan, !.topology = Torn],
   [Analysed(Healthy) EXCEPT !.inventory = Torn]}

\* Compared with a change that did not mend the VLANs and made it worse.
Compared ==
  LET b == Analysed(Miswired)
      a == Analysed([Miswired EXCEPT !.trunks = (1 :> [allowed |-> {10, 30}, native |-> 10]),
                                     !.power = (2 :> [admin |-> "auto", draws |-> TRUE])])
  IN [diff |-> Diff(b.inventory, a.inventory, b.topology, a.topology, b.findings, a.findings),
      verification |-> Verification(b.plan, a.inventory, b.findings, a.findings)]
MCComparisons == {None, Compared}

\* As configs/network_rules.yaml has it, with one rule raised to critical.
MCRuleMeta ==
  [r \in Rules |->
     [severity |-> CASE r = "TRUNK_MISSING_REQUIRED_VLAN" -> "critical"
                     [] r \in {"ACCESS_PORT_DISALLOWED_VLAN", "POE_DISABLED_EXPECTED"} -> "high"
                     [] r = "UNUSED_PORT_ADMIN_UP" -> "low" [] OTHER -> "medium",
      confidence |-> CASE r \in {"MAC_ON_MULTIPLE_INTERFACES", "UNUSED_PORT_ADMIN_UP"} -> "low"
                       [] r \in {"NATIVE_VLAN_MISMATCH", "ACCESS_PORT_TOO_MANY_MACS", "POE_DISABLED_EXPECTED",
                                 "TRUNK_WITHOUT_NEIGHBOR"} -> "medium"
                       [] OTHER -> "high",
      category |-> CASE r \in {"STP_BLOCKING_ACCESS_PORT", "MAC_ON_MULTIPLE_INTERFACES"} -> "stp"
                     [] r = "TRUNK_WITHOUT_NEIGHBOR" -> "topology" [] r = "POE_DISABLED_EXPECTED" -> "poe"
                     [] r \in {"UNUSED_PORT_ADMIN_UP", "ACCESS_PORT_TOO_MANY_MACS"} -> "port" [] OTHER -> "vlan"]]

Incident(id, severity, device, syslog) == [id |-> id, severity |-> severity, device |-> device, syslog |-> syslog]
MCIncidentSets == {{Incident("i1", "high", "edge", TRUE), Incident("i2", "low", None, FALSE)}}

MCOptions == {[id |-> 1, loop |-> TRUE, cap |-> None], [id |-> 2, loop |-> FALSE, cap |-> 5]}

MCHealthTests == [d \in {"synthetic"} |-> [n |-> 1000, predicted |-> 55]]
MCSyslogRun == [findings |-> {[rule |-> "SYS-TELNET", category |-> "security", severity |-> "low", device |-> "a", last |-> 0]},
                labels |-> [l \in {"port_instability"} |-> 0],
                boot |-> 2, last |-> 3]
NoPairs == {}
AllRules == Rules
AllChecks == SafetyChecks

=============================================================================
