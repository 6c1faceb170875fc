-------------------------- MODULE MCConfigWorkflow --------------------------
(***************************************************************************)
(* Instances of ConfigWorkflow for TLC: a switch of two ports, an uplink   *)
(* and an access port, in states that differ in what the rules look at.    *)
(***************************************************************************)
EXTENDS ConfigWorkflow, TLC

CONSTANTS m1, m2, m3

Port(mode, vlan, admin, linked, powered) ==
  [ mode |-> mode, vlan |-> vlan, admin |-> admin, linked |-> linked, powered |-> powered,
    held |-> "no" ]

Uplink(allowed) == [p \in {1} |-> [allowed |-> allowed, native |-> 10]]
Power(admin, draws) == [p \in {2} |-> [admin |-> admin, draws |-> draws]]
Neighbor == [port |-> 1, device |-> "core", remote |-> 1]

\* Nothing to find.
Healthy ==
  [ hostname |-> "edge",
    ports |-> (1 :> Port("trunk", None, "up", TRUE, FALSE)
               @@ 2 :> Port("access", 10, "up", TRUE, TRUE)),
    trunks |-> Uplink({10, 20}), power |-> Power("auto", TRUE),
    neighbors |-> {Neighbor}, macs |-> {<<m1, 2>>}, blocking |-> {} ]

\* A required VLAN is missing, another is not authorized, a port that should
\* power a device does not and has two addresses, one more than the rule allows,
\* and a cable joins the two ports of the switch, which has disabled one of them.
Miswired ==
  [Healthy EXCEPT !.ports[2].held = "err-disabled",
                  !.trunks = Uplink({10, 30}), !.power = Power("never", TRUE),
                  !.macs = {<<m1, 2>>, <<m2, 2>>},
                  !.neighbors = {[port |-> 1, device |-> "edge", remote |-> 2],
                                 [port |-> 2, device |-> "edge", remote |-> 1]}]

\* The powered device is gone; the port is up and without a link.
Unplugged ==
  [Healthy EXCEPT !.ports[2] = Port("access", 10, "up", FALSE, TRUE),
                  !.power = Power("auto", FALSE), !.macs = {}]

\* Everything that only an investigation can mend, after the neighbour is lost.
Disorder ==
  [Healthy EXCEPT !.ports[2] = Port("access", 30, "up", TRUE, FALSE),
                  !.neighbors = {},
                  !.macs = {<<m1, 1>>, <<m1, 2>>, <<m2, 2>>, <<m3, 2>>},
                  !.blocking = {<<2, 30>>}]

States == {Healthy, Miswired, Unplugged, Disorder}

SomeMissing == {Outputs, Outputs \ {"running_config", "power_inline", "trunk"}}
SomePhases == {{}, {"topology", "remediation"}}

Shipped == [confirm |-> TRUE, dryRun |-> TRUE, needRollback |-> TRUE, needVerification |-> TRUE]
ShippedOnly == {Shipped}
NoPairs == {}
AllRules == Rules
AllChecks == SafetyChecks
=============================================================================
