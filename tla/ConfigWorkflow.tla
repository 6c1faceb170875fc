--------------------------- MODULE ConfigWorkflow ---------------------------
(***************************************************************************)
(* Engine C as an operator uses it: outputs of a switch are saved into two *)
(* snapshot directories, analyzed, their plans dry-run and, outside the    *)
(* engine, perhaps applied; then the two snapshots are compared.           *)
(*                                                                         *)
(* The commands are run one after the other, so each is a single step that *)
(* may die after any prefix of its files, or in the next one: Torn.        *)
(* Every file remembers in "of" what it was computed from; no command      *)
(* reads that.                                                             *)
(***************************************************************************)
EXTENDS ConfigAnalysis, Sequences

CONSTANTS
  Networks,     \* the states that changes outside the engine bring the switch to
  Savings,      \* the sets of outputs that may be saved together
  Skips,        \* phases that may be switched off together
  Configs,      \* configurations of the remediation phase
  MaxChanges,   \* bound on changes of the switch
  MaxCommands,  \* bound on runs of the engine's commands
  MaxLapses     \* bound on commands that die or leave out a phase

Phases == {"topology", "rules", "remediation"}

ASSUME WorkflowAssumption ==
  /\ Networks \subseteq Switches
  /\ Savings \subseteq SUBSET Outputs /\ Skips \subseteq SUBSET Phases
  /\ Configs \subseteq RemediationConfigs
  /\ {MaxChanges, MaxCommands, MaxLapses} \subseteq Nat

VARIABLES
  network,   \* the switch
  captured,  \* input directory of each snapshot
  files,     \* output directory of each snapshot
  compared,  \* the directory diffs/before__to__after
  spent      \* changes, commands and lapses so far
vars == <<network, captured, files, compared, spent>>

Snapshots == {"before", "after"}
SnapshotFiles == {"inventory", "topology", "findings", "plan", "audit", "execution"}
ComparedFiles == {"diff", "verification"}

Init ==
  /\ network \in Networks
  /\ captured = [s \in Snapshots |-> None]
  /\ files = [s \in Snapshots |-> [f \in SnapshotFiles |-> None]]
  /\ compared = [f \in ComparedFiles |-> None]
  /\ spent = [changes |-> 0, commands |-> 0, lapses |-> 0]

\* What a reader gets of a file: nothing if it is missing or does not parse.
Read(file) == IF file \in {None, Torn} THEN None ELSE file.data
Origin(file) == IF file \in {None, Torn} THEN None ELSE file.of

\* How far a command gets in a list of files, and whether it dies inside the next.
Endings(list) ==
  {e \in [written : 0 .. Len(list), torn : BOOLEAN] : e.torn => e.written < Len(list)}

\* A directory after a command that ended so.
Written(directory, list, content, end) ==
  [f \in DOMAIN directory |->
     IF \E i \in 1 .. end.written : list[i] = f THEN content[f]
     ELSE IF end.torn /\ list[end.written + 1] = f THEN Torn
     ELSE directory[f]]

\* A command writes its files, or dies within or between them.
Command(list, end, skip) ==
  LET lapse == end.written < Len(list) \/ skip # {} IN
  /\ spent.commands < MaxCommands
  /\ lapse => spent.lapses < MaxLapses
  /\ spent' = [spent EXCEPT !.commands = @ + 1, !.lapses = IF lapse THEN @ + 1 ELSE @]

-----------------------------------------------------------------------------
(* The switch.  None of these steps is the engine's. *)

Change ==
  /\ spent.changes < MaxChanges
  /\ network' \in Networks \ {network}
  /\ spent' = [spent EXCEPT !.changes = @ + 1]
  /\ UNCHANGED <<captured, files, compared>>

\* The tables of a switch after commands on one of its ports.
Verb(verb, commands) == {v \in Vlans : <<verb, v>> \in commands}

TrunksAfter(switch, p, commands) ==
  [q \in DOMAIN switch.trunks |->
     IF q = p
       THEN [ allowed |-> (switch.trunks[q].allowed \cup Verb("vlan_add", commands))
                          \ Verb("vlan_remove", commands),
              native |-> switch.trunks[q].native ]
     ELSE switch.trunks[q]]

PortsAfter(switch, p, commands) ==
  [q \in DOMAIN switch.ports |->
     IF q = p /\ <<"shutdown", 0>> \in commands
       THEN [switch.ports[q] EXCEPT !.admin = "down"]
     ELSE IF q = p /\ <<"no_shutdown", 0>> \in commands
       THEN [switch.ports[q] EXCEPT !.admin = "up"]
     ELSE switch.ports[q]]

PowerAfter(switch, p, commands) ==
  [q \in DOMAIN switch.power |->
     IF q = p /\ <<"poe_auto", 0>> \in commands
       THEN [switch.power[q] EXCEPT !.admin = "auto"]
     ELSE IF q = p /\ <<"poe_never", 0>> \in commands
       THEN [switch.power[q] EXCEPT !.admin = "never"]
     ELSE switch.power[q]]

Applied(switch, p, commands) ==
  [ switch EXCEPT !.trunks = TrunksAfter(switch, p, commands),
                  !.ports = PortsAfter(switch, p, commands),
                  !.power = PowerAfter(switch, p, commands) ]

\* Actions that an operator may take to the switch after a dry run.
Validations(file) ==
  {r.action : r \in {x \in IF Read(file) = None THEN {} ELSE Read(file) :
                       x.status = "validated" /\ x.action.commands # {}}}

\* An operator types in one validated action of the first snapshot.
Apply ==
  /\ spent.changes < MaxChanges
  /\ \E a \in Validations(files["before"]["execution"]) :
       network' = Applied(network, a.interface, a.commands)
  /\ spent' = [spent EXCEPT !.changes = @ + 1]
  /\ UNCHANGED <<captured, files, compared>>

Capture(s) ==
  /\ \E outputs \in Savings :
       captured' = [captured EXCEPT ![s] = [switch |-> network, saved |-> outputs]]
  /\ UNCHANGED <<network, files, compared, spent>>

-----------------------------------------------------------------------------
(* The engine's commands. *)

\* The files of an analysis; the rules need no topology, a plan needs findings.
Artifacts(skip) ==
  <<"inventory">>
  \o (IF "topology" \in skip THEN <<>> ELSE <<"topology">>)
  \o (IF "rules" \in skip THEN <<>> ELSE <<"findings">>)
  \o (IF skip \cap {"rules", "remediation"} # {} THEN <<>> ELSE <<"plan">>)

Analysis(s, skip, config) ==
  LET inventory == Inventory(captured[s], s)
      topology == IF "topology" \in skip THEN None ELSE Topology(inventory)
      findings == Findings(inventory, topology)
      Of(data) == [of |-> [capture |-> captured[s], skip |-> skip], data |-> data] IN
  [ inventory |-> Of(inventory), topology |-> Of(topology),
    findings |-> Of(findings), plan |-> Of(Plan(findings, config)) ]

\* The files of phases that are switched off stay as they are.
Analyze(s) ==
  /\ captured[s] # None
  /\ \E skip \in Skips, config \in Configs :
     LET list == Artifacts(skip) IN
     \E end \in Endings(list) :
       /\ Command(list, end, skip)
       /\ files' = [files EXCEPT ![s] = Written(@, list, Analysis(s, skip, config), end)]
  /\ UNCHANGED <<network, captured, compared>>

DryRun(s) ==
  LET plan == files[s]["plan"]
      records == [of |-> Origin(plan), data |-> Records(Read(plan))]
      list == <<"audit", "execution">> IN
  /\ Read(plan) # None
  /\ \E end \in Endings(list) :
       /\ Command(list, end, {})
       /\ files' = [files EXCEPT ![s] =
                      Written(@, list, [f \in {"audit", "execution"} |-> records], end)]
  /\ UNCHANGED <<network, captured, compared>>

\* An inventory is required on both sides, the other files are optional.
Comparison ==
  LET Data(s, f) == Read(files[s][f])
      of == [s \in Snapshots |->
               [f \in {"inventory", "topology", "findings", "plan"} |-> Origin(files[s][f])]]
      diff == Diff(Data("before", "inventory"), Data("after", "inventory"),
                   Data("before", "topology"), Data("after", "topology"),
                   Data("before", "findings"), Data("after", "findings"))
      verification == Verification(Data("before", "plan"), Data("after", "inventory"),
                                   Data("before", "findings"), Data("after", "findings")) IN
  [diff |-> [of |-> of, data |-> diff], verification |-> [of |-> of, data |-> verification]]

Compare ==
  /\ \A s \in Snapshots : Read(files[s]["inventory"]) # None
  /\ LET list == <<"diff", "verification">> IN
     \E end \in Endings(list) :
       /\ Command(list, end, {})
       /\ compared' = Written(compared, list, Comparison, end)
  /\ UNCHANGED <<network, captured, files>>

Next ==
  \/ Change \/ Apply \/ Compare
  \/ \E s \in Snapshots : Capture(s) \/ Analyze(s) \/ DryRun(s)

Spec == Init /\ [][Next]_vars

-----------------------------------------------------------------------------
(* Properties. *)

\* The state keeps its shape: a switch has a port table for every port, and a
\* file is missing, torn, or complete (artifacts.py, diff_artifacts.py).
WorkflowTypeOK ==
  /\ network \in Switches
  /\ \A s \in Snapshots :
       /\ captured[s] # None => captured[s] \in Captures /\ captured[s].saved \in Savings
       /\ \A f \in SnapshotFiles :
            \/ files[s][f] \in {None, Torn}
            \/ files[s][f].data # None /\ files[s][f].of.skip \in Skips
  /\ \A f \in ComparedFiles :
       compared[f] \in {None, Torn}
       \/ \A s \in Snapshots : compared[f].of[s]["inventory"] # None
  /\ spent \in [changes : 0 .. MaxChanges, commands : 0 .. MaxCommands,
                lapses : 0 .. MaxLapses]

\* A command that the dry run validated can be taken back: its rollback, typed in
\* after it, returns the switch to what was captured (remediation.py _t_*,
\* safety.py, executor.py).  POE_DISABLED_EXPECTED is left out: its rollback
\* switches the power off also where it was on before and nothing drew it.
RollbackRestores ==
  \A s \in Snapshots : \A a \in Validations(files[s]["execution"]) :
    LET switch == files[s]["execution"].of.capture.switch IN
    a.rule # "POE_DISABLED_EXPECTED" =>
      Applied(Applied(switch, a.interface, a.commands), a.interface, a.rollback) = switch

\* The switch after a whole plan.
AppliedAll(switch, plan) ==
  LET On(p) == UNION {a.commands : a \in {b \in plan : b.status = "planned" /\ b.interface = p}}
      Step(p) == Applied(switch, p, On(p)) IN
  [ switch EXCEPT !.trunks = [p \in DOMAIN @ |-> Step(p).trunks[p]],
                  !.ports = [p \in DOMAIN @ |-> Step(p).ports[p]],
                  !.power = [p \in DOMAIN @ |-> Step(p).power[p]] ]

\* A plan made from all outputs is enough and does no harm: once it is applied, a
\* new analysis has no finding left that commands could mend, and none that the
\* plan brought about, except for a device that does not draw power
\* (remediation.py, rules.py).
PlanMends ==
  \A s \in Snapshots :
    LET file == files[s]["plan"] IN
    (Read(file) # None /\ file.of.capture.saved = Outputs) =>
      LET mended == AppliedAll(file.of.capture.switch, file.data)
          inventory == Inventory([switch |-> mended, saved |-> Outputs], s) IN
      \A f \in Open(Findings(inventory, Topology(inventory))) :
        f.rule \in CommandRules \ (DisabledTemplates \cup InvestigationOnly) =>
          /\ f.rule = "POE_DISABLED_EXPECTED"
          /\ \/ f.interface \notin DOMAIN mended.power
             \/ ~mended.power[f.interface].draws

\* What is true of a switch when the goal of an action is met.  An unused port
\* need not be shut down for that: it may have a link again, and one that the
\* switch has disabled, or that waits for its VLAN, is not flagged any more.
Met(a, vlans, switch) ==
  LET p == a.interface IN
  CASE a.rule = "TRUNK_MISSING_REQUIRED_VLAN" ->
         p \in DOMAIN switch.trunks /\ vlans \subseteq switch.trunks[p].allowed
    [] a.rule = "TRUNK_UNAUTHORIZED_VLAN" ->
         p \in DOMAIN switch.trunks /\ vlans \cap switch.trunks[p].allowed = {}
    [] a.rule = "UNUSED_PORT_ADMIN_UP" ->
         \/ switch.ports[p].admin = "down"
         \/ switch.ports[p].linked \/ switch.ports[p].held # "no"
    [] a.rule = "POE_DISABLED_EXPECTED" ->
         p \in DOMAIN switch.power /\ switch.power[p].admin = "auto"

\* The VLANs that the commands of an action name.
NamedVlans(a) == {c[2] : c \in a.commands}

\* Both snapshots were analyzed from all outputs of the same device.
Sound(of) ==
  /\ of["before"]["plan"] # None /\ of["before"]["plan"] = of["before"]["findings"]
  /\ of["after"]["findings"] # None
  /\ of["after"]["findings"].capture = of["after"]["inventory"].capture
  /\ of["before"]["plan"].capture.saved = Outputs
  /\ of["after"]["inventory"].capture.saved = Outputs
  /\ of["before"]["plan"].capture.switch.hostname = of["after"]["inventory"].capture.switch.hostname

\* A verdict on a command action is right: "passed" only where the switch of the
\* second snapshot meets the goal and "failed" only where it does not, whatever
\* changed between the two, by the plan or not (verification.py).  The goal for
\* an unused port is the weak one that the code decides: "port no longer flagged
\* unused/admin-up" (verification.py:105), and not that it "was actually shut
\* down" (verification.py:29), since "err-disabled" passes for "disabled".
VerdictsTrue ==
  LET file == compared["verification"] IN
  (Read(file) # None /\ Sound(file.of)) =>
    \A v \in file.data :
      LET met == Met(v.action, NamedVlans(v.action),
                     file.of["after"]["inventory"].capture.switch) IN
      v.action.type # "investigation" =>
        (v.status = "passed" => met) /\ (v.status = "failed" => ~met)

\* The records of a comparison that speak of a port, or of an address.
Speaks(diff, f) ==
  \/ \E o \in diff.objects : o[2] = <<f.device, f.interface>>
  \/ \E ends \in diff.links : <<f.device, f.interface>> \in ends
  \/ \E w \in diff.warnings : w[2] = IF f.mac = None THEN f.interface ELSE f.mac

\* The topology does not warn of so few addresses on a port, whatever the rule
\* about crowded ports says of them.
BelowWarning(f, inv) ==
  /\ f.rule = "ACCESS_PORT_TOO_MANY_MACS"
  /\ ~ (Cardinality(MacsOn(inv, f.interface)) > TopologyMacThreshold)

\* A finding of a device that is new or resolved has its cause among the changes
\* of the same comparison (diff.py), unless a topology is missing: the one
\* exception is a crowded port that the rule finds and the topology, which has a
\* threshold of its own (topology.py:352, rules.py:172), does not warn of.
DiffExplains ==
  LET file == compared["diff"]
      Input(s, f) == file.of[s][f]
      Known(s) == Read(files[s]["findings"]) IN
  (Read(file) # None) =>
    \A s \in Snapshots :
      (/\ \A t \in Snapshots :
            /\ Input(t, "findings") # None /\ Input(t, "topology") # None
            /\ Input(t, "findings") = Input(t, "inventory")
            /\ Input(t, "topology") = Input(t, "inventory")
       /\ Input("before", "inventory").capture.switch.hostname
            = Input("after", "inventory").capture.switch.hostname
       /\ \A t \in Snapshots : "running_config" \in Input(t, "inventory").capture.saved
       /\ Origin(files[s]["findings"]) = Input(s, "findings") /\ Known(s) # None)
      => \A f \in Known(s) :
           f.id \in file.data.resolved \cup file.data.new =>
             Speaks(file.data, f) \/ BelowWarning(f, Inventory(Input(s, "inventory").capture, s))

\* The files of the snapshots keep their types, and plans made from all outputs
\* mend what they are about.
PlansSound == WorkflowTypeOK /\ PlanMends
=============================================================================
