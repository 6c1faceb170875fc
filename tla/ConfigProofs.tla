------------------------------ MODULE ConfigProofs ------------------------------
(***************************************************************************)
(* What Engine C promises, for every policy, switch and set of saved       *)
(* outputs, whatever command dies: a validated change can be taken back, a *)
(* plan mends what it is about, a verdict is true of the switch, and a     *)
(* comparison explains the findings it reports.  The invariant says which  *)
(* captures the files were made from; the rest is about what the engine    *)
(* computes from one capture, and from two.                                *)
(*                                                                         *)
(* Then what is made of its files: what an export tells the operators of   *)
(* the findings, and what the monitoring says of a replayed stream of      *)
(* events.  There the invariant says what can be read of files that others *)
(* are writing, and that the log explains the state; the rest is about     *)
(* events, their order, and the state they leave.                          *)
(***************************************************************************)
EXTENDS ConfigWorkflow, Monitoring, FiniteSetTheorems, SequenceTheorems, WellFoundedInduction, TLAPS


-----------------------------------------------------------------------------
(* Commands of a port. *)

LEMMA TableType ==
  ASSUME NEW row, NEW t \in Table(row)
  PROVE  /\ DOMAIN t \subseteq Ports
         /\ t \in [DOMAIN t -> row]
  BY DEF Table

LEMMA TableIntro ==
  ASSUME NEW row, NEW d \in SUBSET Ports, NEW t \in [d -> row]
  PROVE  t \in Table(row)
  BY DEF Table

\* What a set of commands on a port does to each part of a switch.
LEMMA AppliedParts ==
  ASSUME NEW sw \in Switches, NEW p, NEW cs
  PROVE  Applied(sw, p, cs) =
           [ hostname |-> sw.hostname, ports |-> PortsAfter(sw, p, cs),
             trunks |-> TrunksAfter(sw, p, cs), power |-> PowerAfter(sw, p, cs),
             neighbors |-> sw.neighbors, macs |-> sw.macs, blocking |-> sw.blocking ]
<1>1. Applied(sw, p, cs) =
        [sw EXCEPT !.trunks = TrunksAfter(sw, p, cs), !.ports = PortsAfter(sw, p, cs),
                   !.power = PowerAfter(sw, p, cs)]
  BY DEF Applied
<1>2. sw = [ hostname |-> sw.hostname, ports |-> sw.ports, trunks |-> sw.trunks,
             power |-> sw.power, neighbors |-> sw.neighbors, macs |-> sw.macs,
             blocking |-> sw.blocking ]
  BY DEF Switches
<1> QED  BY <1>1, <1>2

LEMMA AppliedType ==
  ASSUME NEW sw \in Switches, NEW p, NEW cs
  PROVE  Applied(sw, p, cs) \in Switches
<1> DEFINE TrunkRow == [allowed : SUBSET Vlans, native : Vlans]
           PowerRec == [admin : {"auto", "never"}, draws : BOOLEAN]
           PortRow == [mode : {"access", "trunk"}, vlan : Vlans \cup {None},
                       admin : {"up", "down"}, linked : BOOLEAN, powered : BOOLEAN,
                       held : {"no", "err-disabled", "inactive"}]
<1>1. /\ sw.trunks \in Table(TrunkRow) /\ sw.power \in Table(PowerRec)
      /\ sw.ports \in [Ports -> PortRow]
  BY DEF Switches
<1>2. /\ DOMAIN sw.trunks \subseteq Ports /\ sw.trunks \in [DOMAIN sw.trunks -> TrunkRow]
      /\ DOMAIN sw.power \subseteq Ports /\ sw.power \in [DOMAIN sw.power -> PowerRec]
  <2> HIDE DEF TrunkRow, PowerRec
  <2> QED  BY <1>1, TableType
<1>3. TrunksAfter(sw, p, cs) \in Table(TrunkRow)
  <2>1. TrunksAfter(sw, p, cs) \in [DOMAIN sw.trunks -> TrunkRow]
    BY <1>2 DEF TrunksAfter, Verb
  <2> HIDE DEF TrunkRow
  <2> QED  BY <1>2, <2>1, TableIntro
<1>4. PowerAfter(sw, p, cs) \in Table(PowerRec)
  <2>1. PowerAfter(sw, p, cs) \in [DOMAIN sw.power -> PowerRec]
    BY <1>2 DEF PowerAfter
  <2> HIDE DEF PowerRec
  <2> QED  BY <1>2, <2>1, TableIntro
<1>5. PortsAfter(sw, p, cs) \in [Ports -> PortRow]
  BY <1>1 DEF PortsAfter
<1>6. Switches = [ hostname : STRING, ports : [Ports -> PortRow], trunks : Table(TrunkRow),
                   power : Table(PowerRec),
                   neighbors : SUBSET [port : Ports, device : STRING, remote : Ports],
                   macs : SUBSET (Macs \X Ports), blocking : SUBSET (Ports \X Vlans) ]
  BY DEF Switches
<1>7. /\ sw.hostname \in STRING
      /\ sw.neighbors \in SUBSET [port : Ports, device : STRING, remote : Ports]
      /\ sw.macs \in SUBSET (Macs \X Ports) /\ sw.blocking \in SUBSET (Ports \X Vlans)
  BY DEF Switches
<1> HIDE DEF TrunkRow, PowerRec, PortRow
<1> QED  BY <1>3, <1>4, <1>5, <1>6, <1>7, AppliedParts

\* Commands and then others on the same port do nothing if no part of it changes.
LEMMA RoundTrip ==
  ASSUME NEW sw \in Switches, NEW p, NEW cs, NEW rs,
         TrunksAfter(Applied(sw, p, cs), p, rs) = sw.trunks,
         PortsAfter(Applied(sw, p, cs), p, rs) = sw.ports,
         PowerAfter(Applied(sw, p, cs), p, rs) = sw.power
  PROVE  Applied(Applied(sw, p, cs), p, rs) = sw
<1> DEFINE mid == Applied(sw, p, cs)
<1>1. mid \in Switches
  BY AppliedType
<1>2. mid.hostname = sw.hostname /\ mid.neighbors = sw.neighbors
      /\ mid.macs = sw.macs /\ mid.blocking = sw.blocking
  BY AppliedParts
<1>3. Applied(mid, p, rs) =
        [ hostname |-> sw.hostname, ports |-> sw.ports, trunks |-> sw.trunks,
          power |-> sw.power, neighbors |-> sw.neighbors, macs |-> sw.macs,
          blocking |-> sw.blocking ]
  <2> HIDE DEF mid
  <2>1. Applied(mid, p, rs) =
           [ hostname |-> mid.hostname, ports |-> PortsAfter(mid, p, rs),
             trunks |-> TrunksAfter(mid, p, rs), power |-> PowerAfter(mid, p, rs),
             neighbors |-> mid.neighbors, macs |-> mid.macs, blocking |-> mid.blocking ]
    BY <1>1, AppliedParts
  <2> QED  BY <1>2, <2>1 DEF mid
<1> QED  BY <1>3 DEF Switches

-----------------------------------------------------------------------------
(* The rollbacks of the templates. *)

LEMMA TrunkAddUndone ==
  ASSUME NEW sw \in Switches, NEW p \in DOMAIN sw.trunks, NEW vs,
         vs \cap sw.trunks[p].allowed = {}
  PROVE  Applied(Applied(sw, p, {<<"vlan_add", v>> : v \in vs}), p,
                 {<<"vlan_remove", v>> : v \in vs}) = sw
<1> DEFINE adds == {<<"vlan_add", v>> : v \in vs}
           removes == {<<"vlan_remove", v>> : v \in vs}
           mid == Applied(sw, p, adds)
<1>1. /\ Verb("vlan_add", adds) = vs \cap Vlans /\ Verb("vlan_remove", adds) = {}
      /\ Verb("vlan_add", removes) = {} /\ Verb("vlan_remove", removes) = vs \cap Vlans
  BY DEF Verb
<1>2. \A cs \in {adds, removes} :
        /\ <<"shutdown", 0>> \notin cs /\ <<"no_shutdown", 0>> \notin cs
        /\ <<"poe_auto", 0>> \notin cs /\ <<"poe_never", 0>> \notin cs
  OBVIOUS
<1> HIDE DEF adds, removes
<1>3. /\ mid.trunks = TrunksAfter(sw, p, adds) /\ mid.ports = PortsAfter(sw, p, adds)
      /\ mid.power = PowerAfter(sw, p, adds)
  BY AppliedParts
<1>4. TrunksAfter(mid, p, removes) = sw.trunks
  BY <1>1, <1>3 DEF TrunksAfter, Switches, Table
<1>5. PortsAfter(mid, p, removes) = sw.ports
  BY <1>2, <1>3 DEF PortsAfter, Switches
<1>6. PowerAfter(mid, p, removes) = sw.power
  BY <1>2, <1>3 DEF PowerAfter, Switches, Table
<1>7. Applied(mid, p, removes) = sw
  BY <1>4, <1>5, <1>6, RoundTrip
<1> QED  BY <1>7 DEF adds, removes

LEMMA TrunkRemoveUndone ==
  ASSUME NEW sw \in Switches, NEW p \in DOMAIN sw.trunks, NEW vs,
         vs \subseteq sw.trunks[p].allowed
  PROVE  Applied(Applied(sw, p, {<<"vlan_remove", v>> : v \in vs}), p,
                 {<<"vlan_add", v>> : v \in vs}) = sw
<1> DEFINE adds == {<<"vlan_add", v>> : v \in vs}
           removes == {<<"vlan_remove", v>> : v \in vs}
           mid == Applied(sw, p, removes)
<1>1. /\ Verb("vlan_add", adds) = vs \cap Vlans /\ Verb("vlan_remove", adds) = {}
      /\ Verb("vlan_add", removes) = {} /\ Verb("vlan_remove", removes) = vs \cap Vlans
  BY DEF Verb
<1>2. \A cs \in {adds, removes} :
        /\ <<"shutdown", 0>> \notin cs /\ <<"no_shutdown", 0>> \notin cs
        /\ <<"poe_auto", 0>> \notin cs /\ <<"poe_never", 0>> \notin cs
  OBVIOUS
<1> HIDE DEF adds, removes
<1>3. /\ mid.trunks = TrunksAfter(sw, p, removes) /\ mid.ports = PortsAfter(sw, p, removes)
      /\ mid.power = PowerAfter(sw, p, removes)
  BY AppliedParts
<1>4. TrunksAfter(mid, p, adds) = sw.trunks
  BY <1>1, <1>3 DEF TrunksAfter, Switches, Table
<1>5. PortsAfter(mid, p, adds) = sw.ports
  BY <1>2, <1>3 DEF PortsAfter, Switches
<1>6. PowerAfter(mid, p, adds) = sw.power
  BY <1>2, <1>3 DEF PowerAfter, Switches, Table
<1>7. Applied(mid, p, adds) = sw
  BY <1>4, <1>5, <1>6, RoundTrip
<1> QED  BY <1>7 DEF adds, removes

LEMMA ShutdownUndone ==
  ASSUME NEW sw \in Switches, NEW p \in Ports, sw.ports[p].admin = "up"
  PROVE  Applied(Applied(sw, p, {<<"shutdown", 0>>}), p, {<<"no_shutdown", 0>>}) = sw
<1> DEFINE mid == Applied(sw, p, {<<"shutdown", 0>>})
<1>1. \A cs \in {{<<"shutdown", 0>>}, {<<"no_shutdown", 0>>}} :
        /\ Verb("vlan_add", cs) = {} /\ Verb("vlan_remove", cs) = {}
        /\ <<"poe_auto", 0>> \notin cs /\ <<"poe_never", 0>> \notin cs
  BY DEF Verb
<1>2. /\ mid.trunks = TrunksAfter(sw, p, {<<"shutdown", 0>>})
      /\ mid.ports = PortsAfter(sw, p, {<<"shutdown", 0>>})
      /\ mid.power = PowerAfter(sw, p, {<<"shutdown", 0>>})
  BY AppliedParts
<1>3. TrunksAfter(mid, p, {<<"no_shutdown", 0>>}) = sw.trunks
  BY <1>1, <1>2 DEF TrunksAfter, Switches, Table
<1>4. PortsAfter(mid, p, {<<"no_shutdown", 0>>}) = sw.ports
  BY <1>2 DEF PortsAfter, Switches
<1>5. PowerAfter(mid, p, {<<"no_shutdown", 0>>}) = sw.power
  BY <1>1, <1>2 DEF PowerAfter, Switches, Table
<1> QED  BY <1>3, <1>4, <1>5, RoundTrip

-----------------------------------------------------------------------------
(* An action that a plan of a capture holds can be taken back. *)

\* The findings and the plan of a capture.
FindingsOf(c, s, skip) ==
  Findings(Inventory(c, s), IF "topology" \in skip THEN None ELSE Topology(Inventory(c, s)))
PlanFor(c, s, skip, config) == Plan(FindingsOf(c, s, skip), config)

Undone(sw, a) == Applied(Applied(sw, a.interface, a.commands), a.interface, a.rollback) = sw

\* What is known of a finding that a template with commands is made for.
LEMMA FindingFacts ==
  ASSUME NEW c \in Captures, NEW s, NEW skip, NEW f \in FindingsOf(c, s, skip)
  PROVE  LET sw == c.switch
             p == f.interface IN
         /\ f.rule \in Rules
         /\ f.rule = "TRUNK_MISSING_REQUIRED_VLAN" =>
              p \in DOMAIN sw.trunks /\ f.vlans = RequiredVlans \ sw.trunks[p].allowed
         /\ f.rule = "TRUNK_UNAUTHORIZED_VLAN" =>
              p \in DOMAIN sw.trunks /\ f.vlans = sw.trunks[p].allowed \ AuthorizedVlans
         /\ f.rule = "UNUSED_PORT_ADMIN_UP" => p \in Ports /\ sw.ports[p].admin = "up"
<1> DEFINE sw == c.switch
           inv == Inventory(c, s)
           topology == IF "topology" \in skip THEN None ELSE Topology(inv)
<1>1. PICK r \in ActiveRules : \E d \in Found(r, inv, topology) :
        /\ f.rule = r /\ f.interface = d.interface /\ f.vlans = d.vlans
  <2>1. f \in Findings(inv, topology)
    BY DEF FindingsOf
  <2> HIDE DEF inv, topology
  <2>2. PICK r \in ActiveRules : \E d \in Found(r, inv, topology) :
          f = [ id |-> <<r, inv.device, d.interface, d.vlan>>, rule |-> r,
                device |-> inv.device, interface |-> d.interface,
                vlans |-> d.vlans, mac |-> d.mac,
                status |-> IF <<r, d.interface>> \in Suppressed THEN "suppressed" ELSE "open" ]
    BY <2>1 DEF Findings
  <2>3. \E d \in Found(r, inv, topology) :
          f.rule = r /\ f.interface = d.interface /\ f.vlans = d.vlans
    BY <2>2
  <2> QED  BY <2>3
<1>2. PICK d \in Found(r, inv, topology) : f.interface = d.interface /\ f.vlans = d.vlans
  BY <1>1
<1>3. f.rule \in Rules
  BY <1>1, PolicyAssumption
<1>4. sw \in Switches
  BY DEF Captures
<1>5. /\ DOMAIN inv.trunks \subseteq DOMAIN sw.trunks
      /\ \A p \in DOMAIN inv.trunks : inv.trunks[p] = sw.trunks[p]
  BY DEF Inventory, Rows
<1>6. /\ DOMAIN inv.interfaces \subseteq Ports
      /\ \A p \in DOMAIN inv.interfaces : inv.interfaces[p].status = Status(sw.ports[p])
  <2>1. inv.interfaces =
          [p \in Rows(c, "interface_status", Ports) |->
             [ mode |-> sw.ports[p].mode, vlan |-> sw.ports[p].vlan,
               status |-> Status(sw.ports[p]), powered |-> sw.ports[p].powered,
               poeEnabled |-> inv.interfaces[p].poeEnabled,
               poeState |-> inv.interfaces[p].poeState ]]
    BY DEF Inventory
  <2>2. Rows(c, "interface_status", Ports) \subseteq Ports
    BY DEF Rows
  <2> HIDE DEF inv
  <2> QED  BY <2>1, <2>2
<1> HIDE DEF inv, topology
<1>7. CASE r = "TRUNK_MISSING_REQUIRED_VLAN"
  <2>1. d \in MissingVlans(inv)
    BY <1>2, <1>7 DEF Found
  <2> QED  BY <1>1, <1>2, <1>3, <1>5, <1>7, <2>1 DEF MissingVlans, Draft
<1>8. CASE r = "TRUNK_UNAUTHORIZED_VLAN"
  <2>1. d \in UnauthorizedVlans(inv)
    BY <1>2, <1>8 DEF Found
  <2> QED  BY <1>1, <1>2, <1>3, <1>5, <1>8, <2>1 DEF UnauthorizedVlans, Draft
<1>9. CASE r = "UNUSED_PORT_ADMIN_UP"
  <2>1. d \in UnusedPorts(inv)
    BY <1>2, <1>9 DEF Found
  <2>2. PICK p \in DOMAIN inv.interfaces :
          inv.interfaces[p].status = "notconnect" /\ d.interface = p
    BY <2>1 DEF UnusedPorts, Draft
  <2>3. sw.ports[p].admin \in {"up", "down"} /\ sw.ports[p].admin # "down"
    BY <1>4, <1>6, <2>2 DEF Switches, Status
  <2> QED  BY <1>1, <1>2, <1>3, <1>6, <1>9, <2>2, <2>3
<1> QED  BY <1>1, <1>3, <1>7, <1>8, <1>9

LEMMA ActionUndone ==
  ASSUME NEW c \in Captures, NEW s, NEW skip, NEW config,
         NEW a \in PlanFor(c, s, skip, config),
         a.commands # {}, a.rule # "POE_DISABLED_EXPECTED"
  PROVE  Undone(c.switch, a)
<1> DEFINE sw == c.switch
<1>1. PICK f \in FindingsOf(c, s, skip) : a = ActionFor(f, config)
  BY DEF PlanFor, Plan, Open
<1>2. /\ a.rule = f.rule /\ a.interface = f.interface
      /\ a.commands = Commands(f) /\ a.rollback = Rollback(f)
      /\ f.rule \notin InvestigationRules
  BY <1>1 DEF ActionFor, Action
<1>3. /\ f.rule \in Rules
      /\ f.rule = "TRUNK_MISSING_REQUIRED_VLAN" =>
           f.interface \in DOMAIN sw.trunks
           /\ f.vlans = RequiredVlans \ sw.trunks[f.interface].allowed
      /\ f.rule = "TRUNK_UNAUTHORIZED_VLAN" =>
           f.interface \in DOMAIN sw.trunks
           /\ f.vlans = sw.trunks[f.interface].allowed \ AuthorizedVlans
      /\ f.rule = "UNUSED_PORT_ADMIN_UP" =>
           f.interface \in Ports /\ sw.ports[f.interface].admin = "up"
  BY FindingFacts
<1>4. sw \in Switches
  BY DEF Captures
<1>5. CASE f.rule = "TRUNK_MISSING_REQUIRED_VLAN"
  <2>1. /\ Commands(f) = {<<"vlan_add", v>> : v \in f.vlans}
        /\ Rollback(f) = {<<"vlan_remove", v>> : v \in f.vlans}
    BY <1>5 DEF Commands, Rollback
  <2>2. f.vlans \cap sw.trunks[f.interface].allowed = {}
    BY <1>3, <1>5
  <2>3. Applied(Applied(sw, f.interface, {<<"vlan_add", v>> : v \in f.vlans}), f.interface,
                {<<"vlan_remove", v>> : v \in f.vlans}) = sw
    <3> HIDE DEF sw
    <3> QED  BY <1>3, <1>4, <1>5, <2>2, TrunkAddUndone
  <2>4. Applied(Applied(sw, f.interface, Commands(f)), f.interface, Rollback(f)) = sw
    BY <2>1, <2>3
  <2> QED  BY <1>2, <2>4 DEF Undone
<1>6. CASE f.rule = "TRUNK_UNAUTHORIZED_VLAN"
  <2>1. /\ Commands(f) = {<<"vlan_remove", v>> : v \in f.vlans}
        /\ Rollback(f) = {<<"vlan_add", v>> : v \in f.vlans}
    BY <1>6 DEF Commands, Rollback
  <2>2. f.vlans \subseteq sw.trunks[f.interface].allowed
    BY <1>3, <1>6
  <2>3. Applied(Applied(sw, f.interface, {<<"vlan_remove", v>> : v \in f.vlans}), f.interface,
                {<<"vlan_add", v>> : v \in f.vlans}) = sw
    <3> HIDE DEF sw
    <3> QED  BY <1>3, <1>4, <1>6, <2>2, TrunkRemoveUndone
  <2>4. Applied(Applied(sw, f.interface, Commands(f)), f.interface, Rollback(f)) = sw
    BY <2>1, <2>3
  <2> QED  BY <1>2, <2>4 DEF Undone
<1>7. CASE f.rule = "UNUSED_PORT_ADMIN_UP"
  <2>1. /\ Commands(f) = {<<"shutdown", 0>>} /\ Rollback(f) = {<<"no_shutdown", 0>>}
    BY <1>7 DEF Commands, Rollback
  <2> QED  BY <1>2, <1>3, <1>4, <1>7, <2>1, ShutdownUndone DEF Undone
<1>8. f.rule \in CommandRules \ {"POE_DISABLED_EXPECTED"}
  BY <1>2, <1>3 DEF Rules
<1> QED  BY <1>5, <1>6, <1>7, <1>8 DEF CommandRules

-----------------------------------------------------------------------------
(* The invariant: where the files come from. *)

Made(c, skip, data) == [of |-> [capture |-> c, skip |-> skip], data |-> data]

\* What a command writes into each file of a snapshot.
DataOf(f, c, s, skip, config) ==
  CASE f = "inventory" -> Inventory(c, s)
    [] f = "topology" -> Topology(Inventory(c, s))
    [] f = "findings" -> FindingsOf(c, s, skip)
    [] f = "plan" -> PlanFor(c, s, skip, config)
    [] f \in {"audit", "execution"} -> Records(PlanFor(c, s, skip, config))

\* A complete file was made from a capture, whatever the other files are made from.
MadeFrom(file, f, c, s, skip) ==
  /\ \E config \in Configs : file = Made(c, skip, DataOf(f, c, s, skip, config))
  /\ f = "topology" => "topology" \notin skip
FileMade(s, f) ==
  \/ files[s][f] \in {None, Torn}
  \/ \E c \in Captures, skip \in Skips :
       c.saved \in Savings /\ MadeFrom(files[s][f], f, c, s, skip)

Shape ==
  /\ network \in Switches
  /\ captured \in [Snapshots -> Captures \cup {None}]
  /\ \A s \in Snapshots : captured[s] # None => captured[s].saved \in Savings
  /\ DOMAIN files = Snapshots
  /\ \A s \in Snapshots : DOMAIN files[s] = SnapshotFiles
  /\ DOMAIN compared = ComparedFiles

\* A verification of two sound snapshots judges the plan of the first by the
\* inventory of the second.
VerificationMade ==
  LET file == compared["verification"]
      b == file.of["before"]["plan"]
      a == file.of["after"]["findings"] IN
  file \notin {None, Torn} /\ Sound(file.of) =>
    /\ b.capture \in Captures /\ a.capture \in Captures
    /\ b.skip \in Skips /\ a.skip \in Skips
    /\ \E config \in Configs :
         file.data = Verification(PlanFor(b.capture, "before", b.skip, config),
                                  Inventory(a.capture, "after"),
                                  FindingsOf(b.capture, "before", b.skip),
                                  FindingsOf(a.capture, "after", a.skip))

\* The files of a side of a comparison come from one capture.
OneCapture(of) ==
  /\ of["findings"] # None /\ of["topology"] # None
  /\ of["findings"] = of["inventory"] /\ of["topology"] = of["inventory"]

\* A comparison has an inventory on both sides; where the files of each come from
\* one capture, it is a comparison of what follows from the two.
DiffMade ==
  LET file == compared["diff"]
      b == file.of["before"]["inventory"]
      a == file.of["after"]["inventory"] IN
  file \notin {None, Torn} /\ (\A t \in Snapshots : OneCapture(file.of[t])) =>
    /\ b.capture \in Captures /\ a.capture \in Captures
    /\ b.skip \in Skips /\ a.skip \in Skips
    /\ "topology" \notin b.skip /\ "topology" \notin a.skip
    /\ file.data = Diff(Inventory(b.capture, "before"), Inventory(a.capture, "after"),
                        Topology(Inventory(b.capture, "before")),
                        Topology(Inventory(a.capture, "after")),
                        FindingsOf(b.capture, "before", b.skip),
                        FindingsOf(a.capture, "after", a.skip))

\* Either file of a comparison has a known inventory on both sides.
BothKnown ==
  \A f \in ComparedFiles :
    compared[f] \notin {None, Torn} =>
      \A s \in Snapshots : \E c \in Captures, skip \in Skips :
        compared[f].of[s]["inventory"] = [capture |-> c, skip |-> skip]

Inv ==
  /\ Shape
  /\ \A s \in Snapshots, f \in SnapshotFiles : FileMade(s, f)
  /\ VerificationMade /\ DiffMade /\ BothKnown

LEMMA InitInv == Init => Inv
<1> SUFFICES ASSUME Init PROVE Inv
  OBVIOUS
<1>1. Shape
  BY WorkflowAssumption DEF Init, Shape, SnapshotFiles
<1>2. \A s \in Snapshots, f \in SnapshotFiles : FileMade(s, f)
  BY DEF Init, FileMade
<1>3. \A f \in ComparedFiles : compared[f] = None
  BY DEF Init
<1>4. VerificationMade /\ DiffMade /\ BothKnown
  BY <1>3 DEF VerificationMade, DiffMade, BothKnown, ComparedFiles
<1> QED  BY <1>1, <1>2, <1>4 DEF Inv

\* What the first files of a list leave of a directory.
LEMMA WrittenFile ==
  ASSUME NEW directory, NEW list, NEW content, NEW end, NEW f \in DOMAIN directory
  PROVE  /\ DOMAIN Written(directory, list, content, end) = DOMAIN directory
         /\ Written(directory, list, content, end)[f] \in {content[f], Torn, directory[f]}
  BY DEF Written

LEMMA UnwrittenFile ==
  ASSUME NEW directory, NEW list, NEW content, Len(list) \in Nat, NEW end \in Endings(list),
         NEW f \in DOMAIN directory, \A i \in 1 .. Len(list) : list[i] # f
  PROVE  Written(directory, list, content, end)[f] = directory[f]
  BY DEF Written, Endings

\* The files of an analysis: no record of a dry run, no topology when it is skipped.
LEMMA ArtifactNames ==
  ASSUME NEW skip
  PROVE  /\ Len(Artifacts(skip)) \in Nat
         /\ \A i \in 1 .. Len(Artifacts(skip)) :
              /\ Artifacts(skip)[i] \notin {"audit", "execution"}
              /\ "topology" \in skip => Artifacts(skip)[i] # "topology"
<1> DEFINE Names == {"inventory", "findings", "plan"}
                    \cup (IF "topology" \in skip THEN {} ELSE {"topology"})
           list == Artifacts(skip)
<1>1. list \in Seq(Names)
  <2>1. \A x \in Names : <<x>> \in Seq(Names)
    <3> HIDE DEF Names
    <3> QED  OBVIOUS
  <2>2. /\ <<>> \in Seq(Names) /\ \A x, y \in Seq(Names) : x \o y \in Seq(Names)
    <3> HIDE DEF Names
    <3> QED  OBVIOUS
  <2>3. /\ <<"inventory">> \in Seq(Names) /\ <<"findings">> \in Seq(Names)
        /\ <<"plan">> \in Seq(Names)
        /\ "topology" \notin skip => <<"topology">> \in Seq(Names)
    BY <2>1
  <2> HIDE DEF Names
  <2> QED  BY <2>2, <2>3 DEF Artifacts
<1>2. Len(list) \in Nat /\ \A i \in 1 .. Len(list) : list[i] \in Names
  BY <1>1
<1> QED  BY <1>2

\* What a command that writes to one snapshot leaves of the invariant.
LEMMA DirectoryInv ==
  ASSUME Inv, NEW s \in Snapshots, NEW out,
         files' = [files EXCEPT ![s] = out], DOMAIN out = SnapshotFiles,
         UNCHANGED <<network, captured, compared>>,
         \A f \in SnapshotFiles :
           \/ out[f] \in {None, Torn} \/ out[f] = files[s][f]
           \/ \E c \in Captures, skip \in Skips :
                c.saved \in Savings /\ MadeFrom(out[f], f, c, s, skip)
  PROVE  Inv'
<1>1. Shape'
  BY DEF Inv, Shape
<1>2. ASSUME NEW t \in Snapshots, NEW f \in SnapshotFiles PROVE FileMade(t, f)'
  <2>1. files'[t] = IF t = s THEN out ELSE files[t]
    BY DEF Inv, Shape
  <2>2. FileMade(t, f)
    BY DEF Inv
  <2>3. CASE t = s /\ out[f] # files[s][f]
    BY <2>1, <2>3 DEF FileMade
  <2>4. CASE t # s \/ out[f] = files[s][f]
    BY <2>1, <2>2, <2>4 DEF FileMade
  <2> QED  BY <2>3, <2>4
<1>3. VerificationMade' /\ DiffMade' /\ BothKnown'
  BY DEF Inv, VerificationMade, DiffMade, BothKnown
<1> QED  BY <1>1, <1>2, <1>3 DEF Inv

LEMMA AnalyzeInv == ASSUME Inv, NEW s \in Snapshots, Analyze(s) PROVE Inv'
<1>1. PICK skip \in Skips, config \in Configs : \E end \in Endings(Artifacts(skip)) :
        files' = [files EXCEPT ![s] =
                    Written(@, Artifacts(skip), Analysis(s, skip, config), end)]
  BY DEF Analyze
<1>2. PICK end \in Endings(Artifacts(skip)) :
        files' = [files EXCEPT ![s] =
                    Written(@, Artifacts(skip), Analysis(s, skip, config), end)]
  BY <1>1
<1> DEFINE list == Artifacts(skip)
           content == Analysis(s, skip, config)
           out == Written(files[s], list, content, end)
           c == captured[s]
<1>3. c \in Captures /\ c.saved \in Savings /\ UNCHANGED <<network, captured, compared>>
  BY DEF Analyze, Inv, Shape
<1>4. /\ files' = [files EXCEPT ![s] = out]
      /\ DOMAIN files = Snapshots /\ DOMAIN files[s] = SnapshotFiles
  BY <1>2 DEF Inv, Shape
<1>5. /\ content["inventory"] = Made(c, skip, Inventory(c, s))
      /\ "topology" \notin skip => content["topology"] = Made(c, skip, Topology(Inventory(c, s)))
      /\ content["findings"] = Made(c, skip, FindingsOf(c, s, skip))
      /\ content["plan"] = Made(c, skip, PlanFor(c, s, skip, config))
  BY DEF Analysis, Made, PlanFor, FindingsOf
<1> HIDE DEF content
<1>6. DOMAIN out = SnapshotFiles
      /\ \A f \in SnapshotFiles : out[f] \in {content[f], Torn, files[s][f]}
  <2> HIDE DEF list
  <2> QED  BY <1>4, WrittenFile DEF SnapshotFiles
<1>7. /\ out["audit"] = files[s]["audit"] /\ out["execution"] = files[s]["execution"]
      /\ "topology" \in skip => out["topology"] = files[s]["topology"]
  BY <1>4, ArtifactNames, UnwrittenFile DEF SnapshotFiles
<1> HIDE DEF out, c
<1>8. ASSUME NEW f \in SnapshotFiles
      PROVE  out[f] \in {Torn, files[s][f]} \/ MadeFrom(out[f], f, c, s, skip)
  <2>1. CASE f \in {"audit", "execution"} \/ (f = "topology" /\ "topology" \in skip)
    BY <1>7, <2>1
  <2>2. CASE f \in {"inventory", "findings", "plan"} \/ (f = "topology" /\ "topology" \notin skip)
    <3>1. content[f] = Made(c, skip, DataOf(f, c, s, skip, config))
      BY <1>5, <2>2 DEF DataOf
    <3> QED  BY <1>6, <2>2, <3>1 DEF MadeFrom
  <2> QED  BY <2>1, <2>2 DEF SnapshotFiles
<1> QED  BY <1>3, <1>4, <1>6, <1>8, DirectoryInv

LEMMA DryRunInv == ASSUME Inv, NEW s \in Snapshots, DryRun(s) PROVE Inv'
<1> DEFINE plan == files[s]["plan"]
           list == <<"audit", "execution">>
           records == [of |-> Origin(plan), data |-> Records(Read(plan))]
           content == [f \in {"audit", "execution"} |-> records]
<1>1. PICK end \in Endings(list) : files' = [files EXCEPT ![s] = Written(@, list, content, end)]
  BY DEF DryRun
<1> DEFINE out == Written(files[s], list, content, end)
<1>2. UNCHANGED <<network, captured, compared>>
  BY DEF DryRun
<1>3. /\ files' = [files EXCEPT ![s] = out]
      /\ DOMAIN files = Snapshots /\ DOMAIN files[s] = SnapshotFiles
  BY <1>1 DEF Inv, Shape
<1>4. plan \notin {None, Torn}
  BY DEF DryRun, Read
<1>5. PICK c \in Captures, skip \in Skips :
        c.saved \in Savings /\ MadeFrom(plan, "plan", c, s, skip)
  BY <1>4 DEF Inv, FileMade, SnapshotFiles
<1>6. PICK config \in Configs : plan = Made(c, skip, PlanFor(c, s, skip, config))
  BY <1>5 DEF MadeFrom, DataOf
<1>7. records = Made(c, skip, Records(PlanFor(c, s, skip, config)))
  BY <1>4, <1>6 DEF Made, Origin, Read
<1>8. \A f \in {"audit", "execution"} : MadeFrom(content[f], f, c, s, skip)
  BY <1>7 DEF MadeFrom, DataOf
<1>9. /\ DOMAIN out = SnapshotFiles
      /\ \A f \in SnapshotFiles : out[f] \in {content[f], Torn, files[s][f]}
  <2> HIDE DEF content, list
  <2> QED  BY <1>3, WrittenFile DEF SnapshotFiles
<1>10. \A f \in SnapshotFiles \ {"audit", "execution"} : out[f] = files[s][f]
  <2>1. Len(list) = 2 /\ \A i \in 1 .. Len(list) : list[i] \in {"audit", "execution"}
    OBVIOUS
  <2> HIDE DEF content, list
  <2> QED  BY <1>3, <2>1, UnwrittenFile
<1> HIDE DEF content, records, out
<1>11. ASSUME NEW f \in SnapshotFiles
       PROVE  \/ out[f] \in {None, Torn} \/ out[f] = files[s][f]
              \/ \E d \in Captures, k \in Skips :
                   d.saved \in Savings /\ MadeFrom(out[f], f, d, s, k)
  BY <1>5, <1>8, <1>9, <1>10
<1> QED  BY <1>2, <1>3, <1>9, <1>11, DirectoryInv

\* What the comparison reads of a file: nothing, or what was made from a capture.
LEMMA ReadMade ==
  ASSUME Inv, NEW s \in Snapshots, NEW f \in SnapshotFiles
  PROVE  \/ Origin(files[s][f]) = None /\ Read(files[s][f]) = None
         \/ \E c \in Captures, skip \in Skips, config \in Configs :
              /\ Origin(files[s][f]) = [capture |-> c, skip |-> skip]
              /\ Read(files[s][f]) = DataOf(f, c, s, skip, config)
              /\ f = "topology" => "topology" \notin skip
<1>1. CASE files[s][f] \in {None, Torn}
  BY <1>1 DEF Origin, Read
<1>2. CASE files[s][f] \notin {None, Torn}
  <2>1. PICK c \in Captures, skip \in Skips : MadeFrom(files[s][f], f, c, s, skip)
    BY <1>2 DEF Inv, FileMade
  <2>2. PICK config \in Configs : files[s][f] = Made(c, skip, DataOf(f, c, s, skip, config))
    BY <2>1 DEF MadeFrom
  <2>3. /\ Origin(files[s][f]) = [capture |-> c, skip |-> skip]
        /\ Read(files[s][f]) = DataOf(f, c, s, skip, config)
    BY <1>2, <2>2 DEF Made, Origin, Read
  <2> QED  BY <2>1, <2>3 DEF MadeFrom
<1> QED  BY <1>1, <1>2

LEMMA CompareInv == ASSUME Inv, Compare PROVE Inv'
<1> DEFINE of == [s \in Snapshots |->
                   [f \in {"inventory", "topology", "findings", "plan"} |-> Origin(files[s][f])]]
           D(s, f) == Read(files[s][f])
           diff == Diff(D("before", "inventory"), D("after", "inventory"),
                        D("before", "topology"), D("after", "topology"),
                        D("before", "findings"), D("after", "findings"))
           verification == Verification(D("before", "plan"), D("after", "inventory"),
                                        D("before", "findings"), D("after", "findings"))
           list == <<"diff", "verification">>
           content == Comparison
<1>1. PICK end \in Endings(list) : compared' = Written(compared, list, content, end)
  BY DEF Compare
<1>2. /\ content["diff"] = [of |-> of, data |-> diff]
      /\ content["verification"] = [of |-> of, data |-> verification]
  BY DEF Comparison
<1> HIDE DEF content
<1>3. DOMAIN compared' = ComparedFiles
      /\ \A f \in ComparedFiles : compared'[f] \in {content[f], Torn, compared[f]}
  BY <1>1, WrittenFile DEF ComparedFiles, Inv, Shape
<1>4. \A s \in Snapshots : \A f \in {"inventory", "topology", "findings", "plan"} :
        of[s][f] = Origin(files[s][f]) /\ D(s, f) = Read(files[s][f])
  OBVIOUS
<1>5. \A s \in Snapshots, f \in {"inventory", "topology", "findings", "plan"} :
        \/ of[s][f] = None /\ D(s, f) = None
        \/ \E c \in Captures, skip \in Skips, config \in Configs :
              /\ of[s][f] = [capture |-> c, skip |-> skip]
              /\ D(s, f) = DataOf(f, c, s, skip, config)
              /\ f = "topology" => "topology" \notin skip
  <2> HIDE DEF of, D
  <2> TAKE s \in Snapshots, f \in {"inventory", "topology", "findings", "plan"}
  <2>1. f \in SnapshotFiles /\ of[s][f] = Origin(files[s][f]) /\ D(s, f) = Read(files[s][f])
    BY <1>4 DEF SnapshotFiles
  <2> QED  BY <2>1, ReadMade
<1> HIDE DEF of, D
<1>6. \A s \in Snapshots, f \in {"inventory", "topology", "findings", "plan"} :
        of[s][f] # None =>
          /\ of[s][f].capture \in Captures /\ of[s][f].skip \in Skips
          /\ \E config \in Configs :
               D(s, f) = DataOf(f, of[s][f].capture, s, of[s][f].skip, config)
          /\ f = "topology" => "topology" \notin of[s][f].skip
  <2> SUFFICES ASSUME NEW s \in Snapshots,
                      NEW f \in {"inventory", "topology", "findings", "plan"}, of[s][f] # None
               PROVE  /\ of[s][f].capture \in Captures /\ of[s][f].skip \in Skips
                      /\ \E config \in Configs :
                           D(s, f) = DataOf(f, of[s][f].capture, s, of[s][f].skip, config)
                      /\ f = "topology" => "topology" \notin of[s][f].skip
    OBVIOUS
  <2>1. PICK c \in Captures, skip \in Skips, config \in Configs :
              /\ of[s][f] = [capture |-> c, skip |-> skip]
              /\ D(s, f) = DataOf(f, c, s, skip, config)
              /\ f = "topology" => "topology" \notin skip
    BY <1>5
  <2>2. of[s][f].capture = c /\ of[s][f].skip = skip
    BY <2>1
  <2> QED  BY <2>1, <2>2
<1>7. \A s \in Snapshots :
        /\ of[s]["inventory"] # None => D(s, "inventory") = Inventory(of[s]["inventory"].capture, s)
        /\ of[s]["topology"] # None =>
             D(s, "topology") = Topology(Inventory(of[s]["topology"].capture, s))
        /\ of[s]["findings"] # None =>
             D(s, "findings") = FindingsOf(of[s]["findings"].capture, s, of[s]["findings"].skip)
        /\ of[s]["plan"] # None => \E config \in Configs :
             D(s, "plan") = PlanFor(of[s]["plan"].capture, s, of[s]["plan"].skip, config)
  BY <1>6 DEF DataOf
<1>8. \A s \in Snapshots : \E c \in Captures, skip \in Skips :
        /\ of[s]["inventory"] = [capture |-> c, skip |-> skip]
        /\ D(s, "inventory") = Inventory(c, s)
  <2>1. \A s \in Snapshots : D(s, "inventory") # None
    BY DEF Compare, D
  <2> QED  BY <1>5, <2>1 DEF DataOf
<1>9. "before" \in Snapshots /\ "after" \in Snapshots /\ \A s \in Snapshots : s = "before" \/ s = "after"
  BY DEF Snapshots
<1>10. ASSUME Sound(of)
       PROVE  /\ of["before"]["plan"].capture \in Captures
              /\ of["after"]["findings"].capture \in Captures
              /\ of["before"]["plan"].skip \in Skips /\ of["after"]["findings"].skip \in Skips
              /\ \E config \in Configs : verification =
                   Verification(PlanFor(of["before"]["plan"].capture, "before",
                                       of["before"]["plan"].skip, config),
                                Inventory(of["after"]["findings"].capture, "after"),
                                FindingsOf(of["before"]["plan"].capture, "before",
                                           of["before"]["plan"].skip),
                                FindingsOf(of["after"]["findings"].capture, "after",
                                           of["after"]["findings"].skip))
  <2>1. /\ of["before"]["plan"] # None /\ of["before"]["findings"] = of["before"]["plan"]
        /\ of["after"]["findings"] # None
        /\ of["after"]["inventory"].capture = of["after"]["findings"].capture
    BY <1>10 DEF Sound
  <2>2. PICK config \in Configs : D("before", "plan") =
          PlanFor(of["before"]["plan"].capture, "before", of["before"]["plan"].skip, config)
    BY <1>7, <1>9, <2>1
  <2>3. D("before", "findings") =
          FindingsOf(of["before"]["plan"].capture, "before", of["before"]["plan"].skip)
    BY <1>7, <1>9, <2>1
  <2>4. /\ D("after", "findings") =
             FindingsOf(of["after"]["findings"].capture, "after", of["after"]["findings"].skip)
        /\ D("after", "inventory") = Inventory(of["after"]["findings"].capture, "after")
    <3>1. PICK c \in Captures, skip \in Skips :
            /\ of["after"]["inventory"] = [capture |-> c, skip |-> skip]
            /\ D("after", "inventory") = Inventory(c, "after")
      BY <1>8, <1>9
    <3>2. of["after"]["findings"].capture = c
      BY <2>1, <3>1
    <3> QED  BY <1>7, <1>9, <2>1, <3>1, <3>2
  <2>5. /\ of["before"]["plan"].capture \in Captures
        /\ of["after"]["findings"].capture \in Captures
        /\ of["before"]["plan"].skip \in Skips /\ of["after"]["findings"].skip \in Skips
    BY <1>6, <1>9, <2>1
  <2> QED  BY <2>2, <2>3, <2>4, <2>5
<1>11. ASSUME \A t \in Snapshots : OneCapture(of[t])
       PROVE  LET b == of["before"]["inventory"]
                  a == of["after"]["inventory"] IN
              /\ b.capture \in Captures /\ a.capture \in Captures
              /\ b.skip \in Skips /\ a.skip \in Skips
              /\ "topology" \notin b.skip /\ "topology" \notin a.skip
              /\ diff = Diff(Inventory(b.capture, "before"), Inventory(a.capture, "after"),
                        Topology(Inventory(b.capture, "before")),
                        Topology(Inventory(a.capture, "after")),
                        FindingsOf(b.capture, "before", b.skip),
                        FindingsOf(a.capture, "after", a.skip))
  <2>1. \A t \in Snapshots :
          /\ of[t]["inventory"] # None /\ of[t]["topology"] # None /\ of[t]["findings"] # None
          /\ of[t]["topology"] = of[t]["inventory"] /\ of[t]["findings"] = of[t]["inventory"]
    BY <1>11 DEF OneCapture
  <2>2. \A t \in Snapshots :
          /\ of[t]["inventory"].capture \in Captures /\ of[t]["inventory"].skip \in Skips
          /\ "topology" \notin of[t]["inventory"].skip
          /\ D(t, "inventory") = Inventory(of[t]["inventory"].capture, t)
          /\ D(t, "topology") = Topology(Inventory(of[t]["inventory"].capture, t))
          /\ D(t, "findings") = FindingsOf(of[t]["inventory"].capture, t, of[t]["inventory"].skip)
    <3> TAKE t \in Snapshots
    <3>1. /\ of[t]["inventory"].capture \in Captures /\ of[t]["inventory"].skip \in Skips
          /\ "topology" \notin of[t]["topology"].skip
      BY <1>6, <2>1
    <3> QED  BY <1>7, <2>1, <3>1
  <2> QED  BY <1>9, <2>2
<1>12. Shape'
  BY <1>3 DEF Compare, Inv, Shape
<1>13. \A s \in Snapshots, f \in SnapshotFiles : FileMade(s, f)'
  BY DEF Compare, Inv, FileMade
<1> HIDE DEF diff, verification
<1>14. VerificationMade'
  <2>1. CASE compared'["verification"] = content["verification"]
    <3>1. /\ compared'["verification"].of = of
          /\ compared'["verification"].data = verification
      BY <1>2, <2>1
    <3> QED  BY <1>10, <3>1 DEF VerificationMade
  <2>2. CASE compared'["verification"] = Torn
    BY <2>2 DEF VerificationMade
  <2>3. CASE compared'["verification"] = compared["verification"]
    BY <2>3 DEF Inv, VerificationMade
  <2> QED  BY <1>3, <2>1, <2>2, <2>3 DEF ComparedFiles
<1>15. DiffMade'
  <2>1. CASE compared'["diff"] = content["diff"]
    <3>1. compared'["diff"].of = of /\ compared'["diff"].data = diff
      BY <1>2, <2>1
    <3> QED  BY <1>11, <3>1 DEF DiffMade
  <2>2. CASE compared'["diff"] = Torn
    BY <2>2 DEF DiffMade
  <2>3. CASE compared'["diff"] = compared["diff"]
    BY <2>3 DEF Inv, DiffMade
  <2> QED  BY <1>3, <2>1, <2>2, <2>3 DEF ComparedFiles
<1>16. BothKnown'
  <2> SUFFICES ASSUME NEW f \in ComparedFiles, compared'[f] \notin {None, Torn}
               PROVE  \A s \in Snapshots : \E c \in Captures, skip \in Skips :
                        compared'[f].of[s]["inventory"] = [capture |-> c, skip |-> skip]
    BY DEF BothKnown
  <2>1. content[f].of = of
    BY <1>2 DEF ComparedFiles
  <2>2. CASE compared'[f] = content[f]
    BY <1>8, <2>1, <2>2
  <2>3. CASE compared'[f] = compared[f]
    BY <2>3 DEF Inv, BothKnown
  <2> QED  BY <1>3, <2>2, <2>3
<1> QED  BY <1>12, <1>13, <1>14, <1>15, <1>16 DEF Inv

LEMMA NextInv == Inv /\ [Next]_vars => Inv'
<1> SUFFICES ASSUME Inv, [Next]_vars PROVE Inv'
  OBVIOUS
<1> DEFINE Rest == /\ \A s \in Snapshots, f \in SnapshotFiles : FileMade(s, f)
                   /\ VerificationMade /\ DiffMade /\ BothKnown
<1>1. ASSUME UNCHANGED <<files, compared>> PROVE Rest'
  BY <1>1 DEF Inv, FileMade, VerificationMade, DiffMade, BothKnown
<1>2. CASE Change
  BY <1>1, <1>2, WorkflowAssumption DEF Change, Inv, Shape
<1>3. CASE Apply
  <2>1. \E p, cs : network' = Applied(network, p, cs)
    BY <1>3 DEF Apply
  <2>2. network' \in Switches
    BY <2>1, AppliedType DEF Inv, Shape
  <2> QED  BY <1>1, <1>3, <2>2 DEF Apply, Inv, Shape
<1>4. CASE Compare
  BY <1>4, CompareInv
<1>5. ASSUME NEW s \in Snapshots, Capture(s) PROVE Inv'
  <2>1. PICK outputs \in Savings :
          captured' = [captured EXCEPT ![s] = [switch |-> network, saved |-> outputs]]
    BY <1>5 DEF Capture
  <2>2. [switch |-> network, saved |-> outputs] \in Captures
    BY WorkflowAssumption DEF Captures, Inv, Shape
  <2> QED  BY <1>1, <1>5, <2>1, <2>2 DEF Capture, Inv, Shape
<1>6. ASSUME NEW s \in Snapshots, Analyze(s) PROVE Inv'
  BY <1>6, AnalyzeInv
<1>7. ASSUME NEW s \in Snapshots, DryRun(s) PROVE Inv'
  BY <1>7, DryRunInv
<1>8. CASE UNCHANGED vars
  BY <1>1, <1>8 DEF vars, Inv, Shape
<1> QED  BY <1>2, <1>3, <1>4, <1>5, <1>6, <1>7, <1>8 DEF Next

\* The invariant holds of every state.
THEOREM FilesMade == Spec => []Inv
  BY InitInv, NextInv, PTL DEF Spec

LEMMA InvRestores == Inv => RollbackRestores
<1> SUFFICES ASSUME Inv, NEW s \in Snapshots, NEW a \in Validations(files[s]["execution"]),
                    a.rule # "POE_DISABLED_EXPECTED"
             PROVE  Undone(files[s]["execution"].of.capture.switch, a)
  BY DEF RollbackRestores, Undone
<1> DEFINE file == files[s]["execution"]
<1>1. Read(file) # None /\ file \notin {None, Torn}
  BY DEF Validations, Read
<1>2. PICK c \in Captures, skip \in Skips : MadeFrom(file, "execution", c, s, skip)
  BY <1>1 DEF Inv, FileMade, SnapshotFiles
<1>3. PICK config \in Configs : file = Made(c, skip, Records(PlanFor(c, s, skip, config)))
  BY <1>2 DEF MadeFrom, DataOf
<1>4. file.of.capture = c /\ Read(file) = Records(PlanFor(c, s, skip, config))
  BY <1>1, <1>3 DEF Made, Read
<1> HIDE DEF file
<1>5. a \in PlanFor(c, s, skip, config) /\ a.commands # {}
  BY <1>1, <1>4 DEF Validations, Records, file
<1> QED  BY <1>4, <1>5, ActionUndone DEF file

\* Every action that a dry run validated can be taken back by its own rollback,
\* for every switch and policy, also from plans of incomplete captures and after
\* commands that died (remediation.py _t_*, executor.py _validate).
THEOREM RollbackRestoresHolds == Spec => []RollbackRestores
  BY FilesMade, InvRestores, PTL

-----------------------------------------------------------------------------
(* What the inventory shows, and what a finding says. *)

\* None is no field, no row of a table and no content of a file.
Markers ==
  /\ None \notin {"on", "off"} /\ None \notin Macs
  /\ \A sw \in Switches : \A p \in DOMAIN sw.trunks : sw.trunks[p] # None
  /\ \A x, y : [admin |-> x, oper |-> y] # None
  /\ \A m, v, x, y, e, o : [ mode |-> m, vlan |-> v, status |-> x, powered |-> y,
                             poeEnabled |-> e, poeState |-> o ] # None
  /\ \A c \in Captures, skip \in Skips : [capture |-> c, skip |-> skip] # None
  /\ \A c \in Captures, s \in Snapshots, skip \in Skips :
       /\ Inventory(c, s) # None /\ Topology(Inventory(c, s)) # None
       /\ FindingsOf(c, s, skip) # None
       /\ \A config \in Configs : PlanFor(c, s, skip, config) # None
                                /\ Records(PlanFor(c, s, skip, config)) # None

\* The row of a port in an inventory.
InterfaceRow(c, p, inv) ==
  [ mode |-> c.switch.ports[p].mode, vlan |-> c.switch.ports[p].vlan,
    status |-> Status(c.switch.ports[p]), powered |-> c.switch.ports[p].powered,
    poeEnabled |-> IF p \in DOMAIN inv.power THEN inv.power[p].admin = "auto" ELSE None,
    poeState |-> IF p \in DOMAIN inv.power THEN inv.power[p].oper ELSE None ]

LEMMA InventoryParts ==
  ASSUME NEW c, NEW s
  PROVE  LET inv == Inventory(c, s) IN
         /\ inv.device = IF "running_config" \in c.saved THEN c.switch.hostname ELSE s
         /\ inv.power = [p \in Rows(c, "power_inline", DOMAIN c.switch.power) |->
                           PowerRow(c.switch.power[p])]
         /\ inv.interfaces =
              [p \in Rows(c, "interface_status", Ports) |-> InterfaceRow(c, p, inv)]
         /\ inv.trunks = [p \in Rows(c, "trunk", DOMAIN c.switch.trunks) |-> c.switch.trunks[p]]
<1> DEFINE inv == Inventory(c, s)
           power == [p \in Rows(c, "power_inline", DOMAIN c.switch.power) |->
                       PowerRow(c.switch.power[p])]
<1>1. inv.power = power
  BY DEF Inventory
<1>2. inv.interfaces =
        [p \in Rows(c, "interface_status", Ports) |->
           [ mode |-> c.switch.ports[p].mode, vlan |-> c.switch.ports[p].vlan,
             status |-> Status(c.switch.ports[p]), powered |-> c.switch.ports[p].powered,
             poeEnabled |-> IF p \in DOMAIN power THEN power[p].admin = "auto" ELSE None,
             poeState |-> IF p \in DOMAIN power THEN power[p].oper ELSE None ]]
  BY DEF Inventory
<1>3. /\ inv.device = IF "running_config" \in c.saved THEN c.switch.hostname ELSE s
      /\ inv.trunks = [p \in Rows(c, "trunk", DOMAIN c.switch.trunks) |-> c.switch.trunks[p]]
  BY DEF Inventory
<1> HIDE DEF inv, power
<1>4. inv.interfaces = [p \in Rows(c, "interface_status", Ports) |-> InterfaceRow(c, p, inv)]
  BY <1>1, <1>2 DEF InterfaceRow
<1> QED  BY <1>1, <1>3, <1>4 DEF inv, power

\* A finding of a rule at a place.
FindingOf(r, device, d) ==
  [ id |-> <<r, device, d.interface, d.vlan>>, rule |-> r, device |-> device,
    interface |-> d.interface, vlans |-> d.vlans, mac |-> d.mac,
    status |-> IF <<r, d.interface>> \in Suppressed THEN "suppressed" ELSE "open" ]

TopologyOf(c, s, skip) ==
  IF "topology" \in skip THEN None ELSE Topology(Inventory(c, s))

LEMMA FindingMade ==
  ASSUME NEW c, NEW s, NEW skip, NEW f
  PROVE  f \in FindingsOf(c, s, skip) <=>
           \E r \in ActiveRules : \E d \in Found(r, Inventory(c, s), TopologyOf(c, s, skip)) :
             f = FindingOf(r, Inventory(c, s).device, d)
<1> DEFINE inv == Inventory(c, s)
           topology == TopologyOf(c, s, skip)
<1>1. FindingsOf(c, s, skip) = Findings(inv, topology)
  BY DEF FindingsOf, TopologyOf
<1> HIDE DEF inv, topology
<1>2. Findings(inv, topology) =
        UNION {{FindingOf(r, inv.device, d) : d \in Found(r, inv, topology)} : r \in ActiveRules}
  BY DEF Findings, FindingOf
<1>3. f \in Findings(inv, topology) <=>
        \E r \in ActiveRules : \E d \in Found(r, inv, topology) : f = FindingOf(r, inv.device, d)
  BY <1>2
<1> QED  BY <1>1, <1>3 DEF inv, topology

\* Findings with one id are of one rule, device and place, and open together.
LEMMA SameId ==
  ASSUME NEW r, NEW q, NEW x, NEW y, NEW d, NEW e,
         FindingOf(r, x, d).id = FindingOf(q, y, e).id
  PROVE  /\ r = q /\ x = y /\ d.interface = e.interface /\ d.vlan = e.vlan
         /\ FindingOf(r, x, d).status = FindingOf(q, y, e).status
<1>1. /\ FindingOf(r, x, d).id = <<r, x, d.interface, d.vlan>>
      /\ FindingOf(q, y, e).id = <<q, y, e.interface, e.vlan>>
  BY DEF FindingOf
<1>2. \A a1, a2, a3, a4, b1, b2, b3, b4 :
        <<a1, a2, a3, a4>> = <<b1, b2, b3, b4>> => a1 = b1 /\ a2 = b2 /\ a3 = b3 /\ a4 = b4
  OBVIOUS
<1>3. <<r, x, d.interface, d.vlan>> = <<q, y, e.interface, e.vlan>>
  BY <1>1
<1>4. r = q /\ x = y /\ d.interface = e.interface /\ d.vlan = e.vlan
  BY ONLY <1>2, <1>3
<1> QED  BY <1>4 DEF FindingOf

\* Each rule speaks of the table it looks at.
LEMMA FoundBy ==
  ASSUME NEW inv, NEW topology
  PROVE  /\ Found("TRUNK_MISSING_REQUIRED_VLAN", inv, topology) = MissingVlans(inv)
         /\ Found("TRUNK_UNAUTHORIZED_VLAN", inv, topology) = UnauthorizedVlans(inv)
         /\ Found("UNUSED_PORT_ADMIN_UP", inv, topology) = UnusedPorts(inv)
         /\ Found("POE_DISABLED_EXPECTED", inv, topology) = Unpowered(inv)
         /\ Found("ACCESS_PORT_DISALLOWED_VLAN", inv, topology) = DisallowedVlans(inv)
         /\ Found("NATIVE_VLAN_MISMATCH", inv, topology) = NativeMismatch(inv)
         /\ Found("STP_BLOCKING_ACCESS_PORT", inv, topology) = BlockedAccess(inv)
         /\ Found("ACCESS_PORT_TOO_MANY_MACS", inv, topology) = CrowdedAccess(inv)
         /\ Found("MAC_ON_MULTIPLE_INTERFACES", inv, topology) = MovingMacs(inv)
         /\ topology # None =>
              Found("TRUNK_WITHOUT_NEIGHBOR", inv, topology) = LonelyTrunks(inv, topology)
BY DEF Found

\* The finding of a rule at a place that an action with commands is about.
About(a, c, s, skip, r, d) ==
  LET f == FindingOf(r, Inventory(c, s).device, d) IN
  /\ r \in ActiveRules \cap CommandRules
  /\ d \in Found(r, Inventory(c, s), TopologyOf(c, s, skip))
  /\ f.status = "open" /\ f \in FindingsOf(c, s, skip)
  /\ a.rule = r /\ a.finding = f.id /\ a.device = f.device /\ a.interface = d.interface
  /\ a.commands = Commands(f) /\ a.rollback = Rollback(f)

LEMMA CommandAction ==
  ASSUME NEW c, NEW s, NEW skip, NEW config, NEW a \in PlanFor(c, s, skip, config),
         a.status = "planned", a.type # "investigation"
  PROVE  \E r, d : About(a, c, s, skip, r, d)
<1>1. PICK f \in FindingsOf(c, s, skip) : f.status = "open" /\ a = ActionFor(f, config)
  BY DEF PlanFor, Plan, Open
<1>2. PICK r \in ActiveRules : \E d \in Found(r, Inventory(c, s), TopologyOf(c, s, skip)) :
        f = FindingOf(r, Inventory(c, s).device, d)
  BY FindingMade
<1>3. PICK d \in Found(r, Inventory(c, s), TopologyOf(c, s, skip)) :
        f = FindingOf(r, Inventory(c, s).device, d)
  BY <1>2
<1>4. /\ f.rule \notin InvestigationRules
      /\ a.rule = f.rule /\ a.finding = f.id /\ a.device = f.device
      /\ a.interface = f.interface /\ a.commands = Commands(f) /\ a.rollback = Rollback(f)
  BY <1>1 DEF ActionFor, Action
<1>5. f.rule = r /\ f.interface = d.interface
  BY <1>3 DEF FindingOf
<1>6. r \in CommandRules
  BY <1>4, <1>5, PolicyAssumption DEF Rules
<1> QED  BY <1>1, <1>3, <1>4, <1>5, <1>6 DEF About

-----------------------------------------------------------------------------
(* The verdicts. *)

\* From all outputs the inventory shows the whole switch.
LEMMA FullInventory ==
  ASSUME NEW c, c.saved = Outputs, NEW s
  PROVE  LET inv == Inventory(c, s) IN
         /\ inv.device = c.switch.hostname
         /\ DOMAIN inv.trunks = DOMAIN c.switch.trunks
         /\ \A p \in DOMAIN c.switch.trunks : inv.trunks[p] = c.switch.trunks[p]
         /\ DOMAIN inv.power = DOMAIN c.switch.power
         /\ \A p \in DOMAIN c.switch.power : inv.power[p] = PowerRow(c.switch.power[p])
         /\ DOMAIN inv.interfaces = Ports
         /\ \A p \in Ports : inv.interfaces[p] = InterfaceRow(c, p, inv)
<1>1. \A o \in {"running_config", "power_inline", "interface_status", "trunk"} :
        o \in c.saved /\ \A rows : Rows(c, o, rows) = rows
  BY DEF Outputs, Rows
<1> DEFINE inv == Inventory(c, s)
<1>2. /\ inv.device = c.switch.hostname
      /\ inv.trunks = [p \in DOMAIN c.switch.trunks |-> c.switch.trunks[p]]
      /\ inv.power = [p \in DOMAIN c.switch.power |-> PowerRow(c.switch.power[p])]
      /\ inv.interfaces = [p \in Ports |-> InterfaceRow(c, p, inv)]
  BY <1>1, InventoryParts
<1> HIDE DEF inv
<1>3. /\ DOMAIN inv.trunks = DOMAIN c.switch.trunks
      /\ \A p \in DOMAIN c.switch.trunks : inv.trunks[p] = c.switch.trunks[p]
  BY <1>2
<1>4. /\ DOMAIN inv.power = DOMAIN c.switch.power
      /\ \A p \in DOMAIN c.switch.power : inv.power[p] = PowerRow(c.switch.power[p])
  BY <1>2
<1>5. /\ DOMAIN inv.interfaces = Ports
      /\ \A p \in Ports : inv.interfaces[p] = InterfaceRow(c, p, inv)
  BY <1>2
<1> QED  BY <1>2, <1>3, <1>4, <1>5 DEF inv

LEMMA RowFields ==
  ASSUME NEW c, NEW p, NEW inv
  PROVE  LET row == InterfaceRow(c, p, inv)
             port == c.switch.ports[p] IN
         /\ row.mode = port.mode /\ row.vlan = port.vlan
         /\ row.status = Status(port) /\ row.powered = port.powered
         /\ row.poeEnabled = IF p \in DOMAIN inv.power THEN inv.power[p].admin = "auto" ELSE None
         /\ row.poeState = IF p \in DOMAIN inv.power THEN inv.power[p].oper ELSE None
         /\ Markers => row # None
<1> DEFINE port == c.switch.ports[p]
           e == IF p \in DOMAIN inv.power THEN inv.power[p].admin = "auto" ELSE None
           o == IF p \in DOMAIN inv.power THEN inv.power[p].oper ELSE None
           row == InterfaceRow(c, p, inv)
<1>1. row = [ mode |-> port.mode, vlan |-> port.vlan, status |-> Status(port),
              powered |-> port.powered, poeEnabled |-> e, poeState |-> o ]
  BY DEF InterfaceRow
<1> HIDE DEF row, e, o, port
<1>2. /\ row.mode = port.mode /\ row.vlan = port.vlan
      /\ row.status = Status(port) /\ row.powered = port.powered
      /\ row.poeEnabled = e /\ row.poeState = o
  BY <1>1
<1>3. Markers => row # None
  BY <1>1 DEF Markers
<1> QED  BY <1>2, <1>3 DEF row, e, o, port

\* What a finding of a rule with commands says of its port.
LEMMA CommandPlaces ==
  ASSUME NEW inv, NEW d
  PROVE  LET p == d.interface IN
         /\ d \in UnusedPorts(inv) =>
              p \in DOMAIN inv.interfaces /\ inv.interfaces[p].status = "notconnect"
         /\ d \in Unpowered(inv) =>
              /\ p \in DOMAIN inv.interfaces /\ inv.interfaces[p].powered
              /\ inv.interfaces[p].poeState # "on" \/ inv.interfaces[p].poeEnabled # TRUE
         /\ d \in MissingVlans(inv) =>
              /\ p \in DOMAIN inv.trunks /\ d.vlans = RequiredVlans \ inv.trunks[p].allowed
              /\ d.vlans # {}
         /\ d \in UnauthorizedVlans(inv) =>
              /\ p \in DOMAIN inv.trunks /\ d.vlans = inv.trunks[p].allowed \ AuthorizedVlans
              /\ d.vlans # {}
<1>1. ASSUME d \in UnusedPorts(inv)
      PROVE  /\ d.interface \in DOMAIN inv.interfaces
             /\ inv.interfaces[d.interface].status = "notconnect"
  BY <1>1 DEF UnusedPorts, Draft
<1>2. ASSUME d \in Unpowered(inv)
      PROVE  /\ d.interface \in DOMAIN inv.interfaces
             /\ inv.interfaces[d.interface].powered
             /\ \/ inv.interfaces[d.interface].poeState # "on"
                \/ inv.interfaces[d.interface].poeEnabled # TRUE
  <2>1. PICK p \in DOMAIN inv.interfaces :
          /\ inv.interfaces[p].powered
          /\ inv.interfaces[p].poeState # "on" \/ inv.interfaces[p].poeEnabled # TRUE
          /\ d = Draft(p, None, {}, None)
    BY <1>2, Zenon DEF Unpowered
  <2>2. d.interface = p
    BY <2>1 DEF Draft
  <2> QED  BY <2>1, <2>2, Zenon
<1>3. ASSUME d \in MissingVlans(inv)
      PROVE  /\ d.interface \in DOMAIN inv.trunks /\ d.vlans # {}
             /\ d.vlans = RequiredVlans \ inv.trunks[d.interface].allowed
  <2>1. PICK p \in DOMAIN inv.trunks :
          /\ ~RequiredVlans \subseteq inv.trunks[p].allowed
          /\ d = Draft(p, None, RequiredVlans \ inv.trunks[p].allowed, None)
    BY <1>3 DEF MissingVlans
  <2>2. d.interface = p /\ d.vlans = RequiredVlans \ inv.trunks[p].allowed
    BY <2>1 DEF Draft
  <2> QED  BY <2>1, <2>2
<1>4. ASSUME d \in UnauthorizedVlans(inv)
      PROVE  /\ d.interface \in DOMAIN inv.trunks /\ d.vlans # {}
             /\ d.vlans = inv.trunks[d.interface].allowed \ AuthorizedVlans
  <2>1. PICK p \in DOMAIN inv.trunks :
          /\ ~inv.trunks[p].allowed \subseteq AuthorizedVlans
          /\ d = Draft(p, None, inv.trunks[p].allowed \ AuthorizedVlans, None)
    BY <1>4 DEF UnauthorizedVlans
  <2>2. d.interface = p /\ d.vlans = inv.trunks[p].allowed \ AuthorizedVlans
    BY <2>1 DEF Draft
  <2> QED  BY <2>1, <2>2
<1> QED  BY <1>1, <1>2, <1>3, <1>4

\* The pair of captures that a sound verification compares.
Pair(b, c, bs, cs) ==
  /\ b \in Captures /\ c \in Captures /\ bs \in Skips /\ cs \in Skips
  /\ b.saved = Outputs /\ c.saved = Outputs /\ b.switch.hostname = c.switch.hostname

\* A finding of the first capture whose id the second has too is found there again.
LEMMA FoundAgain ==
  ASSUME Markers, NEW b, NEW c, NEW bs, NEW cs, Pair(b, c, bs, cs), NEW a, NEW r, NEW d,
         About(a, b, "before", bs, r, d)
  PROVE  /\ Inventory(c, "after").device = a.device
         /\ ~Resolved(a, FindingsOf(b, "before", bs), FindingsOf(c, "after", cs)) =>
              \E e \in Found(r, Inventory(c, "after"), TopologyOf(c, "after", cs)) :
                e.interface = a.interface /\ e.vlan = d.vlan
         /\ d \in Found(r, Inventory(c, "after"), TopologyOf(c, "after", cs)) =>
              ~Resolved(a, FindingsOf(b, "before", bs), FindingsOf(c, "after", cs))
<1> DEFINE f == FindingOf(r, Inventory(b, "before").device, d)
           after == FindingsOf(c, "after", cs)
           x == Inventory(b, "before").device
           y == Inventory(c, "after").device
           F == Found(r, Inventory(c, "after"), TopologyOf(c, "after", cs))
<1>1. x = y /\ a.device = x
  BY FullInventory DEF Pair, About, FindingOf
<1>2. /\ f \in FindingsOf(b, "before", bs) /\ a.finding = f.id /\ f.status = "open"
      /\ r \in ActiveRules /\ a.interface = d.interface
  BY DEF About
<1>3. /\ FindingsOf(b, "before", bs) # None /\ after # None
  BY DEF Markers, Snapshots, Pair
<1>4. Resolved(a, FindingsOf(b, "before", bs), after) <=> f.id \notin OpenIds(after)
  BY <1>2, <1>3 DEF Resolved
<1>5. ASSUME f.id \in OpenIds(after) PROVE \E e \in F : e.interface = a.interface /\ e.vlan = d.vlan
  <2>1. PICK g \in after : g.id = f.id
    BY <1>3, <1>5 DEF OpenIds, Open
  <2>2. PICK q \in ActiveRules :
          \E e \in Found(q, Inventory(c, "after"), TopologyOf(c, "after", cs)) : g = FindingOf(q, y, e)
    BY <2>1, FindingMade
  <2>3. PICK e \in Found(q, Inventory(c, "after"), TopologyOf(c, "after", cs)) :
          g = FindingOf(q, y, e)
    BY <2>2
  <2>4. FindingOf(r, x, d).id = FindingOf(q, y, e).id
    BY <2>1, <2>3
  <2>5. r = q /\ d.interface = e.interface /\ d.vlan = e.vlan
    BY <2>4, SameId
  <2> QED  BY <1>2, <2>5
<1>6. ASSUME d \in F PROVE f.id \in OpenIds(after)
  <2>1. FindingOf(r, y, d) \in after
    BY <1>2, <1>6, FindingMade
  <2>2. FindingOf(r, y, d) = f
    BY <1>1
  <2> QED  BY <1>2, <1>3, <2>1, <2>2 DEF OpenIds, Open
<1> HIDE DEF f, after, F
<1> QED  BY <1>1, <1>4, <1>5, <1>6 DEF after, F

\* The verdict on a port that should be shut down.
LEMMA PortVerdict ==
  ASSUME Markers, NEW b, NEW c, NEW bs, NEW cs, Pair(b, c, bs, cs), NEW a, NEW d,
         About(a, b, "before", bs, "UNUSED_PORT_ADMIN_UP", d)
  PROVE  LET status == JudgePort(a, Inventory(c, "after"), FindingsOf(b, "before", bs),
                                 FindingsOf(c, "after", cs)) IN
         /\ status = "passed" => Met(a, NamedVlans(a), c.switch)
         /\ status = "failed" => ~Met(a, NamedVlans(a), c.switch)
<1> DEFINE r == "UNUSED_PORT_ADMIN_UP"
           ib == Inventory(b, "before")
           ic == Inventory(c, "after")
           topology == TopologyOf(c, "after", cs)
           resolved == Resolved(a, FindingsOf(b, "before", bs), FindingsOf(c, "after", cs))
           p == a.interface
           port == c.switch.ports[p]
<1>1. /\ d \in Found(r, ib, TopologyOf(b, "before", bs)) /\ a.interface = d.interface /\ a.rule = r
  BY DEF About
<1>2. d \in UnusedPorts(ib) /\ p \in DOMAIN ib.interfaces
  BY <1>1, FoundBy, CommandPlaces
<1>3. d = Draft(p, None, {}, None)
  BY <1>1, <1>2 DEF UnusedPorts, Draft
<1>4. /\ b \in Captures /\ c \in Captures /\ b.saved = Outputs /\ c.saved = Outputs
  BY DEF Pair
<1>5. /\ DOMAIN ib.interfaces = Ports /\ DOMAIN ic.interfaces = Ports
      /\ \A q \in Ports : ic.interfaces[q] = InterfaceRow(c, q, ic)
  BY <1>4, FullInventory
<1> HIDE DEF ib, ic
<1>6. p \in Ports /\ p \in DOMAIN ic.interfaces
  BY <1>2, <1>5
<1>7. ic.interfaces[p].status = Status(port) /\ ic.interfaces[p] # None
  BY <1>5, <1>6, RowFields
<1>8. Row(a, ic, ic.interfaces) = ic.interfaces[p]
  BY <1>6, FoundAgain DEF Row, ic
<1>9. Met(a, NamedVlans(a), c.switch) <=> Status(port) # "notconnect"
  <2>1. /\ port.admin \in {"up", "down"} /\ port.linked \in BOOLEAN
        /\ port.held \in {"no", "err-disabled", "inactive"}
    BY <1>4, <1>6 DEF Captures, Switches
  <2> HIDE DEF port
  <2>2. Met(a, NamedVlans(a), c.switch) <=> (port.admin = "down" \/ port.linked \/ port.held # "no")
    BY <1>1 DEF Met, port
  <2> QED  BY <2>1, <2>2 DEF Status
<1>10. resolved => Status(port) # "notconnect"
  <2> SUFFICES ASSUME Status(port) = "notconnect" PROVE ~resolved
    OBVIOUS
  <2>1. d \in UnusedPorts(ic)
    BY <1>3, <1>6, <1>7 DEF UnusedPorts
  <2>2. d \in Found(r, ic, topology)
    BY <2>1, FoundBy
  <2> QED  BY <2>2, FoundAgain DEF ic
<1>11. ~resolved => Status(port) = "notconnect"
  <2> SUFFICES ASSUME ~resolved PROVE Status(port) = "notconnect"
    OBVIOUS
  <2>1. PICK e \in Found(r, ic, topology) : e.interface = p
    BY FoundAgain DEF ic
  <2>2. e \in UnusedPorts(ic)
    BY <2>1, FoundBy
  <2> QED  BY <1>7, <2>1, <2>2, CommandPlaces
<1> HIDE DEF resolved, port
<1>12. /\ JudgePort(a, ic, FindingsOf(b, "before", bs), FindingsOf(c, "after", cs)) = "passed" =>
            resolved \/ Status(port) \in ShowsDown
       /\ JudgePort(a, ic, FindingsOf(b, "before", bs), FindingsOf(c, "after", cs)) = "failed" =>
            ~resolved
  BY <1>7, <1>8 DEF JudgePort, resolved
<1> QED  BY <1>9, <1>10, <1>11, <1>12 DEF ic, ShowsDown

\* The verdict on a port that should power a device.
LEMMA PowerVerdict ==
  ASSUME Markers, NEW b, NEW c, NEW bs, NEW cs, Pair(b, c, bs, cs), NEW a, NEW d,
         About(a, b, "before", bs, "POE_DISABLED_EXPECTED", d)
  PROVE  LET status == JudgePower(a, Inventory(c, "after")) IN
         /\ status = "passed" => Met(a, NamedVlans(a), c.switch)
         /\ status = "failed" => ~Met(a, NamedVlans(a), c.switch)
<1> DEFINE r == "POE_DISABLED_EXPECTED"
           ib == Inventory(b, "before")
           ic == Inventory(c, "after")
           p == a.interface
           power == c.switch.power
<1>1. /\ d \in Found(r, ib, TopologyOf(b, "before", bs)) /\ a.interface = d.interface /\ a.rule = r
  BY DEF About
<1>2. p \in DOMAIN ib.interfaces
  BY <1>1, FoundBy, CommandPlaces
<1>3. /\ b \in Captures /\ c \in Captures /\ b.saved = Outputs /\ c.saved = Outputs
  BY DEF Pair
<1>4. /\ DOMAIN ib.interfaces = Ports /\ DOMAIN ic.interfaces = Ports
      /\ \A q \in Ports : ic.interfaces[q] = InterfaceRow(c, q, ic)
      /\ DOMAIN ic.power = DOMAIN power
      /\ \A q \in DOMAIN power : ic.power[q] = PowerRow(power[q])
  BY <1>3, FullInventory
<1>5. power \in Table([admin : {"auto", "never"}, draws : BOOLEAN])
  BY <1>3 DEF Captures, Switches
<1> HIDE DEF ib, ic
<1>6. p \in Ports /\ p \in DOMAIN ic.interfaces
  BY <1>2, <1>4
<1>7. Row(a, ic, ic.interfaces) = ic.interfaces[p] /\ ic.interfaces[p] # None
  <2>1. ic.interfaces[p] = InterfaceRow(c, p, ic)
    BY <1>4, <1>6
  <2> QED  BY <1>6, <2>1, FoundAgain, RowFields DEF Row, ic
<1>8. ic.interfaces[p].poeState = IF p \in DOMAIN power THEN ic.power[p].oper ELSE None
  <2>1. ic.interfaces[p] = InterfaceRow(c, p, ic)
    BY <1>4, <1>6
  <2> QED  BY <1>4, <2>1, RowFields
<1>9. Met(a, NamedVlans(a), c.switch) <=> p \in DOMAIN power /\ power[p].admin = "auto"
  BY <1>1 DEF Met
<1>10. CASE p \in DOMAIN power
  <2>1. /\ power[p].admin \in {"auto", "never"} /\ power[p].draws \in BOOLEAN
    <3>1. power \in [DOMAIN power -> [admin : {"auto", "never"}, draws : BOOLEAN]]
      BY <1>5, TableType
    <3> QED  BY <1>10, <3>1
  <2>2. /\ ic.power[p] = PowerRow(power[p]) /\ ic.power[p] # None
        /\ Row(a, ic, ic.power) = ic.power[p]
    BY <1>4, <1>10, FoundAgain DEF Row, ic, PowerRow, Markers
  <2>3. /\ ic.power[p].admin = power[p].admin /\ ic.power[p].oper \in {"on", "off"}
        /\ ic.power[p].oper = "on" => power[p].admin = "auto"
    BY <2>1, <2>2 DEF PowerRow
  <2>4. ic.interfaces[p].poeState = ic.power[p].oper /\ ic.power[p].oper # None
    BY <1>8, <1>10, <2>3 DEF Markers, PowerRow
  <2> HIDE DEF power
  <2>5. JudgePower(a, ic) =
          IF {ic.power[p].admin, ic.power[p].oper} \cap {"on", "auto"} # {} THEN "passed"
          ELSE "failed"
    <3> DEFINE tokens == {ic.power[p].admin, ic.power[p].oper}
    <3>1. {ic.power[p].admin, ic.power[p].oper} \cup {ic.power[p].oper} = tokens
          /\ tokens # {}
      OBVIOUS
    <3> HIDE DEF tokens
    <3> QED  BY <1>7, <2>2, <2>4, <3>1 DEF JudgePower, tokens
  <2> QED  BY <1>9, <1>10, <2>1, <2>3, <2>5 DEF ic
<1>11. CASE p \notin DOMAIN power
  <2>1. Row(a, ic, ic.power) = None /\ ic.interfaces[p].poeState = None
    BY <1>4, <1>8, <1>11 DEF Row
  <2>2. JudgePower(a, ic) = "failed"
    BY <1>7, <2>1 DEF JudgePower
  <2> QED  BY <1>9, <1>11, <2>2 DEF ic
<1> QED  BY <1>10, <1>11

\* The verdicts on a trunk.  An id names one finding of a port, so the goal is its VLANs.
LEMMA TrunkVerdict ==
  ASSUME Markers, NEW b, NEW c, NEW bs, NEW cs, Pair(b, c, bs, cs), NEW a, NEW d,
         NEW r \in {"TRUNK_MISSING_REQUIRED_VLAN", "TRUNK_UNAUTHORIZED_VLAN"},
         About(a, b, "before", bs, r, d)
  PROVE  LET status == JudgeTrunk(a, Inventory(c, "after"), FindingsOf(b, "before", bs)) IN
         /\ status = "passed" => Met(a, NamedVlans(a), c.switch)
         /\ status = "failed" => ~Met(a, NamedVlans(a), c.switch)
<1> DEFINE ib == Inventory(b, "before")
           ic == Inventory(c, "after")
           topology == TopologyOf(b, "before", bs)
           before == FindingsOf(b, "before", bs)
           f == FindingOf(r, ib.device, d)
           p == a.interface
           trunks == c.switch.trunks
<1>1. /\ d \in Found(r, ib, topology) /\ a.interface = d.interface /\ a.rule = r
      /\ f \in before /\ a.finding = f.id /\ a.commands = Commands(f)
  BY DEF About
<1>2. f.vlans = d.vlans /\ f.rule = r
  BY DEF FindingOf
<1>3. \A e \in Found(r, ib, topology) :
        e.vlans # {} /\ (e.interface = d.interface => e.vlans = d.vlans)
  <2> SUFFICES ASSUME NEW e \in Found(r, ib, topology)
               PROVE  e.vlans # {} /\ (e.interface = d.interface => e.vlans = d.vlans)
    OBVIOUS
  <2> HIDE DEF ib, topology
  <2>1. CASE r = "TRUNK_MISSING_REQUIRED_VLAN"
    <3>1. d \in MissingVlans(ib) /\ e \in MissingVlans(ib)
      BY <1>1, <2>1, FoundBy
    <3> QED  BY <3>1, CommandPlaces
  <2>2. CASE r = "TRUNK_UNAUTHORIZED_VLAN"
    <3>1. d \in UnauthorizedVlans(ib) /\ e \in UnauthorizedVlans(ib)
      BY <1>1, <2>2, FoundBy
    <3> QED  BY <3>1, CommandPlaces
  <2> QED  BY <2>1, <2>2
<1>4. GoalVlans(a, before) = d.vlans
  <2>1. before # None
    BY DEF Markers, Snapshots, Pair
  <2>2. ASSUME NEW g \in before, g.id = a.finding PROVE g.vlans = d.vlans
    <3>1. PICK q \in ActiveRules :
            \E e \in Found(q, ib, topology) : g = FindingOf(q, ib.device, e)
      BY FindingMade
    <3>2. PICK e \in Found(q, ib, topology) : g = FindingOf(q, ib.device, e)
      BY <3>1
    <3>3. FindingOf(r, ib.device, d).id = FindingOf(q, ib.device, e).id
      BY <1>1, <2>2, <3>2
    <3>4. r = q /\ d.interface = e.interface
      BY <3>3, SameId
    <3>5. g.vlans = e.vlans
      BY <3>2 DEF FindingOf
    <3> QED  BY <1>3, <3>4, <3>5
  <2> HIDE DEF f, before
  <2>3. UNION {g.vlans : g \in {h \in before : h.id = a.finding}} = d.vlans
    BY <1>1, <1>2, <2>2
  <2>4. d.vlans # {}
    BY <1>1, <1>3
  <2> QED  BY <2>1, <2>3, <2>4 DEF GoalVlans
<1>5. NamedVlans(a) = d.vlans
  <2>1. a.commands = {<<"vlan_add", v>> : v \in d.vlans}
        \/ a.commands = {<<"vlan_remove", v>> : v \in d.vlans}
    BY <1>1, <1>2 DEF Commands
  <2>2. PICK verb : a.commands = {<<verb, v>> : v \in d.vlans}
    BY <2>1
  <2>3. ASSUME NEW v \in d.vlans PROVE v \in NamedVlans(a)
    <3>1. <<verb, v>> \in a.commands
      BY <2>2
    <3>2. <<verb, v>>[2] = v
      OBVIOUS
    <3> QED  BY <3>1, <3>2, Zenon DEF NamedVlans
  <2>4. ASSUME NEW v \in NamedVlans(a) PROVE v \in d.vlans
    <3>1. PICK x \in a.commands : v = x[2]
      BY DEF NamedVlans
    <3>2. PICK w \in d.vlans : x = <<verb, w>>
      BY <2>2
    <3> QED  BY <3>1, <3>2
  <2> QED  BY <2>3, <2>4
<1>6. DOMAIN ic.trunks = DOMAIN trunks /\ (\A q \in DOMAIN trunks : ic.trunks[q] = trunks[q])
      /\ \A q \in DOMAIN trunks : trunks[q] # None
  <2>1. c \in Captures /\ c.saved = Outputs /\ c.switch \in Switches
    BY DEF Pair, Captures
  <2> QED  BY <2>1, FullInventory DEF Markers
<1> HIDE DEF ib, ic, topology, before, f, trunks
<1>7. Row(a, ic, ic.trunks) = IF p \in DOMAIN trunks THEN trunks[p] ELSE None
  BY <1>6, FoundAgain DEF Row, ic
<1>8. CASE p \notin DOMAIN trunks
  BY <1>7, <1>8 DEF JudgeTrunk, ic
<1>9. CASE p \in DOMAIN trunks /\ r = "TRUNK_MISSING_REQUIRED_VLAN"
  <2>1. JudgeTrunk(a, ic, before) \in
          {"unknown", IF d.vlans \subseteq trunks[p].allowed THEN "passed" ELSE "failed"}
    BY <1>1, <1>4, <1>7, <1>9 DEF JudgeTrunk
  <2>2. Met(a, NamedVlans(a), c.switch) <=> d.vlans \subseteq trunks[p].allowed
    BY <1>1, <1>5, <1>9 DEF Met, trunks
  <2> QED  BY <2>1, <2>2 DEF ic, before
<1>10. CASE p \in DOMAIN trunks /\ r = "TRUNK_UNAUTHORIZED_VLAN"
  <2>1. JudgeTrunk(a, ic, before) \in
          {"unknown", IF d.vlans \cap trunks[p].allowed = {} THEN "passed" ELSE "failed"}
    BY <1>1, <1>4, <1>7, <1>10 DEF JudgeTrunk
  <2>2. Met(a, NamedVlans(a), c.switch) <=> d.vlans \cap trunks[p].allowed = {}
    BY <1>1, <1>5, <1>10 DEF Met, trunks
  <2> QED  BY <2>1, <2>2 DEF ic, before
<1> QED  BY <1>8, <1>9, <1>10

\* A verdict on an action with commands says what is true of the second switch.
LEMMA VerdictRight ==
  ASSUME Markers, NEW b, NEW c, NEW bs, NEW cs, Pair(b, c, bs, cs), NEW config,
         NEW a \in PlanFor(b, "before", bs, config),
         a.status = "planned", a.type # "investigation"
  PROVE  LET status == Judge(a, Inventory(c, "after"), FindingsOf(b, "before", bs),
                             FindingsOf(c, "after", cs)) IN
         /\ status = "passed" => Met(a, NamedVlans(a), c.switch)
         /\ status = "failed" => ~Met(a, NamedVlans(a), c.switch)
<1>1. PICK r, d : About(a, b, "before", bs, r, d)
  BY CommandAction
<1>2. a.rule = r /\ r \in CommandRules
  BY <1>1 DEF About
<1> DEFINE ic == Inventory(c, "after")
           before == FindingsOf(b, "before", bs)
           after == FindingsOf(c, "after", cs)
<1>3. CASE r = "UNUSED_PORT_ADMIN_UP"
  <2>1. Judge(a, ic, before, after) = JudgePort(a, ic, before, after)
    BY <1>2, <1>3 DEF Judge
  <2> QED  BY <1>1, <1>3, <2>1, PortVerdict
<1>4. CASE r = "POE_DISABLED_EXPECTED"
  <2>1. Judge(a, ic, before, after) = JudgePower(a, ic)
    BY <1>2, <1>4 DEF Judge
  <2> QED  BY <1>1, <1>4, <2>1, PowerVerdict
<1>5. CASE r \in {"TRUNK_MISSING_REQUIRED_VLAN", "TRUNK_UNAUTHORIZED_VLAN"}
  <2>1. Judge(a, ic, before, after) = JudgeTrunk(a, ic, before)
    BY <1>2, <1>5 DEF Judge
  <2> QED  BY <1>1, <1>5, <2>1, TrunkVerdict
<1> QED  BY <1>2, <1>3, <1>4, <1>5 DEF CommandRules

LEMMA InvVerdicts == ASSUME Markers, Inv PROVE VerdictsTrue
<1> DEFINE file == compared["verification"]
           b == file.of["before"]["plan"]
           a == file.of["after"]["findings"]
           switch == file.of["after"]["inventory"].capture.switch
<1> SUFFICES ASSUME Read(file) # None, Sound(file.of), NEW v \in file.data,
                    v.action.type # "investigation"
             PROVE  /\ v.status = "passed" => Met(v.action, NamedVlans(v.action), switch)
                    /\ v.status = "failed" => ~Met(v.action, NamedVlans(v.action), switch)
  BY DEF VerdictsTrue
<1>1. file \notin {None, Torn}
  BY DEF Read
<1>2. b.capture \in Captures /\ a.capture \in Captures
  BY <1>1 DEF Inv, VerificationMade
<1>3. PICK config \in Configs :
         file.data = Verification(PlanFor(b.capture, "before", b.skip, config),
                                  Inventory(a.capture, "after"),
                                  FindingsOf(b.capture, "before", b.skip),
                                  FindingsOf(a.capture, "after", a.skip))
  BY <1>1 DEF Inv, VerificationMade
<1>4. /\ b.capture.saved = Outputs /\ a.capture.saved = Outputs
      /\ b.capture.switch.hostname = a.capture.switch.hostname
      /\ switch = a.capture.switch
  BY DEF Sound
<1>5. b.skip \in Skips /\ a.skip \in Skips
  BY <1>1 DEF Inv, VerificationMade
<1>6. Pair(b.capture, a.capture, b.skip, a.skip)
  BY <1>2, <1>4, <1>5 DEF Pair
<1> HIDE DEF file, b, a
<1> DEFINE plan == PlanFor(b.capture, "before", b.skip, config)
           ic == Inventory(a.capture, "after")
           before == FindingsOf(b.capture, "before", b.skip)
           after == FindingsOf(a.capture, "after", a.skip)
<1>7. plan # None
  BY <1>2, <1>5 DEF Markers, Snapshots
<1> HIDE DEF plan, ic, before, after
<1>8. PICK x \in plan : x.status = "planned"
                        /\ v = [action |-> x, status |-> Judge(x, ic, before, after)]
  BY <1>3, <1>7 DEF Verification, plan, ic, before, after
<1>9. v.action = x /\ v.status = Judge(x, ic, before, after)
  BY <1>8
<1> QED  BY <1>4, <1>6, <1>8, <1>9, VerdictRight DEF plan, ic, before, after

\* Every verdict on a command is true of the switch it was captured from, for every
\* policy and pair of switches (verification.py, remediation.py, rules.py).
THEOREM VerdictsTrueHolds == ASSUME Markers PROVE Spec => []VerdictsTrue
<1>1. Inv => VerdictsTrue
  BY InvVerdicts
<1> QED  BY <1>1, FilesMade, PTL

-----------------------------------------------------------------------------
(* A plan made from all outputs. *)

\* What a whole plan types in on a port.
CommandsOn(plan, p) ==
  UNION {a.commands : a \in {b \in plan : b.status = "planned" /\ b.interface = p}}

LEMMA AppliedAllParts ==
  ASSUME NEW sw \in Switches, NEW plan
  PROVE  LET mended == AppliedAll(sw, plan) IN
         /\ mended.hostname = sw.hostname
         /\ DOMAIN mended.trunks = DOMAIN sw.trunks /\ DOMAIN mended.power = DOMAIN sw.power
         /\ mended.trunks = [p \in DOMAIN sw.trunks |-> mended.trunks[p]]
         /\ \A p \in DOMAIN sw.trunks :
              mended.trunks[p] = TrunksAfter(sw, p, CommandsOn(plan, p))[p]
         /\ \A p \in DOMAIN sw.power : mended.power[p] = PowerAfter(sw, p, CommandsOn(plan, p))[p]
         /\ \A p \in Ports : mended.ports[p] = PortsAfter(sw, p, CommandsOn(plan, p))[p]
<1> DEFINE Step(p) == Applied(sw, p, CommandsOn(plan, p))
           trunks == [p \in DOMAIN sw.trunks |-> Step(p).trunks[p]]
           ports == [p \in DOMAIN sw.ports |-> Step(p).ports[p]]
           power == [p \in DOMAIN sw.power |-> Step(p).power[p]]
           mended == AppliedAll(sw, plan)
<1>1. mended = [sw EXCEPT !.trunks = trunks, !.ports = ports, !.power = power]
  BY DEF AppliedAll, CommandsOn
<1>2. sw = [ hostname |-> sw.hostname, ports |-> sw.ports, trunks |-> sw.trunks,
             power |-> sw.power, neighbors |-> sw.neighbors, macs |-> sw.macs,
             blocking |-> sw.blocking ]
      /\ DOMAIN sw.ports = Ports
  BY DEF Switches
<1>3. \A p : /\ Step(p).trunks = TrunksAfter(sw, p, CommandsOn(plan, p))
             /\ Step(p).ports = PortsAfter(sw, p, CommandsOn(plan, p))
             /\ Step(p).power = PowerAfter(sw, p, CommandsOn(plan, p))
  BY AppliedParts
<1> HIDE DEF mended, Step
<1>4. /\ \A p \in DOMAIN sw.trunks : trunks[p] = TrunksAfter(sw, p, CommandsOn(plan, p))[p]
      /\ \A p \in DOMAIN sw.power : power[p] = PowerAfter(sw, p, CommandsOn(plan, p))[p]
      /\ \A p \in Ports : ports[p] = PortsAfter(sw, p, CommandsOn(plan, p))[p]
  BY <1>2, <1>3
<1>5. /\ DOMAIN trunks = DOMAIN sw.trunks /\ DOMAIN power = DOMAIN sw.power
      /\ trunks = [p \in DOMAIN sw.trunks |-> trunks[p]]
  OBVIOUS
<1> HIDE DEF trunks, ports, power
<1>6. /\ mended.trunks = trunks /\ mended.ports = ports /\ mended.power = power
      /\ mended.hostname = sw.hostname
  BY <1>1, <1>2
<1> QED  BY <1>4, <1>5, <1>6 DEF mended

LEMMA AllTrunk ==
  ASSUME NEW sw \in Switches, NEW plan, NEW p \in DOMAIN sw.trunks
  PROVE  AppliedAll(sw, plan).trunks[p].allowed =
           (sw.trunks[p].allowed \cup Verb("vlan_add", CommandsOn(plan, p)))
           \ Verb("vlan_remove", CommandsOn(plan, p))
<1>1. AppliedAll(sw, plan).trunks[p] = TrunksAfter(sw, p, CommandsOn(plan, p))[p]
  <2>1. \A q \in DOMAIN sw.trunks :
          AppliedAll(sw, plan).trunks[q] = TrunksAfter(sw, q, CommandsOn(plan, q))[q]
    BY AppliedAllParts
  <2> QED  BY <2>1
<1> QED  BY <1>1 DEF TrunksAfter

LEMMA AllPort ==
  ASSUME NEW sw \in Switches, NEW plan, NEW p \in Ports,
         <<"no_shutdown", 0>> \notin CommandsOn(plan, p)
  PROVE  LET port == AppliedAll(sw, plan).ports[p] IN
         /\ port.powered = sw.ports[p].powered
         /\ Status(port) = IF <<"shutdown", 0>> \in CommandsOn(plan, p) THEN "disabled"
                           ELSE Status(sw.ports[p])
<1>1. AppliedAll(sw, plan).ports[p] = PortsAfter(sw, p, CommandsOn(plan, p))[p]
  <2>1. \A q \in Ports :
          AppliedAll(sw, plan).ports[q] = PortsAfter(sw, q, CommandsOn(plan, q))[q]
    BY AppliedAllParts
  <2> QED  BY <2>1
<1>2. sw.ports[p] \in [mode : {"access", "trunk"}, vlan : Vlans \cup {None},
                       admin : {"up", "down"}, linked : BOOLEAN, powered : BOOLEAN,
                       held : {"no", "err-disabled", "inactive"}]
      /\ p \in DOMAIN sw.ports
  BY DEF Switches
<1>3. AppliedAll(sw, plan).ports[p] =
        IF <<"shutdown", 0>> \in CommandsOn(plan, p)
          THEN [sw.ports[p] EXCEPT !.admin = "down"] ELSE sw.ports[p]
  BY <1>1, <1>2 DEF PortsAfter
<1> QED  BY <1>2, <1>3 DEF Status

LEMMA AllPower ==
  ASSUME NEW sw \in Switches, NEW plan, NEW p \in DOMAIN sw.power,
         <<"poe_never", 0>> \notin CommandsOn(plan, p)
  PROVE  LET row == AppliedAll(sw, plan).power[p] IN
         /\ sw.power[p] \in [admin : {"auto", "never"}, draws : BOOLEAN]
         /\ row.draws = sw.power[p].draws
         /\ row.admin = IF <<"poe_auto", 0>> \in CommandsOn(plan, p) THEN "auto"
                        ELSE sw.power[p].admin
<1>1. AppliedAll(sw, plan).power[p] = PowerAfter(sw, p, CommandsOn(plan, p))[p]
  <2>1. \A q \in DOMAIN sw.power :
          AppliedAll(sw, plan).power[q] = PowerAfter(sw, q, CommandsOn(plan, q))[q]
    BY AppliedAllParts
  <2> QED  BY <2>1
<1>2. sw.power[p] \in [admin : {"auto", "never"}, draws : BOOLEAN]
  <2>1. sw.power \in Table([admin : {"auto", "never"}, draws : BOOLEAN])
    BY DEF Switches
  <2> QED  BY <2>1, TableType
<1>3. AppliedAll(sw, plan).power[p] =
        IF <<"poe_auto", 0>> \in CommandsOn(plan, p)
          THEN [sw.power[p] EXCEPT !.admin = "auto"] ELSE sw.power[p]
  BY <1>1 DEF PowerAfter
<1> QED  BY <1>2, <1>3

\* A command of a plan is of a finding at its port.
LEMMA OnFinding ==
  ASSUME NEW c, NEW s, NEW skip, NEW config, NEW p,
         NEW x \in CommandsOn(PlanFor(c, s, skip, config), p)
  PROVE  \E r \in CommandRules : \E d \in Found(r, Inventory(c, s), TopologyOf(c, s, skip)) :
           d.interface = p /\ x \in Commands(FindingOf(r, Inventory(c, s).device, d))
<1>1. PICK a \in PlanFor(c, s, skip, config) :
        a.status = "planned" /\ a.interface = p /\ x \in a.commands
  BY DEF CommandsOn
<1>2. a.type # "investigation"
  <2>1. PICK f : a = ActionFor(f, config)
    BY DEF PlanFor, Plan
  <2> QED  BY <1>1, <2>1 DEF ActionFor, Action
<1>3. PICK r, d : About(a, c, s, skip, r, d)
  BY <1>1, <1>2, CommandAction
<1> QED  BY <1>1, <1>3 DEF About

\* A plan has the commands of every open finding that a template is for.
LEMMA OnHas ==
  ASSUME Markers, NEW c \in Captures, NEW s \in Snapshots, NEW skip \in Skips, NEW config,
         NEW r \in ActiveRules \cap CommandRules, r \notin DisabledTemplates \cup InvestigationOnly,
         NEW d \in Found(r, Inventory(c, s), TopologyOf(c, s, skip)),
         <<r, d.interface>> \notin Suppressed,
         r \in {"TRUNK_MISSING_REQUIRED_VLAN", "TRUNK_UNAUTHORIZED_VLAN"} => d.vlans # {}
  PROVE  Commands(FindingOf(r, Inventory(c, s).device, d))
           \subseteq CommandsOn(PlanFor(c, s, skip, config), d.interface)
<1> DEFINE f == FindingOf(r, Inventory(c, s).device, d)
<1>1. f.rule = r /\ f.status = "open" /\ f.interface = d.interface /\ f.vlans = d.vlans
  BY DEF FindingOf
<1>2. f \in FindingsOf(c, s, skip)
  BY FindingMade
<1> DEFINE a == ActionFor(f, config)
<1>3. a \in PlanFor(c, s, skip, config)
  BY <1>1, <1>2 DEF PlanFor, Plan, Open, Markers, Snapshots
<1>4. r \notin InvestigationRules
  BY DEF CommandRules, InvestigationRules
<1>5. Commands(f) # {} /\ Rollback(f) # {}
  <2>1. CASE r \in {"TRUNK_MISSING_REQUIRED_VLAN", "TRUNK_UNAUTHORIZED_VLAN"}
    <3>1. PICK v : v \in f.vlans
      BY <1>1, <2>1
    <3>2. \A verb : <<verb, v>> \in {<<verb, w>> : w \in f.vlans}
      BY <3>1
    <3> HIDE DEF f
    <3> QED  BY <1>1, <2>1, <3>2 DEF Commands, Rollback
  <2>2. CASE r \in {"UNUSED_PORT_ADMIN_UP", "POE_DISABLED_EXPECTED"}
    BY <1>1, <2>2 DEF Commands, Rollback
  <2> QED  BY <2>1, <2>2 DEF CommandRules
<1> HIDE DEF f
<1>6. a = Action(f, "template", "planned", Commands(f), Rollback(f), TRUE,
                 config.confirm, config.dryRun)
  BY <1>1, <1>4, <1>5 DEF ActionFor, Rejected
<1>7. a.status = "planned" /\ a.interface = d.interface /\ a.commands = Commands(f)
  BY <1>1, <1>6 DEF Action
<1> HIDE DEF a
<1>8. Commands(f) \subseteq CommandsOn(PlanFor(c, s, skip, config), d.interface)
  BY <1>3, <1>7 DEF CommandsOn
<1> QED  BY <1>8 DEF f

\* A plan of a full capture adds required VLANs, removes unauthorized ones, and never
\* opens a port or switches power off.
LEMMA OnBounds ==
  ASSUME NEW c, NEW s, NEW skip, NEW config, NEW p
  PROVE  LET on == CommandsOn(PlanFor(c, s, skip, config), p) IN
         /\ <<"no_shutdown", 0>> \notin on /\ <<"poe_never", 0>> \notin on
         /\ Verb("vlan_add", on) \subseteq RequiredVlans
         /\ Verb("vlan_remove", on) \cap AuthorizedVlans = {}
         /\ Verb("vlan_remove", on) # {} => AuthorizedVlans # {}
<1> DEFINE on == CommandsOn(PlanFor(c, s, skip, config), p)
           inv == Inventory(c, s)
           topology == TopologyOf(c, s, skip)
           F(r, d) == FindingOf(r, inv.device, d)
<1>1. \A x \in on : \E r \in CommandRules : \E d \in Found(r, inv, topology) : x \in Commands(F(r, d))
  BY OnFinding
<1>2. ASSUME NEW x \in on
      PROVE  \/ \E d \in MissingVlans(inv) : \E v \in d.vlans : x = <<"vlan_add", v>>
             \/ \E d \in UnauthorizedVlans(inv) : \E v \in d.vlans : x = <<"vlan_remove", v>>
             \/ x = <<"shutdown", 0>> \/ x = <<"poe_auto", 0>>
  <2>1. PICK r \in CommandRules : \E d \in Found(r, inv, topology) : x \in Commands(F(r, d))
    BY <1>1
  <2>2. PICK d \in Found(r, inv, topology) : x \in Commands(F(r, d))
    BY <2>1
  <2>3. F(r, d).rule = r /\ F(r, d).vlans = d.vlans
    BY DEF FindingOf
  <2> HIDE DEF F, inv, topology
  <2>4. CASE r = "TRUNK_MISSING_REQUIRED_VLAN"
    <3>1. d \in MissingVlans(inv)
      BY <2>4, FoundBy
    <3>2. x \in {<<"vlan_add", v>> : v \in d.vlans}
      BY <2>2, <2>3, <2>4 DEF Commands
    <3> QED  BY <3>1, <3>2
  <2>5. CASE r = "TRUNK_UNAUTHORIZED_VLAN"
    <3>1. d \in UnauthorizedVlans(inv)
      BY <2>5, FoundBy
    <3>2. x \in {<<"vlan_remove", v>> : v \in d.vlans}
      BY <2>2, <2>3, <2>5 DEF Commands
    <3> QED  BY <3>1, <3>2
  <2>6. CASE r = "UNUSED_PORT_ADMIN_UP"
    BY <2>2, <2>3, <2>6 DEF Commands
  <2>7. CASE r = "POE_DISABLED_EXPECTED"
    BY <2>2, <2>3, <2>7 DEF Commands
  <2> QED  BY <2>4, <2>5, <2>6, <2>7 DEF CommandRules
<1>3. \A d \in UnauthorizedVlans(inv) : AuthorizedVlans # {}
  BY DEF UnauthorizedVlans
<1> HIDE DEF on, inv
<1>4. <<"no_shutdown", 0>> \notin on /\ <<"poe_never", 0>> \notin on
  BY <1>2
<1>5. ASSUME NEW v \in Verb("vlan_add", on) PROVE v \in RequiredVlans
  <2>1. <<"vlan_add", v>> \in on
    BY DEF Verb
  <2>2. PICK d \in MissingVlans(inv) : v \in d.vlans
    BY <1>2, <2>1
  <2> QED  BY <2>2, CommandPlaces
<1>6. ASSUME NEW v \in Verb("vlan_remove", on) PROVE v \notin AuthorizedVlans /\ AuthorizedVlans # {}
  <2>1. <<"vlan_remove", v>> \in on
    BY DEF Verb
  <2>2. PICK d \in UnauthorizedVlans(inv) : v \in d.vlans
    BY <1>2, <2>1
  <2> QED  BY <1>3, <2>2, CommandPlaces
<1>7. /\ Verb("vlan_add", on) \subseteq RequiredVlans
      /\ Verb("vlan_remove", on) \cap AuthorizedVlans = {}
      /\ Verb("vlan_remove", on) # {} => AuthorizedVlans # {}
  BY <1>5, <1>6
<1> QED  BY <1>4, <1>7 DEF on

\* The switch after a whole plan, captured with all outputs.
Mended(c, plan) == [switch |-> AppliedAll(c.switch, plan), saved |-> Outputs]

\* A VLAN that every trunk must carry may be carried.  Without it the plan itself brings
\* findings about: it adds VLANs that are not authorized.
ConsistentPolicy == AuthorizedVlans = {} \/ RequiredVlans \subseteq AuthorizedVlans

\* The tables of the inventory of a mended switch.
LEMMA MendedInventory ==
  ASSUME NEW c \in Captures, c.saved = Outputs, NEW s, NEW plan
  PROVE  LET inv == Inventory(Mended(c, plan), s)
             mended == AppliedAll(c.switch, plan) IN
         /\ DOMAIN inv.trunks = DOMAIN c.switch.trunks
         /\ \A p \in DOMAIN c.switch.trunks : inv.trunks[p] = mended.trunks[p]
         /\ DOMAIN inv.interfaces = Ports
         /\ DOMAIN inv.power = DOMAIN c.switch.power
         /\ \A p \in DOMAIN c.switch.power : inv.power[p] = PowerRow(mended.power[p])
         /\ \A p \in Ports : inv.interfaces[p] = InterfaceRow(Mended(c, plan), p, inv)
         /\ Mended(c, plan).switch = mended
<1>1. c.switch \in Switches
  BY DEF Captures
<1>2. Mended(c, plan).switch = AppliedAll(c.switch, plan) /\ Mended(c, plan).saved = Outputs
  BY DEF Mended
<1>3. /\ DOMAIN AppliedAll(c.switch, plan).trunks = DOMAIN c.switch.trunks
      /\ DOMAIN AppliedAll(c.switch, plan).power = DOMAIN c.switch.power
  BY <1>1, AppliedAllParts
<1> QED  BY <1>2, <1>3, FullInventory

\* After the plan no trunk lacks a required VLAN, unless the rule was not to be mended.
LEMMA NoneMissing ==
  ASSUME Markers, ConsistentPolicy, NEW c \in Captures, c.saved = Outputs, NEW s \in Snapshots,
         NEW skip \in Skips, NEW config, NEW p \in DOMAIN c.switch.trunks,
         "TRUNK_MISSING_REQUIRED_VLAN" \in ActiveRules \ (DisabledTemplates \cup InvestigationOnly),
         <<"TRUNK_MISSING_REQUIRED_VLAN", p>> \notin Suppressed
  PROVE  RequiredVlans \subseteq
           AppliedAll(c.switch, PlanFor(c, s, skip, config)).trunks[p].allowed
<1> DEFINE r == "TRUNK_MISSING_REQUIRED_VLAN"
           inv == Inventory(c, s)
           plan == PlanFor(c, s, skip, config)
           on == CommandsOn(plan, p)
           allowed == c.switch.trunks[p].allowed
           d == Draft(p, None, RequiredVlans \ allowed, None)
<1>1. c.switch \in Switches /\ p \in DOMAIN inv.trunks /\ inv.trunks[p] = c.switch.trunks[p]
  BY FullInventory DEF Captures
<1>2. /\ Verb("vlan_remove", on) \cap AuthorizedVlans = {}
      /\ Verb("vlan_remove", on) # {} => AuthorizedVlans # {}
  BY OnBounds
<1>3. ASSUME NEW v \in RequiredVlans, v \notin allowed PROVE v \in Verb("vlan_add", on)
  <2>1. d \in MissingVlans(inv)
    BY <1>1, <1>3 DEF MissingVlans
  <2>2. d.interface = p /\ d.vlans = RequiredVlans \ allowed
    BY DEF Draft
  <2> HIDE DEF d, inv, allowed
  <2>3. d \in Found(r, inv, TopologyOf(c, s, skip)) /\ r \in CommandRules /\ d.vlans # {}
    BY <1>3, <2>1, <2>2, FoundBy DEF CommandRules
  <2>4. Commands(FindingOf(r, inv.device, d)) \subseteq on
    BY <2>2, <2>3, OnHas DEF inv
  <2>5. <<"vlan_add", v>> \in Commands(FindingOf(r, inv.device, d))
    <3>1. FindingOf(r, inv.device, d).rule = r /\ FindingOf(r, inv.device, d).vlans = d.vlans
      BY DEF FindingOf
    <3> QED  BY <1>3, <2>2, <3>1 DEF Commands
  <2> QED  BY <1>3, <2>4, <2>5, PolicyAssumption DEF Verb
<1>4. AppliedAll(c.switch, plan).trunks[p].allowed =
        (allowed \cup Verb("vlan_add", on)) \ Verb("vlan_remove", on)
  BY <1>1, AllTrunk
<1> HIDE DEF on, allowed, plan
<1> QED  BY <1>2, <1>3, <1>4 DEF ConsistentPolicy, plan

\* ... or carries one that is not authorized.
LEMMA NoneUnauthorized ==
  ASSUME Markers, ConsistentPolicy, NEW c \in Captures, c.saved = Outputs, NEW s \in Snapshots,
         NEW skip \in Skips, NEW config, NEW p \in DOMAIN c.switch.trunks,
         "TRUNK_UNAUTHORIZED_VLAN" \in ActiveRules \ (DisabledTemplates \cup InvestigationOnly),
         <<"TRUNK_UNAUTHORIZED_VLAN", p>> \notin Suppressed, AuthorizedVlans # {}
  PROVE  AppliedAll(c.switch, PlanFor(c, s, skip, config)).trunks[p].allowed
           \subseteq AuthorizedVlans
<1> DEFINE r == "TRUNK_UNAUTHORIZED_VLAN"
           inv == Inventory(c, s)
           plan == PlanFor(c, s, skip, config)
           on == CommandsOn(plan, p)
           allowed == c.switch.trunks[p].allowed
           d == Draft(p, None, allowed \ AuthorizedVlans, None)
<1>1. c.switch \in Switches /\ p \in DOMAIN inv.trunks /\ inv.trunks[p] = c.switch.trunks[p]
  BY FullInventory DEF Captures
<1>2. Verb("vlan_add", on) \subseteq RequiredVlans
  BY OnBounds
<1>3. ASSUME NEW v \in allowed, v \notin AuthorizedVlans PROVE v \in Verb("vlan_remove", on)
  <2>1. d \in UnauthorizedVlans(inv)
    BY <1>1, <1>3 DEF UnauthorizedVlans
  <2>2. d.interface = p /\ d.vlans = allowed \ AuthorizedVlans
    BY DEF Draft
  <2>3. v \in Vlans
    <3>1. c.switch.trunks \in Table([allowed : SUBSET Vlans, native : Vlans])
      BY <1>1 DEF Switches
    <3>2. c.switch.trunks[p] \in [allowed : SUBSET Vlans, native : Vlans]
      BY <3>1, TableType
    <3> QED  BY <1>3, <3>2
  <2> HIDE DEF d, inv, allowed
  <2>4. d \in Found(r, inv, TopologyOf(c, s, skip)) /\ r \in CommandRules /\ d.vlans # {}
    BY <1>3, <2>1, <2>2, FoundBy DEF CommandRules
  <2>5. Commands(FindingOf(r, inv.device, d)) \subseteq on
    BY <2>2, <2>4, OnHas DEF inv
  <2>6. <<"vlan_remove", v>> \in Commands(FindingOf(r, inv.device, d))
    <3>1. FindingOf(r, inv.device, d).rule = r /\ FindingOf(r, inv.device, d).vlans = d.vlans
      BY DEF FindingOf
    <3> QED  BY <1>3, <2>2, <3>1 DEF Commands
  <2> QED  BY <2>3, <2>5, <2>6 DEF Verb
<1>4. AppliedAll(c.switch, plan).trunks[p].allowed =
        (allowed \cup Verb("vlan_add", on)) \ Verb("vlan_remove", on)
  BY <1>1, AllTrunk
<1> HIDE DEF on, allowed, plan
<1> QED  BY <1>2, <1>3, <1>4 DEF ConsistentPolicy, plan

\* After the plan no port that was to be shut down is up without a link.
LEMMA NoneUnused ==
  ASSUME Markers, NEW c \in Captures, c.saved = Outputs, NEW s \in Snapshots,
         NEW skip \in Skips, NEW config, NEW p \in Ports,
         "UNUSED_PORT_ADMIN_UP" \in ActiveRules \ (DisabledTemplates \cup InvestigationOnly),
         <<"UNUSED_PORT_ADMIN_UP", p>> \notin Suppressed
  PROVE  Status(AppliedAll(c.switch, PlanFor(c, s, skip, config)).ports[p]) # "notconnect"
<1> DEFINE r == "UNUSED_PORT_ADMIN_UP"
           inv == Inventory(c, s)
           plan == PlanFor(c, s, skip, config)
           on == CommandsOn(plan, p)
           d == Draft(p, None, {}, None)
<1>1. /\ c.switch \in Switches /\ p \in DOMAIN inv.interfaces
      /\ inv.interfaces[p].status = Status(c.switch.ports[p])
  <2>1. p \in DOMAIN inv.interfaces /\ inv.interfaces[p] = InterfaceRow(c, p, inv)
    BY FullInventory
  <2> QED  BY <2>1, RowFields DEF Captures
<1>2. <<"no_shutdown", 0>> \notin on
  BY OnBounds
<1>3. Status(c.switch.ports[p]) = "notconnect" => <<"shutdown", 0>> \in on
  <2> SUFFICES ASSUME Status(c.switch.ports[p]) = "notconnect" PROVE <<"shutdown", 0>> \in on
    OBVIOUS
  <2>1. d \in UnusedPorts(inv)
    BY <1>1 DEF UnusedPorts
  <2>2. d.interface = p
    BY DEF Draft
  <2> HIDE DEF d, inv
  <2>3. d \in Found(r, inv, TopologyOf(c, s, skip)) /\ r \in CommandRules
    BY <2>1, FoundBy DEF CommandRules
  <2>4. Commands(FindingOf(r, inv.device, d)) \subseteq on
    BY <2>2, <2>3, OnHas DEF inv
  <2>5. Commands(FindingOf(r, inv.device, d)) = {<<"shutdown", 0>>}
    <3>1. FindingOf(r, inv.device, d).rule = r
      BY DEF FindingOf
    <3> QED  BY <3>1 DEF Commands
  <2> QED  BY <2>4, <2>5
<1>4. Status(AppliedAll(c.switch, plan).ports[p]) =
        IF <<"shutdown", 0>> \in on THEN "disabled" ELSE Status(c.switch.ports[p])
  BY <1>1, <1>2, AllPort
<1> QED  BY <1>3, <1>4

\* After the plan a port that should power a device does, if one draws.
LEMMA NoneUnpowered ==
  ASSUME Markers, NEW c \in Captures, c.saved = Outputs, NEW s \in Snapshots,
         NEW skip \in Skips, NEW config, NEW p \in Ports \cap DOMAIN c.switch.power,
         "POE_DISABLED_EXPECTED" \in ActiveRules \ (DisabledTemplates \cup InvestigationOnly),
         <<"POE_DISABLED_EXPECTED", p>> \notin Suppressed, c.switch.ports[p].powered
  PROVE  /\ AppliedAll(c.switch, PlanFor(c, s, skip, config)).power[p].admin = "auto"
         /\ AppliedAll(c.switch, PlanFor(c, s, skip, config)).power[p].draws
              = c.switch.power[p].draws
<1> DEFINE r == "POE_DISABLED_EXPECTED"
           inv == Inventory(c, s)
           plan == PlanFor(c, s, skip, config)
           on == CommandsOn(plan, p)
           d == Draft(p, None, {}, None)
<1>1. /\ c.switch \in Switches /\ p \in DOMAIN inv.interfaces
      /\ inv.interfaces[p].powered = c.switch.ports[p].powered
      /\ inv.interfaces[p].poeState = PowerRow(c.switch.power[p]).oper
  <2>1. /\ p \in DOMAIN inv.interfaces /\ inv.interfaces[p] = InterfaceRow(c, p, inv)
        /\ DOMAIN inv.power = DOMAIN c.switch.power
        /\ inv.power[p] = PowerRow(c.switch.power[p])
    BY FullInventory
  <2>2. c.switch \in Switches
    BY DEF Captures
  <2>3. /\ InterfaceRow(c, p, inv).powered = c.switch.ports[p].powered
        /\ InterfaceRow(c, p, inv).poeState = inv.power[p].oper
    <3> HIDE DEF inv
    <3>1. p \in DOMAIN inv.power
      BY <2>1
    <3>2. InterfaceRow(c, p, inv).powered = c.switch.ports[p].powered
      BY RowFields, Zenon
    <3>3. InterfaceRow(c, p, inv).poeState = inv.power[p].oper
      BY <3>1, RowFields
    <3> QED  BY <3>2, <3>3
  <2> QED  BY <2>1, <2>2, <2>3, Zenon
<1>2. <<"poe_never", 0>> \notin on
  BY OnBounds
<1>3. c.switch.power[p].admin = "never" => <<"poe_auto", 0>> \in on
  <2> SUFFICES ASSUME c.switch.power[p].admin = "never" PROVE <<"poe_auto", 0>> \in on
    OBVIOUS
  <2>1. PowerRow(c.switch.power[p]).oper # "on"
    BY DEF PowerRow
  <2>2. d \in Unpowered(inv)
    <3>1. inv.interfaces[p].powered /\ inv.interfaces[p].poeState # "on"
      BY <1>1, <2>1, Zenon
    <3> HIDE DEF inv
    <3> QED  BY <1>1, <3>1, Zenon DEF Unpowered
  <2>3. d.interface = p
    BY DEF Draft
  <2> HIDE DEF d, inv
  <2>4. d \in Found(r, inv, TopologyOf(c, s, skip)) /\ r \in CommandRules
    BY <2>2, FoundBy DEF CommandRules
  <2>5. Commands(FindingOf(r, inv.device, d)) \subseteq on
    BY <2>3, <2>4, OnHas DEF inv
  <2>6. Commands(FindingOf(r, inv.device, d)) = {<<"poe_auto", 0>>}
    <3>1. FindingOf(r, inv.device, d).rule = r
      BY DEF FindingOf
    <3> QED  BY <3>1 DEF Commands
  <2> QED  BY <2>5, <2>6
<1>4. LET row == AppliedAll(c.switch, plan).power[p] IN
      /\ c.switch.power[p] \in [admin : {"auto", "never"}, draws : BOOLEAN]
      /\ row.draws = c.switch.power[p].draws
      /\ row.admin = IF <<"poe_auto", 0>> \in on THEN "auto" ELSE c.switch.power[p].admin
  BY <1>1, <1>2, AllPower
<1> HIDE DEF on, plan
<1>5. c.switch.power[p].admin \in {"auto", "never"}
  BY <1>4
<1> QED  BY <1>3, <1>4, <1>5 DEF plan

\* What a finding on a mended switch can be.
LEMMA LeftOver ==
  ASSUME Markers, ConsistentPolicy, NEW c \in Captures, c.saved = Outputs, NEW s \in Snapshots,
         NEW skip \in Skips, NEW config, NEW topology,
         NEW r \in (ActiveRules \cap CommandRules) \ (DisabledTemplates \cup InvestigationOnly),
         NEW d \in Found(r, Inventory(Mended(c, PlanFor(c, s, skip, config)), s), topology),
         <<r, d.interface>> \notin Suppressed
  PROVE  LET power == AppliedAll(c.switch, PlanFor(c, s, skip, config)).power IN
         /\ r = "POE_DISABLED_EXPECTED"
         /\ d.interface \notin DOMAIN power \/ ~power[d.interface].draws
<1> DEFINE plan == PlanFor(c, s, skip, config)
           inv == Inventory(Mended(c, plan), s)
           mended == AppliedAll(c.switch, plan)
           p == d.interface
<1>1. /\ DOMAIN inv.trunks = DOMAIN c.switch.trunks
      /\ \A q \in DOMAIN c.switch.trunks : inv.trunks[q] = mended.trunks[q]
      /\ DOMAIN inv.interfaces = Ports
      /\ DOMAIN inv.power = DOMAIN c.switch.power
      /\ \A q \in DOMAIN c.switch.power : inv.power[q] = PowerRow(mended.power[q])
      /\ \A q \in Ports : inv.interfaces[q] = InterfaceRow(Mended(c, plan), q, inv)
      /\ Mended(c, plan).switch = mended
  BY MendedInventory
<1> HIDE DEF inv, mended, plan
<1>2. CASE r = "TRUNK_MISSING_REQUIRED_VLAN"
  <2>1. d \in MissingVlans(inv)
    BY <1>2, FoundBy DEF inv, plan
  <2>2. p \in DOMAIN c.switch.trunks /\ ~RequiredVlans \subseteq mended.trunks[p].allowed
    <3>1. p \in DOMAIN inv.trunks /\ RequiredVlans \ inv.trunks[p].allowed # {}
      BY <2>1, CommandPlaces
    <3>2. inv.trunks[p] = mended.trunks[p]
      BY <1>1, <3>1
    <3> QED  BY <1>1, <3>1, <3>2
  <2> QED  BY <1>2, <2>2, NoneMissing DEF mended, plan
<1>3. CASE r = "TRUNK_UNAUTHORIZED_VLAN"
  <2>1. d \in UnauthorizedVlans(inv) /\ AuthorizedVlans # {}
    <3>1. d \in UnauthorizedVlans(inv)
      BY <1>3, FoundBy DEF inv, plan
    <3> QED  BY <3>1 DEF UnauthorizedVlans
  <2>2. p \in DOMAIN c.switch.trunks /\ ~mended.trunks[p].allowed \subseteq AuthorizedVlans
    <3>1. p \in DOMAIN inv.trunks /\ inv.trunks[p].allowed \ AuthorizedVlans # {}
      BY <2>1, CommandPlaces
    <3>2. inv.trunks[p] = mended.trunks[p]
      BY <1>1, <3>1
    <3> QED  BY <1>1, <3>1, <3>2
  <2> QED  BY <1>3, <2>1, <2>2, NoneUnauthorized DEF mended, plan
<1>4. CASE r = "UNUSED_PORT_ADMIN_UP"
  <2>1. d \in UnusedPorts(inv)
    BY <1>4, FoundBy DEF inv, plan
  <2>2. p \in Ports /\ inv.interfaces[p].status = "notconnect"
    BY <1>1, <2>1, CommandPlaces
  <2>3. inv.interfaces[p].status = Status(mended.ports[p])
    BY <1>1, <2>2, RowFields
  <2> QED  BY <1>4, <2>2, <2>3, NoneUnused DEF mended, plan
<1>5. CASE r = "POE_DISABLED_EXPECTED"
  <2> SUFFICES ASSUME p \in DOMAIN mended.power, mended.power[p].draws PROVE FALSE
    BY <1>5 DEF mended, plan
  <2>1. c.switch \in Switches
    BY DEF Captures
  <2>2. DOMAIN mended.power = DOMAIN c.switch.power
    BY <2>1, AppliedAllParts DEF mended
  <2>3. d \in Unpowered(inv)
    BY <1>5, FoundBy DEF inv, plan
  <2>4. /\ p \in Ports /\ inv.interfaces[p].powered
        /\ inv.interfaces[p].poeState # "on" \/ inv.interfaces[p].poeEnabled # TRUE
    BY <1>1, <2>3, CommandPlaces, Zenon
  <2>5. /\ inv.interfaces[p].powered = mended.ports[p].powered
        /\ inv.interfaces[p].poeState = PowerRow(mended.power[p]).oper
        /\ inv.interfaces[p].poeEnabled = (PowerRow(mended.power[p]).admin = "auto")
    <3>1. inv.interfaces[p] = InterfaceRow(Mended(c, plan), p, inv)
          /\ inv.power[p] = PowerRow(mended.power[p]) /\ p \in DOMAIN inv.power
      BY <1>1, <2>2, <2>4
    <3>2. /\ InterfaceRow(Mended(c, plan), p, inv).powered = mended.ports[p].powered
          /\ InterfaceRow(Mended(c, plan), p, inv).poeState = inv.power[p].oper
          /\ InterfaceRow(Mended(c, plan), p, inv).poeEnabled = (inv.power[p].admin = "auto")
      BY <1>1, <3>1, RowFields
    <3> QED  BY <3>1, <3>2, Zenon
  <2>6. mended.ports[p].powered = c.switch.ports[p].powered
    BY <2>1, <2>4, AllPort, OnBounds DEF mended, plan
  <2>7. c.switch.ports[p].powered
    BY <2>4, <2>5, <2>6, Zenon
  <2>8. mended.power[p].admin = "auto"
    BY <1>5, <2>2, <2>4, <2>7, NoneUnpowered DEF mended, plan
  <2>9. PowerRow(mended.power[p]).oper = "on" /\ PowerRow(mended.power[p]).admin = "auto"
    BY <2>8 DEF PowerRow
  <2> QED  BY <2>4, <2>5, <2>9, Zenon
<1> QED  BY <1>2, <1>3, <1>4, <1>5 DEF CommandRules


LEMMA InvMends == ASSUME Markers, ConsistentPolicy, Inv PROVE PlanMends
<1> SUFFICES ASSUME NEW s \in Snapshots, Read(files[s]["plan"]) # None,
                    files[s]["plan"].of.capture.saved = Outputs
             PROVE  LET file == files[s]["plan"]
                        mended == AppliedAll(file.of.capture.switch, file.data)
                        inventory == Inventory([switch |-> mended, saved |-> Outputs], s) IN
                    \A f \in Open(Findings(inventory, Topology(inventory))) :
                      f.rule \in CommandRules \ (DisabledTemplates \cup InvestigationOnly) =>
                        /\ f.rule = "POE_DISABLED_EXPECTED"
                        /\ \/ f.interface \notin DOMAIN mended.power
                           \/ ~mended.power[f.interface].draws
  BY Zenon DEF PlanMends
<1> DEFINE file == files[s]["plan"]
<1>1. file \notin {None, Torn}
  BY DEF Read
<1>2. PICK c \in Captures, skip \in Skips : MadeFrom(file, "plan", c, s, skip)
  BY <1>1 DEF Inv, FileMade, SnapshotFiles
<1>3. PICK config \in Configs : file = Made(c, skip, PlanFor(c, s, skip, config))
  BY <1>2 DEF MadeFrom, DataOf
<1>4. file.of.capture = c /\ file.data = PlanFor(c, s, skip, config) /\ c.saved = Outputs
  BY <1>3 DEF Made
<1> DEFINE plan == PlanFor(c, s, skip, config)
           inventory == Inventory(Mended(c, plan), s)
           mended == AppliedAll(c.switch, plan)
<1>5. ASSUME NEW f \in Open(Findings(inventory, Topology(inventory))),
             f.rule \in CommandRules \ (DisabledTemplates \cup InvestigationOnly)
      PROVE  /\ f.rule = "POE_DISABLED_EXPECTED"
             /\ f.interface \notin DOMAIN mended.power \/ ~mended.power[f.interface].draws
  <2>1. f \in FindingsOf(Mended(c, plan), s, {}) /\ f.status = "open"
    <3>1. FindingsOf(Mended(c, plan), s, {}) = Findings(inventory, Topology(inventory))
      BY DEF FindingsOf
    <3> HIDE DEF inventory
    <3>2. f \in Findings(inventory, Topology(inventory)) /\ f.status = "open"
      BY DEF Open
    <3> QED  BY <3>1, <3>2
  <2>2. PICK r \in ActiveRules :
          \E d \in Found(r, inventory, TopologyOf(Mended(c, plan), s, {})) :
            f = FindingOf(r, inventory.device, d)
    BY <2>1, FindingMade
  <2>3. PICK d \in Found(r, inventory, TopologyOf(Mended(c, plan), s, {})) :
          f = FindingOf(r, inventory.device, d)
    BY <2>2
  <2>4. f.rule = r /\ f.interface = d.interface
        /\ f.status = IF <<r, d.interface>> \in Suppressed THEN "suppressed" ELSE "open"
    BY <2>3 DEF FindingOf
  <2>5. <<r, d.interface>> \notin Suppressed
    BY <2>1, <2>4
  <2>6. r = "POE_DISABLED_EXPECTED"
        /\ (d.interface \notin DOMAIN mended.power \/ ~mended.power[d.interface].draws)
    BY <1>4, <1>5, <2>4, <2>5, LeftOver
  <2> QED  BY <2>4, <2>6, Zenon
<1> HIDE DEF file
<1> QED  BY <1>4, <1>5, Zenon DEF file, Mended

-----------------------------------------------------------------------------
(* The shape of the state. *)

\* What may still happen is bounded.
SpentOK ==
  spent \in [changes : 0 .. MaxChanges, commands : 0 .. MaxCommands, lapses : 0 .. MaxLapses]

LEMMA SpentStep == ASSUME SpentOK, [Next]_vars PROVE SpentOK'
<1>1. /\ MaxChanges \in Nat /\ MaxCommands \in Nat /\ MaxLapses \in Nat
      /\ spent.changes \in 0 .. MaxChanges /\ spent.commands \in 0 .. MaxCommands
      /\ spent.lapses \in 0 .. MaxLapses
      /\ spent = [ changes |-> spent.changes, commands |-> spent.commands,
                   lapses |-> spent.lapses ]
  BY WorkflowAssumption DEF SpentOK
<1>2. ASSUME spent.changes < MaxChanges, spent' = [spent EXCEPT !.changes = @ + 1] PROVE SpentOK'
  <2>1. spent.changes + 1 \in 0 .. MaxChanges
    BY <1>1, <1>2
  <2>2. spent' = [ changes |-> spent.changes + 1, commands |-> spent.commands,
                   lapses |-> spent.lapses ]
    BY <1>1, <1>2
  <2> QED  BY <1>1, <2>1, <2>2 DEF SpentOK
<1>3. ASSUME NEW list, NEW end, NEW skip, Command(list, end, skip) PROVE SpentOK'
  <2> DEFINE lapse == end.written < Len(list) \/ skip # {}
             lapses == IF lapse THEN spent.lapses + 1 ELSE spent.lapses
  <2>1. /\ spent.commands < MaxCommands
        /\ lapse => spent.lapses < MaxLapses
        /\ spent' = [spent EXCEPT !.commands = @ + 1, !.lapses = IF lapse THEN @ + 1 ELSE @]
    BY <1>3 DEF Command
  <2> HIDE DEF lapse
  <2>2. spent.commands + 1 \in 0 .. MaxCommands /\ lapses \in 0 .. MaxLapses
    <3>1. spent.commands + 1 \in 0 .. MaxCommands
      BY <1>1, <2>1
    <3>2. CASE lapse
      <4>1. lapses = spent.lapses + 1 /\ spent.lapses < MaxLapses
        BY <2>1, <3>2
      <4> QED  BY <1>1, <3>1, <4>1
    <3>3. CASE ~lapse
      BY <1>1, <3>1, <3>3
    <3> QED  BY <3>2, <3>3
  <2>3. spent' = [changes |-> spent.changes, commands |-> spent.commands + 1, lapses |-> lapses]
    BY <1>1, <2>1
  <2> HIDE DEF lapses
  <2> QED  BY <1>1, <2>2, <2>3 DEF SpentOK
<1>4. CASE Change \/ Apply
  BY <1>2, <1>4 DEF Change, Apply
<1>5. CASE Compare
  BY <1>3, <1>5 DEF Compare
<1>6. ASSUME NEW s \in Snapshots, Analyze(s) \/ DryRun(s) PROVE SpentOK'
  BY <1>3, <1>6 DEF Analyze, DryRun
<1>7. ASSUME NEW s \in Snapshots, Capture(s) PROVE SpentOK'
  BY <1>7 DEF Capture, SpentOK
<1>8. CASE UNCHANGED vars
  BY <1>8 DEF vars, SpentOK
<1> QED  BY <1>4, <1>5, <1>6, <1>7, <1>8 DEF Next

LEMMA SpentBounded == Spec => []SpentOK
<1>1. Init => SpentOK
  BY WorkflowAssumption DEF Init, SpentOK
<1>2. SpentOK /\ [Next]_vars => SpentOK'
  BY SpentStep
<1> QED  BY <1>1, <1>2, PTL DEF Spec

LEMMA InvTypeOK == ASSUME Markers, Inv, SpentOK PROVE WorkflowTypeOK
<1>1. network \in Switches
  BY DEF Inv, Shape
<1>2. ASSUME NEW s \in Snapshots, captured[s] # None
      PROVE  captured[s] \in Captures /\ captured[s].saved \in Savings
  BY <1>2 DEF Inv, Shape
<1>3. ASSUME NEW s \in Snapshots, NEW f \in SnapshotFiles
      PROVE  \/ files[s][f] \in {None, Torn}
             \/ files[s][f].data # None /\ files[s][f].of.skip \in Skips
  <2> SUFFICES ASSUME files[s][f] \notin {None, Torn}
               PROVE  files[s][f].data # None /\ files[s][f].of.skip \in Skips
    OBVIOUS
  <2>1. PICK c \in Captures, skip \in Skips : MadeFrom(files[s][f], f, c, s, skip)
    BY DEF Inv, FileMade
  <2>2. PICK config \in Configs : files[s][f] = Made(c, skip, DataOf(f, c, s, skip, config))
    BY <2>1 DEF MadeFrom
  <2>3. DataOf(f, c, s, skip, config) # None
    BY DEF Markers, DataOf, SnapshotFiles
  <2> QED  BY <2>2, <2>3 DEF Made
<1>4. ASSUME NEW f \in ComparedFiles
      PROVE  \/ compared[f] \in {None, Torn}
             \/ \A s \in Snapshots : compared[f].of[s]["inventory"] # None
  BY DEF Inv, BothKnown, Markers
<1> QED  BY <1>1, <1>2, <1>3, <1>4 DEF WorkflowTypeOK, SpentOK

\* The files keep their types, whatever died; and under a consistent policy a plan made
\* from all outputs mends what it is about, for every switch (remediation.py, rules.py).
THEOREM PlansSoundHolds == ASSUME Markers, ConsistentPolicy PROVE Spec => []PlansSound
<1>1. Inv /\ SpentOK => PlansSound
  BY InvTypeOK, InvMends DEF PlansSound
<1> QED  BY <1>1, FilesMade, SpentBounded, PTL


-----------------------------------------------------------------------------
(* The differences. *)

TableNames == {"interface", "trunk", "poe", "stp"}

\* A row of a port is not the same in two inventories.
Differs(x, y, t, k) ==
  /\ k \in DOMAIN Tables(x)[t] \cup DOMAIN Tables(y)[t]
  /\ k \in DOMAIN Tables(x)[t] \cap DOMAIN Tables(y)[t] => Tables(x)[t][k] # Tables(y)[t][k]

LEMMA DiffersChanged ==
  ASSUME NEW x, NEW y, NEW t \in TableNames, NEW k, Differs(x, y, t, k)
  PROVE  <<t, k>> \in Changed(x, y) /\ <<t, k>> \in Changed(y, x)
<1> DEFINE R(b, a, n) == {<<n, q>> : q \in {p \in DOMAIN b[n] \cup DOMAIN a[n] :
                                          p \in DOMAIN b[n] \cap DOMAIN a[n] => b[n][p] # a[n][p]}}
           X == Tables(x)
           Y == Tables(y)
<1>1. Changed(x, y) = UNION {R(X, Y, n) : n \in TableNames}
      /\ Changed(y, x) = UNION {R(Y, X, n) : n \in TableNames}
  BY DEF Changed, TableNames
<1>2. /\ k \in DOMAIN X[t] \cup DOMAIN Y[t]
      /\ k \in DOMAIN X[t] \cap DOMAIN Y[t] => X[t][k] # Y[t][k]
  BY DEF Differs
<1> HIDE DEF X, Y
<1>3. <<t, k>> \in R(X, Y, t) /\ <<t, k>> \in R(Y, X, t)
  BY <1>2
<1> HIDE DEF R
<1> QED  BY <1>1, <1>3

\* The rows that the comparison has of an inventory.
LEMMA TrunkRows ==
  ASSUME NEW inv, NEW p, NEW k, k = <<inv.device, p>>
  PROVE  /\ k \in DOMAIN Tables(inv)["trunk"] <=> p \in DOMAIN inv.trunks
         /\ p \in DOMAIN inv.trunks => Tables(inv)["trunk"][k] = inv.trunks[p]
<1> DEFINE trunk == [q \in {inv.device} \X DOMAIN inv.trunks |-> inv.trunks[q[2]]]
<1>1. Tables(inv)["trunk"] = trunk
  BY DEF Tables
<1>2. DOMAIN trunk = {inv.device} \X DOMAIN inv.trunks
      /\ \A q \in {inv.device} \X DOMAIN inv.trunks : trunk[q] = inv.trunks[q[2]]
  OBVIOUS
<1>3. k[2] = p /\ (k \in {inv.device} \X DOMAIN inv.trunks <=> p \in DOMAIN inv.trunks)
  OBVIOUS
<1> HIDE DEF trunk
<1> QED  BY <1>1, <1>2, <1>3

LEMMA InterfaceRows ==
  ASSUME NEW inv, NEW p, NEW k, k = <<inv.device, p>>
  PROVE  /\ k \in DOMAIN Tables(inv)["interface"] <=> p \in DOMAIN inv.interfaces
         /\ p \in DOMAIN inv.interfaces =>
              Tables(inv)["interface"][k] =
                [i \in {"mode", "vlan", "status", "powered", "poeEnabled", "poeState"} |->
                   inv.interfaces[p][i]]
<1> DEFINE Fields == {"mode", "vlan", "status", "powered", "poeEnabled", "poeState"}
           interface == [q \in {inv.device} \X DOMAIN inv.interfaces |->
                           [i \in Fields |-> inv.interfaces[q[2]][i]]]
<1>1. Tables(inv)["interface"] = interface
  BY DEF Tables
<1> HIDE DEF Fields
<1>2. DOMAIN interface = {inv.device} \X DOMAIN inv.interfaces
      /\ \A q \in {inv.device} \X DOMAIN inv.interfaces :
           interface[q] = [i \in Fields |-> inv.interfaces[q[2]][i]]
  OBVIOUS
<1>3. k[2] = p /\ (k \in {inv.device} \X DOMAIN inv.interfaces <=> p \in DOMAIN inv.interfaces)
  OBVIOUS
<1> HIDE DEF interface
<1> QED  BY <1>1, <1>2, <1>3 DEF Fields

LEMMA BlockedRows ==
  ASSUME NEW inv, NEW p, NEW k, k = <<inv.device, p>>
  PROVE  /\ k \in DOMAIN Tables(inv)["stp"] <=> \E b \in inv.blocking : b[1] = p
         /\ (\E b \in inv.blocking : b[1] = p) =>
              Tables(inv)["stp"][k] = {b \in inv.blocking : b[1] = p}
<1> DEFINE blocked == {b[1] : b \in inv.blocking}
           stp == [q \in {inv.device} \X blocked |-> {b \in inv.blocking : b[1] = q[2]}]
<1>1. Tables(inv)["stp"] = stp
  BY DEF Tables
<1>2. p \in blocked <=> \E b \in inv.blocking : b[1] = p
  OBVIOUS
<1> HIDE DEF blocked
<1>3. DOMAIN stp = {inv.device} \X blocked
      /\ \A q \in {inv.device} \X blocked : stp[q] = {b \in inv.blocking : b[1] = q[2]}
  OBVIOUS
<1>4. k[2] = p /\ (k \in {inv.device} \X blocked <=> p \in blocked)
  OBVIOUS
<1> HIDE DEF stp
<1> QED  BY <1>1, <1>2, <1>3, <1>4

\* Ports whose rows are the same look the same to the rules.
LEMMA SameRow ==
  ASSUME NEW x, NEW y, x.device = y.device, NEW p
  PROVE  /\ ~Differs(x, y, "trunk", <<x.device, p>>) =>
              /\ p \in DOMAIN x.trunks <=> p \in DOMAIN y.trunks
              /\ p \in DOMAIN x.trunks => x.trunks[p] = y.trunks[p]
         /\ ~Differs(x, y, "interface", <<x.device, p>>) =>
              /\ p \in DOMAIN x.interfaces <=> p \in DOMAIN y.interfaces
              /\ p \in DOMAIN x.interfaces =>
                   \A i \in {"mode", "vlan", "status", "powered", "poeEnabled", "poeState"} :
                     x.interfaces[p][i] = y.interfaces[p][i]
         /\ ~Differs(x, y, "stp", <<x.device, p>>) =>
              \A b : b[1] = p => (b \in x.blocking <=> b \in y.blocking)
<1> DEFINE k == <<x.device, p>>
           Fields == {"mode", "vlan", "status", "powered", "poeEnabled", "poeState"}
<1>1. k = <<y.device, p>>
  OBVIOUS
<1>2. ASSUME ~Differs(x, y, "trunk", k)
      PROVE  /\ p \in DOMAIN x.trunks <=> p \in DOMAIN y.trunks
             /\ p \in DOMAIN x.trunks => x.trunks[p] = y.trunks[p]
  <2>1. /\ k \in DOMAIN Tables(x)["trunk"] <=> p \in DOMAIN x.trunks
        /\ p \in DOMAIN x.trunks => Tables(x)["trunk"][k] = x.trunks[p]
        /\ k \in DOMAIN Tables(y)["trunk"] <=> p \in DOMAIN y.trunks
        /\ p \in DOMAIN y.trunks => Tables(y)["trunk"][k] = y.trunks[p]
    BY <1>1, TrunkRows
  <2> QED  BY <1>2, <2>1 DEF Differs
<1>3. ASSUME ~Differs(x, y, "interface", k)
      PROVE  /\ p \in DOMAIN x.interfaces <=> p \in DOMAIN y.interfaces
             /\ p \in DOMAIN x.interfaces =>
                  \A i \in Fields : x.interfaces[p][i] = y.interfaces[p][i]
  <2>1. /\ k \in DOMAIN Tables(x)["interface"] <=> p \in DOMAIN x.interfaces
        /\ p \in DOMAIN x.interfaces =>
             Tables(x)["interface"][k] = [i \in Fields |-> x.interfaces[p][i]]
    BY InterfaceRows
  <2>2. /\ k \in DOMAIN Tables(y)["interface"] <=> p \in DOMAIN y.interfaces
        /\ p \in DOMAIN y.interfaces =>
             Tables(y)["interface"][k] = [i \in Fields |-> y.interfaces[p][i]]
    BY <1>1, InterfaceRows
  <2> HIDE DEF Fields
  <2>3. ASSUME p \in DOMAIN x.interfaces, p \in DOMAIN y.interfaces, NEW i \in Fields
        PROVE  x.interfaces[p][i] = y.interfaces[p][i]
    <3>1. Tables(x)["interface"][k] = Tables(y)["interface"][k]
      BY <1>3, <2>1, <2>2, <2>3 DEF Differs
    <3> QED  BY <2>1, <2>2, <2>3, <3>1
  <2> QED  BY <1>3, <2>1, <2>2, <2>3 DEF Differs
<1>4. ASSUME ~Differs(x, y, "stp", k), NEW b, b[1] = p
      PROVE  b \in x.blocking <=> b \in y.blocking
  <2>1. /\ k \in DOMAIN Tables(x)["stp"] <=> \E c \in x.blocking : c[1] = p
        /\ (\E c \in x.blocking : c[1] = p) =>
             Tables(x)["stp"][k] = {c \in x.blocking : c[1] = p}
    BY BlockedRows
  <2>2. /\ k \in DOMAIN Tables(y)["stp"] <=> \E c \in y.blocking : c[1] = p
        /\ (\E c \in y.blocking : c[1] = p) =>
             Tables(y)["stp"][k] = {c \in y.blocking : c[1] = p}
    BY <1>1, BlockedRows
  <2> QED  BY <1>4, <2>1, <2>2 DEF Differs
<1> QED  BY <1>2, <1>3, <1>4


\* A finding that speaks of a row, and is not found in another inventory of the
\* device, is of a port with a row that differs.
LEMMA TableCause ==
  ASSUME NEW x, NEW y, x.device = y.device, NEW tx, NEW ty,
         NEW r \in CommandRules \cup {"ACCESS_PORT_DISALLOWED_VLAN", "NATIVE_VLAN_MISMATCH",
                                      "STP_BLOCKING_ACCESS_PORT"},
         NEW d \in Found(r, x, tx),
         \A e \in Found(r, y, ty) : ~(e.interface = d.interface /\ e.vlan = d.vlan)
  PROVE  \E t \in TableNames : Differs(x, y, t, <<x.device, d.interface>>)
<1> DEFINE p == d.interface
<1> SUFFICES ASSUME \A t \in TableNames : ~Differs(x, y, t, <<x.device, p>>) PROVE FALSE
  OBVIOUS
<1>1. /\ p \in DOMAIN x.trunks <=> p \in DOMAIN y.trunks
      /\ p \in DOMAIN x.trunks => x.trunks[p] = y.trunks[p]
  BY SameRow DEF TableNames
<1>2. /\ p \in DOMAIN x.interfaces <=> p \in DOMAIN y.interfaces
      /\ p \in DOMAIN x.interfaces =>
           /\ x.interfaces[p].mode = y.interfaces[p].mode
           /\ x.interfaces[p].vlan = y.interfaces[p].vlan
           /\ x.interfaces[p].status = y.interfaces[p].status
           /\ x.interfaces[p].powered = y.interfaces[p].powered
           /\ x.interfaces[p].poeEnabled = y.interfaces[p].poeEnabled
           /\ x.interfaces[p].poeState = y.interfaces[p].poeState
  <2>1. ~Differs(x, y, "interface", <<x.device, p>>)
    BY DEF TableNames
  <2>2. /\ p \in DOMAIN x.interfaces <=> p \in DOMAIN y.interfaces
        /\ p \in DOMAIN x.interfaces =>
             \A i \in {"mode", "vlan", "status", "powered", "poeEnabled", "poeState"} :
               x.interfaces[p][i] = y.interfaces[p][i]
    BY <2>1, SameRow
  <2> QED  BY <2>2
<1>3. \A b : b[1] = p => (b \in x.blocking <=> b \in y.blocking)
  BY SameRow DEF TableNames
<1>4. \A q, v, vs, m : /\ Draft(q, v, vs, m).interface = q
                       /\ Draft(q, v, vs, m).vlan = v
  BY DEF Draft
<1>5. CASE r = "TRUNK_MISSING_REQUIRED_VLAN"
  <2>1. d \in MissingVlans(x)
    BY <1>5, FoundBy
  <2>2. PICK q \in DOMAIN x.trunks : ~RequiredVlans \subseteq x.trunks[q].allowed
                                     /\ d = Draft(q, None, RequiredVlans \ x.trunks[q].allowed, None)
    BY <2>1 DEF MissingVlans
  <2>3. q \in DOMAIN y.trunks /\ x.trunks[q] = y.trunks[q]
    BY <1>1, <1>4, <2>2
  <2>4. /\ ~RequiredVlans \subseteq y.trunks[q].allowed
        /\ d = Draft(q, None, RequiredVlans \ y.trunks[q].allowed, None)
    BY <2>2, <2>3
  <2>5. d \in MissingVlans(y)
    BY <2>3, <2>4 DEF MissingVlans
  <2> QED  BY <1>5, <2>5, FoundBy
<1>6. CASE r = "TRUNK_UNAUTHORIZED_VLAN"
  <2>1. d \in UnauthorizedVlans(x)
    BY <1>6, FoundBy
  <2>2. PICK q \in DOMAIN x.trunks :
          /\ AuthorizedVlans # {} /\ ~x.trunks[q].allowed \subseteq AuthorizedVlans
          /\ d = Draft(q, None, x.trunks[q].allowed \ AuthorizedVlans, None)
    BY <2>1 DEF UnauthorizedVlans
  <2>3. q \in DOMAIN y.trunks /\ x.trunks[q] = y.trunks[q]
    BY <1>1, <1>4, <2>2
  <2>4. /\ AuthorizedVlans # {} /\ ~y.trunks[q].allowed \subseteq AuthorizedVlans
        /\ d = Draft(q, None, y.trunks[q].allowed \ AuthorizedVlans, None)
    BY <2>2, <2>3
  <2>5. d \in UnauthorizedVlans(y)
    BY <2>3, <2>4 DEF UnauthorizedVlans
  <2> QED  BY <1>6, <2>5, FoundBy
<1>7. CASE r = "NATIVE_VLAN_MISMATCH"
  <2>1. d \in NativeMismatch(x)
    BY <1>7, FoundBy
  <2>2. PICK q \in DOMAIN x.trunks :
          /\ ExpectedNative # None /\ x.trunks[q].native # ExpectedNative
          /\ d = Draft(q, x.trunks[q].native, {}, None)
    BY <2>1 DEF NativeMismatch
  <2>3. d \in NativeMismatch(y)
    BY <1>1, <1>4, <2>2 DEF NativeMismatch
  <2> QED  BY <1>7, <2>3, FoundBy
<1>8. CASE r = "UNUSED_PORT_ADMIN_UP"
  <2>1. d \in UnusedPorts(x)
    BY <1>8, FoundBy
  <2>2. PICK q \in DOMAIN x.interfaces :
          x.interfaces[q].status = "notconnect" /\ d = Draft(q, None, {}, None)
    BY <2>1 DEF UnusedPorts
  <2>3. d \in UnusedPorts(y)
    BY <1>2, <1>4, <2>2 DEF UnusedPorts
  <2> QED  BY <1>8, <2>3, FoundBy
<1>9. CASE r = "POE_DISABLED_EXPECTED"
  <2>1. d \in Unpowered(x)
    BY <1>9, FoundBy
  <2>2. PICK q \in DOMAIN x.interfaces :
          /\ x.interfaces[q].powered
          /\ x.interfaces[q].poeState # "on" \/ x.interfaces[q].poeEnabled # TRUE
          /\ d = Draft(q, None, {}, None)
    BY <2>1, Zenon DEF Unpowered
  <2>3. q = p
    BY <1>4, <2>2
  <2>4. /\ p \in DOMAIN y.interfaces /\ y.interfaces[p].powered
        /\ y.interfaces[p].poeState # "on" \/ y.interfaces[p].poeEnabled # TRUE
        /\ d = Draft(p, None, {}, None)
    BY <1>2, <2>2, <2>3, Zenon
  <2> HIDE DEF p
  <2>5. d \in Unpowered(y)
    BY <2>4, Zenon DEF Unpowered
  <2> QED  BY <1>9, <2>5, FoundBy
<1>10. CASE r = "ACCESS_PORT_DISALLOWED_VLAN"
  <2>1. d \in DisallowedVlans(x)
    BY <1>10, FoundBy
  <2>2. PICK q \in OfMode(x, "access") :
          /\ AllowedVlans # {} /\ x.interfaces[q].vlan # None
          /\ x.interfaces[q].vlan \notin AllowedVlans
          /\ d = Draft(q, x.interfaces[q].vlan, {}, None)
    BY <2>1 DEF DisallowedVlans
  <2>3. q = p
    BY <1>4, <2>2
  <2>4. q \in OfMode(y, "access") /\ x.interfaces[q].vlan = y.interfaces[q].vlan
    BY <1>2, <2>3 DEF OfMode
  <2>5. d \in DisallowedVlans(y)
    BY <2>2, <2>4 DEF DisallowedVlans
  <2> QED  BY <1>10, <2>5, FoundBy
<1>11. CASE r = "STP_BLOCKING_ACCESS_PORT"
  <2>1. d \in BlockedAccess(x)
    BY <1>11, FoundBy
  <2>2. PICK b \in x.blocking : b[1] \in OfMode(x, "access") /\ d = Draft(b[1], b[2], {}, None)
    BY <2>1 DEF BlockedAccess
  <2>3. b[1] = p
    BY <1>4, <2>2
  <2>4. b \in y.blocking /\ b[1] \in OfMode(y, "access")
    BY <1>2, <1>3, <2>2, <2>3 DEF OfMode
  <2>5. d \in BlockedAccess(y)
    BY <2>2, <2>4 DEF BlockedAccess
  <2> QED  BY <1>11, <2>5, FoundBy
<1> QED  BY <1>5, <1>6, <1>7, <1>8, <1>9, <1>10, <1>11 DEF CommandRules

\* A finding that speaks of wiring or addresses, and is not found in another
\* inventory, has a warning that the other has not.
LEMMA WarningCause ==
  ASSUME Markers, NEW x, NEW y, Topology(x) # None, Topology(y) # None,
         NEW r \in {"ACCESS_PORT_TOO_MANY_MACS", "MAC_ON_MULTIPLE_INTERFACES",
                    "TRUNK_WITHOUT_NEIGHBOR"},
         NEW d \in Found(r, x, Topology(x)),
         \A e \in Found(r, y, Topology(y)) : ~(e.interface = d.interface /\ e.vlan = d.vlan)
  PROVE  \/ \E w \in Warnings(x) \ Warnings(y) :
              w[2] = IF d.mac = None THEN d.interface ELSE d.mac
         \/ /\ r = "ACCESS_PORT_TOO_MANY_MACS"
            /\ ~ (Cardinality(MacsOn(x, d.interface)) > TopologyMacThreshold)
<1>1. \A q, v, vs, m : /\ Draft(q, v, vs, m).interface = q /\ Draft(q, v, vs, m).vlan = v
                       /\ Draft(q, v, vs, m).mac = m
  BY DEF Draft
<1>2. \A a, b, c : <<a, b, c>>[1] = a /\ <<a, b, c>>[2] = b /\ <<a, b, c>>[3] = c
  OBVIOUS
<1>3. \A w \in Warnings(y) :
        /\ w[1] = "trunk_without_neighbor" => w[2] \in LonelyPorts(y, Links(y))
        /\ w[1] = "crowded_access_port" =>
             w[2] \in OfMode(y, "access") /\ w[3] = Cardinality(MacsOn(y, w[2]))
        /\ w[1] = "moving_mac" => w[2] \in {n \in Macs : Cardinality(PortsOf(y, n)) > 1}
  BY <1>2 DEF Warnings
<1>4. Topology(x).links = Links(x) /\ Topology(y).links = Links(y)
  BY DEF Topology
<1>5. CASE r = "TRUNK_WITHOUT_NEIGHBOR"
  <2>1. d \in LonelyTrunks(x, Topology(x))
    BY <1>5, FoundBy
  <2>2. PICK p \in LonelyPorts(x, Links(x)) : d = Draft(p, None, {}, None)
    BY <1>4, <2>1 DEF LonelyTrunks
  <2> DEFINE w == <<"trunk_without_neighbor", p, 0>>
  <2>3. w \in Warnings(x)
    BY DEF Warnings
  <2>4. p \notin LonelyPorts(y, Links(y))
    <3>1. p \in LonelyPorts(y, Links(y)) => d \in LonelyTrunks(y, Topology(y))
      BY <1>4, <2>2 DEF LonelyTrunks
    <3> QED  BY <1>5, <3>1, FoundBy
  <2>5. w[2] = p /\ w \notin Warnings(y)
    BY <1>2, <1>3, <2>4
  <2> QED  BY <1>1, <2>2, <2>3, <2>5
<1>6. CASE r = "ACCESS_PORT_TOO_MANY_MACS"
  <2>1. d \in CrowdedAccess(x)
    BY <1>6, FoundBy
  <2>2. PICK p \in {q \in OfMode(x, "access") : Cardinality(MacsOn(x, q)) > MacThreshold} :
          d = Draft(p, None, {}, None)
    BY <2>1 DEF CrowdedAccess
  <2> DEFINE n == Cardinality(MacsOn(x, p))
             w == <<"crowded_access_port", p, n>>
  <2>3. CASE n > TopologyMacThreshold
    <3>1. w \in Warnings(x)
      BY <2>2, <2>3 DEF Warnings
    <3>2. p \in OfMode(y, "access") => Cardinality(MacsOn(y, p)) # n
      <4>1. /\ p \in OfMode(y, "access")
            /\ Cardinality(MacsOn(y, p)) > MacThreshold
            => d \in CrowdedAccess(y)
        BY <2>2 DEF CrowdedAccess
      <4> QED  BY <1>6, <2>2, <4>1, FoundBy
    <3>3. w[1] = "crowded_access_port" /\ w[2] = p /\ w[3] = n
      BY <1>2
    <3>4. w \notin Warnings(y)
      <4> HIDE DEF w, n
      <4> QED  BY <1>3, <3>2, <3>3
    <3> QED  BY <1>1, <2>2, <3>1, <3>3, <3>4
  <2>4. CASE ~ (n > TopologyMacThreshold)
    BY <1>1, <1>6, <2>2, <2>4
  <2> QED  BY <2>3, <2>4
<1>7. CASE r = "MAC_ON_MULTIPLE_INTERFACES"
  <2>1. d \in MovingMacs(x)
    BY <1>7, FoundBy
  <2>2. PICK m \in {n \in Macs : Cardinality(PortsOf(x, n)) > 1} : d = Draft(None, None, {}, m)
    BY <2>1 DEF MovingMacs
  <2> DEFINE w == <<"moving_mac", m, PortsOf(x, m)>>
  <2>3. w \in Warnings(x)
    BY <2>2 DEF Warnings
  <2>4. m \notin {n \in Macs : Cardinality(PortsOf(y, n)) > 1}
    <3>1. m \in {n \in Macs : Cardinality(PortsOf(y, n)) > 1} => d \in MovingMacs(y)
      BY <2>2 DEF MovingMacs
    <3> QED  BY <1>7, <3>1, FoundBy
  <2>5. w[2] = m /\ w \notin Warnings(y)
    BY <1>2, <1>3, <2>4
  <2>6. m # None
    BY <2>2 DEF Markers
  <2> QED  BY <1>1, <2>2, <2>3, <2>5, <2>6
<1> QED  BY <1>5, <1>6, <1>7


\* A finding that is open in one snapshot only has its cause in the comparison.
LEMMA FindingExplained ==
  ASSUME Markers, NEW b \in Captures, NEW c \in Captures, NEW s \in Snapshots, NEW t \in Snapshots,
         NEW bs \in Skips, NEW cs \in Skips, "topology" \notin bs, "topology" \notin cs,
         "running_config" \in b.saved, "running_config" \in c.saved,
         b.switch.hostname = c.switch.hostname,
         NEW f \in FindingsOf(b, s, bs), f.status = "open", f.id \notin OpenIds(FindingsOf(c, t, cs))
  PROVE  LET x == Inventory(b, s)
             y == Inventory(c, t) IN
         \/ \E n \in TableNames : Differs(x, y, n, <<f.device, f.interface>>)
         \/ \E w \in Warnings(x) \ Warnings(y) :
              w[2] = IF f.mac = None THEN f.interface ELSE f.mac
         \/ BelowWarning(f, x)
<1> DEFINE x == Inventory(b, s)
           y == Inventory(c, t)
           tx == Topology(x)
           ty == Topology(y)
<1>1. x.device = y.device
  BY InventoryParts
<1>2. TopologyOf(b, s, bs) = tx /\ TopologyOf(c, t, cs) = ty /\ tx # None /\ ty # None
      /\ FindingsOf(c, t, cs) # None
  BY DEF TopologyOf, Markers
<1>3. PICK r \in ActiveRules : \E d \in Found(r, x, tx) : f = FindingOf(r, x.device, d)
  BY <1>2, FindingMade
<1>4. PICK d \in Found(r, x, tx) : f = FindingOf(r, x.device, d)
  BY <1>3
<1>5. f.device = x.device /\ f.interface = d.interface /\ f.mac = d.mac
  BY <1>4 DEF FindingOf
<1>6. ASSUME NEW e \in Found(r, y, ty), e.interface = d.interface, e.vlan = d.vlan PROVE FALSE
  <2> DEFINE g == FindingOf(r, y.device, e)
  <2>1. g \in FindingsOf(c, t, cs)
    BY <1>2, FindingMade
  <2>2. g.id = f.id /\ g.status = f.status
    BY <1>1, <1>4, <1>6 DEF FindingOf
  <2> HIDE DEF g
  <2> QED  BY <1>2, <2>1, <2>2 DEF OpenIds, Open
<1> HIDE DEF x, y, tx, ty
<1>7. CASE r \in CommandRules \cup {"ACCESS_PORT_DISALLOWED_VLAN", "NATIVE_VLAN_MISMATCH",
                                    "STP_BLOCKING_ACCESS_PORT"}
  BY <1>1, <1>5, <1>6, <1>7, TableCause DEF x, y
<1>8. CASE r \in {"ACCESS_PORT_TOO_MANY_MACS", "MAC_ON_MULTIPLE_INTERFACES",
                  "TRUNK_WITHOUT_NEIGHBOR"}
  <2>1. \/ \E w \in Warnings(x) \ Warnings(y) :
              w[2] = IF d.mac = None THEN d.interface ELSE d.mac
        \/ /\ r = "ACCESS_PORT_TOO_MANY_MACS"
           /\ ~ (Cardinality(MacsOn(x, d.interface)) > TopologyMacThreshold)
    BY <1>2, <1>6, <1>8, WarningCause DEF x, y, tx, ty
  <2>2. f.rule = r
    BY <1>4 DEF FindingOf
  <2> QED  BY <1>5, <2>1, <2>2 DEF BelowWarning, x, y
<1> QED  BY <1>7, <1>8, PolicyAssumption DEF Rules, InvestigationRules

\* Of two analyses with one device, what is known in the first is open in both, closed
\* in both, or open in the first only.
LEMMA OpenHere ==
  ASSUME NEW b, NEW c, NEW s, NEW t, NEW bs, NEW cs, NEW f \in FindingsOf(b, s, bs),
         FindingsOf(b, s, bs) # None, FindingsOf(c, t, cs) # None
  PROVE  /\ f.id \in OpenIds(FindingsOf(b, s, bs)) => f.status = "open"
         /\ f.id \in OpenIds(FindingsOf(c, t, cs)) => f.status = "open"
<1>1. ASSUME NEW d, NEW n, NEW k, FindingsOf(d, n, k) # None, f.id \in OpenIds(FindingsOf(d, n, k))
      PROVE  f.status = "open"
  <2>1. PICK g \in FindingsOf(d, n, k) : g.id = f.id /\ g.status = "open"
    BY <1>1 DEF OpenIds, Open
  <2>2. PICK q \in ActiveRules : \E e \in Found(q, Inventory(d, n), TopologyOf(d, n, k)) :
          g = FindingOf(q, Inventory(d, n).device, e)
    BY <2>1, FindingMade
  <2>3. PICK e : g = FindingOf(q, Inventory(d, n).device, e)
    BY <2>2
  <2>4. PICK r \in ActiveRules : \E h \in Found(r, Inventory(b, s), TopologyOf(b, s, bs)) :
          f = FindingOf(r, Inventory(b, s).device, h)
    BY FindingMade
  <2>5. PICK h : f = FindingOf(r, Inventory(b, s).device, h)
    BY <2>4
  <2>6. g.status = f.status
    BY <2>1, <2>3, <2>5, SameId
  <2> QED  BY <2>1, <2>6
<1> QED  BY <1>1

LEMMA InvExplains == ASSUME Markers, Inv PROVE DiffExplains
<1> DEFINE file == compared["diff"]
           Input(s, f) == file.of[s][f]
           Known(s) == Read(files[s]["findings"])
<1> SUFFICES ASSUME Read(file) # None, NEW s \in Snapshots,
                    \A t \in Snapshots :
                      /\ Input(t, "findings") # None /\ Input(t, "topology") # None
                      /\ Input(t, "findings") = Input(t, "inventory")
                      /\ Input(t, "topology") = Input(t, "inventory"),
                    Input("before", "inventory").capture.switch.hostname
                      = Input("after", "inventory").capture.switch.hostname,
                    \A t \in Snapshots : "running_config" \in Input(t, "inventory").capture.saved,
                    Origin(files[s]["findings"]) = Input(s, "findings"), Known(s) # None,
                    NEW f \in Known(s), f.id \in file.data.resolved \cup file.data.new
             PROVE  Speaks(file.data, f) \/ BelowWarning(f, Inventory(Input(s, "inventory").capture, s))
  BY DEF DiffExplains
<1> DEFINE b == file.of["before"]["inventory"]
           a == file.of["after"]["inventory"]
           ib == Inventory(b.capture, "before")
           ia == Inventory(a.capture, "after")
           fb == FindingsOf(b.capture, "before", b.skip)
           fa == FindingsOf(a.capture, "after", a.skip)
<1>1. file \notin {None, Torn} /\ \A t \in Snapshots : OneCapture(file.of[t])
  BY DEF Read, OneCapture
<1>2. /\ b.capture \in Captures /\ a.capture \in Captures
      /\ b.skip \in Skips /\ a.skip \in Skips
      /\ "topology" \notin b.skip /\ "topology" \notin a.skip
      /\ file.data = Diff(ib, ia, Topology(ib), Topology(ia), fb, fa)
  BY <1>1 DEF Inv, DiffMade
<1>3. /\ "running_config" \in b.capture.saved /\ "running_config" \in a.capture.saved
      /\ b.capture.switch.hostname = a.capture.switch.hostname
  BY DEF Snapshots
<1>4. Known(s) = IF s = "before" THEN fb ELSE fa
  <2>1. files[s]["findings"] \notin {None, Torn}
    BY DEF Read
  <2>2. PICK c \in Captures, skip \in Skips : MadeFrom(files[s]["findings"], "findings", c, s, skip)
    BY <2>1 DEF Inv, FileMade, SnapshotFiles
  <2>3. PICK config \in Configs :
          files[s]["findings"] = Made(c, skip, DataOf("findings", c, s, skip, config))
    BY <2>2 DEF MadeFrom
  <2>4. Origin(files[s]["findings"]) = [capture |-> c, skip |-> skip]
        /\ Known(s) = FindingsOf(c, s, skip)
    BY <2>1, <2>3 DEF Made, Origin, Read, DataOf
  <2>5. file.of[s]["inventory"] = [capture |-> c, skip |-> skip]
    BY <2>4
  <2>6. CASE s = "before"
    BY <2>4, <2>5, <2>6
  <2>7. CASE s = "after"
    BY <2>4, <2>5, <2>7
  <2> QED  BY <2>6, <2>7 DEF Snapshots
<1> HIDE DEF file, b, a
<1>5. /\ file.data.objects = Changed(ib, ia)
      /\ file.data.resolved = OpenIds(fb) \ OpenIds(fa) /\ file.data.new = OpenIds(fa) \ OpenIds(fb)
      /\ file.data.warnings = SymmetricDifference(Warnings(ib), Warnings(ia))
  <2>1. Topology(ib) # None /\ Topology(ia) # None
    BY <1>2 DEF Markers, Snapshots
  <2>2. Topology(ib).warnings = Warnings(ib) /\ Topology(ia).warnings = Warnings(ia)
    BY DEF Topology
  <2> HIDE DEF ib, ia, fb, fa
  <2> QED  BY <1>2, <2>1, <2>2 DEF Diff, ResolvedIds, NewIds, ChangedWarnings
<1>6. fb # None /\ fa # None
  BY <1>2 DEF Markers, Snapshots
<1>7. \/ \E n \in TableNames : \/ Differs(ib, ia, n, <<f.device, f.interface>>)
                               \/ Differs(ia, ib, n, <<f.device, f.interface>>)
      \/ \E w \in SymmetricDifference(Warnings(ib), Warnings(ia)) :
           w[2] = IF f.mac = None THEN f.interface ELSE f.mac
      \/ BelowWarning(f, Inventory(Input(s, "inventory").capture, s))
  <2>1. \A w : w \in Warnings(ib) \ Warnings(ia) \/ w \in Warnings(ia) \ Warnings(ib) =>
                 w \in SymmetricDifference(Warnings(ib), Warnings(ia))
    BY DEF SymmetricDifference
  <2>2. CASE s = "before"
    <3>1. f \in fb
      BY <1>4, <2>2
    <3>2. f.status = "open"
      BY <1>5, <1>6, <3>1, OpenHere
    <3>3. f.id \notin OpenIds(fa)
      <4>1. f.id \in OpenIds(fb)
        BY <1>6, <3>1, <3>2 DEF OpenIds, Open
      <4> QED  BY <1>5, <4>1
    <3>4. \/ \E n \in TableNames : Differs(ib, ia, n, <<f.device, f.interface>>)
          \/ \E w \in Warnings(ib) \ Warnings(ia) :
               w[2] = IF f.mac = None THEN f.interface ELSE f.mac
          \/ BelowWarning(f, ib)
      BY <1>2, <1>3, <3>1, <3>2, <3>3, FindingExplained DEF Snapshots
    <3>5. ib = Inventory(Input(s, "inventory").capture, s)
      BY <2>2 DEF b
    <3> QED  BY <2>1, <3>4, <3>5
  <2>3. CASE s = "after"
    <3>1. f \in fa
      BY <1>4, <2>3
    <3>2. f.status = "open"
      BY <1>5, <1>6, <3>1, OpenHere
    <3>3. f.id \notin OpenIds(fb)
      <4>1. f.id \in OpenIds(fa)
        BY <1>6, <3>1, <3>2 DEF OpenIds, Open
      <4> QED  BY <1>5, <4>1
    <3>4. \/ \E n \in TableNames : Differs(ia, ib, n, <<f.device, f.interface>>)
          \/ \E w \in Warnings(ia) \ Warnings(ib) :
               w[2] = IF f.mac = None THEN f.interface ELSE f.mac
          \/ BelowWarning(f, ia)
      BY <1>2, <1>3, <3>1, <3>2, <3>3, FindingExplained DEF Snapshots
    <3>5. ia = Inventory(Input(s, "inventory").capture, s)
      BY <2>3 DEF a
    <3> QED  BY <2>1, <3>4, <3>5
  <2> QED  BY <2>2, <2>3 DEF Snapshots
<1> HIDE DEF ib, ia, fb, fa
<1>8. CASE \E n \in TableNames : \/ Differs(ib, ia, n, <<f.device, f.interface>>)
                                 \/ Differs(ia, ib, n, <<f.device, f.interface>>)
  <2>1. PICK n \in TableNames : \/ Differs(ib, ia, n, <<f.device, f.interface>>)
                                \/ Differs(ia, ib, n, <<f.device, f.interface>>)
    BY <1>8
  <2>2. <<n, <<f.device, f.interface>>>> \in file.data.objects
    BY <1>5, <2>1, DiffersChanged
  <2>3. <<n, <<f.device, f.interface>>>>[2] = <<f.device, f.interface>>
    OBVIOUS
  <2> QED  BY <2>2, <2>3 DEF Speaks
<1>9. CASE \E w \in SymmetricDifference(Warnings(ib), Warnings(ia)) :
             w[2] = IF f.mac = None THEN f.interface ELSE f.mac
  BY <1>5, <1>9 DEF Speaks
<1>10. CASE BelowWarning(f, Inventory(Input(s, "inventory").capture, s))
  BY <1>10
<1> QED  BY <1>7, <1>8, <1>9, <1>10

\* A finding that appears or disappears between two analyses has its cause among the
\* changes of the same comparison, for every policy and pair of switches (diff.py).
THEOREM DiffExplainsHolds == ASSUME Markers PROVE Spec => []DiffExplains
<1>1. Inv => DiffExplains
  BY InvExplains
<1> QED  BY <1>1, FilesMade, PTL


-----------------------------------------------------------------------------
(* Sets as sequences.                                                      *)

\* The natural numbers below one another.
LessThan == {pair \in Nat \X Nat : pair[1] < pair[2]}

\* There is no infinite descent.
LEMMA LessThanFounded == IsWellFoundedOn(LessThan, Nat)
BY NatLessThanWellFounded, Zenon DEF OpToRel, LessThan

\* A set of numbers with 0 and the successors of its members has them all.
LEMMA Inductive ==
  ASSUME NEW T, T \subseteq Nat, 0 \in T, \A k \in T : k + 1 \in T
  PROVE  T = Nat
<1> SUFFICES ASSUME Nat \ T # {} PROVE FALSE
  OBVIOUS
<1>1. PICK m \in Nat \ T : \A y \in Nat \ T : ~(<<y, m>> \in LessThan)
  <2>1. Nat \ T \subseteq Nat
    OBVIOUS
  <2>2. QED
    BY <2>1, LessThanFounded, WFMin
<1>2. m - 1 \in Nat /\ <<m - 1, m>> \in LessThan
  BY DEF LessThan
<1>3. m - 1 \in T
  BY <1>1, <1>2
<1>4. (m - 1) + 1 \in T
  BY <1>3
<1>5. QED
  BY <1>1, <1>4

\* The one that is taken out of a set next.
Next1(d) == CHOOSE x \in d : TRUE

\* What has been listed of each of some sets.
Lists(it, D) == \A d \in D : it[d] = IF d = {} THEN <<>> ELSE Append(it[d \ {Next1(d)}], Next1(d))

\* The function that lists all subsets of a finite set exists.
LEMMA ListsExist ==
  ASSUME NEW S, IsFiniteSet(S)
  PROVE  \E it \in [SUBSET S -> Seq(S)] : Lists(it, SUBSET S)
<1> DEFINE Level(k) == {d \in SUBSET S : Cardinality(d) <= k}
           T == {k \in Nat : \E it \in [Level(k) -> Seq(S)] : Lists(it, Level(k))}
<1>1. \A d \in SUBSET S : IsFiniteSet(d) /\ Cardinality(d) \in Nat /\ Cardinality(d) <= Cardinality(S)
  BY FS_Subset, FS_CardinalityType
<1>2. \A d \in SUBSET S : d # {} => /\ Next1(d) \in d
                                    /\ d \ {Next1(d)} \in SUBSET S
                                    /\ Cardinality(d \ {Next1(d)}) = Cardinality(d) - 1
  BY <1>1, FS_RemoveElement DEF Next1
<1>3. 0 \in T
  <2> DEFINE it == [d \in Level(0) |-> <<>>]
  <2>1. \A d \in Level(0) : d = {}
    <3>1. \A d \in Level(0) : IsFiniteSet(d) /\ Cardinality(d) = 0
      BY <1>1
    <3>2. QED
      BY <3>1, FS_EmptySet
  <2>2. <<>> \in Seq(S)
    OBVIOUS
  <2> HIDE DEF Level
  <2>3. it \in [Level(0) -> Seq(S)] /\ Lists(it, Level(0))
    BY <2>1, <2>2 DEF Lists
  <2>4. QED
    BY <2>3
<1>4. ASSUME NEW k \in T PROVE k + 1 \in T
  <2>0. k \in Nat /\ k + 1 \in Nat
    OBVIOUS
  <2>1. PICK g \in [Level(k) -> Seq(S)] : Lists(g, Level(k))
    OBVIOUS
  <2> DEFINE it == [d \in Level(k + 1) |->
                      IF Cardinality(d) <= k THEN g[d] ELSE Append(g[d \ {Next1(d)}], Next1(d))]
  <2>2. ASSUME NEW d \in Level(k + 1), Cardinality(d) <= k
        PROVE  it[d] \in Seq(S) /\ it[d] = IF d = {} THEN <<>> ELSE Append(it[d \ {Next1(d)}], Next1(d))
    <3>1. d \in Level(k) /\ it[d] = g[d]
      BY <2>2
    <3>2. CASE d = {}
      BY <2>1, <3>1, <3>2 DEF Lists
    <3>3. CASE d # {}
      <4>1. /\ d \ {Next1(d)} \in SUBSET S /\ Cardinality(d \ {Next1(d)}) = Cardinality(d) - 1
            /\ Cardinality(d) \in Nat
        BY <1>1, <1>2, <3>3
      <4>2. Cardinality(d \ {Next1(d)}) <= k /\ d \ {Next1(d)} \in Level(k + 1)
        BY <2>0, <2>2, <4>1
      <4>3. it[d \ {Next1(d)}] = g[d \ {Next1(d)}]
        BY <4>2
      <4> HIDE DEF it, Level
      <4>4. QED
        BY <2>1, <3>1, <3>3, <4>3 DEF Lists
    <3>4. QED
      BY <3>2, <3>3
  <2>3. ASSUME NEW d \in Level(k + 1), ~(Cardinality(d) <= k)
        PROVE  it[d] \in Seq(S) /\ it[d] = IF d = {} THEN <<>> ELSE Append(it[d \ {Next1(d)}], Next1(d))
    <3>1. d \in SUBSET S /\ Cardinality(d) = k + 1
      BY <1>1, <2>0, <2>3
    <3>2. d # {}
      <4>1. Cardinality({}) = 0 /\ k + 1 # 0
        BY <2>0, FS_EmptySet
      <4>2. QED
        BY <3>1, <4>1
    <3>3. Next1(d) \in S /\ d \ {Next1(d)} \in SUBSET S /\ Cardinality(d \ {Next1(d)}) = k
      BY <1>2, <2>0, <3>1, <3>2
    <3>4. d \ {Next1(d)} \in Level(k) /\ d \ {Next1(d)} \in Level(k + 1) /\ Cardinality(d \ {Next1(d)}) <= k
      BY <2>0, <3>3
    <3>5. it[d \ {Next1(d)}] = g[d \ {Next1(d)}] /\ it[d] = Append(g[d \ {Next1(d)}], Next1(d))
      BY <2>3, <3>4
    <3>6. g[d \ {Next1(d)}] \in Seq(S)
      BY <3>4
    <3> HIDE DEF it, Level
    <3>7. QED
      BY <3>2, <3>3, <3>5, <3>6
  <2>4. it \in [Level(k + 1) -> Seq(S)]
    <3>1. \A d \in Level(k + 1) : it[d] \in Seq(S)
      <4> HIDE DEF it, Level
      <4>1. QED
        BY <2>2, <2>3
    <3>2. it = [d \in Level(k + 1) |-> it[d]]
      OBVIOUS
    <3> HIDE DEF it, Level
    <3>3. QED
      BY <3>1, <3>2
  <2>5. Lists(it, Level(k + 1))
    <3> HIDE DEF it, Level
    <3>1. QED
      BY <2>2, <2>3 DEF Lists
  <2> HIDE DEF it, Level
  <2>6. QED
    BY <2>0, <2>4, <2>5
<1>5. T = Nat
  <2>1. T \subseteq Nat
    OBVIOUS
  <2> HIDE DEF T
  <2>2. QED
    BY <1>3, <1>4, <2>1, Inductive
<1>6. Cardinality(S) \in T
  <2> HIDE DEF T
  <2>1. QED
    BY <1>5, FS_CardinalityType
<1>7. Level(Cardinality(S)) = SUBSET S
  BY <1>1
<1> HIDE DEF Level
<1>8. QED
  BY <1>6, <1>7

\* A finite set is listed as a sequence of its elements.
LEMMA ListedFacts ==
  ASSUME NEW S, IsFiniteSet(S)
  PROVE  Listed(S) \in Seq(S)
<1> DEFINE All(it) == it = [d \in SUBSET S |-> IF d = {} THEN <<>>
                                               ELSE Append(it[d \ {CHOOSE x \in d : TRUE}], CHOOSE x \in d : TRUE)]
           it == CHOOSE it : All(it)
<1>1. PICK g \in [SUBSET S -> Seq(S)] : Lists(g, SUBSET S)
  BY ListsExist
<1>2. All(g)
  <2>1. \A d \in SUBSET S : g[d] = IF d = {} THEN <<>>
                                   ELSE Append(g[d \ {CHOOSE x \in d : TRUE}], CHOOSE x \in d : TRUE)
    BY <1>1 DEF Lists, Next1
  <2>2. g = [d \in SUBSET S |-> g[d]]
    OBVIOUS
  <2>3. QED
    BY <2>1, <2>2
<1>3. All(it)
  BY <1>2
<1>4. Listed(S) = it[S]
  BY DEF Listed, FoldSet, MapThenFoldSet
<1> DEFINE n == Cardinality(S)
           T == {k \in Nat : \A d \in SUBSET S : Cardinality(d) <= k => it[d] \in Seq(S)}
<1>5. \A d \in SUBSET S : IsFiniteSet(d) /\ Cardinality(d) \in Nat
  BY FS_Subset, FS_CardinalityType
<1> HIDE DEF it
<1>6. \A d \in SUBSET S : it[d] = IF d = {} THEN <<>>
                                  ELSE Append(it[d \ {Next1(d)}], Next1(d))
  BY <1>3 DEF Next1
<1> HIDE DEF All
<1>6a. it[{}] \in Seq(S)
  <2>1. {} \in SUBSET S /\ <<>> \in Seq(S)
    OBVIOUS
  <2>2. it[{}] = <<>>
    BY <1>6, <2>1, Zenon
  <2>3. QED
    BY <2>1, <2>2, Zenon
<1>7. 0 \in T
  <2>1. \A d \in SUBSET S : Cardinality(d) <= 0 => d = {}
    <3>1. \A d \in SUBSET S : Cardinality(d) <= 0 => IsFiniteSet(d) /\ Cardinality(d) = 0
      BY <1>5
    <3>2. QED
      BY <3>1, FS_EmptySet
  <2>2. QED
    BY <1>6a, <2>1
<1>8. ASSUME NEW k \in T PROVE k + 1 \in T
  <2>1. k \in Nat /\ k + 1 \in Nat
    OBVIOUS
  <2> SUFFICES ASSUME NEW d \in SUBSET S, Cardinality(d) <= k + 1 PROVE it[d] \in Seq(S)
    BY <2>1
  <2>2. CASE d = {}
    BY <1>6a, <2>2
  <2>3. CASE d # {}
    <3>1. Next1(d) \in d /\ d \ {Next1(d)} \in SUBSET S
      BY <2>3 DEF Next1
    <3>2. Cardinality(d \ {Next1(d)}) = Cardinality(d) - 1 /\ Cardinality(d) \in Nat
      BY <1>5, <3>1, FS_RemoveElement
    <3>3. it[d \ {Next1(d)}] \in Seq(S)
      BY <2>1, <3>1, <3>2
    <3>4. it[d] = Append(it[d \ {Next1(d)}], Next1(d))
      BY <1>6, <2>3, Zenon
    <3>5. Next1(d) \in S
      BY <3>1
    <3>6. Append(it[d \ {Next1(d)}], Next1(d)) \in Seq(S)
      BY <3>3, <3>5
    <3>7. QED
      BY <3>4, <3>6, Zenon
  <2>4. QED
    BY <2>2, <2>3
<1>9. T = Nat
  <2>1. T \subseteq Nat
    OBVIOUS
  <2> HIDE DEF T
  <2>2. QED
    BY <1>7, <1>8, <2>1, Inductive
<1>10. n \in T /\ n <= n
  <2>1. n \in Nat
    BY FS_CardinalityType
  <2> HIDE DEF T
  <2>2. QED
    BY <1>9, <2>1
<1>11. it[S] \in Seq(S)
  BY <1>10
<1>12. QED
  BY <1>4, <1>11

-----------------------------------------------------------------------------
(* Events.                                                                 *)

EventOK(e) ==
  /\ e.type \in Types /\ e.engine \in Engines /\ e.severity \in DOMAIN SeverityRank
  /\ e.category \in SyslogCategories /\ e.at \in Nat \cup {None}
  /\ e.incident # None => e.type = "correlation_incident"

\* A sequence of events the monitoring knows how to count.
EventSeq(s) == s \in Seq(ToSet(s)) /\ \A n \in DOMAIN s : EventOK(s[n])

\* A sequence of anything is a sequence of its elements.
LEMMA OwnElements ==
  ASSUME NEW S, NEW s \in Seq(S)
  PROVE  s \in Seq(ToSet(s)) /\ DOMAIN s = 1..Len(s) /\ Len(s) \in Nat
BY DEF ToSet

LEMMA Joined ==
  ASSUME NEW S, NEW s \in Seq(S), NEW t \in Seq(S)
  PROVE  /\ s \o t \in Seq(S) /\ Len(s \o t) = Len(s) + Len(t) /\ Len(s) \in Nat /\ Len(t) \in Nat
         /\ \A i \in 1..Len(s) : i \in DOMAIN (s \o t) /\ (s \o t)[i] = s[i]
OBVIOUS

LEMMA EventSeqIntro ==
  ASSUME NEW n \in Nat, NEW s, s = [i \in 1..n |-> s[i]], \A i \in 1..n : EventOK(s[i])
  PROVE  EventSeq(s) /\ Len(s) = n
<1>1. DOMAIN s = 1..n
  OBVIOUS
<1>2. s \in [1..n -> ToSet(s)]
  BY <1>1 DEF ToSet
<1>3. s \in Seq(ToSet(s)) /\ Len(s) = n
  BY <1>2
<1>4. QED
  BY <1>1, <1>3 DEF EventSeq

LEMMA EventSeqJoin ==
  ASSUME NEW s, EventSeq(s), NEW t, EventSeq(t)
  PROVE  EventSeq(s \o t) /\ Len(s \o t) = Len(s) + Len(t) /\ Len(s) \in Nat /\ Len(t) \in Nat
<1> DEFINE A == ToSet(s) \cup ToSet(t)
<1>1. s \in Seq(A) /\ t \in Seq(A)
  BY DEF EventSeq
<1> HIDE DEF A
<1>2. s \o t \in Seq(A) /\ Len(s \o t) = Len(s) + Len(t) /\ Len(s) \in Nat /\ Len(t) \in Nat
  BY <1>1
<1>3. /\ DOMAIN (s \o t) = 1..(Len(s) + Len(t)) /\ DOMAIN s = 1..Len(s) /\ DOMAIN t = 1..Len(t)
      /\ \A i \in 1..(Len(s) + Len(t)) : (s \o t)[i] = IF i <= Len(s) THEN s[i] ELSE t[i - Len(s)]
  BY <1>1
<1>4. ASSUME NEW i \in DOMAIN (s \o t) PROVE EventOK((s \o t)[i])
  <2>1. i \in Int /\ i >= 1 /\ i <= Len(s) + Len(t)
    BY <1>2, <1>3
  <2>2. CASE i <= Len(s)
    <3>1. i \in DOMAIN s /\ (s \o t)[i] = s[i]
      BY <1>2, <1>3, <2>1, <2>2
    <3>2. QED
      BY <3>1 DEF EventSeq
  <2>3. CASE ~(i <= Len(s))
    <3>1. i - Len(s) \in DOMAIN t /\ (s \o t)[i] = t[i - Len(s)]
      BY <1>2, <1>3, <2>1, <2>3
    <3>2. QED
      BY <3>1 DEF EventSeq
  <2>4. QED
    BY <2>2, <2>3
<1>5. QED
  BY <1>2, <1>4, OwnElements DEF EventSeq

LEMMA NoEvents == EventSeq(<<>>) /\ Len(<<>>) = 0
BY EventSeqIntro DEF EventSeq

\* An event with nothing out of the ordinary.
LEMMA EventMade ==
  ASSUME NEW type \in Types, NEW engine \in Engines, NEW entity, NEW severity \in DOMAIN SeverityRank,
         NEW at \in Nat \cup {None}
  PROVE  /\ EventOK(Event(type, engine, entity, severity, at))
         /\ \A d : EventOK([Event(type, engine, entity, severity, at) EXCEPT !.device = d])
         /\ \A c \in SyslogCategories :
              /\ EventOK([Event(type, engine, entity, severity, at) EXCEPT !.category = c])
              /\ \A d : EventOK([Event(type, engine, entity, severity, at) EXCEPT !.device = d, !.category = c])
<1>1. "other" \in SyslogCategories
  BY DEF SyslogCategories
<1>2. QED
  BY <1>1 DEF EventOK, Event

LEMMA IncidentEventOK ==
  ASSUME NEW i, i.severity \in DOMAIN SeverityRank, NEW at \in Nat \cup {None}
  PROVE  EventOK(IncidentEvent(i, at))
<1>1. /\ "other" \in SyslogCategories /\ "correlation_incident" \in Types /\ "correlation" \in Engines
  BY DEF SyslogCategories, Types, Engines
<1>2. QED
  BY <1>1 DEF EventOK, Event, IncidentEvent

\* The events made of a listed set.
LEMMA ListedRange ==
  ASSUME NEW S, IsFiniteSet(S)
  PROVE  \E n \in Nat : DOMAIN Listed(S) = 1..n /\ \A i \in 1..n : Listed(S)[i] \in S
<1>1. Listed(S) \in Seq(S)
  BY ListedFacts
<1>2. DOMAIN Listed(S) = 1..Len(Listed(S)) /\ Len(Listed(S)) \in Nat /\ \A i \in 1..Len(Listed(S)) : Listed(S)[i] \in S
  BY <1>1
<1>3. QED
  BY <1>2

\* What a view says of findings, warnings and commands can be made events of.
ViewOK(file, content) ==
  /\ file = "findings_view" => IsFiniteSet(content) /\ \A f \in content : f.severity \in DOMAIN SeverityRank
  /\ file = "topology_view" => IsFiniteSet(content.warnings) /\ \A w \in content.warnings : w.severity = "warning"
  /\ file = "remediation_view" => IsFiniteSet(content.commands)
IncidentsOK(incidents) == IsFiniteSet(incidents) /\ \A i \in incidents : i.severity \in DOMAIN SeverityRank

ViewFileOK(file, v) == Readable(v) => v.at \in Nat /\ ViewOK(file, v.content)
ReportFileOK(file, v) ==
  Readable(v) => /\ file = "incidents" => IncidentsOK(v)
                 /\ file = "correlation_summary" => v.at \in Nat

\* The files of a collection, as far as they have been read.
CollectedOK(c) ==
  /\ \A file \in {"correlation_summary", "incidents"} : ReportFileOK(file, c[file])
  /\ \A file \in {"topology_view", "findings_view", "remediation_view", "export_metadata"} : ViewFileOK(file, c[file])

LEMMA TypeNames ==
  /\ {"cyber_alert", "health_anomaly", "config_finding", "topology_warning", "remediation_plan",
      "correlation_incident", "safety_status", "system_status"} = Types
  /\ {"engine_a", "engine_b", "engine_c", "correlation", "syslog", "system"} = Engines
  /\ {"critical", "high", "medium", "low", "info"} = DOMAIN SeverityRank
BY DEF Types, Engines, SeverityRank

LEMMA SystemEventsOK ==
  ASSUME NEW t \in Nat
  PROVE  EventSeq(SystemEvents(t)) /\ Len(SystemEvents(t)) = 2
<1> DEFINE a == Event("system_status", "system", "stream", "info", t)
           b == Event("safety_status", "system", "safety", "info", t)
<1>1. EventOK(a) /\ EventOK(b)
  BY TypeNames, EventMade
<1> HIDE DEF a, b
<1>2. EventSeq(<<a, b>>) /\ Len(<<a, b>>) = 2
  <2>1. <<a, b>> = [i \in 1..2 |-> <<a, b>>[i]] /\ \A i \in 1..2 : EventOK(<<a, b>>[i])
    BY <1>1
  <2>2. QED
    BY <2>1, EventSeqIntro
<1>3. QED
  BY <1>2 DEF SystemEvents, a, b

LEMMA CorrelationEventsOK ==
  ASSUME NEW summary, ReportFileOK("correlation_summary", summary),
         NEW incidents, ReportFileOK("incidents", incidents)
  PROVE  EventSeq(CorrelationEvents(summary, incidents))
<1> DEFINE at == IF Readable(summary) THEN summary.at ELSE None
           S == ReadOr(incidents, {})
           found == Listed(S)
           made == [n \in DOMAIN found |-> IncidentEvent(found[n], at)]
<1>1. IncidentsOK(S)
  <2>1. IncidentsOK({})
    BY FS_EmptySet DEF IncidentsOK
  <2>2. QED
    BY <2>1 DEF ReadOr, ReportFileOK
<1>2. at \in Nat \cup {None}
  BY DEF ReportFileOK
<1>3. CorrelationEvents(summary, incidents) = <<>> \/ CorrelationEvents(summary, incidents) = made
  BY DEF CorrelationEvents
<1> HIDE DEF S, at
<1>4. PICK n \in Nat : DOMAIN found = 1..n /\ \A i \in 1..n : found[i] \in S
  BY <1>1, ListedRange DEF IncidentsOK
<1> HIDE DEF found
<1>5. \A i \in 1..n : EventOK(made[i])
  BY <1>1, <1>2, <1>4, IncidentEventOK DEF IncidentsOK
<1>6. EventSeq(made)
  BY <1>4, <1>5, EventSeqIntro
<1>7. QED
  BY <1>3, <1>6, NoEvents

\* A set of anything, each with its event.
LEMMA FindingsMapped ==
  ASSUME NEW S, IsFiniteSet(S), \A f \in S : f.severity \in DOMAIN SeverityRank, NEW at \in Nat \cup {None}
  PROVE  EventSeq(Mapped(S, FindingEvent, at))
<1> DEFINE found == Listed(S)
           made == [n \in DOMAIN found |-> FindingEvent(found[n], at)]
<1>1. Mapped(S, FindingEvent, at) = made
  BY DEF Mapped
<1>2. PICK n \in Nat : DOMAIN found = 1..n /\ \A i \in 1..n : found[i] \in S
  BY ListedRange
<1> HIDE DEF found
<1>3. \A i \in 1..n : EventOK(made[i])
  BY <1>2, TypeNames, EventMade DEF FindingEvent
<1>4. QED
  BY <1>1, <1>2, <1>3, EventSeqIntro

LEMMA WarningsMapped ==
  ASSUME NEW S, IsFiniteSet(S), \A w \in S : w.severity = "warning", NEW at \in Nat \cup {None}
  PROVE  EventSeq(Mapped(S, WarningEvent, at))
<1> DEFINE found == Listed(S)
           made == [n \in DOMAIN found |-> WarningEvent(found[n], at)]
<1>1. Mapped(S, WarningEvent, at) = made
  BY DEF Mapped
<1>2. PICK n \in Nat : DOMAIN found = 1..n /\ \A i \in 1..n : found[i] \in S
  BY ListedRange
<1> HIDE DEF found
<1>3. \A i \in 1..n : EventOK(made[i])
  BY <1>2, TypeNames, EventMade DEF WarningEvent
<1>4. QED
  BY <1>1, <1>2, <1>3, EventSeqIntro

LEMMA PlansMapped ==
  ASSUME NEW S, IsFiniteSet(S), NEW at \in Nat \cup {None}
  PROVE  EventSeq(Mapped(S, PlanEvent, at))
<1> DEFINE found == Listed(S)
           made == [n \in DOMAIN found |-> PlanEvent(found[n], at)]
<1>1. Mapped(S, PlanEvent, at) = made
  BY DEF Mapped
<1>2. PICK n \in Nat : DOMAIN found = 1..n /\ \A i \in 1..n : found[i] \in S
  BY ListedRange
<1> HIDE DEF found
<1>3. \A i \in 1..n : EventOK(made[i])
  BY <1>2, TypeNames, EventMade DEF PlanEvent
<1>4. QED
  BY <1>1, <1>2, <1>3, EventSeqIntro

LEMMA ConfigEventsOK ==
  ASSUME NEW c, CollectedOK(c)
  PROVE  EventSeq(ConfigEvents(c))
<1> DEFINE meta == c["export_metadata"]
           at == IF Readable(meta) THEN meta.at ELSE None
           findings == IF Readable(c["findings_view"]) THEN c["findings_view"].content ELSE {}
           remediation == IF Readable(c["remediation_view"]) THEN c["remediation_view"].content ELSE [commands |-> {}]
           topology == IF Readable(c["topology_view"]) THEN c["topology_view"].content ELSE [warnings |-> {}]
<1>1. ConfigEvents(c) = Mapped(findings, FindingEvent, at) \o Mapped(topology.warnings, WarningEvent, at)
                        \o Mapped(remediation.commands, PlanEvent, at)
  BY DEF ConfigEvents
<1>2. at \in Nat \cup {None}
  BY DEF CollectedOK, ViewFileOK
<1>3. IsFiniteSet(findings) /\ \A f \in findings : f.severity \in DOMAIN SeverityRank
  <2>1. ViewOK("findings_view", {})
    BY FS_EmptySet DEF ViewOK
  <2>2. ViewOK("findings_view", findings)
    BY <2>1 DEF CollectedOK, ViewFileOK
  <2>3. QED
    BY <2>2 DEF ViewOK
<1>4. IsFiniteSet(topology.warnings) /\ \A w \in topology.warnings : w.severity = "warning"
  <2>1. ViewOK("topology_view", [warnings |-> {}])
    BY FS_EmptySet DEF ViewOK
  <2>2. ViewOK("topology_view", topology)
    BY <2>1 DEF CollectedOK, ViewFileOK
  <2>3. QED
    BY <2>2 DEF ViewOK
<1>5. IsFiniteSet(remediation.commands)
  <2>1. ViewOK("remediation_view", [commands |-> {}])
    BY FS_EmptySet DEF ViewOK
  <2>2. ViewOK("remediation_view", remediation)
    BY <2>1 DEF CollectedOK, ViewFileOK
  <2>3. QED
    BY <2>2 DEF ViewOK
<1> HIDE DEF at, findings, topology, remediation
<1>6. EventSeq(Mapped(findings, FindingEvent, at))
  BY <1>2, <1>3, FindingsMapped
<1>7. EventSeq(Mapped(topology.warnings, WarningEvent, at))
  BY <1>2, <1>4, WarningsMapped
<1>8. EventSeq(Mapped(remediation.commands, PlanEvent, at))
  BY <1>2, <1>5, PlansMapped
<1>9. QED
  BY <1>1, <1>6, <1>7, <1>8, EventSeqJoin

LEMMA HealthEventsOK == EventSeq(HealthEvents)
<1> DEFINE anomalous == {d \in DOMAIN HealthTests : HealthTests[d].predicted > 0}
           One(d, at) == Event("health_anomaly", "engine_b", d, HealthSeverity(HealthTests[d]), at)
           found == Listed(anomalous)
           made == [n \in DOMAIN found |-> One(found[n], None)]
<1>1. HealthEvents = made
  BY DEF HealthEvents, Mapped
<1>2. IsFiniteSet(anomalous)
  <2>1. anomalous \in SUBSET DOMAIN HealthTests
    OBVIOUS
  <2> HIDE DEF anomalous
  <2>2. QED
    BY <2>1, FS_Subset, EventStreamAssumption
<1> HIDE DEF anomalous
<1>3. PICK n \in Nat : DOMAIN found = 1..n
  BY <1>2, ListedRange
<1> HIDE DEF found
<1>4. \A d : EventOK(One(d, None))
  <2>1. \A d : HealthSeverity(HealthTests[d]) \in DOMAIN SeverityRank
    BY TypeNames DEF HealthSeverity
  <2>2. QED
    BY <2>1, TypeNames, EventMade
<1> HIDE DEF One
<1>5. QED
  BY <1>1, <1>3, <1>4, EventSeqIntro

LEMMA ModelEventsOK == EventSeq(ModelEvents)
<1> DEFINE One(d, at) == Event("cyber_alert", "engine_a", d, "info", at)
           found == Listed(ProductionModels)
           made == [n \in DOMAIN found |-> One(found[n], None)]
<1>1. ModelEvents = made
  BY DEF ModelEvents, Mapped
<1>2. PICK n \in Nat : DOMAIN found = 1..n
  BY ListedRange, EventStreamAssumption
<1> HIDE DEF found
<1>3. \A d : EventOK(One(d, None))
  BY TypeNames, EventMade
<1> HIDE DEF One
<1>4. QED
  BY <1>1, <1>2, <1>3, EventSeqIntro

LEMMA SyslogNames ==
  /\ \A c : SyslogType(c) \in Types
  /\ \A r : SyslogCategory(r) \in SyslogCategories
  /\ \A n : LabelSeverity(n) \in DOMAIN SeverityRank
  /\ {"health_anomaly", "clock_integrity", "status"} \subseteq SyslogCategories
<1>1. \A c : SyslogType(c) \in {"cyber_alert", "topology_warning", "config_finding"}
  BY DEF SyslogType
<1>2. \A r : SyslogCategory(r) \in {"snmp_auth", "port_instability", "loop_redundancy", "duplicate_ip", "poe",
                                   "management_access", "device_health", "other"}
  BY DEF SyslogCategory
<1>3. \A n : LabelSeverity(n) \in {"high", "medium", "low"}
  BY DEF LabelSeverity
<1>4. QED
  BY <1>1, <1>2, <1>3, TypeNames DEF SyslogCategories

LEMMA SyslogEventsOK == EventSeq(SyslogEvents)
<1>1. CASE SyslogRun = None
  BY <1>1, NoEvents DEF SyslogEvents
<1>2. CASE SyslogRun # None
  <2> DEFINE One(f, at) == [Event(SyslogType(f.category), "syslog", f.rule, f.severity, IF f.last = None THEN at ELSE f.last)
                              EXCEPT !.device = f.device, !.category = SyslogCategory(f.rule)]
             Label(l, at) == [Event("health_anomaly", "syslog", l, LabelSeverity(SyslogRun.labels[l]), at)
                                EXCEPT !.category = "health_anomaly"]
             Notice(e, at) == [Event("safety_status", "syslog", "clock", "low", at) EXCEPT !.category = "clock_integrity"]
             Notified(e, at) == [Event("system_status", "syslog", "syslog", "info", at) EXCEPT !.category = "status"]
             weak == {l \in DOMAIN SyslogRun.labels : SyslogRun.labels[l] > 0}
             clock == IF SyslogRun.boot > 0 THEN {"clock"} ELSE {}
             last == SyslogRun.last
             a == Listed(SyslogRun.findings)
             b == Listed(weak)
             c == Listed(clock)
             d == Listed({"status"})
             made == [n \in DOMAIN a |-> One(a[n], last)]
             labelled == [n \in DOMAIN b |-> Label(b[n], last)]
             noticed == [n \in DOMAIN c |-> Notice(c[n], last)]
             notified == [n \in DOMAIN d |-> Notified(d[n], last)]
  <2>1. SyslogEvents = made \o labelled \o noticed \o notified
    BY <1>2 DEF SyslogEvents, Mapped
  <2>2. /\ IsFiniteSet(SyslogRun.findings) /\ last \in Nat \cup {None}
        /\ \A f \in SyslogRun.findings : f.severity \in DOMAIN SeverityRank /\ f.last \in Nat \cup {None}
    BY <1>2, EventStreamAssumption
  <2>3. IsFiniteSet(weak)
    <3>1. weak \in SUBSET DOMAIN SyslogRun.labels /\ IsFiniteSet(DOMAIN SyslogRun.labels)
      BY <1>2, EventStreamAssumption
    <3> HIDE DEF weak
    <3>2. QED
      BY <3>1, FS_Subset
  <2>4. IsFiniteSet(clock) /\ IsFiniteSet({"status"})
    BY FS_EmptySet, FS_Singleton
  <2>5. EventSeq(made)
    <3>1. PICK n \in Nat : DOMAIN a = 1..n /\ \A i \in 1..n : a[i] \in SyslogRun.findings
      BY <2>2, ListedRange
    <3>2. ASSUME NEW f \in SyslogRun.findings PROVE EventOK(One(f, last))
      <4> DEFINE at == IF f.last = None THEN last ELSE f.last
      <4>1. /\ at \in Nat \cup {None} /\ f.severity \in DOMAIN SeverityRank /\ "syslog" \in Engines
            /\ SyslogType(f.category) \in Types /\ SyslogCategory(f.rule) \in SyslogCategories
        BY <2>2, TypeNames, SyslogNames
      <4> HIDE DEF at
      <4>2. \A x : EventOK([Event(SyslogType(f.category), "syslog", f.rule, f.severity, at)
                              EXCEPT !.device = x, !.category = SyslogCategory(f.rule)])
        BY <4>1, EventMade
      <4>3. QED
        BY <4>2 DEF at
    <3> HIDE DEF a, One, last
    <3>3. QED
      BY <3>1, <3>2, EventSeqIntro
  <2>6. EventSeq(labelled)
    <3>1. PICK n \in Nat : DOMAIN b = 1..n
      BY <2>3, ListedRange
    <3>2. ASSUME NEW l PROVE EventOK(Label(l, last))
      <4> DEFINE severity == LabelSeverity(SyslogRun.labels[l])
      <4>1. /\ severity \in DOMAIN SeverityRank /\ "health_anomaly" \in Types /\ "syslog" \in Engines
            /\ last \in Nat \cup {None} /\ "health_anomaly" \in SyslogCategories
        BY <2>2, TypeNames, SyslogNames
      <4> HIDE DEF severity, last
      <4>2. EventOK([Event("health_anomaly", "syslog", l, severity, last) EXCEPT !.category = "health_anomaly"])
        BY <4>1, EventMade
      <4>3. QED
        BY <4>2 DEF severity
    <3> HIDE DEF b, Label, last
    <3>3. QED
      BY <3>1, <3>2, EventSeqIntro
  <2>7. EventSeq(noticed)
    <3>1. PICK n \in Nat : DOMAIN c = 1..n
      BY <2>4, ListedRange
    <3>2. \A l : EventOK(Notice(l, last))
      BY <2>2, TypeNames, SyslogNames, EventMade
    <3> HIDE DEF c, Notice, last
    <3>3. QED
      BY <3>1, <3>2, EventSeqIntro
  <2>8. EventSeq(notified)
    <3>1. PICK n \in Nat : DOMAIN d = 1..n
      BY <2>4, ListedRange
    <3>2. \A l : EventOK(Notified(l, last))
      BY <2>2, TypeNames, SyslogNames, EventMade
    <3> HIDE DEF d, Notified, last
    <3>3. QED
      BY <3>1, <3>2, EventSeqIntro
  <2> HIDE DEF made, labelled, noticed, notified
  <2>9. QED
    BY <2>1, <2>5, <2>6, <2>7, <2>8, EventSeqJoin
<1>3. QED
  BY <1>1, <1>2

LEMMA EventSeqLonger ==
  ASSUME NEW s, EventSeq(s), Len(s) >= 2, NEW t, EventSeq(t)
  PROVE  EventSeq(s \o t) /\ Len(s \o t) >= 2
<1>1. EventSeq(s \o t) /\ Len(s \o t) = Len(s) + Len(t)
  BY EventSeqJoin
<1>2. Len(s) \in Nat /\ Len(t) \in Nat
  BY EventSeqJoin
<1> DEFINE m == Len(s)
           n == Len(t)
<1> HIDE DEF m, n
<1>3. m + n >= 2
  BY <1>2 DEF m, n
<1>4. QED
  BY <1>1, <1>3 DEF m, n

\* What is collected can be counted, and is never nothing.
LEMMA CollectOK ==
  ASSUME NEW c, CollectedOK(c), now \in Nat
  PROVE  EventSeq(Collect(c)) /\ Len(Collect(c)) >= 2
<1> DEFINE rest == CorrelationEvents(c["correlation_summary"], c["incidents"])
           w == SystemEvents(now) \o rest
           x == w \o ConfigEvents(c)
           y == x \o HealthEvents
           z == y \o ModelEvents
<1>1. Collect(c) = z \o SyslogEvents
  BY DEF Collect
<1>2. EventSeq(rest)
  BY CorrelationEventsOK DEF CollectedOK
<1>3. EventSeq(SystemEvents(now)) /\ Len(SystemEvents(now)) >= 2
  BY SystemEventsOK
<1> HIDE DEF rest
<1>4. EventSeq(w) /\ Len(w) >= 2
  BY <1>2, <1>3, EventSeqLonger
<1> HIDE DEF w
<1>5. EventSeq(x) /\ Len(x) >= 2
  BY <1>4, ConfigEventsOK, EventSeqLonger
<1> HIDE DEF x
<1>6. EventSeq(y) /\ Len(y) >= 2
  BY <1>5, HealthEventsOK, EventSeqLonger
<1> HIDE DEF y
<1>7. EventSeq(z) /\ Len(z) >= 2
  BY <1>6, ModelEventsOK, EventSeqLonger
<1> HIDE DEF z
<1>8. EventSeq(z \o SyslogEvents) /\ Len(z \o SyslogEvents) >= 2
  BY <1>7, SyslogEventsOK, EventSeqLonger
<1>9. QED
  BY <1>1, <1>8

-----------------------------------------------------------------------------
(* The order of the replay.                                                *)

\* The elements 1..n in a strict order: each has the number of those before it
\* for its rank, and every rank is taken once.
RankIn(n, R, i) == Cardinality({j \in 1..n : <<j, i>> \in R}) + 1

LEMMA Ranking ==
  ASSUME NEW n \in Nat, NEW R,
         \A i \in 1..n : <<i, i>> \notin R,
         \A i, j \in 1..n : i # j => <<i, j>> \in R \/ <<j, i>> \in R,
         \A i, j, k \in 1..n : <<i, j>> \in R /\ <<j, k>> \in R => <<i, k>> \in R
  PROVE  /\ \A i, j \in 1..n : RankIn(n, R, i) < RankIn(n, R, j) => <<i, j>> \in R
         /\ \A p \in 1..n : \E i \in 1..n : RankIn(n, R, i) = p
<1> DEFINE B(i) == {j \in 1..n : <<j, i>> \in R}
<1>1. IsFiniteSet(1..n) /\ Cardinality(1..n) = n
  BY FS_Interval
<1>2. \A i \in 1..n : IsFiniteSet(B(i)) /\ Cardinality(B(i)) \in Nat /\ RankIn(n, R, i) = Cardinality(B(i)) + 1
  <2> SUFFICES ASSUME NEW i \in 1..n PROVE IsFiniteSet(B(i)) /\ Cardinality(B(i)) \in Nat
    BY DEF RankIn
  <2>1. B(i) \in SUBSET (1..n)
    OBVIOUS
  <2> HIDE DEF B
  <2>2. QED
    BY <1>1, <2>1, FS_Subset, FS_CardinalityType
<1>3. ASSUME NEW i \in 1..n PROVE RankIn(n, R, i) \in 1..n
  <2>1. B(i) \in SUBSET ((1..n) \ {i})
    OBVIOUS
  <2>2. IsFiniteSet((1..n) \ {i}) /\ Cardinality((1..n) \ {i}) = n - 1
    BY <1>1, FS_RemoveElement
  <2> HIDE DEF B
  <2>3. Cardinality(B(i)) <= Cardinality((1..n) \ {i})
    BY <2>1, <2>2, FS_Subset
  <2>4. QED
    BY <1>1, <1>2, <2>2, <2>3
<1>4. ASSUME NEW i \in 1..n, NEW j \in 1..n, <<i, j>> \in R
      PROVE  RankIn(n, R, i) < RankIn(n, R, j)
  <2>1. B(i) \in SUBSET B(j) /\ i \in B(j) /\ i \notin B(i)
    BY <1>4
  <2> HIDE DEF B
  <2>2. /\ Cardinality(B(i)) <= Cardinality(B(j))
        /\ Cardinality(B(j)) = Cardinality(B(i)) => B(i) = B(j)
    BY <1>2, <2>1, FS_Subset
  <2>3. QED
    BY <1>2, <2>1, <2>2
<1> HIDE DEF B
<1>5. \A i, j \in 1..n : RankIn(n, R, i) = RankIn(n, R, j) => i = j
  <2> SUFFICES ASSUME NEW i \in 1..n, NEW j \in 1..n, RankIn(n, R, i) = RankIn(n, R, j), i # j PROVE FALSE
    OBVIOUS
  <2>1. RankIn(n, R, i) \in Int /\ RankIn(n, R, j) \in Int
    BY <1>2
  <2>2. RankIn(n, R, i) < RankIn(n, R, j) \/ RankIn(n, R, j) < RankIn(n, R, i)
    BY <1>4
  <2>3. QED
    BY <2>1, <2>2
<1>6. ASSUME NEW i \in 1..n, NEW j \in 1..n, RankIn(n, R, i) < RankIn(n, R, j) PROVE <<i, j>> \in R
  <2>1. RankIn(n, R, i) \in Int /\ RankIn(n, R, j) \in Int /\ i # j
    BY <1>2, <1>6
  <2>2. ~(<<j, i>> \in R)
    BY <1>4, <1>6, <2>1
  <2>3. QED
    BY <2>1, <2>2
<1>7. \A p \in 1..n : \E i \in 1..n : RankIn(n, R, i) = p
  <2> DEFINE f == [i \in 1..n |-> RankIn(n, R, i)]
  <2>1. f \in [1..n -> 1..n] /\ \A i, j \in 1..n : f[i] = f[j] => i = j
    BY <1>3, <1>5
  <2>2. f \in Injection(1..n, 1..n)
    BY <2>1 DEF Injection, IsInjective
  <2>3. f \in Surjection(1..n, 1..n)
    <3> HIDE DEF f
    <3>1. QED
      BY <1>1, <2>2, FS_Injection
  <2>4. QED
    BY <2>3 DEF Surjection
<1>8. QED
  BY <1>6, <1>7

\* Time never goes back, and what has none is last.
InTime(s) ==
  \A m, n \in DOMAIN s : m < n /\ s[n].at # None => s[m].at # None /\ s[m].at <= s[n].at

\* The replay keeps the events and puts them in the order of their times.
LEMMA OrderEventsOK ==
  ASSUME NEW s, EventSeq(s)
  PROVE  EventSeq(OrderEvents(s)) /\ Len(OrderEvents(s)) = Len(s) /\ InTime(OrderEvents(s))
<1> DEFINE n == Len(s)
           Untimed(i) == s[i].at = None
           Before(l, m) ==
             \/ ~Untimed(l) /\ Untimed(m)
             \/ Untimed(l) /\ Untimed(m) /\ l < m
             \/ ~Untimed(l) /\ ~Untimed(m) /\ (s[l].at < s[m].at \/ (s[l].at = s[m].at /\ l < m))
           R == {pair \in (1..n) \X (1..n) : Before(pair[1], pair[2])}
           Chosen(p) == CHOOSE i \in 1..n : RankIn(n, R, i) = p
           new == [p \in 1..n |-> s[Chosen(p)]]
<1>1. n \in Nat /\ DOMAIN s = 1..n /\ \A i \in 1..n : EventOK(s[i]) /\ s[i].at \in Nat \cup {None}
  BY OwnElements DEF EventSeq, EventOK
<1>2. \A i, j \in 1..n : <<i, j>> \in R <=> Before(i, j)
  OBVIOUS
<1>3. OrderEvents(s) = new
  <2>1. \A i \in 1..n : {j \in DOMAIN s : Before(j, i)} = {j \in 1..n : <<j, i>> \in R}
    BY <1>1, <1>2
  <2>2. OrderEvents(s) = [p \in DOMAIN s |-> s[CHOOSE i \in DOMAIN s : Cardinality({j \in DOMAIN s : Before(j, i)}) + 1 = p]]
    BY DEF OrderEvents
  <2> HIDE DEF Before, R
  <2>3. \A i \in 1..n : RankIn(n, R, i) = Cardinality({j \in DOMAIN s : Before(j, i)}) + 1
    BY <2>1 DEF RankIn
  <2>4. \A p \in 1..n : (CHOOSE i \in DOMAIN s : Cardinality({j \in DOMAIN s : Before(j, i)}) + 1 = p) = Chosen(p)
    BY <1>1, <2>3
  <2> HIDE DEF Chosen
  <2>5. QED
    BY <1>1, <2>2, <2>4
<1>4. \A i \in 1..n : ~Before(i, i)
  BY <1>1
<1>5. \A i, j \in 1..n : i # j => Before(i, j) \/ Before(j, i)
  <2> SUFFICES ASSUME NEW i \in 1..n, NEW j \in 1..n, i # j PROVE Before(i, j) \/ Before(j, i)
    OBVIOUS
  <2>1. /\ i \in Int /\ j \in Int /\ (~Untimed(i) => s[i].at \in Nat) /\ (~Untimed(j) => s[j].at \in Nat)
    BY <1>1
  <2>2. QED
    BY <2>1
<1>6. \A i, j, k \in 1..n : Before(i, j) /\ Before(j, k) => Before(i, k)
  <2> SUFFICES ASSUME NEW i \in 1..n, NEW j \in 1..n, NEW k \in 1..n, Before(i, j), Before(j, k) PROVE Before(i, k)
    OBVIOUS
  <2>1. /\ i \in Int /\ j \in Int /\ k \in Int
        /\ ~Untimed(i) => s[i].at \in Nat
        /\ ~Untimed(j) => s[j].at \in Nat
        /\ ~Untimed(k) => s[k].at \in Nat
    BY <1>1
  <2>2. QED
    BY <2>1
<1>7. /\ \A i, j \in 1..n : RankIn(n, R, i) < RankIn(n, R, j) => Before(i, j)
      /\ \A p \in 1..n : \E i \in 1..n : RankIn(n, R, i) = p
  <2> HIDE DEF Before, R, n
  <2>1. /\ \A i \in 1..n : <<i, i>> \notin R
        /\ \A i, j \in 1..n : i # j => <<i, j>> \in R \/ <<j, i>> \in R
        /\ \A i, j, k \in 1..n : <<i, j>> \in R /\ <<j, k>> \in R => <<i, k>> \in R
    BY <1>2, <1>4, <1>5, <1>6
  <2>2. /\ \A i, j \in 1..n : RankIn(n, R, i) < RankIn(n, R, j) => <<i, j>> \in R
        /\ \A p \in 1..n : \E i \in 1..n : RankIn(n, R, i) = p
    BY <1>1, <2>1, Ranking
  <2>3. QED
    BY <1>2, <2>2
<1>8. \A p \in 1..n : Chosen(p) \in 1..n /\ RankIn(n, R, Chosen(p)) = p
  <2> HIDE DEF R, n
  <2>1. QED
    BY <1>7
<1> HIDE DEF R, Chosen
<1>9. \A p \in 1..n : new[p] = s[Chosen(p)] /\ EventOK(new[p])
  BY <1>1, <1>8
<1>10. EventSeq(new) /\ Len(new) = n
  <2>1. new = [p \in 1..n |-> new[p]]
    OBVIOUS
  <2> HIDE DEF new, n
  <2>2. QED
    BY <1>1, <1>9, <2>1, EventSeqIntro
<1>11. InTime(new)
  <2> SUFFICES ASSUME NEW p \in 1..n, NEW q \in 1..n, p < q, new[q].at # None
               PROVE  new[p].at # None /\ new[p].at <= new[q].at
    BY DEF InTime
  <2>1. Before(Chosen(p), Chosen(q)) /\ Chosen(p) \in 1..n /\ Chosen(q) \in 1..n
    <3> HIDE DEF Before
    <3>1. QED
      BY <1>7, <1>8
  <2>2. /\ new[p].at = s[Chosen(p)].at /\ new[q].at = s[Chosen(q)].at
        /\ s[Chosen(p)].at \in Nat \cup {None} /\ s[Chosen(q)].at \in Nat \cup {None}
    BY <1>1, <1>9, <2>1
  <2>3. QED
    BY <2>1, <2>2
<1>12. QED
  BY <1>3, <1>10, <1>11

-----------------------------------------------------------------------------
(* The monitoring state and the log.                                       *)

CounterFields(s) ==
  /\ s.total \in Nat
  /\ s.types \in [Types -> Nat] /\ s.severities \in [DOMAIN SeverityRank -> Nat]
  /\ s.engines \in [Engines -> Nat] /\ s.categories \in [SyslogCategories -> Nat]
  /\ s.clock \in {"reliable", "degraded"}

StateShape(s) ==
  s = [total |-> s.total, types |-> s.types, severities |-> s.severities, engines |-> s.engines,
       incidents |-> s.incidents, devices |-> s.devices, recent |-> s.recent, categories |-> s.categories,
       syslogFindings |-> s.syslogFindings, clock |-> s.clock, withSyslog |-> s.withSyslog]

LEMMA FreshShape == StateShape(Fresh) /\ CounterFields(Fresh)
BY DEF StateShape, CounterFields, Fresh, Zero

\* Of the logs, and noticing that their clocks are unreliable.
FromSyslog(e) == e.engine = "syslog"
ClockNotice(e) == e.engine = "syslog" /\ e.type = "safety_status"

\* What an event changes.
LEMMA ApplyCountsParts ==
  ASSUME NEW s, StateShape(s), NEW e
  PROVE  /\ StateShape(ApplyCounts(s, e))
         /\ ApplyCounts(s, e).total = s.total + 1
         /\ ApplyCounts(s, e).types = [s.types EXCEPT ![e.type] = @ + 1]
         /\ ApplyCounts(s, e).severities = [s.severities EXCEPT ![e.severity] = @ + 1]
         /\ ApplyCounts(s, e).engines = [s.engines EXCEPT ![e.engine] = @ + 1]
         /\ ApplyCounts(s, e).devices = s.devices \cup ({e.device} \ {None})
         /\ ApplyCounts(s, e).recent = Remember(s.recent, e)
         /\ ApplyCounts(s, e).categories = s.categories
         /\ ApplyCounts(s, e).incidents = s.incidents
         /\ ApplyCounts(s, e).clock = s.clock
<1> DEFINE t == ApplyCounts(s, e)
           types == [s.types EXCEPT ![e.type] = @ + 1]
           severities == [s.severities EXCEPT ![e.severity] = @ + 1]
           engines == [s.engines EXCEPT ![e.engine] = @ + 1]
           devices == s.devices \cup ({e.device} \ {None})
           recent == Remember(s.recent, e)
           total == s.total + 1
<1>1. t = [s EXCEPT !.total = total, !.types = types, !.severities = severities, !.engines = engines,
                    !.devices = devices, !.recent = recent]
  BY DEF ApplyCounts
<1> HIDE DEF t, types, severities, engines, devices, recent, total
<1>2. t = [total |-> total, types |-> types, severities |-> severities, engines |-> engines,
           incidents |-> s.incidents, devices |-> devices, recent |-> recent, categories |-> s.categories,
           syslogFindings |-> s.syslogFindings, clock |-> s.clock, withSyslog |-> s.withSyslog]
  BY <1>1 DEF StateShape
<1>3. StateShape(t)
  BY <1>2 DEF StateShape
<1>4. QED
  BY <1>2, <1>3 DEF t, types, severities, engines, devices, recent, total

LEMMA ApplySyslogParts ==
  ASSUME NEW s, StateShape(s), NEW e
  PROVE  /\ StateShape(ApplySyslog(s, e))
         /\ ApplySyslog(s, e).total = s.total /\ ApplySyslog(s, e).types = s.types
         /\ ApplySyslog(s, e).severities = s.severities /\ ApplySyslog(s, e).engines = s.engines
         /\ ApplySyslog(s, e).devices = s.devices /\ ApplySyslog(s, e).recent = s.recent
         /\ ApplySyslog(s, e).incidents = s.incidents
         /\ ApplySyslog(s, e).categories =
              IF FromSyslog(e) THEN [s.categories EXCEPT ![e.category] = @ + 1] ELSE s.categories
         /\ ApplySyslog(s, e).clock = IF ClockNotice(e) THEN "degraded" ELSE s.clock
<1>1. CASE e.engine # "syslog"
  BY <1>1 DEF ApplySyslog, FromSyslog, ClockNotice
<1>2. CASE e.engine = "syslog"
  BY <1>2 DEF ApplySyslog, StateShape, FromSyslog, ClockNotice
<1>3. QED
  BY <1>1, <1>2

LEMMA ApplyIncidentParts ==
  ASSUME NEW s, StateShape(s), NEW e
  PROVE  /\ StateShape(ApplyIncident(s, e))
         /\ ApplyIncident(s, e).total = s.total /\ ApplyIncident(s, e).types = s.types
         /\ ApplyIncident(s, e).severities = s.severities /\ ApplyIncident(s, e).engines = s.engines
         /\ ApplyIncident(s, e).devices = s.devices /\ ApplyIncident(s, e).recent = s.recent
         /\ ApplyIncident(s, e).categories = s.categories /\ ApplyIncident(s, e).clock = s.clock
         /\ DOMAIN ApplyIncident(s, e).incidents =
              IF e.type # "correlation_incident" \/ e.incident = None THEN DOMAIN s.incidents
              ELSE {e.incident} \cup DOMAIN s.incidents
<1>1. CASE e.type # "correlation_incident" \/ e.incident = None
  BY <1>1 DEF ApplyIncident
<1>2. CASE ~(e.type # "correlation_incident" \/ e.incident = None)
  <2> DEFINE new == [i \in DOMAIN s.incidents \cup {e.incident} |-> IF i = e.incident THEN e.severity ELSE s.incidents[i]]
  <2>1. DOMAIN new = {e.incident} \cup DOMAIN s.incidents
    OBVIOUS
  <2> HIDE DEF new
  <2>2. ApplyIncident(s, e) = [s EXCEPT !.incidents = new, !.withSyslog = @ + (IF e.syslog THEN 1 ELSE 0)]
    BY <1>2 DEF ApplyIncident, new
  <2>3. QED
    BY <1>2, <2>1, <2>2 DEF StateShape
<1>3. QED
  BY <1>1, <1>2

LEMMA ApplyEventParts ==
  ASSUME NEW s, StateShape(s), NEW e, EventOK(e)
  PROVE  /\ StateShape(ApplyEvent(s, e))
         /\ ApplyEvent(s, e).total = s.total + 1
         /\ ApplyEvent(s, e).types = [s.types EXCEPT ![e.type] = @ + 1]
         /\ ApplyEvent(s, e).severities = [s.severities EXCEPT ![e.severity] = @ + 1]
         /\ ApplyEvent(s, e).engines = [s.engines EXCEPT ![e.engine] = @ + 1]
         /\ ApplyEvent(s, e).devices = s.devices \cup ({e.device} \ {None})
         /\ ApplyEvent(s, e).recent = Remember(s.recent, e)
         /\ ApplyEvent(s, e).categories =
              IF FromSyslog(e) THEN [s.categories EXCEPT ![e.category] = @ + 1] ELSE s.categories
         /\ ApplyEvent(s, e).clock = IF ClockNotice(e) THEN "degraded" ELSE s.clock
         /\ DOMAIN ApplyEvent(s, e).incidents = DOMAIN s.incidents \cup ({e.incident} \ {None})
<1> DEFINE a == ApplyCounts(s, e)
           b == ApplySyslog(a, e)
           c == ApplyIncident(b, e)
<1>1. /\ StateShape(a) /\ a.total = s.total + 1 /\ a.types = [s.types EXCEPT ![e.type] = @ + 1]
      /\ a.severities = [s.severities EXCEPT ![e.severity] = @ + 1]
      /\ a.engines = [s.engines EXCEPT ![e.engine] = @ + 1]
      /\ a.devices = s.devices \cup ({e.device} \ {None}) /\ a.recent = Remember(s.recent, e)
      /\ a.categories = s.categories /\ a.incidents = s.incidents /\ a.clock = s.clock
  BY ApplyCountsParts
<1> HIDE DEF a
<1>2. /\ StateShape(b) /\ b.total = a.total /\ b.types = a.types /\ b.severities = a.severities /\ b.engines = a.engines
      /\ b.devices = a.devices /\ b.recent = a.recent /\ b.incidents = a.incidents
      /\ b.categories = IF FromSyslog(e) THEN [a.categories EXCEPT ![e.category] = @ + 1] ELSE a.categories
      /\ b.clock = IF ClockNotice(e) THEN "degraded" ELSE a.clock
  BY <1>1, ApplySyslogParts
<1> HIDE DEF b
<1>3. /\ StateShape(c) /\ c.total = b.total /\ c.types = b.types /\ c.severities = b.severities /\ c.engines = b.engines
      /\ c.devices = b.devices /\ c.recent = b.recent /\ c.categories = b.categories /\ c.clock = b.clock
      /\ DOMAIN c.incidents = IF e.type # "correlation_incident" \/ e.incident = None THEN DOMAIN b.incidents
                              ELSE {e.incident} \cup DOMAIN b.incidents
  BY <1>2, ApplyIncidentParts
<1>4. ApplyEvent(s, e) = c
  BY DEF ApplyEvent, a, b
<1> HIDE DEF c
<1>5. DOMAIN c.incidents = DOMAIN s.incidents \cup ({e.incident} \ {None})
  <2>1. CASE e.incident = None
    BY <1>1, <1>2, <1>3, <2>1
  <2>2. CASE e.incident # None
    <3>1. e.type = "correlation_incident"
      BY <2>2 DEF EventOK
    <3>2. QED
      BY <1>1, <1>2, <1>3, <2>2, <3>1
  <2>3. QED
    BY <2>1, <2>2
<1>6. QED
  BY <1>1, <1>2, <1>3, <1>4, <1>5

\* The lines of a log are numbered from 0 and have events.
LogSeq(l) == l \in Seq(ToSet(l)) /\ \A n \in DOMAIN l : l[n].seq = n - 1 /\ EventOK(l[n].event)

Window(l) == IF Len(l) < RecentMax THEN Len(l) ELSE RecentMax

\* A state is what the lines of a log say.
Counted(s, l) ==
  /\ s.total = Len(l)
  /\ \A t \in Types : s.types[t] = Cardinality({n \in DOMAIN l : l[n].event.type = t})
  /\ \A v \in DOMAIN SeverityRank : s.severities[v] = Cardinality({n \in DOMAIN l : l[n].event.severity = v})
  /\ \A c \in SyslogCategories :
       s.categories[c] = Cardinality({n \in DOMAIN l : FromSyslog(l[n].event) /\ l[n].event.category = c})
Seen(s, l) ==
  /\ s.devices = {l[n].event.device : n \in DOMAIN l} \ {None}
  /\ DOMAIN s.incidents = {l[n].event.incident : n \in DOMAIN l} \ {None}
  /\ s.clock = "degraded" <=> Cardinality({n \in DOMAIN l : ClockNotice(l[n].event)}) > 0
Remembers(s, l) == s.recent = [n \in 1..Window(l) |-> l[Len(l) - Window(l) + n].event.id]
Explained(s, l) == StateShape(s) /\ CounterFields(s) /\ LogSeq(l) /\ Counted(s, l) /\ Seen(s, l) /\ Remembers(s, l)

LEMMA Raised ==
  ASSUME NEW S, NEW f \in [S -> Nat], NEW x \in S
  PROVE  [f EXCEPT ![x] = @ + 1] \in [S -> Nat]
OBVIOUS

LEMMA OneMore ==
  ASSUME NEW n \in Nat, NEW S \in SUBSET (1..n)
  PROVE  IsFiniteSet(S) /\ Cardinality(S) \in Nat /\ Cardinality(S \cup {n + 1}) = Cardinality(S) + 1
<1>1. IsFiniteSet(1..n) /\ n + 1 \notin S
  BY FS_Interval
<1>2. IsFiniteSet(S)
  BY <1>1, FS_Subset
<1>3. QED
  BY <1>1, <1>2, FS_AddElement, FS_CardinalityType

\* Another line at the end of a log.
LEMMA LogGrows ==
  ASSUME NEW l, LogSeq(l), NEW e, EventOK(e),
         NEW line, line.seq = Len(l), line.event = e
  PROVE  LET m == Append(l, line)
             k == Len(l)
         IN  /\ k \in Nat /\ LogSeq(m) /\ Len(m) = k + 1 /\ DOMAIN l = 1..k /\ DOMAIN m = 1..(k + 1)
             /\ m[k + 1].event = e /\ \A i \in 1..k : m[i].event = l[i].event
<1> DEFINE A == ToSet(l) \cup {line}
           m == Append(l, line)
           k == Len(l)
<1>1. l \in Seq(A)
  BY DEF LogSeq
<1> HIDE DEF A
<1>2. line \in A
  BY DEF A
<1>3. /\ m \in Seq(A) /\ k \in Nat /\ Len(m) = k + 1 /\ DOMAIN l = 1..k /\ DOMAIN m = 1..(k + 1)
      /\ m[k + 1] = line /\ \A i \in 1..k : m[i] = l[i]
  BY <1>1, <1>2
<1> HIDE DEF m
<1>4. \A i \in DOMAIN m : m[i].seq = i - 1 /\ EventOK(m[i].event)
  <2> SUFFICES ASSUME NEW i \in 1..(k + 1) PROVE m[i].seq = i - 1 /\ EventOK(m[i].event)
    BY <1>3
  <2>1. CASE i = k + 1
    BY <1>3, <2>1
  <2>2. CASE i \in 1..k
    BY <1>3, <2>2 DEF LogSeq
  <2>3. QED
    BY <1>3, <2>1, <2>2
<1>5. LogSeq(m)
  BY <1>3, <1>4, OwnElements DEF LogSeq
<1>6. QED
  BY <1>3, <1>5 DEF m

\* Counting goes on by one where the new line is one of those counted.
LEMMA CountedOn ==
  ASSUME NEW s, Explained(s, log), NEW e, EventOK(e), NEW m, m = Append(log, [seq |-> s.total, event |-> e])
  PROVE  Counted(ApplyEvent(s, e), m) /\ CounterFields(ApplyEvent(s, e))
<1> DEFINE k == Len(log)
           t == ApplyEvent(s, e)
<1>1. /\ k \in Nat /\ Len(m) = k + 1 /\ DOMAIN log = 1..k /\ DOMAIN m = 1..(k + 1)
      /\ m[k + 1].event = e /\ \A i \in 1..k : m[i].event = log[i].event
  BY LogGrows DEF Explained, Counted
<1>2. /\ t.total = s.total + 1
      /\ t.types = [s.types EXCEPT ![e.type] = @ + 1]
      /\ t.severities = [s.severities EXCEPT ![e.severity] = @ + 1]
      /\ t.engines = [s.engines EXCEPT ![e.engine] = @ + 1]
      /\ t.categories = IF FromSyslog(e) THEN [s.categories EXCEPT ![e.category] = @ + 1] ELSE s.categories
      /\ t.clock = IF ClockNotice(e) THEN "degraded" ELSE s.clock
  BY ApplyEventParts DEF Explained
<1> HIDE DEF t
<1>3. CounterFields(s) /\ Counted(s, log)
  BY DEF Explained
<1>4. /\ e.type \in Types /\ e.severity \in DOMAIN SeverityRank /\ e.engine \in Engines /\ e.category \in SyslogCategories
  BY DEF EventOK
<1>5. CounterFields(t)
  <2>1. /\ s.total \in Nat /\ s.clock \in {"reliable", "degraded"}
        /\ s.types \in [Types -> Nat] /\ s.severities \in [DOMAIN SeverityRank -> Nat]
        /\ s.engines \in [Engines -> Nat] /\ s.categories \in [SyslogCategories -> Nat]
    BY <1>3 DEF CounterFields
  <2>2. t.total \in Nat /\ t.clock \in {"reliable", "degraded"}
    BY <1>2, <2>1
  <2>3. t.types \in [Types -> Nat]
    BY <1>2, <1>4, <2>1, Raised
  <2>4. t.severities \in [DOMAIN SeverityRank -> Nat]
    BY <1>2, <1>4, <2>1, Raised
  <2>5. t.engines \in [Engines -> Nat]
    BY <1>2, <1>4, <2>1, Raised
  <2>6. t.categories \in [SyslogCategories -> Nat]
    BY <1>2, <1>4, <2>1, Raised
  <2>7. QED
    BY <2>2, <2>3, <2>4, <2>5, <2>6 DEF CounterFields
<1>6. t.total = Len(m)
  BY <1>1, <1>2, <1>3 DEF Counted
<1>7. ASSUME NEW x \in Types PROVE t.types[x] = Cardinality({n \in DOMAIN m : m[n].event.type = x})
  <2> DEFINE S == {n \in DOMAIN log : log[n].event.type = x}
  <2>1. {n \in DOMAIN m : m[n].event.type = x} = IF e.type = x THEN S \cup {k + 1} ELSE S
    BY <1>1
  <2>2. S \in SUBSET (1..k) /\ s.types[x] = Cardinality(S)
    BY <1>1, <1>3 DEF Counted
  <2> HIDE DEF S
  <2>3. Cardinality(S \cup {k + 1}) = Cardinality(S) + 1
    BY <1>1, <2>2, OneMore
  <2>4. t.types[x] = IF e.type = x THEN s.types[x] + 1 ELSE s.types[x]
    BY <1>2, <1>3, <1>4 DEF CounterFields
  <2>5. QED
    BY <2>1, <2>2, <2>3, <2>4
<1>8. ASSUME NEW x \in DOMAIN SeverityRank
      PROVE  t.severities[x] = Cardinality({n \in DOMAIN m : m[n].event.severity = x})
  <2> DEFINE S == {n \in DOMAIN log : log[n].event.severity = x}
  <2>1. {n \in DOMAIN m : m[n].event.severity = x} = IF e.severity = x THEN S \cup {k + 1} ELSE S
    BY <1>1
  <2>2. S \in SUBSET (1..k) /\ s.severities[x] = Cardinality(S)
    BY <1>1, <1>3 DEF Counted
  <2> HIDE DEF S
  <2>3. Cardinality(S \cup {k + 1}) = Cardinality(S) + 1
    BY <1>1, <2>2, OneMore
  <2>4. t.severities[x] = IF e.severity = x THEN s.severities[x] + 1 ELSE s.severities[x]
    BY <1>2, <1>3, <1>4 DEF CounterFields
  <2>5. QED
    BY <2>1, <2>2, <2>3, <2>4
<1>9. ASSUME NEW x \in SyslogCategories
      PROVE  t.categories[x] = Cardinality({n \in DOMAIN m : FromSyslog(m[n].event) /\ m[n].event.category = x})
  <2> DEFINE S == {n \in DOMAIN log : FromSyslog(log[n].event) /\ log[n].event.category = x}
  <2>1. {n \in DOMAIN m : FromSyslog(m[n].event) /\ m[n].event.category = x}
          = IF FromSyslog(e) /\ e.category = x THEN S \cup {k + 1} ELSE S
    BY <1>1
  <2>2. S \in SUBSET (1..k) /\ s.categories[x] = Cardinality(S)
    BY <1>1, <1>3 DEF Counted
  <2> HIDE DEF S
  <2>3. Cardinality(S \cup {k + 1}) = Cardinality(S) + 1
    BY <1>1, <2>2, OneMore
  <2>4. t.categories[x] = IF FromSyslog(e) /\ e.category = x THEN s.categories[x] + 1 ELSE s.categories[x]
    BY <1>2, <1>3, <1>4 DEF CounterFields
  <2>5. QED
    BY <2>1, <2>2, <2>3, <2>4
<1>10. QED
  BY <1>5, <1>6, <1>7, <1>8, <1>9 DEF Counted, t

LEMMA SeenOn ==
  ASSUME NEW s, Explained(s, log), NEW e, EventOK(e), NEW m, m = Append(log, [seq |-> s.total, event |-> e])
  PROVE  Seen(ApplyEvent(s, e), m)
<1> DEFINE k == Len(log)
           t == ApplyEvent(s, e)
<1>1. /\ k \in Nat /\ Len(m) = k + 1 /\ DOMAIN log = 1..k /\ DOMAIN m = 1..(k + 1)
      /\ m[k + 1].event = e /\ \A i \in 1..k : m[i].event = log[i].event
  BY LogGrows DEF Explained, Counted
<1>2. /\ t.devices = s.devices \cup ({e.device} \ {None})
      /\ t.clock = IF ClockNotice(e) THEN "degraded" ELSE s.clock
      /\ DOMAIN t.incidents = DOMAIN s.incidents \cup ({e.incident} \ {None})
  BY ApplyEventParts DEF Explained
<1> HIDE DEF t
<1>3. Seen(s, log)
  BY DEF Explained
<1>4. t.devices = {m[n].event.device : n \in DOMAIN m} \ {None}
  <2>1. {m[n].event.device : n \in 1..(k + 1)} = {log[n].event.device : n \in 1..k} \cup {e.device}
    BY <1>1
  <2>2. QED
    BY <1>1, <1>2, <1>3, <2>1 DEF Seen
<1>5. DOMAIN t.incidents = {m[n].event.incident : n \in DOMAIN m} \ {None}
  <2>1. {m[n].event.incident : n \in 1..(k + 1)} = {log[n].event.incident : n \in 1..k} \cup {e.incident}
    BY <1>1
  <2>2. QED
    BY <1>1, <1>2, <1>3, <2>1 DEF Seen
<1>6. t.clock = "degraded" <=> Cardinality({n \in DOMAIN m : ClockNotice(m[n].event)}) > 0
  <2> DEFINE S == {n \in DOMAIN log : ClockNotice(log[n].event)}
  <2>1. {n \in DOMAIN m : ClockNotice(m[n].event)} = IF ClockNotice(e) THEN S \cup {k + 1} ELSE S
    BY <1>1
  <2>2. S \in SUBSET (1..k) /\ (s.clock = "degraded" <=> Cardinality(S) > 0)
    BY <1>1, <1>3 DEF Seen
  <2> HIDE DEF S
  <2>3. Cardinality(S \cup {k + 1}) = Cardinality(S) + 1 /\ Cardinality(S) \in Nat
    BY <1>1, <2>2, OneMore
  <2>4. CASE ClockNotice(e)
    <3>1. Cardinality(S \cup {k + 1}) > 0
      BY <2>3
    <3>2. QED
      BY <1>2, <2>1, <2>4, <3>1
  <2>5. CASE ~ClockNotice(e)
    BY <1>2, <2>1, <2>2, <2>5
  <2>6. QED
    BY <2>4, <2>5
<1>7. QED
  BY <1>4, <1>5, <1>6 DEF Seen, t

LEMMA RemembersOn ==
  ASSUME NEW s, Explained(s, log), NEW e, EventOK(e), NEW m, m = Append(log, [seq |-> s.total, event |-> e])
  PROVE  Remembers(ApplyEvent(s, e), m)
<1> DEFINE k == Len(log)
           w == Window(log)
           r == [n \in 1..w |-> log[k - w + n].event.id]
           new == [n \in 1..Window(m) |-> m[Len(m) - Window(m) + n].event.id]
           A == {r[n] : n \in 1..w} \cup {e.id}
<1>1. /\ k \in Nat /\ Len(m) = k + 1 /\ m[k + 1].event = e /\ \A i \in 1..k : m[i].event = log[i].event
  BY LogGrows DEF Explained, Counted
<1>2. RecentMax \in Nat /\ RecentMax > 0 /\ w \in Nat /\ w = IF k < RecentMax THEN k ELSE RecentMax
  BY <1>1, EventStreamAssumption DEF Window
<1>3. Window(m) = IF k + 1 < RecentMax THEN k + 1 ELSE RecentMax
  BY <1>1 DEF Window
<1>4. ApplyEvent(s, e).recent = Remember(r, e)
  <2>1. s.recent = r
    BY DEF Explained, Remembers
  <2> HIDE DEF r
  <2>2. ApplyEvent(s, e).recent = Remember(s.recent, e)
    BY ApplyEventParts DEF Explained
  <2>3. QED
    BY <2>1, <2>2
<1> HIDE DEF w
<1>5. r \in Seq(A) /\ Len(r) = w /\ e.id \in A
  <2>1. r \in [1..w -> A] /\ e.id \in A
    <3>1. r = [n \in 1..w |-> r[n]]
      OBVIOUS
    <3> HIDE DEF r
    <3>2. QED
      BY <3>1
  <2> HIDE DEF r, A
  <2>2. r \in Seq(A) /\ Len(r) = w
    BY <1>2, <2>1
  <2>3. QED
    BY <2>1, <2>2
<1>6. \A n \in 1..w : r[n] = log[k - w + n].event.id
  OBVIOUS
<1> HIDE DEF r, A
<1>7. Remember(r, e) = new
  <2>1. CASE k < RecentMax
    <3>1. w = k /\ Window(m) = k + 1
      BY <1>1, <1>2, <1>3, <2>1
    <3>2. Remember(r, e) = Append(r, e.id)
      BY <1>5, <2>1, <3>1 DEF Remember
    <3>3. DOMAIN Append(r, e.id) = 1..(k + 1) /\ Append(r, e.id) \in Seq(A)
      BY <1>1, <1>5, <3>1
    <3>4. ASSUME NEW n \in 1..(k + 1) PROVE Append(r, e.id)[n] = m[n].event.id
      <4>1. CASE n = k + 1
        BY <1>1, <1>5, <3>1, <4>1
      <4>2. CASE n \in 1..k
        <5>1. Append(r, e.id)[n] = r[n]
          BY <1>1, <1>5, <3>1, <4>2
        <5>2. r[n] = log[n].event.id
          BY <1>1, <1>6, <3>1, <4>2
        <5>3. QED
          BY <1>1, <4>2, <5>1, <5>2
      <4>3. n = k + 1 \/ n \in 1..k
        BY <1>1
      <4>4. QED
        BY <4>1, <4>2, <4>3
    <3>5. new = [n \in 1..(k + 1) |-> m[n].event.id]
      BY <1>1, <3>1
    <3> HIDE DEF new
    <3>6. Append(r, e.id) = [n \in 1..(k + 1) |-> Append(r, e.id)[n]]
      BY <3>3
    <3>7. QED
      BY <3>2, <3>4, <3>5, <3>6
  <2>2. CASE ~(k < RecentMax)
    <3>1. w = RecentMax /\ Window(m) = RecentMax
      BY <1>1, <1>2, <1>3, <2>2
    <3>2. Remember(r, e) = Append(Tail(r), e.id)
      BY <1>5, <3>1, <1>2 DEF Remember
    <3>3. /\ Tail(r) \in Seq(A) /\ Len(Tail(r)) = RecentMax - 1
          /\ \A n \in 1..(RecentMax - 1) : Tail(r)[n] = r[n + 1]
      BY <1>2, <1>5, <3>1
    <3>4. /\ Append(Tail(r), e.id) \in Seq(A) /\ DOMAIN Append(Tail(r), e.id) = 1..RecentMax
          /\ Append(Tail(r), e.id)[RecentMax] = e.id
          /\ \A n \in 1..(RecentMax - 1) : Append(Tail(r), e.id)[n] = Tail(r)[n]
      BY <1>2, <1>5, <3>3
    <3>5. ASSUME NEW n \in 1..RecentMax PROVE Append(Tail(r), e.id)[n] = m[k + 1 - RecentMax + n].event.id
      <4>1. CASE n = RecentMax
        <5>1. k + 1 - RecentMax + n = k + 1
          BY <1>1, <1>2, <4>1
        <5>2. QED
          BY <1>1, <3>4, <4>1, <5>1
      <4>2. CASE n \in 1..(RecentMax - 1)
        <5>1. Append(Tail(r), e.id)[n] = r[n + 1] /\ n + 1 \in 1..w
          BY <1>2, <3>1, <3>3, <3>4, <4>2
        <5>2. r[n + 1] = log[k - RecentMax + (n + 1)].event.id
          BY <1>6, <3>1, <5>1
        <5>3. k - RecentMax + (n + 1) = k + 1 - RecentMax + n /\ k + 1 - RecentMax + n \in 1..k
          BY <1>1, <1>2, <2>2, <4>2
        <5>4. QED
          BY <1>1, <5>1, <5>2, <5>3
      <4>3. n = RecentMax \/ n \in 1..(RecentMax - 1)
        BY <1>2
      <4>4. QED
        BY <4>1, <4>2, <4>3
    <3>6. new = [n \in 1..RecentMax |-> m[k + 1 - RecentMax + n].event.id]
      <4>1. Window(m) = RecentMax /\ Len(m) = k + 1
        BY <1>1, <3>1
      <4> HIDE DEF k
      <4> DEFINE a == Len(m) - Window(m)
                 b == k + 1 - RecentMax
      <4>2. a = b
        BY <1>1, <1>2, <4>1
      <4>3. new = [n \in 1..Window(m) |-> m[a + n].event.id]
        OBVIOUS
      <4> HIDE DEF a, b
      <4>4. new = [n \in 1..RecentMax |-> m[b + n].event.id]
        BY <4>1, <4>2, <4>3
      <4>5. QED
        BY <4>4 DEF b
    <3> HIDE DEF new
    <3>7. Append(Tail(r), e.id) = [n \in 1..RecentMax |-> Append(Tail(r), e.id)[n]]
      <4> DEFINE x == Append(Tail(r), e.id)
      <4>1. x \in Seq(A) /\ DOMAIN x = 1..RecentMax
        BY <3>4
      <4> HIDE DEF x
      <4>2. x = [n \in 1..RecentMax |-> x[n]]
        BY <4>1
      <4>3. QED
        BY <4>2 DEF x
    <3>8. QED
      BY <3>2, <3>5, <3>6, <3>7
  <2>3. QED
    BY <2>1, <2>2
<1>8. QED
  BY <1>4, <1>7 DEF Remembers

\* An event that is applied and logged keeps the state explained by the log.
LEMMA EmitExplained ==
  ASSUME NEW s, Explained(s, log), NEW e, EventOK(e), NEW m, m = Append(log, [seq |-> s.total, event |-> e])
  PROVE  Explained(ApplyEvent(s, e), m)
<1>1. LogSeq(m)
  BY LogGrows DEF Explained, Counted
<1>2. StateShape(ApplyEvent(s, e))
  BY ApplyEventParts DEF Explained
<1>3. QED
  BY <1>1, <1>2, CountedOn, SeenOn, RemembersOn DEF Explained

\* A fresh state is explained by no line.
LEMMA FreshExplained == Explained(Fresh, <<>>)
<1>1. LogSeq(<<>>) /\ Len(<<>>) = 0 /\ DOMAIN <<>> = {}
  BY DEF LogSeq
<1>2. Window(<<>>) = 0 /\ 1..0 = {}
  BY <1>1, EventStreamAssumption DEF Window
<1>3. Counted(Fresh, <<>>)
  <2>1. \A S : S \subseteq DOMAIN <<>> => Cardinality(S) = 0
    BY <1>1, FS_EmptySet
  <2>2. QED
    BY <1>1, <2>1 DEF Counted, Fresh, Zero
<1>4. Seen(Fresh, <<>>)
  <2>1. {n \in DOMAIN <<>> : ClockNotice(<<>>[n].event)} = {}
    BY <1>1
  <2>2. Cardinality({n \in DOMAIN <<>> : ClockNotice(<<>>[n].event)}) = 0
    BY <2>1, FS_EmptySet
  <2>3. {<<>>[n].event.device : n \in DOMAIN <<>>} = {} /\ {<<>>[n].event.incident : n \in DOMAIN <<>>} = {}
    BY <1>1
  <2>4. Fresh.devices = {} /\ Fresh.incidents = <<>> /\ Fresh.clock = "reliable"
    BY DEF Fresh
  <2>5. QED
    BY <1>1, <2>2, <2>3, <2>4 DEF Seen
<1>5. Remembers(Fresh, <<>>)
  <2>1. [n \in 1..0 |-> <<>>[Len(<<>>) - Window(<<>>) + n].event.id] = <<>>
    BY <1>2
  <2>2. Fresh.recent = <<>>
    BY DEF Fresh
  <2>3. QED
    BY <1>2, <2>1, <2>2 DEF Remembers
<1>6. QED
  BY <1>1, <1>3, <1>4, <1>5, FreshShape DEF Explained

-----------------------------------------------------------------------------
(* What an export makes of the files of an analysis.                       *)

\* The image of a finite set.
LEMMA FiniteImage ==
  ASSUME NEW S, IsFiniteSet(S), NEW f, DOMAIN f = S
  PROVE  IsFiniteSet({f[x] : x \in S})
<1> DEFINE T == {f[x] : x \in S}
           g == [x \in S |-> f[x]]
<1>1. g \in [S -> T] /\ \A y \in T : \E x \in S : g[x] = y
  OBVIOUS
<1>2. g \in Surjection(S, T)
  BY <1>1 DEF Surjection
<1> HIDE DEF T, g
<1>3. IsFiniteSet(T)
  BY <1>2, FS_Surjection
<1>4. QED
  BY <1>3 DEF T

\* The open findings of a directory are some of its findings.
LEMMA OpenFacts ==
  ASSUME NEW art \in Directories
  PROVE  /\ IsFiniteSet(OpenFindings(art))
         /\ \A f \in OpenFindings(art) : f.rule \in Rules /\ SeverityOf(f) \in DOMAIN SeverityRank
         /\ \A f, g \in OpenFindings(art) : f.id = g.id /\ f.mac = g.mac => f = g
<1> DEFINE S == ReadOr(art["findings"], {})
<1>1. LeftByAnalysis(art)
  BY ExportsAssumption
<1>2. IsFiniteSet(S) /\ (\A f \in S : f.rule \in Rules) /\ (\A f, g \in S : f.id = g.id /\ f.mac = g.mac => f = g)
  BY <1>1, FS_EmptySet DEF ReadOr, LeftByAnalysis
<1>3. OpenFindings(art) \in SUBSET S
  BY DEF OpenFindings, Open
<1> HIDE DEF S
<1>4. \A r \in Rules : RuleMeta[r].severity \in DOMAIN SeverityRank
  BY IntelligenceAssumption
<1>5. QED
  BY <1>2, <1>3, <1>4, FS_Subset DEF SeverityOf

\* The row of a finding in the list of findings.
RowOf(f, art, diff) ==
  [id |-> f.id, rule |-> f.rule, severity |-> SeverityOf(f), device |-> f.device, interface |-> f.interface,
   mac |-> f.mac, risk |-> RiskOf(f, art, diff)]

LEMMA RowsOfFindings ==
  ASSUME NEW art, NEW diff
  PROVE  FindingsView(Intelligence(art, diff)) = {RowOf(f, art, diff) : f \in OpenFindings(art)}
<1> DEFINE R == Ranked(art, diff)
           Row1(r) == [id |-> r.finding.id, rule |-> r.finding.rule, severity |-> SeverityOf(r.finding),
                       device |-> r.finding.device, interface |-> r.finding.interface, mac |-> r.finding.mac,
                       risk |-> r.risk]
<1>1. FindingsView(Intelligence(art, diff)) = {Row1(r) : r \in R}
  BY DEF FindingsView, Intelligence
<1>2. R = {[finding |-> f, risk |-> RiskOf(f, art, diff)] : f \in OpenFindings(art)}
  BY DEF Ranked
<1> HIDE DEF R
<1>3. \A f : Row1([finding |-> f, risk |-> RiskOf(f, art, diff)]) = RowOf(f, art, diff)
  BY DEF RowOf
<1> HIDE DEF Row1
<1>4. \A y : y \in {Row1(r) : r \in R} <=> \E f \in OpenFindings(art) : y = RowOf(f, art, diff)
  <2>1. ASSUME NEW y, y \in {Row1(r) : r \in R} PROVE \E f \in OpenFindings(art) : y = RowOf(f, art, diff)
    <3>1. PICK r \in R : y = Row1(r)
      BY <2>1
    <3>2. PICK f \in OpenFindings(art) : r = [finding |-> f, risk |-> RiskOf(f, art, diff)]
      BY <1>2, <3>1
    <3>3. QED
      BY <1>3, <3>1, <3>2
  <2>2. ASSUME NEW f \in OpenFindings(art) PROVE RowOf(f, art, diff) \in {Row1(r) : r \in R}
    <3>1. [finding |-> f, risk |-> RiskOf(f, art, diff)] \in R
      BY <1>2
    <3>2. QED
      BY <1>3, <3>1
  <2>3. QED
    BY <2>1, <2>2
<1>5. QED
  BY <1>1, <1>4

\* The files of an export.
AlwaysViews ==
  {"dashboard_summary", "topology_view", "findings_view", "remediation_view", "action_audit_view",
   "device_health_cards", "export_metadata"}

LEMMA ViewFilesFacts ==
  ASSUME NEW diff
  PROVE  /\ ViewFiles(diff) \in Seq(ToSet(ViewFiles(diff))) /\ ViewFiles(diff) # <<>>
         /\ AlwaysViews \subseteq ToSet(ViewFiles(diff))
         /\ ToSet(ViewFiles(diff)) \subseteq AlwaysViews \cup {"diff_view", "verification_view"}
<1> DEFINE a == <<"dashboard_summary", "topology_view", "findings_view", "remediation_view", "action_audit_view",
                  "device_health_cards", "export_metadata">>
           b == <<"diff_view", "verification_view">>
           S == AlwaysViews \cup {"diff_view", "verification_view"}
           v == ViewFiles(diff)
<1>0. AlwaysViews = {a[n] : n \in 1..7}
  <2>1. 1..7 = {1, 2, 3, 4, 5, 6, 7}
    OBVIOUS
  <2>2. QED
    BY <2>1 DEF AlwaysViews
<1>1. a \in Seq(S) /\ b \in Seq(S) /\ <<>> \in Seq(S) /\ Len(a) = 7
  BY DEF AlwaysViews
<1>2. v = a \o <<>> \/ v = a \o b
  BY DEF ViewFiles
<1> HIDE DEF a, b, S, v
<1>3. v \in Seq(S) /\ Len(v) >= 7 /\ \A n \in 1..7 : n \in DOMAIN v /\ v[n] = a[n]
  <2>1. PICK x \in Seq(S) : v = a \o x
    BY <1>1, <1>2
  <2>2. /\ v \in Seq(S) /\ Len(v) = 7 + Len(x) /\ Len(x) \in Nat
        /\ \A n \in 1..7 : n \in DOMAIN v /\ v[n] = a[n]
    <3>1. /\ a \o x \in Seq(S) /\ Len(a \o x) = Len(a) + Len(x) /\ Len(x) \in Nat
          /\ \A i \in 1..Len(a) : i \in DOMAIN (a \o x) /\ (a \o x)[i] = a[i]
      BY <1>1, Joined, Zenon
    <3>2. QED
      BY <1>1, <2>1, <3>1, Zenon
  <2> DEFINE n == Len(x)
  <2> HIDE DEF n
  <2>3. 7 + n >= 7
    BY <2>2 DEF n
  <2>4. QED
    BY <2>2, <2>3 DEF n
<1>4. v \in Seq(ToSet(v)) /\ v # <<>> /\ ToSet(v) \subseteq S
  BY <1>3 DEF ToSet
<1>5. AlwaysViews \subseteq ToSet(v)
  BY <1>0, <1>3 DEF ToSet
<1>6. QED
  BY <1>4, <1>5 DEF v, S

LEMMA ViewsParts ==
  ASSUME NEW art, NEW diff
  PROVE  /\ DOMAIN Views(art, diff) = ToSet(ViewFiles(diff))
         /\ Views(art, diff)["topology_view"] = TopologyView(art)
         /\ Views(art, diff)["findings_view"] = FindingsView(Intelligence(art, diff))
         /\ Views(art, diff)["remediation_view"] = RemediationView(art)
         /\ Views(art, diff)["device_health_cards"] = HealthCards(art)
<1>1. {"topology_view", "findings_view", "remediation_view", "device_health_cards"} \subseteq ToSet(ViewFiles(diff))
  BY ViewFilesFacts DEF AlwaysViews
<1>2. QED
  BY <1>1 DEF Views

\* Whatever is exported can be made events of.
LEMMA ViewsOK ==
  ASSUME NEW art \in Directories, NEW diff
  PROVE  \A file : ViewOK(file, Views(art, diff)[file])
<1> DEFINE rows == FindingsView(Intelligence(art, diff))
           warnings == TopologyView(art).warnings
           commands == RemediationView(art).commands
<1>1. LeftByAnalysis(art)
  BY ExportsAssumption
<1>2. IsFiniteSet(rows) /\ \A r \in rows : r.severity \in DOMAIN SeverityRank
  <2> DEFINE f == [x \in OpenFindings(art) |-> RowOf(x, art, diff)]
  <2>1. rows = {f[x] : x \in OpenFindings(art)} /\ DOMAIN f = OpenFindings(art)
    BY RowsOfFindings
  <2>2. \A x \in OpenFindings(art) : f[x].severity = SeverityOf(x)
    BY DEF RowOf
  <2> HIDE DEF f, rows
  <2>3. QED
    BY <2>1, <2>2, OpenFacts, FiniteImage
<1>3. IsFiniteSet(warnings) /\ \A w \in warnings : w.severity = "warning"
  <2>1. CASE ~Readable(art["topology"])
    <3>1. warnings = {}
      BY <2>1 DEF TopologyView
    <3>2. QED
      BY <3>1, FS_EmptySet
  <2>2. CASE Readable(art["topology"])
    <3> DEFINE S == art["topology"].warnings
               f == [w \in S |-> [kind |-> w[1], device |-> art["inventory"].device, severity |-> "warning",
                       interface |-> IF w[1] = "moving_mac" THEN None ELSE w[2], message |-> <<w[2], w[3]>>]]
    <3>1. warnings = {f[w] : w \in S} /\ DOMAIN f = S
      BY <2>2 DEF TopologyView
    <3>2. \A w \in S : f[w].severity = "warning"
      OBVIOUS
    <3>3. IsFiniteSet(S)
      BY <1>1, <2>2 DEF LeftByAnalysis
    <3> HIDE DEF f, S, warnings
    <3>4. QED
      BY <3>1, <3>2, <3>3, FiniteImage
  <2>3. QED
    BY <2>1, <2>2
<1>4. IsFiniteSet(commands)
  <2>1. commands \in SUBSET PlanOf(art)
    BY DEF RemediationView
  <2>2. IsFiniteSet(PlanOf(art))
    BY <1>1, FS_EmptySet DEF PlanOf, ReadOr, LeftByAnalysis
  <2> HIDE DEF commands
  <2>3. QED
    BY <2>1, <2>2, FS_Subset
<1>5. QED
  BY <1>2, <1>3, <1>4, ViewsParts DEF ViewOK

-----------------------------------------------------------------------------
(* Items, risks and cards.                                                 *)

\* An action that has a status of its plan and commands if it should gets an item.
LEMMA ActionHasItem ==
  ASSUME NEW a, a.status \in {"planned", "blocked", "skipped"},
         a.type # "investigation" /\ a.status = "planned" => a.commands # {},
         a.type = "investigation" => a.commands = {}
  PROVE  \E i \in ItemForAction(a) : i.finding = a.finding
<1>1. \A p, t : Item(p, t, a.finding, a.device, a.interface).finding = a.finding
  BY DEF Item
<1> DEFINE own == Priority[RuleMeta[a.rule].severity]
<1>2. CASE a.status = "planned" /\ a.commands # {}
  <2>1. ItemForAction(a) = {Item(own, "config-plan", a.finding, a.device, a.interface)}
    BY <1>2 DEF ItemForAction
  <2>2. QED
    BY <1>1, <2>1
<1>3. CASE ~(a.status = "planned" /\ a.commands # {}) /\ a.type = "investigation"
  <2>1. ItemForAction(a) = {Item(own, "investigate", a.finding, a.device, a.interface)}
    BY <1>3 DEF ItemForAction
  <2>2. QED
    BY <1>1, <2>1
<1>4. CASE a.type # "investigation" /\ a.status \in {"blocked", "skipped"}
  <2>1. ItemForAction(a) = {Item("P3", "investigate", a.finding, a.device, a.interface)}
    BY <1>4 DEF ItemForAction
  <2>2. QED
    BY <1>1, <2>1
<1>5. QED
  BY <1>2, <1>3, <1>4

LEMMA SeriousHaveItems ==
  ASSUME NEW art \in Directories, NEW diff,
         {a.finding : a \in PlanOf(art)} = {f.id : f \in OpenFindings(art)} \/ ~Readable(art["plan"]),
         NEW f \in OpenFindings(art), SeverityOf(f) \in SevereSet
  PROVE  \E i \in Intelligence(art, diff).items : i.finding = f.id
<1>0. Intelligence(art, diff).items = ActionItems(art, diff)
  BY DEF Intelligence
<1>1. CASE Readable(art["plan"])
  <2>1. PICK a \in PlanOf(art) : a.finding = f.id
    BY <1>1
  <2>2. LeftByAnalysis(art) /\ PlanOf(art) = art["plan"]
    BY <1>1, ExportsAssumption DEF PlanOf, ReadOr
  <2>3. /\ a.status \in {"planned", "blocked", "skipped"}
        /\ a.type # "investigation" /\ a.status = "planned" => a.commands # {}
        /\ a.type = "investigation" => a.commands = {}
    BY <1>1, <2>2 DEF LeftByAnalysis
  <2>4. PICK i \in ItemForAction(a) : i.finding = a.finding
    BY <2>3, ActionHasItem
  <2>5. i \in ActionItems(art, diff)
    <3>1. i \in UNION {ItemForAction(x) : x \in PlanOf(art)}
      BY <2>4
    <3>2. QED
      BY <1>1, <3>1 DEF ActionItems
  <2>6. QED
    BY <1>0, <2>1, <2>4, <2>5
<1>2. CASE ~Readable(art["plan"])
  <2>1. ItemForFinding(f) \in ActionItems(art, diff)
    <3>1. ItemForFinding(f) \in {ItemForFinding(x) : x \in {x \in OpenFindings(art) : SeverityOf(x) \in SevereSet}}
      OBVIOUS
    <3>2. QED
      BY <1>2, <3>1 DEF ActionItems
  <2>2. ItemForFinding(f).finding = f.id
    BY DEF ItemForFinding, Item
  <2>3. QED
    BY <1>0, <2>1, <2>2
<1>3. QED
  BY <1>1, <1>2

\* Rounding keeps the order of two numbers.
LEMMA RoundedOrder ==
  ASSUME NEW a \in Int, NEW b \in Int, a <= b
  PROVE  Rounded(a) \in Int /\ Rounded(b) \in Int /\ Rounded(a) <= Rounded(b)
<1> DEFINE p == a \div 100
           q == b \div 100
           r == a % 100
           s == b % 100
<1>1. /\ p \in Int /\ q \in Int /\ r \in 0..99 /\ s \in 0..99
      /\ a = 100 * p + r /\ b = 100 * q + s
  OBVIOUS
<1>2. /\ Rounded(a) = IF r > 50 \/ (r = 50 /\ p % 2 = 1) THEN p + 1 ELSE p
      /\ Rounded(b) = IF s > 50 \/ (s = 50 /\ q % 2 = 1) THEN q + 1 ELSE q
  BY DEF Rounded
<1> HIDE DEF p, q, r, s
<1>3. p < q \/ (p = q /\ r <= s)
  BY <1>1
<1>4. CASE p < q
  BY <1>1, <1>2, <1>4
<1>5. CASE p = q /\ r <= s
  BY <1>1, <1>2, <1>5
<1>6. QED
  BY <1>3, <1>4, <1>5

\* None is no verdict.
NoVerdict == None \notin {"failed", "unknown", "passed"}

\* A score is a number out of a hundred, and a verdict moves it the right way.
LEMMA ScoreFacts ==
  ASSUME NoVerdict, NEW rule \in Rules, NEW linked, NEW planned, NEW verdict
  PROVE  LET score(v) == Score(RuleMeta[rule], linked, planned, v)
         IN  /\ score(verdict) \in 0..100
             /\ verdict = "failed" => score(verdict) >= score(None)
             /\ verdict = "passed" => score(verdict) <= score(None)
<1> DEFINE meta == RuleMeta[rule]
           base == Weight[meta.severity] * Factor[meta.confidence] + 100 * Bump(meta.category)
           sum == base + (IF linked THEN 500 ELSE 0) + (IF planned THEN 500 ELSE 0)
           Clamped(x) == IF x > 100 THEN 100 ELSE IF x < 0 THEN 0 ELSE x
<1>1. \A v : Score(meta, linked, planned, v) = Clamped(Rounded(sum + 100 * Delta(v)))
  BY DEF Score
<1>2. meta.severity \in DOMAIN SeverityRank /\ meta.confidence \in {"high", "medium", "low"}
  BY IntelligenceAssumption
<1> HIDE DEF meta
<1>3. base \in Int
  <2>1. Weight[meta.severity] \in Int
    BY <1>2 DEF Weight, SeverityRank
  <2>2. Factor[meta.confidence] \in Int
    BY <1>2 DEF Factor
  <2>3. Bump(meta.category) \in Int
    BY DEF Bump
  <2>4. Weight[meta.severity] * Factor[meta.confidence] \in Int
    BY <2>1, <2>2
  <2>5. QED
    BY <2>3, <2>4
<1>4. sum \in Int
  <2> HIDE DEF base
  <2>1. QED
    BY <1>3
<1>5. Delta(None) = 0 /\ Delta("failed") = 15 /\ Delta("passed") = -25 /\ Delta(verdict) \in Int
  <2>1. Delta(None) = 0 /\ Delta("failed") = 15 /\ Delta("passed") = -25
    BY DEF Delta, NoVerdict
  <2>2. Delta(verdict) \in Int
    BY DEF Delta
  <2>3. QED
    BY <2>1, <2>2
<1> HIDE DEF sum
<1>6. \A x, y \in Int : Clamped(x) \in 0..100 /\ (x <= y => Clamped(x) <= Clamped(y))
  OBVIOUS
<1>7. Rounded(sum + 100 * Delta(verdict)) \in Int /\ Rounded(sum) \in Int
  BY <1>4, <1>5, RoundedOrder
<1>8. Rounded(sum + 100 * Delta(None)) = Rounded(sum)
  BY <1>4, <1>5
<1>9. Rounded(sum + 100 * Delta("failed")) \in Int /\ Rounded(sum + 100 * Delta("failed")) >= Rounded(sum)
  <2>1. sum <= sum + 1500
    BY <1>4
  <2>2. QED
    BY <1>4, <1>5, <2>1, RoundedOrder
<1>10. Rounded(sum + 100 * Delta("passed")) \in Int /\ Rounded(sum + 100 * Delta("passed")) <= Rounded(sum)
  <2>1. sum - 2500 <= sum /\ sum + 100 * Delta("passed") = sum - 2500
    BY <1>4, <1>5
  <2>2. QED
    BY <1>4, <2>1, RoundedOrder
<1> HIDE DEF Clamped
<1>11. QED
  BY <1>1, <1>6, <1>7, <1>8, <1>9, <1>10 DEF meta

LEMMA RisksFollow ==
  ASSUME NoVerdict, NEW art \in Directories, NEW diff, NEW r \in Intelligence(art, diff).ranked
  PROVE  LET f == r.finding
             plain == Score(RuleMeta[f.rule], <<f.device, f.interface>> \in TopologyEnds(art),
                            f.id \in CommandBearing(art), None)
         IN  /\ r.risk \in 0..100
             /\ VerdictOn(f.id, diff) = "failed" => r.risk >= plain
             /\ VerdictOn(f.id, diff) = "passed" => r.risk <= plain
<1>1. PICK f \in OpenFindings(art) : r = [finding |-> f, risk |-> RiskOf(f, art, diff)]
  BY DEF Intelligence, Ranked
<1> DEFINE linked == <<f.device, f.interface>> \in TopologyEnds(art)
           planned == f.id \in CommandBearing(art)
           verdict == VerdictOn(f.id, diff)
<1>2. r.finding = f /\ r.risk = Score(RuleMeta[f.rule], linked, planned, verdict)
  BY <1>1 DEF RiskOf
<1>3. f.rule \in Rules
  BY OpenFacts
<1> HIDE DEF linked, planned, verdict
<1>4. /\ Score(RuleMeta[f.rule], linked, planned, verdict) \in 0..100
      /\ verdict = "failed" => Score(RuleMeta[f.rule], linked, planned, verdict) >= Score(RuleMeta[f.rule], linked, planned, None)
      /\ verdict = "passed" => Score(RuleMeta[f.rule], linked, planned, verdict) <= Score(RuleMeta[f.rule], linked, planned, None)
  BY <1>3, ScoreFacts
<1>5. QED
  BY <1>2, <1>4 DEF linked, planned, verdict

\* A card counts the rows of its device, and its colour is theirs.
LEMMA CardsMatch ==
  ASSUME NEW art \in Directories, NEW diff, NEW c \in HealthCards(art)
  PROVE  LET own == {f \in FindingsView(Intelligence(art, diff)) : f.device = c.device}
         IN  /\ c.findings = Cardinality(own)
             /\ c.status = "healthy" => own = {}
             /\ c.status = "critical" => \E f \in own : f.severity \in SevereSet
             /\ c.status = "warning" => own # {} /\ \A f \in own : f.severity \notin SevereSet
<1> DEFINE device == art["inventory"].device
           S == {f \in OpenFindings(art) : f.device = device}
           own == {f \in FindingsView(Intelligence(art, diff)) : f.device = device}
           severities == {SeverityOf(f) : f \in S}
           interfaces == DOMAIN art["inventory"].interfaces
           row == [f \in S |-> RowOf(f, art, diff)]
<1>1. c.device = device /\ c.findings = Cardinality(S) /\ c.status = HealthStatus(interfaces, severities)
  BY DEF HealthCards
<1>2. \A f \in S : row[f] = RowOf(f, art, diff) /\ row[f].device = f.device /\ row[f].severity = SeverityOf(f)
  BY DEF RowOf
<1>3. own = {row[f] : f \in S}
  <2>1. FindingsView(Intelligence(art, diff)) = {RowOf(f, art, diff) : f \in OpenFindings(art)}
    BY RowsOfFindings
  <2>2. \A f : RowOf(f, art, diff).device = f.device
    BY DEF RowOf
  <2>3. \A y \in own : \E f \in S : y = row[f]
    BY <2>1, <2>2
  <2>4. \A f \in S : row[f] \in own
    BY <2>1, <2>2
  <2> HIDE DEF own, row, S
  <2>5. QED
    BY <2>3, <2>4
<1>4. Cardinality(own) = Cardinality(S)
  <2>1. \A f, g \in S : row[f] = row[g] => f = g
    <3>1. \A f : RowOf(f, art, diff).id = f.id /\ RowOf(f, art, diff).mac = f.mac
      BY DEF RowOf
    <3>2. QED
      BY <3>1, OpenFacts
  <2>2. IsFiniteSet(S)
    <3>1. S \in SUBSET OpenFindings(art)
      OBVIOUS
    <3> HIDE DEF S
    <3>2. QED
      BY <3>1, OpenFacts, FS_Subset
  <2>3. DOMAIN row = S /\ row = [f \in S |-> row[f]]
    OBVIOUS
  <2> HIDE DEF row, own, S
  <2>4. row \in [S -> own] /\ \A y \in own : \E f \in S : row[f] = y
    BY <1>3, <2>3
  <2>5. row \in Bijection(S, own)
    BY <2>1, <2>4 DEF Bijection, Injection, Surjection, IsInjective
  <2>6. QED
    BY <2>2, <2>5, FS_Bijection DEF ExistsBijection
<1> HIDE DEF own, row, S
<1>5. HealthStatus(interfaces, severities) = "healthy" => severities = {}
  BY DEF HealthStatus
<1>6. HealthStatus(interfaces, severities) = "critical" => severities \cap SevereSet # {}
  BY DEF HealthStatus
<1>7. HealthStatus(interfaces, severities) = "warning" => severities # {} /\ severities \cap SevereSet = {}
  BY DEF HealthStatus
<1>8. severities = {y.severity : y \in own}
  <2>1. \A x \in severities : \E y \in own : x = y.severity
    BY <1>2, <1>3
  <2>2. \A y \in own : y.severity \in severities
    BY <1>2, <1>3
  <2> HIDE DEF severities
  <2>3. QED
    BY <2>1, <2>2
<1> HIDE DEF severities
<1>9. QED
  BY <1>1, <1>4, <1>5, <1>6, <1>7, <1>8 DEF own

-----------------------------------------------------------------------------
(* Files and lists.                                                        *)

LEMMA ModFacts ==
  ASSUME NEW n \in Nat, NEW m \in Nat \ {0}
  PROVE  n % m \in 0..(m - 1) /\ (n < m => n % m = n)
OBVIOUS

LEMMA MinTwo ==
  ASSUME NEW a \in Nat, NEW b \in Nat
  PROVE  Min({a, b}) = IF b < a THEN b ELSE a
BY DEF Min

LEMMA FileNames ==
  /\ ToSet(SourceFiles) = {"correlation_summary", "incidents", "topology_view", "findings_view",
                           "remediation_view", "export_metadata"}
  /\ ToSet(ReportFiles) = {"signals", "incidents", "correlation_summary"}
  /\ ToSet(StateFiles) = {"current_state", "active_incidents", "recent_events", "stream_summary"}
<1>1. 1..3 = {1, 2, 3} /\ 1..4 = {1, 2, 3, 4} /\ 1..6 = {1, 2, 3, 4, 5, 6}
  OBVIOUS
<1>2. QED
  BY <1>1 DEF ToSet, SourceFiles, ReportFiles, StateFiles

LEMMA FileLists ==
  /\ SourceFiles \in Seq(ToSet(SourceFiles)) /\ SourceFiles # <<>>
  /\ ReportFiles \in Seq(ToSet(ReportFiles)) /\ ReportFiles # <<>>
BY FileNames DEF SourceFiles, ReportFiles

LEMMA HeadTail ==
  ASSUME NEW S, NEW s \in Seq(S), s # <<>>
  PROVE  Head(s) \in S /\ Tail(s) \in Seq(S)
OBVIOUS

-----------------------------------------------------------------------------
(* The invariant.  None is told apart from what is written to the files    *)
(* and from the verdicts, as null is in the code.                          *)

Marked == NoVerdict /\ (\A a, c : Readable([of |-> a, content |-> c])) /\ \A s : Totals(s) # None

\* Only an export or a correlation is under way, and with what it started from.
ExportUnderWay(p) ==
  /\ p.kind = "export" /\ Readable(artefacts["inventory"])
  /\ \E diff \in Comparisons :
       /\ p = [kind |-> "export", into |-> "views", at |-> p.at, out |-> Views(artefacts, diff),
               intel |-> Intelligence(artefacts, diff), diff |-> diff, todo |-> p.todo, open |-> p.open]
       /\ p.todo \in Seq(ToSet(ViewFiles(diff)))
  /\ p.at \in Nat /\ p.todo # <<>> /\ p.open \in BOOLEAN
CorrelationUnderWay(p) ==
  /\ \E id \in ReportIds, incidents \in IncidentSets :
       p = [kind |-> "correlation", into |-> id, at |-> p.at,
            out |-> [f \in ToSet(ReportFiles) |-> IF f = "incidents" THEN incidents ELSE {}],
            todo |-> p.todo, open |-> p.open]
  /\ p.at \in Nat /\ p.todo \in Seq(ToSet(ReportFiles)) /\ p.todo # <<>> /\ p.open \in BOOLEAN

\* What can be read of the files is what a program wrote there.
WrittenOK ==
  /\ DOMAIN views = AllViews /\ DOMAIN reports = ReportIds
  /\ \A id \in ReportIds : DOMAIN reports[id] = ToSet(ReportFiles)
  /\ \A file \in AllViews : ViewFileOK(file, views[file])
  /\ \A id \in ReportIds, file \in ToSet(ReportFiles) : ReportFileOK(file, reports[id][file])
ExportsInv ==
  /\ artefacts \in Directories /\ now \in 0..MaxProductions /\ kills \in 0..MaxKills
  /\ producer # None => ExportUnderWay(producer) \/ CorrelationUnderWay(producer)
  /\ WrittenOK

\* A replay goes through its events in order, and the log explains the state.
ReplayedOK ==
  /\ EventSeq(ordered) /\ Len(ordered) >= 2 /\ InTime(ordered)
  /\ Explained(state, log) /\ state.total <= MaxTotal
  /\ \A n \in DOMAIN log : n \in DOMAIN ordered => log[n].event = ordered[n]

\* The four files, those still to be written apart.
StillToWrite ==
  {<<"current_state", "active_incidents", "recent_events", "stream_summary">>,
   <<"active_incidents", "recent_events", "stream_summary">>, <<"recent_events", "stream_summary">>,
   <<"stream_summary">>}
Saved(file) == current[file] = [of |-> replays, content |-> ContentOfState(file, state)]
FilesOK ==
  /\ DOMAIN current = ToSet(StateFiles)
  /\ \A f \in ToSet(StateFiles) : Readable(current[f]) =>
       /\ current[f].of \in 0..replays
       /\ Readable(current["stream_summary"]) => current[f].of >= current["stream_summary"].of
  /\ stage \in {"write", "fill"} =>
       pending \in StillToWrite /\ \A f \in ToSet(StateFiles) \ ToSet(pending) : Saved(f)
  /\ stage = "done" => \A f \in ToSet(StateFiles) : Saved(f)

ReplayInv ==
  /\ stage \in {"idle", "collect", "order", "emit", "write", "fill", "done"}
  /\ options \in Options /\ replays \in 0..MaxReplays
  /\ DOMAIN collected = ToSet(SourceFiles) /\ CollectedOK(collected)
  /\ stage = "collect" => pending \in Seq(ToSet(SourceFiles))
  /\ stage \in {"idle", "collect", "order"} => state = Fresh
  /\ stage = "order" => EventSeq(ordered) /\ Len(ordered) >= 2
  /\ Replaying => ReplayedOK
  /\ FilesOK

\* An entry of the cache is younger than its time to live.
ServerInv ==
  \A key \in Keys : cache[key] # None =>
    cache[key] = [value |-> cache[key].value, age |-> cache[key].age] /\ cache[key].age \in 0..(TTL - 1)

MonitoringInv == ExportsInv /\ ReplayInv /\ ServerInv /\ reader \in {"replay", "server"}

-----------------------------------------------------------------------------
(* The producers keep the invariant.                                       *)

LEMMA NoneIsNoFile == ~Readable(None) /\ ~Readable(Torn)
BY DEF Readable

LEMMA ExportsInitInv == ExportsInit => ExportsInv
<1> SUFFICES ASSUME ExportsInit PROVE ExportsInv
  OBVIOUS
<1>1. now \in 0..MaxProductions /\ kills \in 0..MaxKills /\ producer = None /\ artefacts \in Directories
  BY ExportsAssumption DEF ExportsInit
<1>2. ASSUME NEW file \in AllViews PROVE ViewFileOK(file, views[file])
  <2>1. views[file] = IF file \in ToSet(ViewFiles(None)) /\ Readable(artefacts["inventory"])
                      THEN [at |-> 0, content |-> Views(artefacts, None)[file]] ELSE None
    BY <1>2 DEF ExportsInit, Exported
  <2>2. ViewOK(file, Views(artefacts, None)[file])
    BY <1>1, ViewsOK
  <2>3. QED
    BY <2>1, <2>2, NoneIsNoFile DEF ViewFileOK
<1>3. DOMAIN views = AllViews /\ DOMAIN reports = ReportIds
      /\ \A id \in ReportIds : DOMAIN reports[id] = ToSet(ReportFiles)
  BY DEF ExportsInit, Exported
<1>4. \A id \in ReportIds, file \in ToSet(ReportFiles) : ReportFileOK(file, reports[id][file])
  BY NoneIsNoFile DEF ExportsInit, ReportFileOK
<1>5. QED
  BY <1>1, <1>2, <1>3, <1>4 DEF ExportsInv, WrittenOK

LEMMA ReanalyseInv == ASSUME ExportsInv, Reanalyse PROVE ExportsInv'
<1>1. artefacts' \in Directories /\ now' \in 0..MaxProductions /\ producer' = None
      /\ UNCHANGED <<views, reports, kills>>
  BY ExportsAssumption DEF Reanalyse, ExportsInv
<1>2. WrittenOK'
  BY <1>1 DEF ExportsInv, WrittenOK
<1>3. QED
  BY <1>1, <1>2 DEF ExportsInv

LEMMA StartExportInv == ASSUME ExportsInv, NEW diff \in Comparisons, StartExport(diff) PROVE ExportsInv'
<1>1. now' \in 0..MaxProductions /\ now + 1 \in Nat /\ UNCHANGED <<artefacts, views, reports, kills>>
  BY ExportsAssumption DEF StartExport, ExportsInv
<1>2. WrittenOK'
  BY <1>1 DEF ExportsInv, WrittenOK
<1>3. ExportUnderWay(producer)'
  <2>1. producer' = [kind |-> "export", into |-> "views", at |-> now + 1, out |-> Views(artefacts, diff),
                     intel |-> Intelligence(artefacts, diff), diff |-> diff, todo |-> ViewFiles(diff), open |-> FALSE]
        /\ Readable(artefacts["inventory"])
    BY DEF StartExport
  <2>2. ViewFiles(diff) \in Seq(ToSet(ViewFiles(diff))) /\ ViewFiles(diff) # <<>>
    BY ViewFilesFacts
  <2>3. QED
    BY <1>1, <2>1, <2>2 DEF ExportUnderWay
<1>4. QED
  BY <1>1, <1>2, <1>3 DEF ExportsInv

LEMMA StartCorrelationInv ==
  ASSUME ExportsInv, NEW id \in ReportIds, NEW incidents \in IncidentSets, StartCorrelation(id, incidents)
  PROVE  ExportsInv'
<1>1. now' \in 0..MaxProductions /\ now + 1 \in Nat /\ UNCHANGED <<artefacts, views, reports, kills>>
  BY ExportsAssumption DEF StartCorrelation, ExportsInv
<1>2. WrittenOK'
  BY <1>1 DEF ExportsInv, WrittenOK
<1>3. CorrelationUnderWay(producer)'
  <2>1. producer' = [kind |-> "correlation", into |-> id, at |-> now + 1,
                     out |-> [f \in ToSet(ReportFiles) |-> IF f = "incidents" THEN incidents ELSE {}],
                     todo |-> ReportFiles, open |-> FALSE]
    BY DEF StartCorrelation
  <2>2. QED
    BY <1>1, <2>1, FileLists DEF CorrelationUnderWay
<1>4. QED
  BY <1>1, <1>2, <1>3 DEF ExportsInv

\* A file is put into one place and the others stay.
LEMMA PutFileOK ==
  ASSUME WrittenOK, NEW file, NEW content, PutFile(file, content),
         producer.kind = "export" => ViewFileOK(file, content),
         producer.kind # "export" => ReportFileOK(file, content)
  PROVE  WrittenOK'
<1>1. CASE producer.kind = "export"
  <2>1. views' = [views EXCEPT ![file] = content] /\ reports' = reports
    BY <1>1 DEF PutFile
  <2>2. \A f \in AllViews : views'[f] = IF f = file THEN content ELSE views[f]
    BY <2>1 DEF WrittenOK
  <2>3. DOMAIN views' = AllViews
    BY <2>1 DEF WrittenOK
  <2>4. \A f \in AllViews : ViewFileOK(f, views'[f])
    BY <1>1, <2>2 DEF WrittenOK
  <2>5. QED
    BY <2>1, <2>3, <2>4 DEF WrittenOK
<1>2. CASE producer.kind # "export"
  <2>1. reports' = [reports EXCEPT ![producer.into] = [@ EXCEPT ![file] = content]] /\ views' = views
    BY <1>2 DEF PutFile
  <2>2. DOMAIN reports' = ReportIds /\ \A id \in ReportIds : DOMAIN reports'[id] = ToSet(ReportFiles)
    BY <2>1 DEF WrittenOK
  <2>3. \A id \in ReportIds, f \in ToSet(ReportFiles) :
          reports'[id][f] = IF id = producer.into /\ f = file THEN content ELSE reports[id][f]
    BY <2>1 DEF WrittenOK
  <2>4. \A id \in ReportIds, f \in ToSet(ReportFiles) : ReportFileOK(f, reports'[id][f])
    BY <1>2, <2>3 DEF WrittenOK
  <2>5. QED
    BY <2>1, <2>2, <2>4 DEF WrittenOK
<1>3. QED
  BY <1>1, <1>2

\* The next file of a production that is under way.
LEMMA ExportRecord ==
  ASSUME NEW p, NEW at, NEW out, NEW intel, NEW diff, NEW todo, NEW open, NEW rest, NEW next, NEW q,
         p = [kind |-> "export", into |-> "views", at |-> at, out |-> out, intel |-> intel, diff |-> diff,
              todo |-> todo, open |-> open],
         \/ q = [p EXCEPT !.open = next] /\ rest = todo
         \/ q = [p EXCEPT !.todo = rest, !.open = next]
  PROVE  q = [kind |-> "export", into |-> "views", at |-> at, out |-> out, intel |-> intel, diff |-> diff,
              todo |-> rest, open |-> next]
OBVIOUS

LEMMA CorrelationRecord ==
  ASSUME NEW p, NEW id, NEW at, NEW out, NEW todo, NEW open, NEW rest, NEW next, NEW q,
         p = [kind |-> "correlation", into |-> id, at |-> at, out |-> out, todo |-> todo, open |-> open],
         \/ q = [p EXCEPT !.open = next] /\ rest = todo
         \/ q = [p EXCEPT !.todo = rest, !.open = next]
  PROVE  q = [kind |-> "correlation", into |-> id, at |-> at, out |-> out, todo |-> rest, open |-> next]
OBVIOUS

LEMMA TruncateFileInv == ASSUME ExportsInv, TruncateFile PROVE ExportsInv'
<1>1. producer # None /\ producer' = [producer EXCEPT !.open = TRUE] /\ UNCHANGED <<artefacts, now, kills>>
  BY DEF TruncateFile
<1>2. WrittenOK'
  <2>1. PutFile(Head(producer.todo), Torn)
    BY DEF TruncateFile
  <2>2. QED
    BY <2>1, PutFileOK, NoneIsNoFile DEF ExportsInv, ViewFileOK, ReportFileOK
<1>3. ExportUnderWay(producer) => ExportUnderWay(producer)'
  <2> SUFFICES ASSUME ExportUnderWay(producer) PROVE ExportUnderWay(producer)'
    OBVIOUS
  <2> DEFINE at == producer.at
             todo == producer.todo
             open == producer.open
  <2>1. PICK diff \in Comparisons :
          /\ producer = [kind |-> "export", into |-> "views", at |-> at, out |-> Views(artefacts, diff),
                         intel |-> Intelligence(artefacts, diff), diff |-> diff, todo |-> todo,
                         open |-> open]
          /\ producer.todo \in Seq(ToSet(ViewFiles(diff)))
    BY DEF ExportUnderWay
  <2> HIDE DEF at, todo, open
  <2>2. producer' = [kind |-> "export", into |-> "views", at |-> at, out |-> Views(artefacts, diff),
                     intel |-> Intelligence(artefacts, diff), diff |-> diff, todo |-> todo, open |-> TRUE]
    BY <1>1, <2>1, ExportRecord, Zenon
  <2>3. QED
    BY <1>1, <2>1, <2>2 DEF ExportUnderWay, at, todo, open
<1>4. CorrelationUnderWay(producer) => CorrelationUnderWay(producer)'
  <2> SUFFICES ASSUME CorrelationUnderWay(producer) PROVE CorrelationUnderWay(producer)'
    OBVIOUS
  <2> DEFINE at == producer.at
             todo == producer.todo
             open == producer.open
  <2>1. PICK id \in ReportIds, incidents \in IncidentSets :
          producer = [kind |-> "correlation", into |-> id, at |-> at,
                      out |-> [f \in ToSet(ReportFiles) |-> IF f = "incidents" THEN incidents ELSE {}],
                      todo |-> todo, open |-> open]
    BY DEF CorrelationUnderWay
  <2> HIDE DEF at, todo, open
  <2>2. producer' = [kind |-> "correlation", into |-> id, at |-> at,
                     out |-> [f \in ToSet(ReportFiles) |-> IF f = "incidents" THEN incidents ELSE {}],
                     todo |-> todo, open |-> TRUE]
    BY <1>1, <2>1, CorrelationRecord, Zenon
  <2>3. QED
    BY <2>1, <2>2 DEF CorrelationUnderWay, at, todo, open
<1>5. QED
  BY <1>1, <1>2, <1>3, <1>4 DEF ExportsInv

\* What is filled in is what the programs make, whole.
LEMMA FilledOK ==
  ASSUME ExportsInv, producer # None
  PROVE  LET file == Head(producer.todo)
         IN  /\ producer.kind = "export" => ViewFileOK(file, Filled(file))
             /\ producer.kind # "export" => ReportFileOK(file, Filled(file))
<1> DEFINE file == Head(producer.todo)
<1>1. CASE ExportUnderWay(producer)
  <2>1. PICK diff \in Comparisons : producer.out = Views(artefacts, diff)
    BY <1>1 DEF ExportUnderWay
  <2>2. producer.kind = "export" /\ producer.at \in Nat
    BY <1>1 DEF ExportUnderWay
  <2>3. Filled(file) = [at |-> producer.at, content |-> Views(artefacts, diff)[file]]
    BY <2>1, <2>2 DEF Filled
  <2>4. ViewOK(file, Views(artefacts, diff)[file])
    BY ViewsOK DEF ExportsInv
  <2>5. QED
    BY <2>2, <2>3, <2>4 DEF ViewFileOK
<1>2. CASE CorrelationUnderWay(producer)
  <2>1. PICK incidents \in IncidentSets :
          producer.kind = "correlation"
          /\ producer.out = [f \in ToSet(ReportFiles) |-> IF f = "incidents" THEN incidents ELSE {}]
    BY <1>2 DEF CorrelationUnderWay
  <2>2. producer.at \in Nat /\ file \in ToSet(ReportFiles)
    BY <1>2, HeadTail DEF CorrelationUnderWay
  <2>3. IncidentsOK(incidents)
    BY ExportsAssumption DEF IncidentsOK
  <2>4. file = "incidents" => Filled(file) = incidents
    BY <2>1, <2>2 DEF Filled
  <2>5. file = "correlation_summary" => Filled(file).at = producer.at
    BY DEF Filled
  <2>6. QED
    BY <2>1, <2>2, <2>3, <2>4, <2>5 DEF ReportFileOK
<1>3. QED
  BY <1>1, <1>2 DEF ExportsInv

LEMMA FillFileInv == ASSUME ExportsInv, FillFile PROVE ExportsInv'
<1> DEFINE rest == Tail(producer.todo)
<1>1. /\ producer # None /\ producer' = IF rest = <<>> THEN None ELSE [producer EXCEPT !.todo = rest, !.open = FALSE]
      /\ PutFile(Head(producer.todo), Filled(Head(producer.todo))) /\ UNCHANGED <<artefacts, now, kills>>
  BY DEF FillFile
<1>2. WrittenOK'
  BY <1>1, PutFileOK, FilledOK DEF ExportsInv
<1>3. ASSUME ExportUnderWay(producer), rest # <<>> PROVE ExportUnderWay(producer)'
  <2> DEFINE at == producer.at
             todo == producer.todo
             open == producer.open
  <2>1. PICK diff \in Comparisons :
          /\ producer = [kind |-> "export", into |-> "views", at |-> at, out |-> Views(artefacts, diff),
                         intel |-> Intelligence(artefacts, diff), diff |-> diff, todo |-> todo,
                         open |-> open]
          /\ producer.todo \in Seq(ToSet(ViewFiles(diff)))
    BY <1>3 DEF ExportUnderWay
  <2>2. rest \in Seq(ToSet(ViewFiles(diff))) /\ producer.at \in Nat /\ Readable(artefacts["inventory"])
    BY <1>3, <2>1, HeadTail DEF ExportUnderWay
  <2> HIDE DEF rest, at, todo, open
  <2>3. producer' = [kind |-> "export", into |-> "views", at |-> at, out |-> Views(artefacts, diff),
                     intel |-> Intelligence(artefacts, diff), diff |-> diff, todo |-> rest, open |-> FALSE]
    BY <1>1, <1>3, <2>1, ExportRecord, Zenon
  <2>4. QED
    BY <1>1, <1>3, <2>2, <2>3 DEF ExportUnderWay, at, todo, open
<1>4. ASSUME CorrelationUnderWay(producer), rest # <<>> PROVE CorrelationUnderWay(producer)'
  <2> DEFINE at == producer.at
             todo == producer.todo
             open == producer.open
  <2>1. PICK id \in ReportIds, incidents \in IncidentSets :
          producer = [kind |-> "correlation", into |-> id, at |-> at,
                      out |-> [f \in ToSet(ReportFiles) |-> IF f = "incidents" THEN incidents ELSE {}],
                      todo |-> todo, open |-> open]
    BY <1>4 DEF CorrelationUnderWay
  <2>2. rest \in Seq(ToSet(ReportFiles)) /\ producer.at \in Nat
    BY <1>4, HeadTail DEF CorrelationUnderWay
  <2> HIDE DEF rest, at, todo, open
  <2>3. producer' = [kind |-> "correlation", into |-> id, at |-> at,
                     out |-> [f \in ToSet(ReportFiles) |-> IF f = "incidents" THEN incidents ELSE {}],
                     todo |-> rest, open |-> FALSE]
    BY <1>1, <1>4, <2>1, CorrelationRecord, Zenon
  <2>4. QED
    BY <1>4, <2>2, <2>3 DEF CorrelationUnderWay, at, todo, open
<1>5. QED
  BY <1>1, <1>2, <1>3, <1>4 DEF ExportsInv

LEMMA KillProducerInv == ASSUME ExportsInv, KillProducer PROVE ExportsInv'
<1>1. /\ kills' \in 0..MaxKills /\ producer' = None /\ UNCHANGED <<artefacts, views, reports, now>>
  BY ExportsAssumption DEF KillProducer, ExportsInv
<1>2. WrittenOK'
  BY <1>1 DEF ExportsInv, WrittenOK
<1>3. QED
  BY <1>1, <1>2 DEF ExportsInv

LEMMA ExportsStep == ASSUME ExportsInv, ExportsNext PROVE ExportsInv'
BY ReanalyseInv, StartExportInv, StartCorrelationInv, TruncateFileInv, FillFileInv, KillProducerInv DEF ExportsNext

LEMMA ExportsStutter == ASSUME ExportsInv, UNCHANGED exportVars PROVE ExportsInv'
BY DEF ExportsInv, exportVars, WrittenOK, ExportUnderWay, CorrelationUnderWay

-----------------------------------------------------------------------------
(* The replay keeps the invariant.                                         *)

LEMMA NothingCollected == CollectedOK([f \in ToSet(SourceFiles) |-> None])
<1>1. \A f \in ToSet(SourceFiles) : [g \in ToSet(SourceFiles) |-> None][f] = None
  OBVIOUS
<1>2. QED
  BY <1>1, FileNames, NoneIsNoFile DEF CollectedOK, ViewFileOK, ReportFileOK

LEMMA ReplayInitInv == ReplayInit => ReplayInv
<1> SUFFICES ASSUME ReplayInit PROVE ReplayInv
  OBVIOUS
<1>1. stage = "idle" /\ options \in Options /\ replays \in 0..MaxReplays /\ state = Fresh
  BY ReplayAssumption DEF ReplayInit
<1>2. DOMAIN collected = ToSet(SourceFiles) /\ CollectedOK(collected)
  BY NothingCollected DEF ReplayInit
<1>3. FilesOK
  BY <1>1, NoneIsNoFile DEF ReplayInit, FilesOK
<1>4. QED
  BY <1>1, <1>2, <1>3 DEF ReplayInv, Replaying

\* What the steps before the events are known leave alone.
LEMMA FilesKept ==
  ASSUME FilesOK, replays \in Nat, current' = current, replays' \in Nat, replays' >= replays,
         stage' \notin {"write", "fill", "done"}
  PROVE  FilesOK'
BY DEF FilesOK

LEMMA StartReplayInv == ASSUME ReplayInv, NEW o \in Options, StartReplay(o) PROVE ReplayInv'
<1>1. /\ stage' = "collect" /\ options' \in Options /\ pending' = SourceFiles /\ state' = Fresh
      /\ replays' \in 0..MaxReplays /\ replays' >= replays /\ replays \in Nat /\ current' = current
  BY ReplayAssumption DEF StartReplay, ReplayInv
<1>2. (DOMAIN collected = ToSet(SourceFiles) /\ CollectedOK(collected))'
  BY NothingCollected DEF StartReplay
<1>3. FilesOK'
  BY <1>1, FilesKept DEF ReplayInv
<1>4. QED
  BY <1>1, <1>2, <1>3, FileLists DEF ReplayInv, Replaying

LEMMA ReadSourceInv == ASSUME ReplayInv, WrittenOK, ReadSource PROVE ReplayInv'
<1> DEFINE file == Head(pending)
           content == IF file \in ToSet(ReportFiles) THEN reports[options.id][file] ELSE views[file]
<1>1. /\ stage = "collect" /\ UNCHANGED <<stage, options, ordered, state, log, current, replays>>
      /\ collected' = [collected EXCEPT ![file] = content] /\ pending' = Tail(pending)
  BY DEF ReadSource
<1>2. file \in ToSet(SourceFiles) /\ pending' \in Seq(ToSet(SourceFiles))
  BY <1>1, HeadTail DEF ReadSource, ReplayInv
<1>3. options.id \in ReportIds
  BY ReplayAssumption DEF ReplayInv
<1>4. file \in {"correlation_summary", "incidents"} => ReportFileOK(file, content)
  BY <1>3, FileNames DEF WrittenOK
<1>5. file \in {"topology_view", "findings_view", "remediation_view", "export_metadata"} => ViewFileOK(file, content)
  <2>1. ASSUME file \in {"topology_view", "findings_view", "remediation_view", "export_metadata"}
        PROVE  file \in AllViews /\ content = views[file]
    <3>1. file \in AlwaysViews
      BY <2>1 DEF AlwaysViews
    <3>2. QED
      BY <2>1, <3>1, FileNames, ViewFilesFacts DEF AllViews
  <2>2. QED
    BY <2>1 DEF WrittenOK
<1> HIDE DEF content, file
<1>6. DOMAIN collected' = ToSet(SourceFiles) /\ \A f \in ToSet(SourceFiles) : collected'[f] = IF f = file THEN content ELSE collected[f]
  BY <1>1 DEF ReplayInv
<1>7. CollectedOK(collected)'
  BY <1>4, <1>5, <1>6, FileNames DEF CollectedOK, ReplayInv
<1>8. FilesOK'
  BY <1>1, FilesKept, ReplayAssumption DEF ReplayInv
<1>9. QED
  BY <1>1, <1>2, <1>6, <1>7, <1>8 DEF ReplayInv, Replaying

LEMMA FinishCollectInv == ASSUME ReplayInv, now \in Nat, FinishCollect PROVE ReplayInv'
<1>1. /\ stage = "collect" /\ stage' = "order" /\ ordered' = Collect(collected)
      /\ UNCHANGED <<options, pending, collected, state, log, current, replays>>
  BY DEF FinishCollect
<1>2. EventSeq(ordered') /\ Len(ordered') >= 2
  BY <1>1, CollectOK DEF ReplayInv
<1>3. FilesOK'
  BY <1>1, FilesKept, ReplayAssumption DEF ReplayInv
<1>4. QED
  BY <1>1, <1>2, <1>3 DEF ReplayInv, Replaying

LEMMA BeginReplayInv == ASSUME ReplayInv, BeginReplay PROVE ReplayInv'
<1>1. /\ stage = "order" /\ stage' = "emit" /\ ordered' = OrderEvents(ordered) /\ log' = <<>>
      /\ UNCHANGED <<options, pending, collected, state, current, replays>>
  BY DEF BeginReplay
<1>2. EventSeq(ordered') /\ Len(ordered') >= 2 /\ InTime(ordered')
  BY <1>1, OrderEventsOK DEF ReplayInv
<1>3. Explained(state', log') /\ state'.total <= MaxTotal
  <2>1. state' = Fresh /\ Fresh.total = 0
    BY <1>1 DEF ReplayInv, Fresh
  <2>2. QED
    BY <1>1, <2>1, FreshExplained, ReplayAssumption
<1>4. DOMAIN log' = {}
  BY <1>1
<1>5. ReplayedOK'
  BY <1>2, <1>3, <1>4 DEF ReplayedOK
<1>6. FilesOK'
  BY <1>1, FilesKept, ReplayAssumption DEF ReplayInv
<1>7. QED
  BY <1>1, <1>5, <1>6 DEF ReplayInv, Replaying

LEMMA EmitInv == ASSUME ReplayInv, Emit PROVE ReplayInv'
<1> DEFINE k == state.total
           e == ordered[(k % Len(ordered)) + 1]
           line == [seq |-> k, event |-> e]
<1>1. /\ stage = "emit" /\ stage' = "emit" /\ k < MaxTotal /\ state' = ApplyEvent(state, e)
      /\ log' = Append(log, line)
      /\ UNCHANGED <<options, pending, collected, ordered, current, replays>>
  BY DEF Emit
<1>2. ReplayedOK
  BY <1>1 DEF ReplayInv, Replaying
<1>3. k \in Nat /\ k = Len(log) /\ LogSeq(log) /\ StateShape(state)
  BY <1>2 DEF ReplayedOK, Explained, CounterFields, Counted
<1>4. Len(ordered) \in Nat \ {0} /\ DOMAIN ordered = 1..Len(ordered) /\ \A n \in DOMAIN ordered : EventOK(ordered[n])
  BY <1>2, OwnElements DEF ReplayedOK, EventSeq
<1>5. (k % Len(ordered)) + 1 \in DOMAIN ordered /\ (k < Len(ordered) => k % Len(ordered) = k)
  <2> DEFINE l == Len(ordered)
             r == k % l
  <2>1. r \in 0..(l - 1) /\ (k < l => r = k)
    BY <1>3, <1>4, ModFacts
  <2> HIDE DEF l, r
  <2>2. r + 1 \in 1..l
    BY <1>4, <2>1 DEF l
  <2>3. QED
    BY <1>4, <2>1, <2>2 DEF l, r
<1>6. EventOK(e)
  BY <1>4, <1>5
<1>7. k + 1 \in DOMAIN ordered => e = ordered[k + 1]
  BY <1>3, <1>4, <1>5
<1> HIDE DEF e
<1>8. Explained(state', log')
  BY <1>1, <1>2, <1>6, EmitExplained DEF ReplayedOK
<1>9. state'.total = k + 1
  BY <1>1, <1>3, <1>6, ApplyEventParts
<1>10. /\ DOMAIN log = 1..k /\ DOMAIN log' = 1..(k + 1) /\ log'[k + 1].event = e
       /\ \A n \in 1..k : log'[n].event = log[n].event
  <2>1. line.seq = Len(log) /\ line.event = e
    BY <1>3
  <2> HIDE DEF line
  <2>2. QED
    BY <1>1, <1>3, <1>6, <2>1, LogGrows
<1>11. \A n \in DOMAIN log' : n \in DOMAIN ordered => log'[n].event = ordered[n]
  <2> SUFFICES ASSUME NEW n \in 1..(k + 1), n \in DOMAIN ordered PROVE log'[n].event = ordered[n]
    BY <1>10
  <2>1. CASE n = k + 1
    BY <1>7, <1>10, <2>1
  <2>2. CASE n \in 1..k
    BY <1>2, <1>10, <2>2 DEF ReplayedOK
  <2>3. QED
    BY <1>3, <2>1, <2>2
<1>12. state'.total <= MaxTotal
  BY <1>1, <1>3, <1>9, ReplayAssumption
<1>13. ReplayedOK'
  BY <1>1, <1>2, <1>8, <1>11, <1>12 DEF ReplayedOK
<1>14. FilesOK'
  BY <1>1, FilesKept, ReplayAssumption DEF ReplayInv
<1>15. QED
  BY <1>1, <1>13, <1>14 DEF ReplayInv, Replaying

\* The files one after the other.
LEMMA StillToWriteFacts ==
  ASSUME NEW p \in StillToWrite
  PROVE  /\ Head(p) \in ToSet(StateFiles)
         /\ Tail(p) = <<>> => ToSet(StateFiles) \ ToSet(p) = ToSet(StateFiles) \ {"stream_summary"}
                              /\ Head(p) = "stream_summary"
         /\ Tail(p) # <<>> => Tail(p) \in StillToWrite /\ Head(p) # "stream_summary"
                              /\ ToSet(StateFiles) \ ToSet(Tail(p)) \subseteq (ToSet(StateFiles) \ ToSet(p)) \cup {Head(p)}
<1>1. 1..1 = {1} /\ 1..2 = {1, 2} /\ 1..3 = {1, 2, 3} /\ 1..4 = {1, 2, 3, 4}
  OBVIOUS
<1> DEFINE a == <<"current_state", "active_incidents", "recent_events", "stream_summary">>
           b == <<"active_incidents", "recent_events", "stream_summary">>
           c == <<"recent_events", "stream_summary">>
           d == <<"stream_summary">>
<1>2. /\ ToSet(a) = {"current_state", "active_incidents", "recent_events", "stream_summary"}
      /\ ToSet(b) = {"active_incidents", "recent_events", "stream_summary"}
      /\ ToSet(c) = {"recent_events", "stream_summary"}
      /\ ToSet(d) = {"stream_summary"}
  BY <1>1 DEF ToSet
<1>3. Tail(a) = b /\ Tail(b) = c /\ Tail(c) = d /\ Tail(d) = <<>>
  OBVIOUS
<1>4. Head(a) = "current_state" /\ Head(b) = "active_incidents" /\ Head(c) = "recent_events" /\ Head(d) = "stream_summary"
  OBVIOUS
<1>5. b # <<>> /\ c # <<>> /\ d # <<>>
  OBVIOUS
<1>6. StillToWrite = {a, b, c, d}
  BY DEF StillToWrite
<1> HIDE DEF a, b, c, d
<1>7. CASE p = a
  BY <1>2, <1>3, <1>4, <1>5, <1>6, <1>7, FileNames
<1>8. CASE p = b
  BY <1>2, <1>3, <1>4, <1>5, <1>6, <1>8, FileNames
<1>9. CASE p = c
  BY <1>2, <1>3, <1>4, <1>5, <1>6, <1>9, FileNames
<1>10. CASE p = d
  BY <1>2, <1>3, <1>4, <1>5, <1>6, <1>10, FileNames
<1>11. QED
  BY <1>6, <1>7, <1>8, <1>9, <1>10

LEMMA FinishReplayInv == ASSUME ReplayInv, FinishReplay PROVE ReplayInv'
<1>1. /\ stage = "emit" /\ stage' = "write" /\ pending' = StateFiles
      /\ UNCHANGED <<options, collected, ordered, state, log, current, replays>>
  BY DEF FinishReplay
<1>2. ReplayedOK'
  BY <1>1 DEF ReplayInv, Replaying, ReplayedOK
<1>3. pending' \in StillToWrite /\ ToSet(StateFiles) \ ToSet(pending') = {}
  BY <1>1 DEF StateFiles, StillToWrite
<1>4. FilesOK'
  BY <1>1, <1>3 DEF ReplayInv, FilesOK
<1>5. QED
  BY <1>1, <1>2, <1>4 DEF ReplayInv, Replaying

LEMMA TruncateStateInv == ASSUME ReplayInv, TruncateState PROVE ReplayInv'
<1> DEFINE file == Head(pending)
<1>1. /\ stage = "write" /\ stage' = "fill" /\ current' = [current EXCEPT ![file] = Torn]
      /\ UNCHANGED <<options, pending, collected, ordered, state, log, replays>>
  BY DEF TruncateState
<1>2. ReplayedOK'
  BY <1>1 DEF ReplayInv, Replaying, ReplayedOK
<1>3. pending \in StillToWrite /\ pending # <<>> /\ file \in ToSet(pending)
  BY <1>1 DEF ReplayInv, FilesOK, StillToWrite, ToSet
<1>4. DOMAIN current' = ToSet(StateFiles)
      /\ \A f \in ToSet(StateFiles) : current'[f] = IF f = file THEN Torn ELSE current[f]
  BY <1>1 DEF ReplayInv, FilesOK
<1> HIDE DEF file
<1>5. \A f \in ToSet(StateFiles) : Readable(current'[f]) => Readable(current[f]) /\ current'[f] = current[f]
  BY <1>4, NoneIsNoFile
<1>6. "stream_summary" \in ToSet(StateFiles)
  BY FileNames
<1>7. \A f \in ToSet(StateFiles) : Readable(current'[f]) =>
        /\ current'[f].of \in 0..replays
        /\ Readable(current'["stream_summary"]) => current'[f].of >= current'["stream_summary"].of
  BY <1>5, <1>6 DEF ReplayInv, FilesOK
<1>8. \A f \in ToSet(StateFiles) \ ToSet(pending) : Saved(f)'
  BY <1>1, <1>3, <1>4 DEF ReplayInv, FilesOK, Saved
<1>9. FilesOK'
  BY <1>1, <1>3, <1>4, <1>7, <1>8 DEF FilesOK
<1>10. QED
  BY <1>1, <1>2, <1>9 DEF ReplayInv, Replaying

LEMMA FillStateInv == ASSUME Marked, ReplayInv, FillState PROVE ReplayInv'
<1> DEFINE file == Head(pending)
           rest == Tail(pending)
           Of(f) == [of |-> replays, content |-> ContentOfState(f, state)]
           saved == Of(file)
<1>1. /\ stage = "fill" /\ stage' = IF rest = <<>> THEN "done" ELSE "write"
      /\ current' = [current EXCEPT ![file] = saved] /\ pending' = rest
      /\ UNCHANGED <<options, collected, ordered, state, log, replays>>
  BY DEF FillState
<1>2. ReplayedOK'
  BY <1>1 DEF ReplayInv, Replaying, ReplayedOK
<1>3. pending \in StillToWrite
  BY <1>1 DEF ReplayInv, FilesOK
<1>4. /\ file \in ToSet(StateFiles)
      /\ rest = <<>> => ToSet(StateFiles) \ ToSet(pending) = ToSet(StateFiles) \ {"stream_summary"}
                        /\ file = "stream_summary"
      /\ rest # <<>> => rest \in StillToWrite /\ file # "stream_summary"
                        /\ ToSet(StateFiles) \ ToSet(rest) \subseteq (ToSet(StateFiles) \ ToSet(pending)) \cup {file}
  BY <1>3, StillToWriteFacts
<1>5. DOMAIN current' = ToSet(StateFiles)
      /\ \A f \in ToSet(StateFiles) : current'[f] = IF f = file THEN saved ELSE current[f]
  BY <1>1 DEF ReplayInv, FilesOK
<1>6. Readable(saved) /\ saved.of = replays /\ replays \in 0..replays /\ replays \in Nat
  BY ReplayAssumption DEF ReplayInv, Marked
<1>7. current'[file] = Of(file) /\ \A f \in ToSet(StateFiles) \ ToSet(pending) : current'[f] = Of(f)
  <2>1. \A f \in ToSet(StateFiles) \ ToSet(pending) : current[f] = Of(f)
    BY <1>1 DEF ReplayInv, FilesOK, Saved
  <2> HIDE DEF Of
  <2>2. QED
    BY <1>4, <1>5, <2>1
<1>8. "stream_summary" \in ToSet(StateFiles)
  BY FileNames
<1> HIDE DEF file, rest, saved, Of
<1>9. \A f \in ToSet(StateFiles) : Readable(current'[f]) => current'[f].of \in 0..replays
  BY <1>5, <1>6 DEF ReplayInv, FilesOK
<1>10. \A f \in ToSet(StateFiles) : Readable(current'[f]) /\ Readable(current'["stream_summary"])
         => current'[f].of >= current'["stream_summary"].of
  <2> SUFFICES ASSUME NEW f \in ToSet(StateFiles), Readable(current'[f]), Readable(current'["stream_summary"])
               PROVE  current'[f].of >= current'["stream_summary"].of
    OBVIOUS
  <2>1. current'["stream_summary"].of \in 0..replays
    BY <1>8, <1>9
  <2>2. CASE rest = <<>>
    <3>1. current'[f] = Of(f)
      BY <1>4, <1>7, <2>2
    <3>2. QED
      BY <1>6, <2>1, <3>1 DEF Of
  <2>3. CASE rest # <<>> /\ f = file
    <3>1. current'[f].of = replays
      BY <1>5, <1>6, <2>3
    <3>2. QED
      BY <1>6, <2>1, <3>1
  <2>4. CASE rest # <<>> /\ f # file
    <3>1. current'["stream_summary"] = current["stream_summary"] /\ current'[f] = current[f]
      BY <1>4, <1>5, <1>8, <2>4
    <3>2. QED
      BY <3>1 DEF ReplayInv, FilesOK
  <2>5. QED
    BY <2>2, <2>3, <2>4
<1>11. stage' \in {"write", "fill"} =>
         pending' \in StillToWrite /\ \A f \in ToSet(StateFiles) \ ToSet(pending') : current'[f] = Of(f)
  BY <1>1, <1>4, <1>7
<1>12. stage' = "done" => \A f \in ToSet(StateFiles) : current'[f] = Of(f)
  BY <1>1, <1>4, <1>7
<1>13. \A f : Saved(f)' <=> current'[f] = Of(f)
  BY <1>1 DEF Saved, Of
<1>14. FilesOK'
  <2>1. replays' = replays
    BY <1>1
  <2>2. QED
    BY <1>5, <1>9, <1>10, <1>11, <1>12, <2>1, <1>13 DEF FilesOK
<1>15. stage' \in {"done", "write"}
  BY <1>1
<1>16. QED
  BY <1>1, <1>2, <1>14, <1>15 DEF ReplayInv, Replaying

LEMMA KillReplayInv == ASSUME ReplayInv, KillReplay PROVE ReplayInv'
<1>1. stage' = "idle" /\ state' = Fresh /\ UNCHANGED <<options, log, current, replays>>
  BY DEF KillReplay
<1>2. (DOMAIN collected = ToSet(SourceFiles) /\ CollectedOK(collected))'
  BY NothingCollected DEF KillReplay
<1>3. FilesOK'
  BY <1>1, FilesKept, ReplayAssumption DEF ReplayInv
<1>4. QED
  BY <1>1, <1>2, <1>3 DEF ReplayInv, Replaying

LEMMA ReplayStepInv == ASSUME Marked, ReplayInv, WrittenOK, now \in Nat, ReplayNext PROVE ReplayInv'
BY StartReplayInv, ReadSourceInv, FinishCollectInv, BeginReplayInv, EmitInv, FinishReplayInv, TruncateStateInv,
   FillStateInv DEF ReplayNext, ReplayStep

LEMMA ReplayStutter == ASSUME ReplayInv, UNCHANGED replayVars PROVE ReplayInv'
BY DEF ReplayInv, replayVars, Replaying, ReplayedOK, FilesOK, Saved

-----------------------------------------------------------------------------
(* The server keeps the invariant, and so do all together.                 *)

LEMMA ServerInitInv == ServerInit => ServerInv
BY DEF ServerInit, ServerInv

\* A hit stays as it is, and a miss is new.
LEMMA RememberedOK ==
  ASSUME ServerInv, NEW key \in Keys, NEW value
  PROVE  LET entry == Remembered(key, value)
         IN entry = [value |-> entry.value, age |-> entry.age] /\ entry.age \in 0..(TTL - 1)
BY DashboardAssumption DEF ServerInv, Remembered

LEMMA GetOverviewInv == ASSUME ServerInv, GetOverview PROVE ServerInv'
<1> SUFFICES ASSUME NEW key \in Keys, cache'[key] # None
             PROVE  cache'[key] = [value |-> cache'[key].value, age |-> cache'[key].age]
                    /\ cache'[key].age \in 0..(TTL - 1)
  BY DEF ServerInv
<1> DEFINE run == Serve(<<"runs", 0>>, WebNewest)
<1>1. cache'[key] = CASE key = <<"runs", 0>> -> Remembered(key, WebNewest)
                      [] key = <<"views", 0>> -> Remembered(key, LoadEngineC)
                      [] run # None /\ key = RunKey(run) -> Remembered(key, LoadCorrelation(run))
                      [] OTHER -> cache[key]
  BY DEF GetOverview
<1> HIDE DEF run
<1>2. cache'[key] = cache[key] \/ \E value : cache'[key] = Remembered(key, value)
  BY <1>1
<1>3. QED
  BY <1>2, RememberedOK DEF ServerInv

LEMMA TickInv == ASSUME ServerInv, Tick PROVE ServerInv'
<1> SUFFICES ASSUME NEW key \in Keys, cache'[key] # None
             PROVE  cache'[key] = [value |-> cache'[key].value, age |-> cache'[key].age]
                    /\ cache'[key].age \in 0..(TTL - 1)
  BY DEF ServerInv
<1>1. cache'[key] = IF cache[key] = None \/ cache[key].age + 1 >= TTL THEN None
                    ELSE [cache[key] EXCEPT !.age = @ + 1]
  BY DEF Tick
<1> DEFINE value == cache[key].value
           age == cache[key].age
<1>2. cache[key] = [value |-> value, age |-> age] /\ age \in 0..(TTL - 1) /\ ~(age + 1 >= TTL)
  BY <1>1 DEF ServerInv
<1>3. cache'[key] = [cache[key] EXCEPT !.age = @ + 1]
  BY <1>1, <1>2
<1> HIDE DEF value, age
<1>4. cache'[key] = [value |-> value, age |-> age + 1]
  BY <1>2, <1>3
<1>5. age + 1 \in 0..(TTL - 1)
  BY <1>2, DashboardAssumption
<1>6. QED
  BY <1>4, <1>5

LEMMA ServerStep == ASSUME ServerInv, ServerNext PROVE ServerInv'
BY GetOverviewInv, TickInv DEF ServerNext

LEMMA ServerStutter == ASSUME ServerInv, UNCHANGED serverVars PROVE ServerInv'
BY DEF ServerInv, serverVars

LEMMA MonitoringInitInv == MonitoringInit => MonitoringInv
BY ExportsInitInv, ReplayInitInv, ServerInitInv DEF MonitoringInit, MonitoringInv

LEMMA MonitoringStepInv ==
  ASSUME Marked, MonitoringInv, [MonitoringNext]_monitoringVars
  PROVE  MonitoringInv'
<1>1. now \in Nat /\ WrittenOK
  BY ExportsAssumption DEF MonitoringInv, ExportsInv
<1>2. CASE ExportsNext /\ UNCHANGED <<replayVars, serverVars, reader>>
  BY <1>2, ExportsStep, ReplayStutter, ServerStutter DEF MonitoringInv
<1>3. CASE ReplayNext /\ UNCHANGED <<exportVars, serverVars, reader>>
  BY <1>1, <1>3, ExportsStutter, ReplayStepInv, ServerStutter DEF MonitoringInv
<1>4. CASE KillReplay /\ UNCHANGED <<serverVars, reader>>
  <2>1. ExportsInv'
    <3>1. kills' \in 0..MaxKills /\ UNCHANGED <<artefacts, views, reports, producer, now>>
      BY <1>4, ExportsAssumption DEF KillReplay, MonitoringInv, ExportsInv
    <3>2. WrittenOK' /\ (ExportUnderWay(producer) => ExportUnderWay(producer)')
          /\ (CorrelationUnderWay(producer) => CorrelationUnderWay(producer)')
      BY <1>1, <3>1 DEF WrittenOK, ExportUnderWay, CorrelationUnderWay
    <3>3. QED
      BY <3>1, <3>2 DEF MonitoringInv, ExportsInv
  <2>2. QED
    BY <1>4, <2>1, KillReplayInv, ServerStutter DEF MonitoringInv
<1>5. CASE ServerNext /\ UNCHANGED <<exportVars, replayVars, reader>>
  BY <1>5, ExportsStutter, ReplayStutter, ServerStep DEF MonitoringInv
<1>6. CASE UNCHANGED monitoringVars
  BY <1>6, ExportsStutter, ReplayStutter, ServerStutter DEF MonitoringInv, monitoringVars
<1>7. QED
  BY <1>2, <1>3, <1>4, <1>5, <1>6 DEF MonitoringNext

-----------------------------------------------------------------------------
(* What the invariant says of the properties.                              *)

LEMMA TypesFollow == MonitoringInv => MonitoringTypeOK
<1> SUFFICES ASSUME MonitoringInv PROVE MonitoringTypeOK
  OBVIOUS
<1>1. DOMAIN artefacts = ArtefactFiles
  BY ExportsAssumption DEF MonitoringInv, ExportsInv, LeftByAnalysis
<1>2. producer # None => producer.todo # <<>> /\ producer.open \in BOOLEAN
  BY DEF MonitoringInv, ExportsInv, ExportUnderWay, CorrelationUnderWay
<1>3. state.total \in 0..MaxTotal
  <2>1. CASE Replaying
    BY <2>1, ReplayAssumption DEF MonitoringInv, ReplayInv, ReplayedOK, Explained, CounterFields
  <2>2. CASE ~Replaying
    <3>1. state.total = 0
      BY <2>2 DEF MonitoringInv, ReplayInv, Replaying, Fresh
    <3>2. QED
      BY <3>1, ReplayAssumption
  <2>3. QED
    BY <2>1, <2>2
<1>4. \A key \in Keys : cache[key] # None => cache[key].age \in 0..(TTL - 1)
  BY DEF MonitoringInv, ServerInv
<1>5. QED
  BY <1>1, <1>2, <1>3, <1>4 DEF MonitoringTypeOK, MonitoringInv, ExportsInv, WrittenOK, ReplayInv, FilesOK

LEMMA AnalysisFollows == ASSUME NoVerdict, MonitoringInv PROVE AnalysisSound
<1>1. artefacts \in Directories
  BY DEF MonitoringInv, ExportsInv
<1>2. Exporting => \E diff \in Comparisons :
        /\ producer.intel = Intelligence(artefacts, diff) /\ producer.diff = diff
        /\ producer.out = Views(artefacts, diff)
  BY DEF Exporting, MonitoringInv, ExportsInv, ExportUnderWay, CorrelationUnderWay
<1>3. SeriousFindingsHaveItems
  BY <1>1, <1>2, SeriousHaveItems DEF SeriousFindingsHaveItems
<1>4. RiskFollowsVerdict
  <2> SUFFICES ASSUME Exporting PROVE RiskFollowsVerdict
    BY DEF RiskFollowsVerdict
  <2>1. PICK diff \in Comparisons : producer.intel = Intelligence(artefacts, diff) /\ producer.diff = diff
    BY <1>2
  <2>2. QED
    BY <1>1, <2>1, RisksFollow DEF RiskFollowsVerdict
<1>5. CardsMatchFindings
  <2> SUFFICES ASSUME Exporting PROVE CardsMatchFindings
    BY DEF CardsMatchFindings
  <2>1. PICK diff \in Comparisons : producer.out = Views(artefacts, diff)
    BY <1>2
  <2>2. /\ producer.out["device_health_cards"] = HealthCards(artefacts)
        /\ producer.out["findings_view"] = FindingsView(Intelligence(artefacts, diff))
    BY <2>1, ViewsParts
  <2>3. QED
    BY <1>1, <2>2, CardsMatch DEF CardsMatchFindings
<1>6. QED
  BY <1>3, <1>4, <1>5, TypesFollow DEF AnalysisSound

LEMMA LogExplains == ASSUME MonitoringInv PROVE LogExplainsState
<1> SUFFICES ASSUME Replaying PROVE LogExplainsState
  BY DEF LogExplainsState
<1>1. Explained(state, log)
  BY DEF MonitoringInv, ReplayInv, ReplayedOK
<1>2. \A n \in DOMAIN log : log[n].seq = n - 1
  BY <1>1 DEF Explained, LogSeq
<1>3. state.total = Len(log) /\ Len(log) \in Nat
  BY <1>1 DEF Explained, Counted, CounterFields
<1>4. \A t \in Types : state.types[t] = Lines(LAMBDA e : e.type = t)
  BY <1>1 DEF Explained, Counted, Lines
<1>5. \A v \in DOMAIN SeverityRank : state.severities[v] = Lines(LAMBDA e : e.severity = v)
  BY <1>1 DEF Explained, Counted, Lines
<1>6. \A c \in SyslogCategories : state.categories[c] = Lines(LAMBDA e : e.engine = "syslog" /\ e.category = c)
  BY <1>1 DEF Explained, Counted, Lines, FromSyslog
<1>7. state.devices = {log[n].event.device : n \in DOMAIN log} \ {None}
  BY <1>1 DEF Explained, Seen
<1>8. state.clock = "degraded" <=> Lines(LAMBDA e : e.engine = "syslog" /\ e.type = "safety_status") > 0
  BY <1>1 DEF Explained, Seen, Lines, ClockNotice
<1>9. state.recent = [n \in 1..Min({RecentMax, Len(log)}) |-> log[Len(log) - Min({RecentMax, Len(log)}) + n].event.id]
  <2>1. Min({RecentMax, Len(log)}) = Window(log)
    BY <1>3, MinTwo, EventStreamAssumption DEF Window
  <2>2. QED
    BY <1>1, <2>1 DEF Explained, Remembers
<1>10. QED
  BY <1>2, <1>3, <1>4, <1>5, <1>6, <1>7, <1>8, <1>9 DEF LogExplainsState

LEMMA ChronologyFollows == ASSUME MonitoringInv PROVE ReplayChronological
<1> SUFFICES ASSUME Replaying PROVE ReplayChronological
  BY DEF ReplayChronological
<1>1. ReplayedOK
  BY DEF MonitoringInv, ReplayInv
<1>2. /\ Len(log) \in Nat /\ DOMAIN log = 1..Len(log)
      /\ Len(ordered) \in Nat /\ DOMAIN ordered = 1..Len(ordered)
  BY <1>1, OwnElements DEF ReplayedOK, Explained, LogSeq, EventSeq
<1>3. ASSUME NEW n \in 1..Min({Len(log), Len(ordered)}) PROVE n \in DOMAIN ordered /\ log[n].event = ordered[n]
  <2>1. n \in DOMAIN log /\ n \in DOMAIN ordered
    BY <1>2, <1>3, MinTwo
  <2>2. QED
    BY <1>1, <2>1 DEF ReplayedOK
<1>4. QED
  BY <1>1, <1>3 DEF ReplayedOK, InTime, ReplayChronological

LEMMA LivePageAddsUp == ASSUME Marked, MonitoringInv PROVE LiveMonitorAddsUp
<1>1. FilesOK
  BY DEF MonitoringInv, ReplayInv
<1>2. ASSUME stage = "done" PROVE LiveMonitor.available /\ LiveMonitor.totals.total = Len(log)
                                 /\ LiveMonitor.totals.active = Cardinality(DOMAIN LiveMonitor.incidents)
  <2>1. {"current_state", "active_incidents", "stream_summary"} \subseteq ToSet(StateFiles)
    BY FileNames
  <2>2. /\ current["current_state"] = [of |-> replays, content |-> Totals(state)]
        /\ current["stream_summary"] = [of |-> replays, content |-> Totals(state)]
        /\ current["active_incidents"] = [of |-> replays, content |-> state.incidents]
    <3>1. /\ ContentOfState("current_state", state) = Totals(state)
          /\ ContentOfState("stream_summary", state) = Totals(state)
          /\ ContentOfState("active_incidents", state) = state.incidents
      BY DEF ContentOfState
    <3>2. QED
      BY <1>1, <1>2, <2>1, <3>1 DEF FilesOK, Saved
  <2>3. /\ Readable(current["current_state"]) /\ Readable(current["stream_summary"])
        /\ Readable(current["active_incidents"]) /\ Totals(state) # None
    BY <2>2 DEF Marked
  <2>4. /\ LiveMonitor.available /\ LiveMonitor.totals = Totals(state)
        /\ LiveMonitor.incidents = state.incidents
    BY <2>2, <2>3 DEF LiveMonitor
  <2>5. Totals(state).total = state.total /\ Totals(state).active = Cardinality(DOMAIN state.incidents)
    BY DEF Totals
  <2>6. state.total = Len(log)
    BY <1>2 DEF MonitoringInv, ReplayInv, Replaying, ReplayedOK, Explained, Counted
  <2>7. QED
    BY <2>4, <2>5, <2>6
<1>3. Readable(current["stream_summary"]) =>
        \A f \in ToSet(StateFiles) : Readable(current[f]) => current[f].of >= current["stream_summary"].of
  BY <1>1 DEF FilesOK
<1>4. QED
  BY <1>2, <1>3 DEF LiveMonitorAddsUp

LEMMA ReplayFollows == ASSUME Marked, MonitoringInv PROVE ReplaySound
<1>1. IncidentsActiveOnce
  BY DEF IncidentsActiveOnce, MonitoringInv, ReplayInv, ReplayedOK, Explained, Seen
<1>2. QED
  BY <1>1, LogExplains, ChronologyFollows, LivePageAddsUp DEF ReplaySound

\* What Engine C tells its operators follows from the findings of the snapshot:
\* serious findings have items, verdicts move risks the right way, the cards
\* count the findings that are listed (src/network_config/intelligence and
\* dashboard_export), for every directory an analysis may leave.
THEOREM AnalysisSoundHolds ==
  ASSUME Marked
  PROVE  MonitoringSpec => []AnalysisSound
<1>1. MonitoringInit => MonitoringInv
  BY MonitoringInitInv
<1>2. MonitoringInv /\ [MonitoringNext]_monitoringVars => MonitoringInv'
  BY MonitoringStepInv
<1>3. MonitoringInv => AnalysisSound
  BY AnalysisFollows DEF Marked
<1>4. QED
  BY <1>1, <1>2, <1>3, PTL DEF MonitoringSpec

\* The monitoring state of src/streaming is what its log says, replayed in the
\* order of time, each incident active once, and the live page adds up, for
\* every stream of events, of any length, and at every point a replay may be
\* killed or meet a file that is being written.
THEOREM ReplaySoundHolds ==
  ASSUME Marked
  PROVE  MonitoringSpec => []ReplaySound
<1>1. MonitoringInit => MonitoringInv
  BY MonitoringInitInv
<1>2. MonitoringInv /\ [MonitoringNext]_monitoringVars => MonitoringInv'
  BY MonitoringStepInv
<1>3. MonitoringInv => ReplaySound
  BY ReplayFollows
<1>4. QED
  BY <1>1, <1>2, <1>3, PTL DEF MonitoringSpec

-----------------------------------------------------------------------------
(* What an analysis leaves is what its readers take for granted.           *)

\* The parts of an inventory that findings and warnings are made of.
LEMMA InventoryType ==
  ASSUME NEW c \in Captures, NEW s
  PROVE  LET inv == Inventory(c, s) IN
         /\ DOMAIN inv.trunks \subseteq Ports /\ DOMAIN inv.interfaces \subseteq Ports
         /\ \A p \in DOMAIN inv.trunks : inv.trunks[p].native \in Vlans
         /\ \A p \in DOMAIN inv.interfaces : inv.interfaces[p].vlan \in Vlans \cup {None}
         /\ inv.blocking \subseteq Ports \X Vlans
<1> DEFINE inv == Inventory(c, s)
<1>1. /\ c.switch.trunks \in Table([allowed : SUBSET Vlans, native : Vlans])
      /\ c.switch.blocking \subseteq Ports \X Vlans
      /\ \A p \in Ports : c.switch.ports[p].vlan \in Vlans \cup {None}
  BY DEF Captures, Switches
<1>2. inv.blocking = Rows(c, "spanning_tree", c.switch.blocking)
  BY DEF Inventory
<1>3. /\ DOMAIN inv.interfaces = Rows(c, "interface_status", Ports)
      /\ \A p \in DOMAIN inv.interfaces : inv.interfaces[p].vlan = c.switch.ports[p].vlan
      /\ DOMAIN inv.trunks = Rows(c, "trunk", DOMAIN c.switch.trunks)
      /\ \A p \in DOMAIN inv.trunks : inv.trunks[p] = c.switch.trunks[p]
  BY DEF Inventory
<1> HIDE DEF inv
<1>4. /\ DOMAIN c.switch.trunks \subseteq Ports
      /\ c.switch.trunks \in [DOMAIN c.switch.trunks -> [allowed : SUBSET Vlans, native : Vlans]]
  BY <1>1, TableType
<1>5. \A p \in DOMAIN c.switch.trunks : c.switch.trunks[p].native \in Vlans
  BY <1>4
<1>6. /\ Rows(c, "interface_status", Ports) \subseteq Ports
      /\ Rows(c, "trunk", DOMAIN c.switch.trunks) \subseteq DOMAIN c.switch.trunks
      /\ inv.blocking \subseteq c.switch.blocking
  BY <1>2 DEF Rows
<1>7. DOMAIN inv.trunks \subseteq Ports /\ \A p \in DOMAIN inv.trunks : inv.trunks[p].native \in Vlans
  BY <1>3, <1>4, <1>5, <1>6
<1>8. DOMAIN inv.interfaces \subseteq Ports
  BY <1>3, <1>6
<1> QED  BY <1>1, <1>3, <1>6, <1>7, <1>8 DEF inv

\* The VLANs of a finding follow from its rule and port.
TrunkVlans(inv, r, p) ==
  IF r = "TRUNK_MISSING_REQUIRED_VLAN" THEN RequiredVlans \ inv.trunks[p].allowed
  ELSE IF r = "TRUNK_UNAUTHORIZED_VLAN" THEN inv.trunks[p].allowed \ AuthorizedVlans
  ELSE {}

LEMMA DraftFacts ==
  ASSUME NEW c \in Captures, NEW s, NEW topology, topology \in {None, Topology(Inventory(c, s))},
         NEW r \in Rules, NEW d \in Found(r, Inventory(c, s), topology)
  PROVE  /\ d.interface \in Ports \cup {None} /\ d.vlan \in Vlans \cup {None}
         /\ d.mac \in Macs \cup {None}
         /\ d.vlans = TrunkVlans(Inventory(c, s), r, d.interface)
<1> DEFINE inv == Inventory(c, s)
           Typed == /\ d.interface \in Ports \cup {None} /\ d.vlan \in Vlans \cup {None}
                    /\ d.mac \in Macs \cup {None}
                    /\ d.vlans = TrunkVlans(inv, r, d.interface)
<1> SUFFICES Typed
  OBVIOUS
<1>1. /\ DOMAIN inv.trunks \subseteq Ports /\ DOMAIN inv.interfaces \subseteq Ports
      /\ \A p \in DOMAIN inv.trunks : inv.trunks[p].native \in Vlans
      /\ \A p \in DOMAIN inv.interfaces : inv.interfaces[p].vlan \in Vlans \cup {None}
      /\ inv.blocking \subseteq Ports \X Vlans
  BY InventoryType
<1>2. topology # None => topology.links = Links(inv)
  BY DEF Topology
<1> HIDE DEF inv
<1>3. \A m : OfMode(inv, m) \subseteq DOMAIN inv.interfaces
  BY DEF OfMode
<1>4. d \in Found(r, inv, topology)
  BY DEF inv
<1>5. CASE r = "TRUNK_MISSING_REQUIRED_VLAN"
  <2>1. d \in MissingVlans(inv)
    BY <1>4, <1>5, FoundBy
  <2>2. PICK p \in DOMAIN inv.trunks : d = Draft(p, None, RequiredVlans \ inv.trunks[p].allowed, None)
    BY <2>1 DEF MissingVlans
  <2> QED  BY <1>1, <1>5, <2>2 DEF Draft, TrunkVlans
<1>6. CASE r = "TRUNK_UNAUTHORIZED_VLAN"
  <2>1. d \in UnauthorizedVlans(inv)
    BY <1>4, <1>6, FoundBy
  <2>2. PICK p \in DOMAIN inv.trunks : d = Draft(p, None, inv.trunks[p].allowed \ AuthorizedVlans, None)
    BY <2>1 DEF UnauthorizedVlans
  <2> QED  BY <1>1, <1>6, <2>2 DEF Draft, TrunkVlans
<1>7. CASE r = "UNUSED_PORT_ADMIN_UP"
  <2>1. d \in UnusedPorts(inv)
    BY <1>4, <1>7, FoundBy
  <2> QED  BY <1>1, <1>7, <2>1 DEF UnusedPorts, Draft, TrunkVlans
<1>8. CASE r = "POE_DISABLED_EXPECTED"
  <2>1. d \in Unpowered(inv)
    BY <1>4, <1>8, FoundBy
  <2>2. PICK p \in DOMAIN inv.interfaces : d = Draft(p, None, {}, None)
    BY <2>1 DEF Unpowered
  <2> QED  BY <1>1, <1>8, <2>2 DEF Draft, TrunkVlans
<1>9. CASE r = "ACCESS_PORT_DISALLOWED_VLAN"
  <2>1. d \in DisallowedVlans(inv)
    BY <1>4, <1>9, FoundBy
  <2> QED  BY <1>1, <1>3, <1>9, <2>1 DEF DisallowedVlans, Draft, TrunkVlans
<1>10. CASE r = "NATIVE_VLAN_MISMATCH"
  <2>1. d \in NativeMismatch(inv)
    BY <1>4, <1>10, FoundBy
  <2> QED  BY <1>1, <1>10, <2>1 DEF NativeMismatch, Draft, TrunkVlans
<1>11. CASE r = "STP_BLOCKING_ACCESS_PORT"
  <2>1. d \in BlockedAccess(inv)
    BY <1>4, <1>11, FoundBy
  <2>2. PICK b \in inv.blocking : d = Draft(b[1], b[2], {}, None)
    BY <2>1 DEF BlockedAccess
  <2>3. b[1] \in Ports /\ b[2] \in Vlans
    BY <1>1
  <2> QED  BY <1>11, <2>2, <2>3 DEF Draft, TrunkVlans
<1>12. CASE r = "ACCESS_PORT_TOO_MANY_MACS"
  <2>1. d \in CrowdedAccess(inv)
    BY <1>4, <1>12, FoundBy
  <2> QED  BY <1>1, <1>3, <1>12, <2>1 DEF CrowdedAccess, Draft, TrunkVlans
<1>13. CASE r = "MAC_ON_MULTIPLE_INTERFACES"
  <2>1. d \in MovingMacs(inv)
    BY <1>4, <1>13, FoundBy
  <2> QED  BY <1>13, <2>1 DEF MovingMacs, Draft, TrunkVlans
<1>14. CASE r = "TRUNK_WITHOUT_NEIGHBOR"
  <2>1. topology # None
    BY <1>4, <1>14 DEF Found
  <2>2. d \in LonelyTrunks(inv, topology)
    BY <1>4, <1>14, <2>1, FoundBy
  <2>3. PICK p \in TrunkPorts(inv) : d = Draft(p, None, {}, None)
    BY <2>2 DEF LonelyTrunks, LonelyPorts
  <2>4. p \in Ports
    BY <1>1, <1>3 DEF TrunkPorts
  <2> QED  BY <1>14, <2>3, <2>4 DEF Draft, TrunkVlans
<1> QED
  <2>1. r \in {"TRUNK_MISSING_REQUIRED_VLAN", "TRUNK_UNAUTHORIZED_VLAN", "UNUSED_PORT_ADMIN_UP",
              "POE_DISABLED_EXPECTED", "ACCESS_PORT_DISALLOWED_VLAN", "NATIVE_VLAN_MISMATCH",
              "STP_BLOCKING_ACCESS_PORT", "ACCESS_PORT_TOO_MANY_MACS",
              "MAC_ON_MULTIPLE_INTERFACES", "TRUNK_WITHOUT_NEIGHBOR"}
    BY DEF Rules, CommandRules, InvestigationRules
  <2> HIDE DEF Typed
  <2> QED  BY <2>1, <1>5, <1>6, <1>7, <1>8, <1>9, <1>10, <1>11, <1>12, <1>13, <1>14

\* A finding is determined by its rule, its place and its address.
FindingKeys == (Rules \X (Ports \cup {None})) \X ((Vlans \cup {None}) \X (Macs \cup {None}))
KeyFinding(inv, k) ==
  FindingOf(k[1][1], inv.device,
            Draft(k[1][2], k[2][1], TrunkVlans(inv, k[1][1], k[1][2]), k[2][2]))

LEMMA FindingKeyed ==
  ASSUME NEW c \in Captures, NEW s, NEW skip, NEW f \in FindingsOf(c, s, skip)
  PROVE  \E k \in FindingKeys : f = KeyFinding(Inventory(c, s), k)
<1> DEFINE inv == Inventory(c, s)
<1>1. PICK r \in ActiveRules : \E d \in Found(r, inv, TopologyOf(c, s, skip)) :
        f = FindingOf(r, inv.device, d)
  BY FindingMade
<1>2. PICK d \in Found(r, inv, TopologyOf(c, s, skip)) : f = FindingOf(r, inv.device, d)
  BY <1>1
<1>3. r \in Rules /\ TopologyOf(c, s, skip) \in {None, Topology(inv)}
  BY PolicyAssumption DEF TopologyOf
<1>4. /\ d.interface \in Ports \cup {None} /\ d.vlan \in Vlans \cup {None}
      /\ d.mac \in Macs \cup {None}
      /\ d.vlans = TrunkVlans(inv, r, d.interface)
  BY <1>2, <1>3, DraftFacts
<1> HIDE DEF inv
<1> DEFINE k == <<<<r, d.interface>>, <<d.vlan, d.mac>>>>
<1>5. k \in FindingKeys
  BY <1>3, <1>4 DEF FindingKeys
<1>6. KeyFinding(inv, k) =
        FindingOf(r, inv.device, Draft(d.interface, d.vlan, TrunkVlans(inv, r, d.interface), d.mac))
  BY DEF KeyFinding
<1>7. FindingOf(r, inv.device, Draft(d.interface, d.vlan, d.vlans, d.mac)) =
        FindingOf(r, inv.device, d)
  BY DEF FindingOf, Draft
<1>8. f = KeyFinding(inv, k)
  BY <1>2, <1>4, <1>6, <1>7
<1> QED  BY <1>5, <1>8 DEF inv

LEMMA RulesFinite == IsFiniteSet(Rules)
<1> DEFINE name == <<"TRUNK_MISSING_REQUIRED_VLAN", "TRUNK_UNAUTHORIZED_VLAN",
                     "UNUSED_PORT_ADMIN_UP", "POE_DISABLED_EXPECTED",
                     "STP_BLOCKING_ACCESS_PORT", "MAC_ON_MULTIPLE_INTERFACES",
                     "TRUNK_WITHOUT_NEIGHBOR", "ACCESS_PORT_TOO_MANY_MACS",
                     "ACCESS_PORT_DISALLOWED_VLAN", "NATIVE_VLAN_MISMATCH">>
<1>1. DOMAIN name = 1 .. 10 /\ \A r \in Rules : \E i \in 1 .. 10 : r = name[i]
  BY DEF Rules, CommandRules, InvestigationRules
<1> HIDE DEF name
<1>2. IsFiniteSet({name[i] : i \in 1 .. 10})
  <2>1. IsFiniteSet(1 .. 10)
    <3>1. 1 \in Int /\ 10 \in Int
      OBVIOUS
    <3> QED  BY <3>1, FS_Interval, Zenon
  <2> QED  BY <1>1, <2>1, FiniteImage
<1>3. Rules \subseteq {name[i] : i \in 1 .. 10}
  BY <1>1
<1> QED  BY <1>2, <1>3, FS_Subset

\* Ports, VLANs and addresses of a switch.
FiniteSwitch == IsFiniteSet(Ports) /\ IsFiniteSet(Vlans) /\ IsFiniteSet(Macs)

LEMMA FindingsLeft ==
  ASSUME FiniteSwitch, NEW c \in Captures, NEW s, NEW skip
  PROVE  LET findings == FindingsOf(c, s, skip) IN
         /\ IsFiniteSet(findings)
         /\ \A f \in findings : f.rule \in Rules
         /\ \A f, g \in findings : f.id = g.id /\ f.mac = g.mac => f = g
<1> DEFINE findings == FindingsOf(c, s, skip)
           inv == Inventory(c, s)
           at == [k \in FindingKeys |-> KeyFinding(inv, k)]
<1>1. IsFiniteSet(FindingKeys)
  <2>1. /\ IsFiniteSet(Ports \cup {None}) /\ IsFiniteSet(Vlans \cup {None})
        /\ IsFiniteSet(Macs \cup {None})
    BY FS_Singleton, FS_Union DEF FiniteSwitch
  <2>2. /\ IsFiniteSet(Rules \X (Ports \cup {None}))
        /\ IsFiniteSet((Vlans \cup {None}) \X (Macs \cup {None}))
    BY <2>1, RulesFinite, FS_Product
  <2> QED  BY <2>2, FS_Product DEF FindingKeys
<1>2. \A f \in findings : \E k \in FindingKeys : f = KeyFinding(inv, k)
  BY FindingKeyed
<1> HIDE DEF findings, inv
<1>3. IsFiniteSet({at[k] : k \in FindingKeys})
  BY <1>1, FiniteImage
<1>4. findings \subseteq {at[k] : k \in FindingKeys}
  BY <1>2
<1>5. IsFiniteSet(findings)
  BY <1>3, <1>4, FS_Subset
<1>6. \A f \in findings : f.rule \in Rules
  <2>1. \A k \in FindingKeys : k[1][1] \in Rules /\ KeyFinding(inv, k).rule = k[1][1]
    BY DEF KeyFinding, FindingOf, FindingKeys
  <2> QED  BY <1>2, <2>1
<1>7. ASSUME NEW f \in findings, NEW g \in findings, f.id = g.id, f.mac = g.mac
      PROVE  f = g
  <2>1. PICK k \in FindingKeys : f = KeyFinding(inv, k)
    BY <1>2
  <2>2. PICK j \in FindingKeys : g = KeyFinding(inv, j)
    BY <1>2
  <2> DEFINE d == Draft(k[1][2], k[2][1], TrunkVlans(inv, k[1][1], k[1][2]), k[2][2])
             e == Draft(j[1][2], j[2][1], TrunkVlans(inv, j[1][1], j[1][2]), j[2][2])
  <2>3. f = FindingOf(k[1][1], inv.device, d) /\ g = FindingOf(j[1][1], inv.device, e)
    BY <2>1, <2>2 DEF KeyFinding
  <2>4. /\ d.interface = k[1][2] /\ d.vlan = k[2][1] /\ d.mac = k[2][2]
        /\ e.interface = j[1][2] /\ e.vlan = j[2][1] /\ e.mac = j[2][2]
    BY DEF Draft
  <2> HIDE DEF d, e
  <2>5. k[1][1] = j[1][1] /\ d.interface = e.interface /\ d.vlan = e.vlan
    BY <1>7, <2>3, SameId
  <2>6. d.mac = e.mac
    BY <1>7, <2>3 DEF FindingOf
  <2>7. d = e
    BY <2>4, <2>5, <2>6 DEF d, e
  <2> QED  BY <2>3, <2>5, <2>7
<1> QED  BY <1>5, <1>6, <1>7 DEF findings

LEMMA WarningsLeft ==
  ASSUME FiniteSwitch, NEW c \in Captures, NEW s
  PROVE  IsFiniteSet(Topology(Inventory(c, s)).warnings)
<1> DEFINE inv == Inventory(c, s)
<1>1. /\ DOMAIN inv.trunks \subseteq Ports /\ DOMAIN inv.interfaces \subseteq Ports
      /\ inv.blocking \subseteq Ports \X Vlans
  BY InventoryType
<1>2. Topology(inv).warnings = Warnings(inv)
  BY DEF Topology
<1> HIDE DEF inv
<1>3. TrunkPorts(inv) \subseteq Ports /\ OfMode(inv, "access") \subseteq Ports
  BY <1>1 DEF TrunkPorts, OfMode
<1>4. IsFiniteSet(Ports \X Vlans)
  BY FS_Product DEF FiniteSwitch
<1> DEFINE lonely == [p \in Ports |-> <<"trunk_without_neighbor", p, 0>>]
           crowded == [p \in Ports |-> <<"crowded_access_port", p, Cardinality(MacsOn(inv, p))>>]
           moving == [m \in Macs |-> <<"moving_mac", m, PortsOf(inv, m)>>]
           blocked == [b \in Ports \X Vlans |-> <<"blocked_access_port", b[1], b[2]>>]
<1>5. /\ IsFiniteSet({lonely[p] : p \in Ports}) /\ IsFiniteSet({crowded[p] : p \in Ports})
      /\ IsFiniteSet({moving[m] : m \in Macs})
  <2>1. DOMAIN lonely = Ports /\ DOMAIN crowded = Ports /\ DOMAIN moving = Macs
    OBVIOUS
  <2> HIDE DEF lonely, crowded, moving
  <2> QED  BY <2>1, FiniteImage DEF FiniteSwitch
<1>6. IsFiniteSet({blocked[b] : b \in Ports \X Vlans})
  <2>1. DOMAIN blocked = Ports \X Vlans
    OBVIOUS
  <2> HIDE DEF blocked
  <2> QED  BY <1>4, <2>1, FiniteImage
<1>7. {<<"trunk_without_neighbor", p, 0>> : p \in LonelyPorts(inv, Links(inv))}
        \subseteq {lonely[p] : p \in Ports}
  BY <1>3 DEF LonelyPorts
<1>8. {<<"crowded_access_port", p, Cardinality(MacsOn(inv, p))>> :
         p \in {q \in OfMode(inv, "access") :
                   Cardinality(MacsOn(inv, q)) > TopologyMacThreshold}}
        \subseteq {crowded[p] : p \in Ports}
  BY <1>3
<1>9. {<<"moving_mac", m, PortsOf(inv, m)>> :
         m \in {n \in Macs : Cardinality(PortsOf(inv, n)) > 1}}
        \subseteq {moving[m] : m \in Macs}
  OBVIOUS
<1>10. {<<"blocked_access_port", b[1], b[2]>> :
          b \in {x \in inv.blocking : x[1] \in OfMode(inv, "access")}}
        \subseteq {blocked[b] : b \in Ports \X Vlans}
  BY <1>1
<1> DEFINE L == {lonely[p] : p \in Ports}
           C == {crowded[p] : p \in Ports}
           M == {moving[m] : m \in Macs}
           B == {blocked[b] : b \in Ports \X Vlans}
<1>11. Warnings(inv) \subseteq ((L \cup C) \cup M) \cup B
  <2> HIDE DEF L, C, M, B
  <2> QED  BY <1>7, <1>8, <1>9, <1>10 DEF Warnings, L, C, M, B
<1>12. IsFiniteSet(L) /\ IsFiniteSet(C) /\ IsFiniteSet(M) /\ IsFiniteSet(B)
  BY <1>5, <1>6
<1> HIDE DEF L, C, M, B
<1>13. IsFiniteSet(((L \cup C) \cup M) \cup B)
  BY <1>12, FS_Union
<1>14. IsFiniteSet(Warnings(inv))
  BY <1>11, <1>13, FS_Subset
<1> QED  BY <1>2, <1>14 DEF inv

LEMMA PlanLeft ==
  ASSUME FiniteSwitch, NEW c \in Captures, NEW s, NEW skip, NEW config
  PROVE  LET plan == PlanFor(c, s, skip, config) IN
         /\ IsFiniteSet(plan)
         /\ \A a \in plan :
              /\ a.status \in {"planned", "blocked", "skipped"}
              /\ a.type # "investigation" /\ a.status = "planned" => a.commands # {}
              /\ a.type = "investigation" => a.commands = {}
<1> DEFINE plan == PlanFor(c, s, skip, config)
           open == Open(FindingsOf(c, s, skip))
           made == [f \in open |-> ActionFor(f, config)]
<1>1. IsFiniteSet(FindingsOf(c, s, skip))
  BY FindingsLeft
<1>2. IsFiniteSet(open)
  <2>1. open \subseteq IF FindingsOf(c, s, skip) = None THEN {} ELSE FindingsOf(c, s, skip)
    BY DEF Open
  <2> QED  BY <1>1, <2>1, FS_EmptySet, FS_Subset
<1>3. plan = {ActionFor(f, config) : f \in open}
  BY DEF PlanFor, Plan
<1> HIDE DEF plan, open
<1>4. plan = {made[f] : f \in open} /\ DOMAIN made = open
  BY <1>3
<1>5. IsFiniteSet(plan)
  <2> HIDE DEF made
  <2> QED  BY <1>2, <1>4, FiniteImage
<1>6. ASSUME NEW a \in plan
      PROVE  /\ a.status \in {"planned", "blocked", "skipped"}
             /\ a.type # "investigation" /\ a.status = "planned" => a.commands # {}
             /\ a.type = "investigation" => a.commands = {}
  <2>1. PICK f \in open : a = ActionFor(f, config)
    BY <1>3
  <2>2. ~Rejected(f, config) => Commands(f) # {}
    BY DEF Rejected
  <2> QED  BY <2>1, <2>2 DEF ActionFor, Action
<1> QED  BY <1>5, <1>6 DEF plan

\* The directory of a snapshot as its readers meet it.
DirectoryOf(s) ==
  [f \in ArtefactFiles |->
     IF files[s][f] \in {None, Torn} THEN files[s][f] ELSE files[s][f].data]

LEMMA InvLeft ==
  ASSUME FiniteSwitch, Inv, NEW s \in Snapshots
  PROVE  LeftByAnalysis(DirectoryOf(s))
<1> DEFINE d == DirectoryOf(s)
<1>1. /\ DOMAIN d = ArtefactFiles
      /\ \A f \in ArtefactFiles :
           d[f] = IF files[s][f] \in {None, Torn} THEN files[s][f] ELSE files[s][f].data
  BY DEF DirectoryOf
<1>2. ASSUME NEW f \in ArtefactFiles, Readable(d[f])
      PROVE  \E c \in Captures, skip \in Skips, config \in Configs :
               d[f] = DataOf(f, c, s, skip, config)
  <2>1. files[s][f] \notin {None, Torn} /\ d[f] = files[s][f].data
    BY <1>1, <1>2 DEF Readable
  <2>2. f \in SnapshotFiles
    BY DEF ArtefactFiles, SnapshotFiles
  <2>3. PICK c \in Captures, skip \in Skips : MadeFrom(files[s][f], f, c, s, skip)
    BY <2>1, <2>2 DEF Inv, FileMade
  <2>4. PICK config \in Configs : files[s][f] = Made(c, skip, DataOf(f, c, s, skip, config))
    BY <2>3 DEF MadeFrom
  <2>5. d[f] = DataOf(f, c, s, skip, config)
    BY <2>1, <2>4 DEF Made
  <2> QED  BY <2>5
<1> HIDE DEF d
<1>3. Readable(d["findings"]) =>
        /\ IsFiniteSet(d["findings"])
        /\ \A f \in d["findings"] : f.rule \in Rules
        /\ \A f, g \in d["findings"] : f.id = g.id /\ f.mac = g.mac => f = g
  <2> SUFFICES ASSUME Readable(d["findings"])
               PROVE  /\ IsFiniteSet(d["findings"])
                      /\ \A f \in d["findings"] : f.rule \in Rules
                      /\ \A f, g \in d["findings"] : f.id = g.id /\ f.mac = g.mac => f = g
    OBVIOUS
  <2>1. PICK c \in Captures, skip \in Skips, config \in Configs :
          d["findings"] = DataOf("findings", c, s, skip, config)
    BY <1>2 DEF ArtefactFiles
  <2>2. d["findings"] = FindingsOf(c, s, skip)
    BY <2>1 DEF DataOf
  <2> QED  BY <2>2, FindingsLeft
<1>4. Readable(d["topology"]) => IsFiniteSet(d["topology"].warnings)
  <2> SUFFICES ASSUME Readable(d["topology"]) PROVE IsFiniteSet(d["topology"].warnings)
    OBVIOUS
  <2>1. PICK c \in Captures, skip \in Skips, config \in Configs :
          d["topology"] = DataOf("topology", c, s, skip, config)
    BY <1>2 DEF ArtefactFiles
  <2>2. d["topology"] = Topology(Inventory(c, s))
    BY <2>1 DEF DataOf
  <2> QED  BY <2>2, WarningsLeft
<1>5. Readable(d["plan"]) =>
        /\ IsFiniteSet(d["plan"])
        /\ \A a \in d["plan"] :
             /\ a.status \in {"planned", "blocked", "skipped"}
             /\ a.type # "investigation" /\ a.status = "planned" => a.commands # {}
             /\ a.type = "investigation" => a.commands = {}
  <2> SUFFICES ASSUME Readable(d["plan"])
               PROVE  /\ IsFiniteSet(d["plan"])
                      /\ \A a \in d["plan"] :
                           /\ a.status \in {"planned", "blocked", "skipped"}
                           /\ a.type # "investigation" /\ a.status = "planned" => a.commands # {}
                           /\ a.type = "investigation" => a.commands = {}
    OBVIOUS
  <2>1. PICK c \in Captures, skip \in Skips, config \in Configs :
          d["plan"] = DataOf("plan", c, s, skip, config)
    BY <1>2 DEF ArtefactFiles
  <2>2. d["plan"] = PlanFor(c, s, skip, config)
    BY <2>1 DEF DataOf
  <2> QED  BY <2>2, PlanLeft
<1> QED  BY <1>1, <1>3, <1>4, <1>5 DEF LeftByAnalysis, d

\* What Exports and its readers assume of a snapshot directory is true of every
\* directory that the commands of Engine C leave, for any switches, policies and
\* outputs, also when a command died or left out a phase (artifacts.py).
THEOREM DirectoriesAsAssumed ==
  ASSUME FiniteSwitch
  PROVE  Spec => [](\A s \in Snapshots : LeftByAnalysis(DirectoryOf(s)))
<1>1. Inv => \A s \in Snapshots : LeftByAnalysis(DirectoryOf(s))
  BY InvLeft
<1> QED  BY <1>1, FilesMade, PTL

=============================================================================
