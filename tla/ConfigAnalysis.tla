--------------------------- MODULE ConfigAnalysis ---------------------------
(***************************************************************************)
(* What Engine C computes from the saved outputs of a switch: inventory,   *)
(* topology, findings, remediation plan, dry-run records, and the diff and *)
(* the verification of two snapshots.  A file the engine reads back is a   *)
(* value of this module; a finding id is the key it is hashed from.        *)
(***************************************************************************)
EXTENDS Naturals, FiniteSets

CONSTANTS
  Ports, Vlans, Macs,
  None,              \* a field without a value
  Torn,              \* a file whose writer died, or has not filled it yet
  ActiveRules,       \* rules that configs/network_rules.yaml lists and enables
  Suppressed,        \* pairs of a rule and a port that it suppresses
  AllowedVlans, RequiredVlans, AuthorizedVlans, ExpectedNative,
  MacThreshold,         \* addresses the rule allows on an access port
  TopologyMacThreshold, \* and the topology, before it warns: another setting
  DisabledTemplates, \* templates that configs/remediation.yaml disables
  InvestigationOnly  \* templates that it restricts to an investigation

CommandRules ==
  {"TRUNK_MISSING_REQUIRED_VLAN", "TRUNK_UNAUTHORIZED_VLAN",
   "UNUSED_PORT_ADMIN_UP", "POE_DISABLED_EXPECTED"}
InvestigationRules ==
  {"STP_BLOCKING_ACCESS_PORT", "MAC_ON_MULTIPLE_INTERFACES", "TRUNK_WITHOUT_NEIGHBOR",
   "ACCESS_PORT_TOO_MANY_MACS", "ACCESS_PORT_DISALLOWED_VLAN", "NATIVE_VLAN_MISMATCH"}
Rules == CommandRules \cup InvestigationRules

ASSUME PolicyAssumption ==
  /\ ActiveRules \subseteq Rules /\ DisabledTemplates \subseteq Rules
  /\ InvestigationOnly \subseteq Rules
  /\ Suppressed \subseteq Rules \X Ports
  /\ AllowedVlans \subseteq Vlans
  /\ RequiredVlans \subseteq Vlans /\ AuthorizedVlans \subseteq Vlans
  /\ MacThreshold \in Nat /\ TopologyMacThreshold \in Nat

-----------------------------------------------------------------------------
(* A switch, and what its saved command outputs show of it. *)

Outputs ==
  {"interface_status", "trunk", "neighbors", "mac_table", "power_inline",
   "spanning_tree", "running_config"}

\* What the model tells of a switch; a table may lack a port.
Table(row) == UNION {[ports -> row] : ports \in SUBSET Ports}
Switches ==
  [ hostname : STRING,
    ports : [Ports -> [mode : {"access", "trunk"}, vlan : Vlans \cup {None},
                       admin : {"up", "down"}, linked : BOOLEAN, powered : BOOLEAN,
                       held : {"no", "err-disabled", "inactive"}]],
    trunks : Table([allowed : SUBSET Vlans, native : Vlans]),
    power : Table([admin : {"auto", "never"}, draws : BOOLEAN]),
    neighbors : SUBSET [port : Ports, device : STRING, remote : Ports],
    macs : SUBSET (Macs \X Ports),
    blocking : SUBSET (Ports \X Vlans) ]

\* The status cell; "held" is what the switch itself keeps a port down for.
Status(port) ==
  IF port.admin = "down" THEN "disabled"
  ELSE IF port.held # "no" THEN port.held
  ELSE IF port.linked THEN "connected" ELSE "notconnect"

\* What `show power inline` says of a port.
PowerRow(row) ==
  [admin |-> row.admin, oper |-> IF row.admin = "auto" /\ row.draws THEN "on" ELSE "off"]

\* A capture is a switch and the set of the outputs that were saved.
Captures == [switch : Switches, saved : SUBSET Outputs]

Rows(c, output, rows) == IF output \in c.saved THEN rows ELSE {}

\* An output that is missing leaves its table empty; without the running
\* configuration the device takes the name of the snapshot.
Inventory(c, snapshot) ==
  LET s == c.switch
      power == [p \in Rows(c, "power_inline", DOMAIN s.power) |-> PowerRow(s.power[p])] IN
  [ device |-> IF "running_config" \in c.saved THEN s.hostname ELSE snapshot,
    interfaces |->
      [p \in Rows(c, "interface_status", Ports) |->
         [ mode |-> s.ports[p].mode, vlan |-> s.ports[p].vlan,
           status |-> Status(s.ports[p]), powered |-> s.ports[p].powered,
           poeEnabled |-> IF p \in DOMAIN power THEN power[p].admin = "auto" ELSE None,
           poeState |-> IF p \in DOMAIN power THEN power[p].oper ELSE None ]],
    trunks |-> [p \in Rows(c, "trunk", DOMAIN s.trunks) |-> s.trunks[p]],
    power |-> power,
    neighbors |-> Rows(c, "neighbors", s.neighbors),
    macs |-> Rows(c, "mac_table", s.macs),
    blocking |-> Rows(c, "spanning_tree", s.blocking) ]

\* Ports of one mode according to `show interfaces status`.
OfMode(inv, mode) == {p \in DOMAIN inv.interfaces : inv.interfaces[p].mode = mode}
TrunkPorts(inv) == DOMAIN inv.trunks \cup OfMode(inv, "trunk")

\* Two neighbours that name each other make one edge, of the lesser port.
Mirrors(inv, n) ==
  {m \in inv.neighbors :
     /\ n.device = inv.device /\ m.port = n.remote
     /\ m.device = inv.device /\ m.remote = n.port
     /\ m.port # n.port}
Links(inv) == {n \in inv.neighbors : \A m \in Mirrors(inv, n) : n.port < m.port}

MacsOn(inv, p) == {m \in Macs : <<m, p>> \in inv.macs}
PortsOf(inv, m) == {p \in Ports : <<m, p>> \in inv.macs}
LonelyPorts(inv, links) == TrunkPorts(inv) \ {n.port : n \in links}

\* Mutant: only the wiring is warned about.
WarningsStatic(inv) ==
  {<<"trunk_without_neighbor", p, 0>> : p \in LonelyPorts(inv, Links(inv))}

\* A warning is a kind, a port, and what its message tells.
Warnings(inv) ==
  {<<"trunk_without_neighbor", p, 0>> : p \in LonelyPorts(inv, Links(inv))}
  \cup {<<"crowded_access_port", p, Cardinality(MacsOn(inv, p))>> :
          p \in {q \in OfMode(inv, "access") :
                   Cardinality(MacsOn(inv, q)) > TopologyMacThreshold}}
  \cup {<<"moving_mac", m, PortsOf(inv, m)>> :
          m \in {n \in Macs : Cardinality(PortsOf(inv, n)) > 1}}
  \cup {<<"blocked_access_port", b[1], b[2]>> :
          b \in {x \in inv.blocking : x[1] \in OfMode(inv, "access")}}

Topology(inv) == [links |-> Links(inv), warnings |-> Warnings(inv)]

-----------------------------------------------------------------------------
(* Rules: what each one finds, as pairs of a place and its details. *)

Draft(port, vlan, vlans, mac) ==
  [interface |-> port, vlan |-> vlan, vlans |-> vlans, mac |-> mac]

MissingVlans(inv) ==
  {Draft(p, None, RequiredVlans \ inv.trunks[p].allowed, None) :
     p \in {q \in DOMAIN inv.trunks : ~RequiredVlans \subseteq inv.trunks[q].allowed}}

UnauthorizedVlans(inv) ==
  {Draft(p, None, inv.trunks[p].allowed \ AuthorizedVlans, None) :
     p \in {q \in DOMAIN inv.trunks :
              AuthorizedVlans # {} /\ ~inv.trunks[q].allowed \subseteq AuthorizedVlans}}

UnusedPorts(inv) ==
  {Draft(p, None, {}, None) :
     p \in {q \in DOMAIN inv.interfaces : inv.interfaces[q].status = "notconnect"}}

\* A port that ought to power a device and is not known to do so.
Unpowered(inv) ==
  {Draft(p, None, {}, None) :
     p \in {q \in DOMAIN inv.interfaces :
              /\ inv.interfaces[q].powered
              /\ inv.interfaces[q].poeState # "on" \/ inv.interfaces[q].poeEnabled # TRUE}}

DisallowedVlans(inv) ==
  {Draft(p, inv.interfaces[p].vlan, {}, None) :
     p \in {q \in OfMode(inv, "access") :
              /\ AllowedVlans # {} /\ inv.interfaces[q].vlan # None
              /\ inv.interfaces[q].vlan \notin AllowedVlans}}

NativeMismatch(inv) ==
  {Draft(p, inv.trunks[p].native, {}, None) :
     p \in {q \in DOMAIN inv.trunks :
              ExpectedNative # None /\ inv.trunks[q].native # ExpectedNative}}

BlockedAccess(inv) ==
  {Draft(b[1], b[2], {}, None) : b \in {x \in inv.blocking : x[1] \in OfMode(inv, "access")}}

CrowdedAccess(inv) ==
  {Draft(p, None, {}, None) :
     p \in {q \in OfMode(inv, "access") : Cardinality(MacsOn(inv, q)) > MacThreshold}}

\* One finding per address, and nothing but the address tells them apart.
MovingMacs(inv) ==
  {Draft(None, None, {}, m) :
     m \in {n \in Macs : Cardinality(PortsOf(inv, n)) > 1}}

LonelyTrunks(inv, topology) ==
  {Draft(p, None, {}, None) : p \in LonelyPorts(inv, topology.links)}

Found(rule, inv, topology) ==
  CASE rule = "TRUNK_MISSING_REQUIRED_VLAN" -> MissingVlans(inv)
    [] rule = "TRUNK_UNAUTHORIZED_VLAN" -> UnauthorizedVlans(inv)
    [] rule = "UNUSED_PORT_ADMIN_UP" -> UnusedPorts(inv)
    [] rule = "POE_DISABLED_EXPECTED" -> Unpowered(inv)
    [] rule = "ACCESS_PORT_DISALLOWED_VLAN" -> DisallowedVlans(inv)
    [] rule = "NATIVE_VLAN_MISMATCH" -> NativeMismatch(inv)
    [] rule = "STP_BLOCKING_ACCESS_PORT" -> BlockedAccess(inv)
    [] rule = "ACCESS_PORT_TOO_MANY_MACS" -> CrowdedAccess(inv)
    [] rule = "MAC_ON_MULTIPLE_INTERFACES" -> MovingMacs(inv)
    [] rule = "TRUNK_WITHOUT_NEIGHBOR" -> 
         IF topology = None THEN {} ELSE LonelyTrunks(inv, topology)

\* Without a topology the rule that needs one is skipped.
Findings(inv, topology) ==
  UNION {
    { [ id |-> <<r, inv.device, d.interface, d.vlan>>, rule |-> r,
        device |-> inv.device, interface |-> d.interface,
        vlans |-> d.vlans, mac |-> d.mac,
        status |-> IF <<r, d.interface>> \in Suppressed THEN "suppressed" ELSE "open" ] :
      d \in Found(r, inv, topology) } : r \in ActiveRules }

\* A file of findings that is missing has none open.
Open(findings) == {f \in IF findings = None THEN {} ELSE findings : f.status = "open"}
OpenIds(findings) == {f.id : f \in Open(findings)}

-----------------------------------------------------------------------------
(* Remediation: one action per open finding, never executed by the engine. *)

\* Mutant: the verbs of the two trunk templates are swapped.
CommandsSwapped(f) ==
  CASE f.rule = "TRUNK_MISSING_REQUIRED_VLAN" -> {<<"vlan_remove", v>> : v \in f.vlans}
    [] f.rule = "TRUNK_UNAUTHORIZED_VLAN" -> {<<"vlan_add", v>> : v \in f.vlans}
    [] f.rule = "UNUSED_PORT_ADMIN_UP" -> {<<"shutdown", 0>>}
    [] f.rule = "POE_DISABLED_EXPECTED" -> {<<"poe_auto", 0>>}

\* The lines of a template; the interface line before them is left out.
Commands(f) ==
  CASE f.rule = "TRUNK_MISSING_REQUIRED_VLAN" -> {<<"vlan_add", v>> : v \in f.vlans}
    [] f.rule = "TRUNK_UNAUTHORIZED_VLAN" -> {<<"vlan_remove", v>> : v \in f.vlans}
    [] f.rule = "UNUSED_PORT_ADMIN_UP" -> {<<"shutdown", 0>>}
    [] f.rule = "POE_DISABLED_EXPECTED" -> {<<"poe_auto", 0>>}

\* Mutant: a rollback that was copied from the template above it.
RollbackCopied(f) ==
  CASE f.rule = "TRUNK_MISSING_REQUIRED_VLAN" -> {<<"vlan_remove", v>> : v \in f.vlans}
    [] f.rule = "TRUNK_UNAUTHORIZED_VLAN" -> {<<"vlan_remove", v>> : v \in f.vlans}
    [] f.rule = "UNUSED_PORT_ADMIN_UP" -> {<<"no_shutdown", 0>>}
    [] f.rule = "POE_DISABLED_EXPECTED" -> {<<"poe_never", 0>>}

Rollback(f) ==
  CASE f.rule = "TRUNK_MISSING_REQUIRED_VLAN" -> {<<"vlan_remove", v>> : v \in f.vlans}
    [] f.rule = "TRUNK_UNAUTHORIZED_VLAN" -> {<<"vlan_add", v>> : v \in f.vlans}
    [] f.rule = "UNUSED_PORT_ADMIN_UP" -> {<<"no_shutdown", 0>>}
    [] f.rule = "POE_DISABLED_EXPECTED" -> {<<"poe_never", 0>>}

\* configs/remediation.yaml, "global".
RemediationConfigs ==
  [confirm : BOOLEAN, dryRun : BOOLEAN, needRollback : BOOLEAN, needVerification : BOOLEAN]

Action(f, type, status, commands, rollback, verification, confirm, dryRun) ==
  [ finding |-> f.id, rule |-> f.rule, device |-> f.device, interface |-> f.interface,
    mac |-> f.mac, type |-> type, status |-> status, commands |-> commands,
    rollback |-> rollback, verification |-> verification,
    confirm |-> confirm, dryRun |-> dryRun ]

\* Why a command action may not be planned.
Rejected(f, config) ==
  \/ Commands(f) = {}
  \/ config.needRollback /\ Rollback(f) = {}

ActionFor(f, config) ==
  IF f.rule \in DisabledTemplates
    THEN Action(f, "template", "skipped", {}, {}, FALSE, FALSE, TRUE)
  ELSE IF f.rule \in InvestigationRules \cup InvestigationOnly
    THEN Action(f, "investigation", "planned", {}, {}, f.rule \in InvestigationRules,
                FALSE, TRUE)
  ELSE IF Rejected(f, config)
    THEN Action(f, "template", "blocked", {}, {}, FALSE, FALSE, TRUE)
  ELSE Action(f, "template", "planned", Commands(f), Rollback(f), TRUE,
              config.confirm, config.dryRun)

Plan(findings, config) == {ActionFor(f, config) : f \in Open(findings)}

-----------------------------------------------------------------------------
(* The dry-run executor. *)

CONSTANT Safety  \* the checks that configs/network_action_executor.yaml keeps on
SafetyChecks == {"dry_run", "rollback", "verification", "investigation"}
ASSUME SafetyAssumption == Safety \subseteq SafetyChecks

Unsafe(a) ==
  \/ a.status # "planned"
  \/ "dry_run" \in Safety /\ ~a.dryRun
  \/ a.type = "investigation" /\ "investigation" \in Safety /\ a.commands # {}
  \/ /\ a.type # "investigation" /\ a.commands # {}
     /\ \/ ~a.confirm
        \/ "rollback" \in Safety /\ a.rollback = {}
        \/ "verification" \in Safety /\ ~a.verification

Validated(a) ==
  IF a.status = "skipped" THEN "skipped" ELSE IF Unsafe(a) THEN "blocked" ELSE "validated"

Records(plan) == {[action |-> a, status |-> Validated(a)] : a \in plan}

-----------------------------------------------------------------------------
(* Two snapshots compared: what changed, and which goals are met.  A file   *)
(* that is missing or does not parse is None.                               *)

\* The objects of a table with what is compared of them.
Tables(inv) ==
  [ interface |-> [k \in {inv.device} \X DOMAIN inv.interfaces |->
                     [i \in {"mode", "vlan", "status", "powered", "poeEnabled", "poeState"} |->
                        inv.interfaces[k[2]][i]]],
    trunk |-> [k \in {inv.device} \X DOMAIN inv.trunks |-> inv.trunks[k[2]]],
    poe |-> [k \in {inv.device} \X DOMAIN inv.power |-> inv.power[k[2]]],
    stp |-> [k \in {inv.device} \X {b[1] : b \in inv.blocking} |->
               {b \in inv.blocking : b[1] = k[2]}] ]

\* A link is compared by its two ends, whichever of them reported it.
Ends(device, links) == {{<<device, n.port>>, <<n.device, n.remote>>} : n \in links}

SymmetricDifference(x, y) == (x \cup y) \ (x \cap y)

\* The objects that were added, removed or changed.
Changed(before, after) ==
  LET b == Tables(before)
      a == Tables(after) IN
  UNION { {<<t, k>> : k \in {x \in DOMAIN b[t] \cup DOMAIN a[t] :
                              x \in DOMAIN b[t] \cap DOMAIN a[t] => b[t][x] # a[t][x]}} :
          t \in {"interface", "trunk", "poe", "stp"} }

\* Without both topologies their comparison is skipped.
ChangedLinks(before, after, tb, ta) ==
  IF None \in {tb, ta} THEN {}
  ELSE SymmetricDifference(Ends(before.device, tb.links), Ends(after.device, ta.links))

ChangedWarnings(tb, ta) ==
  IF None \in {tb, ta} THEN {} ELSE SymmetricDifference(tb.warnings, ta.warnings)

\* What is open in one of two snapshots only.
ResolvedIds(before, after) == OpenIds(before) \ OpenIds(after)
NewIds(before, after) == OpenIds(after) \ OpenIds(before)

Diff(before, after, tb, ta, fb, fa) ==
  [ objects |-> Changed(before, after), links |-> ChangedLinks(before, after, tb, ta),
    warnings |-> ChangedWarnings(tb, ta),
    resolved |-> ResolvedIds(fb, fa), new |-> NewIds(fb, fa) ]

\* Is the finding of an action known, and no longer open afterwards?
Resolved(a, before, after) ==
  /\ after # None /\ before # None
  /\ \E f \in before : f.id = a.finding
  /\ a.finding \notin OpenIds(after)

\* The VLANs an action is about: of its finding, or else of its commands.
GoalVlans(a, before) ==
  LET known == UNION {f.vlans : f \in {g \in IF before = None THEN {} ELSE before :
                                         g.id = a.finding}} IN
  IF known # {} THEN known ELSE {c[2] : c \in a.commands}

Row(a, inv, table) ==
  IF a.device = inv.device /\ a.interface \in DOMAIN table THEN table[a.interface] ELSE None

\* Mutant: a port without a link is taken for one that was shut down.
JudgePortDown(a, inv, before, after) ==
  LET row == Row(a, inv, inv.interfaces) IN
  IF Resolved(a, before, after) \/ (row # None /\ row.status # "connected") THEN "passed"
  ELSE IF row # None /\ after # None THEN "failed" ELSE "unknown"

\* The statuses with one of the _PORT_DOWN_TOKENS in them: "err-disabled" holds
\* the word "disabled".
ShowsDown == {"disabled", "err-disabled"}

JudgePort(a, inv, before, after) ==
  LET row == Row(a, inv, inv.interfaces) IN
  IF Resolved(a, before, after) \/ (row # None /\ row.status \in ShowsDown) THEN "passed"
  ELSE IF row # None /\ after # None THEN "failed" ELSE "unknown"

JudgeTrunk(a, inv, before) ==
  LET row == Row(a, inv, inv.trunks)
      vlans == GoalVlans(a, before)
      met == IF a.rule = "TRUNK_MISSING_REQUIRED_VLAN"
               THEN vlans \subseteq row.allowed ELSE vlans \cap row.allowed = {} IN
  IF row = None \/ vlans = {} THEN "unknown" ELSE IF met THEN "passed" ELSE "failed"

\* An interface whose PoE state was not captured says "none".
JudgePower(a, inv) ==
  LET row == Row(a, inv, inv.power)
      port == Row(a, inv, inv.interfaces)
      tokens == (IF row = None THEN {} ELSE {row.admin, row.oper})
                \cup (IF port = None THEN {}
                      ELSE IF port.poeState = None THEN {"none"} ELSE {port.poeState}) IN
  IF tokens = {} THEN "unknown"
  ELSE IF tokens \cap {"on", "auto"} # {} THEN "passed" ELSE "failed"

JudgeInvestigation(a, before, after) ==
  IF Resolved(a, before, after) THEN "passed" ELSE "not_applicable"

Judge(a, inv, before, after) ==
  CASE a.type = "investigation" -> JudgeInvestigation(a, before, after)
    [] a.rule = "UNUSED_PORT_ADMIN_UP" -> JudgePort(a, inv, before, after)
    [] a.rule = "POE_DISABLED_EXPECTED" -> JudgePower(a, inv)
    [] OTHER -> JudgeTrunk(a, inv, before)

Verification(plan, inv, before, after) ==
  IF plan = None THEN {}
  ELSE {[action |-> a, status |-> Judge(a, inv, before, after)] :
          a \in {x \in plan : x.status = "planned"}}
=============================================================================
