----------------------------- MODULE EvidenceProofs -----------------------------
(***************************************************************************)
(* Proofs about Evidence for every set of logs, artefacts, rules and       *)
(* command lines and any number of passes and kills: whoever finds a       *)
(* summary on the disk finds incidents and signals that are no older; and  *)
(* the incidents of a pass cover its signals of high risk, are critical    *)
(* for a reason and rest on one run of the syslog.                         *)
(*                                                                         *)
(* The second part goes from the rules (what the drafts of each may hold)  *)
(* over the fold of the engine (what is covered after so many rules) and   *)
(* the sources (which file a signal was made from) to the two programs.    *)
(***************************************************************************)
EXTENDS Evidence, FiniteSetTheorems, SequenceTheorems, WellFoundedInduction, NaturalsInduction, TLAPS

-----------------------------------------------------------------------------
(* Who finds a summary.                                                    *)

\* What is still to write is the rest of the list, from some file on.
Rest == {<<"signals", "incidents", "correlation_summary">>, <<"incidents", "correlation_summary">>,
         <<"correlation_summary">>}

Places == {"signals", "incidents", "correlation_summary"}

\* A file that can be read was written by a pass that has begun.
Stamped ==
  /\ passes \in Nat
  /\ DOMAIN reports = Places
  /\ \A f \in Places : Readable(reports[f]) => reports[f].pass \in Nat /\ reports[f].pass <= passes

\* The pass that writes has written the files before the one it is at.
Ahead ==
  pc \in {"write", "fill"} =>
    /\ todo \in Rest
    /\ Head(todo) \in {"incidents", "correlation_summary"} =>
         (Readable(reports["signals"]) => reports["signals"].pass = passes)
    /\ Head(todo) = "correlation_summary" =>
         (Readable(reports["incidents"]) => reports["incidents"].pass = passes)

\* While a file is being filled it cannot be read.
Open == pc = "fill" => ~Readable(reports[Head(todo)])

EInv == Stamped /\ Ahead /\ Open /\ SummaryLast

LEMMA InitEInv == Init => EInv
<1> SUFFICES ASSUME Init PROVE EInv
  OBVIOUS
<1>1. DOMAIN reports = Places /\ \A f \in Places : ~Readable(reports[f])
  BY DEF Init, ReportFiles, Names, Places, Readable
<1>2. Stamped
  BY <1>1 DEF Stamped, Init
<1>3. Ahead /\ Open
  BY DEF Ahead, Open, Init
<1>4. SummaryLast
  BY <1>1 DEF SummaryLast, Places
<1>5. QED
  BY <1>2, <1>3, <1>4 DEF EInv

\* A step that leaves the reports alone and neither begins nor ends a pass of
\* writing keeps the invariant.
LEMMA QuietStep ==
  ASSUME EInv, reports' = reports, passes' \in {passes, passes + 1},
         pc' \notin {"write", "fill"} \/ (pc' = pc /\ todo' = todo /\ passes' = passes)
  PROVE  EInv'
<1>1. Stamped'
  BY DEF EInv, Stamped, Readable
<1>2. Ahead' /\ Open'
  BY DEF EInv, Ahead, Open, Readable
<1>3. SummaryLast'
  BY DEF EInv, SummaryLast, Readable
<1>4. QED
  BY <1>1, <1>2, <1>3 DEF EInv

\* The rules have run: all the files are still to write.
LEMMA CorrelateStep ==
  ASSUME EInv, Correlate
  PROVE  EInv'
<1>1. reports' = reports /\ passes' = passes /\ pc' = "write"
  BY DEF Correlate
<1>2. todo' = <<"signals", "incidents", "correlation_summary">>
  BY DEF Correlate, ReportFiles
<1>3. Head(todo') = "signals" /\ todo' \in Rest
  BY <1>2 DEF Rest
<1>4. Stamped' /\ SummaryLast'
  BY <1>1 DEF EInv, Stamped, SummaryLast, Readable
<1>5. Ahead' /\ Open'
  BY <1>1, <1>3 DEF Ahead, Open
<1>6. QED
  BY <1>4, <1>5 DEF EInv

\* The files of a rest, one by one.
LEMMA HeadOfRest ==
  ASSUME NEW t \in Rest
  PROVE  /\ Head(t) \in Places
         /\ Head(t) = "signals" => Tail(t) = <<"incidents", "correlation_summary">>
         /\ Head(t) = "incidents" => Tail(t) = <<"correlation_summary">>
         /\ Head(t) = "correlation_summary" => Tail(t) = <<>>
<1>1. CASE t = <<"signals", "incidents", "correlation_summary">>
  BY <1>1 DEF Places
<1>2. CASE t = <<"incidents", "correlation_summary">>
  BY <1>2 DEF Places
<1>3. CASE t = <<"correlation_summary">>
  BY <1>3 DEF Places
<1>4. QED
  BY <1>1, <1>2, <1>3 DEF Rest

LEMMA TruncateStep ==
  ASSUME EInv, TruncateReport
  PROVE  EInv'
<1>1. pc = "write" /\ pc' = "fill" /\ passes' = passes /\ todo' = todo
  BY DEF TruncateReport, work
<1>2. todo \in Rest /\ Head(todo) \in Places
  BY <1>1, HeadOfRest DEF EInv, Ahead
<1>3. reports' = [reports EXCEPT ![Head(todo)] = Torn]
  BY DEF TruncateReport
<1>4. /\ DOMAIN reports' = Places
      /\ ~Readable(reports'[Head(todo)])
      /\ \A f \in Places : f # Head(todo) => reports'[f] = reports[f]
  BY <1>2, <1>3 DEF EInv, Stamped, Readable
<1>5. Stamped'
  BY <1>1, <1>4 DEF EInv, Stamped, Readable
<1>6. Ahead' /\ Open'
  BY <1>1, <1>2, <1>4 DEF EInv, Ahead, Open, Places, Readable
<1>7. SummaryLast'
  BY <1>4 DEF EInv, SummaryLast, Places, Readable
<1>8. QED
  BY <1>5, <1>6, <1>7 DEF EInv

LEMMA FillStep ==
  ASSUME EInv, FillReport
  PROVE  EInv'
<1>1. pc = "fill" /\ passes' = passes /\ todo' = Tail(todo)
      /\ pc' = IF Tail(todo) = <<>> THEN "done" ELSE "write"
  BY DEF FillReport, work
<1>2. todo \in Rest /\ Head(todo) \in Places
  BY <1>1, HeadOfRest DEF EInv, Ahead
<1> DEFINE new == [pass |-> passes, content |-> Reported(Head(todo))]
<1>3. reports' = [reports EXCEPT ![Head(todo)] = new]
  BY DEF FillReport
<1>4. new.pass = passes
  OBVIOUS
<1> HIDE DEF new
<1>5. /\ DOMAIN reports' = Places
      /\ reports'[Head(todo)] = new
      /\ \A f \in Places : f # Head(todo) => reports'[f] = reports[f]
  BY <1>2, <1>3 DEF EInv, Stamped
<1>6. Stamped'
  BY <1>1, <1>2, <1>4, <1>5 DEF EInv, Stamped, Readable
<1>7. Ahead' /\ Open'
  <2>1. CASE Head(todo) = "signals"
    <3>1. todo' = <<"incidents", "correlation_summary">>
      BY <1>1, <1>2, <2>1, HeadOfRest
    <3>2. Head(todo') = "incidents" /\ todo' \in Rest
      BY <3>1 DEF Rest
    <3>3. QED
      BY <1>1, <1>4, <1>5, <2>1, <3>2 DEF Ahead, Open
  <2>2. CASE Head(todo) = "incidents"
    <3>1. todo' = <<"correlation_summary">>
      BY <1>1, <1>2, <2>2, HeadOfRest
    <3>2. Head(todo') = "correlation_summary" /\ todo' \in Rest
      BY <3>1 DEF Rest
    <3>3. reports'["signals"] = reports["signals"] /\ reports'["incidents"] = new
      BY <1>5, <2>2 DEF Places
    <3>4. Readable(reports["signals"]) => reports["signals"].pass = passes
      BY <1>1, <2>2 DEF EInv, Ahead
    <3>5. QED
      BY <1>1, <1>4, <3>2, <3>3, <3>4 DEF Ahead, Open, Readable
  <2>3. CASE Head(todo) = "correlation_summary"
    <3>1. Tail(todo) = <<>>
      BY <1>2, <2>3, HeadOfRest
    <3>2. QED
      BY <1>1, <3>1 DEF Ahead, Open
  <2>4. QED
    BY <1>2, <2>1, <2>2, <2>3 DEF Places
<1>8. SummaryLast'
  BY <1>1, <1>2, <1>4, <1>5 DEF EInv, Ahead, Stamped, SummaryLast, Places, Readable
<1>9. QED
  BY <1>6, <1>7, <1>8 DEF EInv

\* Each step of the two programs and of what kills them.
LEMMA NextEInv == EInv /\ [Next]_vars => EInv'
<1> SUFFICES ASSUME EInv, [Next]_vars PROVE EInv'
  OBVIOUS
<1>1. CASE \E a \in Ingestions : StartIngest(a)
  BY <1>1, QuietStep DEF StartIngest, correlationVars, work
<1>2. CASE TruncateRunFile \/ FillRunFile
  BY <1>2, QuietStep DEF TruncateRunFile, FillRunFile, correlationVars, work
<1>3. CASE \E c \in Commands : StartCorrelation(c)
  <2>1. pc' = "load" /\ reports' = reports /\ passes' = passes + 1
    BY <1>3 DEF StartCorrelation
  <2>2. QED
    BY <2>1, QuietStep
<1>4. CASE Load
  <2>1. pc = "load" /\ pc' = pc /\ reports' = reports /\ passes' = passes
    BY <1>4 DEF Load, LoadConfig, LoadExperiments, ResolveSyslog, LoadSyslog, Loading, Continue
  <2>2. QED
    BY <2>1, QuietStep
<1>5. CASE Decide
  BY <1>5, QuietStep DEF Decide
<1>6. CASE Correlate
  BY <1>6, CorrelateStep
<1>7. CASE TruncateReport
  BY <1>7, TruncateStep
<1>8. CASE FillReport
  BY <1>8, FillStep
<1>9. CASE KillIngest
  BY <1>9, QuietStep DEF KillIngest, correlationVars, work
<1>10. CASE KillCorrelation
  <2>1. pc' = "idle" /\ reports' = reports /\ passes' = passes
    BY <1>10 DEF KillCorrelation
  <2>2. QED
    BY <2>1, QuietStep
<1>11. CASE UNCHANGED vars
  BY <1>11, QuietStep DEF vars, correlationVars, work
<1>12. QED
  BY <1>1, <1>2, <1>3, <1>4, <1>5, <1>6, <1>7, <1>8, <1>9, <1>10, <1>11 DEF Next

\* Who finds a summary finds incidents and signals of the same pass or of a later
\* one, however many passes there were and wherever they were killed
\* (correlation/artifacts.py writes the three files one after the other).
THEOREM SummaryLastHolds == Spec => []SummaryLast
<1>1. EInv => SummaryLast
  BY DEF EInv
<1>2. QED
  BY InitEInv, NextEInv, <1>1, PTL DEF Spec

-----------------------------------------------------------------------------
(* Numbers and small sets.                                                 *)

LessThan == {pair \in Nat \X Nat : pair[1] < pair[2]}

\* There is no infinite descent.
LEMMA LessThanFounded == IsWellFoundedOn(LessThan, Nat)
BY NatLessThanWellFounded, Zenon DEF OpToRel, LessThan

\* A set of numbers has a least one.
LEMMA MinOf ==
  ASSUME NEW T, T \subseteq Nat, T # {}
  PROVE  Min(T) \in T /\ \A y \in T : Min(T) <= y
<1>1. PICK x \in T : \A y \in T : ~ (<<y, x>> \in LessThan)
  BY LessThanFounded, WFMin
<1>2. ASSUME NEW y \in T PROVE x <= y
  <2>1. x \in Nat /\ y \in Nat /\ <<y, x>> \in Nat \X Nat
    OBVIOUS
  <2>2. ~(y < x)
    BY <1>1, <2>1 DEF LessThan
  <2>3. QED
    BY <2>1, <2>2
<1>3. QED
  BY <1>2 DEF Min

\* Numbers up to n have a largest.
LEMMA MaxOf ==
  ASSUME NEW n \in Nat, NEW T \in SUBSET (1..n), T # {}
  PROVE  Max(T) \in T /\ \A x \in T : Max(T) >= x
<1> DEFINE U == {n - x : x \in T}
<1>0. \A x \in T : x \in Nat /\ x <= n
  OBVIOUS
<1>1. U \subseteq Nat /\ U # {}
  <2>1. \A x \in T : n - x \in Nat
    BY <1>0
  <2>2. QED
    BY <2>1
<1>2. PICK t \in U : \A u \in U : t <= u
  <2> HIDE DEF U
  <2>1. QED
    BY <1>1, MinOf
<1>3. PICK m \in T : t = n - m
  BY <1>2
<1>4. \A x \in T : m >= x
  <2> SUFFICES ASSUME NEW x \in T PROVE m >= x
    OBVIOUS
  <2>1. n - x \in U
    OBVIOUS
  <2>2. n - m <= n - x
    BY <1>2, <1>3, <2>1
  <2>3. QED
    BY <1>0, <2>2
<1>5. QED
  BY <1>4 DEF Max

\* A set of numbers with 0 and the successors of its members has them all.
LEMMA Inductive ==
  ASSUME NEW T, T \subseteq Nat, 0 \in T, \A k \in T : k + 1 \in T
  PROVE  T = Nat
<1> SUFFICES ASSUME Nat \ T # {} PROVE FALSE
  OBVIOUS
<1>1. PICK m \in Nat \ T : \A y \in Nat \ T : m <= y
  <2>1. Nat \ T \subseteq Nat
    OBVIOUS
  <2>2. QED
    BY <2>1, MinOf
<1>2. m - 1 \in Nat /\ ~(m <= m - 1)
  BY <1>1
<1>3. m - 1 \in T
  BY <1>1, <1>2
<1>4. QED
  BY <1>1, <1>2, <1>3

\* A finite set with two members has more than one, a part of one member has not.
LEMMA Several ==
  ASSUME NEW T, IsFiniteSet(T), NEW a \in T, NEW b \in T, a # b
  PROVE  Cardinality(T) \in Nat /\ Cardinality(T) >= 2 /\ Cardinality(T) > 1
<1>1. {a, b} = {a} \cup {b} /\ b \notin {a} /\ {a, b} \subseteq T
  OBVIOUS
<1>2. IsFiniteSet({a}) /\ Cardinality({a}) = 1
  BY FS_Singleton
<1>3. Cardinality({a} \cup {b}) = Cardinality({a}) + 1
  BY <1>1, <1>2, FS_AddElement
<1>4. Cardinality(T) \in Nat /\ Cardinality({a, b}) <= Cardinality(T)
  BY <1>1, FS_Subset, FS_CardinalityType
<1>5. QED
  BY <1>1, <1>2, <1>3, <1>4

LEMMA AtMostOne ==
  ASSUME NEW T, \A a, b \in T : a = b
  PROVE  Cardinality(T) \in Nat /\ Cardinality(T) < 2
<1>1. CASE T = {}
  BY <1>1, FS_EmptySet
<1>2. CASE T # {}
  <2>1. PICK a : a \in T
    BY <1>2
  <2>2. T = {a}
    BY <2>1
  <2>3. Cardinality({a}) = 1
    BY FS_Singleton
  <2>4. QED
    BY <2>2, <2>3
<1>3. QED
  BY <1>1, <1>2

LEMMA Three ==
  ASSUME NEW a, NEW b, NEW c, NEW T, T \subseteq {a, b, c}
  PROVE  IsFiniteSet(T)
<1>1. IsFiniteSet({a}) /\ IsFiniteSet({b}) /\ IsFiniteSet({c})
  BY FS_Singleton
<1>2. IsFiniteSet({a} \cup {b})
  BY <1>1, FS_Union
<1>3. IsFiniteSet(({a} \cup {b}) \cup {c})
  BY <1>1, <1>2, FS_Union
<1>4. {a, b, c} = ({a} \cup {b}) \cup {c}
  OBVIOUS
<1>5. QED
  BY <1>3, <1>4, FS_Subset

LEMMA EnginesFinite == IsFiniteSet(Engines)
<1>1. IsFiniteSet({"engine_a", "engine_b", "engine_c"}) /\ IsFiniteSet({"syslog"})
  BY Three
<1>2. Engines = {"engine_a", "engine_b", "engine_c"} \cup {"syslog"}
  BY DEF Engines
<1>3. QED
  BY <1>1, <1>2, FS_Union

-----------------------------------------------------------------------------
(* The rules.                                                              *)

\* None is no type of a signal and no severity.
Markers == None \notin {"MAC_FLAP", "ERPS_CHURN"} \cup Severities

Kind(s) == IF s.engine = "engine_c" THEN "topology" ELSE s.stype
Loop == "LOOP_OR_REDUNDANCY_INSTABILITY"

SignalOK(s) ==
  /\ s.engine \in Engines /\ s.id[1] = s.engine /\ s.severity \in Severities
  /\ s.engine = "engine_c" => s.stype = None
SignalsOK(S) == \A s \in S : SignalOK(s)

\* Signals are told apart by their names.
Apart(S) == \A s, t \in S : s.id = t.id => s = t

\* A draft has signals, and one of a loop that is not capped has two kinds.
DraftOK(d, S) ==
  /\ d.rule \in Rules /\ d.members \subseteq S /\ d.members # {} /\ d.cap \in {None, High}
  /\ d.rule = Loop => \A s \in d.members : Kind(s) \in {"MAC_FLAP", "ERPS_CHURN", "topology"}
  /\ d.rule = Loop /\ d.cap = None => \E s, t \in d.members : Kind(s) # Kind(t)

LEMMA DraftIs ==
  ASSUME NEW rule \in Rules, rule # Loop, NEW S, NEW members \in SUBSET S, members # {}, NEW base
  PROVE  DraftOK(Draft(rule, members, base), S) /\ Draft(rule, members, base).rule = rule
BY DEF DraftOK, Draft

LEMMA CappedIs ==
  ASSUME NEW rule \in Rules, rule # Loop, NEW S, NEW members \in SUBSET S, members # {}, NEW base
  PROVE  /\ DraftOK(CappedDraft(rule, members, base, High), S)
         /\ CappedDraft(rule, members, base, High).rule = rule
BY DEF DraftOK, Draft, CappedDraft

\* The devices of some signals group them.
LEMMA Groups ==
  ASSUME NEW S, NEW g \in GroupsByDevice(S)
  PROVE  g \subseteq S /\ g # {}
BY DEF GroupsByDevice, Group, DeviceKeys

LEMMA RulesAre ==
  /\ {"DOS_SATURATION", "LINK_DEGRADATION", "CONFIG_EXPOSURE", "VLAN_POLICY_RISK",
      "SYSLOG_SNMP_AUTH_CAMPAIGN", "PORT_INSTABILITY", "LOOP_OR_REDUNDANCY_INSTABILITY",
      "DUPLICATE_IP_CONFLICT", "POE_ENDPOINT_FAILURE", "MANAGEMENT_ACCESS_EXPOSURE",
      "CLOCK_INTEGRITY_RISK", "SINGLE_ENGINE_HIGH_RISK", "SINGLE_SYSLOG_HIGH_RISK"} = Rules
<1>1. DOMAIN RuleOrder = 1..11 /\ DOMAIN Fallbacks = 1..2
  BY DEF RuleOrder, Fallbacks
<1>2. 1..11 = {1, 2, 3, 4, 5, 6, 7, 8, 9, 10, 11} /\ 1..2 = {1, 2}
  OBVIOUS
<1>3. {RuleOrder[n] : n \in 1..11} =
         {"DOS_SATURATION", "LINK_DEGRADATION", "CONFIG_EXPOSURE", "VLAN_POLICY_RISK",
          "SYSLOG_SNMP_AUTH_CAMPAIGN", "PORT_INSTABILITY", "LOOP_OR_REDUNDANCY_INSTABILITY",
          "DUPLICATE_IP_CONFLICT", "POE_ENDPOINT_FAILURE", "MANAGEMENT_ACCESS_EXPOSURE",
          "CLOCK_INTEGRITY_RISK"}
  BY <1>2 DEF RuleOrder
<1>4. {Fallbacks[n] : n \in 1..2} = {"SINGLE_ENGINE_HIGH_RISK", "SINGLE_SYSLOG_HIGH_RISK"}
  BY <1>2 DEF Fallbacks
<1>5. QED
  BY <1>1, <1>3, <1>4 DEF Rules

\* What the rules make of signals, one by one.
LEMMA DosDrafts ==
  ASSUME NEW S, NEW d \in DosSaturation(S)
  PROVE  DraftOK(d, S) /\ d.rule = "DOS_SATURATION"
<1> DEFINE attack == IF DosSignals(S) # {} THEN DosSignals(S) ELSE AttackSignals(S)
           members == attack \cup HealthSignals(S) \cup ConfigSignals(S, SaturationLabels)
<1>1. attack # {} /\ d = Draft("DOS_SATURATION", members, 45)
  BY DEF DosSaturation
<1>2. members \in SUBSET S /\ members # {}
  BY <1>1 DEF DosSignals, AttackSignals, HealthSignals, ConfigSignals, Labelled, Of
<1> HIDE DEF members
<1>3. "DOS_SATURATION" \in Rules /\ "DOS_SATURATION" # Loop
  BY RulesAre DEF Loop
<1>4. QED
  BY <1>1, <1>2, <1>3, DraftIs

LEMMA LinkDrafts ==
  ASSUME NEW S, NEW d \in LinkDegradation(S)
  PROVE  DraftOK(d, S) /\ d.rule = "LINK_DEGRADATION"
<1>1. PICK g \in GroupsByDevice(ConfigSignals(S, DegradationLabels)) : d = Draft("LINK_DEGRADATION", HealthSignals(S) \cup g, 40)
  BY DEF LinkDegradation
<1>2. HealthSignals(S) \cup g \in SUBSET S /\ HealthSignals(S) \cup g # {}
  BY Groups DEF HealthSignals, ConfigSignals, Labelled, Of
<1>3. "LINK_DEGRADATION" \in Rules /\ "LINK_DEGRADATION" # Loop
  BY RulesAre DEF Loop
<1>4. QED
  BY <1>1, <1>2, <1>3, DraftIs

LEMMA ExposureDrafts ==
  ASSUME NEW S, NEW d \in ConfigExposure(S)
  PROVE  DraftOK(d, S) /\ d.rule = "CONFIG_EXPOSURE"
<1>1. PICK g \in GroupsByDevice(ConfigSignals(S, ExposureLabels)) : d = Draft("CONFIG_EXPOSURE", g \cup AttackSignals(S), 40)
  BY DEF ConfigExposure
<1>2. g \cup AttackSignals(S) \in SUBSET S /\ g \cup AttackSignals(S) # {}
  BY Groups DEF AttackSignals, ConfigSignals, Labelled, Of
<1>3. "CONFIG_EXPOSURE" \in Rules /\ "CONFIG_EXPOSURE" # Loop
  BY RulesAre DEF Loop
<1>4. QED
  BY <1>1, <1>2, <1>3, DraftIs

LEMMA VlanDrafts ==
  ASSUME NEW S, NEW d \in VlanPolicyRisk(S)
  PROVE  DraftOK(d, S) /\ d.rule = "VLAN_POLICY_RISK"
<1>1. PICK g \in GroupsByDevice(ConfigSignals(S, VlanLabels)) : d = Draft("VLAN_POLICY_RISK", g \cup AttackSignals(S), 42)
  BY DEF VlanPolicyRisk
<1>2. g \cup AttackSignals(S) \in SUBSET S /\ g \cup AttackSignals(S) # {}
  BY Groups DEF AttackSignals, ConfigSignals, Labelled, Of
<1>3. "VLAN_POLICY_RISK" \in Rules /\ "VLAN_POLICY_RISK" # Loop
  BY RulesAre DEF Loop
<1>4. QED
  BY <1>1, <1>2, <1>3, DraftIs

LEMMA CampaignDrafts ==
  ASSUME NEW S, NEW d \in SnmpAuthCampaign(S)
  PROVE  DraftOK(d, S) /\ d.rule = "SYSLOG_SNMP_AUTH_CAMPAIGN"
<1>1. PICK g \in GroupsByDevice(OfType(S, "SNMP_AUTH_ACTIVITY")) : d = Draft("SYSLOG_SNMP_AUTH_CAMPAIGN", g \cup AttackSignals(S), 50)
  BY DEF SnmpAuthCampaign
<1>2. g \cup AttackSignals(S) \in SUBSET S /\ g \cup AttackSignals(S) # {}
  BY Groups DEF AttackSignals, OfType, Labelled, Of
<1>3. "SYSLOG_SNMP_AUTH_CAMPAIGN" \in Rules /\ "SYSLOG_SNMP_AUTH_CAMPAIGN" # Loop
  BY RulesAre DEF Loop
<1>4. QED
  BY <1>1, <1>2, <1>3, DraftIs

LEMMA PortDrafts ==
  ASSUME NEW S, NEW d \in PortInstability(S)
  PROVE  DraftOK(d, S) /\ d.rule = "PORT_INSTABILITY"
<1> DEFINE members(sig) == {sig} \cup OnDevice(HealthSignals(S), DeviceKey(sig))
                             \cup (IF sig.iface = None THEN {} ELSE SameInterface(S, sig))
<1>1. PICK sig \in OfType(S, "PORT_FLAP") : d = Draft("PORT_INSTABILITY", members(sig), 50)
  BY DEF PortInstability
<1>2. members(sig) \in SUBSET S /\ members(sig) # {}
  BY DEF HealthSignals, OnDevice, SameInterface, OfType, Labelled, Of
<1> HIDE DEF members
<1>3. "PORT_INSTABILITY" \in Rules /\ "PORT_INSTABILITY" # Loop
  BY RulesAre DEF Loop
<1>4. QED
  BY <1>1, <1>2, <1>3, DraftIs

LEMMA AddressDrafts ==
  ASSUME NEW S, NEW d \in DuplicateIp(S)
  PROVE  DraftOK(d, S) /\ d.rule = "DUPLICATE_IP_CONFLICT"
<1> DEFINE dup == OfType(S, "DUPLICATE_IP")
           members(x) == Group(dup, x) \cup OnDevice(OfType(S, "MAC_FLAP"), x)
<1>1. PICK x \in DeviceKeys(dup) : d = CappedDraft("DUPLICATE_IP_CONFLICT", members(x), 55, High)
  BY DEF DuplicateIp
<1>2. members(x) \in SUBSET S /\ members(x) # {}
  BY DEF Group, DeviceKeys, OnDevice, OfType
<1> HIDE DEF members
<1>3. "DUPLICATE_IP_CONFLICT" \in Rules /\ "DUPLICATE_IP_CONFLICT" # Loop
  BY RulesAre DEF Loop
<1>4. QED
  BY <1>1, <1>2, <1>3, CappedIs

LEMMA PoeDrafts ==
  ASSUME NEW S, NEW d \in PoeEndpointFailure(S)
  PROVE  DraftOK(d, S) /\ d.rule = "POE_ENDPOINT_FAILURE"
<1> DEFINE members(sig) == {sig} \cup (IF sig.iface = None THEN {}
                             ELSE {p \in OfType(S, "PORT_FLAP") : p.iface = sig.iface} \cup SameInterface(S, sig))
<1>1. PICK sig \in OfType(S, "POE_FAULT") : d = Draft("POE_ENDPOINT_FAILURE", members(sig), 50)
  BY DEF PoeEndpointFailure
<1>2. members(sig) \in SUBSET S /\ members(sig) # {}
  BY DEF SameInterface, OfType, Of
<1> HIDE DEF members
<1>3. "POE_ENDPOINT_FAILURE" \in Rules /\ "POE_ENDPOINT_FAILURE" # Loop
  BY RulesAre DEF Loop
<1>4. QED
  BY <1>1, <1>2, <1>3, DraftIs

LEMMA AccessDrafts ==
  ASSUME NEW S, NEW d \in ManagementAccess(S)
  PROVE  DraftOK(d, S) /\ d.rule = "MANAGEMENT_ACCESS_EXPOSURE"
<1> DEFINE mgmt == OfType(S, "MANAGEMENT_ACCESS")
           beside == OfType(S, "SNMP_AUTH_ACTIVITY") \cup ConfigSignals(S, ExposureLabels)
           members(x) == Group(mgmt, x) \cup OnDevice(beside, x) \cup AttackSignals(S)
<1>1. PICK x \in DeviceKeys(mgmt) : d = Draft("MANAGEMENT_ACCESS_EXPOSURE", members(x), 45)
  BY DEF ManagementAccess
<1>2. members(x) \in SUBSET S /\ members(x) # {}
  BY DEF Group, DeviceKeys, OnDevice, OfType, AttackSignals, ConfigSignals, Labelled, Of
<1> HIDE DEF members
<1>3. "MANAGEMENT_ACCESS_EXPOSURE" \in Rules /\ "MANAGEMENT_ACCESS_EXPOSURE" # Loop
  BY RulesAre DEF Loop
<1>4. QED
  BY <1>1, <1>2, <1>3, DraftIs

LEMMA ClockDrafts ==
  ASSUME NEW S, NEW d \in ClockIntegrity(S)
  PROVE  DraftOK(d, S) /\ d.rule = "CLOCK_INTEGRITY_RISK"
<1> DEFINE clock == Labelled(Of(S, "syslog"), {"clock_unreliable"})
<1>1. clock # {} /\ d = Draft("CLOCK_INTEGRITY_RISK", clock, 40)
  BY DEF ClockIntegrity
<1>2. clock \in SUBSET S
  BY DEF Labelled, Of
<1> HIDE DEF clock
<1>3. "CLOCK_INTEGRITY_RISK" \in Rules /\ "CLOCK_INTEGRITY_RISK" # Loop
  BY RulesAre DEF Loop
<1>4. QED
  BY <1>1, <1>2, <1>3, DraftIs

LEMMA LoopDrafts ==
  ASSUME Markers, NEW S, SignalsOK(S), NEW d \in LoopOrRedundancy(S)
  PROVE  DraftOK(d, S) /\ d.rule = Loop
<1> DEFINE mac == OfType(S, "MAC_FLAP")
           erps == OfType(S, "ERPS_CHURN")
           topo == ConfigSignals(S, {"topology"})
           From(x) == {g \in {OnDevice(mac, x), OnDevice(erps, x), OnDevice(topo, x)} : g # {}}
           members(x) == OnDevice(mac \cup erps \cup topo, x)
<1>1. PICK x \in {s.device : s \in mac \cup erps} \ {None} :
        d = CappedDraft(Loop, members(x), 50, IF Cardinality(From(x)) < 2 THEN High ELSE None)
  BY DEF LoopOrRedundancy, Loop
<1> DEFINE cap == IF Cardinality(From(x)) < 2 THEN High ELSE None
           M == members(x)
<1>2. M \subseteq S /\ M # {}
  BY DEF OnDevice, OfType, ConfigSignals, Labelled, Of
<1>3. d.rule = Loop /\ d.members = M /\ d.cap = cap
  BY <1>1 DEF CappedDraft, Draft
<1>4. /\ \A s \in OnDevice(mac, x) : s \in M /\ Kind(s) = "MAC_FLAP"
      /\ \A s \in OnDevice(erps, x) : s \in M /\ Kind(s) = "ERPS_CHURN"
      /\ \A s \in OnDevice(topo, x) : s \in M /\ Kind(s) = "topology"
      /\ M = OnDevice(mac, x) \cup OnDevice(erps, x) \cup OnDevice(topo, x)
  <2>1. /\ \A s \in mac : s \in S /\ s.stype = "MAC_FLAP" /\ s.engine # "engine_c"
        /\ \A s \in erps : s \in S /\ s.stype = "ERPS_CHURN" /\ s.engine # "engine_c"
        /\ \A s \in topo : s \in S /\ s.engine = "engine_c"
    BY DEF OfType, SignalsOK, SignalOK, Markers, ConfigSignals, Labelled, Of
  <2> HIDE DEF mac, erps, topo
  <2>2. QED
    BY <2>1 DEF OnDevice, Kind
<1>5. ASSUME cap = None PROVE \E s, t \in M : Kind(s) # Kind(t)
  <2>1. High # None /\ ~(Cardinality(From(x)) < 2)
    BY <1>5 DEF Markers, High, Severities
  <2> HIDE DEF mac, erps, topo, M
  <2>2. ~(\A g, h \in From(x) : g = h)
    <3> HIDE DEF From
    <3>1. QED
      BY <2>1, AtMostOne
  <2>3. PICK g \in From(x), h \in From(x) : g # h
    BY <2>2
  <2>4. g # {} /\ h # {} /\ {g, h} \subseteq {OnDevice(mac, x), OnDevice(erps, x), OnDevice(topo, x)}
    BY <2>3
  <2>5. PICK s \in g, t \in h : TRUE
    BY <2>4
  <2>6. QED
    BY <1>4, <2>3, <2>4, <2>5
<1>6. \A s \in M : Kind(s) \in {"MAC_FLAP", "ERPS_CHURN", "topology"}
  <2> HIDE DEF mac, erps, topo, M
  <2>1. QED
    BY <1>4
<1>7. cap \in {None, High} /\ Loop \in Rules
  BY RulesAre DEF Loop
<1> HIDE DEF M, cap
<1>8. QED
  BY <1>2, <1>3, <1>5, <1>6, <1>7 DEF DraftOK

\* The fallbacks take one signal each that is not covered.
LEMMA FallbackDrafts ==
  ASSUME NEW rule \in {"SINGLE_ENGINE_HIGH_RISK", "SINGLE_SYSLOG_HIGH_RISK"}, NEW S, NEW T \in SUBSET S, NEW covered,
         NEW base, NEW d \in SingleHighRisk(rule, T, covered, base)
  PROVE  /\ DraftOK(d, S) /\ d.rule = rule
         /\ \E s \in T : d = Draft(rule, {s}, base) /\ s.id \notin covered /\ s.severity <= High
<1>1. PICK s \in T : d = Draft(rule, {s}, base) /\ s.id \notin covered /\ s.severity <= High
  BY DEF SingleHighRisk
<1>2. {s} \in SUBSET S /\ {s} # {}
  OBVIOUS
<1>3. rule \in Rules /\ rule # Loop
  BY RulesAre DEF Loop
<1>4. QED
  BY <1>1, <1>2, <1>3, DraftIs

LEMMA Drafts ==
  ASSUME Markers, NEW S, SignalsOK(S), NEW rule \in Rules, NEW covered, NEW d \in DraftsOf(rule, S, covered)
  PROVE  DraftOK(d, S) /\ d.rule = rule
<1> rule \notin Disabled
  BY DEF DraftsOf
<1>1. CASE rule = "DOS_SATURATION"
  BY <1>1, DosDrafts DEF DraftsOf
<1>2. CASE rule = "LINK_DEGRADATION"
  BY <1>2, LinkDrafts DEF DraftsOf
<1>3. CASE rule = "CONFIG_EXPOSURE"
  BY <1>3, ExposureDrafts DEF DraftsOf
<1>4. CASE rule = "VLAN_POLICY_RISK"
  BY <1>4, VlanDrafts DEF DraftsOf
<1>5. CASE rule = "SYSLOG_SNMP_AUTH_CAMPAIGN"
  BY <1>5, CampaignDrafts DEF DraftsOf
<1>6. CASE rule = "PORT_INSTABILITY"
  BY <1>6, PortDrafts DEF DraftsOf
<1>7. CASE rule = "LOOP_OR_REDUNDANCY_INSTABILITY"
  BY <1>7, LoopDrafts DEF DraftsOf, Loop
<1>8. CASE rule = "DUPLICATE_IP_CONFLICT"
  BY <1>8, AddressDrafts DEF DraftsOf
<1>9. CASE rule = "POE_ENDPOINT_FAILURE"
  BY <1>9, PoeDrafts DEF DraftsOf
<1>10. CASE rule = "MANAGEMENT_ACCESS_EXPOSURE"
  BY <1>10, AccessDrafts DEF DraftsOf
<1>11. CASE rule = "CLOCK_INTEGRITY_RISK"
  BY <1>11, ClockDrafts DEF DraftsOf
<1>12. CASE rule = "SINGLE_ENGINE_HIGH_RISK"
  <2>1. S \ Of(S, "syslog") \in SUBSET S
    OBVIOUS
  <2>2. d \in SingleHighRisk(rule, S \ Of(S, "syslog"), covered, 30)
    BY <1>12 DEF DraftsOf
  <2>3. QED
    BY <1>12, <2>1, <2>2, FallbackDrafts
<1>13. CASE rule = "SINGLE_SYSLOG_HIGH_RISK"
  <2>1. Of(S, "syslog") \in SUBSET S
    BY DEF Of
  <2>2. d \in SingleHighRisk(rule, Of(S, "syslog"), covered, 35)
    BY <1>13 DEF DraftsOf
  <2>3. QED
    BY <1>13, <2>1, <2>2, FallbackDrafts
<1>14. QED
  BY <1>1, <1>2, <1>3, <1>4, <1>5, <1>6, <1>7, <1>8, <1>9, <1>10, <1>11, <1>12, <1>13, RulesAre

-----------------------------------------------------------------------------
(* Scoring.                                                                *)

\* What an incident may say of the signals it was made of.
IncidentOK(i, S) ==
  LET members == {s \in S : s.id \in i.signals}
      kinds == {Kind(s) : s \in members}
  IN i.severity = 0 =>
       /\ (\E s \in members : s.severity = 0) \/ Cardinality({s.engine : s \in members}) > 1
       /\ i.rule = Loop => Cardinality(kinds) > 1

LEMMA WorstOf ==
  ASSUME NEW M, M # {}, SignalsOK(M)
  PROVE  WorstSeverity(M) \in Severities /\ \E s \in M : s.severity = WorstSeverity(M)
<1> DEFINE T == {s.severity : s \in M}
<1>1. T \subseteq Nat /\ T # {} /\ \A x \in T : x \in Severities
  BY DEF SignalsOK, SignalOK, Severities
<1>2. Min(T) \in T
  <2> HIDE DEF T
  <2>1. QED
    BY <1>1, MinOf
<1>3. WorstSeverity(M) = Min(T)
  BY DEF WorstSeverity
<1>4. QED
  BY <1>1, <1>2, <1>3

LEMMA EnginesCount ==
  ASSUME NEW M, SignalsOK(M), NEW s \in M, NEW t \in M, s.engine # t.engine
  PROVE  Cardinality(EnginesOf(M)) \in Nat /\ Cardinality(EnginesOf(M)) >= 2 /\ Cardinality(EnginesOf(M)) > 1
<1>1. EnginesOf(M) \subseteq Engines /\ s.engine \in EnginesOf(M) /\ t.engine \in EnginesOf(M)
  BY DEF EnginesOf, SignalsOK, SignalOK
<1>2. IsFiniteSet(EnginesOf(M))
  BY <1>1, EnginesFinite, FS_Subset
<1>3. QED
  BY <1>1, <1>2, Several

\* Who is critical is so by a signal, or two engines agree; and it has no cap.
LEMMA CriticalDraft ==
  ASSUME Markers, NEW S, SignalsOK(S), NEW d, DraftOK(d, S), Severity(d) = 0
  PROVE  /\ (\E s \in d.members : s.severity = 0) \/ Cardinality(EnginesOf(d.members)) > 1
         /\ d.cap = None
<1> DEFINE M == d.members
<1>1. M # {} /\ SignalsOK(M) /\ d.rule \in Rules /\ d.cap \in {None, High} /\ M \subseteq S
  BY DEF DraftOK, SignalsOK
<1>2. WorstSeverity(M) \in 0..4 /\ \E s \in M : s.severity = WorstSeverity(M)
  BY <1>1, WorstOf DEF Severities
<1>3. Boosts[d.rule] \in Nat
  BY <1>1, RulesAssumption
<1>4. IsFiniteSet(EnginesOf(M)) /\ Cardinality(EnginesOf(M)) \in Nat
  <2>1. EnginesOf(M) \subseteq Engines
    BY <1>1 DEF EnginesOf, SignalsOK, SignalOK
  <2>2. QED
    BY <2>1, EnginesFinite, FS_Subset, FS_CardinalityType
<1> DEFINE first == IF Cardinality(EnginesOf(M)) >= 2 THEN Boosts[d.rule] ELSE 0
           second == IF CrossEngineInterface(M) THEN 1 ELSE 0
           boosted == Clamp(0, WorstSeverity(M) - (first + second), 4)
<1>5. Severity(d) = IF d.cap # None /\ boosted < d.cap THEN d.cap ELSE boosted
  BY DEF Severity
<1>6. first \in Nat /\ second \in Nat
  BY <1>3
<1>7. boosted \in Int
  <2> HIDE DEF first, second
  <2>1. QED
    BY <1>2, <1>6 DEF Clamp
<1>8. d.cap = None
  <2> SUFFICES ASSUME d.cap = High PROVE FALSE
    BY <1>1
  <2>1. High # None /\ High = 1
    BY DEF Markers, High, Severities
  <2> HIDE DEF boosted
  <2>2. QED
    BY <1>5, <1>7, <2>1
<1>9. boosted = 0
  BY <1>5, <1>8
<1>10. (\E s \in M : s.severity = 0) \/ Cardinality(EnginesOf(M)) > 1
  <2> SUFFICES ASSUME ~(Cardinality(EnginesOf(M)) > 1) PROVE \E s \in M : s.severity = 0
    OBVIOUS
  <2>1. ~(Cardinality(EnginesOf(M)) >= 2)
    BY <1>4
  <2>2. ~CrossEngineInterface(M)
    <3> HIDE DEF M
    <3>1. QED
      BY <1>1, EnginesCount DEF CrossEngineInterface
  <2>3. first + second = 0
    BY <2>1, <2>2
  <2>4. WorstSeverity(M) = 0
    <3> HIDE DEF first, second
    <3>1. WorstSeverity(M) - (first + second) = WorstSeverity(M)
      BY <1>2, <2>3
    <3>2. boosted = WorstSeverity(M)
      BY <1>2, <3>1 DEF Clamp
    <3>3. QED
      BY <1>9, <3>2
  <2>5. QED
    BY <1>2, <2>4
<1>11. QED
  BY <1>8, <1>10

\* The signals an incident names are those of its draft.
LEMMA NamedMembers ==
  ASSUME NEW S, Apart(S), NEW M \in SUBSET S
  PROVE  {s \in S : s.id \in {t.id : t \in M}} = M
BY DEF Apart

LEMMA IncidentsOK ==
  ASSUME Markers, NEW S, SignalsOK(S), Apart(S), NEW d, DraftOK(d, S)
  PROVE  IncidentOK(Score(d), S)
<1> DEFINE i == Score(d)
           M == d.members
<1>1. i.rule = d.rule /\ i.signals = {s.id : s \in M} /\ i.severity = Severity(d)
  BY DEF Score
<1>2. M \in SUBSET S
  BY DEF DraftOK
<1>3. {s \in S : s.id \in i.signals} = M
  BY <1>1, <1>2, NamedMembers
<1>4. ASSUME i.severity = 0
      PROVE  /\ (\E s \in M : s.severity = 0) \/ Cardinality({s.engine : s \in M}) > 1
             /\ i.rule = Loop => Cardinality({Kind(s) : s \in M}) > 1
  <2>1. /\ (\E s \in M : s.severity = 0) \/ Cardinality(EnginesOf(M)) > 1
        /\ d.cap = None
    BY <1>1, <1>4, CriticalDraft
  <2>2. ASSUME i.rule = Loop PROVE Cardinality({Kind(s) : s \in M}) > 1
    <3> DEFINE K == {Kind(s) : s \in M}
    <3>1. PICK s \in M, t \in M : Kind(s) # Kind(t)
      BY <1>1, <2>1, <2>2 DEF DraftOK
    <3>2. K \subseteq {"MAC_FLAP", "ERPS_CHURN", "topology"}
      BY <1>1, <2>2 DEF DraftOK
    <3>3. IsFiniteSet(K)
      <4> HIDE DEF K
      <4>1. QED
        BY <3>2, Three
    <3>4. Kind(s) \in K /\ Kind(t) \in K
      OBVIOUS
    <3> HIDE DEF K
    <3>5. Cardinality(K) > 1
      BY <3>1, <3>3, <3>4, Several
    <3>6. QED
      BY <3>5 DEF K
  <2>3. QED
    BY <2>1, <2>2 DEF EnginesOf
<1> HIDE DEF i, M
<1>5. IncidentOK(i, S)
  BY <1>3, <1>4 DEF IncidentOK
<1>6. QED
  BY <1>5 DEF i

-----------------------------------------------------------------------------
(* The rules one after the other.                                          *)

Order == RuleOrder \o Fallbacks
Base(S) == [signals |-> S, incidents |-> {}, covered |-> {}]

\* What the rules make of each set of the first n of them.
Folding(g, n, S) ==
  g = [d \in SUBSET (1..n) |-> IF d = {} THEN Base(S) ELSE RunRule(g[d \ {Max(d)}], Order[Max(d)])]
Foldable(n, S) == \E g : Folding(g, n, S)

LEMMA FoldingAt ==
  ASSUME NEW n \in Nat, NEW S, NEW g, Folding(g, n, S), NEW d \in SUBSET (1..n)
  PROVE  g[d] = IF d = {} THEN Base(S) ELSE RunRule(g[d \ {Max(d)}], Order[Max(d)])
BY Zenon DEF Folding

LEMMA FoldExists ==
  ASSUME NEW n \in Nat, NEW S
  PROVE  Foldable(n, S)
<1> DEFINE T == {k \in Nat : Foldable(k, S)}
<1>1. 0 \in T
  <2> DEFINE g == [d \in SUBSET (1..0) |-> Base(S)]
  <2>1. \A d \in SUBSET (1..0) : d = {}
    OBVIOUS
  <2>2. \A d \in SUBSET (1..0) :
          Base(S) = IF d = {} THEN Base(S) ELSE RunRule(g[d \ {Max(d)}], Order[Max(d)])
    BY <2>1
  <2>3. Folding(g, 0, S)
    BY <2>2, Zenon DEF Folding
  <2> HIDE DEF g
  <2>4. Foldable(0, S)
    BY <2>3 DEF Foldable
  <2>5. QED
    BY <2>4
<1>2. ASSUME NEW k \in T PROVE k + 1 \in T
  <2>1. k \in Nat /\ k + 1 \in Nat /\ Foldable(k, S)
    OBVIOUS
  <2>3. PICK g : Folding(g, k, S)
    BY <2>1 DEF Foldable
  <2> DEFINE h == [d \in SUBSET (1..k + 1) |-> IF k + 1 \in d THEN RunRule(g[d \ {k + 1}], Order[k + 1]) ELSE g[d]]
             Right(d) == IF d = {} THEN Base(S) ELSE RunRule(h[d \ {Max(d)}], Order[Max(d)])
  <2>5. ASSUME NEW d \in SUBSET (1..k + 1), k + 1 \in d
        PROVE  h[d] = Right(d)
    <3>1. d \ {k + 1} \in SUBSET (1..k) /\ d \ {k + 1} \in SUBSET (1..k + 1) /\ k + 1 \notin d \ {k + 1}
      BY <2>1, <2>5
    <3>2. Max(d) = k + 1
      <4>1. Max(d) \in d /\ Max(d) >= k + 1
        BY <2>1, <2>5, MaxOf
      <4>2. \A m \in 1..k + 1 : m >= k + 1 => m = k + 1
        BY <2>1
      <4>3. QED
        BY <4>1, <4>2
    <3>3. h[d \ {k + 1}] = g[d \ {k + 1}]
      BY <3>1
    <3>4. h[d] = RunRule(g[d \ {k + 1}], Order[k + 1])
      BY <2>5
    <3> HIDE DEF h
    <3>5. QED
      BY <2>5, <3>2, <3>3, <3>4
  <2>6. ASSUME NEW d \in SUBSET (1..k + 1), k + 1 \notin d
        PROVE  h[d] = Right(d)
    <3>1. d \in SUBSET (1..k)
      BY <2>1, <2>6
    <3>2. h[d] = g[d]
      BY <2>6
    <3>3. d \ {Max(d)} \in SUBSET (1..k + 1) /\ k + 1 \notin d \ {Max(d)}
      BY <2>6
    <3>4. h[d \ {Max(d)}] = g[d \ {Max(d)}]
      BY <3>3
    <3>5. g[d] = IF d = {} THEN Base(S) ELSE RunRule(g[d \ {Max(d)}], Order[Max(d)])
      BY <2>1, <2>3, <3>1, FoldingAt
    <3> HIDE DEF h
    <3>6. QED
      BY <3>2, <3>4, <3>5
  <2>7. h = [d \in SUBSET (1..k + 1) |-> h[d]]
    OBVIOUS
  <2> HIDE DEF h
  <2>8. \A d \in SUBSET (1..k + 1) : h[d] = Right(d)
    BY <2>5, <2>6
  <2>9. h = [d \in SUBSET (1..k + 1) |-> Right(d)]
    <3> HIDE DEF Right
    <3>1. QED
      BY <2>7, <2>8
  <2>10. Folding(h, k + 1, S)
    BY <2>9 DEF Folding
  <2>11. QED
    BY <2>1, <2>10 DEF Foldable
<1>3. T = Nat
  <2>1. T \subseteq Nat
    OBVIOUS
  <2> HIDE DEF T
  <2>2. QED
    BY <1>1, <1>2, <2>1, Inductive
<1>4. QED
  BY <1>3

\* The thirteen rules.
LEMMA OrderIs ==
  /\ DOMAIN Order = 1..13
  /\ \A k \in 1..13 : Order[k] \in Rules
  /\ \A k \in 1..11 : Order[k] \notin Names(Fallbacks)
  /\ Order[12] = "SINGLE_ENGINE_HIGH_RISK" /\ Order[13] = "SINGLE_SYSLOG_HIGH_RISK"
  /\ Names(Fallbacks) = {"SINGLE_ENGINE_HIGH_RISK", "SINGLE_SYSLOG_HIGH_RISK"}
<1>1. Len(RuleOrder) = 11 /\ Len(Fallbacks) = 2 /\ RuleOrder \in Seq(Rules) /\ Fallbacks \in Seq(Rules)
  <2>1. Len(RuleOrder) = 11 /\ Len(Fallbacks) = 2
    BY DEF RuleOrder, Fallbacks
  <2>2. Fallbacks \in Seq(Rules)
    BY RulesAre DEF Fallbacks
  <2>3. RuleOrder \in Seq(Rules)
    BY RulesAre DEF RuleOrder
  <2>4. QED
    BY <2>1, <2>2, <2>3
<1>2. /\ DOMAIN Order = 1..13
      /\ \A k \in 1..11 : Order[k] = RuleOrder[k]
      /\ Order[12] = Fallbacks[1] /\ Order[13] = Fallbacks[2]
  <2> DEFINE n == Len(RuleOrder)
             m == Len(Fallbacks)
  <2>1. /\ Order \in Seq(Rules) /\ Len(Order) = n + m
        /\ \A i \in 1..(n + m) : Order[i] = IF i <= n THEN RuleOrder[i] ELSE Fallbacks[i - n]
    BY <1>1, ConcatProperties, Zenon DEF Order
  <2>2. n = 11 /\ m = 2
    BY <1>1
  <2> HIDE DEF n, m
  <2>3. Len(Order) = 13 /\ \A i \in 1..13 : Order[i] = IF i <= 11 THEN RuleOrder[i] ELSE Fallbacks[i - 11]
    BY ONLY <2>1, <2>2
  <2>4. DOMAIN Order = 1..13
    <3>1. DOMAIN Order = 1..Len(Order)
      BY <2>1, LenProperties, Zenon
    <3>2. QED
      BY ONLY <2>3, <3>1
  <2>5. QED
    BY <2>3, <2>4
<1>3. DOMAIN RuleOrder = 1..11 /\ DOMAIN Fallbacks = 1..2
  BY <1>1
<1>4. Fallbacks[1] = "SINGLE_ENGINE_HIGH_RISK" /\ Fallbacks[2] = "SINGLE_SYSLOG_HIGH_RISK"
  BY DEF Fallbacks
<1>5. \A k \in 1..11 : RuleOrder[k] \in Rules
  BY <1>3 DEF Rules
<1>6. \A k \in 1..13 : k \in 1..11 \/ k = 12 \/ k = 13
  OBVIOUS
<1>7. "SINGLE_ENGINE_HIGH_RISK" \in Rules /\ "SINGLE_SYSLOG_HIGH_RISK" \in Rules
  BY RulesAre
<1>8. Names(Fallbacks) = {"SINGLE_ENGINE_HIGH_RISK", "SINGLE_SYSLOG_HIGH_RISK"}
  <2>1. 1..2 = {1, 2}
    OBVIOUS
  <2>2. QED
    BY <1>3, <1>4, <2>1 DEF Names
<1>9. \A k \in 1..11 : RuleOrder[k] \notin {"SINGLE_ENGINE_HIGH_RISK", "SINGLE_SYSLOG_HIGH_RISK"}
  BY DEF RuleOrder
<1>10. \A k \in 1..13 : Order[k] \in Rules
  BY <1>2, <1>4, <1>5, <1>6, <1>7
<1>11. QED
  BY <1>2, <1>4, <1>8, <1>9, <1>10

\* The states between the rules.
LEMMA PassOf ==
  ASSUME NEW S
  PROVE  \E run : /\ run[0] = Base(S) /\ run[13].incidents = Correlated(S)
                  /\ \A k \in 1..13 : run[k] = RunRule(run[k - 1], Order[k])
<1> DEFINE it == CHOOSE g : g = [d \in SUBSET (DOMAIN Order) |->
                     IF d = {} THEN Base(S) ELSE RunRule(g[d \ {Max(d)}], Order[Max(d)])]
<1>1. Correlated(S) = it[DOMAIN Order].incidents
  BY DEF Correlated, Order, Base, FoldLeft, MapThenFoldSet
<1>2. PICK g : Folding(g, 13, S)
  BY FoldExists DEF Foldable
<1>3. g = [d \in SUBSET (DOMAIN Order) |-> IF d = {} THEN Base(S) ELSE RunRule(g[d \ {Max(d)}], Order[Max(d)])]
  BY <1>2, OrderIs DEF Folding
<1>4. it = [d \in SUBSET (DOMAIN Order) |-> IF d = {} THEN Base(S) ELSE RunRule(it[d \ {Max(d)}], Order[Max(d)])]
  BY <1>3, Zenon
<1> HIDE DEF it
<1>5. Folding(it, 13, S)
  BY <1>4, OrderIs DEF Folding
<1> DEFINE run == [k \in 0..13 |-> it[1..k]]
<1>6. run[0] = Base(S)
  <2>1. 1..0 = {} /\ {} \in SUBSET (1..13) /\ 0 \in 0..13
    OBVIOUS
  <2>2. it[{}] = Base(S)
    BY <1>5, <2>1, FoldingAt
  <2>3. QED
    BY <2>1, <2>2
<1>7. ASSUME NEW k \in 1..13 PROVE run[k] = RunRule(run[k - 1], Order[k])
  <2>1. 1..k # {} /\ (1..k) \ {k} = 1..(k - 1) /\ 1..k \in SUBSET (1..13) /\ k \in 1..k
    OBVIOUS
  <2>2. Max(1..k) = k
    <3>1. Max(1..k) \in 1..k /\ Max(1..k) >= k
      BY <2>1, MaxOf
    <3>2. \A m \in 1..k : m >= k => m = k
      OBVIOUS
    <3>3. QED
      BY <3>1, <3>2
  <2>3. run[k] = it[1..k] /\ run[k - 1] = it[1..(k - 1)]
    OBVIOUS
  <2>4. it[1..k] = RunRule(it[(1..k) \ {Max(1..k)}], Order[Max(1..k)])
    <3> DEFINE d == 1..k
    <3>1. d # {} /\ d \in SUBSET (1..13)
      BY <2>1
    <3> HIDE DEF d, run
    <3>2. it[d] = RunRule(it[d \ {Max(d)}], Order[Max(d)])
      <4>1. 13 \in Nat
        OBVIOUS
      <4>2. it[d] = IF d = {} THEN Base(S) ELSE RunRule(it[d \ {Max(d)}], Order[Max(d)])
        BY <1>5, <3>1, <4>1, FoldingAt
      <4>3. QED
        BY <3>1, <4>2
    <3>3. QED
      BY <3>2 DEF d
  <2> HIDE DEF run
  <2>5. QED
    BY <2>1, <2>2, <2>3, <2>4
<1>8. run[13] = it[DOMAIN Order]
  BY OrderIs
<1> HIDE DEF run
<1>9. QED
  BY <1>1, <1>6, <1>7, <1>8

\* What is so after the first k rules.
After(state, k, S) ==
  /\ state = [signals |-> S, incidents |-> state.incidents, covered |-> state.covered]
  /\ \A i \in state.incidents : \E d : DraftOK(d, S) /\ i = Score(d)
  /\ state.covered = UNION {i.signals : i \in state.incidents}
  /\ k < 12 => \A i \in state.incidents : i.rule \notin Names(Fallbacks)
  /\ \A i, j \in state.incidents : i.rule \in Names(Fallbacks) /\ i # j => i.signals \cap j.signals = {}
  /\ k >= 12 => \A s \in S \ Of(S, "syslog") : s.severity <= High => s.id \in state.covered
  /\ k >= 13 => \A s \in Of(S, "syslog") : s.severity <= High => s.id \in state.covered

LEMMA ScoreIs ==
  ASSUME NEW d
  PROVE  Score(d).rule = d.rule /\ Score(d).signals = {s.id : s \in d.members}
BY DEF Score

\* An incident that is not added has the name of one that is there.
LEMMA Added ==
  ASSUME NEW old, NEW scored
  PROVE  /\ old \subseteq AddIncidents(old, scored)
         /\ \A i \in AddIncidents(old, scored) : i \in old \/ i \in scored
         /\ UNION {i.signals : i \in AddIncidents(old, scored)}
              = (UNION {i.signals : i \in old}) \cup UNION {i.signals : i \in scored}
<1> DEFINE more == AddIncidents(old, scored)
<1>1. old \subseteq more /\ \A i \in more : i \in old \/ i \in scored
  BY DEF AddIncidents
<1>2. \A i \in scored : \E j \in more : j.signals = i.signals
  <2> SUFFICES ASSUME NEW i \in scored PROVE \E j \in more : j.signals = i.signals
    OBVIOUS
  <2>1. CASE \A j \in old : IncidentId(j) # IncidentId(i)
    BY <2>1 DEF AddIncidents
  <2>2. CASE \E j \in old : IncidentId(j) = IncidentId(i)
    BY <1>1, <2>2 DEF IncidentId
  <2>3. QED
    BY <2>1, <2>2
<1> HIDE DEF more
<1>3. UNION {i.signals : i \in more} = (UNION {i.signals : i \in old}) \cup UNION {i.signals : i \in scored}
  BY <1>1, <1>2
<1>4. QED
  BY <1>1, <1>3 DEF more

\* One rule.
LEMMA RunIs ==
  ASSUME NEW S, NEW old, NEW known, NEW rule
  PROVE  LET scored == {Score(d) : d \in DraftsOf(rule, S, known)}
         IN RunRule([signals |-> S, incidents |-> old, covered |-> known], rule)
              = [signals |-> S, incidents |-> AddIncidents(old, scored),
                 covered |-> known \cup UNION {i.signals : i \in scored}]
<1> DEFINE state == [signals |-> S, incidents |-> old, covered |-> known]
           scored == {Score(d) : d \in DraftsOf(rule, S, known)}
           more == AddIncidents(old, scored)
           now == known \cup UNION {i.signals : i \in scored}
<1>1. RunRule(state, rule) = [state EXCEPT !.incidents = more, !.covered = now]
  BY DEF RunRule
<1> HIDE DEF more, now
<1>2. [state EXCEPT !.incidents = more, !.covered = now] = [signals |-> S, incidents |-> more, covered |-> now]
  <2>1. PICK s, u, v : /\ s = state /\ u = [signals |-> S, incidents |-> more, covered |-> known]
                       /\ v = [signals |-> S, incidents |-> more, covered |-> now]
    OBVIOUS
  <2>2. [s EXCEPT !.incidents = more] = u
    BY <2>1
  <2> HIDE DEF state
  <2>3. [s EXCEPT !.incidents = more, !.covered = now] = [[s EXCEPT !.incidents = more] EXCEPT !.covered = now]
    OBVIOUS
  <2>4. [u EXCEPT !.covered = now] = v
    BY <2>1
  <2>5. QED
    BY <2>1, <2>2, <2>3, <2>4
<1> HIDE DEF state
<1>3. RunRule(state, rule) = [signals |-> S, incidents |-> more, covered |-> now]
  BY <1>1, <1>2
<1>4. QED
  BY <1>3 DEF state, more, now

\* A fallback takes one signal that is not covered.
FallbackBase(rule) == IF rule = "SINGLE_ENGINE_HIGH_RISK" THEN 30 ELSE 35
FallbackPart(rule, S) == IF rule = "SINGLE_ENGINE_HIGH_RISK" THEN S \ Of(S, "syslog") ELSE Of(S, "syslog")

LEMMA FallbackIs ==
  ASSUME NEW rule \in Names(Fallbacks), NEW S, NEW covered
  PROVE  DraftsOf(rule, S, covered) = IF rule \in Disabled THEN {}
           ELSE SingleHighRisk(rule, FallbackPart(rule, S), covered, FallbackBase(rule))
<1>1. CASE rule = "SINGLE_ENGINE_HIGH_RISK"
  BY <1>1 DEF DraftsOf, FallbackPart, FallbackBase
<1>2. CASE rule = "SINGLE_SYSLOG_HIGH_RISK"
  BY <1>2 DEF DraftsOf, FallbackPart, FallbackBase
<1>3. QED
  BY <1>1, <1>2, OrderIs

LEMMA FallbackTakes ==
  ASSUME NEW rule \in Names(Fallbacks), NEW S, NEW covered, NEW d \in DraftsOf(rule, S, covered)
  PROVE  \E s \in S : d = Draft(rule, {s}, FallbackBase(rule)) /\ s.id \notin covered
<1>1. d \in SingleHighRisk(rule, FallbackPart(rule, S), covered, FallbackBase(rule))
  BY FallbackIs
<1>2. FallbackPart(rule, S) \subseteq S
  BY DEF FallbackPart, Of
<1>3. QED
  BY <1>1, <1>2 DEF SingleHighRisk

LEMMA FallbackCovers ==
  ASSUME NEW rule \in Names(Fallbacks), rule \notin Disabled, NEW S, NEW covered,
         NEW s \in FallbackPart(rule, S), s.severity <= High, s.id \notin covered
  PROVE  \E d \in DraftsOf(rule, S, covered) : s.id \in Score(d).signals
<1> DEFINE d == Draft(rule, {s}, FallbackBase(rule))
<1>1. d \in DraftsOf(rule, S, covered)
  <2>1. s \in {t \in FallbackPart(rule, S) : t.id \notin covered /\ t.severity <= High}
    OBVIOUS
  <2>2. d \in SingleHighRisk(rule, FallbackPart(rule, S), covered, FallbackBase(rule))
    BY <2>1 DEF SingleHighRisk
  <2> HIDE DEF d
  <2>3. QED
    BY <2>2, FallbackIs
<1>2. d.members = {s}
  BY DEF Draft
<1> HIDE DEF d
<1>3. s.id \in Score(d).signals
  BY <1>2, ScoreIs
<1>4. QED
  BY <1>1, <1>3

LEMMA AfterRule ==
  ASSUME Markers, Names(Fallbacks) \cap Disabled = {}, NEW S, SignalsOK(S), Apart(S),
         NEW k \in 1..13, NEW state, After(state, k - 1, S)
  PROVE  After(RunRule(state, Order[k]), k, S)
<1> DEFINE rule == Order[k]
           drafts == DraftsOf(rule, S, state.covered)
           scored == {Score(d) : d \in drafts}
           more == AddIncidents(state.incidents, scored)
           now == state.covered \cup UNION {i.signals : i \in scored}
           next == RunRule(state, rule)
<1>1. state = [signals |-> S, incidents |-> state.incidents, covered |-> state.covered] /\ state.signals = S
  <2>1. state = [signals |-> S, incidents |-> state.incidents, covered |-> state.covered]
    BY DEF After
  <2>2. [signals |-> S, incidents |-> state.incidents, covered |-> state.covered].signals = S
    OBVIOUS
  <2>3. QED
    BY <2>1, <2>2
<1>2. next = [signals |-> S, incidents |-> more, covered |-> now]
  BY <1>1, RunIs
<1>3. next.signals = S /\ next.incidents = more /\ next.covered = now
  BY <1>2
<1>4. rule \in Rules
  BY OrderIs
<1>5. \A d \in drafts : DraftOK(d, S) /\ d.rule = rule
  BY <1>4, Drafts
<1>6. \A i \in scored : i.rule = rule /\ \E d \in drafts : i = Score(d)
  BY <1>5, ScoreIs
<1>7. /\ state.incidents \subseteq more
      /\ \A i \in more : i \in state.incidents \/ i \in scored
      /\ UNION {i.signals : i \in more} = (UNION {i.signals : i \in state.incidents}) \cup UNION {i.signals : i \in scored}
  BY Added
<1> HIDE DEF scored, more, next, drafts, rule
<1>8. now = UNION {i.signals : i \in more}
  BY <1>7 DEF After
<1>9. \A i \in more : \E d : DraftOK(d, S) /\ i = Score(d)
  <2> SUFFICES ASSUME NEW i \in more PROVE \E d : DraftOK(d, S) /\ i = Score(d)
    OBVIOUS
  <2>1. CASE i \in state.incidents
    BY <2>1 DEF After
  <2>2. CASE i \in scored
    BY <1>5, <1>6, <2>2
  <2>3. QED
    BY <1>7, <2>1, <2>2
<1>10. k < 12 => \A i \in more : i.rule \notin Names(Fallbacks)
  <2> SUFFICES ASSUME k < 12, NEW i \in more PROVE i.rule \notin Names(Fallbacks)
    OBVIOUS
  <2>1. k - 1 < 12 /\ k \in 1..11
    OBVIOUS
  <2>2. CASE i \in state.incidents
    BY <2>1, <2>2 DEF After
  <2>3. CASE i \in scored
    BY <1>6, <2>1, <2>3, OrderIs DEF rule
  <2>4. QED
    BY <1>7, <2>2, <2>3
<1>11. rule \in Names(Fallbacks) <=> k >= 12
  <2>1. k \in 1..11 \/ k = 12 \/ k = 13
    OBVIOUS
  <2>2. QED
    BY <2>1, OrderIs DEF rule
<1>12. ASSUME rule \in Names(Fallbacks)
       PROVE  /\ \A i \in scored : i.signals \cap state.covered = {}
              /\ \A i, j \in scored : i # j => i.signals \cap j.signals = {}
  <2>1. \A d \in drafts : \E s \in S : d = Draft(rule, {s}, FallbackBase(rule)) /\ s.id \notin state.covered
    BY <1>12, FallbackTakes DEF drafts
  <2>2. \A i \in scored : \E s \in S : i = Score(Draft(rule, {s}, FallbackBase(rule))) /\ s.id \notin state.covered
    BY <1>6, <2>1
  <2>3. \A s \in S : Score(Draft(rule, {s}, FallbackBase(rule))).signals = {s.id}
    <3> SUFFICES ASSUME NEW s \in S PROVE Score(Draft(rule, {s}, FallbackBase(rule))).signals = {s.id}
      OBVIOUS
    <3>1. Draft(rule, {s}, FallbackBase(rule)).members = {s}
      BY DEF Draft
    <3>2. Score(Draft(rule, {s}, FallbackBase(rule))).signals = {t.id : t \in {s}}
      BY <3>1, ScoreIs
    <3>3. QED
      BY <3>2
  <2>4. ASSUME NEW i \in scored, NEW j \in scored, i # j PROVE i.signals \cap j.signals = {}
    <3>1. PICK s \in S : i = Score(Draft(rule, {s}, FallbackBase(rule)))
      BY <2>2
    <3>2. PICK t \in S : j = Score(Draft(rule, {t}, FallbackBase(rule)))
      BY <2>2
    <3>3. s # t
      BY <2>4, <3>1, <3>2
    <3>4. s.id # t.id
      BY <3>3 DEF Apart
    <3>5. i.signals = {s.id} /\ j.signals = {t.id}
      BY <2>3, <3>1, <3>2
    <3>6. QED
      BY <3>4, <3>5
  <2>5. \A i \in scored : i.signals \cap state.covered = {}
    BY <2>2, <2>3
  <2>6. QED
    BY <2>4, <2>5
<1>13. ASSUME NEW i \in more, NEW j \in more, i.rule \in Names(Fallbacks), i # j
       PROVE  i.signals \cap j.signals = {}
  <2>1. \A o \in state.incidents : o.signals \subseteq state.covered
    BY DEF After
  <2>2. CASE i \in state.incidents /\ j \in state.incidents
    BY <1>13, <2>2 DEF After
  <2>3. CASE i \in scored
    <3>1. rule \in Names(Fallbacks)
      BY <1>6, <1>13, <2>3
    <3>2. QED
      BY <1>7, <1>12, <1>13, <2>1, <2>3, <3>1
  <2>4. CASE i \in state.incidents /\ j \in scored
    <3>1. k - 1 >= 12
      <4>1. ~(k - 1 < 12)
        BY <1>13, <2>4 DEF After
      <4>2. QED
        BY <4>1
    <3>2. rule \in Names(Fallbacks)
      BY <1>11, <3>1
    <3>3. QED
      BY <1>12, <2>1, <2>4, <3>2
  <2>5. QED
    BY <1>7, <2>2, <2>3, <2>4
<1>14. ASSUME rule \in Names(Fallbacks), NEW s \in FallbackPart(rule, S), s.severity <= High
       PROVE  s.id \in now
  <2> SUFFICES ASSUME s.id \notin state.covered PROVE s.id \in now
    OBVIOUS
  <2>1. rule \notin Disabled
    BY <1>14
  <2>2. PICK d \in drafts : s.id \in Score(d).signals
    BY <1>14, <2>1, FallbackCovers DEF drafts
  <2>3. Score(d) \in scored
    BY DEF scored
  <2>4. QED
    BY <2>2, <2>3
<1>15. k >= 12 => \A s \in S \ Of(S, "syslog") : s.severity <= High => s.id \in now
  <2>1. CASE k = 12
    BY <1>11, <1>14, <2>1, OrderIs DEF FallbackPart, rule
  <2>2. CASE k = 13
    <3>1. k - 1 >= 12
      BY <2>2
    <3>2. QED
      BY <3>1 DEF After
  <2>3. QED
    BY <2>1, <2>2
<1>16. k >= 13 => \A s \in Of(S, "syslog") : s.severity <= High => s.id \in now
  <2> SUFFICES ASSUME k >= 13 PROVE \A s \in Of(S, "syslog") : s.severity <= High => s.id \in now
    OBVIOUS
  <2>1. k = 13 /\ rule = "SINGLE_SYSLOG_HIGH_RISK" /\ rule \in Names(Fallbacks)
    BY OrderIs DEF rule
  <2>2. FallbackPart(rule, S) = Of(S, "syslog")
    BY <2>1 DEF FallbackPart
  <2>3. QED
    BY <1>14, <2>1, <2>2
<1> HIDE DEF now
<1>17. After(next, k, S)
  BY <1>2, <1>3, <1>8, <1>9, <1>10, <1>13, <1>15, <1>16 DEF After
<1>18. QED
  BY <1>17 DEF next, rule

\* What the incidents of a set of signals say of them.
CorrelationSound(S, found) ==
  LET fallback == {i \in found : i.rule \in Names(Fallbacks)}
  IN /\ \A s \in S : s.severity <= High => \E i \in found : s.id \in i.signals
     /\ \A i \in fallback, j \in found : i # j => i.signals \cap j.signals = {}
     /\ \A i \in found : IncidentOK(i, S)

\* Whatever signals the engine is given, if their names tell them apart: after all rules
\* and fallbacks those of high risk are in an incident, a fallback shares no signal with
\* another incident, and what is critical is corroborated (engine.py, CorrelationEngine).
THEOREM CorrelatedSound ==
  ASSUME Markers, Names(Fallbacks) \cap Disabled = {}, NEW S, SignalsOK(S), Apart(S)
  PROVE  CorrelationSound(S, Correlated(S))
<1>1. PICK run : /\ run[0] = Base(S) /\ run[13].incidents = Correlated(S)
                 /\ \A k \in 1..13 : run[k] = RunRule(run[k - 1], Order[k])
  BY PassOf
<1> DEFINE T == {k \in Nat : k <= 13 => After(run[k], k, S)}
<1>2. 0 \in T
  <2>1. /\ Base(S) = [signals |-> S, incidents |-> Base(S).incidents, covered |-> Base(S).covered]
        /\ Base(S).incidents = {} /\ Base(S).covered = {}
    BY DEF Base
  <2>2. After(Base(S), 0, S)
    BY <2>1 DEF After
  <2>3. QED
    BY <1>1, <2>2
<1>3. ASSUME NEW k \in T PROVE k + 1 \in T
  <2>1. k \in Nat /\ k + 1 \in Nat
    OBVIOUS
  <2> SUFFICES ASSUME k + 1 <= 13 PROVE After(run[k + 1], k + 1, S)
    BY <2>1
  <2>2. k + 1 \in 1..13 /\ (k + 1) - 1 = k /\ k <= 13
    BY <2>1
  <2>3. After(run[k], k, S)
    BY <2>2
  <2>4. run[k + 1] = RunRule(run[k], Order[k + 1])
    BY <1>1, <2>2
  <2>5. After(RunRule(run[k], Order[k + 1]), k + 1, S)
    BY <2>2, <2>3, AfterRule
  <2>6. QED
    BY <2>4, <2>5
<1>4. 13 \in T
  <2>1. T \subseteq Nat
    OBVIOUS
  <2> HIDE DEF T
  <2>2. T = Nat
    BY <1>2, <1>3, <2>1, Inductive
  <2>3. QED
    BY <2>2
<1>5. After(run[13], 13, S)
  BY <1>4
<1> HIDE DEF T
<1> DEFINE I == Correlated(S)
<1>6. I = run[13].incidents
  BY <1>1
<1> HIDE DEF I
<1>7. \A i \in I : IncidentOK(i, S)
  BY <1>5, <1>6, IncidentsOK DEF After
<1>8. /\ \A s \in S : s.severity <= High => s.id \in run[13].covered
      /\ run[13].covered = UNION {i.signals : i \in I}
      /\ \A i, j \in I : i.rule \in Names(Fallbacks) /\ i # j => i.signals \cap j.signals = {}
  <2>1. \A s \in S : s \in Of(S, "syslog") \/ s \in S \ Of(S, "syslog")
    OBVIOUS
  <2>2. QED
    BY <1>5, <1>6, <2>1 DEF After
<1>9. CorrelationSound(S, I)
  BY <1>7, <1>8 DEF CorrelationSound
<1>10. QED
  BY <1>9 DEF I

-----------------------------------------------------------------------------
(* Findings.                                                               *)

FindingRules == {"SYS-SNMP-AUTHFAIL", "SYS-PORT-FLAP", "SYS-MAC-FLAP", "SYS-ARP-FAST", "SYS-ERPS-CHURN",
                 "SYS-POE-FAULT", "SYS-TELNET", "SYS-DEVICE"}
FindingLevels == {"critical", "high", "medium", "low", "info"}
SameSubject(f, g) == f.device = g.device /\ f.iface = g.iface /\ f.entity = g.entity

\* The findings of one rule: one for each subject.
FindingsOf(rule, found) ==
  /\ \A f \in found : f.rule = rule /\ f.sev \in FindingLevels
  /\ \A f, g \in found : SameSubject(f, g) => f = g

LEMMA FindingIs ==
  ASSUME NEW rule, NEW sev, NEW device, NEW iface, NEW entity, NEW count
  PROVE  /\ Finding(rule, sev, device, iface, entity, count).rule = rule
         /\ Finding(rule, sev, device, iface, entity, count).sev = sev
         /\ Finding(rule, sev, device, iface, entity, count).device = device
         /\ Finding(rule, sev, device, iface, entity, count).iface = iface
         /\ Finding(rule, sev, device, iface, entity, count).entity = entity
BY DEF Finding

LEMMA PickedOne ==
  ASSUME NEW T, T # {}
  PROVE  PickOne(T) \in T
BY DEF PickOne

\* The rule makes findings of groups that the subjects tell apart.
Grouped(rule, found, groups, levels, device, iface, entity, count) ==
  /\ \A f \in found : \E I \in groups : \E x \in levels[I] :
       f = Finding(rule, x, device[I], iface[I], entity[I], count[I])
  /\ \A I \in groups : levels[I] \subseteq FindingLevels /\ \A x, y \in levels[I] : x = y
  /\ \A I, J \in groups : device[I] = device[J] /\ iface[I] = iface[J] /\ entity[I] = entity[J] => I = J

LEMMA ByGroup ==
  ASSUME NEW rule, NEW groups, NEW found, NEW levels, NEW device, NEW iface, NEW entity, NEW count,
         Grouped(rule, found, groups, levels, device, iface, entity, count)
  PROVE  FindingsOf(rule, found)
<1> USE DEF Grouped
<1>1. \A f \in found : f.rule = rule /\ f.sev \in FindingLevels
  BY FindingIs
<1>2. ASSUME NEW f \in found, NEW g \in found, SameSubject(f, g) PROVE f = g
  <2>1. PICK I \in groups : \E x \in levels[I] : f = Finding(rule, x, device[I], iface[I], entity[I], count[I])
    OBVIOUS
  <2>2. PICK x \in levels[I] : f = Finding(rule, x, device[I], iface[I], entity[I], count[I])
    BY <2>1
  <2>3. PICK J \in groups : \E y \in levels[J] : g = Finding(rule, y, device[J], iface[J], entity[J], count[J])
    OBVIOUS
  <2>4. PICK y \in levels[J] : g = Finding(rule, y, device[J], iface[J], entity[J], count[J])
    BY <2>3
  <2>5. device[I] = device[J] /\ iface[I] = iface[J] /\ entity[I] = entity[J]
    BY <1>2, <2>2, <2>4, FindingIs DEF SameSubject
  <2>6. I = J /\ x = y
    BY <2>5
  <2>7. QED
    BY <2>2, <2>4, <2>6
<1>3. QED
  BY <1>1, <1>2 DEF FindingsOf

LEMMA GradedOne ==
  ASSUME NEW value, NEW warn, NEW high
  PROVE  /\ Graded(value, warn, high) \subseteq FindingLevels
         /\ \A x, y \in Graded(value, warn, high) : x = y
BY DEF Graded, FindingLevels

LEMMA LinksGrouped ==
  ASSUME NEW events, NEW T, NEW I \in {{i \in T : <<events[i].host, events[i].iface>> = k} : k \in {<<events[i].host, events[i].iface>> : i \in T}}
  PROVE  /\ I # {}
         /\ I = {i \in T : /\ events[i].host = OneOf(events, I).host
                           /\ events[i].iface = OneOf(events, I).iface}
<1>1. PICK j \in T : I = {i \in T : <<events[i].host, events[i].iface>> = <<events[j].host, events[j].iface>>}
  OBVIOUS
<1>2. PickOne(I) \in I
  BY <1>1, PickedOne
<1>3. OneOf(events, I) = events[PickOne(I)]
  BY DEF OneOf
<1>4. QED
  BY <1>1, <1>2, <1>3

LEMMA PortFound == ASSUME NEW events PROVE FindingsOf("SYS-PORT-FLAP", PortFlapFindings(events))
<1> DEFINE T == {i \in Tagged(events, DOMAIN events, {"port_flap"}) : events[i].iface # None}
           groups == {{i \in T : <<events[i].host, events[i].iface>> = k} : k \in {<<events[i].host, events[i].iface>> : i \in T}}
           Levels(I) == Graded(PeakPerBin(events, I, 60), FlapWarn, FlapHigh)
           Made(g) == Finding("SYS-PORT-FLAP", g.sev, OneOf(events, g.I).host, OneOf(events, g.I).iface, None, WeightOf(events, g.I))
           levels == [I \in groups |-> Levels(I)]
           device == [I \in groups |-> OneOf(events, I).host]
           iface == [I \in groups |-> OneOf(events, I).iface]
           entity == [I \in groups |-> None]
           count == [I \in groups |-> WeightOf(events, I)]
<1>1. PortFlapFindings(events) = {Made(g) : g \in UNION {[I : {I}, sev : Levels(I)] : I \in groups}}
  BY DEF PortFlapFindings, GroupsBy
<1>2. \A I \in groups : I = {i \in T : events[i].host = OneOf(events, I).host /\ events[i].iface = OneOf(events, I).iface}
  BY LinksGrouped
<1>3. \A I \in groups : Levels(I) \subseteq FindingLevels /\ \A x, y \in Levels(I) : x = y
  BY GradedOne
<1> HIDE DEF T, groups, Levels
<1>4. ASSUME NEW f \in PortFlapFindings(events)
      PROVE  \E I \in groups : \E x \in levels[I] : f = Finding("SYS-PORT-FLAP", x, device[I], iface[I], entity[I], count[I])
  <2>1. PICK g \in UNION {[I : {I}, sev : Levels(I)] : I \in groups} : f = Made(g)
    BY <1>1, <1>4
  <2>2. PICK I \in groups : g \in [I : {I}, sev : Levels(I)]
    BY <2>1
  <2>3. g.I = I /\ g.sev \in Levels(I)
    BY <2>2
  <2>4. QED
    BY <2>1, <2>3
<1>5. \A I \in groups : levels[I] \subseteq FindingLevels /\ \A x, y \in levels[I] : x = y
  BY <1>3
<1>6. \A I, J \in groups : device[I] = device[J] /\ iface[I] = iface[J] /\ entity[I] = entity[J] => I = J
  BY <1>2
<1> HIDE DEF levels, device, iface, entity, count
<1>7. Grouped("SYS-PORT-FLAP", PortFlapFindings(events), groups, levels, device, iface, entity, count)
  BY <1>4, <1>5, <1>6 DEF Grouped
<1>8. QED
  BY <1>7, ByGroup
LEMMA MovesGrouped ==
  ASSUME NEW events, NEW T,
         NEW I \in {{i \in T : <<events[i].host, events[i].entity, events[i].vlan>> = k} : k \in {<<events[i].host, events[i].entity, events[i].vlan>> : i \in T}}
  PROVE  /\ I # {}
         /\ I = {i \in T : /\ events[i].host = OneOf(events, I).host
                           /\ events[i].entity = OneOf(events, I).entity
                           /\ events[i].vlan = OneOf(events, I).vlan}
<1>1. PICK j \in T : I = {i \in T : <<events[i].host, events[i].entity, events[i].vlan>> = <<events[j].host, events[j].entity, events[j].vlan>>}
  OBVIOUS
<1>2. PickOne(I) \in I
  BY <1>1, PickedOne
<1>3. OneOf(events, I) = events[PickOne(I)]
  BY DEF OneOf
<1>4. QED
  BY <1>1, <1>2, <1>3

LEMMA EntitiesGrouped ==
  ASSUME NEW events, NEW T,
         NEW I \in {{i \in T : <<events[i].host, events[i].entity>> = k} : k \in {<<events[i].host, events[i].entity>> : i \in T}}
  PROVE  /\ I # {}
         /\ I = {i \in T : /\ events[i].host = OneOf(events, I).host
                           /\ events[i].entity = OneOf(events, I).entity}
<1>1. PICK j \in T : I = {i \in T : <<events[i].host, events[i].entity>> = <<events[j].host, events[j].entity>>}
  OBVIOUS
<1>2. PickOne(I) \in I
  BY <1>1, PickedOne
<1>3. OneOf(events, I) = events[PickOne(I)]
  BY DEF OneOf
<1>4. QED
  BY <1>1, <1>2, <1>3

HostGroups(events, T) == {{i \in T : HostName(events[i]) = k} : k \in {HostName(events[i]) : i \in T}}

LEMMA HostsGrouped ==
  ASSUME NEW events, NEW T,
         NEW I \in HostGroups(events, T)
  PROVE  /\ I # {}
         /\ I = {i \in T : HostName(events[i]) = HostName(OneOf(events, I))}
<1>1. PICK j \in T : I = {i \in T : HostName(events[i]) = HostName(events[j])}
  BY DEF HostGroups
<1>2. PickOne(I) \in I
  BY <1>1, PickedOne
<1>3. OneOf(events, I) = events[PickOne(I)]
  BY DEF OneOf
<1>4. QED
  BY <1>1, <1>2, <1>3

LEMMA ArpFound == ASSUME NEW events PROVE FindingsOf("SYS-ARP-FAST", ArpFindings(events))
<1> DEFINE T == Tagged(events, DOMAIN events, {"arp_instability"})
           all == {{i \in T : <<events[i].host, events[i].entity>> = k} : k \in {<<events[i].host, events[i].entity>> : i \in T}}
           groups == all
           Degree(I) == IF WeightOf(events, I) >= 5 THEN "high" ELSE "medium"
           levels == [I \in groups |-> {Degree(I)}]
           device == [I \in groups |-> OneOf(events, I).host]
           iface == [I \in groups |-> None]
           entity == [I \in groups |-> OneOf(events, I).entity]
           count == [I \in groups |-> WeightOf(events, I)]
<1>1. ArpFindings(events) = {Finding("SYS-ARP-FAST", Degree(I), OneOf(events, I).host, None, OneOf(events, I).entity, WeightOf(events, I)) : I \in groups}
  BY DEF ArpFindings, GroupsBy
<1>2. \A I \in groups : I = {i \in T : events[i].host = OneOf(events, I).host /\ events[i].entity = OneOf(events, I).entity}
  BY EntitiesGrouped
<1>3. \A I \in groups : Degree(I) \in FindingLevels
  BY DEF FindingLevels
<1> HIDE DEF T, all, groups, Degree
<1>4. ASSUME NEW f \in ArpFindings(events)
      PROVE  \E I \in groups : \E x \in levels[I] : f = Finding("SYS-ARP-FAST", x, device[I], iface[I], entity[I], count[I])
  <2>1. PICK I \in groups : f = Finding("SYS-ARP-FAST", Degree(I), OneOf(events, I).host, None, OneOf(events, I).entity, WeightOf(events, I))
    BY <1>1, <1>4
  <2>2. levels[I] = {Degree(I)} /\ device[I] = OneOf(events, I).host /\ iface[I] = None /\ entity[I] = OneOf(events, I).entity /\ count[I] = WeightOf(events, I)
    OBVIOUS
  <2>3. QED
    BY <2>1, <2>2
<1>5. \A I \in groups : levels[I] \subseteq FindingLevels /\ \A x, y \in levels[I] : x = y
  BY <1>3
<1>6. \A I, J \in groups : device[I] = device[J] /\ iface[I] = iface[J] /\ entity[I] = entity[J] => I = J
  BY <1>2
<1> HIDE DEF levels, device, iface, entity, count
<1>7. Grouped("SYS-ARP-FAST", ArpFindings(events), groups, levels, device, iface, entity, count)
  BY <1>4, <1>5, <1>6 DEF Grouped
<1>8. QED
  BY <1>7, ByGroup

LEMMA PoeFound == ASSUME NEW events PROVE FindingsOf("SYS-POE-FAULT", PoeFindings(events))
<1> DEFINE T == Tagged(events, DOMAIN events, {"poe_fault"})
           all == {{i \in T : <<events[i].host, events[i].iface>> = k} : k \in {<<events[i].host, events[i].iface>> : i \in T}}
           groups == all
           Degree(I) == "high"
           levels == [I \in groups |-> {Degree(I)}]
           device == [I \in groups |-> OneOf(events, I).host]
           iface == [I \in groups |-> OneOf(events, I).iface]
           entity == [I \in groups |-> None]
           count == [I \in groups |-> WeightOf(events, I)]
<1>1. PoeFindings(events) = {Finding("SYS-POE-FAULT", Degree(I), OneOf(events, I).host, OneOf(events, I).iface, None, WeightOf(events, I)) : I \in groups}
  BY DEF PoeFindings, GroupsBy
<1>2. \A I \in groups : I = {i \in T : events[i].host = OneOf(events, I).host /\ events[i].iface = OneOf(events, I).iface}
  BY LinksGrouped
<1>3. \A I \in groups : Degree(I) \in FindingLevels
  BY DEF FindingLevels
<1> HIDE DEF T, all, groups, Degree
<1>4. ASSUME NEW f \in PoeFindings(events)
      PROVE  \E I \in groups : \E x \in levels[I] : f = Finding("SYS-POE-FAULT", x, device[I], iface[I], entity[I], count[I])
  <2>1. PICK I \in groups : f = Finding("SYS-POE-FAULT", Degree(I), OneOf(events, I).host, OneOf(events, I).iface, None, WeightOf(events, I))
    BY <1>1, <1>4
  <2>2. levels[I] = {Degree(I)} /\ device[I] = OneOf(events, I).host /\ iface[I] = OneOf(events, I).iface /\ entity[I] = None /\ count[I] = WeightOf(events, I)
    OBVIOUS
  <2>3. QED
    BY <2>1, <2>2
<1>5. \A I \in groups : levels[I] \subseteq FindingLevels /\ \A x, y \in levels[I] : x = y
  BY <1>3
<1>6. \A I, J \in groups : device[I] = device[J] /\ iface[I] = iface[J] /\ entity[I] = entity[J] => I = J
  BY <1>2
<1> HIDE DEF levels, device, iface, entity, count
<1>7. Grouped("SYS-POE-FAULT", PoeFindings(events), groups, levels, device, iface, entity, count)
  BY <1>4, <1>5, <1>6 DEF Grouped
<1>8. QED
  BY <1>7, ByGroup

LEMMA TelnetFound == ASSUME NEW events PROVE FindingsOf("SYS-TELNET", TelnetFindings(events))
<1> DEFINE T == Tagged(events, DOMAIN events, {"insecure_telnet"})
           all == HostGroups(events, T)
           groups == all
           Degree(I) == "medium"
           levels == [I \in groups |-> {Degree(I)}]
           device == [I \in groups |-> HostName(OneOf(events, I))]
           iface == [I \in groups |-> None]
           entity == [I \in groups |-> None]
           count == [I \in groups |-> WeightOf(events, I)]
<1>1. TelnetFindings(events) = {Finding("SYS-TELNET", Degree(I), HostName(OneOf(events, I)), None, None, WeightOf(events, I)) : I \in groups}
  BY DEF TelnetFindings, GroupsBy, HostGroups
<1>2. \A I \in groups : I = {i \in T : HostName(events[i]) = HostName(OneOf(events, I))}
  <2> HIDE DEF T
  <2>1. QED
    BY HostsGrouped
<1>3. \A I \in groups : Degree(I) \in FindingLevels
  BY DEF FindingLevels
<1> HIDE DEF T, all, groups, Degree
<1>4. ASSUME NEW f \in TelnetFindings(events)
      PROVE  \E I \in groups : \E x \in levels[I] : f = Finding("SYS-TELNET", x, device[I], iface[I], entity[I], count[I])
  <2>1. PICK I \in groups : f = Finding("SYS-TELNET", Degree(I), HostName(OneOf(events, I)), None, None, WeightOf(events, I))
    BY <1>1, <1>4
  <2>2. levels[I] = {Degree(I)} /\ device[I] = HostName(OneOf(events, I)) /\ iface[I] = None /\ entity[I] = None /\ count[I] = WeightOf(events, I)
    OBVIOUS
  <2>3. QED
    BY <2>1, <2>2
<1>5. \A I \in groups : levels[I] \subseteq FindingLevels /\ \A x, y \in levels[I] : x = y
  BY <1>3
<1>6. \A I, J \in groups : device[I] = device[J] /\ iface[I] = iface[J] /\ entity[I] = entity[J] => I = J
  BY <1>2
<1> HIDE DEF levels, device, iface, entity, count
<1>7. Grouped("SYS-TELNET", TelnetFindings(events), groups, levels, device, iface, entity, count)
  BY <1>4, <1>5, <1>6 DEF Grouped
<1>8. QED
  BY <1>7, ByGroup

LEMMA DeviceFound == ASSUME NEW events PROVE FindingsOf("SYS-DEVICE", DeviceFindings(events))
<1> DEFINE T == Tagged(events, DOMAIN events, {"power_fault", "fan_fault"} \cup {"reboot", "clock_change"})
           all == HostGroups(events, T)
           groups == all
           Degree(I) == IF Tagged(events, I, {"power_fault", "fan_fault"}) # {} THEN "high" ELSE "medium"
           levels == [I \in groups |-> {Degree(I)}]
           device == [I \in groups |-> HostName(OneOf(events, I))]
           iface == [I \in groups |-> None]
           entity == [I \in groups |-> None]
           count == [I \in groups |-> WeightOf(events, I)]
<1>1. DeviceFindings(events) = {Finding("SYS-DEVICE", Degree(I), HostName(OneOf(events, I)), None, None, WeightOf(events, I)) : I \in groups}
  BY DEF DeviceFindings, GroupsBy, HostGroups
<1>2. \A I \in groups : I = {i \in T : HostName(events[i]) = HostName(OneOf(events, I))}
  <2> HIDE DEF T
  <2>1. QED
    BY HostsGrouped
<1>3. \A I \in groups : Degree(I) \in FindingLevels
  BY DEF FindingLevels
<1> HIDE DEF T, all, groups, Degree
<1>4. ASSUME NEW f \in DeviceFindings(events)
      PROVE  \E I \in groups : \E x \in levels[I] : f = Finding("SYS-DEVICE", x, device[I], iface[I], entity[I], count[I])
  <2>1. PICK I \in groups : f = Finding("SYS-DEVICE", Degree(I), HostName(OneOf(events, I)), None, None, WeightOf(events, I))
    BY <1>1, <1>4
  <2>2. levels[I] = {Degree(I)} /\ device[I] = HostName(OneOf(events, I)) /\ iface[I] = None /\ entity[I] = None /\ count[I] = WeightOf(events, I)
    OBVIOUS
  <2>3. QED
    BY <2>1, <2>2
<1>5. \A I \in groups : levels[I] \subseteq FindingLevels /\ \A x, y \in levels[I] : x = y
  BY <1>3
<1>6. \A I, J \in groups : device[I] = device[J] /\ iface[I] = iface[J] /\ entity[I] = entity[J] => I = J
  BY <1>2
<1> HIDE DEF levels, device, iface, entity, count
<1>7. Grouped("SYS-DEVICE", DeviceFindings(events), groups, levels, device, iface, entity, count)
  BY <1>4, <1>5, <1>6 DEF Grouped
<1>8. QED
  BY <1>7, ByGroup

LEMMA MacFound == ASSUME NEW events PROVE FindingsOf("SYS-MAC-FLAP", MacFlapFindings(events))
<1> DEFINE T == Tagged(events, DOMAIN events, {"mac_flap"})
           all == {{i \in T : <<events[i].host, events[i].entity, events[i].vlan>> = k} : k \in {<<events[i].host, events[i].entity, events[i].vlan>> : i \in T}}
           groups == {I \in all : Max({events[i].moves : i \in I}) >= MovesWarn}
           Degree(I) == IF Max({events[i].moves : i \in I}) >= MovesHigh THEN IF Cardinality(I) > 1 THEN "critical" ELSE "high" ELSE "medium"
           levels == [I \in groups |-> {Degree(I)}]
           device == [I \in groups |-> OneOf(events, I).host]
           iface == [I \in groups |-> LastOf(events, I).iface]
           entity == [I \in groups |-> <<OneOf(events, I).entity, OneOf(events, I).vlan>>]
           count == [I \in groups |-> WeightOf(events, I)]
<1>1. MacFlapFindings(events) = {Finding("SYS-MAC-FLAP", Degree(I), OneOf(events, I).host, LastOf(events, I).iface, <<OneOf(events, I).entity, OneOf(events, I).vlan>>, WeightOf(events, I)) : I \in groups}
  BY DEF MacFlapFindings, GroupsBy
<1>2. \A I \in groups : I = {i \in T : events[i].host = OneOf(events, I).host /\ events[i].entity = OneOf(events, I).entity /\ events[i].vlan = OneOf(events, I).vlan}
  BY MovesGrouped
<1>3. \A I \in groups : Degree(I) \in FindingLevels
  BY DEF FindingLevels
<1> HIDE DEF T, all, groups, Degree
<1>4. ASSUME NEW f \in MacFlapFindings(events)
      PROVE  \E I \in groups : \E x \in levels[I] : f = Finding("SYS-MAC-FLAP", x, device[I], iface[I], entity[I], count[I])
  <2>1. PICK I \in groups : f = Finding("SYS-MAC-FLAP", Degree(I), OneOf(events, I).host, LastOf(events, I).iface, <<OneOf(events, I).entity, OneOf(events, I).vlan>>, WeightOf(events, I))
    BY <1>1, <1>4
  <2>2. levels[I] = {Degree(I)} /\ device[I] = OneOf(events, I).host /\ iface[I] = LastOf(events, I).iface /\ entity[I] = <<OneOf(events, I).entity, OneOf(events, I).vlan>> /\ count[I] = WeightOf(events, I)
    OBVIOUS
  <2>3. QED
    BY <2>1, <2>2
<1>5. \A I \in groups : levels[I] \subseteq FindingLevels /\ \A x, y \in levels[I] : x = y
  BY <1>3
<1>6. \A I, J \in groups : device[I] = device[J] /\ iface[I] = iface[J] /\ entity[I] = entity[J] => I = J
  BY <1>2
<1> HIDE DEF levels, device, iface, entity, count
<1>7. Grouped("SYS-MAC-FLAP", MacFlapFindings(events), groups, levels, device, iface, entity, count)
  BY <1>4, <1>5, <1>6 DEF Grouped
<1>8. QED
  BY <1>7, ByGroup

LEMMA SnmpFound == ASSUME NEW events PROVE FindingsOf("SYS-SNMP-AUTHFAIL", SnmpFindings(events))
<1> DEFINE T == Tagged(events, DOMAIN events, {"snmp_auth_failed", "snmp_user_auth_failed"})
           all == HostGroups(events, T)
           groups == all
           Degree(I) == IF Graded(PeakPerBin(events, I, 5), SnmpWarn, SnmpHigh) # {}
                         THEN PickOne(Graded(PeakPerBin(events, I, 5), SnmpWarn, SnmpHigh))
                         ELSE IF \E i \in Tagged(events, I, {"snmp_auth_failed"}) : events[i].entity \in {"public", "private"}
                         THEN "medium" ELSE "low"
           levels == [I \in groups |-> {Degree(I)}]
           device == [I \in groups |-> HostName(OneOf(events, I))]
           iface == [I \in groups |-> None]
           entity == [I \in groups |-> None]
           count == [I \in groups |-> WeightOf(events, I)]
<1>1. SnmpFindings(events) = {Finding("SYS-SNMP-AUTHFAIL", Degree(I), HostName(OneOf(events, I)), None, None, WeightOf(events, I)) : I \in groups}
  BY DEF SnmpFindings, GroupsBy, HostGroups
<1>2. \A I \in groups : I = {i \in T : HostName(events[i]) = HostName(OneOf(events, I))}
  <2> HIDE DEF T
  <2>1. QED
    BY HostsGrouped
<1>3. \A I \in groups : Degree(I) \in FindingLevels
  BY PickedOne, GradedOne DEF FindingLevels
<1> HIDE DEF T, all, groups, Degree
<1>4. ASSUME NEW f \in SnmpFindings(events)
      PROVE  \E I \in groups : \E x \in levels[I] : f = Finding("SYS-SNMP-AUTHFAIL", x, device[I], iface[I], entity[I], count[I])
  <2>1. PICK I \in groups : f = Finding("SYS-SNMP-AUTHFAIL", Degree(I), HostName(OneOf(events, I)), None, None, WeightOf(events, I))
    BY <1>1, <1>4
  <2>2. levels[I] = {Degree(I)} /\ device[I] = HostName(OneOf(events, I)) /\ iface[I] = None /\ entity[I] = None /\ count[I] = WeightOf(events, I)
    OBVIOUS
  <2>3. QED
    BY <2>1, <2>2
<1>5. \A I \in groups : levels[I] \subseteq FindingLevels /\ \A x, y \in levels[I] : x = y
  BY <1>3
<1>6. \A I, J \in groups : device[I] = device[J] /\ iface[I] = iface[J] /\ entity[I] = entity[J] => I = J
  BY <1>2
<1> HIDE DEF levels, device, iface, entity, count
<1>7. Grouped("SYS-SNMP-AUTHFAIL", SnmpFindings(events), groups, levels, device, iface, entity, count)
  BY <1>4, <1>5, <1>6 DEF Grouped
<1>8. QED
  BY <1>7, ByGroup

LEMMA ErpsFound == ASSUME NEW events PROVE FindingsOf("SYS-ERPS-CHURN", ErpsFindings(events))
<1> DEFINE T == Tagged(events, DOMAIN events, {"erps_churn"})
           groups == {{i \in T : <<events[i].host, events[i].entity>> = k} : k \in {<<events[i].host, events[i].entity>> : i \in T}}
           Levels(I) == Graded(PeakPerBin(events, I, 60), ErpsWarn, 2 * ErpsWarn)
           Made(g) == Finding("SYS-ERPS-CHURN", g.sev, OneOf(events, g.I).host, None, OneOf(events, g.I).entity, WeightOf(events, g.I))
           levels == [I \in groups |-> Levels(I)]
           device == [I \in groups |-> OneOf(events, I).host]
           iface == [I \in groups |-> None]
           entity == [I \in groups |-> OneOf(events, I).entity]
           count == [I \in groups |-> WeightOf(events, I)]
<1>1. ErpsFindings(events) = {Made(g) : g \in UNION {[I : {I}, sev : Levels(I)] : I \in groups}}
  BY DEF ErpsFindings, GroupsBy
<1>2. \A I \in groups : I = {i \in T : events[i].host = OneOf(events, I).host /\ events[i].entity = OneOf(events, I).entity}
  BY EntitiesGrouped
<1>3. \A I \in groups : Levels(I) \subseteq FindingLevels /\ \A x, y \in Levels(I) : x = y
  BY GradedOne
<1> HIDE DEF T, groups, Levels
<1>4. ASSUME NEW f \in ErpsFindings(events)
      PROVE  \E I \in groups : \E x \in levels[I] : f = Finding("SYS-ERPS-CHURN", x, device[I], iface[I], entity[I], count[I])
  <2>1. PICK g \in UNION {[I : {I}, sev : Levels(I)] : I \in groups} : f = Made(g)
    BY <1>1, <1>4
  <2>2. PICK I \in groups : g \in [I : {I}, sev : Levels(I)]
    BY <2>1
  <2>3. g.I = I /\ g.sev \in Levels(I)
    BY <2>2
  <2>4. QED
    BY <2>1, <2>3
<1>5. \A I \in groups : levels[I] \subseteq FindingLevels /\ \A x, y \in levels[I] : x = y
  BY <1>3
<1>6. \A I, J \in groups : device[I] = device[J] /\ iface[I] = iface[J] /\ entity[I] = entity[J] => I = J
  BY <1>2
<1> HIDE DEF levels, device, iface, entity, count
<1>7. Grouped("SYS-ERPS-CHURN", ErpsFindings(events), groups, levels, device, iface, entity, count)
  BY <1>4, <1>5, <1>6 DEF Grouped
<1>8. QED
  BY <1>7, ByGroup

\* What the findings of an ingestion are like: one for each rule and subject.
FindingsSound(found) ==
  /\ \A f \in found : f.rule \in FindingRules /\ f.sev \in FindingLevels
  /\ \A f, g \in found : f.rule = g.rule /\ SameSubject(f, g) => f = g

LEMMA FindingsAre == ASSUME NEW events PROVE FindingsSound(GenerateFindings(events))
<1> DEFINE a == PortFlapFindings(events)
           b == MacFlapFindings(events)
           c == SnmpFindings(events)
           d == ArpFindings(events)
           e == PoeFindings(events)
           o == ErpsFindings(events)
           p == TelnetFindings(events)
           q == DeviceFindings(events)
           found == GenerateFindings(events)
<1>1. \A f \in found : f \in a \/ f \in b \/ f \in c \/ f \in d \/ f \in e \/ f \in o \/ f \in p \/ f \in q
  BY DEF GenerateFindings
<1>2. /\ FindingsOf("SYS-PORT-FLAP", a) /\ FindingsOf("SYS-MAC-FLAP", b) /\ FindingsOf("SYS-SNMP-AUTHFAIL", c)
      /\ FindingsOf("SYS-ARP-FAST", d) /\ FindingsOf("SYS-POE-FAULT", e) /\ FindingsOf("SYS-ERPS-CHURN", o)
      /\ FindingsOf("SYS-TELNET", p) /\ FindingsOf("SYS-DEVICE", q)
  BY PortFound, MacFound, SnmpFound, ArpFound, PoeFound, ErpsFound, TelnetFound, DeviceFound
<1> HIDE DEF a, b, c, d, e, o, p, q, found
<1>3. \A f \in found : f.rule \in FindingRules /\ f.sev \in FindingLevels
  BY <1>1, <1>2 DEF FindingsOf, FindingRules
<1>4. ASSUME NEW f \in found, NEW g \in found, f.rule = g.rule, SameSubject(f, g) PROVE f = g
  <2>1. \E same \in {a, b, c, d, e, o, p, q} : f \in same /\ g \in same
    BY <1>1, <1>2, <1>4 DEF FindingsOf
  <2>2. QED
    BY <1>2, <1>4, <2>1 DEF FindingsOf
<1>5. FindingsSound(found)
  BY <1>3, <1>4 DEF FindingsSound
<1>6. QED
  BY <1>5 DEF found

-----------------------------------------------------------------------------
(* The signals of each artefact.                                           *)

\* The file a signal was loaded from.
Origin(s) ==
  IF s.engine = "engine_c" THEN s.id[2]
  ELSE IF s.engine = "engine_b" THEN "health"
  ELSE IF s.engine = "engine_a" THEN "cyber"
  ELSE IF s.id[2][2] = "summary" THEN "parser_summary"
  ELSE IF s.id[2][2] = "findings" THEN "syslog_findings"
  ELSE "parsed_events"

From(S, engine, file) == SignalsOK(S) /\ Apart(S) /\ \A s \in S : s.engine = engine /\ Origin(s) = file

LEMMA SignalIs ==
  ASSUME NEW engine, NEW artefact, NEW category, NEW severity, NEW device, NEW iface, NEW title
  PROVE  LET s == Signal(engine, artefact, category, severity, device, iface, title)
         IN /\ s.id = <<engine, artefact, category, device, iface, title>>
            /\ s.engine = engine /\ s.stype = None /\ s.severity = severity
            /\ DOMAIN s = {"id", "engine", "labels", "stype", "severity", "device", "iface", "count", "aggregate",
                           "clockUnreliable", "band", "entityConfident"}
BY DEF Signal

LEMMA ConfigFindingIs ==
  ASSUME NEW f
  PROVE  LET s == ConfigFindingSignal(f)
         IN /\ s.id = <<"engine_c", "findings", f.category, f.device, f.iface, f.title>>
            /\ s.engine = "engine_c" /\ s.stype = None /\ s.severity = f.severity
BY SignalIs DEF ConfigFindingSignal

LEMMA TopologyIs ==
  ASSUME NEW w
  PROVE  LET s == TopologySignal(w)
         IN /\ s.id = <<"engine_c", "topology", <<"topology", w.category>>, w.device, w.iface, w.title>>
            /\ s.engine = "engine_c" /\ s.stype = None /\ s.severity \in Severities
BY SignalIs DEF TopologySignal, Severities

LEMMA SyslogIs ==
  ASSUME NEW run, NEW file, NEW type, NEW severity, NEW device, NEW iface, NEW title, NEW count
  PROVE  LET s == SyslogSignal(run, file, type, severity, device, iface, title, count)
         IN /\ s.id = <<"syslog", <<run, file>>, type, device, iface, title>>
            /\ s.engine = "syslog" /\ s.stype = type /\ s.severity = severity
            /\ DOMAIN s = {"id", "engine", "labels", "stype", "severity", "device", "iface", "count", "aggregate",
                           "clockUnreliable", "band", "entityConfident"}
BY SignalIs DEF SyslogSignal

LEMMA FindingsFrom ==
  ASSUME NEW files \in Snapshots, Readable(files["findings"])
  PROVE  From(ConfigSignalsOf("findings", files["findings"]), "engine_c", "findings")
<1> DEFINE F == files["findings"]
           S == ConfigSignalsOf("findings", F)
<1>1. S = {ConfigFindingSignal(f) : f \in F}
  BY DEF ConfigSignalsOf
<1>2. /\ \A f \in F : f.severity \in Severities
      /\ \A f, g \in F : f.category = g.category /\ f.device = g.device /\ f.iface = g.iface /\ f.title = g.title
                           => f.rule = g.rule /\ f.severity = g.severity
  BY EvidenceAssumption DEF Snapshot
<1> HIDE DEF F, S
<1>3. \A s \in S : SignalOK(s) /\ s.engine = "engine_c" /\ Origin(s) = "findings"
  <2> SUFFICES ASSUME NEW s \in S PROVE SignalOK(s) /\ s.engine = "engine_c" /\ Origin(s) = "findings"
    OBVIOUS
  <2>1. PICK f \in F : s = ConfigFindingSignal(f)
    BY <1>1
  <2>2. /\ s.id = <<"engine_c", "findings", f.category, f.device, f.iface, f.title>>
        /\ s.engine = "engine_c" /\ s.stype = None /\ s.severity \in Severities
    BY <1>2, <2>1, ConfigFindingIs
  <2>3. s.id[1] = "engine_c" /\ s.id[2] = "findings"
    BY <2>2
  <2>4. QED
    BY <2>2, <2>3 DEF SignalOK, Origin, Engines
<1>4. ASSUME NEW s \in S, NEW t \in S, s.id = t.id PROVE s = t
  <2>1. PICK f \in F : s = ConfigFindingSignal(f)
    BY <1>1
  <2>2. PICK g \in F : t = ConfigFindingSignal(g)
    BY <1>1
  <2>3. <<"engine_c", "findings", f.category, f.device, f.iface, f.title>>
          = <<"engine_c", "findings", g.category, g.device, g.iface, g.title>>
    BY <1>4, <2>1, <2>2, ConfigFindingIs
  <2>4. f.category = g.category /\ f.device = g.device /\ f.iface = g.iface /\ f.title = g.title
    BY <2>3
  <2>5. f.rule = g.rule /\ f.severity = g.severity
    BY <1>2, <2>4
  <2>6. ConfigFindingSignal(f) = ConfigFindingSignal(g)
    BY <2>4, <2>5, Zenon DEF ConfigFindingSignal
  <2>7. QED
    BY <2>1, <2>2, <2>6
<1>5. From(S, "engine_c", "findings")
  BY <1>3, <1>4 DEF From, SignalsOK, Apart
<1>6. QED
  BY <1>5 DEF S, F

LEMMA TopologyFrom ==
  ASSUME NEW files \in Snapshots, Readable(files["topology"])
  PROVE  From(ConfigSignalsOf("topology", files["topology"]), "engine_c", "topology")
<1> DEFINE F == files["topology"]
           S == ConfigSignalsOf("topology", F)
<1>1. S = {TopologySignal(w) : w \in F}
  BY DEF ConfigSignalsOf
<1>2. \A v, w \in F : v.category = w.category /\ v.device = w.device /\ v.iface = w.iface /\ v.title = w.title
                        => v.severity = w.severity
  BY EvidenceAssumption DEF Snapshot
<1> HIDE DEF F, S
<1>3. \A s \in S : SignalOK(s) /\ s.engine = "engine_c" /\ Origin(s) = "topology"
  <2> SUFFICES ASSUME NEW s \in S PROVE SignalOK(s) /\ s.engine = "engine_c" /\ Origin(s) = "topology"
    OBVIOUS
  <2>1. PICK w \in F : s = TopologySignal(w)
    BY <1>1
  <2>2. /\ s.id = <<"engine_c", "topology", <<"topology", w.category>>, w.device, w.iface, w.title>>
        /\ s.engine = "engine_c" /\ s.stype = None /\ s.severity \in Severities
    BY <2>1, TopologyIs
  <2>3. s.id[1] = "engine_c" /\ s.id[2] = "topology"
    BY <2>2
  <2>4. QED
    BY <2>2, <2>3 DEF SignalOK, Origin, Engines
<1>4. ASSUME NEW s \in S, NEW t \in S, s.id = t.id PROVE s = t
  <2>1. PICK v \in F : s = TopologySignal(v)
    BY <1>1
  <2>2. PICK w \in F : t = TopologySignal(w)
    BY <1>1
  <2>3. <<"engine_c", "topology", <<"topology", v.category>>, v.device, v.iface, v.title>>
          = <<"engine_c", "topology", <<"topology", w.category>>, w.device, w.iface, w.title>>
    BY <1>4, <2>1, <2>2, TopologyIs
  <2>4. <<"topology", v.category>> = <<"topology", w.category>> /\ v.device = w.device /\ v.iface = w.iface /\ v.title = w.title
    BY <2>3
  <2>5. v.category = w.category
    BY <2>4
  <2>6. v.severity = w.severity
    BY <1>2, <2>4, <2>5
  <2>7. TopologySignal(v) = TopologySignal(w)
    BY <2>4, <2>5, <2>6, Zenon DEF TopologySignal
  <2>8. QED
    BY <2>1, <2>2, <2>7
<1>5. From(S, "engine_c", "topology")
  BY <1>3, <1>4 DEF From, SignalsOK, Apart
<1>6. QED
  BY <1>5 DEF S, F

CardSignal(c) ==
  [Signal("engine_c", "cards", "device_health", IF c.status = "critical" THEN High ELSE 2, c.device, None, c.status)
     EXCEPT !.aggregate = TRUE]

LEMMA CardIs ==
  ASSUME NEW c
  PROVE  LET s == CardSignal(c)
         IN /\ s.id = <<"engine_c", "cards", "device_health", c.device, None, c.status>>
            /\ s.engine = "engine_c" /\ s.stype = None /\ s.severity \in Severities
BY SignalIs DEF CardSignal, Severities, High

LEMMA CardsFrom ==
  ASSUME NEW cards
  PROVE  From(ConfigSignalsOf("cards", cards), "engine_c", "cards")
<1> DEFINE S == ConfigSignalsOf("cards", cards)
<1>1. S = {CardSignal(c) : c \in {c \in cards : c.status \in {"critical", "warning"}}}
  BY DEF ConfigSignalsOf, CardSignals, CardSignal
<1>2. \A s \in S : \E c : s = CardSignal(c)
  BY <1>1
<1> HIDE DEF S
<1>3. \A s \in S : SignalOK(s) /\ s.engine = "engine_c" /\ Origin(s) = "cards"
  <2> SUFFICES ASSUME NEW s \in S PROVE SignalOK(s) /\ s.engine = "engine_c" /\ Origin(s) = "cards"
    OBVIOUS
  <2>1. PICK c : s = CardSignal(c)
    BY <1>2
  <2>2. /\ s.id = <<"engine_c", "cards", "device_health", c.device, None, c.status>>
        /\ s.engine = "engine_c" /\ s.stype = None /\ s.severity \in Severities
    BY <2>1, CardIs
  <2>3. s.id[1] = "engine_c" /\ s.id[2] = "cards"
    BY <2>2
  <2>4. QED
    BY <2>2, <2>3 DEF SignalOK, Origin, Engines
<1>4. ASSUME NEW s \in S, NEW t \in S, s.id = t.id PROVE s = t
  <2>1. PICK b : s = CardSignal(b)
    BY <1>2
  <2>2. PICK c : t = CardSignal(c)
    BY <1>2
  <2>3. <<"engine_c", "cards", "device_health", b.device, None, b.status>>
          = <<"engine_c", "cards", "device_health", c.device, None, c.status>>
    BY <1>4, <2>1, <2>2, CardIs
  <2>4. b.device = c.device /\ b.status = c.status
    BY <2>3
  <2>5. CardSignal(b) = CardSignal(c)
    BY <2>4, Zenon DEF CardSignal
  <2>6. QED
    BY <2>1, <2>2, <2>5
<1>5. From(S, "engine_c", "cards")
  BY <1>3, <1>4 DEF From, SignalsOK, Apart
<1>6. QED
  BY <1>5 DEF S

LEMMA ConfigFrom ==
  ASSUME NEW files \in Snapshots, NEW file \in Names(ConfigFiles), Readable(files[file])
  PROVE  From(ConfigSignalsOf(file, files[file]), "engine_c", file)
<1>1. file \in {"findings", "topology", "cards"}
  <2>1. DOMAIN ConfigFiles = 1..3 /\ 1..3 = {1, 2, 3}
    BY DEF ConfigFiles
  <2>2. QED
    BY <2>1 DEF Names, ConfigFiles
<1>2. QED
  BY <1>1, FindingsFrom, TopologyFrom, CardsFrom

\* The newest experiment of Engine B.
HealthSignal(e) ==
  [Signal("engine_b", e.name, "network_health", RatioSeverity(e.metrics.n, e.metrics.predicted), None, None, "aggregate")
     EXCEPT !.aggregate = TRUE, !.labels = @ \cup {"anomaly", "degradation"}]

LEMMA HealthIs ==
  ASSUME NEW e
  PROVE  LET s == HealthSignal(e)
         IN /\ s.id = <<"engine_b", e.name, "network_health", None, None, "aggregate">>
            /\ s.engine = "engine_b" /\ s.severity \in Severities
<1>1. RatioSeverity(e.metrics.n, e.metrics.predicted) \in Severities
  BY DEF RatioSeverity, Severities
<1>2. QED
  BY <1>1, SignalIs DEF HealthSignal

LEMMA HealthFrom == From(HealthSignalsOf(HealthRuns), "engine_b", "health")
<1> DEFINE latest == {e \in HealthRuns : \A o \in HealthRuns : o.name <= e.name}
           S == HealthSignalsOf(HealthRuns)
<1>1. S = {HealthSignal(e) : e \in {e \in latest : e.metrics # Torn}}
  BY DEF HealthSignalsOf, HealthSignal
<1>2. \A e, o \in latest : e = o
  BY EvidenceAssumption
<1>3. \A s \in S : \E e \in latest : s = HealthSignal(e)
  BY <1>1
<1> HIDE DEF latest, S
<1>4. \A s \in S : SignalOK(s) /\ s.engine = "engine_b" /\ Origin(s) = "health"
  <2> SUFFICES ASSUME NEW s \in S PROVE SignalOK(s) /\ s.engine = "engine_b" /\ Origin(s) = "health"
    OBVIOUS
  <2>1. PICK e \in latest : s = HealthSignal(e)
    BY <1>3
  <2>2. /\ s.id = <<"engine_b", e.name, "network_health", None, None, "aggregate">>
        /\ s.engine = "engine_b" /\ s.severity \in Severities
    BY <2>1, HealthIs
  <2>3. s.id[1] = "engine_b"
    BY <2>2
  <2>4. QED
    BY <2>2, <2>3 DEF SignalOK, Origin, Engines
<1>5. \A s, t \in S : s = t
  BY <1>2, <1>3
<1>6. From(S, "engine_b", "health")
  BY <1>4, <1>5 DEF From, SignalsOK, Apart
<1>7. QED
  BY <1>6 DEF S

\* The experiment of Engine A.
CyberSignal(e) ==
  [Signal("engine_a", e, "intrusion", 2, None, None, "coverage")
     EXCEPT !.aggregate = TRUE, !.labels = @ \cup {"attack"} \cup Families]

LEMMA CyberFrom == From(CyberSignals, "engine_a", "cyber")
<1>1. CyberSignals = {CyberSignal(e) : e \in {CyberExperiment} \ {None}}
  BY DEF CyberSignals, CyberSignal
<1>2. \A s \in CyberSignals : s = CyberSignal(CyberExperiment)
  BY <1>1
<1> DEFINE c == CyberSignal(CyberExperiment)
<1>3. c.id = <<"engine_a", CyberExperiment, "intrusion", None, None, "coverage">> /\ c.engine = "engine_a" /\ c.severity = 2
  BY SignalIs DEF CyberSignal
<1>4. c.id[1] = "engine_a"
  BY <1>3
<1> HIDE DEF c
<1>5. SignalOK(c) /\ c.engine = "engine_a" /\ Origin(c) = "cyber"
  BY <1>3, <1>4 DEF SignalOK, Origin, Engines, Severities
<1>6. \A s \in CyberSignals : s = c
  BY <1>2 DEF c
<1>7. QED
  BY <1>5, <1>6 DEF From, SignalsOK, Apart

\* The signals of a file of a run name the run.
OfRun(S, run) == \A s \in S : s.id[2][1] = run

LEMMA SyslogNamed ==
  ASSUME NEW s, NEW run, NEW tag \in {"summary", "findings", "events"}, NEW type, NEW device, NEW iface, NEW title,
         s.id = <<"syslog", <<run, tag>>, type, device, iface, title>>, s.engine = "syslog", s.severity \in Severities
  PROVE  /\ SignalOK(s) /\ s.id[2][1] = run
         /\ Origin(s) = IF tag = "summary" THEN "parser_summary"
                        ELSE IF tag = "findings" THEN "syslog_findings" ELSE "parsed_events"
<1>1. s.id[1] = "syslog" /\ s.id[2] = <<run, tag>>
  OBVIOUS
<1>2. s.id[2][1] = run /\ s.id[2][2] = tag
  BY <1>1
<1>3. QED
  BY <1>1, <1>2 DEF SignalOK, Origin, Engines

LEMMA ClockFrom ==
  ASSUME NEW run, NEW parsed
  PROVE  From(ClockSignals(run, parsed), "syslog", "parser_summary") /\ OfRun(ClockSignals(run, parsed), run)
<1> DEFINE first == {h \in parsed.hosts : \A g \in parsed.hosts : NameRank[h] <= NameRank[g]}
           base == SyslogSignal(run, "summary", "CLOCK_UNRELIABLE", 3, PickOne(first), None, "clock", parsed.boot)
           c == [base EXCEPT !.labels = @ \cup {"clock_unreliable"}, !.clockUnreliable = TRUE, !.band = "low"]
           S == ClockSignals(run, parsed)
<1>1. \A s \in S : s = c
  BY DEF ClockSignals
<1>2. /\ base.id = <<"syslog", <<run, "summary">>, "CLOCK_UNRELIABLE", PickOne(first), None, "clock">>
      /\ base.engine = "syslog" /\ base.severity = 3
      /\ DOMAIN base = {"id", "engine", "labels", "stype", "severity", "device", "iface", "count", "aggregate",
                        "clockUnreliable", "band", "entityConfident"}
  BY SyslogIs
<1> HIDE DEF base
<1>3. c.id = base.id /\ c.engine = "syslog" /\ c.severity \in Severities
  BY <1>2 DEF Severities
<1> HIDE DEF c, S
<1>4. SignalOK(c) /\ c.id[2][1] = run /\ Origin(c) = "parser_summary"
  BY <1>2, <1>3, SyslogNamed
<1>5. From(S, "syslog", "parser_summary") /\ OfRun(S, run)
  BY <1>1, <1>3, <1>4 DEF From, OfRun, SignalsOK, Apart
<1>6. QED
  BY <1>5 DEF S

LEMMA TypesAre ==
  /\ DOMAIN SourceTypes = FindingRules
  /\ \A x, y \in FindingRules : SourceTypes[x] = SourceTypes[y] => x = y
  /\ \A x \in FindingRules : SourceTypes[x] # "CLOCK_UNRELIABLE"
  /\ \A x \in FindingLevels : SeverityNumber[x] \in Severities
<1>1. DOMAIN SourceTypes = FindingRules
  BY DEF SourceTypes, FindingRules
<1>2. /\ SourceTypes["SYS-SNMP-AUTHFAIL"] = "SNMP_AUTH_ACTIVITY" /\ SourceTypes["SYS-PORT-FLAP"] = "PORT_FLAP"
      /\ SourceTypes["SYS-MAC-FLAP"] = "MAC_FLAP" /\ SourceTypes["SYS-ARP-FAST"] = "DUPLICATE_IP"
      /\ SourceTypes["SYS-ERPS-CHURN"] = "ERPS_CHURN" /\ SourceTypes["SYS-POE-FAULT"] = "POE_FAULT"
      /\ SourceTypes["SYS-TELNET"] = "MANAGEMENT_ACCESS" /\ SourceTypes["SYS-DEVICE"] = "HA_STATE_CHANGE"
  BY DEF SourceTypes
<1>3. \A x \in FindingLevels : SeverityNumber[x] \in Severities
  BY DEF FindingLevels, SeverityNumber, Severities
<1>4. QED
  BY <1>1, <1>2, <1>3 DEF FindingRules

FindingSignal(run, f) ==
  SyslogSignal(run, "findings", SourceTypes[f.rule], SeverityNumber[f.sev], f.device, f.iface, f.entity, f.count)

LEMMA FindingSignalsFrom ==
  ASSUME NEW run, NEW found, FindingsSound(found)
  PROVE  From(FindingSignals(run, found), "syslog", "syslog_findings") /\ OfRun(FindingSignals(run, found), run)
<1> DEFINE S == FindingSignals(run, found)
<1>1. S = {FindingSignal(run, f) : f \in found}
  BY DEF FindingSignals, FindingSignal
<1> HIDE DEF S
<1>2. \A f \in found : /\ FindingSignal(run, f).id = <<"syslog", <<run, "findings">>, SourceTypes[f.rule], f.device, f.iface, f.entity>>
                       /\ FindingSignal(run, f).engine = "syslog" /\ FindingSignal(run, f).severity \in Severities
  BY SyslogIs, TypesAre DEF FindingSignal, FindingsSound
<1>3. ASSUME NEW s \in S PROVE SignalOK(s) /\ s.engine = "syslog" /\ s.id[2][1] = run /\ Origin(s) = "syslog_findings"
  <2>1. PICK f \in found : s = FindingSignal(run, f)
    BY <1>1
  <2>2. /\ s.id = <<"syslog", <<run, "findings">>, SourceTypes[f.rule], f.device, f.iface, f.entity>>
        /\ s.engine = "syslog" /\ s.severity \in Severities
    BY <1>2, <2>1
  <2>3. QED
    BY <2>2, SyslogNamed
<1>4. ASSUME NEW s \in S, NEW t \in S, s.id = t.id PROVE s = t
  <2>1. PICK f \in found : s = FindingSignal(run, f)
    BY <1>1
  <2>2. PICK g \in found : t = FindingSignal(run, g)
    BY <1>1
  <2>3. <<"syslog", <<run, "findings">>, SourceTypes[f.rule], f.device, f.iface, f.entity>>
          = <<"syslog", <<run, "findings">>, SourceTypes[g.rule], g.device, g.iface, g.entity>>
    BY <1>2, <1>4, <2>1, <2>2
  <2>4. SourceTypes[f.rule] = SourceTypes[g.rule] /\ f.device = g.device /\ f.iface = g.iface /\ f.entity = g.entity
    BY <2>3
  <2>5. f.rule = g.rule
    BY <2>4, TypesAre DEF FindingsSound
  <2>6. f = g
    BY <2>4, <2>5 DEF FindingsSound, SameSubject
  <2>7. QED
    BY <2>1, <2>2, <2>6
<1>5. From(S, "syslog", "syslog_findings") /\ OfRun(S, run)
  BY <1>3, <1>4 DEF From, OfRun, SignalsOK, Apart
<1>6. QED
  BY <1>5 DEF S

CodeGroups(events, T) ==
  {{i \in T : <<HostName(events[i]), events[i].code>> = k} : k \in {<<HostName(events[i]), events[i].code>> : i \in T}}

LEMMA CodesGrouped ==
  ASSUME NEW events, NEW T, NEW I \in CodeGroups(events, T)
  PROVE  I = {i \in T : /\ HostName(events[i]) = HostName(OneOf(events, I))
                        /\ events[i].code = OneOf(events, I).code}
<1>1. PICK j \in T : I = {i \in T : <<HostName(events[i]), events[i].code>> = <<HostName(events[j]), events[j].code>>}
  BY DEF CodeGroups
<1>2. PickOne(I) \in I
  BY <1>1, PickedOne
<1>3. OneOf(events, I) = events[PickOne(I)]
  BY DEF OneOf
<1>4. QED
  BY <1>1, <1>2, <1>3

GenericSignal(run, events, I) ==
  [SyslogSignal(run, "events", "GENERIC_WARNING", 4, HostName(OneOf(events, I)), None,
                OneOf(events, I).code, WeightOf(events, I)) EXCEPT !.entityConfident = FALSE]

LEMMA GenericIs ==
  ASSUME NEW run, NEW events, NEW I
  PROVE  LET s == GenericSignal(run, events, I)
         IN /\ s.id = <<"syslog", <<run, "events">>, "GENERIC_WARNING", HostName(OneOf(events, I)), None, OneOf(events, I).code>>
            /\ s.engine = "syslog" /\ s.severity \in Severities
BY SyslogIs DEF GenericSignal, Severities

LEMMA GenericFrom ==
  ASSUME NEW run, NEW events
  PROVE  From(GenericSignals(run, events), "syslog", "parsed_events") /\ OfRun(GenericSignals(run, events), run)
<1> DEFINE T == {i \in DOMAIN events : events[i].status = "generic"}
           groups == CodeGroups(events, T)
           S == GenericSignals(run, events)
<1>1. \A s \in S : \E I \in groups : s = GenericSignal(run, events, I)
  BY DEF GenericSignals, GroupsBy, CodeGroups, GenericSignal
<1>2. \A I \in groups : I = {i \in T : /\ HostName(events[i]) = HostName(OneOf(events, I))
                                       /\ events[i].code = OneOf(events, I).code}
  <2> HIDE DEF T
  <2>1. QED
    BY CodesGrouped
<1> HIDE DEF groups, S, T
<1>3. ASSUME NEW s \in S PROVE SignalOK(s) /\ s.engine = "syslog" /\ s.id[2][1] = run /\ Origin(s) = "parsed_events"
  <2>1. PICK I \in groups : s = GenericSignal(run, events, I)
    BY <1>1
  <2>2. /\ s.id = <<"syslog", <<run, "events">>, "GENERIC_WARNING", HostName(OneOf(events, I)), None, OneOf(events, I).code>>
        /\ s.engine = "syslog" /\ s.severity \in Severities
    BY <2>1, GenericIs
  <2>3. QED
    BY <2>2, SyslogNamed
<1>4. ASSUME NEW s \in S, NEW t \in S, s.id = t.id PROVE s = t
  <2>1. PICK I \in groups : s = GenericSignal(run, events, I)
    BY <1>1
  <2>2. PICK J \in groups : t = GenericSignal(run, events, J)
    BY <1>1
  <2>3. <<"syslog", <<run, "events">>, "GENERIC_WARNING", HostName(OneOf(events, I)), None, OneOf(events, I).code>>
          = <<"syslog", <<run, "events">>, "GENERIC_WARNING", HostName(OneOf(events, J)), None, OneOf(events, J).code>>
    BY <1>4, <2>1, <2>2, GenericIs
  <2>4. HostName(OneOf(events, I)) = HostName(OneOf(events, J)) /\ OneOf(events, I).code = OneOf(events, J).code
    BY <2>3
  <2>5. I = J
    BY <1>2, <2>4
  <2>6. QED
    BY <2>1, <2>2, <2>5
<1>5. From(S, "syslog", "parsed_events") /\ OfRun(S, run)
  BY <1>3, <1>4 DEF From, OfRun, SignalsOK, Apart
<1>6. QED
  BY <1>5 DEF S

SyslogFiles == {"parser_summary", "syslog_findings", "parsed_events"}

LEMMA SyslogFrom ==
  ASSUME NEW run, NEW file \in SyslogFiles, NEW content, file = "syslog_findings" => FindingsSound(content)
  PROVE  From(SyslogSignalsOf(run, file, content), "syslog", file) /\ OfRun(SyslogSignalsOf(run, file, content), run)
<1>1. CASE file = "parser_summary"
  BY <1>1, ClockFrom DEF SyslogSignalsOf
<1>2. CASE file = "syslog_findings"
  BY <1>2, FindingSignalsFrom DEF SyslogSignalsOf
<1>3. CASE file = "parsed_events"
  BY <1>3, GenericFrom DEF SyslogSignalsOf
<1>4. QED
  BY <1>1, <1>2, <1>3 DEF SyslogFiles

-----------------------------------------------------------------------------
(* What is still to load.                                                  *)

SourceNames == {"findings", "topology", "cards", "health", "cyber", "resolve", "parser_summary", "syslog_findings", "parsed_events"}
Rank(f) == IF f = "findings" THEN 1 ELSE IF f = "topology" THEN 2 ELSE IF f = "cards" THEN 3
           ELSE IF f = "health" THEN 4 ELSE IF f = "cyber" THEN 5 ELSE IF f = "resolve" THEN 6
           ELSE IF f = "parser_summary" THEN 7 ELSE IF f = "syslog_findings" THEN 8 ELSE 9

\* The sources are loaded in a fixed order, each at most once.
Ranked(s, a, b) ==
  /\ s \in Seq(SourceNames)
  /\ \A i \in 1..Len(s) : a <= Rank(s[i]) /\ Rank(s[i]) <= b
  /\ \A i, j \in 1..Len(s) : i < j => Rank(s[i]) < Rank(s[j])

LEMMA RankIs == \A f \in SourceNames : Rank(f) \in 1..9 /\ \A g \in SourceNames : Rank(f) = Rank(g) => f = g
BY DEF SourceNames, Rank

LEMMA NamesIs ==
  ASSUME NEW S, NEW s \in Seq(S)
  PROVE  Names(s) = {s[i] : i \in 1..Len(s)} /\ Len(s) \in Nat /\ Names(s) \subseteq S
BY DEF Names

LEMMA Joined ==
  ASSUME NEW S, NEW s \in Seq(S), NEW t \in Seq(S)
  PROVE  /\ s \o t \in Seq(S) /\ Len(s \o t) = Len(s) + Len(t)
         /\ \A i \in 1..(Len(s) + Len(t)) : (s \o t)[i] = IF i <= Len(s) THEN s[i] ELSE t[i - Len(s)]
BY ConcatProperties, Zenon

LEMMA RankedJoin ==
  ASSUME NEW s, NEW t, NEW a \in Nat, NEW b \in Nat, NEW c \in Nat, a <= b, b <= c, Ranked(s, a, b), Ranked(t, b + 1, c)
  PROVE  Ranked(s \o t, a, c) /\ Names(s \o t) = Names(s) \cup Names(t)
<1> DEFINE m == Len(s)
           n == Len(t)
           u == s \o t
<1>1. s \in Seq(SourceNames) /\ t \in Seq(SourceNames)
  BY DEF Ranked
<1>2. u \in Seq(SourceNames) /\ Len(u) = m + n /\ \A i \in 1..(m + n) : u[i] = IF i <= m THEN s[i] ELSE t[i - m]
  BY <1>1, Joined
<1>3. m \in Nat /\ n \in Nat
  BY <1>1
<1>4. /\ \A i \in 1..m : s[i] \in SourceNames /\ Rank(s[i]) \in Nat /\ a <= Rank(s[i]) /\ Rank(s[i]) <= b
      /\ \A i, j \in 1..m : i < j => Rank(s[i]) < Rank(s[j])
  BY <1>1, RankIs DEF Ranked
<1>5. /\ \A i \in 1..n : t[i] \in SourceNames /\ Rank(t[i]) \in Nat /\ b + 1 <= Rank(t[i]) /\ Rank(t[i]) <= c
      /\ \A i, j \in 1..n : i < j => Rank(t[i]) < Rank(t[j])
  BY <1>1, RankIs DEF Ranked
<1>6. /\ Names(s) = {s[i] : i \in 1..m} /\ Names(t) = {t[i] : i \in 1..n}
      /\ Names(u) = {u[i] : i \in 1..Len(u)}
  BY <1>1, <1>2, NamesIs
<1> HIDE DEF m, n, u
<1>7. \A i \in 1..(m + n) : i \in 1..m \/ (i > m /\ i - m \in 1..n)
  BY <1>3
<1>8. \A i \in 1..(m + n) : a <= Rank(u[i]) /\ Rank(u[i]) <= c
  <2> SUFFICES ASSUME NEW i \in 1..(m + n) PROVE a <= Rank(u[i]) /\ Rank(u[i]) <= c
    OBVIOUS
  <2>1. CASE i \in 1..m
    <3>1. u[i] = s[i]
      BY <1>2, <1>3, <2>1
    <3>2. PICK r \in Nat : r = Rank(s[i]) /\ a <= r /\ r <= b
      BY <1>4, <2>1
    <3>3. QED
      BY <3>1, <3>2
  <2>2. CASE i > m /\ i - m \in 1..n
    <3>1. u[i] = t[i - m]
      BY <1>2, <1>3, <2>2
    <3>2. PICK r \in Nat : r = Rank(t[i - m]) /\ b + 1 <= r /\ r <= c
      BY <1>5, <2>2
    <3>3. QED
      BY <3>1, <3>2
  <2>3. QED
    BY <1>7, <2>1, <2>2
<1>9. ASSUME NEW i \in 1..(m + n), NEW j \in 1..(m + n), i < j PROVE Rank(u[i]) < Rank(u[j])
  <2>1. CASE i <= m /\ j <= m
    <3>1. i \in 1..m /\ j \in 1..m
      BY <1>3, <2>1
    <3>2. u[i] = s[i] /\ u[j] = s[j]
      BY <1>2, <2>1
    <3>3. QED
      BY <1>4, <1>9, <3>1, <3>2
  <2>2. CASE i <= m /\ j > m
    <3>1. i \in 1..m /\ j - m \in 1..n /\ ~(j <= m)
      BY <1>3, <2>2
    <3>2. u[i] = s[i] /\ u[j] = t[j - m]
      BY <1>2, <2>2, <3>1
    <3>3. Rank(s[i]) \in Nat /\ Rank(t[j - m]) \in Nat /\ Rank(s[i]) <= b /\ b + 1 <= Rank(t[j - m])
      BY <1>4, <1>5, <3>1
    <3>4. QED
      BY <3>2, <3>3
  <2>3. CASE i > m /\ j > m
    <3>1. i - m \in 1..n /\ j - m \in 1..n /\ i - m < j - m /\ ~(i <= m) /\ ~(j <= m)
      BY <1>3, <1>9, <2>3
    <3>2. u[i] = t[i - m] /\ u[j] = t[j - m]
      BY <1>2, <3>1
    <3>3. QED
      BY <1>5, <3>1, <3>2
  <2>4. QED
    BY <1>3, <1>9, <2>1, <2>2, <2>3
<1>10. Ranked(u, a, c)
  BY <1>2, <1>8, <1>9 DEF Ranked
<1>11. Names(u) = Names(s) \cup Names(t)
  <2>1. \A i \in 1..(m + n) : u[i] \in Names(s) \cup Names(t)
    BY <1>2, <1>6, <1>7
  <2>2. \A i \in 1..m : s[i] \in Names(u)
    <3> SUFFICES ASSUME NEW i \in 1..m PROVE s[i] \in Names(u)
      OBVIOUS
    <3>1. i \in 1..(m + n) /\ i <= m
      BY <1>3
    <3>2. u[i] = s[i]
      BY <1>2, <3>1
    <3>3. QED
      BY <1>2, <1>6, <3>1, <3>2
  <2>3. \A i \in 1..n : t[i] \in Names(u)
    <3> SUFFICES ASSUME NEW i \in 1..n PROVE t[i] \in Names(u)
      OBVIOUS
    <3>1. m + i \in 1..(m + n) /\ ~(m + i <= m) /\ (m + i) - m = i
      BY <1>3
    <3>2. u[m + i] = t[i]
      BY <1>2, <3>1
    <3>3. QED
      BY <1>2, <1>6, <3>1, <3>2
  <2>4. QED
    BY <1>2, <1>6, <2>1, <2>2, <2>3
<1>12. QED
  BY <1>10, <1>11 DEF u

LEMMA RankedNone ==
  ASSUME NEW a, NEW b
  PROVE  Ranked(<<>>, a, b) /\ Names(<<>>) = {}
BY DEF Ranked, Names

LEMMA RankedParts ==
  /\ Ranked(ConfigFiles, 1, 3) /\ Names(ConfigFiles) = {"findings", "topology", "cards"}
  /\ Ranked(<<"health">>, 4, 4) /\ Names(<<"health">>) = {"health"}
  /\ Ranked(<<"cyber">>, 5, 5) /\ Names(<<"cyber">>) = {"cyber"}
<1>1. 1..3 = {1, 2, 3} /\ 1..1 = {1}
  OBVIOUS
<1>2. Ranked(ConfigFiles, 1, 3)
  BY <1>1 DEF Ranked, ConfigFiles, SourceNames, Rank
<1>3. Names(ConfigFiles) = {"findings", "topology", "cards"}
  <2>1. DOMAIN ConfigFiles = 1..3
    BY DEF ConfigFiles
  <2>2. QED
    BY <1>1, <2>1 DEF Names, ConfigFiles
<1>4. Ranked(<<"health">>, 4, 4) /\ Names(<<"health">>) = {"health"}
  BY <1>1 DEF Ranked, Names, SourceNames, Rank
<1>5. Ranked(<<"cyber">>, 5, 5) /\ Names(<<"cyber">>) = {"cyber"}
  BY <1>1 DEF Ranked, Names, SourceNames, Rank
<1>6. QED
  BY <1>2, <1>3, <1>4, <1>5

LEMMA RankedSyslog ==
  LET s == <<"resolve", "parser_summary", "syslog_findings", "parsed_events">>
  IN Ranked(s, 6, 9) /\ Names(s) = {"resolve"} \cup SyslogFiles
<1> DEFINE s == <<"resolve", "parser_summary", "syslog_findings", "parsed_events">>
<1>1. 1..4 = {1, 2, 3, 4}
  OBVIOUS
<1>2. s \in Seq(SourceNames) /\ Len(s) = 4 /\ DOMAIN s = 1..4
  BY DEF SourceNames
<1>3. s[1] = "resolve" /\ s[2] = "parser_summary" /\ s[3] = "syslog_findings" /\ s[4] = "parsed_events"
  OBVIOUS
<1> HIDE DEF s
<1>4. Ranked(s, 6, 9)
  BY <1>1, <1>2, <1>3 DEF Ranked, Rank
<1>5. Names(s) = {"resolve"} \cup SyslogFiles
  BY <1>1, <1>2, <1>3 DEF Names, SyslogFiles
<1>6. QED
  BY <1>4, <1>5 DEF s

LEMMA SourcesRanked ==
  ASSUME NEW c
  PROVE  /\ Ranked(Sources(c), 1, 9)
         /\ "resolve" \in Names(Sources(c)) \/ Names(Sources(c)) \cap SyslogFiles = {}
<1> DEFINE s == IF "engine_c" \in c.engines THEN ConfigFiles ELSE <<>>
           t == IF "engine_b" \in c.engines THEN <<"health">> ELSE <<>>
           u == IF "engine_a" \in c.engines THEN <<"cyber">> ELSE <<>>
           v == IF SyslogWanted(c) THEN <<"resolve", "parser_summary", "syslog_findings", "parsed_events">> ELSE <<>>
<1>1. Ranked(s, 1, 3) /\ Ranked(t, 4, 4) /\ Ranked(u, 5, 5) /\ Ranked(v, 6, 9)
  BY RankedNone, RankedParts, RankedSyslog
<1>2. /\ Names(s) \cup Names(t) \cup Names(u) \subseteq {"findings", "topology", "cards", "health", "cyber"}
      /\ Names(v) = {"resolve"} \cup SyslogFiles \/ Names(v) = {}
  BY RankedNone, RankedParts, RankedSyslog
<1>3. Sources(c) = ((s \o t) \o u) \o v
  BY DEF Sources
<1> HIDE DEF s, t, u, v
<1>4. Ranked(s \o t, 1, 4) /\ Names(s \o t) = Names(s) \cup Names(t)
  <2>1. Ranked(t, 3 + 1, 4)
    BY <1>1
  <2>2. QED
    BY <1>1, <2>1, RankedJoin
<1>5. Ranked((s \o t) \o u, 1, 5) /\ Names((s \o t) \o u) = Names(s) \cup Names(t) \cup Names(u)
  <2>1. Ranked(u, 4 + 1, 5)
    BY <1>1
  <2>2. QED
    BY <1>4, <2>1, RankedJoin
<1>6. Ranked(Sources(c), 1, 9) /\ Names(Sources(c)) = Names(s) \cup Names(t) \cup Names(u) \cup Names(v)
  <2>1. Ranked(v, 5 + 1, 9)
    BY <1>1
  <2>2. QED
    BY <1>3, <1>5, <2>1, RankedJoin
<1>7. QED
  BY <1>2, <1>6 DEF SyslogFiles

LEMMA RankedTail ==
  ASSUME NEW s, Ranked(s, 1, 9), s # <<>>
  PROVE  /\ Ranked(Tail(s), 1, 9)
         /\ Head(s) \in SourceNames /\ Head(s) \notin Names(Tail(s)) /\ Names(s) = {Head(s)} \cup Names(Tail(s))
         /\ \A f \in Names(Tail(s)) : f \in SourceNames /\ Rank(Head(s)) < Rank(f)
<1> DEFINE t == Tail(s)
           n == Len(s)
<1>1. s \in Seq(SourceNames) /\ n \in Nat /\ n > 0 /\ Head(s) = s[1]
  BY DEF Ranked
<1>2. t \in Seq(SourceNames) /\ Len(t) = n - 1 /\ \A i \in 1..(n - 1) : t[i] = s[i + 1]
  BY <1>1, HeadTailProperties
<1>3. /\ \A i \in 1..n : s[i] \in SourceNames /\ 1 <= Rank(s[i]) /\ Rank(s[i]) <= 9
      /\ \A i, j \in 1..n : i < j => Rank(s[i]) < Rank(s[j])
  BY <1>1 DEF Ranked
<1>4. Names(s) = {s[i] : i \in 1..n} /\ Names(t) = {t[i] : i \in 1..(n - 1)}
  BY <1>1, <1>2, NamesIs
<1> HIDE DEF t, n
<1>5. \A i \in 1..(n - 1) : i + 1 \in 1..n /\ 1 < i + 1
  BY <1>1
<1>6. 1 \in 1..n
  BY <1>1
<1>7. \A i \in 1..(n - 1) : t[i] \in SourceNames /\ 1 <= Rank(t[i]) /\ Rank(t[i]) <= 9 /\ Rank(s[1]) < Rank(t[i])
  BY <1>2, <1>3, <1>5, <1>6
<1>8. \A i, j \in 1..(n - 1) : i < j => Rank(t[i]) < Rank(t[j])
  <2> SUFFICES ASSUME NEW i \in 1..(n - 1), NEW j \in 1..(n - 1), i < j PROVE Rank(t[i]) < Rank(t[j])
    OBVIOUS
  <2>1. i + 1 < j + 1
    BY <1>1
  <2>2. QED
    BY <1>2, <1>3, <1>5, <2>1
<1>9. Ranked(t, 1, 9)
  BY <1>2, <1>7, <1>8 DEF Ranked
<1>10. Names(s) = {s[1]} \cup Names(t)
  <2>1. \A i \in 1..n : i = 1 \/ (i - 1 \in 1..(n - 1) /\ (i - 1) + 1 = i)
    BY <1>1
  <2>2. \A i \in 1..n : s[i] \in {s[1]} \cup Names(t)
    <3> SUFFICES ASSUME NEW i \in 1..n, i # 1 PROVE s[i] \in Names(t)
      OBVIOUS
    <3>1. i - 1 \in 1..(n - 1) /\ (i - 1) + 1 = i
      BY <2>1
    <3>2. t[i - 1] = s[i]
      BY <1>2, <3>1
    <3>3. QED
      BY <1>4, <3>1, <3>2
  <2>3. \A i \in 1..(n - 1) : t[i] \in Names(s)
    BY <1>2, <1>4, <1>5
  <2>4. QED
    BY <1>4, <1>6, <2>2, <2>3
<1>11. \A f \in Names(t) : f \in SourceNames /\ Rank(s[1]) < Rank(f)
  BY <1>4, <1>7
<1>12. s[1] \in SourceNames /\ s[1] \notin Names(t)
  <2>1. Rank(s[1]) \in 1..9
    BY <1>3, <1>6, RankIs
  <2>2. ~(Rank(s[1]) < Rank(s[1]))
    BY <2>1
  <2>3. QED
    BY <1>3, <1>6, <1>11, <2>2
<1>13. QED
  BY <1>1, <1>9, <1>10, <1>11, <1>12 DEF t

-----------------------------------------------------------------------------
(* The ingestion.                                                          *)

RunFileNames == {"parsed_events", "parser_summary", "windows", "weak_labels", "syslog_findings"}

LEMMA RunFilesAre == Names(RunFiles) = RunFileNames /\ RunFiles \in Seq(RunFileNames) /\ RunFiles # <<>>
<1>1. DOMAIN RunFiles = 1..5 /\ 1..5 = {1, 2, 3, 4, 5}
  BY DEF RunFiles
<1>2. Names(RunFiles) = RunFileNames
  BY <1>1 DEF Names, RunFiles, RunFileNames
<1>3. RunFiles \in Seq(RunFileNames) /\ RunFiles # <<>>
  BY DEF RunFiles, RunFileNames
<1>4. QED
  BY <1>2, <1>3

LEMMA NamesAppend ==
  ASSUME NEW S, NEW s \in Seq(S), NEW x \in S
  PROVE  Append(s, x) \in Seq(S) /\ Names(Append(s, x)) = Names(s) \cup {x}
<1> DEFINE t == Append(s, x)
           n == Len(s)
<1>1. /\ t \in Seq(S) /\ Len(t) = n + 1 /\ n \in Nat
      /\ \A i \in 1..n : t[i] = s[i]
      /\ t[n + 1] = x
  BY AppendProperties
<1>2. Names(s) = {s[i] : i \in 1..n} /\ Names(t) = {t[i] : i \in 1..Len(t)}
  BY <1>1, NamesIs
<1> HIDE DEF t, n
<1>3. \A i \in 1..(n + 1) : i \in 1..n \/ i = n + 1
  BY <1>1
<1>4. 1..n \subseteq 1..(n + 1) /\ n + 1 \in 1..(n + 1)
  BY <1>1
<1>5. QED
  BY <1>1, <1>2, <1>3, <1>4 DEF t

\* The runs: what is on disk is in a directory that somebody has made, and the
\* findings of a run are those of some logs.
RunsOK ==
  /\ DOMAIN runs = RunIds /\ \A r \in RunIds : DOMAIN runs[r] = RunFileNames
  /\ byAge \in Seq(RunIds)
  /\ \A r \in RunIds : \A f \in RunFileNames : runs[r][f] # None => r \in Names(byAge)
  /\ \A r \in RunIds : Readable(runs[r]["syslog_findings"]) => FindingsSound(runs[r]["syslog_findings"])

IngestOK ==
  ingest # None =>
    /\ DOMAIN ingest = {"args", "out", "todo", "open"}
    /\ ingest.args.run \in RunIds
    /\ FindingsSound(ingest.out.findings)
    /\ ingest.todo \in Seq(RunFileNames) /\ ingest.todo # <<>>
    /\ ingest.open => ingest.args.run \in Names(byAge)

LogInv == RunsOK /\ IngestOK

LEMMA IngestFound == ASSUME NEW lines, NEW keep, NEW holdout PROVE FindingsSound(Ingest(lines, keep, holdout).findings)
BY FindingsAre DEF Ingest

LEMMA ContentIs ==
  ASSUME NEW out
  PROVE  ContentOf("syslog_findings", out) = out.findings
BY DEF ContentOf

LEMMA InitLog == Init => LogInv
<1> SUFFICES ASSUME Init PROVE LogInv
  OBVIOUS
<1>1. PICK e \in Ingestions \cup {None} :
        /\ runs = [r \in RunIds |-> IF e # None /\ e.run = r THEN Completed(e, logs) ELSE [f \in Names(RunFiles) |-> None]]
        /\ byAge = IF e = None THEN <<>> ELSE <<e.run>>
  BY DEF Init
<1>2. IngestOK
  BY DEF Init, IngestOK
<1>3. CASE e = None
  <2> DEFINE blank == [f \in RunFileNames |-> None]
  <2>1. runs = [r \in RunIds |-> blank] /\ byAge = <<>>
    BY <1>1, <1>3, RunFilesAre
  <2>2. DOMAIN blank = RunFileNames /\ \A f \in RunFileNames : blank[f] = None
    OBVIOUS
  <2> HIDE DEF blank
  <2>3. DOMAIN runs = RunIds /\ \A r \in RunIds : runs[r] = blank
    BY <2>1
  <2>4. byAge \in Seq(RunIds) /\ "syslog_findings" \in RunFileNames
    BY <2>1 DEF RunFileNames
  <2>5. RunsOK
    BY <2>2, <2>3, <2>4 DEF RunsOK, Readable
  <2>6. QED
    BY <1>2, <2>5 DEF LogInv
<1>4. CASE e # None
  <2>1. e.run \in RunIds
    BY <1>4, EvidenceAssumption
  <2> DEFINE done == Completed(e, logs)
             blank == [f \in RunFileNames |-> None]
  <2>2. runs = [r \in RunIds |-> IF e.run = r THEN done ELSE blank] /\ byAge = <<e.run>>
    BY <1>1, <1>4, RunFilesAre
  <2>3. DOMAIN done = RunFileNames /\ done["syslog_findings"] = Ingest(logs, e.keepBoot, e.holdout).findings
    BY RunFilesAre, ContentIs DEF Completed, RunFileNames
  <2>4. DOMAIN blank = RunFileNames /\ \A f \in RunFileNames : blank[f] = None
    OBVIOUS
  <2>5. FindingsSound(done["syslog_findings"])
    BY <2>3, IngestFound
  <2> HIDE DEF done, blank
  <2>6. byAge \in Seq(RunIds) /\ Names(byAge) = {e.run}
    <3>1. byAge = <<e.run>> /\ DOMAIN byAge = 1..1 /\ 1..1 = {1}
      BY <2>2
    <3>2. QED
      BY <2>1, <3>1 DEF Names
  <2>7. "syslog_findings" \in RunFileNames
    BY DEF RunFileNames
  <2>8. RunsOK
    <3>1. \A r \in RunIds : runs[r] = IF e.run = r THEN done ELSE blank
      BY <2>2
    <3>2. DOMAIN runs = RunIds
      BY <2>2
    <3>3. QED
      BY <2>3, <2>4, <2>5, <2>6, <2>7, <3>1, <3>2 DEF RunsOK, Readable
  <2>9. QED
    BY <1>2, <2>8 DEF LogInv
<1>5. QED
  BY <1>3, <1>4

LEMMA LogKept == ASSUME LogInv, UNCHANGED <<runs, byAge, ingest>> PROVE LogInv'
BY DEF LogInv, RunsOK, IngestOK

LEMMA LogStopped == ASSUME LogInv, UNCHANGED <<runs, byAge>>, ingest' = None PROVE LogInv'
BY DEF LogInv, RunsOK, IngestOK

LEMMA LogStart ==
  ASSUME LogInv, NEW a \in Ingestions, StartIngest(a)
  PROVE  LogInv'
<1>1. a.run \in RunIds
  BY EvidenceAssumption
<1>2. /\ ingest' = [args |-> a, out |-> Ingest(logs, a.keepBoot, a.holdout), todo |-> RunFiles, open |-> FALSE]
      /\ runs' = runs /\ byAge' = byAge
  BY DEF StartIngest
<1>3. /\ DOMAIN ingest' = {"args", "out", "todo", "open"}
      /\ ingest'.args = a /\ ingest'.out = Ingest(logs, a.keepBoot, a.holdout) /\ ingest'.todo = RunFiles /\ ingest'.open = FALSE
  BY <1>2
<1>4. IngestOK'
  BY <1>1, <1>3, IngestFound, RunFilesAre DEF IngestOK
<1>5. RunsOK'
  BY <1>2 DEF LogInv, RunsOK
<1>6. QED
  BY <1>4, <1>5 DEF LogInv

\* The files after one was written.
LEMMA WriteFile ==
  ASSUME RunsOK, NEW r \in RunIds, NEW file \in RunFileNames, NEW content,
         runs' = [runs EXCEPT ![r][file] = content], byAge' \in Seq(RunIds),
         Names(byAge) \subseteq Names(byAge'), r \in Names(byAge'),
         file = "syslog_findings" /\ Readable(content) => FindingsSound(content)
  PROVE  RunsOK'
<1> DEFINE mine == [runs[r] EXCEPT ![file] = content]
<1>1. DOMAIN runs = RunIds /\ \A x \in RunIds : DOMAIN runs[x] = RunFileNames
  BY DEF RunsOK
<1>2. runs' = [runs EXCEPT ![r] = mine]
  OBVIOUS
<1>3. DOMAIN mine = RunFileNames /\ \A f \in RunFileNames : mine[f] = IF f = file THEN content ELSE runs[r][f]
  BY <1>1
<1> HIDE DEF mine
<1>4. DOMAIN runs' = RunIds /\ \A x \in RunIds : runs'[x] = IF x = r THEN mine ELSE runs[x]
  BY <1>1, <1>2
<1>5. "syslog_findings" \in RunFileNames
  BY DEF RunFileNames
<1>6. \A x \in RunIds : DOMAIN runs'[x] = RunFileNames
  BY <1>1, <1>3, <1>4
<1>7. ASSUME NEW x \in RunIds, NEW f \in RunFileNames, runs'[x][f] # None PROVE x \in Names(byAge')
  <2>1. CASE x = r
    BY <2>1
  <2>2. CASE x # r
    <3>1. runs[x][f] # None
      BY <1>4, <1>7, <2>2
    <3>2. QED
      BY <3>1 DEF RunsOK
  <2>3. QED
    BY <2>1, <2>2
<1>8. ASSUME NEW x \in RunIds, Readable(runs'[x]["syslog_findings"]) PROVE FindingsSound(runs'[x]["syslog_findings"])
  <2>1. CASE x = r /\ file = "syslog_findings"
    <3>1. runs'[x]["syslog_findings"] = content
      BY <1>3, <1>4, <1>5, <2>1
    <3>2. QED
      BY <1>8, <2>1, <3>1
  <2>2. CASE ~(x = r /\ file = "syslog_findings")
    <3>1. runs'[x]["syslog_findings"] = runs[x]["syslog_findings"]
      BY <1>3, <1>4, <1>5, <2>2
    <3>2. QED
      BY <1>8, <3>1 DEF RunsOK
  <2>3. QED
    BY <2>1, <2>2
<1>9. QED
  BY <1>4, <1>6, <1>7, <1>8 DEF RunsOK, Readable

LEMMA LogTruncate ==
  ASSUME LogInv, TruncateRunFile
  PROVE  LogInv'
<1> DEFINE r == ingest.args.run
           file == Head(ingest.todo)
<1>1. /\ ingest # None
      /\ runs' = [runs EXCEPT ![r][file] = Torn]
      /\ byAge' = IF Missing(runs[r][file]) THEN Append(byAge, r) ELSE byAge
      /\ ingest' = [ingest EXCEPT !.open = TRUE]
  BY DEF TruncateRunFile
<1>2. r \in RunIds /\ ingest.todo \in Seq(RunFileNames) /\ ingest.todo # <<>>
  BY <1>1 DEF LogInv, IngestOK
<1>3. file \in RunFileNames
  BY <1>2, HeadTailProperties
<1>4. byAge \in Seq(RunIds)
  BY DEF LogInv, RunsOK
<1> HIDE DEF r, file
<1>5. byAge' \in Seq(RunIds) /\ Names(byAge) \subseteq Names(byAge') /\ r \in Names(byAge')
  <2>1. CASE Missing(runs[r][file])
    BY <1>1, <1>2, <1>4, <2>1, NamesAppend
  <2>2. CASE ~Missing(runs[r][file])
    BY <1>1, <1>2, <1>3, <1>4, <2>2 DEF Missing, LogInv, RunsOK
  <2>3. QED
    BY <2>1, <2>2
<1>6. RunsOK'
  <2>1. ~Readable(Torn) /\ RunsOK
    BY DEF Readable, LogInv
  <2>2. QED
    BY <1>1, <1>2, <1>3, <1>5, <2>1, WriteFile
<1>7. DOMAIN ingest = {"args", "out", "todo", "open"}
  BY <1>1 DEF LogInv, IngestOK
<1>8. /\ DOMAIN ingest' = {"args", "out", "todo", "open"}
      /\ ingest'.args = ingest.args /\ ingest'.out = ingest.out /\ ingest'.todo = ingest.todo
  BY <1>1, <1>7
<1>9. IngestOK'
  BY <1>1, <1>5, <1>8 DEF LogInv, IngestOK, r
<1>10. QED
  BY <1>6, <1>9 DEF LogInv

LEMMA LogFill ==
  ASSUME LogInv, FillRunFile
  PROVE  LogInv'
<1> DEFINE r == ingest.args.run
           file == Head(ingest.todo)
           content == ContentOf(file, ingest.out)
           rest == Tail(ingest.todo)
<1>1. /\ ingest # None /\ ingest.open
      /\ runs' = [runs EXCEPT ![r][file] = content]
      /\ byAge' = byAge
      /\ ingest' = IF rest = <<>> THEN None ELSE [ingest EXCEPT !.todo = rest, !.open = FALSE]
  BY DEF FillRunFile
<1>2. r \in RunIds /\ ingest.todo \in Seq(RunFileNames) /\ ingest.todo # <<>> /\ FindingsSound(ingest.out.findings)
      /\ r \in Names(byAge)
  BY <1>1 DEF LogInv, IngestOK
<1>3. file \in RunFileNames /\ rest \in Seq(RunFileNames)
  BY <1>2, HeadTailProperties
<1>4. byAge' \in Seq(RunIds) /\ r \in Names(byAge')
  BY <1>1, <1>2 DEF LogInv, RunsOK
<1>5. file = "syslog_findings" => FindingsSound(content)
  BY <1>2, ContentIs
<1> HIDE DEF r, file, content, rest
<1>6. RunsOK'
  <2>1. RunsOK
    BY DEF LogInv
  <2>2. QED
    BY <1>1, <1>2, <1>3, <1>4, <1>5, <2>1, WriteFile
<1>7. DOMAIN ingest = {"args", "out", "todo", "open"}
  BY <1>1 DEF LogInv, IngestOK
<1>8. IngestOK'
  <2>1. CASE rest = <<>>
    BY <1>1, <2>1 DEF IngestOK
  <2>2. CASE rest # <<>>
    <3>1. ingest' = [ingest EXCEPT !.todo = rest, !.open = FALSE]
      BY <1>1, <2>2
    <3>2. /\ DOMAIN ingest' = {"args", "out", "todo", "open"}
          /\ ingest'.args = ingest.args /\ ingest'.out = ingest.out /\ ingest'.todo = rest /\ ingest'.open = FALSE
      BY <1>7, <3>1
    <3>3. QED
      BY <1>1, <1>2, <1>3, <2>2, <3>2 DEF IngestOK, r
  <2>3. QED
    BY <2>1, <2>2
<1>9. QED
  BY <1>6, <1>8 DEF LogInv

\* The steps of both programs as the ingested runs see them.
LEMMA NextLog == LogInv /\ [Next]_vars => LogInv'
<1> SUFFICES ASSUME LogInv, [Next]_vars PROVE LogInv'
  OBVIOUS
<1>1. CASE \E a \in Ingestions : StartIngest(a)
  BY <1>1, LogStart
<1>2. CASE TruncateRunFile
  BY <1>2, LogTruncate
<1>3. CASE FillRunFile
  BY <1>3, LogFill
<1>4. CASE \E c \in Commands : StartCorrelation(c)
  BY <1>4, LogKept DEF StartCorrelation, ingestVars
<1>5. CASE Load
  <2>1. UNCHANGED ingestVars
    BY <1>5 DEF Load, LoadConfig, LoadExperiments, ResolveSyslog, LoadSyslog, Continue
  <2>2. QED
    BY <2>1, LogKept DEF ingestVars
<1>6. CASE Decide \/ Correlate \/ TruncateReport \/ FillReport
  BY <1>6, LogKept DEF Decide, Correlate, TruncateReport, FillReport, ingestVars
<1>7. CASE KillIngest
  BY <1>7, LogStopped DEF KillIngest
<1>8. CASE KillCorrelation
  BY <1>8, LogKept DEF KillCorrelation, ingestVars
<1>9. CASE UNCHANGED vars
  BY <1>9, LogKept DEF vars, ingestVars
<1>10. QED
  BY <1>1, <1>2, <1>3, <1>4, <1>5, <1>6, <1>7, <1>8, <1>9 DEF Next

-----------------------------------------------------------------------------
(* The correlation.                                                        *)

LoadOK ==
  pc = "load" =>
    /\ Ranked(todo, 1, 9)
    /\ \A s \in loaded : Origin(s) \notin Names(todo)
    /\ "resolve" \in Names(todo) => Of(loaded, "syslog") = {}
    /\ "resolve" \notin Names(todo) /\ Names(todo) \cap SyslogFiles # {} => chosen \in RunIds

LoadedOK == SignalsOK(loaded) /\ Apart(loaded) /\ OfRun(Of(loaded, "syslog"), chosen)

FoundOK == incidents = IF Correlating THEN Correlated(loaded) ELSE {}

CorrInv == snapshot \in Snapshots /\ LoadOK /\ LoadedOK /\ FoundOK

\* Nothing is loaded.
Fresh == loaded = {} /\ incidents = {}

LEMMA FreshOK == ASSUME Fresh PROVE LoadedOK /\ Of(loaded, "syslog") = {}
BY DEF Fresh, LoadedOK, SignalsOK, Apart, OfRun, Of

LEMMA InitCorr == Init => CorrInv
<1> SUFFICES ASSUME Init PROVE CorrInv
  OBVIOUS
<1>1. Fresh /\ snapshot \in Snapshots /\ pc = "idle"
  BY DEF Init, Fresh
<1>2. LoadOK /\ FoundOK
  BY <1>1 DEF LoadOK, FoundOK, Correlating, Fresh
<1>3. QED
  BY <1>1, <1>2, FreshOK DEF CorrInv

LEMMA CorrKept == ASSUME CorrInv, UNCHANGED <<snapshot, pc, todo, loaded, chosen, incidents>> PROVE CorrInv'
BY DEF CorrInv, LoadOK, LoadedOK, FoundOK, Correlating

LEMMA CorrStart ==
  ASSUME CorrInv, NEW c, StartCorrelation(c)
  PROVE  CorrInv'
<1>1. pc' = "load" /\ todo' = Sources(c) /\ Fresh' /\ snapshot' = snapshot
  BY DEF StartCorrelation, Fresh
<1>2. LoadedOK' /\ Of(loaded', "syslog") = {}
  BY <1>1 DEF Fresh, LoadedOK, SignalsOK, Apart, OfRun, Of
<1>3. LoadOK'
  BY <1>1, <1>2, SourcesRanked DEF LoadOK, Fresh
<1>4. FoundOK'
  BY <1>1 DEF FoundOK, Fresh, Correlating
<1>5. QED
  BY <1>1, <1>2, <1>3, <1>4 DEF CorrInv

\* Signals of two sources are told apart by their names.
LEMMA ApartSources ==
  ASSUME NEW S, NEW T, SignalsOK(S), Apart(S), NEW engine, NEW file, From(T, engine, file),
         \A s \in S : Origin(s) # file
  PROVE  SignalsOK(S \cup T) /\ Apart(S \cup T)
<1>1. SignalsOK(S \cup T)
  BY DEF From, SignalsOK
<1>2. ASSUME NEW s \in S, NEW t \in T PROVE s.id # t.id
  <2> SUFFICES ASSUME s.id = t.id PROVE FALSE
    OBVIOUS
  <2>1. s.engine = t.engine
    BY DEF From, SignalsOK, SignalOK
  <2>2. Origin(s) = Origin(t)
    BY <2>1 DEF Origin
  <2>3. QED
    BY <2>2 DEF From
<1>3. Apart(S \cup T)
  BY <1>2 DEF Apart, From
<1>4. QED
  BY <1>1, <1>3

LEMMA NothingFrom == ASSUME NEW engine, NEW file, NEW run PROVE From({}, engine, file) /\ OfRun({}, run)
BY DEF From, OfRun, SignalsOK, Apart

\* One source was loaded.
Loads(T, engine, file) ==
  /\ Loading(file) /\ Continue /\ chosen' = chosen
  /\ file # "resolve" /\ From(T, engine, file)
  /\ engine = "syslog" => file \in SyslogFiles /\ OfRun(T, chosen)
  /\ loaded' = loaded \cup T

LEMMA CorrLoad ==
  ASSUME CorrInv, NEW T, NEW engine, NEW file, Loads(T, engine, file)
  PROVE  CorrInv'
<1>1. /\ pc = "load" /\ todo # <<>> /\ Head(todo) = file
      /\ todo' = Tail(todo) /\ pc' = pc /\ incidents' = incidents /\ snapshot' = snapshot
      /\ chosen' = chosen /\ loaded' = loaded \cup T
  BY DEF Loads, Loading, Continue
<1>2. /\ file # "resolve" /\ From(T, engine, file)
      /\ engine = "syslog" => file \in SyslogFiles /\ OfRun(T, chosen)
  BY DEF Loads
<1>3. /\ Ranked(todo, 1, 9)
      /\ \A s \in loaded : Origin(s) \notin Names(todo)
      /\ "resolve" \in Names(todo) => Of(loaded, "syslog") = {}
      /\ "resolve" \notin Names(todo) /\ Names(todo) \cap SyslogFiles # {} => chosen \in RunIds
  BY <1>1 DEF CorrInv, LoadOK
<1>4. /\ Ranked(todo', 1, 9)
      /\ file \in SourceNames /\ file \notin Names(todo') /\ Names(todo) = {file} \cup Names(todo')
      /\ \A f \in Names(todo') : f \in SourceNames /\ Rank(file) < Rank(f)
  BY <1>1, <1>3, RankedTail
<1>5. SignalsOK(loaded') /\ Apart(loaded')
  <2>1. SignalsOK(loaded) /\ Apart(loaded) /\ \A s \in loaded : Origin(s) # file
    BY <1>3, <1>4 DEF CorrInv, LoadedOK
  <2>2. QED
    BY <1>1, <1>2, <2>1, ApartSources
<1>6. OfRun(Of(loaded', "syslog"), chosen')
  <2>1. OfRun(Of(loaded, "syslog"), chosen)
    BY DEF CorrInv, LoadedOK
  <2>2. QED
    BY <1>1, <1>2, <2>1 DEF OfRun, Of, From
<1>7. \A s \in loaded' : Origin(s) \notin Names(todo')
  BY <1>1, <1>2, <1>3, <1>4 DEF From
<1>8. "resolve" \in Names(todo') => Of(loaded', "syslog") = {}
  <2> SUFFICES ASSUME "resolve" \in Names(todo') PROVE Of(loaded', "syslog") = {}
    OBVIOUS
  <2>1. Of(loaded, "syslog") = {} /\ Rank(file) < Rank("resolve")
    BY <1>3, <1>4
  <2>2. file \notin SyslogFiles
    BY <2>1 DEF SyslogFiles, Rank
  <2>3. engine # "syslog"
    BY <1>2, <2>2
  <2>4. QED
    BY <1>1, <1>2, <2>1, <2>3 DEF Of, From
<1>9. "resolve" \notin Names(todo') /\ Names(todo') \cap SyslogFiles # {} => chosen' \in RunIds
  BY <1>1, <1>2, <1>3, <1>4
<1>10. LoadOK' /\ LoadedOK'
  BY <1>1, <1>4, <1>5, <1>6, <1>7, <1>8, <1>9 DEF LoadOK, LoadedOK
<1>11. FoundOK'
  BY <1>1 DEF CorrInv, FoundOK, Correlating
<1>12. QED
  BY <1>1, <1>10, <1>11 DEF CorrInv

LEMMA LoadConfigStep ==
  ASSUME CorrInv, NEW file \in Names(ConfigFiles), LoadConfig(file)
  PROVE  CorrInv'
<1> DEFINE T == IF Readable(snapshot[file]) THEN ConfigSignalsOf(file, snapshot[file]) ELSE {}
<1>1. Loading(file) /\ Continue /\ chosen' = chosen /\ loaded' = loaded \cup T
  BY DEF LoadConfig
<1>2. file # "resolve"
  BY RankedParts
<1>3. From(T, "engine_c", file)
  BY ConfigFrom, NothingFrom DEF CorrInv
<1> HIDE DEF T
<1>4. Loads(T, "engine_c", file)
  BY <1>1, <1>2, <1>3 DEF Loads
<1>5. QED
  BY <1>4, CorrLoad

LEMMA LoadExperimentsStep ==
  ASSUME CorrInv, LoadExperiments("health", HealthSignalsOf(HealthRuns)) \/ LoadExperiments("cyber", CyberSignals)
  PROVE  CorrInv'
<1>1. CASE LoadExperiments("health", HealthSignalsOf(HealthRuns))
  <2>1. Loads(HealthSignalsOf(HealthRuns), "engine_b", "health")
    BY <1>1, HealthFrom DEF Loads, LoadExperiments
  <2>2. QED
    BY <2>1, CorrLoad
<1>2. CASE LoadExperiments("cyber", CyberSignals)
  <2>1. Loads(CyberSignals, "engine_a", "cyber")
    BY <1>2, CyberFrom DEF Loads, LoadExperiments
  <2>2. QED
    BY <2>1, CorrLoad
<1>3. QED
  BY <1>1, <1>2

LEMMA LoadSyslogStep ==
  ASSUME CorrInv, LogInv, NEW file \in SyslogFiles, LoadSyslog(file)
  PROVE  CorrInv'
<1> DEFINE content == runs[chosen][file]
           T == IF Readable(content) THEN SyslogSignalsOf(chosen, file, content) ELSE {}
<1>1. Loading(file) /\ Continue /\ chosen' = chosen /\ loaded' = loaded \cup T
  BY DEF LoadSyslog
<1>2. chosen \in RunIds
  <2>1. pc = "load" /\ todo # <<>> /\ Head(todo) = file
    BY <1>1 DEF Loading
  <2>2. /\ Ranked(todo, 1, 9)
        /\ "resolve" \notin Names(todo) /\ Names(todo) \cap SyslogFiles # {} => chosen \in RunIds
    BY <2>1 DEF CorrInv, LoadOK
  <2>3. /\ Names(todo) = {file} \cup Names(Tail(todo))
        /\ \A f \in Names(Tail(todo)) : Rank(file) < Rank(f)
    BY <2>1, <2>2, RankedTail
  <2>4. file # "resolve" /\ ~(Rank(file) < Rank("resolve"))
    BY DEF SyslogFiles, Rank
  <2>5. QED
    BY <2>2, <2>3, <2>4
<1>3. file = "syslog_findings" /\ Readable(content) => FindingsSound(content)
  BY <1>2 DEF LogInv, RunsOK
<1>4. From(T, "syslog", file) /\ OfRun(T, chosen)
  <2> HIDE DEF content
  <2>1. CASE Readable(content)
    BY <1>3, <2>1, SyslogFrom
  <2>2. CASE ~Readable(content)
    BY <2>2, NothingFrom
  <2>3. QED
    BY <2>1, <2>2
<1>5. file # "resolve"
  BY DEF SyslogFiles
<1> HIDE DEF content, T
<1>6. Loads(T, "syslog", file)
  BY <1>1, <1>4, <1>5 DEF Loads
<1>7. QED
  BY <1>6, CorrLoad

\* The run that is resolved is one of the runs.
LEMMA Resolved ==
  ASSUME LogInv, NEW name
  PROVE  ResolveRun(name) \in RunIds \cup {None}
<1>1. ReadyRuns \subseteq RunIds
  BY DEF ReadyRuns
<1>2. CASE name # "latest"
  <2>1. ResolveRun(name) = PickOne(ReadyRuns \cap {name})
    BY <1>2 DEF ResolveRun
  <2>2. CASE ReadyRuns \cap {name} = {}
    BY <2>1, <2>2 DEF PickOne
  <2>3. CASE ReadyRuns \cap {name} # {}
    <3>1. PickOne(ReadyRuns \cap {name}) \in ReadyRuns \cap {name}
      BY <2>3, PickedOne
    <3>2. QED
      BY <1>1, <2>1, <3>1
  <2>4. QED
    BY <2>2, <2>3
<1>3. CASE name = "latest" /\ ReadyRuns = {}
  BY <1>3 DEF ResolveRun
<1>4. CASE name = "latest" /\ ReadyRuns # {}
  <2> DEFINE made == {n \in DOMAIN byAge : byAge[n] \in ReadyRuns}
  <2>1. ResolveRun(name) = byAge[Max(made)]
    BY <1>4 DEF ResolveRun
  <2>2. PICK r \in ReadyRuns : TRUE
    BY <1>4
  <2>3. r \in Names(byAge)
    BY <2>2 DEF ReadyRuns, Missing, LogInv, RunsOK, RunFileNames
  <2>4. Len(byAge) \in Nat /\ DOMAIN byAge = 1..Len(byAge)
    BY DEF LogInv, RunsOK
  <2>5. made \in SUBSET (1..Len(byAge)) /\ made # {}
    BY <2>2, <2>3, <2>4 DEF Names
  <2>6. Max(made) \in made
    <3> HIDE DEF made
    <3>1. QED
      BY <2>4, <2>5, MaxOf
  <2>7. byAge[Max(made)] \in ReadyRuns
    BY <2>6
  <2>8. QED
    BY <1>1, <2>1, <2>7
<1>5. QED
  BY <1>2, <1>3, <1>4

LEMMA ResolveStep ==
  ASSUME CorrInv, LogInv, ResolveSyslog
  PROVE  CorrInv'
<1>1. /\ pc = "load" /\ todo # <<>> /\ Head(todo) = "resolve"
      /\ chosen' = ResolveRun(IF command.syslogRun = None THEN "latest" ELSE command.syslogRun)
      /\ todo' = IF chosen' = None THEN <<>> ELSE Tail(todo)
      /\ pc' = pc /\ loaded' = loaded /\ incidents' = incidents /\ snapshot' = snapshot
  BY DEF ResolveSyslog, Loading
<1>2. chosen' \in RunIds \cup {None}
  BY <1>1, Resolved
<1>3. /\ Ranked(todo, 1, 9)
      /\ \A s \in loaded : Origin(s) \notin Names(todo)
      /\ "resolve" \in Names(todo) => Of(loaded, "syslog") = {}
  BY <1>1 DEF CorrInv, LoadOK
<1>4. /\ Ranked(Tail(todo), 1, 9)
      /\ "resolve" \notin Names(Tail(todo)) /\ Names(todo) = {"resolve"} \cup Names(Tail(todo))
  BY <1>1, <1>3, RankedTail
<1>5. Of(loaded, "syslog") = {}
  BY <1>3, <1>4
<1>6. LoadedOK'
  BY <1>1, <1>5 DEF CorrInv, LoadedOK, OfRun
<1>7. LoadOK'
  <2>1. CASE chosen' = None
    BY <1>1, <2>1, RankedNone DEF LoadOK
  <2>2. CASE chosen' # None
    BY <1>1, <1>2, <1>3, <1>4, <2>2 DEF LoadOK
  <2>3. QED
    BY <2>1, <2>2
<1>8. FoundOK'
  BY <1>1 DEF CorrInv, FoundOK, Correlating
<1>9. QED
  BY <1>1, <1>6, <1>7, <1>8 DEF CorrInv

LEMMA NextCorr == LogInv /\ CorrInv /\ [Next]_vars => CorrInv'
<1> SUFFICES ASSUME LogInv, CorrInv, [Next]_vars PROVE CorrInv'
  OBVIOUS
<1>1. CASE (\E a \in Ingestions : StartIngest(a)) \/ TruncateRunFile \/ FillRunFile \/ KillIngest
  BY <1>1, CorrKept DEF StartIngest, TruncateRunFile, FillRunFile, KillIngest, correlationVars, work
<1>2. CASE \E c \in Commands : StartCorrelation(c)
  BY <1>2, CorrStart
<1>3. CASE Load
  <2>1. SyslogFiles = {"parser_summary", "syslog_findings", "parsed_events"}
    BY DEF SyslogFiles
  <2>2. QED
    BY <1>3, <2>1, LoadConfigStep, LoadExperimentsStep, LoadSyslogStep, ResolveStep DEF Load
<1>4. CASE Decide
  <2>1. pc = "load" /\ pc' \in {"failed", "rules"} /\ UNCHANGED <<snapshot, loaded, chosen, incidents>>
    BY <1>4 DEF Decide, work
  <2>2. QED
    BY <2>1 DEF CorrInv, LoadOK, LoadedOK, FoundOK, Correlating
<1>5. CASE Correlate
  <2>1. pc' = "write" /\ incidents' = Correlated(loaded) /\ UNCHANGED <<snapshot, loaded, chosen>>
    BY <1>5 DEF Correlate
  <2>2. QED
    BY <2>1 DEF CorrInv, LoadOK, LoadedOK, FoundOK, Correlating
<1>6. CASE TruncateReport \/ FillReport
  <2>1. /\ pc \in {"write", "fill"} /\ pc' \in {"write", "fill", "done"}
        /\ UNCHANGED <<snapshot, loaded, chosen, incidents>>
    BY <1>6 DEF TruncateReport, FillReport, work
  <2>2. QED
    BY <2>1 DEF CorrInv, LoadOK, LoadedOK, FoundOK, Correlating
<1>7. CASE KillCorrelation
  <2>1. pc' = "idle" /\ loaded' = {} /\ incidents' = {} /\ snapshot' = snapshot
    BY <1>7 DEF KillCorrelation
  <2>2. LoadedOK'
    BY <2>1 DEF LoadedOK, SignalsOK, Apart, OfRun, Of
  <2>3. QED
    BY <2>1, <2>2 DEF CorrInv, LoadOK, FoundOK, Correlating
<1>8. CASE UNCHANGED vars
  BY <1>8, CorrKept DEF vars, correlationVars, work
<1>9. QED
  BY <1>1, <1>2, <1>3, <1>4, <1>5, <1>6, <1>7, <1>8 DEF Next

LEMMA CorrSound ==
  ASSUME Markers, Names(Fallbacks) \cap Disabled = {}
  PROVE  CorrInv => IncidentsSound
<1> SUFFICES ASSUME CorrInv PROVE IncidentsSound
  OBVIOUS
<1>1. SignalsOK(loaded) /\ Apart(loaded) /\ OfRun(Of(loaded, "syslog"), chosen)
  BY DEF CorrInv, LoadedOK
<1>2. CorrelationSound(loaded, Correlated(loaded))
  BY <1>1, CorrelatedSound
<1>3. Correlating => CorrelationSound(loaded, incidents)
  BY <1>2 DEF CorrInv, FoundOK
<1>4. HighRiskCovered
  BY <1>3 DEF HighRiskCovered, CorrelationSound
<1>5. \A i \in incidents : IncidentOK(i, loaded)
  <2>1. CASE Correlating
    BY <1>3, <2>1 DEF CorrelationSound
  <2>2. CASE ~Correlating
    BY <2>2 DEF CorrInv, FoundOK
  <2>3. QED
    BY <2>1, <2>2
<1>6. CriticalCorroborated
  BY <1>5 DEF CriticalCorroborated, IncidentOK, Kind, Loop
<1>7. SyslogOfOneRun
  BY <1>1 DEF SyslogOfOneRun, OfRun
<1>8. QED
  BY <1>4, <1>6, <1>7 DEF IncidentsSound

\* Every high or critical signal is in an incident and a fallback takes only what no
\* other rule took; an incident is critical because a signal is or because two engines
\* agree, and a loop only with two kinds of evidence; the syslog evidence is of the one
\* run that was resolved (engine.py, the rules and their scores, load_syslog_artifacts),
\* whatever is ingested, loaded, killed and run again in between.  The fallbacks are
\* enabled: only they take a signal that no other rule wants.
THEOREM IncidentsSoundHolds ==
  ASSUME Markers, Names(Fallbacks) \cap Disabled = {}
  PROVE  Spec => []IncidentsSound
<1>1. LogInv /\ CorrInv /\ [Next]_vars => (LogInv /\ CorrInv)'
  BY NextLog, NextCorr
<1>2. LogInv /\ CorrInv => IncidentsSound
  BY CorrSound
<1>3. QED
  BY InitLog, InitCorr, <1>1, <1>2, PTL DEF Spec
=============================================================================
