------------------------------- MODULE Dashboard -------------------------------
(***************************************************************************)
(* The pages over the artefacts: the tolerant loaders and the overview     *)
(* that src/dashboard/loader.py and webapp/server/src/loaders share, and   *)
(* the web server, whose handlers read through a cache with a time to      *)
(* live.  A handler runs to its end before the next one (Node).            *)
(***************************************************************************)
EXTENDS Exports

CONSTANTS TTL  \* ticks an artefact may be served from the cache

ASSUME DashboardAssumption == TTL \in Nat \ {0}

-----------------------------------------------------------------------------
(* Loaders. *)

\* A run is listed as soon as its summary or its incidents are there, and is
\* dated by its summary.
ListedRuns == {r \in ReportIds : \E f \in {"correlation_summary", "incidents"} : reports[r][f] # None}
DateOf(r) == IF Readable(reports[r]["correlation_summary"]) THEN reports[r]["correlation_summary"].at ELSE None

\* Ids are numbers by their order; an undated run is the oldest.
Newest ==
  LET Later(r, s) == \/ DateOf(s) = None /\ (DateOf(r) # None \/ r >= s)
                     \/ DateOf(r) # None /\ DateOf(s) # None
                        /\ (DateOf(r) > DateOf(s) \/ (DateOf(r) = DateOf(s) /\ r >= s))
  IN IF ListedRuns = {} THEN None ELSE CHOOSE r \in ListedRuns : \A s \in ListedRuns : Later(r, s)

\* The web server compares date and id as one text: an undated run is its id
\* alone, and a letter is greater than any digit.  So an older run that has no
\* summary, or half of one, comes before all the others ("newest first").
WebNewest ==
  LET undated == {r \in ListedRuns : DateOf(r) = None}
  IN IF undated # {} THEN Max(undated) ELSE Newest

LoadCorrelation(r) ==
  LET file(f) == IF r = None THEN None ELSE reports[r][f]
  IN [available |-> Readable(file("correlation_summary")) \/ Readable(file("incidents")),
      incidents |-> ReadOr(file("incidents"), {})]

ViewOf(file, default) == IF Readable(views[file]) THEN views[file].content ELSE default

LoadEngineC ==
  LET summary == ViewOf("dashboard_summary", [findings |-> 0, actions |-> 0, devices |-> {}])
  IN [available |-> \E f \in AllViews : Readable(views[f]),
      missing |-> {f \in ToSet(ViewFiles(None)) : ~Readable(views[f])},
      findings |-> summary.findings, actions |-> summary.actions, devices |-> summary.devices,
      executed |-> ViewOf("action_audit_view", [executed |-> 0]).executed]

\* The status names the dataset with the highest rate, in tenths of a percent.
Rate(t) == IF t.n = 0 THEN 0 ELSE (1000 * t.predicted + t.n \div 2) \div t.n
LoadEngineB ==
  LET rates == {Rate(HealthTests[d]) : d \in DOMAIN HealthTests}
  IN [available |-> rates # {}, rate |-> IF rates = {} THEN None ELSE Max(rates)]

-----------------------------------------------------------------------------
(* The overview. *)

Severe(incidents) == {i \in incidents : i.severity \in SevereSet}

\* "0.0%" is looked for anywhere in the text, so it is also found in "10.0%".
LooksAnomalous(health) == health.available /\ health.rate % 100 # 0

NetworkStatus(critical, findings, health) ==
  CASE critical # {} -> "attention"
    [] critical = {} /\ (findings > 0 \/ LooksAnomalous(health)) -> "monitor"
    [] OTHER -> "stable"

Overview(run, correlation, engineC, health) ==
  LET critical == Severe(correlation.incidents)
      focus == IF critical = {} THEN correlation.incidents ELSE critical
  IN [run |-> run, incidents |-> Cardinality(correlation.incidents), critical |-> Cardinality(critical),
      level |-> NetworkStatus(critical, engineC.findings, health),
      findings |-> engineC.findings, actions |-> engineC.actions, executed |-> engineC.executed,
      devices |-> ({i.device : i \in focus} \cup engineC.devices) \ {None},
      available |-> <<correlation.available, engineC.available, health.available>>]

\* What the page would be if it were put together from the disk now.
Current == Overview(WebNewest, LoadCorrelation(WebNewest), LoadEngineC, LoadEngineB)

-----------------------------------------------------------------------------
(* The web server. *)

VARIABLES
  cache,  \* what was read for each key and how many ticks ago
  page    \* the last overview it answered with
serverVars == <<cache, page>>

RunKey(r) == <<"report", r>>
Keys == {<<"runs", 0>>, <<"views", 0>>} \cup {RunKey(r) : r \in ReportIds}
Serve(key, value) == IF cache[key] # None THEN cache[key].value ELSE value

\* Mutant: an entry that is used stays for another TTL.
RememberedSliding(key, value) == [value |-> Serve(key, value), age |-> 0]

\* A hit stays as old as it is.
Remembered(key, value) == IF cache[key] # None THEN cache[key] ELSE [value |-> value, age |-> 0]

\* GET /overview: the newest run, then its report, then the views.
GetOverview ==
  LET run == Serve(<<"runs", 0>>, WebNewest)
      Report == IF run = None THEN LoadCorrelation(None) ELSE Serve(RunKey(run), LoadCorrelation(run))
  IN /\ page' = Overview(run, Report, Serve(<<"views", 0>>, LoadEngineC), LoadEngineB)
     /\ cache' = [key \in Keys |->
                   CASE key = <<"runs", 0>> -> Remembered(key, WebNewest)
                     [] key = <<"views", 0>> -> Remembered(key, LoadEngineC)
                     [] run # None /\ key = RunKey(run) -> Remembered(key, LoadCorrelation(run))
                     [] OTHER -> cache[key]]

Tick ==
  /\ \E key \in Keys : cache[key] # None
  /\ cache' = [key \in Keys |->
                 IF cache[key] = None \/ cache[key].age + 1 >= TTL THEN None
                 ELSE [cache[key] EXCEPT !.age = @ + 1]]
  /\ UNCHANGED page

ServerInit == cache = [key \in Keys |-> None] /\ page = None

ServerNext == GetOverview \/ Tick

-----------------------------------------------------------------------------
(* Properties. *)

\* Once nobody writes any more, the page becomes what a handler would make of
\* the disk without a cache, and stays it: no entry of the cache outlives its time
\* by being asked for.  The run on it need not be the newest one: see WebNewest.
PageCatchesUp == <>[](page = Current)

=============================================================================
