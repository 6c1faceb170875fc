----------------------------- MODULE LiveIngestion -----------------------------
(***************************************************************************)
(* Live logging: runs of the one-shot ingestion programs (run_live_logger, *)
(* run_sophos_ingestor, the two Hirschmann loggers) that parse their       *)
(* sources one after the other, append what they parsed to events.jsonl    *)
(* and raw_events.jsonl and save a checkpoint per source.  There are two   *)
(* drivers: the offline logger, which repeats a failed attempt, and the    *)
(* adapter runtime, which does not.  Runs take no lock and may overlap.    *)
(*                                                                         *)
(* A source's sample only grows, and every attempt reads all of it.  Its   *)
(* records are numbered in the order in which they are parsed and appended.*)
(* The two logs are counted per record: events[r] is the number of lines   *)
(* of record r that a reader of the log gets.  A write that breaks off may *)
(* leave a line without its end ("torn"), and the next line is glued to it *)
(* and skipped by every reader.  The lines of one attempt fit the buffer   *)
(* of the file, so that attempts of two runs do not interleave in it.      *)
(***************************************************************************)
EXTENDS Naturals, FiniteSets, Sequences

CONSTANTS
  Order,        \* the sources, in the order in which a run visits them
  Records,      \* numbers
  SourceOf,     \* the source each record belongs to
  Poison,       \* records that make the parser or the normalizer raise
  Enabled,      \* the sources enabled in the configuration
  MaxAttempts,  \* retry.max_attempts
  Runs,         \* the processes that run an ingestion program, one at a time each
  MaxRuns,      \* bound on the runs started
  MaxFaults,    \* bound on the writes that fail with an OSError
  MaxCrashes,   \* bound on the runs that are killed
  MaxTears      \* bound on the lines that are left without their end

Sources == {Order[i] : i \in DOMAIN Order}
Batches == SUBSET Records

ASSUME RecordsAssumption == Records \subseteq Nat /\ IsFiniteSet(Records)
ASSUME SourcesAssumption ==
  /\ Order \in Seq(Sources)
  /\ \A i, j \in DOMAIN Order : Order[i] = Order[j] => i = j
  /\ SourceOf \in [Records -> Sources]
  /\ Poison \subseteq Records
  /\ Enabled \subseteq Sources
ASSUME AttemptsAssumption == MaxAttempts \in Nat \ {0}
ASSUME BoundsAssumption == {MaxRuns, MaxFaults, MaxCrashes, MaxTears} \subseteq Nat

VARIABLES
  sample,      \* the records in the sources' sample files
  events,      \* readable lines of each record in events.jsonl
  raws,        \* readable lines of each record in raw_events.jsonl
  torn,        \* the logs that end in the middle of a line
  checkpoint,  \* checkpoint file of each source
  temp,        \* temporary file of each source's checkpoint
  pc,          \* where each run stands
  driver,      \* "logger" or "adapter"
  visit,       \* index of the source a run is at
  attempt,     \* its attempt at that source
  batch,       \* the records it parsed in that attempt
  handle,      \* what the file it writes its cursor to has become
  outcome,     \* what a run will report of each source
  started,
  faults,
  crashes,
  tears

logs == <<events, raws, torn>>
checkpoints == <<checkpoint, temp>>
memory == <<driver, visit, attempt, batch, handle, outcome>>
bounds == <<started, faults, crashes, tears>>
vars == <<sample, logs, checkpoints, pc, memory, bounds>>

\* A checkpoint file: is it there, does it parse, are two runs filling it, and
\* which records does it count?
Absent == [state |-> "absent", mixed |-> FALSE, covers |-> {}]
CheckpointFiles ==
  [state : {"absent", "torn", "ok"}, mixed : BOOLEAN, covers : Batches]

Blank == [s \in Sources |-> "none"]

TypeOK ==
  /\ sample \in Batches
  /\ events \in [Records -> Nat]
  /\ raws \in [Records -> Nat]
  /\ torn \in [{"events", "raws"} -> BOOLEAN]
  /\ checkpoint \in [Sources -> CheckpointFiles]
  /\ temp \in [Sources -> CheckpointFiles]
  /\ pc \in [Runs -> {"idle", "killed", "visit", "parse", "events", "raws",
                      "open_temp", "fill_temp", "replace"}]
  /\ driver \in [Runs -> {"logger", "adapter"}]
  /\ visit \in [Runs -> 1..Len(Order) + 1]
  /\ attempt \in [Runs -> 0..MaxAttempts]
  /\ batch \in [Runs -> Batches]
  /\ handle \in [Runs -> {"none", "temp", "checkpoint", "unlinked"}]
  /\ outcome \in [Runs -> [Sources -> {"none", "disabled", "ok", "failed"}]]
  /\ started \in 0..MaxRuns
  /\ faults \in 0..MaxFaults
  /\ crashes \in 0..MaxCrashes
  /\ tears \in 0..MaxTears

Init ==
  /\ sample = {}
  /\ events = [r \in Records |-> 0]
  /\ raws = [r \in Records |-> 0]
  /\ torn = [l \in {"events", "raws"} |-> FALSE]
  /\ checkpoint = [s \in Sources |-> Absent]
  /\ temp = [s \in Sources |-> Absent]
  /\ pc = [p \in Runs |-> "idle"]
  /\ driver = [p \in Runs |-> "logger"]
  /\ visit = [p \in Runs |-> 1]
  /\ attempt = [p \in Runs |-> 0]
  /\ batch = [p \in Runs |-> {}]
  /\ handle = [p \in Runs |-> "none"]
  /\ outcome = [p \in Runs |-> Blank]
  /\ started = 0
  /\ faults = 0
  /\ crashes = 0
  /\ tears = 0

-----------------------------------------------------------------------------
(* Helpers. *)

Source(p) == Order[visit[p]]
Goto(p, label) == pc' = [pc EXCEPT ![p] = label]

\* The lines of one attempt that end up in a log: a first line that is glued
\* to the end of a torn one is skipped by every reader.
Readable(written, isTorn) ==
  IF isTorn THEN {r \in written : \E q \in written : q < r} ELSE written

Appended(log, lines) == [r \in Records |-> IF r \in lines THEN log[r] + 1 ELSE log[r]]

\* What a write that breaks off may have written: the first lines of a batch.
Prefixes(lines) ==
  {written \in SUBSET lines : \A r \in written, q \in lines : q < r => q \in written}

\* A run goes on to its next source with the outcome of this one; the memory
\* of the attempts is gone.
Conclude(p, result) ==
  /\ outcome' = [outcome EXCEPT ![p][Source(p)] = result]
  /\ visit' = [visit EXCEPT ![p] = @ + 1]
  /\ attempt' = [attempt EXCEPT ![p] = 0]
  /\ batch' = [batch EXCEPT ![p] = {}]
  /\ handle' = [handle EXCEPT ![p] = "none"]
  /\ Goto(p, "visit")
  /\ UNCHANGED driver

\* The attempts a driver makes at a source.
Attempts(p) == IF driver[p] = "logger" THEN MaxAttempts ELSE 1

\* Mutants: an attempt too few, the attempts not counted, one too many, or an
\* exception that is swallowed.
AttemptFailsEarly(p) ==
  IF attempt[p] + 1 < Attempts(p)
  THEN /\ attempt' = [attempt EXCEPT ![p] = @ + 1]
       /\ batch' = [batch EXCEPT ![p] = {}]
       /\ handle' = [handle EXCEPT ![p] = "none"]
       /\ Goto(p, "parse")
       /\ UNCHANGED <<driver, visit, outcome>>
  ELSE Conclude(p, "failed")
AttemptFailsUncounted(p) ==
  /\ Goto(p, "parse")
  /\ batch' = [batch EXCEPT ![p] = {}]
  /\ handle' = [handle EXCEPT ![p] = "none"]
  /\ UNCHANGED <<driver, visit, attempt, outcome>>
AttemptFailsLate(p) ==
  IF attempt[p] <= Attempts(p)
  THEN /\ attempt' = [attempt EXCEPT ![p] = @ + 1]
       /\ batch' = [batch EXCEPT ![p] = {}]
       /\ handle' = [handle EXCEPT ![p] = "none"]
       /\ Goto(p, "parse")
       /\ UNCHANGED <<driver, visit, outcome>>
  ELSE Conclude(p, "failed")
AttemptFailsSilently(p) ==
  /\ Goto(p, CASE pc[p] = "parse" -> "events"
                [] pc[p] = "events" -> "raws"
                [] OTHER -> "open_temp")
  /\ UNCHANGED memory

\* An exception ends the attempt: the logger repeats all of it, parsing
\* included, until its attempts are used up.
AttemptFails(p) ==
  IF attempt[p] < Attempts(p)
  THEN /\ attempt' = [attempt EXCEPT ![p] = @ + 1]
       /\ batch' = [batch EXCEPT ![p] = {}]
       /\ handle' = [handle EXCEPT ![p] = "none"]
       /\ Goto(p, "parse")
       /\ UNCHANGED <<driver, visit, outcome>>
  ELSE Conclude(p, "failed")

\* The process dies.
Die(p) ==
  /\ crashes < MaxCrashes
  /\ crashes' = crashes + 1
  /\ Goto(p, "killed")
  /\ visit' = [visit EXCEPT ![p] = 1]
  /\ attempt' = [attempt EXCEPT ![p] = 0]
  /\ batch' = [batch EXCEPT ![p] = {}]
  /\ handle' = [handle EXCEPT ![p] = "none"]
  /\ outcome' = [outcome EXCEPT ![p] = Blank]
  /\ UNCHANGED <<driver, started, faults>>

\* A write fails with an OSError, and the attempt with it.
Fault(p) ==
  /\ faults < MaxFaults
  /\ faults' = faults + 1
  /\ AttemptFails(p)
  /\ UNCHANGED <<started, crashes>>

-----------------------------------------------------------------------------
(* The steps of a run. *)

Arrive(r) ==
  /\ r \notin sample
  /\ sample' = sample \cup {r}
  /\ UNCHANGED <<logs, checkpoints, pc, memory, bounds>>

Start(p, d) ==
  /\ pc[p] \in {"idle", "killed"}
  /\ started < MaxRuns
  /\ started' = started + 1
  /\ driver' = [driver EXCEPT ![p] = d]
  /\ visit' = [visit EXCEPT ![p] = 1]
  /\ outcome' = [outcome EXCEPT ![p] = Blank]
  /\ Goto(p, "visit")
  /\ UNCHANGED <<sample, logs, checkpoints, attempt, batch, handle, faults, crashes, tears>>

\* The logger skips a disabled source; the adapter runtime, in offline and mock
\* mode, does not ask whether a source is enabled.
Skip(p) ==
  /\ pc[p] = "visit"
  /\ visit[p] <= Len(Order)
  /\ driver[p] = "logger" /\ Source(p) \notin Enabled
  /\ Conclude(p, "disabled")
  /\ UNCHANGED <<sample, logs, checkpoints, bounds>>

Visit(p) ==
  /\ pc[p] = "visit"
  /\ visit[p] <= Len(Order)
  /\ driver[p] = "logger" => Source(p) \in Enabled
  /\ attempt' = [attempt EXCEPT ![p] = 1]
  /\ Goto(p, "parse")
  /\ UNCHANGED <<sample, logs, checkpoints, driver, visit, batch, handle, outcome, bounds>>

\* Parsing, redaction and normalisation are done in memory for the whole sample
\* before anything is written: one record that raises fails the attempt.
Sampled(p) == {r \in sample : SourceOf[r] = Source(p)}

Parse(p) ==
  /\ pc[p] = "parse"
  /\ IF Sampled(p) \cap Poison = {}
     THEN /\ batch' = [batch EXCEPT ![p] = Sampled(p)]
          /\ Goto(p, "events")
          /\ UNCHANGED <<driver, visit, attempt, handle, outcome>>
     ELSE AttemptFails(p)
  /\ UNCHANGED <<sample, logs, checkpoints, bounds>>

AppendNormalized(p) ==
  /\ pc[p] = "events"
  /\ events' = Appended(events, Readable(batch[p], torn["events"]))
  /\ torn' = [torn EXCEPT !["events"] = @ /\ batch[p] = {}]
  /\ Goto(p, "raws")
  /\ UNCHANGED <<sample, raws, checkpoints, memory, bounds>>

AppendRaw(p) ==
  /\ pc[p] = "raws"
  /\ raws' = Appended(raws, Readable(batch[p], torn["raws"]))
  /\ torn' = [torn EXCEPT !["raws"] = @ /\ batch[p] = {}]
  /\ Goto(p, "open_temp")
  /\ UNCHANGED <<sample, events, checkpoints, memory, bounds>>

\* An append breaks off after some of its lines, in the middle of the next one
\* or not.
BreakAppend(p) ==
  /\ pc[p] \in {"events", "raws"}
  /\ \E written \in Prefixes(batch[p]), cut \in BOOLEAN :
       LET lines == Readable(written, torn[pc[p]]) IN
       /\ cut => written # batch[p] /\ tears < MaxTears
       /\ tears' = IF cut THEN tears + 1 ELSE tears
       /\ torn' = [torn EXCEPT ![pc[p]] = cut \/ (@ /\ written = {})]
       /\ events' = IF pc[p] = "events" THEN Appended(events, lines) ELSE events
       /\ raws' = IF pc[p] = "raws" THEN Appended(raws, lines) ELSE raws
  /\ Fault(p) \/ Die(p)
  /\ UNCHANGED <<sample, checkpoints>>

\* Mutant: the checkpoint is written in place.
OpenInPlace(p) ==
  /\ pc[p] = "open_temp"
  /\ checkpoint' = [checkpoint EXCEPT ![Source(p)] = [@ EXCEPT !.state = "torn"]]
  /\ handle' = [handle EXCEPT ![p] = "checkpoint"]
  /\ Goto(p, "fill_temp")
  /\ UNCHANGED <<sample, logs, temp, driver, visit, attempt, batch, outcome, bounds>>

\* CheckpointManager.save: open(tmp, "w").  Runs use the same name, so a second
\* one truncates the file that a first one is filling.
OpenTemp(p) ==
  LET s == Source(p)
      others == {q \in Runs \ {p} : handle[q] = "temp" /\ Source(q) = s} IN
  /\ pc[p] = "open_temp"
  /\ temp' = [temp EXCEPT ![s] = [state |-> "torn", mixed |-> others # {}, covers |-> {}]]
  /\ handle' = [handle EXCEPT ![p] = "temp"]
  /\ Goto(p, "fill_temp")
  /\ UNCHANGED <<sample, logs, checkpoint, driver, visit, attempt, batch, outcome, bounds>>

\* The cursor goes to the open file, wherever another run has moved it to.
Filled(old, contents) ==
  {[old EXCEPT !.state = "ok", !.covers = contents]}
    \cup (IF old.mixed THEN {[old EXCEPT !.state = "torn", !.covers = {}]} ELSE {})

FillTemp(p) ==
  LET s == Source(p) IN
  /\ pc[p] = "fill_temp"
  /\ IF handle[p] = "temp"
     THEN \E f \in Filled(temp[s], batch[p]) : temp' = [temp EXCEPT ![s] = f]
     ELSE UNCHANGED temp
  /\ IF handle[p] = "checkpoint"
     THEN \E f \in Filled(checkpoint[s], batch[p]) :
            checkpoint' = [checkpoint EXCEPT ![s] = f]
     ELSE UNCHANGED checkpoint
  /\ handle' = [handle EXCEPT ![p] = "none"]
  /\ Goto(p, "replace")
  /\ UNCHANGED <<sample, logs, driver, visit, attempt, batch, outcome, bounds>>

\* os.replace: the temporary file becomes the checkpoint, under the hands of a
\* run that still has it open.
Moved(q, s) ==
  IF pc[q] # "fill_temp" \/ Source(q) # s THEN handle[q]
  ELSE IF handle[q] = "temp" THEN "checkpoint" ELSE "unlinked"

Replace(p) ==
  LET s == Source(p) IN
  /\ pc[p] = "replace"
  /\ temp[s].state # "absent"
  /\ checkpoint' = [checkpoint EXCEPT ![s] = temp[s]]
  /\ temp' = [temp EXCEPT ![s] = Absent]
  /\ outcome' = [outcome EXCEPT ![p][s] = "ok"]
  /\ visit' = [visit EXCEPT ![p] = @ + 1]
  /\ attempt' = [attempt EXCEPT ![p] = 0]
  /\ batch' = [batch EXCEPT ![p] = {}]
  /\ handle' = [q \in Runs |-> Moved(q, s)]
  /\ Goto(p, "visit")
  /\ UNCHANGED <<sample, logs, driver, bounds>>

\* Another run has renamed the temporary file: os.replace does not find it.
ReplaceMissing(p) ==
  /\ pc[p] = "replace"
  /\ temp[Source(p)].state = "absent"
  /\ AttemptFails(p)
  /\ UNCHANGED <<sample, logs, checkpoints, bounds>>

\* Any other failure on the way to the new checkpoint.
BreakSave(p) ==
  /\ pc[p] \in {"open_temp", "fill_temp", "replace"}
  /\ Fault(p) \/ Die(p)
  /\ UNCHANGED <<sample, logs, checkpoints, tears>>

\* The run writes ingestion_status.json and its report and ends; the totals in
\* them are counted anew from the whole of events.jsonl.
Report(p) ==
  /\ pc[p] = "visit"
  /\ visit[p] = Len(Order) + 1
  /\ Goto(p, "idle")
  /\ visit' = [visit EXCEPT ![p] = 1]
  /\ UNCHANGED <<sample, logs, checkpoints, driver, attempt, batch, handle, outcome, bounds>>

-----------------------------------------------------------------------------

Step(p) ==
  \/ Skip(p)
  \/ Visit(p)
  \/ Parse(p)
  \/ AppendNormalized(p)
  \/ AppendRaw(p)
  \/ OpenTemp(p)
  \/ FillTemp(p)
  \/ Replace(p)
  \/ ReplaceMissing(p)
  \/ Report(p)

Break(p) == BreakAppend(p) \/ BreakSave(p)

Next ==
  \/ \E r \in Records : Arrive(r)
  \/ \E p \in Runs : Step(p) \/ Break(p)
  \/ \E p \in Runs, d \in {"logger", "adapter"} : Start(p, d)

Spec == Init /\ [][Next]_vars

\* A started program keeps running until it ends or is killed.
FairSpec == Spec /\ \A p \in Runs : WF_vars(Step(p) \/ Break(p))

-----------------------------------------------------------------------------
(* Properties. *)

\* A checkpoint never runs ahead of the logs: every record it counts can be
\* read from both, through retries, crashes and overlapping runs.
CheckpointCovers ==
  \A s \in Sources :
    checkpoint[s].state = "ok" =>
      \A r \in checkpoint[s].covers : events[r] > 0 /\ raws[r] > 0

\* A record is stored at most once per attempt of each run, and never more often
\* raw than as an event, whichever of the two appends broke off and was repeated.
BoundedCopies == \A r \in Records : raws[r] <= events[r] /\ events[r] <= started * MaxAttempts

\* "Isolating each source so one failure never crashes the others": while runs
\* do not overlap, a source is reported failed only when a record of its own
\* raises or at least as many writes have failed as it had attempts (all that
\* failed so far are counted, not only its own), and a run that ends reports
\* every source.
FailuresHaveACause ==
  \A p \in Runs :
    /\ visit[p] > Len(Order) => \A s \in Sources : outcome[p][s] # "none"
    /\ \A s \in Sources :
         outcome[p][s] = "failed" =>
           \/ \E r \in sample \cap Poison : SourceOf[r] = s
           \/ faults >= Attempts(p)

\* "Writes are atomic (temp file + replace) so a crash mid-write never corrupts
\* the last good checkpoint", as long as no two runs overlap: a temporary file that
\* a killed run left half-written is never put into place by a later one.
CheckpointAtomic ==
  [][\A s \in Sources : checkpoint[s].state = "ok" => checkpoint'[s].state = "ok"]_vars

\* Every run ends, also when each attempt at a source raises or another run
\* keeps renaming its temporary files.
RunsEnd ==
  \A p \in Runs : pc[p] \notin {"idle", "killed"} ~> pc[p] \in {"idle", "killed"}

\* Attempts are accounted for (scheduler.py): what failed has a cause, and what
\* was repeated is bounded by the attempts.
AttemptsAccounted == FailuresHaveACause /\ BoundedCopies
=============================================================================
