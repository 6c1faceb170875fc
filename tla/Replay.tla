--------------------------------- MODULE Replay ---------------------------------
(***************************************************************************)
(* scripts/run_streaming_demo.py: events are collected from artefacts that *)
(* may be being written, replayed into the monitoring state and the event  *)
(* log, and the state is written to four files.  It may loop, and may be   *)
(* killed at any point.                                                    *)
(***************************************************************************)
EXTENDS Exports

CONSTANTS
  Options,     \* command lines: [id, loop, cap]; cap is None or a number
  MaxTotal,    \* the safety cap of a replay (max_total)
  MaxReplays   \* bound

ASSUME ReplayAssumption ==
  /\ {MaxTotal, MaxReplays} \subseteq Nat /\ Options # {}
  /\ \A o \in Options : o.id \in ReportIds /\ o.loop \in BOOLEAN /\ o.cap \in Nat \cup {None}

VARIABLES
  stage,     \* idle, collect, order, emit, write, fill or done
  options,   \* its command line
  pending,   \* the files still to read or to write
  collected, \* the files it has read
  ordered,   \* the events in the order of the replay
  state,     \* the monitoring state
  log,       \* events.jsonl: the number and the event of each line
  current,   \* the four files: None, Torn, or [of, content]
  replays
replayVars == <<stage, options, pending, collected, ordered, state, log, current, replays>>

SourceFiles ==
  <<"correlation_summary", "incidents", "topology_view", "findings_view", "remediation_view", "export_metadata">>

\* A stream that is disabled or has a live flag set never gets as far as this.
StartReplay(o) ==
  /\ stage \in {"idle", "done"} /\ replays < MaxReplays
  /\ stage' = "collect" /\ options' = o /\ pending' = SourceFiles
  /\ collected' = [f \in ToSet(SourceFiles) |-> None] /\ ordered' = <<>> /\ state' = Fresh
  /\ replays' = replays + 1
  /\ UNCHANGED <<log, current>>

\* One file after the other; a torn one counts as missing.
ReadSource ==
  /\ stage = "collect" /\ pending # <<>>
  /\ LET file == Head(pending)
     IN collected' = [collected EXCEPT
          ![file] = IF file \in ToSet(ReportFiles) THEN reports[options.id][file] ELSE views[file]]
  /\ pending' = Tail(pending)
  /\ UNCHANGED <<stage, options, ordered, state, log, current, replays>>

Collect(c) ==
  SystemEvents(now) \o CorrelationEvents(c["correlation_summary"], c["incidents"]) \o ConfigEvents(c)
  \o HealthEvents \o ModelEvents \o SyslogEvents

FinishCollect ==
  /\ stage = "collect" /\ pending = <<>>
  /\ ordered' = Collect(collected) /\ stage' = "order"
  /\ UNCHANGED <<options, pending, collected, state, log, current, replays>>

\* Mutant: the log of the replay before is kept.
BeginReplayAppending ==
  /\ stage = "order"
  /\ ordered' = OrderEvents(ordered) /\ stage' = "emit"
  /\ UNCHANGED <<options, pending, collected, state, log, current, replays>>

\* The old log is removed before there is anything to put in its place.
BeginReplay ==
  /\ stage = "order"
  /\ ordered' = OrderEvents(ordered)
  /\ log' = <<>> /\ stage' = "emit"
  /\ UNCHANGED <<options, pending, collected, state, current, replays>>

\* Mutant: at the safety cap a looping replay goes round without emitting.
AtEndButLoops ==
  \/ options.cap # None /\ state.total >= options.cap
  \/ ~options.loop /\ (state.total >= MaxTotal \/ state.total = Len(ordered))

\* Asked before every event, and after the last one of a pass.
AtEnd ==
  \/ options.cap # None /\ state.total >= options.cap
  \/ state.total >= MaxTotal
  \/ ~options.loop /\ state.total = Len(ordered)

Emit ==
  /\ stage = "emit" /\ ~AtEnd /\ state.total < MaxTotal
  /\ LET e == ordered[(state.total % Len(ordered)) + 1]
     IN /\ state' = ApplyEvent(state, e)
        /\ log' = Append(log, [seq |-> state.total, event |-> e])
  /\ UNCHANGED <<stage, options, pending, collected, ordered, current, replays>>

FinishReplay ==
  /\ stage = "emit" /\ AtEnd
  /\ stage' = "write" /\ pending' = StateFiles
  /\ UNCHANGED <<options, collected, ordered, state, log, current, replays>>

TruncateState ==
  /\ stage = "write"
  /\ current' = [current EXCEPT ![Head(pending)] = Torn]
  /\ stage' = "fill"
  /\ UNCHANGED <<options, pending, collected, ordered, state, log, replays>>

FillState ==
  /\ stage = "fill"
  /\ current' = [current EXCEPT ![Head(pending)] = [of |-> replays, content |-> ContentOfState(Head(pending), state)]]
  /\ pending' = Tail(pending)
  /\ stage' = IF Tail(pending) = <<>> THEN "done" ELSE "write"
  /\ UNCHANGED <<options, collected, ordered, state, log, replays>>

\* Ctrl-C, as an operator ends a looping demo.
KillReplay ==
  /\ stage \in {"collect", "order", "emit", "write", "fill"} /\ kills < MaxKills
  /\ stage' = "idle" /\ kills' = kills + 1
  /\ pending' = <<>> /\ ordered' = <<>> /\ state' = Fresh
  /\ collected' = [f \in ToSet(SourceFiles) |-> None]
  /\ UNCHANGED <<options, log, current, replays, artefacts, views, reports, producer, now>>

ReplayInit ==
  /\ stage = "idle" /\ options \in {CHOOSE o \in Options : TRUE} /\ pending = <<>>
  /\ collected = [f \in ToSet(SourceFiles) |-> None] /\ ordered = <<>> /\ state = Fresh
  /\ log = <<>> /\ current = [f \in ToSet(StateFiles) |-> None] /\ replays = 0

ReplayStep ==
  ReadSource \/ FinishCollect \/ BeginReplay \/ Emit \/ FinishReplay \/ TruncateState \/ FillState

ReplayNext ==
  \/ (\E o \in Options : StartReplay(o)) \/ ReplayStep

-----------------------------------------------------------------------------
(* Properties. *)

Replaying == stage \in {"emit", "write", "fill", "done"}
Lines(Holds(_)) == Cardinality({n \in DOMAIN log : Holds(log[n].event)})

\* The monitoring state is what the log on disk says and nothing else, though
\* it is never computed from it: its counters count the lines, the devices and
\* the clock are those of the lines, and the lines are numbered without a gap.
LogExplainsState ==
  Replaying =>
    /\ \A n \in DOMAIN log : log[n].seq = n - 1
    /\ state.total = Len(log)
    /\ \A t \in Types : state.types[t] = Lines(LAMBDA e : e.type = t)
    /\ \A v \in DOMAIN SeverityRank : state.severities[v] = Lines(LAMBDA e : e.severity = v)
    /\ \A c \in SyslogCategories : state.categories[c] = Lines(LAMBDA e : e.engine = "syslog" /\ e.category = c)
    /\ state.devices = {log[n].event.device : n \in DOMAIN log} \ {None}
    /\ state.clock = "degraded" <=> Lines(LAMBDA e : e.engine = "syslog" /\ e.type = "safety_status") > 0
    /\ state.recent = [n \in 1..Min({RecentMax, Len(log)}) |-> log[Len(log) - Min({RecentMax, Len(log)}) + n].event.id]

\* Within a pass over the events time never goes back, and what has no time of
\* its own comes after everything that has.
ReplayChronological ==
  Replaying =>
    \A m, n \in 1..Min({Len(log), Len(ordered)}) : m < n =>
      LET a == log[m].event.at
          b == log[n].event.at
      IN b # None => a # None /\ a <= b

\* However often a looping replay repeats an incident it is active once: as
\* many are active as different ones were logged.
IncidentsActiveOnce ==
  Replaying =>
    DOMAIN state.incidents = {log[n].event.incident : n \in DOMAIN log} \ {None}

\* What /live shows (webapp/server/src/loaders/streaming.js).
LiveMonitor ==
  LET Content(file) == IF Readable(current[file]) THEN current[file].content ELSE None
      s == Content("current_state")
      summary == Content("stream_summary")
  IN IF {s, summary} = {None} THEN [available |-> FALSE]
     ELSE [available |-> TRUE, totals |-> IF s = None THEN summary ELSE s,
           incidents |-> Content("active_incidents"), recent |-> Content("recent_events")]

\* After a replay the live page adds up: as many events as the log has, the
\* incidents it counts are the incidents it lists; and before the next replay
\* rewrites them, a new summary stands beside nothing that is older.
LiveMonitorAddsUp ==
  /\ stage = "done" =>
       /\ LiveMonitor.available /\ LiveMonitor.totals.total = Len(log)
       /\ LiveMonitor.totals.active = Cardinality(DOMAIN LiveMonitor.incidents)
  /\ Readable(current["stream_summary"]) =>
       \A f \in ToSet(StateFiles) : Readable(current[f]) => current[f].of >= current["stream_summary"].of

\* A replay comes to its end, also when it loops: by its cap, or by the safety
\* cap; unless it is killed.
ReplayEnds == (stage = "collect") ~> (stage \in {"done", "idle"})

=============================================================================
