------------------------------- MODULE Monitoring -------------------------------
(***************************************************************************)
(* The producers of Exports with one of the two programs that read what    *)
(* they write: the replay of the event stream or the web server.  The two  *)
(* readers share nothing that either of them writes, so that each behaves  *)
(* beside the other as it does alone.                                      *)
(***************************************************************************)
EXTENDS Replay, Dashboard

CONSTANTS MaxStarts  \* bound: programs started, of either kind

ASSUME MonitoringAssumption == MaxStarts \in Nat

VARIABLE reader  \* which of the two

monitoringVars == <<exportVars, replayVars, serverVars, reader>>

MonitoringInit == ExportsInit /\ ReplayInit /\ ServerInit /\ reader \in {"replay", "server"}

MonitoringNext ==
  \/ ExportsNext /\ now' + replays <= MaxStarts /\ UNCHANGED <<replayVars, serverVars, reader>>
  \/ reader = "replay" /\ ReplayNext /\ now + replays' <= MaxStarts /\ UNCHANGED <<exportVars, serverVars, reader>>
  \/ reader = "replay" /\ KillReplay /\ UNCHANGED <<serverVars, reader>>
  \/ reader = "server" /\ ServerNext /\ UNCHANGED <<exportVars, replayVars, reader>>

\* A replay that was started goes on, pages are asked for and time passes;
\* nobody has to start or finish a production.
Fairness ==
  /\ WF_monitoringVars(reader = "replay" /\ ReplayStep /\ UNCHANGED <<exportVars, serverVars, reader>>)
  /\ WF_monitoringVars(reader = "server" /\ GetOverview /\ UNCHANGED <<exportVars, replayVars, reader>>)
  /\ WF_monitoringVars(reader = "server" /\ Tick /\ UNCHANGED <<exportVars, replayVars, reader>>)

MonitoringSpec == MonitoringInit /\ [][MonitoringNext]_monitoringVars /\ Fairness

-----------------------------------------------------------------------------
\* Every variable keeps its type.
MonitoringTypeOK ==
  /\ DOMAIN artefacts = ArtefactFiles
  /\ DOMAIN views = AllViews /\ DOMAIN reports = ReportIds
  /\ producer # None => producer.todo # <<>> /\ producer.open \in BOOLEAN
  /\ now \in 0..MaxProductions /\ kills \in 0..MaxKills
  /\ stage \in {"idle", "collect", "order", "emit", "write", "fill", "done"}
  /\ options \in Options
  /\ DOMAIN current = ToSet(StateFiles)
  /\ state.total \in 0..MaxTotal /\ replays \in 0..MaxReplays
  /\ \A key \in Keys : cache[key] # None => cache[key].age \in 0..(TTL - 1)
  /\ reader \in {"replay", "server"}

\* What the intelligence and the export of Engine C say follows from the findings
\* of the snapshot, and the variables keep their types.
AnalysisSound == MonitoringTypeOK /\ SeriousFindingsHaveItems /\ RiskFollowsVerdict /\ CardsMatchFindings

\* The monitoring state is what was replayed, in order, and counts nothing twice.
ReplaySound == LogExplainsState /\ ReplayChronological /\ IncidentsActiveOnce /\ LiveMonitorAddsUp

\* When it is the server that reads, its overview catches up with the disk: it
\* shows the run that the server takes for the newest, as it is now.
PagesCurrent == reader = "server" => PageCatchesUp
=============================================================================
