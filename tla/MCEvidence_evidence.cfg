SPECIFICATION Spec
CONSTANTS
  None = None
  Torn = Torn
  FlapWarn = 2
  FlapHigh = 3
  MovesWarn = 2
  MovesHigh = 5
  SnmpWarn = 2
  SnmpHigh = 4
  ErpsWarn = 1
  Window = 5
  ExtraWindows = {15, 60}
  TrainPct = 60
  ValPct = 20
  NameRank <- MCNameRank
  NormalName <- MCNormalName
  MinAttempts = 3
  MinFlaps = 2
  MinMacFlaps = 2
  Boosts <- MCBoosts
  Disabled = {}
  Registry <- MCRegistry
  CyberRuns = {1, 2}
  Families <- MCFamilies
  MaxGeneric = 1
  RunIds = {"r1", "r2"}
  Inputs <- MCInputs
  Snapshots <- MCSnapshots
  Commands <- MCCommands
  Ingestions <- MCIngestions
  HealthRuns <- MCHealthRuns
  MaxIngests = 1
  MaxCorrelations = 2
  MaxKills = 1
INVARIANTS
  WindowsSound
  LogsReported
  IncidentsSound
  SummaryLast
CHECK_DEADLOCK FALSE
