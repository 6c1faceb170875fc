SPECIFICATION MonitoringSpec
CONSTANTS
  Ports = {1, 2}
  Vlans = {10, 20, 30}
  Macs = {"m1", "m2"}
  None = None
  Torn = Torn
  ActiveRules <- AllRules
  Suppressed <- NoPairs
  AllowedVlans = {10, 20}
  RequiredVlans = {10, 20}
  AuthorizedVlans = {10, 20}
  ExpectedNative = 10
  MacThreshold = 2
  TopologyMacThreshold = 2
  DisabledTemplates = {"POE_DISABLED_EXPECTED"}
  InvestigationOnly = {}
  Safety <- AllChecks
  RuleMeta <- MCRuleMeta
  RecentMax = 3
  HealthTests <- MCHealthTests
  ProductionModels = {}
  SyslogRun <- MCSyslogRun
  Directories <- MCDirectories
  Comparisons <- MCComparisons
  ReportIds = {1, 2}
  IncidentSets <- MCIncidentSets
  MaxProductions = 2
  MaxKills = 1
  Options <- MCOptions
  MaxTotal = 11
  MaxReplays = 2
  MaxStarts = 2
  TTL = 2
INVARIANTS
  AnalysisSound
  ReplaySound
PROPERTIES
  ReplayEnds
  PagesCurrent
CHECK_DEADLOCK FALSE
