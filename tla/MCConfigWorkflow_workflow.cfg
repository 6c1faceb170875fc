SPECIFICATION Spec
CONSTANTS
  Ports = {1, 2}
  Vlans = {10, 20, 30}
  m1 = m1
  m2 = m2
  m3 = m3
  Macs = {m1, m2, m3}
  None = None
  Torn = Torn
  ActiveRules <- AllRules
  Suppressed <- NoPairs
  AllowedVlans = {10, 20}
  RequiredVlans = {10, 20}
  AuthorizedVlans = {10, 20}
  ExpectedNative = 10
  MacThreshold = 1
  TopologyMacThreshold = 2
  DisabledTemplates = {}
  InvestigationOnly = {}
  Safety <- AllChecks
  Networks <- States
  Savings <- SomeMissing
  Skips <- SomePhases
  Configs <- ShippedOnly
  MaxChanges = 1
  MaxCommands = 4
  MaxLapses = 1
INVARIANTS
  RollbackRestores
  PlansSound
  VerdictsTrue
  DiffExplains
CHECK_DEADLOCK FALSE
