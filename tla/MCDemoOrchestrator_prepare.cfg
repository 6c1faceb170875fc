SPECIFICATION Spec
CONSTANTS
  EngineADatasets <- TwoDatasets
  Options <- Invocations
  None = None
  Torn = Torn
  MaxRuns = 2
  MaxFaults = 1
  MaxKills = 1
  MaxOutside = 2
INVARIANTS
  PreparedIsFresh
  OnlyAsked
  ReportSound
  FailureStops
  RepairsItself
CHECK_DEADLOCK FALSE
