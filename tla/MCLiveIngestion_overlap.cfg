SPECIFICATION FairSpec
CONSTANTS
  Order <- OneSource
  Records = {1, 2}
  SourceOf <- ThirdApart
  Poison = {2}
  Enabled = {"sophos_api"}
  MaxAttempts = 2
  Runs = {p1, p2}
  MaxRuns = 3
  MaxFaults = 1
  MaxCrashes = 1
  MaxTears = 0
INVARIANTS
  CheckpointCovers
PROPERTIES
  RunsEnd
CHECK_DEADLOCK FALSE
