SPECIFICATION Spec
CONSTANTS
  Order <- OneSource
  Records = {1, 2}
  SourceOf <- ThirdApart
  Poison = {}
  Enabled = {"sophos_api"}
  MaxAttempts = 1
  Runs = {p1}
  MaxRuns = 2
  MaxFaults = 0
  MaxCrashes = 1
  MaxTears = 1
INVARIANTS
  CheckpointCovers
CHECK_DEADLOCK FALSE
