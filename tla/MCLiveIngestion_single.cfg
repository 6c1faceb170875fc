SPECIFICATION Spec
CONSTANTS
  Order <- TwoSources
  Records = {1, 2, 3}
  SourceOf <- ThirdApart
  Poison = {3}
  Enabled = {"sophos_api"}
  MaxAttempts = 2
  Runs = {p1}
  MaxRuns = 3
  MaxFaults = 2
  MaxCrashes = 1
  MaxTears = 0
INVARIANTS
  TypeOK
  AttemptsAccounted
PROPERTIES
  CheckpointAtomic
CHECK_DEADLOCK FALSE
