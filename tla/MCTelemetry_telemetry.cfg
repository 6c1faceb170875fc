SPECIFICATION TelemetrySpec
CONSTANTS
  Missing = Missing
  None = None
  Torn = Torn
  Up = Up
  Down = Down
  Normal = Normal
  Faulty = Faulty
  Junk = Junk
  Definitions <- MCDefinitions
  Names <- MCNames
  UpWords <- MCUp
  DownWords <- MCDown
  BenignWords <- MCBenign
  Required <- MCRequired
  Bounds <- MCBounds
  Windows = {2}
  Lags = {1, 2}
  Shares <- MCShares
  Histories <- MCHistories
  MaxJobs = 4
  MaxKills = 1
  MaxSeconds = 1
INVARIANTS
  RowsSound
  ArtefactsSound
PROPERTIES
  ExperimentsKept
CHECK_DEADLOCK FALSE
