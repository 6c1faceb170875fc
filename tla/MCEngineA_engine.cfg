SPECIFICATION EngineSpec
CONSTANTS
  Missing = Missing
  Infinite = Infinite
  None = None
  Torn = Torn
  Header = Header
  TrainFile = TrainFile
  TestFile = TestFile
  Red = Red
  Blue = Blue
  Normal = Normal
  Filler = Filler
  Attack = Attack
  w1 = w1
  w2 = w2
  Words <- MCWords
  Label = "class"
  Categorical <- MCCategorical
  Dropped <- MCDropped
  Shares <- MCShares
  Seed = 1
  Provenance <- MCProvenance
  Threshold = 9
  TopK = 2
  Patience = 2
  MinDelta = 1
  Workers = {w1, w2}
  Scenarios <- MCScenarios
  Deep = {"mlp"}
  MinRows = 1
  NTrials = 2
INVARIANTS
  PreparedSound
  SelectionSound
  TrainingSound
  StoreSound
PROPERTIES
  StoreKept
CHECK_DEADLOCK FALSE
