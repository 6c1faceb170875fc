SPECIFICATION Spec
CONSTANTS
  Experiments = {1, 2}
  Datasets = {"unsw_nb15", "cicids2017"}
  Models = {"xgboost"}
  DatasetOf <- OneDataset
  ModelOf <- OneModel
  TestF1 <- RisingF1
  Optimized = {}
  Writers = {w1, w2}
  None = None
  Exclusive = FALSE
  HigherIsBetter = TRUE
  RequireTestMetrics = TRUE
  AllowOptimized = TRUE
  MaxCrashes = 1
  MaxEdits = 0
INVARIANTS
  OneProductionPerDataset
  AssignmentFitsDataset
SYMMETRY WriterSymmetry
CHECK_DEADLOCK FALSE
