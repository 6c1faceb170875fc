SPECIFICATION FairServiceSpec
CONSTANTS
  Experiments = {1, 2}
  Datasets = {"unsw_nb15"}
  Models = {"xgboost"}
  DatasetOf <- OneDataset
  ModelOf <- OneModel
  TestF1 <- RisingF1
  Optimized = {}
  Writers = {w1}
  None = None
  Exclusive = TRUE
  HigherIsBetter = TRUE
  RequireTestMetrics = TRUE
  AllowOptimized = TRUE
  MaxCrashes = 0
  MaxEdits = 1
  Stage = "production"
  CacheEnabled = TRUE
  MaxRestarts = 1
  MaxPromotions = 2
  MaxFits = 2
INVARIANTS
  ServiceSound
PROPERTIES
  ServesWhenInOrder
  ImplementsServing
CHECK_DEADLOCK FALSE
