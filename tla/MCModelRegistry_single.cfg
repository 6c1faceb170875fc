SPECIFICATION Spec
CONSTANTS
  Experiments = {1, 2, 3}
  Datasets = {"unsw_nb15", "cicids2017"}
  Models = {"xgboost"}
  DatasetOf <- TwoOneDatasets
  ModelOf <- OneModel
  TestF1 <- MissingF1
  Optimized = {}
  Writers = {w1}
  None = None
  Exclusive = TRUE
  HigherIsBetter = TRUE
  RequireTestMetrics = FALSE
  AllowOptimized = TRUE
  MaxCrashes = 1
  MaxEdits = 2
INVARIANTS
  TypeOK
  StatusAgreement
PROPERTIES
  PromotionsInOrder
  BestPublished
  ImplementsRegister
CHECK_DEADLOCK FALSE
