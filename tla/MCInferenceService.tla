--------------------------- MODULE MCInferenceService ---------------------------
(***************************************************************************)
(* Instances of InferenceService for TLC: two runs compete for the one     *)
(* dataset the server answers for, or each has a dataset of its own.       *)
(***************************************************************************)
EXTENDS InferenceService

OneDataset == [e \in Experiments |-> "unsw_nb15"]
OneModel == [e \in Experiments |-> "xgboost"]
RisingF1 == [e \in Experiments |-> e]
=============================================================================
