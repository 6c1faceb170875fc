---------------------------- MODULE MCModelRegistry ----------------------------
(***************************************************************************)
(* Instances of ModelRegistry for TLC.                                     *)
(***************************************************************************)
EXTENDS ModelRegistry, TLC

\* Two runs of one dataset and model type: an interrupted promotion, a lost
\* artefact or an archived entry has a rival to be confused with.
OneDataset == [e \in Experiments |-> "unsw_nb15"]
OneModel == [e \in Experiments |-> "xgboost"]
RisingF1 == [e \in Experiments |-> e]

\* Runs 1 and 2 compete for a dataset, the first with a metric of zero, which
\* the promotion by dataset takes for none; run 3 has the other one to itself
\* and no test metrics.
TwoOneDatasets == [e \in Experiments |-> IF e = 3 THEN "cicids2017" ELSE "unsw_nb15"]
MissingF1 == [e \in Experiments |-> IF e = 3 THEN None ELSE e - 1]

\* The writers run the same programs.
WriterSymmetry == Permutations(Writers)
=============================================================================
