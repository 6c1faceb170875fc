------------------------------ MODULE TrainingPlan ------------------------------
(***************************************************************************)
(* Engine A: the plan of an offline workflow (src/ml_workflow/planner.py,  *)
(* for one dataset) and the epochs of a deep model                         *)
(* (src/models/deep_learning/base.py).                                     *)
(***************************************************************************)
EXTENDS FeatureSelection

CONSTANTS
  Patience, MinDelta  \* early_stopping

ASSUME LoopAssumption == Patience \in Nat \ {0} /\ MinDelta \in Nat

STEP_ORDER ==
  << "validate", "audit", "preprocess", "features", "train", "validation_report", "experiment_index",
     "explainability", "error_analysis", "visualizations", "registry", "promote", "resolve" >>
MODELS == <<"xgboost", "mlp">>
PerModel == {"train", "explainability", "error_analysis", "visualizations", "promote"}

\* The selection in the canonical order, each step once; None when it is not known.
NormalizeSteps(selected) ==
  CASE selected = <<>> \/ "all" \in ToSet(selected) -> STEP_ORDER
    [] ~(ToSet(selected) \subseteq ToSet(STEP_ORDER) \cup {"all"}) -> None
    [] OTHER -> Chosen(STEP_ORDER, ToSet(selected))

ExpandModels(selected) == Chosen(MODELS, IF selected = {} THEN ToSet(MODELS) ELSE selected)

BuildPlan(steps, models) ==
  LET keys == NormalizeSteps(steps)
      Of(s) == IF s \in PerModel
               THEN [i \in DOMAIN ExpandModels(models) |-> [step |-> s, model |-> ExpandModels(models)[i]]]
               ELSE <<[step |-> s, model |-> None]>>
  IN IF keys = None THEN <<>> ELSE FlattenSeq([i \in DOMAIN keys |-> Of(keys[i])])

-----------------------------------------------------------------------------
(* _train_loop over the losses the epochs would have; Missing is NaN.      *)

BeforeTraining == [best |-> Infinite, bad |-> 0, restored |-> 0, epochs |-> 0, stopped |-> FALSE]
Improves(loss, best) == loss # Missing /\ (best = Infinite \/ (best # Infinite /\ loss < best - MinDelta))

Epoch(loop, loss) ==
  CASE loop.stopped -> loop
    [] ~loop.stopped /\ Improves(loss, loop.best) ->
         [loop EXCEPT !.best = loss, !.bad = 0, !.restored = loop.epochs + 1, !.epochs = @ + 1]
    [] OTHER -> [loop EXCEPT !.bad = @ + 1, !.epochs = @ + 1, !.stopped = loop.bad + 1 >= Patience]

\* Mutant: the weights of the last epoch are kept.
TrainLoopKeepingLast(losses) ==
  LET end == FoldLeft(Epoch, BeforeTraining, losses) IN [epochs |-> end.epochs, weights |-> end.epochs]

\* The weights of the best epoch, or of the last one when no loss was a number.
TrainLoop(losses) ==
  LET end == FoldLeft(Epoch, BeforeTraining, losses)
  IN [epochs |-> end.epochs, weights |-> IF end.restored = 0 THEN end.epochs ELSE end.restored]
=============================================================================
