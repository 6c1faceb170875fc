--------------------------- MODULE ProductionRegister ---------------------------
(***************************************************************************)
(* What the model registry promises to those who read production.json: one *)
(* register per dataset, holding the experiment promoted last, which only  *)
(* a promotion of that dataset changes.  A promotion is one atomic step,   *)
(* and it names an experiment of the dataset it is made for.               *)
(***************************************************************************)
CONSTANTS Experiments, Datasets, DatasetOf, None

VARIABLE assigned

Init == assigned = [d \in Datasets |-> None]

Promote(d, e) ==
  /\ DatasetOf[e] = d
  /\ assigned' = [assigned EXCEPT ![d] = e]

Next == \E d \in Datasets, e \in Experiments : Promote(d, e)

Spec == Init /\ [][Next]_assigned
=============================================================================
