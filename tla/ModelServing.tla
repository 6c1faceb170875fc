------------------------------ MODULE ModelServing ------------------------------
(***************************************************************************)
(* What the inference API promises about the model behind /predict: it is  *)
(* one that was assigned to the dataset when the server started or later,  *)
(* and it does not change until the server is restarted.                   *)
(***************************************************************************)
EXTENDS Naturals, Sequences

CONSTANTS Experiments, Datasets, None

VARIABLES
  history,  \* the assignments of each dataset so far, None when withdrawn
  mark,     \* how many of them the server found when it started
  serving   \* the model behind /predict, None until the first request

vars == <<history, mark, serving>>

Init ==
  /\ history = [d \in Datasets |-> << >>]
  /\ mark = [d \in Datasets |-> 0]
  /\ serving = [d \in Datasets |-> None]

\* Assignments change, of one or of several datasets at once.
Assign ==
  /\ history' \in [Datasets -> Seq(Experiments \cup {None})]
  /\ \A d \in Datasets :
       \/ history'[d] = history[d]
       \/ \E e \in Experiments \cup {None} : history'[d] = Append(history[d], e)
  /\ UNCHANGED <<mark, serving>>

\* The first request loads an assignment no older than the server.
Load(d, e) ==
  /\ serving[d] = None
  /\ \E i \in DOMAIN history[d] : i >= mark[d] /\ history[d][i] = e
  /\ serving' = [serving EXCEPT ![d] = e]
  /\ UNCHANGED <<history, mark>>

Restart ==
  /\ mark' = [d \in Datasets |-> Len(history[d])]
  /\ serving' = [d \in Datasets |-> None]
  /\ UNCHANGED history

Next ==
  \/ Assign
  \/ \E d \in Datasets, e \in Experiments : Load(d, e)
  \/ Restart

Spec == Init /\ [][Next]_vars
=============================================================================
