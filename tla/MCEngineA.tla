------------------------------- MODULE MCEngineA -------------------------------
(***************************************************************************)
(* Engine A on a dataset of eight rows and five columns.  One worker       *)
(* prepares, selects and trains on every pattern of a column; two workers  *)
(* share the files in the other scenarios.                                 *)
(***************************************************************************)
EXTENDS EngineA, TLC

CONSTANTS Red, Blue, Normal, Attack, w1, w2

MCWords == <<Attack, Blue, Filler, Normal, Red, TestFile, TrainFile>>
MCCategorical == <<"color">>
MCDropped == {"id"}
MCShares == [train |-> 2, validation |-> 1, test |-> 1]
MCProvenance == {"split", "source"}

RawColumns == <<"id", "bytes", "packets", "flags", "color", "class">>
RawRow(id, bytes, packets, flags, color, class) ==
  "id" :> id @@ "bytes" :> bytes @@ "packets" :> packets @@ "flags" :> flags @@ "color" :> color @@ "class" :> class

\* flags follows bytes with an exception, and stands behind the pattern; two rows
\* are twins unless the pattern tells them apart.
Table(p, class) ==
  TrainFile :> [ columns |-> RawColumns,
    rows |-> << RawRow(1, 0, p[1], 0, Red, Normal), RawRow(2, 1, p[2], 2, Blue, Attack),
                RawRow(3, 2, p[3], 4, Missing, Normal), RawRow(4, 1, p[4], 2, Blue, Attack),
                RawRow(5, Missing, 3, 5, Red, Normal), RawRow(6, 3, 3, 6, Blue, class) >> ]
  @@ TestFile :> [ columns |-> RawColumns,
    rows |-> << RawRow(1, 4, 4, 8, Red, Normal), RawRow(2, 3, 1, 6, Red, Attack) >> ]
Cells == <<Missing, Infinite, 1, 2>>
Pattern(n) == [k \in 1..4 |-> Cells[((n \div 4^(k-1)) % 4) + 1]]
Plain == Table(<<1, 2, 0, 1>>, Attack)
Other == Table(<<1, 0, 1, 0>>, Attack)

\* All the numbers infinite or missing, one class of a single row, a column of
\* words where numbers were, a file that is missing, a label that is missing.
NoNumbers ==
  [f \in {TrainFile, TestFile} |-> [ columns |-> <<"bytes", "class">>,
     rows |-> [i \in 1..4 |-> "bytes" :> (IF i = 1 THEN Missing ELSE Infinite)
                                @@ "class" :> (IF i % 2 = 0 THEN Normal ELSE Attack)] ]]
Unlabelled == [f \in {TrainFile, TestFile} |-> [columns |-> <<"bytes">>, rows |-> <<"bytes" :> 2>>]]
Rare == Table(<<1, 2, 0, 1>>, Red)
HalfThere == TrainFile :> Plain[TrainFile] @@ TestFile :> None
Wordy == Table([i \in 1..4 |-> Red], Attack)
AllNull == Table([i \in 1..4 |-> Missing], Missing)

Default == [keep |-> "first", numbers |-> "median", words |-> "most_frequent"]
Workflow(steps, goesOn) == [steps |-> steps, models |-> {"xgboost"}, goesOn |-> goesOn]
Whole == <<"train", "preprocess", "features">>
Calls(a, b) == w1 :> a @@ w2 :> b
Scenario(histories, calls, cleaning, losses, bound) ==
  [ histories |-> histories, calls |-> calls, cleaning |-> cleaning, losses |-> losses,
    limits |-> [kills |-> bound, faults |-> bound, seconds |-> bound] ]

Cleaning(n) ==
  [ keep |-> <<"first", "last", "none">>[(n % 3) + 1], numbers |-> <<"median", "zero", "drop", "none">>[((n \div 3) % 4) + 1],
    words |-> <<"most_frequent", "drop", "none", "constant">>[((n \div 12) % 4) + 1] ]
Twins == Table(<<1, Missing, 1, 1>>, Attack)
Replacements == <<Other, NoNumbers, Unlabelled, Rare, HalfThere, Wordy, AllNull>>
Alone(calls) == Calls(calls, <<>>)
Preparing == <<"features", "preprocess">>
Indexing == Workflow(<<"experiment_index">>, FALSE)
Search == [steps |-> <<"optimize">>, models |-> {}, goesOn |-> FALSE]
AllScenarios ==
  [i \in 1..256 |-> Scenario(<<Table(Pattern(i), Attack)>>, Alone(<<Workflow(Whole, FALSE)>>), Default, {}, 0)]
  \o [i \in 1..96 |-> Scenario(<<IF i <= 48 THEN Plain ELSE Twins>>, Alone(<<Workflow(Whole, FALSE)>>),
                               Cleaning(i), {}, 0)]
  \o [i \in 1..14 |-> Scenario(<<Plain, Replacements[((i - 1) \div 2) + 1]>>,
                               Alone(<<Workflow(Whole, FALSE), Workflow(Whole, i % 2 = 0)>>), Default, {}, 1)]
  \o << Scenario(<<Plain>>, Alone(<<[Workflow(Whole, FALSE) EXCEPT !.models = {"mlp"}]>>), Default,
                 [1..4 -> {Missing, 1, 2, 3, 5}], 0),
        Scenario(<<Plain>>, Calls(<<Workflow(Whole, FALSE)>>, <<Workflow(<<"train">>, FALSE), Indexing>>),
                 Default, {}, 1),
        Scenario(<<Plain>>, Calls(<<Workflow(Preparing, FALSE)>>, <<Search>>), Default, {}, 0),
        Scenario(<<Plain, Other>>, Alone(<<Workflow(Preparing, FALSE), Workflow(Preparing, TRUE), Search>>),
                 Default, {}, 1),
        Scenario(<<Plain>>, Alone(<<Workflow(<<"all">>, FALSE)>>), Default, {}, 1) >>

\* TLC evaluates AllScenarios once.
MCScenarios == AllScenarios
=============================================================================
