---------------------------- MODULE FeatureSelection ----------------------------
(***************************************************************************)
(* Engine A, src/features: the columns of the prepared splits a model is   *)
(* trained on.  Variance, then correlation, then the best scores, each     *)
(* fitted on the training split (configs/features.yaml: pearson, top-k).   *)
(***************************************************************************)
EXTENDS DatasetPreparation

CONSTANTS
  Provenance,  \* metadata.PROVENANCE_COLUMNS
  Threshold,   \* the square of the correlation from which on one of two columns is
               \* enough, in tenths
  TopK         \* number_of_features

ASSUME SelectionAssumption == Threshold \in 1..10 /\ TopK \in Nat \ {0}

\* select_feature_columns: neither provenance nor words.
FeatureColumns(frame) ==
  Chosen(frame.columns, {x \in frame.numeric : ~(x[2] = None /\ x[1] \in Provenance)})

\* The rows where both columns have a value, and their mean products over some
\* rows, times the count squared.
Both(a, b) == Chosen(Indices(a), {i \in DOMAIN a : a[i] # Missing /\ b[i] # Missing})
Covariance(a, b, rows) ==
  LET x == [k \in DOMAIN rows |-> a[rows[k]]]
      y == [k \in DOMAIN rows |-> b[rows[k]]]
  IN Len(rows) * Total([k \in DOMAIN rows |-> x[k] * y[k]]) - Total(x) * Total(y)
Variance(a) == Covariance(a, a, Both(a, a))

\* The variance of a single value is not a number, and not at most zero.
FitVarianceThreshold(frame, columns) ==
  Chosen(columns, {x \in ToSet(columns) : Len(Present(frame, x)) <= 1 \/ Variance(Column(frame, x)) > 0})

\* Of two columns the rows count where both have a value.
Correlated(frame, x, y) ==
  LET a == Column(frame, x)
      b == Column(frame, y)
      rows == Both(a, b)
      v == Covariance(a, a, rows) * Covariance(b, b, rows)
      c == Covariance(a, b, rows)
  IN v > 0 /\ 10 * c * c >= Threshold * v

\* Mutant: a column is compared with the one before it only.
CorrelationFilterOfNeighbours(frame, columns) ==
  LET kept == Chosen(Indices(columns), {i \in DOMAIN columns : i = 1 \/ ~Correlated(frame, columns[i-1], columns[i])})
  IN [k \in DOMAIN kept |-> columns[kept[k]]]

\* A column goes when it is correlated with one before it, also with one that goes.
FitCorrelationFilter(frame, columns) ==
  LET kept == Chosen(Indices(columns),
                     {i \in DOMAIN columns : \A j \in 1..(i-1) : ~Correlated(frame, columns[j], columns[i])})
  IN [k \in DOMAIN kept |-> columns[kept[k]]]

\* The score of a column, from outside: the pairs of rows it tells apart as the label does.
Score(frame, x) ==
  Cardinality({p \in (DOMAIN frame.rows) \X (DOMAIN frame.rows) :
    /\ frame.rows[p[1]].label # frame.rows[p[2]].label
    /\ frame.rows[p[1]].cell[x] # frame.rows[p[2]].cell[x]})

\* The first k of the ranking, the first column first among equals.
SelectTop(frame, columns) ==
  LET score == [i \in DOMAIN columns |-> Score(frame, columns[i])]
      Rank(i) == Cardinality({j \in DOMAIN columns : score[j] > score[i] \/ (score[j] = score[i] /\ j < i)}) + 1
      ranked == [k \in DOMAIN columns |-> columns[CHOOSE i \in DOMAIN columns : Rank(i) = k]]
  IN SubSeq(ranked, 1, IF TopK < Len(ranked) THEN TopK ELSE Len(ranked))

\* The columns of a frame, which has them all.
Project(frame, columns) ==
  [ columns |-> columns, numeric |-> frame.numeric \cap ToSet(columns),
    rows |-> [i \in DOMAIN frame.rows |->
      [frame.rows[i] EXCEPT !.cell = [x \in ToSet(columns) |-> frame.rows[i].cell[x]]]] ]

\* run_feature_pipeline on the splits it read: None where it raises, as it does
\* where a split lacks a column of train, nothing is left to score, or a column
\* to be scored has a hole.
RunFeaturePipeline(frames) ==
  LET train == frames["train"]
      original == FeatureColumns(train)
      lacking == \E s \in DOMAIN frames : ~(ToSet(original) \subseteq ToSet(frames[s].columns))
      kept == FitCorrelationFilter(train, FitVarianceThreshold(train, original))
      holes == \E x \in ToSet(kept) : Values(train, x) \cap {Missing, Infinite} # {}
      retained == SelectTop(train, kept)
  IN IF lacking \/ kept = <<>> \/ holes THEN None
     ELSE [ original |-> original, kept |-> kept, retained |-> retained,
            frames |-> [s \in DOMAIN frames |-> Project(frames[s], retained)] ]
=============================================================================
