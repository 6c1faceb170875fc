--------------------------- MODULE DatasetPreparation ---------------------------
(***************************************************************************)
(* Engine A, src/data: a raw dataset is loaded, validated, cleaned, split, *)
(* encoded and scaled.  A cell is a number, a word, Missing or Infinite; a *)
(* row keeps the file and the place it came from.  Of the configuration    *)
(* (configs/data.yaml) the choices that decide about rows and holes are    *)
(* parameters; the rest is as it is there: one-hot encoding, standard      *)
(* scaling, shuffled splits.                                               *)
(***************************************************************************)
EXTENDS Integers, FiniteSets, SequencesExt

CONSTANTS
  Missing, Infinite,
  None,
  TrainFile, TestFile,
  Words,        \* the words a cell may hold, in their order
  Filler,       \* categorical_fill_value
  Label,        \* label_column
  Categorical,  \* categorical_columns
  Dropped,      \* drop_columns of the dataset
  Shares,       \* the parts of train, validation and test
  Seed

\* A sequence of its own elements.
Listed(seq) == seq \in Seq(ToSet(seq))

ASSUME DatasetAssumption ==
  /\ Listed(Words) /\ {Filler, TrainFile, TestFile} \subseteq ToSet(Words)
  /\ \A mark \in {Missing, Infinite, None} : mark \notin Int /\ mark \notin ToSet(Words)
  /\ Missing \notin {Infinite, None}
  /\ Listed(Categorical)
  /\ Label \notin ToSet(Categorical) \cup Dropped
  /\ \A s \in {"train", "validation", "test"} : Shares[s] \in Nat \ {0}
  /\ Seed \in Nat

SplitNames == <<"train", "validation", "test">>

\* The elements that are in S, in their order: SelectSeq by a set.
Chosen(seq, S) == FoldLeft(LAMBDA out, x : IF x \in S THEN Append(out, x) ELSE out, <<>>, seq)
Indices(seq) == [i \in DOMAIN seq |-> i]

Least(S) == CHOOSE x \in S : \A y \in S : x <= y
Total(values) == FoldLeft(LAMBDA sum, v : sum + v, 0, values)

\* Numbers in their order, then words in theirs, then holes.
Position(v) == IF v \in ToSet(Words) THEN CHOOSE i \in DOMAIN Words : Words[i] = v ELSE Len(Words) + 1
Before(v, w) ==
  CASE v \in Int /\ w \in Int -> v < w
    [] v \in Int /\ w \notin Int -> TRUE
    [] v \notin Int /\ w \in Int -> FALSE
    [] OTHER -> Position(v) < Position(w)
Sorted(S) == [k \in 1..Cardinality(S) |-> CHOOSE v \in S : Cardinality({w \in S : Before(w, v)}) = k - 1]

Column(table, c) == [i \in DOMAIN table.rows |-> table.rows[i].cell[c]]
Values(table, c) == ToSet(Column(table, c))
Present(table, c) == Chosen(Column(table, c), Values(table, c) \ {Missing})

-----------------------------------------------------------------------------
(* The loader: the train and the test file one below the other, with the   *)
(* file noted in the column split.                                         *)

\* A raw file has the columns of the other one, full of holes where it lacks them,
\* and its rows have cells in them.
IsRaw(file, files) ==
  /\ Listed(file.columns) /\ Listed(file.rows)
  /\ \A f \in {TrainFile, TestFile} : files[f] # None => files[f].columns = file.columns
  /\ \A row \in ToSet(file.rows) : ToSet(file.columns) \subseteq DOMAIN row
  /\ \A row \in ToSet(file.rows) : \A c \in ToSet(file.columns) :
       row[c] \in Int \/ row[c] \in ToSet(Words) \cup {Missing, Infinite}

Rows(files, f) ==
  [i \in DOMAIN files[f].rows |->
     [ id |-> <<f, i>>,
       cell |-> [c \in DOMAIN files[f].rows[i] \cup {"split"} |-> IF c = "split" THEN f ELSE files[f].rows[i][c]] ]]

\* None where a file is missing, the label is, or there are no rows.
LoadRaw(files) ==
  LET read == Append(files[TrainFile].columns, "split")
      columns == Chosen(read, ToSet(read) \ Dropped)
      rows == Rows(files, TrainFile) \o Rows(files, TestFile)
      Number(c) == \A i \in DOMAIN rows : rows[i].cell[c] \in Int \cup {Missing, Infinite}
  IN IF None \in {files[TrainFile], files[TestFile]} THEN None
     ELSE IF Label \notin ToSet(columns) \/ rows = <<>> THEN None
     ELSE [columns |-> columns, numeric |-> {c \in ToSet(columns) : Number(c)}, rows |-> rows]

\* build_report has errors: a column without a single value.
SchemaFails(table) == \E c \in ToSet(table.columns) : Values(table, c) = {Missing}

-----------------------------------------------------------------------------
(* cleaning.py                                                             *)

\* duplicate_keep, numeric_impute and categorical_impute.
Cleanings ==
  [ keep : {"first", "last", "none"}, numbers : {"median", "zero", "drop", "none"},
    words : {"most_frequent", "constant", "drop", "none"} ]

WithoutInfinities(row) == [row EXCEPT !.cell = [c \in DOMAIN @ |-> IF @[c] = Infinite THEN Missing ELSE @[c]]]
ReplaceInfinities(table) == [table EXCEPT !.rows = [i \in DOMAIN @ |-> WithoutInfinities(@[i])]]

\* keep: first, last or none.
DropDuplicateRows(table, keep) ==
  LET Same(i, j) == \A c \in ToSet(table.columns) : table.rows[i].cell[c] = table.rows[j].cell[c]
      Twins(i) == {j \in DOMAIN table.rows \ {i} : Same(i, j)}
      Stays(i) == CASE keep = "first" -> \A j \in Twins(i) : i < j
                    [] keep = "last" -> \A j \in Twins(i) : j < i
                    [] keep = "none" -> Twins(i) = {}
      kept == Chosen(Indices(table.rows), {i \in DOMAIN table.rows : Stays(i)})
  IN [table EXCEPT !.rows = [k \in DOMAIN kept |-> table.rows[kept[k]]]]

DropConstantColumns(table) ==
  [table EXCEPT !.columns = Chosen(@, {c \in ToSet(@) : Cardinality(Values(table, c)) > 1})]

DropAllNullRows(table) ==
  [table EXCEPT !.rows = Chosen(@, {r \in ToSet(@) : \E c \in ToSet(table.columns) : r.cell[c] # Missing})]

\* The mean of the two in the middle, rounded down, where there are two.
Median(values) ==
  LET n == Len(values)
      Kth(k) == CHOOSE v \in ToSet(values) :
                  /\ Cardinality({i \in DOMAIN values : Before(values[i], v)}) < k
                  /\ Cardinality({i \in DOMAIN values : ~Before(v, values[i])}) >= k
      low == Kth((n + 1) \div 2)
      high == Kth((n + 2) \div 2)
  IN IF high = Infinite THEN Infinite ELSE (low + high) \div 2

MostFrequent(values) ==
  LET Count(v) == Cardinality({i \in DOMAIN values : values[i] = v})
      modes == {v \in ToSet(values) : \A w \in ToSet(values) : Count(w) <= Count(v)}
  IN Sorted(modes)[1]

\* What a hole of a column becomes; Missing where the strategy is none, or it
\* is the median and there is none.
FillOf(table, c, strategy) ==
  LET values == Present(table, c)
  IN CASE strategy = "zero" -> 0
       [] strategy = "median" /\ values # <<>> -> Median(values)
       [] strategy = "most_frequent" /\ values # <<>> -> MostFrequent(values)
       [] strategy = "constant" \/ (strategy = "most_frequent" /\ values = <<>>) -> Filler
       [] OTHER -> Missing

Filled(row, fill) ==
  [row EXCEPT !.cell = [c \in DOMAIN @ |-> IF c \in DOMAIN fill /\ @[c] = Missing THEN fill[c] ELSE @[c]]]

\* The numbers first, then the words; "drop" drops the rows with a hole.
Impute(table, columns, strategy) ==
  LET fill == [c \in columns |-> FillOf(table, c, strategy)]
  IN IF strategy = "drop"
     THEN [table EXCEPT !.rows = Chosen(@, {r \in ToSet(@) : \A c \in columns : r.cell[c] # Missing})]
     ELSE [table EXCEPT !.rows = [i \in DOMAIN @ |-> Filled(@[i], fill)]]

ImputeMissing(table, cleaning) ==
  LET columns == ToSet(table.columns)
  IN Impute(Impute(table, columns \cap table.numeric, cleaning.numbers), columns \ table.numeric, cleaning.words)

CleanDataset(table, cleaning) ==
  ImputeMissing(DropAllNullRows(DropConstantColumns(DropDuplicateRows(ReplaceInfinities(table), cleaning.keep))),
                cleaning)

-----------------------------------------------------------------------------
(* splitting.py                                                            *)

\* train_test_split with stratify: each class in its proportion, a row more to
\* those with the largest remainders; the shuffle is a rotation by the seed.
\* None where it raises: no rows, a class of one row, or a part with fewer rows
\* than classes.
TrainTestSplit(rows, count) ==
  LET n == Len(rows)
      classes == {rows[i].cell[Label] : i \in DOMAIN rows}
      members == [v \in classes |-> {i \in DOMAIN rows : rows[i].cell[Label] = v}]
      share == [v \in classes |-> (n - count) * Cardinality(members[v])]
      order == Sorted(classes)
      floors == [k \in DOMAIN order |-> share[order[k]] \div n]
      Ahead(v) == {w \in classes : \/ share[w] % n > share[v] % n
                                   \/ share[w] % n = share[v] % n /\ Before(w, v)}
      inRest == [v \in classes |-> (share[v] \div n)
                   + IF Cardinality(Ahead(v)) < (n - count) - Total(floors) THEN 1 ELSE 0]
      InTest(i) ==
        LET class == rows[i].cell[Label]
            rank == Cardinality({j \in members[class] : j < i})
        IN (rank + Seed) % Cardinality(members[class]) >= inRest[class]
      Part(P(_)) == LET at == Chosen(Indices(rows), {i \in DOMAIN rows : P(i)}) IN [k \in DOMAIN at |-> rows[at[k]]]
  IN IF \/ rows = <<>> \/ \E v \in classes : Cardinality(members[v]) < 2
        \/ count < Cardinality(classes) \/ n - count < Cardinality(classes)
     THEN None
     ELSE [rest |-> Part(LAMBDA i : ~InTest(i)), test |-> Part(InTest)]

PartOf(n, part, whole) == (n * part + whole - 1) \div whole

\* First the test rows, then the validation rows of what is left.
TrainValTestSplit(rows) ==
  LET known == Shares["train"] + Shares["validation"]
      first == TrainTestSplit(rows, PartOf(Len(rows), Shares["test"], known + Shares["test"]))
      second == IF first = None THEN None
                ELSE TrainTestSplit(first.rest, PartOf(Len(first.rest), Shares["validation"], known))
  IN IF second = None THEN None
     ELSE [s \in ToSet(SplitNames) |->
             CASE s = "train" -> second.rest [] s = "validation" -> second.test [] s = "test" -> first.test]

-----------------------------------------------------------------------------
(* encoding.py and scaling.py.  A column of a prepared frame is            *)
(* <<column, None>>, or <<column, word>> where it was one-hot encoded.  A   *)
(* scaled number is given without its positive factor: the count of the    *)
(* training values times the number, less their sum.                       *)

Encoded(table) == Chosen(Categorical, ToSet(table.columns))
Scaled(table) == (ToSet(table.columns) \cap table.numeric) \ ({Label} \cup ToSet(Encoded(table)))

\* Mutant: the transforms are fitted on all the rows.
FitTransformsOnAll(table, splits) ==
  [ categories |-> [c \in ToSet(Encoded(table)) |-> Sorted(Values(table, c))],
    classes |-> Sorted(Values(table, Label)),
    scaler |-> [c \in Scaled(table) |-> [n |-> Len(Present(table, c)), sum |-> Total(Present(table, c))]] ]

FitTransforms(table, splits) ==
  LET train == [table EXCEPT !.rows = splits["train"]]
  IN [ categories |-> [c \in ToSet(Encoded(table)) |-> Sorted(Values(train, c))],
       classes |-> Sorted(Values(train, Label)),
       scaler |-> [c \in Scaled(table) |-> [n |-> Len(Present(train, c)), sum |-> Total(Present(train, c))]] ]

ApplyScaler(by, v) == IF v = Missing \/ by.n = 0 THEN Missing ELSE by.n * v - by.sum

\* An unknown label is -1.
ApplyLabelEncoder(classes, v) ==
  IF v \in ToSet(classes) THEN (CHOOSE k \in DOMAIN classes : classes[k] = v) - 1 ELSE -1

PreparedColumns(table, fitted) ==
  LET kept == Chosen(table.columns, ToSet(table.columns) \ (ToSet(Categorical) \cup {Label}))
      words == [k \in DOMAIN Encoded(table) |->
        [i \in DOMAIN fitted.categories[Encoded(table)[k]] |->
          <<Encoded(table)[k], fitted.categories[Encoded(table)[k]][i]>>]]
  IN [k \in DOMAIN kept |-> <<kept[k], None>>] \o FlattenSeq(words)

Transformed(table, fitted, columns, row) ==
  [x \in ToSet(columns) |->
     CASE x[2] # None -> (IF row.cell[x[1]] = x[2] THEN 1 ELSE 0)
       [] x[2] = None /\ x[1] \in DOMAIN fitted.scaler -> ApplyScaler(fitted.scaler[x[1]], row.cell[x[1]])
       [] OTHER -> row.cell[x[1]]]

PreparedFrame(table, fitted, columns, rows) ==
  [ columns |-> columns,
    numeric |-> {x \in ToSet(columns) : x[2] # None \/ x[1] \in DOMAIN fitted.scaler},
    rows |-> [i \in DOMAIN rows |->
      [ id |-> rows[i].id, label |-> ApplyLabelEncoder(fitted.classes, rows[i].cell[Label]),
        cell |-> Transformed(table, fitted, columns, rows[i]) ]] ]

\* run_pipeline, first half: the table that is split, None where it raises before.
CleanTable(files, cleaning) ==
  LET raw == LoadRaw(files)
  IN IF raw = None THEN None ELSE IF SchemaFails(raw) THEN None ELSE CleanDataset(raw, cleaning)

\* The rest of it: None where it raises and nothing is written.
PrepareSplits(table) ==
  LET splits == IF table = None THEN None
                ELSE IF Label \notin ToSet(table.columns) THEN None ELSE TrainValTestSplit(table.rows)
  IN IF splits = None THEN None
     ELSE LET fitted == FitTransforms(table, splits)
              columns == PreparedColumns(table, fitted)
          IN [ transforms |-> fitted,
               frames |-> [s \in ToSet(SplitNames) |-> PreparedFrame(table, fitted, columns, splits[s])] ]
=============================================================================
