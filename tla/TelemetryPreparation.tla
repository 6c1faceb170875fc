-------------------------- MODULE TelemetryPreparation --------------------------
(***************************************************************************)
(* Engine B, src/network_health: the validation of canonical telemetry     *)
(* (validation.py), its preprocessing into chronological splits            *)
(* (preprocessing.py) and the features of a split (features.py).           *)
(***************************************************************************)
EXTENDS TelemetryAdapters

CONSTANTS
  Required,  \* schema.required_columns
  Bounds,    \* [low, high] of the gauge
  Windows, Lags,
  Shares     \* split: the parts of train, validation and test

ASSUME PreparationAssumption ==
  /\ ToSet(Core) \subseteq Required /\ Required \subseteq ToSet(Core \o Optional)
  /\ Bounds.low \in Int /\ Bounds.high \in Nat /\ Bounds.low <= Bounds.high
  /\ Windows \subseteq Nat \ {0} /\ Lags \subseteq Nat \ {0}
  /\ \A s \in {"train", "validation", "test"} : Shares[s] \in Nat \ {0}

SplitNames == <<"train", "validation", "test">>

Series(row) == <<row["device_id"], row["interface_id"]>>
Key(row) == <<row["timestamp"], row["device_id"], row["interface_id"]>>
Has(frame, c) == c \in frame.columns
NumericColumns(frame) == frame.columns \cap {Counter, Gauge}

-----------------------------------------------------------------------------
(* validation.py                                                           *)

\* Rows of one series, one behind the other in the order of time.
Neighbours(rows) ==
  {i \in 2..Len(rows) : Series(rows[i]) = Series(rows[i-1]) /\ Missing \notin ToSet(Series(rows[i]))}

\* The issues as <<severity, check>>.  Without the required columns there is no
\* other check; without all the times none of the counters.
Issues(frame) ==
  LET rows == frame.rows
      Some(c, Bad(_)) == Has(frame, c) /\ \E i \in DOMAIN rows : Bad(rows[i][c])
      Word(v) == v \notin Int \cup {Missing}
      Negative(v) == v \in Int /\ v < 0
      Outside(v) == v \in Int /\ (v < Bounds.low \/ v > Bounds.high)
      NoTime(v) == v \notin Int
      ordered == SortedBy(rows, Before)
      decreases == \E i \in Neighbours(ordered) :
        /\ {ordered[i][Counter], ordered[i-1][Counter]} \subseteq Int
        /\ ordered[i][Counter] < ordered[i-1][Counter]
  IN IF ~(Required \subseteq frame.columns) THEN {<<"error", "required_columns">>}
     ELSE {x \in { <<"error", "timestamp">>, <<"error", "numeric">>, <<"warning", "duplicates">>,
                   <<"warning", "missing_values">>, <<"error", "negative_values">>, <<"warning", "bounds">>,
                   <<"warning", "counter_monotonicity">> } :
            CASE x[2] = "timestamp" -> Some("timestamp", NoTime)
              [] x[2] = "numeric" -> \E c \in {Counter, Gauge} : Some(c, Word)
              [] x[2] = "duplicates" -> \E i, j \in DOMAIN rows : i < j /\ Key(rows[i]) = Key(rows[j])
              [] x[2] = "missing_values" -> \E i \in DOMAIN rows, c \in Required : rows[i][c] = Missing
              [] x[2] = "negative_values" -> \E c \in {Counter, Gauge} : Some(c, Negative)
              [] x[2] = "bounds" -> Some(Gauge, Outside)
              [] x[2] = "counter_monotonicity" -> ~Some("timestamp", NoTime) /\ Has(frame, Counter) /\ decreases}

\* The differences of a counter column with a word in it raise instead.
ValidationRaises(frame) ==
  /\ Required \subseteq frame.columns /\ Has(frame, Counter)
  /\ \A i \in DOMAIN frame.rows : frame.rows[i]["timestamp"] \in Int
  /\ \E i \in DOMAIN frame.rows : frame.rows[i][Counter] \notin Int \cup {Missing}

Passed(issues) == \A x \in issues : x[1] # "error"

ValidateTelemetry(d, frame) ==
  LET issues == Issues(frame)
  IN [ dataset |-> d, issues |-> issues, passed |-> Passed(issues), rows |-> Len(frame.rows),
       series |-> Cardinality({Series(frame.rows[i]) : i \in DOMAIN frame.rows}) ]

-----------------------------------------------------------------------------
(* preprocessing.py.  A prepared row keeps, of each number, the row it was *)
(* read from: id is the place of a row in the file.                        *)

Numbered(frame) == [i \in DOMAIN frame.rows |-> With(frame.rows[i], [timestamp |-> Numeric(frame.rows[i]["timestamp"]), id |-> i])]

Deduplicated(rows) ==
  ChosenAt(rows, {i \in DOMAIN rows : \A j \in 1..(i-1) : Key(rows[j]) # Key(rows[i])})

Timed(rows) == ChosenAt(rows, {i \in DOMAIN rows : rows[i]["timestamp"] # Missing})
Ordered(frame) == Deduplicated(SortedBy(Timed(Numbered(frame)), Before))

\* The row a number is taken from: the last one of the series up to here that
\* has it, else the first one after it; 0 when the series never has it.
SourceOf(rows, c, i) ==
  LET having == {j \in DOMAIN rows :
        Series(rows[j]) = Series(rows[i]) /\ Numeric(rows[j][c]) # Missing /\ Missing \notin ToSet(Series(rows[i]))}
      before == {j \in having : j <= i}
  IN CASE before # {} -> Largest(before)
       [] before = {} /\ having # {} -> Smallest(having)
       [] OTHER -> 0

Filled(rows, columns) ==
  LET source == [i \in DOMAIN rows |-> [c \in columns |-> SourceOf(rows, c, i)]]
      whole == [i \in DOMAIN rows |-> With(
        [ id |-> rows[i].id, time |-> rows[i]["timestamp"], series |-> Series(rows[i]),
          status |-> IF Status \in DOMAIN rows[i] THEN rows[i][Status] ELSE Missing,
          from |-> [c \in columns |-> IF source[i][c] = 0 THEN 0 ELSE rows[source[i][c]].id],
          value |-> [c \in columns |-> IF source[i][c] = 0 THEN 0 ELSE rows[source[i][c]][c]] ],
        [c \in {"label"} \cap DOMAIN rows[i] |-> rows[i][c]])]
  IN ChosenAt(whole, {i \in DOMAIN rows : \A c \in columns : source[i][c] # 0})

\* compute_counter_rates: what the counter grew by since the reading before it
\* in the series, and the seconds this took; a reset counts as no growth.
Previous(rows, i) == i > 1 /\ rows[i-1].series = rows[i].series
Larger(a, b) == IF a >= b THEN a ELSE b

\* Mutant: a series is not told from the one before it.
CounterRatesAcross(rows) ==
  [i \in DOMAIN rows |-> With(rows[i],
     [ delta |-> IF i > 1 /\ Counter \in DOMAIN rows[i].value
                 THEN Larger(0, rows[i].value[Counter] - rows[i-1].value[Counter]) ELSE 0,
       seconds |-> IF i > 1 THEN rows[i].time - rows[i-1].time ELSE 0 ])]

CounterRates(rows) ==
  [i \in DOMAIN rows |-> With(rows[i],
     [ delta |-> IF Previous(rows, i) /\ Counter \in DOMAIN rows[i].value
                 THEN Larger(0, rows[i].value[Counter] - rows[i-1].value[Counter]) ELSE 0,
       seconds |-> IF Previous(rows, i) THEN rows[i].time - rows[i-1].time ELSE 0 ])]

Clipped(rows) ==
  [i \in DOMAIN rows |-> [rows[i] EXCEPT !.value = [c \in DOMAIN @ |->
     IF c = Gauge THEN Larger(Bounds.low, IF @[c] > Bounds.high THEN Bounds.high ELSE Larger(0, @[c]))
     ELSE Larger(0, @[c])]]]

Ascending(numbers) == SortedBy(numbers, <)

\* The value below which num of den parts of the numbers lie, times den.
Quantile(numbers, num, den) ==
  LET s == Ascending(numbers)
      at == ((Len(s) - 1) * num) \div den
      rest == ((Len(s) - 1) * num) % den
  IN den * s[at+1] + rest * (IF rest = 0 THEN 0 ELSE s[at+2] - s[at+1])

ChronologicalSplit(rows) ==
  LET times == [i \in DOMAIN rows |-> rows[i].time]
      den == Shares["train"] + Shares["validation"] + Shares["test"]
      train == IF rows = <<>> THEN 0 ELSE Quantile(times, Shares["train"], den)
      validation == IF rows = <<>> THEN 0 ELSE Quantile(times, Shares["train"] + Shares["validation"], den)
  IN [ train |-> ChosenAt(rows, {i \in DOMAIN rows : den * times[i] <= train}),
       validation |-> ChosenAt(rows, {i \in DOMAIN rows : den * times[i] > train /\ den * times[i] <= validation}),
       test |-> ChosenAt(rows, {i \in DOMAIN rows : den * times[i] > validation}) ]

Prepared(frame) == Clipped(CounterRates(Filled(Ordered(frame), NumericColumns(frame))))

-----------------------------------------------------------------------------
(* features.py: the rows each feature of a row is computed from.           *)

\* The first row of the device (k = 1) or of the interface (k = 2) of row i.
FirstOf(rows, k, i) == Smallest({j \in DOMAIN rows : rows[j].series[k] = rows[i].series[k]})

\* The windows come back group by group and are put into the rows in that
\* order, one after the other.  pandas orders the groups by device and then by
\* interface, each by its first appearance among all the rows: an interface
\* that an earlier device has comes before one that no earlier device has.
GroupedOrder(rows) ==
  LET code == [k \in {1, 2} |-> [i \in DOMAIN rows |-> FirstOf(rows, k, i)]]
  IN SortedBy([i \in DOMAIN rows |-> i],
              LAMBDA i, j : \/ code[1][i] < code[1][j]
                            \/ code[1][i] = code[1][j] /\ code[2][i] < code[2][j]
                            \/ code[1][i] = code[1][j] /\ code[2][i] = code[2][j] /\ i < j)

\* Is this the order of the rows?  So it is for one device, and for devices
\* that name their interfaces alike.
InterfacesInOrder(rows) ==
  \A i, j \in DOMAIN rows :
    i < j /\ rows[i].series[1] = rows[j].series[1] => FirstOf(rows, 2, i) <= FirstOf(rows, 2, j)

\* The n-th row of the series before row i, 0 when there is none.
Earlier(rows, i, n) ==
  LET past == {j \in 1..(i-1) : rows[j].series = rows[i].series}
      here == {j \in past : Cardinality({k \in past : k >= j}) = n}
  IN IF here = {} THEN 0 ELSE Smallest(here)

\* The last w rows of the series up to row i.
Window(rows, w, i) ==
  {j \in 1..i : rows[j].series = rows[i].series
                /\ Cardinality({k \in j..i : rows[k].series = rows[i].series}) <= w}

BuildFeatures(rows) ==
  LET order == GroupedOrder(rows)
  IN [i \in DOMAIN rows |->
       [ rolling |-> [w \in Windows |-> Window(rows, w, order[i])],
         lag |-> [n \in Lags |-> Earlier(rows, i, n)],
         changed |-> LET p == Earlier(rows, i, 1)
                     IN p # 0 /\ rows[p].status # Missing /\ rows[p].status # rows[i].status ]]

=============================================================================
