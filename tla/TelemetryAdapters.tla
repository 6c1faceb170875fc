--------------------------- MODULE TelemetryAdapters ---------------------------
(***************************************************************************)
(* Engine B, src/network_health: what the adapters make of a raw export    *)
(* (adapters.py), the datasets they are registered for                     *)
(* (dataset_registry.py) and the canonical columns (schema.py).  A column  *)
(* name is its normalised token; of the counters, gauges and statuses,     *)
(* which are all treated alike, there is one of each.  A cell is a number, *)
(* a word or Missing.                                                      *)
(***************************************************************************)
EXTENDS Integers, FiniteSets, SequencesExt

CONSTANTS
  Missing,     \* NaN and NaT
  Definitions, \* the datasets registered: [type, aliases, device, port, labels]
  Names,       \* device and interface names in their order, the generated ones too
  UpWords, DownWords, BenignWords

\* A sequence of its own elements.
Listed(seq) == seq \in Seq(ToSet(seq))

ASSUME AdapterAssumption ==
  /\ Missing \notin Int
  /\ Listed(Names)
  /\ \A d \in DOMAIN Definitions :
       /\ Definitions[d].type \in {"canonical_csv", "snmp_mib_2016", "lcore_d"}
       /\ {Definitions[d].device, Definitions[d].port} \subseteq ToSet(Names)

Smallest(S) == CHOOSE x \in S : \A y \in S : x <= y
Largest(S) == CHOOSE x \in S : \A y \in S : x >= y

\* The elements at the places in S, in their order: SelectSeq by a set.
ChosenAt(seq, S) ==
  [p \in 1..Cardinality(S) |-> seq[CHOOSE i \in S : Cardinality({j \in S : j < i}) = p - 1]]

\* A record with some more fields.
With(row, more) == [f \in DOMAIN row \cup DOMAIN more |-> IF f \in DOMAIN more THEN more[f] ELSE row[f]]

Core == <<"timestamp", "device_id", "interface_id">>
Counter == "ifInOctets"
Gauge == "cpu_usage"
Status == "ifOperStatus"
Optional == <<Counter, Status, Gauge, "label">>

-----------------------------------------------------------------------------
(* Which raw column gives which canonical one.                             *)

DefaultAliases ==
  << <<"time", "timestamp">>, <<"host", "device_id">>, <<"link", "interface_id">>, <<"rx_bytes", Counter>>,
     <<"ifhcinoctets", Counter>>, <<"oper_status", Status>>, <<"cpu", Gauge>>, <<"class", "label">> >>
TypeAliases(type) ==
  CASE type = "snmp_mib_2016" -> << <<"ifhcinoctets", Counter>>, <<"ifinucastpkts", Counter>>, <<"class", "label">> >>
    [] type = "lcore_d" -> << <<"node_name", "device_id">>, <<"link", "interface_id">> >>
    [] OTHER -> <<>>

\* The names themselves, then the defaults, the type's and the dataset's own
\* aliases; a later one overrides an earlier one.
AliasIndex(def) ==
  [i \in 1..7 |-> <<(Core \o Optional)[i], (Core \o Optional)[i]>>]
    \o DefaultAliases \o TypeAliases(def.type) \o def.aliases

CanonicalOf(def, token) ==
  LET index == AliasIndex(def)
      hits == {i \in DOMAIN index : index[i][1] = token}
  IN IF hits = {} THEN Missing ELSE index[Largest(hits)][2]

\* The first raw column of a canonical name gives it, the others are dropped.
MatchColumns(def, columns) ==
  LET canonical == [i \in DOMAIN columns |-> CanonicalOf(def, columns[i])]
  IN [c \in ToSet(canonical) \ {Missing} |-> columns[Smallest({i \in DOMAIN columns : canonical[i] = c})]]

-----------------------------------------------------------------------------
(* The conversion of the cells.                                            *)

Numeric(v) == IF v \in Int THEN v ELSE Missing

\* When a cell is no number, words count where the number is missing.
CoerceStatus(v) ==
  CASE v \in UpWords -> 1
    [] v \in DownWords -> 2
    [] OTHER -> Numeric(v)

\* A column of numbers is kept, a label map decides, and otherwise all but the
\* benign words are anomalous.  Numbers next to a hole are read as floats, and
\* the "0.0" this makes of a zero is not among the benign words.
MapLabel(def, column, v) ==
  LET values == ToSet(column)
      holes == values \ Int # {}
      floats == values \subseteq Int \cup {Missing}
  IN CASE ~holes /\ DOMAIN def.labels = {} -> v
       [] DOMAIN def.labels # {} -> IF v \in DOMAIN def.labels THEN def.labels[v] ELSE Missing
       [] OTHER -> IF v \in BenignWords \/ (v = 0 /\ ~floats) THEN 0 ELSE 1

-----------------------------------------------------------------------------
(* Frames: [columns, rows], a row a function of the columns.               *)

Rank(name) == IF name = Missing THEN Len(Names) + 1 ELSE CHOOSE i \in DOMAIN Names : Names[i] = name

\* NaT sorts last.
Before(a, b) ==
  \/ Rank(a["device_id"]) < Rank(b["device_id"])
  \/ a["device_id"] = b["device_id"] /\ Rank(a["interface_id"]) < Rank(b["interface_id"])
  \/ /\ a["device_id"] = b["device_id"] /\ a["interface_id"] = b["interface_id"]
     /\ a["timestamp"] \in Int /\ (b["timestamp"] \in Int => a["timestamp"] < b["timestamp"])

\* A stable sort: the place of a row is the number of rows that go before it.
SortedBy(rows, Less(_, _)) ==
  LET place == [i \in DOMAIN rows |->
        1 + Cardinality({j \in DOMAIN rows : Less(rows[j], rows[i]) \/ (j < i /\ ~Less(rows[i], rows[j]))})]
  IN [p \in DOMAIN rows |-> rows[CHOOSE i \in DOMAIN rows : place[i] = p]]

\* to_canonical: Missing where there is no timestamp column.
ToCanonical(def, raw) ==
  LET mapped == MatchColumns(def, raw.columns)
      columns == ToSet(Core) \cup (DOMAIN mapped \cap ToSet(Optional))
      Cell(row, c) ==
        CASE c = "timestamp" -> Numeric(row[mapped[c]])
          [] c = "device_id" -> IF c \in DOMAIN mapped THEN row[mapped[c]] ELSE def.device
          [] c = "interface_id" -> IF c \in DOMAIN mapped THEN row[mapped[c]] ELSE def.port
          [] c \in {Counter, Gauge} -> Numeric(row[mapped[c]])
          [] c = Status -> CoerceStatus(row[mapped[c]])
          [] c = "label" -> MapLabel(def, [i \in DOMAIN raw.rows |-> raw.rows[i][mapped[c]]], row[mapped[c]])
      rows == [i \in DOMAIN raw.rows |-> [c \in columns |-> Cell(raw.rows[i], c)]]
  IN IF "timestamp" \notin DOMAIN mapped THEN Missing
     ELSE [columns |-> columns, rows |-> SortedBy(rows, Before)]

\* What a CSV file can hold: a row has the columns of the file, and where there
\* are to be names, there are.
Naming(def, column) == {column, CanonicalOf(def, column)} \cap {"device_id", "interface_id"} # {}
CSVFile(def, raw) ==
  /\ Listed(raw.columns) /\ Listed(raw.rows)
  /\ \A i \in DOMAIN raw.rows :
       /\ DOMAIN raw.rows[i] = ToSet(raw.columns)
       /\ \A c \in ToSet(raw.columns) : Naming(def, c) => raw.rows[i][c] \in ToSet(Names) \cup {Missing}

\* An already canonical file is taken as it is, unsorted and unparsed.
Adapt(def, raw) ==
  IF def.type = "canonical_csv" /\ ToSet(Core) \subseteq ToSet(raw.columns)
  THEN [columns |-> ToSet(raw.columns), rows |-> raw.rows]
  ELSE ToCanonical(def, raw)

\* AdapterReport: the columns that were made up and left out.  A file taken as
\* it is was not looked at.
AdapterReport(def, raw) ==
  LET mapped == MatchColumns(def, raw.columns)
      looked == ~(def.type = "canonical_csv" /\ ToSet(Core) \subseteq ToSet(raw.columns))
  IN [ rows |-> Len(raw.rows),
       generated |-> {"device_id", "interface_id"} \ DOMAIN mapped,
       dropped |-> IF looked THEN ToSet(raw.columns) \ {mapped[c] : c \in DOMAIN mapped} ELSE {},
       badTimes |-> IF looked
                    THEN Cardinality({i \in DOMAIN raw.rows : raw.rows[i][mapped["timestamp"]] \notin Int})
                    ELSE 0 ]

=============================================================================
