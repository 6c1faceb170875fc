------------------------------ MODULE MCTelemetry ------------------------------
(***************************************************************************)
(* Two datasets of Engine B: a canonical one of two interfaces with every  *)
(* pattern of readings, holes and resets in four minutes, and a raw export *)
(* of the lcore_d type with aliases, words and times that do not parse.    *)
(***************************************************************************)
EXTENDS TelemetryPipeline, TLC

CONSTANTS Up, Down, Normal, Faulty, Junk

MCNames == <<"core", "device_0", "edge", "p1", "p2">>
MCDefinitions ==
  "synthetic" :> [type |-> "canonical_csv", aliases |-> <<>>, device |-> "device_0", port |-> "p1", labels |-> <<>>]
  @@ "lcore" :> [type |-> "lcore_d", aliases |-> << <<"state", "label">> >>, device |-> "core", port |-> "p1",
                 labels |-> <<>>]
MCRequired == {"timestamp", "device_id", "interface_id", Counter, Gauge}
MCBounds == [low |-> 0, high |-> 3]
MCShares == [train |-> 2, validation |-> 1, test |-> 1]

Reading(t, p, counter, gauge, label) ==
  "timestamp" :> t @@ "device_id" :> "edge" @@ "interface_id" :> p @@ Counter :> counter @@ Gauge :> gauge
    @@ Status :> (IF counter = 0 THEN 2 ELSE 1) @@ "label" :> label
CanonicalColumns == Core \o Optional

\* One port with every pattern of three values in four minutes, the other with
\* a hole in the beginning and a reading out of bounds; minute 3 comes twice.
Patterns == [1..4 -> {Missing, 0, 5}]
Synthetic(p, label) ==
  [ columns |-> CanonicalColumns,
    rows |-> << Reading(1, "p1", p[1], 1, label), Reading(1, "p2", 3, Missing, 0), Reading(2, "p1", p[2], 1, 0),
                Reading(2, "p2", 5, Missing, 0), Reading(3, "p1", p[3], Missing, 0), Reading(3, "p2", 7, 9, 1),
                Reading(3, "p1", 5, 1, 0), Reading(4, "p1", p[4], 2, 0), Reading(4, "p2", 8, 2, 0) >> ]

Raw(t, node, rx, cpu, state) ==
  "time" :> t @@ "node_name" :> node @@ "rx_bytes" :> rx @@ "cpu" :> cpu @@ "extra" :> 1 @@ "state" :> state
Export1(label) ==
  [ columns |-> <<"time", "node_name", "rx_bytes", "cpu", "extra", "state">>,
    rows |-> << Raw(1, "core", 1, 1, 0), Raw(2, "core", 2, Junk, label), Raw(3, "core", 4, 2, 1),
                Raw(2, "core", 2, 1, 0), Raw(4, "core", 1, 1, 0) >> ]
Export2(t, rx) ==
  [ columns |-> <<"time", "node_name", "rx_bytes", "cpu", "extra", "state">>,
    rows |-> << Raw(t, "edge", 1, 1, Normal), Raw(2, "edge", 2, 2, Faulty), Raw(3, "core", rx, 2, Normal) >> ]
\* Two faults in the training period.
Faults ==
  [ columns |-> CanonicalColumns,
    rows |-> << Reading(1, "p1", 1, 1, 0), Reading(2, "p1", 2, 3, 1), Reading(1, "p2", 1, 1, 0),
                Reading(2, "p2", 9, 3, 1), Reading(3, "p1", 3, 1, 0), Reading(4, "p1", 4, 1, 0) >> ]
NoTimes == [columns |-> <<"cpu">>, rows |-> << [x \in {"cpu"} |-> 1] >>]
\* The second device has an interface the first one has not, and it comes first.
OnDevice(device, row) == [row EXCEPT !["device_id"] = device]
Scattered ==
  [ columns |-> CanonicalColumns,
    rows |-> << OnDevice("core", Reading(1, "p2", 1, 1, 0)), Reading(1, "p1", 1, 1, 0), Reading(2, "p1", 2, 1, 0),
                Reading(1, "p2", 4, 2, 0), Reading(2, "p2", 8, 3, 0), Reading(4, "p2", 9, 3, 1) >> ]
\* Words among the numbers of a canonical file.
WithWords ==
  [columns |-> CanonicalColumns, rows |-> <<Reading(1, "p1", Junk, 1, 0), Reading(Junk, "p1", 2, Junk, 0)>>]
WithWordInCounter == [columns |-> CanonicalColumns, rows |-> <<Reading(1, "p1", Junk, 1, 0), Reading(2, "p1", 2, 1, 0)>>]

World(synthetic, lcore) == "synthetic" :> synthetic @@ "lcore" :> lcore
MCHistories ==
  {<<World(Synthetic(p, 0), None)>> : p \in Patterns}
  \cup {<<World(WithWords, Export1(0)), World(Synthetic([i \in 1..4 |-> 5], Missing), Export2(1, -4))>>,
        <<World(Faults, None)>>, <<World(Scattered, None)>>,
        <<World(WithWordInCounter, Export2(Junk, 4)), World(None, Export1(Missing))>>,
        <<World(Synthetic([i \in 1..4 |-> 0], Missing), NoTimes), World(None, Export2(1, 4))>>}

MCUp == {Up}
MCDown == {Down}
MCBenign == {Normal}
=============================================================================
