-------------------------- MODULE LiveIngestionProofs --------------------------
(***************************************************************************)
(* Proofs about LiveIngestion for any number of sources, records and       *)
(* overlapping runs: type correctness; as long as no line is left without *)
(* its end, that no checkpoint runs ahead of the logs; and, while runs do  *)
(* not overlap, that checkpoints are replaced whole and that every failure *)
(* has a cause and every copy of a record its attempt.                     *)
(***************************************************************************)
EXTENDS LiveIngestion, TLAPS

Working == {"parse", "events", "raws", "open_temp", "fill_temp", "replace"}

\* A run that works on a source is within the list of them.
AtSource == \A p \in Runs : pc[p] \in Working => visit[p] \in 1..Len(Order)

TInv == TypeOK /\ AtSource

\* Each of these records can be read from both logs.
Stored(records) == \A r \in records : events[r] > 0 /\ raws[r] > 0

\* What a run has appended of the batch it holds.
RunStored(p) ==
  /\ pc[p] = "raws" => \A r \in batch[p] : events[r] > 0
  /\ pc[p] \in {"open_temp", "fill_temp", "replace"} => Stored(batch[p])

FilesStored ==
  \A s \in Sources : Stored(checkpoint[s].covers) /\ Stored(temp[s].covers)

Whole == \A l \in {"events", "raws"} : torn[l] = FALSE

CPart == Whole /\ FilesStored /\ \A p \in Runs : RunStored(p)

CInv == TInv /\ CPart

-----------------------------------------------------------------------------
(* Type correctness. *)

\* A run within the list of sources is at one of them.
LEMMA SourceType ==
  ASSUME TInv, NEW p \in Runs, pc[p] \in Working
  PROVE  Source(p) \in Sources /\ visit[p] + 1 \in 1..Len(Order) + 1
<1>1. visit[p] \in 1..Len(Order) /\ Len(Order) \in Nat
  BY SourcesAssumption DEF TInv, AtSource
<1>2. DOMAIN Order = 1..Len(Order)
  BY SourcesAssumption
<1>3. QED
  BY <1>1, <1>2 DEF Source, Sources

\* Each driver makes at least one attempt and at most MaxAttempts.
LEMMA AttemptsType ==
  ASSUME NEW p \in Runs
  PROVE  Attempts(p) \in 1..MaxAttempts
BY AttemptsAssumption DEF Attempts

\* The empty outcome of a run is well typed.
LEMMA BlankType == Blank \in [Sources -> {"none", "disabled", "ok", "failed"}]
BY DEF Blank

MemoryOK ==
  /\ pc \in [Runs -> {"idle", "killed", "visit"} \cup Working]
  /\ driver \in [Runs -> {"logger", "adapter"}]
  /\ visit \in [Runs -> 1..Len(Order) + 1]
  /\ attempt \in [Runs -> 0..MaxAttempts]
  /\ batch \in [Runs -> Batches]
  /\ handle \in [Runs -> {"none", "temp", "checkpoint", "unlinked"}]
  /\ outcome \in [Runs -> [Sources -> {"none", "disabled", "ok", "failed"}]]
  /\ AtSource

\* The types of a run's memory are those of TypeOK.
LEMMA MemoryType == TInv => MemoryOK
BY DEF TInv, TypeOK, MemoryOK, Working

\* A run that is done with a source goes on within the list.
LEMMA ConcludeType ==
  ASSUME TInv, NEW p \in Runs, visit[p] \in 1..Len(Order),
         NEW result \in {"disabled", "ok", "failed"}, Conclude(p, result)
  PROVE  MemoryOK'
<1>1. MemoryOK
  BY MemoryType
<1>2. Len(Order) \in Nat /\ {} \in Batches
  BY SourcesAssumption DEF Batches
<1>3. visit' \in [Runs -> 1..Len(Order) + 1]
  BY <1>1, <1>2 DEF MemoryOK, Conclude
<1>4. outcome' \in [Runs -> [Sources -> {"none", "disabled", "ok", "failed"}]]
  BY <1>1 DEF MemoryOK, Conclude
<1>5. pc' \in [Runs -> {"idle", "killed", "visit"} \cup Working] /\ pc'[p] = "visit"
  BY <1>1 DEF MemoryOK, Conclude, Goto
<1>6. AtSource'
  BY <1>1, <1>5 DEF MemoryOK, Conclude, Goto, AtSource, Working
<1>7. QED
  BY <1>1, <1>2, <1>3, <1>4, <1>5, <1>6, AttemptsAssumption DEF MemoryOK, Conclude

\* A failed attempt leads to the next one or to the next source.
LEMMA FailsType ==
  ASSUME TInv, NEW p \in Runs, pc[p] \in Working, AttemptFails(p)
  PROVE  MemoryOK'
<1>1. MemoryOK /\ visit[p] \in 1..Len(Order)
  BY MemoryType DEF TInv, AtSource
<1>2. CASE attempt[p] < Attempts(p)
  <2>1. attempt' \in [Runs -> 0..MaxAttempts]
    BY <1>1, <1>2, AttemptsType, AttemptsAssumption DEF AttemptFails, MemoryOK
  <2>2. pc' \in [Runs -> {"idle", "killed", "visit"} \cup Working]
    BY <1>1, <1>2 DEF AttemptFails, MemoryOK, Goto, Working
  <2>3. AtSource'
    BY <1>1, <1>2 DEF AttemptFails, MemoryOK, Goto, AtSource
  <2>4. QED
    BY <1>1, <1>2, <2>1, <2>2, <2>3 DEF AttemptFails, MemoryOK, Batches
<1>3. CASE ~(attempt[p] < Attempts(p))
  BY <1>1, <1>3, ConcludeType DEF AttemptFails
<1>4. QED
  BY <1>2, <1>3

\* A killed run leaves no memory behind.
LEMMA DieType ==
  ASSUME TInv, NEW p \in Runs, Die(p)
  PROVE  MemoryOK'
<1>1. MemoryOK
  BY MemoryType
<1>2. 1 \in 1..Len(Order) + 1 /\ 0 \in 0..MaxAttempts /\ {} \in Batches
  BY SourcesAssumption, AttemptsAssumption DEF Batches
<1>3. pc' \in [Runs -> {"idle", "killed", "visit"} \cup Working]
  BY <1>1 DEF MemoryOK, Die, Goto
<1>4. AtSource'
  BY <1>1 DEF MemoryOK, Die, Goto, AtSource, Working
<1>5. outcome' \in [Runs -> [Sources -> {"none", "disabled", "ok", "failed"}]]
  BY <1>1, BlankType DEF MemoryOK, Die
<1>6. QED
  BY <1>1, <1>2, <1>3, <1>4, <1>5 DEF MemoryOK, Die

\* Appending lines keeps the counts of a log natural numbers.
LEMMA AppendedType ==
  ASSUME NEW log \in [Records -> Nat], NEW lines
  PROVE  Appended(log, lines) \in [Records -> Nat]
BY DEF Appended

FilesOK ==
  /\ sample \in Batches
  /\ events \in [Records -> Nat]
  /\ raws \in [Records -> Nat]
  /\ torn \in [{"events", "raws"} -> BOOLEAN]
  /\ checkpoint \in [Sources -> CheckpointFiles]
  /\ temp \in [Sources -> CheckpointFiles]

BoundsOK ==
  /\ started \in 0..MaxRuns
  /\ faults \in 0..MaxFaults
  /\ crashes \in 0..MaxCrashes
  /\ tears \in 0..MaxTears

\* The type invariant is that of the files, the memories and the bounds.
LEMMA TypeParts ==
  /\ TInv <=> FilesOK /\ MemoryOK /\ BoundsOK
  /\ TInv' <=> FilesOK' /\ MemoryOK' /\ BoundsOK'
BY DEF TInv, TypeOK, FilesOK, MemoryOK, BoundsOK, Working

\* Nothing is stored and nothing runs at first.
LEMMA InitType == Init => TInv
<1>1. 1 \in 1..Len(Order) + 1 /\ 0 \in 0..MaxAttempts /\ {} \in Batches
  BY SourcesAssumption, AttemptsAssumption DEF Batches
<1>2. Absent \in CheckpointFiles
  BY <1>1 DEF Absent, CheckpointFiles
<1>3. SUFFICES ASSUME Init PROVE TInv
  OBVIOUS
<1>4. FilesOK
  BY <1>1, <1>2, <1>3 DEF Init, FilesOK
<1>5. MemoryOK
  BY <1>1, <1>3, BlankType DEF Init, MemoryOK, AtSource, Working
<1>6. BoundsOK
  BY <1>3, BoundsAssumption DEF Init, BoundsOK
<1>7. QED
  BY <1>4, <1>5, <1>6, TypeParts

\* A failing write or a kill keeps memories and bounds well typed.
LEMMA BreakType ==
  ASSUME TInv, NEW p \in Runs, pc[p] \in Working, Fault(p) \/ Die(p)
  PROVE  /\ MemoryOK'
         /\ started' \in 0..MaxRuns
         /\ faults' \in 0..MaxFaults
         /\ crashes' \in 0..MaxCrashes
<1>1. BoundsOK
  BY TypeParts
<1>2. CASE Fault(p)
  BY <1>1, <1>2, FailsType, BoundsAssumption DEF Fault, BoundsOK
<1>3. CASE Die(p)
  <2>1. MemoryOK'
    BY <1>3, DieType
  <2>2. started' = started /\ faults' = faults /\ crashes' \in 0..MaxCrashes
    BY <1>1, <1>3, BoundsAssumption DEF Die, BoundsOK
  <2>3. QED
    BY <1>1, <2>1, <2>2 DEF BoundsOK
<1>4. QED
  BY <1>2, <1>3

\* What a run writes to the file of its cursor is a checkpoint file.
LEMMA FilledType ==
  ASSUME NEW old \in CheckpointFiles, NEW contents \in Batches
  PROVE  Filled(old, contents) \subseteq CheckpointFiles
<1>1. {} \in Batches
  BY DEF Batches
<1>2. /\ [old EXCEPT !.state = "ok", !.covers = contents] \in CheckpointFiles
      /\ [old EXCEPT !.state = "torn", !.covers = {}] \in CheckpointFiles
  BY <1>1 DEF CheckpointFiles
<1>3. QED
  BY <1>2 DEF Filled

\* Each step of a run keeps the state well typed.
LEMMA StepType ==
  ASSUME TInv, NEW p \in Runs, Step(p)
  PROVE  TInv'
<1>1. FilesOK /\ MemoryOK /\ BoundsOK
  BY TypeParts
<1>2. CASE Skip(p)
  <2>1. visit[p] \in 1..Len(Order)
    BY <1>1, <1>2, SourcesAssumption DEF Skip, MemoryOK
  <2>2. QED
    BY <1>1, <1>2, <2>1, ConcludeType, TypeParts
    DEF Skip, FilesOK, BoundsOK, logs, checkpoints, bounds
<1>3. CASE Visit(p)
  <2>1. visit[p] \in 1..Len(Order) /\ 1 \in 0..MaxAttempts
    BY <1>1, <1>3, SourcesAssumption, AttemptsAssumption DEF Visit, MemoryOK
  <2>2. MemoryOK'
    BY <1>1, <1>3, <2>1 DEF Visit, MemoryOK, Goto, AtSource, Working
  <2>3. QED
    BY <1>1, <1>3, <2>2, TypeParts DEF Visit, FilesOK, BoundsOK, logs, checkpoints, bounds
<1>4. CASE Parse(p)
  <2>1. Sampled(p) \in Batches
    BY <1>1 DEF Sampled, FilesOK, Batches
  <2>2. MemoryOK'
    <3>1. CASE Sampled(p) \cap Poison = {}
      <4>1. /\ pc' \in [Runs -> {"idle", "killed", "visit"} \cup Working]
            /\ batch' \in [Runs -> Batches]
        BY <1>1, <1>4, <2>1, <3>1 DEF Parse, MemoryOK, Goto, Working
      <4>2. AtSource'
        BY <1>1, <1>4, <3>1 DEF Parse, MemoryOK, Goto, AtSource, Working
      <4>3. UNCHANGED <<driver, visit, attempt, handle, outcome>>
        BY <1>4, <3>1 DEF Parse
      <4>4. QED
        BY <1>1, <4>1, <4>2, <4>3 DEF MemoryOK
    <3>2. CASE Sampled(p) \cap Poison # {}
      BY <1>4, <3>2, FailsType DEF Parse, Working
    <3>3. QED
      BY <3>1, <3>2
  <2>3. QED
    BY <1>1, <1>4, <2>2, TypeParts DEF Parse, FilesOK, BoundsOK, logs, checkpoints, bounds
<1>5. CASE AppendNormalized(p)
  <2>1. MemoryOK'
    BY <1>1, <1>5 DEF AppendNormalized, MemoryOK, Goto, AtSource, Working, memory
  <2>2. FilesOK'
    BY <1>1, <1>5, AppendedType DEF AppendNormalized, FilesOK, checkpoints
  <2>3. QED
    BY <1>1, <1>5, <2>1, <2>2, TypeParts DEF AppendNormalized, BoundsOK, bounds
<1>6. CASE AppendRaw(p)
  <2>1. MemoryOK'
    BY <1>1, <1>6 DEF AppendRaw, MemoryOK, Goto, AtSource, Working, memory
  <2>2. FilesOK'
    BY <1>1, <1>6, AppendedType DEF AppendRaw, FilesOK, checkpoints
  <2>3. QED
    BY <1>1, <1>6, <2>1, <2>2, TypeParts DEF AppendRaw, BoundsOK, bounds
<1>7. CASE OpenTemp(p)
  <2>1. MemoryOK'
    BY <1>1, <1>7 DEF OpenTemp, MemoryOK, Goto, AtSource, Working
  <2>2. FilesOK'
    <3>1. \A b \in BOOLEAN : [state |-> "torn", mixed |-> b, covers |-> {}] \in CheckpointFiles
      BY DEF CheckpointFiles, Batches
    <3>2. QED
      BY <1>1, <1>7, <3>1 DEF OpenTemp, FilesOK, logs
  <2>3. QED
    BY <1>1, <1>7, <2>1, <2>2, TypeParts DEF OpenTemp, BoundsOK, bounds
<1>8. CASE FillTemp(p)
  <2>1. MemoryOK'
    BY <1>1, <1>8 DEF FillTemp, MemoryOK, Goto, AtSource, Working
  <2>2. Source(p) \in Sources /\ batch[p] \in Batches
    BY <1>1, <1>8, SourceType DEF FillTemp, Working, MemoryOK
  <2>3. temp' \in [Sources -> CheckpointFiles]
    BY <1>1, <1>8, <2>2, FilledType DEF FillTemp, FilesOK
  <2>4. checkpoint' \in [Sources -> CheckpointFiles]
    BY <1>1, <1>8, <2>2, FilledType DEF FillTemp, FilesOK
  <2>5. QED
    BY <1>1, <1>8, <2>1, <2>3, <2>4, TypeParts DEF FillTemp, FilesOK, BoundsOK, logs, bounds
<1>9. CASE Replace(p)
  <2>1. Source(p) \in Sources /\ visit[p] \in 1..Len(Order)
    BY <1>9, SourceType DEF Replace, Working, TInv, AtSource
  <2>2. visit' \in [Runs -> 1..Len(Order) + 1]
    BY <1>1, <1>9, <2>1, SourcesAssumption DEF Replace, MemoryOK
  <2>3. handle' \in [Runs -> {"none", "temp", "checkpoint", "unlinked"}]
    BY <1>1, <1>9 DEF Replace, MemoryOK, Moved
  <2>4. outcome' \in [Runs -> [Sources -> {"none", "disabled", "ok", "failed"}]]
    BY <1>1, <1>9 DEF Replace, MemoryOK
  <2>5. AtSource'
    BY <1>1, <1>9 DEF Replace, MemoryOK, Goto, AtSource, Working
  <2>6. MemoryOK'
    BY <1>1, <1>9, <2>2, <2>3, <2>4, <2>5, AttemptsAssumption
    DEF Replace, MemoryOK, Goto, Batches
  <2>7. FilesOK'
    <3>1. Absent \in CheckpointFiles
      BY DEF Absent, CheckpointFiles, Batches
    <3>2. QED
      BY <1>1, <1>9, <2>1, <3>1 DEF Replace, FilesOK, logs
  <2>8. QED
    BY <1>1, <1>9, <2>6, <2>7, TypeParts DEF Replace, BoundsOK, bounds
<1>10. CASE ReplaceMissing(p)
  <2>1. MemoryOK'
    BY <1>10, FailsType DEF ReplaceMissing, Working
  <2>2. QED
    BY <1>1, <1>10, <2>1, TypeParts
    DEF ReplaceMissing, FilesOK, BoundsOK, logs, checkpoints, bounds
<1>11. CASE Report(p)
  <2>1. MemoryOK'
    BY <1>1, <1>11, SourcesAssumption DEF Report, MemoryOK, Goto, AtSource, Working
  <2>2. QED
    BY <1>1, <1>11, <2>1, TypeParts DEF Report, FilesOK, BoundsOK, logs, checkpoints, bounds
<1>12. QED
  BY <1>2, <1>3, <1>4, <1>5, <1>6, <1>7, <1>8, <1>9, <1>10, <1>11 DEF Step

\* Starting a run, a record that arrives and a broken step keep the state well
\* typed.
LEMMA NextType == TInv /\ [Next]_vars => TInv'
<1>1. SUFFICES ASSUME TInv, [Next]_vars PROVE TInv'
  OBVIOUS
<1>2. FilesOK /\ MemoryOK /\ BoundsOK
  BY <1>1, TypeParts
<1>3. ASSUME NEW r \in Records, Arrive(r) PROVE TInv'
  <2>1. FilesOK'
    BY <1>2, <1>3 DEF Arrive, FilesOK, Batches, logs, checkpoints
  <2>2. QED
    BY <1>2, <1>3, <2>1, TypeParts
    DEF Arrive, MemoryOK, BoundsOK, memory, bounds, AtSource
<1>4. ASSUME NEW p \in Runs, Step(p) PROVE TInv'
  BY <1>1, <1>4, StepType
<1>5. ASSUME NEW p \in Runs, BreakAppend(p) PROVE TInv'
  <2>1. pc[p] \in Working /\ (Fault(p) \/ Die(p))
    BY <1>5 DEF BreakAppend, Working
  <2>2. MemoryOK' /\ started' \in 0..MaxRuns /\ faults' \in 0..MaxFaults
        /\ crashes' \in 0..MaxCrashes
    BY <1>1, <2>1, BreakType
  <2>3. PICK written \in Prefixes(batch[p]), cut \in BOOLEAN : BreakAppend(p)!2!(written, cut)
    BY <1>5 DEF BreakAppend
  <2>4. tears' \in 0..MaxTears
    BY <1>2, <2>3, BoundsAssumption DEF BoundsOK
  <2>5. events' \in [Records -> Nat] /\ raws' \in [Records -> Nat]
    BY <1>2, <2>3, AppendedType DEF FilesOK
  <2>6. torn' \in [{"events", "raws"} -> BOOLEAN]
    BY <1>2, <1>5, <2>3 DEF FilesOK
  <2>7. sample' = sample /\ checkpoint' = checkpoint /\ temp' = temp
    BY <1>5 DEF BreakAppend, checkpoints
  <2>8. QED
    BY <1>2, <2>2, <2>4, <2>5, <2>6, <2>7, TypeParts DEF FilesOK, BoundsOK
<1>6. ASSUME NEW p \in Runs, BreakSave(p) PROVE TInv'
  <2>1. pc[p] \in Working /\ (Fault(p) \/ Die(p))
    BY <1>6 DEF BreakSave, Working
  <2>2. MemoryOK' /\ started' \in 0..MaxRuns /\ faults' \in 0..MaxFaults
        /\ crashes' \in 0..MaxCrashes
    BY <1>1, <2>1, BreakType
  <2>3. QED
    BY <1>2, <1>6, <2>2, TypeParts DEF BreakSave, FilesOK, BoundsOK, logs, checkpoints
<1>7. ASSUME NEW p \in Runs, NEW d \in {"logger", "adapter"}, Start(p, d) PROVE TInv'
  <2>1. 1 \in 1..Len(Order) + 1
    BY SourcesAssumption
  <2>2. started' \in 0..MaxRuns
    BY <1>2, <1>7, BoundsAssumption DEF Start, BoundsOK
  <2>3. MemoryOK'
    BY <1>2, <1>7, <2>1, BlankType DEF Start, MemoryOK, Goto, AtSource, Working
  <2>4. QED
    BY <1>2, <1>7, <2>2, <2>3, TypeParts DEF Start, FilesOK, BoundsOK, logs, checkpoints
<1>8. CASE UNCHANGED vars
  BY <1>2, <1>8, TypeParts
  DEF vars, FilesOK, MemoryOK, BoundsOK, AtSource, logs, checkpoints, memory, bounds
<1>9. QED
  BY <1>1, <1>3, <1>4, <1>5, <1>6, <1>7, <1>8 DEF Next, Break

\* Every reachable state of every instance is well typed.
THEOREM TypeCorrect == Spec => []TypeOK
<1>1. TInv => TypeOK
  BY DEF TInv
<1>2. QED
  BY <1>1, InitType, NextType, PTL DEF Spec

-----------------------------------------------------------------------------
(* The checkpoint never runs ahead of the logs. *)

\* The counts of the logs do not fall, and a log without a torn line stays so.
Kept ==
  /\ \A r \in Records : events[r] > 0 => events'[r] > 0
  /\ \A r \in Records : raws[r] > 0 => raws'[r] > 0

\* Appending lines takes no line away and makes each of them readable.
LEMMA AppendedGrows ==
  ASSUME NEW log \in [Records -> Nat], NEW lines \in SUBSET Records
  PROVE  /\ \A r \in Records : log[r] > 0 => Appended(log, lines)[r] > 0
         /\ \A r \in lines : Appended(log, lines)[r] > 0
BY DEF Appended

\* What is stored stays stored.
LEMMA StoredKept ==
  ASSUME Kept, NEW records \in Batches, Stored(records)
  PROVE  Stored(records)'
BY DEF Kept, Stored, Batches

\* A run whose label and batch do not change still has stored what it had.
LEMMA RunKept ==
  ASSUME TInv, Kept, NEW q \in Runs, RunStored(q), pc'[q] = pc[q], batch'[q] = batch[q]
  PROVE  RunStored(q)'
BY DEF TInv, TypeOK, Kept, RunStored, Stored, Batches

\* Files that do not change still count stored records only.
LEMMA FilesKept ==
  ASSUME TInv, Kept, FilesStored, checkpoint' = checkpoint, temp' = temp
  PROVE  FilesStored'
BY StoredKept DEF TInv, TypeOK, FilesStored, CheckpointFiles, Kept, Stored, Batches

\* A failed attempt, or the end of the process, touches one run only and leaves
\* it with nothing to have stored.
LEMMA BreakFrame ==
  ASSUME TInv, NEW p \in Runs, AttemptFails(p) \/ Die(p)
  PROVE  /\ \A q \in Runs \ {p} : pc'[q] = pc[q] /\ batch'[q] = batch[q]
         /\ pc'[p] \in {"parse", "visit", "killed"}
BY DEF TInv, TypeOK, AttemptFails, Conclude, Die, Goto

\* A run that has nothing on its way to the logs has nothing to have stored.
LEMMA RunsKept ==
  ASSUME TInv, Kept, \A q \in Runs : RunStored(q), NEW p \in Runs,
         \A q \in Runs \ {p} : pc'[q] = pc[q] /\ batch'[q] = batch[q],
         pc'[p] \notin {"raws", "open_temp", "fill_temp", "replace"}
  PROVE  \A q \in Runs : RunStored(q)'
BY RunKept DEF RunStored

\* A log without a torn line gives its readers every line appended to it.
LEMMA WholeReadable ==
  ASSUME Whole, NEW lines, NEW l \in {"events", "raws"}
  PROVE  Readable(lines, torn[l]) = lines
BY DEF Whole, Readable

\* Each step of a run keeps the checkpoints covered.
LEMMA StepCovers ==
  ASSUME CInv, NEW p \in Runs, Step(p)
  PROVE  CPart'
<1>1. TInv /\ Whole /\ FilesStored /\ \A q \in Runs : RunStored(q)
  BY DEF CInv, CPart
<1>2. FilesOK /\ MemoryOK
  BY <1>1, TypeParts
<1>3. ASSUME UNCHANGED <<logs, checkpoints>>,
             \A q \in Runs \ {p} : pc'[q] = pc[q] /\ batch'[q] = batch[q],
             pc'[p] \notin {"raws", "open_temp", "fill_temp", "replace"}
      PROVE  CPart'
  <2>1. Kept
    BY <1>3 DEF Kept, logs
  <2>2. Whole'
    BY <1>1, <1>3 DEF Whole, logs
  <2>3. QED
    BY <1>1, <1>3, <2>1, <2>2, FilesKept, RunsKept DEF CPart, checkpoints
<1>4. CASE Skip(p)
  BY <1>2, <1>3, <1>4 DEF Skip, Conclude, Goto, MemoryOK
<1>5. CASE Visit(p)
  BY <1>2, <1>3, <1>5 DEF Visit, Goto, MemoryOK
<1>6. CASE Parse(p)
  <2>1. CASE Sampled(p) \cap Poison = {}
    BY <1>2, <1>3, <1>6, <2>1 DEF Parse, Goto, MemoryOK
  <2>2. CASE Sampled(p) \cap Poison # {}
    BY <1>1, <1>3, <1>6, <2>2, BreakFrame DEF Parse
  <2>3. QED
    BY <2>1, <2>2
<1>7. CASE AppendNormalized(p)
  <2>1. events' = Appended(events, batch[p]) /\ raws' = raws /\ batch[p] \in SUBSET Records
    BY <1>1, <1>2, <1>7, WholeReadable DEF AppendNormalized, MemoryOK, Batches
  <2>2. Kept /\ \A r \in batch[p] : events'[r] > 0
    BY <1>2, <2>1, AppendedGrows DEF Kept, FilesOK
  <2>3. Whole'
    BY <1>1, <1>2, <1>7 DEF AppendNormalized, Whole, FilesOK
  <2>4. FilesStored'
    BY <1>1, <1>7, <2>2, FilesKept DEF AppendNormalized, checkpoints
  <2>5. ASSUME NEW q \in Runs PROVE RunStored(q)'
    <3>1. CASE q = p
      BY <1>2, <1>7, <2>2, <3>1 DEF AppendNormalized, RunStored, Goto, MemoryOK, memory
    <3>2. CASE q # p
      BY <1>1, <1>2, <1>7, <2>2, <3>2, RunKept DEF AppendNormalized, Goto, MemoryOK, memory
    <3>3. QED
      BY <3>1, <3>2
  <2>6. QED
    BY <2>3, <2>4, <2>5 DEF CPart
<1>8. CASE AppendRaw(p)
  <2>1. raws' = Appended(raws, batch[p]) /\ events' = events /\ batch[p] \in SUBSET Records
    BY <1>1, <1>2, <1>8, WholeReadable DEF AppendRaw, MemoryOK, Batches
  <2>2. Kept /\ Stored(batch[p])'
    <3>1. \A r \in batch[p] : events[r] > 0
      BY <1>1, <1>8 DEF RunStored, AppendRaw
    <3>2. \A r \in batch[p] : raws'[r] > 0
      BY <1>2, <2>1, AppendedGrows DEF FilesOK
    <3>3. batch' = batch
      BY <1>8 DEF AppendRaw, memory
    <3>4. Kept
      BY <1>2, <2>1, AppendedGrows DEF Kept, FilesOK
    <3>5. QED
      BY <2>1, <3>1, <3>2, <3>3, <3>4 DEF Stored
  <2>3. Whole'
    BY <1>1, <1>2, <1>8 DEF AppendRaw, Whole, FilesOK
  <2>4. FilesStored'
    BY <1>1, <1>8, <2>2, FilesKept DEF AppendRaw, checkpoints
  <2>5. ASSUME NEW q \in Runs PROVE RunStored(q)'
    <3>1. CASE q = p
      BY <1>2, <1>8, <2>2, <3>1 DEF AppendRaw, RunStored, Goto, MemoryOK
    <3>2. CASE q # p
      BY <1>1, <1>2, <1>8, <2>2, <3>2, RunKept DEF AppendRaw, Goto, MemoryOK, memory
    <3>3. QED
      BY <3>1, <3>2
  <2>6. QED
    BY <2>3, <2>4, <2>5 DEF CPart
<1>9. ASSUME UNCHANGED logs, UNCHANGED batch, FilesStored',
             \A q \in Runs \ {p} : pc'[q] = pc[q],
             pc[p] \in {"open_temp", "fill_temp"}
      PROVE  CPart'
  <2>1. Kept /\ Whole'
    BY <1>1, <1>9 DEF Kept, Whole, logs
  <2>2. Stored(batch[p])' /\ batch'[p] = batch[p]
    BY <1>1, <1>9 DEF RunStored, Stored, logs
  <2>3. \A q \in Runs : RunStored(q)'
    BY <1>1, <1>9, <2>1, <2>2, RunKept DEF RunStored, Stored
  <2>4. QED
    BY <1>9, <2>1, <2>3 DEF CPart
<1>10. CASE OpenTemp(p)
  <2>1. FilesStored'
    BY <1>1, <1>2, <1>10 DEF OpenTemp, FilesStored, FilesOK, CheckpointFiles, Stored, logs
  <2>2. QED
    BY <1>2, <1>9, <1>10, <2>1 DEF OpenTemp, Goto, MemoryOK
<1>11. CASE FillTemp(p)
  <2>1. Stored(batch[p])
    BY <1>1, <1>11 DEF RunStored, FillTemp
  <2>2. \A old \in CheckpointFiles : \A f \in Filled(old, batch[p]) : Stored(f.covers)
    BY <2>1 DEF Filled, CheckpointFiles, Stored
  <2>3. Source(p) \in Sources
    BY <1>1, <1>11, SourceType DEF FillTemp, Working
  <2>4. \A s \in Sources : Stored(temp'[s].covers)
    BY <1>1, <1>2, <1>11, <2>2, <2>3 DEF FillTemp, FilesStored, FilesOK
  <2>5. \A s \in Sources : Stored(checkpoint'[s].covers)
    BY <1>1, <1>2, <1>11, <2>2, <2>3 DEF FillTemp, FilesStored, FilesOK
  <2>6. FilesStored'
    BY <1>11, <2>4, <2>5 DEF FillTemp, FilesStored, Stored, logs
  <2>7. QED
    BY <1>2, <1>9, <1>11, <2>6 DEF FillTemp, Goto, MemoryOK
<1>12. CASE Replace(p)
  <2>1. Source(p) \in Sources
    BY <1>1, <1>12, SourceType DEF Replace, Working
  <2>2. FilesStored'
    BY <1>1, <1>2, <1>12, <2>1 DEF Replace, FilesStored, FilesOK, Absent, Stored, logs
  <2>3. Kept /\ Whole'
    BY <1>1, <1>12 DEF Replace, Kept, Whole, logs
  <2>4. \A q \in Runs : RunStored(q)'
    BY <1>1, <1>2, <1>12, <2>3, RunsKept DEF Replace, Goto, MemoryOK
  <2>5. QED
    BY <2>2, <2>3, <2>4 DEF CPart
<1>13. CASE ReplaceMissing(p)
  BY <1>1, <1>3, <1>13, BreakFrame DEF ReplaceMissing
<1>14. CASE Report(p)
  BY <1>2, <1>3, <1>14 DEF Report, Goto, MemoryOK
<1>15. QED
  BY <1>4, <1>5, <1>6, <1>7, <1>8, <1>10, <1>11, <1>12, <1>13, <1>14 DEF Step

\* A write that breaks off, or any other failure, keeps them covered.
LEMMA BreakCovers ==
  ASSUME CInv, MaxTears = 0, NEW p \in Runs, Break(p)
  PROVE  CPart'
<1>1. TInv /\ Whole /\ FilesStored /\ \A q \in Runs : RunStored(q)
  BY DEF CInv, CPart
<1>2. FilesOK /\ MemoryOK /\ BoundsOK
  BY <1>1, TypeParts
<1>3. AttemptFails(p) \/ Die(p)
  BY DEF Break, BreakAppend, BreakSave, Fault
<1>4. /\ \A q \in Runs \ {p} : pc'[q] = pc[q] /\ batch'[q] = batch[q]
      /\ pc'[p] \in {"parse", "visit", "killed"}
  BY <1>1, <1>3, BreakFrame
<1>5. UNCHANGED checkpoints
  BY DEF Break, BreakAppend, BreakSave, checkpoints
<1>6. Kept /\ Whole'
  <2>1. CASE BreakAppend(p)
    <3>1. PICK written \in Prefixes(batch[p]), cut \in BOOLEAN :
            BreakAppend(p)!2!(written, cut)
      BY <2>1 DEF BreakAppend
    <3>2. cut = FALSE
      BY <1>2, <3>1 DEF BoundsOK
    <3>3. pc[p] \in {"events", "raws"}
      BY <2>1 DEF BreakAppend
    <3>4. Whole'
      BY <1>1, <1>2, <3>1, <3>2, <3>3 DEF Whole, FilesOK
    <3>5. Readable(written, torn[pc[p]]) \in SUBSET Records
      BY <1>2 DEF Readable, Prefixes, MemoryOK, Batches
    <3>6. Kept
      BY <1>2, <3>1, <3>3, <3>5, AppendedGrows DEF Kept, FilesOK
    <3>7. QED
      BY <3>4, <3>6
  <2>2. CASE BreakSave(p)
    BY <1>1, <2>2 DEF BreakSave, Kept, Whole, logs
  <2>3. QED
    BY <2>1, <2>2 DEF Break
<1>7. QED
  BY <1>1, <1>4, <1>5, <1>6, FilesKept, RunsKept DEF CPart, checkpoints

\* The invariant is inductive when no line is left without its end.
LEMMA NextCovers ==
  ASSUME MaxTears = 0, CInv, [Next]_vars
  PROVE  CInv'
<1>1. MaxTears = 0 /\ CInv /\ [Next]_vars
  OBVIOUS
<1>2. TInv /\ Whole /\ FilesStored /\ \A q \in Runs : RunStored(q)
  BY <1>1 DEF CInv, CPart
<1>3. FilesOK /\ MemoryOK
  BY <1>2, TypeParts
<1>4. TInv'
  BY <1>1, <1>2, NextType
<1>5. ASSUME logs' = logs, checkpoints' = checkpoints, pc' = pc, batch' = batch
      PROVE  CPart'
  <2>1. Kept /\ Whole'
    BY <1>2, <1>5 DEF Kept, Whole, logs
  <2>2. QED
    BY <1>2, <1>5, <2>1, FilesKept, RunKept DEF CPart, checkpoints
<1>6. ASSUME NEW r \in Records, Arrive(r) PROVE CPart'
  BY <1>5, <1>6 DEF Arrive, memory
<1>7. ASSUME NEW p \in Runs, Step(p) PROVE CPart'
  BY <1>1, <1>7, StepCovers
<1>8. ASSUME NEW p \in Runs, Break(p) PROVE CPart'
  BY <1>1, <1>8, BreakCovers
<1>9. ASSUME NEW p \in Runs, NEW d \in {"logger", "adapter"}, Start(p, d) PROVE CPart'
  <2>1. Kept /\ Whole'
    BY <1>2, <1>9 DEF Start, Kept, Whole, logs
  <2>2. \A q \in Runs : RunStored(q)'
    BY <1>2, <1>3, <1>9, <2>1, RunsKept DEF Start, Goto, MemoryOK
  <2>3. QED
    BY <1>2, <1>9, <2>1, <2>2, FilesKept DEF CPart, Start, checkpoints
<1>10. ASSUME UNCHANGED vars PROVE CPart'
  <2>1. logs' = logs /\ checkpoints' = checkpoints /\ pc' = pc /\ batch' = batch
    BY <1>10 DEF vars, memory
  <2>2. QED
    BY <1>5, <2>1
<1>11. CPart'
  <2>1. CASE Next
    BY <1>6, <1>7, <1>8, <1>9, <2>1 DEF Next
  <2>2. Next \/ UNCHANGED vars
    BY <1>1
  <2>3. QED
    BY <1>10, <2>1, <2>2
<1>12. QED
  BY <1>4, <1>11 DEF CInv

\* As long as no line is left without its end, every record that a checkpoint
\* counts can be read from both logs: for any number of overlapping runs,
\* attempts, failing writes and kills.
THEOREM CheckpointCoversHolds == ASSUME MaxTears = 0 PROVE Spec => []CheckpointCovers
<1>1. Init => CInv
  <2>1. SUFFICES ASSUME Init PROVE CInv
    OBVIOUS
  <2>2. TInv
    BY <2>1, InitType
  <2>3. QED
    BY <2>1, <2>2 DEF Init, CInv, CPart, Whole, FilesStored, RunStored, Stored, Absent
<1>2. CInv => CheckpointCovers
  BY DEF CInv, CPart, FilesStored, Stored, CheckpointCovers
<1>3. CInv /\ [Next]_vars => CInv'
  BY NextCovers
<1>4. QED
  BY <1>1, <1>2, <1>3, PTL DEF Spec

-----------------------------------------------------------------------------
(* Runs that do not overlap.                                               *)

Alone == \A p, q \in Runs : p = q

\* Only a run that fills its temporary file has a file open, that one, and it
\* is whole before it is moved.
Saving(p) ==
  /\ IF pc[p] = "fill_temp" THEN handle[p] = "temp" /\ temp[Source(p)].mixed = FALSE
     ELSE handle[p] = "none"
  /\ pc[p] = "replace" => temp[Source(p)].state = "ok"

AInv == TInv /\ \A p \in Runs : Saving(p)

CheckpointKept == \A s \in Sources : checkpoint[s].state = "ok" => checkpoint'[s].state = "ok"

\* An attempt that ends closes its file.
LEMMA BreakSaving ==
  ASSUME TInv, NEW p \in Runs, AttemptFails(p) \/ Die(p)
  PROVE  Saving(p)'
<1>1. handle'[p] = "none" /\ pc'[p] \in {"parse", "visit", "killed"}
  BY DEF TInv, TypeOK, AttemptFails, Conclude, Die, Goto
<1>2. QED
  BY <1>1 DEF Saving

\* Each step of a run that is alone.
LEMMA StepSaving ==
  ASSUME Alone, AInv, NEW p \in Runs, Step(p)
  PROVE  Saving(p)' /\ CheckpointKept
<1> USE DEF AInv
<1>1. FilesOK /\ MemoryOK
  BY TypeParts
<1>2. CASE Skip(p) \/ Report(p) \/ Visit(p)
  <2>1. handle'[p] = "none" /\ pc'[p] \in {"visit", "idle", "parse"} /\ UNCHANGED checkpoint
    BY <1>1, <1>2 DEF Skip, Report, Visit, Conclude, Goto, MemoryOK, Saving, checkpoints
  <2>2. QED
    BY <2>1 DEF Saving, CheckpointKept
<1>3. CASE Parse(p) \/ ReplaceMissing(p)
  <2>1. UNCHANGED checkpoint
    BY <1>3 DEF Parse, ReplaceMissing, checkpoints
  <2>2. CASE AttemptFails(p)
    BY <2>1, <2>2, BreakSaving DEF CheckpointKept
  <2>3. CASE ~AttemptFails(p)
    <3>1. handle'[p] = "none" /\ pc'[p] = "events"
      BY <1>1, <1>3, <2>3 DEF Parse, ReplaceMissing, Goto, MemoryOK, Saving
    <3>2. QED
      BY <2>1, <3>1 DEF Saving, CheckpointKept
  <2>4. QED
    BY <2>2, <2>3
<1>4. CASE AppendNormalized(p) \/ AppendRaw(p)
  <2>1. handle'[p] = "none" /\ pc'[p] \in {"raws", "open_temp"} /\ UNCHANGED checkpoint
    BY <1>1, <1>4 DEF AppendNormalized, AppendRaw, Goto, MemoryOK, Saving, memory, checkpoints
  <2>2. QED
    BY <2>1 DEF Saving, CheckpointKept
<1>5. CASE OpenTemp(p)
  <2>1. pc[p] = "open_temp" /\ Source(p) \in Sources
    BY <1>5, SourceType DEF OpenTemp, Working
  <2>2. {q \in Runs \ {p} : handle[q] = "temp" /\ Source(q) = Source(p)} = {}
    BY DEF Alone
  <2>3. /\ pc'[p] = "fill_temp" /\ handle'[p] = "temp"
        /\ temp' = [temp EXCEPT ![Source(p)] = [state |-> "torn", mixed |-> FALSE, covers |-> {}]]
        /\ visit' = visit /\ UNCHANGED checkpoint
    BY <1>1, <1>5, <2>2 DEF OpenTemp, Goto, MemoryOK
  <2>4. Source(p)' = Source(p) /\ temp'[Source(p)].mixed = FALSE
    BY <1>1, <2>1, <2>3 DEF Source, FilesOK
  <2>5. QED
    BY <2>3, <2>4 DEF Saving, CheckpointKept
<1>6. CASE FillTemp(p)
  <2>1. pc[p] = "fill_temp" /\ Source(p) \in Sources
    BY <1>6, SourceType DEF FillTemp, Working
  <2>2. handle[p] = "temp" /\ temp[Source(p)].mixed = FALSE
    BY <2>1 DEF Saving
  <2>3. PICK f \in Filled(temp[Source(p)], batch[p]) : temp' = [temp EXCEPT ![Source(p)] = f]
    BY <1>6, <2>2 DEF FillTemp
  <2>4. f.state = "ok"
    BY <1>1, <2>1, <2>2 DEF Filled, FilesOK, CheckpointFiles
  <2>5. /\ UNCHANGED checkpoint /\ visit' = visit
        /\ handle'[p] = "none" /\ pc'[p] = "replace"
    BY <1>1, <1>6, <2>2 DEF FillTemp, Goto, MemoryOK
  <2>6. Source(p)' = Source(p) /\ temp'[Source(p)].state = "ok"
    BY <1>1, <2>1, <2>3, <2>4, <2>5 DEF Source, FilesOK
  <2>7. QED
    BY <2>5, <2>6 DEF Saving, CheckpointKept
<1>7. CASE Replace(p)
  <2>1. /\ pc[p] = "replace" /\ temp[Source(p)].state = "ok" /\ handle[p] = "none"
        /\ Source(p) \in Sources
    BY <1>7, SourceType DEF Replace, Saving, Working
  <2>2. checkpoint' = [checkpoint EXCEPT ![Source(p)] = temp[Source(p)]]
    BY <1>7 DEF Replace
  <2>3. CheckpointKept
    BY <1>1, <2>1, <2>2 DEF CheckpointKept, FilesOK
  <2>4. pc'[p] = "visit" /\ handle'[p] = "none"
    BY <1>1, <1>7, <2>1 DEF Replace, Moved, Goto, MemoryOK
  <2>5. QED
    BY <2>3, <2>4 DEF Saving
<1>8. QED
  BY <1>2, <1>3, <1>4, <1>5, <1>6, <1>7 DEF Step

LEMMA NextSaving ==
  ASSUME Alone, AInv, [Next]_vars
  PROVE  AInv' /\ CheckpointKept
<1> USE DEF AInv
<1>1. TInv'
  BY NextType
<1>2. ASSUME NEW p \in Runs, Step(p)
      PROVE  (\A q \in Runs : Saving(q)') /\ CheckpointKept
  BY <1>2, StepSaving DEF Alone
<1>3. ASSUME NEW p \in Runs, Break(p)
      PROVE  (\A q \in Runs : Saving(q)') /\ CheckpointKept
  <2>1. AttemptFails(p) \/ Die(p)
    BY <1>3 DEF Break, BreakAppend, BreakSave, Fault
  <2>2. UNCHANGED checkpoint
    BY <1>3 DEF Break, BreakAppend, BreakSave, checkpoints
  <2>3. QED
    BY <2>1, <2>2, BreakSaving DEF Alone, CheckpointKept
<1>4. ASSUME NEW p \in Runs, NEW d \in {"logger", "adapter"}, Start(p, d)
      PROVE  (\A q \in Runs : Saving(q)') /\ CheckpointKept
  <2>1. pc'[p] = "visit" /\ handle'[p] = "none" /\ UNCHANGED checkpoint
    BY <1>4, TypeParts DEF Start, Goto, MemoryOK, Saving, checkpoints
  <2>2. QED
    BY <2>1 DEF Alone, Saving, CheckpointKept
<1>5. ASSUME UNCHANGED <<checkpoint, temp, pc, visit, handle>>
      PROVE  (\A q \in Runs : Saving(q)') /\ CheckpointKept
  BY <1>5 DEF Saving, Source, CheckpointKept
<1>6. CASE UNCHANGED vars
  BY <1>1, <1>5, <1>6 DEF vars, checkpoints, memory
<1>7. CASE \E r \in Records : Arrive(r)
  BY <1>1, <1>5, <1>7 DEF Arrive, checkpoints, memory
<1>8. QED
  BY <1>1, <1>2, <1>3, <1>4, <1>6, <1>7 DEF Next

\* "Writes are atomic (temp file + replace) so a crash mid-write never corrupts
\* the last good checkpoint": while no two runs overlap, for any number of
\* sources, runs, attempts, failing writes, torn lines and kills.
THEOREM CheckpointAtomicHolds == ASSUME Alone PROVE Spec => CheckpointAtomic
<1>1. Init => AInv
  <2>1. SUFFICES ASSUME Init PROVE AInv
    OBVIOUS
  <2>2. TInv
    BY <2>1, InitType
  <2>3. QED
    BY <2>1, <2>2 DEF Init, AInv, Saving
<1>2. AInv /\ [Next]_vars => AInv' /\ CheckpointKept
  BY NextSaving
<1>3. QED
  BY <1>1, <1>2, PTL DEF Spec, CheckpointAtomic, CheckpointKept
-----------------------------------------------------------------------------
(* Attempts of runs that do not overlap are accounted for.                 *)

\* How many lines of record r a run may have added to a log so far.
Repeats(p, r) ==
  IF pc[p] \in {"idle", "killed"} \/ \E j \in 1..visit[p] - 1 : Order[j] = SourceOf[r]
  THEN MaxAttempts
  ELSE IF pc[p] \in Working /\ SourceOf[r] = Source(p)
  THEN IF pc[p] \in {"parse", "events"} THEN attempt[p] - 1 ELSE attempt[p]
  ELSE 0

\* The lines all the runs started so far may have added.
Used == started * MaxAttempts

\* Earlier runs have made all of their attempts at most.
Copies(p) ==
  /\ \A r \in Records : events[r] + MaxAttempts <= Used + Repeats(p, r)
  /\ \A r \in Records : raws[r] <= events[r]
  /\ pc[p] \in {"events", "raws"} => \A r \in batch[p] : SourceOf[r] = Source(p)
  /\ pc[p] = "raws" => \A r \in batch[p] : raws[r] < events[r]

\* A record of the source raises.
Poisoned(s) == \E r \in sample \cap Poison : SourceOf[r] = s

\* A source that was left has an outcome; the attempts before this one failed
\* because of a record or of a write each.
Causes(p) ==
  /\ \A j \in 1..visit[p] - 1 : outcome[p][Order[j]] # "none"
  /\ \A s \in Sources : outcome[p][s] = "failed" => Poisoned(s) \/ faults >= Attempts(p)
  /\ pc[p] \in Working =>
       /\ attempt[p] \in 1..Attempts(p)
       /\ Poisoned(Source(p)) \/ faults >= attempt[p] - 1

RInv ==
  /\ CInv /\ AInv
  /\ \A p \in Runs : Copies(p) /\ Causes(p)

\* Counting runs and attempts.
LEMMA UsedType ==
  ASSUME TInv
  PROVE  /\ Used \in Nat /\ MaxAttempts \in Nat /\ MaxAttempts > 0 /\ Len(Order) \in Nat
         /\ started' = started => Used' = Used
         /\ started' = started + 1 => Used' = Used + MaxAttempts
<1>1. started \in Nat /\ MaxAttempts \in Nat /\ MaxAttempts > 0 /\ Len(Order) \in Nat
  BY AttemptsAssumption, BoundsAssumption, SourcesAssumption DEF TInv, TypeOK
<1>2. started * MaxAttempts \in Nat /\ (started + 1) * MaxAttempts = started * MaxAttempts + MaxAttempts
  BY <1>1
<1>3. QED
  BY <1>1, <1>2 DEF Used

\* A source is visited once.
LEMMA VisitedOnce ==
  ASSUME TInv, NEW p \in Runs, visit[p] <= Len(Order), NEW j \in 1..visit[p] - 1
  PROVE  Order[j] # Source(p)
<1>1. visit[p] \in 1..Len(Order) + 1 /\ DOMAIN Order = 1..Len(Order) /\ Len(Order) \in Nat
  BY SourcesAssumption DEF TInv, TypeOK
<1>2. QED
  BY <1>1, SourcesAssumption DEF Source

\* A run has added at most as many lines as it has attempts.
LEMMA RepeatsType ==
  ASSUME TInv, NEW p \in Runs, Causes(p), NEW r \in Records
  PROVE  Repeats(p, r) \in 0..MaxAttempts
<1>1. pc[p] \in Working => attempt[p] \in 1..MaxAttempts
  BY AttemptsType, UsedType DEF Causes
<1>2. QED
  BY <1>1, UsedType DEF Repeats

\* The lines an attempt at a source may have added, while the run is at it.
LEMMA RepeatsHere ==
  ASSUME TInv, NEW p \in Runs, pc[p] \in Working, NEW r \in Records, SourceOf[r] = Source(p)
  PROVE  Repeats(p, r) = IF pc[p] \in {"parse", "events"} THEN attempt[p] - 1 ELSE attempt[p]
<1>1. visit[p] <= Len(Order)
  BY UsedType DEF TInv, AtSource
<1>2. ~ \E j \in 1..visit[p] - 1 : Order[j] = SourceOf[r]
  BY <1>1, VisitedOnce
<1>3. QED
  BY <1>2 DEF Repeats, Working

\* A run that goes on to its next source may have used up its attempts.
LEMMA RepeatsLeft ==
  ASSUME TInv, NEW p \in Runs, Causes(p), pc[p] \in Working \cup {"visit"}, visit[p] <= Len(Order),
         visit'[p] = visit[p] + 1, pc'[p] = "visit", NEW r \in Records
  PROVE  /\ Repeats(p, r) \in 0..MaxAttempts
         /\ Repeats(p, r)' >= Repeats(p, r)
         /\ SourceOf[r] = Source(p) => Repeats(p, r)' = MaxAttempts
<1>1. visit[p] \in Nat /\ visit[p] >= 1
  BY UsedType DEF TInv, TypeOK
<1>2. visit[p] \in 1..visit'[p] - 1 /\ 1..visit[p] - 1 \subseteq 1..visit'[p] - 1
  BY <1>1
<1>3. SourceOf[r] = Source(p) => Repeats(p, r)' = MaxAttempts
  BY <1>2 DEF Repeats, Source
<1>4. Repeats(p, r) \in 0..MaxAttempts
  BY RepeatsType
<1>5. CASE SourceOf[r] = Source(p)
  BY <1>3, <1>4, <1>5, UsedType
<1>6. CASE \E j \in 1..visit[p] - 1 : Order[j] = SourceOf[r]
  <2>1. Repeats(p, r)' = MaxAttempts
    BY <1>2, <1>6 DEF Repeats
  <2>2. QED
    BY <1>3, <1>4, <2>1, UsedType
<1>7. CASE SourceOf[r] # Source(p) /\ ~ \E j \in 1..visit[p] - 1 : Order[j] = SourceOf[r]
  <2>1. Repeats(p, r) = 0
    BY <1>7 DEF Repeats, Working
  <2>2. Repeats(p, r)' \in {0, MaxAttempts}
    BY DEF Repeats, Working
  <2>3. QED
    BY <1>4, <1>7, <2>1, <2>2, UsedType
<1>8. QED
  BY <1>5, <1>6, <1>7

\* An attempt that fails, or a run that is killed, leaves room for the lines it
\* has added.
LEMMA RepeatsBroken ==
  ASSUME TInv, NEW p \in Runs, Causes(p), pc[p] \in Working, AttemptFails(p) \/ Die(p),
         NEW r \in Records
  PROVE  /\ Repeats(p, r) \in 0..MaxAttempts
         /\ Repeats(p, r)' \in Nat
         /\ Repeats(p, r)' >= Repeats(p, r)
         /\ SourceOf[r] = Source(p) /\ pc[p] \in {"parse", "events"} => Repeats(p, r)' >= Repeats(p, r) + 1
<1>1. /\ pc \in [Runs -> {"idle", "killed", "visit"} \cup Working]
      /\ visit \in [Runs -> 1..Len(Order) + 1] /\ attempt \in [Runs -> 0..MaxAttempts]
      /\ visit[p] \in 1..Len(Order)
  BY MemoryType DEF MemoryOK, AtSource
<1>2. attempt[p] \in 1..MaxAttempts /\ Repeats(p, r) \in 0..MaxAttempts
  BY AttemptsType, RepeatsType, UsedType DEF Causes
<1>3. SourceOf[r] = Source(p) /\ pc[p] \in {"parse", "events"} => Repeats(p, r) + 1 <= MaxAttempts
  BY <1>2, RepeatsHere, UsedType
<1>4. CASE Repeats(p, r)' = MaxAttempts
  BY <1>2, <1>3, <1>4, UsedType
<1>5. CASE Die(p)
  <2>1. pc'[p] = "killed"
    BY <1>1, <1>5 DEF Die, Goto
  <2>2. QED
    BY <1>4, <2>1 DEF Repeats
<1>6. CASE AttemptFails(p) /\ ~(attempt[p] < Attempts(p))
  <2>1. visit'[p] = visit[p] + 1 /\ pc'[p] = "visit" /\ visit[p] <= Len(Order)
    BY <1>1, <1>6, UsedType DEF AttemptFails, Conclude, Goto
  <2>2. /\ Repeats(p, r)' >= Repeats(p, r)
        /\ SourceOf[r] = Source(p) => Repeats(p, r)' = MaxAttempts
    BY <2>1, RepeatsLeft
  <2>3. Repeats(p, r)' \in {0, MaxAttempts}
    BY <2>1 DEF Repeats, Working
  <2>4. QED
    BY <1>2, <1>3, <2>2, <2>3, UsedType
<1>7. CASE AttemptFails(p) /\ attempt[p] < Attempts(p)
  <2>1. visit'[p] = visit[p] /\ pc'[p] = "parse" /\ attempt'[p] = attempt[p] + 1
    BY <1>1, <1>7 DEF AttemptFails, Goto
  <2>2. Source(p)' = Source(p)
    BY <2>1 DEF Source
  <2>3. CASE SourceOf[r] = Source(p)
    <3>1. ~ \E j \in 1..visit[p] - 1 : Order[j] = SourceOf[r]
      BY <1>1, <2>3, VisitedOnce, UsedType
    <3>2. Repeats(p, r)' = attempt[p]
      BY <1>2, <2>1, <2>2, <2>3, <3>1 DEF Repeats, Working
    <3>3. QED
      BY <1>2, <2>3, <3>2, RepeatsHere
  <2>4. CASE SourceOf[r] # Source(p)
    <3>1. Repeats(p, r)' = Repeats(p, r)
      BY <2>1, <2>2, <2>4 DEF Repeats, Working
    <3>2. QED
      BY <1>2, <2>4, <3>1
  <2>5. QED
    BY <2>3, <2>4
<1>8. QED
  BY <1>5, <1>6, <1>7

\* Records arrive and writes fail, but neither is ever taken back.
LEMMA CausesSame ==
  ASSUME TInv, NEW p \in Runs, Causes(p), sample \subseteq sample', faults' = faults,
         driver'[p] = driver[p], visit'[p] = visit[p], outcome'[p] = outcome[p],
         pc'[p] \in Working => pc[p] \in Working /\ attempt'[p] = attempt[p]
  PROVE  Causes(p)'
<1>1. \A s : Poisoned(s) => Poisoned(s)'
  BY DEF Poisoned
<1>2. Attempts(p)' = Attempts(p) /\ Source(p)' = Source(p)
  BY DEF Attempts, Source
<1>3. QED
  BY <1>1, <1>2 DEF Causes

\* A run that leaves a source has an outcome for it, and a cause if it failed.
LEMMA CausesLeft ==
  ASSUME TInv, NEW p \in Runs, Causes(p), visit[p] \in 1..Len(Order),
         sample' = sample, faults' \in Nat, faults' >= faults, driver'[p] = driver[p],
         NEW result \in {"disabled", "ok", "failed"},
         outcome' = [outcome EXCEPT ![p][Source(p)] = result],
         visit'[p] = visit[p] + 1, pc'[p] = "visit",
         result = "failed" => Poisoned(Source(p)) \/ faults' >= Attempts(p)
  PROVE  Causes(p)'
<1>1. /\ outcome \in [Runs -> [Sources -> {"none", "disabled", "ok", "failed"}]]
      /\ DOMAIN Order = 1..Len(Order) /\ Len(Order) \in Nat /\ faults \in Nat
  BY SourcesAssumption, BoundsAssumption DEF TInv, TypeOK
<1>2. Attempts(p)' = Attempts(p) /\ Attempts(p) \in Nat /\ \A s : Poisoned(s)' = Poisoned(s)
  BY AttemptsType, UsedType DEF Attempts, Poisoned
<1>3. Source(p) = Order[visit[p]] /\ \A j \in 1..Len(Order) : Order[j] \in Sources
  BY <1>1 DEF Source, Sources
<1>4. \A s \in Sources : outcome'[p][s] = IF s = Source(p) THEN result ELSE outcome[p][s]
  BY <1>1
<1>5. \A j \in 1..visit'[p] - 1 : outcome'[p][Order[j]] # "none"
  <2>1. SUFFICES ASSUME NEW j \in 1..visit[p] PROVE outcome'[p][Order[j]] # "none"
    BY <1>1
  <2>2. Order[j] \in Sources /\ j \in 1..Len(Order)
    BY <1>1, <1>3
  <2>3. CASE j = visit[p]
    BY <1>3, <1>4, <2>2, <2>3
  <2>4. CASE j \in 1..visit[p] - 1
    BY <1>4, <2>2, <2>4 DEF Causes
  <2>5. QED
    BY <1>1, <2>3, <2>4
<1>6. ASSUME NEW s \in Sources, outcome'[p][s] = "failed"
      PROVE  Poisoned(s)' \/ faults' >= Attempts(p)'
  <2>1. CASE s = Source(p)
    BY <1>2, <1>4, <1>6, <2>1
  <2>2. CASE s # Source(p)
    BY <1>1, <1>2, <1>4, <1>6, <2>2 DEF Causes
  <2>3. QED
    BY <2>1, <2>2
<1>7. QED
  BY <1>5, <1>6 DEF Causes, Working

\* An attempt fails because of a record or of a write; a killed run reports
\* nothing.
LEMMA CausesBroken ==
  ASSUME TInv, NEW p \in Runs, Causes(p), pc[p] \in Working, sample' = sample, faults' \in Nat,
         \/ AttemptFails(p) /\ (faults' = faults + 1 \/ (faults' = faults /\ Poisoned(Source(p))))
         \/ Die(p)
  PROVE  Causes(p)'
<1>1. /\ MemoryOK /\ visit[p] \in 1..Len(Order) /\ faults \in Nat
      /\ attempt[p] \in 1..Attempts(p) /\ Attempts(p) \in 1..MaxAttempts /\ MaxAttempts \in Nat
  <2>1. MemoryOK /\ visit[p] \in 1..Len(Order) /\ MaxAttempts \in Nat
    BY MemoryType, UsedType DEF TInv, AtSource
  <2>2. faults \in Nat
    BY BoundsAssumption DEF TInv, TypeOK
  <2>3. QED
    BY <2>1, <2>2, AttemptsType DEF Causes
<1>2. Poisoned(Source(p)) \/ faults >= attempt[p] - 1
  BY DEF Causes
<1>3. CASE Die(p)
  <2>1. pc'[p] = "killed" /\ visit'[p] = 1 /\ outcome'[p] = Blank
    BY <1>1, <1>3 DEF Die, Goto, MemoryOK
  <2>2. QED
    BY <2>1 DEF Causes, Working, Blank
<1>4. CASE AttemptFails(p) /\ attempt[p] < Attempts(p)
  <2>1. /\ attempt'[p] = attempt[p] + 1 /\ faults' >= faults
        /\ driver' = driver /\ visit' = visit /\ outcome' = outcome
        /\ Poisoned(Source(p)) \/ faults' >= attempt[p]
    BY <1>1, <1>2, <1>4 DEF AttemptFails, Die, MemoryOK
  <2>2. Attempts(p)' = Attempts(p) /\ Source(p)' = Source(p) /\ \A s : Poisoned(s)' = Poisoned(s)
    BY <2>1 DEF Attempts, Source, Poisoned
  <2>3. attempt'[p] \in 1..Attempts(p)' /\ (Poisoned(Source(p))' \/ faults' >= attempt'[p] - 1)
    BY <1>1, <1>4, <2>1, <2>2
  <2>4. \A s \in Sources : outcome'[p][s] = "failed" => Poisoned(s)' \/ faults' >= Attempts(p)'
    BY <1>1, <2>1, <2>2 DEF Causes
  <2>5. QED
    BY <2>1, <2>3, <2>4 DEF Causes
<1>5. CASE AttemptFails(p) /\ ~(attempt[p] < Attempts(p))
  <2>1. Conclude(p, "failed")
    BY <1>5 DEF AttemptFails
  <2>2. /\ faults' >= faults /\ driver'[p] = driver[p] /\ visit'[p] = visit[p] + 1 /\ pc'[p] = "visit"
        /\ outcome' = [outcome EXCEPT ![p][Source(p)] = "failed"]
    BY <1>1, <2>1 DEF Conclude, Goto, Die, MemoryOK
  <2>3. Poisoned(Source(p)) \/ faults' >= Attempts(p)
    <3>1. ~Die(p)
      BY <1>1, <2>2 DEF Die, Goto, MemoryOK
    <3>2. QED
      BY <1>1, <1>2, <1>5, <3>1
  <2>4. QED
    BY <1>1, <2>2, <2>3, CausesLeft
<1>6. QED
  BY <1>3, <1>4, <1>5

\* A step that leaves the logs alone, and the run room for what it has added.
LEMMA CopiesRoom ==
  ASSUME TInv, NEW p \in Runs, Copies(p), events' = events, raws' = raws, started' = started,
         \A r \in Records : /\ Repeats(p, r) \in Nat /\ Repeats(p, r)' \in Nat
                            /\ Repeats(p, r)' >= Repeats(p, r),
         pc'[p] \notin {"events", "raws"}
  PROVE  Copies(p)'
<1>1. Used' = Used /\ Used \in Nat /\ MaxAttempts \in Nat
  BY UsedType
<1>2. events \in [Records -> Nat]
  BY DEF TInv, TypeOK
<1>3. ASSUME NEW r \in Records PROVE (events[r] + MaxAttempts <= Used + Repeats(p, r))'
  <2>1. events[r] + MaxAttempts <= Used + Repeats(p, r) /\ events[r] \in Nat
    BY <1>2 DEF Copies
  <2>2. QED
    BY <1>1, <2>1
<1>4. QED
  BY <1>3 DEF Copies

\* While a run is at a source, its steps there count as the attempt they are of.
LEMMA RepeatsAt ==
  ASSUME TInv, NEW p \in Runs, Causes(p), visit'[p] = visit[p], pc'[p] \in Working,
         \/ pc[p] \in Working /\ attempt'[p] = attempt[p]
         \/ pc[p] = "visit" /\ attempt'[p] = 1 /\ pc'[p] = "parse" /\ visit[p] <= Len(Order),
         pc'[p] \in {"parse", "events"} \/ pc[p] \notin {"parse"},
         pc[p] \in {"parse", "events", "visit"} \/ pc'[p] \notin {"parse", "events"},
         NEW r \in Records
  PROVE  /\ Repeats(p, r) \in Nat /\ Repeats(p, r)' \in Nat
         /\ Repeats(p, r)' >= Repeats(p, r)
         /\ SourceOf[r] = Source(p) /\ pc[p] = "events" /\ pc'[p] = "raws"
              => Repeats(p, r)' = Repeats(p, r) + 1
<1>1. Repeats(p, r) \in 0..MaxAttempts /\ MaxAttempts \in Nat /\ Source(p)' = Source(p)
  BY RepeatsType, UsedType DEF Source
<1>2. pc[p] \in Working => attempt[p] \in Nat \ {0}
  BY AttemptsType, UsedType DEF Causes
<1>3. CASE \E j \in 1..visit[p] - 1 : Order[j] = SourceOf[r]
  <2>1. Repeats(p, r) = MaxAttempts /\ Repeats(p, r)' = MaxAttempts
    BY <1>3 DEF Repeats
  <2>2. visit[p] <= Len(Order)
    BY UsedType DEF TInv, AtSource
  <2>3. SourceOf[r] # Source(p)
    BY <1>3, <2>2, VisitedOnce
  <2>4. QED
    BY <1>1, <2>1, <2>3
<1>4. CASE ~ \E j \in 1..visit[p] - 1 : Order[j] = SourceOf[r]
  <2>1. CASE SourceOf[r] # Source(p)
    <3>1. Repeats(p, r) = 0 /\ Repeats(p, r)' = 0
      BY <1>1, <1>4, <2>1 DEF Repeats, Working
    <3>2. QED
      BY <2>1, <3>1
  <2>2. CASE SourceOf[r] = Source(p) /\ pc[p] = "visit"
    <3>1. Repeats(p, r) = 0 /\ Repeats(p, r)' = 0
      BY <1>1, <1>4, <2>2 DEF Repeats, Working
    <3>2. QED
      BY <2>2, <3>1
  <2>3. CASE SourceOf[r] = Source(p) /\ pc[p] \in Working
    <3>1. /\ Repeats(p, r) = IF pc[p] \in {"parse", "events"} THEN attempt[p] - 1 ELSE attempt[p]
          /\ Repeats(p, r)' = IF pc'[p] \in {"parse", "events"} THEN attempt[p] - 1 ELSE attempt[p]
      BY <1>1, <1>4, <2>3 DEF Repeats, Working
    <3>2. attempt[p] \in Nat /\ attempt[p] >= 1
      BY <1>2, <2>3
    <3>3. CASE pc[p] \in {"parse", "events"} /\ pc'[p] \in {"parse", "events"}
      BY <3>1, <3>2, <3>3
    <3>4. CASE pc[p] \in {"parse", "events"} /\ pc'[p] \notin {"parse", "events"}
      BY <3>1, <3>2, <3>4
    <3>5. CASE pc[p] \notin {"parse", "events"} /\ pc'[p] \notin {"parse", "events"}
      BY <3>1, <3>2, <3>5
    <3>6. pc[p] # "visit"
      BY <2>3 DEF Working
    <3>7. QED
      BY <3>3, <3>4, <3>5, <3>6
  <2>4. QED
    BY <2>1, <2>2, <2>3 DEF Working
<1>5. QED
  BY <1>3, <1>4

\* Each step of a run keeps the copies of the records accounted for.
LEMMA StepCopies ==
  ASSUME Alone, RInv, NEW p \in Runs, Step(p)
  PROVE  Copies(p)'
<1>1. TInv /\ Whole /\ Saving(p) /\ Copies(p) /\ Causes(p)
  BY DEF RInv, CInv, CPart, AInv
<1>2. FilesOK /\ MemoryOK
  BY <1>1, TypeParts
<1>3. \A r \in Records : Repeats(p, r) \in 0..MaxAttempts /\ MaxAttempts \in Nat
  BY <1>1, RepeatsType, UsedType
<1>4. ASSUME Skip(p) \/ Replace(p)
      PROVE  Copies(p)'
  <2>1. /\ events' = events /\ raws' = raws /\ started' = started
        /\ pc[p] \in Working \cup {"visit"} /\ visit[p] <= Len(Order)
        /\ visit'[p] = visit[p] + 1 /\ pc'[p] = "visit"
    <3>1. CASE Skip(p)
      BY <1>2, <3>1 DEF Skip, Conclude, Goto, MemoryOK, logs, bounds
    <3>2. CASE Replace(p)
      BY <1>1, <1>2, <3>2, UsedType DEF Replace, Goto, MemoryOK, AtSource, Working, logs, bounds
    <3>3. QED
      BY <1>4, <3>1, <3>2
  <2>2. \A r \in Records : Repeats(p, r)' >= Repeats(p, r) /\ Repeats(p, r)' \in {0, MaxAttempts}
    BY <1>1, <2>1, RepeatsLeft DEF Repeats, Working
  <2>3. \A r \in Records : /\ Repeats(p, r) \in Nat /\ Repeats(p, r)' \in Nat
                           /\ Repeats(p, r)' >= Repeats(p, r)
    BY <1>3, <2>2
  <2>4. QED
    BY <1>1, <2>1, <2>3, CopiesRoom
<1>5. ASSUME Visit(p) \/ OpenTemp(p) \/ FillTemp(p)
      PROVE  Copies(p)'
  <2>1. /\ events' = events /\ raws' = raws /\ started' = started /\ visit'[p] = visit[p]
        /\ \/ pc[p] \in {"open_temp", "fill_temp"} /\ pc'[p] \in {"fill_temp", "replace"}
              /\ attempt'[p] = attempt[p]
           \/ pc[p] = "visit" /\ attempt'[p] = 1 /\ pc'[p] = "parse" /\ visit[p] <= Len(Order)
    BY <1>2, <1>5 DEF Visit, OpenTemp, FillTemp, Goto, MemoryOK, logs, bounds
  <2>2. \A r \in Records : /\ Repeats(p, r) \in Nat /\ Repeats(p, r)' \in Nat
                           /\ Repeats(p, r)' >= Repeats(p, r)
    BY <1>1, <2>1, RepeatsAt DEF Working
  <2>3. QED
    BY <1>1, <2>1, <2>2, CopiesRoom
<1>6. ASSUME UNCHANGED <<events, raws, started>>, pc[p] \in Working, AttemptFails(p)
      PROVE  Copies(p)'
  <2>1. \A r \in Records : /\ Repeats(p, r) \in Nat /\ Repeats(p, r)' \in Nat
                           /\ Repeats(p, r)' >= Repeats(p, r)
    BY <1>1, <1>3, <1>6, RepeatsBroken
  <2>2. QED
    BY <1>1, <1>6, <2>1, BreakFrame, CopiesRoom
<1>7. CASE Parse(p)
  <2>1. /\ events' = events /\ raws' = raws /\ started' = started /\ pc[p] = "parse"
    BY <1>7 DEF Parse, logs, bounds
  <2>2. CASE AttemptFails(p)
    BY <1>6, <2>1, <2>2 DEF Working
  <2>3. CASE ~AttemptFails(p)
    <3>1. /\ visit'[p] = visit[p] /\ pc'[p] = "events" /\ attempt'[p] = attempt[p]
          /\ batch'[p] = Sampled(p) /\ Source(p)' = Source(p)
      BY <1>2, <1>7, <2>3 DEF Parse, Goto, MemoryOK, Source
    <3>2. \A r \in Records : /\ Repeats(p, r) \in Nat /\ Repeats(p, r)' \in Nat
                             /\ Repeats(p, r)' >= Repeats(p, r)
      BY <1>1, <2>1, <3>1, RepeatsAt DEF Working
    <3>3. Used' = Used /\ Used \in Nat /\ \A r \in Records : events[r] \in Nat
      BY <1>1, <1>2, <2>1, UsedType DEF FilesOK
    <3>4. \A r \in Records : (events[r] + MaxAttempts <= Used + Repeats(p, r))'
      <4>1. SUFFICES ASSUME NEW r \in Records PROVE events[r] + MaxAttempts <= Used + Repeats(p, r)'
        BY <2>1, <3>3
      <4>2. events[r] + MaxAttempts <= Used + Repeats(p, r)
        BY <1>1 DEF Copies
      <4>3. QED
        BY <1>3, <3>2, <3>3, <4>2
    <3>5. \A r \in batch'[p] : SourceOf[r] = Source(p)'
      BY <3>1 DEF Sampled
    <3>6. QED
      BY <1>1, <2>1, <3>1, <3>4, <3>5 DEF Copies
  <2>4. QED
    BY <2>2, <2>3
<1>8. CASE AppendNormalized(p)
  <2>1. /\ events' = Appended(events, batch[p]) /\ raws' = raws /\ started' = started
        /\ pc[p] = "events" /\ pc'[p] = "raws" /\ batch'[p] = batch[p]
        /\ visit'[p] = visit[p] /\ attempt'[p] = attempt[p] /\ Source(p)' = Source(p)
    BY <1>1, <1>2, <1>8, WholeReadable
    DEF AppendNormalized, Goto, MemoryOK, memory, bounds, Source
  <2>2. \A r \in Records : events[r] \in Nat /\ raws[r] \in Nat /\ raws[r] <= events[r]
    BY <1>1, <1>2 DEF FilesOK, Copies
  <2>3. \A r \in Records : events'[r] = IF r \in batch[p] THEN events[r] + 1 ELSE events[r]
    BY <2>1 DEF Appended
  <2>4. \A r \in Records : /\ Repeats(p, r) \in Nat /\ Repeats(p, r)' \in Nat
                           /\ Repeats(p, r)' >= Repeats(p, r)
                           /\ r \in batch[p] => Repeats(p, r)' = Repeats(p, r) + 1
    <3>1. \A r \in batch[p] : SourceOf[r] = Source(p)
      BY <1>1, <2>1 DEF Copies
    <3>2. QED
      BY <1>1, <2>1, <3>1, RepeatsAt DEF Working
  <2>5. Used' = Used /\ Used \in Nat
    BY <1>1, <2>1, UsedType
  <2>6. ASSUME NEW r \in Records PROVE (events[r] + MaxAttempts <= Used + Repeats(p, r))'
    <3>1. events[r] + MaxAttempts <= Used + Repeats(p, r)
      BY <1>1 DEF Copies
    <3>2. QED
      BY <1>3, <2>2, <2>3, <2>4, <2>5, <3>1
  <2>7. \A r \in Records : raws'[r] <= events'[r]
    BY <2>1, <2>2, <2>3
  <2>8. batch[p] \in SUBSET Records /\ \A r \in batch[p] : SourceOf[r] = Source(p)
    BY <1>1, <1>2, <2>1 DEF Copies, MemoryOK, Batches
  <2>9. \A r \in batch[p] : raws'[r] < events'[r]
    BY <2>1, <2>2, <2>3, <2>8
  <2>10. QED
    BY <2>1, <2>6, <2>7, <2>8, <2>9 DEF Copies
<1>9. CASE AppendRaw(p)
  <2>1. /\ raws' = Appended(raws, batch[p]) /\ events' = events /\ started' = started
        /\ pc[p] = "raws" /\ pc'[p] = "open_temp"
        /\ visit'[p] = visit[p] /\ attempt'[p] = attempt[p]
    BY <1>1, <1>2, <1>9, WholeReadable DEF AppendRaw, Goto, MemoryOK, memory, bounds
  <2>2. \A r \in Records : events[r] \in Nat /\ raws[r] \in Nat /\ raws[r] <= events[r]
    BY <1>1, <1>2 DEF FilesOK, Copies
  <2>3. \A r \in Records : raws'[r] = IF r \in batch[p] THEN raws[r] + 1 ELSE raws[r]
    BY <2>1 DEF Appended
  <2>4. \A r \in batch[p] : raws[r] < events[r]
    BY <1>1, <2>1 DEF Copies
  <2>5. \A r \in Records : raws'[r] <= events'[r]
    BY <2>1, <2>2, <2>3, <2>4
  <2>6. \A r \in Records : /\ Repeats(p, r) \in Nat /\ Repeats(p, r)' \in Nat
                           /\ Repeats(p, r)' >= Repeats(p, r)
    BY <1>1, <2>1, RepeatsAt DEF Working
  <2>7. Used' = Used /\ Used \in Nat
    BY <1>1, <2>1, UsedType
  <2>8. ASSUME NEW r \in Records PROVE (events[r] + MaxAttempts <= Used + Repeats(p, r))'
    <3>1. events[r] + MaxAttempts <= Used + Repeats(p, r)
      BY <1>1 DEF Copies
    <3>2. QED
      BY <1>3, <2>1, <2>2, <2>6, <2>7, <3>1
  <2>9. QED
    BY <2>1, <2>5, <2>8 DEF Copies
<1>10. CASE ReplaceMissing(p)
  BY <1>1, <1>10 DEF ReplaceMissing, Saving
<1>11. CASE Report(p)
  <2>1. /\ events' = events /\ raws' = raws /\ started' = started /\ pc'[p] = "idle"
    BY <1>2, <1>11 DEF Report, Goto, MemoryOK, logs, bounds
  <2>2. \A r \in Records : Repeats(p, r)' = MaxAttempts
    BY <2>1 DEF Repeats
  <2>3. \A r \in Records : /\ Repeats(p, r) \in Nat /\ Repeats(p, r)' \in Nat
                           /\ Repeats(p, r)' >= Repeats(p, r)
    BY <1>3, <2>2
  <2>4. QED
    BY <1>1, <2>1, <2>3, CopiesRoom
<1>12. QED
  BY <1>4, <1>5, <1>7, <1>8, <1>9, <1>10, <1>11 DEF Step

\* Each broken step does: what it has written counts as a failed attempt.
LEMMA BreakCopies ==
  ASSUME MaxTears = 0, RInv, NEW p \in Runs, Break(p)
  PROVE  Copies(p)'
<1>1. TInv /\ Whole /\ Copies(p) /\ Causes(p)
  BY DEF RInv, CInv, CPart, AInv
<1>2. FilesOK /\ MemoryOK /\ BoundsOK
  BY <1>1, TypeParts
<1>3. /\ AttemptFails(p) \/ Die(p)
      /\ pc[p] \in Working /\ started' = started
  BY DEF Break, BreakAppend, BreakSave, Fault, Die, Working
<1>4. pc'[p] \notin {"events", "raws"}
  BY <1>1, <1>3, BreakFrame
<1>5. \A r \in Records :
        /\ Repeats(p, r) \in Nat /\ Repeats(p, r)' \in Nat
        /\ Repeats(p, r)' >= Repeats(p, r)
        /\ SourceOf[r] = Source(p) /\ pc[p] = "events" => Repeats(p, r)' >= Repeats(p, r) + 1
  BY <1>1, <1>3, RepeatsBroken, UsedType
<1>6. CASE BreakSave(p)
  <2>1. events' = events /\ raws' = raws
    BY <1>6 DEF BreakSave, logs
  <2>2. QED
    BY <1>1, <1>3, <1>4, <1>5, <2>1, CopiesRoom
<1>7. CASE BreakAppend(p)
  <2>1. PICK written \in Prefixes(batch[p]), cut \in BOOLEAN : BreakAppend(p)!2!(written, cut)
    BY <1>7 DEF BreakAppend
  <2>2. pc[p] \in {"events", "raws"} /\ Readable(written, torn[pc[p]]) = written
    BY <1>1, <1>7, WholeReadable DEF BreakAppend
  <2>3. written \subseteq batch[p] /\ batch[p] \subseteq Records
        /\ \A r \in written : SourceOf[r] = Source(p)
    BY <1>1, <1>2, <2>2 DEF Prefixes, MemoryOK, Batches, Copies
  <2>4. \A r \in Records : events[r] \in Nat /\ raws[r] \in Nat /\ raws[r] <= events[r]
    BY <1>1, <1>2 DEF FilesOK, Copies
  <2>5. \A r \in Records :
          /\ events'[r] = IF pc[p] = "events" /\ r \in written THEN events[r] + 1 ELSE events[r]
          /\ raws'[r] = IF pc[p] = "raws" /\ r \in written THEN raws[r] + 1 ELSE raws[r]
    BY <2>1, <2>2 DEF Appended
  <2>6. pc[p] = "raws" => \A r \in written : raws[r] < events[r]
    BY <1>1, <2>3 DEF Copies
  <2>7. \A r \in Records : raws'[r] <= events'[r]
    BY <2>2, <2>3, <2>4, <2>5, <2>6
  <2>8. Used' = Used /\ Used \in Nat /\ MaxAttempts \in Nat
    BY <1>1, <1>3, UsedType
  <2>9. ASSUME NEW r \in Records PROVE (events[r] + MaxAttempts <= Used + Repeats(p, r))'
    <3>1. events[r] + MaxAttempts <= Used + Repeats(p, r)
      BY <1>1 DEF Copies
    <3>2. CASE pc[p] = "events" /\ r \in written
      BY <1>5, <2>3, <2>4, <2>5, <2>8, <3>1, <3>2
    <3>3. CASE ~(pc[p] = "events" /\ r \in written)
      BY <1>5, <2>4, <2>5, <2>8, <3>1, <3>3
    <3>4. QED
      BY <3>2, <3>3
  <2>10. QED
    BY <1>4, <2>7, <2>9 DEF Copies
<1>8. QED
  BY <1>6, <1>7 DEF Break

\* What a run does keeps a cause for each failure.
LEMMA StepCauses ==
  ASSUME RInv, NEW p \in Runs, Step(p)
  PROVE  Causes(p)'
<1>1. TInv /\ Saving(p) /\ Causes(p)
  BY DEF RInv, AInv
<1>2. FilesOK /\ MemoryOK /\ BoundsOK
  BY <1>1, TypeParts
<1>3. faults \in Nat
  BY <1>2, BoundsAssumption DEF BoundsOK
<1>4. CASE Skip(p)
  <2>1. /\ visit[p] \in 1..Len(Order) /\ sample' = sample /\ faults' = faults
        /\ driver'[p] = driver[p] /\ visit'[p] = visit[p] + 1 /\ pc'[p] = "visit"
        /\ outcome' = [outcome EXCEPT ![p][Source(p)] = "disabled"]
    BY <1>1, <1>2, <1>4, UsedType DEF Skip, Conclude, Goto, MemoryOK, bounds
  <2>2. faults' \in Nat /\ faults' >= faults
    BY <1>3, <2>1
  <2>3. QED
    BY <1>1, <2>1, <2>2, CausesLeft
<1>5. CASE Replace(p)
  <2>1. /\ visit[p] \in 1..Len(Order) /\ sample' = sample /\ faults' = faults
        /\ driver'[p] = driver[p] /\ visit'[p] = visit[p] + 1 /\ pc'[p] = "visit"
        /\ outcome' = [outcome EXCEPT ![p][Source(p)] = "ok"]
    BY <1>2, <1>5 DEF Replace, Goto, MemoryOK, AtSource, Working, bounds
  <2>2. faults' \in Nat /\ faults' >= faults
    BY <1>3, <2>1
  <2>3. QED
    BY <1>1, <2>1, <2>2, CausesLeft
<1>6. CASE Visit(p)
  <2>1. /\ sample' = sample /\ faults' = faults /\ driver' = driver /\ visit' = visit
        /\ outcome' = outcome /\ attempt'[p] = 1 /\ Attempts(p)' = Attempts(p)
    BY <1>2, <1>6 DEF Visit, MemoryOK, Attempts, bounds
  <2>2. Attempts(p) \in Nat /\ Attempts(p) >= 1
    BY AttemptsType, <1>1, UsedType
  <2>3. attempt'[p] \in 1..Attempts(p)' /\ faults' >= attempt'[p] - 1
    BY <1>3, <2>1, <2>2
  <2>4. \A s : Poisoned(s)' = Poisoned(s)
    BY <2>1 DEF Poisoned
  <2>5. QED
    BY <1>1, <2>1, <2>3, <2>4 DEF Causes
<1>7. CASE Parse(p)
  <2>1. pc[p] \in Working /\ sample' = sample /\ faults' = faults
    BY <1>7 DEF Parse, Working, bounds
  <2>2. CASE Sampled(p) \cap Poison # {}
    <3>1. Poisoned(Source(p)) /\ AttemptFails(p)
      BY <1>7, <2>2 DEF Parse, Poisoned, Sampled
    <3>2. QED
      BY <1>1, <1>3, <2>1, <3>1, CausesBroken
  <2>3. CASE Sampled(p) \cap Poison = {}
    <3>1. UNCHANGED <<driver, visit, attempt, outcome>>
      BY <1>7, <2>3 DEF Parse
    <3>2. QED
      BY <1>1, <2>1, <3>1, CausesSame
  <2>4. QED
    BY <2>2, <2>3
<1>8. ASSUME AppendNormalized(p) \/ AppendRaw(p) \/ OpenTemp(p) \/ FillTemp(p)
      PROVE  Causes(p)'
  <2>1. /\ pc[p] \in Working /\ sample' = sample /\ faults' = faults
        /\ UNCHANGED <<driver, visit, attempt, outcome>>
    BY <1>8 DEF AppendNormalized, AppendRaw, OpenTemp, FillTemp, Working, memory, bounds
  <2>2. QED
    BY <1>1, <2>1, CausesSame
<1>9. CASE ReplaceMissing(p)
  BY <1>1, <1>9 DEF ReplaceMissing, Saving
<1>10. CASE Report(p)
  <2>1. /\ pc'[p] = "idle" /\ visit'[p] = 1 /\ sample' = sample /\ faults' = faults
        /\ driver' = driver /\ outcome' = outcome
    BY <1>2, <1>10 DEF Report, Goto, MemoryOK, bounds
  <2>2. Attempts(p)' = Attempts(p) /\ \A s : Poisoned(s)' = Poisoned(s)
    BY <2>1 DEF Attempts, Poisoned
  <2>3. QED
    BY <1>1, <2>1, <2>2 DEF Causes, Working
<1>11. QED
  BY <1>4, <1>5, <1>6, <1>7, <1>8, <1>9, <1>10 DEF Step

\* A failing write is a cause itself.
LEMMA BreakCauses ==
  ASSUME RInv, NEW p \in Runs, Break(p)
  PROVE  Causes(p)'
<1>1. TInv /\ Causes(p)
  BY DEF RInv, AInv
<1>2. BoundsOK
  BY <1>1, TypeParts
<1>3. faults \in Nat
  BY <1>2, BoundsAssumption DEF BoundsOK
<1>4. /\ pc[p] \in Working /\ sample' = sample
      /\ (Fault(p) \/ Die(p))
  BY DEF Break, BreakAppend, BreakSave, Working
<1>5. /\ faults' \in Nat
      /\ \/ AttemptFails(p) /\ faults' = faults + 1
         \/ Die(p)
  BY <1>3, <1>4 DEF Fault, Die
<1>6. QED
  BY <1>1, <1>4, <1>5, CausesBroken

\* The invariant is inductive for runs that do not overlap.
LEMMA NextAccounts ==
  ASSUME Alone, MaxTears = 0, RInv, [Next]_vars
  PROVE  RInv'
<1>1. TInv /\ CInv /\ AInv /\ \A p \in Runs : Copies(p) /\ Causes(p)
  BY DEF RInv, AInv
<1>2. CInv' /\ AInv'
  BY <1>1, NextCovers, NextSaving
<1>3. FilesOK /\ MemoryOK /\ BoundsOK
  BY <1>1, TypeParts
<1>4. ASSUME NEW p \in Runs, Step(p) \/ Break(p)
      PROVE  \A q \in Runs : Copies(q)' /\ Causes(q)'
  BY <1>4, StepCopies, BreakCopies, StepCauses, BreakCauses DEF Alone
<1>5. ASSUME NEW p \in Runs, NEW d \in {"logger", "adapter"}, Start(p, d)
      PROVE  \A q \in Runs : Copies(q)' /\ Causes(q)'
  <2>1. /\ pc[p] \in {"idle", "killed"} /\ pc'[p] = "visit" /\ visit'[p] = 1
        /\ outcome'[p] = Blank /\ events' = events /\ raws' = raws
        /\ started' = started + 1 /\ sample' = sample
    BY <1>3, <1>5 DEF Start, Goto, MemoryOK, logs
  <2>2. /\ Used \in Nat /\ MaxAttempts \in Nat /\ Used' = Used + MaxAttempts
        /\ \A r \in Records : events[r] \in Nat
    BY <1>1, <1>3, <2>1, UsedType DEF FilesOK
  <2>3. ASSUME NEW r \in Records PROVE (events[r] + MaxAttempts <= Used + Repeats(p, r))'
    <3>1. Repeats(p, r) = MaxAttempts /\ Repeats(p, r)' \in {0, MaxAttempts}
      BY <2>1 DEF Repeats, Working
    <3>2. events[r] + MaxAttempts <= Used + Repeats(p, r)
      BY <1>1 DEF Copies
    <3>3. QED
      BY <2>1, <2>2, <3>1, <3>2
  <2>4. Copies(p)'
    BY <1>1, <2>1, <2>3 DEF Copies
  <2>5. Causes(p)'
    BY <2>1 DEF Causes, Blank, Working
  <2>6. QED
    BY <2>4, <2>5 DEF Alone
<1>6. ASSUME NEW r \in Records, Arrive(r), NEW p \in Runs
      PROVE  Copies(p)' /\ Causes(p)'
  <2>1. /\ sample \subseteq sample' /\ UNCHANGED <<logs, pc, memory, bounds>>
    BY <1>6 DEF Arrive
  <2>2. Causes(p)'
    BY <1>1, <2>1, CausesSame DEF memory, bounds
  <2>3. QED
    BY <1>1, <2>1, <2>2 DEF Copies, Used, Repeats, Source, logs, memory, bounds
<1>7. ASSUME UNCHANGED vars, NEW p \in Runs
      PROVE  Copies(p)' /\ Causes(p)'
  <2>1. /\ sample' = sample /\ UNCHANGED <<logs, pc, memory, bounds>>
    BY <1>7 DEF vars
  <2>2. Causes(p)'
    BY <1>1, <2>1, CausesSame DEF memory, bounds
  <2>3. QED
    BY <1>1, <2>1, <2>2 DEF Copies, Used, Repeats, Source, logs, memory, bounds
<1>8. \A p \in Runs : Copies(p)' /\ Causes(p)'
  BY <1>4, <1>5, <1>6, <1>7 DEF Next
<1>9. QED
  BY <1>2, <1>8 DEF RInv

\* Attempts are accounted for: while no two runs overlap and no line is left
\* without its end, a source is reported failed only when one of its records
\* raises or a write failed in each of its attempts, a run that ends reports
\* every source, and no record is stored more often than it was attempted.
THEOREM AttemptsAccountedHolds ==
  ASSUME Alone, Runs # {}, MaxTears = 0
  PROVE  Spec => []AttemptsAccounted
<1>1. Init => RInv
  <2>1. SUFFICES ASSUME Init PROVE RInv
    OBVIOUS
  <2>2. TInv
    BY <2>1, InitType
  <2>3. CInv
    BY <2>1, <2>2 DEF Init, CInv, CPart, Whole, FilesStored, RunStored, Stored, Absent
  <2>4. AInv
    BY <2>1, <2>2 DEF Init, AInv, Saving
  <2>5. ASSUME NEW p \in Runs PROVE Copies(p) /\ Causes(p)
    <3>1. pc[p] = "idle" /\ visit[p] = 1 /\ outcome[p] = Blank
      BY <2>1 DEF Init
    <3>2. Used \in Nat /\ MaxAttempts \in Nat
      BY <2>2, UsedType
    <3>3. \A r \in Records : Repeats(p, r) = MaxAttempts /\ events[r] = 0 /\ raws[r] = 0
      BY <2>1, <3>1 DEF Init, Repeats
    <3>4. Copies(p)
      BY <3>1, <3>2, <3>3 DEF Copies
    <3>5. Causes(p)
      BY <3>1 DEF Causes, Blank, Working
    <3>6. QED
      BY <3>4, <3>5
  <2>6. QED
    BY <2>3, <2>4, <2>5 DEF RInv
<1>2. RInv => AttemptsAccounted
  <2>1. SUFFICES ASSUME RInv PROVE FailuresHaveACause /\ BoundedCopies
    BY DEF AttemptsAccounted
  <2>2. TInv /\ \A p \in Runs : Copies(p) /\ Causes(p)
    BY <2>1 DEF RInv, AInv
  <2>3. FailuresHaveACause
    <3>1. SUFFICES ASSUME NEW p \in Runs, visit[p] > Len(Order), NEW s \in Sources
                   PROVE  outcome[p][s] # "none"
      BY <2>2 DEF FailuresHaveACause, Causes, Poisoned
    <3>2. visit[p] \in 1..Len(Order) + 1 /\ DOMAIN Order = 1..Len(Order) /\ Len(Order) \in Nat
      BY <2>2, SourcesAssumption DEF TInv, TypeOK
    <3>3. PICK j \in 1..Len(Order) : Order[j] = s
      BY <3>2 DEF Sources
    <3>4. j \in 1..visit[p] - 1
      BY <3>1, <3>2
    <3>5. QED
      BY <2>2, <3>3, <3>4 DEF Causes
  <2>4. BoundedCopies
    <3>1. SUFFICES ASSUME NEW r \in Records
                   PROVE  raws[r] <= events[r] /\ events[r] <= Used
      BY DEF BoundedCopies, Used
    <3>2. PICK p \in Runs : TRUE
      OBVIOUS
    <3>3. Repeats(p, r) \in 0..MaxAttempts /\ MaxAttempts \in Nat /\ Used \in Nat
      BY <2>2, RepeatsType, UsedType
    <3>4. events[r] + MaxAttempts <= Used + Repeats(p, r) /\ raws[r] <= events[r]
          /\ events[r] \in Nat
      BY <2>2 DEF Copies, TInv, TypeOK
    <3>5. QED
      BY <3>3, <3>4
  <2>5. QED
    BY <2>3, <2>4
<1>3. RInv /\ [Next]_vars => RInv'
  BY NextAccounts
<1>4. QED
  BY <1>1, <1>2, <1>3, PTL DEF Spec
=============================================================================
