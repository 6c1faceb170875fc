---------------------------- MODULE RegistryProofs ----------------------------
(***************************************************************************)
(* Proofs about ModelRegistry for every set of experiments, datasets and   *)
(* writers and every registration policy: what holds of any writers, and   *)
(* what holds when they run one at a time.  And about InferenceService,    *)
(* which extends it, for any restarts, promotions, fits and crashes: what  *)
(* the server holds is registered, and it implements ModelServing.         *)
(***************************************************************************)
EXTENDS InferenceService, FiniteSetTheorems, SequenceTheorems, WellFoundedInduction, TLAPS

-----------------------------------------------------------------------------
(* The registry.  Its inductive invariant. *)

\* An assignment map gives each dataset an experiment of its own.
Fits(assignment) ==
  \A d \in Datasets : assignment[d] # None => DatasetOf[assignment[d]] = d

OneProduction(document) ==
  \A e, f \in Experiments :
    /\ document[e] = "production" /\ document[f] = "production"
    /\ DatasetOf[e] = DatasetOf[f]
    => e = f

\* A promotion goes through these labels, a rebuild through the others.
Promoting == {"load_registry", "load_production", "open_registry",
              "write_registry", "open_production", "write_production"}

\* A promotion that passed the registration check holds a document in which
\* its target is the one production entry of its dataset.
PromotionInv(w) ==
  ds[w] # None =>
    /\ target[w] \in Experiments
    /\ pc[w] \in Promoting
    /\ pc[w] # "load_registry" =>
         DatasetOf[target[w]] = ds[w] /\ OneProduction(doc[w])

\* A rebuild gives the status production only to what production.json, as it
\* read it, assigns: this is what it knows of the manifests it has scanned.
RebuildInv(w) ==
  ds[w] = None =>
    /\ pc[w] \notin {"open_registry", "open_production"}
    /\ pc[w] \in {"scan", "write_registry"} =>
         \A e \in Experiments \ todo[w] :
           doc[w][e] = "production" => seen[w][DatasetOf[e]] = e

WriterInv(w) ==
  /\ Fits(seen[w])
  /\ pc[w] \in Ended => ds[w] = None
  /\ pc[w] # "scan" => todo[w] = {}
  /\ PromotionInv(w)
  /\ RebuildInv(w)

FilesInv == Fits(production) /\ OneProduction(entries)

IInv == TypeOK /\ FilesInv /\ \A w \in Writers : WriterInv(w)

-----------------------------------------------------------------------------
(* Type correctness. *)

\* A command that ends, however it does, leaves its memory well typed.
LEMMA EndType ==
  ASSUME TypeOK, NEW w \in Writers, NEW how \in Ended, End(w, how)
  PROVE  /\ pc' \in [Writers -> Ended \cup Running]
         /\ ds' \in [Writers -> Datasets \cup {None}]
         /\ target' \in [Writers -> Experiments \cup {None}]
         /\ doc' \in [Writers -> Documents]
         /\ seen' \in [Writers -> Assignments]
         /\ todo' \in [Writers -> SUBSET Experiments]
BY DEF TypeOK, End, Goto, Documents, Assignments, NoEntries, NoAssignment

\* Truncating a file keeps the state of the files well typed.
LEMMA OpenType ==
  ASSUME TypeOK, NEW w \in Writers, NEW f \in Files, Open(w, f)
  PROVE  /\ file' \in [Files -> {"absent", "torn", "ok"}]
         /\ open' \in [Files -> SUBSET Writers]
         /\ mixed' \in [Files -> BOOLEAN]
BY DEF TypeOK, Open

\* Filling a file keeps the state of the files well typed.
LEMMA FillType ==
  ASSUME TypeOK, NEW w \in Writers, NEW f \in Files, NEW result, Fill(w, f, result)
  PROVE  /\ file' \in [Files -> {"absent", "torn", "ok"}]
         /\ open' \in [Files -> SUBSET Writers]
         /\ mixed' \in [Files -> BOOLEAN]
BY DEF TypeOK, Fill

\* The best entry of a dataset is an experiment, or there is none.
LEMMA SelectBestType ==
  ASSUME NEW entry, NEW d
  PROVE  SelectBest(entry, d) \in Experiments \cup {None}
BY DEF SelectBest, Unbeaten, Comparable

\* An empty disk with every writer idle is well typed.
LEMMA InitType == Init => TypeOK
<1>1. 0 \in 0..MaxCrashes /\ 0 \in 0..MaxEdits
  BY BoundsAssumption
<1>2. NoEntries \in Documents /\ NoAssignment \in Assignments
  BY DEF Documents, Assignments, NoEntries, NoAssignment
<1>3. "idle" \in Ended
  BY DEF Ended
<1>4. ASSUME Init
      PROVE  /\ manifest \in [Experiments -> {"absent", "writing", "torn", "ok"}]
             /\ model \in [Experiments -> BOOLEAN]
             /\ file \in [Files -> {"absent", "torn", "ok"}]
             /\ open \in [Files -> SUBSET Writers]
             /\ mixed \in [Files -> BOOLEAN]
  BY <1>4 DEF Init
<1>5. ASSUME Init
      PROVE  /\ pc \in [Writers -> Ended \cup Running]
             /\ ds \in [Writers -> Datasets \cup {None}]
             /\ target \in [Writers -> Experiments \cup {None}]
             /\ doc \in [Writers -> Documents]
             /\ seen \in [Writers -> Assignments]
             /\ todo \in [Writers -> SUBSET Experiments]
  BY <1>2, <1>3, <1>5 DEF Init
<1>6. ASSUME Init
      PROVE  /\ entries \in Documents
             /\ best \in Assignments
             /\ production \in Assignments
             /\ interrupted \in BOOLEAN
             /\ crashes \in 0..MaxCrashes
             /\ edits \in 0..MaxEdits
  BY <1>1, <1>2, <1>6 DEF Init
<1>7. QED
  BY <1>4, <1>5, <1>6 DEF TypeOK

\* Starting a rebuild or a promotion keeps the state well typed.
LEMMA CommandType ==
  ASSUME TypeOK, NEW w \in Writers, Command(w)
  PROVE  TypeOK'
<1>1. CASE StartRebuild(w)
  BY <1>1 DEF TypeOK, StartRebuild, Goto, Running, disk, files, memory, bounds
<1>2. ASSUME NEW d \in Datasets, NEW e \in Experiments, StartPromote(w, d, e)
      PROVE  TypeOK'
  BY <1>2 DEF TypeOK, StartPromote, Goto, Running, disk, files, bounds
<1>3. ASSUME NEW d \in Datasets, NEW m \in Models, PickCandidate(w, d, m)
      PROVE  TypeOK'
  BY <1>3 DEF TypeOK, PickCandidate, FirstRanked, Candidates, Goto, Running,
              disk, files, bounds
<1>4. QED
  BY <1>1, <1>2, <1>3 DEF Command

\* Each step of a command keeps the state well typed.
LEMMA StepType ==
  ASSUME TypeOK, NEW w \in Writers, Step(w)
  PROVE  TypeOK'
<1> USE DEF disk, files, bounds
<1>1. CASE LoadTorn(w)
  <2>1. "failed" \in Ended
    BY DEF Ended
  <2>2. QED
    BY <1>1, <2>1, EndType DEF TypeOK, LoadTorn
<1>2. CASE RebuildLoadRegistry(w)
  BY <1>2 DEF TypeOK, RebuildLoadRegistry, Goto, Running
<1>3. CASE PromoteLoadRegistry(w)
  <2>1. "idle" \in Ended
    BY DEF Ended
  <2>2. CASE IsRegistered(w)
    <3>1. Promoted(w) \in Documents
      BY DEF TypeOK, Promoted, Documents, Statuses
    <3>2. QED
      BY <1>3, <2>2, <3>1 DEF TypeOK, PromoteLoadRegistry, Goto, Running
  <2>3. CASE ~IsRegistered(w)
    BY <1>3, <2>1, <2>3, EndType DEF TypeOK, PromoteLoadRegistry
  <2>4. QED
    BY <2>2, <2>3
<1>4. CASE LoadProduction(w)
  BY <1>4 DEF TypeOK, LoadProduction, Goto, Running
<1>5. CASE GlobManifests(w)
  BY <1>5 DEF TypeOK, GlobManifests, Goto, Running, Documents
<1>6. ASSUME NEW e \in Experiments, ScanManifest(w, e)
      PROVE  TypeOK'
  <2>1. Status(e, doc[w][e], seen[w]) \in Statuses
    BY DEF TypeOK, Status, Statuses, Documents
  <2>2. QED
    BY <1>6, <2>1 DEF TypeOK, ScanManifest, Documents
<1>7. ASSUME NEW e \in Experiments, ScanTornManifest(w, e)
      PROVE  TypeOK'
  <2>1. "failed" \in Ended
    BY DEF Ended
  <2>2. QED
    BY <1>7, <2>1, EndType DEF TypeOK, ScanTornManifest
<1>8. CASE OpenRegistry(w)
  BY <1>8, OpenType DEF TypeOK, OpenRegistry, Goto, Running, Files, memory
<1>9. CASE WriteRegistry(w)
  BY <1>9, FillType DEF TypeOK, WriteRegistry, Goto, Running, Files, memory
<1>10. CASE OpenBest(w)
  BY <1>10, OpenType DEF TypeOK, OpenBest, Goto, Running, Files, memory
<1>11. CASE WriteBest(w)
  <2>1. [d \in Datasets |-> SelectBest(doc[w], d)] \in Assignments
    BY SelectBestType DEF Assignments
  <2>2. QED
    BY <1>11, <2>1, FillType DEF TypeOK, WriteBest, Goto, Running, Files, memory
<1>12. CASE KeepProduction(w)
  <2>1. "idle" \in Ended
    BY DEF Ended
  <2>2. QED
    BY <1>12, <2>1, EndType DEF TypeOK, KeepProduction
<1>13. CASE OpenProduction(w)
  BY <1>13, OpenType DEF TypeOK, OpenProduction, Goto, Running, Files, memory
<1>14. CASE WriteProduction(w)
  <2>1. "idle" \in Ended
    BY DEF Ended
  <2>2. NewProduction(w) \in Assignments
    BY DEF TypeOK, NewProduction, NoAssignment, Assignments, Rebuilding
  <2>3. QED
    BY <1>14, <2>1, <2>2, EndType, FillType DEF TypeOK, WriteProduction, Files
<1>15. QED
  BY <1>1, <1>2, <1>3, <1>4, <1>5, <1>6, <1>7, <1>8, <1>9, <1>10, <1>11, <1>12,
     <1>13, <1>14
  DEF Step

\* A crash of a command keeps the state well typed.
LEMMA CrashType ==
  ASSUME TypeOK, NEW w \in Writers, Crash(w)
  PROVE  TypeOK'
<1>1. "crashed" \in Ended
  BY DEF Ended
<1>2. crashes + 1 \in 0..MaxCrashes
  BY BoundsAssumption DEF TypeOK, Crash
<1>3. open' \in [Files -> SUBSET Writers]
  BY DEF TypeOK, Crash
<1>4. interrupted' \in BOOLEAN
  BY DEF Crash
<1>5. QED
  BY <1>1, <1>2, <1>3, <1>4, EndType DEF TypeOK, Crash, disk

\* Training runs and manual edits keep the state well typed.
LEMMA DiskType ==
  ASSUME TypeOK, NEW e \in Experiments,
         Training(e) \/ MoveModel(e) \/ Archive(e)
  PROVE  TypeOK'
<1> USE DEF files, memory
<1>1. CASE SaveModel(e)
  BY <1>1 DEF TypeOK, SaveModel, bounds
<1>2. CASE OpenManifest(e)
  BY <1>2 DEF TypeOK, OpenManifest, bounds
<1>3. CASE WriteManifest(e)
  BY <1>3 DEF TypeOK, WriteManifest, bounds
<1>4. CASE CrashTraining(e)
  <2>1. crashes' \in 0..MaxCrashes
    BY <1>4, BoundsAssumption DEF TypeOK, CrashTraining
  <2>2. QED
    BY <1>4, <2>1 DEF TypeOK, CrashTraining
<1>5. CASE MoveModel(e)
  <2>1. edits' \in 0..MaxEdits
    BY <1>5, BoundsAssumption DEF TypeOK, MoveModel
  <2>2. model' \in [Experiments -> BOOLEAN]
    BY <1>5 DEF TypeOK, MoveModel
  <2>3. QED
    BY <1>5, <2>1, <2>2 DEF TypeOK, MoveModel
<1>6. CASE Archive(e)
  <2>1. edits' \in 0..MaxEdits
    BY <1>6, BoundsAssumption DEF TypeOK, Archive
  <2>2. entries' \in Documents
    BY <1>6 DEF TypeOK, Archive, Documents, Statuses
  <2>3. QED
    BY <1>6, <2>1, <2>2 DEF TypeOK, Archive, disk
<1>7. QED
  BY <1>1, <1>2, <1>3, <1>4, <1>5, <1>6 DEF Training

\* Type correctness is inductive.
LEMMA NextType == TypeOK /\ [Next]_vars => TypeOK'
<1> SUFFICES ASSUME TypeOK, [Next]_vars
             PROVE  TypeOK'
  OBVIOUS
<1>1. CASE Next
  BY <1>1, CommandType, StepType, CrashType, DiskType DEF Next
<1>2. CASE UNCHANGED vars
  BY <1>2 DEF vars, disk, files, memory, bounds, TypeOK
<1>3. QED
  BY <1>1, <1>2

\* Every reachable state of every instance is well typed.
THEOREM TypeCorrect == Spec => []TypeOK
BY InitType, NextType, PTL DEF Spec

-----------------------------------------------------------------------------
(* One production entry per dataset, and assignments that fit. *)

\* A step that changes neither the memory nor the label of a writer leaves
\* what is known of it in place.
LEMMA OthersInv ==
  ASSUME NEW u, WriterInv(u),
         pc'[u] = pc[u], ds'[u] = ds[u], target'[u] = target[u],
         doc'[u] = doc[u], seen'[u] = seen[u], todo'[u] = todo[u]
  PROVE  WriterInv(u)'
BY DEF WriterInv, PromotionInv, RebuildInv, Fits, OneProduction

\* Nothing needs to be known of a writer whose command has ended.
LEMMA EndInv ==
  ASSUME TypeOK, NEW w \in Writers, NEW how \in Ended, End(w, how)
  PROVE  WriterInv(w)'
BY DEF TypeOK, End, Goto, WriterInv, PromotionInv, RebuildInv, Fits, OneProduction,
       NoEntries, NoAssignment, Ended

\* The inductive invariant holds of an empty disk.
LEMMA InitInv == Init => IInv
<1> SUFFICES ASSUME Init
             PROVE  IInv
  OBVIOUS
<1>1. TypeOK
  BY InitType
<1>2. FilesInv
  BY NoneAssumption
  DEF Init, FilesInv, Fits, OneProduction, NoEntries, NoAssignment
<1>3. ASSUME NEW w \in Writers
      PROVE  WriterInv(w)
  BY DEF Init, WriterInv, PromotionInv, RebuildInv, Fits, OneProduction,
         NoEntries, NoAssignment
<1>4. QED
  BY <1>1, <1>2, <1>3 DEF IInv

\* A command that starts knows nothing of the files yet.
LEMMA CommandInv ==
  ASSUME IInv, NEW w \in Writers, Command(w)
  PROVE  FilesInv' /\ \A u \in Writers : WriterInv(u)'
<1> USE DEF IInv
<1>1. UNCHANGED <<files, doc, seen, todo>>
  BY DEF Command, StartRebuild, StartPromote, PickCandidate, memory
<1>2. FilesInv'
  BY <1>1 DEF files, FilesInv, Fits, OneProduction
<1>3. ASSUME NEW u \in Writers, u # w
      PROVE  WriterInv(u)'
  <2>1. /\ pc'[u] = pc[u] /\ ds'[u] = ds[u] /\ target'[u] = target[u]
        /\ doc'[u] = doc[u] /\ seen'[u] = seen[u] /\ todo'[u] = todo[u]
    BY <1>1, <1>3 DEF Command, StartRebuild, StartPromote, PickCandidate, memory,
                      Goto, TypeOK
  <2>2. QED
    BY <2>1, OthersInv
<1>4. WriterInv(w)'
  <2>1. /\ pc[w] \in Ended /\ pc'[w] = "load_registry"
        /\ seen'[w] = seen[w] /\ todo'[w] = todo[w]
    BY <1>1 DEF Command, StartRebuild, StartPromote, PickCandidate, MayStart, Goto,
                TypeOK
  <2>2. ds'[w] # None => target'[w] \in Experiments
    <3>1. CASE StartRebuild(w)
      BY <2>1, <3>1 DEF StartRebuild, memory, WriterInv
    <3>2. CASE \E d \in Datasets, e \in Experiments : StartPromote(w, d, e)
      BY <3>2 DEF StartPromote, TypeOK
    <3>3. CASE \E d \in Datasets, m \in Models : PickCandidate(w, d, m)
      BY <3>3 DEF PickCandidate, FirstRanked, Candidates, TypeOK
    <3>4. QED
      BY <3>1, <3>2, <3>3 DEF Command
  <2>3. QED
    BY <2>1, <2>2
    DEF WriterInv, PromotionInv, RebuildInv, Fits, Ended, Promoting
<1>5. QED
  BY <1>2, <1>3, <1>4

\* A writer's step leaves the labels and memories of the others alone.
LEMMA StepFrame ==
  ASSUME TypeOK, NEW w \in Writers, Step(w) \/ Crash(w),
         NEW u \in Writers, u # w
  PROVE  /\ pc'[u] = pc[u] /\ ds'[u] = ds[u] /\ target'[u] = target[u]
         /\ doc'[u] = doc[u] /\ seen'[u] = seen[u] /\ todo'[u] = todo[u]
<1> USE DEF TypeOK, Goto, End, memory
<1>1. CASE LoadTorn(w) \/ RebuildLoadRegistry(w) \/ PromoteLoadRegistry(w)
  BY <1>1 DEF LoadTorn, RebuildLoadRegistry, PromoteLoadRegistry
<1>2. CASE LoadProduction(w) \/ GlobManifests(w)
  BY <1>2 DEF LoadProduction, GlobManifests
<1>3. CASE \E e \in Experiments : ScanManifest(w, e) \/ ScanTornManifest(w, e)
  BY <1>3 DEF ScanManifest, ScanTornManifest
<1>4. CASE OpenRegistry(w) \/ WriteRegistry(w) \/ OpenBest(w) \/ WriteBest(w)
  BY <1>4 DEF OpenRegistry, WriteRegistry, OpenBest, WriteBest
<1>5. CASE KeepProduction(w) \/ OpenProduction(w) \/ WriteProduction(w)
  BY <1>5 DEF KeepProduction, OpenProduction, WriteProduction
<1>6. CASE Crash(w)
  BY <1>6 DEF Crash
<1>7. QED
  BY <1>1, <1>2, <1>3, <1>4, <1>5, <1>6 DEF Step

\* Each step of a rebuild or a promotion preserves the inductive invariant.
LEMMA StepInv ==
  ASSUME IInv, NEW w \in Writers, Step(w)
  PROVE  FilesInv' /\ WriterInv(w)'
<1> USE DEF IInv
<1>1. ASSUME UNCHANGED <<entries, production>>
      PROVE  FilesInv'
  BY <1>1 DEF FilesInv, Fits, OneProduction
<1>2. CASE LoadTorn(w)
  BY <1>1, <1>2, EndInv DEF LoadTorn, files, Ended
<1>3. CASE RebuildLoadRegistry(w)
  <2>1. /\ pc'[w] = "load_production" /\ ds[w] = None
        /\ UNCHANGED <<entries, production, ds, seen, todo>>
    BY <1>3 DEF RebuildLoadRegistry, Rebuilding, Goto, TypeOK, files
  <2>2. WriterInv(w)'
    BY <1>3, <2>1 DEF WriterInv, PromotionInv, RebuildInv, Fits, Ended, RebuildLoadRegistry
  <2>3. QED
    BY <1>1, <2>1, <2>2
<1>4. CASE PromoteLoadRegistry(w)
  <2>1. UNCHANGED <<entries, production>>
    BY <1>4 DEF PromoteLoadRegistry, files
  <2>2. CASE IsRegistered(w)
    <3>1. /\ pc[w] = "load_registry" /\ pc'[w] = "load_production"
          /\ ds[w] # None
          /\ doc'[w] = Promoted(w)
          /\ UNCHANGED <<ds, target, seen, todo>>
      BY <1>4, <2>2 DEF PromoteLoadRegistry, Rebuilding, Goto, TypeOK
    <3>2. target[w] \in Experiments /\ DatasetOf[target[w]] = ds[w]
      BY <2>2, <3>1 DEF WriterInv, PromotionInv, IsRegistered
    <3>3. OneProduction(Promoted(w))
      BY <3>2 DEF OneProduction, Promoted, FilesInv
    <3>4. QED
      BY <1>1, <2>1, <3>1, <3>2, <3>3
      DEF WriterInv, PromotionInv, RebuildInv, Fits, Ended, Promoting, OneProduction
  <2>3. CASE ~IsRegistered(w)
    BY <1>1, <1>4, <2>1, <2>3, EndInv DEF PromoteLoadRegistry, Ended
  <2>4. QED
    BY <2>2, <2>3
<1>5. CASE LoadProduction(w)
  <2>1. /\ pc[w] = "load_production"
        /\ pc'[w] = IF ds[w] = None THEN "glob" ELSE "open_registry"
        /\ seen'[w] = production
        /\ UNCHANGED <<entries, production, ds, target, doc, todo>>
    BY <1>5 DEF LoadProduction, Rebuilding, Goto, TypeOK, files
  <2>2. Fits(seen[w])'
    BY <2>1 DEF Fits, FilesInv
  <2>3. QED
    BY <1>1, <2>1, <2>2
    DEF WriterInv, PromotionInv, RebuildInv, Ended, Promoting, OneProduction
<1>6. CASE GlobManifests(w)
  <2>1. /\ pc[w] = "glob" /\ pc'[w] = "scan"
        /\ \A e \in Experiments \ todo'[w] : doc'[w][e] = None
        /\ UNCHANGED <<entries, production, ds, target, seen>>
    BY <1>6 DEF GlobManifests, Goto, TypeOK, files, Documents
  <2>2. QED
    BY <1>1, <2>1, NoneAssumption
    DEF WriterInv, PromotionInv, RebuildInv, Fits, Ended, Promoting
<1>7. ASSUME NEW e \in Experiments, ScanManifest(w, e)
      PROVE  FilesInv' /\ WriterInv(w)'
  <2>1. /\ pc[w] = "scan" /\ pc'[w] = "scan"
        /\ todo'[w] = todo[w] \ {e}
        /\ doc'[w] \in Documents
        /\ \A x \in Experiments \ {e} : doc'[w][x] = doc[w][x]
        /\ doc'[w][e] = "production" =>
             \E d \in Datasets : seen[w][d] = e
        /\ UNCHANGED <<entries, production, ds, target, seen>>
    BY <1>7, NextType, NoneAssumption
    DEF ScanManifest, Status, TypeOK, Documents, files, Statuses
  <2>2. ds[w] = None
    BY <2>1 DEF WriterInv, PromotionInv, Promoting
  <2>3. doc'[w][e] = "production" => seen[w][DatasetOf[e]] = e
    BY <2>1, NoneAssumption DEF WriterInv, Fits
  <2>4. QED
    BY <1>1, <2>1, <2>2, <2>3
    DEF WriterInv, PromotionInv, RebuildInv, Fits, Ended
<1>8. ASSUME NEW e \in Experiments, ScanTornManifest(w, e)
      PROVE  FilesInv' /\ WriterInv(w)'
  BY <1>1, <1>8, EndInv DEF ScanTornManifest, files, Ended
<1>9. CASE OpenRegistry(w)
  <2>1. /\ pc'[w] = "write_registry"
        /\ pc[w] \in {"open_registry", "scan"}
        /\ todo[w] = {}
        /\ UNCHANGED <<entries, production, ds, target, doc, seen, todo>>
    BY <1>9 DEF OpenRegistry, Goto, TypeOK, memory, WriterInv
  <2>2. QED
    BY <1>1, <2>1
    DEF WriterInv, PromotionInv, RebuildInv, Fits, OneProduction, Ended, Promoting
<1>10. CASE WriteRegistry(w)
  <2>1. /\ pc[w] = "write_registry"
        /\ pc'[w] = IF ds[w] = None THEN "open_best" ELSE "open_production"
        /\ entries' \in {doc[w], entries}
        /\ UNCHANGED <<production, ds, target, doc, seen, todo>>
    BY <1>10 DEF WriteRegistry, Goto, TypeOK, memory, Rebuilding
  <2>2. OneProduction(doc[w])
    <3>1. CASE ds[w] # None
      BY <2>1, <3>1 DEF WriterInv, PromotionInv
    <3>2. CASE ds[w] = None
      BY <2>1, <3>2 DEF WriterInv, RebuildInv, OneProduction
    <3>3. QED
      BY <3>1, <3>2
  <2>3. FilesInv'
    BY <2>1, <2>2 DEF FilesInv, Fits, OneProduction
  <2>4. QED
    BY <2>1, <2>3
    DEF WriterInv, PromotionInv, RebuildInv, Fits, OneProduction, Ended, Promoting
<1>11. CASE OpenBest(w) \/ WriteBest(w)
  <2>1. /\ pc[w] \in {"open_best", "write_best"}
        /\ pc'[w] \in {"write_best", "check_production"}
        /\ UNCHANGED <<entries, production, ds, target, doc, seen, todo>>
    BY <1>11 DEF OpenBest, WriteBest, Goto, TypeOK, memory
  <2>2. QED
    BY <1>1, <2>1 DEF WriterInv, PromotionInv, RebuildInv, Fits, Ended, Promoting
<1>12. CASE KeepProduction(w)
  BY <1>1, <1>12, EndInv DEF KeepProduction, files, Ended
<1>13. CASE OpenProduction(w)
  <2>1. /\ pc[w] \in {"open_production", "check_production"}
        /\ pc'[w] = "write_production"
        /\ UNCHANGED <<entries, production, ds, target, doc, seen, todo>>
    BY <1>13 DEF OpenProduction, Goto, TypeOK, memory
  <2>2. QED
    BY <1>1, <2>1
    DEF WriterInv, PromotionInv, RebuildInv, Fits, OneProduction, Ended, Promoting
<1>14. CASE WriteProduction(w)
  <2>1. /\ pc[w] = "write_production"
        /\ production' \in {NewProduction(w), production}
        /\ UNCHANGED entries
    BY <1>14 DEF WriteProduction
  <2>2. Fits(NewProduction(w))
    BY <2>1
    DEF NewProduction, Rebuilding, NoAssignment, WriterInv, PromotionInv, Fits,
        TypeOK, Assignments
  <2>3. FilesInv'
    BY <2>1, <2>2 DEF FilesInv, Fits, OneProduction
  <2>4. QED
    BY <1>14, <2>3, EndInv DEF WriteProduction, Ended
<1>15. QED
  BY <1>2, <1>3, <1>4, <1>5, <1>6, <1>7, <1>8, <1>9, <1>10, <1>11, <1>12, <1>13,
     <1>14
  DEF Step

\* Training runs and manual edits preserve the inductive invariant: an
\* archived entry is no production entry.
LEMMA DiskInv ==
  ASSUME IInv, NEW e \in Experiments,
         Training(e) \/ MoveModel(e) \/ Archive(e)
  PROVE  FilesInv' /\ \A w \in Writers : WriterInv(w)'
<1> USE DEF IInv
<1>1. UNCHANGED <<production, pc, ds, target, doc, seen, todo>>
  BY DEF Training, SaveModel, OpenManifest, WriteManifest, CrashTraining,
         MoveModel, Archive, files, memory
<1>2. OneProduction(entries)'
  <2>1. CASE Archive(e)
    BY <2>1 DEF Archive, FilesInv, OneProduction, TypeOK, Documents
  <2>2. CASE Training(e) \/ MoveModel(e)
    BY <2>2 DEF Training, SaveModel, OpenManifest, WriteManifest, CrashTraining,
                MoveModel, files, FilesInv, OneProduction
  <2>3. QED
    BY <2>1, <2>2
<1>3. FilesInv'
  BY <1>1, <1>2 DEF FilesInv, Fits
<1>4. QED
  BY <1>1, <1>3, OthersInv

\* The invariant is inductive.
LEMMA NextInv == IInv /\ [Next]_vars => IInv'
<1> SUFFICES ASSUME IInv, [Next]_vars
             PROVE  FilesInv' /\ \A u \in Writers : WriterInv(u)'
  BY NextType DEF IInv
<1> USE DEF IInv
<1>1. ASSUME NEW w \in Writers, Command(w)
      PROVE  FilesInv' /\ \A u \in Writers : WriterInv(u)'
  BY <1>1, CommandInv
<1>2. ASSUME NEW w \in Writers, Step(w) \/ Crash(w)
      PROVE  FilesInv' /\ \A u \in Writers : WriterInv(u)'
  <2>1. ASSUME NEW u \in Writers, u # w
        PROVE  WriterInv(u)'
    BY <1>2, <2>1, StepFrame, OthersInv
  <2>2. CASE Step(w)
    BY <2>1, <2>2, StepInv
  <2>3. CASE Crash(w)
    <3>1. WriterInv(w)'
      BY <2>3, EndInv DEF Crash, Ended
    <3>2. FilesInv'
      BY <2>3 DEF Crash, FilesInv, Fits, OneProduction
    <3>3. QED
      BY <2>1, <3>1, <3>2
  <2>4. QED
    BY <1>2, <2>2, <2>3
<1>3. ASSUME NEW e \in Experiments, Training(e) \/ MoveModel(e) \/ Archive(e)
      PROVE  FilesInv' /\ \A u \in Writers : WriterInv(u)'
  BY <1>3, DiskInv
<1>4. CASE UNCHANGED vars
  <2>1. FilesInv'
    BY <1>4 DEF vars, files, FilesInv, Fits, OneProduction
  <2>2. QED
    BY <1>4, <2>1, OthersInv DEF vars, memory
<1>5. QED
  BY <1>1, <1>2, <1>3, <1>4 DEF Next

\* In every reachable state a running promotion holds a document with one
\* production entry per dataset, a rebuild has given that status only to what
\* production.json assigned, and the files on disk are as consistent as that.
THEOREM InvariantHolds == Spec => []IInv
BY InitInv, NextInv, PTL DEF Spec

\* However many writers interleave and wherever they die, registry.json never
\* calls two experiments of a dataset "production".
THEOREM OneProductionHolds == Spec => []OneProductionPerDataset
<1>1. IInv => OneProductionPerDataset
  BY DEF IInv, FilesInv, OneProduction, OneProductionPerDataset
<1>2. QED
  BY <1>1, InvariantHolds, PTL

\* production.json never assigns a dataset an experiment of another one.
THEOREM AssignmentFitsHolds == Spec => []AssignmentFitsDataset
<1>1. IInv => AssignmentFitsDataset
  BY DEF IInv, FilesInv, Fits, AssignmentFitsDataset
<1>2. QED
  BY <1>1, InvariantHolds, PTL

-----------------------------------------------------------------------------
(* What the documented discipline ("single-writer by design") buys: with   *)
(* Exclusive, production.json implements an atomic register and the status *)
(* in registry.json agrees with it at rest.                                *)

\* The label of a writer that has a file open.
Writing(f) ==
  CASE f = "registry" -> "write_registry"
    [] f = "best" -> "write_best"
    [] f = "production" -> "write_production"

\* One writer runs at a time; only it has a file open, and only the one it is
\* filling, so that no file is ever opened twice.
Alone ==
  /\ \A u, w \in Writers : pc[u] \in Running /\ pc[w] \in Running => u = w
  /\ \A f \in Files : mixed[f] = FALSE
  /\ \A f \in Files, w \in Writers : w \in open[f] => pc[w] = Writing(f)

\* What a command read of production.json still holds when it writes.
SeenIsCurrent ==
  /\ \A w \in Writers :
       pc[w] \in Running \ {"load_registry", "load_production"} => seen[w] = production
  /\ file["production"] = "absent" => production = NoAssignment
  /\ \A w \in Writers :
       ds[w] = None /\ pc[w] = "write_production" => production = NoAssignment

\* The statuses of a document tell what an assignment map says.
Agree(document, assignment) ==
  \A e \in Experiments :
    document[e] # None =>
      (document[e] = "production" <=> assignment[DatasetOf[e]] = e)

\* A promotion that has replaced registry.json but not yet production.json.
HalfPromoted(w) ==
  ds[w] # None /\ pc[w] \in {"open_production", "write_production"}

\* A rebuild that has replaced registry.json.
Rebuilt(w) ==
  ds[w] = None /\ pc[w] \in {"open_best", "write_best", "check_production",
                             "write_production"}

Agreement ==
  /\ ~interrupted /\ (\A w \in Writers : ~HalfPromoted(w)) => Agree(entries, production)
  /\ \A w \in Writers : Rebuilt(w) => Agree(entries, production)
  /\ \A w \in Writers :
       ds[w] = None /\ pc[w] \in {"scan", "write_registry"} =>
         \A e \in Experiments \ todo[w] :
           doc[w][e] # None =>
             (doc[w][e] = "production" <=> seen[w][DatasetOf[e]] = e)
  /\ \A w \in Writers :
       ds[w] # None /\ pc[w] \in Running \ {"load_registry"} /\ ~interrupted =>
         Agree(doc[w], [production EXCEPT ![ds[w]] = target[w]])
  /\ \A w \in Writers : HalfPromoted(w) /\ ~interrupted => entries = doc[w]

SingleInv == IInv /\ Alone /\ SeenIsCurrent /\ Agreement

-----------------------------------------------------------------------------
(* One writer at a time. *)

\* A writer that fills a file is in the middle of a command.
LEMMA WritingRuns ==
  ASSUME NEW f \in Files
  PROVE  Writing(f) \in Running
BY DEF Files, Writing, Running

\* A running writer that is not filling a file finds none open.
LEMMA NoneOpen ==
  ASSUME TypeOK, Alone, NEW w \in Writers, pc[w] \in Running,
         pc[w] \notin {"write_registry", "write_best", "write_production"}
  PROVE  \A f \in Files : open[f] = {}
BY WritingRuns DEF Alone, TypeOK, Writing, Files

\* A lone writer opens a file that nobody else has open.
LEMMA OpenAlone ==
  ASSUME TypeOK, Alone, NEW w \in Writers, pc[w] \in Running,
         pc[w] \notin {"write_registry", "write_best", "write_production"},
         NEW f \in Files, pc' = [pc EXCEPT ![w] = Writing(f)], Open(w, f)
  PROVE  Alone'
<1>1. \A g \in Files : open[g] = {}
  BY NoneOpen
<1>2. \A g \in Files : mixed'[g] = FALSE
  BY <1>1 DEF Open, Alone, TypeOK
<1>3. \A u, v \in Writers : pc'[u] \in Running /\ pc'[v] \in Running => u = v
  BY DEF Alone, TypeOK
<1>4. ASSUME NEW g \in Files, NEW u \in Writers, u \in open'[g]
      PROVE  pc'[u] = Writing(g)
  BY <1>1, <1>4 DEF Open, TypeOK
<1>5. QED
  BY <1>2, <1>3, <1>4 DEF Alone

\* While one writer runs, nothing is ever written over another's file.
LEMMA FillAlone ==
  ASSUME TypeOK, Alone, NEW w \in Writers, NEW f \in Files, pc[w] = Writing(f),
         NEW label \in (Ended \cup Running) \ {Writing(g) : g \in Files},
         pc' = [pc EXCEPT ![w] = label],
         NEW result, Fill(w, f, result)
  PROVE  Alone' /\ result = "ok"
<1>1. result = "ok"
  BY DEF Fill, Alone
<1>2. \A u, v \in Writers : pc'[u] \in Running /\ pc'[v] \in Running => u = v
  BY WritingRuns DEF Alone, TypeOK
<1>3. ASSUME NEW g \in Files, NEW u \in Writers, u \in open'[g]
      PROVE  pc'[u] = Writing(g)
  <2>1. u \in open[g] /\ (g = f => u # w)
    BY <1>3 DEF Fill, TypeOK
  <2>2. pc[u] = Writing(g)
    BY <2>1 DEF Alone
  <2>3. u # w
    BY <2>1, <2>2 DEF Writing, Files
  <2>4. QED
    BY <2>2, <2>3 DEF TypeOK
<1>4. QED
  BY <1>1, <1>2, <1>3 DEF Fill, Alone

\* A step that opens and fills nothing.
LEMMA QuietAlone ==
  ASSUME TypeOK, Alone, NEW w \in Writers, pc[w] \in Running,
         pc[w] \notin {"write_registry", "write_best", "write_production"},
         NEW label \in (Ended \cup Running), pc' = [pc EXCEPT ![w] = label],
         UNCHANGED <<open, mixed>>
  PROVE  Alone'
<1>1. \A g \in Files : open[g] = {}
  BY NoneOpen
<1>2. \A u, v \in Writers : pc'[u] \in Running /\ pc'[v] \in Running => u = v
  BY DEF Alone, TypeOK
<1>3. QED
  BY <1>1, <1>2 DEF Alone

\* A step of the one running command leaves it the only one.
LEMMA StepAlone ==
  ASSUME TypeOK, Alone, NEW w \in Writers, Step(w)
  PROVE  Alone'
<1> USE DEF Goto, End, Running, Ended
<1>1. CASE LoadTorn(w)
  BY <1>1, QuietAlone DEF LoadTorn, files
<1>2. CASE RebuildLoadRegistry(w)
  BY <1>2, QuietAlone DEF RebuildLoadRegistry, files
<1>3. CASE PromoteLoadRegistry(w)
  BY <1>3, QuietAlone DEF PromoteLoadRegistry, files
<1>4. CASE LoadProduction(w)
  <2>1. pc' = [pc EXCEPT ![w] = IF Rebuilding(w) THEN "glob" ELSE "open_registry"]
    BY <1>4 DEF LoadProduction
  <2>2. QED
    BY <1>4, <2>1, QuietAlone DEF LoadProduction, files
<1>5. CASE GlobManifests(w) \/ KeepProduction(w)
  BY <1>5, QuietAlone DEF GlobManifests, KeepProduction, files
<1>6. ASSUME NEW e \in Experiments, ScanManifest(w, e)
      PROVE  Alone'
  BY <1>6 DEF ScanManifest, files, Alone
<1>7. ASSUME NEW e \in Experiments, ScanTornManifest(w, e)
      PROVE  Alone'
  BY <1>7, QuietAlone DEF ScanTornManifest, files
<1>8. CASE OpenRegistry(w) \/ OpenBest(w) \/ OpenProduction(w)
  BY <1>8, OpenAlone DEF OpenRegistry, OpenBest, OpenProduction, Writing, Files
<1>9. CASE WriteRegistry(w)
  <2> DEFINE label == IF Rebuilding(w) THEN "open_best" ELSE "open_production"
  <2>1. /\ pc' = [pc EXCEPT ![w] = label]
        /\ pc[w] = Writing("registry") /\ "registry" \in Files
        /\ label \in (Ended \cup Running) \ {Writing(g) : g \in Files}
    BY <1>9 DEF WriteRegistry, Writing, Files
  <2>2. PICK result : Fill(w, "registry", result)
    BY <1>9 DEF WriteRegistry
  <2> HIDE DEF label
  <2>3. QED
    BY <2>1, <2>2, FillAlone
<1>10. CASE WriteBest(w)
  BY <1>10, FillAlone DEF WriteBest, Writing, Files
<1>11. CASE WriteProduction(w)
  BY <1>11, FillAlone DEF WriteProduction, Writing, Files
<1>12. QED
  BY <1>1, <1>2, <1>3, <1>4, <1>5, <1>6, <1>7, <1>8, <1>9, <1>10, <1>11
  DEF Step

\* The single-writer discipline is preserved by every step.
LEMMA NextAlone ==
  ASSUME Exclusive, TypeOK, Alone, [Next]_vars
  PROVE  Alone'
<1>1. ASSUME NEW w \in Writers, Command(w)
      PROVE  Alone'
  <2>1. /\ \A u \in Writers : pc[u] \notin Running
        /\ pc' = [pc EXCEPT ![w] = "load_registry"]
        /\ UNCHANGED <<open, mixed>>
    BY <1>1 DEF Command, StartRebuild, StartPromote, PickCandidate, MayStart, Goto,
                files, Ended, Running
  <2>2. \A f \in Files : open[f] = {}
    BY <2>1, WritingRuns DEF Alone, TypeOK
  <2>3. QED
    BY <2>1, <2>2 DEF Alone, TypeOK
<1>2. ASSUME NEW w \in Writers, Step(w)
      PROVE  Alone'
  BY <1>2, StepAlone
<1>3. ASSUME NEW w \in Writers, Crash(w)
      PROVE  Alone'
  <2>1. \A u, v \in Writers : pc'[u] \in Running /\ pc'[v] \in Running => u = v
    BY <1>3 DEF Crash, End, Goto, Alone, TypeOK, Ended, Running
  <2>2. ASSUME NEW g \in Files, NEW u \in Writers, u \in open'[g]
        PROVE  pc'[u] = Writing(g)
    BY <1>3, <2>2 DEF Crash, End, Goto, Alone, TypeOK
  <2>3. QED
    BY <1>3, <2>1, <2>2 DEF Crash, Alone
<1>4. ASSUME NEW e \in Experiments, Training(e) \/ MoveModel(e) \/ Archive(e)
      PROVE  Alone'
  BY <1>4 DEF Training, SaveModel, OpenManifest, WriteManifest, CrashTraining,
              MoveModel, Archive, files, Alone
<1>5. CASE UNCHANGED vars
  BY <1>5 DEF vars, files, Alone
<1>6. QED
  BY <1>1, <1>2, <1>3, <1>4, <1>5 DEF Next

-----------------------------------------------------------------------------
(* What a command read is still what the file says. *)

\* The others are between commands before and after a step.
LEMMA OthersEnded ==
  ASSUME TypeOK, Alone, NEW w \in Writers, Step(w) \/ Crash(w)
  PROVE  /\ pc[w] \in Running
         /\ \A u \in Writers \ {w} : pc[u] \notin Running /\ pc'[u] \notin Running
<1>1. pc[w] \in Running
  BY DEF Step, LoadTorn, RebuildLoadRegistry, PromoteLoadRegistry, LoadProduction,
         GlobManifests, ScanManifest, ScanTornManifest, OpenRegistry, WriteRegistry,
         OpenBest, WriteBest, KeepProduction, OpenProduction, WriteProduction, Crash,
         Running
<1>2. QED
  BY <1>1, StepFrame DEF Alone

\* Commands, training runs, manual edits and crashes leave production.json alone.
LEMMA ProductionFrame ==
  ASSUME NEW w, Command(w) \/ Crash(w)
  PROVE  UNCHANGED <<file, production>>
BY DEF Command, StartRebuild, StartPromote, PickCandidate, Crash, files

\* No step of the lone command makes what it read of production.json stale.
LEMMA StepSeen ==
  ASSUME IInv, Alone, SeenIsCurrent, NEW w \in Writers, Step(w)
  PROVE  SeenIsCurrent'
<1> USE DEF IInv
<1>1. \A u \in Writers \ {w} : pc[u] \notin Running /\ pc'[u] \notin Running
  BY OthersEnded
<1>2. \A u \in Writers \ {w} : pc'[u] \notin Running \ {"load_registry", "load_production"}
                             /\ pc'[u] # "write_production"
  BY <1>1 DEF Running
<1> DEFINE Mine ==
      /\ pc'[w] \in Running \ {"load_registry", "load_production"} =>
           seen'[w] = production'
      /\ ds'[w] = None /\ pc'[w] = "write_production" => production' = NoAssignment
<1>3. ASSUME UNCHANGED <<file, production>>, Mine
      PROVE  SeenIsCurrent'
  BY <1>2, <1>3 DEF SeenIsCurrent
<1>4. ASSUME pc'[w] \in Ended, UNCHANGED <<file, production>>
      PROVE  SeenIsCurrent'
  BY <1>3, <1>4 DEF Ended, Running
<1>5. CASE LoadTorn(w) \/ KeepProduction(w)
  BY <1>4, <1>5 DEF LoadTorn, KeepProduction, End, Goto, files, TypeOK, Ended
<1>6. CASE RebuildLoadRegistry(w)
  BY <1>3, <1>6 DEF RebuildLoadRegistry, Goto, files, TypeOK
<1>7. CASE PromoteLoadRegistry(w)
  BY <1>3, <1>7 DEF PromoteLoadRegistry, End, Goto, files, TypeOK, Running
<1>8. CASE LoadProduction(w)
  BY <1>3, <1>8 DEF LoadProduction, Goto, files, TypeOK
<1>9. CASE GlobManifests(w)
  BY <1>3, <1>9 DEF GlobManifests, Goto, files, TypeOK, SeenIsCurrent, Running
<1>10. ASSUME NEW e \in Experiments, ScanManifest(w, e)
       PROVE  SeenIsCurrent'
  BY <1>3, <1>10 DEF ScanManifest, files, TypeOK, SeenIsCurrent, Running
<1>11. ASSUME NEW e \in Experiments, ScanTornManifest(w, e)
       PROVE  SeenIsCurrent'
  BY <1>4, <1>11 DEF ScanTornManifest, End, Goto, files, TypeOK, Ended
<1>12. ASSUME file'["production"] = file["production"],
              UNCHANGED <<production, seen, ds>>,
              pc[w] \in Running \ {"load_registry", "load_production"},
              pc'[w] # "write_production"
       PROVE  SeenIsCurrent'
  BY <1>2, <1>12 DEF SeenIsCurrent
<1>13. CASE OpenRegistry(w) \/ OpenBest(w)
  BY <1>12, <1>13
  DEF OpenRegistry, OpenBest, Open, Goto, memory, TypeOK, Files, Running
<1>14. CASE WriteRegistry(w) \/ WriteBest(w)
  BY <1>12, <1>14
  DEF WriteRegistry, WriteBest, Fill, Goto, memory, TypeOK, Files, Running
<1>15. CASE OpenProduction(w)
  <2>1. file'["production"] # "absent"
    BY <1>15 DEF OpenProduction, Open, TypeOK, Files
  <2>2. /\ pc[w] \in Running \ {"load_registry", "load_production"}
        /\ pc'[w] = "write_production"
        /\ UNCHANGED <<production, seen, ds>>
        /\ ds[w] = None => file["production"] = "absent"
    BY <1>15
    DEF OpenProduction, Goto, memory, TypeOK, Running, WriterInv, RebuildInv
  <2>3. QED
    BY <1>2, <2>1, <2>2 DEF SeenIsCurrent
<1>16. CASE WriteProduction(w)
  <2>1. file'["production"] # "absent"
    BY <1>16 DEF WriteProduction, Fill, TypeOK, Files
  <2>2. pc'[w] = "idle"
    BY <1>16 DEF WriteProduction, End, Goto, TypeOK
  <2>3. QED
    BY <1>2, <2>1, <2>2 DEF SeenIsCurrent, Running
<1>17. QED
  BY <1>5, <1>6, <1>7, <1>8, <1>9, <1>10, <1>11, <1>13, <1>14, <1>15, <1>16
  DEF Step

\* What a command read of production.json stays current until it writes.
LEMMA NextSeen ==
  ASSUME Exclusive, IInv, Alone, SeenIsCurrent, [Next]_vars
  PROVE  SeenIsCurrent'
<1> USE DEF IInv
<1>1. ASSUME NEW w \in Writers, Command(w)
      PROVE  SeenIsCurrent'
  <2>1. /\ \A u \in Writers : pc[u] \notin Running
        /\ pc' = [pc EXCEPT ![w] = "load_registry"]
    BY <1>1 DEF Command, StartRebuild, StartPromote, PickCandidate, MayStart, Goto,
                Ended, Running
  <2>2. \A u \in Writers : pc'[u] \notin Running \ {"load_registry", "load_production"}
                        /\ pc'[u] # "write_production"
    BY <2>1 DEF TypeOK, Running
  <2>3. QED
    BY <1>1, <2>2, ProductionFrame DEF SeenIsCurrent
<1>2. ASSUME NEW w \in Writers, Step(w)
      PROVE  SeenIsCurrent'
  BY <1>2, StepSeen
<1>3. ASSUME NEW w \in Writers, Crash(w)
      PROVE  SeenIsCurrent'
  <2>1. \A u \in Writers : pc'[u] \notin Running
    BY <1>3, OthersEnded DEF Crash, End, Goto, TypeOK, Running
  <2>2. QED
    BY <1>3, <2>1, ProductionFrame DEF SeenIsCurrent, Running
<1>4. ASSUME NEW e \in Experiments, Training(e) \/ MoveModel(e) \/ Archive(e)
      PROVE  SeenIsCurrent'
  BY <1>4 DEF Training, SaveModel, OpenManifest, WriteManifest, CrashTraining,
              MoveModel, Archive, files, memory, SeenIsCurrent
<1>5. CASE UNCHANGED vars
  BY <1>5 DEF vars, files, memory, SeenIsCurrent
<1>6. QED
  BY <1>1, <1>2, <1>3, <1>4, <1>5 DEF Next

-----------------------------------------------------------------------------
(* The statuses agree with the assignments. *)

\* Nothing to know of a writer that is between commands.
LEMMA EndedAgreement ==
  ASSUME NEW w, pc'[w] \notin Running
  PROVE  /\ ~HalfPromoted(w)' /\ ~Rebuilt(w)'
         /\ pc'[w] \notin {"scan", "write_registry"}
BY DEF HalfPromoted, Rebuilt, Running

\* What one writer must show for Agreement when the others are ended.
Mine(w) ==
  /\ ~interrupted /\ ~HalfPromoted(w) => Agree(entries, production)
  /\ Rebuilt(w) => Agree(entries, production)
  /\ ds[w] = None /\ pc[w] \in {"scan", "write_registry"} =>
       \A e \in Experiments \ todo[w] :
         doc[w][e] # None =>
           (doc[w][e] = "production" <=> seen[w][DatasetOf[e]] = e)
  /\ ds[w] # None /\ pc[w] \in Running \ {"load_registry"} /\ ~interrupted =>
       Agree(doc[w], [production EXCEPT ![ds[w]] = target[w]])
  /\ HalfPromoted(w) /\ ~interrupted => entries = doc[w]

\* The agreement of the files speaks of the running command only.
LEMMA MineSuffices ==
  ASSUME NEW w \in Writers, \A u \in Writers \ {w} : pc'[u] \notin Running, Mine(w)'
  PROVE  Agreement'
BY EndedAgreement DEF Mine, Agreement

\* And it says of that command what the next lemmas use.
LEMMA MineHolds ==
  ASSUME NEW w \in Writers, \A u \in Writers \ {w} : pc[u] \notin Running, Agreement
  PROVE  Mine(w)
BY DEF Mine, Agreement, HalfPromoted, Running

\* A promotion changes the agreement of its dataset only.
LEMMA PromotedAgrees ==
  ASSUME TypeOK, NEW w \in Writers, ds[w] \in Datasets, target[w] \in Experiments,
         DatasetOf[target[w]] = ds[w], Agree(entries, production)
  PROVE  Agree(Promoted(w), [production EXCEPT ![ds[w]] = target[w]])
<1> DEFINE given == [production EXCEPT ![ds[w]] = target[w]]
<1>1. SUFFICES ASSUME NEW e \in Experiments, Promoted(w)[e] # None
               PROVE  Promoted(w)[e] = "production" <=> given[DatasetOf[e]] = e
  BY DEF Agree
<1>2. /\ DatasetOf[e] \in Datasets
      /\ given[DatasetOf[e]] =
           IF DatasetOf[e] = ds[w] THEN target[w] ELSE production[DatasetOf[e]]
  BY ManifestAssumption DEF TypeOK, Assignments
<1> HIDE DEF given
<1>3. CASE e = target[w]
  BY <1>2, <1>3 DEF Promoted
<1>4. CASE e # target[w] /\ DatasetOf[e] = ds[w]
  BY <1>2, <1>4 DEF Promoted
<1>5. CASE e # target[w] /\ DatasetOf[e] # ds[w]
  BY <1>1, <1>2, <1>5 DEF Promoted, Agree
<1>6. QED
  BY <1>3, <1>4, <1>5

\* Each step of a lone command preserves the agreement of the two files.
LEMMA StepAgreement ==
  ASSUME IInv, Alone, SeenIsCurrent, Agreement, NEW w \in Writers, Step(w)
  PROVE  Agreement'
<1> USE DEF IInv
<1>1. \A u \in Writers \ {w} : pc[u] \notin Running /\ pc'[u] \notin Running
  BY OthersEnded
<1>2. Mine(w)
  BY <1>1, MineHolds
<1>3. SUFFICES Mine(w)'
  BY <1>1, MineSuffices
<1>4. CASE LoadTorn(w)
  BY <1>2, <1>4
  DEF LoadTorn, End, Goto, files, TypeOK, Mine, HalfPromoted, Rebuilt, Running
<1>5. CASE RebuildLoadRegistry(w)
  BY <1>2, <1>5
  DEF RebuildLoadRegistry, Rebuilding, Goto, files, TypeOK, Mine, HalfPromoted, Rebuilt,
      Running
<1>6. CASE PromoteLoadRegistry(w)
  <2>1. CASE IsRegistered(w)
    <3>1. /\ pc[w] = "load_registry" /\ pc'[w] = "load_production"
          /\ ds[w] \in Datasets /\ doc'[w] = Promoted(w)
          /\ UNCHANGED <<entries, production, interrupted, ds, target, seen, todo>>
      BY <1>6, <2>1 DEF PromoteLoadRegistry, Rebuilding, Goto, TypeOK, files
    <3>2. target[w] \in Experiments /\ DatasetOf[target[w]] = ds[w]
      BY <2>1, <3>1, NoneAssumption DEF WriterInv, PromotionInv, IsRegistered
    <3>3. ~interrupted => Agree(entries, production)
      BY <1>2, <3>1 DEF Mine, HalfPromoted
    <3>4. ~interrupted => Agree(doc'[w], [production EXCEPT ![ds[w]] = target[w]])
      BY <3>1, <3>2, <3>3, PromotedAgrees
    <3>5. QED
      BY <3>1, <3>3, <3>4 DEF Mine, HalfPromoted, Rebuilt, Agree
  <2>2. CASE ~IsRegistered(w)
    BY <1>2, <1>6, <2>2
    DEF PromoteLoadRegistry, End, Goto, files, TypeOK, Mine, HalfPromoted, Rebuilt,
        Running
  <2>3. QED
    BY <2>1, <2>2
<1>7. CASE LoadProduction(w)
  <2>1. /\ pc[w] = "load_production"
        /\ pc'[w] = IF ds[w] = None THEN "glob" ELSE "open_registry"
        /\ UNCHANGED <<entries, production, interrupted, ds, target, doc, todo>>
    BY <1>7 DEF LoadProduction, Rebuilding, Goto, TypeOK, files
  <2>2. QED
    BY <1>2, <2>1 DEF Mine, HalfPromoted, Rebuilt, Running, Agree
<1>8. CASE GlobManifests(w)
  <2>1. /\ pc[w] = "glob" /\ pc'[w] = "scan"
        /\ \A e \in Experiments \ todo'[w] : doc'[w][e] = None
        /\ UNCHANGED <<entries, production, interrupted, ds, target, seen>>
    BY <1>8 DEF GlobManifests, Goto, TypeOK, files, Documents
  <2>2. ds[w] = None
    BY <2>1 DEF WriterInv, PromotionInv, Promoting
  <2>3. QED
    BY <1>2, <2>1, <2>2 DEF Mine, HalfPromoted, Rebuilt
<1>9. ASSUME NEW e \in Experiments, ScanManifest(w, e)
      PROVE  Mine(w)'
  <2>1. /\ pc[w] = "scan" /\ pc'[w] = "scan"
        /\ todo'[w] = todo[w] \ {e}
        /\ \A x \in Experiments \ {e} : doc'[w][x] = doc[w][x]
        /\ doc'[w][e] # None =>
             (doc'[w][e] = "production" <=> \E d \in Datasets : seen[w][d] = e)
        /\ UNCHANGED <<entries, production, interrupted, ds, target, seen>>
    BY <1>9, NoneAssumption
    DEF ScanManifest, Status, TypeOK, Documents, files, Statuses
  <2>2. ds[w] = None
    BY <2>1 DEF WriterInv, PromotionInv, Promoting
  <2>3. (\E d \in Datasets : seen[w][d] = e) <=> seen[w][DatasetOf[e]] = e
    BY NoneAssumption, ManifestAssumption DEF WriterInv, Fits
  <2>4. QED
    BY <1>2, <2>1, <2>2, <2>3 DEF Mine, HalfPromoted, Rebuilt
<1>10. ASSUME NEW e \in Experiments, ScanTornManifest(w, e)
       PROVE  Mine(w)'
  BY <1>2, <1>10
  DEF ScanTornManifest, End, Goto, files, TypeOK, Mine, HalfPromoted, Rebuilt, Running
<1>11. CASE OpenRegistry(w)
  <2>1. /\ pc'[w] = "write_registry"
        /\ pc[w] \in {"open_registry", "scan"}
        /\ pc[w] = "scan" => ds[w] = None
        /\ ds[w] = None => pc[w] = "scan"
        /\ UNCHANGED <<entries, production, interrupted, ds, target, doc, seen, todo>>
    BY <1>11
    DEF OpenRegistry, Goto, TypeOK, memory, WriterInv, RebuildInv, PromotionInv, Promoting
  <2>2. QED
    BY <1>2, <2>1 DEF Mine, HalfPromoted, Rebuilt, Running, Agree
<1>12. CASE WriteRegistry(w)
  <2>1. entries' = doc[w]
    BY <1>12 DEF WriteRegistry, Fill, Alone, Files
  <2>2. /\ pc[w] = "write_registry"
        /\ pc'[w] = IF ds[w] = None THEN "open_best" ELSE "open_production"
        /\ todo[w] = {}
        /\ seen[w] = production
        /\ UNCHANGED <<production, interrupted, ds, target, doc, seen, todo>>
    BY <1>12
    DEF WriteRegistry, Goto, TypeOK, memory, Rebuilding, WriterInv, SeenIsCurrent,
        Running
  <2>3. ds[w] = None => Agree(doc[w], production)
    BY <1>2, <2>2 DEF Mine, Agree
  <2>4. QED
    BY <1>2, <2>1, <2>2, <2>3 DEF Mine, HalfPromoted, Rebuilt, Running, Agree
<1>13. CASE OpenBest(w) \/ WriteBest(w)
  <2>1. /\ pc[w] \in {"open_best", "write_best"}
        /\ pc'[w] \in {"write_best", "check_production"}
        /\ UNCHANGED <<entries, production, interrupted, ds, target, doc, seen, todo>>
    BY <1>13 DEF OpenBest, WriteBest, Goto, TypeOK, memory
  <2>2. ds[w] = None
    BY <2>1 DEF WriterInv, PromotionInv, Promoting
  <2>3. QED
    BY <1>2, <2>1, <2>2 DEF Mine, HalfPromoted, Rebuilt, Agree
<1>14. CASE KeepProduction(w)
  <2>1. pc[w] = "check_production" /\ ds[w] = None
    BY <1>14 DEF KeepProduction, WriterInv, PromotionInv, Promoting
  <2>2. QED
    BY <1>2, <1>14, <2>1
    DEF KeepProduction, End, Goto, files, TypeOK, Mine, HalfPromoted, Rebuilt, Running,
        Agree
<1>15. CASE OpenProduction(w)
  <2>1. /\ pc'[w] = "write_production"
        /\ pc[w] \in {"open_production", "check_production"}
        /\ pc[w] = "open_production" <=> ds[w] # None
        /\ UNCHANGED <<entries, production, interrupted, ds, target, doc, seen, todo>>
    BY <1>15
    DEF OpenProduction, Goto, TypeOK, memory, WriterInv, RebuildInv, PromotionInv,
        Promoting
  <2>2. QED
    BY <1>2, <2>1 DEF Mine, HalfPromoted, Rebuilt, Running, Agree
<1>16. CASE WriteProduction(w)
  <2>1. /\ production' = NewProduction(w)
        /\ pc[w] = "write_production" /\ pc'[w] = "idle" /\ ds'[w] = None
        /\ seen[w] = production
        /\ interrupted' = (IF ds[w] = None THEN FALSE ELSE interrupted)
        /\ UNCHANGED entries
    BY <1>16
    DEF WriteProduction, Fill, Alone, Files, End, Goto, TypeOK, SeenIsCurrent, Running,
        Rebuilding
  <2>2. ~interrupted' => Agree(entries, production')
    <3>1. CASE ds[w] = None
      BY <1>2, <2>1, <3>1
      DEF Mine, Rebuilt, NewProduction, Rebuilding, SeenIsCurrent
    <3>2. CASE ds[w] # None
      BY <1>2, <2>1, <3>2 DEF Mine, HalfPromoted, NewProduction, Rebuilding, Running
    <3>3. QED
      BY <3>1, <3>2
  <2>3. QED
    BY <2>1, <2>2 DEF Mine, HalfPromoted, Rebuilt, Running, Agree
<1>17. QED
  BY <1>4, <1>5, <1>6, <1>7, <1>8, <1>9, <1>10, <1>11, <1>12, <1>13, <1>14, <1>15,
     <1>16
  DEF Step

\* Every step preserves it, crashes and manual edits included.
LEMMA NextAgreement ==
  ASSUME Exclusive, IInv, Alone, SeenIsCurrent, Agreement, [Next]_vars
  PROVE  Agreement'
<1> USE DEF IInv
<1>1. ASSUME NEW w \in Writers, Command(w)
      PROVE  Agreement'
  <2>1. /\ \A u \in Writers : pc[u] \notin Running
        /\ pc' = [pc EXCEPT ![w] = "load_registry"]
        /\ UNCHANGED <<entries, production, interrupted>>
    BY <1>1 DEF Command, StartRebuild, StartPromote, PickCandidate, MayStart, Goto,
                files, Ended, Running
  <2>2. Mine(w)
    BY <2>1, MineHolds
  <2>3. Mine(w)'
    BY <2>1, <2>2 DEF Mine, HalfPromoted, Rebuilt, Agree, TypeOK, Running
  <2>4. \A u \in Writers \ {w} : pc'[u] \notin Running
    BY <2>1 DEF TypeOK
  <2>5. QED
    BY <2>3, <2>4, MineSuffices
<1>2. ASSUME NEW w \in Writers, Step(w)
      PROVE  Agreement'
  BY <1>2, StepAgreement
<1>3. ASSUME NEW w \in Writers, Crash(w)
      PROVE  Agreement'
  <2>1. \A u \in Writers : pc'[u] \notin Running
    BY <1>3, OthersEnded DEF Crash, End, Goto, TypeOK, Running
  <2>2. Mine(w)
    BY <1>3, OthersEnded, MineHolds
  <2>3. ~interrupted' => ~interrupted /\ ~HalfPromoted(w)
    BY <1>3 DEF Crash, HalfPromoted
  <2>4. Mine(w)'
    BY <1>3, <2>1, <2>2, <2>3, EndedAgreement DEF Crash, Mine, HalfPromoted, Rebuilt, Agree
  <2>5. QED
    BY <2>1, <2>4, MineSuffices
<1>4. ASSUME NEW e \in Experiments, Training(e) \/ MoveModel(e)
      PROVE  Agreement'
  BY <1>4 DEF Training, SaveModel, OpenManifest, WriteManifest, CrashTraining,
              MoveModel, files, memory, Agreement, Agree, HalfPromoted, Rebuilt
<1>5. ASSUME NEW e \in Experiments, Archive(e)
      PROVE  Agreement'
  <2>1. /\ \A u \in Writers : pc[u] \notin Running /\ pc'[u] \notin Running
        /\ UNCHANGED <<production, interrupted, pc, ds>>
    BY <1>5 DEF Archive, Ended, Running, memory
  <2>2. ~interrupted => Agree(entries, production)
    BY <2>1 DEF Agreement, HalfPromoted, Running
  <2>3. ~interrupted => Agree(entries', production)
    BY <1>5, <2>2, NoneAssumption DEF Archive, Agree, TypeOK, Documents
  <2>4. QED
    BY <2>1, <2>3 DEF Agreement, HalfPromoted, Rebuilt, Running, Agree
<1>6. CASE UNCHANGED vars
  BY <1>6 DEF vars, files, memory, Agreement, Agree, HalfPromoted, Rebuilt
<1>7. QED
  BY <1>1, <1>2, <1>3, <1>4, <1>5, <1>6 DEF Next

-----------------------------------------------------------------------------
(* What the lone command's document says of the entries it will replace,   *)
(* and what is whole on disk.                                              *)

\* The document of a promotion is the entries with its target on top.  That of
\* a rebuild starts as the entries and keeps what they say is archived, unless
\* production.json assigns it or its manifest is gone.
DocInv(w) ==
  /\ ds[w] # None /\ pc[w] \in {"load_production", "open_registry", "write_registry"} =>
       doc[w] = Promoted(w)
  /\ ds[w] = None /\ pc[w] \in {"load_production", "glob", "open_best", "write_best"} =>
       doc[w] = entries
  /\ ds[w] = None /\ pc[w] \in {"scan", "write_registry"} =>
       \A e \in Experiments :
         entries[e] = "archived" =>
           /\ e \in todo[w] => doc[w][e] = "archived"
           /\ doc[w][e] \in {None, "archived", "production"}

DocsInv == \A w \in Writers : DocInv(w)

\* What best_per_dataset.json names is registered.
Resolves == \A d \in Datasets : best[d] # None => entries[best[d]] # None

\* A rebuild meets no torn production.json beyond its first reads, and leaves
\* behind it what it has written whole.
Repairs(w) ==
  /\ pc[w] \in Running \ {"load_registry", "load_production", "write_production"} =>
       file["production"] # "torn"
  /\ pc[w] \in {"open_best", "write_best", "check_production", "write_production"} =>
       file["registry"] # "torn"
  /\ pc[w] \in {"check_production", "write_production"} =>
       /\ file["best"] # "torn"
       /\ best = [d \in Datasets |-> SelectBest(entries, d)]

\* A rebuild that has replaced registry.json and not yet the best ones.
BestPending(w) == ds[w] = None /\ pc[w] \in {"open_best", "write_best"}

\* Unless a command died half way, only the file that a running command is
\* filling is torn, and the best ones resolve but in the middle of a rebuild.
WholeFiles ==
  /\ ~interrupted =>
       \A f \in Files : file[f] = "torn" => \E w \in Writers : pc[w] = Writing(f)
  /\ ~interrupted /\ (\A w \in Writers : ~BestPending(w)) => Resolves
  /\ \A w \in Writers : ds[w] = None => Repairs(w)

\* What one writer must show for WholeFiles when the others are ended.
Whole(w) ==
  /\ ~interrupted => \A f \in Files : file[f] = "torn" => pc[w] = Writing(f)
  /\ ~interrupted /\ ~BestPending(w) => Resolves
  /\ ds[w] = None => Repairs(w)

\* The files' wholeness speaks of the running command only.
LEMMA WholeSuffices ==
  ASSUME NEW w \in Writers, \A u \in Writers \ {w} : pc'[u] \notin Running, Whole(w)'
  PROVE  WholeFiles'
<1>1. \A u \in Writers \ {w} : ~BestPending(u)' /\ Repairs(u)'
  BY DEF BestPending, Repairs, Running
<1>2. QED
  BY <1>1 DEF Whole, WholeFiles

\* And it says of that command what the next lemma uses.
LEMMA WholeHolds ==
  ASSUME NEW w \in Writers, \A u \in Writers \ {w} : pc[u] \notin Running, WholeFiles
  PROVE  Whole(w)
<1>1. \A u \in Writers \ {w} : ~BestPending(u) /\ \A f \in Files : pc[u] # Writing(f)
  BY WritingRuns DEF BestPending, Running
<1>2. QED
  BY <1>1 DEF Whole, WholeFiles

\* Nothing to know of the document of a writer that is between commands.
LEMMA EndedDocs ==
  ASSUME NEW w, pc'[w] \notin Running
  PROVE  DocInv(w)'
BY DEF DocInv, Running

\* Each step of a lone command keeps its document true to the entries.
LEMMA StepDocs ==
  ASSUME IInv, Alone, SeenIsCurrent, DocsInv, NEW w \in Writers, Step(w)
  PROVE  DocsInv'
<1> USE DEF IInv
<1>1. \A u \in Writers \ {w} : pc'[u] \notin Running
  BY OthersEnded
<1>2. SUFFICES DocInv(w)'
  BY <1>1, EndedDocs DEF DocsInv
<1>3. DocInv(w)
  BY DEF DocsInv
<1>4. CASE LoadTorn(w) \/ KeepProduction(w) \/ WriteProduction(w)
  BY <1>4, EndedDocs
  DEF LoadTorn, KeepProduction, WriteProduction, End, Goto, TypeOK, Running
<1>5. ASSUME NEW e \in Experiments, ScanTornManifest(w, e)
      PROVE  DocInv(w)'
  BY <1>5, EndedDocs DEF ScanTornManifest, End, Goto, TypeOK, Running
<1>6. CASE RebuildLoadRegistry(w)
  BY <1>6 DEF RebuildLoadRegistry, Rebuilding, Goto, files, TypeOK, DocInv
<1>7. CASE PromoteLoadRegistry(w)
  <2>1. CASE IsRegistered(w)
    <3>1. /\ pc'[w] = "load_production" /\ ds'[w] # None
          /\ doc'[w] = Promoted(w)
          /\ UNCHANGED <<entries, ds, target>>
      BY <1>7, <2>1 DEF PromoteLoadRegistry, Rebuilding, Goto, files, TypeOK
    <3>2. QED
      BY <3>1 DEF DocInv, Promoted
  <2>2. CASE ~IsRegistered(w)
    BY <1>7, <2>2, EndedDocs DEF PromoteLoadRegistry, End, Goto, TypeOK, Running
  <2>3. QED
    BY <2>1, <2>2
<1>8. CASE LoadProduction(w)
  <2>1. /\ pc[w] = "load_production"
        /\ pc'[w] = IF ds[w] = None THEN "glob" ELSE "open_registry"
        /\ UNCHANGED <<entries, ds, target, doc>>
    BY <1>8 DEF LoadProduction, Rebuilding, Goto, files, TypeOK
  <2>2. QED
    BY <1>3, <2>1 DEF DocInv, Promoted
<1>9. CASE GlobManifests(w)
  <2>1. /\ pc[w] = "glob" /\ pc'[w] = "scan"
        /\ todo'[w] = {e \in Experiments : manifest[e] # "absent"}
        /\ \A e \in Experiments :
             doc'[w][e] = IF e \in todo'[w] THEN doc[w][e] ELSE None
        /\ UNCHANGED <<entries, ds, target>>
    BY <1>9 DEF GlobManifests, Goto, files, TypeOK
  <2>2. ds[w] = None
    BY <2>1 DEF WriterInv, PromotionInv, Promoting
  <2>3. doc[w] = entries
    BY <1>3, <2>1, <2>2 DEF DocInv
  <2>4. QED
    BY <2>1, <2>2, <2>3 DEF DocInv
<1>10. ASSUME NEW e \in Experiments, ScanManifest(w, e)
       PROVE  DocInv(w)'
  <2>1. /\ pc[w] = "scan" /\ pc'[w] = "scan" /\ e \in todo[w]
        /\ todo'[w] = todo[w] \ {e}
        /\ \A x \in Experiments \ {e} : doc'[w][x] = doc[w][x]
        /\ doc'[w][e] \in {None, Status(e, doc[w][e], seen[w])}
        /\ UNCHANGED <<entries, ds, target>>
    BY <1>10 DEF ScanManifest, files, TypeOK, Documents
  <2>2. ds[w] = None
    BY <2>1 DEF WriterInv, PromotionInv, Promoting
  <2>3. \A x \in Experiments : entries[x] = "archived" =>
          /\ x \in todo[w] => doc[w][x] = "archived"
          /\ doc[w][x] \in {None, "archived", "production"}
    BY <1>3, <2>1, <2>2 DEF DocInv
  <2>4. entries[e] = "archived" => doc'[w][e] \in {None, "archived", "production"}
    BY <2>1, <2>3, NoneAssumption DEF Status
  <2>5. QED
    BY <2>1, <2>2, <2>3, <2>4 DEF DocInv
<1>11. CASE OpenRegistry(w)
  <2>1. /\ pc'[w] = "write_registry"
        /\ pc[w] \in {"open_registry", "scan"}
        /\ pc[w] = "scan" <=> ds[w] = None
        /\ UNCHANGED <<entries, ds, target, doc, todo>>
    BY <1>11
    DEF OpenRegistry, Goto, TypeOK, memory, WriterInv, RebuildInv, PromotionInv, Promoting
  <2>2. QED
    BY <1>3, <2>1 DEF DocInv, Promoted
<1>12. CASE WriteRegistry(w)
  <2>1. entries' = doc[w]
    BY <1>12 DEF WriteRegistry, Fill, Alone, Files
  <2>2. /\ pc'[w] = IF ds[w] = None THEN "open_best" ELSE "open_production"
        /\ UNCHANGED <<ds, doc>>
    BY <1>12 DEF WriteRegistry, Goto, TypeOK, memory, Rebuilding
  <2>3. QED
    BY <2>1, <2>2 DEF DocInv
<1>13. CASE OpenBest(w) \/ WriteBest(w)
  <2>1. /\ pc[w] \in {"open_best", "write_best"}
        /\ pc'[w] \in {"write_best", "check_production"}
        /\ UNCHANGED <<entries, ds, doc>>
    BY <1>13 DEF OpenBest, WriteBest, Goto, TypeOK, memory
  <2>2. QED
    BY <1>3, <2>1 DEF DocInv
<1>14. CASE OpenProduction(w)
  BY <1>14 DEF OpenProduction, Goto, TypeOK, DocInv
<1>15. QED
  BY <1>4, <1>5, <1>6, <1>7, <1>8, <1>9, <1>10, <1>11, <1>12, <1>13, <1>14
  DEF Step

\* Each step of a lone command leaves the other files whole.
LEMMA StepWhole ==
  ASSUME IInv, Alone, DocsInv, WholeFiles, NEW w \in Writers, Step(w)
  PROVE  WholeFiles'
<1> USE DEF IInv
<1>1. \A u \in Writers \ {w} : pc[u] \notin Running /\ pc'[u] \notin Running
  BY OthersEnded
<1>2. SUFFICES Whole(w)'
  BY <1>1, WholeSuffices
<1>3. Whole(w)
  BY <1>1, WholeHolds
\* A step that opens and fills nothing.
<1>4. ASSUME UNCHANGED <<file, entries, best, interrupted>>,
             pc[w] \notin {"write_registry", "write_best", "write_production", "open_best"},
             ds'[w] = None => Repairs(w)'
      PROVE  Whole(w)'
  <2>1. \A f \in Files : pc[w] # Writing(f)
    BY <1>4 DEF Writing, Files
  <2>2. ~BestPending(w)
    BY <1>4 DEF BestPending
  <2>3. QED
    BY <1>3, <1>4, <2>1, <2>2 DEF Whole, Resolves
<1>5. CASE LoadTorn(w)
  BY <1>4, <1>5 DEF LoadTorn, End, Goto, files, TypeOK, Repairs, Running
<1>6. CASE RebuildLoadRegistry(w)
  BY <1>4, <1>6 DEF RebuildLoadRegistry, Goto, files, TypeOK, Repairs
<1>7. CASE PromoteLoadRegistry(w)
  BY <1>4, <1>7
  DEF PromoteLoadRegistry, Rebuilding, End, Goto, files, TypeOK, Repairs, Running
<1>8. CASE LoadProduction(w)
  BY <1>4, <1>8 DEF LoadProduction, Rebuilding, Goto, files, TypeOK, Repairs
<1>9. CASE GlobManifests(w)
  <2>1. /\ pc[w] = "glob" /\ pc'[w] = "scan"
        /\ UNCHANGED <<file, entries, best, interrupted, ds>>
    BY <1>9 DEF GlobManifests, Goto, files, TypeOK
  <2>2. ds[w] = None
    BY <2>1 DEF WriterInv, PromotionInv, Promoting
  <2>3. file["production"] # "torn"
    BY <1>3, <2>1, <2>2 DEF Whole, Repairs, Running
  <2>4. QED
    BY <1>4, <2>1, <2>3 DEF Repairs
<1>10. ASSUME NEW e \in Experiments, ScanManifest(w, e)
       PROVE  Whole(w)'
  <2>1. /\ pc[w] = "scan" /\ pc'[w] = "scan"
        /\ UNCHANGED <<file, entries, best, interrupted, ds>>
    BY <1>10 DEF ScanManifest, files, TypeOK
  <2>2. ds[w] = None
    BY <2>1 DEF WriterInv, PromotionInv, Promoting
  <2>3. file["production"] # "torn"
    BY <1>3, <2>1, <2>2 DEF Whole, Repairs, Running
  <2>4. QED
    BY <1>4, <2>1, <2>3 DEF Repairs
<1>11. ASSUME NEW e \in Experiments, ScanTornManifest(w, e)
       PROVE  Whole(w)'
  BY <1>4, <1>11 DEF ScanTornManifest, End, Goto, files, TypeOK, Repairs, Running
<1>12. CASE OpenRegistry(w)
  <2>1. /\ pc[w] \in {"open_registry", "scan"} /\ pc'[w] = "write_registry"
        /\ file' = [file EXCEPT !["registry"] = "torn"]
        /\ UNCHANGED <<entries, best, interrupted, ds>>
        /\ ds[w] = None => pc[w] = "scan"
    BY <1>12
    DEF OpenRegistry, Open, Goto, TypeOK, memory, WriterInv, RebuildInv
  <2>2. \A f \in Files : file'[f] = "torn" => f = "registry" \/ file[f] = "torn"
    BY <2>1 DEF TypeOK, Files
  <2>3. ~interrupted => \A f \in Files : file[f] # "torn"
    BY <1>3, <2>1 DEF Whole, Writing, Files
  <2>4. ~interrupted' => \A f \in Files : file'[f] = "torn" => pc'[w] = Writing(f)
    BY <2>1, <2>2, <2>3 DEF Writing
  <2>5. ~interrupted' => Resolves'
    BY <1>3, <2>1 DEF Whole, BestPending, Resolves
  <2>6. ds'[w] = None => Repairs(w)'
    BY <1>3, <2>1 DEF Whole, Repairs, Running, TypeOK, Files
  <2>7. QED
    BY <2>4, <2>5, <2>6 DEF Whole
<1>13. CASE WriteRegistry(w)
  <2>1. entries' = doc[w]
    BY <1>13 DEF WriteRegistry, Fill, Alone, Files
  <2>2. /\ pc[w] = "write_registry"
        /\ pc'[w] = IF ds[w] = None THEN "open_best" ELSE "open_production"
        /\ file' = [file EXCEPT !["registry"] = "ok"]
        /\ UNCHANGED <<best, interrupted, ds>>
    BY <1>13 DEF WriteRegistry, Fill, Alone, Files, Goto, TypeOK, memory, Rebuilding
  <2>3. \A f \in Files : file'[f] = "torn" => f # "registry" /\ file[f] = "torn"
    BY <2>2 DEF TypeOK, Files
  <2>4. ~interrupted' => \A f \in Files : file'[f] # "torn"
    BY <1>3, <2>2, <2>3 DEF Whole, Writing, Files
  <2>5. ASSUME ~interrupted, ds[w] # None, NEW d \in Datasets, best[d] # None
        PROVE  entries'[best[d]] # None
    <3>1. Resolves
      BY <1>3, <2>5 DEF Whole, BestPending
    <3>2. best[d] \in Experiments /\ entries[best[d]] # None
      BY <2>5, <3>1 DEF Resolves, TypeOK, Assignments
    <3>3. doc[w] = Promoted(w)
      BY <2>2, <2>5 DEF DocsInv, DocInv
    <3>4. QED
      BY <2>1, <3>2, <3>3, NoneAssumption DEF Promoted
  <2>6. ~interrupted' /\ ~BestPending(w)' => Resolves'
    BY <2>2, <2>5 DEF BestPending, Resolves
  <2>7. ds'[w] = None => Repairs(w)'
    BY <1>3, <2>2 DEF Whole, Repairs, Running, TypeOK, Files
  <2>8. QED
    BY <2>4, <2>6, <2>7 DEF Whole
<1>14. CASE OpenBest(w)
  <2>1. /\ pc[w] = "open_best" /\ pc'[w] = "write_best"
        /\ file' = [file EXCEPT !["best"] = "torn"]
        /\ UNCHANGED <<entries, best, interrupted, ds>>
    BY <1>14 DEF OpenBest, Open, Goto, TypeOK, memory
  <2>2. ds[w] = None
    BY <2>1 DEF WriterInv, PromotionInv, Promoting
  <2>3. ~interrupted => \A f \in Files : file[f] # "torn"
    BY <1>3, <2>1 DEF Whole, Writing, Files
  <2>4. ~interrupted' => \A f \in Files : file'[f] = "torn" => pc'[w] = Writing(f)
    BY <2>1, <2>3 DEF Writing, TypeOK, Files
  <2>5. BestPending(w)'
    BY <2>1, <2>2 DEF BestPending
  <2>6. Repairs(w)'
    BY <1>3, <2>1, <2>2 DEF Whole, Repairs, Running, TypeOK, Files
  <2>7. QED
    BY <2>4, <2>5, <2>6 DEF Whole
<1>15. CASE WriteBest(w)
  <2>1. best' = [d \in Datasets |-> SelectBest(doc[w], d)]
    BY <1>15 DEF WriteBest, Fill, Alone, Files
  <2>2. /\ pc[w] = "write_best" /\ pc'[w] = "check_production"
        /\ file' = [file EXCEPT !["best"] = "ok"]
        /\ UNCHANGED <<entries, interrupted, ds>>
    BY <1>15 DEF WriteBest, Fill, Alone, Files, Goto, TypeOK, memory
  <2>3. ds[w] = None
    BY <2>2 DEF WriterInv, PromotionInv, Promoting
  <2>4. doc[w] = entries
    BY <2>2, <2>3 DEF DocsInv, DocInv
  <2>5. ~interrupted' => \A f \in Files : file'[f] # "torn"
    BY <1>3, <2>2 DEF Whole, Writing, TypeOK, Files
  <2>6. \A d \in Datasets : SelectBest(entries, d) # None =>
          SelectBest(entries, d) \in Comparable(entries, d)
    BY DEF SelectBest, Unbeaten
  <2>7. Resolves'
    BY <2>1, <2>2, <2>4, <2>6 DEF Resolves, Comparable
  <2>8. best' = [d \in Datasets |-> SelectBest(entries', d)]
    BY <2>1, <2>2, <2>4
  <2>9. Repairs(w)'
    BY <1>3, <2>2, <2>3, <2>8 DEF Whole, Repairs, Running, TypeOK, Files
  <2>10. QED
    BY <2>5, <2>7, <2>9 DEF Whole
<1>16. ASSUME ds[w] = None, pc[w] \in {"check_production", "write_production"}
       PROVE  Resolves
  <2>1. \A d \in Datasets : SelectBest(entries, d) # None =>
          SelectBest(entries, d) \in Comparable(entries, d)
    BY DEF SelectBest, Unbeaten
  <2>2. QED
    BY <1>3, <1>16, <2>1 DEF Whole, Repairs, Resolves, Comparable
<1>17. CASE KeepProduction(w)
  <2>1. /\ pc[w] = "check_production" /\ pc'[w] = "idle"
        /\ UNCHANGED <<file, entries, best>>
    BY <1>17 DEF KeepProduction, End, Goto, TypeOK, files
  <2>2. ds[w] = None
    BY <2>1 DEF WriterInv, PromotionInv, Promoting
  <2>3. Repairs(w)
    BY <1>3, <2>2 DEF Whole
  <2>4. \A f \in Files : file'[f] # "torn"
    BY <2>1, <2>3 DEF Repairs, Files, Running
  <2>5. Resolves'
    BY <1>16, <2>1, <2>2 DEF Resolves
  <2>6. Repairs(w)'
    BY <2>1 DEF Repairs, Running
  <2>7. QED
    BY <2>4, <2>5, <2>6 DEF Whole
<1>18. CASE OpenProduction(w)
  <2>1. /\ pc[w] \in {"open_production", "check_production"}
        /\ pc'[w] = "write_production"
        /\ file' = [file EXCEPT !["production"] = "torn"]
        /\ UNCHANGED <<entries, best, interrupted, ds>>
        /\ ds[w] = None => pc[w] = "check_production"
    BY <1>18
    DEF OpenProduction, Open, Goto, TypeOK, memory, WriterInv, RebuildInv
  <2>2. ~interrupted => \A f \in Files : file[f] # "torn"
    BY <1>3, <2>1 DEF Whole, Writing, Files
  <2>3. ~interrupted' => \A f \in Files : file'[f] = "torn" => pc'[w] = Writing(f)
    BY <2>1, <2>2 DEF Writing, TypeOK, Files
  <2>4. ~interrupted' => Resolves'
    BY <1>3, <2>1 DEF Whole, BestPending, Resolves
  <2>5. ds'[w] = None => Repairs(w)'
    BY <1>3, <2>1 DEF Whole, Repairs, TypeOK, Files
  <2>6. QED
    BY <2>3, <2>4, <2>5 DEF Whole
<1>19. CASE WriteProduction(w)
  <2>1. /\ pc[w] = "write_production" /\ pc'[w] = "idle"
        /\ file' = [file EXCEPT !["production"] = "ok"]
        /\ interrupted' = (IF ds[w] = None THEN FALSE ELSE interrupted)
        /\ UNCHANGED <<entries, best>>
    BY <1>19
    DEF WriteProduction, Fill, Alone, Files, End, Goto, TypeOK, Rebuilding
  <2>2. ~interrupted' => \A f \in Files : file'[f] # "torn"
    <3>1. CASE ds[w] = None
      BY <1>3, <2>1, <3>1 DEF Whole, Repairs, TypeOK, Files
    <3>2. CASE ds[w] # None
      BY <1>3, <2>1, <3>2 DEF Whole, Writing, TypeOK, Files
    <3>3. QED
      BY <3>1, <3>2
  <2>3. ~interrupted' => Resolves
    BY <1>3, <1>16, <2>1 DEF Whole, BestPending
  <2>4. Repairs(w)'
    BY <2>1 DEF Repairs, Running
  <2>5. QED
    BY <2>1, <2>2, <2>3, <2>4 DEF Whole, Resolves
<1>20. QED
  BY <1>5, <1>6, <1>7, <1>8, <1>9, <1>10, <1>11, <1>12, <1>13, <1>14, <1>15, <1>17,
     <1>18, <1>19
  DEF Step

\* Whatever happens, the documents and the files stay so.
LEMMA NextWhole ==
  ASSUME Exclusive, IInv, Alone, SeenIsCurrent, DocsInv, WholeFiles, [Next]_vars
  PROVE  DocsInv' /\ WholeFiles'
<1> USE DEF IInv
<1>1. ASSUME NEW w \in Writers, Command(w)
      PROVE  DocsInv' /\ WholeFiles'
  <2>1. /\ \A u \in Writers : pc[u] \notin Running
        /\ pc' = [pc EXCEPT ![w] = "load_registry"]
        /\ UNCHANGED <<file, entries, best, interrupted>>
    BY <1>1 DEF Command, StartRebuild, StartPromote, PickCandidate, MayStart, Goto,
                files, Ended, Running
  <2>2. \A u \in Writers \ {w} : pc'[u] \notin Running
    BY <2>1 DEF TypeOK
  <2>3. DocsInv'
    BY <2>1, <2>2, EndedDocs DEF DocsInv, DocInv, TypeOK
  <2>4. Whole(w)
    BY <2>1, WholeHolds
  <2>5. ~interrupted => (\A f \in Files : file[f] # "torn") /\ Resolves
    BY <2>1, <2>4, WritingRuns DEF Whole, BestPending, Running
  <2>6. Repairs(w)'
    BY <2>1 DEF Repairs, TypeOK
  <2>7. Whole(w)'
    BY <2>1, <2>5, <2>6 DEF Whole, Resolves
  <2>8. QED
    BY <2>2, <2>3, <2>7, WholeSuffices
<1>2. ASSUME NEW w \in Writers, Step(w)
      PROVE  DocsInv' /\ WholeFiles'
  BY <1>2, StepDocs, StepWhole
<1>3. ASSUME NEW w \in Writers, Crash(w)
      PROVE  DocsInv' /\ WholeFiles'
  <2>1. \A u \in Writers : pc'[u] \notin Running
    BY <1>3, OthersEnded DEF Crash, End, Goto, TypeOK, Running
  <2>2. Whole(w)
    BY <1>3, OthersEnded, WholeHolds
  <2>3. ~interrupted' => /\ ~interrupted /\ ~BestPending(w)
                         /\ pc[w] \notin {"write_registry", "write_best", "write_production"}
    BY <1>3 DEF Crash, BestPending
  <2>4. ~interrupted' => (\A f \in Files : file[f] # "torn") /\ Resolves
    BY <2>2, <2>3 DEF Whole, Writing, Files
  <2>5. Repairs(w)'
    BY <2>1 DEF Repairs, Running
  <2>6. Whole(w)'
    BY <1>3, <2>4, <2>5 DEF Crash, Whole, Resolves
  <2>7. QED
    BY <2>1, <2>6, WholeSuffices, EndedDocs DEF DocsInv
<1>4. ASSUME NEW e \in Experiments, Training(e) \/ MoveModel(e)
      PROVE  DocsInv' /\ WholeFiles'
  <2>1. UNCHANGED <<file, entries, best, interrupted, pc, ds, target, doc, todo>>
    BY <1>4 DEF Training, SaveModel, OpenManifest, WriteManifest, CrashTraining,
                MoveModel, files, memory
  <2>2. QED
    BY <2>1 DEF DocsInv, DocInv, Promoted, WholeFiles, BestPending, Resolves, Repairs
<1>5. ASSUME NEW e \in Experiments, Archive(e)
      PROVE  DocsInv' /\ WholeFiles'
  <2>1. /\ \A u \in Writers : pc[u] \notin Running /\ pc'[u] \notin Running
        /\ UNCHANGED <<file, best, interrupted, pc, ds>>
    BY <1>5 DEF Archive, Ended, Running, memory
  <2>2. \A d \in Datasets : best[d] # None /\ entries[best[d]] # None => entries'[best[d]] # None
    BY <1>5, NoneAssumption DEF Archive, TypeOK, Documents, Assignments
  <2>3. WholeFiles'
    BY <2>1, <2>2 DEF WholeFiles, BestPending, Resolves, Repairs, Running
  <2>4. QED
    BY <2>1, <2>3, EndedDocs DEF DocsInv
<1>6. CASE UNCHANGED vars
  BY <1>6 DEF vars, files, memory, DocsInv, DocInv, Promoted, WholeFiles, BestPending,
              Resolves, Repairs
<1>7. QED
  BY <1>1, <1>2, <1>3, <1>4, <1>5, <1>6 DEF Next

-----------------------------------------------------------------------------
(* The entries a rebuild compares are finitely many, so one is unbeaten.    *)

OnDisk(e) == manifest[e] # "absent"

\* Only finitely many runs ever wrote a manifest, and only such a run is in
\* registry.json or in a document that will replace it.
OnDiskInv ==
  /\ IsFiniteSet({e \in Experiments : OnDisk(e)})
  /\ \A e \in Experiments : entries[e] # None => OnDisk(e)
  /\ \A w \in Writers, e \in Experiments : doc[w][e] # None => OnDisk(e)

\* No step of a command registers a run without a manifest.
LEMMA StepOnDisk ==
  ASSUME IInv, OnDiskInv, NEW w \in Writers, Step(w) \/ Command(w) \/ Crash(w)
  PROVE  OnDiskInv'
<1> USE DEF IInv
<1>1. UNCHANGED manifest
  BY DEF Step, LoadTorn, RebuildLoadRegistry, PromoteLoadRegistry, LoadProduction,
         GlobManifests, ScanManifest, ScanTornManifest, OpenRegistry, WriteRegistry,
         OpenBest, WriteBest, KeepProduction, OpenProduction, WriteProduction, Crash,
         Command, StartRebuild, StartPromote, PickCandidate, disk
<1>2. SUFFICES /\ \A e \in Experiments : entries'[e] # None => OnDisk(e)
               /\ \A u \in Writers, e \in Experiments : doc'[u][e] # None => OnDisk(e)
  BY <1>1 DEF OnDiskInv, OnDisk
<1>3. ASSUME UNCHANGED entries,
             \A e \in Experiments : doc'[w][e] # None => OnDisk(e)
      PROVE  /\ \A e \in Experiments : entries'[e] # None => OnDisk(e)
             /\ \A u \in Writers, e \in Experiments : doc'[u][e] # None => OnDisk(e)
  <2>1. CASE Command(w)
    BY <1>3, <2>1 DEF Command, StartRebuild, StartPromote, PickCandidate, memory, OnDiskInv
  <2>2. CASE Step(w) \/ Crash(w)
    <3>1. \A u \in Writers \ {w} : doc'[u] = doc[u]
      BY <2>2, StepFrame
    <3>2. QED
      BY <1>3, <3>1 DEF OnDiskInv
  <2>3. QED
    BY <2>1, <2>2
<1>4. ASSUME UNCHANGED <<entries, doc>>
      PROVE  /\ \A e \in Experiments : entries'[e] # None => OnDisk(e)
             /\ \A u \in Writers, e \in Experiments : doc'[u][e] # None => OnDisk(e)
  BY <1>4 DEF OnDiskInv
<1>5. ASSUME UNCHANGED entries, doc' = [doc EXCEPT ![w] = NoEntries]
      PROVE  /\ \A e \in Experiments : entries'[e] # None => OnDisk(e)
             /\ \A u \in Writers, e \in Experiments : doc'[u][e] # None => OnDisk(e)
  BY <1>3, <1>5 DEF NoEntries, TypeOK
<1>6. CASE Command(w) \/ LoadProduction(w) \/ OpenRegistry(w) \/ OpenBest(w)
  BY <1>4, <1>6
  DEF Command, StartRebuild, StartPromote, PickCandidate, LoadProduction, OpenRegistry,
      OpenBest, files, memory
<1>7. CASE WriteBest(w) \/ OpenProduction(w)
  BY <1>4, <1>7 DEF WriteBest, OpenProduction, memory
<1>8. CASE LoadTorn(w) \/ KeepProduction(w) \/ WriteProduction(w) \/ Crash(w)
  BY <1>5, <1>8 DEF LoadTorn, KeepProduction, WriteProduction, Crash, End, files
<1>9. ASSUME NEW e \in Experiments, ScanTornManifest(w, e)
      PROVE  /\ \A x \in Experiments : entries'[x] # None => OnDisk(x)
             /\ \A u \in Writers, x \in Experiments : doc'[u][x] # None => OnDisk(x)
  BY <1>5, <1>9 DEF ScanTornManifest, End, files
<1>10. CASE RebuildLoadRegistry(w)
  BY <1>3, <1>10 DEF RebuildLoadRegistry, files, TypeOK, OnDiskInv
<1>11. CASE PromoteLoadRegistry(w)
  <2>1. CASE IsRegistered(w)
    <3>1. /\ doc'[w] = Promoted(w) /\ UNCHANGED entries
          /\ entries[target[w]] # None /\ target[w] \in Experiments
      BY <1>11, <2>1
      DEF PromoteLoadRegistry, Rebuilding, files, TypeOK, WriterInv, PromotionInv,
          IsRegistered
    <3>2. \A e \in Experiments : doc'[w][e] # None => entries[e] # None
      BY <3>1, NoneAssumption DEF Promoted
    <3>3. QED
      BY <1>3, <3>1, <3>2 DEF OnDiskInv
  <2>2. CASE ~IsRegistered(w)
    BY <1>5, <1>11, <2>2 DEF PromoteLoadRegistry, End, files
  <2>3. QED
    BY <2>1, <2>2
<1>12. CASE GlobManifests(w)
  BY <1>3, <1>12 DEF GlobManifests, files, TypeOK, OnDisk
<1>13. ASSUME NEW e \in Experiments, ScanManifest(w, e)
       PROVE  /\ \A x \in Experiments : entries'[x] # None => OnDisk(x)
              /\ \A u \in Writers, x \in Experiments : doc'[u][x] # None => OnDisk(x)
  <2>1. /\ UNCHANGED entries
        /\ \A x \in Experiments \ {e} : doc'[w][x] = doc[w][x]
        /\ doc'[w][e] # None => manifest[e] = "ok"
    BY <1>13 DEF ScanManifest, files, TypeOK, Documents
  <2>2. QED
    BY <1>3, <2>1 DEF OnDiskInv, OnDisk
<1>14. CASE WriteRegistry(w)
  <2>1. entries' \in {entries, doc[w]} /\ UNCHANGED doc
    BY <1>14 DEF WriteRegistry, memory
  <2>2. QED
    BY <2>1 DEF OnDiskInv
<1>15. QED
  BY <1>6, <1>7, <1>8, <1>9, <1>10, <1>11, <1>12, <1>13, <1>14 DEF Step

\* A training run adds its own manifest, and nothing is deleted.
LEMMA NextOnDisk ==
  ASSUME IInv, OnDiskInv, [Next]_vars
  PROVE  OnDiskInv'
<1> USE DEF IInv
<1>1. ASSUME NEW w \in Writers, Command(w) \/ Step(w) \/ Crash(w)
      PROVE  OnDiskInv'
  BY <1>1, StepOnDisk
<1>2. ASSUME NEW e \in Experiments, Training(e) \/ MoveModel(e)
      PROVE  OnDiskInv'
  <2>1. UNCHANGED <<entries, doc>>
    BY <1>2 DEF Training, SaveModel, OpenManifest, WriteManifest, CrashTraining,
                MoveModel, files, memory
  <2>2. \/ UNCHANGED manifest
        \/ \E to \in {"writing", "ok", "torn"} : manifest' = [manifest EXCEPT ![e] = to]
    BY <1>2 DEF Training, SaveModel, OpenManifest, WriteManifest, CrashTraining,
                MoveModel
  <2>3. \A x \in Experiments : OnDisk(x)' => OnDisk(x) \/ x = e
    BY <2>2 DEF OnDisk, TypeOK
  <2>4. \A x \in Experiments : OnDisk(x) => OnDisk(x)'
    BY <2>2 DEF OnDisk, TypeOK
  <2> DEFINE before == {x \in Experiments : OnDisk(x)}
             after == {x \in Experiments : OnDisk(x)'}
  <2>5. after \in SUBSET (before \cup {e})
    BY <2>3
  <2>6. IsFiniteSet(before \cup {e})
    BY FS_AddElement DEF OnDiskInv
  <2> HIDE DEF before
  <2>7. IsFiniteSet(after)
    BY <2>5, <2>6, FS_Subset
  <2>8. QED
    BY <2>1, <2>4, <2>7 DEF OnDiskInv
<1>3. ASSUME NEW e \in Experiments, Archive(e)
      PROVE  OnDiskInv'
  <2>1. /\ UNCHANGED <<manifest, doc>>
        /\ \A x \in Experiments : entries'[x] # None => entries[x] # None
    BY <1>3, NoneAssumption DEF Archive, disk, memory, TypeOK, Documents
  <2>2. QED
    BY <2>1 DEF OnDiskInv, OnDisk
<1>4. CASE UNCHANGED vars
  BY <1>4 DEF vars, disk, files, memory, OnDiskInv, OnDisk
<1>5. QED
  BY <1>1, <1>2, <1>3, <1>4 DEF Next

\* Beats is a strict order of the experiments that have a metric, and total.
LEMMA BeatsOrders ==
  ASSUME NEW T \in SUBSET {e \in Experiments : TestF1[e] # None},
         NEW e \in T, NEW f \in T, NEW g \in T
  PROVE  /\ ~Beats(e, e)
         /\ e # f => Beats(e, f) \/ Beats(f, e)
         /\ Beats(e, f) /\ Beats(f, g) => Beats(e, g)
<1>1. /\ TestF1[e] \in Nat /\ TestF1[f] \in Nat /\ TestF1[g] \in Nat
      /\ e \in Nat /\ f \in Nat /\ g \in Nat
  BY ManifestAssumption, IdsAssumption
<1>2. CASE HigherIsBetter
  BY <1>1, <1>2 DEF Beats
<1>3. CASE ~HigherIsBetter
  BY <1>1, <1>3 DEF Beats
<1>4. QED
  BY <1>2, <1>3

\* Of finitely many of them one beats all the others: the one that the fewest
\* beat, in the order of set inclusion.
LEMMA SomeUnbeaten ==
  ASSUME NEW T \in SUBSET {e \in Experiments : TestF1[e] # None},
         IsFiniteSet(T), T # {}
  PROVE  \E e \in T : \A f \in T \ {e} : Beats(e, f)
<1> DEFINE betters(e) == {f \in T : Beats(f, e)}
           sets == {betters(e) : e \in T}
<1>1. \A e \in T : betters(e) \in FiniteSubsetsOf(T)
  <2>1. \A e \in T : betters(e) \in SUBSET T
    OBVIOUS
  <2>2. QED
    BY <2>1, FS_Subset DEF FiniteSubsetsOf
<1>2. sets \subseteq FiniteSubsetsOf(T) /\ sets # {}
  BY <1>1
<1>3. PICK s \in sets : \A t \in sets : ~ (<<t, s>> \in StrictSubsetOrdering(T))
  <2> HIDE DEF sets
  <2> QED
    BY <1>2, FS_StrictSubsetOrderingWellFounded, WFMin
<1>4. PICK e \in T : s = betters(e)
  BY <1>3
<1>5. ASSUME NEW f \in T \ {e}
      PROVE  Beats(e, f)
  <2>1. SUFFICES ASSUME Beats(f, e)
                 PROVE  FALSE
    BY BeatsOrders
  <2>2. betters(f) \subseteq betters(e)
    BY <2>1, BeatsOrders
  <2>3. f \in betters(e) /\ f \notin betters(f)
    BY <2>1, BeatsOrders
  <2>4. betters(f) \in sets /\ betters(f) \in SUBSET T /\ betters(e) \in SUBSET T
    OBVIOUS
  <2> HIDE DEF betters, sets
  <2>5. <<betters(f), betters(e)>> \in StrictSubsetOrdering(T)
    BY <2>2, <2>3, <2>4 DEF StrictSubsetOrdering
  <2>6. QED
    BY <1>3, <1>4, <2>4, <2>5
<1>6. QED
  BY <1>5

\* What a rebuild publishes for a dataset beats every other live entry of it.
LEMMA PublishedBest ==
  ASSUME IInv, OnDiskInv, NEW d \in Datasets, Comparable(entries, d) # {}
  PROVE  /\ SelectBest(entries, d) \in Comparable(entries, d)
         /\ \A e \in Comparable(entries, d) \ {SelectBest(entries, d)} :
              Beats(SelectBest(entries, d), e)
<1>1. Comparable(entries, d) \in SUBSET {e \in Experiments : TestF1[e] # None}
  BY DEF Comparable
<1>2. Comparable(entries, d) \in SUBSET {e \in Experiments : OnDisk(e)}
  BY DEF Comparable, OnDiskInv
<1>3. IsFiniteSet(Comparable(entries, d))
  BY <1>2, FS_Subset DEF OnDiskInv
<1>4. Unbeaten(entries, d) # {}
  BY <1>1, <1>3, SomeUnbeaten DEF Unbeaten
<1>5. SelectBest(entries, d) \in Unbeaten(entries, d)
  BY <1>4 DEF SelectBest
<1>6. QED
  BY <1>5 DEF Unbeaten

-----------------------------------------------------------------------------
(* The theorems. *)

\* The single-writer invariants hold of an empty disk.
LEMMA InitSingle == Init => Alone /\ SeenIsCurrent /\ Agreement
<1> SUFFICES ASSUME Init
             PROVE  Alone /\ SeenIsCurrent /\ Agreement
  OBVIOUS
<1>1. \A w \in Writers : pc[w] \notin Running
  BY DEF Init, Running
<1>2. Alone
  BY <1>1 DEF Init, Alone
<1>3. SeenIsCurrent
  BY <1>1 DEF Init, SeenIsCurrent, Running
<1>4. Agreement
  BY <1>1 DEF Init, Agreement, Agree, HalfPromoted, Rebuilt, Running, NoEntries
<1>5. QED
  BY <1>2, <1>3, <1>4

\* The strengthened invariant of the single-writer discipline.
THEOREM SingleWriterInvariant == ASSUME Exclusive PROVE Spec => []SingleInv
<1>1. Init => SingleInv
  BY InitInv, InitSingle DEF SingleInv
<1>2. SingleInv /\ [Next]_vars => SingleInv'
  BY NextInv, NextAlone, NextSeen, NextAgreement DEF SingleInv, IInv
<1>3. QED
  BY <1>1, <1>2, PTL DEF Spec

\* With one writer at a time, registry.json and production.json tell the same
\* story at rest unless a command died half way since the last rebuild; a
\* rebuild that ends restores it.
THEOREM StatusAgreementHolds == ASSUME Exclusive PROVE Spec => []StatusAgreement
<1>1. SingleInv => StatusAgreement
  BY DEF SingleInv, Agreement, Agree, HalfPromoted, StatusAgreement, Settled, AtRest, Ended
<1>2. QED
  BY <1>1, SingleWriterInvariant, PTL

\* With one writer at a time, production.json is an atomic register: what its
\* readers see changes by whole promotions, none lost, none invented.
THEOREM RegistryImplementsRegister == ASSUME Exclusive PROVE Spec => ImplementsRegister
<1>1. Init => Register!Init
  BY DEF Init, Register!Init, NoAssignment
<1>2. SingleInv /\ [Next]_vars => [Register!Next]_production
  <2> SUFFICES ASSUME SingleInv, [Next]_vars, production' # production
               PROVE  Register!Next
    OBVIOUS
  <2> USE DEF SingleInv, IInv
  <2>1. PICK w \in Writers : WriteProduction(w)
    <3>1. CASE UNCHANGED vars
      BY <3>1 DEF vars, files
    <3>2. ASSUME NEW e \in Experiments, Training(e) \/ MoveModel(e) \/ Archive(e)
          PROVE  FALSE
      BY <3>2 DEF Training, SaveModel, OpenManifest, WriteManifest, CrashTraining,
                  MoveModel, Archive, files
    <3>3. ASSUME NEW w \in Writers, Command(w) \/ Crash(w)
          PROVE  FALSE
      BY <3>3, ProductionFrame
    <3>4. ASSUME NEW w \in Writers, Step(w), ~WriteProduction(w)
          PROVE  FALSE
      BY <3>4
      DEF Step, LoadTorn, RebuildLoadRegistry, PromoteLoadRegistry, LoadProduction,
          GlobManifests, ScanManifest, ScanTornManifest, OpenRegistry, WriteRegistry,
          OpenBest, WriteBest, KeepProduction, OpenProduction, files
    <3>5. QED
      BY <3>1, <3>2, <3>3, <3>4 DEF Next
  <2>2. /\ production' = NewProduction(w)
        /\ seen[w] = production
        /\ pc[w] = "write_production"
    BY <2>1 DEF WriteProduction, SeenIsCurrent, Running
  <2>3. ds[w] # None
    BY <2>2 DEF NewProduction, Rebuilding, SeenIsCurrent
  <2>4. /\ ds[w] \in Datasets /\ target[w] \in Experiments
        /\ DatasetOf[target[w]] = ds[w]
    BY <2>2, <2>3 DEF TypeOK, WriterInv, PromotionInv
  <2>5. production' = [production EXCEPT ![ds[w]] = target[w]]
    BY <2>2, <2>3 DEF NewProduction, Rebuilding
  <2>6. QED
    BY <2>4, <2>5 DEF Register!Next, Register!Promote
<1>3. QED
  BY <1>1, <1>2, SingleWriterInvariant, PTL DEF Spec, ImplementsRegister, Register!Spec

\* The strengthened invariant of what the commands leave on disk.
PublishedInv == SingleInv /\ DocsInv /\ WholeFiles /\ OnDiskInv

\* It holds of an empty disk, and no step breaks it.
THEOREM PublishedInvariant == ASSUME Exclusive PROVE Spec => []PublishedInv
<1>1. Init => PublishedInv
  <2> SUFFICES ASSUME Init
               PROVE  PublishedInv
    OBVIOUS
  <2>1. SingleInv
    BY InitInv, InitSingle DEF SingleInv
  <2>2. \A w \in Writers : pc[w] \notin Running
    BY DEF Init, Running
  <2>3. DocsInv
    BY <2>2 DEF DocsInv, DocInv, Running
  <2>4. WholeFiles
    BY <2>2 DEF Init, WholeFiles, Resolves, Repairs, NoAssignment, Running
  <2>5. {e \in Experiments : OnDisk(e)} = {}
    BY DEF Init, OnDisk
  <2>6. OnDiskInv
    BY <2>5, FS_EmptySet DEF Init, OnDiskInv, NoEntries
  <2>7. QED
    BY <2>1, <2>3, <2>4, <2>6 DEF PublishedInv
<1>2. PublishedInv /\ [Next]_vars => PublishedInv'
  BY NextInv, NextAlone, NextSeen, NextAgreement, NextWhole, NextOnDisk
  DEF PublishedInv, SingleInv, IInv
<1>3. QED
  BY <1>1, <1>2, PTL DEF Spec

\* Only a command that fills registry.json, or the operator, changes a status.
LEMMA EntriesChange ==
  ASSUME [Next]_vars, entries' # entries
  PROVE  \/ \E w \in Writers : WriteRegistry(w)
         \/ \E e \in Experiments : Archive(e)
<1>1. CASE UNCHANGED vars
  BY <1>1 DEF vars, files
<1>2. ASSUME NEW e \in Experiments, Training(e) \/ MoveModel(e)
      PROVE  FALSE
  BY <1>2 DEF Training, SaveModel, OpenManifest, WriteManifest, CrashTraining,
              MoveModel, files
<1>3. ASSUME NEW w \in Writers, Command(w) \/ Crash(w)
      PROVE  FALSE
  BY <1>3 DEF Command, StartRebuild, StartPromote, PickCandidate, Crash, files
<1>4. ASSUME NEW w \in Writers, Step(w), ~WriteRegistry(w)
      PROVE  FALSE
  BY <1>4
  DEF Step, LoadTorn, RebuildLoadRegistry, PromoteLoadRegistry, LoadProduction,
      GlobManifests, ScanManifest, ScanTornManifest, OpenRegistry, OpenBest,
      WriteBest, KeepProduction, OpenProduction, WriteProduction, files
<1>5. QED
  BY <1>1, <1>2, <1>3, <1>4 DEF Next

\* What a command writes over an archived entry: it stays archived or goes,
\* unless it is promoted or production.json assigns it.
LEMMA ArchivedStays ==
  ASSUME PublishedInv, [Next]_vars, NEW e \in Experiments, entries[e] = "archived"
  PROVE  \/ entries'[e] \in {"archived", None}
         \/ /\ entries'[e] = "production"
            /\ \/ \E w \in Writers : target[w] = e
               \/ production[DatasetOf[e]] = e
<1> USE DEF PublishedInv, SingleInv, IInv
<1>1. CASE entries' = entries
  BY <1>1
<1>2. ASSUME NEW f \in Experiments, Archive(f)
      PROVE  entries'[e] = "archived"
  BY <1>2 DEF Archive, TypeOK, Documents
<1>3. ASSUME NEW w \in Writers, WriteRegistry(w)
      PROVE  \/ entries'[e] \in {"archived", None}
             \/ entries'[e] = "production" /\ target[w] = e
             \/ entries'[e] = "production" /\ production[DatasetOf[e]] = e
  <2>1. entries' = doc[w] /\ pc[w] = "write_registry"
    BY <1>3 DEF WriteRegistry, Fill, Alone, Files
  <2>2. CASE ds[w] # None
    <3>1. doc[w] = Promoted(w)
      BY <2>1, <2>2 DEF DocsInv, DocInv
    <3>2. QED
      BY <2>1, <3>1 DEF Promoted
  <2>3. CASE ds[w] = None
    <3>1. todo[w] = {}
      BY <2>1 DEF WriterInv
    <3>2. doc[w][e] \in {None, "archived", "production"}
      BY <2>1, <2>3 DEF DocsInv, DocInv
    <3>3. doc[w][e] = "production" => seen[w][DatasetOf[e]] = e
      BY <2>1, <2>3, <3>1 DEF WriterInv, RebuildInv
    <3>4. seen[w] = production
      BY <2>1 DEF SeenIsCurrent, Running
    <3>5. QED
      BY <2>1, <3>2, <3>3, <3>4
  <2>4. QED
    BY <2>2, <2>3
<1>4. QED
  BY <1>1, <1>2, <1>3, EntriesChange

\* The first of the ranking has the highest metric of those that have one.
LEMMA AheadIsHigher ==
  ASSUME NEW e \in Experiments, NEW f \in Experiments, Ahead(e, f),
         TestF1[e] # None, TestF1[f] # None
  PROVE  TestF1[f] <= TestF1[e]
BY ManifestAssumption DEF Ahead

\* Promotions keep to the order of the runs.  The ranking of promote_model is
\* always highest first, so that HigherIsBetter is needed.
THEOREM PromotionsInOrderHolds ==
  ASSUME Exclusive, HigherIsBetter
  PROVE  Spec => PromotionsInOrder
<1> DEFINE Stays == \A e \in Experiments : Exclusive /\ entries[e] = "archived" =>
                      \/ entries'[e] \in {"archived", None}
                      \/ /\ entries'[e] = "production"
                         /\ \/ \E w \in Writers : target[w] = e
                            \/ production[DatasetOf[e]] = e
           Highest == \A w \in Writers, d \in Datasets, m \in Models :
                        PickCandidate(w, d, m) =>
                          \A e \in Candidates(entries, d, m) :
                            TestF1[e] # None /\ TestF1[target'[w]] # None =>
                              IF HigherIsBetter THEN TestF1[e] <= TestF1[target'[w]]
                                                ELSE TestF1[e] >= TestF1[target'[w]]
<1>1. PublishedInv /\ [Next]_vars => Stays
  BY ArchivedStays
<1>2. PublishedInv => Highest
  <2> SUFFICES ASSUME PublishedInv, NEW w \in Writers, NEW d \in Datasets, NEW m \in Models,
                      PickCandidate(w, d, m), NEW e \in Candidates(entries, d, m),
                      TestF1[e] # None, TestF1[target'[w]] # None
               PROVE  TestF1[e] <= TestF1[target'[w]]
    OBVIOUS
  <2>1. PICK f \in FirstRanked(entries, d, m) : target' = [target EXCEPT ![w] = f]
    BY DEF PickCandidate
  <2>2. target'[w] = f
    BY <2>1 DEF PublishedInv, SingleInv, IInv, TypeOK
  <2>3. f \in Experiments /\ e \in Experiments /\ (e # f => Ahead(f, e))
    BY <2>1 DEF FirstRanked, Candidates
  <2>4. CASE e = f
    BY <2>2, <2>3, <2>4, ManifestAssumption
  <2>5. CASE e # f
    BY <2>2, <2>3, <2>5, AheadIsHigher
  <2>6. QED
    BY <2>4, <2>5
<1>3. QED
  BY <1>1, <1>2, PublishedInvariant, PTL
  DEF Spec, PromotionsInOrder, ArchivedNotRevived, DefaultPromotionIsBest

\* A rebuild that ends leaves behind it the entries it read and the best of
\* each dataset among them.
LEMMA RebuildLeaves ==
  ASSUME PublishedInv, [Next]_vars, NEW w \in Writers, RebuildEnds(w)
  PROVE  /\ UNCHANGED <<entries, best>>
         /\ best = [d \in Datasets |-> SelectBest(entries, d)]
<1> USE DEF PublishedInv, SingleInv, IInv
<1>1. /\ ds[w] = None /\ pc[w] \in {"check_production", "write_production"}
      /\ pc[w] \in Running /\ pc'[w] = "idle"
  BY DEF RebuildEnds, Rebuilding, Running
<1>2. best = [d \in Datasets |-> SelectBest(entries, d)]
  BY <1>1 DEF WholeFiles, Repairs
<1>3. CASE UNCHANGED vars
  BY <1>2, <1>3 DEF vars, files
<1>4. ASSUME NEW e \in Experiments, Training(e) \/ MoveModel(e) \/ Archive(e)
      PROVE  FALSE
  BY <1>1, <1>4 DEF Training, SaveModel, OpenManifest, WriteManifest, CrashTraining,
                    MoveModel, Archive
<1>5. ASSUME NEW u \in Writers, Command(u)
      PROVE  FALSE
  <2>1. pc[u] \in Ended /\ pc' = [pc EXCEPT ![u] = "load_registry"]
    BY <1>5 DEF Command, StartRebuild, StartPromote, PickCandidate, MayStart, Goto
  <2>2. QED
    BY <1>1, <2>1 DEF Ended, TypeOK
<1>6. ASSUME NEW u \in Writers, Crash(u)
      PROVE  FALSE
  BY <1>1, <1>6 DEF Crash, End, Goto, TypeOK
<1>7. ASSUME NEW u \in Writers, Step(u)
      PROVE  UNCHANGED <<entries, best>>
  <2>1. u = w
    BY <1>1, <1>7, OthersEnded DEF Running
  <2>2. CASE KeepProduction(w) \/ WriteProduction(w)
    BY <2>2 DEF KeepProduction, WriteProduction, files
  <2>3. CASE Step(w) /\ ~KeepProduction(w) /\ ~WriteProduction(w)
    BY <1>1, <2>3
    DEF Step, LoadTorn, RebuildLoadRegistry, PromoteLoadRegistry, LoadProduction,
        GlobManifests, ScanManifest, ScanTornManifest, OpenRegistry, WriteRegistry,
        OpenBest, WriteBest, OpenProduction, Goto, TypeOK
  <2>4. QED
    BY <1>7, <2>1, <2>2, <2>3
<1>8. QED
  BY <1>2, <1>3, <1>4, <1>5, <1>6, <1>7 DEF Next

\* With one writer at a time, the published best runs resolve at rest unless a
\* command died half way since the last rebuild, and when a rebuild ends no
\* live entry with a metric beats the best one of its dataset, whatever
\* happened to the files before.
THEOREM BestPublishedHolds == ASSUME Exclusive PROVE Spec => BestPublished
<1> DEFINE Publishes == \A w \in Writers : Exclusive /\ RebuildEnds(w) =>
              \A e \in Experiments :
                /\ entries'[e] \in {"candidate", "production"}
                /\ TestF1[e] # None
                => /\ best'[DatasetOf[e]] # None
                   /\ entries'[best'[DatasetOf[e]]] # "archived"
                   /\ ~ (IF HigherIsBetter
                         THEN TestF1[e] > TestF1[best'[DatasetOf[e]]]
                         ELSE TestF1[e] < TestF1[best'[DatasetOf[e]]])
<1>1. PublishedInv => BestResolvable
  <2> SUFFICES ASSUME PublishedInv, Settled
               PROVE  (\A f \in Files : file[f] # "torn") /\ Resolves
    BY DEF BestResolvable, Resolves
  <2>1. \A w \in Writers : pc[w] \notin Running
    BY DEF Settled, AtRest, Ended, Running
  <2>2. QED
    BY <2>1, WritingRuns DEF PublishedInv, WholeFiles, BestPending, Settled, Running
<1>2. PublishedInv /\ [Next]_vars => Publishes
  <2> SUFFICES ASSUME PublishedInv, [Next]_vars, NEW w \in Writers, RebuildEnds(w),
                      NEW e \in Experiments,
                      entries'[e] \in {"candidate", "production"}, TestF1[e] # None
               PROVE  /\ best'[DatasetOf[e]] # None
                      /\ entries'[best'[DatasetOf[e]]] # "archived"
                      /\ ~ (IF HigherIsBetter
                            THEN TestF1[e] > TestF1[best'[DatasetOf[e]]]
                            ELSE TestF1[e] < TestF1[best'[DatasetOf[e]]])
    OBVIOUS
  <2> DEFINE d == DatasetOf[e]
             s == SelectBest(entries, d)
  <2>1. d \in Datasets
    BY ManifestAssumption
  <2>2. UNCHANGED <<entries, best>> /\ best'[d] = s
    BY <2>1, RebuildLeaves
  <2>3. e \in Comparable(entries, d)
    BY <2>2, NoneAssumption DEF Comparable
  <2> HIDE DEF d
  <2>4. s \in Comparable(entries, d) /\ (e # s => Beats(s, e))
    BY <2>1, <2>3, PublishedBest DEF PublishedInv, SingleInv
  <2> HIDE DEF s
  <2>5. /\ s \in Experiments /\ s # None /\ TestF1[s] # None
        /\ entries'[s] # "archived"
    BY <2>2, <2>4, NoneAssumption DEF Comparable
  <2>6. TestF1[s] \in Nat /\ TestF1[e] \in Nat
    BY <2>5, ManifestAssumption
  <2>7. ~ (IF HigherIsBetter THEN TestF1[e] > TestF1[s] ELSE TestF1[e] < TestF1[s])
    BY <2>4, <2>6, PolicyAssumption DEF Beats
  <2>8. QED
    BY <2>2, <2>5, <2>7 DEF d
<1>3. QED
  BY <1>1, <1>2, PublishedInvariant, PTL
  DEF Spec, BestPublished, RebuildPublishesBest

-----------------------------------------------------------------------------
(* The service.  Its inductive invariant. *)

\* production.json holds the assignment that came last.
Latest ==
  \A d \in Datasets :
    /\ mark[d] <= Len(history[d])
    /\ IF history[d] = << >> THEN production[d] = None
       ELSE history[d][Len(history[d])] = production[d]

\* e was assigned to d when the server started or later.
AssignedSince(d, e) ==
  \E i \in 1..Len(history[d]) : i >= mark[d] /\ history[d][i] = e

Loading == {"load_model", "load_transforms"}

\* A request is for a dataset whose bundle is not cached; it holds an
\* experiment when it loads one, and that one was assigned and registered.
RequestInv ==
  /\ serverPc # "ready" => dataset \in Datasets /\ bundles[dataset] = None
  /\ serverPc \in Loading <=> resolved # None
  /\ resolved # None =>
       /\ view[resolved] # None /\ DatasetOf[resolved] = dataset
       /\ Stage = "production" => AssignedSince(dataset, resolved)

SInv ==
  /\ IInv /\ ServiceTypeOK
  /\ Fits(best) /\ Fits(bundles)
  /\ Latest /\ RequestInv
  /\ ~CacheEnabled => bundles = NoAssignment

-----------------------------------------------------------------------------
(* The registry under the server. *)

\* The best experiment of a dataset is one of the dataset.
LEMMA SelectBestFits ==
  ASSUME NEW document, NEW d \in Datasets, SelectBest(document, d) # None
  PROVE  DatasetOf[SelectBest(document, d)] = d
<1>1. Unbeaten(document, d) # {}
  BY DEF SelectBest
<1>2. SelectBest(document, d) \in Unbeaten(document, d)
  BY <1>1 DEF SelectBest
<1>3. QED
  BY <1>2 DEF Unbeaten, Comparable

\* So best_per_dataset.json assigns a dataset one of its own experiments.
LEMMA BestStep ==
  ASSUME TypeOK, Fits(best), Next
  PROVE  Fits(best)'
<1>1. ASSUME NEW w \in Writers, Command(w) \/ Crash(w)
      PROVE  best' = best
  BY <1>1 DEF Command, StartRebuild, StartPromote, PickCandidate, Crash, files
<1>2. ASSUME NEW w \in Writers, Step(w), ~WriteBest(w)
      PROVE  best' = best
  BY <1>2 DEF Step, LoadTorn, RebuildLoadRegistry, PromoteLoadRegistry, LoadProduction,
         GlobManifests, ScanManifest, ScanTornManifest, OpenRegistry, WriteRegistry,
         OpenBest, KeepProduction, OpenProduction, WriteProduction, files
<1>3. ASSUME NEW w \in Writers, WriteBest(w)
      PROVE  Fits(best)'
  <2>1. \/ best' = best
        \/ best' = [d \in Datasets |-> SelectBest(doc[w], d)]
    BY <1>3 DEF WriteBest
  <2>2. QED
    BY <2>1, SelectBestFits DEF Fits
<1>4. ASSUME NEW e \in Experiments, Training(e) \/ MoveModel(e) \/ Archive(e)
      PROVE  best' = best
  BY <1>4 DEF Training, SaveModel, OpenManifest, WriteManifest, CrashTraining,
         MoveModel, Archive, files
<1>5. best' = best => Fits(best)'
  BY DEF Fits
<1>6. QED
  BY <1>1, <1>2, <1>3, <1>4, <1>5 DEF Next

-----------------------------------------------------------------------------
(* Initial states and steps. *)

LEMMA InitSInv == ServiceInit => SInv
<1> SUFFICES ASSUME ServiceInit
             PROVE  SInv
  OBVIOUS
<1>1. IInv /\ TypeOK
  BY InitInv DEF ServiceInit, IInv
<1>2. ServiceTypeOK
  <2>1. << >> \in Seq(Experiments \cup {None})
    OBVIOUS
  <2>2. QED
    BY <1>1, <2>1, ServiceBoundsAssumption
    DEF ServiceInit, ServiceTypeOK, NoEntries, NoAssignment, Documents, Assignments
<1>3. Fits(best) /\ Fits(bundles)
  BY DEF ServiceInit, Init, NoAssignment, Fits
<1>4. Latest
  BY DEF ServiceInit, Init, NoAssignment, Latest
<1>5. RequestInv
  BY DEF ServiceInit, RequestInv, Loading
<1>6. QED
  BY <1>1, <1>2, <1>3, <1>4, <1>5 DEF SInv, ServiceInit

\* A step that leaves the registry and the past alone has only the request, the
\* cache and the types to answer for.
LEMMA ServerStep ==
  ASSUME SInv, UNCHANGED <<vars, history, mark>>,
         ServiceTypeOK', Fits(bundles)', RequestInv',
         (~CacheEnabled => bundles = NoAssignment)'
  PROVE  SInv'
<1>1. IInv'
  BY NextInv DEF SInv
<1>2. Fits(best)' /\ Latest'
  BY DEF SInv, Fits, Latest, vars, files
<1>3. QED
  BY <1>1, <1>2 DEF SInv

\* No request in hand: there is nothing to know of it.
LEMMA ReadyStep ==
  ASSUME NoRequest
  PROVE  RequestInv'
BY DEF NoRequest, RequestInv, Loading

LEMMA PredictInv ==
  ASSUME SInv, NEW d \in Datasets, Predict(d)
  PROVE  SInv'
<1> USE DEF SInv
<1>1. UNCHANGED <<vars, transforms, cache, restarts, history, mark>>
  BY DEF Predict
<1>2. TypeOK'
  BY <1>1, NextType DEF ServiceTypeOK
<1>3. ServiceTypeOK'
  BY <1>1, <1>2 DEF Predict, ServiceTypeOK, request, transforms, cache
<1>4. RequestInv'
  <2>1. CASE CacheEnabled /\ bundles[d] # None
    BY <1>1, <2>1 DEF Predict, RequestInv, AssignedSince, request, cache
  <2>2. CASE ~(CacheEnabled /\ bundles[d] # None)
    <3>1. serverPc' = "read_registry" /\ dataset' = d /\ resolved' = resolved /\ resolved = None
      BY <2>2 DEF Predict, RequestInv, Loading
    <3>2. bundles'[d] = None
      BY <1>1, <2>2 DEF cache, NoAssignment
    <3>3. QED
      BY <3>1, <3>2 DEF RequestInv, Loading
  <2>3. QED
    BY <2>1, <2>2
<1>5. Fits(bundles)' /\ (~CacheEnabled => bundles = NoAssignment)'
  BY <1>1 DEF cache, Fits
<1>6. QED
  BY <1>1, <1>3, <1>4, <1>5, ServerStep

\* The steps of a request up to its answer.
LEMMA HandleInv ==
  ASSUME SInv, Handle
  PROVE  SInv'
<1> USE DEF SInv
<1>1. UNCHANGED <<vars, transforms, restarts, history, mark>>
  BY DEF Handle, ReadRegistry, ReadStage, LoadModel, LoadTransforms, Fail, Refuse
<1>2. TypeOK'
  BY <1>1, NextType DEF ServiceTypeOK
<1>3. CASE ReadRegistry
  <2>1. ServiceTypeOK'
    BY <1>1, <1>2, <1>3 DEF ReadRegistry, ServiceTypeOK, TypeOK, transforms, cache
  <2>2. RequestInv' /\ UNCHANGED cache
    BY <1>1, <1>3 DEF ReadRegistry, RequestInv, Loading, cache
  <2>3. QED
    BY <1>1, <2>1, <2>2, ServerStep DEF cache, Fits
<1>4. CASE ReadStage
  <2>1. dataset \in Datasets /\ bundles[dataset] = None
    BY <1>4 DEF ReadStage, RequestInv
  <2>2. /\ Assigned \in Experiments /\ resolved' = Assigned
        /\ DatasetOf[Assigned] = dataset
    BY <1>4, <2>1 DEF ReadStage, Assigned, ServiceTypeOK, TypeOK, Assignments,
                      IInv, FilesInv, Fits
  <2>3. ServiceTypeOK'
    BY <1>1, <1>2, <1>4, <2>2 DEF ReadStage, ServiceTypeOK, transforms, cache
  <2>4. Stage = "production" => AssignedSince(dataset, Assigned)
    <3> SUFFICES ASSUME Stage = "production"
                 PROVE  AssignedSince(dataset, Assigned)
      OBVIOUS
    <3>1. Assigned = production[dataset] /\ Assigned # None
      BY <1>4 DEF ReadStage, Assigned
    <3>2. history[dataset] \in Seq(Experiments \cup {None})
      BY <2>1 DEF ServiceTypeOK
    <3>3. /\ history[dataset] # << >> /\ mark[dataset] <= Len(history[dataset])
          /\ history[dataset][Len(history[dataset])] = Assigned
      BY <2>1, <3>1 DEF Latest
    <3>4. Len(history[dataset]) \in 1..Len(history[dataset])
      BY <3>2, <3>3
    <3>5. QED
      BY <3>3, <3>4 DEF AssignedSince
  <2>5. UNCHANGED <<dataset, view, cache>> /\ view[Assigned] # None /\ serverPc' = "load_model"
    BY <1>4 DEF ReadStage
  <2>6. RequestInv'
    <3>1. resolved' # None
      BY <2>2, NoneAssumption
    <3>2. Stage = "production" => AssignedSince(dataset, resolved)'
      BY <1>1, <2>2, <2>4, <2>5 DEF AssignedSince
    <3>3. QED
      BY <1>1, <2>1, <2>2, <2>5, <3>1, <3>2 DEF RequestInv, Loading, cache
  <2>7. QED
    BY <1>1, <2>3, <2>5, <2>6, ServerStep DEF cache, Fits
<1>5. CASE LoadModel
  <2>1. ServiceTypeOK'
    BY <1>1, <1>2, <1>5 DEF LoadModel, ServiceTypeOK, transforms, cache
  <2>2. RequestInv' /\ UNCHANGED cache
    BY <1>1, <1>5 DEF LoadModel, RequestInv, Loading, AssignedSince, cache
  <2>3. QED
    BY <1>1, <2>1, <2>2, ServerStep DEF cache, Fits
<1>6. CASE LoadTransforms
  <2>1. dataset \in Datasets /\ resolved \in Experiments /\ DatasetOf[resolved] = dataset
    BY <1>6 DEF LoadTransforms, RequestInv, Loading, ServiceTypeOK
  <2>2. NoRequest /\ answer' = "served"
    BY <1>6 DEF LoadTransforms
  <2>3. \/ /\ CacheEnabled
           /\ bundles' = [bundles EXCEPT ![dataset] = resolved]
           /\ using' = [using EXCEPT ![dataset] = fitted[dataset]]
        \/ UNCHANGED cache
    BY <1>6 DEF LoadTransforms
  <2>4. ServiceTypeOK'
    <3>1. fitted[dataset] \in Nat /\ using \in [Datasets -> Nat] /\ bundles \in Assignments
      BY <2>1, ServiceBoundsAssumption DEF ServiceTypeOK
    <3>2. bundles' \in Assignments /\ using' \in [Datasets -> Nat]
      BY <2>1, <2>3, <3>1 DEF Assignments, cache
    <3>3. QED
      BY <1>1, <1>2, <2>2, <3>2 DEF NoRequest, ServiceTypeOK, Documents, NoEntries, transforms
  <2>5. Fits(bundles)' /\ (~CacheEnabled => bundles = NoAssignment)'
    <3>1. bundles \in [Datasets -> Experiments \cup {None}] /\ Fits(bundles)
      BY DEF ServiceTypeOK, Assignments
    <3>2. CASE UNCHANGED cache
      BY <3>1, <3>2 DEF Fits, cache
    <3>3. CASE CacheEnabled /\ bundles' = [bundles EXCEPT ![dataset] = resolved]
      <4>1. CacheEnabled'
        BY <3>3
      <4>2. Fits(bundles)'
        BY <2>1, <3>1, <3>3 DEF Fits
      <4>3. QED
        BY <4>1, <4>2
    <3>4. QED
      BY <2>3, <3>2, <3>3
  <2>6. QED
    BY <1>1, <2>2, <2>4, <2>5, ReadyStep, ServerStep
<1>7. CASE Fail
  <2>1. NoRequest /\ UNCHANGED cache /\ answer' \in {"not_available", "internal_error"}
    BY <1>7 DEF Fail, Refuse
  <2>2. ServiceTypeOK'
    BY <1>1, <1>2, <2>1 DEF NoRequest, ServiceTypeOK, Documents, NoEntries, transforms, cache
  <2>3. QED
    BY <1>1, <2>1, <2>2, ReadyStep, ServerStep DEF cache, Fits
<1>8. QED
  BY <1>3, <1>4, <1>5, <1>6, <1>7 DEF Handle

\* A restart forgets the request and the cache and starts from today's
\* assignments.
LEMMA RestartInv ==
  ASSUME SInv, RestartServer
  PROVE  SInv'
<1> USE DEF SInv
<1>1. UNCHANGED <<vars, transforms, answer, history>> /\ NoRequest
  BY DEF RestartServer
<1>2. TypeOK' /\ IInv'
  BY <1>1, NextType, NextInv DEF ServiceTypeOK
<1>3. \A d \in Datasets : Len(history[d]) \in Nat
  BY DEF ServiceTypeOK
<1>4. ServiceTypeOK'
  BY <1>1, <1>2, <1>3, ServiceBoundsAssumption
  DEF RestartServer, NoRequest, ServiceTypeOK, NoEntries, NoAssignment, Documents, Assignments, transforms
<1>5. Latest'
  BY <1>1, <1>3 DEF RestartServer, Latest, vars, files
<1>6. Fits(best)' /\ Fits(bundles)' /\ (~CacheEnabled => bundles = NoAssignment)'
  BY <1>1 DEF RestartServer, Fits, NoAssignment, vars, files
<1>7. QED
  BY <1>1, <1>2, <1>4, <1>5, <1>6, ReadyStep

\* The transforms of a dataset are fitted or moved away.
LEMMA TransformsInv ==
  ASSUME SInv, NEW d \in Datasets, Refit(d) \/ RemoveTransforms(d)
  PROVE  SInv'
<1> USE DEF SInv
<1>1. /\ UNCHANGED <<disk, files, pc, memory, interrupted, crashes, server, history>>
      /\ edits' = edits \/ (edits < MaxEdits /\ edits' = edits + 1)
  BY DEF Refit, RemoveTransforms, vars, bounds
<1>2. TypeOK'
  BY <1>1, BoundsAssumption DEF ServiceTypeOK, TypeOK, disk, files, memory
<1>3. IInv'
  <2>1. FilesInv'
    BY <1>1 DEF IInv, FilesInv, Fits, OneProduction, files
  <2>2. ASSUME NEW u \in Writers
        PROVE  WriterInv(u)'
    BY <1>1, OthersInv DEF IInv, memory
  <2>3. QED
    BY <1>2, <2>1, <2>2 DEF IInv
<1>4. fitted' \in [Datasets -> 0..MaxFits] /\ fits' \in [Datasets -> 0..MaxFits]
  <2>1. CASE Refit(d)
    <3>1. fits[d] + 1 \in 0..MaxFits
      BY <2>1, ServiceBoundsAssumption DEF Refit, ServiceTypeOK
    <3>2. QED
      BY <2>1, <3>1 DEF Refit, ServiceTypeOK
  <2>2. CASE RemoveTransforms(d)
    BY <2>2, ServiceBoundsAssumption DEF RemoveTransforms, ServiceTypeOK
  <2>3. QED
    BY <2>1, <2>2
<1>5. ServiceTypeOK'
  <2>1. UNCHANGED <<recorded, scanned>>
    BY DEF Refit, RemoveTransforms
  <2>2. QED
    BY <1>1, <1>2, <1>4, <2>1 DEF ServiceTypeOK, server, request, cache
<1>6. Fits(best)' /\ Fits(bundles)' /\ Latest' /\ RequestInv'
  BY <1>1 DEF Fits, Latest, RequestInv, AssignedSince, files, server, request, cache
<1>7. QED
  BY <1>1, <1>3, <1>5, <1>6 DEF server, cache

\* A history with one more assignment.
LEMMA LongerHistory ==
  ASSUME NEW S, NEW h \in Seq(S), NEW v \in S, NEW t, t = Append(h, v)
  PROVE  /\ t \in Seq(S) /\ t # << >> /\ Len(t) >= Len(h) /\ t[Len(t)] = v
         /\ \A i \in 1..Len(h) : i \in 1..Len(t) /\ t[i] = h[i]
<1>1. /\ t \in Seq(S) /\ t # << >> /\ Len(t) = Len(h) + 1 /\ t[Len(h) + 1] = v
      /\ \A i \in 1..Len(h) : t[i] = h[i]
  BY AppendProperties
<1>2. Len(h) \in Nat
  OBVIOUS
<1>3. QED
  BY <1>1, <1>2

\* Each document names the directories of experiments only.
LEMMA DirectoriesType ==
  ASSUME ServiceTypeOK, RecordDirectories
  PROVE  recorded' \subseteq Experiments /\ scanned' \in [Writers -> SUBSET Experiments]
<1>1. /\ recorded \subseteq Experiments /\ scanned \in [Writers -> SUBSET Experiments]
      /\ todo \in [Writers -> SUBSET Experiments]
  BY DEF ServiceTypeOK, TypeOK
<1>2. ASSUME NEW w \in Writers
      PROVE  ScanDirectories(w) \subseteq Experiments
  BY <1>1 DEF ScanDirectories
<1>3. scanned' \in [Writers -> SUBSET Experiments]
  BY <1>2 DEF RecordDirectories
<1>4. UNION {scanned[w] : w \in {v \in Writers : WritesRegistry(v)}} \subseteq Experiments
  BY <1>1
<1>5. recorded' \subseteq Experiments
  BY <1>1, <1>4 DEF RecordDirectories
<1>6. QED
  BY <1>3, <1>5

\* The registry moves: what was assigned stays in the past of the dataset.
LEMMA RegistryInv ==
  ASSUME SInv, RegistryStep
  PROVE  SInv'
<1> USE DEF SInv
<1>1. Next /\ UNCHANGED <<server, fitted, fits>>
  BY DEF RegistryStep
<1>2. TypeOK' /\ IInv'
  BY <1>1, NextType, NextInv DEF ServiceTypeOK
<1>3. /\ production' \in Assignments /\ production \in Assignments
      /\ history \in [Datasets -> Seq(Experiments \cup {None})]
  BY <1>2 DEF TypeOK, ServiceTypeOK
<1>4. history' = [d \in Datasets |-> IF production'[d] = production[d] THEN history[d]
                                    ELSE Append(history[d], production'[d])]
  BY DEF RegistryStep
<1>5. ASSUME NEW d \in Datasets
      PROVE  /\ history'[d] \in Seq(Experiments \cup {None})
             /\ Len(history'[d]) >= Len(history[d])
             /\ \A i \in 1..Len(history[d]) : i \in 1..Len(history'[d]) /\ history'[d][i] = history[d][i]
             /\ IF history'[d] = << >> THEN production'[d] = None
                ELSE history'[d][Len(history'[d])] = production'[d]
  <2>1. /\ history[d] \in Seq(Experiments \cup {None}) /\ production'[d] \in Experiments \cup {None}
        /\ IF history[d] = << >> THEN production[d] = None
           ELSE history[d][Len(history[d])] = production[d]
    BY <1>3 DEF Assignments, Latest
  <2>2. CASE production'[d] = production[d]
    <3>1. history'[d] = history[d]
      BY <1>4, <2>2
    <3>2. QED
      BY <2>1, <2>2, <3>1
  <2>3. CASE production'[d] # production[d]
    <3>1. history'[d] = Append(history[d], production'[d])
      BY <1>4, <2>3
    <3>2. /\ history'[d] \in Seq(Experiments \cup {None}) /\ history'[d] # << >>
          /\ Len(history'[d]) >= Len(history[d]) /\ history'[d][Len(history'[d])] = production'[d]
          /\ \A i \in 1..Len(history[d]) : i \in 1..Len(history'[d]) /\ history'[d][i] = history[d][i]
      <4> PICK h : h = history[d]
        OBVIOUS
      <4> PICK v : v = production'[d]
        OBVIOUS
      <4> PICK t : t = history'[d]
        OBVIOUS
      <4>1. h \in Seq(Experiments \cup {None}) /\ v \in Experiments \cup {None} /\ t = Append(h, v)
        BY <2>1, <3>1
      <4>2. /\ t \in Seq(Experiments \cup {None}) /\ t # << >> /\ Len(t) >= Len(h) /\ t[Len(t)] = v
            /\ \A i \in 1..Len(h) : i \in 1..Len(t) /\ t[i] = h[i]
        BY <4>1, LongerHistory
      <4>3. QED
        BY <4>2
    <3>3. QED
      BY <3>2
  <2>4. QED
    BY <2>2, <2>3
<1>6. history' \in [Datasets -> Seq(Experiments \cup {None})]
  BY <1>4, <1>5
<1>7. ServiceTypeOK'
  <2>1. recorded' \subseteq Experiments /\ scanned' \in [Writers -> SUBSET Experiments]
    BY DirectoriesType DEF RegistryStep
  <2>2. QED
    BY <1>1, <1>2, <1>6, <2>1 DEF ServiceTypeOK, server, request, cache
<1>8. Latest'
  <2>1. ASSUME NEW d \in Datasets
        PROVE  mark'[d] <= Len(history'[d])
    <3>1. mark'[d] = mark[d] /\ mark[d] \in Nat /\ mark[d] <= Len(history[d])
      BY <1>1 DEF server, Latest, ServiceTypeOK
    <3>2. Len(history[d]) \in Nat /\ Len(history'[d]) \in Nat
      BY <1>3, <1>5
    <3>3. QED
      BY <1>5, <3>1, <3>2
  <2>2. QED
    BY <1>5, <2>1 DEF Latest
<1>9. RequestInv'
  <2>1. UNCHANGED <<serverPc, dataset, view, resolved, bundles, mark>>
    BY <1>1 DEF server, request, cache
  <2>2. ASSUME resolved # None, Stage = "production"
        PROVE  AssignedSince(dataset, resolved)'
    <3>1. dataset \in Datasets /\ AssignedSince(dataset, resolved)
      BY <2>2 DEF RequestInv, Loading
    <3>2. QED
      BY <1>5, <2>1, <3>1 DEF AssignedSince
  <2>3. QED
    BY <2>1, <2>2 DEF RequestInv
<1>10. Fits(best)' /\ Fits(bundles)' /\ (~CacheEnabled => bundles = NoAssignment)'
  BY <1>1, BestStep DEF ServiceTypeOK, server, cache, Fits
<1>11. QED
  BY <1>2, <1>7, <1>8, <1>9, <1>10

LEMMA StutterInv ==
  ASSUME SInv, UNCHANGED serviceVars
  PROVE  SInv'
<1> USE DEF SInv
<1>1. UNCHANGED <<vars, transforms, request, cache, answer, restarts, history, mark>>
  BY DEF serviceVars, server
<1>2. TypeOK'
  BY <1>1, NextType DEF ServiceTypeOK
<1>3. ServiceTypeOK'
  BY <1>1, <1>2 DEF ServiceTypeOK, transforms, request, cache
<1>4. RequestInv' /\ Fits(bundles)' /\ (~CacheEnabled => bundles = NoAssignment)'
  BY <1>1 DEF RequestInv, AssignedSince, Fits, request, cache
<1>5. QED
  BY <1>1, <1>3, <1>4, ServerStep

LEMMA NextSInv == SInv /\ [ServiceNext]_serviceVars => SInv'
BY PredictInv, HandleInv, RestartInv, TransformsInv, RegistryInv, StutterInv DEF ServiceNext

-----------------------------------------------------------------------------
(* What the server keeps. *)

\* Every reachable state of every instance is well typed, and whatever stage
\* is served and whatever changes between the two reads, a request resolves to
\* an experiment of its dataset that the registry it read knows.
THEOREM ServiceSoundHolds == ServiceSpec => []ServiceSound
<1>1. SInv => ServiceSound
  <2>1. ASSUME SInv, resolved # None
        PROVE  view[resolved] # None /\ DatasetOf[resolved] = dataset
    BY <2>1 DEF SInv, RequestInv
  <2>2. QED
    BY <2>1 DEF SInv, ServiceSound, ResolvedIsRegistered, Fits
<1>2. QED
  BY <1>1, InitSInv, NextSInv, PTL DEF ServiceSpec

-----------------------------------------------------------------------------
(* The refinement. *)

LEMMA ServingInit == ServiceInit => Serving!Init
BY DEF ServiceInit, Serving!Init, NoAssignment

\* A registry step is an assignment, the end of a load a load, a restart a
\* restart, and every other step a stutter.
LEMMA ServingStep ==
  ASSUME Stage = "production", SInv, [ServiceNext]_serviceVars
  PROVE  [Serving!Next]_Serving!vars
<1>1. CASE RegistryStep
  <2>1. UNCHANGED <<mark, bundles>>
    BY <1>1 DEF RegistryStep, server, cache
  <2>2. history' \in [Datasets -> Seq(Experiments \cup {None})] /\ production' \in Assignments
    BY <1>1, RegistryInv DEF SInv, ServiceTypeOK, TypeOK
  <2>3. \A d \in Datasets : \/ history'[d] = history[d]
                            \/ history'[d] = Append(history[d], production'[d])
    BY <1>1 DEF RegistryStep
  <2>4. \A d \in Datasets : \/ history'[d] = history[d]
                            \/ \E e \in Experiments \cup {None} : history'[d] = Append(history[d], e)
    BY <2>2, <2>3 DEF Assignments
  <2>5. Serving!Assign
    BY <2>1, <2>2, <2>4 DEF Serving!Assign
  <2>6. QED
    BY <2>5 DEF Serving!Next
<1>2. CASE LoadTransforms
  <2>1. CASE ~CacheEnabled
    BY <1>2, <2>1 DEF LoadTransforms, cache, Serving!vars
  <2>2. CASE CacheEnabled
    <3>1. /\ dataset \in Datasets /\ resolved \in Experiments /\ bundles[dataset] = None
          /\ AssignedSince(dataset, resolved)
      BY <1>2 DEF LoadTransforms, SInv, RequestInv, Loading, ServiceTypeOK
    <3>2. /\ bundles' = [bundles EXCEPT ![dataset] = resolved]
          /\ UNCHANGED <<history, mark>>
      BY <1>2, <2>2 DEF LoadTransforms
    <3>3. DOMAIN history[dataset] = 1..Len(history[dataset])
      BY <3>1 DEF SInv, ServiceTypeOK
    <3>4. Serving!Load(dataset, resolved)
      BY <3>1, <3>2, <3>3 DEF Serving!Load, AssignedSince
    <3>5. QED
      BY <3>1, <3>4 DEF Serving!Next
  <2>3. QED
    BY <2>1, <2>2
<1>3. CASE RestartServer
  <2>1. Serving!Restart
    BY <1>3 DEF RestartServer, Serving!Restart, NoAssignment
  <2>2. QED
    BY <2>1 DEF Serving!Next
<1>4. CASE \E d \in Datasets : Predict(d) \/ Refit(d) \/ RemoveTransforms(d)
  BY <1>4 DEF Predict, Refit, RemoveTransforms, server, cache, Serving!vars
<1>5. CASE ReadRegistry \/ ReadStage \/ LoadModel \/ Fail
  BY <1>5 DEF ReadRegistry, ReadStage, LoadModel, Fail, Refuse, cache, Serving!vars
<1>6. CASE UNCHANGED serviceVars
  BY <1>6 DEF serviceVars, server, cache, Serving!vars
<1>7. QED
  BY <1>1, <1>2, <1>3, <1>4, <1>5, <1>6 DEF ServiceNext, Handle

\* Behind /predict stands a model that was assigned when the server started or
\* later, and it changes with a restart only: a server of the stage
\* "production" implements ModelServing, however its requests, the registry's
\* writers, the operators and the crashes interleave.
THEOREM ServiceImplementsServing ==
  ASSUME Stage = "production"
  PROVE  ServiceSpec => ImplementsServing
<1>1. ServiceInit => SInv /\ Serving!Init
  BY InitSInv, ServingInit
<1>2. SInv /\ [ServiceNext]_serviceVars => SInv' /\ [Serving!Next]_Serving!vars
  BY NextSInv, ServingStep
<1>3. QED
  BY <1>1, <1>2, PTL DEF ServiceSpec, ImplementsServing, Serving!Spec
=============================================================================
