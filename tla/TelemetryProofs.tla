----------------------------- MODULE TelemetryProofs -----------------------------
(***************************************************************************)
(* Proofs about TelemetryPipeline for every set of datasets, exports and   *)
(* aliases, any number of scripts and any kills between or in their files: *)
(*  - an experiment that has its manifest is never written to again;       *)
(*  - what lies on the disk can be believed (ArtefactsSound);              *)
(*  - what the scripts compute can be believed as far as RowsSound says;   *)
(*  - where it ends: WindowsMisplaced.                                      *)
(* The first needs the experiments and the script that runs (XInv), the    *)
(* others also what every file holds (SInv), and before that what sorting, *)
(* choosing, filling, clipping and splitting make of any telemetry.        *)
(***************************************************************************)
EXTENDS TelemetryPipeline, FiniteSetTheorems, FunctionTheorems, NaturalsInduction, WellFoundedInduction, TLAPS

\* The files of an experiment that a training writes, the manifest last.
Parts == {"model", "metrics", "manifest"}

\* The experiments are a sequence of records with a place for the manifest.
Store ==
  /\ \E S : experiments \in Seq(S)
  /\ \A i \in DOMAIN experiments : "manifest" \in DOMAIN experiments[i]

\* A script that runs is a record with a name and a stage.
JobShape == job # None => {"script", "stage"} \subseteq DOMAIN job

\* The training that writes its files writes into the last directory, and that
\* one has no manifest yet.
Open ==
  job # None /\ job.script = "train" /\ job.stage \in Parts =>
    Len(experiments) > 0 /\ experiments[Len(experiments)].manifest = None

XInv == Store /\ JobShape /\ Open

\* What a step may do to the experiments.
Kept ==
  \A i \in DOMAIN experiments :
    experiments[i].manifest # None => i \in DOMAIN experiments' /\ experiments'[i] = experiments[i]

LEMMA InitXInv == TelemetryInit => XInv
<1> SUFFICES ASSUME TelemetryInit PROVE XInv
  OBVIOUS
<1>1. experiments = <<>> /\ job = None
  BY DEF TelemetryInit
<1>2. Store
  <2>1. experiments \in Seq({})
    BY <1>1
  <2>2. DOMAIN experiments = {}
    BY <1>1
  <2>3. QED
    BY <2>1, <2>2 DEF Store
<1>3. QED
  BY <1>1, <1>2 DEF XInv, JobShape, Open

\* A step that leaves the experiments alone, and does not enter the stages of
\* their files.
LEMMA QuietStep ==
  ASSUME XInv, experiments' = experiments,
         \/ job' = None
         \/ /\ {"script", "stage"} \subseteq DOMAIN job'
            /\ job'.script = "train" => job'.stage \notin Parts
         \/ job' = job
  PROVE  XInv' /\ Kept
<1>1. Store' /\ Kept
  BY DEF XInv, Store, Kept
<1>2. JobShape' /\ Open'
  BY DEF XInv, JobShape, Open
<1>3. QED
  BY <1>1, <1>2 DEF XInv

\* A file of the experiment of the training that runs is written, or cut off.
LEMMA WriteStep ==
  ASSUME XInv, NEW part \in Parts, At("train", part), NEW content,
         experiments' = [experiments EXCEPT ![Len(experiments)] = [@ EXCEPT ![part] = content]]
  PROVE  Store' /\ Kept /\ Len(experiments') = Len(experiments)
         /\ (part # "manifest" => experiments'[Len(experiments)].manifest = None)
<1> DEFINE n == Len(experiments)
           new == [experiments[n] EXCEPT ![part] = content]
<1>1. PICK S : experiments \in Seq(S)
  BY DEF XInv, Store
<1>2. n \in 1..Len(experiments) /\ experiments[n].manifest = None /\ n \in DOMAIN experiments
  BY <1>1 DEF XInv, Open, At
<1>3. experiments' = [experiments EXCEPT ![n] = new]
  OBVIOUS
<1>4. /\ DOMAIN new = DOMAIN experiments[n]
      /\ part # "manifest" => new.manifest = experiments[n].manifest
  BY <1>2 DEF XInv, Store
<1> HIDE DEF new
<1>5. /\ experiments' \in Seq(S \cup {new}) /\ Len(experiments') = n
      /\ DOMAIN experiments' = DOMAIN experiments
      /\ experiments'[n] = new
      /\ \A i \in DOMAIN experiments : i # n => experiments'[i] = experiments[i]
  BY <1>1, <1>2, <1>3
<1>6. Store'
  BY <1>4, <1>5 DEF XInv, Store
<1>7. Kept
  BY <1>2, <1>5 DEF Kept
<1>8. QED
  BY <1>2, <1>4, <1>5, <1>6, <1>7

\* A new directory is the last one and empty.
LEMMA CreateStep ==
  ASSUME XInv, CreateExperiment
  PROVE  XInv' /\ Kept
<1> DEFINE n == Len(experiments)
           new == Fresh(job.dataset, second', Suffix(job.dataset, second'))
<1>1. PICK S : experiments \in Seq(S)
  BY DEF XInv, Store
<1>2. experiments' = Append(experiments, new)
  BY DEF CreateExperiment
<1>3. "manifest" \in DOMAIN new /\ new.manifest = None
  BY DEF Fresh
<1> HIDE DEF new
<1>4. /\ experiments' \in Seq(S \cup {new}) /\ Len(experiments') = n + 1
      /\ DOMAIN experiments' = DOMAIN experiments \cup {n + 1}
      /\ experiments'[n + 1] = new
      /\ \A i \in DOMAIN experiments : experiments'[i] = experiments[i]
  BY <1>1, <1>2
<1>5. Store'
  BY <1>3, <1>4 DEF XInv, Store
<1>6. Kept
  BY <1>4 DEF Kept
<1>7. JobShape'
  BY DEF CreateExperiment, At, Continue, XInv, JobShape
<1>8. Open'
  BY <1>1, <1>3, <1>4 DEF Open
<1>9. QED
  BY <1>5, <1>6, <1>7, <1>8 DEF XInv

\* The files of an experiment are written in their order.
LEMMA WriteExperimentStep ==
  ASSUME XInv, NEW part \in Parts, WriteExperiment(part)
  PROVE  XInv' /\ Kept
<1>1. At("train", part)
  BY DEF WriteExperiment, Running
<1>2. experiments' = [experiments EXCEPT ![Len(experiments)] = [@ EXCEPT ![part] = Contents(part)]]
  BY DEF WriteExperiment
<1>3. /\ Store' /\ Kept /\ Len(experiments') = Len(experiments)
      /\ part # "manifest" => experiments'[Len(experiments)].manifest = None
  BY <1>1, <1>2, WriteStep
<1>4. Len(experiments) > 0
  BY <1>1 DEF XInv, Open, At
<1>5. job # None /\ {"script", "stage"} \subseteq DOMAIN job /\ job.script = "train"
  BY <1>1 DEF At, XInv, JobShape
<1>6. /\ {"script", "stage"} \subseteq DOMAIN job'
      /\ part = "manifest" => job'.stage = "report"
  BY <1>5 DEF WriteExperiment, Continue, Parts
<1>7. JobShape' /\ Open'
  BY <1>3, <1>4, <1>6 DEF JobShape, Open, Parts
<1>8. QED
  BY <1>3, <1>7 DEF XInv

\* Whatever a kill cuts off, no script runs after it, and it cuts off no
\* manifest that was there.
LEMMA KillStep ==
  ASSUME XInv, Kill
  PROVE  XInv' /\ Kept
<1>1. job # None /\ job' = None
  BY DEF Kill, End
<1>2. CASE experiments' = experiments
  BY <1>1, <1>2, QuietStep
<1>3. CASE /\ job.script = "train" /\ job.stage \in {"model", "metrics", "manifest"}
           /\ experiments' = [experiments EXCEPT ![Len(experiments)] = [@ EXCEPT ![job.stage] = Torn]]
  <2>1. job.stage \in Parts /\ At("train", job.stage)
    BY <1>1, <1>3 DEF Parts, At
  <2>2. Store' /\ Kept
    BY <1>3, <2>1, WriteStep
  <2>3. JobShape' /\ Open'
    BY <1>1 DEF JobShape, Open
  <2>4. QED
    BY <2>2, <2>3 DEF XInv
<1>4. QED
  BY <1>2, <1>3 DEF Kill, files

LEMMA NextStep ==
  ASSUME XInv, [TelemetryNext]_telemetryVars
  PROVE  XInv' /\ Kept
<1>1. CASE UNCHANGED telemetryVars
  BY <1>1, QuietStep DEF telemetryVars, files
<1>2. ASSUME NEW d \in Datasets, Prepare(d)
      PROVE  XInv' /\ Kept
  BY <1>2, QuietStep DEF Prepare, Begin, End, files
<1>3. ASSUME NEW d \in Datasets, Validate(d)
      PROVE  XInv' /\ Kept
  <2>1. experiments' = experiments
    BY <1>3 DEF Validate
  <2>2. job' = None
    BY <1>3 DEF Validate, End
  <2>3. QED
    BY <2>1, <2>2, QuietStep
<1>4. ASSUME NEW d \in Datasets, Preprocess(d)
      PROVE  XInv' /\ Kept
  BY <1>4, QuietStep DEF Preprocess, Begin, End, files
<1>5. ASSUME NEW d \in Datasets, Train(d)
      PROVE  XInv' /\ Kept
  <2>1. experiments' = experiments
    BY <1>5 DEF Train, files
  <2>2. \/ job' = None
        \/ /\ {"script", "stage"} \subseteq DOMAIN job'
           /\ job'.script = "train" /\ job'.stage = "fit"
    BY <1>5 DEF Train, Begin, End
  <2>3. QED
    BY <2>1, <2>2, QuietStep DEF Parts
<1>6. CASE WriteCanonical \/ WriteAdapterReport
  <2>1. /\ experiments' = experiments /\ job # None /\ job.script = "prepare"
        /\ job' = None \/ job' = [job EXCEPT !.stage = "report"]
    BY <1>6 DEF WriteCanonical, WriteAdapterReport, Running, At, Continue, End
  <2>2. QED
    BY <2>1, QuietStep DEF XInv, JobShape
<1>7. ASSUME NEW s \in ToSet(SplitNames), WriteSplit(s)
      PROVE  XInv' /\ Kept
  <2>1. /\ experiments' = experiments /\ job # None /\ job.script = "preprocess"
        /\ job' = [job EXCEPT !.stage = NextOf(s)]
    BY <1>7 DEF WriteSplit, Running, At, Continue
  <2>2. QED
    BY <2>1, QuietStep DEF XInv, JobShape
<1>8. CASE WritePreprocessingManifest \/ WriteReport
  <2>1. experiments' = experiments /\ job' = None
    BY <1>8 DEF WritePreprocessingManifest, WriteReport, End
  <2>2. QED
    BY <2>1, QuietStep
<1>9. CASE Fit
  <2>1. experiments' = experiments
    BY <1>9 DEF Fit, files
  <2>2. \/ job' = None
        \/ /\ {"script", "stage"} \subseteq DOMAIN job'
           /\ job'.script = "train" /\ job'.stage = "create"
    BY <1>9 DEF Fit, End
  <2>3. QED
    BY <2>1, <2>2, QuietStep DEF Parts
<1>10. CASE CreateExperiment
  BY <1>10, CreateStep
<1>11. ASSUME NEW part \in Parts, WriteExperiment(part)
       PROVE  XInv' /\ Kept
  BY <1>11, WriteExperimentStep
<1>12. CASE Kill
  BY <1>12, KillStep
<1>13. CASE Export
  BY <1>13, QuietStep DEF Export, files
<1>14. QED
  BY <1>1, <1>2, <1>3, <1>4, <1>5, <1>6, <1>7, <1>8, <1>9, <1>10, <1>11, <1>12, <1>13 DEF TelemetryNext, Parts

\* artifacts.py: "never overwrite an experiment".  Whatever the scripts are
\* given, however often they are run or killed and however many trainings fall
\* into one second, an experiment that has its manifest stays as it is.
THEOREM ExperimentsKeptHolds == TelemetrySpec => ExperimentsKept
<1>1. TelemetryInit => XInv
  BY InitXInv
<1>2. XInv /\ [TelemetryNext]_telemetryVars => XInv'
  BY NextStep
<1>3. XInv /\ [TelemetryNext]_telemetryVars => [Kept]_telemetryVars
  BY NextStep
<1>4. QED
  BY <1>1, <1>2, <1>3, PTL DEF TelemetrySpec, ExperimentsKept, Kept

-----------------------------------------------------------------------------
(* Numbers, ranks and sequences.                                           *)

LessThan == {pair \in Nat \X Nat : pair[1] < pair[2]}

\* There is no infinite descent.
LEMMA LessThanFounded == IsWellFoundedOn(LessThan, Nat)
BY NatLessThanWellFounded, Zenon DEF OpToRel, LessThan

\* A set of numbers has a smallest one.
LEMMA SmallestIs ==
  ASSUME NEW T, T \subseteq Nat, T # {}
  PROVE  Smallest(T) \in T /\ \A y \in T : Smallest(T) <= y
<1>1. PICK x \in T : \A y \in T : ~ (<<y, x>> \in LessThan)
  BY LessThanFounded, WFMin
<1>2. ASSUME NEW y \in T PROVE x <= y
  <2>1. x \in Nat /\ y \in Nat /\ <<y, x>> \in Nat \X Nat
    OBVIOUS
  <2>2. ~(y < x)
    BY <1>1, <2>1 DEF LessThan
  <2>3. QED
    BY <2>1, <2>2
<1>3. QED
  BY <1>2 DEF Smallest

\* Numbers up to n have a largest.
LEMMA LargestIs ==
  ASSUME NEW n \in Nat, NEW T \in SUBSET (1..n), T # {}
  PROVE  Largest(T) \in T /\ \A x \in T : Largest(T) >= x
<1> DEFINE U == {n - x : x \in T}
<1>0. \A x \in T : x \in Nat /\ x <= n
  OBVIOUS
<1>1. U \subseteq Nat /\ U # {}
  <2>1. \A x \in T : n - x \in Nat
    BY <1>0
  <2>2. QED
    BY <2>1
<1>2. PICK t \in U : \A u \in U : t <= u
  <2> HIDE DEF U
  <2>1. QED
    BY <1>1, SmallestIs
<1>3. PICK m \in T : t = n - m
  BY <1>2
<1>4. \A x \in T : m >= x
  <2> SUFFICES ASSUME NEW x \in T PROVE m >= x
    OBVIOUS
  <2>1. n - x \in U
    OBVIOUS
  <2>2. n - m <= n - x
    BY <1>2, <1>3, <2>1
  <2>3. QED
    BY <1>0, <2>2
<1>5. QED
  BY <1>4 DEF Largest

\* A set of numbers with 0 and the successors of its members has them all.
LEMMA Inductive ==
  ASSUME NEW T, T \subseteq Nat, 0 \in T, \A k \in T : k + 1 \in T
  PROVE  T = Nat
<1> SUFFICES ASSUME Nat \ T # {} PROVE FALSE
  OBVIOUS
<1>1. PICK m \in Nat \ T : \A y \in Nat \ T : m <= y
  <2>1. Nat \ T \subseteq Nat
    OBVIOUS
  <2>2. QED
    BY <2>1, SmallestIs
<1>2. m - 1 \in Nat /\ ~(m <= m - 1)
  BY <1>1
<1>3. m - 1 \in T
  BY <1>1, <1>2
<1>4. QED
  BY <1>1, <1>2, <1>3

\* The first n numbers.
LEMMA Interval ==
  ASSUME NEW n \in Nat
  PROVE  IsFiniteSet(1..n) /\ Cardinality(1..n) = n
<1>1. 1 \in Int /\ n \in Int
  OBVIOUS
<1>2. IsFiniteSet(1..n) /\ Cardinality(1..n) = IF 1 > n THEN 0 ELSE n - 1 + 1
  BY ONLY <1>1, FS_Interval
<1>3. QED
  BY <1>2

\* A part of the first n numbers.
LEMMA Part ==
  ASSUME NEW n \in Nat, NEW S \in SUBSET (1..n)
  PROVE  IsFiniteSet(S) /\ Cardinality(S) \in 0..n /\ (Cardinality(S) = n => S = 1..n)
<1>1. IsFiniteSet(1..n) /\ Cardinality(1..n) = n
  BY Interval
<1>2. IsFiniteSet(S) /\ Cardinality(S) <= Cardinality(1..n) /\ (Cardinality(1..n) = Cardinality(S) => S = 1..n)
  BY <1>1, FS_Subset
<1>3. QED
  BY <1>1, <1>2, FS_CardinalityType

\* The members of a set of numbers in a strict order: each has the number of
\* those before it for its place, and every place is taken once.
Place(T, R, i) == 1 + Cardinality({j \in T : <<j, i>> \in R})

LEMMA Arranged ==
  ASSUME NEW n \in Nat, NEW T \in SUBSET (1..n), NEW R,
         \A i \in T : <<i, i>> \notin R,
         \A i, j \in T : i # j => <<i, j>> \in R \/ <<j, i>> \in R,
         \A i, j, k \in T : <<i, j>> \in R /\ <<j, k>> \in R => <<i, k>> \in R
  PROVE  /\ \A i \in T : Place(T, R, i) \in 1..Cardinality(T)
         /\ \A i, j \in T : <<i, j>> \in R <=> Place(T, R, i) < Place(T, R, j)
         /\ \A i, j \in T : Place(T, R, i) = Place(T, R, j) => i = j
         /\ \A p \in 1..Cardinality(T) : \E i \in T : Place(T, R, i) = p
<1> DEFINE B(i) == {j \in T : <<j, i>> \in R}
           m == Cardinality(T)
<1>1. IsFiniteSet(T) /\ m \in Nat
  <2>1. Cardinality(T) \in 0..n /\ IsFiniteSet(T)
    BY ONLY n \in Nat, T \in SUBSET (1..n), Part
  <2>2. QED
    BY <2>1
<1>2. \A i \in T : IsFiniteSet(B(i)) /\ Cardinality(B(i)) \in Nat /\ Place(T, R, i) = 1 + Cardinality(B(i))
  <2> SUFFICES ASSUME NEW i \in T PROVE IsFiniteSet(B(i)) /\ Cardinality(B(i)) \in Nat
    BY DEF Place
  <2>1. B(i) \in SUBSET T
    OBVIOUS
  <2> HIDE DEF B
  <2>2. QED
    BY <1>1, <2>1, FS_Subset, FS_CardinalityType
<1>3. ASSUME NEW i \in T PROVE Place(T, R, i) \in 1..m
  <2>1. B(i) \in SUBSET (T \ {i})
    OBVIOUS
  <2>2. IsFiniteSet(T \ {i}) /\ Cardinality(T \ {i}) = m - 1
    BY <1>1, FS_RemoveElement
  <2> HIDE DEF B
  <2>3. Cardinality(B(i)) <= Cardinality(T \ {i})
    BY <2>1, <2>2, FS_Subset
  <2>4. QED
    BY <1>1, <1>2, <2>2, <2>3
<1>4. ASSUME NEW i \in T, NEW j \in T, <<i, j>> \in R
      PROVE  Place(T, R, i) < Place(T, R, j)
  <2>1. B(i) \in SUBSET B(j) /\ i \in B(j) /\ i \notin B(i)
    BY <1>4
  <2> HIDE DEF B
  <2>2. /\ Cardinality(B(i)) <= Cardinality(B(j))
        /\ Cardinality(B(j)) = Cardinality(B(i)) => B(i) = B(j)
    BY <1>2, <2>1, FS_Subset
  <2>3. QED
    BY <1>2, <2>1, <2>2
<1> HIDE DEF B
<1>5. \A i, j \in T : Place(T, R, i) = Place(T, R, j) => i = j
  <2> SUFFICES ASSUME NEW i \in T, NEW j \in T, Place(T, R, i) = Place(T, R, j), i # j PROVE FALSE
    OBVIOUS
  <2>1. Place(T, R, i) \in Int /\ Place(T, R, j) \in Int
    BY <1>2
  <2>2. Place(T, R, i) < Place(T, R, j) \/ Place(T, R, j) < Place(T, R, i)
    BY <1>4
  <2>3. QED
    BY <2>1, <2>2
<1>6. \A i, j \in T : Place(T, R, i) < Place(T, R, j) => <<i, j>> \in R
  <2> SUFFICES ASSUME NEW i \in T, NEW j \in T, Place(T, R, i) < Place(T, R, j) PROVE <<i, j>> \in R
    OBVIOUS
  <2>1. Place(T, R, i) \in Int /\ Place(T, R, j) \in Int /\ i # j
    BY <1>2
  <2>2. ~(<<j, i>> \in R)
    BY <1>4, <2>1
  <2>3. QED
    BY <2>1, <2>2
<1>7. \A p \in 1..m : \E i \in T : Place(T, R, i) = p
  <2> DEFINE f == [i \in T |-> Place(T, R, i)]
  <2>1. f \in [T -> 1..m] /\ \A i, j \in T : f[i] = f[j] => i = j
    BY <1>3, <1>5
  <2>2. f \in Injection(T, 1..m)
    BY <2>1 DEF Injection, IsInjective
  <2>3. IsFiniteSet(1..m) /\ Cardinality(1..m) = m
    BY <1>1, Interval
  <2>4. f \in Surjection(T, 1..m)
    <3> HIDE DEF f, m
    <3>1. QED
      BY <1>1, <2>2, <2>3, FS_Injection DEF m
  <2>5. QED
    BY <2>4 DEF Surjection
<1>8. QED
  BY <1>3, <1>4, <1>5, <1>6, <1>7

\* What is chosen of a sequence comes in its order, and all of it.
LEMMA ChosenFacts ==
  ASSUME NEW seq, Listed(seq), NEW S \in SUBSET DOMAIN seq
  PROVE  /\ Listed(ChosenAt(seq, S)) /\ DOMAIN ChosenAt(seq, S) = 1..Cardinality(S)
         /\ Len(ChosenAt(seq, S)) = Cardinality(S) /\ Cardinality(S) \in 0..Len(seq)
         /\ \E at \in [1..Cardinality(S) -> S] :
              /\ \A p \in 1..Cardinality(S) : ChosenAt(seq, S)[p] = seq[at[p]]
              /\ \A p, q \in 1..Cardinality(S) : p < q => at[p] < at[q]
              /\ \A i \in S : \E p \in 1..Cardinality(S) : at[p] = i
<1> DEFINE n == Len(seq)
           m == Cardinality(S)
           R == {x \in (1..n) \X (1..n) : x[1] < x[2]}
           at == [p \in 1..m |-> CHOOSE i \in S : Cardinality({j \in S : j < i}) = p - 1]
           out == ChosenAt(seq, S)
<1>1. seq \in Seq(ToSet(seq)) /\ n \in Nat /\ DOMAIN seq = 1..n /\ S \in SUBSET (1..n)
  BY DEF Listed
<1>2. m \in 0..n /\ m \in Nat
  BY <1>1, Part
<1>3. \A i, j \in S : <<j, i>> \in R <=> j < i
  BY <1>1
<1>4. \A i \in S : {j \in S : <<j, i>> \in R} = {j \in S : j < i}
  BY <1>3
<1>5. /\ \A i \in S : Place(S, R, i) \in 1..m
      /\ \A i, j \in S : <<i, j>> \in R <=> Place(S, R, i) < Place(S, R, j)
      /\ \A i, j \in S : Place(S, R, i) = Place(S, R, j) => i = j
      /\ \A p \in 1..m : \E i \in S : Place(S, R, i) = p
  <2>1. /\ \A i \in S : <<i, i>> \notin R
        /\ \A i, j \in S : i # j => <<i, j>> \in R \/ <<j, i>> \in R
        /\ \A i, j, k \in S : <<i, j>> \in R /\ <<j, k>> \in R => <<i, k>> \in R
    BY <1>1, <1>3
  <2>2. S \in SUBSET (1..n) /\ n \in Nat
    BY <1>1
  <2> HIDE DEF R, n
  <2>3. QED
    BY ONLY <2>1, <2>2, Arranged
<1>6. \A i \in S : Cardinality({j \in S : j < i}) \in Nat /\ Place(S, R, i) = 1 + Cardinality({j \in S : j < i})
  <2> SUFFICES ASSUME NEW i \in S PROVE Cardinality({j \in S : j < i}) \in Nat
    BY <1>4 DEF Place
  <2>1. {j \in S : j < i} \in SUBSET (1..n)
    BY <1>1
  <2>2. Cardinality({j \in S : j < i}) \in 0..n
    BY <1>1, <2>1, Part
  <2>3. QED
    BY <1>1, <2>2
<1> HIDE DEF R
<1>7. \A p \in 1..m : at[p] \in S /\ Place(S, R, at[p]) = p
  <2> SUFFICES ASSUME NEW p \in 1..m PROVE at[p] \in S /\ Place(S, R, at[p]) = p
    OBVIOUS
  <2>1. PICK i \in S : Place(S, R, i) = p
    BY <1>5
  <2>2. \E x \in S : Cardinality({j \in S : j < x}) = p - 1
    BY <1>6, <2>1
  <2>3. at[p] \in S /\ Cardinality({j \in S : j < at[p]}) = p - 1
    BY <2>2
  <2> HIDE DEF at
  <2>4. QED
    BY <1>6, <2>3
<1>8. at \in [1..m -> S]
  BY <1>7
<1>9. DOMAIN out = 1..m /\ \A p \in 1..m : out[p] = seq[at[p]]
  BY DEF ChosenAt
<1> HIDE DEF at, out
<1>10. \A p, q \in 1..m : p < q => at[p] < at[q]
  <2> SUFFICES ASSUME NEW p \in 1..m, NEW q \in 1..m, p < q PROVE at[p] < at[q]
    OBVIOUS
  <2>1. at[p] \in S /\ at[q] \in S /\ Place(S, R, at[p]) < Place(S, R, at[q])
    BY <1>7
  <2>2. QED
    BY <1>3, <1>5, <2>1
<1>11. \A i \in S : \E p \in 1..m : at[p] = i
  BY <1>5, <1>7
<1>12. out \in Seq(ToSet(seq)) /\ Len(out) = m
  <2>1. \A p \in 1..m : out[p] \in ToSet(seq)
    BY <1>1, <1>7, <1>9 DEF ToSet
  <2>2. out = [p \in 1..m |-> out[p]]
    BY DEF out, ChosenAt
  <2> HIDE DEF m
  <2>3. QED
    BY <1>2, <2>1, <2>2
<1>13. Listed(out)
  <2>1. \A p \in 1..m : out[p] \in ToSet(out)
    BY <1>9 DEF ToSet
  <2>2. out = [p \in 1..m |-> out[p]]
    BY DEF out, ChosenAt
  <2> HIDE DEF m
  <2>3. QED
    BY <1>2, <2>1, <2>2 DEF Listed
<1> HIDE DEF m
<1>14. QED
  BY <1>2, <1>8, <1>9, <1>10, <1>11, <1>12, <1>13 DEF out, m, n

-----------------------------------------------------------------------------
(* Sorting.                                                                *)

\* A strict order of the places of a sequence.
StrictOrder(R, n) ==
  /\ \A i \in 1..n : <<i, i>> \notin R
  /\ \A i, j \in 1..n : i # j => <<i, j>> \in R \/ <<j, i>> \in R
  /\ \A i, j, k \in 1..n : <<i, j>> \in R /\ <<j, k>> \in R => <<i, k>> \in R

\* Every place is taken by one.
LEMMA Placed ==
  ASSUME NEW n \in Nat, NEW R, StrictOrder(R, n)
  PROVE  /\ \A i \in 1..n : Place(1..n, R, i) \in 1..n
         /\ \A i, j \in 1..n : <<i, j>> \in R <=> Place(1..n, R, i) < Place(1..n, R, j)
         /\ \A i, j \in 1..n : Place(1..n, R, i) = Place(1..n, R, j) => i = j
         /\ \A p \in 1..n : \E i \in 1..n : Place(1..n, R, i) = p
<1>1. 1..n \in SUBSET (1..n) /\ Cardinality(1..n) = n
  BY Interval
<1>2. /\ \A i \in 1..n : <<i, i>> \notin R
      /\ \A i, j \in 1..n : i # j => <<i, j>> \in R \/ <<j, i>> \in R
      /\ \A i, j, k \in 1..n : <<i, j>> \in R /\ <<j, k>> \in R => <<i, k>> \in R
  BY DEF StrictOrder
<1>3. /\ \A i \in 1..n : Place(1..n, R, i) \in 1..Cardinality(1..n)
      /\ \A i, j \in 1..n : <<i, j>> \in R <=> Place(1..n, R, i) < Place(1..n, R, j)
      /\ \A i, j \in 1..n : Place(1..n, R, i) = Place(1..n, R, j) => i = j
      /\ \A p \in 1..Cardinality(1..n) : \E i \in 1..n : Place(1..n, R, i) = p
  BY ONLY n \in Nat, <1>1, <1>2, Arranged
<1>4. QED
  BY <1>1, <1>3

\* The one that has place p, for every p.
Placing(at, R, n) == \A p \in 1..n : at[p] \in 1..n /\ Place(1..n, R, at[p]) = p
InOrder(at, R, n) ==
  /\ \A p, q \in 1..n : p < q => <<at[p], at[q]>> \in R
  /\ \A i \in 1..n : \E p \in 1..n : at[p] = i

LEMMA SortedFacts ==
  ASSUME NEW n \in Nat, NEW R, StrictOrder(R, n),
         NEW at, Placing(at, R, n)
  PROVE  InOrder(at, R, n)
<1>1. \A p, q \in 1..n : p < q => <<at[p], at[q]>> \in R
  BY Placed DEF Placing
<1>2. ASSUME NEW i \in 1..n PROVE \E p \in 1..n : at[p] = i
  <2>1. Place(1..n, R, i) \in 1..n
    BY Placed
  <2>2. at[Place(1..n, R, i)] = i
    BY <2>1, Placed DEF Placing
  <2>3. QED
    BY <2>1, <2>2
<1>3. QED
  BY <1>1, <1>2 DEF InOrder

\* A function of the first n numbers is a sequence.
LEMMA MadeOf ==
  ASSUME NEW n \in Nat, NEW out, out = [p \in 1..n |-> out[p]]
  PROVE  Listed(out) /\ Len(out) = n /\ DOMAIN out = 1..n
<1>1. DOMAIN out = 1..n
  OBVIOUS
<1>2. \A p \in 1..n : out[p] \in ToSet(out)
  BY <1>1 DEF ToSet
<1>3. out \in [1..n -> ToSet(out)]
  BY <1>2
<1>4. QED
  BY <1>3 DEF Listed

\* The order of a stable sort of integers.
NumberOrder(numbers) ==
  {x \in (DOMAIN numbers) \X (DOMAIN numbers) :
     numbers[x[1]] < numbers[x[2]] \/ (x[1] < x[2] /\ ~(numbers[x[2]] < numbers[x[1]]))}

LEMMA SortedNumbers ==
  ASSUME NEW n \in Nat, NEW numbers \in [1..n -> Int]
  PROVE  \E at \in [1..n -> 1..n] :
           /\ Ascending(numbers) = [p \in 1..n |-> numbers[at[p]]]
           /\ Ascending(numbers) \in [1..n -> Int] /\ Len(Ascending(numbers)) = n
           /\ \A p, q \in 1..n : p <= q => Ascending(numbers)[p] <= Ascending(numbers)[q]
           /\ \A i \in 1..n : \E p \in 1..n : at[p] = i
<1> DEFINE R == NumberOrder(numbers)
           place == [i \in DOMAIN numbers |->
             1 + Cardinality({j \in DOMAIN numbers : numbers[j] < numbers[i] \/ (j < i /\ ~(numbers[i] < numbers[j]))})]
           at == [p \in DOMAIN numbers |-> CHOOSE i \in DOMAIN numbers : place[i] = p]
           s == Ascending(numbers)
<1>1. DOMAIN numbers = 1..n
  OBVIOUS
<1>2. \A i, j \in 1..n : <<i, j>> \in R <=> numbers[i] < numbers[j] \/ (i < j /\ ~(numbers[j] < numbers[i]))
  BY <1>1 DEF NumberOrder
<1>3. StrictOrder(R, n)
  <2>1. \A i \in 1..n : numbers[i] \in Int /\ i \in Int
    OBVIOUS
  <2> HIDE DEF R
  <2>2. \A i \in 1..n : <<i, i>> \notin R
    BY <1>2, <2>1
  <2>3. \A i, j \in 1..n : i # j => <<i, j>> \in R \/ <<j, i>> \in R
    BY <1>2, <2>1
  <2>4. \A i, j, k \in 1..n : <<i, j>> \in R /\ <<j, k>> \in R => <<i, k>> \in R
    BY <1>2, <2>1
  <2>5. QED
    BY <2>2, <2>3, <2>4 DEF StrictOrder
<1>4. \A i \in 1..n : place[i] = Place(1..n, R, i)
  <2> SUFFICES ASSUME NEW i \in 1..n PROVE place[i] = Place(1..n, R, i)
    OBVIOUS
  <2> HIDE DEF R
  <2>1. {j \in DOMAIN numbers : numbers[j] < numbers[i] \/ (j < i /\ ~(numbers[i] < numbers[j]))}
          = {j \in 1..n : <<j, i>> \in R}
    BY <1>1, <1>2
  <2>2. QED
    BY <1>1, <2>1 DEF Place
<1>5. s = [p \in DOMAIN numbers |-> numbers[CHOOSE i \in DOMAIN numbers : place[i] = p]]
  BY DEF Ascending, SortedBy
<1> HIDE DEF s, R, place
<1>6. Placing(at, R, n)
  <2> SUFFICES ASSUME NEW p \in 1..n PROVE at[p] \in 1..n /\ Place(1..n, R, at[p]) = p
    BY DEF Placing
  <2>1. \E i \in 1..n : place[i] = p
    <3>1. \E i \in 1..n : Place(1..n, R, i) = p
      BY ONLY n \in Nat, p \in 1..n, <1>3, Placed
    <3>2. QED
      BY <1>4, <3>1
  <2>2. QED
    BY <1>1, <1>4, <2>1
<1>7. s = [p \in 1..n |-> numbers[at[p]]] /\ at \in [1..n -> 1..n]
  BY <1>1, <1>5, <1>6 DEF Placing
<1> HIDE DEF at
<1>8. InOrder(at, R, n)
  BY ONLY n \in Nat, <1>3, <1>6, SortedFacts
<1>9. s \in [1..n -> Int]
  BY <1>7
<1>10. \A p, q \in 1..n : p <= q => s[p] <= s[q]
  <2> SUFFICES ASSUME NEW p \in 1..n, NEW q \in 1..n, p <= q PROVE s[p] <= s[q]
    OBVIOUS
  <2>1. s[p] = numbers[at[p]] /\ s[q] = numbers[at[q]] /\ s[p] \in Int /\ s[q] \in Int /\ at[p] \in 1..n /\ at[q] \in 1..n
    BY <1>7, <1>9
  <2>2. CASE p = q
    BY <2>1, <2>2
  <2>3. CASE p < q
    <3>1. <<at[p], at[q]>> \in R
      BY <1>8, <2>3 DEF InOrder
    <3>2. QED
      BY <1>2, <2>1, <3>1
  <2>4. QED
    BY <2>2, <2>3
<1>11. Len(s) = n
  BY <1>9
<1>12. QED
  BY <1>7, <1>8, <1>9, <1>10, <1>11 DEF s, InOrder

-----------------------------------------------------------------------------
(* Quantiles.                                                              *)

LEMMA Times ==
  ASSUME NEW a \in Int, NEW b \in Int, NEW c \in Nat
  PROVE  /\ a <= b => c * a <= c * b
         /\ c > 0 /\ c * a < c * b => a < b
         /\ c * a \in Int /\ c * b \in Int
<1>1. ASSUME a <= b PROVE c * a <= c * b
  <2>1. b - a \in Nat /\ b = a + (b - a)
    BY <1>1
  <2>2. c * (b - a) \in Nat
    BY <2>1
  <2>3. c * b = c * a + c * (b - a)
    OBVIOUS
  <2>4. QED
    BY <2>2, <2>3
<1>2. ASSUME b <= a PROVE c * b <= c * a
  <2>1. a - b \in Nat
    BY <1>2
  <2>2. c * (a - b) \in Nat
    BY <2>1
  <2>3. c * a = c * b + c * (a - b)
    OBVIOUS
  <2>4. QED
    BY <2>2, <2>3
<1>3. ASSUME c * a < c * b, ~(a < b) PROVE FALSE
  <2>1. b <= a
    BY <1>3
  <2>2. c * b <= c * a /\ c * a \in Int /\ c * b \in Int
    BY <1>2, <2>1
  <2>3. QED
    BY <1>3, <2>2
<1>4. c * a \in Int /\ c * b \in Int
  OBVIOUS
<1>5. QED
  BY <1>1, <1>3, <1>4

\* Division with a rest.
LEMMA Divided ==
  ASSUME NEW a \in Int, NEW d \in Nat, d > 0
  PROVE  a \div d \in Int /\ a % d \in 0..d - 1 /\ a = d * (a \div d) + (a % d)
OBVIOUS

\* Where the quantile lies among the sorted numbers.
At0(n, num, den) == ((n - 1) * num) \div den
Rest0(n, num, den) == ((n - 1) * num) % den

LEMMA QuantilePlace ==
  ASSUME NEW n \in Nat, n > 0, NEW den \in Nat, den > 0, NEW num \in 0..den
  PROVE  /\ At0(n, num, den) \in 0..n - 1 /\ Rest0(n, num, den) \in 0..den - 1
         /\ (n - 1) * num = den * At0(n, num, den) + Rest0(n, num, den)
         /\ Rest0(n, num, den) # 0 => At0(n, num, den) + 2 <= n
<1> DEFINE a == (n - 1) * num
           at == a \div den
           rest == a % den
<1>1. a \in Int /\ 0 <= a /\ a <= (n - 1) * den
  <2>1. n - 1 \in Nat /\ num \in Int /\ den \in Int /\ 0 <= num /\ num <= den
    OBVIOUS
  <2>2. (n - 1) * num <= (n - 1) * den
    BY ONLY <2>1, Times
  <2>3. (n - 1) * 0 <= (n - 1) * num /\ 0 \in Int
    BY ONLY <2>1, Times, 0 \in Int
  <2>4. (n - 1) * 0 = 0 /\ (n - 1) * num \in Int
    BY <2>1
  <2>5. QED
    BY <2>2, <2>3, <2>4
<1> HIDE DEF a
<1>2. at \in Int /\ rest \in 0..den - 1 /\ a = den * at + rest
  BY <1>1, Divided
<1> HIDE DEF at, rest
<1>3. den * at > den * (0 - 1) /\ (rest # 0 => den * at < den * (n - 1)) /\ den * at < den * n
  <2>1. (n - 1) * den = den * (n - 1) /\ den * (n - 1) \in Int /\ den * n = den * (n - 1) + den /\ den * (0 - 1) = 0 - den /\ den * at \in Int
    BY <1>2
  <2>2. QED
    BY <1>1, <1>2, <2>1
<1>4. 0 - 1 < at /\ (rest # 0 => at < n - 1) /\ at < n
  <2>1. at \in Int /\ 0 - 1 \in Int /\ n - 1 \in Int /\ n \in Int
    BY <1>2
  <2>2. QED
    BY <1>3, <2>1, Times
<1>5. at \in 0..n - 1 /\ (rest # 0 => at + 2 <= n)
  BY <1>2, <1>4
<1>6. QED
  BY <1>2, <1>5 DEF At0, Rest0, a, at, rest

\* The quantile is not below the number at its place, nor above the next one.
LEMMA QuantileBounds ==
  ASSUME NEW n \in Nat, n > 0, NEW numbers \in [1..n -> Int], NEW den \in Nat, den > 0, NEW num \in 0..den,
         NEW s, s = Ascending(numbers)
  PROVE  /\ Quantile(numbers, num, den) =
              den * s[At0(n, num, den) + 1]
              + Rest0(n, num, den) *
                (IF Rest0(n, num, den) = 0 THEN 0 ELSE s[At0(n, num, den) + 2] - s[At0(n, num, den) + 1])
         /\ Quantile(numbers, num, den) \in Int
         /\ den * s[At0(n, num, den) + 1] <= Quantile(numbers, num, den)
         /\ Rest0(n, num, den) # 0 => Quantile(numbers, num, den) <= den * s[At0(n, num, den) + 2]
<1> DEFINE at == At0(n, num, den)
           rest == Rest0(n, num, den)
           q == Quantile(numbers, num, den)
<1>1. s \in [1..n -> Int] /\ Len(s) = n /\ \A i, j \in 1..n : i <= j => s[i] <= s[j]
  BY SortedNumbers
<1>2. at \in 0..n - 1 /\ rest \in 0..den - 1 /\ (rest # 0 => at + 2 <= n)
  BY QuantilePlace
<1>3. q = den * s[at + 1] + rest * (IF rest = 0 THEN 0 ELSE s[at + 2] - s[at + 1])
  BY <1>1 DEF Quantile, At0, Rest0
<1> HIDE DEF at, rest, q
<1>4. at + 1 \in 1..n /\ s[at + 1] \in Int
  BY <1>1, <1>2
<1>5. CASE rest = 0
  <2>1. q = den * s[at + 1] /\ q \in Int
    BY <1>3, <1>4, <1>5
  <2>2. QED
    BY <1>3, <1>5, <2>1 DEF at, rest, q
<1>6. CASE rest # 0
  <2>1. at + 2 \in 1..n /\ s[at + 2] \in Int /\ s[at + 1] <= s[at + 2]
    BY <1>1, <1>2, <1>4, <1>6
  <2> DEFINE x == s[at + 1]
             d == s[at + 2] - s[at + 1]
  <2>2. x \in Int /\ d \in Nat /\ s[at + 2] = x + d /\ den * (x + d) = den * x + den * d
    BY <1>4, <2>1
  <2>3. q = den * x + rest * d
    BY <1>3, <1>6
  <2> HIDE DEF x, d
  <2>4. rest \in Nat /\ rest <= den /\ rest * d \in Nat /\ den * d \in Nat /\ den * x \in Int /\ rest * d = d * rest /\ den * d = d * den
    BY <1>2, <2>2
  <2>5. d * rest <= d * den
    BY <2>2, <2>4, Times
  <2>6. q \in Int /\ den * x <= q /\ q <= den * (x + d)
    BY <2>2, <2>3, <2>4, <2>5
  <2>7. QED
    BY <1>3, <1>6, <2>2, <2>6 DEF at, rest, q, x
<1>7. QED
  BY <1>5, <1>6

\* A larger part of the numbers lies below a larger quantile.
LEMMA QuantileGrows ==
  ASSUME NEW n \in Nat, n > 0, NEW numbers \in [1..n -> Int], NEW den \in Nat, den > 0,
         NEW lo \in 0..den, NEW hi \in 0..den, lo <= hi
  PROVE  Quantile(numbers, lo, den) <= Quantile(numbers, hi, den)
<1> DEFINE a == At0(n, lo, den)
           b == At0(n, hi, den)
           r == Rest0(n, lo, den)
           t == Rest0(n, hi, den)
           p == Quantile(numbers, lo, den)
           q == Quantile(numbers, hi, den)
<1>1. PICK s : s = Ascending(numbers)
  OBVIOUS
<1>2. s \in [1..n -> Int] /\ \A i, j \in 1..n : i <= j => s[i] <= s[j]
  BY <1>1, SortedNumbers
<1>3. /\ a \in 0..n - 1 /\ r \in 0..den - 1 /\ (n - 1) * lo = den * a + r /\ (r # 0 => a + 2 <= n)
      /\ b \in 0..n - 1 /\ t \in 0..den - 1 /\ (n - 1) * hi = den * b + t /\ (t # 0 => b + 2 <= n)
  BY QuantilePlace
<1>4. /\ p = den * s[a + 1] + r * (IF r = 0 THEN 0 ELSE s[a + 2] - s[a + 1])
      /\ p \in Int /\ (r # 0 => p <= den * s[a + 2])
  BY <1>1, QuantileBounds
<1>5. /\ q = den * s[b + 1] + t * (IF t = 0 THEN 0 ELSE s[b + 2] - s[b + 1])
      /\ q \in Int /\ den * s[b + 1] <= q
  BY <1>1, QuantileBounds
<1> HIDE DEF a, b, r, t, p, q
<1>6. den * a + r <= den * b + t
  <2>1. n - 1 \in Nat /\ lo \in Int /\ hi \in Int
    OBVIOUS
  <2>2. (n - 1) * lo <= (n - 1) * hi
    BY ONLY <2>1, lo <= hi, Times
  <2>3. QED
    BY <1>3, <2>2
<1>7. a <= b
  <2> SUFFICES ASSUME b < a PROVE FALSE
    BY <1>3
  <2>1. b + 1 <= a /\ b + 1 \in Int /\ a \in Int
    BY <1>3
  <2>2. den * (b + 1) <= den * a
    BY ONLY <2>1, den \in Nat, Times
  <2>3. den * (b + 1) = den * b + den /\ den * b \in Int /\ den * a \in Int
    BY <1>3
  <2>4. QED
    BY <1>3, <1>6, <2>2, <2>3
<1>8. a + 1 \in 1..n /\ b + 1 \in 1..n /\ s[a + 1] \in Int /\ s[b + 1] \in Int /\ s[a + 1] <= s[b + 1]
  BY <1>2, <1>3, <1>7
<1>9. CASE r = 0
  <2>1. p = den * s[a + 1]
    BY <1>4, <1>8, <1>9
  <2>2. den * s[a + 1] <= den * s[b + 1]
    BY ONLY <1>8, den \in Nat, Times
  <2>3. den * s[b + 1] \in Int
    BY <1>8
  <2>4. QED
    BY <1>4, <1>5, <2>1, <2>2, <2>3 DEF p, q
<1>10. CASE r # 0 /\ a < b
  <2>1. a + 2 \in 1..n /\ s[a + 2] \in Int /\ a + 2 <= b + 1
    BY <1>2, <1>3, <1>10
  <2>2. s[a + 2] <= s[b + 1]
    BY <1>2, <1>8, <2>1
  <2>3. den * s[a + 2] <= den * s[b + 1] /\ den * s[a + 2] \in Int /\ den * s[b + 1] \in Int
    BY ONLY <1>8, <2>1, <2>2, den \in Nat, Times
  <2>4. QED
    BY <1>4, <1>5, <1>10, <2>3 DEF p, q
<1>11. CASE r # 0 /\ a = b
  <2>1. r <= t /\ t # 0
    <3>1. den * a \in Int
      BY <1>3
    <3>2. QED
      BY <1>3, <1>6, <1>11, <3>1
  <2> DEFINE d == s[a + 2] - s[a + 1]
  <2>2. d \in Nat /\ r \in Int /\ t \in Int
    BY <1>2, <1>3, <1>8, <1>11
  <2>3. p = den * s[a + 1] + r * d /\ q = den * s[a + 1] + t * d
    BY <1>4, <1>5, <1>11, <2>1
  <2> HIDE DEF d
  <2>4. d * r <= d * t /\ d * r \in Int /\ d * t \in Int
    BY ONLY <2>1, <2>2, Times
  <2>5. r * d = d * r /\ t * d = d * t /\ den * s[a + 1] \in Int
    BY <1>8, <2>2
  <2>6. QED
    BY <2>3, <2>4, <2>5 DEF p, q
<1>12. QED
  BY <1>3, <1>7, <1>9, <1>10, <1>11

\* Of up to a hundred numbers only the last can lie above the 0.99 quantile.
LEMMA LastAbove ==
  ASSUME NEW n \in Nat, n > 0, n <= 100, NEW s, \A p \in 1..n : s[p] \in Int,
         \A p, q \in 1..n : p <= q => s[p] <= s[q],
         NEW p \in 1..n, 100 * s[p] > 100 * s[At0(n, 99, 100) + 1]
  PROVE  p = n
<1> DEFINE a == At0(n, 99, 100)
           r == Rest0(n, 99, 100)
<1>1. 99 \in 0..100 /\ 100 \in Nat /\ 100 > 0
  OBVIOUS
<1>2. a \in 0..n - 1 /\ r \in 0..100 - 1 /\ (n - 1) * 99 = 100 * a + r
  BY ONLY n \in Nat, n > 0, <1>1, QuantilePlace
<1> HIDE DEF a, r
<1>3. n = 1 \/ (a = n - 2 /\ n > 1)
  BY ONLY n \in Nat, n > 0, n <= 100, <1>2
<1>4. CASE n > 1 /\ a = n - 2
  <2>1. n - 1 \in 1..n /\ a + 1 = n - 1
    BY <1>4
  <2>2. s[n - 1] \in Int /\ s[p] \in Int /\ 100 * s[p] > 100 * s[n - 1]
    BY <2>1 DEF a
  <2>3. ~(p <= n - 1)
    BY <2>1, <2>2
  <2>4. QED
    BY <2>3
<1>5. QED
  BY <1>3, <1>4

LEMMA FewAbove ==
  ASSUME NEW n \in Nat, n > 0, n <= 100, NEW numbers \in [1..n -> Int]
  PROVE  Cardinality({i \in 1..n : 100 * numbers[i] > Quantile(numbers, 99, 100)}) <= 1
<1> DEFINE above == {i \in 1..n : 100 * numbers[i] > Quantile(numbers, 99, 100)}
<1>1. PICK s : s = Ascending(numbers)
  OBVIOUS
<1>2. /\ \A p \in 1..n : s[p] \in Int
      /\ \A p, q \in 1..n : p <= q => s[p] <= s[q]
      /\ \E at : (\A p \in 1..n : s[p] = numbers[at[p]]) /\ \A i \in 1..n : \E p \in 1..n : at[p] = i
  <2>1. PICK at \in [1..n -> 1..n] :
           /\ Ascending(numbers) = [p \in 1..n |-> numbers[at[p]]]
           /\ Ascending(numbers) \in [1..n -> Int] /\ Len(Ascending(numbers)) = n
           /\ \A p, q \in 1..n : p <= q => Ascending(numbers)[p] <= Ascending(numbers)[q]
           /\ \A i \in 1..n : \E p \in 1..n : at[p] = i
    BY ONLY n \in Nat, numbers \in [1..n -> Int], SortedNumbers
  <2>2. \A p \in 1..n : Ascending(numbers)[p] = numbers[at[p]]
    BY <2>1
  <2>3. \A p \in 1..n : Ascending(numbers)[p] \in Int
    BY <2>1
  <2>4. QED
    BY <1>1, <2>1, <2>2, <2>3
<1>3. PICK at : (\A p \in 1..n : s[p] = numbers[at[p]]) /\ \A i \in 1..n : \E p \in 1..n : at[p] = i
  BY <1>2
<1>4. Quantile(numbers, 99, 100) \in Int /\ 100 * s[At0(n, 99, 100) + 1] <= Quantile(numbers, 99, 100)
  <2>1. 99 \in 0..100 /\ 100 \in Nat /\ 100 > 0
    OBVIOUS
  <2>2. QED
    BY ONLY <1>1, <2>1, n \in Nat, n > 0, numbers \in [1..n -> Int], QuantileBounds
<1>5. At0(n, 99, 100) + 1 \in 1..n
  <2>1. 99 \in 0..100 /\ 100 \in Nat /\ 100 > 0
    OBVIOUS
  <2>2. At0(n, 99, 100) \in 0..n - 1
    BY ONLY <2>1, n \in Nat, n > 0, QuantilePlace
  <2>3. QED
    BY <2>2
<1>6. \A i \in above : i = at[n]
  <2> SUFFICES ASSUME NEW i \in above PROVE i = at[n]
    OBVIOUS
  <2>1. i \in 1..n /\ 100 * numbers[i] > Quantile(numbers, 99, 100)
    OBVIOUS
  <2> HIDE DEF above
  <2>2. PICK p \in 1..n : at[p] = i
    BY <1>3, <2>1
  <2>3. s[p] = numbers[i] /\ s[p] \in Int /\ s[At0(n, 99, 100) + 1] \in Int
    BY <1>2, <1>3, <1>5, <2>2
  <2>4. 100 * s[p] > 100 * s[At0(n, 99, 100) + 1]
    BY ONLY <1>4, <2>1, <2>3
  <2>5. p = n
    BY ONLY n \in Nat, n > 0, n <= 100, p \in 1..n, <1>2, <2>4, LastAbove
  <2>6. QED
    BY <2>2, <2>5
<1>7. above \in SUBSET {at[n]}
  <2> HIDE DEF above
  <2>1. QED
    BY <1>6
<1>8. IsFiniteSet({at[n]}) /\ Cardinality({at[n]}) = 1
  BY FS_Singleton
<1> HIDE DEF above
<1>9. IsFiniteSet(above) /\ Cardinality(above) <= Cardinality({at[n]})
  BY <1>7, <1>8, FS_Subset
<1>10. QED
  BY <1>8, <1>9 DEF above

\* Rows with so many numbers that they can be counted.
Countable(rows) == Listed(rows) /\ \A i \in DOMAIN rows : IsFiniteSet(DOMAIN rows[i].value)

LEMMA ScoreCounts ==
  ASSUME NEW train, NEW taught, NEW row, IsFiniteSet(DOMAIN row.value)
  PROVE  Score(train, taught, row) \in Nat
<1> DEFINE beyond == {c \in DOMAIN row.value :
             \/ \A i \in taught : train[i].value[c] < row.value[c]
             \/ \A i \in taught : train[i].value[c] > row.value[c]}
<1>1. beyond \in SUBSET DOMAIN row.value
  OBVIOUS
<1>2. Score(train, taught, row) = Cardinality(beyond) + IF \A i \in taught : train[i].delta < row.delta THEN 1 ELSE 0
  BY DEF Score
<1> HIDE DEF beyond
<1>3. Cardinality(beyond) \in Nat
  BY <1>1, FS_Subset, FS_CardinalityType
<1>4. QED
  BY <1>2, <1>3

\* The threshold of a hundred rows flags at most one of them.
LEMMA BudgetKept ==
  ASSUME NEW rows, Countable(rows), rows # <<>>, Len(rows) <= 100
  PROVE  Cardinality(Flagged(rows, rows)) <= 1
<1> DEFINE n == Len(rows)
           numbers == [i \in DOMAIN rows |-> Score(rows, Taught(rows), rows[i])]
<1>1. rows \in Seq(ToSet(rows)) /\ DOMAIN rows = 1..n /\ n \in Nat /\ n > 0 /\ n <= 100
  <2>1. rows \in Seq(ToSet(rows))
    BY DEF Countable, Listed
  <2>2. n \in Nat /\ n # 0 /\ n <= 100
    BY <2>1
  <2>3. DOMAIN rows = 1..n
    BY <2>1
  <2> HIDE DEF n
  <2>4. QED
    BY <2>1, <2>2, <2>3
<1>2. \A i \in 1..n : Score(rows, Taught(rows), rows[i]) \in Int
  BY <1>1, ScoreCounts DEF Countable
<1>3. numbers \in [1..n -> Int]
  BY <1>1, <1>2
<1>4. Threshold(rows) = Quantile(numbers, 99, 100)
  BY DEF Threshold
<1>5. Flagged(rows, rows) = {i \in 1..n : 100 * numbers[i] > Quantile(numbers, 99, 100)}
  BY <1>1, <1>4 DEF Flagged
<1> HIDE DEF n, numbers
<1>6. Cardinality({i \in 1..n : 100 * numbers[i] > Quantile(numbers, 99, 100)}) <= 1
  BY ONLY <1>1, <1>3, FewAbove
<1>7. QED
  BY <1>5, <1>6

-----------------------------------------------------------------------------
(* The rows of a canonical file, sorted.                                   *)

NameSet == ToSet(Names) \cup {Missing}

\* Names have ranks of their own.
LEMMA RankFacts ==
  /\ \A a \in NameSet : Rank(a) \in Nat
  /\ \A a, b \in NameSet : Rank(a) = Rank(b) => a = b
<1>1. Names \in Seq(ToSet(Names)) /\ DOMAIN Names = 1..Len(Names) /\ Len(Names) \in Nat
  BY AdapterAssumption DEF Listed
<1>2. \A a \in NameSet : a # Missing => Rank(a) \in DOMAIN Names /\ Names[Rank(a)] = a
  <2> SUFFICES ASSUME NEW a \in NameSet, a # Missing PROVE Rank(a) \in DOMAIN Names /\ Names[Rank(a)] = a
    OBVIOUS
  <2>1. \E i \in DOMAIN Names : Names[i] = a
    BY DEF NameSet, ToSet
  <2>2. QED
    BY <2>1 DEF Rank
<1>3. Rank(Missing) = Len(Names) + 1
  BY DEF Rank
<1>4. QED
  BY <1>1, <1>2, <1>3

\* A row whose names are names.
Named(row) == row["device_id"] \in NameSet /\ row["interface_id"] \in NameSet

LEMMA BeforeOrder ==
  ASSUME NEW a, NEW b, NEW c, Named(a), Named(b), Named(c)
  PROVE  /\ ~Before(a, a)
         /\ Before(a, b) /\ Before(b, c) => Before(a, c)
         /\ Before(a, b) => Before(a, c) \/ Before(c, b)
         /\ a["timestamp"] \in Int /\ b["timestamp"] \in Int /\ ~Before(a, b) /\ ~Before(b, a) => Key(a) = Key(b)
<1> DEFINE First(x) == Rank(x["device_id"])
           Then(x) == Rank(x["interface_id"])
           Sooner(x, y) == x["timestamp"] \in Int /\ (y["timestamp"] \in Int => x["timestamp"] < y["timestamp"])
<1>1. \A x \in {a, b, c} : First(x) \in Nat /\ Then(x) \in Nat
  BY RankFacts DEF Named
<1>2. \A x, y \in {a, b, c} :
        /\ First(x) = First(y) <=> x["device_id"] = y["device_id"]
        /\ Then(x) = Then(y) <=> x["interface_id"] = y["interface_id"]
  BY RankFacts DEF Named
<1>3. \A x, y \in {a, b, c} :
        Before(x, y) <=> \/ First(x) < First(y)
                         \/ First(x) = First(y) /\ Then(x) < Then(y)
                         \/ First(x) = First(y) /\ Then(x) = Then(y) /\ Sooner(x, y)
  BY <1>2 DEF Before
<1>4. \A x, y, z \in {a, b, c} :
        /\ ~Sooner(x, x)
        /\ Sooner(x, y) /\ Sooner(y, z) => Sooner(x, z)
        /\ Sooner(x, y) => Sooner(x, z) \/ Sooner(z, y)
  OBVIOUS
<1>5. ASSUME a["timestamp"] \in Int, b["timestamp"] \in Int, ~Before(a, b), ~Before(b, a)
      PROVE  Key(a) = Key(b)
  <2>1. First(a) = First(b) /\ Then(a) = Then(b)
    <3> HIDE DEF First, Then, Sooner
    <3>1. QED
      BY <1>1, <1>3, <1>5
  <2>2. ~Sooner(a, b) /\ ~Sooner(b, a)
    <3> HIDE DEF First, Then, Sooner
    <3>1. QED
      BY <1>3, <1>5, <2>1
  <2>3. a["timestamp"] = b["timestamp"]
    BY <1>5, <2>2
  <2>4. QED
    BY <1>2, <2>1, <2>3 DEF Key
<1> HIDE DEF First, Then, Sooner
<1>6. ~Before(a, a)
  BY <1>1, <1>3, <1>4
<1>7. Before(a, b) /\ Before(b, c) => Before(a, c)
  BY <1>1, <1>3, <1>4
<1>8. Before(a, b) => Before(a, c) \/ Before(c, b)
  BY <1>1, <1>3, <1>4
<1>9. QED
  BY <1>5, <1>6, <1>7, <1>8

\* The order of a stable sort by B.
Stable(B, n) == {x \in (1..n) \X (1..n) : x \in B \/ (x[1] < x[2] /\ <<x[2], x[1]>> \notin B)}

LEMMA StableOrder ==
  ASSUME NEW n \in Nat, NEW B,
         \A i \in 1..n : <<i, i>> \notin B,
         \A i, j, k \in 1..n : <<i, j>> \in B /\ <<j, k>> \in B => <<i, k>> \in B,
         \A i, j, k \in 1..n : <<i, j>> \in B => <<i, k>> \in B \/ <<k, j>> \in B
  PROVE  StrictOrder(Stable(B, n), n)
<1>1. \A i, j \in 1..n : <<i, j>> \in Stable(B, n) <=> <<i, j>> \in B \/ (i < j /\ <<j, i>> \notin B)
  BY DEF Stable
<1>2. ASSUME NEW i \in 1..n PROVE <<i, i>> \notin Stable(B, n)
  BY <1>1, ~(i < i)
<1>3. ASSUME NEW i \in 1..n, NEW j \in 1..n, i # j
      PROVE  <<i, j>> \in Stable(B, n) \/ <<j, i>> \in Stable(B, n)
  <2>1. i < j \/ j < i
    BY <1>3
  <2>2. QED
    BY <1>1, <2>1
<1>4. ASSUME NEW i \in 1..n, NEW j \in 1..n, NEW k \in 1..n, <<i, j>> \in Stable(B, n), <<j, k>> \in Stable(B, n)
      PROVE  <<i, k>> \in Stable(B, n)
  <2>1. \A x, y \in 1..n : <<x, y>> \in B => <<y, x>> \notin B
    OBVIOUS
  <2>2. CASE <<i, j>> \in B
    BY <1>1, <1>4, <2>1, <2>2
  <2>3. CASE <<j, k>> \in B
    BY <1>1, <1>4, <2>1, <2>3
  <2>4. CASE <<i, j>> \notin B /\ <<j, k>> \notin B
    <3>1. i < j /\ <<j, i>> \notin B /\ j < k /\ <<k, j>> \notin B
      BY <1>1, <1>4, <2>4
    <3>2. i < k /\ <<k, i>> \notin B
      BY <3>1
    <3>3. QED
      BY <1>1, <3>2
  <2>5. QED
    BY <2>2, <2>3, <2>4
<1>5. QED
  BY <1>2, <1>3, <1>4 DEF StrictOrder

\* The pairs of rows of which the first goes before the second.
RowOrder(rows) == {x \in (1..Len(rows)) \X (1..Len(rows)) : Before(rows[x[1]], rows[x[2]])}
\* at says where the sorted rows were.
Sorting(at, rows, out) ==
  /\ \A p \in 1..Len(rows) : at[p] \in 1..Len(rows) /\ out[p] = rows[at[p]]
  /\ InOrder(at, Stable(RowOrder(rows), Len(rows)), Len(rows))

LEMMA SortedRows ==
  ASSUME NEW rows, Listed(rows), \A i \in DOMAIN rows : Named(rows[i])
  PROVE  /\ Listed(SortedBy(rows, Before)) /\ Len(SortedBy(rows, Before)) = Len(rows)
         /\ \E at : Sorting(at, rows, SortedBy(rows, Before))
<1> DEFINE n == Len(rows)
           B == RowOrder(rows)
           R == Stable(B, n)
           place == [i \in DOMAIN rows |->
             1 + Cardinality({j \in DOMAIN rows : Before(rows[j], rows[i]) \/ (j < i /\ ~Before(rows[i], rows[j]))})]
           at == [p \in DOMAIN rows |-> CHOOSE i \in DOMAIN rows : place[i] = p]
           out == SortedBy(rows, Before)
<1>1. n \in Nat /\ DOMAIN rows = 1..n
  BY DEF Listed
<1>2. \A i, j \in 1..n : <<i, j>> \in B <=> Before(rows[i], rows[j])
  BY <1>1 DEF RowOrder
<1>3. StrictOrder(R, n)
  <2>1. \A i \in 1..n : <<i, i>> \notin B
    BY <1>1, <1>2, BeforeOrder
  <2>2. \A i, j, k \in 1..n : <<i, j>> \in B /\ <<j, k>> \in B => <<i, k>> \in B
    <3> SUFFICES ASSUME NEW i \in 1..n, NEW j \in 1..n, NEW k \in 1..n, <<i, j>> \in B, <<j, k>> \in B
                 PROVE  <<i, k>> \in B
      OBVIOUS
    <3> HIDE DEF B
    <3>1. QED
      BY <1>1, <1>2, BeforeOrder
  <2>3. \A i, j, k \in 1..n : <<i, j>> \in B => <<i, k>> \in B \/ <<k, j>> \in B
    <3> SUFFICES ASSUME NEW i \in 1..n, NEW j \in 1..n, NEW k \in 1..n, <<i, j>> \in B
                 PROVE  <<i, k>> \in B \/ <<k, j>> \in B
      OBVIOUS
    <3> HIDE DEF B
    <3>1. QED
      BY <1>1, <1>2, BeforeOrder
  <2> HIDE DEF B, n
  <2>4. QED
    BY ONLY <1>1, <2>1, <2>2, <2>3, StableOrder
<1>4. \A i \in 1..n : place[i] = Place(1..n, R, i)
  <2> SUFFICES ASSUME NEW i \in 1..n PROVE place[i] = Place(1..n, R, i)
    OBVIOUS
  <2>1. \A j \in 1..n : <<j, i>> \in R <=> Before(rows[j], rows[i]) \/ (j < i /\ ~Before(rows[i], rows[j]))
    BY <1>2 DEF Stable
  <2> HIDE DEF R, B
  <2>2. {j \in DOMAIN rows : Before(rows[j], rows[i]) \/ (j < i /\ ~Before(rows[i], rows[j]))}
          = {j \in 1..n : <<j, i>> \in R}
    BY <1>1, <2>1
  <2>3. QED
    BY <1>1, <2>2 DEF Place
<1>5. out = [p \in DOMAIN rows |-> rows[CHOOSE i \in DOMAIN rows : place[i] = p]]
  BY DEF SortedBy
<1> HIDE DEF out, R, place, n
<1>6. Placing(at, R, n)
  <2> SUFFICES ASSUME NEW p \in 1..n PROVE at[p] \in 1..n /\ Place(1..n, R, at[p]) = p
    BY DEF Placing
  <2>1. \E i \in 1..n : place[i] = p
    <3>1. \E i \in 1..n : Place(1..n, R, i) = p
      BY ONLY <1>1, p \in 1..n, <1>3, Placed
    <3>2. QED
      BY <1>4, <3>1
  <2>2. QED
    BY <1>1, <1>4, <2>1
<1>7. DOMAIN out = 1..n /\ out = [p \in 1..n |-> out[p]] /\ \A p \in 1..n : at[p] \in 1..n /\ out[p] = rows[at[p]]
  BY <1>1, <1>5, <1>6 DEF Placing
<1> HIDE DEF at
<1>8. InOrder(at, R, n)
  BY ONLY <1>1, <1>3, <1>6, SortedFacts
<1>9. Listed(out) /\ Len(out) = n
  BY ONLY <1>1, <1>7, MadeOf
<1>10. Sorting(at, rows, out)
  BY <1>7, <1>8 DEF Sorting, R, n
<1>11. QED
  BY <1>9, <1>10 DEF out, n

-----------------------------------------------------------------------------
(* The rows of a canonical file, prepared.                                 *)

\* A canonical file.
Frame(frame) ==
  /\ DOMAIN frame = {"columns", "rows"} /\ ToSet(Core) \subseteq frame.columns /\ Listed(frame.rows)
  /\ \A i \in DOMAIN frame.rows : DOMAIN frame.rows[i] = frame.columns /\ Named(frame.rows[i])

CoreIs == ToSet(Core) = {"timestamp", "device_id", "interface_id"}
LEMMA CoreColumns == CoreIs
<1>1. Core[1] = "timestamp" /\ Core[2] = "device_id" /\ Core[3] = "interface_id"
  BY DEF Core
<1>2. DOMAIN Core = 1..3
  BY DEF Core
<1>3. 1..3 = {1, 2, 3}
  OBVIOUS
<1>4. QED
  BY <1>1, <1>2, <1>3 DEF CoreIs, ToSet

\* A row that was read from the file, with a time.
ReadFrom(frame, row) ==
  /\ row.id \in DOMAIN frame.rows
  /\ DOMAIN row = frame.columns \cup {"timestamp", "id"}
  /\ row["timestamp"] \in Int /\ row["timestamp"] = frame.rows[row.id]["timestamp"]
  /\ \A c \in frame.columns \ {"timestamp", "id"} : row[c] = frame.rows[row.id][c]
  /\ Named(row)

LEMMA NumberedRow ==
  ASSUME NEW frame, Frame(frame), NEW k \in DOMAIN frame.rows, Numbered(frame)[k]["timestamp"] # Missing
  PROVE  ReadFrom(frame, Numbered(frame)[k]) /\ Numbered(frame)[k].id = k
<1> DEFINE more == [timestamp |-> Numeric(frame.rows[k]["timestamp"]), id |-> k]
           row == Numbered(frame)[k]
<1>1. row = With(frame.rows[k], more)
  BY DEF Numbered
<1>2. DOMAIN more = {"timestamp", "id"} /\ more["timestamp"] = Numeric(frame.rows[k]["timestamp"]) /\ more["id"] = k
  OBVIOUS
<1>3. DOMAIN frame.rows[k] = frame.columns /\ Named(frame.rows[k]) /\ ToSet(Core) \subseteq frame.columns
  BY DEF Frame
<1> HIDE DEF more, row
<1>4. /\ DOMAIN row = frame.columns \cup {"timestamp", "id"}
      /\ row["timestamp"] = Numeric(frame.rows[k]["timestamp"]) /\ row["id"] = k
      /\ \A c \in frame.columns \ {"timestamp", "id"} : row[c] = frame.rows[k][c]
  BY <1>1, <1>2, <1>3 DEF With
<1>5. row["timestamp"] \in Int /\ row["timestamp"] = frame.rows[k]["timestamp"]
  BY <1>4 DEF Numeric, row
<1>6. Named(row)
  BY <1>3, <1>4, CoreColumns DEF Named, CoreIs
<1>7. row.id = k
  BY <1>4
<1>8. QED
  BY <1>4, <1>5, <1>6, <1>7 DEF ReadFrom, row

\* What is read keeps the key and the series it has in the file.
LEMMA ReadKey ==
  ASSUME NEW frame, Frame(frame), NEW row, ReadFrom(frame, row)
  PROVE  Key(row) = Key(frame.rows[row.id]) /\ Series(row) = Series(frame.rows[row.id])
<1>1. {"device_id", "interface_id"} \subseteq frame.columns \ {"timestamp", "id"}
  BY CoreColumns DEF CoreIs, Frame
<1>2. QED
  BY <1>1 DEF ReadFrom, Key, Series

\* What Ordered makes of a file: its rows with a time, in the order of the
\* series and of time, none twice and of each key the first.
LEMMA OrderedFacts ==
  ASSUME NEW frame, Frame(frame)
  PROVE  /\ Listed(Ordered(frame))
         /\ \A i \in DOMAIN Ordered(frame) : ReadFrom(frame, Ordered(frame)[i])
         /\ \A i, j \in DOMAIN Ordered(frame) : i < j => Before(Ordered(frame)[i], Ordered(frame)[j])
         /\ \A k \in DOMAIN frame.rows : FirstOfKey(frame.rows, k) /\ frame.rows[k]["timestamp"] \in Int =>
              \E i \in DOMAIN Ordered(frame) : Ordered(frame)[i].id = k
<1> DEFINE n == Len(frame.rows)
           numbered == Numbered(frame)
           T == {i \in DOMAIN numbered : numbered[i]["timestamp"] # Missing}
           timed == Timed(numbered)
           m == Len(timed)
           sorted == SortedBy(timed, Before)
           D == {i \in DOMAIN sorted : \A j \in 1..(i-1) : Key(sorted[j]) # Key(sorted[i])}
           out == Deduplicated(sorted)
<1>1. n \in Nat /\ DOMAIN frame.rows = 1..n
  BY DEF Frame, Listed
<1>2. Listed(numbered) /\ DOMAIN numbered = 1..n
  <2>1. numbered = [p \in 1..n |-> numbered[p]]
    BY <1>1 DEF Numbered
  <2> HIDE DEF numbered, n
  <2>2. QED
    BY ONLY <1>1, <2>1, MadeOf
<1>3. timed = ChosenAt(numbered, T) /\ T \in SUBSET DOMAIN numbered
  BY DEF Timed
<1>4. \A i \in T : ReadFrom(frame, numbered[i]) /\ numbered[i].id = i
  BY <1>1, <1>2, NumberedRow
<1>19. \A k \in DOMAIN frame.rows : frame.rows[k]["timestamp"] \in Int => k \in T
  <2> SUFFICES ASSUME NEW k \in DOMAIN frame.rows, frame.rows[k]["timestamp"] \in Int PROVE k \in T
    OBVIOUS
  <2> DEFINE more == [timestamp |-> Numeric(frame.rows[k]["timestamp"]), id |-> k]
  <2>1. numbered[k] = With(frame.rows[k], more)
    BY DEF Numbered
  <2>2. more["timestamp"] = frame.rows[k]["timestamp"] /\ "timestamp" \in DOMAIN more
    BY DEF Numeric
  <2> HIDE DEF numbered, more
  <2>3. numbered[k]["timestamp"] = frame.rows[k]["timestamp"]
    BY <2>1, <2>2 DEF With
  <2>4. QED
    BY <1>1, <1>2, <2>3, AdapterAssumption
<1> HIDE DEF numbered, T, timed
<1>20. /\ Listed(timed) /\ DOMAIN timed = 1..Cardinality(T)
       /\ \E of \in [1..Cardinality(T) -> T] :
            /\ \A p \in 1..Cardinality(T) : timed[p] = numbered[of[p]]
            /\ \A p, q \in 1..Cardinality(T) : p < q => of[p] < of[q]
            /\ \A i \in T : \E p \in 1..Cardinality(T) : of[p] = i
  BY <1>2, <1>3, ChosenFacts
<1>21. PICK of \in [1..Cardinality(T) -> T] :
            /\ \A p \in 1..Cardinality(T) : timed[p] = numbered[of[p]]
            /\ \A p, q \in 1..Cardinality(T) : p < q => of[p] < of[q]
            /\ \A i \in T : \E p \in 1..Cardinality(T) : of[p] = i
  BY <1>20
<1>5. Listed(timed) /\ \A p \in DOMAIN timed : ReadFrom(frame, timed[p])
  BY <1>4, <1>20, <1>21
<1>6. m \in Nat /\ DOMAIN timed = 1..m /\ \A p \in DOMAIN timed : Named(timed[p])
  BY <1>5 DEF Listed, ReadFrom
<1> HIDE DEF sorted
<1>7. Listed(sorted) /\ Len(sorted) = m /\ \E at : Sorting(at, timed, sorted)
  BY <1>5, <1>6, SortedRows DEF sorted
<1>8. PICK at : Sorting(at, timed, sorted)
  BY <1>7
<1> HIDE DEF m
<1>9. DOMAIN sorted = 1..m /\ \A p \in 1..m : at[p] \in 1..m /\ sorted[p] = timed[at[p]] /\ ReadFrom(frame, sorted[p])
  BY <1>5, <1>6, <1>7, <1>8 DEF Sorting, Listed, m
<1>10. ASSUME NEW p \in 1..m, NEW q \in 1..m, p < q PROVE ~Before(sorted[q], sorted[p])
  <2>1. <<at[p], at[q]>> \in Stable(RowOrder(timed), m)
    BY <1>8, <1>10 DEF Sorting, InOrder, m
  <2>2. at[p] \in 1..m /\ at[q] \in 1..m /\ sorted[p] = timed[at[p]] /\ sorted[q] = timed[at[q]]
    BY <1>9
  <2>3. <<at[p], at[q]>> \in RowOrder(timed) \/ <<at[q], at[p]>> \notin RowOrder(timed)
    BY <2>1 DEF Stable
  <2>4. Before(sorted[p], sorted[q]) \/ ~Before(sorted[q], sorted[p])
    BY <2>2, <2>3 DEF RowOrder, m
  <2>5. Named(sorted[p]) /\ Named(sorted[q])
    BY <1>9 DEF ReadFrom
  <2>6. QED
    BY <2>4, <2>5, BeforeOrder
<1>11. out = ChosenAt(sorted, D) /\ D \in SUBSET DOMAIN sorted
  BY DEF Deduplicated
<1>12. \A i, j \in D : i < j => Key(sorted[i]) # Key(sorted[j])
  <2> SUFFICES ASSUME NEW i \in D, NEW j \in D, i < j PROVE Key(sorted[i]) # Key(sorted[j])
    OBVIOUS
  <2>1. i \in 1..(j - 1)
    BY <1>6, <1>9
  <2>2. QED
    BY <2>1
<1> HIDE DEF D, out
<1>13. /\ Listed(out) /\ DOMAIN out = 1..Cardinality(D)
       /\ \E to \in [1..Cardinality(D) -> D] :
            /\ \A p \in 1..Cardinality(D) : out[p] = sorted[to[p]]
            /\ \A p, q \in 1..Cardinality(D) : p < q => to[p] < to[q]
            /\ \A i \in D : \E p \in 1..Cardinality(D) : to[p] = i
  BY <1>7, <1>11, ChosenFacts
<1>14. PICK to \in [1..Cardinality(D) -> D] :
            /\ \A p \in 1..Cardinality(D) : out[p] = sorted[to[p]]
            /\ \A p, q \in 1..Cardinality(D) : p < q => to[p] < to[q]
            /\ \A i \in D : \E p \in 1..Cardinality(D) : to[p] = i
  BY <1>13
<1>15. \A p \in DOMAIN out : ReadFrom(frame, out[p])
  BY <1>9, <1>11, <1>13, <1>14
<1>16. ASSUME NEW p \in DOMAIN out, NEW q \in DOMAIN out, p < q PROVE Before(out[p], out[q])
  <2>1. to[p] \in D /\ to[q] \in D /\ to[p] \in 1..m /\ to[q] \in 1..m /\ to[p] < to[q]
    BY <1>9, <1>11, <1>13, <1>14, <1>16
  <2>2. out[p] = sorted[to[p]] /\ out[q] = sorted[to[q]]
    BY <1>13, <1>14
  <2>3. Key(out[p]) # Key(out[q]) /\ ~Before(out[q], out[p])
    BY <1>10, <1>12, <2>1, <2>2
  <2>4. Named(out[p]) /\ Named(out[q]) /\ out[p]["timestamp"] \in Int /\ out[q]["timestamp"] \in Int
    BY <1>15 DEF ReadFrom
  <2>5. QED
    BY <2>3, <2>4, BeforeOrder
<1>22. ASSUME NEW k \in DOMAIN frame.rows, FirstOfKey(frame.rows, k), frame.rows[k]["timestamp"] \in Int
       PROVE  \E i \in DOMAIN out : out[i].id = k
  <2>1. k \in T /\ numbered[k].id = k
    BY <1>4, <1>19, <1>22
  <2>2. PICK t \in 1..Cardinality(T) : of[t] = k /\ timed[t] = numbered[k]
    BY <1>21, <2>1
  <2>3. PICK p \in 1..m : at[p] = t
    <3>1. t \in 1..m
      BY <1>6, <1>20, <2>2
    <3>2. QED
      BY <1>8, <3>1 DEF Sorting, InOrder, m
  <2>4. sorted[p] = timed[t] /\ sorted[p].id = k
    BY <1>9, <2>1, <2>2, <2>3
  <2>5. ASSUME NEW j \in 1..(p-1), Key(sorted[j]) = Key(sorted[p]) PROVE FALSE
    <3> DEFINE u == at[j]
    <3>1. j \in 1..m /\ j < p
      BY <1>6
    <3>2. u \in 1..m /\ t \in 1..m /\ sorted[j] = timed[u] /\ ReadFrom(frame, timed[u]) /\ ReadFrom(frame, timed[t])
      BY <1>9, <2>3, <2>4, <3>1
    <3>3. u \in 1..Cardinality(T) /\ timed[u] = numbered[of[u]] /\ of[u] \in T /\ timed[u].id = of[u]
      BY <1>4, <1>6, <1>20, <1>21, <3>2
    <3>4. Key(timed[u]) = Key(timed[t])
      BY <2>4, <2>5, <3>2
    <3>5. ~Before(timed[u], timed[t])
      <4> DEFINE a == timed[u]
                 b == timed[t]
      <4>1. /\ a["device_id"] = b["device_id"] /\ a["interface_id"] = b["interface_id"]
            /\ a["timestamp"] = b["timestamp"]
        BY <3>4 DEF Key
      <4>2. a["timestamp"] \in Int /\ Rank(a["device_id"]) \in Nat /\ Rank(a["interface_id"]) \in Nat
        BY <3>2, RankFacts DEF ReadFrom, Named
      <4> HIDE DEF a, b
      <4>3. ~Before(a, b)
        BY <4>1, <4>2 DEF Before
      <4>4. QED
        BY <4>3 DEF a, b
    <3>6. <<u, t>> \in Stable(RowOrder(timed), m)
      BY <1>8, <2>3, <3>1 DEF Sorting, InOrder, m
    <3>7. u < t
      BY <3>5, <3>6 DEF Stable, RowOrder
    <3>8. of[u] < k /\ of[u] \in DOMAIN frame.rows /\ k \in Nat
      <4>1. of[u] < of[t]
        BY <1>21, <2>2, <3>3, <3>7
      <4>2. QED
        BY <1>1, <1>2, <1>3, <2>2, <3>3, <4>1
    <3>9. of[u] \in 1..(k-1)
      BY <1>1, <3>8
    <3>10. Key(frame.rows[of[u]]) = Key(frame.rows[k])
      <4>1. timed[t].id = k
        BY <2>4
      <4>2. Key(timed[u]) = Key(frame.rows[of[u]]) /\ Key(timed[t]) = Key(frame.rows[k])
        BY <3>2, <3>3, <4>1, ReadKey
      <4>3. QED
        BY <3>4, <4>2
    <3>11. QED
      BY <1>22, <3>9, <3>10 DEF FirstOfKey
  <2>6. p \in D
    BY <1>9, <2>3, <2>5 DEF D
  <2>7. PICK q \in 1..Cardinality(D) : to[q] = p
    BY <1>14, <2>6
  <2>8. QED
    BY <1>13, <1>14, <2>4, <2>7
<1>17. Ordered(frame) = out
  BY DEF Ordered, out, sorted, timed, numbered
<1>18. QED
  BY <1>13, <1>15, <1>16, <1>17, <1>22

\* Rows that come from rows of the file, in their order.
Precedes(a, b) ==
  \/ Rank(a.series[1]) < Rank(b.series[1])
  \/ a.series[1] = b.series[1] /\ Rank(a.series[2]) < Rank(b.series[2])
  \/ a.series[1] = b.series[1] /\ a.series[2] = b.series[2] /\ a.time < b.time

Fields == {"id", "time", "series", "status", "from", "value"}

\* A row with its holes filled: each number was read in some row of the series.
FilledFrom(rows, columns, row, r) ==
  /\ Fields \subseteq DOMAIN r
  /\ r.time = row["timestamp"] /\ r.series = Series(row)
  /\ r.status = IF Status \in DOMAIN row THEN row[Status] ELSE Missing
  /\ DOMAIN r.value = columns
  /\ \A c \in columns : \E j \in DOMAIN rows : Numeric(rows[j][c]) # Missing /\ r.value[c] = rows[j][c]

\* Row j has a number for row i: it is of the series, and behind row i only when
\* no row of the series up to row i has one.
HasFor(rows, c, i, j) ==
  /\ j \in DOMAIN rows /\ Numeric(rows[j][c]) # Missing /\ Series(rows[j]) = Series(rows[i])
  /\ j > i => \A m \in 1..i : Series(rows[m]) = Series(rows[i]) => Numeric(rows[m][c]) = Missing

\* The row r made of row i says where its numbers are from.
FromRows(rows, columns, i, r) ==
  \A c \in columns : \E j \in DOMAIN rows : r.from[c] = rows[j].id /\ HasFor(rows, c, i, j)

LEMMA SourceHas ==
  ASSUME NEW rows, Listed(rows), NEW c, NEW i \in DOMAIN rows, SourceOf(rows, c, i) # 0
  PROVE  HasFor(rows, c, i, SourceOf(rows, c, i))
<1> DEFINE having == {j \in DOMAIN rows :
             Series(rows[j]) = Series(rows[i]) /\ Numeric(rows[j][c]) # Missing /\ Missing \notin ToSet(Series(rows[i]))}
           before == {j \in having : j <= i}
           n == Len(rows)
<1>1. n \in Nat /\ DOMAIN rows = 1..n
  BY DEF Listed
<1>2. SourceOf(rows, c, i) = CASE before # {} -> Largest(before)
                               [] before = {} /\ having # {} -> Smallest(having)
                               [] OTHER -> 0
  BY DEF SourceOf
<1>3. \A j \in having : j \in DOMAIN rows /\ Numeric(rows[j][c]) # Missing /\ Series(rows[j]) = Series(rows[i])
  OBVIOUS
<1>4. before \in SUBSET having /\ \A j \in before : j <= i
  OBVIOUS
<1>9. before = {} /\ having # {} =>
        \A m \in 1..i : Series(rows[m]) = Series(rows[i]) => Numeric(rows[m][c]) = Missing
  <2> SUFFICES ASSUME before = {}, having # {}, NEW m \in 1..i, Series(rows[m]) = Series(rows[i]),
                      Numeric(rows[m][c]) # Missing
               PROVE  FALSE
    OBVIOUS
  <2>1. m \in DOMAIN rows /\ m <= i
    BY <1>1
  <2>2. Missing \notin ToSet(Series(rows[i]))
    OBVIOUS
  <2>3. m \in before
    BY <2>1, <2>2
  <2>4. QED
    BY <2>3
<1> HIDE DEF having, before, n
<1>5. having \in SUBSET (1..n) /\ before \in SUBSET (1..n) /\ having \subseteq Nat
  BY <1>1, <1>3, <1>4
<1>6. CASE before # {}
  <2>1. Largest(before) \in before
    BY ONLY <1>1, <1>5, <1>6, LargestIs
  <2>2. ~(Largest(before) > i)
    <3> DEFINE x == Largest(before)
    <3>1. x <= i /\ x \in 1..n /\ i \in 1..n
      BY <1>1, <1>4, <1>5, <2>1
    <3> HIDE DEF x
    <3>2. ~(x > i)
      BY <1>1, <3>1
    <3>3. QED
      BY <3>2 DEF x
  <2>3. QED
    BY <1>2, <1>3, <1>4, <1>6, <2>1, <2>2 DEF HasFor
<1>7. CASE before = {} /\ having # {}
  <2>1. Smallest(having) \in having
    BY ONLY <1>5, <1>7, SmallestIs
  <2>2. QED
    BY <1>2, <1>3, <1>7, <1>9, <2>1 DEF HasFor
<1>8. CASE before = {} /\ having = {}
  BY <1>2, <1>8
<1>10. QED
  BY <1>6, <1>7, <1>8

\* What is filled stays in its order.
LEMMA FilledFacts ==
  ASSUME NEW rows, Listed(rows), NEW columns
  PROVE  /\ Listed(Filled(rows, columns))
         /\ \E at : /\ \A p \in DOMAIN Filled(rows, columns) :
                         /\ at[p] \in DOMAIN rows /\ FilledFrom(rows, columns, rows[at[p]], Filled(rows, columns)[p])
                         /\ FromRows(rows, columns, at[p], Filled(rows, columns)[p])
                    /\ \A p, q \in DOMAIN Filled(rows, columns) : p < q => at[p] < at[q]
<1> DEFINE n == Len(rows)
           source == [i \in DOMAIN rows |-> [c \in columns |-> SourceOf(rows, c, i)]]
           base(i) ==
             [ id |-> rows[i].id, time |-> rows[i]["timestamp"], series |-> Series(rows[i]),
               status |-> IF Status \in DOMAIN rows[i] THEN rows[i][Status] ELSE Missing,
               from |-> [c \in columns |-> IF source[i][c] = 0 THEN 0 ELSE rows[source[i][c]].id],
               value |-> [c \in columns |-> IF source[i][c] = 0 THEN 0 ELSE rows[source[i][c]][c]] ]
           more(i) == [c \in {"label"} \cap DOMAIN rows[i] |-> rows[i][c]]
           whole == [i \in DOMAIN rows |-> With(base(i), more(i))]
           S == {i \in DOMAIN rows : \A c \in columns : source[i][c] # 0}
           out == Filled(rows, columns)
<1>1. n \in Nat /\ DOMAIN rows = 1..n
  BY DEF Listed
<1>2. out = ChosenAt(whole, S)
  BY DEF Filled
<1>3. Listed(whole) /\ DOMAIN whole = 1..n
  <2>1. whole = [i \in 1..n |-> whole[i]]
    BY <1>1
  <2> HIDE DEF whole, n
  <2>2. QED
    BY ONLY <1>1, <2>1, MadeOf
<1>4. ASSUME NEW i \in S PROVE FilledFrom(rows, columns, rows[i], whole[i]) /\ FromRows(rows, columns, i, whole[i])
  <2>1. whole[i] = With(base(i), more(i)) /\ i \in DOMAIN rows
    OBVIOUS
  <2>2. /\ DOMAIN base(i) = Fields /\ DOMAIN more(i) \subseteq {"label"}
        /\ base(i).time = rows[i]["timestamp"] /\ base(i).series = Series(rows[i])
        /\ base(i).status = IF Status \in DOMAIN rows[i] THEN rows[i][Status] ELSE Missing
        /\ base(i).value = [c \in columns |-> IF source[i][c] = 0 THEN 0 ELSE rows[source[i][c]][c]]
        /\ base(i).from = [c \in columns |-> IF source[i][c] = 0 THEN 0 ELSE rows[source[i][c]].id]
    BY DEF Fields
  <2>3. \A c \in columns : source[i][c] = SourceOf(rows, c, i) /\ source[i][c] # 0
    OBVIOUS
  <2>4. \A c \in columns :
          /\ SourceOf(rows, c, i) # 0 /\ base(i).value[c] = rows[SourceOf(rows, c, i)][c]
          /\ base(i).from[c] = rows[SourceOf(rows, c, i)].id
    BY <2>2, <2>3
  <2>5. DOMAIN base(i).value = columns
    BY <2>2
  <2> HIDE DEF base, more, whole, S, source
  <2>6. \A f \in Fields : f \in DOMAIN whole[i] /\ whole[i][f] = base(i)[f]
    BY <2>1, <2>2 DEF With, Fields
  <2>7. /\ whole[i].time = base(i).time /\ whole[i].series = base(i).series
        /\ whole[i].status = base(i).status /\ whole[i].value = base(i).value /\ whole[i].from = base(i).from
    BY <2>6 DEF Fields
  <2>8. \A c \in columns : \E j \in DOMAIN rows : Numeric(rows[j][c]) # Missing /\ whole[i].value[c] = rows[j][c]
    BY <2>1, <2>4, <2>7, SourceHas DEF HasFor
  <2>11. FromRows(rows, columns, i, whole[i])
    <3> SUFFICES ASSUME NEW c \in columns
                 PROVE  \E j \in DOMAIN rows : whole[i].from[c] = rows[j].id /\ HasFor(rows, c, i, j)
      BY DEF FromRows
    <3>1. HasFor(rows, c, i, SourceOf(rows, c, i))
      BY <2>1, <2>4, SourceHas
    <3>2. SourceOf(rows, c, i) \in DOMAIN rows
      BY <3>1 DEF HasFor
    <3>3. QED
      BY <2>4, <2>7, <3>1, <3>2
  <2>9. Fields \subseteq DOMAIN whole[i]
    BY <2>6
  <2>10. QED
    BY <2>2, <2>5, <2>7, <2>8, <2>9, <2>11 DEF FilledFrom
<1>5. S \in SUBSET DOMAIN whole
  BY <1>1, <1>3
<1> HIDE DEF whole, S, out
<1>6. /\ Listed(out) /\ DOMAIN out = 1..Cardinality(S)
      /\ \E at \in [1..Cardinality(S) -> S] :
           /\ \A p \in 1..Cardinality(S) : out[p] = whole[at[p]]
           /\ \A p, q \in 1..Cardinality(S) : p < q => at[p] < at[q]
  BY <1>2, <1>3, <1>5, ChosenFacts
<1>7. PICK at \in [1..Cardinality(S) -> S] :
           /\ \A p \in 1..Cardinality(S) : out[p] = whole[at[p]]
           /\ \A p, q \in 1..Cardinality(S) : p < q => at[p] < at[q]
  BY <1>6
<1>8. \A p \in DOMAIN out :
        /\ at[p] \in S /\ at[p] \in DOMAIN rows /\ FilledFrom(rows, columns, rows[at[p]], out[p])
        /\ FromRows(rows, columns, at[p], out[p])
  BY <1>1, <1>3, <1>4, <1>5, <1>6, <1>7
<1>9. QED
  BY <1>6, <1>7, <1>8 DEF out

\* A filled row of a file.
FilledOf(frame, r) ==
  /\ Fields \subseteq DOMAIN r /\ r.time \in Int
  /\ \E x, y \in NameSet : r.series = <<x, y>>
  /\ DOMAIN r.value = NumericColumns(frame)
  /\ \A c \in NumericColumns(frame) : \E k \in DOMAIN frame.rows : frame.rows[k][c] \in Int /\ r.value[c] = frame.rows[k][c]
  /\ \E k \in DOMAIN frame.rows : r.status = IF Status \in frame.columns THEN frame.rows[k][Status] ELSE Missing
  /\ \A c \in NumericColumns(frame) : TakenRightly(frame.rows, c, r.from[c], r.series, r.time)

\* The rows of a series come in the order of time.
LEMMA SeriesInTime ==
  ASSUME NEW frame, NEW read, \A i \in DOMAIN read : ReadFrom(frame, read[i]),
         \A i, j \in DOMAIN read : i < j => Before(read[i], read[j]),
         NEW i \in DOMAIN read, NEW j \in DOMAIN read, i \in Nat, j \in Nat, Series(read[i]) = Series(read[j])
  PROVE  read[i]["timestamp"] < read[j]["timestamp"] <=> i < j
<1>1. read[i]["timestamp"] \in Int /\ read[j]["timestamp"] \in Int /\ Named(read[i]) /\ Named(read[j])
  BY DEF ReadFrom
<1>2. read[i]["device_id"] = read[j]["device_id"] /\ read[i]["interface_id"] = read[j]["interface_id"]
  BY DEF Series
<1>3. Rank(read[i]["device_id"]) \in Nat /\ Rank(read[i]["interface_id"]) \in Nat
  BY <1>1, RankFacts DEF Named
<1>4. i < j => read[i]["timestamp"] < read[j]["timestamp"]
  <2>1. i < j => Before(read[i], read[j])
    OBVIOUS
  <2>2. QED
    BY <1>1, <1>2, <1>3, <2>1 DEF Before
<1>5. j < i => read[j]["timestamp"] < read[i]["timestamp"]
  <2>1. j < i => Before(read[j], read[i])
    OBVIOUS
  <2>2. QED
    BY <1>1, <1>2, <1>3, <2>1 DEF Before
<1>6. QED
  BY <1>1, <1>4, <1>5

LEMMA FilledOfFile ==
  ASSUME NEW frame, Frame(frame), NEW rows, rows = Filled(Ordered(frame), NumericColumns(frame))
  PROVE  /\ Listed(rows) /\ \A i \in DOMAIN rows : FilledOf(frame, rows[i])
         /\ \A i, j \in DOMAIN rows : i < j => Precedes(rows[i], rows[j])
<1> DEFINE read == Ordered(frame)
           columns == NumericColumns(frame)
<1>1. /\ Listed(read) /\ \A i \in DOMAIN read : ReadFrom(frame, read[i])
      /\ \A i, j \in DOMAIN read : i < j => Before(read[i], read[j])
      /\ \A k \in DOMAIN frame.rows : FirstOfKey(frame.rows, k) /\ frame.rows[k]["timestamp"] \in Int =>
           \E i \in DOMAIN read : read[i].id = k
  BY OrderedFacts
<1>2. columns \subseteq frame.columns \ {"timestamp", "id"}
  BY DEF NumericColumns, Counter, Gauge
<1>3. Status \notin {"timestamp", "id"}
  BY DEF Status
<1>4. ASSUME NEW v, Numeric(v) # Missing PROVE v \in Int
  BY <1>4 DEF Numeric
<1> HIDE DEF read
<1>5. /\ Listed(rows)
      /\ \E at : /\ \A p \in DOMAIN rows : /\ at[p] \in DOMAIN read /\ FilledFrom(read, columns, read[at[p]], rows[p])
                                        /\ FromRows(read, columns, at[p], rows[p])
                 /\ \A p, q \in DOMAIN rows : p < q => at[p] < at[q]
  BY <1>1, FilledFacts DEF read
<1>6. PICK at : /\ \A p \in DOMAIN rows : /\ at[p] \in DOMAIN read /\ FilledFrom(read, columns, read[at[p]], rows[p])
                                        /\ FromRows(read, columns, at[p], rows[p])
                /\ \A p, q \in DOMAIN rows : p < q => at[p] < at[q]
  BY <1>5
<1> HIDE DEF columns
<1>7. ASSUME NEW p \in DOMAIN rows
      PROVE  /\ FilledOf(frame, rows[p]) /\ ReadFrom(frame, read[at[p]])
             /\ rows[p].time = read[at[p]]["timestamp"] /\ rows[p].series = Series(read[at[p]])
  <2> DEFINE row == read[at[p]]
             r == rows[p]
  <2>1. ReadFrom(frame, row) /\ FilledFrom(read, columns, row, r)
    BY <1>1, <1>6
  <2>8. FromRows(read, columns, at[p], r) /\ at[p] \in DOMAIN read
    BY <1>6
  <2> HIDE DEF row, r
  <2>2. /\ r.time = row["timestamp"] /\ r.series = Series(row) /\ Fields \subseteq DOMAIN r /\ DOMAIN r.value = columns
        /\ r.status = IF Status \in DOMAIN row THEN row[Status] ELSE Missing
    BY <2>1 DEF FilledFrom
  <2>3. r.time \in Int /\ \E x, y \in NameSet : r.series = <<x, y>>
    BY <2>1, <2>2 DEF ReadFrom, Named, Series
  <2>4. ASSUME NEW c \in columns PROVE \E k \in DOMAIN frame.rows : frame.rows[k][c] \in Int /\ r.value[c] = frame.rows[k][c]
    <3>1. PICK j \in DOMAIN read : Numeric(read[j][c]) # Missing /\ r.value[c] = read[j][c]
      BY <2>1 DEF FilledFrom
    <3>2. ReadFrom(frame, read[j])
      BY <1>1
    <3>3. read[j].id \in DOMAIN frame.rows /\ read[j][c] = frame.rows[read[j].id][c]
      BY <1>2, <3>2 DEF ReadFrom
    <3>4. read[j][c] \in Int
      BY <1>4, <3>1
    <3>5. QED
      BY <3>1, <3>3, <3>4
  <2>5. \E k \in DOMAIN frame.rows : r.status = IF Status \in frame.columns THEN frame.rows[k][Status] ELSE Missing
    BY <1>3, <2>1, <2>2 DEF ReadFrom
  <2>9. ASSUME NEW c \in columns PROVE TakenRightly(frame.rows, c, r.from[c], r.series, r.time)
    <3> DEFINE i == at[p]
    <3>1. PICK j \in DOMAIN read : r.from[c] = read[j].id /\ HasFor(read, c, i, j)
      BY <2>8 DEF FromRows
    <3>2. ReadFrom(frame, read[j]) /\ ReadFrom(frame, read[i]) /\ i \in DOMAIN read /\ read[i] = row
      BY <1>1, <2>8 DEF row
    <3>3. Numeric(read[j][c]) # Missing /\ Series(read[j]) = Series(read[i])
      BY <3>1 DEF HasFor
    <3>4. r.from[c] \in DOMAIN frame.rows /\ frame.rows[r.from[c]][c] \in Int
      <4>1. read[j].id \in DOMAIN frame.rows /\ read[j][c] = frame.rows[read[j].id][c]
        BY <1>2, <3>2 DEF ReadFrom
      <4>2. QED
        BY <1>4, <3>1, <3>3, <4>1
    <3>5. Series(frame.rows[r.from[c]]) = r.series
      BY <2>2, <3>1, <3>2, <3>3, ReadKey
    <3>6. frame.rows[r.from[c]]["timestamp"] = read[j]["timestamp"] /\ r.time = read[i]["timestamp"]
      BY <2>2, <3>1, <3>2 DEF ReadFrom
    <3>7. ASSUME frame.rows[r.from[c]]["timestamp"] > r.time,
                 NEW k \in DOMAIN frame.rows, FirstOfKey(frame.rows, k), Series(frame.rows[k]) = r.series,
                 frame.rows[k]["timestamp"] \in Int, frame.rows[k]["timestamp"] <= r.time
          PROVE  frame.rows[k][c] \notin Int
      <4>1. PICK m \in DOMAIN read : read[m].id = k
        BY <1>1, <3>7
      <4>2. ReadFrom(frame, read[m])
        BY <1>1
      <4>3. read[m]["timestamp"] = frame.rows[k]["timestamp"] /\ read[m][c] = frame.rows[k][c]
        BY <1>2, <4>1, <4>2 DEF ReadFrom
      <4>4. Series(read[m]) = Series(read[i])
        BY <2>2, <3>2, <3>7, <4>1, <4>2, ReadKey
      <4>5. i \in Nat /\ j \in Nat /\ m \in Nat /\ m > 0 /\ DOMAIN read = 1..Len(read)
        BY <1>1, <3>2 DEF Listed
      <4>6. /\ read[i]["timestamp"] \in Int /\ read[j]["timestamp"] \in Int /\ read[m]["timestamp"] \in Int
            /\ read[j]["timestamp"] > read[i]["timestamp"] /\ read[m]["timestamp"] <= read[i]["timestamp"]
        BY <3>2, <3>6, <3>7, <4>2, <4>3 DEF ReadFrom
      <4>7. j > i
        BY <1>1, <3>2, <3>3, <4>5, <4>6, SeriesInTime
      <4>8. m \in 1..i
        <5>1. ~(read[i]["timestamp"] < read[m]["timestamp"])
          BY <4>6
        <5>2. ~(i < m)
          BY <1>1, <3>2, <4>1, <4>4, <4>5, <5>1, SeriesInTime
        <5>3. QED
          BY <4>5, <5>2
      <4>9. Numeric(read[m][c]) = Missing
        BY <3>1, <4>4, <4>7, <4>8 DEF HasFor
      <4>10. QED
        BY <4>3, <4>9, AdapterAssumption DEF Numeric
    <3>8. QED
      BY <3>4, <3>5, <3>7 DEF TakenRightly
  <2>6. FilledOf(frame, r)
    BY <2>2, <2>3, <2>4, <2>5, <2>9 DEF FilledOf, columns
  <2>7. QED
    BY <2>1, <2>2, <2>6 DEF row, r
<1>8. ASSUME NEW p \in DOMAIN rows, NEW q \in DOMAIN rows, p < q PROVE Precedes(rows[p], rows[q])
  <2> DEFINE a == read[at[p]]
             b == read[at[q]]
  <2>1. Before(a, b)
    BY <1>1, <1>6, <1>8
  <2>2. /\ a["timestamp"] \in Int /\ b["timestamp"] \in Int
        /\ rows[p].time = a["timestamp"] /\ rows[q].time = b["timestamp"]
        /\ rows[p].series = Series(a) /\ rows[q].series = Series(b)
    BY <1>7 DEF ReadFrom
  <2> HIDE DEF a, b
  <2>3. /\ rows[p].series[1] = a["device_id"] /\ rows[p].series[2] = a["interface_id"]
        /\ rows[q].series[1] = b["device_id"] /\ rows[q].series[2] = b["interface_id"]
    BY <2>2 DEF Series
  <2>4. QED
    BY <2>1, <2>2, <2>3 DEF Before, Precedes
<1>9. QED
  BY <1>5, <1>7, <1>8

\* What a number of column c is clipped to.
Clip(c, v) ==
  IF c = Gauge THEN Larger(Bounds.low, IF v > Bounds.high THEN Bounds.high ELSE Larger(0, v)) ELSE Larger(0, v)

\* A prepared row r, the filled row it was made of, and the one before that.
MadeFrom(rows, i, r) ==
  /\ Fields \cup {"delta", "seconds"} \subseteq DOMAIN r
  /\ r.time = rows[i].time /\ r.series = rows[i].series /\ r.status = rows[i].status /\ r.from = rows[i].from
  /\ r.value = [c \in DOMAIN rows[i].value |-> Clip(c, rows[i].value[c])]
  /\ r.delta = IF Previous(rows, i) /\ Counter \in DOMAIN rows[i].value
               THEN Larger(0, rows[i].value[Counter] - rows[i-1].value[Counter]) ELSE 0

LEMMA ClippedRates ==
  ASSUME NEW rows, Listed(rows), \A i \in DOMAIN rows : Fields \subseteq DOMAIN rows[i]
  PROVE  /\ Listed(Clipped(CounterRates(rows))) /\ DOMAIN Clipped(CounterRates(rows)) = DOMAIN rows
         /\ \A i \in DOMAIN rows : MadeFrom(rows, i, Clipped(CounterRates(rows))[i])
<1> DEFINE n == Len(rows)
           rated == CounterRates(rows)
           out == Clipped(rated)
           more(i) ==
             [ delta |-> IF Previous(rows, i) /\ Counter \in DOMAIN rows[i].value
                         THEN Larger(0, rows[i].value[Counter] - rows[i-1].value[Counter]) ELSE 0,
               seconds |-> IF Previous(rows, i) THEN rows[i].time - rows[i-1].time ELSE 0 ]
<1>1. n \in Nat /\ DOMAIN rows = 1..n
  BY DEF Listed
<1>2. rated = [i \in DOMAIN rows |-> With(rows[i], more(i))]
  BY DEF CounterRates
<1>3. out = [i \in DOMAIN rated |-> [rated[i] EXCEPT !.value = [c \in DOMAIN @ |-> Clip(c, @[c])]]]
  BY DEF Clipped, Clip
<1> HIDE DEF out, rated
<1>4. DOMAIN out = 1..n /\ out = [i \in 1..n |-> out[i]]
  BY <1>1, <1>2, <1>3
<1>5. Listed(out)
  <2> HIDE DEF n
  <2>1. QED
    BY ONLY <1>1, <1>4, MadeOf
<1>6. ASSUME NEW i \in DOMAIN rows PROVE MadeFrom(rows, i, out[i])
  <2>1. rated[i] = With(rows[i], more(i))
    BY <1>2
  <2>2. /\ DOMAIN more(i) = {"delta", "seconds"}
        /\ more(i)["delta"] = IF Previous(rows, i) /\ Counter \in DOMAIN rows[i].value
                              THEN Larger(0, rows[i].value[Counter] - rows[i-1].value[Counter]) ELSE 0
    OBVIOUS
  <2> DEFINE a == rows[i]
             b == rated[i]
             growth == IF Previous(rows, i) /\ Counter \in DOMAIN rows[i].value
                       THEN Larger(0, rows[i].value[Counter] - rows[i-1].value[Counter]) ELSE 0
  <2>3. out[i] = [b EXCEPT !.value = [c \in DOMAIN @ |-> Clip(c, @[c])]] /\ i \in DOMAIN rated
    BY <1>2, <1>3
  <2>4. /\ b = With(a, more(i)) /\ DOMAIN more(i) = {"delta", "seconds"} /\ more(i)["delta"] = growth
        /\ Fields \subseteq DOMAIN a
    BY <2>1, <2>2
  <2> HIDE DEF a, b, more, growth
  <2>5. /\ Fields \cup {"delta", "seconds"} \subseteq DOMAIN b
        /\ b["time"] = a["time"] /\ b["series"] = a["series"] /\ b["status"] = a["status"] /\ b["value"] = a["value"]
        /\ b["from"] = a["from"]
        /\ b["delta"] = growth
    BY <2>4 DEF With, Fields
  <2>6. /\ DOMAIN out[i] = DOMAIN b /\ out[i].value = [c \in DOMAIN b.value |-> Clip(c, b.value[c])]
        /\ out[i].time = b.time /\ out[i].series = b.series /\ out[i].status = b.status /\ out[i].delta = b.delta
        /\ out[i].from = b.from
    BY <2>3, <2>5 DEF Fields
  <2>7. QED
    BY <2>5, <2>6 DEF MadeFrom, a, growth
<1>7. QED
  BY <1>1, <1>4, <1>5, <1>6 DEF out, rated

\* Rows as they are split: of a time and a series each, and in their order.
RowsOK(rows) ==
  /\ Countable(rows)
  /\ \A i \in DOMAIN rows : rows[i].time \in Int /\ \E x, y \in NameSet : rows[i].series = <<x, y>>
  /\ \A i, j \in DOMAIN rows : i < j => Precedes(rows[i], rows[j])

\* The prepared rows of a file.
LEMMA PreparedFacts ==
  ASSUME NEW frame, Frame(frame)
  PROVE  /\ RowsOK(Prepared(frame))
         /\ \E rows : /\ rows = Filled(Ordered(frame), NumericColumns(frame)) /\ DOMAIN Prepared(frame) = DOMAIN rows
                      /\ \A i \in DOMAIN rows : FilledOf(frame, rows[i]) /\ MadeFrom(rows, i, Prepared(frame)[i])
<1> DEFINE rows == Filled(Ordered(frame), NumericColumns(frame))
           out == Clipped(CounterRates(rows))
<1>1. /\ Listed(rows) /\ \A i \in DOMAIN rows : FilledOf(frame, rows[i])
      /\ \A i, j \in DOMAIN rows : i < j => Precedes(rows[i], rows[j])
  BY FilledOfFile
<1>2. Prepared(frame) = out
  BY DEF Prepared
<1> HIDE DEF rows
<1>3. \A i \in DOMAIN rows : Fields \subseteq DOMAIN rows[i]
  BY <1>1 DEF FilledOf
<1>4. Listed(out) /\ DOMAIN out = DOMAIN rows /\ \A i \in DOMAIN rows : MadeFrom(rows, i, out[i])
  BY <1>1, <1>3, ClippedRates
<1> HIDE DEF out
<1>5. IsFiniteSet(NumericColumns(frame))
  <2>1. IsFiniteSet({Counter, Gauge})
    BY FS_EmptySet, FS_AddElement, {Counter, Gauge} = ({} \cup {Counter}) \cup {Gauge}
  <2>2. NumericColumns(frame) \subseteq {Counter, Gauge}
    BY DEF NumericColumns
  <2>3. QED
    BY <2>1, <2>2, FS_Subset
<1>6. ASSUME NEW i \in DOMAIN out
      PROVE  /\ out[i].time \in Int /\ \E x, y \in NameSet : out[i].series = <<x, y>>
             /\ IsFiniteSet(DOMAIN out[i].value)
  <2>1. FilledOf(frame, rows[i]) /\ MadeFrom(rows, i, out[i])
    BY <1>1, <1>4
  <2>2. DOMAIN out[i].value = DOMAIN rows[i].value /\ out[i].time = rows[i].time /\ out[i].series = rows[i].series
    BY <2>1 DEF MadeFrom
  <2>3. QED
    BY <1>5, <2>1, <2>2 DEF FilledOf
<1>7. ASSUME NEW i \in DOMAIN out, NEW j \in DOMAIN out, i < j PROVE Precedes(out[i], out[j])
  <2>1. Precedes(rows[i], rows[j]) /\ MadeFrom(rows, i, out[i]) /\ MadeFrom(rows, j, out[j])
    BY <1>1, <1>4, <1>7
  <2>2. /\ out[i].time = rows[i].time /\ out[i].series = rows[i].series
        /\ out[j].time = rows[j].time /\ out[j].series = rows[j].series
    BY <2>1 DEF MadeFrom
  <2>3. QED
    BY <2>1, <2>2 DEF Precedes
<1>8. RowsOK(out)
  BY <1>4, <1>6, <1>7 DEF RowsOK, Countable
<1>9. QED
  BY <1>1, <1>2, <1>4, <1>8 DEF rows

\* What is chosen of such rows are such rows.
LEMMA ChosenRows ==
  ASSUME NEW rows, RowsOK(rows), NEW S \in SUBSET DOMAIN rows
  PROVE  RowsOK(ChosenAt(rows, S))
<1> DEFINE out == ChosenAt(rows, S)
<1>1. Listed(rows)
  BY DEF RowsOK, Countable
<1>2. /\ Listed(out) /\ DOMAIN out = 1..Cardinality(S)
      /\ \E at \in [1..Cardinality(S) -> S] :
           /\ \A p \in 1..Cardinality(S) : out[p] = rows[at[p]]
           /\ \A p, q \in 1..Cardinality(S) : p < q => at[p] < at[q]
  BY <1>1, ChosenFacts
<1> HIDE DEF out
<1>3. PICK at \in [1..Cardinality(S) -> S] :
           /\ \A p \in 1..Cardinality(S) : out[p] = rows[at[p]]
           /\ \A p, q \in 1..Cardinality(S) : p < q => at[p] < at[q]
  BY <1>2
<1>4. \A p \in DOMAIN out : at[p] \in DOMAIN rows /\ out[p] = rows[at[p]]
  BY <1>2, <1>3
<1>5. \A p, q \in DOMAIN out : p < q => at[p] < at[q]
  BY <1>2, <1>3
<1>6. RowsOK(out)
  BY <1>2, <1>4, <1>5 DEF RowsOK, Countable
<1>7. QED
  BY <1>6 DEF out

LEMMA SplitRows ==
  ASSUME NEW rows, RowsOK(rows), NEW s \in {"train", "validation", "test"}
  PROVE  RowsOK(ChronologicalSplit(rows)[s])
<1> DEFINE times == [i \in DOMAIN rows |-> rows[i].time]
           den == Shares["train"] + Shares["validation"] + Shares["test"]
           first == IF rows = <<>> THEN 0 ELSE Quantile(times, Shares["train"], den)
           next == IF rows = <<>> THEN 0 ELSE Quantile(times, Shares["train"] + Shares["validation"], den)
           A == {i \in DOMAIN rows : den * times[i] <= first}
           B == {i \in DOMAIN rows : den * times[i] > first /\ den * times[i] <= next}
           C == {i \in DOMAIN rows : den * times[i] > next}
<1>1. ChronologicalSplit(rows) = [train |-> ChosenAt(rows, A), validation |-> ChosenAt(rows, B), test |-> ChosenAt(rows, C)]
  BY DEF ChronologicalSplit
<1>2. A \in SUBSET DOMAIN rows /\ B \in SUBSET DOMAIN rows /\ C \in SUBSET DOMAIN rows
  OBVIOUS
<1> HIDE DEF A, B, C
<1>3. RowsOK(ChosenAt(rows, A)) /\ RowsOK(ChosenAt(rows, B)) /\ RowsOK(ChosenAt(rows, C))
  BY <1>2, ChosenRows
<1>4. QED
  BY <1>1, <1>3

-----------------------------------------------------------------------------
(* What the adapters make of an export.                                    *)

LEMMA MatchedColumn ==
  ASSUME NEW def, NEW columns, Listed(columns), NEW c \in DOMAIN MatchColumns(def, columns)
  PROVE  /\ MatchColumns(def, columns)[c] \in ToSet(columns)
         /\ CanonicalOf(def, MatchColumns(def, columns)[c]) = c
<1> DEFINE canonical == [i \in DOMAIN columns |-> CanonicalOf(def, columns[i])]
           T(x) == {i \in DOMAIN columns : canonical[i] = x}
           mapped == MatchColumns(def, columns)
<1>1. mapped = [x \in ToSet(canonical) \ {Missing} |-> columns[Smallest(T(x))]]
  BY DEF MatchColumns
<1>2. c \in ToSet(canonical) \ {Missing} /\ mapped[c] = columns[Smallest(T(c))]
  BY <1>1
<1>3. DOMAIN columns = 1..Len(columns) /\ Len(columns) \in Nat
  BY DEF Listed
<1>4. T(c) # {} /\ T(c) \subseteq Nat
  BY <1>2, <1>3 DEF ToSet
<1> HIDE DEF T
<1>5. Smallest(T(c)) \in T(c)
  BY <1>4, SmallestIs
<1>6. Smallest(T(c)) \in DOMAIN columns /\ CanonicalOf(def, columns[Smallest(T(c))]) = c
  BY <1>5 DEF T
<1>7. QED
  BY <1>2, <1>6 DEF ToSet

LEMMA CanonicalFrame ==
  ASSUME NEW def, {def.device, def.port} \subseteq ToSet(Names), NEW raw_, CSVFile(def, raw_),
         ToCanonical(def, raw_) # Missing
  PROVE  /\ Frame(ToCanonical(def, raw_))
         /\ \A i \in DOMAIN raw_.rows : \E p \in DOMAIN ToCanonical(def, raw_).rows :
              ToCanonical(def, raw_).rows[p]["timestamp"]
                = Numeric(raw_.rows[i][MatchColumns(def, raw_.columns)["timestamp"]])
<1> DEFINE mapped == MatchColumns(def, raw_.columns)
           columns == ToSet(Core) \cup (DOMAIN mapped \cap ToSet(Optional))
           Cell(row, c) ==
             CASE c = "timestamp" -> Numeric(row[mapped[c]])
               [] c = "device_id" -> IF c \in DOMAIN mapped THEN row[mapped[c]] ELSE def.device
               [] c = "interface_id" -> IF c \in DOMAIN mapped THEN row[mapped[c]] ELSE def.port
               [] c \in {Counter, Gauge} -> Numeric(row[mapped[c]])
               [] c = Status -> CoerceStatus(row[mapped[c]])
               [] c = "label" -> MapLabel(def, [i \in DOMAIN raw_.rows |-> raw_.rows[i][mapped[c]]], row[mapped[c]])
           rows == [i \in DOMAIN raw_.rows |-> [c \in columns |-> Cell(raw_.rows[i], c)]]
           n == Len(raw_.rows)
<1>1. ToCanonical(def, raw_) = [columns |-> columns, rows |-> SortedBy(rows, Before)]
  BY DEF ToCanonical
<1>2. n \in Nat /\ DOMAIN raw_.rows = 1..n /\ Listed(raw_.columns)
  BY DEF CSVFile, Listed
<1>3. ASSUME NEW i \in DOMAIN raw_.rows, NEW c \in DOMAIN mapped, c \in {"device_id", "interface_id"}
      PROVE  raw_.rows[i][mapped[c]] \in NameSet
  <2>1. mapped[c] \in ToSet(raw_.columns) /\ CanonicalOf(def, mapped[c]) = c
    BY <1>2, MatchedColumn
  <2>2. Naming(def, mapped[c])
    BY <1>3, <2>1 DEF Naming
  <2>3. QED
    BY <2>1, <2>2 DEF CSVFile, NameSet
<1>4. def.device \in NameSet /\ def.port \in NameSet
  BY DEF NameSet
<1>5. {"timestamp", "device_id", "interface_id"} \subseteq columns
  BY CoreColumns DEF CoreIs
<1>6. ASSUME NEW i \in DOMAIN raw_.rows
      PROVE  /\ DOMAIN rows[i] = columns /\ Named(rows[i])
             /\ rows[i]["timestamp"] = Numeric(raw_.rows[i][mapped["timestamp"]])
  <2>1. rows[i] = [c \in columns |-> Cell(raw_.rows[i], c)]
    OBVIOUS
  <2>2. rows[i]["device_id"] = Cell(raw_.rows[i], "device_id") /\ rows[i]["interface_id"] = Cell(raw_.rows[i], "interface_id")
    BY <1>5, <2>1
  <2>3. /\ Cell(raw_.rows[i], "device_id") = IF "device_id" \in DOMAIN mapped THEN raw_.rows[i][mapped["device_id"]] ELSE def.device
        /\ Cell(raw_.rows[i], "interface_id") =
             IF "interface_id" \in DOMAIN mapped THEN raw_.rows[i][mapped["interface_id"]] ELSE def.port
    BY DEF Cell, Counter, Gauge, Status
  <2>6. rows[i]["timestamp"] = Cell(raw_.rows[i], "timestamp")
    BY <1>5, <2>1
  <2>7. Cell(raw_.rows[i], "timestamp") = Numeric(raw_.rows[i][mapped["timestamp"]])
    BY DEF Cell, Counter, Gauge, Status
  <2> HIDE DEF mapped, Cell, rows
  <2>4. DOMAIN rows[i] = columns
    BY <2>1
  <2>8. QED
    BY <1>3, <1>4, <2>2, <2>3, <2>4, <2>6, <2>7 DEF Named
<1> HIDE DEF columns, Cell, mapped
<1>7. Listed(rows) /\ DOMAIN rows = 1..n
  <2>1. rows = [p \in 1..n |-> rows[p]]
    BY <1>2
  <2> HIDE DEF rows, n
  <2>2. QED
    BY ONLY <1>2, <2>1, MadeOf
<1> HIDE DEF rows
<1> DEFINE out == SortedBy(rows, Before)
<1>8. Len(rows) = n
  BY <1>2, <1>7 DEF Listed
<1>9. Listed(out) /\ Len(out) = n /\ \E at : Sorting(at, rows, out)
  BY <1>2, <1>6, <1>7, <1>8, SortedRows
<1> HIDE DEF out, n
<1>10. PICK at : Sorting(at, rows, out)
  BY <1>9
<1>11. \A p \in DOMAIN out : at[p] \in DOMAIN rows /\ out[p] = rows[at[p]]
  BY <1>2, <1>7, <1>8, <1>9, <1>10 DEF Sorting, Listed
<1>12. \A p \in DOMAIN out : DOMAIN out[p] = columns /\ Named(out[p])
  BY <1>2, <1>6, <1>7, <1>11
<1>13. ToSet(Core) \subseteq columns
  BY DEF columns
<1>14. Frame([columns |-> columns, rows |-> out])
  BY <1>9, <1>12, <1>13 DEF Frame
<1>15. ASSUME NEW i \in DOMAIN raw_.rows
       PROVE  \E p \in DOMAIN out : out[p]["timestamp"] = Numeric(raw_.rows[i][mapped["timestamp"]])
  <2>1. PICK p \in 1..Len(rows) : at[p] = i
    BY <1>2, <1>8, <1>10 DEF Sorting, InOrder
  <2>2. p \in DOMAIN out /\ out[p] = rows[i]
    BY <1>8, <1>9, <1>10, <2>1 DEF Sorting, Listed
  <2>3. QED
    BY <1>6, <2>2
<1>16. QED
  BY <1>1, <1>14, <1>15 DEF out, mapped

LEMMA AdaptedFrame ==
  ASSUME NEW d \in Datasets, NEW raw_, CSVFile(Definitions[d], raw_), Adapt(Definitions[d], raw_) # Missing
  PROVE  Frame(Adapt(Definitions[d], raw_))
<1> DEFINE def == Definitions[d]
<1>1. {def.device, def.port} \subseteq ToSet(Names)
  BY AdapterAssumption DEF Datasets
<1>2. CASE def.type = "canonical_csv" /\ ToSet(Core) \subseteq ToSet(raw_.columns)
  <2> DEFINE out == [columns |-> ToSet(raw_.columns), rows |-> raw_.rows]
  <2>1. Adapt(def, raw_) = out
    BY <1>2 DEF Adapt
  <2>2. Naming(def, "device_id") /\ Naming(def, "interface_id")
    BY DEF Naming
  <2>3. {"device_id", "interface_id"} \subseteq ToSet(raw_.columns)
    BY <1>2, CoreColumns DEF CoreIs
  <2>4. ASSUME NEW i \in DOMAIN raw_.rows PROVE DOMAIN raw_.rows[i] = ToSet(raw_.columns) /\ Named(raw_.rows[i])
    BY <2>2, <2>3 DEF CSVFile, Named, NameSet
  <2>5. Listed(raw_.rows)
    BY DEF CSVFile
  <2>6. QED
    BY <1>2, <2>1, <2>4, <2>5 DEF Frame
<1>3. CASE ~(def.type = "canonical_csv" /\ ToSet(Core) \subseteq ToSet(raw_.columns))
  <2>1. Adapt(def, raw_) = ToCanonical(def, raw_)
    BY <1>3 DEF Adapt
  <2> HIDE DEF def
  <2>2. QED
    BY <1>1, <2>1, CanonicalFrame DEF def
<1>4. QED
  BY <1>2, <1>3

-----------------------------------------------------------------------------
(* The invariant of what lies on the disk.                                 *)

Splits == {"train", "validation", "test"}
SplitSet == ToSet(SplitNames) = Splits
LEMMA SplitsAre == SplitSet
<1>1. SplitNames[1] = "train" /\ SplitNames[2] = "validation" /\ SplitNames[3] = "test" /\ DOMAIN SplitNames = 1..3
  BY DEF SplitNames
<1>2. 1..3 = {1, 2, 3}
  OBVIOUS
<1>3. QED
  BY <1>1, <1>2 DEF SplitSet, ToSet, Splits

\* A split file is not taken for one that is not there, nor is a torn one.
Markers == Torn # None /\ \A n, rows : [number |-> n, rows |-> rows] # None

\* What lies at the source_paths can be read.
WorldOK(w) == \A d \in Datasets : w[d] # None => CSVFile(Definitions[d], w[d])
HistoryOK == \E S : history \in Seq(S) /\ history # <<>> /\ \A w \in S : WorldOK(w)

Base ==
  /\ jobs \in Nat /\ second \in Nat
  /\ DOMAIN csv = Datasets /\ DOMAIN processed = Datasets
  /\ exit \in {"ok", "failed", "raised", "killed"}

CsvOK == \A d \in Datasets : csv[d] # None => Frame(csv[d])

There(file) == file \notin {None, Torn}

\* The files of one dataset after n jobs: they are numbered by the job that
\* wrote them, the manifest counts splits that are there or older than them, and
\* when all are of one job they are the split of its rows.
Described(p) ==
  There(p["manifest"]) => \A s \in Splits :
    /\ p[s] # None
    /\ p[s] # Torn => /\ p[s].number >= p["manifest"].number
                      /\ p[s].number = p["manifest"].number => Len(p[s].rows) = p["manifest"].splits[s]
OfOneJob(p) == \A f \in Splits \cup {"manifest"} : There(p[f]) /\ p[f].number = p["manifest"].number
SplitOf(p, rows) ==
  /\ RowsOK(rows) /\ p["manifest"].rows = Len(rows)
  /\ \A s \in Splits : p[s].rows = ChronologicalSplit(rows)[s]
FileOK(p, n) ==
  /\ DOMAIN p = Splits \cup {"manifest"}
  /\ \A f \in Splits \cup {"manifest"} : There(p[f]) => p[f].number \in Nat /\ p[f].number <= n
  /\ \A s \in Splits : There(p[s]) => RowsOK(p[s].rows)
  /\ Described(p)
  /\ OfOneJob(p) => \E rows : SplitOf(p, rows)
FilesOK == \A d \in Datasets : FileOK(processed[d], jobs)

\* The scripts.  What a preprocessing has written of n jobs so far is of its
\* rows, and the manifest that lies there of an earlier one.
PrepareJob(j) ==
  /\ DOMAIN j = {"script", "stage", "dataset", "frame", "report"}
  /\ j.script = "prepare" /\ j.stage \in {"canonical", "report"} /\ j.dataset \in Datasets
  /\ \E export : /\ CSVFile(Definitions[j.dataset], export) /\ Adapt(Definitions[j.dataset], export) # Missing
                 /\ j.frame = Adapt(Definitions[j.dataset], export)
                 /\ j.report = AdapterReport(Definitions[j.dataset], export)

Done(stage) ==
  CASE stage = "train" -> {} [] stage = "validation" -> {"train"}
    [] stage = "test" -> {"train", "validation"} [] stage = "manifest" -> Splits
Piece(j, s) == [number |-> j.number, rows |-> ChronologicalSplit(j.rows)[s]]
PreprocessJob(j, frame, p, n) ==
  /\ DOMAIN j = {"script", "stage", "dataset", "rows", "all", "number"}
  /\ j.script = "preprocess" /\ j.stage \in Splits \cup {"manifest"} /\ j.dataset \in Datasets
  /\ j.number = n /\ frame # None /\ j.rows = Prepared(frame)
  /\ \A s \in Done(j.stage) : p[s] = Piece(j, s)
  /\ There(p["manifest"]) => p["manifest"].number < n

TrainJob(j, e) ==
  /\ {"script", "stage", "dataset", "splits"} \subseteq DOMAIN j
  /\ j.script = "train" /\ j.stage \in Parts \cup {"fit", "create", "report"} /\ j.dataset \in Datasets
  /\ "train" \in DOMAIN j.splits /\ DOMAIN j.splits \subseteq Splits /\ \A s \in DOMAIN j.splits : RowsOK(j.splits[s])
  /\ j.stage = "fit" => "features" \in DOMAIN j /\ j.features = [s \in DOMAIN j.splits |-> BuildFeatures(j.splits[s])]
  /\ j.stage # "fit" =>
       /\ {"metrics", "threshold"} \subseteq DOMAIN j
       /\ j.metrics = Metrics(j.splits) /\ j.splits["train"] # <<>>
  /\ j.stage \in {"metrics", "manifest"} => e[Len(e)].model = j.threshold
  /\ j.stage = "manifest" => e[Len(e)].metrics = j.metrics

JobOK ==
  job # None => \/ PrepareJob(job)
                \/ PreprocessJob(job, csv[job.dataset], processed[job.dataset], jobs)
                \/ TrainJob(job, experiments)

\* The directories: a suffix counts those before it in the second, and a
\* manifest speaks of what lies beside it.
Twins(e, i) == {k \in 1..(i-1) : e[k].dataset = e[i].dataset /\ e[k].second = e[i].second}
DirectoryOK(x) ==
  /\ DOMAIN x = {"dataset", "second", "suffix", "model", "metrics", "manifest"}
  /\ x.dataset \in Datasets /\ x.second \in Nat
  /\ There(x.manifest) => x.model = x.manifest.threshold /\ x.metrics = x.manifest.metrics
DirectoriesOK ==
  \A i \in DOMAIN experiments :
    /\ DirectoryOK(experiments[i]) /\ experiments[i].second <= second
    /\ experiments[i].suffix = Cardinality(Twins(experiments, i))

SRest == Base /\ HistoryOK /\ CsvOK /\ FilesOK /\ JobOK /\ DirectoriesOK
SInv == XInv /\ SRest

LEMMA InitSInv == TelemetryInit => SInv
<1> SUFFICES ASSUME TelemetryInit PROVE SInv
  OBVIOUS
<1>1. XInv
  BY InitXInv
<1>2. Base
  BY DEF TelemetryInit, Base
<1>3. HistoryOK
  <2>1. history \in Histories
    BY DEF TelemetryInit
  <2>2. history # <<>> /\ Listed(history) /\ \A i \in DOMAIN history : WorldOK(history[i])
    BY <2>1, PipelineAssumption DEF WorldOK
  <2>3. \A w \in ToSet(history) : WorldOK(w)
    BY <2>2 DEF ToSet
  <2>4. QED
    BY <2>2, <2>3 DEF HistoryOK, Listed
<1>4. CsvOK /\ JobOK
  BY DEF TelemetryInit, CsvOK, JobOK
<1>5. FilesOK
  <2>1. ASSUME NEW d \in Datasets PROVE FileOK(processed[d], jobs)
    <3>1. processed[d] = NoSplits
      BY DEF TelemetryInit
    <3>2. DOMAIN NoSplits = Splits \cup {"manifest"} /\ \A f \in Splits \cup {"manifest"} : NoSplits[f] = None
      BY SplitsAre DEF NoSplits, SplitSet
    <3>3. QED
      BY <3>1, <3>2 DEF FileOK, There, Described, OfOneJob
  <2>2. QED
    BY <2>1 DEF FilesOK
<1>6. DirectoriesOK
  <2>1. DOMAIN experiments = {}
    BY DEF TelemetryInit
  <2>2. QED
    BY <2>1 DEF DirectoriesOK
<1>7. QED
  BY <1>1, <1>2, <1>3, <1>4, <1>5, <1>6 DEF SInv, SRest

\* The script that runs is the one its name says.
LEMMA JobIs ==
  ASSUME JobOK, job # None
  PROVE  /\ job.script = "prepare" => PrepareJob(job)
         /\ job.script = "preprocess" => PreprocessJob(job, csv[job.dataset], processed[job.dataset], jobs)
         /\ job.script = "train" => TrainJob(job, experiments)
         /\ job.script \in {"prepare", "preprocess", "train"} /\ job.dataset \in Datasets
BY DEF JobOK, PrepareJob, PreprocessJob, TrainJob

\* What was written of a dataset stays what it is when there are more jobs.
LEMMA MoreJobs ==
  ASSUME NEW p, NEW n \in Nat, NEW m \in Nat, n <= m, FileOK(p, n)
  PROVE  FileOK(p, m)
<1>1. \A f \in Splits \cup {"manifest"} : There(p[f]) => p[f].number \in Nat /\ p[f].number <= m
  BY DEF FileOK
<1>2. QED
  BY <1>1 DEF FileOK

\* A step that writes none of the files and starts no script.
LEMMA SilentStep ==
  ASSUME SInv, UNCHANGED <<history, csv, processed, experiments, second>>,
         jobs' \in Nat, jobs <= jobs', exit' \in {"ok", "failed", "raised", "killed"}
  PROVE  Base' /\ HistoryOK' /\ CsvOK' /\ FilesOK' /\ DirectoriesOK'
<1>1. Base' /\ HistoryOK' /\ CsvOK'
  BY DEF SInv, SRest, Base, HistoryOK, CsvOK
<1>2. FilesOK'
  <2>1. jobs \in Nat /\ \A d \in Datasets : FileOK(processed[d], jobs)
    BY DEF SInv, SRest, Base, FilesOK
  <2>2. \A d \in Datasets : FileOK(processed[d], jobs')
    BY <2>1, MoreJobs
  <2>3. QED
    BY <2>2 DEF FilesOK
<1>3. DirectoriesOK'
  BY DEF SInv, SRest, DirectoriesOK, Twins
<1>4. QED
  BY <1>1, <1>2, <1>3

LEMMA StartedFacts ==
  ASSUME SInv, Started
  PROVE  jobs' \in Nat /\ jobs < jobs' /\ jobs <= jobs' /\ UNCHANGED <<history, second>>
BY DEF Started, SInv, SRest, Base

LEMMA PrepareStep ==
  ASSUME SInv, NEW d \in Datasets, Prepare(d)
  PROVE  SRest'
<1> DEFINE frame == Adapt(Definitions[d], raw[d])
           first == [ script |-> "prepare", stage |-> "canonical", dataset |-> d,
                      frame |-> frame, report |-> AdapterReport(Definitions[d], raw[d]) ]
<1>1. Started /\ UNCHANGED files
  BY DEF Prepare
<1>2. \/ job' = None /\ exit' = "failed"
      \/ raw[d] # None /\ frame # Missing /\ job' = first /\ exit' = "ok"
  BY DEF Prepare, Begin, End
<1>3. Base' /\ HistoryOK' /\ CsvOK' /\ FilesOK' /\ DirectoriesOK'
  BY <1>1, <1>2, StartedFacts, SilentStep DEF files
<1>4. CASE job' = None
  BY <1>3, <1>4 DEF SRest, JobOK
<1>5. CASE raw[d] # None /\ frame # Missing /\ job' = first
  <2>1. PICK S : history \in Seq(S) /\ history # <<>> /\ \A w \in S : WorldOK(w)
    BY DEF SInv, SRest, HistoryOK
  <2>2. raw \in S
    BY <2>1 DEF raw
  <2>3. CSVFile(Definitions[d], raw[d])
    BY <1>5, <2>1, <2>2 DEF WorldOK
  <2> HIDE DEF frame
  <2>4. /\ DOMAIN first = {"script", "stage", "dataset", "frame", "report"}
        /\ first.script = "prepare" /\ first.stage = "canonical" /\ first.dataset = d /\ first.frame = frame
        /\ first.report = AdapterReport(Definitions[d], raw[d])
    OBVIOUS
  <2> HIDE DEF first
  <2>5. PrepareJob(first)
    BY <1>5, <2>3, <2>4 DEF PrepareJob, frame
  <2>6. PrepareJob(job')
    BY <1>5, <2>5
  <2>7. JobOK'
    BY <2>6 DEF JobOK, PrepareJob
  <2>8. QED
    BY <1>3, <2>7 DEF SRest
<1>6. QED
  BY <1>2, <1>4, <1>5

LEMMA ValidateStep ==
  ASSUME SInv, NEW d \in Datasets, Validate(d)
  PROVE  SRest'
<1>1. Started /\ UNCHANGED <<csv, processed, experiments>>
  BY DEF Validate
<1>2. job' = None /\ exit' \in {"ok", "failed", "raised", "killed"}
  BY DEF Validate, End
<1>3. Base' /\ HistoryOK' /\ CsvOK' /\ FilesOK' /\ DirectoriesOK'
  BY <1>1, <1>2, StartedFacts, SilentStep
<1>4. QED
  BY <1>2, <1>3 DEF SRest, JobOK

LEMMA PreprocessStep ==
  ASSUME SInv, NEW d \in Datasets, Preprocess(d)
  PROVE  SRest'
<1> DEFINE first == [ script |-> "preprocess", stage |-> "train", dataset |-> d,
                      rows |-> Prepared(csv[d]), all |-> Len(csv[d].rows), number |-> jobs' ]
<1>1. Started /\ UNCHANGED files
  BY DEF Preprocess
<1>2. \/ job' = None /\ exit' = "failed"
      \/ csv[d] # None /\ job' = first /\ exit' = "ok"
  BY DEF Preprocess, Begin, End
<1>3. Base' /\ HistoryOK' /\ CsvOK' /\ FilesOK' /\ DirectoriesOK'
  BY <1>1, <1>2, StartedFacts, SilentStep DEF files
<1>4. CASE job' = None
  BY <1>3, <1>4 DEF SRest, JobOK
<1>5. CASE csv[d] # None /\ job' = first
  <2>1. There(processed[d]["manifest"]) => processed[d]["manifest"].number < jobs'
    <3>1. FileOK(processed[d], jobs)
      BY DEF SInv, SRest, FilesOK
    <3>2. There(processed[d]["manifest"]) => processed[d]["manifest"].number \in Nat /\ processed[d]["manifest"].number <= jobs
      BY <3>1 DEF FileOK
    <3>3. jobs \in Nat /\ jobs' \in Nat /\ jobs < jobs'
      BY <1>1, StartedFacts DEF SInv, SRest, Base
    <3>4. QED
      BY <3>2, <3>3
  <2>2. /\ DOMAIN first = {"script", "stage", "dataset", "rows", "all", "number"}
        /\ first.script = "preprocess" /\ first.stage = "train" /\ first.dataset = d /\ first.rows = Prepared(csv[d])
        /\ first.number = jobs'
    OBVIOUS
  <2> HIDE DEF first
  <2>3. Done(first.stage) = {}
    BY <2>2 DEF Done
  <2>4. PreprocessJob(first, csv[d], processed[d], jobs')
    BY <1>5, <2>1, <2>2, <2>3 DEF PreprocessJob, Splits
  <2>5. csv' = csv /\ processed' = processed
    BY <1>1 DEF files
  <2>6. PreprocessJob(job', csv'[job'.dataset], processed'[job'.dataset], jobs')
    BY <1>5, <2>2, <2>4, <2>5
  <2>7. JobOK'
    BY <2>6 DEF JobOK
  <2>8. QED
    BY <1>3, <2>7 DEF SRest
<1>6. QED
  BY <1>2, <1>4, <1>5

LEMMA TrainStep ==
  ASSUME SInv, NEW d \in Datasets, Train(d)
  PROVE  SRest'
<1> DEFINE there == Present(d)
           parts == [s \in there |-> processed[d][s].rows]
           features == [s \in there |-> BuildFeatures(processed[d][s].rows)]
           first == [ script |-> "train", stage |-> "fit", dataset |-> d, splits |-> parts, features |-> features ]
<1>1. Started /\ UNCHANGED files
  BY DEF Train
<1>2. \/ job' = None /\ exit' \in {"failed", "raised"}
      \/ /\ processed[d]["train"] # None /\ \A s \in there : processed[d][s] # Torn
         /\ job' = first /\ exit' = "ok"
  BY DEF Train, Begin, End
<1>3. Base' /\ HistoryOK' /\ CsvOK' /\ FilesOK' /\ DirectoriesOK'
  BY <1>1, <1>2, StartedFacts, SilentStep DEF files
<1>4. CASE job' = None
  BY <1>3, <1>4 DEF SRest, JobOK
<1>5. CASE /\ processed[d]["train"] # None /\ \A s \in there : processed[d][s] # Torn
           /\ job' = first
  <2>1. there \subseteq Splits /\ "train" \in there
    BY <1>5, SplitsAre DEF Present, SplitSet, Splits
  <2>2. \A s \in there : There(processed[d][s])
    BY <1>5 DEF Present, There
  <2>3. \A s \in there : RowsOK(processed[d][s].rows)
    BY <2>1, <2>2 DEF SInv, SRest, FilesOK, FileOK
  <2> HIDE DEF there
  <2>4. /\ DOMAIN parts = there /\ \A s \in DOMAIN parts : RowsOK(parts[s])
        /\ features = [s \in DOMAIN parts |-> BuildFeatures(parts[s])]
    BY <2>3
  <2> HIDE DEF parts, features
  <2>5. /\ {"script", "stage", "dataset", "splits", "features"} \subseteq DOMAIN first
        /\ first.script = "train" /\ first.stage = "fit" /\ first.dataset = d
        /\ first.splits = parts /\ first.features = features
    OBVIOUS
  <2> HIDE DEF first
  <2>6. TrainJob(first, experiments')
    BY <2>1, <2>4, <2>5 DEF TrainJob
  <2>7. JobOK'
    BY <1>5, <2>6 DEF JobOK
  <2>8. QED
    BY <1>3, <2>7 DEF SRest
<1>6. QED
  BY <1>2, <1>4, <1>5

LEMMA CanonicalStep ==
  ASSUME SInv, WriteCanonical
  PROVE  SRest'
<1>1. /\ job # None /\ job.script = "prepare" /\ job.stage = "canonical"
      /\ UNCHANGED <<history, second, jobs, exit, processed, experiments>>
      /\ job' = [job EXCEPT !.stage = "report"] /\ csv' = [csv EXCEPT ![job.dataset] = job.frame]
  BY DEF WriteCanonical, Running, At, Continue
<1>2. PrepareJob(job)
  BY <1>1, JobIs DEF SInv, SRest
<1>3. job.dataset \in Datasets /\ Frame(job.frame)
  BY <1>2, AdaptedFrame DEF PrepareJob
<1>4. DOMAIN csv' = Datasets /\ \A d \in Datasets : csv'[d] = csv[d] \/ csv'[d] = job.frame
  BY <1>1, <1>3 DEF SInv, SRest, Base
<1>5. CsvOK'
  BY <1>3, <1>4 DEF SInv, SRest, CsvOK
<1>6. Base' /\ HistoryOK' /\ FilesOK'
  BY <1>1, <1>4 DEF SInv, SRest, Base, HistoryOK, FilesOK
<1>7. DirectoriesOK'
  BY <1>1 DEF SInv, SRest, DirectoriesOK, Twins
<1>8. PrepareJob(job')
  BY <1>1, <1>2 DEF PrepareJob
<1>9. QED
  BY <1>5, <1>6, <1>7, <1>8 DEF SRest, JobOK

LEMMA EndStep ==
  ASSUME SInv, job' = None, UNCHANGED <<history, second, jobs, csv, processed, experiments>>,
         exit' \in {"ok", "failed", "raised", "killed"}
  PROVE  SRest'
<1>1. Base' /\ HistoryOK' /\ CsvOK' /\ FilesOK' /\ DirectoriesOK'
  BY SilentStep DEF SInv, SRest, Base
<1>2. QED
  BY <1>1 DEF SRest, JobOK

LEMMA PreparedRowsOK ==
  ASSUME NEW j, NEW frame, NEW p, NEW n, PreprocessJob(j, frame, p, n), Frame(frame)
  PROVE  RowsOK(j.rows)
BY PreparedFacts DEF PreprocessJob

\* A split is newer than the manifest that lies beside it.
LEMMA SplitWritten ==
  ASSUME Markers, NEW j, NEW frame, NEW p, NEW n \in Nat, PreprocessJob(j, frame, p, n), Frame(frame), FileOK(p, n),
         NEW s \in Splits, NEW q, q = [p EXCEPT ![s] = Piece(j, s)]
  PROVE  FileOK(q, n)
<1> DEFINE x == Piece(j, s)
<1>1. /\ DOMAIN p = Splits \cup {"manifest"} /\ DOMAIN q = DOMAIN p
      /\ q[s] = x /\ \A f \in Splits \cup {"manifest"} : f # s => q[f] = p[f]
  BY DEF FileOK
<1>2. s # "manifest" /\ q["manifest"] = p["manifest"]
  BY <1>1 DEF Splits
<1>3. /\ x.number = n /\ x.rows = ChronologicalSplit(j.rows)[s] /\ x # None
  BY DEF PreprocessJob, Piece, Markers
<1> HIDE DEF x
<1>4. RowsOK(x.rows)
  BY <1>3, PreparedRowsOK, SplitRows DEF Splits
<1>5. There(p["manifest"]) => p["manifest"].number \in Nat /\ p["manifest"].number < n
  BY DEF PreprocessJob, FileOK
<1>6. \A f \in Splits \cup {"manifest"} : There(q[f]) => q[f].number \in Nat /\ q[f].number <= n
  BY <1>1, <1>3 DEF FileOK
<1>7. \A f \in Splits : There(q[f]) => RowsOK(q[f].rows)
  BY <1>1, <1>4 DEF FileOK
<1>8. Described(q)
  BY <1>1, <1>2, <1>3, <1>5 DEF FileOK, Described
<1>9. ~OfOneJob(q)
  BY <1>1, <1>2, <1>3, <1>5 DEF OfOneJob
<1>10. QED
  BY <1>1, <1>6, <1>7, <1>8, <1>9 DEF FileOK

\* The manifest is of the rows that all the splits were made of.
LEMMA ManifestWritten ==
  ASSUME Markers, NEW j, NEW frame, NEW p, NEW n \in Nat, PreprocessJob(j, frame, p, n), Frame(frame), FileOK(p, n),
         j.stage = "manifest", NEW q,
         q = [p EXCEPT !["manifest"] =
                [ number |-> j.number, raw |-> j.all, rows |-> Len(j.rows),
                  splits |-> [s \in ToSet(SplitNames) |-> Len(ChronologicalSplit(j.rows)[s])] ]]
  PROVE  FileOK(q, n)
<1> DEFINE counts == [s \in ToSet(SplitNames) |-> Len(ChronologicalSplit(j.rows)[s])]
           x == [number |-> j.number, raw |-> j.all, rows |-> Len(j.rows), splits |-> counts]
<1>1. /\ DOMAIN p = Splits \cup {"manifest"} /\ DOMAIN q = DOMAIN p /\ "manifest" \notin Splits
      /\ q["manifest"] = x /\ \A s \in Splits : q[s] = p[s]
  BY DEF FileOK, Splits
<1>2. x.number = n /\ x.rows = Len(j.rows) /\ x.splits = counts
  BY DEF PreprocessJob
<1>3. \A s \in Splits : counts[s] = Len(ChronologicalSplit(j.rows)[s])
  BY SplitsAre DEF SplitSet
<1> HIDE DEF x, counts
<1>4. \A s \in Splits : q[s] = Piece(j, s) /\ q[s] # None /\ q[s].number = n /\ q[s].rows = ChronologicalSplit(j.rows)[s]
  <2>1. Done(j.stage) = Splits
    BY DEF Done
  <2>2. \A s \in Splits : q[s] = Piece(j, s)
    BY <1>1, <2>1 DEF PreprocessJob
  <2>3. QED
    BY <2>2 DEF PreprocessJob, Piece, Markers
<1>5. RowsOK(j.rows)
  BY PreparedRowsOK
<1>6. \A f \in Splits \cup {"manifest"} : There(q[f]) => q[f].number \in Nat /\ q[f].number <= n
  BY <1>1, <1>2, <1>4
<1>7. \A s \in Splits : There(q[s]) => RowsOK(q[s].rows)
  BY <1>1 DEF FileOK
<1>8. Described(q)
  BY <1>1, <1>2, <1>3, <1>4 DEF Described
<1>9. SplitOf(q, j.rows)
  BY <1>1, <1>2, <1>4, <1>5 DEF SplitOf
<1>10. QED
  BY <1>1, <1>6, <1>7, <1>8, <1>9 DEF FileOK

\* Of a torn file nothing is said.
LEMMA FileTorn ==
  ASSUME Markers, NEW p, NEW n \in Nat, FileOK(p, n), NEW f \in Splits \cup {"manifest"}, NEW q, q = [p EXCEPT ![f] = Torn]
  PROVE  FileOK(q, n)
<1>1. /\ DOMAIN p = Splits \cup {"manifest"} /\ DOMAIN q = DOMAIN p
      /\ q[f] = Torn /\ \A g \in Splits \cup {"manifest"} : g # f => q[g] = p[g]
  BY DEF FileOK
<1>2. ~There(q[f]) /\ q[f] # None
  BY <1>1 DEF There, Markers
<1>3. \A g \in Splits \cup {"manifest"} : There(q[g]) => q[g].number \in Nat /\ q[g].number <= n
  BY <1>1, <1>2 DEF FileOK
<1>4. \A s \in Splits : There(q[s]) => RowsOK(q[s].rows)
  BY <1>1, <1>2 DEF FileOK
<1>5. Described(q)
  BY <1>1, <1>2 DEF FileOK, Described
<1>6. ~OfOneJob(q)
  BY <1>2 DEF OfOneJob
<1>7. QED
  BY <1>1, <1>3, <1>4, <1>5, <1>6 DEF FileOK

\* The files of one dataset are written; what else there is stays.
LEMMA FilesStep ==
  ASSUME SInv, UNCHANGED <<history, csv, experiments, second, jobs>>, exit' \in {"ok", "failed", "raised", "killed"},
         NEW d \in Datasets, NEW q, processed' = [processed EXCEPT ![d] = q], FileOK(q, jobs)
  PROVE  Base' /\ HistoryOK' /\ CsvOK' /\ FilesOK' /\ DirectoriesOK' /\ processed'[d] = q
<1>1. DOMAIN processed' = Datasets /\ processed'[d] = q /\ \A x \in Datasets : x # d => processed'[x] = processed[x]
  BY DEF SInv, SRest, Base
<1>2. FilesOK'
  BY <1>1 DEF SInv, SRest, FilesOK
<1>3. Base' /\ HistoryOK' /\ CsvOK'
  BY <1>1 DEF SInv, SRest, Base, HistoryOK, CsvOK
<1>4. DirectoriesOK'
  BY DEF SInv, SRest, DirectoriesOK, Twins
<1>5. QED
  BY <1>1, <1>2, <1>3, <1>4

LEMMA WriteSplitStep ==
  ASSUME Markers, SInv, NEW s \in Splits, WriteSplit(s)
  PROVE  SRest'
<1> DEFINE d == job.dataset
           p == processed[d]
           q == [p EXCEPT ![s] = Piece(job, s)]
<1>1. /\ job # None /\ job.script = "preprocess" /\ job.stage = s
      /\ UNCHANGED <<history, second, jobs, exit, csv, experiments>>
      /\ job' = [job EXCEPT !.stage = NextOf(s)]
  BY DEF WriteSplit, Running, At, Continue
<1>2. processed' = [processed EXCEPT ![d] = q]
  BY DEF WriteSplit, Piece
<1>3. PreprocessJob(job, csv[d], p, jobs) /\ d \in Datasets
  BY <1>1, JobIs DEF SInv, SRest
<1>4. FileOK(p, jobs) /\ jobs \in Nat /\ Frame(csv[d])
  BY <1>3 DEF SInv, SRest, FilesOK, Base, CsvOK, PreprocessJob
<1> HIDE DEF p, q, d
<1>5. FileOK(q, jobs)
  BY <1>3, <1>4, SplitWritten DEF q
<1>6. Base' /\ HistoryOK' /\ CsvOK' /\ FilesOK' /\ DirectoriesOK' /\ processed'[d] = q
  BY <1>1, <1>2, <1>3, <1>5, FilesStep DEF SInv, SRest, Base
<1>7. q["manifest"] = p["manifest"] /\ q[s] = Piece(job, s) /\ \A f \in Splits : f # s => q[f] = p[f]
  BY <1>4 DEF q, FileOK, Splits
<1>8. Done(NextOf(s)) = Done(s) \cup {s} /\ Done(s) \subseteq Splits /\ s \notin Done(s) /\ NextOf(s) \in Splits \cup {"manifest"}
  BY DEF Done, NextOf, Splits
<1>9. /\ DOMAIN job' = DOMAIN job /\ job'.script = job.script /\ job'.dataset = d /\ job'.number = job.number
      /\ job'.rows = job.rows /\ job'.stage = NextOf(s)
  BY <1>1, <1>3 DEF PreprocessJob, d
<1>10. \A f : Piece(job', f) = Piece(job, f)
  BY <1>9 DEF Piece
<1>11. \A f \in Done(job'.stage) : q[f] = Piece(job', f)
  BY <1>1, <1>3, <1>7, <1>8, <1>9, <1>10 DEF PreprocessJob
<1>12. PreprocessJob(job', csv[d], q, jobs)
  BY <1>3, <1>7, <1>8, <1>9, <1>11 DEF PreprocessJob
<1>13. PreprocessJob(job', csv'[job'.dataset], processed'[job'.dataset], jobs')
  BY <1>1, <1>6, <1>9, <1>12
<1>14. QED
  BY <1>6, <1>13 DEF SRest, JobOK

LEMMA WriteManifestStep ==
  ASSUME Markers, SInv, WritePreprocessingManifest
  PROVE  SRest'
<1> DEFINE d == job.dataset
           p == processed[d]
           q == [p EXCEPT !["manifest"] =
                  [ number |-> job.number, raw |-> job.all, rows |-> Len(job.rows),
                    splits |-> [s \in ToSet(SplitNames) |-> Len(ChronologicalSplit(job.rows)[s])] ]]
<1>1. /\ job # None /\ job.script = "preprocess" /\ job.stage = "manifest"
      /\ UNCHANGED <<history, second, jobs, csv, experiments>> /\ job' = None /\ exit' = "ok"
  BY DEF WritePreprocessingManifest, Running, At, End
<1>2. processed' = [processed EXCEPT ![d] = q]
  BY DEF WritePreprocessingManifest
<1>3. PreprocessJob(job, csv[d], p, jobs) /\ d \in Datasets
  BY <1>1, JobIs DEF SInv, SRest
<1>4. FileOK(p, jobs) /\ jobs \in Nat /\ Frame(csv[d])
  BY <1>3 DEF SInv, SRest, FilesOK, Base, CsvOK, PreprocessJob
<1> HIDE DEF p, q, d
<1>5. FileOK(q, jobs)
  BY <1>1, <1>3, <1>4, ManifestWritten DEF q
<1>6. Base' /\ HistoryOK' /\ CsvOK' /\ FilesOK' /\ DirectoriesOK'
  BY <1>1, <1>2, <1>3, <1>5, FilesStep
<1>7. QED
  BY <1>1, <1>6 DEF SRest, JobOK

LEMMA FitStep ==
  ASSUME SInv, Fit
  PROVE  SRest'
<1> DEFINE next == [script |-> "train", stage |-> "create", dataset |-> job.dataset, splits |-> job.splits,
                    metrics |-> Metrics(job.splits), threshold |-> Threshold(job.splits["train"])]
<1>1. /\ job # None /\ job.script = "train" /\ job.stage = "fit" /\ UNCHANGED <<history, second, jobs>> /\ UNCHANGED files
  BY DEF Fit, Running, At
<1>2. \/ job' = None /\ exit' = "raised"
      \/ job.splits["train"] # <<>> /\ job' = next /\ exit' = exit
  BY DEF Fit, End
<1>3. CASE job' = None /\ exit' = "raised"
  BY <1>1, <1>3, EndStep DEF files
<1>4. CASE job.splits["train"] # <<>> /\ job' = next /\ exit' = exit
  <2>1. TrainJob(job, experiments)
    BY <1>1, JobIs DEF SInv, SRest
  <2>2. /\ {"script", "stage", "dataset", "splits", "metrics", "threshold"} \subseteq DOMAIN next
        /\ next.script = "train" /\ next.stage = "create" /\ next.dataset = job.dataset
        /\ next.splits = job.splits /\ next.metrics = Metrics(job.splits)
    OBVIOUS
  <2> HIDE DEF next
  <2>3. TrainJob(next, experiments)
    BY <1>4, <2>1, <2>2 DEF TrainJob
  <2>4. JobOK'
    BY <1>1, <1>4, <2>3 DEF JobOK, files
  <2>5. Base' /\ HistoryOK' /\ CsvOK' /\ FilesOK' /\ DirectoriesOK'
    BY <1>1, <1>4, SilentStep DEF SInv, SRest, Base, files
  <2>6. QED
    BY <2>4, <2>5 DEF SRest
<1>5. QED
  BY <1>2, <1>3, <1>4

LEMMA ReportStep ==
  ASSUME SInv, WriteReport
  PROVE  SRest'
<1>1. /\ UNCHANGED <<history, second, jobs, csv, processed, experiments>>
      /\ job' = None /\ exit' \in {"ok", "raised"}
  BY DEF WriteReport, Running, End
<1>2. QED
  BY <1>1, EndStep

LEMMA ExportStep ==
  ASSUME SInv, Export
  PROVE  SRest'
<1>1. Len(history) > 1 /\ history' = Tail(history) /\ UNCHANGED <<files, job, exit, second, jobs>>
  BY DEF Export
<1>2. PICK S : history \in Seq(S) /\ history # <<>> /\ \A w \in S : WorldOK(w)
  BY DEF SInv, SRest, HistoryOK
<1>3. history' \in Seq(S) /\ history' # <<>>
  <2> DEFINE rest == Tail(history)
  <2>1. history \in Seq(S) /\ Len(history) > 1
    BY <1>1, <1>2
  <2>2. rest \in Seq(S) /\ Len(rest) = Len(history) - 1 /\ Len(history) \in Nat
    BY ONLY <2>1
  <2>3. Len(rest) # 0
    BY <2>1, <2>2
  <2> HIDE DEF rest
  <2>4. rest # <<>>
    <3>1. Len(<<>>) = 0
      OBVIOUS
    <3>2. QED
      BY <2>3, <3>1
  <2>5. QED
    BY <1>1, <2>2, <2>4 DEF rest
<1>4. HistoryOK'
  BY <1>2, <1>3 DEF HistoryOK
<1>5. Base' /\ CsvOK' /\ FilesOK' /\ JobOK'
  BY <1>1 DEF SInv, SRest, Base, CsvOK, FilesOK, JobOK, files
<1>6. DirectoriesOK'
  BY <1>1 DEF SInv, SRest, DirectoriesOK, Twins, files
<1>7. QED
  BY <1>4, <1>5, <1>6 DEF SRest

\* A directory that was there keeps its name, and with it its suffix.
LEMMA SuffixKept ==
  ASSUME NEW e, NEW f, NEW i \in Nat, \A k \in 1..i : f[k].dataset = e[k].dataset /\ f[k].second = e[k].second, i > 0
  PROVE  Twins(f, i) = Twins(e, i)
BY DEF Twins

LEMMA CreateStepRest ==
  ASSUME SInv, CreateExperiment
  PROVE  SRest'
<1> DEFINE n == Len(experiments)
           d == job.dataset
           t == second'
           new == Fresh(d, t, Suffix(d, t))
<1>1. /\ job # None /\ job.script = "train" /\ job.stage = "create"
      /\ UNCHANGED <<history, csv, processed, jobs, exit>> /\ job' = [job EXCEPT !.stage = "model"]
      /\ t \in second..MaxSeconds /\ experiments' = Append(experiments, new)
  BY DEF CreateExperiment, At, Continue
<1>2. second \in Nat /\ MaxSeconds \in Nat
  BY PipelineAssumption DEF SInv, SRest, Base
<1>3. t \in Nat /\ second <= t
  BY <1>1, <1>2
<1>4. PICK S : experiments \in Seq(S)
  BY DEF SInv, XInv, Store
<1>5. /\ DOMAIN new = {"dataset", "second", "suffix", "model", "metrics", "manifest"}
      /\ new.dataset = d /\ new.second = t /\ new.suffix = Suffix(d, t) /\ new.manifest = None
  BY DEF Fresh
<1> HIDE DEF new
<1>6. /\ n \in Nat /\ DOMAIN experiments = 1..n /\ DOMAIN experiments' = 1..(n + 1)
      /\ experiments'[n + 1] = new /\ \A i \in 1..n : experiments'[i] = experiments[i]
      /\ experiments' \in Seq(S \cup {new}) /\ Len(experiments') = n + 1
  BY <1>1, <1>4
<1>7. TrainJob(job, experiments) /\ d \in Datasets
  BY <1>1, JobIs DEF SInv, SRest
<1>8. Suffix(d, t) = Cardinality(Twins(experiments', n + 1))
  <2>1. Twins(experiments', n + 1) = {i \in 1..n : experiments[i].dataset = d /\ experiments[i].second = t}
    <3>1. (n + 1) - 1 = n
      BY <1>6
    <3>2. Twins(experiments', n + 1) = {k \in 1..n : experiments'[k].dataset = new.dataset /\ experiments'[k].second = new.second}
      BY <1>6, <3>1 DEF Twins
    <3>3. QED
      BY <1>5, <1>6, <3>2
  <2>2. {i \in DOMAIN experiments : experiments[i].dataset = d /\ experiments[i].second = t} = Twins(experiments', n + 1)
    BY <1>6, <2>1
  <2>3. QED
    BY <2>2 DEF Suffix
<1>9. DirectoriesOK'
  <2>1. ASSUME NEW i \in 1..n
        PROVE  /\ DirectoryOK(experiments'[i]) /\ experiments'[i].second <= t
               /\ experiments'[i].suffix = Cardinality(Twins(experiments', i))
    <3>1. /\ DirectoryOK(experiments[i]) /\ experiments[i].second <= second
          /\ experiments[i].suffix = Cardinality(Twins(experiments, i))
      BY <1>6, <2>1 DEF SInv, SRest, DirectoriesOK
    <3>2. experiments'[i] = experiments[i] /\ \A k \in 1..i : experiments'[k] = experiments[k]
      BY <1>6
    <3>3. Twins(experiments', i) = Twins(experiments, i)
      BY <1>6, <3>2, SuffixKept
    <3>4. experiments[i].second \in Nat
      BY <3>1 DEF DirectoryOK
    <3>5. experiments[i].second <= t
      BY <1>2, <1>3, <3>1, <3>4
    <3>6. QED
      BY <3>1, <3>2, <3>3, <3>5
  <2>2. /\ DirectoryOK(new) /\ new.second <= t /\ new.suffix = Cardinality(Twins(experiments', n + 1))
    BY <1>3, <1>5, <1>7, <1>8 DEF DirectoryOK, There
  <2>3. \A i \in 1..(n + 1) : i \in 1..n \/ i = n + 1
    BY <1>6
  <2>4. QED
    BY <1>6, <2>1, <2>2, <2>3 DEF DirectoriesOK
<1>10. Base' /\ HistoryOK' /\ CsvOK' /\ FilesOK'
  BY <1>1, <1>3 DEF SInv, SRest, Base, HistoryOK, CsvOK, FilesOK
<1>11. TrainJob(job', experiments')
  BY <1>1, <1>7 DEF TrainJob, Parts
<1>12. QED
  BY <1>9, <1>10, <1>11 DEF SRest, JobOK

\* The last directory gets a file that is none of its name.
LEMMA DirectoriesWritten ==
  ASSUME SInv, NEW part \in Parts, At("train", part), NEW content, second' = second,
         experiments' = [experiments EXCEPT ![Len(experiments)] = [@ EXCEPT ![part] = content]],
         part = "manifest" /\ content # Torn =>
           /\ experiments[Len(experiments)].model = content.threshold
           /\ experiments[Len(experiments)].metrics = content.metrics
  PROVE  /\ DirectoriesOK' /\ Len(experiments') = Len(experiments)
         /\ experiments'[Len(experiments)][part] = content
         /\ \A f \in Parts : f # part => experiments'[Len(experiments)][f] = experiments[Len(experiments)][f]
<1> DEFINE n == Len(experiments)
           old == experiments[n]
           new == [old EXCEPT ![part] = content]
<1>1. PICK S : experiments \in Seq(S)
  BY DEF SInv, XInv, Store
<1>2. n \in 1..n /\ n \in Nat /\ DOMAIN experiments = 1..n /\ old.manifest = None
  BY <1>1 DEF SInv, XInv, Open, At
<1>3. experiments' = [experiments EXCEPT ![n] = new]
  OBVIOUS
<1>4. DirectoryOK(old) /\ old.second <= second
  BY <1>2 DEF SInv, SRest, DirectoriesOK
<1>5. /\ DOMAIN new = DOMAIN old /\ new[part] = content
      /\ new.dataset = old.dataset /\ new.second = old.second /\ new.suffix = old.suffix
      /\ \A f \in Parts : f # part => new[f] = old[f]
  BY <1>4 DEF DirectoryOK, Parts
<1>6. DirectoryOK(new)
  <2>1. There(new.manifest) => new.model = new.manifest.threshold /\ new.metrics = new.manifest.metrics
    <3>1. CASE part = "manifest"
      BY <1>5, <3>1 DEF There, Parts
    <3>2. CASE part # "manifest"
      BY <1>2, <1>5, <3>2 DEF There, Parts
    <3>3. QED
      BY <3>1, <3>2
  <2>2. QED
    BY <1>4, <1>5, <2>1 DEF DirectoryOK
<1> HIDE DEF new
<1>7. /\ DOMAIN experiments' = 1..n /\ experiments'[n] = new /\ \A i \in 1..n : i # n => experiments'[i] = experiments[i]
      /\ experiments' \in Seq(S \cup {new}) /\ Len(experiments') = n
  BY <1>1, <1>2, <1>3
<1>8. \A k \in 1..n : experiments'[k].dataset = experiments[k].dataset /\ experiments'[k].second = experiments[k].second
  BY <1>5, <1>7
<1>9. ASSUME NEW i \in 1..n
      PROVE  /\ DirectoryOK(experiments'[i]) /\ experiments'[i].second <= second
             /\ experiments'[i].suffix = Cardinality(Twins(experiments', i))
  <2>1. /\ DirectoryOK(experiments[i]) /\ experiments[i].second <= second
        /\ experiments[i].suffix = Cardinality(Twins(experiments, i))
    BY <1>2 DEF SInv, SRest, DirectoriesOK
  <2>2. Twins(experiments', i) = Twins(experiments, i)
    <3>1. \A k \in 1..i : experiments'[k].dataset = experiments[k].dataset /\ experiments'[k].second = experiments[k].second
      BY <1>2, <1>8
    <3>2. i \in Nat /\ i > 0
      BY <1>2
    <3> HIDE DEF n
    <3>3. QED
      BY <3>1, <3>2, SuffixKept
  <2>3. DirectoryOK(experiments'[i]) /\ experiments'[i].suffix = experiments[i].suffix /\ experiments'[i].second = experiments[i].second
    BY <1>5, <1>6, <1>7, <2>1
  <2>4. QED
    BY <2>1, <2>2, <2>3
<1>10. DirectoriesOK'
  BY <1>7, <1>9 DEF DirectoriesOK
<1>11. QED
  BY <1>5, <1>7, <1>10

LEMMA WriteExperimentRest ==
  ASSUME SInv, NEW part \in Parts, WriteExperiment(part)
  PROVE  SRest'
<1> DEFINE n == Len(experiments)
           next == CASE part = "model" -> "metrics" [] part = "metrics" -> "manifest" [] part = "manifest" -> "report"
<1>1. /\ At("train", part) /\ job # None /\ job.script = "train" /\ job.stage = part
      /\ UNCHANGED <<history, second, jobs, exit, csv, processed>>
      /\ experiments' = [experiments EXCEPT ![Len(experiments)] = [@ EXCEPT ![part] = Contents(part)]]
      /\ job' = [job EXCEPT !.stage = next]
  BY DEF WriteExperiment, Running, At, Continue
<1>2. TrainJob(job, experiments)
  BY <1>1, JobIs DEF SInv, SRest
<1>3. /\ part = "model" => Contents(part) = job.threshold
      /\ part = "metrics" => Contents(part) = job.metrics
      /\ part = "manifest" => Contents(part) = [threshold |-> job.threshold, metrics |-> job.metrics]
  BY DEF Contents
<1>4. part = "manifest" /\ Contents(part) # Torn =>
        experiments[n].model = Contents(part).threshold /\ experiments[n].metrics = Contents(part).metrics
  BY <1>1, <1>2, <1>3 DEF TrainJob
<1>5. /\ DirectoriesOK' /\ Len(experiments') = n /\ experiments'[n][part] = Contents(part)
      /\ \A f \in Parts : f # part => experiments'[n][f] = experiments[n][f]
  BY <1>1, <1>4, DirectoriesWritten
<1>6. Base' /\ HistoryOK' /\ CsvOK' /\ FilesOK'
  BY <1>1 DEF SInv, SRest, Base, HistoryOK, CsvOK, FilesOK
<1>7. next \in {"metrics", "manifest", "report"} /\ (next = "metrics" => part = "model") /\ (next = "manifest" => part = "metrics")
  BY DEF Parts
<1> HIDE DEF next
<1>8. /\ DOMAIN job' = DOMAIN job /\ job'.stage = next
      /\ \A f \in DOMAIN job : f # "stage" => job'[f] = job[f]
  BY <1>1, <1>2 DEF TrainJob
<1>9. /\ job'.script = "train" /\ job'.dataset = job.dataset /\ job'.splits = job.splits
      /\ {"metrics", "threshold"} \subseteq DOMAIN job' /\ job'.metrics = job.metrics /\ job'.threshold = job.threshold
  BY <1>1, <1>2, <1>8 DEF TrainJob, Parts
<1>10. /\ next = "metrics" => experiments'[n].model = job.threshold
       /\ next = "manifest" => experiments'[n].model = job.threshold /\ experiments'[n].metrics = job.metrics
  BY <1>1, <1>2, <1>3, <1>5, <1>7 DEF TrainJob, Parts
<1>11. TrainJob(job', experiments')
  BY <1>1, <1>2, <1>5, <1>7, <1>8, <1>9, <1>10 DEF TrainJob, Parts
<1>12. QED
  BY <1>5, <1>6, <1>11 DEF SRest, JobOK

LEMMA KillRest ==
  ASSUME Markers, SInv, Kill
  PROVE  SRest'
<1>1. job # None /\ job' = None /\ exit' = "killed" /\ UNCHANGED <<history, second, jobs>>
  BY DEF Kill, End
<1>2. CASE UNCHANGED files
  BY <1>1, <1>2, EndStep DEF files
<1>3. CASE /\ At("prepare", "canonical")
           /\ \E n \in 1..Len(job.frame.rows) :
                csv' = [csv EXCEPT ![job.dataset] = [job.frame EXCEPT !.rows = SubSeq(@, 1, n)]]
           /\ UNCHANGED <<processed, experiments>>
  <2>1. PICK n \in 1..Len(job.frame.rows) : csv' = [csv EXCEPT ![job.dataset] = [job.frame EXCEPT !.rows = SubSeq(@, 1, n)]]
    BY <1>3
  <2> DEFINE part == [job.frame EXCEPT !.rows = SubSeq(@, 1, n)]
             rows == job.frame.rows
  <2>2. PrepareJob(job)
    BY <1>1, <1>3, JobIs DEF SInv, SRest, At
  <2>3. job.dataset \in Datasets /\ Frame(job.frame)
    BY <2>2, AdaptedFrame DEF PrepareJob
  <2>4. rows \in Seq(ToSet(rows)) /\ n \in 1..Len(rows) /\ DOMAIN job.frame = {"columns", "rows"}
    BY <2>3 DEF Frame, Listed
  <2>5. part.columns = job.frame.columns /\ part.rows = SubSeq(rows, 1, n) /\ DOMAIN part = {"columns", "rows"}
    BY <2>4
  <2> HIDE DEF part
  <2> DEFINE kept == SubSeq(rows, 1, n)
  <2>6. /\ n \in Nat /\ DOMAIN kept = 1..n /\ kept = [p \in 1..n |-> kept[p]]
        /\ \A i \in 1..n : kept[i] = rows[i] /\ i \in DOMAIN rows
    BY <2>4
  <2> HIDE DEF kept
  <2>7. Listed(kept)
    BY ONLY <2>6, MadeOf
  <2>8. Frame(part)
    BY <2>3, <2>5, <2>6, <2>7 DEF Frame, kept
  <2>9. DOMAIN csv' = Datasets /\ \A d \in Datasets : csv'[d] = csv[d] \/ csv'[d] = part
    BY <2>1, <2>3 DEF SInv, SRest, Base, part
  <2>10. CsvOK'
    BY <2>8, <2>9 DEF SInv, SRest, CsvOK
  <2>11. Base' /\ HistoryOK' /\ FilesOK'
    BY <1>1, <1>3, <2>9 DEF SInv, SRest, Base, HistoryOK, FilesOK
  <2>12. DirectoriesOK'
    BY <1>1, <1>3 DEF SInv, SRest, DirectoriesOK, Twins
  <2>13. QED
    BY <1>1, <2>10, <2>11, <2>12 DEF SRest, JobOK
<1>4. CASE /\ job.script = "preprocess" /\ processed' = [processed EXCEPT ![job.dataset][job.stage] = Torn]
           /\ UNCHANGED <<csv, experiments>>
  <2> DEFINE d == job.dataset
             f == job.stage
             q == [processed[d] EXCEPT ![f] = Torn]
  <2>1. PreprocessJob(job, csv[d], processed[d], jobs) /\ d \in Datasets
    BY <1>1, <1>4, JobIs DEF SInv, SRest
  <2>2. f \in Splits \cup {"manifest"} /\ FileOK(processed[d], jobs) /\ jobs \in Nat
    BY <2>1 DEF SInv, SRest, FilesOK, Base, PreprocessJob
  <2>3. processed' = [processed EXCEPT ![d] = q]
    BY <1>4
  <2> HIDE DEF d, f, q
  <2>4. FileOK(q, jobs)
    BY <2>2, FileTorn DEF q
  <2>5. Base' /\ HistoryOK' /\ CsvOK' /\ FilesOK' /\ DirectoriesOK'
    BY <1>1, <1>4, <2>1, <2>3, <2>4, FilesStep
  <2>6. QED
    BY <1>1, <2>5 DEF SRest, JobOK
<1>5. CASE /\ job.script = "train" /\ job.stage \in Parts
           /\ experiments' = [experiments EXCEPT ![Len(experiments)] = [@ EXCEPT ![job.stage] = Torn]]
           /\ UNCHANGED <<csv, processed>>
  <2>1. At("train", job.stage)
    BY <1>1, <1>5 DEF At
  <2>2. DirectoriesOK'
    BY <1>1, <1>5, <2>1, DirectoriesWritten
  <2>3. Base' /\ HistoryOK' /\ CsvOK' /\ FilesOK'
    BY <1>1, <1>5 DEF SInv, SRest, Base, HistoryOK, CsvOK, FilesOK
  <2>4. QED
    BY <1>1, <2>2, <2>3 DEF SRest, JobOK
<1>6. QED
  BY <1>2, <1>3, <1>4, <1>5 DEF Kill, Parts

LEMMA NextSInv ==
  ASSUME Markers, SInv, [TelemetryNext]_telemetryVars
  PROVE  SInv'
<1>1. XInv'
  BY NextStep DEF SInv
<1> SUFFICES SRest'
  BY <1>1 DEF SInv
<1>2. CASE UNCHANGED telemetryVars
  <2>1. UNCHANGED <<history, csv, processed, experiments, job, exit, second, jobs>>
    BY <1>2 DEF telemetryVars, files
  <2>2. Base' /\ HistoryOK' /\ CsvOK' /\ FilesOK' /\ JobOK'
    BY <2>1 DEF SInv, SRest, Base, HistoryOK, CsvOK, FilesOK, JobOK
  <2>3. DirectoriesOK'
    BY <2>1 DEF SInv, SRest, DirectoriesOK, Twins
  <2>4. SRest'
    BY <2>2, <2>3 DEF SRest
  <2>5. QED
    BY <2>4
<1>3. ASSUME NEW d \in Datasets, Prepare(d) \/ Validate(d) \/ Preprocess(d) \/ Train(d)
      PROVE  SRest'
  BY <1>3, PrepareStep, ValidateStep, PreprocessStep, TrainStep
<1>4. CASE WriteCanonical
  BY <1>4, CanonicalStep
<1>5. CASE WriteAdapterReport
  <2>1. UNCHANGED <<history, second, jobs, csv, processed, experiments>> /\ job' = None /\ exit' = "ok"
    BY <1>5 DEF WriteAdapterReport, Running, End
  <2>2. QED
    BY <2>1, EndStep
<1>6. ASSUME NEW s \in ToSet(SplitNames), WriteSplit(s)
      PROVE  SRest'
  BY <1>6, SplitsAre, WriteSplitStep DEF SplitSet
<1>7. CASE WritePreprocessingManifest
  BY <1>7, WriteManifestStep
<1>8. CASE Fit \/ CreateExperiment \/ WriteReport \/ Export
  BY <1>8, FitStep, CreateStepRest, ReportStep, ExportStep
<1>9. ASSUME NEW part \in Parts, WriteExperiment(part)
      PROVE  SRest'
  BY <1>9, WriteExperimentRest
<1>10. CASE Kill
  BY <1>10, KillRest
<1>11. QED
  BY <1>2, <1>3, <1>4, <1>5, <1>6, <1>7, <1>8, <1>9, <1>10 DEF TelemetryNext, Parts

\* No two directories have the same name: the later one counts the earlier.
LEMMA NamesApart ==
  ASSUME DirectoriesOK, Store, NEW i \in DOMAIN experiments, NEW k \in DOMAIN experiments, i < k,
         experiments[i].dataset = experiments[k].dataset, experiments[i].second = experiments[k].second
  PROVE  experiments[i].suffix # experiments[k].suffix
<1>1. DOMAIN experiments = 1..Len(experiments) /\ Len(experiments) \in Nat
  BY DEF Store
<1>2. i \in Nat /\ k \in Nat /\ i > 0 /\ k > 0
  BY <1>1
<1> DEFINE A == Twins(experiments, i)
           B == Twins(experiments, k)
<1>3. A \subseteq B /\ i \in B /\ i \notin A /\ B \in SUBSET (1..k)
  BY <1>2 DEF Twins
<1>4. experiments[i].suffix = Cardinality(A) /\ experiments[k].suffix = Cardinality(B)
  BY DEF DirectoriesOK
<1> HIDE DEF A, B
<1>5. IsFiniteSet(B)
  BY <1>2, <1>3, Part
<1>6. IsFiniteSet(A) /\ IsFiniteSet(A \cup {i}) /\ A \cup {i} \subseteq B
  BY <1>3, <1>5, FS_Subset
<1>7. Cardinality(A \cup {i}) = Cardinality(A) + 1 /\ Cardinality(A) \in Nat
  BY <1>3, <1>6, FS_AddElement, FS_CardinalityType
<1>8. Cardinality(A \cup {i}) <= Cardinality(B) /\ Cardinality(B) \in Nat
  BY <1>5, <1>6, FS_Subset, FS_CardinalityType
<1>9. QED
  BY <1>4, <1>7, <1>8

LEMMA SInvTypes ==
  ASSUME SInv
  PROVE  TelemetryTypeOK
<1>1. \A d \in Datasets : csv[d] = None \/ ToSet(Core) \subseteq csv[d].columns
  BY DEF SInv, SRest, CsvOK, Frame
<1>2. \A d \in Datasets : DOMAIN processed[d] = ToSet(SplitNames) \cup {"manifest"}
  BY SplitsAre DEF SInv, SRest, FilesOK, FileOK, SplitSet
<1>3. \A i \in DOMAIN experiments : experiments[i].dataset \in Datasets /\ experiments[i].second \in 0..second
  <2>1. second \in Nat
    BY DEF SInv, SRest, Base
  <2>2. \A i \in DOMAIN experiments :
          experiments[i].dataset \in Datasets /\ experiments[i].second \in Nat /\ experiments[i].second <= second
    BY DEF SInv, SRest, DirectoriesOK, DirectoryOK
  <2>3. QED
    BY <2>1, <2>2
<1>4. job # None => job.script \in {"prepare", "preprocess", "train"} /\ job.dataset \in Datasets
  BY JobIs DEF SInv, SRest
<1>5. QED
  BY <1>1, <1>2, <1>3, <1>4 DEF TelemetryTypeOK, SInv, SRest, Base

LEMMA SInvManifests ==
  ASSUME SInv
  PROVE  ManifestDescribesSplits
<1>1. \A d \in Datasets : Described(processed[d])
  BY DEF SInv, SRest, FilesOK, FileOK
<1>2. QED
  BY <1>1, SplitsAre DEF Described, There, ManifestDescribesSplits, SplitSet

LEMMA SInvBudget ==
  ASSUME SInv
  PROVE  AlarmBudget
<1> SUFFICES ASSUME At("train", "create"), job.metrics["train"].n <= 100 PROVE job.metrics["train"].flagged <= 1
  BY DEF AlarmBudget
<1> DEFINE rows == job.splits["train"]
<1>1. TrainJob(job, experiments) /\ job.stage = "create"
  BY JobIs DEF SInv, SRest, At
<1>2. job.metrics = Metrics(job.splits) /\ rows # <<>> /\ "train" \in DOMAIN job.splits /\ RowsOK(rows)
  BY <1>1 DEF TrainJob
<1>3. job.metrics["train"].n = Len(rows) /\ job.metrics["train"].flagged = Cardinality(Flagged(rows, rows))
  BY <1>2 DEF Metrics
<1> HIDE DEF rows
<1>4. QED
  BY <1>2, <1>3, BudgetKept DEF RowsOK

LEMMA SInvWhole ==
  ASSUME SInv
  PROVE  ExperimentWhole
<1>1. \A i \in DOMAIN experiments :
        There(experiments[i].manifest) => /\ experiments[i].model = experiments[i].manifest.threshold
                                          /\ experiments[i].metrics = experiments[i].manifest.metrics
  BY DEF SInv, SRest, DirectoriesOK, DirectoryOK
<1>2. ASSUME NEW i \in DOMAIN experiments, NEW k \in DOMAIN experiments, k # i
      PROVE  <<experiments[i].dataset, experiments[i].second, experiments[i].suffix>>
               # <<experiments[k].dataset, experiments[k].second, experiments[k].suffix>>
  <2>1. i < k \/ k < i
    BY <1>2 DEF SInv, XInv, Store
  <2>2. DirectoriesOK /\ Store
    BY DEF SInv, SRest, XInv
  <2>3. experiments[i].dataset = experiments[k].dataset /\ experiments[i].second = experiments[k].second =>
          experiments[i].suffix # experiments[k].suffix
    BY <2>1, <2>2, NamesApart
  <2>4. QED
    BY <2>3
<1>3. QED
  BY <1>1, <1>2 DEF ExperimentWhole, There

\* What lies on the disk can be believed, whatever exports come in, however
\* often the scripts are run and wherever they are killed: canonical files have
\* the core columns, a preprocessing manifest counts the splits beside it or
\* older ones than they are, an experiment with a manifest has the model and the
\* metrics the manifest speaks of and a name of its own, and the threshold of up
\* to a hundred training rows flags at most one of them.
THEOREM ArtefactsSoundHolds ==
  ASSUME Markers
  PROVE  TelemetrySpec => []ArtefactsSound
<1>1. TelemetryInit => SInv
  BY InitSInv
<1>2. SInv /\ [TelemetryNext]_telemetryVars => SInv'
  BY NextSInv
<1>3. SInv => ArtefactsSound
  BY SInvTypes, SInvManifests, SInvBudget, SInvWhole DEF ArtefactsSound
<1>4. QED
  BY <1>1, <1>2, <1>3, PTL DEF TelemetrySpec

-----------------------------------------------------------------------------
(* What validation says.                                                   *)

LEMMA TimeIssue ==
  ASSUME NEW frame, Has(frame, "timestamp"), NEW i \in DOMAIN frame.rows, frame.rows[i]["timestamp"] \notin Int
  PROVE  ~Passed(Issues(frame))
<1>1. CASE ~(Required \subseteq frame.columns)
  BY <1>1 DEF Issues, Passed
<1>2. CASE Required \subseteq frame.columns
  <2>1. <<"error", "timestamp">> \in Issues(frame)
    BY <1>2 DEF Issues
  <2>2. QED
    BY <2>1 DEF Passed
<1>3. QED
  BY <1>1, <1>2

LEMMA NegativeIssue ==
  ASSUME NEW frame, Passed(Issues(frame)), Has(frame, Counter), NEW i \in DOMAIN frame.rows, frame.rows[i][Counter] \in Int
  PROVE  frame.rows[i][Counter] >= 0
<1>1. CASE ~(Required \subseteq frame.columns)
  BY <1>1 DEF Issues, Passed
<1>2. CASE Required \subseteq frame.columns
  <2>1. frame.rows[i][Counter] < 0 => <<"error", "negative_values">> \in Issues(frame)
    BY <1>2 DEF Issues
  <2>2. QED
    BY <2>1 DEF Passed
<1>3. QED
  BY <1>1, <1>2

\* Of the files a script puts into canonical form, those with a time that does
\* not parse.
LEMMA AdaptedTimes ==
  ASSUME NEW d \in Datasets, NEW export, CSVFile(Definitions[d], export), Adapt(Definitions[d], export) # Missing,
         AdapterReport(Definitions[d], export).badTimes > 0
  PROVE  ~Passed(Issues(Adapt(Definitions[d], export)))
<1> DEFINE def == Definitions[d]
           looked == ~(def.type = "canonical_csv" /\ ToSet(Core) \subseteq ToSet(export.columns))
           column == MatchColumns(def, export.columns)["timestamp"]
           T == {i \in DOMAIN export.rows : export.rows[i][column] \notin Int}
           frame == Adapt(def, export)
<1>1. AdapterReport(def, export).badTimes = IF looked THEN Cardinality(T) ELSE 0
  BY DEF AdapterReport
<1>2. looked /\ Cardinality(T) # 0
  BY <1>1
<1>3. T # {}
  BY <1>2, FS_EmptySet
<1>4. PICK i \in DOMAIN export.rows : export.rows[i][column] \notin Int
  BY <1>3
<1>5. frame = ToCanonical(def, export)
  BY <1>2 DEF Adapt
<1>6. {def.device, def.port} \subseteq ToSet(Names)
  BY AdapterAssumption DEF Datasets
<1> HIDE DEF def, frame, looked, T
<1>7. Frame(frame) /\ \E p \in DOMAIN frame.rows : frame.rows[p]["timestamp"] = Numeric(export.rows[i][column])
  BY <1>4, <1>5, <1>6, CanonicalFrame DEF def, frame
<1>8. PICK p \in DOMAIN frame.rows : frame.rows[p]["timestamp"] = Missing
  BY <1>4, <1>7 DEF Numeric
<1>9. Missing \notin Int
  BY AdapterAssumption
<1>10. Has(frame, "timestamp")
  BY <1>7, CoreColumns DEF Frame, Has, CoreIs
<1>11. ~Passed(Issues(frame))
  BY <1>8, <1>9, <1>10, TimeIssue
<1>12. QED
  BY <1>11 DEF frame, def

LEMMA SInvBadTimes ==
  ASSUME SInv
  PROVE  BadTimesAreFlagged
<1> SUFFICES ASSUME At("prepare", "canonical"), job.report.badTimes > 0 PROVE ~Passed(Issues(job.frame))
  BY DEF BadTimesAreFlagged
<1>1. PrepareJob(job)
  BY JobIs DEF SInv, SRest, At
<1>2. QED
  BY <1>1, AdaptedTimes DEF PrepareJob

-----------------------------------------------------------------------------
(* What preprocessing mends.                                               *)

\* A clipped number is not negative, and a clipped gauge within its bounds.
LEMMA ClipBounds ==
  ASSUME NEW c \in {Counter, Gauge}, NEW v \in Int
  PROVE  /\ Clip(c, v) \in Int /\ Clip(c, v) >= 0
         /\ c = Gauge => Clip(c, v) >= Bounds.low /\ Clip(c, v) <= Bounds.high
BY PreparationAssumption DEF Clip, Larger

LEMMA MendedRows ==
  ASSUME NEW frame, Frame(frame), Required \subseteq frame.columns, NEW rows, rows = Prepared(frame)
  PROVE  {x[2] : x \in Issues(AsFrame(rows))} \subseteq {"missing_values", "counter_monotonicity"}
<1> DEFINE F == AsFrame(rows)
<1>1. /\ RowsOK(rows)
      /\ \E filled : /\ DOMAIN rows = DOMAIN filled
                     /\ \A i \in DOMAIN filled : FilledOf(frame, filled[i]) /\ MadeFrom(filled, i, rows[i])
  BY PreparedFacts
<1>2. PICK filled : /\ DOMAIN rows = DOMAIN filled
                    /\ \A i \in DOMAIN filled : FilledOf(frame, filled[i]) /\ MadeFrom(filled, i, rows[i])
  BY <1>1
<1>3. ToSet(Core \o Optional) = {"timestamp", "device_id", "interface_id", Counter, Status, Gauge, "label"}
  <2> DEFINE all == Core \o Optional
  <2>1. /\ DOMAIN all = 1..7 /\ all[1] = "timestamp" /\ all[2] = "device_id" /\ all[3] = "interface_id"
        /\ all[4] = Counter /\ all[5] = Status /\ all[6] = Gauge /\ all[7] = "label"
    BY DEF Core, Optional
  <2> HIDE DEF all
  <2>2. 1..7 = {1, 2, 3, 4, 5, 6, 7}
    OBVIOUS
  <2>3. QED
    BY <2>1, <2>2 DEF ToSet, all
<1>4. Required \subseteq ToSet(Core \o Optional) /\ {"timestamp", "device_id", "interface_id"} \subseteq Required
  BY PreparationAssumption, CoreColumns DEF CoreIs
<1>5. F.columns = Required /\ DOMAIN F.rows = DOMAIN rows
  BY <1>4 DEF AsFrame
<1>6. ASSUME NEW i \in DOMAIN rows
      PROVE  /\ F.rows[i]["timestamp"] = rows[i].time /\ rows[i].time \in Int
             /\ F.rows[i]["device_id"] = rows[i].series[1] /\ F.rows[i]["interface_id"] = rows[i].series[2]
  <2>1. rows[i].time \in Int
    BY <1>1 DEF RowsOK
  <2>2. "timestamp" \in Required /\ "device_id" \in Required /\ "interface_id" \in Required
    BY <1>4
  <2>3. F.rows[i]["timestamp"] = rows[i].time
    BY <2>2 DEF AsFrame, Status
  <2>4. F.rows[i]["device_id"] = rows[i].series[1]
    BY <2>2 DEF AsFrame, Status
  <2>5. F.rows[i]["interface_id"] = rows[i].series[2]
    BY <2>2 DEF AsFrame, Status
  <2>6. QED
    BY <2>1, <2>3, <2>4, <2>5
<1>7. ASSUME NEW i \in DOMAIN rows, NEW c \in Required \cap {Counter, Gauge}
      PROVE  F.rows[i][c] \in Int /\ F.rows[i][c] >= 0 /\ (c = Gauge => F.rows[i][c] >= Bounds.low /\ F.rows[i][c] <= Bounds.high)
  <2>1. F.rows[i][c] = rows[i].value[c]
    BY DEF AsFrame, Counter, Gauge, Status
  <2>2. FilledOf(frame, filled[i]) /\ MadeFrom(filled, i, rows[i])
    BY <1>2
  <2>3. c \in NumericColumns(frame) /\ DOMAIN filled[i].value = NumericColumns(frame) /\ filled[i].value[c] \in Int
    BY <2>2 DEF FilledOf, NumericColumns
  <2>4. rows[i].value[c] = Clip(c, filled[i].value[c])
    BY <2>2, <2>3 DEF MadeFrom
  <2>5. QED
    BY <2>1, <2>3, <2>4, ClipBounds
<1>8. ASSUME NEW i \in DOMAIN rows, NEW j \in DOMAIN rows, i < j
      PROVE  Key(F.rows[i]) # Key(F.rows[j])
  <2>1. Precedes(rows[i], rows[j])
    BY <1>1, <1>8 DEF RowsOK
  <2> DEFINE a == F.rows[i]
             b == F.rows[j]
  <2>2. /\ a["timestamp"] = rows[i].time /\ a["device_id"] = rows[i].series[1] /\ a["interface_id"] = rows[i].series[2]
        /\ b["timestamp"] = rows[j].time /\ b["device_id"] = rows[j].series[1] /\ b["interface_id"] = rows[j].series[2]
        /\ rows[i].time \in Int /\ rows[j].time \in Int
    BY <1>6
  <2>3. /\ rows[i].series[1] \in NameSet /\ rows[i].series[2] \in NameSet
        /\ rows[j].series[1] \in NameSet /\ rows[j].series[2] \in NameSet
    BY <1>1 DEF RowsOK
  <2>4. /\ Rank(rows[i].series[1]) \in Nat /\ Rank(rows[i].series[2]) \in Nat
        /\ Rank(rows[j].series[1]) \in Nat /\ Rank(rows[j].series[2]) \in Nat
    BY <2>3, RankFacts
  <2> HIDE DEF a, b, F
  <2>5. Key(a) = Key(b) => /\ rows[i].time = rows[j].time /\ rows[i].series[1] = rows[j].series[1]
                           /\ rows[i].series[2] = rows[j].series[2]
    BY <2>2 DEF Key
  <2>6. Key(a) # Key(b)
    BY <2>1, <2>2, <2>4, <2>5 DEF Precedes
  <2>7. QED
    BY <2>6 DEF a, b
<1> HIDE DEF F
<1>9. ASSUME NEW x \in Issues(F) PROVE x[2] \in {"missing_values", "counter_monotonicity"}
  <2> DEFINE all == { <<"error", "timestamp">>, <<"error", "numeric">>, <<"warning", "duplicates">>,
                      <<"warning", "missing_values">>, <<"error", "negative_values">>, <<"warning", "bounds">>,
                      <<"warning", "counter_monotonicity">> }
  <2>1. x \in all
    BY <1>5, <1>9 DEF Issues
  <2>2. x[2] # "timestamp"
    <3>1. x[2] = "timestamp" => \E i \in DOMAIN F.rows : F.rows[i]["timestamp"] \notin Int
      BY <1>5, <1>9 DEF Issues
    <3>2. QED
      BY <1>5, <1>6, <3>1
  <2>3. x[2] # "numeric"
    <3>1. x[2] = "numeric" => \E c \in {Counter, Gauge} : Has(F, c) /\ \E i \in DOMAIN F.rows : F.rows[i][c] \notin Int
      BY <1>5, <1>9 DEF Issues
    <3>2. QED
      BY <1>5, <1>7, <3>1 DEF Has
  <2>4. x[2] # "duplicates"
    <3>1. x[2] = "duplicates" => \E i, j \in DOMAIN F.rows : i < j /\ Key(F.rows[i]) = Key(F.rows[j])
      BY <1>5, <1>9 DEF Issues
    <3>2. QED
      BY <1>5, <1>8, <3>1
  <2>5. x[2] # "negative_values"
    <3>1. x[2] = "negative_values" =>
            \E c \in {Counter, Gauge} : Has(F, c) /\ \E i \in DOMAIN F.rows : F.rows[i][c] \in Int /\ F.rows[i][c] < 0
      BY <1>5, <1>9 DEF Issues
    <3>2. QED
      BY <1>5, <1>7, <3>1 DEF Has
  <2>6. x[2] # "bounds"
    <3>1. x[2] = "bounds" =>
            Has(F, Gauge) /\ \E i \in DOMAIN F.rows :
              F.rows[i][Gauge] \in Int /\ (F.rows[i][Gauge] < Bounds.low \/ F.rows[i][Gauge] > Bounds.high)
      BY <1>5, <1>9 DEF Issues
    <3>2. Bounds.low \in Int /\ Bounds.high \in Int
      BY PreparationAssumption
    <3>3. QED
      BY <1>5, <1>7, <3>1, <3>2 DEF Has
  <2>7. QED
    BY <2>1, <2>2, <2>3, <2>4, <2>5, <2>6
<1>10. QED
  BY <1>9 DEF F

LEMMA SInvMended ==
  ASSUME SInv
  PROVE  WarningsAreMended
<1> SUFFICES ASSUME job # None, job.script = "preprocess", Required \subseteq csv[job.dataset].columns
             PROVE  {x[2] : x \in Issues(AsFrame(job.rows))} \subseteq {"missing_values", "counter_monotonicity"}
  BY DEF WarningsAreMended
<1> DEFINE frame == csv[job.dataset]
<1>1. PreprocessJob(job, frame, processed[job.dataset], jobs) /\ job.dataset \in Datasets
  BY JobIs DEF SInv, SRest
<1>2. frame # None /\ job.rows = Prepared(frame) /\ Frame(frame)
  BY <1>1 DEF PreprocessJob, SInv, SRest, CsvOK
<1> HIDE DEF frame
<1>3. QED
  BY <1>2, MendedRows DEF frame

LEMMA SInvNumbers ==
  ASSUME SInv
  PROVE  NumbersFromSeries
<1> SUFFICES ASSUME job # None, job.script = "preprocess",
                    NEW i \in DOMAIN job.rows, NEW c \in DOMAIN job.rows[i].value
             PROVE  TakenRightly(csv[job.dataset].rows, c, job.rows[i].from[c], job.rows[i].series, job.rows[i].time)
  BY DEF NumbersFromSeries
<1> DEFINE frame == csv[job.dataset]
<1>1. PreprocessJob(job, frame, processed[job.dataset], jobs) /\ job.dataset \in Datasets
  BY JobIs DEF SInv, SRest
<1>2. job.rows = Prepared(frame) /\ Frame(frame)
  BY <1>1 DEF PreprocessJob, SInv, SRest, CsvOK
<1>3. PICK rows : /\ DOMAIN Prepared(frame) = DOMAIN rows
                  /\ \A k \in DOMAIN rows : FilledOf(frame, rows[k]) /\ MadeFrom(rows, k, Prepared(frame)[k])
  BY <1>2, PreparedFacts
<1> DEFINE r == job.rows[i]
<1>4. FilledOf(frame, rows[i]) /\ MadeFrom(rows, i, r)
  BY <1>2, <1>3
<1> HIDE DEF frame, r
<1>5. DOMAIN r.value = DOMAIN rows[i].value /\ r.from = rows[i].from /\ r.series = rows[i].series /\ r.time = rows[i].time
  BY <1>4 DEF MadeFrom
<1>6. c \in NumericColumns(frame)
  BY <1>4, <1>5 DEF FilledOf, r
<1>7. TakenRightly(frame.rows, c, r.from[c], r.series, r.time)
  BY <1>4, <1>5, <1>6 DEF FilledOf
<1>8. QED
  BY <1>7 DEF frame, r

-----------------------------------------------------------------------------
(* The splits.                                                             *)

\* Three parts of the first n numbers that have no number in common and leave
\* none out.
LEMMA ThreeParts ==
  ASSUME NEW n \in Nat, NEW A, NEW B, NEW C, A \cup B \cup C = 1..n, A \cap B = {}, (A \cup B) \cap C = {}
  PROVE  Cardinality(A) + Cardinality(B) + Cardinality(C) = n
<1>1. A \in SUBSET (1..n) /\ B \in SUBSET (1..n) /\ C \in SUBSET (1..n) /\ (A \cup B) \in SUBSET (1..n)
  OBVIOUS
<1>2. IsFiniteSet(A) /\ IsFiniteSet(B) /\ IsFiniteSet(C) /\ IsFiniteSet(A \cup B)
  BY <1>1, Part
<1>3. Cardinality(A) \in Nat /\ Cardinality(B) \in Nat /\ Cardinality(C) \in Nat
  BY <1>2, FS_CardinalityType
<1>4. Cardinality({}) = 0
  BY FS_EmptySet
<1>5. Cardinality(A \cup B) = Cardinality(A) + Cardinality(B)
  <2>1. Cardinality(A \cup B) = Cardinality(A) + Cardinality(B) - Cardinality(A \cap B)
    BY ONLY <1>2, FS_Union
  <2>2. Cardinality(A \cap B) = 0
    BY <1>4
  <2>3. QED
    BY ONLY <1>3, <2>1, <2>2
<1>6. Cardinality((A \cup B) \cup C) = Cardinality(A \cup B) + Cardinality(C)
  <2> DEFINE D == A \cup B
  <2>1. IsFiniteSet(D) /\ Cardinality(D) \in Nat /\ D \cap C = {}
    BY <1>2, FS_CardinalityType
  <2> HIDE DEF D
  <2>2. Cardinality(D \cup C) = Cardinality(D) + Cardinality(C) - Cardinality(D \cap C)
    BY ONLY <1>2, <2>1, FS_Union
  <2>3. Cardinality(D \cap C) = 0
    BY <1>4, <2>1
  <2>4. Cardinality(D \cup C) = Cardinality(D) + Cardinality(C)
    BY ONLY <1>3, <2>1, <2>2, <2>3
  <2>5. QED
    BY <2>4 DEF D
<1>7. Cardinality(1..n) = n
  BY Interval
<1>8. QED
  BY <1>5, <1>6, <1>7

\* The rows of one part are earlier than those of the next.
LEMMA PartsApart ==
  ASSUME NEW rows, RowsOK(rows), NEW den \in Nat, NEW bound \in Int,
         NEW S \in SUBSET DOMAIN rows, \A i \in S : den * rows[i].time <= bound,
         NEW T \in SUBSET DOMAIN rows, \A i \in T : den * rows[i].time > bound,
         NEW i \in DOMAIN ChosenAt(rows, S), NEW j \in DOMAIN ChosenAt(rows, T)
  PROVE  ChosenAt(rows, S)[i].time < ChosenAt(rows, T)[j].time
<1>1. Listed(rows) /\ \A k \in DOMAIN rows : rows[k].time \in Int
  BY DEF RowsOK, Countable
<1>2. \E k \in S : ChosenAt(rows, S)[i] = rows[k]
  <2>1. /\ DOMAIN ChosenAt(rows, S) = 1..Cardinality(S)
        /\ \E at \in [1..Cardinality(S) -> S] : \A p \in 1..Cardinality(S) : ChosenAt(rows, S)[p] = rows[at[p]]
    BY <1>1, ChosenFacts
  <2>2. PICK at \in [1..Cardinality(S) -> S] : \A p \in 1..Cardinality(S) : ChosenAt(rows, S)[p] = rows[at[p]]
    BY <2>1
  <2>3. QED
    BY <2>1, <2>2
<1>3. \E k \in T : ChosenAt(rows, T)[j] = rows[k]
  <2>1. /\ DOMAIN ChosenAt(rows, T) = 1..Cardinality(T)
        /\ \E at \in [1..Cardinality(T) -> T] : \A p \in 1..Cardinality(T) : ChosenAt(rows, T)[p] = rows[at[p]]
    BY <1>1, ChosenFacts
  <2>2. PICK at \in [1..Cardinality(T) -> T] : \A p \in 1..Cardinality(T) : ChosenAt(rows, T)[p] = rows[at[p]]
    BY <2>1
  <2>3. QED
    BY <2>1, <2>2
<1>4. PICK k \in S : ChosenAt(rows, S)[i] = rows[k]
  BY <1>2
<1>5. PICK m \in T : ChosenAt(rows, T)[j] = rows[m]
  BY <1>3
<1> DEFINE a == rows[k].time
           b == rows[m].time
<1>6. a \in Int /\ b \in Int /\ den * a <= bound /\ den * b > bound
  BY <1>1
<1> HIDE DEF a, b
<1>7. b <= a => den * b <= den * a /\ den * b \in Int /\ den * a \in Int
  BY <1>6, Times
<1>8. a < b
  BY <1>6, <1>7
<1>9. QED
  BY <1>4, <1>5, <1>8 DEF a, b

\* A split keeps every row, in three parts one after the other.
Following(first, next) == \A i \in DOMAIN first, j \in DOMAIN next : first[i].time < next[j].time

LEMMA SplitFacts ==
  ASSUME NEW rows, RowsOK(rows), NEW parts, parts = ChronologicalSplit(rows)
  PROVE  /\ Len(rows) = Len(parts["train"]) + Len(parts["validation"]) + Len(parts["test"])
         /\ Following(parts["train"], parts["validation"]) /\ Following(parts["train"], parts["test"])
         /\ Following(parts["validation"], parts["test"])
<1> DEFINE n == Len(rows)
           times == [i \in DOMAIN rows |-> rows[i].time]
           lo == Shares["train"]
           hi == Shares["train"] + Shares["validation"]
           den == Shares["train"] + Shares["validation"] + Shares["test"]
           first == IF rows = <<>> THEN 0 ELSE Quantile(times, lo, den)
           next == IF rows = <<>> THEN 0 ELSE Quantile(times, hi, den)
           A == {i \in DOMAIN rows : den * times[i] <= first}
           B == {i \in DOMAIN rows : den * times[i] > first /\ den * times[i] <= next}
           C == {i \in DOMAIN rows : den * times[i] > next}
<1>1. ChronologicalSplit(rows) = [train |-> ChosenAt(rows, A), validation |-> ChosenAt(rows, B), test |-> ChosenAt(rows, C)]
  BY DEF ChronologicalSplit
<1>2. n \in Nat /\ DOMAIN rows = 1..n /\ Listed(rows) /\ \A i \in DOMAIN rows : rows[i].time \in Int
  BY DEF RowsOK, Countable, Listed
<1>3. den \in Nat /\ den > 0 /\ lo \in 0..den /\ hi \in 0..den /\ lo <= hi
  <2>1. Shares["train"] \in Nat /\ Shares["validation"] \in Nat /\ Shares["test"] \in Nat /\ Shares["train"] > 0
    BY PreparationAssumption
  <2>2. QED
    BY <2>1
<1>4. times \in [1..n -> Int] /\ \A i \in DOMAIN rows : times[i] = rows[i].time
  BY <1>2
<1> HIDE DEF times, lo, hi, den
<1>5. first \in Int /\ next \in Int /\ first <= next
  <2>1. CASE rows = <<>>
    BY <2>1
  <2>2. CASE rows # <<>>
    <3>1. n > 0
      BY <1>2, <2>2 DEF Listed
    <3> HIDE DEF n
    <3>2. Quantile(times, lo, den) \in Int /\ Quantile(times, hi, den) \in Int
      BY <1>2, <1>3, <1>4, <3>1, QuantileBounds
    <3>3. Quantile(times, lo, den) <= Quantile(times, hi, den)
      BY <1>2, <1>3, <1>4, <3>1, QuantileGrows
    <3>4. QED
      BY <2>2, <3>2, <3>3
  <2>3. QED
    BY <2>1, <2>2
<1> HIDE DEF first, next
<1>6. \A i \in DOMAIN rows : den * times[i] \in Int
  BY <1>2, <1>3, <1>4, Times
<1>7. A \in SUBSET DOMAIN rows /\ B \in SUBSET DOMAIN rows /\ C \in SUBSET DOMAIN rows
  OBVIOUS
<1>8. /\ \A i \in A : den * rows[i].time <= first /\ den * rows[i].time <= next
      /\ \A i \in B : den * rows[i].time > first /\ den * rows[i].time <= next
      /\ \A i \in C : den * rows[i].time > first /\ den * rows[i].time > next
  BY <1>4, <1>5, <1>6
<1>9. A \cup B \cup C = 1..n /\ A \cap B = {} /\ (A \cup B) \cap C = {}
  BY <1>2, <1>5, <1>6
<1> HIDE DEF A, B, C, n
<1>10. Cardinality(A) + Cardinality(B) + Cardinality(C) = n
  <2>1. n \in Nat
    BY <1>2
  <2>2. QED
    BY ONLY <1>9, <2>1, ThreeParts
<1>11. /\ Len(ChosenAt(rows, A)) = Cardinality(A) /\ Len(ChosenAt(rows, B)) = Cardinality(B)
       /\ Len(ChosenAt(rows, C)) = Cardinality(C)
  BY <1>2, <1>7, ChosenFacts
<1>12. Following(ChosenAt(rows, A), ChosenAt(rows, B))
  BY <1>3, <1>5, <1>7, <1>8, PartsApart DEF Following
<1>13. Following(ChosenAt(rows, A), ChosenAt(rows, C))
  BY <1>3, <1>5, <1>7, <1>8, PartsApart DEF Following
<1>14. Following(ChosenAt(rows, B), ChosenAt(rows, C))
  BY <1>3, <1>5, <1>7, <1>8, PartsApart DEF Following
<1>15. /\ parts["train"] = ChosenAt(rows, A) /\ parts["validation"] = ChosenAt(rows, B)
       /\ parts["test"] = ChosenAt(rows, C)
  BY <1>1
<1>16. QED
  BY <1>10, <1>11, <1>12, <1>13, <1>14, <1>15 DEF n

LEMMA SInvSplits ==
  ASSUME SInv
  PROVE  SplitNeverGoesBack
<1> SUFFICES ASSUME NEW d \in Datasets,
                    {f \in DOMAIN processed[d] : processed[d][f] \notin {None, Torn}} = DOMAIN processed[d],
                    Cardinality({processed[d][f].number : f \in DOMAIN processed[d]}) = 1
             PROVE  LET p == processed[d]
                    IN /\ p["manifest"].rows = Len(p["train"].rows) + Len(p["validation"].rows) + Len(p["test"].rows)
                       /\ \A a, b \in 1..3 : a < b =>
                            \A i \in DOMAIN p[SplitNames[a]].rows, j \in DOMAIN p[SplitNames[b]].rows :
                              p[SplitNames[a]].rows[i].time < p[SplitNames[b]].rows[j].time
  BY DEF SplitNeverGoesBack
<1> DEFINE p == processed[d]
           numbers == {p[f].number : f \in DOMAIN p}
<1>1. FileOK(p, jobs) /\ jobs \in Nat /\ DOMAIN p = Splits \cup {"manifest"}
  BY DEF SInv, SRest, FilesOK, FileOK, Base
<1>2. \A f \in DOMAIN p : There(p[f]) /\ p[f].number \in 0..jobs
  BY <1>1 DEF FileOK, There
<1>3. IsFiniteSet(numbers)
  <2>1. numbers \subseteq 0..jobs
    BY <1>2
  <2>2. IsFiniteSet(0..jobs)
    BY <1>1, FS_Interval
  <2>3. QED
    BY <2>1, <2>2, FS_Subset
<1>4. PICK k : numbers = {k}
  BY <1>3, FS_Singleton
<1>5. OfOneJob(p)
  <2>1. \A f \in DOMAIN p : p[f].number \in numbers
    OBVIOUS
  <2> HIDE DEF p, numbers
  <2>2. \A f \in DOMAIN p : p[f].number = k
    BY <1>4, <2>1
  <2>3. QED
    BY <1>1, <1>2, <2>2 DEF OfOneJob
<1>6. PICK rows : SplitOf(p, rows)
  BY <1>1, <1>5 DEF FileOK
<1> DEFINE parts == ChronologicalSplit(rows)
<1>7. RowsOK(rows) /\ p["manifest"].rows = Len(rows) /\ \A s \in Splits : p[s].rows = parts[s]
  BY <1>6 DEF SplitOf
<1> HIDE DEF p, parts
<1>8. /\ Len(rows) = Len(parts["train"]) + Len(parts["validation"]) + Len(parts["test"])
      /\ Following(parts["train"], parts["validation"]) /\ Following(parts["train"], parts["test"])
      /\ Following(parts["validation"], parts["test"])
  BY <1>7, SplitFacts DEF parts
<1>9. p["train"].rows = parts["train"] /\ p["validation"].rows = parts["validation"] /\ p["test"].rows = parts["test"]
  BY <1>7 DEF Splits
<1>10. SplitNames[1] = "train" /\ SplitNames[2] = "validation" /\ SplitNames[3] = "test"
  BY DEF SplitNames
<1>11. ASSUME NEW a \in 1..3, NEW b \in 1..3, a < b
       PROVE  Following(p[SplitNames[a]].rows, p[SplitNames[b]].rows)
  <2>1. (a = 1 /\ b = 2) \/ (a = 1 /\ b = 3) \/ (a = 2 /\ b = 3)
    BY <1>11
  <2>2. QED
    BY <1>8, <1>9, <1>10, <2>1
<1>12. QED
  BY <1>7, <1>8, <1>9, <1>11 DEF Following, p

-----------------------------------------------------------------------------
(* The features.                                                           *)

\* Of three rows in their order the one between two of a series is of it.
LEMMA Between ==
  ASSUME NEW rows, RowsOK(rows), NEW a \in DOMAIN rows, NEW b \in DOMAIN rows, NEW c \in DOMAIN rows,
         a < b, b < c, rows[a].series = rows[c].series
  PROVE  rows[b].series = rows[a].series
<1>1. Precedes(rows[a], rows[b]) /\ Precedes(rows[b], rows[c])
  BY DEF RowsOK
<1>2. PICK x \in NameSet, y \in NameSet : rows[a].series = <<x, y>>
  BY DEF RowsOK
<1>3. PICK u \in NameSet, v \in NameSet : rows[b].series = <<u, v>>
  BY DEF RowsOK
<1>4. Rank(x) \in Nat /\ Rank(y) \in Nat /\ Rank(u) \in Nat /\ Rank(v) \in Nat
  BY RankFacts
<1>5. Rank(x) < Rank(u) \/ (x = u /\ Rank(y) < Rank(v)) \/ (x = u /\ y = v)
  BY <1>1, <1>2, <1>3 DEF Precedes
<1>6. Rank(u) < Rank(x) \/ (u = x /\ Rank(v) < Rank(y)) \/ (u = x /\ v = y)
  BY <1>1, <1>2, <1>3 DEF Precedes
<1>7. u = x /\ v = y
  BY <1>4, <1>5, <1>6
<1>8. QED
  BY <1>2, <1>3, <1>7

LEMMA FirstOfIs ==
  ASSUME NEW rows, Listed(rows), NEW k, NEW i \in DOMAIN rows
  PROVE  /\ FirstOf(rows, k, i) \in DOMAIN rows /\ FirstOf(rows, k, i) \in Nat /\ FirstOf(rows, k, i) <= i
         /\ rows[FirstOf(rows, k, i)].series[k] = rows[i].series[k]
         /\ \A j \in DOMAIN rows : rows[j].series[k] = rows[i].series[k] => FirstOf(rows, k, i) <= j
<1> DEFINE T == {j \in DOMAIN rows : rows[j].series[k] = rows[i].series[k]}
<1>1. T \subseteq Nat /\ i \in T
  BY DEF Listed
<1>2. FirstOf(rows, k, i) = Smallest(T)
  BY DEF FirstOf
<1> HIDE DEF T
<1>3. Smallest(T) \in T /\ \A y \in T : Smallest(T) <= y
  BY <1>1, SmallestIs
<1>4. QED
  BY <1>1, <1>2, <1>3 DEF T

\* The devices follow one another.
LEMMA DeviceBetween ==
  ASSUME NEW rows, RowsOK(rows), NEW a \in DOMAIN rows, NEW b \in DOMAIN rows, NEW c \in DOMAIN rows,
         a < b, b < c, rows[a].series[1] = rows[c].series[1]
  PROVE  rows[b].series[1] = rows[a].series[1]
<1>1. Precedes(rows[a], rows[b]) /\ Precedes(rows[b], rows[c])
  BY DEF RowsOK
<1>2. rows[a].series[1] \in NameSet /\ rows[b].series[1] \in NameSet /\ rows[c].series[1] \in NameSet
  BY DEF RowsOK
<1>3. /\ Rank(rows[a].series[1]) < Rank(rows[b].series[1]) \/ rows[a].series[1] = rows[b].series[1]
      /\ Rank(rows[b].series[1]) < Rank(rows[c].series[1]) \/ rows[b].series[1] = rows[c].series[1]
  BY <1>1 DEF Precedes
<1>4. Rank(rows[a].series[1]) \in Nat /\ Rank(rows[b].series[1]) \in Nat
  BY <1>2, RankFacts
<1>5. QED
  BY <1>3, <1>4

LEMMA DevicesInOrder ==
  ASSUME NEW rows, RowsOK(rows), NEW i \in DOMAIN rows, NEW j \in DOMAIN rows, i < j
  PROVE  FirstOf(rows, 1, i) <= FirstOf(rows, 1, j)
<1> DEFINE a == FirstOf(rows, 1, i)
           b == FirstOf(rows, 1, j)
<1>1. Listed(rows)
  BY DEF RowsOK, Countable
<1>2. /\ a \in DOMAIN rows /\ a <= i /\ rows[a].series[1] = rows[i].series[1]
      /\ \A k \in DOMAIN rows : rows[k].series[1] = rows[i].series[1] => a <= k
  BY <1>1, FirstOfIs
<1>3. b \in DOMAIN rows /\ b <= j /\ rows[b].series[1] = rows[j].series[1]
  BY <1>1, FirstOfIs
<1> HIDE DEF a, b
<1>4. a \in Nat /\ b \in Nat /\ i \in Nat /\ j \in Nat
  BY <1>1, <1>2, <1>3 DEF Listed
<1>5. b < a => FALSE
  <2> SUFFICES ASSUME b < a PROVE FALSE
    OBVIOUS
  <2>1. b < i
    BY <1>2, <1>4
  <2>2. rows[i].series[1] = rows[b].series[1]
    BY <1>3, <2>1, DeviceBetween
  <2>3. a <= b
    BY <1>2, <1>3, <2>2
  <2>4. QED
    BY <1>4, <2>3
<1>6. QED
  BY <1>4, <1>5 DEF a, b

\* The order of the groups: row i comes back before row j.
GroupedBefore(rows, i, j) ==
  \/ FirstOf(rows, 1, i) < FirstOf(rows, 1, j)
  \/ FirstOf(rows, 1, i) = FirstOf(rows, 1, j) /\ FirstOf(rows, 2, i) < FirstOf(rows, 2, j)
  \/ FirstOf(rows, 1, i) = FirstOf(rows, 1, j) /\ FirstOf(rows, 2, i) = FirstOf(rows, 2, j) /\ i < j
GroupOrder(rows) == {x \in (1..Len(rows)) \X (1..Len(rows)) : GroupedBefore(rows, x[1], x[2])}

LEMMA GroupOrderStrict ==
  ASSUME NEW rows, Listed(rows)
  PROVE  StrictOrder(GroupOrder(rows), Len(rows))
<1> DEFINE n == Len(rows)
           R == GroupOrder(rows)
<1>1. n \in Nat /\ DOMAIN rows = 1..n
  BY DEF Listed
<1>2. \A i \in 1..n : FirstOf(rows, 1, i) \in Nat /\ FirstOf(rows, 2, i) \in Nat /\ i \in Nat
  BY <1>1, FirstOfIs
<1>3. \A i, j \in 1..n : <<i, j>> \in R <=> GroupedBefore(rows, i, j)
  BY DEF GroupOrder
<1> HIDE DEF R, n
<1>4. \A i \in 1..n : <<i, i>> \notin R
  BY <1>2, <1>3 DEF GroupedBefore
<1>5. \A i, j \in 1..n : i # j => <<i, j>> \in R \/ <<j, i>> \in R
  BY <1>2, <1>3 DEF GroupedBefore
<1>6. \A i, j, k \in 1..n : <<i, j>> \in R /\ <<j, k>> \in R => <<i, k>> \in R
  BY <1>2, <1>3 DEF GroupedBefore
<1>7. StrictOrder(R, n)
  BY <1>4, <1>5, <1>6 DEF StrictOrder
<1>8. QED
  BY <1>7 DEF R, n

\* GroupedOrder puts the rows into this order.
LEMMA GroupedFacts ==
  ASSUME NEW rows, Listed(rows)
  PROVE  /\ \A p \in 1..Len(rows) : GroupedOrder(rows)[p] \in 1..Len(rows)
         /\ InOrder(GroupedOrder(rows), GroupOrder(rows), Len(rows))
<1> DEFINE n == Len(rows)
           R == GroupOrder(rows)
           code == [k \in {1, 2} |-> [i \in DOMAIN rows |-> FirstOf(rows, k, i)]]
           self == [i \in DOMAIN rows |-> i]
           Less(i, j) == \/ code[1][i] < code[1][j]
                         \/ code[1][i] = code[1][j] /\ code[2][i] < code[2][j]
                         \/ code[1][i] = code[1][j] /\ code[2][i] = code[2][j] /\ i < j
           place == [i \in DOMAIN self |->
             1 + Cardinality({j \in DOMAIN self : Less(self[j], self[i]) \/ (j < i /\ ~Less(self[i], self[j]))})]
           at == GroupedOrder(rows)
<1>1. n \in Nat /\ DOMAIN rows = 1..n
  BY DEF Listed
<1>2. at = [p \in DOMAIN self |-> self[CHOOSE i \in DOMAIN self : place[i] = p]]
  BY DEF GroupedOrder, SortedBy
<1>3. DOMAIN self = 1..n /\ \A i \in 1..n : self[i] = i
  BY <1>1
<1>4. \A i \in 1..n : code[1][i] = FirstOf(rows, 1, i) /\ code[2][i] = FirstOf(rows, 2, i)
  BY <1>1
<1> HIDE DEF code
<1>5. \A i, j \in 1..n : <<i, j>> \in R <=> Less(i, j)
  BY <1>4 DEF GroupOrder, GroupedBefore
<1>6. StrictOrder(R, n)
  BY GroupOrderStrict
<1> HIDE DEF R, Less, n, at, self
<1>7. ASSUME NEW i \in 1..n PROVE place[i] = Place(1..n, R, i)
  <2>1. \A j \in 1..n : Less(self[j], self[i]) \/ (j < i /\ ~Less(self[i], self[j])) <=> <<j, i>> \in R
    <3> SUFFICES ASSUME NEW j \in 1..n
                 PROVE  Less(self[j], self[i]) \/ (j < i /\ ~Less(self[i], self[j])) <=> <<j, i>> \in R
      OBVIOUS
    <3>1. self[j] = j /\ self[i] = i /\ (j < i => j # i)
      BY <1>3
    <3>2. j # i => <<i, j>> \in R \/ <<j, i>> \in R
      BY <1>6 DEF StrictOrder
    <3>3. QED
      BY <1>5, <3>1, <3>2
  <2>2. {j \in DOMAIN self : Less(self[j], self[i]) \/ (j < i /\ ~Less(self[i], self[j]))} = {j \in 1..n : <<j, i>> \in R}
    BY <1>3, <2>1
  <2>3. QED
    BY <1>3, <2>2 DEF Place
<1> HIDE DEF place
<1>8. ASSUME NEW p \in 1..n PROVE at[p] \in 1..n /\ Place(1..n, R, at[p]) = p
  <2> DEFINE k == CHOOSE i \in DOMAIN self : place[i] = p
  <2>1. \E i \in 1..n : Place(1..n, R, i) = p
    BY ONLY <1>1, p \in 1..n, <1>6, Placed
  <2>2. \E i \in DOMAIN self : place[i] = p
    BY <1>3, <1>7, <2>1
  <2>3. k \in 1..n /\ place[k] = p /\ at[p] = self[k]
    BY <1>2, <1>3, <2>2
  <2> HIDE DEF k
  <2>4. QED
    BY <1>3, <1>7, <2>3
<1>9. Placing(at, R, n)
  BY <1>8 DEF Placing
<1>10. InOrder(at, R, n)
  BY ONLY <1>1, <1>6, <1>9, SortedFacts
<1>11. QED
  BY <1>8, <1>10 DEF at, R, n

\* An order in which no row comes back behind its place moves none.
LEMMA NoneMoves ==
  ASSUME NEW n \in Nat, NEW R, StrictOrder(R, n), NEW at, InOrder(at, R, n),
         \A p \in 1..n : at[p] \in 1..n /\ p <= at[p]
  PROVE  \A p \in 1..n : at[p] = p
<1> DEFINE T == {p \in 1..n : at[p] # p}
<1> SUFFICES ASSUME T # {} PROVE FALSE
  OBVIOUS
<1>1. Largest(T) \in T /\ \A x \in T : Largest(T) >= x
  <2>1. T \in SUBSET (1..n)
    OBVIOUS
  <2> HIDE DEF T
  <2>2. QED
    BY <2>1, LargestIs
<1>2. PICK m \in T : \A x \in T : m >= x
  BY <1>1
<1>3. m \in 1..n /\ at[m] \in 1..n /\ m < at[m]
  OBVIOUS
<1>4. at[at[m]] = at[m]
  <2>1. at[m] \notin T
    BY <1>2, <1>3
  <2>2. QED
    BY <1>3, <2>1
<1> HIDE DEF T
<1>5. <<at[m], at[at[m]]>> \in R
  BY <1>3 DEF InOrder
<1>6. QED
  BY <1>3, <1>4, <1>5 DEF StrictOrder

\* Where the interfaces are in order the groups are that of the rows.
LEMMA GroupedAsTheyAre ==
  ASSUME NEW rows, RowsOK(rows), InterfacesInOrder(rows)
  PROVE  \A i \in DOMAIN rows : GroupedOrder(rows)[i] = i
<1> DEFINE n == Len(rows)
           R == GroupOrder(rows)
           at == GroupedOrder(rows)
<1>1. n \in Nat /\ DOMAIN rows = 1..n /\ Listed(rows)
  BY DEF RowsOK, Countable, Listed
<1>2. InOrder(at, R, n) /\ StrictOrder(R, n) /\ \A p \in 1..n : at[p] \in 1..n
  BY <1>1, GroupedFacts, GroupOrderStrict
<1>3. ASSUME NEW i \in 1..n, NEW j \in 1..n, <<i, j>> \in R PROVE i < j
  <2>1. GroupedBefore(rows, i, j)
    BY <1>3 DEF GroupOrder
  <2>2. /\ FirstOf(rows, 1, i) \in Nat /\ FirstOf(rows, 1, j) \in Nat
        /\ FirstOf(rows, 2, i) \in Nat /\ FirstOf(rows, 2, j) \in Nat
    BY <1>1, FirstOfIs
  <2>3. FirstOf(rows, 1, i) = FirstOf(rows, 1, j) => rows[i].series[1] = rows[j].series[1]
    BY <1>1, FirstOfIs
  <2>4. j < i => FirstOf(rows, 1, j) <= FirstOf(rows, 1, i)
    BY <1>1, DevicesInOrder
  <2>5. j < i /\ rows[j].series[1] = rows[i].series[1] => FirstOf(rows, 2, j) <= FirstOf(rows, 2, i)
    BY <1>1 DEF InterfacesInOrder
  <2>6. QED
    BY <2>1, <2>2, <2>3, <2>4, <2>5 DEF GroupedBefore
<1> HIDE DEF at, R, n
<1>4. \A p, q \in 1..n : p < q => at[p] < at[q]
  BY <1>2, <1>3 DEF InOrder
<1>5. ASSUME NEW p \in 1..n PROVE p <= at[p]
  <2> DEFINE T == {q \in 1..n : at[q] < q}
  <2> SUFFICES ASSUME at[p] < p PROVE FALSE
    BY <1>2
  <2>1. T \subseteq Nat /\ T # {}
    OBVIOUS
  <2> HIDE DEF T
  <2>2. PICK q \in T : \A x \in T : q <= x
    BY <2>1, SmallestIs
  <2>3. q \in 1..n /\ at[q] \in 1..n /\ at[q] < q
    BY <1>2 DEF T
  <2>4. at[at[q]] < at[q]
    BY <1>4, <2>3
  <2>5. at[q] \in T
    BY <2>3, <2>4 DEF T
  <2>6. QED
    BY <2>2, <2>3, <2>5
<1>6. \A p \in 1..n : at[p] = p
  BY ONLY <1>1, <1>2, <1>5, NoneMoves
<1>7. QED
  BY <1>1, <1>6 DEF at, n

\* features.py: "computed per (device, interface) series".  Wherever the
\* interfaces of a frame are not in order, there is a row whose windows do not
\* even hold the row itself: the order of the interfaces is all it takes.
THEOREM WindowsMisplaced ==
  ASSUME NEW rows, RowsOK(rows), ~InterfacesInOrder(rows)
  PROVE  \E i \in DOMAIN rows : \A w \in Windows : i \notin BuildFeatures(rows)[i].rolling[w]
<1> DEFINE n == Len(rows)
           R == GroupOrder(rows)
           at == GroupedOrder(rows)
           Found(i) == \E w \in Windows : i \in BuildFeatures(rows)[i].rolling[w]
<1> SUFFICES ASSUME \A i \in DOMAIN rows : Found(i) PROVE FALSE
  OBVIOUS
<1>1. n \in Nat /\ DOMAIN rows = 1..n /\ Listed(rows)
  BY DEF RowsOK, Countable, Listed
<1>2. InOrder(at, R, n) /\ StrictOrder(R, n) /\ \A p \in 1..n : at[p] \in 1..n
  BY <1>1, GroupedFacts, GroupOrderStrict
<1>3. ASSUME NEW i \in 1..n PROVE i <= at[i]
  <2>1. PICK w \in Windows : i \in BuildFeatures(rows)[i].rolling[w]
    BY <1>1
  <2>2. BuildFeatures(rows)[i].rolling = [v \in Windows |-> Window(rows, v, GroupedOrder(rows)[i])]
    BY <1>1 DEF BuildFeatures
  <2>3. i \in Window(rows, w, at[i])
    BY <2>1, <2>2
  <2>4. i \in 1..at[i]
    BY <2>3 DEF Window
  <2>5. QED
    BY <1>2, <2>4
<1> HIDE DEF at, R, n, Found
<1>4. \A p \in 1..n : at[p] = p
  BY ONLY <1>1, <1>2, <1>3, NoneMoves
<1>5. PICK i \in 1..n, j \in 1..n :
        i < j /\ rows[i].series[1] = rows[j].series[1] /\ ~(FirstOf(rows, 2, i) <= FirstOf(rows, 2, j))
  BY <1>1 DEF InterfacesInOrder
<1>6. /\ FirstOf(rows, 1, i) \in Nat /\ FirstOf(rows, 1, j) \in Nat
      /\ FirstOf(rows, 2, i) \in Nat /\ FirstOf(rows, 2, j) \in Nat
  BY <1>1, FirstOfIs
<1>7. FirstOf(rows, 1, i) <= FirstOf(rows, 1, j) /\ FirstOf(rows, 1, j) <= FirstOf(rows, 1, i)
  <2>1. /\ rows[FirstOf(rows, 1, i)].series[1] = rows[i].series[1] /\ FirstOf(rows, 1, i) \in DOMAIN rows
        /\ rows[FirstOf(rows, 1, j)].series[1] = rows[j].series[1] /\ FirstOf(rows, 1, j) \in DOMAIN rows
    BY <1>1, FirstOfIs
  <2>2. QED
    BY <1>1, <1>5, <2>1, FirstOfIs
<1>8. FirstOf(rows, 1, i) = FirstOf(rows, 1, j) /\ FirstOf(rows, 2, j) < FirstOf(rows, 2, i)
  BY <1>5, <1>6, <1>7
<1>9. ~GroupedBefore(rows, i, j)
  BY <1>6, <1>8 DEF GroupedBefore
<1>10. <<at[i], at[j]>> \in R
  BY <1>2, <1>5 DEF InOrder
<1>11. QED
  BY <1>4, <1>9, <1>10 DEF R, GroupOrder

\* What the features of row i are computed from.
LEMMA Causal ==
  ASSUME NEW rows, RowsOK(rows), NEW i \in DOMAIN rows, NEW j \in 1..i, rows[j].series = rows[i].series
  PROVE  rows[j].time <= rows[i].time /\ (j < i => rows[j].time < rows[i].time)
<1>1. j \in DOMAIN rows /\ i \in Nat /\ j \in Nat
  BY DEF RowsOK, Countable, Listed
<1>2. rows[i].time \in Int /\ rows[j].time \in Int
  BY <1>1 DEF RowsOK
<1>3. CASE j < i
  <2>1. Precedes(rows[j], rows[i])
    BY <1>1, <1>3 DEF RowsOK
  <2>2. PICK x \in NameSet, y \in NameSet : rows[i].series = <<x, y>>
    BY DEF RowsOK
  <2>3. Rank(x) \in Nat /\ Rank(y) \in Nat
    BY RankFacts
  <2>4. QED
    BY <1>2, <2>1, <2>2, <2>3 DEF Precedes
<1>4. CASE j = i
  BY <1>2, <1>4
<1>5. QED
  BY <1>1, <1>3, <1>4

LEMMA EarlierIs ==
  ASSUME NEW rows, Listed(rows), NEW i \in DOMAIN rows, NEW n, Earlier(rows, i, n) # 0
  PROVE  Earlier(rows, i, n) \in 1..(i-1) /\ rows[Earlier(rows, i, n)].series = rows[i].series
<1> DEFINE past == {j \in 1..(i-1) : rows[j].series = rows[i].series}
           here == {j \in past : Cardinality({k \in past : k >= j}) = n}
<1>1. Earlier(rows, i, n) = IF here = {} THEN 0 ELSE Smallest(here)
  BY DEF Earlier
<1>2. here \subseteq past /\ past \subseteq Nat /\ \A j \in past : j \in 1..(i-1) /\ rows[j].series = rows[i].series
  OBVIOUS
<1> HIDE DEF here, past
<1>3. here # {} /\ here \subseteq Nat /\ Earlier(rows, i, n) = Smallest(here)
  BY <1>1, <1>2
<1>4. Smallest(here) \in here
  BY <1>3, SmallestIs
<1>5. QED
  BY <1>2, <1>3, <1>4

LEMMA SInvFeatures ==
  ASSUME SInv
  PROVE  FeaturesLookBack
<1> SUFFICES ASSUME At("train", "fit"), NEW s \in DOMAIN job.splits, NEW i \in DOMAIN job.splits[s]
             PROVE  LET rows == job.splits[s]
                        f == job.features[s][i]
                        Past(j) == rows[j].series = rows[i].series /\ rows[j].time <= rows[i].time
                    IN /\ InterfacesInOrder(rows) => \A w \in Windows : i \in f.rolling[w] /\ \A j \in f.rolling[w] : Past(j)
                       /\ \A n \in Lags : f.lag[n] # 0 => Past(f.lag[n]) /\ rows[f.lag[n]].time < rows[i].time
  BY DEF FeaturesLookBack
<1> DEFINE rows == job.splits[s]
           f == job.features[s][i]
<1>1. TrainJob(job, experiments) /\ job.stage = "fit"
  BY JobIs DEF SInv, SRest, At
<1>2. RowsOK(rows) /\ job.features[s] = BuildFeatures(rows)
  BY <1>1 DEF TrainJob
<1>3. Listed(rows) /\ i \in Nat /\ i > 0
  BY <1>2 DEF RowsOK, Countable, Listed
<1>4. InterfacesInOrder(rows) => GroupedOrder(rows)[i] = i
  BY <1>2, GroupedAsTheyAre
<1>5. /\ f.rolling = [w \in Windows |-> Window(rows, w, GroupedOrder(rows)[i])]
      /\ f.lag = [n \in Lags |-> Earlier(rows, i, n)]
  BY <1>2 DEF BuildFeatures
<1> HIDE DEF f, rows
<1>6. ASSUME InterfacesInOrder(rows), NEW w \in Windows
      PROVE  i \in f.rolling[w] /\ \A j \in f.rolling[w] : rows[j].series = rows[i].series /\ rows[j].time <= rows[i].time
  <2>1. f.rolling[w] = Window(rows, w, i)
    BY <1>4, <1>5, <1>6
  <2>2. w \in Nat /\ w > 0
    BY PreparationAssumption
  <2>3. {m \in i..i : rows[m].series = rows[i].series} = {i}
    BY <1>3
  <2>4. Cardinality({i}) = 1
    BY FS_Singleton
  <2>5. Cardinality({m \in i..i : rows[m].series = rows[i].series}) <= w
    BY <2>2, <2>3, <2>4
  <2>6. i \in Window(rows, w, i)
    BY <1>3, <2>5 DEF Window
  <2>7. \A j \in Window(rows, w, i) : j \in 1..i /\ rows[j].series = rows[i].series
    BY DEF Window
  <2>8. \A j \in Window(rows, w, i) : rows[j].time <= rows[i].time
    BY <1>2, <2>7, Causal DEF rows
  <2>9. QED
    BY <2>1, <2>6, <2>7, <2>8
<1>7. ASSUME NEW n \in Lags, f.lag[n] # 0
      PROVE  /\ rows[f.lag[n]].series = rows[i].series /\ rows[f.lag[n]].time <= rows[i].time
             /\ rows[f.lag[n]].time < rows[i].time
  <2>1. f.lag[n] = Earlier(rows, i, n)
    BY <1>5
  <2>2. f.lag[n] \in 1..(i-1) /\ rows[f.lag[n]].series = rows[i].series
    BY <1>3, <1>7, <2>1, EarlierIs DEF rows
  <2>3. f.lag[n] \in 1..i /\ f.lag[n] < i
    BY <1>3, <2>2
  <2>4. QED
    BY <1>2, <2>2, <2>3, Causal DEF rows
<1>8. QED
  BY <1>6, <1>7 DEF f, rows

-----------------------------------------------------------------------------
(* The growth of the counters.                                             *)

LEMMA MaxOf ==
  ASSUME NEW n \in Nat, NEW d \in SUBSET (1..n), d # {}
  PROVE  Max(d) \in d /\ \A x \in d : Max(d) >= x
<1>1. Max(d) = Largest(d)
  BY DEF Max, Largest
<1>2. Largest(d) \in d /\ \A x \in d : Largest(d) >= x
  BY LargestIs
<1>3. QED
  BY <1>1, <1>2

\* The sum of the terms t[i] of each set of the first n numbers.
SumOf(sum, t, n) == \A d \in SUBSET (1..n) : sum[d] = IF d = {} THEN 0 ELSE sum[d \ {Max(d)}] + t[Max(d)]
Summable(t, n) == \E sum \in [SUBSET (1..n) -> Int] : SumOf(sum, t, n)

LEMMA SumExists ==
  ASSUME NEW n \in Nat, NEW t, \A i \in 1..n : t[i] \in Int
  PROVE  Summable(t, n)
<1> DEFINE T == {k \in Nat : k <= n => Summable(t, k)}
<1>1. 0 \in T
  <2> DEFINE sum == [d \in SUBSET (1..0) |-> 0]
  <2>1. \A d \in SUBSET (1..0) : d = {}
    OBVIOUS
  <2>2. sum \in [SUBSET (1..0) -> Int] /\ SumOf(sum, t, 0)
    BY <2>1 DEF SumOf
  <2> HIDE DEF sum
  <2>3. Summable(t, 0)
    BY <2>2 DEF Summable
  <2>4. QED
    BY <2>3
<1>2. ASSUME NEW k \in T PROVE k + 1 \in T
  <2>1. k \in Nat /\ k + 1 \in Nat
    OBVIOUS
  <2> SUFFICES ASSUME k + 1 <= n PROVE Summable(t, k + 1)
    BY <2>1
  <2>2. Summable(t, k)
    BY <2>1
  <2>3. PICK g \in [SUBSET (1..k) -> Int] : SumOf(g, t, k)
    BY <2>2 DEF Summable
  <2> DEFINE sum == [d \in SUBSET (1..k + 1) |-> IF k + 1 \in d THEN g[d \ {k + 1}] + t[k + 1] ELSE g[d]]
  <2>4. t[k + 1] \in Int
    BY <2>1
  <2>5. ASSUME NEW d \in SUBSET (1..k + 1), k + 1 \in d
        PROVE  d # {} /\ sum[d] \in Int /\ sum[d] = sum[d \ {Max(d)}] + t[Max(d)]
    <3>1. d \ {k + 1} \in SUBSET (1..k) /\ d \ {k + 1} \in SUBSET (1..k + 1) /\ k + 1 \notin d \ {k + 1}
      BY <2>1, <2>5
    <3>2. Max(d) = k + 1
      <4>1. Max(d) \in d /\ Max(d) >= k + 1
        BY <2>1, <2>5, MaxOf
      <4>2. \A m \in 1..k + 1 : m >= k + 1 => m = k + 1
        BY <2>1
      <4>3. QED
        BY <4>1, <4>2
    <3>3. sum[d \ {k + 1}] = g[d \ {k + 1}] /\ g[d \ {k + 1}] \in Int
      BY <3>1
    <3>4. sum[d] = g[d \ {k + 1}] + t[k + 1]
      BY <2>5
    <3>5. QED
      BY <2>4, <2>5, <3>2, <3>3, <3>4
  <2>6. ASSUME NEW d \in SUBSET (1..k + 1), k + 1 \notin d
        PROVE  sum[d] \in Int /\ sum[d] = IF d = {} THEN 0 ELSE sum[d \ {Max(d)}] + t[Max(d)]
    <3>1. d \in SUBSET (1..k)
      BY <2>1, <2>6
    <3>2. sum[d] = g[d] /\ g[d] \in Int
      BY <2>6, <3>1
    <3>3. d \ {Max(d)} \in SUBSET (1..k + 1) /\ k + 1 \notin d \ {Max(d)}
      BY <2>6
    <3>4. sum[d \ {Max(d)}] = g[d \ {Max(d)}]
      BY <3>3
    <3>5. g[d] = IF d = {} THEN 0 ELSE g[d \ {Max(d)}] + t[Max(d)]
      BY <2>3, <3>1 DEF SumOf
    <3>6. QED
      BY <3>2, <3>4, <3>5
  <2>7. sum = [d \in SUBSET (1..k + 1) |-> sum[d]]
    OBVIOUS
  <2> HIDE DEF sum
  <2>8. sum \in [SUBSET (1..k + 1) -> Int] /\ SumOf(sum, t, k + 1)
    BY <2>5, <2>6, <2>7 DEF SumOf
  <2>9. QED
    BY <2>8 DEF Summable
<1>3. T = Nat
  <2>1. T \subseteq Nat
    OBVIOUS
  <2> HIDE DEF T
  <2>2. QED
    BY <1>1, <1>2, <2>1, Inductive
<1>4. n \in T
  <2> HIDE DEF T
  <2>1. QED
    BY <1>3
<1>5. n <= n
  OBVIOUS
<1>6. QED
  BY <1>4, <1>5

\* What a row adds to the sum of the deltas of a series.
Term(rows, x, i) == IF rows[i].series = x THEN rows[i].delta ELSE 0

LEMMA SumRuns ==
  ASSUME NEW rows, Listed(rows), \A i \in DOMAIN rows : rows[i].delta \in Int, NEW x
  PROVE  \E run : /\ run[0] = 0 /\ run[Len(rows)] = DeltaSum(rows, x)
                  /\ \A k \in 0..Len(rows) : run[k] \in Int
                  /\ \A k \in 1..Len(rows) : run[k] = run[k - 1] + Term(rows, x, k)
<1> DEFINE n == Len(rows)
           t == [i \in 1..n |-> Term(rows, x, i)]
           Next(total, r) == IF r.series = x THEN total + r.delta ELSE total
           Folded(sum) == sum = [d \in SUBSET (DOMAIN rows) |-> IF d = {} THEN 0 ELSE Next(sum[d \ {Max(d)}], rows[Max(d)])]
           it == CHOOSE sum : Folded(sum)
<1>1. n \in Nat /\ DOMAIN rows = 1..n
  BY DEF Listed
<1>2. \A i \in 1..n : t[i] = Term(rows, x, i) /\ t[i] \in Int
  BY <1>1 DEF Term
<1>3. PICK sum \in [SUBSET (1..n) -> Int] : SumOf(sum, t, n)
  <2> HIDE DEF t, n
  <2>1. QED
    BY <1>1, <1>2, SumExists DEF Summable
<1>4. ASSUME NEW d \in SUBSET (1..n), d # {}
      PROVE  sum[d] = Next(sum[d \ {Max(d)}], rows[Max(d)])
  <2>1. Max(d) \in 1..n
    BY <1>1, <1>4, MaxOf
  <2>2. sum[d] = sum[d \ {Max(d)}] + t[Max(d)] /\ sum[d \ {Max(d)}] \in Int
    BY <1>3, <1>4 DEF SumOf
  <2>3. t[Max(d)] = IF rows[Max(d)].series = x THEN rows[Max(d)].delta ELSE 0
    BY <1>2, <2>1 DEF Term
  <2>4. QED
    BY <2>2, <2>3
<1>5. sum[{}] = 0
  BY <1>3 DEF SumOf
<1>6. Folded(sum)
  <2> HIDE DEF Next
  <2>1. \A d \in SUBSET (DOMAIN rows) : sum[d] = IF d = {} THEN 0 ELSE Next(sum[d \ {Max(d)}], rows[Max(d)])
    BY <1>1, <1>4, <1>5
  <2>2. sum = [d \in SUBSET (DOMAIN rows) |-> sum[d]]
    BY <1>1
  <2>3. QED
    BY <2>1, <2>2
<1>7. Folded(it)
  BY <1>6
<1>8. DeltaSum(rows, x) = it[DOMAIN rows]
  BY DEF DeltaSum, FoldLeft, MapThenFoldSet
<1> DEFINE run == [k \in 0..n |-> it[1..k]]
<1> HIDE DEF it
<1>9. run[0] = 0
  <2>1. 1..0 = {} /\ {} \in SUBSET (DOMAIN rows) /\ 0 \in 0..n
    BY <1>1
  <2>2. it[{}] = 0
    BY <1>7, <2>1
  <2>3. QED
    BY <2>1, <2>2
<1>10. ASSUME NEW k \in 1..n PROVE run[k] = Next(run[k - 1], rows[k])
  <2>1. 1..k # {} /\ Max(1..k) = k /\ (1..k) \ {k} = 1..(k - 1)
    <3>1. 1..k # {} /\ (1..k) \ {k} = 1..(k - 1) /\ 1..k \in SUBSET (1..n) /\ k \in 1..k
      BY <1>1
    <3>2. Max(1..k) \in 1..k /\ Max(1..k) >= k
      BY <1>1, <3>1, MaxOf
    <3>3. \A m \in 1..k : m >= k => m = k
      BY <1>1
    <3>4. QED
      BY <3>1, <3>2, <3>3
  <2>2. 1..k \in SUBSET (DOMAIN rows) /\ k \in 0..n /\ k - 1 \in 0..n
    BY <1>1
  <2>3. run[k] = it[1..k] /\ run[k - 1] = it[1..(k - 1)]
    BY <2>2
  <2>4. it[1..k] = Next(it[(1..k) \ {Max(1..k)}], rows[Max(1..k)])
    BY <1>7, <2>1, <2>2
  <2> HIDE DEF Next, run
  <2>5. QED
    BY <2>1, <2>3, <2>4
<1>11. run[n] = DeltaSum(rows, x)
  BY <1>1, <1>8
<1> HIDE DEF run
<1>12. \A k \in 0..n : run[k] \in Int
  <2> DEFINE T == {k \in Nat : k <= n => run[k] \in Int}
  <2>1. 0 \in T
    BY <1>9
  <2>2. ASSUME NEW k \in T PROVE k + 1 \in T
    <3>1. k \in Nat /\ k + 1 \in Nat
      OBVIOUS
    <3> SUFFICES ASSUME k + 1 <= n PROVE run[k + 1] \in Int
      BY <3>1
    <3>2. k + 1 \in 1..n /\ run[k] \in Int /\ (k + 1) - 1 = k
      BY <1>1, <3>1
    <3>3. run[k + 1] = Next(run[k], rows[k + 1]) /\ rows[k + 1].delta \in Int
      BY <1>1, <1>10, <3>2
    <3>4. QED
      BY <3>2, <3>3
  <2>3. T \subseteq Nat
    OBVIOUS
  <2>4. T = Nat
    <3> HIDE DEF T
    <3>1. QED
      BY <2>1, <2>2, <2>3, Inductive
  <2>5. QED
    BY <1>1, <2>4
<1>13. ASSUME NEW k \in 1..n PROVE run[k] = run[k - 1] + Term(rows, x, k)
  <2>1. run[k - 1] \in Int
    BY <1>1, <1>12
  <2>2. QED
    BY <1>10, <2>1 DEF Term
<1>14. QED
  BY <1>9, <1>11, <1>12, <1>13

\* Growth that is counted from a to b adds up to what lies between them.
LEMMA Telescope ==
  ASSUME NEW n \in Nat, NEW v, NEW run, NEW a \in 1..n, NEW b \in 1..n, a <= b,
         \A i \in 1..n : v[i] \in Int, run[0] = 0,
         \A k \in 1..n : run[k] = run[k - 1] + (IF a < k /\ k <= b THEN v[k] - v[k - 1] ELSE 0)
  PROVE  run[n] = v[b] - v[a]
<1> DEFINE Sofar(k) == IF k <= a THEN 0 ELSE IF k <= b THEN v[k] - v[a] ELSE v[b] - v[a]
           T == {k \in Nat : k <= n => run[k] = Sofar(k)}
<1>1. 0 \in T
  OBVIOUS
<1>2. ASSUME NEW k \in T PROVE k + 1 \in T
  <2>1. k \in Nat /\ k + 1 \in Nat
    OBVIOUS
  <2> SUFFICES ASSUME k + 1 <= n PROVE run[k + 1] = Sofar(k + 1)
    BY <2>1
  <2>2. k + 1 \in 1..n /\ (k + 1) - 1 = k /\ run[k] = Sofar(k)
    BY <2>1
  <2>3. run[k + 1] = run[k] + (IF a < k + 1 /\ k + 1 <= b THEN v[k + 1] - v[k] ELSE 0)
    BY <2>2
  <2>4. v[a] \in Int /\ v[b] \in Int /\ v[k + 1] \in Int /\ (k > 0 => v[k] \in Int) /\ a \in Int /\ b \in Int /\ a > 0
    BY <2>1, <2>2
  <2>5. CASE k < a
    BY <2>1, <2>2, <2>3, <2>4, <2>5
  <2>6. CASE k = a
    BY <2>1, <2>2, <2>3, <2>4, <2>6
  <2>7. CASE k > a
    BY <2>1, <2>2, <2>3, <2>4, <2>7
  <2>8. QED
    BY <2>1, <2>4, <2>5, <2>6, <2>7
<1>3. T \subseteq Nat
  OBVIOUS
<1>4. T = Nat
  <2> HIDE DEF T
  <2>1. QED
    BY <1>1, <1>2, <1>3, Inductive
<1>5. run[n] = Sofar(n)
  BY <1>4
<1>6. v[a] \in Int /\ v[b] \in Int
  OBVIOUS
<1>7. QED
  BY <1>5, <1>6

\* The prepared rows of a file that passed validation: the numbers of the
\* counter and what they grew by from row to row.
Growing(rows, n, v) ==
  /\ RowsOK(rows) /\ n = Len(rows) /\ v = [i \in 1..n |-> rows[i].value[Counter]] /\ \A i \in 1..n : v[i] \in Int
  /\ \A i \in 1..n : rows[i].delta = IF i > 1 /\ rows[i-1].series = rows[i].series THEN Larger(0, v[i] - v[i-1]) ELSE 0

LEMMA PassedRowsGrow ==
  ASSUME NEW frame, Frame(frame), Has(frame, Counter), Passed(Issues(frame)), NEW rows, rows = Prepared(frame)
  PROVE  \E n \in Nat : \E v : Growing(rows, n, v)
<1> DEFINE n == Len(rows)
           v == [i \in 1..n |-> rows[i].value[Counter]]
<1>1. /\ RowsOK(rows)
      /\ \E filled : /\ DOMAIN rows = DOMAIN filled
                     /\ \A i \in DOMAIN filled : FilledOf(frame, filled[i]) /\ MadeFrom(filled, i, rows[i])
  BY PreparedFacts
<1>2. PICK filled : /\ DOMAIN rows = DOMAIN filled
                    /\ \A i \in DOMAIN filled : FilledOf(frame, filled[i]) /\ MadeFrom(filled, i, rows[i])
  BY <1>1
<1>3. n \in Nat /\ DOMAIN rows = 1..n
  BY <1>1 DEF RowsOK, Countable, Listed
<1>4. Counter \in NumericColumns(frame) /\ Counter # Gauge
  BY DEF Has, NumericColumns, Counter, Gauge
<1>5. ASSUME NEW i \in 1..n
      PROVE  /\ Counter \in DOMAIN filled[i].value /\ filled[i].value[Counter] \in Int
             /\ v[i] = filled[i].value[Counter] /\ rows[i].series = filled[i].series
             /\ rows[i].delta = IF Previous(filled, i) THEN Larger(0, filled[i].value[Counter] - filled[i-1].value[Counter]) ELSE 0
  <2>1. FilledOf(frame, filled[i]) /\ MadeFrom(filled, i, rows[i])
    BY <1>2, <1>3
  <2>2. PICK k \in DOMAIN frame.rows : frame.rows[k][Counter] \in Int /\ filled[i].value[Counter] = frame.rows[k][Counter]
    BY <1>4, <2>1 DEF FilledOf
  <2>3. filled[i].value[Counter] >= 0
    BY <2>2, NegativeIssue
  <2>4. Counter \in DOMAIN filled[i].value
    BY <1>4, <2>1 DEF FilledOf
  <2>5. rows[i].value[Counter] = Larger(0, filled[i].value[Counter])
    BY <1>4, <2>1, <2>4 DEF MadeFrom, Clip
  <2>6. rows[i].value[Counter] = filled[i].value[Counter]
    BY <2>2, <2>3, <2>5 DEF Larger
  <2>7. QED
    BY <2>1, <2>2, <2>4, <2>6 DEF MadeFrom
<1>6. ASSUME NEW i \in 1..n
      PROVE  rows[i].delta = IF i > 1 /\ rows[i-1].series = rows[i].series THEN Larger(0, v[i] - v[i-1]) ELSE 0
  <2>1. i > 1 => i - 1 \in 1..n
    BY <1>3
  <2> HIDE DEF n, v
  <2>2. i > 1 => v[i-1] = filled[i-1].value[Counter] /\ rows[i-1].series = filled[i-1].series
    BY <1>5, <2>1
  <2>3. QED
    BY <1>5, <2>2 DEF Previous
<1>7. \A i \in 1..n : v[i] \in Int
  <2> HIDE DEF v, n
  <2>1. QED
    BY <1>5
<1>8. Growing(rows, n, v)
  BY <1>1, <1>6, <1>7 DEF Growing
<1>9. QED
  BY <1>3, <1>8

\* A counter that never goes back in a series grows there, by its deltas, from
\* the first reading to the last.
LEMMA DeltasOfSeries ==
  ASSUME NEW rows, NEW n \in Nat, NEW v, Growing(rows, n, v), NEW o \in 1..n, NEW x, x = rows[o].series,
         NEW T, T = {i \in 1..n : rows[i].series = x}, \A i, j \in T : i < j => v[i] <= v[j]
  PROVE  DeltaSum(rows, x) = v[Largest(T)] - v[Smallest(T)]
<1> DEFINE a == Smallest(T)
           b == Largest(T)
<1>1. o \in T /\ T \in SUBSET (1..n) /\ T \subseteq Nat
  OBVIOUS
<1>2. a \in T /\ \A y \in T : a <= y
  <2>1. T # {} /\ T \subseteq Nat
    BY <1>1
  <2>2. QED
    BY <2>1, SmallestIs
<1>3. b \in T /\ \A y \in T : b >= y
  <2>1. T # {} /\ T \in SUBSET (1..n)
    BY <1>1
  <2>2. QED
    BY <2>1, LargestIs
<1> HIDE DEF a, b
<1>4. RowsOK(rows) /\ Listed(rows) /\ n = Len(rows) /\ DOMAIN rows = 1..n
  BY DEF Growing, RowsOK, Countable, Listed
<1>5. a \in 1..n /\ b \in 1..n /\ a <= b
  BY <1>1, <1>2, <1>3
<1>6. ASSUME NEW k \in 1..n PROVE k \in T <=> a <= k /\ k <= b
  <2>1. k \in T => a <= k /\ k <= b
    BY <1>1, <1>2, <1>3
  <2>2. a <= k /\ k <= b /\ k # a /\ k # b => k \in T
    <3> SUFFICES ASSUME a <= k, k <= b, k # a, k # b PROVE k \in T
      OBVIOUS
    <3>1. a < k /\ k < b
      BY <1>5
    <3>2. rows[a].series = x /\ rows[b].series = x
      BY <1>2, <1>3
    <3>3. a \in DOMAIN rows /\ b \in DOMAIN rows /\ k \in DOMAIN rows /\ rows[a].series = rows[b].series
      BY <1>4, <1>5, <3>2
    <3>4. rows[k].series = rows[a].series
      BY ONLY <1>4, <3>1, <3>3, Between
    <3>5. QED
      BY <3>2, <3>4
  <2>3. QED
    BY <1>2, <1>3, <2>1, <2>2
<1>7. ASSUME NEW k \in 1..n
      PROVE  /\ rows[k].delta = IF k > 1 /\ rows[k-1].series = rows[k].series THEN Larger(0, v[k] - v[k-1]) ELSE 0
             /\ v[k] \in Int /\ (k > 1 => k - 1 \in 1..n /\ v[k-1] \in Int)
  <2>1. k > 1 => k - 1 \in 1..n
    OBVIOUS
  <2>2. QED
    BY <2>1 DEF Growing
<1>8. ASSUME NEW k \in 1..n
      PROVE  rows[k].delta \in Int /\ Term(rows, x, k) = IF a < k /\ k <= b THEN v[k] - v[k-1] ELSE 0
  <2>1. rows[k].delta \in Int
    BY <1>7 DEF Larger
  <2>2. CASE k \notin T
    <3>1. rows[k].series # x /\ ~(a < k /\ k <= b)
      BY <1>5, <1>6, <2>2
    <3>2. QED
      BY <2>1, <3>1 DEF Term
  <2>3. CASE k \in T /\ k = a
    <3>1. ~(k > 1 /\ rows[k-1].series = rows[k].series)
      <4> SUFFICES ASSUME k > 1, rows[k-1].series = rows[k].series PROVE FALSE
        OBVIOUS
      <4>1. k - 1 \in 1..n /\ rows[k].series = x
        BY <2>3
      <4>2. k - 1 \in T
        BY <4>1
      <4>3. a <= k - 1
        BY <1>2, <4>2
      <4>4. QED
        BY <2>3, <4>3
    <3>2. rows[k].delta = 0 /\ ~(a < k)
      BY <1>7, <2>3, <3>1
    <3>3. QED
      BY <3>2 DEF Term
  <2>4. CASE k \in T /\ k # a
    <3>1. a < k /\ k <= b /\ k > 1 /\ k - 1 \in 1..n
      BY <1>5, <1>6, <2>4
    <3>2. a <= k - 1 /\ k - 1 <= b /\ k - 1 < k
      BY <1>5, <3>1
    <3>3. k - 1 \in T
      BY <1>6, <3>1, <3>2
    <3>4. rows[k-1].series = x /\ rows[k].series = x /\ v[k-1] <= v[k]
      BY <2>4, <3>2, <3>3
    <3>5. rows[k].delta = v[k] - v[k-1]
      BY <1>7, <3>1, <3>4 DEF Larger
    <3>6. QED
      BY <2>1, <3>1, <3>4, <3>5 DEF Term
  <2>5. QED
    BY <2>2, <2>3, <2>4
<1>9. PICK run : /\ run[0] = 0 /\ run[Len(rows)] = DeltaSum(rows, x)
                 /\ \A k \in 0..Len(rows) : run[k] \in Int
                 /\ \A k \in 1..Len(rows) : run[k] = run[k - 1] + Term(rows, x, k)
  <2>1. \A i \in DOMAIN rows : rows[i].delta \in Int
    BY <1>4, <1>8
  <2>2. QED
    BY <1>4, <2>1, SumRuns
<1>10. \A k \in 1..n : run[k] = run[k - 1] + (IF a < k /\ k <= b THEN v[k] - v[k - 1] ELSE 0)
  BY <1>4, <1>8, <1>9
<1>11. run[n] = v[b] - v[a]
  <2>1. \A i \in 1..n : v[i] \in Int
    BY <1>7
  <2>2. QED
    BY ONLY <1>5, <1>9, <1>10, <2>1, n \in Nat, Telescope
<1>12. QED
  BY <1>4, <1>9, <1>11 DEF a, b

LEMMA SInvDeltas ==
  ASSUME SInv
  PROVE  DeltasAddUp
<1> DEFINE frame == csv[job.dataset]
           rows == job.rows
           Of(x) == {i \in DOMAIN rows : rows[i].series = x}
<1> SUFFICES ASSUME job # None, job.script = "preprocess", Has(frame, Counter), Passed(Issues(frame)),
                    NEW o \in DOMAIN rows,
                    \A i, j \in Of(rows[o].series) : i < j => rows[i].value[Counter] <= rows[j].value[Counter]
             PROVE  DeltaSum(rows, rows[o].series)
                      = rows[Largest(Of(rows[o].series))].value[Counter] - rows[Smallest(Of(rows[o].series))].value[Counter]
  BY DEF DeltasAddUp
<1> DEFINE x == rows[o].series
           T == Of(x)
<1>1. PreprocessJob(job, frame, processed[job.dataset], jobs) /\ job.dataset \in Datasets
  BY JobIs DEF SInv, SRest
<1>2. frame # None /\ rows = Prepared(frame) /\ Frame(frame)
  BY <1>1 DEF PreprocessJob, SInv, SRest, CsvOK
<1> HIDE DEF frame, rows
<1>3. PICK n \in Nat : \E w : Growing(rows, n, w)
  BY <1>2, PassedRowsGrow
<1>13. PICK v : Growing(rows, n, v)
  BY <1>3
<1>4. n = Len(rows) /\ DOMAIN rows = 1..n /\ \A i \in 1..n : v[i] = rows[i].value[Counter]
  BY <1>13 DEF Growing, RowsOK, Countable, Listed
<1>5. o \in 1..n /\ T = {i \in 1..n : rows[i].series = x} /\ T \in SUBSET (1..n) /\ o \in T
  BY <1>4
<1>6. \A i, j \in T : i < j => v[i] <= v[j]
  BY <1>4, <1>5
<1> HIDE DEF x, T
<1>7. x = rows[o].series
  BY DEF x
<1>8. DeltaSum(rows, x) = v[Largest(T)] - v[Smallest(T)]
  BY <1>13, <1>5, <1>6, <1>7, DeltasOfSeries
<1>9. Largest(T) \in T
  <2>1. T # {} /\ T \in SUBSET (1..n)
    BY <1>5
  <2>2. QED
    BY <2>1, LargestIs
<1>10. Smallest(T) \in T
  <2>1. T # {} /\ T \subseteq Nat
    BY <1>5
  <2>2. QED
    BY <2>1, SmallestIs
<1>11. v[Largest(T)] = rows[Largest(T)].value[Counter] /\ v[Smallest(T)] = rows[Smallest(T)].value[Counter]
  BY <1>4, <1>5, <1>9, <1>10
<1>12. QED
  BY <1>8, <1>11 DEF T, x

\* What the scripts compute can be believed, whatever exports come in: a file
\* with a time that does not parse does not pass validation, preprocessing
\* mends what validation warns of, the deltas of a counter that never went back
\* add up to its growth, the splits of one preprocessing keep every row and
\* follow one another in time, and the features of a row look at no later row
\* and at no other series.
THEOREM RowsSoundHolds ==
  ASSUME Markers
  PROVE  TelemetrySpec => []RowsSound
<1>1. TelemetryInit => SInv
  BY InitSInv
<1>2. SInv /\ [TelemetryNext]_telemetryVars => SInv'
  BY NextSInv
<1>3. SInv => RowsSound
  BY SInvBadTimes, SInvMended, SInvNumbers, SInvDeltas, SInvSplits, SInvFeatures DEF RowsSound
<1>4. QED
  BY <1>1, <1>2, <1>3, PTL DEF TelemetrySpec
=============================================================================
