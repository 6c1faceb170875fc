------------------------------ MODULE EngineAProofs ------------------------------
(***************************************************************************)
(* Proofs about EngineA for every set of workers, scenarios, kills and     *)
(* faults: what the experiments, their index and the studies say of one    *)
(* another, what a finished experiment keeps, however many trainings       *)
(* choose the same name, and what a training has learned from: splits of   *)
(* one preparation, and the best of its epochs.  And for every content of  *)
(* the raw files: what a prepared split holds, and what a selection leaves,*)
(* from the lemmas of PreparationProofs.                                   *)
(***************************************************************************)
EXTENDS EngineA, PreparationProofs

-----------------------------------------------------------------------------
(* The inductive invariant. *)

\* From the choice of the name on, and from the directory on.
Naming == {"mkdir", "model", "metrics", "manifest", "look", "row", "summary"}

Owning == Naming \ {"mkdir"}

Training == {"audit", "fit", "name"} \cup Naming

Shapes ==
  /\ place \in DOMAIN Scenarios
  /\ number \in Nat /\ second \in Nat
  /\ job = [w \in Workers |-> job[w]]
  /\ processed = [f \in ToSet(SplitNames) \cup {"artefacts"} |-> processed[f]]
  /\ features = [f \in ToSet(SplitNames) \cup {"metadata", "artefacts"} |-> features[f]]
  /\ experiments = [k \in DOMAIN experiments |-> experiments[k]]
  /\ IsFiniteSet(DOMAIN experiments)

\* A script names its step, and the model it trains.
IsScript(item) ==
  /\ DOMAIN item = {"step", "model", "call", "goesOn"}
  /\ item.step \in {"train", "optimize"} => item.model \in ToSet(MODELS)

AgendasOK ==
  /\ agenda = [w \in Workers |-> agenda[w]]
  /\ \A w \in Workers : Listed(agenda[w]) /\ \A n \in DOMAIN agenda[w] : IsScript(agenda[w][n])

\* Each split is of a preprocessing that was started.
SplitsOK ==
  \A s \in ToSet(SplitNames) :
    /\ processed[s] \in {None, Torn} \/ processed[s].number \in 1..number
    /\ features[s] \in {None, Torn} \/ features[s].number \in 1..number

Fields == {"step", "model", "call", "goesOn", "stage", "number", "read", "trials", "best"}

\* What a script knows of the splits it has read and writes.
ScriptOK(w) ==
  job[w] # None =>
    /\ Fields \subseteq DOMAIN job[w]
    /\ job[w].number \in 1..number
    /\ job[w].step \in {"train", "optimize"} => job[w].model \in ToSet(MODELS)
    /\ Listed(job[w].read)
    /\ job[w].stage = "read" =>
         job[w].step \in {"features", "train", "optimize"} /\ Len(job[w].read) <= 2
    /\ job[w].step = "features" /\ job[w].stage \in {"read", "select"} =>
         \A i \in DOMAIN job[w].read : job[w].read[i].number \in 1..number
    /\ job[w].step = "features" /\ job[w].stage = "select" => Len(job[w].read) = 3
    /\ job[w].step = "features" /\ job[w].stage \in ToSet(SplitNames) =>
         "from" \in DOMAIN job[w] /\ \A s \in ToSet(SplitNames) : job[w].from[s] \in 1..number
    /\ job[w].stage \in Training => job[w].step \in {"train", "optimize"}

\* No completed trial is better than this one.
IsBest(trials, best) ==
  best \in DOMAIN trials /\ \A t \in DOMAIN trials : trials[t] # Missing => trials[t] <= trials[best]

\* A search trains the best of its trials; a model remembers which.
SearchOK(w) ==
  job[w] # None =>
    /\ job[w].step = "optimize" =>
         /\ job[w].trials \in Seq({Missing, 1, 2})
         /\ job[w].stage = "trial" => job[w].best = 0
         /\ job[w].best = 0 \/ IsBest(job[w].trials, job[w].best)
         /\ job[w].stage \in Training => job[w].best # 0
    /\ job[w].stage \in {"name"} \cup Naming =>
         "content" \in DOMAIN job[w] /\ job[w].content.trial = job[w].best

\* A name was free when it was chosen.
NameOK(w) ==
  job[w] # None /\ job[w].stage \in Naming =>
    /\ {"key", "created"} \subseteq DOMAIN job[w]
    /\ job[w].created \in 1..number
    /\ job[w].key[1] \in ToSet(MODELS) /\ job[w].key[2] \in 0..second
    /\ job[w].key \in DOMAIN experiments => job[w].created <= experiments[job[w].key].born
    /\ job[w].stage \in Owning => job[w].key \in DOMAIN experiments
    /\ job[w].stage \in {"look", "row", "summary"} => experiments[job[w].key].manifest # None
    /\ job[w].stage = "row" =>
         "header" \in DOMAIN job[w] /\ job[w].header \in Seq({Header})

Owner(w, k) == job[w] # None /\ job[w].stage \in Owning /\ job[w].key = k

\* What a training that has a directory to itself has written there.
Written(w, experiment) ==
  /\ job[w].stage \in {"metrics", "manifest", "look", "row", "summary"} => experiment.model = job[w].content
  /\ job[w].stage \in {"manifest", "look", "row", "summary"} => experiment.metrics = job[w].content
  /\ experiment.manifest =
       IF job[w].stage \in {"look", "row", "summary"} THEN Manifest(w) ELSE None

OwnersOK ==
  \A w \in Workers : \A k \in DOMAIN experiments :
    Owner(w, k) /\ experiments[k].makers = 1 =>
      /\ Written(w, experiments[k])
      /\ \A u \in Workers : Owner(u, k) => u = w

\* No two trainings have the same number, nor a training the number of an
\* experiment of another name.
NumbersOK ==
  /\ \A u, w \in Workers :
       /\ job[u] # None /\ job[u].stage \in Naming
       /\ job[w] # None /\ job[w].stage \in Naming
       /\ job[u].created = job[w].created
       => u = w
  /\ \A w \in Workers, k \in Readable :
       /\ job[w] # None /\ job[w].stage \in Naming
       /\ experiments[k].manifest.created = job[w].created
       => job[w].key = k
  /\ \A k, l \in Readable : experiments[k].manifest.created = experiments[l].manifest.created => k = l

ExperimentOK(k) ==
  /\ experiments[k] = [f \in {"model", "metrics", "manifest", "makers", "born"} |-> experiments[k][f]]
  /\ k[1] \in ToSet(MODELS) /\ k[2] \in 0..second
  /\ experiments[k].makers \in Nat \ {0}
  /\ experiments[k].born \in 0..number
  /\ k \in Readable =>
       experiments[k].manifest.run = k /\ experiments[k].manifest.created \in 1..number

Described(line) ==
  line = Header \/ (line.run \in DOMAIN experiments /\ experiments[line.run].manifest # None)

IndexOK == index # None => Listed(index) /\ \A i \in DOMAIN index : Described(index[i])

\* A rebuild holds one row per manifest it has read, the oldest first.
RowsOf(rows, known) ==
  /\ Listed(rows)
  /\ Len(rows) = Cardinality(known)
  /\ {rows[i].run : i \in DOMAIN rows} = known
  /\ \A i, j \in DOMAIN rows : i < j => rows[i].created < rows[j].created

CollectedOK(w) ==
  job[w] # None /\ job[w].step = "experiment_index" /\ job[w].stage \in {"truncate", "fill"} =>
    /\ {"rows", "known"} \subseteq DOMAIN job[w]
    /\ RowsOf(job[w].rows, job[w].known)
    /\ IsFiniteSet(job[w].known)
    /\ \A k \in job[w].known : k \in DOMAIN experiments /\ experiments[k].manifest # None

StudyOK(study) ==
  /\ study.experiment \in DOMAIN experiments
  /\ LET experiment == experiments[study.experiment]
     IN experiment.makers = 1 =>
          /\ \A w \in Workers : ~Owner(w, study.experiment)
          /\ IsBest(study.trials, experiment.model.trial)
          /\ experiment.manifest.study = study.number
          /\ experiment.manifest.content = experiment.model

StudiesOK == Listed(studies) /\ \A i \in DOMAIN studies : StudyOK(studies[i])

EInv ==
  /\ Shapes /\ AgendasOK /\ SplitsOK
  /\ \A w \in Workers : ScriptOK(w) /\ SearchOK(w) /\ NameOK(w) /\ CollectedOK(w)
  /\ OwnersOK /\ NumbersOK
  /\ \A k \in DOMAIN experiments : ExperimentOK(k)
  /\ ManifestWhole /\ IndexOK /\ StudiesOK

-----------------------------------------------------------------------------
(* Agendas, free names, trials and the rows of a rebuild. *)

\* An agenda without its first script, and without the scripts of a call.
LEMMA TailListed ==
  ASSUME NEW seq, Listed(seq), seq # <<>>
  PROVE  /\ 1 \in DOMAIN seq /\ Head(seq) = seq[1]
         /\ Listed(Tail(seq)) /\ \A i \in DOMAIN Tail(seq) : i + 1 \in DOMAIN seq /\ Tail(seq)[i] = seq[i + 1]
<1>1. seq \in Seq(ToSet(seq)) /\ Len(seq) \in Nat /\ DOMAIN seq = 1..Len(seq)
  BY DEF Listed
<1>2. Len(seq) # 0
  BY <1>1
<1>3. Tail(seq) \in Seq(ToSet(seq)) /\ Len(Tail(seq)) = Len(seq) - 1
  BY <1>1, <1>2
<1>4. DOMAIN Tail(seq) = 1..Len(seq) - 1
  BY <1>1, <1>3
<1>5. \A i \in 1..Len(seq) - 1 : Tail(seq)[i] = seq[i + 1]
  BY <1>1, <1>2
<1>6. 1 \in DOMAIN seq /\ Head(seq) = seq[1]
  BY <1>1, <1>2
<1>7. Listed(Tail(seq))
  BY <1>3, ListedSeq
<1>8. \A i \in DOMAIN Tail(seq) : i + 1 \in DOMAIN seq
  BY <1>1, <1>4
<1>9. QED
  BY <1>4, <1>5, <1>6, <1>7, <1>8

LEMMA RestListed ==
  ASSUME NEW seq, Listed(seq), NEW call
  PROVE  Listed(Rest(seq, call)) /\ \A i \in DOMAIN Rest(seq, call) : \E j \in DOMAIN seq : Rest(seq, call)[i] = seq[j]
<1> DEFINE others == {i \in DOMAIN seq : seq[i].call # call}
           first == Least(others)
<1>1. Len(seq) \in Nat /\ DOMAIN seq = 1..Len(seq)
  BY DEF Listed
<1>2. CASE others = {}
  <2>1. Rest(seq, call) = <<>>
    BY <1>2 DEF Rest
  <2>2. Listed(<<>>) /\ DOMAIN <<>> = {}
    BY DEF Listed, ToSet
  <2>3. QED
    BY <2>1, <2>2
<1>3. CASE others # {}
  <2>0. others \subseteq Nat
    BY <1>1
  <2>1. first \in others
    <3> HIDE DEF others
    <3>1. QED
      BY <1>3, <2>0, LeastIsLeast
  <2>2. first \in 1..Len(seq)
    BY <1>1, <2>1
  <2>3. Rest(seq, call) = SubSeq(seq, first, Len(seq))
    BY <1>3 DEF Rest
  <2> HIDE DEF first
  <2>4. first \in Int /\ Len(seq) \in Int /\ \A i \in first..Len(seq) : seq[i] \in ToSet(seq)
    BY <1>1, <2>2 DEF ToSet
  <2>5. /\ SubSeq(seq, first, Len(seq)) \in Seq(ToSet(seq))
        /\ Len(SubSeq(seq, first, Len(seq))) = Len(seq) - first + 1
        /\ \A i \in 1..Len(seq) - first + 1 : SubSeq(seq, first, Len(seq))[i] = seq[first + i - 1]
    BY <1>1, <2>2, <2>4, SubSeqProperties
  <2>6. DOMAIN SubSeq(seq, first, Len(seq)) = 1..Len(seq) - first + 1
    BY <2>5
  <2>7. \A i \in 1..Len(seq) - first + 1 : first + i - 1 \in DOMAIN seq
    BY <1>1, <2>2
  <2>8. Listed(SubSeq(seq, first, Len(seq)))
    BY <2>5, ListedSeq
  <2>9. QED
    BY <2>3, <2>5, <2>6, <2>7, <2>8
<1>4. QED
  BY <1>2, <1>3

\* Among one suffix more than there are directories one is free.
LEMMA FreeNameFree ==
  ASSUME NEW model, NEW t, Shapes
  PROVE  /\ FreeName(model, t) \notin DOMAIN experiments
         /\ FreeName(model, t)[1] = model /\ FreeName(model, t)[2] = t
<1> DEFINE taken == DOMAIN experiments
           some == 0..Cardinality(taken)
           free == {k \in some : <<model, t, k>> \notin taken}
           name == [k \in some |-> <<model, t, k>>]
<1>1. IsFiniteSet(taken) /\ Cardinality(taken) \in Nat
  BY FS_CardinalityType DEF Shapes
<1>2. free # {}
  <2>1. SUFFICES ASSUME free = {} PROVE FALSE
    OBVIOUS
  <2>2. name \in [some -> taken]
    BY <2>1
  <2>3. \A k, l \in some : name[k] = name[l] => k = l
    OBVIOUS
  <2>4. name \in Injection(some, taken)
    BY <2>2, <2>3 DEF Injection, IsInjective
  <2>5. Cardinality(some) = Cardinality(taken) + 1
    <3>1. 0 \in Int /\ Cardinality(taken) \in Int
      BY <1>1
    <3>2. Cardinality(0..Cardinality(taken)) = IF 0 > Cardinality(taken) THEN 0 ELSE Cardinality(taken) - 0 + 1
      BY ONLY <3>1, FS_Interval
    <3>3. QED
      BY <1>1, <3>2
  <2>6. Cardinality(some) <= Cardinality(taken)
    <3> HIDE DEF some, name, taken
    <3>1. QED
      BY <1>1, <2>4, FS_Injection
  <2>7. QED
    BY <1>1, <2>5, <2>6
<1>3. free \subseteq Nat
  BY <1>1
<1>4. Least(free) \in free
  BY <1>2, <1>3, LeastIsLeast
<1>5. FreeName(model, t) = <<model, t, Least(free)>>
  BY DEF FreeName
<1>6. QED
  BY <1>4, <1>5

\* study.best_trial is there once a trial has come to a value, and no completed
\* trial is better.
LEMMA BestTrialIsBest ==
  ASSUME NEW trials \in Seq({Missing, 1, 2}), Len(trials) # 0, ToSet(trials) # {Missing}
  PROVE  IsBest(trials, BestTrial(trials)) /\ BestTrial(trials) # 0
<1> DEFINE worth(value) == {i \in DOMAIN trials : trials[i] = value /\ value # Missing}
           IsFirst(i) == /\ trials[i] # Missing
                         /\ \A j \in DOMAIN trials : trials[j] # Missing =>
                              trials[j] < trials[i] \/ (trials[j] = trials[i] /\ i <= j)
<1>1. Len(trials) \in Nat /\ DOMAIN trials = 1..Len(trials) /\ \A i \in DOMAIN trials : trials[i] \in {Missing, 1, 2}
  OBVIOUS
<1>2. worth(1) \cup worth(2) # {}
  <2>1. 1 \in DOMAIN trials
    BY <1>1
  <2>2. \E i \in DOMAIN trials : trials[i] # Missing
    BY <2>1 DEF ToSet
  <2>3. QED
    BY <1>1, <2>2
<1>3. \E i \in DOMAIN trials : IsFirst(i)
  <2>1. CASE worth(2) # {}
    <3>1. worth(2) \subseteq Nat
      BY <1>1
    <3>2. Least(worth(2)) \in worth(2) /\ \A j \in worth(2) : Least(worth(2)) <= j
      BY <2>1, <3>1, LeastIsLeast
    <3>3. PICK i \in worth(2) : \A j \in worth(2) : i <= j
      BY <3>2
    <3>4. trials[i] = 2 /\ 2 # Missing
      OBVIOUS
    <3>5. ASSUME NEW j \in DOMAIN trials, trials[j] # Missing, trials[j] # 2 PROVE trials[j] < 2
      BY <1>1, <3>5
    <3>6. \A j \in DOMAIN trials : trials[j] = 2 => i <= j
      BY <3>3, <3>4
    <3>7. QED
      BY <3>4, <3>5, <3>6
  <2>2. CASE worth(2) = {}
    <3>1. worth(1) \subseteq Nat
      BY <1>1
    <3>2. Least(worth(1)) \in worth(1) /\ \A j \in worth(1) : Least(worth(1)) <= j
      BY <1>2, <2>2, <3>1, LeastIsLeast
    <3>3. PICK i \in worth(1) : \A j \in worth(1) : i <= j
      BY <3>2
    <3>4. trials[i] = 1 /\ 1 # Missing
      OBVIOUS
    <3>5. ASSUME NEW j \in DOMAIN trials, trials[j] # Missing PROVE trials[j] = 1
      BY <1>1, <2>2, <3>5
    <3>6. QED
      BY <3>3, <3>4, <3>5
  <2>3. QED
    BY <2>1, <2>2
<1>4. BestTrial(trials) \in DOMAIN trials /\ IsFirst(BestTrial(trials))
  BY <1>3 DEF BestTrial
<1>5. ASSUME NEW t \in DOMAIN trials, trials[t] # Missing PROVE trials[t] <= trials[BestTrial(trials)]
  <2>1. trials[t] \in Nat /\ trials[BestTrial(trials)] \in Nat
    BY <1>1, <1>4, <1>5
  <2>2. trials[t] < trials[BestTrial(trials)] \/ trials[t] = trials[BestTrial(trials)]
    BY <1>4, <1>5
  <2>3. QED
    BY <2>1, <2>2
<1>6. QED
  BY <1>1, <1>4, <1>5 DEF IsBest

\* The rows of a rebuild: one per manifest that can be read, in the order of
\* their times.
LEMMA RowsDescribe ==
  ASSUME Shapes, NumbersOK, \A k \in DOMAIN experiments : ExperimentOK(k)
  PROVE  RowsOf(RowsOfManifests, Readable) /\ IsFiniteSet(Readable)
<1> DEFINE told(k) == experiments[k].manifest.created
           created == {told(k) : k \in Readable}
           rank(k) == Cardinality(Below(created, told(k)))
           At1(i) == CHOOSE k \in Readable : rank(k) = i - 1
           N == Cardinality(Readable)
           rows == [i \in 1..N |-> Row(experiments[At1(i)].manifest)]
<1>1. IsFiniteSet(Readable) /\ N \in Nat
  <2>1. Readable \in SUBSET DOMAIN experiments
    BY DEF Readable
  <2>2. QED
    BY <2>1, FS_Subset, FS_CardinalityType DEF Shapes
<1>2. \A k \in Readable : told(k) \in Nat /\ experiments[k].manifest.run = k
  BY DEF Readable, ExperimentOK, Shapes
<1>3. \A k, l \in Readable : told(k) = told(l) => k = l
  BY DEF NumbersOK
<1>4. created \subseteq Nat /\ IsFiniteSet(created) /\ Cardinality(created) = N
  <2> DEFINE f == [k \in Readable |-> told(k)]
  <2>1. f \in [Readable -> created]
    OBVIOUS
  <2>2. f \in Injection(Readable, created)
    BY <1>3, <2>1 DEF Injection, IsInjective
  <2>3. f \in Surjection(Readable, created)
    BY <2>1 DEF Surjection
  <2>4. created \subseteq Nat
    BY <1>2
  <2> HIDE DEF f, created
  <2>5. ExistsBijection(Readable, created)
    BY <2>2, <2>3 DEF ExistsBijection, Bijection
  <2>6. QED
    BY <1>1, <2>4, <2>5, FS_Bijection
<1>5. /\ \A k \in Readable : rank(k) \in 0..N - 1
      /\ \A k, l \in Readable : told(k) < told(l) => rank(k) < rank(l)
      /\ \A n \in 0..N - 1 : \E k \in Readable : rank(k) = n
  <2>1. \A k \in Readable : told(k) \in created
    OBVIOUS
  <2>2. \A t \in created : \E k \in Readable : t = told(k)
    OBVIOUS
  <2>3. /\ \A t \in created : Cardinality(Below(created, t)) \in 0..N - 1
        /\ \A s, t \in created : s < t => Cardinality(Below(created, s)) < Cardinality(Below(created, t))
        /\ \A n \in 0..N - 1 : \E t \in created : Cardinality(Below(created, t)) = n
    <3> HIDE DEF created
    <3>1. QED
      BY <1>4, Ranks
  <2> HIDE DEF created, told
  <2>4. \A k \in Readable : rank(k) \in 0..N - 1
    BY <2>1, <2>3
  <2>5. ASSUME NEW k \in Readable, NEW l \in Readable, told(k) < told(l) PROVE rank(k) < rank(l)
    BY <2>1, <2>3, <2>5
  <2>6. ASSUME NEW n \in 0..N - 1 PROVE \E k \in Readable : rank(k) = n
    <3>1. PICK t \in created : Cardinality(Below(created, t)) = n
      BY <2>3
    <3>2. PICK k \in Readable : t = told(k)
      BY <2>2
    <3>3. QED
      BY <3>1, <3>2
  <2>7. QED
    BY <2>4, <2>5, <2>6
<1>6. \A i \in 1..N : At1(i) \in Readable /\ rank(At1(i)) = i - 1
  <2>1. SUFFICES ASSUME NEW i \in 1..N PROVE \E k \in Readable : rank(k) = i - 1
    <3> HIDE DEF rank
    <3>1. QED
      BY <2>1
  <2>2. i - 1 \in 0..N - 1
    BY <1>1
  <2> HIDE DEF rank, N
  <2>3. QED
    BY <1>5, <2>2
<1>7. RowsOfManifests = rows
  BY DEF RowsOfManifests, Below
<1>8. \A i \in 1..N : rows[i].run = At1(i) /\ rows[i].created = told(At1(i))
  <2>1. \A i \in 1..N : rows[i] = Row(experiments[At1(i)].manifest)
    OBVIOUS
  <2> HIDE DEF rows, At1, rank
  <2>2. \A k \in Readable : Row(experiments[k].manifest).run = k /\ Row(experiments[k].manifest).created = told(k)
    BY <1>2 DEF Row
  <2>3. QED
    BY <1>6, <2>1, <2>2
<1> HIDE DEF At1, rank
<1>9. DOMAIN rows = 1..N
  OBVIOUS
<1>10. Listed(rows) /\ Len(rows) = N
  <2>1. \A i \in 1..N : rows[i] \in ToSet(rows)
    BY <1>9 DEF ToSet
  <2>2. rows \in [1..N -> ToSet(rows)]
    BY <2>1
  <2> HIDE DEF rows
  <2>3. rows \in Seq(ToSet(rows)) /\ Len(rows) = N
    BY <1>1, <1>9, <2>2
  <2>4. QED
    BY <2>3 DEF Listed
<1> HIDE DEF rows, N, told
<1>11. {rows[i].run : i \in 1..N} = Readable
  <2>1. ASSUME NEW k \in Readable PROVE k \in {rows[i].run : i \in 1..N}
    <3>1. rank(k) \in Nat /\ rank(k) + 1 \in 1..N /\ rank(k) + 1 - 1 = rank(k)
      BY <1>1, <1>5
    <3>2. PICK i \in 1..N : i - 1 = rank(k)
      BY <3>1
    <3>3. At1(i) \in Readable /\ rank(At1(i)) = rank(k)
      BY <1>6, <3>2
    <3>4. told(At1(i)) = told(k)
      <4>1. rank(k) \in Nat /\ told(k) \in Nat /\ told(At1(i)) \in Nat
        BY <1>2, <3>1, <3>3
      <4>2. ~(told(At1(i)) < told(k)) /\ ~(told(k) < told(At1(i)))
        BY <1>5, <3>3, <4>1
      <4>3. QED
        BY <4>1, <4>2
    <3>5. At1(i) = k
      BY <1>3, <3>3, <3>4
    <3>6. QED
      BY <1>8, <3>5
  <2>2. \A i \in 1..N : rows[i].run \in Readable
    BY <1>6, <1>8
  <2>3. QED
    BY <2>1, <2>2
<1>12. ASSUME NEW i \in 1..N, NEW j \in 1..N, i < j PROVE rows[i].created < rows[j].created
  <2>1. /\ told(At1(i)) \in Nat /\ told(At1(j)) \in Nat
        /\ rank(At1(i)) = i - 1 /\ rank(At1(j)) = j - 1
    BY <1>2, <1>6
  <2>2. i \in Nat /\ j \in Nat /\ i - 1 < j - 1 /\ ~(j - 1 < i - 1) /\ i - 1 # j - 1
    BY <1>1, <1>12
  <2>3. told(At1(i)) # told(At1(j))
    BY <1>3, <1>6, <2>1, <2>2
  <2>4. ~(told(At1(j)) < told(At1(i)))
    BY <1>5, <1>6, <2>1, <2>2
  <2>5. told(At1(i)) < told(At1(j))
    BY <2>1, <2>3, <2>4
  <2>6. QED
    BY <1>8, <2>5
<1>13. RowsOf(rows, Readable)
  <2>1. N = Cardinality(Readable)
    BY DEF N
  <2>2. QED
    BY <1>9, <1>10, <1>11, <1>12, <2>1 DEF RowsOf
<1>14. QED
  BY <1>1, <1>7, <1>13

-----------------------------------------------------------------------------
(* What the steps have in common. *)

LEMMA WithFields ==
  ASSUME NEW record, NEW more
  PROVE  /\ DOMAIN With(record, more) = DOMAIN record \cup DOMAIN more
         /\ \A f \in DOMAIN more : With(record, more)[f] = more[f]
         /\ \A f \in DOMAIN record \ DOMAIN more : With(record, more)[f] = record[f]
BY DEF With

\* Time and numbers go on.
Later ==
  /\ place' = place
  /\ number' \in Nat /\ number <= number'
  /\ second' \in Nat /\ second <= second'

Bystanders(w) == \A u \in Workers \ {w} : job'[u] = job[u]

\* Directories stay, and a manifest stays or is torn.
Grown ==
  /\ DOMAIN experiments \subseteq DOMAIN experiments'
  /\ \A k \in DOMAIN experiments :
       /\ experiments'[k].born = experiments[k].born
       /\ experiments[k].manifest # None => experiments'[k].manifest # None
  /\ \A k \in DOMAIN experiments' \ DOMAIN experiments : experiments'[k].born = number

\* The step of a script: the new stage, the new fields, and all the others.
LEMMA GoFacts ==
  ASSUME EInv, NEW w \in Workers, job[w] # None, NEW stage, NEW more, Go(w, stage, more)
  PROVE  /\ agenda' = agenda /\ job' = [u \in Workers |-> job'[u]] /\ Bystanders(w)
         /\ DOMAIN job'[w] = DOMAIN job[w] \cup DOMAIN more
         /\ \A f \in DOMAIN more : job'[w][f] = more[f]
         /\ "stage" \notin DOMAIN more => job'[w].stage = stage
         /\ \A f \in DOMAIN job[w] \ (DOMAIN more \cup {"stage"}) : job'[w][f] = job[w][f]
<1> DEFINE moved == [job[w] EXCEPT !.stage = stage]
<1>1. job = [u \in Workers |-> job[u]] /\ "stage" \in DOMAIN job[w]
  BY DEF EInv, Shapes, ScriptOK, Fields
<1>2. job' = [job EXCEPT ![w] = With(moved, more)] /\ agenda' = agenda
  BY DEF Go
<1>3. job'[w] = With(moved, more) /\ Bystanders(w) /\ job' = [u \in Workers |-> job'[u]]
  BY <1>1, <1>2 DEF Bystanders
<1>4. DOMAIN moved = DOMAIN job[w] /\ moved.stage = stage /\ \A f \in DOMAIN job[w] \ {"stage"} : moved[f] = job[w][f]
  BY <1>1
<1> HIDE DEF moved
<1>5. /\ DOMAIN With(moved, more) = DOMAIN moved \cup DOMAIN more
      /\ \A f \in DOMAIN more : With(moved, more)[f] = more[f]
      /\ \A f \in DOMAIN moved \ DOMAIN more : With(moved, more)[f] = moved[f]
  BY WithFields
<1>6. QED
  BY <1>1, <1>2, <1>3, <1>4, <1>5

\* The end of a script.
LEMMA EndFacts ==
  ASSUME EInv, NEW w \in Workers, NEW code, End(w, code)
  PROVE  AgendasOK' /\ job' = [u \in Workers |-> job'[u]] /\ Bystanders(w) /\ job'[w] = None
<1>1. job = [u \in Workers |-> job[u]] /\ agenda = [u \in Workers |-> agenda[u]]
  BY DEF EInv, Shapes, AgendasOK
<1>2. job' = [u \in Workers |-> job'[u]] /\ Bystanders(w) /\ job'[w] = None
  BY <1>1 DEF End, Bystanders
<1>3. /\ agenda' = [u \in Workers |-> agenda'[u]] /\ \A u \in Workers \ {w} : agenda'[u] = agenda[u]
      /\ agenda'[w] = agenda[w] \/ agenda'[w] = Rest(agenda[w], job[w].call)
  BY <1>1 DEF End
<1>4. \A u \in Workers : Listed(agenda[u]) /\ \A n \in DOMAIN agenda[u] : IsScript(agenda[u][n])
  BY DEF EInv, AgendasOK
<1>5. /\ Listed(Rest(agenda[w], job[w].call))
      /\ \A n \in DOMAIN Rest(agenda[w], job[w].call) : IsScript(Rest(agenda[w], job[w].call)[n])
  BY <1>4, RestListed
<1>6. \A u \in Workers : Listed(agenda'[u]) /\ \A n \in DOMAIN agenda'[u] : IsScript(agenda'[u][n])
  BY <1>3, <1>4, <1>5
<1>7. AgendasOK'
  BY <1>3, <1>6 DEF AgendasOK, Listed, IsScript
<1>8. QED
  BY <1>2, <1>7

\* What a worker knows stays true while the others go on.
LEMMA BystanderOK ==
  ASSUME EInv, Later, Grown, NEW u \in Workers, job'[u] = job[u]
  PROVE  ScriptOK(u)' /\ SearchOK(u)' /\ NameOK(u)' /\ CollectedOK(u)'
<1>1. ScriptOK(u) /\ SearchOK(u) /\ NameOK(u) /\ CollectedOK(u) /\ number \in Nat /\ second \in Nat
  BY DEF EInv, Shapes
<1>2. \A n \in 1..number : n \in 1..number'
  BY <1>1 DEF Later
<1>3. ScriptOK(u)'
  BY <1>1, <1>2 DEF ScriptOK, Listed
<1>4. SearchOK(u)'
  BY <1>1 DEF SearchOK
<1>5. NameOK(u)'
  <2> SUFFICES ASSUME job[u] # None, job[u].stage \in Naming PROVE NameOK(u)'
    BY DEF NameOK
  <2> DEFINE key == job[u].key
  <2>1. /\ {"key", "created"} \subseteq DOMAIN job[u]
        /\ job[u].created \in 1..number
        /\ key[1] \in ToSet(MODELS) /\ key[2] \in 0..second
        /\ key \in DOMAIN experiments => job[u].created <= experiments[key].born
        /\ job[u].stage \in Owning => key \in DOMAIN experiments
        /\ job[u].stage \in {"look", "row", "summary"} => experiments[key].manifest # None
        /\ job[u].stage = "row" => "header" \in DOMAIN job[u] /\ job[u].header \in Seq({Header})
    BY <1>1 DEF NameOK
  <2>2. job[u].created \in 1..number' /\ key[2] \in 0..second'
    BY <1>1, <1>2, <2>1 DEF Later
  <2>3. key \in DOMAIN experiments' => job[u].created <= experiments'[key].born
    <3>1. CASE key \in DOMAIN experiments
      BY <2>1, <3>1 DEF Grown
    <3>2. CASE key \notin DOMAIN experiments
      BY <1>1, <2>1, <3>2 DEF Grown
    <3>3. QED
      BY <3>1, <3>2
  <2>4. /\ job[u].stage \in Owning => key \in DOMAIN experiments'
        /\ job[u].stage \in {"look", "row", "summary"} => experiments'[key].manifest # None
    BY <2>1 DEF Grown, Owning, Naming
  <2>5. QED
    BY <2>1, <2>2, <2>3, <2>4 DEF NameOK
<1>6. CollectedOK(u)'
  BY <1>1 DEF CollectedOK, RowsOf, Listed, Grown
<1>7. QED
  BY <1>3, <1>4, <1>5, <1>6

\* A line of the index stays true.
LEMMA DescribedStays ==
  ASSUME Grown, NEW line, Described(line)
  PROVE  Described(line)'
BY DEF Described, Grown

\* After its manifest a training goes on without its directory.
Told == {"look", "row", "summary"}

Passes(w) ==
  /\ job[w] # None /\ job[w].stage \in Told /\ job'[w] # None /\ job'[w].stage \in Told
  /\ \A f \in {"key", "created", "content", "number", "step"} : job'[w][f] = job[w][f]

\* Where no directory changes hands, all of them stay as they are.
LEMMA QuietStore ==
  ASSUME EInv, Later, UNCHANGED experiments, NEW w \in Workers, Bystanders(w),
         job'[w] = None \/ job'[w].stage \notin Owning \/ Passes(w)
  PROVE  /\ OwnersOK' /\ ManifestWhole'
         /\ \A k \in DOMAIN experiments' : ExperimentOK(k)'
         /\ \A study : StudyOK(study) => StudyOK(study)'
<1>1. OwnersOK /\ ManifestWhole /\ \A k \in DOMAIN experiments : ExperimentOK(k)
  BY DEF EInv
<1>2. \A u \in Workers, k \in DOMAIN experiments : Owner(u, k)' => Owner(u, k)
  <2> SUFFICES ASSUME NEW u \in Workers, NEW k \in DOMAIN experiments, Owner(u, k)' PROVE Owner(u, k)
    OBVIOUS
  <2>1. CASE u # w
    BY <2>1 DEF Owner, Bystanders
  <2>2. CASE u = w
    BY <2>2 DEF Owner, Passes, Told, Owning, Naming
  <2>3. QED
    BY <2>1, <2>2
<1>3. OwnersOK'
  <2> SUFFICES ASSUME NEW u \in Workers, NEW k \in DOMAIN experiments', Owner(u, k)', experiments'[k].makers = 1
               PROVE  Written(u, experiments[k])' /\ \A v \in Workers : Owner(v, k)' => v = u
    BY DEF OwnersOK
  <2>1. Written(u, experiments[k]) /\ \A v \in Workers : Owner(v, k) => v = u
    BY <1>1, <1>2 DEF OwnersOK
  <2>2. ASSUME u # w PROVE Written(u, experiments[k])'
    BY <2>1, <2>2 DEF Written, Bystanders, Manifest
  <2>3. ASSUME u = w PROVE Written(u, experiments[k])'
    <3>1. Passes(w)
      BY <2>3 DEF Owner
    <3>2. Manifest(w)' = Manifest(w) /\ job'[w].content = job[w].content
      BY <3>1 DEF Passes, Manifest
    <3>3. job[w].stage \in Told /\ job'[w].stage \in Told
      BY <3>1 DEF Passes
    <3>4. Written(w, experiments[k])'
      BY <2>1, <2>3, <3>2, <3>3 DEF Written, Told
    <3>5. QED
      BY <2>3, <3>4
  <2>4. Written(u, experiments[k])'
    BY <2>2, <2>3
  <2>5. QED
    BY <1>2, <2>1, <2>4
<1>4. ManifestWhole'
  BY <1>1 DEF ManifestWhole, Readable
<1>5. ASSUME NEW k \in DOMAIN experiments' PROVE ExperimentOK(k)'
  <2>1. number \in Nat /\ second \in Nat /\ number' \in Nat /\ second' \in Nat /\ number <= number' /\ second <= second'
    BY DEF EInv, Shapes, Later
  <2>2. (\A n \in 0..number : n \in 0..number') /\ (\A n \in 1..number : n \in 1..number')
        /\ \A n \in 0..second : n \in 0..second'
    BY <2>1
  <2>3. QED
    BY <1>1, <2>2 DEF ExperimentOK, Readable
<1>6. ASSUME NEW study, StudyOK(study) PROVE StudyOK(study)'
  BY <1>2, <1>6 DEF StudyOK
<1>7. QED
  BY <1>3, <1>4, <1>5, <1>6

\* Where no name is chosen, numbers stay apart.
LEMMA QuietNumbers ==
  ASSUME EInv, UNCHANGED experiments, NEW w \in Workers, Bystanders(w),
         job'[w] = None \/ job'[w].stage \notin Naming \/ Passes(w)
  PROVE  NumbersOK'
<1>1. NumbersOK
  BY DEF EInv
<1>2. \A u \in Workers : job'[u] # None /\ job'[u].stage \in Naming =>
        /\ job[u] # None /\ job[u].stage \in Naming
        /\ job'[u].created = job[u].created /\ job'[u].key = job[u].key
  <2> SUFFICES ASSUME NEW u \in Workers, job'[u] # None, job'[u].stage \in Naming
               PROVE  /\ job[u] # None /\ job[u].stage \in Naming
                      /\ job'[u].created = job[u].created /\ job'[u].key = job[u].key
    OBVIOUS
  <2>1. CASE u # w
    BY <2>1 DEF Bystanders
  <2>2. CASE u = w
    BY <2>2 DEF Passes, Told, Naming
  <2>3. QED
    BY <2>1, <2>2
<1>3. Readable' = Readable
  BY DEF Readable
<1>4. QED
  BY <1>1, <1>2, <1>3 DEF NumbersOK

\* The files of the splits.
FilesOK ==
  /\ processed = [f \in ToSet(SplitNames) \cup {"artefacts"} |-> processed[f]]
  /\ features = [f \in ToSet(SplitNames) \cup {"metadata", "artefacts"} |-> features[f]]
  /\ SplitsOK

WorkerOK(w) == ScriptOK(w) /\ SearchOK(w) /\ NameOK(w) /\ CollectedOK(w)

\* A step of one worker keeps the invariant when it keeps what the worker knows
\* and what is said of the directories.
LEMMA WorkerStep ==
  ASSUME EInv, NEW w \in Workers, Later, Grown, Bystanders(w), job' = [u \in Workers |-> job'[u]],
         FilesOK', AgendasOK', WorkerOK(w)', OwnersOK', NumbersOK', ManifestWhole', IndexOK', StudiesOK',
         experiments' = [k \in DOMAIN experiments' |-> experiments'[k]], IsFiniteSet(DOMAIN experiments'),
         \A k \in DOMAIN experiments' : ExperimentOK(k)'
  PROVE  EInv'
<1>1. Shapes'
  BY DEF EInv, Shapes, Later, FilesOK
<1>2. ASSUME NEW u \in Workers PROVE WorkerOK(u)'
  <2>1. CASE u = w
    BY <2>1
  <2>2. CASE u # w
    <3>1. job'[u] = job[u]
      BY <2>2 DEF Bystanders
    <3>2. QED
      BY <3>1, BystanderOK DEF WorkerOK
  <2>3. QED
    BY <2>1, <2>2
<1>3. QED
  BY <1>1, <1>2 DEF EInv, FilesOK, WorkerOK

\* Such a step where the directories stay as they are.
LEMMA QuietStep ==
  ASSUME EInv, NEW w \in Workers, Later, Bystanders(w), job' = [u \in Workers |-> job'[u]], UNCHANGED experiments,
         FilesOK', AgendasOK', WorkerOK(w)', index' = index \/ IndexOK', studies' = studies \/ StudiesOK',
         job'[w] = None \/ job'[w].stage \notin Naming \/ Passes(w)
  PROVE  EInv'
<1>1. Grown
  BY DEF Grown
<1>2. /\ OwnersOK' /\ ManifestWhole' /\ \A k \in DOMAIN experiments' : ExperimentOK(k)'
      /\ \A study : StudyOK(study) => StudyOK(study)'
  <2>1. job'[w] = None \/ job'[w].stage \notin Owning \/ Passes(w)
    BY DEF Owning
  <2>2. QED
    BY <2>1, QuietStore
<1>3. NumbersOK'
  BY QuietNumbers
<1>4. IndexOK'
  <2>1. SUFFICES ASSUME index' = index, index # None PROVE Listed(index) /\ \A i \in DOMAIN index : Described(index[i])'
    BY DEF IndexOK, Listed
  <2>2. Listed(index) /\ \A i \in DOMAIN index : Described(index[i])
    BY <2>1 DEF EInv, IndexOK
  <2>3. ASSUME NEW i \in DOMAIN index PROVE Described(index[i])'
    BY <2>2, <1>1, <2>1 DEF Described, Grown
  <2>4. QED
    BY <2>2, <2>3
<1>5. StudiesOK'
  <2>1. SUFFICES ASSUME studies' = studies PROVE StudiesOK'
    OBVIOUS
  <2>2. Listed(studies) /\ \A i \in DOMAIN studies : StudyOK(studies[i])
    BY DEF EInv, StudiesOK
  <2>3. ASSUME NEW i \in DOMAIN studies PROVE StudyOK(studies[i])'
    <3>1. PICK study : study = studies[i]
      OBVIOUS
    <3>2. StudyOK(study)'
      BY <1>2, <2>2, <3>1
    <3>3. QED
      BY <2>1, <3>1, <3>2 DEF StudyOK
  <2>4. QED
    BY <2>1, <2>2, <2>3 DEF StudiesOK, Listed
<1>6. experiments' = [k \in DOMAIN experiments' |-> experiments'[k]] /\ IsFiniteSet(DOMAIN experiments')
  BY DEF EInv, Shapes
<1>7. QED
  BY <1>1, <1>2, <1>3, <1>4, <1>5, <1>6, WorkerStep

\* The end of a script, whatever it has written last.
LEMMA EndStep ==
  ASSUME EInv, NEW w \in Workers, Later, NEW code, End(w, code), UNCHANGED experiments, FilesOK',
         index' = index \/ IndexOK', studies' = studies \/ StudiesOK'
  PROVE  EInv'
<1>1. AgendasOK' /\ job' = [u \in Workers |-> job'[u]] /\ Bystanders(w) /\ job'[w] = None
  BY EndFacts
<1>2. WorkerOK(w)'
  BY <1>1 DEF WorkerOK, ScriptOK, SearchOK, NameOK, CollectedOK
<1>3. QED
  BY <1>1, <1>2, QuietStep

\* Another stage of a script.
LEMMA GoStep ==
  ASSUME EInv, NEW w \in Workers, job[w] # None, Later, NEW stage, NEW more, Go(w, stage, more), UNCHANGED experiments,
         FilesOK', WorkerOK(w)', index' = index \/ IndexOK', studies' = studies,
         job'[w] = None \/ job'[w].stage \notin Naming \/ Passes(w)
  PROVE  EInv'
<1>1. agenda' = agenda /\ job' = [u \in Workers |-> job'[u]] /\ Bystanders(w)
  BY GoFacts
<1>2. AgendasOK'
  BY <1>1 DEF EInv, AgendasOK, Listed, IsScript
<1>3. QED
  BY <1>1, <1>2, QuietStep

LEMMA SteadyIsLater ==
  ASSUME EInv, Steady
  PROVE  Later /\ number' = number /\ second' = second
BY DEF EInv, Shapes, Steady, Later

\* The files where none is written.
LEMMA FilesStay ==
  ASSUME EInv, UNCHANGED <<processed, features>>, Later
  PROVE  FilesOK'
<1>1. \A n \in 1..number : n \in 1..number'
  BY DEF EInv, Shapes, Later
<1>2. QED
  BY <1>1 DEF EInv, Shapes, FilesOK, SplitsOK

-----------------------------------------------------------------------------
(* What trainings have learned: an invariant of its own, on top of the     *)
(* first.  A script knows what it has read and is about to write, the      *)
(* agendas are in order, and what a script needs is made or comes first.   *)

\* What the epochs left is what training loops leave.
LoopOK(w) ==
  InStage(w, "name") => /\ {"losses", "content"} \subseteq DOMAIN job[w]
                        /\ job[w].losses \in Seq(Int \cup {Missing})
                        /\ job[w].content.loop = TrainLoop(job[w].losses)

\* The columns of a split are a list, on the disk, in what a script has read and in
\* what it is about to write.
FramesOK ==
  \A s \in Splits :
    /\ processed[s] \notin {None, Torn} => Listed(processed[s].frame.columns)
    /\ features[s] \notin {None, Torn} => Listed(features[s].frame.columns)

ResultOK(w) ==
  job[w] # None /\ job[w].stage \in Splits =>
    "result" \in DOMAIN job[w] /\ \A s \in Splits : Listed(job[w].result.frames[s].columns)

\* A training has read three splits that have the columns of the first.
ReadOK(w) ==
  job[w] # None /\ job[w].stage \in {"read", "select", "audit", "fit"} =>
    LET read == job[w].read
    IN /\ job[w].stage # "read" => Len(read) = 3
       /\ \A i \in DOMAIN read :
            /\ i = 1 => read[i] # None
            /\ read[i] # None => Listed(read[i].frame.columns)
            /\ job[w].step # "features" /\ read[i] # None =>
                 Needed(FeatureColumns(read[1].frame), read[i].frame)

FitOK(w) ==
  InStage(w, "fit") =>
    LET read == job[w].read
        columns == FeatureColumns(read[1].frame)
    IN /\ job[w].expected \in {None, columns}
       /\ \A i \in {k \in 1..3 : read[k] # None} : \A x \in ToSet(columns) : Missing \notin Values(read[i].frame, x)

\* A script comes before another one of its worker.
Rank(step) ==
  CASE step \in {"validate", "audit"} -> 0 [] step = "preprocess" -> 1 [] step = "features" -> 2 [] OTHER -> 3

Sooner(x, y) ==
  \/ x.call < y.call
  \/ x.call = y.call /\ Rank(x.step) <= Rank(y.step) /\ (Rank(x.step) \in {1, 2} => Rank(x.step) < Rank(y.step))

CallOf(w, c) == scenario.calls[w][c]

\* The script that runs and those to come.
Todo(w) == ToSet(agenda[w]) \cup (IF job[w] = None THEN {} ELSE {job[w]})

ItemOK(w, x) ==
  /\ x.call \in DOMAIN scenario.calls[w] /\ x.goesOn = CallOf(w, x.call).goesOn
  /\ x.step \in {"preprocess", "features"} => Prepares(CallOf(w, x.call))
  /\ x.step = "optimize" => ~PreparesBoth(CallOf(w, x.call))
  /\ made[w][1] <= x.call /\ (x.step = "preprocess" => made[w][1] < x.call)

WorkOK(w) ==
  /\ made[w][1] \in Nat
  /\ \A i, j \in DOMAIN agenda[w] : i < j => Sooner(agenda[w][i], agenda[w][j])
  /\ job[w] # None => /\ \A n \in DOMAIN agenda[w] : Sooner(job[w], agenda[w][n])
                      /\ job[w].stage = "elsewhere" => job[w].step \notin {"preprocess", "features"}
  /\ \A x \in Todo(w) : ItemOK(w, x)

\* The splits are of the last preprocessing of the worker, made in this call.
Of(w, c, files) == made[w][1] = c /\ \A s \in Splits : files[s].number = made[w][2]

Pending(w, c, step) == \E x \in Todo(w) : x.call = c /\ x.step = step

\* What a script needs has been made in its call, or is still to be made.
StrictAt(w, c) == Strict(w, CallOf(w, c))

FreshItem(w, x) ==
  StrictAt(w, x.call) =>
    /\ x.step = "features" => Pending(w, x.call, "preprocess") \/ Of(w, x.call, processed)
    /\ x.step = "train" => Pending(w, x.call, "features") \/ Of(w, x.call, features)

FreshOK(w) == \A x \in Todo(w) : FreshItem(w, x)

\* The splits a script has written, one after the other.
WrittenBefore(stage) ==
  CASE stage = "validation" -> {"train"} [] stage = "test" -> {"train", "validation"}
    [] stage \in {"metadata", "artefacts"} -> Splits [] OTHER -> {}

ProgressItem(w, j) ==
  StrictAt(w, j.call) =>
    /\ j.step = "preprocess" => \A s \in WrittenBefore(j.stage) : processed[s].number = j.number
    /\ j.step = "features" =>
         /\ j.stage \in {"read", "select"} => \A i \in DOMAIN j.read : j.read[i].number = made[w][2]
         /\ j.stage \in Splits \cup {"metadata", "artefacts"} =>
              /\ "from" \in DOMAIN j /\ \A s \in Splits : j.from[s] = made[w][2]
              /\ \A s \in WrittenBefore(j.stage) : features[s].number = made[w][2]
    /\ j.step = "train" =>
         /\ j.stage \in {"read", "audit", "fit"} =>
              \A i \in DOMAIN j.read : j.read[i] # None => j.read[i].number = made[w][2]
         /\ j.stage = "name" => "content" \in DOMAIN j /\ j.content.from = {made[w][2]}

ProgressOK(w) == job[w] # None => ProgressItem(w, job[w])

LearnedOK(w) == LoopOK(w) /\ ResultOK(w) /\ ReadOK(w) /\ FitOK(w)

OrderOK(w) == WorkOK(w) /\ FreshOK(w) /\ ProgressOK(w)

LearnedInv ==
  /\ raw \in DOMAIN scenario.histories /\ made = [w \in Workers |-> made[w]]
  /\ FramesOK
  /\ \A w \in Workers : LearnedOK(w) /\ OrderOK(w)

-----------------------------------------------------------------------------
(* The plan of a workflow and the agenda of a worker. *)

\* The ranks of the steps in the canonical order.
LEMMA StepRanks ==
  /\ Listed(STEP_ORDER) /\ DOMAIN STEP_ORDER = 1..13
  /\ \A a \in 1..13 : Rank(STEP_ORDER[a]) = (IF a \in {1, 2} THEN 0 ELSE IF a = 3 THEN 1 ELSE IF a = 4 THEN 2 ELSE 3)
  /\ {"preprocess", "features"} \subseteq ToSet(STEP_ORDER) /\ "optimize" \notin ToSet(STEP_ORDER)
  /\ \A s \in ToSet(STEP_ORDER) : s \in PerModel => Rank(s) = 3
<1>1. /\ STEP_ORDER[1] = "validate" /\ STEP_ORDER[2] = "audit" /\ STEP_ORDER[3] = "preprocess"
      /\ STEP_ORDER[4] = "features" /\ STEP_ORDER[5] = "train" /\ STEP_ORDER[6] = "validation_report"
      /\ STEP_ORDER[7] = "experiment_index" /\ STEP_ORDER[8] = "explainability" /\ STEP_ORDER[9] = "error_analysis"
      /\ STEP_ORDER[10] = "visualizations" /\ STEP_ORDER[11] = "registry" /\ STEP_ORDER[12] = "promote"
      /\ STEP_ORDER[13] = "resolve" /\ DOMAIN STEP_ORDER = 1..13
  BY DEF STEP_ORDER
<1>2. \A a \in 1..13 : \/ a = 1 \/ a = 2 \/ a = 3 \/ a = 4 \/ a = 5 \/ a = 6 \/ a = 7 \/ a = 8 \/ a = 9 \/ a = 10
                       \/ a = 11 \/ a = 12 \/ a = 13
  OBVIOUS
<1>3. \A a \in 1..13 : Rank(STEP_ORDER[a]) = (IF a \in {1, 2} THEN 0 ELSE IF a = 3 THEN 1 ELSE IF a = 4 THEN 2 ELSE 3)
  <2>1. /\ Rank("validate") = 0 /\ Rank("audit") = 0 /\ Rank("preprocess") = 1 /\ Rank("features") = 2
        /\ Rank("train") = 3 /\ Rank("validation_report") = 3 /\ Rank("experiment_index") = 3
        /\ Rank("explainability") = 3 /\ Rank("error_analysis") = 3 /\ Rank("visualizations") = 3
        /\ Rank("registry") = 3 /\ Rank("promote") = 3 /\ Rank("resolve") = 3
    BY DEF Rank
  <2>2. QED
    BY <1>1, <1>2, <2>1
<1>4. {"preprocess", "features"} \subseteq ToSet(STEP_ORDER)
  <2>1. 3 \in 1..13 /\ 4 \in 1..13
    OBVIOUS
  <2>2. QED
    BY <1>1, <2>1 DEF ToSet
<1>5. "optimize" \notin ToSet(STEP_ORDER)
  BY <1>1, <1>2 DEF ToSet
<1>6. ASSUME NEW s \in ToSet(STEP_ORDER), s \in PerModel PROVE Rank(s) = 3
  BY <1>6 DEF PerModel, Rank
<1>7. STEP_ORDER \in Seq(ToSet(STEP_ORDER))
  <2>1. STEP_ORDER \in Seq({"validate", "audit", "preprocess", "features", "train", "validation_report", "experiment_index",
                             "explainability", "error_analysis", "visualizations", "registry", "promote", "resolve"})
    BY DEF STEP_ORDER
  <2>2. QED
    BY <2>1, ListedSeq DEF Listed
<1>8. QED
  BY <1>1, <1>3, <1>4, <1>5, <1>6, <1>7 DEF Listed

\* One step comes before another one.
Earlier(s, t) == Rank(s) <= Rank(t) /\ (Rank(s) \in {1, 2} => Rank(s) < Rank(t))

\* The canonical order respects the ranks.
LEMMA StepsInOrder ==
  ASSUME NEW a \in 1..13, NEW b \in 1..13, a < b
  PROVE  Earlier(STEP_ORDER[a], STEP_ORDER[b])
<1>1. \A c \in 1..13 : Rank(STEP_ORDER[c]) = (IF c \in {1, 2} THEN 0 ELSE IF c = 3 THEN 1 ELSE IF c = 4 THEN 2 ELSE 3)
  BY StepRanks
<1>2. Rank(STEP_ORDER[a]) = (IF a \in {1, 2} THEN 0 ELSE IF a = 3 THEN 1 ELSE IF a = 4 THEN 2 ELSE 3)
  BY <1>1
<1>3. Rank(STEP_ORDER[b]) = (IF b \in {1, 2} THEN 0 ELSE IF b = 3 THEN 1 ELSE IF b = 4 THEN 2 ELSE 3)
  BY <1>1
<1>4. QED
  BY <1>2, <1>3 DEF Earlier

\* The steps that are selected, each once, in the canonical order.
LEMMA KeysFacts ==
  ASSUME NEW steps, NEW keys, keys = NormalizeSteps(steps), keys # None
  PROVE  /\ Listed(keys) /\ ToSet(keys) \subseteq ToSet(STEP_ORDER)
         /\ \A i, j \in DOMAIN keys : i < j => Earlier(keys[i], keys[j])
         /\ ToSet(keys) \cap {"preprocess", "features"} # {} =>
              steps = <<>> \/ ToSet(steps) \cap {"all", "preprocess", "features"} # {}
         /\ steps = <<>> \/ "all" \in ToSet(steps) \/ {"preprocess", "features"} \subseteq ToSet(steps) =>
              {"preprocess", "features"} \subseteq ToSet(keys)
<1>1. CASE steps = <<>> \/ "all" \in ToSet(steps)
  <2>1. keys = STEP_ORDER
    BY <1>1 DEF NormalizeSteps
  <2>2. QED
    BY <1>1, <2>1, StepRanks, StepsInOrder
<1>2. CASE ~(steps = <<>> \/ "all" \in ToSet(steps))
  <2>1. keys = Chosen(STEP_ORDER, ToSet(steps))
    BY <1>2 DEF NormalizeSteps
  <2>2. /\ Listed(keys) /\ ToSet(keys) = ToSet(STEP_ORDER) \cap ToSet(steps)
        /\ \A i, j \in DOMAIN keys : i < j =>
             \E a, b \in DOMAIN STEP_ORDER : a < b /\ keys[i] = STEP_ORDER[a] /\ keys[j] = STEP_ORDER[b]
    BY <2>1, StepRanks, ChosenFacts
  <2>3. \A i, j \in DOMAIN keys : i < j => Earlier(keys[i], keys[j])
    <3> SUFFICES ASSUME NEW i \in DOMAIN keys, NEW j \in DOMAIN keys, i < j PROVE Earlier(keys[i], keys[j])
      OBVIOUS
    <3>1. PICK a \in 1..13, b \in 1..13 : a < b /\ keys[i] = STEP_ORDER[a] /\ keys[j] = STEP_ORDER[b]
      BY <2>2, StepRanks
    <3>2. QED
      BY <3>1, StepsInOrder
  <2>4. QED
    BY <1>2, <2>2, <2>3, StepRanks
<1>3. QED
  BY <1>1, <1>2

\* The scripts of a step: one per model, or one.
PlanOf(models, s) ==
  IF s \in PerModel
  THEN [i \in DOMAIN ExpandModels(models) |-> [step |-> s, model |-> ExpandModels(models)[i]]]
  ELSE <<[step |-> s, model |-> None]>>

Item == [step : ToSet(STEP_ORDER), model : ToSet(MODELS) \cup {None}]

\* Each script of a step is one of the step.
LEMMA PlanOfFacts ==
  ASSUME NEW models, NEW s \in ToSet(STEP_ORDER)
  PROVE  /\ PlanOf(models, s) \in Seq(Item)
         /\ \A i \in DOMAIN PlanOf(models, s) :
              PlanOf(models, s)[i].step = s /\ (s = "train" => PlanOf(models, s)[i].model \in ToSet(MODELS))
         /\ s \notin PerModel => DOMAIN PlanOf(models, s) = {1}
<1>1. Listed(MODELS)
  <2>1. MODELS \in Seq({"xgboost", "mlp"})
    BY DEF MODELS
  <2>2. QED
    BY <2>1, ListedSeq
<1> PICK E : E = ExpandModels(models)
  OBVIOUS
<1>2. Listed(E) /\ ToSet(E) \subseteq ToSet(MODELS)
  BY <1>1, ChosenFacts DEF ExpandModels
<1>3. E \in Seq(ToSet(MODELS)) /\ Len(E) \in Nat /\ DOMAIN E = 1..Len(E) /\ \A i \in DOMAIN E : E[i] \in ToSet(MODELS)
  <2>1. E \in Seq(ToSet(E)) /\ \A i \in DOMAIN E : E[i] \in ToSet(E)
    BY <1>2 DEF Listed, ToSet
  <2>2. QED
    BY <1>2, <2>1
<1>4. CASE s \in PerModel
  <2>1. PlanOf(models, s) = [i \in DOMAIN E |-> [step |-> s, model |-> E[i]]]
    BY <1>4 DEF PlanOf
  <2>2. \A i \in DOMAIN E : [step |-> s, model |-> E[i]] \in Item
    BY <1>3 DEF Item
  <2>3. PlanOf(models, s) \in Seq(Item)
    BY <1>3, <2>1, <2>2
  <2>4. QED
    BY <1>3, <1>4, <2>1, <2>3
<1>5. CASE s \notin PerModel
  <2>1. PlanOf(models, s) = <<[step |-> s, model |-> None]>> /\ "train" \in PerModel
    BY <1>5 DEF PlanOf, PerModel
  <2>2. [step |-> s, model |-> None] \in Item
    BY DEF Item
  <2>3. QED
    BY <1>5, <2>1, <2>2
<1>6. QED
  BY <1>4, <1>5

\* The scripts of a workflow.
InOrder(plan) == \A i, j \in DOMAIN plan : i < j => Earlier(plan[i].step, plan[j].step)

HasStep(plan, step) == \E i \in DOMAIN plan : plan[i].step = step

WritesSplits(steps) == steps = <<>> \/ ToSet(steps) \cap {"all", "preprocess", "features"} # {}

WritesBoth(steps) == steps = <<>> \/ "all" \in ToSet(steps) \/ {"preprocess", "features"} \subseteq ToSet(steps)

PlanOK(plan, steps) ==
  /\ plan \in Seq(Item) /\ InOrder(plan)
  /\ \A i \in DOMAIN plan : /\ plan[i].step = "train" => plan[i].model \in ToSet(MODELS)
                            /\ plan[i].step \in {"preprocess", "features"} => WritesSplits(steps)
                            /\ plan[i].step # "optimize"
  /\ plan # <<>> /\ WritesBoth(steps) => HasStep(plan, "preprocess") /\ HasStep(plan, "features")

\* A plan has its scripts in the canonical order, and those a workflow needs.
LEMMA PlanFacts ==
  ASSUME NEW steps, NEW models
  PROVE  PlanOK(BuildPlan(steps, models), steps)
<1> PICK keys : keys = NormalizeSteps(steps)
  OBVIOUS
<1> PICK plan : plan = BuildPlan(steps, models)
  OBVIOUS
<1>1. CASE keys = None
  <2>1. plan = <<>>
    BY <1>1 DEF BuildPlan
  <2>2. QED
    BY <2>1 DEF PlanOK, InOrder
<1>2. CASE keys # None
  <2> DEFINE seqs == [i \in DOMAIN keys |-> PlanOf(models, keys[i])]
  <2>1. plan = FlattenSeq(seqs)
    BY <1>2 DEF BuildPlan, PlanOf
  <2>2. /\ Listed(keys) /\ ToSet(keys) \subseteq ToSet(STEP_ORDER)
        /\ \A i, j \in DOMAIN keys : i < j => Earlier(keys[i], keys[j])
        /\ ToSet(keys) \cap {"preprocess", "features"} # {} => WritesSplits(steps)
        /\ WritesBoth(steps) => {"preprocess", "features"} \subseteq ToSet(keys)
    BY <1>2, KeysFacts DEF WritesSplits, WritesBoth
  <2>3. /\ Len(keys) \in Nat /\ DOMAIN keys = 1..Len(keys)
        /\ \A l \in DOMAIN keys : keys[l] \in ToSet(keys) /\ keys[l] \in ToSet(STEP_ORDER)
    <3> HIDE DEF seqs
    <3>1. Len(keys) \in Nat /\ DOMAIN keys = 1..Len(keys)
      BY <2>2 DEF Listed
    <3>2. \A l \in DOMAIN keys : keys[l] \in ToSet(keys)
      BY DEF ToSet
    <3>3. QED
      BY <2>2, <3>1, <3>2
  <2>4. \A l \in DOMAIN keys :
          /\ seqs[l] \in Seq(Item)
          /\ \A i \in DOMAIN seqs[l] :
               seqs[l][i].step = keys[l] /\ (keys[l] = "train" => seqs[l][i].model \in ToSet(MODELS))
          /\ keys[l] \notin PerModel => DOMAIN seqs[l] = {1}
    BY <2>3, PlanOfFacts
  <2>5. seqs \in Seq(Seq(Item)) /\ Len(seqs) = Len(keys)
    <3>1. DOMAIN seqs = 1..Len(keys) /\ seqs = [l \in 1..Len(keys) |-> seqs[l]]
      BY <2>3
    <3> HIDE DEF seqs
    <3>2. QED
      BY <2>3, <2>4, <3>1
  <2> HIDE DEF seqs
  <2>6. plan \in Seq(Item) /\ From(plan, seqs, Len(keys)) /\ All(plan, seqs, Len(keys)) /\ Ordered(plan, seqs, Len(keys))
    BY <2>1, <2>5, FlattenFacts
  <2>7. ASSUME NEW i \in DOMAIN plan
        PROVE  /\ plan[i].step = "train" => plan[i].model \in ToSet(MODELS)
               /\ plan[i].step \in {"preprocess", "features"} => WritesSplits(steps)
               /\ plan[i].step # "optimize"
    <3>0. PICK l \in 1..Len(keys) : \E m \in DOMAIN seqs[l] : plan[i] = seqs[l][m]
      BY <2>6 DEF From
    <3>1. PICK m \in DOMAIN seqs[l] : plan[i] = seqs[l][m]
      BY <3>0
    <3>2. plan[i].step = keys[l] /\ (keys[l] = "train" => plan[i].model \in ToSet(MODELS)) /\ keys[l] \in ToSet(keys)
          /\ keys[l] \in ToSet(STEP_ORDER)
      BY <2>3, <2>4, <3>1
    <3>3. QED
      BY <2>2, <3>2, StepRanks
  <2>8. InOrder(plan)
    <3> SUFFICES ASSUME NEW i \in DOMAIN plan, NEW j \in DOMAIN plan, i < j PROVE Earlier(plan[i].step, plan[j].step)
      BY DEF InOrder
    <3>1. PICK a \in 1..Len(keys), b \in 1..Len(keys) : Apart(seqs, plan[i], plan[j], a, b)
      BY <2>6 DEF Ordered
    <3>2. PICK m \in DOMAIN seqs[a], p \in DOMAIN seqs[b] :
            plan[i] = seqs[a][m] /\ plan[j] = seqs[b][p] /\ (a < b \/ (a = b /\ m < p))
      BY <3>1 DEF Apart
    <3>3. plan[i].step = keys[a] /\ plan[j].step = keys[b] /\ keys[a] \in ToSet(STEP_ORDER)
      BY <2>3, <2>4, <3>2
    <3>4. CASE a < b
      BY <2>2, <2>3, <3>3, <3>4
    <3>5. CASE a = b /\ m < p
      <4>1. keys[a] \in PerModel
        <5> SUFFICES ASSUME keys[a] \notin PerModel PROVE FALSE
          OBVIOUS
        <5>1. m \in {1} /\ p \in {1}
          BY <2>3, <2>4, <3>5
        <5>2. QED
          BY <3>5, <5>1
      <4>2. Rank(keys[a]) = 3
        BY <3>3, <4>1, StepRanks
      <4>3. QED
        BY <3>3, <3>5, <4>2 DEF Earlier
    <3>6. QED
      BY <3>2, <3>4, <3>5
  <2>9. ASSUME WritesBoth(steps), NEW s \in {"preprocess", "features"} PROVE HasStep(plan, s)
    <3>1. PICK l \in DOMAIN keys : keys[l] = s
      BY <2>2, <2>9 DEF ToSet
    <3>2. s \notin PerModel
      BY DEF PerModel
    <3>3. 1 \in DOMAIN seqs[l] /\ seqs[l][1].step = s
      BY <2>4, <3>1, <3>2
    <3>4. PICK i \in DOMAIN plan : plan[i] = seqs[l][1]
      BY <2>3, <2>6, <3>3 DEF All
    <3>5. QED
      BY <3>3, <3>4 DEF HasStep
  <2>10. QED
    BY <2>6, <2>7, <2>8, <2>9 DEF PlanOK
<1>3. QED
  BY <1>1, <1>2

\* A script is one of the call it names.
Planned(calls, x) ==
  /\ IsScript(x) /\ x.call \in DOMAIN calls /\ x.goesOn = calls[x.call].goesOn
  /\ x.step \in {"preprocess", "features"} => Prepares(calls[x.call])
  /\ x.step = "optimize" => ~PreparesBoth(calls[x.call])

HasOf(items, call, step) == \E j \in DOMAIN items : items[j].call = call /\ items[j].step = step

\* The same for the scripts of a call.
LEMMA ScriptsFacts ==
  ASSUME NEW call, NEW plan, plan = Scripts(call)
  PROVE  /\ plan \in Seq(ToSet(plan)) /\ InOrder(plan)
         /\ \A i \in DOMAIN plan :
              /\ DOMAIN plan[i] = {"step", "model"}
              /\ plan[i].step \in {"train", "optimize"} => plan[i].model \in ToSet(MODELS)
              /\ plan[i].step \in {"preprocess", "features"} => Prepares(call)
              /\ plan[i].step = "optimize" => ~PreparesBoth(call)
              /\ plan[i].step \in {"train", "features"} /\ PreparesBoth(call) =>
                   HasStep(plan, "preprocess") /\ HasStep(plan, "features")
<1>1. CASE call.steps = <<"optimize">>
  <2>1. plan = <<[step |-> "optimize", model |-> "xgboost"]>>
    BY <1>1 DEF Scripts
  <2>2. DOMAIN plan = {1} /\ plan[1] = [step |-> "optimize", model |-> "xgboost"]
    BY <2>1
  <2>3. ~PreparesBoth(call)
    BY <1>1 DEF PreparesBoth, ToSet
  <2>4. "xgboost" \in ToSet(MODELS)
    <3>1. MODELS[1] = "xgboost" /\ 1 \in DOMAIN MODELS
      BY DEF MODELS
    <3>2. QED
      BY <3>1 DEF ToSet
  <2>5. plan \in Seq(ToSet(plan))
    <3>1. plan \in Seq({plan[1]})
      BY <2>1
    <3>2. QED
      BY <3>1, ListedSeq DEF Listed
  <2>6. InOrder(plan)
    BY <2>2 DEF InOrder
  <2>7. QED
    BY <2>2, <2>3, <2>4, <2>5, <2>6
<1>2. CASE call.steps # <<"optimize">>
  <2>1. plan = BuildPlan(call.steps, call.models)
    BY <1>2 DEF Scripts
  <2>2. PlanOK(plan, call.steps)
    BY <2>1, PlanFacts
  <2>3. /\ WritesSplits(call.steps) => Prepares(call)
        /\ PreparesBoth(call) => WritesBoth(call.steps)
    BY DEF WritesSplits, WritesBoth, Prepares, PreparesBoth
  <2>4. plan \in Seq(Item) /\ InOrder(plan)
    BY <2>2 DEF PlanOK
  <2>5. \A i \in DOMAIN plan : plan[i] \in Item
    BY <2>4
  <2>6. \A i \in DOMAIN plan : DOMAIN plan[i] = {"step", "model"}
    BY <2>5 DEF Item
  <2>7. plan \in Seq(ToSet(plan))
    BY <2>4, ListedSeq DEF Listed
  <2>8. \A i \in DOMAIN plan : plan # <<>>
    OBVIOUS
  <2>9. QED
    BY <2>2, <2>3, <2>4, <2>6, <2>7, <2>8 DEF PlanOK
<1>3. QED
  BY <1>1, <1>2

\* The agenda of a worker: call after call, script after script.
LEMMA AgendaFacts ==
  ASSUME NEW calls, Listed(calls), NEW a, a = Agenda(calls)
  PROVE  /\ Listed(a)
         /\ \A i \in DOMAIN a : Planned(calls, a[i])
         /\ \A i, j \in DOMAIN a : i < j => Sooner(a[i], a[j])
         /\ \A i \in DOMAIN a : a[i].step \in {"train", "features"} /\ PreparesBoth(calls[a[i].call]) =>
              HasOf(a, a[i].call, "preprocess") /\ HasOf(a, a[i].call, "features")
<1> DEFINE plan == [k \in DOMAIN calls |-> Scripts(calls[k])]
           mark == [k \in DOMAIN calls |-> [call |-> k, goesOn |-> calls[k].goesOn]]
           seqs == [k \in DOMAIN calls |-> [i \in DOMAIN plan[k] |-> With(plan[k][i], mark[k])]]
           Z == UNION {ToSet(seqs[k]) : k \in DOMAIN calls}
           n == Len(calls)
<1>1. a = FlattenSeq(seqs)
  <2>1. FlattenSeq(seqs) = FlattenSeq([k \in DOMAIN calls |->
           [i \in DOMAIN Scripts(calls[k]) |->
             With(Scripts(calls[k])[i], [call |-> k, goesOn |-> calls[k].goesOn])]])
    <3>1. seqs = [k \in DOMAIN calls |->
           [i \in DOMAIN Scripts(calls[k]) |->
             With(Scripts(calls[k])[i], [call |-> k, goesOn |-> calls[k].goesOn])]]
      OBVIOUS
    <3> HIDE DEF seqs
    <3>2. QED
      BY <3>1
  <2>2. QED
    BY <2>1 DEF Agenda
<1>2. n \in Nat /\ DOMAIN calls = 1..n
  BY DEF Listed
<1>3. ASSUME NEW k \in DOMAIN calls
      PROVE  /\ plan[k] \in Seq(ToSet(plan[k])) /\ InOrder(plan[k])
             /\ \A i \in DOMAIN plan[k] :
                  /\ DOMAIN plan[k][i] = {"step", "model"}
                  /\ plan[k][i].step \in {"train", "optimize"} => plan[k][i].model \in ToSet(MODELS)
                  /\ plan[k][i].step \in {"preprocess", "features"} => Prepares(calls[k])
                  /\ plan[k][i].step = "optimize" => ~PreparesBoth(calls[k])
                  /\ plan[k][i].step \in {"train", "features"} /\ PreparesBoth(calls[k]) =>
                       HasStep(plan[k], "preprocess") /\ HasStep(plan[k], "features")
  <2>1. plan[k] = Scripts(calls[k])
    OBVIOUS
  <2> HIDE DEF plan, mark, seqs, Z
  <2>2. QED
    BY <2>1, ScriptsFacts
<1>4. ASSUME NEW k \in DOMAIN calls
      PROVE  /\ DOMAIN seqs[k] = DOMAIN plan[k]
             /\ \A i \in DOMAIN plan[k] :
                  /\ DOMAIN seqs[k][i] = {"step", "model", "call", "goesOn"}
                  /\ seqs[k][i].step = plan[k][i].step /\ seqs[k][i].model = plan[k][i].model
                  /\ seqs[k][i].call = k /\ seqs[k][i].goesOn = calls[k].goesOn
  <2>1. DOMAIN seqs[k] = DOMAIN plan[k] /\ \A i \in DOMAIN plan[k] : seqs[k][i] = With(plan[k][i], mark[k])
    BY <1>3
  <2>2. DOMAIN mark[k] = {"call", "goesOn"} /\ mark[k].call = k /\ mark[k].goesOn = calls[k].goesOn
    OBVIOUS
  <2> HIDE DEF plan, mark, seqs, Z
  <2>3. ASSUME NEW i \in DOMAIN plan[k]
        PROVE  /\ DOMAIN seqs[k][i] = {"step", "model", "call", "goesOn"}
               /\ seqs[k][i].step = plan[k][i].step /\ seqs[k][i].model = plan[k][i].model
               /\ seqs[k][i].call = k /\ seqs[k][i].goesOn = calls[k].goesOn
    <3>1. PICK x : x = plan[k][i]
      OBVIOUS
    <3>2. PICK z : z = mark[k]
      OBVIOUS
    <3>3. PICK y : y = With(x, z)
      OBVIOUS
    <3>4. /\ DOMAIN x = {"step", "model"} /\ seqs[k][i] = y
          /\ DOMAIN z = {"call", "goesOn"} /\ z.call = k /\ z.goesOn = calls[k].goesOn
      BY <1>3, <2>1, <2>2, <3>1, <3>2, <3>3
    <3>5. /\ DOMAIN y = DOMAIN x \cup DOMAIN z
          /\ \A f \in DOMAIN z : y[f] = z[f]
          /\ \A f \in DOMAIN x \ DOMAIN z : y[f] = x[f]
      <4>1. /\ DOMAIN With(x, z) = DOMAIN x \cup DOMAIN z
            /\ \A f \in DOMAIN z : With(x, z)[f] = z[f]
            /\ \A f \in DOMAIN x \ DOMAIN z : With(x, z)[f] = x[f]
        BY ONLY WithFields
      <4>2. QED
        BY <3>3, <4>1
    <3>6. QED
      BY <3>1, <3>4, <3>5
  <2>4. QED
    BY <2>1, <2>3
<1>5. \A k \in DOMAIN calls : seqs[k] \in Seq(Z)
  <2> SUFFICES ASSUME NEW k \in DOMAIN calls PROVE seqs[k] \in Seq(Z)
    OBVIOUS
  <2>1. seqs[k] = [i \in DOMAIN plan[k] |-> seqs[k][i]]
    OBVIOUS
  <2>2. \A i \in DOMAIN plan[k] : seqs[k][i] \in Z
    <3> SUFFICES ASSUME NEW i \in DOMAIN plan[k] PROVE seqs[k][i] \in Z
      OBVIOUS
    <3>1. DOMAIN seqs[k] = DOMAIN plan[k]
      BY <1>4
    <3> HIDE DEF plan, mark, seqs
    <3>2. seqs[k][i] \in ToSet(seqs[k])
      BY <3>1 DEF ToSet
    <3>3. QED
      BY <3>2
  <2>3. DOMAIN plan[k] = 1..Len(plan[k]) /\ Len(plan[k]) \in Nat
    BY <1>3
  <2> HIDE DEF plan, mark, seqs, Z
  <2>4. QED
    BY <2>1, <2>2, <2>3
<1>6. seqs \in Seq(Seq(Z)) /\ Len(seqs) = n
  <2>1. DOMAIN seqs = 1..n /\ seqs = [l \in 1..n |-> seqs[l]]
    BY <1>2
  <2> HIDE DEF plan, mark, seqs, Z
  <2>2. QED
    BY <1>2, <1>5, <2>1
<1> HIDE DEF plan, mark, seqs, Z
<1>7. a \in Seq(Z) /\ From(a, seqs, n) /\ All(a, seqs, n) /\ Ordered(a, seqs, n)
  BY <1>1, <1>6, FlattenFacts
<1>8. Listed(a)
  BY <1>7, ListedSeq
<1>9. ASSUME NEW i \in DOMAIN a
      PROVE  /\ Planned(calls, a[i])
             /\ a[i].step \in {"train", "features"} /\ PreparesBoth(calls[a[i].call]) =>
                  HasOf(a, a[i].call, "preprocess") /\ HasOf(a, a[i].call, "features")
  <2>0. PICK k \in DOMAIN calls : \E m \in DOMAIN seqs[k] : a[i] = seqs[k][m]
    BY <1>2, <1>7 DEF From
  <2>1. PICK m \in DOMAIN seqs[k] : a[i] = seqs[k][m]
    BY <2>0
  <2>2. m \in DOMAIN plan[k]
    BY <1>4, <2>1
  <2>3. /\ DOMAIN a[i] = {"step", "model", "call", "goesOn"}
        /\ a[i].step = plan[k][m].step /\ a[i].model = plan[k][m].model
        /\ a[i].call = k /\ a[i].goesOn = calls[k].goesOn
    BY <1>4, <2>1, <2>2
  <2>4. Planned(calls, a[i])
    BY <1>3, <2>2, <2>3 DEF Planned, IsScript
  <2>5. ASSUME NEW s, HasStep(plan[k], s) PROVE HasOf(a, k, s)
    <3>1. PICK p \in DOMAIN plan[k] : plan[k][p].step = s
      BY <2>5 DEF HasStep
    <3>2. p \in DOMAIN seqs[k] /\ seqs[k][p].step = s /\ seqs[k][p].call = k
      BY <1>4, <3>1
    <3>3. PICK j \in DOMAIN a : a[j] = seqs[k][p]
      BY <1>2, <1>7, <3>2 DEF All
    <3>4. QED
      BY <3>2, <3>3 DEF HasOf
  <2>6. QED
    BY <1>3, <2>2, <2>3, <2>4, <2>5
<1>10. ASSUME NEW i \in DOMAIN a, NEW j \in DOMAIN a, i < j PROVE Sooner(a[i], a[j])
  <2>1. PICK k \in DOMAIN calls, l \in DOMAIN calls : Apart(seqs, a[i], a[j], k, l)
    BY <1>2, <1>7, <1>10 DEF Ordered
  <2>2. PICK m \in DOMAIN seqs[k], p \in DOMAIN seqs[l] :
          a[i] = seqs[k][m] /\ a[j] = seqs[l][p] /\ (k < l \/ (k = l /\ m < p))
    BY <2>1 DEF Apart
  <2>3. /\ m \in DOMAIN plan[k] /\ p \in DOMAIN plan[l]
        /\ a[i].step = plan[k][m].step /\ a[i].call = k
        /\ a[j].step = plan[l][p].step /\ a[j].call = l
    BY <1>4, <2>2
  <2>4. ASSUME k = l, m < p PROVE Earlier(a[i].step, a[j].step)
    BY <1>3, <2>3, <2>4 DEF InOrder
  <2>5. QED
    BY <2>2, <2>3, <2>4 DEF Sooner, Earlier
<1>11. QED
  BY <1>8, <1>9, <1>10

-----------------------------------------------------------------------------
(* The initial states and the steps of the scripts.                        *)

LEMMA EngineInitial == EngineInit => EInv
<1> SUFFICES ASSUME EngineInit PROVE EInv
  OBVIOUS
<1>1. Shapes
  <2>1. experiments = <<>> /\ DOMAIN experiments = {} /\ IsFiniteSet({})
    BY FS_EmptySet DEF EngineInit
  <2>2. experiments = [k \in DOMAIN experiments |-> experiments[k]]
    BY <2>1
  <2>3. QED
    BY <2>1, <2>2 DEF EngineInit, Shapes, Absent
<1>2. AgendasOK
  <2>1. place \in DOMAIN Scenarios /\ agenda = [w \in Workers |-> Agenda(Scenarios[place].calls[w])]
    BY DEF EngineInit, scenario
  <2>2. ASSUME NEW w \in Workers PROVE Listed(agenda[w]) /\ \A n \in DOMAIN agenda[w] : IsScript(agenda[w][n])
    <3> PICK calls : calls = Scenarios[place].calls[w]
      OBVIOUS
    <3> PICK scripts : scripts = Agenda(calls)
      OBVIOUS
    <3>1. Listed(calls)
      BY <2>1, EngineAAssumption
    <3>2. Listed(scripts) /\ \A i \in DOMAIN scripts : Planned(calls, scripts[i])
      BY <3>1, AgendaFacts
    <3>3. agenda[w] = scripts
      BY <2>1
    <3>4. QED
      BY <3>2, <3>3 DEF Planned
  <2>3. QED
    BY <2>1, <2>2 DEF AgendasOK
<1>3. SplitsOK
  BY DEF EngineInit, SplitsOK, Absent
<1>4. \A w \in Workers : job[w] = None
  BY DEF EngineInit
<1>5. \A w \in Workers : ScriptOK(w) /\ SearchOK(w) /\ NameOK(w) /\ CollectedOK(w)
  BY <1>4 DEF ScriptOK, SearchOK, NameOK, CollectedOK
<1>6. DOMAIN experiments = {}
  BY DEF EngineInit
<1>7. OwnersOK /\ NumbersOK /\ (\A k \in DOMAIN experiments : ExperimentOK(k)) /\ ManifestWhole
  BY <1>4, <1>6 DEF OwnersOK, NumbersOK, Readable, ManifestWhole
<1>8. IndexOK /\ StudiesOK
  <2>1. Listed(<<>>) /\ DOMAIN <<>> = {}
    BY DEF Listed, ToSet
  <2>2. QED
    BY <2>1 DEF EngineInit, IndexOK, StudiesOK
<1>9. QED
  BY <1>1, <1>2, <1>3, <1>5, <1>7, <1>8 DEF EInv

\* The next script: its model is one of the models.
LEMMA StartStep ==
  ASSUME EInv, NEW w \in Workers, Start(w)
  PROVE  EInv'
<1> DEFINE item == Head(agenda[w])
           first == [stage |-> FirstStage(item.step), number |-> number', read |-> <<>>, trials |-> <<>>, best |-> 0]
<1>1. Later /\ number' \in 1..number'
  BY DEF EInv, Shapes, Start, Later
<1>2. Listed(agenda[w]) /\ agenda[w] # <<>> /\ \A n \in DOMAIN agenda[w] : IsScript(agenda[w][n])
  BY DEF EInv, AgendasOK, Start
<1>3. /\ IsScript(item)
      /\ Listed(Tail(agenda[w])) /\ \A n \in DOMAIN Tail(agenda[w]) : IsScript(Tail(agenda[w])[n])
  BY <1>2, TailListed
<1>4. AgendasOK'
  <2>1. /\ agenda' = [u \in Workers |-> agenda'[u]] /\ agenda'[w] = Tail(agenda[w])
        /\ \A u \in Workers \ {w} : agenda'[u] = agenda[u]
    BY DEF EInv, AgendasOK, Start
  <2>2. \A u \in Workers : Listed(agenda'[u]) /\ \A n \in DOMAIN agenda'[u] : IsScript(agenda'[u][n])
    BY <1>3, <2>1 DEF EInv, AgendasOK
  <2>3. QED
    BY <2>1, <2>2 DEF AgendasOK, Listed, IsScript
<1>5. job' = [u \in Workers |-> job'[u]] /\ Bystanders(w) /\ job'[w] = With(item, first)
  BY DEF EInv, Shapes, Start, Bystanders
<1>6. /\ DOMAIN job'[w] = Fields
      /\ job'[w].step = item.step /\ job'[w].model = item.model
      /\ job'[w].stage = FirstStage(item.step) /\ job'[w].number = number'
      /\ job'[w].read = <<>> /\ job'[w].trials = <<>> /\ job'[w].best = 0
  <2>1. DOMAIN item = {"step", "model", "call", "goesOn"} /\ DOMAIN first = {"stage", "number", "read", "trials", "best"}
    BY <1>3 DEF IsScript
  <2> HIDE DEF item
  <2>2. /\ DOMAIN With(item, first) = DOMAIN item \cup DOMAIN first
        /\ \A f \in DOMAIN first : With(item, first)[f] = first[f]
        /\ \A f \in DOMAIN item \ DOMAIN first : With(item, first)[f] = item[f]
    BY WithFields
  <2>3. QED
    BY <1>5, <2>1, <2>2 DEF Fields
<1>7. /\ FirstStage(item.step) \in {"load", "read", "collect", "elsewhere"}
      /\ FirstStage(item.step) = "read" => item.step \in {"features", "train", "optimize"}
  BY DEF FirstStage
<1>8. item.step \in {"train", "optimize"} => item.model \in ToSet(MODELS)
  BY <1>3 DEF IsScript
<1> HIDE DEF item
<1>9. Listed(<<>>) /\ Len(<<>>) = 0 /\ DOMAIN <<>> = {} /\ <<>> \in Seq({Missing, 1, 2})
  BY DEF Listed, ToSet
<1>10. job'[w].stage \notin {"name", "select", "trial", "truncate", "fill"} \cup Training \cup ToSet(SplitNames)
  BY <1>6, <1>7 DEF Training, Naming, SplitNames, ToSet
<1>11. ScriptOK(w)'
  BY <1>1, <1>6, <1>7, <1>8, <1>9, <1>10 DEF ScriptOK, Listed
<1>12. SearchOK(w)' /\ NameOK(w)' /\ CollectedOK(w)'
  BY <1>6, <1>9, <1>10 DEF SearchOK, NameOK, CollectedOK, Training
<1>13. FilesOK' /\ UNCHANGED <<experiments, index, studies>>
  BY <1>1, FilesStay DEF Start, stores
<1>14. QED
  BY <1>1, <1>4, <1>5, <1>10, <1>11, <1>12, <1>13, QuietStep DEF WorkerOK, Training

LEMMA RunElsewhereStep ==
  ASSUME EInv, NEW w \in Workers, RunElsewhere(w)
  PROVE  EInv'
<1>1. Later /\ UNCHANGED stores /\ \E code : End(w, code)
  BY DEF EInv, Shapes, RunElsewhere, Later
<1>2. FilesOK'
  BY <1>1, FilesStay DEF stores
<1>3. QED
  BY <1>1, <1>2, EndStep DEF stores

\* A step that names no other script, model, number or trials.
LEMMA GoKept ==
  ASSUME EInv, NEW w \in Workers, job[w] # None, NEW stage, NEW more, Go(w, stage, more), Later,
         {"step", "model", "stage", "number"} \cap DOMAIN more = {}
  PROVE  /\ job'[w].stage = stage /\ job'[w].step = job[w].step
         /\ job'[w].model = job[w].model /\ job'[w].number = job[w].number
         /\ Fields \subseteq DOMAIN job'[w] /\ job'[w].number \in 1..number'
         /\ job'[w].step \in {"train", "optimize"} => job'[w].model \in ToSet(MODELS)
         /\ "read" \notin DOMAIN more => job'[w].read = job[w].read /\ Listed(job'[w].read)
         /\ "trials" \notin DOMAIN more => job'[w].trials = job[w].trials
         /\ "best" \notin DOMAIN more => job'[w].best = job[w].best
<1>1. ScriptOK(w) /\ number \in Nat
  BY DEF EInv, Shapes
<1>2. Fields \subseteq DOMAIN job[w] /\ Listed(job[w].read) /\ job[w].number \in 1..number
      /\ (job[w].step \in {"train", "optimize"} => job[w].model \in ToSet(MODELS))
  BY <1>1 DEF ScriptOK
<1>3. job[w].number \in 1..number'
  BY <1>1, <1>2 DEF Later
<1>4. /\ DOMAIN job'[w] = DOMAIN job[w] \cup DOMAIN more
      /\ job'[w].stage = stage
      /\ \A f \in Fields \ (DOMAIN more \cup {"stage"}) : job'[w][f] = job[w][f]
  BY <1>2, GoFacts DEF Fields
<1>5. QED
  BY <1>2, <1>3, <1>4 DEF Fields

\* The steps of preprocessing.
LEMMA PreparingStep ==
  ASSUME EInv, NEW w \in Workers, job[w] # None, job[w].step = "preprocess", NEW stage, NEW more, Go(w, stage, more), Later,
         {"step", "model", "stage", "number", "read"} \cap DOMAIN more = {}, stage \notin {"read", "trial"} \cup Training,
         UNCHANGED <<experiments, index, studies>>, FilesOK'
  PROVE  EInv'
<1>1. /\ job'[w].stage = stage /\ job'[w].step = "preprocess" /\ Fields \subseteq DOMAIN job'[w]
      /\ job'[w].number \in 1..number' /\ Listed(job'[w].read)
  BY GoKept
<1>2. ScriptOK(w)'
  BY <1>1 DEF ScriptOK, Listed
<1>3. SearchOK(w)' /\ NameOK(w)' /\ CollectedOK(w)'
  BY <1>1 DEF SearchOK, NameOK, CollectedOK, Training
<1>4. QED
  BY <1>1, <1>2, <1>3, GoStep DEF WorkerOK, Training

LEMMA LoadStep ==
  ASSUME EInv, NEW w \in Workers, Load(w)
  PROVE  EInv'
<1>1. job[w] # None /\ job[w].step = "preprocess" /\ Later /\ UNCHANGED stores
  BY SteadyIsLater DEF Load, At
<1>2. FilesOK' /\ UNCHANGED <<experiments, index, studies>>
  BY <1>1, FilesStay DEF stores
<1>3. PICK result : End(w, "failed") \/ Go(w, "train", [result |-> result])
  BY DEF Load
<1>4. CASE End(w, "failed")
  BY <1>1, <1>2, <1>4, EndStep
<1>5. CASE Go(w, "train", [result |-> result])
  <2>1. {"step", "model", "stage", "number", "read"} \cap DOMAIN [result |-> result] = {}
    OBVIOUS
  <2>2. "train" \notin {"read", "trial"} \cup Training
    BY DEF Training, Naming
  <2>3. QED
    BY <1>1, <1>2, <1>5, <2>1, <2>2, PreparingStep
<1>6. QED
  BY <1>3, <1>4, <1>5

LEMMA WriteProcessedSplitStep ==
  ASSUME EInv, NEW w \in Workers, NEW s \in ToSet(SplitNames), WriteProcessedSplit(w, s)
  PROVE  EInv'
<1>1. job[w] # None /\ job[w].step = "preprocess" /\ Later /\ number' = number /\ UNCHANGED <<features, experiments, index, studies>>
  BY SteadyIsLater DEF WriteProcessedSplit, At
<1>2. s \in {"train", "validation", "test"}
  BY DEF ToSet, SplitNames
<1>3. PICK stage \in {"validation", "test", "artefacts"} : Go(w, stage, <<>>)
  <2>1. (IF s = "test" THEN "artefacts" ELSE Following(s)) \in {"validation", "test", "artefacts"}
    BY <1>2 DEF Following
  <2>2. QED
    BY <2>1 DEF WriteProcessedSplit
<1>4. job[w].number \in 1..number
  BY <1>1 DEF EInv, ScriptOK
<1>5. FilesOK'
  BY <1>1, <1>4 DEF EInv, Shapes, FilesOK, SplitsOK, WriteProcessedSplit
<1>6. {"step", "model", "stage", "number", "read"} \cap DOMAIN <<>> = {} /\ stage \notin {"read", "trial"} \cup Training
  BY DEF Training, Naming
<1>7. QED
  BY <1>1, <1>3, <1>5, <1>6, PreparingStep

LEMMA WriteTransformsStep ==
  ASSUME EInv, NEW w \in Workers, WriteTransforms(w)
  PROVE  EInv'
<1>1. Later /\ number' = number /\ UNCHANGED <<features, experiments, index, studies>> /\ End(w, "ok")
  BY SteadyIsLater DEF WriteTransforms
<1>2. "artefacts" \notin ToSet(SplitNames)
  BY DEF ToSet, SplitNames
<1>3. FilesOK'
  BY <1>1, <1>2 DEF EInv, Shapes, FilesOK, SplitsOK, WriteTransforms
<1>4. QED
  BY <1>1, <1>3, EndStep

\* A split is read: feature engineering knows which preprocessing it is of.
LEMMA ReadSplitStep ==
  ASSUME EInv, NEW w \in Workers, ReadSplit(w)
  PROVE  EInv'
<1> DEFINE read == job[w].read
           s == SplitNames[Len(read) + 1]
           file == IF job[w].step = "features" THEN processed[s] ELSE features[s]
           next == IF s # "test" THEN "read"
                   ELSE CASE job[w].step = "features" -> "select"
                          [] job[w].step = "optimize" /\ job[w].best = 0 -> "trial"
                          [] OTHER -> "audit"
           more == [read |-> Append(read, file)]
<1>1. job[w] # None /\ job[w].stage = "read" /\ Later /\ number' = number /\ UNCHANGED stores
  BY SteadyIsLater DEF ReadSplit, InStage
<1>2. FilesOK' /\ UNCHANGED <<experiments, index, studies>>
  BY <1>1, FilesStay DEF stores
<1>3. \/ End(w, "failed")
      \/ Go(w, next, more) /\ (job[w].step = "features" => file \notin {None, Torn})
  BY DEF ReadSplit
<1>4. CASE End(w, "failed")
  BY <1>1, <1>2, <1>4, EndStep
<1>5. CASE Go(w, next, more) /\ (job[w].step = "features" => file \notin {None, Torn})
  <2>1. ScriptOK(w) /\ SearchOK(w) /\ SplitsOK
    BY DEF EInv
  <2>2. Listed(read) /\ job[w].step \in {"features", "train", "optimize"} /\ Len(read) <= 2 /\ Len(read) \in Nat
    BY <1>1, <2>1 DEF ScriptOK, Listed
  <2>3. s \in ToSet(SplitNames) /\ (s = "test" <=> Len(read) = 2)
    <3>1. PICK n \in Nat : n = Len(read)
      BY <2>2
    <3>2. n <= 2
      BY <2>2, <3>1
    <3>3. n = 0 \/ n = 1 \/ n = 2
      BY <3>2
    <3>4. s = SplitNames[n + 1]
      BY <3>1
    <3> HIDE DEF s
    <3>5. s \in ToSet(SplitNames) /\ (s = "test" <=> n = 2)
      BY <3>3, <3>4 DEF SplitNames, ToSet
    <3>6. QED
      BY <3>1, <3>5
  <2>4. job[w].step = "features" => file.number \in 1..number
    BY <1>5, <2>1, <2>3 DEF SplitsOK
  <2>5. job[w].step = "features" => \A i \in DOMAIN read : read[i].number \in 1..number
    BY <1>1, <2>1 DEF ScriptOK
  <2> HIDE DEF read, s, file
  <2>6. /\ Listed(Append(read, file)) /\ Len(Append(read, file)) = Len(read) + 1
        /\ \A i \in DOMAIN Append(read, file) : (i \in DOMAIN read /\ Append(read, file)[i] = read[i]) \/ Append(read, file)[i] = file
    BY <2>2, ListedAppend
  <2>7. /\ next \in {"read", "select", "trial", "audit"}
        /\ next = "read" => Len(read) # 2
        /\ next = "select" => job[w].step = "features" /\ Len(read) = 2
        /\ next = "trial" => job[w].step = "optimize" /\ job[w].best = 0
        /\ next = "audit" => job[w].step \in {"train", "optimize"} /\ (job[w].step = "optimize" => job[w].best # 0)
    BY <2>2, <2>3
  <2> HIDE DEF next
  <2>8. DOMAIN more = {"read"} /\ more.read = Append(read, file)
    OBVIOUS
  <2> HIDE DEF more
  <2>9. /\ job'[w].stage = next /\ job'[w].step = job[w].step
        /\ job'[w].model = job[w].model /\ job'[w].number = job[w].number
        /\ Fields \subseteq DOMAIN job'[w] /\ job'[w].number \in 1..number'
        /\ job'[w].step \in {"train", "optimize"} => job'[w].model \in ToSet(MODELS)
        /\ job'[w].trials = job[w].trials
        /\ job'[w].best = job[w].best
    BY <1>1, <1>5, <2>8, GoKept
  <2>10. job'[w].read = Append(read, file)
    BY <1>1, <1>5, <2>8, GoFacts
  <2>11. next = "read" => Len(Append(read, file)) <= 2
    <3>1. \A n \in Nat : n <= 2 /\ n # 2 => n + 1 <= 2
      OBVIOUS
    <3>2. QED
      BY <2>2, <2>6, <2>7, <3>1
  <2>12. next = "select" => Len(Append(read, file)) = 3
    <3>1. \A n \in Nat : n = 2 => n + 1 = 3
      OBVIOUS
    <3>2. QED
      BY <2>2, <2>6, <2>7, <3>1
  <2>13. job[w].step = "features" => \A i \in DOMAIN Append(read, file) : Append(read, file)[i].number \in 1..number
    BY <2>4, <2>5, <2>6
  <2>14. next \notin {"name"} \cup Naming \cup ToSet(SplitNames) \cup {"truncate", "fill"} /\ (next \in Training => next = "audit")
    BY <2>7 DEF Training, Naming, ToSet, SplitNames
  <2>15. ScriptOK(w)'
    BY <1>1, <2>2, <2>6, <2>7, <2>9, <2>10, <2>11, <2>12, <2>13, <2>14 DEF ScriptOK, Listed
  <2>16. SearchOK(w)'
    BY <1>1, <2>1, <2>7, <2>9, <2>14 DEF SearchOK
  <2>17. NameOK(w)' /\ CollectedOK(w)'
    BY <2>9, <2>14 DEF NameOK, CollectedOK
  <2>18. QED
    BY <1>1, <1>2, <1>5, <2>9, <2>14, <2>15, <2>16, <2>17, GoStep DEF WorkerOK
<1>6. QED
  BY <1>3, <1>4, <1>5

\* The steps of feature engineering once the splits are read.
LEMMA SelectingStep ==
  ASSUME EInv, NEW w \in Workers, job[w] # None, job[w].step = "features", NEW stage, NEW more, Go(w, stage, more), Later,
         {"step", "model", "stage", "number"} \cap DOMAIN more = {}, stage \notin {"read", "select", "trial"} \cup Training,
         "read" \in DOMAIN more => Listed(more.read),
         stage \in ToSet(SplitNames) =>
           "from" \in DOMAIN job'[w] /\ \A s \in ToSet(SplitNames) : job'[w].from[s] \in 1..number',
         UNCHANGED <<experiments, index, studies>>, FilesOK'
  PROVE  EInv'
<1>1. /\ job'[w].stage = stage /\ job'[w].step = "features" /\ Fields \subseteq DOMAIN job'[w]
      /\ job'[w].number \in 1..number'
      /\ "read" \notin DOMAIN more => Listed(job'[w].read)
  BY GoKept
<1>2. "read" \in DOMAIN more => job'[w].read = more.read
  BY GoFacts
<1>3. Listed(job'[w].read)
  BY <1>1, <1>2 DEF Listed
<1>4. ScriptOK(w)'
  BY <1>1, <1>3 DEF ScriptOK, Listed
<1>5. SearchOK(w)' /\ NameOK(w)' /\ CollectedOK(w)'
  BY <1>1 DEF SearchOK, NameOK, CollectedOK, Training
<1>6. QED
  BY <1>1, <1>4, <1>5, GoStep DEF WorkerOK, Training

LEMMA SelectFeaturesStep ==
  ASSUME EInv, NEW w \in Workers, SelectFeatures(w)
  PROVE  EInv'
<1> DEFINE read == job[w].read
           at(s) == CHOOSE i \in 1..3 : SplitNames[i] = s
           from == [s \in ToSet(SplitNames) |-> read[at(s)].number]
<1>1. job[w] # None /\ job[w].step = "features" /\ job[w].stage = "select" /\ Later /\ number' = number /\ UNCHANGED stores
  BY SteadyIsLater DEF SelectFeatures, At
<1>2. FilesOK' /\ UNCHANGED <<experiments, index, studies>>
  BY <1>1, FilesStay DEF stores
<1>3. PICK result : End(w, "failed") \/ Go(w, "train", [result |-> result, read |-> <<>>, from |-> from])
  BY DEF SelectFeatures
<1>4. CASE End(w, "failed")
  BY <1>1, <1>2, <1>4, EndStep
<1>5. CASE Go(w, "train", [result |-> result, read |-> <<>>, from |-> from])
  <2>1. Listed(read) /\ Len(read) = 3 /\ \A i \in DOMAIN read : read[i].number \in 1..number
    BY <1>1 DEF EInv, ScriptOK
  <2>2. DOMAIN read = 1..3
    BY <2>1 DEF Listed
  <2>3. \A s \in ToSet(SplitNames) : at(s) \in 1..3
    BY DEF ToSet, SplitNames
  <2>4. \A s \in ToSet(SplitNames) : from[s] \in 1..number
    BY <2>1, <2>2, <2>3
  <2> HIDE DEF from
  <2> DEFINE more == [result |-> result, read |-> <<>>, from |-> from]
  <2>5. DOMAIN more = {"result", "read", "from"} /\ more.read = <<>> /\ more.from = from
    OBVIOUS
  <2>6. Go(w, "train", more)
    BY <1>5
  <2> HIDE DEF more
  <2>7. "from" \in DOMAIN job'[w] /\ job'[w].from = from
    BY <1>1, <2>5, <2>6, GoFacts
  <2>8. Listed(<<>>) /\ "train" \notin {"read", "select", "trial"} \cup Training
    BY DEF Listed, ToSet, Training, Naming
  <2>9. QED
    BY <1>1, <1>2, <2>4, <2>5, <2>6, <2>7, <2>8, SelectingStep
<1>6. QED
  BY <1>3, <1>4, <1>5

LEMMA WriteFeatureSplitStep ==
  ASSUME EInv, NEW w \in Workers, NEW s \in ToSet(SplitNames), WriteFeatureSplit(w, s)
  PROVE  EInv'
<1>1. /\ job[w] # None /\ job[w].step = "features" /\ job[w].stage = s /\ Later /\ number' = number
      /\ UNCHANGED <<processed, experiments, index, studies>> /\ Go(w, Following(s), <<>>)
  BY SteadyIsLater DEF WriteFeatureSplit, At
<1>2. Following(s) \in {"validation", "test", "metadata"}
  BY DEF ToSet, SplitNames, Following
<1>3. "from" \in DOMAIN job[w] /\ \A t \in ToSet(SplitNames) : job[w].from[t] \in 1..number
  BY <1>1 DEF EInv, ScriptOK
<1>4. "from" \in DOMAIN job'[w] /\ job'[w].from = job[w].from
  <2>1. DOMAIN <<>> = {}
    OBVIOUS
  <2>2. QED
    BY <1>1, <1>3, <2>1, GoFacts
<1>5. FilesOK'
  BY <1>1, <1>3 DEF EInv, Shapes, FilesOK, SplitsOK, WriteFeatureSplit
<1>6. {"step", "model", "stage", "number", "read"} \cap DOMAIN <<>> = {} /\ Following(s) \notin {"read", "select", "trial"} \cup Training
  BY <1>2 DEF Training, Naming
<1>7. QED
  BY <1>1, <1>3, <1>4, <1>5, <1>6, SelectingStep

LEMMA WriteMetadataStep ==
  ASSUME EInv, NEW w \in Workers, WriteMetadata(w)
  PROVE  EInv'
<1>1. /\ job[w] # None /\ job[w].step = "features" /\ Later /\ number' = number
      /\ UNCHANGED <<processed, experiments, index, studies>> /\ Go(w, "artefacts", <<>>)
  BY SteadyIsLater DEF WriteMetadata, At
<1>2. "metadata" \notin ToSet(SplitNames) /\ "artefacts" \notin ToSet(SplitNames)
  BY DEF ToSet, SplitNames
<1>3. FilesOK'
  BY <1>1, <1>2 DEF EInv, Shapes, FilesOK, SplitsOK, WriteMetadata
<1>4. {"step", "model", "stage", "number", "read"} \cap DOMAIN <<>> = {} /\ "artefacts" \notin {"read", "select", "trial"} \cup Training
  BY DEF Training, Naming
<1>5. QED
  BY <1>1, <1>2, <1>3, <1>4, SelectingStep

LEMMA WriteSelectorStep ==
  ASSUME EInv, NEW w \in Workers, WriteSelector(w)
  PROVE  EInv'
<1>1. Later /\ number' = number /\ UNCHANGED <<processed, experiments, index, studies>> /\ End(w, "ok")
  BY SteadyIsLater DEF WriteSelector
<1>2. "artefacts" \notin ToSet(SplitNames)
  BY DEF ToSet, SplitNames
<1>3. FilesOK'
  BY <1>1, <1>2 DEF EInv, Shapes, FilesOK, SplitsOK, WriteSelector
<1>4. QED
  BY <1>1, <1>3, EndStep

\* The audit, and the fit that remembers the trial.
LEMMA AuditStep ==
  ASSUME EInv, NEW w \in Workers, Audit(w)
  PROVE  EInv'
<1>1. job[w] # None /\ job[w].stage = "audit" /\ Later /\ UNCHANGED stores
  BY SteadyIsLater DEF Audit, InStage
<1>2. FilesOK' /\ UNCHANGED <<experiments, index, studies>>
  BY <1>1, FilesStay DEF stores
<1>3. PICK expected : End(w, "failed") \/ Go(w, "fit", [expected |-> expected])
  BY DEF Audit
<1>4. CASE End(w, "failed")
  BY <1>1, <1>2, <1>4, EndStep
<1>5. CASE Go(w, "fit", [expected |-> expected])
  <2> DEFINE more == [expected |-> expected]
  <2>1. DOMAIN more = {"expected"} /\ Go(w, "fit", more)
    BY <1>5
  <2> HIDE DEF more
  <2>2. /\ job'[w].stage = "fit" /\ job'[w].step = job[w].step
        /\ Fields \subseteq DOMAIN job'[w] /\ job'[w].number \in 1..number'
        /\ job'[w].step \in {"train", "optimize"} => job'[w].model \in ToSet(MODELS)
        /\ job'[w].read = job[w].read /\ Listed(job'[w].read)
        /\ job'[w].trials = job[w].trials /\ job'[w].best = job[w].best
    BY <1>1, <2>1, GoKept
  <2>3. "audit" \in Training /\ "fit" \notin {"name"} \cup Naming
    BY DEF Training, Naming
  <2>4. ScriptOK(w) /\ SearchOK(w) /\ job[w].step \in {"train", "optimize"}
    BY <1>1, <2>3 DEF EInv, ScriptOK
  <2>5. ScriptOK(w)'
    BY <2>2, <2>4 DEF ScriptOK, Listed
  <2>6. SearchOK(w)'
    BY <1>1, <2>2, <2>3, <2>4 DEF SearchOK
  <2>7. NameOK(w)' /\ CollectedOK(w)'
    BY <2>2, <2>3 DEF NameOK, CollectedOK
  <2>8. QED
    BY <1>1, <1>2, <2>1, <2>2, <2>3, <2>5, <2>6, <2>7, GoStep DEF WorkerOK
<1>6. QED
  BY <1>3, <1>4, <1>5

LEMMA FitStep ==
  ASSUME EInv, NEW w \in Workers, Fit(w)
  PROVE  EInv'
<1>1. job[w] # None /\ job[w].stage = "fit" /\ Later /\ UNCHANGED stores
  BY SteadyIsLater DEF Fit, InStage
<1>2. FilesOK' /\ UNCHANGED <<experiments, index, studies>>
  BY <1>1, FilesStay DEF stores
<1>3. PICK losses, content : /\ Go(w, "name", [read |-> <<>>, losses |-> losses, content |-> content])
                             /\ content.trial = job[w].best
  <2> DEFINE known == {i \in 1..3 : job[w].read[i] # None}
             learned(losses) == [ by |-> job[w].number, from |-> {job[w].read[i].number : i \in known},
                                  columns |-> FeatureColumns(job[w].read[1].frame), trial |-> job[w].best,
                                  loop |-> TrainLoop(losses) ]
  <2>1. PICK losses : Go(w, "name", [read |-> <<>>, losses |-> losses, content |-> learned(losses)])
    BY Zenon DEF Fit
  <2>2. learned(losses).trial = job[w].best
    OBVIOUS
  <2> HIDE DEF learned
  <2>3. QED
    BY <2>1, <2>2
<1> DEFINE more == [read |-> <<>>, losses |-> losses, content |-> content]
<1>4. DOMAIN more = {"read", "losses", "content"} /\ more.read = <<>> /\ more.content = content /\ Go(w, "name", more)
  BY <1>3
<1> HIDE DEF more
<1>5. /\ job'[w].stage = "name" /\ job'[w].step = job[w].step
      /\ Fields \subseteq DOMAIN job'[w] /\ job'[w].number \in 1..number'
      /\ job'[w].step \in {"train", "optimize"} => job'[w].model \in ToSet(MODELS)
      /\ job'[w].trials = job[w].trials /\ job'[w].best = job[w].best
  BY <1>1, <1>4, GoKept
<1>6. job'[w].read = <<>> /\ "content" \in DOMAIN job'[w] /\ job'[w].content = content
  BY <1>1, <1>4, GoFacts
<1>7. "fit" \in Training /\ "name" \notin Naming /\ Listed(<<>>)
  BY DEF Training, Naming, Listed, ToSet
<1>8. ScriptOK(w) /\ SearchOK(w) /\ job[w].step \in {"train", "optimize"}
  BY <1>1, <1>7 DEF EInv, ScriptOK
<1>9. ScriptOK(w)'
  BY <1>5, <1>6, <1>7, <1>8 DEF ScriptOK, Listed
<1>10. SearchOK(w)'
  BY <1>1, <1>3, <1>5, <1>6, <1>7, <1>8 DEF SearchOK
<1>11. NameOK(w)' /\ CollectedOK(w)'
  BY <1>5, <1>7 DEF NameOK, CollectedOK
<1>12. QED
  BY <1>1, <1>2, <1>4, <1>5, <1>7, <1>9, <1>10, <1>11, GoStep DEF WorkerOK

\* A trial, and the training with the parameters of the best one.
LEMMA RunTrialStep ==
  ASSUME EInv, NEW w \in Workers, RunTrial(w)
  PROVE  EInv'
<1>1. job[w] # None /\ job[w].step = "optimize" /\ job[w].stage = "trial" /\ Later /\ UNCHANGED stores
  BY SteadyIsLater DEF RunTrial, At
<1>2. FilesOK' /\ UNCHANGED <<experiments, index, studies>>
  BY <1>1, FilesStay DEF stores
<1>3. End(w, "failed") \/ \E value \in {Missing, 1, 2} : Go(w, "trial", [trials |-> Append(job[w].trials, value)])
  BY DEF RunTrial
<1>4. CASE End(w, "failed")
  BY <1>1, <1>2, <1>4, EndStep
<1>5. ASSUME NEW value \in {Missing, 1, 2}, Go(w, "trial", [trials |-> Append(job[w].trials, value)])
      PROVE  EInv'
  <2> DEFINE more == [trials |-> Append(job[w].trials, value)]
  <2>1. DOMAIN more = {"trials"} /\ more.trials = Append(job[w].trials, value) /\ Go(w, "trial", more)
    BY <1>5
  <2> HIDE DEF more
  <2>2. /\ job'[w].stage = "trial" /\ job'[w].step = job[w].step
        /\ Fields \subseteq DOMAIN job'[w] /\ job'[w].number \in 1..number'
        /\ job'[w].step \in {"train", "optimize"} => job'[w].model \in ToSet(MODELS)
        /\ job'[w].read = job[w].read /\ Listed(job'[w].read)
        /\ job'[w].best = job[w].best
    BY <1>1, <2>1, GoKept
  <2>3. job'[w].trials = Append(job[w].trials, value)
    BY <1>1, <2>1, GoFacts
  <2>4. "trial" \notin {"name"} \cup Training
    BY DEF Training, Naming
  <2>5. ScriptOK(w) /\ SearchOK(w)
    BY DEF EInv
  <2>6. job'[w].trials \in Seq({Missing, 1, 2}) /\ job[w].best = 0
    BY <1>1, <2>3, <2>5 DEF SearchOK
  <2>7. ScriptOK(w)'
    BY <1>1, <2>2, <2>4, <2>5 DEF ScriptOK, Listed
  <2>8. SearchOK(w)'
    BY <1>1, <2>2, <2>4, <2>6 DEF SearchOK, Training
  <2>9. NameOK(w)' /\ CollectedOK(w)'
    BY <2>2, <2>4 DEF NameOK, CollectedOK, Training
  <2>10. QED
    BY <1>1, <1>2, <2>1, <2>2, <2>4, <2>7, <2>8, <2>9, GoStep DEF WorkerOK, Training
<1>6. QED
  BY <1>3, <1>4, <1>5

LEMMA TrainFinalModelStep ==
  ASSUME EInv, NEW w \in Workers, TrainFinalModel(w)
  PROVE  EInv'
<1> DEFINE trials == job[w].trials
<1>1. /\ job[w] # None /\ job[w].step = "optimize" /\ job[w].stage = "trial" /\ Len(trials) = NTrials
      /\ Later /\ UNCHANGED stores
  BY SteadyIsLater DEF TrainFinalModel, At
<1>2. FilesOK' /\ UNCHANGED <<experiments, index, studies>>
  BY <1>1, FilesStay DEF stores
<1>3. \/ End(w, "failed")
      \/ ToSet(trials) # {Missing} /\ Go(w, "read", [read |-> <<>>, best |-> BestTrial(trials)])
  BY DEF TrainFinalModel
<1>4. CASE End(w, "failed")
  BY <1>1, <1>2, <1>4, EndStep
<1>5. CASE ToSet(trials) # {Missing} /\ Go(w, "read", [read |-> <<>>, best |-> BestTrial(trials)])
  <2> DEFINE more == [read |-> <<>>, best |-> BestTrial(trials)]
  <2>1. DOMAIN more = {"read", "best"} /\ more.read = <<>> /\ more.best = BestTrial(trials) /\ Go(w, "read", more)
    BY <1>5
  <2> HIDE DEF more
  <2>2. /\ job'[w].stage = "read" /\ job'[w].step = job[w].step
        /\ Fields \subseteq DOMAIN job'[w] /\ job'[w].number \in 1..number'
        /\ job'[w].step \in {"train", "optimize"} => job'[w].model \in ToSet(MODELS)
        /\ job'[w].trials = trials
    BY <1>1, <2>1, GoKept
  <2>3. job'[w].read = <<>> /\ job'[w].best = BestTrial(trials)
    BY <1>1, <2>1, GoFacts
  <2>4. "read" \notin {"name"} \cup Training /\ Listed(<<>>) /\ Len(<<>>) = 0
    BY DEF Training, Naming, Listed, ToSet
  <2>5. ScriptOK(w) /\ SearchOK(w)
    BY DEF EInv
  <2>6. trials \in Seq({Missing, 1, 2}) /\ NTrials # 0
    BY <1>1, <2>5, EngineAAssumption DEF SearchOK
  <2>7. IsBest(trials, BestTrial(trials)) /\ BestTrial(trials) # 0
    BY <1>1, <1>5, <2>6, BestTrialIsBest
  <2>8. ScriptOK(w)'
    BY <1>1, <2>2, <2>3, <2>4, <2>5 DEF ScriptOK, Listed
  <2>9. SearchOK(w)'
    BY <1>1, <2>2, <2>3, <2>4, <2>6, <2>7 DEF SearchOK, Training
  <2>10. NameOK(w)' /\ CollectedOK(w)'
    BY <2>2, <2>4 DEF NameOK, CollectedOK, Training
  <2>11. QED
    BY <1>1, <1>2, <2>1, <2>2, <2>4, <2>8, <2>9, <2>10, GoStep DEF WorkerOK, Training
<1>6. QED
  BY <1>3, <1>4, <1>5

\* A name is chosen: it is free, and the number is a new one.
LEMMA NameExperimentStep ==
  ASSUME EInv, NEW w \in Workers, NameExperiment(w)
  PROVE  EInv'
<1> DEFINE key == FreeName(job[w].model, second')
           more == [key |-> key, created |-> number']
<1>1. /\ job[w] # None /\ job[w].stage = "name" /\ number' = number + 1
      /\ place' = place /\ UNCHANGED stores /\ Go(w, "mkdir", more)
  BY DEF NameExperiment, InStage
<1>2. Later /\ number' \in 1..number' /\ second' \in 0..second'
  <2>1. number \in Nat /\ second \in Nat /\ scenario.limits.seconds \in Nat
    BY EngineAAssumption DEF EInv, Shapes, scenario
  <2>2. second' \in second..scenario.limits.seconds
    BY DEF NameExperiment
  <2>3. second' \in Nat /\ second <= second'
    BY <2>1, <2>2
  <2>4. QED
    BY <1>1, <2>1, <2>3 DEF Later
<1>3. FilesOK' /\ UNCHANGED <<experiments, index, studies>>
  BY <1>1, <1>2, FilesStay DEF stores
<1>4. key \notin DOMAIN experiments /\ key[1] = job[w].model /\ key[2] = second'
  BY FreeNameFree DEF EInv
<1>5. DOMAIN more = {"key", "created"} /\ more.key = key /\ more.created = number'
  OBVIOUS
<1> HIDE DEF more, key
<1>6. agenda' = agenda /\ job' = [u \in Workers |-> job'[u]] /\ Bystanders(w)
      /\ DOMAIN job'[w] = DOMAIN job[w] \cup DOMAIN more
      /\ job'[w].key = key /\ job'[w].created = number'
      /\ \A f \in DOMAIN job[w] \ (DOMAIN more \cup {"stage"}) : job'[w][f] = job[w][f]
  BY <1>1, <1>5, GoFacts
<1>7. /\ job'[w].stage = "mkdir" /\ job'[w].step = job[w].step /\ job'[w].model = job[w].model
      /\ Fields \subseteq DOMAIN job'[w] /\ job'[w].number \in 1..number'
      /\ job'[w].step \in {"train", "optimize"} => job'[w].model \in ToSet(MODELS)
      /\ job'[w].read = job[w].read /\ Listed(job'[w].read)
      /\ job'[w].trials = job[w].trials /\ job'[w].best = job[w].best
  BY <1>1, <1>2, <1>5, GoKept
<1>8. ScriptOK(w) /\ SearchOK(w) /\ job[w].step \in {"train", "optimize"} /\ job[w].model \in ToSet(MODELS)
  <2>1. "name" \in Training
    BY DEF Training
  <2>2. QED
    BY <1>1, <2>1 DEF EInv, ScriptOK
<1>9. "content" \in DOMAIN job'[w] /\ job'[w].content.trial = job'[w].best
  <2>1. "content" \in DOMAIN job[w] /\ job[w].content.trial = job[w].best
    BY <1>1, <1>8 DEF SearchOK
  <2>2. QED
    BY <1>5, <1>6, <1>7, <2>1
<1>10. ScriptOK(w)'
  BY <1>7, <1>8 DEF ScriptOK, Listed
<1>11. SearchOK(w)'
  BY <1>1, <1>7, <1>8, <1>9 DEF SearchOK, Training
<1>12. NameOK(w)'
  BY <1>2, <1>3, <1>4, <1>5, <1>6, <1>7, <1>8 DEF NameOK, Owning, Naming
<1>13. CollectedOK(w)'
  BY <1>7, <1>8 DEF CollectedOK
<1>14. Grown
  BY <1>3 DEF Grown
<1>15. /\ OwnersOK' /\ ManifestWhole' /\ \A k \in DOMAIN experiments' : ExperimentOK(k)'
       /\ \A study : StudyOK(study) => StudyOK(study)'
  BY <1>2, <1>3, <1>6, <1>7, QuietStore DEF Owning
<1>16. NumbersOK'
  <2>1. NumbersOK /\ number \in Nat
    BY DEF EInv, Shapes
  <2>2. \A u \in Workers : job[u] # None /\ job[u].stage \in Naming => job[u].created \in 1..number
    BY DEF EInv, NameOK
  <2>3. \A k \in Readable : experiments[k].manifest.created \in 1..number
    BY DEF EInv, ExperimentOK, Readable
  <2>4. \A n \in 1..number : n # number'
    BY <1>1, <2>1
  <2>5. Readable' = Readable /\ experiments' = experiments
    BY <1>3 DEF Readable
  <2>6. \A u \in Workers \ {w} : job'[u] = job[u]
    BY <1>6 DEF Bystanders
  <2>7. ASSUME NEW u \in Workers, NEW v \in Workers, u # v,
               job'[u] # None /\ job'[u].stage \in Naming, job'[v] # None /\ job'[v].stage \in Naming,
               job'[u].created = job'[v].created
        PROVE  FALSE
    <3>1. CASE u = w
      BY <1>6, <2>2, <2>4, <2>6, <2>7, <3>1
    <3>2. CASE v = w
      BY <1>6, <2>2, <2>4, <2>6, <2>7, <3>2
    <3>3. CASE u # w /\ v # w
      BY <2>1, <2>6, <2>7, <3>3 DEF NumbersOK
    <3>4. QED
      BY <3>1, <3>2, <3>3
  <2>8. ASSUME NEW u \in Workers, NEW k \in Readable', job'[u] # None /\ job'[u].stage \in Naming,
               experiments'[k].manifest.created = job'[u].created
        PROVE  job'[u].key = k
    <3>1. u # w
      BY <1>6, <2>3, <2>4, <2>5, <2>8
    <3>2. QED
      BY <2>1, <2>5, <2>6, <2>8, <3>1 DEF NumbersOK
  <2>9. QED
    BY <2>1, <2>5, <2>7, <2>8 DEF NumbersOK
<1>17. IndexOK' /\ StudiesOK'
  <2>1. IndexOK /\ StudiesOK
    BY DEF EInv
  <2>2. IndexOK'
    BY <1>3, <2>1 DEF IndexOK, Listed, Described
  <2>3. ASSUME NEW i \in DOMAIN studies PROVE StudyOK(studies[i])'
    <3>1. PICK study : study = studies[i]
      OBVIOUS
    <3>2. StudyOK(study)'
      BY <1>15, <2>1, <3>1 DEF StudiesOK
    <3>3. QED
      BY <1>3, <3>1, <3>2 DEF StudyOK
  <2>4. QED
    BY <1>3, <2>1, <2>2, <2>3 DEF StudiesOK, Listed
<1>18. AgendasOK'
  BY <1>6 DEF EInv, AgendasOK, Listed, IsScript
<1>19. experiments' = [k \in DOMAIN experiments' |-> experiments'[k]] /\ IsFiniteSet(DOMAIN experiments')
  BY <1>3 DEF EInv, Shapes
<1>20. WorkerOK(w)'
  BY <1>10, <1>11, <1>12, <1>13 DEF WorkerOK
<1>21. QED
  BY <1>2, <1>3, <1>6, <1>14, <1>15, <1>16, <1>17, <1>18, <1>19, <1>20, WorkerStep

\* After its manifest a training looks at the index, appends its row and leaves.
LEMMA ToldStep ==
  ASSUME EInv, NEW w \in Workers, job[w] # None, job[w].stage \in Told, NEW stage \in Told, NEW more, Go(w, stage, more),
         DOMAIN more \subseteq {"header"}, stage = "row" => "header" \in DOMAIN job'[w] /\ job'[w].header \in Seq({Header}),
         Later, UNCHANGED <<processed, features, experiments, studies>>, index' = index \/ IndexOK'
  PROVE  EInv' /\ \A f \in {"key", "created", "content"} : f \in DOMAIN job'[w] /\ job'[w][f] = job[w][f]
<1>1. Told \subseteq Naming /\ Told \subseteq Training /\ Told \subseteq Owning
  BY DEF Told, Naming, Training, Owning
<1>2. ScriptOK(w) /\ SearchOK(w) /\ NameOK(w) /\ number \in Nat /\ second \in Nat
  BY DEF EInv, Shapes
<1>3. job[w].step \in {"train", "optimize"}
  BY <1>1, <1>2 DEF ScriptOK
<1>4. {"step", "model", "stage", "number", "read", "trials", "best"} \cap DOMAIN more = {}
  OBVIOUS
<1>5. /\ job'[w].stage = stage /\ job'[w].step = job[w].step
      /\ job'[w].model = job[w].model /\ job'[w].number = job[w].number
      /\ Fields \subseteq DOMAIN job'[w] /\ job'[w].number \in 1..number'
      /\ job'[w].step \in {"train", "optimize"} => job'[w].model \in ToSet(MODELS)
      /\ job'[w].read = job[w].read /\ Listed(job'[w].read)
      /\ job'[w].trials = job[w].trials /\ job'[w].best = job[w].best
  BY <1>4, GoKept
<1>6. {"key", "created", "content"} \subseteq DOMAIN job[w]
  BY <1>1, <1>2 DEF NameOK, SearchOK
<1>7. \A f \in {"key", "created", "content"} : f \in DOMAIN job'[w] /\ job'[w][f] = job[w][f]
  <2>1. /\ DOMAIN job'[w] = DOMAIN job[w] \cup DOMAIN more
        /\ \A f \in DOMAIN job[w] \ (DOMAIN more \cup {"stage"}) : job'[w][f] = job[w][f]
    BY GoFacts
  <2>2. QED
    BY <1>6, <2>1
<1>8. stage \notin {"read", "trial", "select"} \cup ToSet(SplitNames)
  BY DEF Told, ToSet, SplitNames
<1>9. ScriptOK(w)'
  BY <1>3, <1>5, <1>8 DEF ScriptOK, Listed
<1>10. SearchOK(w)'
  <2>1. job[w].stage \in Training /\ job[w].stage \in Naming
    BY <1>1
  <2>2. job[w].step = "optimize" => job[w].trials \in Seq({Missing, 1, 2}) /\ IsBest(job[w].trials, job[w].best) /\ job[w].best # 0
    BY <1>2, <2>1 DEF SearchOK
  <2>3. job[w].content.trial = job[w].best
    BY <1>2, <2>1 DEF SearchOK
  <2>4. QED
    BY <1>5, <1>7, <1>8, <2>2, <2>3 DEF SearchOK
<1>11. NameOK(w)'
  <2>1. /\ job[w].created \in 1..number
        /\ job[w].key[1] \in ToSet(MODELS) /\ job[w].key[2] \in 0..second
        /\ job[w].key \in DOMAIN experiments /\ job[w].created <= experiments[job[w].key].born
        /\ experiments[job[w].key].manifest # None
    BY <1>1, <1>2 DEF NameOK, Told
  <2>2. job[w].created \in 1..number' /\ job[w].key[2] \in 0..second'
    BY <1>2, <2>1 DEF Later
  <2>3. QED
    BY <1>5, <1>7, <2>1, <2>2 DEF NameOK
<1>12. CollectedOK(w)'
  BY <1>3, <1>5 DEF CollectedOK
<1>13. job'[w] = None \/ Passes(w)
  BY <1>5, <1>7 DEF Passes
<1>14. FilesOK'
  BY FilesStay
<1>15. QED
  BY <1>5, <1>7, <1>9, <1>10, <1>11, <1>12, <1>13, <1>14, GoStep DEF WorkerOK

LEMMA LookAtIndexStep ==
  ASSUME EInv, NEW w \in Workers, LookAtIndex(w)
  PROVE  EInv'
<1> DEFINE header == IF index = None THEN <<Header>> ELSE <<>>
           more == [header |-> header]
<1>1. job[w] # None /\ job[w].stage = "look" /\ Later /\ UNCHANGED stores /\ Go(w, "row", more)
  BY SteadyIsLater DEF LookAtIndex, InStage
<1>2. header \in Seq({Header})
  <2>1. <<Header>> \in Seq({Header}) /\ <<>> \in Seq({Header})
    OBVIOUS
  <2>2. QED
    BY <2>1
<1>3. DOMAIN more = {"header"} /\ more.header = header
  OBVIOUS
<1> HIDE DEF header, more
<1>4. "header" \in DOMAIN job'[w] /\ job'[w].header \in Seq({Header})
  BY <1>1, <1>2, <1>3, GoFacts
<1>5. job[w].stage \in Told /\ "row" \in Told
  BY <1>1 DEF Told
<1>6. DOMAIN more \subseteq {"header"} /\ UNCHANGED <<processed, features, experiments, studies>> /\ index' = index
  BY <1>1, <1>3 DEF stores
<1>7. QED
  BY <1>1, <1>4, <1>5, <1>6, ToldStep

\* The row of a training speaks of its own directory, which has a manifest.
LEMMA AppendRowStep ==
  ASSUME EInv, NEW w \in Workers, AppendRow(w)
  PROVE  EInv'
<1>1. /\ job[w] # None /\ job[w].stage = "row" /\ Later
      /\ UNCHANGED <<processed, features, experiments, studies>>
  BY DEF AppendRow, InStage, EInv, Shapes, Later
<1>2. FilesOK'
  BY <1>1, FilesStay
<1>3. index' = index \/ IndexOK'
  <2>1. SUFFICES ASSUME index' = (IF index = None THEN <<>> ELSE index) \o job[w].header \o <<Row(Manifest(w))>>
                 PROVE  IndexOK'
    BY DEF AppendRow
  <2> PICK old : old = IF index = None THEN <<>> ELSE index
    OBVIOUS
  <2> PICK header : header = job[w].header
    OBVIOUS
  <2> PICK row : row = Row(Manifest(w))
    OBVIOUS
  <2>2. "row" \in Naming /\ "row" \in Owning
    BY DEF Naming, Owning
  <2>3. /\ job[w].header \in Seq({Header}) /\ job[w].key \in DOMAIN experiments
        /\ experiments[job[w].key].manifest # None
    BY <1>1, <2>2 DEF EInv, NameOK
  <2>4. Described(row)
    BY <2>3 DEF Described, Row, Manifest
  <2>5. Listed(old) /\ \A i \in DOMAIN old : Described(old[i])
    <3>1. Listed(<<>>) /\ DOMAIN <<>> = {}
      BY DEF Listed, ToSet
    <3>2. index # None => Listed(index) /\ \A i \in DOMAIN index : Described(index[i])
      BY DEF EInv, IndexOK
    <3>3. QED
      BY <3>1, <3>2
  <2>6. Listed(header) /\ \A i \in DOMAIN header : Described(header[i])
    <3>1. Listed(header)
      BY <2>3, ListedSeq
    <3>2. \A i \in DOMAIN header : header[i] = Header
      BY <2>3
    <3>3. QED
      BY <3>1, <3>2 DEF Described
  <2>7. Listed(<<row>>) /\ \A i \in DOMAIN <<row>> : Described(<<row>>[i])
    <3>1. <<row>> \in Seq({row}) /\ \A i \in DOMAIN <<row>> : <<row>>[i] = row
      OBVIOUS
    <3>2. QED
      BY <2>4, <3>1, ListedSeq
  <2>8. PICK both : both = old \o header
    OBVIOUS
  <2>9. Listed(both) /\ \A i \in DOMAIN both : Described(both[i])
    <3>0. Listed(old) /\ Listed(header)
      BY <2>5, <2>6
    <3>1. Listed(old \o header)
      BY ONLY <3>0, ListedConcat
    <3>2. ASSUME NEW i \in DOMAIN (old \o header)
          PROVE  (i \in DOMAIN old /\ (old \o header)[i] = old[i]) \/ \E j \in DOMAIN header : (old \o header)[i] = header[j]
      BY ONLY <3>0, <3>2, ListedConcat
    <3>3. QED
      BY <2>5, <2>6, <2>8, <3>1, <3>2
  <2>10. Listed(both \o <<row>>) /\ \A i \in DOMAIN (both \o <<row>>) : Described((both \o <<row>>)[i])
    <3>1. /\ Listed(both \o <<row>>)
          /\ \A i \in DOMAIN (both \o <<row>>) :
               \/ i \in DOMAIN both /\ (both \o <<row>>)[i] = both[i]
               \/ \E j \in DOMAIN <<row>> : (both \o <<row>>)[i] = <<row>>[j]
      BY <2>7, <2>9, ListedConcat
    <3>2. QED
      BY <2>7, <2>9, <3>1
  <2>11. QED
    BY <1>1, <2>1, <2>8, <2>10 DEF IndexOK, Listed, Described
<1>4. CASE End(w, "ok")
  BY <1>1, <1>2, <1>3, <1>4, EndStep
<1>5. CASE Go(w, "summary", <<>>)
  <2>1. job[w].stage \in Told /\ "summary" \in Told /\ DOMAIN <<>> \subseteq {"header"} /\ "summary" # "row"
    BY <1>1 DEF Told
  <2>2. QED
    BY <1>1, <1>3, <1>5, <2>1, ToldStep
<1>6. QED
  BY <1>4, <1>5 DEF AppendRow, Finish

\* The study names the directory it has written, with its best trial.
LEMMA WriteStudyStep ==
  ASSUME EInv, NEW w \in Workers, WriteStudy(w)
  PROVE  EInv'
<1> PICK key : key = job[w].key
  OBVIOUS
<1> PICK study : study = [number |-> job[w].number, trials |-> job[w].trials, best |-> job[w].best, experiment |-> key]
  OBVIOUS
<1>1. /\ job[w] # None /\ job[w].step = "optimize" /\ job[w].stage = "summary" /\ Later /\ End(w, "ok")
      /\ UNCHANGED <<processed, features, experiments, index>> /\ studies' = Append(studies, study)
  BY SteadyIsLater DEF WriteStudy, At
<1>2. FilesOK'
  BY <1>1, FilesStay
<1>3. Bystanders(w) /\ job'[w] = None
  BY <1>1, EndFacts
<1>4. \A old : StudyOK(old) => StudyOK(old)'
  BY <1>1, <1>3, QuietStore
<1>5. StudyOK(study)'
  <2>1. "summary" \in Training /\ "summary" \in Naming /\ "summary" \in Owning
    BY DEF Training, Naming, Owning
  <2>2. key \in DOMAIN experiments
    BY <1>1, <2>1 DEF EInv, NameOK
  <2>3. /\ IsBest(job[w].trials, job[w].best)
        /\ job[w].content.trial = job[w].best
    BY <1>1, <2>1 DEF EInv, SearchOK
  <2>4. ASSUME experiments[key].makers = 1
        PROVE  /\ \A u \in Workers : ~Owner(u, key)'
               /\ IsBest(study.trials, experiments[key].model.trial)
               /\ experiments[key].manifest.study = study.number
               /\ experiments[key].manifest.content = experiments[key].model
    <3>1. Owner(w, key)
      BY <1>1, <2>1 DEF Owner
    <3>2. Written(w, experiments[key]) /\ \A u \in Workers : Owner(u, key) => u = w
      BY <2>2, <2>4, <3>1 DEF EInv, OwnersOK
    <3>3. experiments[key].model = job[w].content /\ experiments[key].manifest = Manifest(w)
      BY <1>1, <3>2 DEF Written
    <3>4. Manifest(w).study = job[w].number /\ Manifest(w).content = job[w].content
      BY <1>1 DEF Manifest
    <3>5. \A u \in Workers : ~Owner(u, key)'
      BY <1>3, <3>2 DEF Owner, Bystanders
    <3>6. QED
      BY <2>3, <3>3, <3>4, <3>5
  <2>5. study.experiment = key
    OBVIOUS
  <2>6. QED
    BY <1>1, <2>2, <2>4, <2>5 DEF StudyOK
<1>6. StudiesOK'
  <2>1. Listed(studies) /\ \A i \in DOMAIN studies : StudyOK(studies[i])
    BY DEF EInv, StudiesOK
  <2>2. /\ Listed(Append(studies, study))
        /\ \A i \in DOMAIN Append(studies, study) :
             (i \in DOMAIN studies /\ Append(studies, study)[i] = studies[i]) \/ Append(studies, study)[i] = study
    BY <2>1, ListedAppend
  <2>3. ASSUME NEW i \in DOMAIN studies' PROVE StudyOK(studies[i])'
    <3>1. PICK one : one = studies'[i]
      OBVIOUS
    <3>2. StudyOK(one)'
      <4>1. CASE one = study
        BY <1>5, <4>1
      <4>2. CASE i \in DOMAIN studies /\ one = studies[i]
        BY <1>4, <2>1, <4>2
      <4>3. QED
        BY <1>1, <2>2, <3>1, <4>1, <4>2
    <3>3. QED
      BY <3>1, <3>2 DEF StudyOK
  <2>4. QED
    BY <1>1, <2>2, <2>3 DEF StudiesOK, Listed
<1>7. QED
  BY <1>1, <1>2, <1>6, EndStep

\* The rebuild of the index.
LEMMA RebuildingStep ==
  ASSUME EInv, NEW w \in Workers, job[w] # None, job[w].step = "experiment_index",
         NEW stage \in {"truncate", "fill"}, NEW more, Go(w, stage, more), Later,
         {"step", "model", "stage", "number", "read", "trials", "best"} \cap DOMAIN more = {},
         CollectedOK(w)', UNCHANGED <<processed, features, experiments, studies>>, index' = index \/ IndexOK'
  PROVE  EInv'
<1>1. /\ job'[w].stage = stage /\ job'[w].step = "experiment_index"
      /\ Fields \subseteq DOMAIN job'[w] /\ job'[w].number \in 1..number'
      /\ job'[w].read = job[w].read /\ Listed(job'[w].read)
  BY GoKept
<1>2. stage \notin {"read", "trial", "select", "name"} \cup Training
  BY DEF Training, Naming
<1>3. ScriptOK(w)'
  BY <1>1, <1>2 DEF ScriptOK, Listed
<1>4. SearchOK(w)' /\ NameOK(w)'
  BY <1>1, <1>2 DEF SearchOK, NameOK, Training
<1>5. FilesOK'
  BY FilesStay
<1>6. QED
  BY <1>1, <1>2, <1>3, <1>4, <1>5, GoStep DEF WorkerOK, Training

LEMMA CollectManifestsStep ==
  ASSUME EInv, NEW w \in Workers, CollectManifests(w)
  PROVE  EInv'
<1> PICK rows, known : rows = RowsOfManifests /\ known = Readable
  OBVIOUS
<1> DEFINE more == [rows |-> rows, known |-> known]
<1>1. /\ job[w] # None /\ job[w].step = "experiment_index" /\ Later /\ UNCHANGED stores
      /\ Go(w, "truncate", more)
  BY SteadyIsLater DEF CollectManifests, At
<1>2. RowsOf(rows, known) /\ IsFiniteSet(known)
  BY RowsDescribe DEF EInv
<1>3. DOMAIN more = {"rows", "known"} /\ more.rows = rows /\ more.known = known
  OBVIOUS
<1> HIDE DEF more
<1>4. /\ {"rows", "known"} \subseteq DOMAIN job'[w] /\ job'[w].rows = rows /\ job'[w].known = known
  BY <1>1, <1>3, GoFacts
<1>5. \A k \in known : k \in DOMAIN experiments /\ experiments[k].manifest # None
  BY DEF Readable
<1>6. experiments' = experiments
  BY <1>1 DEF stores
<1>7. CollectedOK(w)'
  BY <1>2, <1>4, <1>5, <1>6 DEF CollectedOK, RowsOf, Listed
<1>8. QED
  BY <1>1, <1>3, <1>7, RebuildingStep DEF stores

LEMMA TruncateIndexStep ==
  ASSUME EInv, NEW w \in Workers, TruncateIndex(w)
  PROVE  EInv'
<1>1. /\ job[w] # None /\ job[w].step = "experiment_index" /\ job[w].stage = "truncate" /\ Later
      /\ UNCHANGED <<processed, features, experiments, studies>> /\ index' = <<>> /\ Go(w, "fill", <<>>)
  BY SteadyIsLater DEF TruncateIndex, At
<1>2. /\ {"rows", "known"} \subseteq DOMAIN job[w]
      /\ RowsOf(job[w].rows, job[w].known) /\ IsFiniteSet(job[w].known)
      /\ \A k \in job[w].known : k \in DOMAIN experiments /\ experiments[k].manifest # None
  BY <1>1 DEF EInv, CollectedOK
<1>3. {"rows", "known"} \subseteq DOMAIN job'[w] /\ job'[w].rows = job[w].rows /\ job'[w].known = job[w].known
  <2>1. DOMAIN <<>> = {}
    OBVIOUS
  <2>2. /\ DOMAIN job'[w] = DOMAIN job[w] \cup DOMAIN <<>>
        /\ \A f \in DOMAIN job[w] \ (DOMAIN <<>> \cup {"stage"}) : job'[w][f] = job[w][f]
    BY <1>1, GoFacts
  <2>3. QED
    BY <1>2, <2>1, <2>2
<1>4. CollectedOK(w)'
  BY <1>1, <1>2, <1>3 DEF CollectedOK, RowsOf, Listed
<1>5. IndexOK'
  <2>1. Listed(<<>>) /\ DOMAIN <<>> = {}
    BY DEF Listed, ToSet
  <2>2. QED
    BY <1>1, <2>1 DEF IndexOK, Listed
<1>6. {"step", "model", "stage", "number", "read", "trials", "best"} \cap DOMAIN <<>> = {}
  OBVIOUS
<1>7. QED
  BY <1>1, <1>4, <1>5, <1>6, RebuildingStep

\* A rebuilt index speaks of the manifests that were read, which are still there.
LEMMA FillIndexStep ==
  ASSUME EInv, NEW w \in Workers, FillIndex(w)
  PROVE  EInv'
<1> PICK rows, known, code :
      /\ rows = job[w].rows /\ known = job[w].known
      /\ code = IF job[w].rows = <<>> THEN "failed" ELSE "ok"
  OBVIOUS
<1>1. /\ job[w] # None /\ job[w].step = "experiment_index" /\ job[w].stage = "fill" /\ Later
      /\ UNCHANGED <<processed, features, experiments, studies>> /\ index' = <<Header>> \o rows
      /\ End(w, code)
  BY SteadyIsLater DEF FillIndex, At
<1>2. /\ RowsOf(rows, known)
      /\ \A k \in known : k \in DOMAIN experiments /\ experiments[k].manifest # None
  BY <1>1 DEF EInv, CollectedOK
<1>3. Listed(rows) /\ \A i \in DOMAIN rows : rows[i].run \in known
  BY <1>2 DEF RowsOf
<1>4. <<Header>> \in Seq({Header}) /\ \A i \in DOMAIN <<Header>> : <<Header>>[i] = Header
  OBVIOUS
<1>5. Listed(<<Header>>)
  BY <1>4, ListedSeq
<1>6. Listed(<<Header>> \o rows)
  BY ONLY <1>3, <1>5, ListedConcat
<1>7. ASSUME NEW i \in DOMAIN (<<Header>> \o rows) PROVE Described((<<Header>> \o rows)[i])
  <2>1. \/ i \in DOMAIN <<Header>> /\ (<<Header>> \o rows)[i] = <<Header>>[i]
        \/ \E j \in DOMAIN rows : (<<Header>> \o rows)[i] = rows[j]
    BY ONLY <1>3, <1>5, <1>7, ListedConcat
  <2>2. \A j \in DOMAIN rows : Described(rows[j])
    BY <1>2, <1>3 DEF Described
  <2>3. Described(Header)
    BY DEF Described
  <2>4. QED
    BY <1>4, <2>1, <2>2, <2>3
<1>8. IndexOK'
  BY <1>1, <1>6, <1>7 DEF IndexOK, Listed, Described
<1>9. FilesOK'
  BY <1>1, FilesStay
<1>10. QED
  BY <1>1, <1>8, <1>9, EndStep

-----------------------------------------------------------------------------
(* The steps in the directory of an experiment. *)

\* What is written in files is not the mark of a file that is not there.
Markers == Torn # None /\ \A r, c, x, s : [run |-> r, created |-> c, content |-> x, study |-> s] # None

LEMMA RecordsStay ==
  ASSUME EInv, Grown, UNCHANGED <<index, studies>>, \A study : StudyOK(study) => StudyOK(study)'
  PROVE  IndexOK' /\ StudiesOK'
<1>1. IndexOK /\ StudiesOK
  BY DEF EInv
<1>2. IndexOK'
  <2>1. \A line : Described(line) => Described(line)'
    BY DescribedStays
  <2>2. SUFFICES ASSUME index # None PROVE Listed(index) /\ \A i \in DOMAIN index : Described(index[i])'
    BY DEF IndexOK, Listed
  <2>3. ASSUME NEW i \in DOMAIN index PROVE Described(index[i])'
    <3>1. PICK line : line = index[i]
      OBVIOUS
    <3>2. Described(line)'
      BY <1>1, <2>1, <2>2, <3>1 DEF IndexOK
    <3>3. QED
      BY <3>1, <3>2 DEF Described
  <2>4. QED
    BY <1>1, <2>2, <2>3 DEF IndexOK
<1>3. StudiesOK'
  <2>1. ASSUME NEW i \in DOMAIN studies PROVE StudyOK(studies[i])'
    <3>1. PICK study : study = studies[i]
      OBVIOUS
    <3>2. StudyOK(study)'
      BY <1>1, <3>1 DEF StudiesOK
    <3>3. QED
      BY <3>1, <3>2 DEF StudyOK
  <2>2. QED
    BY <1>1, <2>1 DEF StudiesOK, Listed
<1>4. QED
  BY <1>2, <1>3

\* Between the choice of its name and the index, a training keeps what it knows.
LEMMA NamedScript ==
  ASSUME EInv, NEW w \in Workers, job[w] # None, job[w].stage \in Naming,
         NEW stage \in {"model", "metrics", "manifest", "look"}, Go(w, stage, <<>>), Later
  PROVE  /\ ScriptOK(w)' /\ SearchOK(w)' /\ CollectedOK(w)' /\ AgendasOK'
         /\ job' = [u \in Workers |-> job'[u]] /\ Bystanders(w) /\ job'[w].stage = stage
         /\ \A f \in {"key", "created", "content", "number", "step"} : f \in DOMAIN job'[w] /\ job'[w][f] = job[w][f]
<1>1. ScriptOK(w) /\ SearchOK(w) /\ NameOK(w) /\ Naming \subseteq Training
  BY DEF EInv, Training
<1>2. DOMAIN <<>> = {} /\ stage \in Naming /\ stage \notin {"read", "trial", "select"} \cup ToSet(SplitNames)
  BY DEF Naming, ToSet, SplitNames
<1>3. /\ job'[w].stage = stage /\ job'[w].step = job[w].step
      /\ job'[w].model = job[w].model /\ job'[w].number = job[w].number
      /\ Fields \subseteq DOMAIN job'[w] /\ job'[w].number \in 1..number'
      /\ job'[w].step \in {"train", "optimize"} => job'[w].model \in ToSet(MODELS)
      /\ job'[w].read = job[w].read /\ Listed(job'[w].read)
      /\ job'[w].trials = job[w].trials /\ job'[w].best = job[w].best
  <2>1. {"step", "model", "stage", "number"} \cap DOMAIN <<>> = {}
    BY <1>2
  <2>2. QED
    BY <1>2, <2>1, GoKept
<1>4. /\ agenda' = agenda /\ job' = [u \in Workers |-> job'[u]] /\ Bystanders(w)
      /\ DOMAIN job'[w] = DOMAIN job[w] \cup DOMAIN <<>>
      /\ \A f \in DOMAIN job[w] \ (DOMAIN <<>> \cup {"stage"}) : job'[w][f] = job[w][f]
  BY GoFacts
<1>5. {"key", "created", "content", "number", "step"} \subseteq DOMAIN job[w]
  BY <1>1 DEF NameOK, SearchOK, ScriptOK, Fields
<1>6. \A f \in {"key", "created", "content", "number", "step"} : f \in DOMAIN job'[w] /\ job'[w][f] = job[w][f]
  BY <1>2, <1>4, <1>5
<1>7. job[w].step \in {"train", "optimize"}
  BY <1>1 DEF ScriptOK
<1>8. ScriptOK(w)'
  BY <1>2, <1>3, <1>7 DEF ScriptOK, Listed
<1>9. SearchOK(w)'
  <2>1. job[w].step = "optimize" => job[w].trials \in Seq({Missing, 1, 2}) /\ IsBest(job[w].trials, job[w].best) /\ job[w].best # 0
    BY <1>1 DEF SearchOK
  <2>2. job[w].content.trial = job[w].best
    BY <1>1 DEF SearchOK
  <2>3. QED
    BY <1>2, <1>3, <1>6, <2>1, <2>2 DEF SearchOK
<1>10. CollectedOK(w)'
  BY <1>3, <1>7 DEF CollectedOK
<1>11. AgendasOK'
  BY <1>4 DEF EInv, AgendasOK, Listed, IsScript
<1>12. QED
  BY <1>3, <1>4, <1>6, <1>8, <1>9, <1>10, <1>11

\* A directory is taken: it is a new one, or it has one maker more.
LEMMA TakenFacts ==
  ASSUME EInv, NEW w \in Workers, MakeDirectory(w)
  PROVE  /\ job[w] # None /\ job[w].stage = "mkdir"
         /\ DOMAIN experiments' = DOMAIN experiments \cup {job[w].key}
         /\ experiments' = [k \in DOMAIN experiments' |-> experiments'[k]]
         /\ \A k \in DOMAIN experiments : k # job[w].key => experiments'[k] = experiments[k]
         /\ job[w].key \in DOMAIN experiments =>
              experiments'[job[w].key] = [experiments[job[w].key] EXCEPT !.makers = @ + 1]
         /\ job[w].key \notin DOMAIN experiments =>
              experiments'[job[w].key] = [model |-> None, metrics |-> None, manifest |-> None, makers |-> 1, born |-> number]
<1> PICK key : key = job[w].key
  OBVIOUS
<1>1. /\ job[w] # None /\ job[w].stage = "mkdir"
      /\ experiments' = [k \in DOMAIN experiments \cup {key} |->
           IF k \in DOMAIN experiments THEN [experiments[k] EXCEPT !.makers = IF k = key THEN @ + 1 ELSE @]
           ELSE [model |-> None, metrics |-> None, manifest |-> None, makers |-> 1, born |-> number]]
  BY DEF MakeDirectory, InStage
<1>2. ASSUME NEW k \in DOMAIN experiments, k # key PROVE experiments'[k] = experiments[k]
  <2>1. experiments[k] = [f \in {"model", "metrics", "manifest", "makers", "born"} |-> experiments[k][f]]
    BY DEF EInv, ExperimentOK
  <2>2. PICK one : one = experiments[k]
    OBVIOUS
  <2>3. experiments'[k] = [one EXCEPT !.makers = one.makers]
    BY <1>1, <1>2, <2>2
  <2>4. one = [f \in {"model", "metrics", "manifest", "makers", "born"} |-> one[f]]
    BY <2>1, <2>2
  <2>5. [one EXCEPT !.makers = one.makers] = one
    BY <2>4
  <2>6. QED
    BY <2>2, <2>3, <2>5
<1>3. QED
  BY <1>1, <1>2

\* Whoever takes a directory that is there is not alone in it any more.
LEMMA MakeDirectoryStep ==
  ASSUME EInv, NEW w \in Workers, MakeDirectory(w)
  PROVE  EInv'
<1> PICK key : key = job[w].key
  OBVIOUS
<1>1. /\ job[w] # None /\ job[w].stage = "mkdir"
      /\ DOMAIN experiments' = DOMAIN experiments \cup {key}
      /\ experiments' = [k \in DOMAIN experiments' |-> experiments'[k]]
      /\ \A k \in DOMAIN experiments : k # key => experiments'[k] = experiments[k]
      /\ key \in DOMAIN experiments => experiments'[key] = [experiments[key] EXCEPT !.makers = @ + 1]
      /\ key \notin DOMAIN experiments =>
           experiments'[key] = [model |-> None, metrics |-> None, manifest |-> None, makers |-> 1, born |-> number]
  BY TakenFacts
<1>2. Later /\ number' = number /\ second' = second /\ UNCHANGED <<processed, features, index, studies>> /\ Go(w, "model", <<>>)
  BY SteadyIsLater DEF MakeDirectory
<1>3. job[w].stage \in Naming /\ "model" \in {"model", "metrics", "manifest", "look"} /\ "model" \in Owning
  BY <1>1 DEF Naming, Owning
<1>4. /\ ScriptOK(w)' /\ SearchOK(w)' /\ CollectedOK(w)' /\ AgendasOK'
      /\ job' = [u \in Workers |-> job'[u]] /\ Bystanders(w) /\ job'[w].stage = "model"
      /\ \A f \in {"key", "created", "content", "number", "step"} : f \in DOMAIN job'[w] /\ job'[w][f] = job[w][f]
  BY <1>1, <1>2, <1>3, NamedScript
<1>5. \A k \in DOMAIN experiments : ExperimentOK(k)
  BY DEF EInv
<1>6. ASSUME key \in DOMAIN experiments
      PROVE  /\ experiments'[key].makers = experiments[key].makers + 1 /\ experiments'[key].makers \in Nat \ {0, 1}
             /\ \A f \in {"model", "metrics", "manifest", "born"} : experiments'[key][f] = experiments[key][f]
             /\ experiments'[key] = [f \in {"model", "metrics", "manifest", "makers", "born"} |-> experiments'[key][f]]
  <2>1. PICK one : one = experiments[key]
    OBVIOUS
  <2>2. one = [f \in {"model", "metrics", "manifest", "makers", "born"} |-> one[f]] /\ one.makers \in Nat \ {0}
    BY <1>5, <1>6, <2>1 DEF ExperimentOK
  <2>3. experiments'[key] = [one EXCEPT !.makers = @ + 1]
    BY <1>1, <1>6, <2>1
  <2>4. /\ experiments'[key].makers = one.makers + 1
        /\ \A f \in {"model", "metrics", "manifest", "born"} : experiments'[key][f] = one[f]
        /\ experiments'[key] = [f \in {"model", "metrics", "manifest", "makers", "born"} |-> experiments'[key][f]]
    BY <2>2, <2>3
  <2>5. one.makers + 1 \in Nat \ {0, 1}
    BY <2>2
  <2>6. QED
    BY <2>1, <2>4, <2>5
<1>7. ASSUME key \notin DOMAIN experiments
      PROVE  /\ experiments'[key].makers = 1 /\ experiments'[key].manifest = None /\ experiments'[key].born = number
             /\ experiments'[key] = [f \in {"model", "metrics", "manifest", "makers", "born"} |-> experiments'[key][f]]
  <2> DEFINE new == [model |-> None, metrics |-> None, manifest |-> None, makers |-> 1, born |-> number]
  <2>1. /\ new.makers = 1 /\ new.manifest = None /\ new.born = number
        /\ new = [f \in {"model", "metrics", "manifest", "makers", "born"} |-> new[f]]
    OBVIOUS
  <2>2. experiments'[key] = new
    BY <1>1, <1>7
  <2> HIDE DEF new
  <2>3. QED
    BY <2>1, <2>2
<1>8. Grown
  BY <1>1, <1>6, <1>7 DEF Grown
<1>9. Readable' = Readable /\ \A k \in Readable : experiments'[k].manifest = experiments[k].manifest
  BY <1>1, <1>6, <1>7 DEF Readable
<1>10. NameOK(w) /\ number \in Nat
  BY DEF EInv, Shapes
<1>11. NameOK(w)'
  <2>1. /\ {"key", "created"} \subseteq DOMAIN job'[w]
        /\ job'[w].key = key /\ job'[w].created = job[w].created
    BY <1>4
  <2>2. /\ job[w].created \in 1..number' /\ key[1] \in ToSet(MODELS) /\ key[2] \in 0..second'
        /\ key \in DOMAIN experiments => job[w].created <= experiments[key].born
    BY <1>1, <1>2, <1>3, <1>10 DEF NameOK
  <2>3. key \in DOMAIN experiments' /\ job[w].created <= experiments'[key].born
    <3>1. CASE key \in DOMAIN experiments
      BY <1>1, <1>6, <2>2, <3>1
    <3>2. CASE key \notin DOMAIN experiments
      BY <1>1, <1>2, <1>7, <1>10, <2>2, <3>2
    <3>3. QED
      BY <3>1, <3>2
  <2>4. QED
    BY <1>4, <2>1, <2>2, <2>3 DEF NameOK
<1>12. \A u \in Workers : u # w => (job'[u] = job[u] /\ \A k : Owner(u, k)' => Owner(u, k) /\ k \in DOMAIN experiments)
  <2>1. \A u \in Workers : NameOK(u)
    BY DEF EInv
  <2>2. QED
    BY <1>4, <2>1 DEF Owner, Bystanders, NameOK, Owning
<1>13. \A k : Owner(w, k)' => k = key
  BY <1>4 DEF Owner
<1>14. \A k \in DOMAIN experiments' : k = key \/ (k \in DOMAIN experiments /\ experiments'[k] = experiments[k])
  BY <1>1
<1>15. experiments'[key].makers = 1 => key \notin DOMAIN experiments /\ experiments'[key].manifest = None
  <2>1. 1 \notin Nat \ {0, 1}
    OBVIOUS
  <2>2. QED
    BY <1>6, <1>7, <2>1
<1>16. OwnersOK'
  <2> SUFFICES ASSUME NEW u \in Workers, NEW k \in DOMAIN experiments', Owner(u, k)', experiments'[k].makers = 1
               PROVE  Written(u, experiments[k])' /\ \A v \in Workers : Owner(v, k)' => v = u
    BY DEF OwnersOK
  <2>1. CASE u = w
    <3>1. k = key /\ key \notin DOMAIN experiments /\ experiments'[key].manifest = None
      BY <1>13, <1>15, <2>1
    <3>2. Written(w, experiments[k])'
      BY <1>4, <3>1 DEF Written
    <3>3. \A v \in Workers : Owner(v, k)' => v = u
      BY <1>12, <2>1, <3>1
    <3>4. QED
      BY <2>1, <3>2, <3>3
  <2>2. CASE u # w
    <3>1. Owner(u, k) /\ k \in DOMAIN experiments /\ job'[u] = job[u]
      BY <1>12, <2>2
    <3>2. k # key /\ experiments'[k] = experiments[k]
      BY <1>14, <1>15, <3>1
    <3>3. Written(u, experiments[k]) /\ \A v \in Workers : Owner(v, k) => v = u
      BY <3>1, <3>2 DEF EInv, OwnersOK
    <3>4. Written(u, experiments[k])'
      BY <3>1, <3>2, <3>3 DEF Written, Manifest
    <3>5. \A v \in Workers : Owner(v, k)' => v = u
      BY <1>12, <1>13, <3>2, <3>3
    <3>6. QED
      BY <3>4, <3>5
  <2>3. QED
    BY <2>1, <2>2
<1>17. NumbersOK'
  <2>1. \A u \in Workers : job'[u] # None /\ job'[u].stage \in Naming =>
          /\ job[u] # None /\ job[u].stage \in Naming
          /\ job'[u].created = job[u].created /\ job'[u].key = job[u].key
    <3>1. /\ job[w] # None /\ job[w].stage \in Naming
          /\ job'[w].created = job[w].created /\ job'[w].key = job[w].key
      BY <1>1, <1>3, <1>4
    <3>2. \A u \in Workers \ {w} : job'[u] = job[u]
      BY <1>12
    <3>3. QED
      BY <3>1, <3>2
  <2>2. NumbersOK
    BY DEF EInv
  <2>3. QED
    BY <1>9, <2>1, <2>2 DEF NumbersOK
<1>18. ASSUME NEW k \in DOMAIN experiments' PROVE ExperimentOK(k)'
  <2>1. CASE k # key
    <3>1. k \in DOMAIN experiments /\ experiments'[k] = experiments[k]
      BY <1>14, <2>1
    <3>2. QED
      BY <1>2, <1>5, <1>9, <3>1 DEF ExperimentOK
  <2>2. CASE k = key /\ key \in DOMAIN experiments
    <3>1. ExperimentOK(key)
      BY <1>5, <2>2
    <3>2. experiments'[key].makers \in Nat \ {0}
      BY <1>6, <2>2
    <3>3. QED
      BY <1>2, <1>6, <1>9, <2>2, <3>1, <3>2 DEF ExperimentOK
  <2>3. CASE k = key /\ key \notin DOMAIN experiments
    <3>1. key[1] \in ToSet(MODELS) /\ key[2] \in 0..second'
      BY <1>1, <1>2, <1>3, <1>10 DEF NameOK
    <3>2. key \notin Readable /\ number \in 0..number'
      BY <1>2, <1>10, <2>3 DEF Readable
    <3>3. QED
      BY <1>7, <1>9, <2>3, <3>1, <3>2 DEF ExperimentOK
  <2>4. QED
    BY <2>1, <2>2, <2>3
<1>19. ManifestWhole'
  <2>1. ASSUME NEW k \in Readable, experiments'[k].makers = 1
        PROVE  /\ experiments'[k].model = experiments'[k].manifest.content
               /\ experiments'[k].metrics = experiments'[k].manifest.content
    <3>1. k \in DOMAIN experiments
      BY DEF Readable
    <3>2. experiments'[k] = experiments[k]
      BY <1>1, <1>14, <1>15, <2>1, <3>1
    <3>3. QED
      BY <2>1, <3>2 DEF EInv, ManifestWhole
  <2>2. QED
    BY <1>9, <2>1 DEF ManifestWhole
<1>20. ASSUME NEW study, StudyOK(study) PROVE StudyOK(study)'
  <2>1. study.experiment \in DOMAIN experiments /\ study.experiment \in DOMAIN experiments'
    BY <1>1, <1>20 DEF StudyOK
  <2>2. ASSUME experiments'[study.experiment].makers = 1
        PROVE  /\ study.experiment # key /\ experiments'[study.experiment] = experiments[study.experiment]
               /\ \A u \in Workers : ~Owner(u, study.experiment)'
    <3>1. study.experiment # key
      BY <1>15, <2>1, <2>2
    <3>2. experiments'[study.experiment] = experiments[study.experiment]
      BY <1>14, <2>1, <3>1
    <3>3. \A u \in Workers : ~Owner(u, study.experiment)
      BY <1>20, <2>2, <3>2 DEF StudyOK
    <3>4. QED
      BY <1>12, <1>13, <3>1, <3>2, <3>3
  <2>3. QED
    BY <1>20, <2>1, <2>2 DEF StudyOK
<1>21. IndexOK' /\ StudiesOK'
  BY <1>2, <1>8, <1>20, RecordsStay
<1>22. IsFiniteSet(DOMAIN experiments')
  BY <1>1, FS_AddElement DEF EInv, Shapes
<1>23. FilesOK'
  BY <1>2, FilesStay
<1>24. WorkerOK(w)'
  BY <1>4, <1>11 DEF WorkerOK
<1>25. QED
  BY <1>1, <1>2, <1>4, <1>8, <1>16, <1>17, <1>18, <1>19, <1>21, <1>22, <1>23, <1>24, WorkerStep

\* A training writes, or leaves torn, a file in its directory, which was there.
Overwrites(w, part, what) ==
  experiments' = [experiments EXCEPT ![job[w].key] = [@ EXCEPT ![part] = what]]

LEMMA OverwriteFacts ==
  ASSUME EInv, NEW w \in Workers, NEW part \in {"model", "metrics", "manifest"}, NEW what, part = "manifest" => what # None,
         job[w] # None, job[w].stage = part, Overwrites(w, part, what)
  PROVE  /\ Owner(w, job[w].key) /\ job[w].key \in DOMAIN experiments
         /\ DOMAIN experiments' = DOMAIN experiments
         /\ experiments' = [k \in DOMAIN experiments' |-> experiments'[k]]
         /\ \A k \in DOMAIN experiments : k # job[w].key => experiments'[k] = experiments[k]
         /\ experiments'[job[w].key][part] = what
         /\ \A f \in {"model", "metrics", "manifest", "makers", "born"} \ {part} :
              experiments'[job[w].key][f] = experiments[job[w].key][f]
         /\ experiments'[job[w].key] =
              [f \in {"model", "metrics", "manifest", "makers", "born"} |-> experiments'[job[w].key][f]]
         /\ Grown
<1> PICK key : key = job[w].key
  OBVIOUS
<1>1. part \in Owning /\ part \in Naming
  BY DEF Owning, Naming
<1>2. key \in DOMAIN experiments
  BY <1>1 DEF EInv, NameOK
<1>3. Owner(w, key)
  BY <1>1 DEF Owner
<1>4. experiments = [k \in DOMAIN experiments |-> experiments[k]] /\ ExperimentOK(key)
  BY <1>2 DEF EInv, Shapes
<1> PICK one : one = experiments[key]
  OBVIOUS
<1>5. /\ DOMAIN experiments' = DOMAIN experiments
      /\ experiments' = [k \in DOMAIN experiments' |-> experiments'[k]]
      /\ \A k \in DOMAIN experiments : k # key => experiments'[k] = experiments[k]
      /\ experiments'[key] = [one EXCEPT ![part] = what]
  BY <1>2, <1>4 DEF Overwrites
<1>6. one = [f \in {"model", "metrics", "manifest", "makers", "born"} |-> one[f]]
  BY <1>4 DEF ExperimentOK
<1>7. /\ experiments'[key][part] = what
      /\ \A f \in {"model", "metrics", "manifest", "makers", "born"} \ {part} : experiments'[key][f] = one[f]
      /\ experiments'[key] = [f \in {"model", "metrics", "manifest", "makers", "born"} |-> experiments'[key][f]]
  BY <1>5, <1>6
<1>8. Grown
  <2>1. experiments'[key].born = one.born /\ (one.manifest # None => experiments'[key].manifest # None)
    BY <1>7
  <2>2. QED
    BY <1>5, <2>1 DEF Grown
<1>9. QED
  BY <1>2, <1>3, <1>5, <1>7, <1>8

\* Such a step keeps what is said of the directories, when the writer goes on
\* with its name and has written what it should, or stops.
LEMMA OverwriteStep ==
  ASSUME EInv, Later, NEW w \in Workers, NEW part \in {"model", "metrics", "manifest"}, NEW what, part = "manifest" => what # None,
         job[w] # None, job[w].stage = part, Overwrites(w, part, what), UNCHANGED <<processed, features, index, studies>>,
         part = "manifest" => what \in {Torn, Manifest(w)},
         Bystanders(w), job' = [u \in Workers |-> job'[u]], AgendasOK', WorkerOK(w)',
         \/ job'[w] = None
         \/ /\ job'[w].stage \in Owning /\ job'[w].key = job[w].key /\ job'[w].created = job[w].created
            /\ Written(w, experiments[job[w].key]) => Written(w, experiments[job[w].key])'
  PROVE  EInv'
<1> PICK key : key = job[w].key
  OBVIOUS
<1>1. /\ Owner(w, key) /\ key \in DOMAIN experiments
      /\ DOMAIN experiments' = DOMAIN experiments
      /\ experiments' = [k \in DOMAIN experiments' |-> experiments'[k]]
      /\ \A k \in DOMAIN experiments : k # key => experiments'[k] = experiments[k]
      /\ experiments'[key][part] = what
      /\ \A f \in {"model", "metrics", "manifest", "makers", "born"} \ {part} : experiments'[key][f] = experiments[key][f]
      /\ experiments'[key] = [f \in {"model", "metrics", "manifest", "makers", "born"} |-> experiments'[key][f]]
      /\ Grown
  BY OverwriteFacts
<1>2. /\ experiments'[key].makers = experiments[key].makers /\ experiments'[key].born = experiments[key].born
      /\ part # "manifest" => experiments'[key].manifest = experiments[key].manifest
  BY <1>1
<1>3. \A u \in Workers : \A k : Owner(u, k)' => Owner(u, k)
  <2> SUFFICES ASSUME NEW u \in Workers, NEW k, Owner(u, k)' PROVE Owner(u, k)
    OBVIOUS
  <2>1. CASE u # w
    BY <2>1 DEF Owner, Bystanders
  <2>2. CASE u = w
    BY <1>1, <2>2 DEF Owner
  <2>3. QED
    BY <2>1, <2>2
<1>4. ASSUME experiments[key].makers = 1
      PROVE  Written(w, experiments[key]) /\ \A u \in Workers : Owner(u, key) => u = w
  BY <1>1, <1>4 DEF EInv, OwnersOK
<1>5. \A k \in Readable' : \/ k \in Readable /\ experiments'[k].manifest = experiments[k].manifest
                           \/ k = key /\ part = "manifest" /\ experiments'[k].manifest = Manifest(w)
  <2> SUFFICES ASSUME NEW k \in Readable'
               PROVE  \/ k \in Readable /\ experiments'[k].manifest = experiments[k].manifest
                      \/ k = key /\ part = "manifest" /\ experiments'[k].manifest = Manifest(w)
    OBVIOUS
  <2>1. k \in DOMAIN experiments /\ experiments'[k].manifest \notin {None, Torn}
    BY <1>1 DEF Readable
  <2>2. CASE k # key
    BY <1>1, <2>1, <2>2 DEF Readable
  <2>3. CASE k = key /\ part # "manifest"
    BY <1>2, <2>1, <2>3 DEF Readable
  <2>4. CASE k = key /\ part = "manifest"
    BY <1>1, <2>1, <2>4
  <2>5. QED
    BY <2>2, <2>3, <2>4
<1>6. OwnersOK'
  <2> SUFFICES ASSUME NEW u \in Workers, NEW k \in DOMAIN experiments', Owner(u, k)', experiments'[k].makers = 1
               PROVE  Written(u, experiments[k])' /\ \A v \in Workers : Owner(v, k)' => v = u
    BY DEF OwnersOK
  <2>1. Owner(u, k)
    BY <1>3
  <2>2. CASE k = key
    <3>1. experiments[key].makers = 1
      BY <1>2, <2>2
    <3>2. u = w /\ Written(w, experiments[key])
      BY <1>4, <2>1, <2>2, <3>1
    <3>3. job'[w] # None
      BY <3>2 DEF Owner
    <3>4. job'[w].key = job[w].key /\ Written(w, experiments[job[w].key])'
      BY <3>2, <3>3
    <3>5. Written(w, experiments[k])'
      BY <2>2, <3>4 DEF Written
    <3>6. QED
      BY <1>3, <1>4, <2>2, <3>1, <3>2, <3>5
  <2>3. CASE k # key
    <3>1. u # w
      BY <1>1, <2>1, <2>3 DEF Owner
    <3>2. experiments'[k] = experiments[k] /\ k \in DOMAIN experiments
      BY <1>1, <2>3
    <3>3. Written(u, experiments[k]) /\ \A v \in Workers : Owner(v, k) => v = u
      BY <2>1, <3>2 DEF EInv, OwnersOK
    <3>4. Written(u, experiments[k])'
      BY <3>1, <3>2, <3>3 DEF Written, Manifest, Bystanders
    <3>5. QED
      BY <1>3, <3>3, <3>4
  <2>4. QED
    BY <2>2, <2>3
<1>7. number \in Nat /\ NameOK(w) /\ part \in Naming
  BY DEF EInv, Shapes, Naming
<1>8. Manifest(w).run = key /\ Manifest(w).created = job[w].created /\ Manifest(w).content = job[w].content
  BY DEF Manifest
<1>9. NumbersOK'
  <2>1. \A u \in Workers : job'[u] # None /\ job'[u].stage \in Naming =>
          /\ job[u] # None /\ job[u].stage \in Naming
          /\ job'[u].created = job[u].created /\ job'[u].key = job[u].key
    <3>1. job'[w] # None /\ job'[w].stage \in Naming =>
            /\ job[w] # None /\ job[w].stage \in Naming
            /\ job'[w].created = job[w].created /\ job'[w].key = job[w].key
      BY <1>7
    <3>2. \A u \in Workers \ {w} : job'[u] = job[u]
      BY DEF Bystanders
    <3>3. QED
      BY <3>1, <3>2
  <2>2. /\ \A u, v \in Workers :
             job[u] # None /\ job[u].stage \in Naming /\ job[v] # None /\ job[v].stage \in Naming
             /\ job[u].created = job[v].created => u = v
        /\ \A u \in Workers, k \in Readable :
             job[u] # None /\ job[u].stage \in Naming /\ experiments[k].manifest.created = job[u].created => job[u].key = k
        /\ \A k, l \in Readable : experiments[k].manifest.created = experiments[l].manifest.created => k = l
    BY DEF EInv, NumbersOK
  <2>3. ASSUME NEW u \in Workers, NEW v \in Workers,
               job'[u] # None /\ job'[u].stage \in Naming, job'[v] # None /\ job'[v].stage \in Naming,
               job'[u].created = job'[v].created
        PROVE  u = v
    BY <2>1, <2>2, <2>3
  <2>4. ASSUME NEW u \in Workers, NEW k \in Readable', job'[u] # None /\ job'[u].stage \in Naming,
               experiments'[k].manifest.created = job'[u].created
        PROVE  job'[u].key = k
    <3>1. /\ job[u] # None /\ job[u].stage \in Naming
          /\ job'[u].created = job[u].created /\ job'[u].key = job[u].key
      BY <2>1, <2>4
    <3>2. CASE k \in Readable /\ experiments'[k].manifest = experiments[k].manifest
      BY <2>2, <2>4, <3>1, <3>2
    <3>3. CASE k = key /\ experiments'[k].manifest = Manifest(w)
      <4>1. job[u].created = job[w].created
        BY <1>8, <2>4, <3>1, <3>3
      <4>2. u = w
        BY <1>7, <2>2, <3>1, <4>1
      <4>3. QED
        BY <3>1, <3>3, <4>2
    <3>4. QED
      BY <1>5, <3>2, <3>3
  <2>5. ASSUME NEW k \in Readable', NEW l \in Readable', experiments'[k].manifest.created = experiments'[l].manifest.created
        PROVE  k = l
    <3>1. ASSUME NEW m \in Readable, experiments[m].manifest.created = job[w].created PROVE m = key
      BY <1>7, <2>2, <3>1
    <3>2. CASE k \in Readable /\ experiments'[k].manifest = experiments[k].manifest
      <4>1. CASE l \in Readable /\ experiments'[l].manifest = experiments[l].manifest
        BY <2>2, <2>5, <3>2, <4>1
      <4>2. CASE l = key /\ experiments'[l].manifest = Manifest(w)
        BY <1>8, <2>5, <3>1, <3>2, <4>2
      <4>3. QED
        BY <1>5, <4>1, <4>2
    <3>3. CASE k = key /\ experiments'[k].manifest = Manifest(w)
      <4>1. CASE l \in Readable /\ experiments'[l].manifest = experiments[l].manifest
        BY <1>8, <2>5, <3>1, <3>3, <4>1
      <4>2. CASE l = key /\ experiments'[l].manifest = Manifest(w)
        BY <3>3, <4>2
      <4>3. QED
        BY <1>5, <4>1, <4>2
    <3>4. QED
      BY <1>5, <3>2, <3>3
  <2>6. QED
    BY <2>3, <2>4, <2>5 DEF NumbersOK
<1>10. ASSUME NEW k \in DOMAIN experiments' PROVE ExperimentOK(k)'
  <2>1. ExperimentOK(k) /\ second \in Nat
    BY <1>1 DEF EInv, Shapes
  <2>2. (\A n \in 0..number : n \in 0..number') /\ (\A n \in 1..number : n \in 1..number')
        /\ \A n \in 0..second : n \in 0..second'
    BY <1>7, <2>1 DEF Later
  <2>3. ASSUME k \in Readable' PROVE experiments'[k].manifest.run = k /\ experiments'[k].manifest.created \in 1..number'
    <3>1. CASE k \in Readable /\ experiments'[k].manifest = experiments[k].manifest
      BY <2>1, <2>2, <3>1 DEF ExperimentOK
    <3>2. CASE k = key /\ experiments'[k].manifest = Manifest(w)
      BY <1>7, <1>8, <2>2, <3>2 DEF NameOK
    <3>3. QED
      BY <1>5, <2>3, <3>1, <3>2
  <2>4. /\ experiments'[k] = [f \in {"model", "metrics", "manifest", "makers", "born"} |-> experiments'[k][f]]
        /\ experiments'[k].makers = experiments[k].makers /\ experiments'[k].born = experiments[k].born
    <3>1. CASE k = key
      BY <1>1, <1>2, <3>1
    <3>2. CASE k # key
      BY <1>1, <2>1, <3>2 DEF ExperimentOK
    <3>3. QED
      BY <3>1, <3>2
  <2>5. QED
    BY <2>1, <2>2, <2>3, <2>4 DEF ExperimentOK
<1>11. ManifestWhole'
  <2>1. ASSUME NEW k \in Readable', experiments'[k].makers = 1
        PROVE  /\ experiments'[k].model = experiments'[k].manifest.content
               /\ experiments'[k].metrics = experiments'[k].manifest.content
    <3>1. k \in DOMAIN experiments
      BY <1>1 DEF Readable
    <3>2. CASE k # key
      <4>1. k \in Readable /\ experiments'[k] = experiments[k]
        BY <1>1, <1>5, <3>1, <3>2
      <4>2. QED
        BY <2>1, <4>1 DEF EInv, ManifestWhole
    <3>3. CASE k = key
      <4>1. Written(w, experiments[key])
        BY <1>2, <1>4, <2>1, <3>3
      <4>2. experiments[key].manifest = None
        BY <4>1 DEF Written
      <4>3. key \notin Readable
        BY <4>2 DEF Readable
      <4>4. part = "manifest" /\ experiments'[key].manifest = Manifest(w)
        BY <1>5, <3>3, <4>3
      <4>5. experiments[key].model = job[w].content /\ experiments[key].metrics = job[w].content
        BY <4>1, <4>4 DEF Written
      <4>6. experiments'[key].model = experiments[key].model /\ experiments'[key].metrics = experiments[key].metrics
        BY <1>1, <4>4
      <4>7. QED
        BY <1>8, <3>3, <4>4, <4>5, <4>6
    <3>4. QED
      BY <3>2, <3>3
  <2>2. QED
    BY <2>1 DEF ManifestWhole
<1>12. ASSUME NEW study, StudyOK(study) PROVE StudyOK(study)'
  <2>1. study.experiment \in DOMAIN experiments /\ study.experiment \in DOMAIN experiments'
    BY <1>1, <1>12 DEF StudyOK
  <2>2. ASSUME experiments'[study.experiment].makers = 1
        PROVE  /\ experiments'[study.experiment] = experiments[study.experiment]
               /\ \A u \in Workers : ~Owner(u, study.experiment)'
    <3>1. experiments[study.experiment].makers = 1
      BY <1>1, <1>2, <2>1, <2>2
    <3>2. \A u \in Workers : ~Owner(u, study.experiment)
      BY <1>12, <3>1 DEF StudyOK
    <3>3. study.experiment # key
      BY <1>1, <3>2
    <3>4. QED
      BY <1>1, <1>3, <2>1, <3>2, <3>3
  <2>3. QED
    BY <1>12, <2>1, <2>2 DEF StudyOK
<1>13. IndexOK' /\ StudiesOK'
  BY <1>1, <1>12, RecordsStay
<1>14. IsFiniteSet(DOMAIN experiments')
  BY <1>1 DEF EInv, Shapes
<1>15. FilesOK'
  BY FilesStay
<1>16. QED
  BY <1>1, <1>6, <1>9, <1>10, <1>11, <1>13, <1>14, <1>15, WorkerStep

\* The model, the metrics, and at last the manifest that speaks of both.
LEMMA WriteExperimentStep ==
  ASSUME Markers, EInv, NEW w \in Workers, NEW part \in {"model", "metrics", "manifest"}, WriteExperiment(w, part)
  PROVE  EInv'
<1> PICK what : what = Contents(w, part)
  OBVIOUS
<1>1. /\ job[w] # None /\ job[w].stage = part /\ Later /\ UNCHANGED <<processed, features, index, studies>>
      /\ Overwrites(w, part, what)
  BY SteadyIsLater DEF WriteExperiment, InStage, Overwrites
<1>2. PICK stage : /\ Go(w, stage, <<>>)
                   /\ part = "model" => stage = "metrics"
                   /\ part = "metrics" => stage = "manifest"
                   /\ part = "manifest" => stage = "look"
  BY DEF WriteExperiment
<1>3. stage \in {"model", "metrics", "manifest", "look"} /\ stage \in Owning /\ stage \notin {"row", "summary"}
      /\ part \in Naming /\ part \in Owning
  BY <1>2 DEF Owning, Naming
<1>4. /\ part = "manifest" => what = Manifest(w) /\ what # None
      /\ part # "manifest" => what = job[w].content
  BY DEF Contents, Markers, Manifest
<1>5. /\ job[w].key \in DOMAIN experiments
      /\ DOMAIN experiments' = DOMAIN experiments
      /\ experiments'[job[w].key][part] = what
      /\ \A f \in {"model", "metrics", "manifest", "makers", "born"} \ {part} :
           experiments'[job[w].key][f] = experiments[job[w].key][f]
  <2>1. job[w] # None /\ job[w].stage = part /\ Overwrites(w, part, what) /\ (part = "manifest" => what # None)
    BY <1>1, <1>4
  <2>2. /\ Owner(w, job[w].key) /\ job[w].key \in DOMAIN experiments
        /\ DOMAIN experiments' = DOMAIN experiments
        /\ experiments' = [k \in DOMAIN experiments' |-> experiments'[k]]
        /\ \A k \in DOMAIN experiments : k # job[w].key => experiments'[k] = experiments[k]
        /\ experiments'[job[w].key][part] = what
        /\ \A f \in {"model", "metrics", "manifest", "makers", "born"} \ {part} :
             experiments'[job[w].key][f] = experiments[job[w].key][f]
        /\ experiments'[job[w].key] =
             [f \in {"model", "metrics", "manifest", "makers", "born"} |-> experiments'[job[w].key][f]]
        /\ Grown
    BY ONLY <2>1, EInv, OverwriteFacts
  <2>3. QED
    BY <2>2
<1>6. /\ ScriptOK(w)' /\ SearchOK(w)' /\ CollectedOK(w)' /\ AgendasOK'
      /\ job' = [u \in Workers |-> job'[u]] /\ Bystanders(w) /\ job'[w].stage = stage
      /\ \A f \in {"key", "created", "content", "number", "step"} : f \in DOMAIN job'[w] /\ job'[w][f] = job[w][f]
  BY <1>1, <1>2, <1>3, NamedScript
<1>7. NameOK(w)'
  <2>1. /\ job[w].created \in 1..number /\ number \in Nat /\ second \in Nat
        /\ job[w].key[1] \in ToSet(MODELS) /\ job[w].key[2] \in 0..second
        /\ job[w].created <= experiments[job[w].key].born
    BY <1>1, <1>3, <1>5 DEF EInv, Shapes, NameOK
  <2>2. job[w].created \in 1..number' /\ job[w].key[2] \in 0..second'
    BY <1>1, <2>1 DEF Later
  <2>3. experiments'[job[w].key].born = experiments[job[w].key].born
    BY <1>5
  <2>4. stage = "look" => experiments'[job[w].key].manifest # None
    BY <1>2, <1>4, <1>5
  <2>5. QED
    BY <1>3, <1>5, <1>6, <2>1, <2>2, <2>3, <2>4 DEF NameOK
<1>8. ASSUME Written(w, experiments[job[w].key]) PROVE Written(w, experiments[job[w].key])'
  <2>1. Manifest(w)' = Manifest(w) /\ job'[w].content = job[w].content /\ job'[w].key = job[w].key
    BY <1>6 DEF Manifest
  <2>2. CASE part = "model"
    <3>1. experiments[job[w].key].manifest = None
      BY <1>1, <1>8, <2>2 DEF Written
    <3>2. experiments'[job[w].key].model = job[w].content /\ experiments'[job[w].key].manifest = None
      BY <1>4, <1>5, <2>2, <3>1
    <3>3. QED
      BY <1>2, <1>6, <2>1, <2>2, <3>2 DEF Written
  <2>3. CASE part = "metrics"
    <3>1. experiments[job[w].key].manifest = None /\ experiments[job[w].key].model = job[w].content
      BY <1>1, <1>8, <2>3 DEF Written
    <3>2. /\ experiments'[job[w].key].model = job[w].content /\ experiments'[job[w].key].metrics = job[w].content
          /\ experiments'[job[w].key].manifest = None
      BY <1>4, <1>5, <2>3, <3>1
    <3>3. QED
      BY <1>2, <1>6, <2>1, <2>3, <3>2 DEF Written
  <2>4. CASE part = "manifest"
    <3>1. experiments[job[w].key].metrics = job[w].content /\ experiments[job[w].key].model = job[w].content
      BY <1>1, <1>8, <2>4 DEF Written
    <3>2. /\ experiments'[job[w].key].model = job[w].content /\ experiments'[job[w].key].metrics = job[w].content
          /\ experiments'[job[w].key].manifest = Manifest(w)
      BY <1>4, <1>5, <2>4, <3>1
    <3>3. QED
      BY <1>2, <1>6, <2>1, <2>4, <3>2 DEF Written
  <2>5. QED
    BY <2>2, <2>3, <2>4
<1>9. WorkerOK(w)'
  BY <1>6, <1>7 DEF WorkerOK
<1>10. part = "manifest" => what \in {Torn, Manifest(w)} /\ what # None
  BY <1>4
<1>11. job'[w].stage \in Owning /\ job'[w].key = job[w].key /\ job'[w].created = job[w].created
  BY <1>3, <1>6
<1>12. QED
  BY <1>1, <1>6, <1>8, <1>9, <1>10, <1>11, OverwriteStep

\* Whatever a killed script leaves torn is a file it was writing.
LEMMA KillStep ==
  ASSUME Markers, EInv, NEW w \in Workers, Kill(w)
  PROVE  EInv'
<1>1. job[w] # None /\ Later /\ number' = number /\ End(w, "killed")
  BY DEF Kill, EInv, Shapes, Later
<1>2. CASE UNCHANGED stores
  <2>1. UNCHANGED <<processed, features, experiments, index, studies>>
    BY <1>2 DEF stores
  <2>2. QED
    BY <1>1, <2>1, FilesStay, EndStep
<1>3. CASE /\ processed' = [processed EXCEPT ![job[w].stage] = Torn] /\ job[w].stage \in DOMAIN processed
           /\ UNCHANGED <<features, experiments, index, studies>>
  <2>1. FilesOK'
    BY <1>1, <1>3 DEF EInv, Shapes, FilesOK, SplitsOK
  <2>2. QED
    BY <1>1, <1>3, <2>1, EndStep
<1>4. CASE /\ features' = [features EXCEPT ![job[w].stage] = Torn] /\ job[w].stage \in DOMAIN features
           /\ UNCHANGED <<processed, experiments, index, studies>>
  <2>1. FilesOK'
    BY <1>1, <1>4 DEF EInv, Shapes, FilesOK, SplitsOK
  <2>2. QED
    BY <1>1, <1>4, <2>1, EndStep
<1>5. CASE /\ job[w].stage \in {"model", "metrics", "manifest"}
           /\ experiments' = [experiments EXCEPT ![job[w].key] = [@ EXCEPT ![job[w].stage] = Torn]]
           /\ UNCHANGED <<processed, features, index, studies>>
  <2>1. PICK part \in {"model", "metrics", "manifest"} : job[w].stage = part
    BY <1>5
  <2>2. Overwrites(w, part, Torn)
    BY <1>5, <2>1 DEF Overwrites
  <2>3. AgendasOK' /\ job' = [u \in Workers |-> job'[u]] /\ Bystanders(w) /\ job'[w] = None
    BY <1>1, EndFacts
  <2>4. WorkerOK(w)'
    BY <2>3 DEF WorkerOK, ScriptOK, SearchOK, NameOK, CollectedOK
  <2>5. QED
    BY <1>1, <1>5, <2>1, <2>2, <2>3, <2>4, OverwriteStep DEF Markers
<1>6. QED
  BY <1>2, <1>3, <1>4, <1>5 DEF Kill

\* Where the raw files are replaced, and where nothing happens, all of it stays.
LEMMA SameStep ==
  ASSUME EInv, UNCHANGED <<place, stores, agenda, job, number, second>>
  PROVE  EInv'
<1>1. UNCHANGED <<place, processed, features, experiments, index, studies, agenda, job, number, second>>
  BY DEF stores
<1>2. Later /\ Grown
  BY <1>1 DEF EInv, Shapes, Later, Grown
<1>3. Shapes' /\ AgendasOK' /\ SplitsOK'
  BY <1>1 DEF EInv, Shapes, AgendasOK, SplitsOK, Listed, IsScript
<1>4. ASSUME NEW w \in Workers PROVE ScriptOK(w)' /\ SearchOK(w)' /\ NameOK(w)' /\ CollectedOK(w)'
  BY <1>1, <1>2, BystanderOK
<1>5. \A u \in Workers : \A k : Owner(u, k)' <=> Owner(u, k)
  BY <1>1 DEF Owner
<1>6. OwnersOK'
  <2>1. \A u \in Workers, k \in DOMAIN experiments : Written(u, experiments[k]) => Written(u, experiments[k])'
    BY <1>1 DEF Written, Manifest
  <2>2. QED
    BY <1>1, <1>5, <2>1 DEF EInv, OwnersOK
<1>7. Readable' = Readable
  BY <1>1 DEF Readable
<1>8. NumbersOK' /\ ManifestWhole'
  BY <1>1, <1>7 DEF EInv, NumbersOK, ManifestWhole
<1>9. \A k \in DOMAIN experiments' : ExperimentOK(k)'
  BY <1>1, <1>7 DEF EInv, ExperimentOK
<1>10. \A study : StudyOK(study) => StudyOK(study)'
  BY <1>1, <1>5 DEF StudyOK
<1>11. IndexOK' /\ StudiesOK'
  BY <1>1, <1>2, <1>10, RecordsStay
<1>12. QED
  BY <1>3, <1>4, <1>6, <1>8, <1>9, <1>11 DEF EInv

\* Each step keeps the invariant.
LEMMA EngineStep ==
  ASSUME Markers, EInv, [EngineNext]_engineVars
  PROVE  EInv'
<1>1. CASE UNCHANGED engineVars
  BY <1>1, SameStep DEF engineVars
<1>2. CASE Replace
  BY <1>2, SameStep DEF Replace
<1>3. ASSUME NEW w \in Workers,
             \/ Start(w) \/ RunElsewhere(w) \/ Load(w) \/ WriteTransforms(w) \/ ReadSplit(w) \/ SelectFeatures(w)
             \/ WriteMetadata(w) \/ WriteSelector(w)
      PROVE  EInv'
  BY <1>3, StartStep, RunElsewhereStep, LoadStep, WriteTransformsStep, ReadSplitStep, SelectFeaturesStep,
     WriteMetadataStep, WriteSelectorStep
<1>4. ASSUME NEW w \in Workers,
             \/ Audit(w) \/ Fit(w) \/ NameExperiment(w) \/ MakeDirectory(w) \/ LookAtIndex(w) \/ AppendRow(w)
             \/ RunTrial(w) \/ TrainFinalModel(w) \/ WriteStudy(w)
      PROVE  EInv'
  BY <1>4, AuditStep, FitStep, NameExperimentStep, MakeDirectoryStep, LookAtIndexStep, AppendRowStep,
     RunTrialStep, TrainFinalModelStep, WriteStudyStep
<1>5. ASSUME NEW w \in Workers, CollectManifests(w) \/ TruncateIndex(w) \/ FillIndex(w) \/ Kill(w)
      PROVE  EInv'
  BY <1>5, CollectManifestsStep, TruncateIndexStep, FillIndexStep, KillStep
<1>6. ASSUME NEW w \in Workers, NEW s \in ToSet(SplitNames), WriteProcessedSplit(w, s) \/ WriteFeatureSplit(w, s)
      PROVE  EInv'
  BY <1>6, WriteProcessedSplitStep, WriteFeatureSplitStep
<1>7. ASSUME NEW w \in Workers, NEW part \in {"model", "metrics", "manifest"}, WriteExperiment(w, part)
      PROVE  EInv'
  BY <1>7, WriteExperimentStep
<1>8. QED
  BY <1>1, <1>2, <1>3, <1>4, <1>5, <1>6, <1>7 DEF EngineNext

\* Experiments, their index and the studies describe one another: a manifest
\* stands beside the model and the metrics it speaks of, a row is of a run with a
\* manifest, and a study names a model trained with its best trial, however many
\* trainings choose one name and whatever is killed.
THEOREM StoreSoundHolds ==
  ASSUME Markers
  PROVE  EngineSpec => []StoreSound
<1>1. EInv => StoreSound
  <2> SUFFICES ASSUME EInv PROVE StoreSound
    OBVIOUS
  <2>1. EngineTypeOK
    <3>1. \A k \in DOMAIN experiments : k[1] \in ToSet(MODELS) /\ k[2] \in 0..second /\ experiments[k].makers >= 1
      BY DEF EInv, ExperimentOK
    <3>2. \A w \in Workers : job[w] # None => job[w].number \in 1..number
      BY DEF EInv, ScriptOK
    <3>3. index # None => \A i \in DOMAIN index : index[i] = Header \/ index[i].run \in DOMAIN experiments
      BY DEF EInv, IndexOK, Described
    <3>4. QED
      BY <3>1, <3>2, <3>3 DEF EngineTypeOK, EInv, SplitsOK
  <2>2. ManifestWhole
    BY DEF EInv
  <2>3. RowsHaveManifests
    BY DEF EInv, IndexOK, Described, RowsHaveManifests
  <2>4. StudyNamesItsModel
    BY DEF EInv, StudiesOK, StudyOK, IsBest, StudyNamesItsModel
  <2>5. QED
    BY <2>1, <2>2, <2>3, <2>4 DEF StoreSound
<1>2. QED
  BY EngineInitial, EngineStep, <1>1, PTL DEF EngineSpec

-----------------------------------------------------------------------------
(* What was finished stays, and a rebuild lists it. *)

\* Only a training that has its name changes a directory, and it chose the name
\* before the directory was there.
LEMMA OnlyTheNamed ==
  ASSUME Markers, EInv, [EngineNext]_engineVars, NEW k \in DOMAIN experiments
  PROVE  /\ k \in DOMAIN experiments'
         /\ experiments'[k] # experiments[k] =>
              \E w \in Workers : /\ job[w] # None /\ "key" \in DOMAIN job[w]
                                /\ job[w].key = k /\ job[w].created <= experiments[k].born
<1> DEFINE Named(w) == /\ job[w] # None /\ "key" \in DOMAIN job[w]
                       /\ job[w].key = k /\ job[w].created <= experiments[k].born
<1>1. ASSUME NEW w \in Workers, job[w] # None, job[w].stage \in Naming, job[w].key = k
      PROVE  Named(w)
  BY <1>1 DEF EInv, NameOK
<1>2. ASSUME NEW w \in Workers, MakeDirectory(w)
      PROVE  k \in DOMAIN experiments' /\ (experiments'[k] # experiments[k] => Named(w))
  <2>1. /\ job[w] # None /\ job[w].stage \in Naming
        /\ DOMAIN experiments' = DOMAIN experiments \cup {job[w].key}
        /\ k # job[w].key => experiments'[k] = experiments[k]
    BY <1>2, TakenFacts DEF Naming
  <2>2. QED
    BY <1>1, <2>1
<1>3. ASSUME NEW w \in Workers, NEW part \in {"model", "metrics", "manifest"}, NEW what, part = "manifest" => what # None,
             job[w] # None, job[w].stage = part, Overwrites(w, part, what)
      PROVE  k \in DOMAIN experiments' /\ (experiments'[k] # experiments[k] => Named(w))
  <2>1. /\ DOMAIN experiments' = DOMAIN experiments
        /\ k # job[w].key => experiments'[k] = experiments[k]
    BY <1>3, OverwriteFacts
  <2>2. job[w].stage \in Naming
    BY <1>3 DEF Naming
  <2>3. QED
    BY <1>1, <1>3, <2>1, <2>2
<1>4. ASSUME NEW w \in Workers, NEW part \in {"model", "metrics", "manifest"}, WriteExperiment(w, part)
      PROVE  k \in DOMAIN experiments' /\ (experiments'[k] # experiments[k] => Named(w))
  <2>1. PICK what : what = Contents(w, part)
    OBVIOUS
  <2>2. job[w] # None /\ job[w].stage = part /\ Overwrites(w, part, what)
    BY <1>4, <2>1 DEF WriteExperiment, InStage, Overwrites
  <2>3. part = "manifest" => what # None
    BY <2>1 DEF Contents, Manifest, Markers
  <2>4. QED
    BY <1>3, <2>2, <2>3
<1>5. ASSUME NEW w \in Workers, Kill(w)
      PROVE  k \in DOMAIN experiments' /\ (experiments'[k] # experiments[k] => Named(w))
  <2>1. CASE experiments' = experiments
    BY <2>1
  <2>2. CASE experiments' # experiments
    <3>1. /\ job[w] # None /\ job[w].stage \in {"model", "metrics", "manifest"}
          /\ experiments' = [experiments EXCEPT ![job[w].key] = [@ EXCEPT ![job[w].stage] = Torn]]
      BY <1>5, <2>2 DEF Kill, stores
    <3>2. PICK part \in {"model", "metrics", "manifest"} : job[w].stage = part
      BY <3>1
    <3>3. Overwrites(w, part, Torn) /\ (part = "manifest" => Torn # None)
      BY <3>1, <3>2 DEF Overwrites, Markers
    <3>4. QED
      BY <1>3, <3>1, <3>2, <3>3
  <2>3. QED
    BY <2>1, <2>2
<1>6. CASE experiments' = experiments
  BY <1>6
<1>7. CASE experiments' # experiments
  <2>1. \E w \in Workers : \/ MakeDirectory(w) \/ Kill(w)
                           \/ \E part \in {"model", "metrics", "manifest"} : WriteExperiment(w, part)
    <3>1. CASE UNCHANGED engineVars
      BY <1>7, <3>1 DEF engineVars, stores
    <3>2. CASE Replace
      BY <1>7, <3>2 DEF Replace, stores
    <3>3. ASSUME NEW w \in Workers,
                 \/ Start(w) \/ RunElsewhere(w) \/ Load(w) \/ WriteTransforms(w) \/ ReadSplit(w) \/ SelectFeatures(w)
                 \/ WriteMetadata(w) \/ WriteSelector(w)
          PROVE  FALSE
      BY <1>7, <3>3 DEF Start, RunElsewhere, Load, WriteTransforms, ReadSplit, SelectFeatures, WriteMetadata,
         WriteSelector, stores
    <3>4. ASSUME NEW w \in Workers,
                 \/ Audit(w) \/ Fit(w) \/ NameExperiment(w) \/ LookAtIndex(w) \/ AppendRow(w)
                 \/ RunTrial(w) \/ TrainFinalModel(w) \/ WriteStudy(w)
                 \/ CollectManifests(w) \/ TruncateIndex(w) \/ FillIndex(w)
          PROVE  FALSE
      <4>1. UNCHANGED experiments
        BY <3>4 DEF Audit, Fit, NameExperiment, LookAtIndex, AppendRow, RunTrial, TrainFinalModel, WriteStudy,
           CollectManifests, TruncateIndex, FillIndex, stores
      <4>2. QED
        BY <1>7, <4>1
    <3>5. ASSUME NEW w \in Workers, NEW s \in ToSet(SplitNames), WriteProcessedSplit(w, s) \/ WriteFeatureSplit(w, s)
          PROVE  FALSE
      BY <1>7, <3>5 DEF WriteProcessedSplit, WriteFeatureSplit
    <3>6. QED
      BY <3>1, <3>2, <3>3, <3>4, <3>5 DEF EngineNext
  <2>2. QED
    BY <1>2, <1>4, <1>5, <2>1
<1>8. QED
  BY <1>6, <1>7

\* A rebuild writes the header and the rows of the manifests it has read.
LEMMA RebuildLists ==
  ASSUME EInv, [EngineNext]_engineVars, NEW w \in Workers,
         At(w, "experiment_index", "fill"), job'[w] = None, index' # index
  PROVE  /\ index'[1] = Header /\ Len(index') = Cardinality(job[w].known) + 1
         /\ {index'[i].run : i \in 2..Len(index')} = job[w].known
         /\ \A i, j \in 2..Len(index') : i < j => index'[i].created < index'[j].created
<1> PICK rows, known : rows = job[w].rows /\ known = job[w].known
  OBVIOUS
<1>1. job[w] # None /\ job[w].step = "experiment_index" /\ job[w].stage = "fill"
  BY DEF At
<1>2. FillIndex(w)
  <2>1. ASSUME NEW u \in Workers, u # w, Bystanders(u) PROVE FALSE
    BY <1>1, <2>1 DEF Bystanders
  <2>2. ASSUME NEW u \in Workers, AppendRow(u) \/ TruncateIndex(u) \/ FillIndex(u)
        PROVE  Bystanders(u) /\ (u = w => FillIndex(u))
    <3>1. (\E code : End(u, code)) \/ (job[u] # None /\ \E stage, more : Go(u, stage, more))
      BY <2>2 DEF AppendRow, TruncateIndex, FillIndex, Finish, InStage, At
    <3>2. Bystanders(u)
      BY <3>1, EndFacts, GoFacts
    <3>3. u = w => ~AppendRow(u) /\ ~TruncateIndex(u)
      BY <1>1 DEF AppendRow, TruncateIndex, InStage, At
    <3>4. QED
      BY <2>2, <3>2, <3>3
  <2>3. \E u \in Workers : AppendRow(u) \/ TruncateIndex(u) \/ FillIndex(u)
    <3>1. CASE UNCHANGED engineVars
      BY <3>1 DEF engineVars, stores
    <3>2. CASE Replace
      BY <3>2 DEF Replace, stores
    <3>3. ASSUME NEW u \in Workers,
                 \/ Start(u) \/ RunElsewhere(u) \/ Load(u) \/ WriteTransforms(u) \/ ReadSplit(u) \/ SelectFeatures(u)
                 \/ WriteMetadata(u) \/ WriteSelector(u)
          PROVE  FALSE
      <4>1. UNCHANGED index
        BY <3>3 DEF Start, RunElsewhere, Load, WriteTransforms, ReadSplit, SelectFeatures, WriteMetadata,
           WriteSelector, stores
      <4>2. QED
        BY <4>1
    <3>4. ASSUME NEW u \in Workers,
                 \/ Audit(u) \/ Fit(u) \/ NameExperiment(u) \/ MakeDirectory(u) \/ LookAtIndex(u)
                 \/ RunTrial(u) \/ TrainFinalModel(u) \/ WriteStudy(u) \/ CollectManifests(u) \/ Kill(u)
          PROVE  FALSE
      <4>1. UNCHANGED index
        BY <3>4 DEF Audit, Fit, NameExperiment, MakeDirectory, LookAtIndex, RunTrial, TrainFinalModel, WriteStudy,
           CollectManifests, Kill, stores
      <4>2. QED
        BY <4>1
    <3>5. ASSUME NEW u \in Workers, NEW s \in ToSet(SplitNames), WriteProcessedSplit(u, s) \/ WriteFeatureSplit(u, s)
          PROVE  FALSE
      BY <3>5 DEF WriteProcessedSplit, WriteFeatureSplit
    <3>6. ASSUME NEW u \in Workers, NEW part \in {"model", "metrics", "manifest"}, WriteExperiment(u, part)
          PROVE  FALSE
      BY <3>6 DEF WriteExperiment
    <3>7. QED
      BY <3>1, <3>2, <3>3, <3>4, <3>5, <3>6 DEF EngineNext
  <2>4. QED
    BY <2>1, <2>2, <2>3
<1>3. RowsOf(rows, known)
  BY <1>1 DEF EInv, CollectedOK
<1>4. index' = <<Header>> \o rows
  BY <1>2 DEF FillIndex
<1>5. Listed(rows) /\ Len(rows) = Cardinality(known) /\ DOMAIN rows = 1..Len(rows) /\ Len(rows) \in Nat
  BY <1>3 DEF RowsOf, Listed
<1>6. rows \in Seq(ToSet(rows) \cup {Header}) /\ <<Header>> \in Seq(ToSet(rows) \cup {Header})
  BY <1>5 DEF Listed
<1>7. /\ Len(<<Header>> \o rows) = Len(rows) + 1 /\ (<<Header>> \o rows)[1] = Header
      /\ \A i \in 1..Len(rows) : (<<Header>> \o rows)[i + 1] = rows[i]
  BY <1>5, <1>6
<1>8. \A i \in 2..Len(rows) + 1 : i - 1 \in 1..Len(rows) /\ index'[i] = rows[i - 1]
  <2> SUFFICES ASSUME NEW i \in 2..Len(rows) + 1 PROVE i - 1 \in 1..Len(rows) /\ index'[i] = rows[i - 1]
    OBVIOUS
  <2>1. i - 1 \in 1..Len(rows) /\ (i - 1) + 1 = i
    BY <1>5
  <2>2. QED
    BY <1>4, <1>7, <2>1
<1>9. {index'[i].run : i \in 2..Len(rows) + 1} = known
  <2>1. \A i \in 1..Len(rows) : i + 1 \in 2..Len(rows) + 1 /\ index'[i + 1] = rows[i]
    BY <1>4, <1>5, <1>7
  <2>2. {rows[i].run : i \in 1..Len(rows)} = known
    BY <1>3, <1>5 DEF RowsOf
  <2>3. ASSUME NEW i \in 2..Len(rows) + 1 PROVE index'[i].run \in known
    BY <1>8, <2>2
  <2>4. ASSUME NEW k \in known PROVE \E i \in 2..Len(rows) + 1 : index'[i].run = k
    <3>1. PICK i \in 1..Len(rows) : rows[i].run = k
      BY <2>2
    <3>2. QED
      BY <2>1, <3>1
  <2>5. QED
    BY <2>3, <2>4
<1>10. ASSUME NEW i \in 2..Len(rows) + 1, NEW j \in 2..Len(rows) + 1, i < j PROVE index'[i].created < index'[j].created
  <2>1. i - 1 < j - 1
    BY <1>5, <1>10
  <2>2. rows[i - 1].created < rows[j - 1].created
    BY <1>3, <1>5, <1>8, <2>1 DEF RowsOf
  <2>3. QED
    BY <1>8, <2>2
<1>11. index'[1] = Header /\ Len(index') = Len(rows) + 1
  BY <1>4, <1>7
<1>12. QED
  BY <1>5, <1>9, <1>10, <1>11

\* A finished experiment changes only through a training that chose its name
\* before the directory was there, and a rebuilt index lists every manifest that
\* can be read once, the oldest first.
THEOREM StoreKeptHolds ==
  ASSUME Markers
  PROVE  EngineSpec => StoreKept
<1> DEFINE Stays == \A k \in DOMAIN experiments : experiments[k].manifest # None =>
                      /\ k \in DOMAIN experiments'
                      /\ experiments'[k] # experiments[k] =>
                           \E w \in Workers : /\ job[w] # None /\ "key" \in DOMAIN job[w]
                                             /\ job[w].key = k /\ job[w].created <= experiments[k].born
           Restores == \A w \in Workers :
                         At(w, "experiment_index", "fill") /\ job'[w] = None /\ index' # index /\ job[w].known = Readable =>
                           /\ index'[1] = Header /\ Len(index') = Cardinality(Readable) + 1
                           /\ {index'[i].run : i \in 2..Len(index')} = Readable
                           /\ \A i, j \in 2..Len(index') : i < j => index'[i].created < index'[j].created
<1>1. EInv /\ [EngineNext]_engineVars => Stays
  BY OnlyTheNamed
<1>2. EInv /\ [EngineNext]_engineVars => Restores
  <2> SUFFICES ASSUME EInv, [EngineNext]_engineVars, NEW w \in Workers,
                      At(w, "experiment_index", "fill"), job'[w] = None, index' # index, job[w].known = Readable
               PROVE  /\ index'[1] = Header /\ Len(index') = Cardinality(Readable) + 1
                      /\ {index'[i].run : i \in 2..Len(index')} = Readable
                      /\ \A i, j \in 2..Len(index') : i < j => index'[i].created < index'[j].created
    OBVIOUS
  <2>1. /\ index'[1] = Header /\ Len(index') = Cardinality(job[w].known) + 1
        /\ {index'[i].run : i \in 2..Len(index')} = job[w].known
        /\ \A i, j \in 2..Len(index') : i < j => index'[i].created < index'[j].created
    BY RebuildLists
  <2>2. QED
    BY <2>1
<1>3. EInv /\ [EngineNext]_engineVars => EInv'
  BY EngineStep
<1> HIDE DEF Stays, Restores
<1>4. EngineSpec => [][Stays]_engineVars /\ [][Restores]_engineVars
  BY EngineInitial, <1>1, <1>2, <1>3, PTL DEF EngineSpec
<1>5. QED
  BY <1>4, PTL DEF StoreKept, FinishedStays, RebuildRestores, Stays, Restores

-----------------------------------------------------------------------------
(* The epochs of a deep model. *)

Loop == [best : Int \cup {Infinite}, bad : Nat, restored : Nat, epochs : Nat, stopped : BOOLEAN]

\* An epoch is better than all before it, or is one more bad one.
EpochGoes(loop, loss, next) ==
  /\ next \in Loop
  /\ loop.stopped => next = loop
  /\ ~loop.stopped => next.epochs = loop.epochs + 1
  /\ ~loop.stopped /\ Improves(loss, loop.best) =>
       next.best = loss /\ next.bad = 0 /\ next.restored = loop.epochs + 1 /\ ~next.stopped
  /\ ~loop.stopped /\ ~Improves(loss, loop.best) =>
       /\ next.best = loop.best /\ next.bad = loop.bad + 1 /\ next.restored = loop.restored
       /\ next.stopped <=> loop.bad + 1 >= Patience

\* An epoch goes on as the loop has it.
LEMMA EpochFacts ==
  ASSUME NEW loop \in Loop, NEW loss \in Int \cup {Missing}, NEW next, next = Epoch(loop, loss)
  PROVE  EpochGoes(loop, loss, next)
<1>1. /\ loop.best \in Int \cup {Infinite} /\ loop.bad \in Nat /\ loop.restored \in Nat /\ loop.epochs \in Nat
      /\ loop = [best |-> loop.best, bad |-> loop.bad, restored |-> loop.restored, epochs |-> loop.epochs,
                 stopped |-> loop.stopped]
  BY DEF Loop
<1>2. CASE loop.stopped
  BY <1>2 DEF Epoch, EpochGoes
<1>3. CASE ~loop.stopped /\ Improves(loss, loop.best)
  <2>1. next = [best |-> loss, bad |-> 0, restored |-> loop.epochs + 1, epochs |-> loop.epochs + 1,
                stopped |-> loop.stopped]
    BY <1>1, <1>3 DEF Epoch
  <2>2. loss \in Int
    BY <1>3 DEF Improves
  <2>3. loop.stopped \in BOOLEAN
    BY DEF Loop
  <2>4. next \in Loop
    BY <1>1, <2>1, <2>2, <2>3 DEF Loop
  <2>5. next.stopped = loop.stopped
    BY <2>1
  <2>6. QED
    BY <1>3, <2>1, <2>4, <2>5 DEF EpochGoes
<1>4. CASE ~loop.stopped /\ ~Improves(loss, loop.best)
  <2>1. next = [loop EXCEPT !.bad = @ + 1, !.epochs = @ + 1, !.stopped = loop.bad + 1 >= Patience]
    BY <1>4 DEF Epoch
  <2>2. next = [best |-> loop.best, bad |-> loop.bad + 1, restored |-> loop.restored, epochs |-> loop.epochs + 1,
                stopped |-> loop.bad + 1 >= Patience]
    BY <1>1, <2>1
  <2> DEFINE late == loop.bad + 1 >= Patience
  <2>3. late \in BOOLEAN
    OBVIOUS
  <2>4. next = [best |-> loop.best, bad |-> loop.bad + 1, restored |-> loop.restored, epochs |-> loop.epochs + 1,
                stopped |-> late]
    BY <2>2
  <2> HIDE DEF late
  <2>5. next \in Loop
    BY <1>1, <2>3, <2>4 DEF Loop
  <2>6. /\ next.best = loop.best /\ next.bad = loop.bad + 1 /\ next.restored = loop.restored
        /\ next.epochs = loop.epochs + 1
    BY <2>4
  <2>7. next.stopped <=> loop.bad + 1 >= Patience
    <3>1. next.stopped = late
      BY <2>4
    <3>2. QED
      BY <3>1, Zenon DEF late
  <2>8. QED
    BY <1>4, <2>5, <2>6, <2>7 DEF EpochGoes
<1>5. QED
  BY <1>2, <1>3, <1>4

\* The loop after the first k epochs.
LEMMA LoopRuns ==
  ASSUME NEW losses \in Seq(Int \cup {Missing})
  PROVE  \E run : /\ run[0] = BeforeTraining
                  /\ \A k \in 1..Len(losses) : run[k] = Epoch(run[k - 1], losses[k])
                  /\ TrainLoop(losses) =
                       [ epochs |-> run[Len(losses)].epochs,
                         weights |-> IF run[Len(losses)].restored = 0 THEN run[Len(losses)].epochs
                                     ELSE run[Len(losses)].restored ]
<1> DEFINE Y == Int \cup {Missing}
           n == Len(losses)
           step == [p \in Loop \X Y |-> Epoch(p[1], p[2])]
           Folded(it) == it = [d \in SUBSET (DOMAIN losses) |->
                                IF d = {} THEN BeforeTraining ELSE Epoch(it[d \ {Max(d)}], losses[Max(d)])]
           it == CHOOSE it : Folded(it)
<1>1. losses \in Seq(Y) /\ n \in Nat /\ DOMAIN losses = 1..n /\ \A k \in 1..n : losses[k] \in Y
  OBVIOUS
<1>2. step \in [Loop \X Y -> Loop] /\ BeforeTraining \in Loop
  <2>1. BeforeTraining \in Loop
    BY DEF BeforeTraining, Loop
  <2>2. \A p \in Loop \X Y : Epoch(p[1], p[2]) \in Loop
    <3> SUFFICES ASSUME NEW p \in Loop \X Y PROVE Epoch(p[1], p[2]) \in Loop
      OBVIOUS
    <3>1. p[1] \in Loop /\ p[2] \in Int \cup {Missing}
      OBVIOUS
    <3>2. EpochGoes(p[1], p[2], Epoch(p[1], p[2]))
      BY ONLY <3>1, EpochFacts
    <3>3. QED
      BY <3>2 DEF EpochGoes
  <2>3. QED
    BY <2>1, <2>2
<1>3. \E f : Folded(f)
  <2>1. PICK f \in [SUBSET (DOMAIN losses) -> Loop] : FoldOf(f, losses, BeforeTraining, step)
    <3> HIDE DEF step, Y
    <3>1. QED
      BY <1>1, <1>2, FoldExists
  <2>2. ASSUME NEW d \in SUBSET (DOMAIN losses), d # {}
        PROVE  step[<<f[d \ {Max(d)}], losses[Max(d)]>>] = Epoch(f[d \ {Max(d)}], losses[Max(d)])
    <3>1. Max(d) \in d
      BY <1>1, <2>2, MaxIsMax
    <3>2. f[d \ {Max(d)}] \in Loop /\ losses[Max(d)] \in Y
      BY <1>1, <2>1, <3>1
    <3>3. QED
      BY <3>2
  <2> HIDE DEF step
  <2>3. \A d \in SUBSET (DOMAIN losses) :
          f[d] = IF d = {} THEN BeforeTraining ELSE Epoch(f[d \ {Max(d)}], losses[Max(d)])
    BY <2>1, <2>2 DEF FoldOf
  <2>4. f = [d \in SUBSET (DOMAIN losses) |->
               IF d = {} THEN BeforeTraining ELSE Epoch(f[d \ {Max(d)}], losses[Max(d)])]
    BY <2>1, <2>3
  <2>5. QED
    BY <2>4
<1>4. Folded(it)
  BY <1>3
<1> DEFINE end == FoldLeft(Epoch, BeforeTraining, losses)
<1>5. end = it[DOMAIN losses]
  BY DEF FoldLeft, MapThenFoldSet
<1>6. TrainLoop(losses) = [epochs |-> end.epochs, weights |-> IF end.restored = 0 THEN end.epochs ELSE end.restored]
  BY DEF TrainLoop
<1> HIDE DEF end
<1> DEFINE run == [k \in 0..n |-> it[1..k]]
<1> HIDE DEF it
<1>7. run[0] = BeforeTraining
  <2>1. 1..0 = {} /\ {} \in SUBSET (DOMAIN losses) /\ 0 \in 0..n
    BY <1>1
  <2>2. it[{}] = BeforeTraining
    BY <1>4, <2>1
  <2>3. QED
    BY <2>1, <2>2
<1>8. ASSUME NEW k \in 1..n PROVE run[k] = Epoch(run[k - 1], losses[k])
  <2>1. 1..k # {} /\ Max(1..k) = k /\ (1..k) \ {k} = 1..(k - 1)
    BY <1>1, FirstNumbers
  <2>2. 1..k \in SUBSET (DOMAIN losses) /\ k \in 0..n /\ k - 1 \in 0..n
    BY <1>1
  <2>3. run[k] = it[1..k] /\ run[k - 1] = it[1..(k - 1)]
    BY <2>2
  <2>4. it[1..k] = Epoch(it[(1..k) \ {Max(1..k)}], losses[Max(1..k)])
    BY <1>4, <2>1, <2>2
  <2> HIDE DEF run
  <2>5. QED
    BY <2>1, <2>3, <2>4
<1>9. run[n] = end
  BY <1>1, <1>5
<1> HIDE DEF run
<1>10. QED
  BY <1>6, <1>7, <1>8, <1>9

\* What the loop knows after k epochs.
Remembered(losses, loop) ==
  IF loop.best = Infinite
  THEN loop.restored = 0 /\ \A e \in 1..loop.epochs : losses[e] = Missing
  ELSE /\ loop.restored \in 1..loop.epochs /\ losses[loop.restored] = loop.best
       /\ \A e \in 1..loop.epochs : losses[e] # Missing => losses[e] >= loop.best - MinDelta

LoopSoFar(losses, loop, k) ==
  /\ loop \in Loop /\ Remembered(losses, loop)
  /\ loop.epochs <= k /\ (~loop.stopped => loop.epochs = k)
  /\ loop.bad = loop.epochs - loop.restored /\ loop.bad <= Patience
  /\ loop.stopped => loop.bad = Patience
  /\ ~loop.stopped => loop.bad < Patience

\* What is true of the first epochs is true with one more.
LEMMA OneMoreEpoch ==
  ASSUME NEW losses \in Seq(Int \cup {Missing}), NEW k \in Nat, k + 1 <= Len(losses), NEW loop,
         LoopSoFar(losses, loop, k), NEW next, next = Epoch(loop, losses[k + 1])
  PROVE  LoopSoFar(losses, next, k + 1)
<1> PICK loss : loss = losses[k + 1]
  OBVIOUS
<1>1. loss \in Int \cup {Missing} /\ Patience \in Nat \ {0} /\ MinDelta \in Nat
  BY LoopAssumption
<1>2. /\ loop \in Loop /\ Remembered(losses, loop)
      /\ loop.epochs <= k /\ (~loop.stopped => loop.epochs = k)
      /\ loop.bad = loop.epochs - loop.restored /\ loop.bad <= Patience
      /\ loop.stopped => loop.bad = Patience
      /\ ~loop.stopped => loop.bad < Patience
  BY DEF LoopSoFar
<1>3. EpochGoes(loop, loss, next)
  <2>1. next = Epoch(loop, loss)
    OBVIOUS
  <2>2. QED
    BY ONLY <1>1, <1>2, <2>1, EpochFacts
<1>4. loop.best \in Int \cup {Infinite} /\ loop.bad \in Nat /\ loop.restored \in Nat /\ loop.epochs \in Nat
  BY <1>2 DEF Loop
<1>5. CASE loop.stopped
  <2>1. next = loop
    BY <1>3, <1>5 DEF EpochGoes
  <2>2. QED
    BY <1>2, <1>4, <1>5, <2>1 DEF LoopSoFar
<1>6. CASE ~loop.stopped /\ Improves(loss, loop.best)
  <2>1. /\ next.epochs = k + 1 /\ next.best = loss /\ next.bad = 0 /\ next.restored = k + 1 /\ ~next.stopped
        /\ loop.epochs = k
    BY <1>2, <1>3, <1>6 DEF EpochGoes
  <2>2. loss \in Int /\ loss # Infinite /\ loss = losses[k + 1]
    BY <1>1, <1>6, DatasetAssumption DEF Improves
  <2>3. \A e \in 1..k + 1 : e \in 1..k \/ e = k + 1
    OBVIOUS
  <2>4. \A e \in 1..k : losses[e] \in Int \cup {Missing}
    OBVIOUS
  <2>5. \A e \in 1..k + 1 : losses[e] # Missing => losses[e] >= loss - MinDelta
    <3>1. CASE loop.best = Infinite
      <4>1. \A e \in 1..k : losses[e] = Missing
        BY <1>2, <2>1, <3>1 DEF Remembered
      <4>2. QED
        BY <1>1, <2>2, <2>3, <4>1
    <3>2. CASE loop.best # Infinite
      <4>1. \A e \in 1..k : losses[e] # Missing => losses[e] >= loop.best - MinDelta
        BY <1>2, <2>1, <3>2 DEF Remembered
      <4>2. loss < loop.best - MinDelta /\ loop.best \in Int
        BY <1>4, <1>6, <3>2 DEF Improves
      <4>3. QED
        BY <1>1, <2>2, <2>3, <2>4, <4>1, <4>2
    <3>3. QED
      BY <3>1, <3>2
  <2>6. Remembered(losses, next)
    <3>1. k + 1 \in 1..k + 1
      OBVIOUS
    <3>2. QED
      BY <2>1, <2>2, <2>5, <3>1 DEF Remembered
  <2>7. QED
    BY <1>1, <1>3, <2>1, <2>6 DEF LoopSoFar, EpochGoes
<1>7. CASE ~loop.stopped /\ ~Improves(loss, loop.best)
  <2>1. /\ next.epochs = k + 1 /\ next.best = loop.best /\ next.bad = loop.bad + 1 /\ next.restored = loop.restored
        /\ next.stopped <=> loop.bad + 1 >= Patience
        /\ loop.epochs = k
    BY <1>2, <1>3, <1>7 DEF EpochGoes
  <2>2. \A e \in 1..k + 1 : e \in 1..k \/ e = k + 1
    OBVIOUS
  <2>3. Remembered(losses, next)
    <3>1. CASE loop.best = Infinite
      <4>1. loss = Missing
        BY <1>7, <3>1 DEF Improves
      <4>2. loop.restored = 0 /\ \A e \in 1..k : losses[e] = Missing
        BY <1>2, <2>1, <3>1 DEF Remembered
      <4>3. QED
        BY <2>1, <2>2, <3>1, <4>1, <4>2 DEF Remembered
    <3>2. CASE loop.best # Infinite
      <4>1. /\ loop.restored \in 1..k /\ losses[loop.restored] = loop.best
            /\ \A e \in 1..k : losses[e] # Missing => losses[e] >= loop.best - MinDelta
        BY <1>2, <2>1, <3>2 DEF Remembered
      <4>2. loop.best \in Int
        BY <1>4, <3>2
      <4>3. loss # Missing => loss \in Int /\ ~(loss < loop.best - MinDelta)
        BY <1>1, <1>7, <3>2 DEF Improves
      <4>4. loss # Missing => loss >= loop.best - MinDelta
        BY <1>1, <4>2, <4>3
      <4>5. loop.restored \in 1..k + 1
        BY <4>1
      <4>6. QED
        BY <2>1, <2>2, <3>2, <4>1, <4>4, <4>5 DEF Remembered
    <3>3. QED
      BY <3>1, <3>2
  <2>4. QED
    BY <1>1, <1>2, <1>3, <1>4, <1>7, <2>1, <2>3 DEF LoopSoFar, EpochGoes
<1>8. QED
  BY <1>5, <1>6, <1>7

\* The weights are those of the best epoch, and the patience was used up since it.
LEMMA LoopFacts ==
  ASSUME NEW losses \in Seq(Int \cup {Missing}), NEW loop, loop = TrainLoop(losses),
         NEW some, some = SubSeq(losses, 1, loop.epochs)
  PROVE  /\ ToSet(some) \ {Missing} # {} =>
              /\ some[loop.weights] # Missing
              /\ \A e \in DOMAIN some : some[e] # Missing => some[e] >= some[loop.weights] - MinDelta
         /\ LET since == loop.epochs - IF ToSet(some) \ {Missing} = {} THEN 0 ELSE loop.weights
            IN since <= Patience /\ (loop.epochs < Len(losses) => since = Patience)
<1> DEFINE n == Len(losses)
<1>1. PICK run : /\ run[0] = BeforeTraining
                 /\ \A k \in 1..n : run[k] = Epoch(run[k - 1], losses[k])
                 /\ loop = [ epochs |-> run[n].epochs,
                             weights |-> IF run[n].restored = 0 THEN run[n].epochs ELSE run[n].restored ]
  BY LoopRuns
<1> DEFINE T == {k \in Nat : k <= n => LoopSoFar(losses, run[k], k)}
<1>2. n \in Nat /\ DOMAIN losses = 1..n /\ Patience \in Nat \ {0} /\ MinDelta \in Nat
  BY LoopAssumption
<1>3. 0 \in T
  <2>1. BeforeTraining \in Loop
    BY DEF BeforeTraining, Loop
  <2>2. /\ BeforeTraining.best = Infinite /\ BeforeTraining.bad = 0 /\ BeforeTraining.restored = 0
        /\ BeforeTraining.epochs = 0
    BY DEF BeforeTraining
  <2>3. ~BeforeTraining.stopped
    BY Zenon DEF BeforeTraining
  <2>4. LoopSoFar(losses, BeforeTraining, 0)
    BY <1>2, <2>1, <2>2, <2>3 DEF LoopSoFar, Remembered
  <2>5. QED
    BY <1>1, <2>4
<1>4. ASSUME NEW k \in T PROVE k + 1 \in T
  <2>1. k \in Nat /\ k + 1 \in Nat /\ k + 1 - 1 = k
    OBVIOUS
  <2> SUFFICES ASSUME k + 1 <= n PROVE LoopSoFar(losses, run[k + 1], k + 1)
    BY <2>1
  <2>2. k <= n /\ k + 1 \in 1..n
    BY <1>2, <2>1
  <2>3. LoopSoFar(losses, run[k], k)
    BY <2>2
  <2>4. run[k + 1] = Epoch(run[k], losses[k + 1])
    BY <1>1, <2>1, <2>2
  <2> HIDE DEF T
  <2>5. QED
    BY <2>1, <2>3, <2>4, OneMoreEpoch
<1>5. n \in T
  <2>1. T \subseteq Nat
    OBVIOUS
  <2> HIDE DEF T
  <2>2. QED
    BY <1>2, <1>3, <1>4, <2>1, Inductive
<1> PICK end : end = run[n]
  OBVIOUS
<1>6. LoopSoFar(losses, end, n)
  BY <1>2, <1>5
<1> HIDE DEF T
<1>7. /\ end \in Loop /\ Remembered(losses, end)
      /\ end.epochs <= n /\ (~end.stopped => end.epochs = n)
      /\ end.bad = end.epochs - end.restored /\ end.bad <= Patience
      /\ end.stopped => end.bad = Patience
  BY <1>6 DEF LoopSoFar
<1>8. end.best \in Int \cup {Infinite} /\ end.bad \in Nat /\ end.restored \in Nat /\ end.epochs \in Nat
  BY <1>7 DEF Loop
<1>9. loop.epochs = end.epochs /\ loop.weights = IF end.restored = 0 THEN end.epochs ELSE end.restored
  BY <1>1
<1>10. /\ DOMAIN some = 1..end.epochs /\ \A e \in 1..end.epochs : some[e] = losses[e]
       /\ ToSet(some) = {losses[e] : e \in 1..end.epochs}
  <2>1. some = [e \in 1..end.epochs |-> losses[e]]
    BY <1>2, <1>7, <1>8, <1>9
  <2>2. QED
    BY <2>1 DEF ToSet
<1>11. CASE end.best = Infinite
  <2>1. end.restored = 0 /\ ToSet(some) \ {Missing} = {}
    BY <1>7, <1>10, <1>11 DEF Remembered
  <2>2. loop.epochs < n => end.bad = Patience
    BY <1>2, <1>7, <1>8, <1>9
  <2>3. QED
    BY <1>2, <1>7, <1>8, <1>9, <2>1, <2>2
<1>12. CASE end.best # Infinite
  <2>1. /\ end.restored \in 1..end.epochs /\ losses[end.restored] = end.best
        /\ \A e \in 1..end.epochs : losses[e] # Missing => losses[e] >= end.best - MinDelta
    BY <1>7, <1>12 DEF Remembered
  <2>2. loop.weights = end.restored /\ some[end.restored] = end.best /\ end.best # Missing
    BY <1>8, <1>9, <1>10, <1>12, <2>1, DatasetAssumption
  <2>3. ToSet(some) \ {Missing} # {}
    BY <1>10, <2>1, <2>2
  <2>4. loop.epochs < n => end.bad = Patience
    BY <1>2, <1>7, <1>8, <1>9
  <2>5. QED
    BY <1>2, <1>7, <1>8, <1>9, <1>10, <2>1, <2>2, <2>3, <2>4
<1>13. QED
  BY <1>11, <1>12

-----------------------------------------------------------------------------
(* The scripts of a worker, while the worker or another one goes on. *)

\* The calls of a worker are numbered.
LEMMA CallNumbers ==
  ASSUME EInv, NEW w \in Workers
  PROVE  DOMAIN scenario.calls[w] \subseteq Nat \ {0}
<1>1. place \in DOMAIN Scenarios
  BY DEF EInv, Shapes
<1>2. Listed(scenario.calls[w])
  BY <1>1, EngineAAssumption DEF scenario
<1>3. QED
  BY <1>2 DEF Listed

\* What is left to do is the script that runs and the agenda.
LEMMA TodoFacts ==
  ASSUME NEW w
  PROVE  /\ \A n \in DOMAIN agenda[w] : agenda[w][n] \in Todo(w)
         /\ job[w] # None => job[w] \in Todo(w)
         /\ \A x \in Todo(w) : (\E n \in DOMAIN agenda[w] : x = agenda[w][n]) \/ (job[w] # None /\ x = job[w])
<1>1. Todo(w) = ToSet(agenda[w]) \cup (IF job[w] = None THEN {} ELSE {job[w]})
  BY DEF Todo
<1>2. QED
  BY <1>1 DEF ToSet

\* What is said of calls stays.
LEMMA SamePlace ==
  ASSUME place' = place
  PROVE  /\ \A w, c : StrictAt(w, c)' <=> StrictAt(w, c)
         /\ \A w : (DOMAIN scenario.calls[w])' = DOMAIN scenario.calls[w]
BY DEF StrictAt, Strict, CallOf, scenario, Prepares, PreparesBoth

\* What is true of a script that is left stays true.
LEMMA ItemStays ==
  ASSUME NEW w, NEW x, place' = place, made'[w] = made[w], ItemOK(w, x)
  PROVE  ItemOK(w, x)'
BY DEF ItemOK, CallOf, scenario, Prepares, PreparesBoth

\* The progress of the script that runs now.
LEMMA ProgressFrom ==
  ASSUME NEW w, NEW j, j = job'[w], ProgressItem(w, j)'
  PROVE  ProgressOK(w)'
BY DEF ProgressOK, ProgressItem, StrictAt, Strict, CallOf, scenario, Prepares, PreparesBoth

\* Nobody else writes splits while a worker does that is strict about them.
LEMMA WritesAlone ==
  ASSUME EInv, NEW v \in Workers, NEW w \in Workers, v # w, WorkOK(v), job[v] # None,
         job[v].step \in {"preprocess", "features"}, NEW c
  PROVE  ~StrictAt(w, c)
<1>1. job[v] \in Todo(v)
  BY TodoFacts
<1>2. job[v].call \in DOMAIN scenario.calls[v] /\ Prepares(scenario.calls[v][job[v].call])
  BY <1>1 DEF WorkOK, ItemOK, CallOf
<1>3. QED
  BY <1>2 DEF StrictAt, Strict

\* What a worker has left to do and knows stays while it does nothing, where
\* no splits are written or it is not strict about them.
LEMMA AsideOK ==
  ASSUME NEW w \in Workers, job'[w] = job[w], agenda'[w] = agenda[w], made'[w] = made[w], place' = place,
         LearnedOK(w), OrderOK(w),
         (processed' = processed /\ features' = features) \/ \A c : ~StrictAt(w, c)
  PROVE  LearnedOK(w)' /\ OrderOK(w)'
<1>1. LearnedOK(w)'
  <2>1. LoopOK(w)' /\ ResultOK(w)' /\ ReadOK(w)' /\ FitOK(w)'
    BY DEF LearnedOK, LoopOK, ResultOK, ReadOK, FitOK, InStage, Needed, Listed
  <2>2. QED
    BY <2>1 DEF LearnedOK
<1>2. WorkOK(w) /\ FreshOK(w) /\ ProgressOK(w)
  BY DEF OrderOK
<1>3. Todo(w)' = Todo(w)
  BY DEF Todo
<1>4. WorkOK(w)'
  <2>1. \A x \in Todo(w)' : ItemOK(w, x)'
    BY <1>2, <1>3, ItemStays DEF WorkOK
  <2>2. QED
    BY <1>2, <2>1 DEF WorkOK, Sooner
<1>5. FreshOK(w)'
  <2> SUFFICES ASSUME NEW x \in Todo(w)' PROVE FreshItem(w, x)'
    BY DEF FreshOK
  <2>1. FreshItem(w, x) /\ (StrictAt(w, x.call)' <=> StrictAt(w, x.call))
    BY <1>2, <1>3, SamePlace DEF FreshOK
  <2>2. Pending(w, x.call, "preprocess")' = Pending(w, x.call, "preprocess")
        /\ Pending(w, x.call, "features")' = Pending(w, x.call, "features")
    BY <1>3 DEF Pending
  <2>3. QED
    BY <2>1, <2>2 DEF FreshItem, Of
<1>6. ProgressOK(w)'
  <2> SUFFICES ASSUME job[w] # None PROVE ProgressItem(w, job[w])'
    BY DEF ProgressOK
  <2> PICK j : j = job[w]
    OBVIOUS
  <2>1. ProgressItem(w, j) /\ (StrictAt(w, j.call)' <=> StrictAt(w, j.call))
    BY <1>2, SamePlace DEF ProgressOK
  <2>2. ProgressItem(w, j)'
    BY <2>1 DEF ProgressItem
  <2>3. QED
    BY <2>2, ProgressFrom DEF ProgressOK
<1>7. QED
  BY <1>1, <1>4, <1>5, <1>6 DEF OrderOK

\* None is not the record of a script.
NoScript == \A record, more : With(record, more) # None

\* A step of one worker.
Others(w) ==
  /\ place' = place /\ raw' = raw /\ made' = [u \in Workers |-> made'[u]]
  /\ \A u \in Workers \ {w} : job'[u] = job[u] /\ agenda'[u] = agenda[u] /\ made'[u] = made[u]

Quiet(w) == (processed' = processed /\ features' = features) \/ (job[w] # None /\ job[w].step \in {"preprocess", "features"})

\* A step of one worker leaves the others what they know.
LEMMA OwnStep ==
  ASSUME EInv, LearnedInv, NEW w \in Workers, Others(w), Quiet(w), FramesOK', LearnedOK(w)', OrderOK(w)'
  PROVE  LearnedInv'
<1>1. \A u \in Workers : LearnedOK(u) /\ OrderOK(u)
  BY DEF LearnedInv
<1>2. ASSUME NEW u \in Workers, u # w PROVE LearnedOK(u)' /\ OrderOK(u)'
  <2>1. job'[u] = job[u] /\ agenda'[u] = agenda[u] /\ made'[u] = made[u] /\ place' = place
    BY <1>2 DEF Others
  <2>2. (processed' = processed /\ features' = features) \/ \A c : ~StrictAt(u, c)
    <3>1. WorkOK(w)
      BY <1>1 DEF OrderOK
    <3>2. QED
      BY <1>2, <3>1, WritesAlone DEF Quiet
  <2>3. QED
    BY <1>1, <2>1, <2>2, AsideOK
<1>3. \A u \in Workers : LearnedOK(u)' /\ OrderOK(u)'
  BY <1>2
<1>4. raw' \in (DOMAIN scenario.histories)' /\ made' = [u \in Workers |-> made'[u]]
  BY DEF LearnedInv, Others, scenario
<1>5. QED
  BY <1>3, <1>4 DEF LearnedInv

\* A script that goes on leaves the others alone.
LEMMA GoAlone ==
  ASSUME EInv, LearnedInv, NEW w \in Workers, job[w] # None, NEW stage, NEW more, Go(w, stage, more), place' = place, raw' = raw
  PROVE  Others(w)
<1>1. agenda' = agenda /\ Bystanders(w)
  BY GoFacts
<1>2. made' = made
  BY DEF Go
<1>3. QED
  BY <1>1, <1>2 DEF LearnedInv, Others, Bystanders

\* A script goes on.
LEMMA GoWork ==
  ASSUME EInv, LearnedInv, NoScript, NEW w \in Workers, job[w] # None, NEW stage, NEW more, Go(w, stage, more), place' = place,
         {"step", "call", "goesOn", "stage", "number"} \cap DOMAIN more = {}, stage # "elsewhere"
  PROVE  /\ job'[w] # None /\ made'[w] = made[w] /\ agenda'[w] = agenda[w]
         /\ job'[w].step = job[w].step /\ job'[w].call = job[w].call /\ job'[w].number = job[w].number
         /\ job'[w].stage = stage
         /\ \A f \in DOMAIN more : f \in DOMAIN job'[w] /\ job'[w][f] = more[f]
         /\ \A f \in DOMAIN job[w] \ (DOMAIN more \cup {"stage"}) : f \in DOMAIN job'[w] /\ job'[w][f] = job[w][f]
         /\ \A c, s : Pending(w, c, s)' <=> Pending(w, c, s)
         /\ WorkOK(w)'
<1>1. Fields \subseteq DOMAIN job[w] /\ job = [u \in Workers |-> job[u]]
  BY DEF EInv, ScriptOK, Shapes
<1>2. /\ agenda' = agenda
      /\ DOMAIN job'[w] = DOMAIN job[w] \cup DOMAIN more
      /\ \A f \in DOMAIN more : job'[w][f] = more[f]
      /\ "stage" \notin DOMAIN more => job'[w].stage = stage
      /\ \A f \in DOMAIN job[w] \ (DOMAIN more \cup {"stage"}) : job'[w][f] = job[w][f]
  BY GoFacts
<1>3. made' = made /\ job'[w] # None
  BY <1>1 DEF Go, NoScript
<1>4. /\ job'[w].step = job[w].step /\ job'[w].call = job[w].call /\ job'[w].number = job[w].number
      /\ job'[w].goesOn = job[w].goesOn /\ job'[w].stage = stage
  BY <1>1, <1>2 DEF Fields
<1>5. WorkOK(w)
  BY DEF LearnedInv, OrderOK
<1>6. Todo(w) = ToSet(agenda[w]) \cup {job[w]} /\ Todo(w)' = ToSet(agenda[w]) \cup {job'[w]}
  BY <1>2, <1>3 DEF Todo
<1>7. \A c, s : Pending(w, c, s)' <=> Pending(w, c, s)
  <2> SUFFICES ASSUME NEW c, NEW s PROVE Pending(w, c, s)' <=> Pending(w, c, s)
    OBVIOUS
  <2>1. QED
    BY <1>4, <1>6 DEF Pending
<1>8. WorkOK(w)'
  <2>1. \A n \in DOMAIN agenda[w] : Sooner(job[w], agenda[w][n])
    BY <1>5 DEF WorkOK
  <2>2. \A n \in DOMAIN agenda'[w] : Sooner(job'[w], agenda'[w][n])
    BY <1>2, <1>4, <2>1 DEF Sooner
  <2>3. ASSUME NEW x \in Todo(w)' PROVE ItemOK(w, x)'
    <3>1. CASE x \in ToSet(agenda[w])
      <4>1. ItemOK(w, x)
        BY <1>5, <1>6, <3>1 DEF WorkOK
      <4>2. QED
        BY <1>3, <4>1, ItemStays
    <3>2. CASE x = job'[w]
      <4>1. ItemOK(w, job[w])
        BY <1>5, <1>6 DEF WorkOK
      <4>2. ItemOK(w, x)
        BY <1>4, <3>2, <4>1 DEF ItemOK
      <4>3. QED
        BY <1>3, <4>2, ItemStays
    <3>3. QED
      BY <1>6, <3>1, <3>2
  <2>4. \A i, j \in DOMAIN agenda'[w] : i < j => Sooner(agenda'[w][i], agenda'[w][j])
    BY <1>2, <1>5 DEF WorkOK
  <2>5. made'[w][1] \in Nat
    BY <1>3, <1>5 DEF WorkOK
  <2>6. QED
    BY <1>4, <2>2, <2>3, <2>4, <2>5 DEF WorkOK, Sooner
<1>9. QED
  BY <1>2, <1>3, <1>4, <1>7, <1>8

\* It goes on without writing splits.
LEMMA GoFresh ==
  ASSUME EInv, LearnedInv, NoScript, NEW w \in Workers, job[w] # None, NEW stage, NEW more, Go(w, stage, more), place' = place,
         {"step", "call", "goesOn", "stage", "number"} \cap DOMAIN more = {}, stage # "elsewhere",
         \A s \in Splits : processed'[s] = processed[s] /\ features'[s] = features[s]
  PROVE  FreshOK(w)'
<1>1. /\ job'[w] # None /\ made'[w] = made[w] /\ agenda'[w] = agenda[w]
      /\ job'[w].step = job[w].step /\ job'[w].call = job[w].call
      /\ \A c, s : Pending(w, c, s)' <=> Pending(w, c, s)
  BY GoWork
<1>2. \A x \in Todo(w) : FreshItem(w, x)
  BY DEF LearnedInv, OrderOK, FreshOK
<1>3. Todo(w) = ToSet(agenda[w]) \cup {job[w]} /\ Todo(w)' = ToSet(agenda[w]) \cup {job'[w]}
  BY <1>1 DEF Todo
<1>4. ASSUME NEW x \in Todo(w)' PROVE FreshItem(w, x)'
  <2>1. PICK y \in Todo(w) : y.step = x.step /\ y.call = x.call
    BY <1>1, <1>3
  <2>2. FreshItem(w, y)
    BY <1>2
  <2>3. PICK c : c = x.call
    OBVIOUS
  <2>4. StrictAt(w, c)' <=> StrictAt(w, c)
    BY SamePlace
  <2>5. FreshItem(w, x)
    BY <2>1, <2>2, <2>3 DEF FreshItem
  <2>6. /\ Pending(w, c, "preprocess")' <=> Pending(w, c, "preprocess")
        /\ Pending(w, c, "features")' <=> Pending(w, c, "features")
        /\ Of(w, c, processed)' <=> Of(w, c, processed)
        /\ Of(w, c, features)' <=> Of(w, c, features)
    BY <1>1 DEF Of
  <2>7. QED
    BY <2>3, <2>4, <2>5, <2>6 DEF FreshItem
<1>5. QED
  BY <1>4 DEF FreshOK

\* What is left when the scripts of a call are left out.
LEMMA RestSuffix ==
  ASSUME NEW seq, Listed(seq), NEW call
  PROVE  \E d \in Nat :
           /\ \A i \in DOMAIN Rest(seq, call) : i \in Nat \ {0} /\ i + d \in DOMAIN seq /\ Rest(seq, call)[i] = seq[i + d]
           /\ \A i \in DOMAIN Rest(seq, call) : d + 1 \in DOMAIN seq /\ seq[d + 1].call # call
           /\ \A j \in DOMAIN seq : seq[j].call # call => \E i \in DOMAIN Rest(seq, call) : Rest(seq, call)[i] = seq[j]
<1> DEFINE others == {i \in DOMAIN seq : seq[i].call # call}
           first == Least(others)
<1>1. Len(seq) \in Nat /\ DOMAIN seq = 1..Len(seq)
  BY DEF Listed
<1>2. CASE others = {}
  <2>1. Rest(seq, call) = <<>>
    BY <1>2 DEF Rest
  <2>2. \A j \in DOMAIN seq : seq[j].call = call
    BY <1>2
  <2>3. 0 \in Nat /\ DOMAIN <<>> = {}
    OBVIOUS
  <2>4. QED
    BY <2>1, <2>2, <2>3
<1>3. CASE others # {}
  <2>0. others \subseteq Nat
    BY <1>1
  <2>1. first \in others /\ \A j \in others : first <= j
    <3> HIDE DEF others
    <3>1. QED
      BY <1>3, <2>0, LeastIsLeast
  <2>2. first \in 1..Len(seq) /\ seq[first].call # call
    BY <1>1, <2>1
  <2>3. Rest(seq, call) = SubSeq(seq, first, Len(seq))
    BY <1>3 DEF Rest
  <2>4. \A j \in DOMAIN seq : seq[j].call # call => first <= j
    BY <2>1
  <2> HIDE DEF first, others
  <2>5. first \in Int /\ Len(seq) \in Int /\ \A i \in first..Len(seq) : seq[i] \in ToSet(seq)
    BY <1>1, <2>2 DEF ToSet
  <2>6. /\ Len(SubSeq(seq, first, Len(seq))) = Len(seq) - first + 1
        /\ SubSeq(seq, first, Len(seq)) \in Seq(ToSet(seq))
        /\ \A i \in 1..Len(seq) - first + 1 : SubSeq(seq, first, Len(seq))[i] = seq[first + i - 1]
    BY <1>1, <2>2, <2>5, SubSeqProperties
  <2> PICK r : r = Rest(seq, call)
    OBVIOUS
  <2> PICK d \in Nat : d = first - 1
    BY <2>2
  <2>7. DOMAIN r = 1..Len(seq) - d /\ \A i \in 1..Len(seq) - d : r[i] = seq[first + i - 1]
    <3>1. Len(seq) - first + 1 = Len(seq) - d
      BY <1>1, <2>2
    <3>2. QED
      BY <2>3, <2>6, <3>1
  <2>8. \A i \in 1..Len(seq) - d : i \in Nat \ {0} /\ i + d \in 1..Len(seq) /\ first + i - 1 = i + d
    BY <1>1, <2>2
  <2>9. d + 1 = first
    BY <2>2
  <2>10. ASSUME NEW j \in DOMAIN seq, seq[j].call # call PROVE \E i \in DOMAIN r : r[i] = seq[j]
    <3>1. j \in 1..Len(seq) /\ first <= j
      BY <1>1, <2>4, <2>10
    <3>2. j - d \in 1..Len(seq) - d /\ first + (j - d) - 1 = j
      BY <1>1, <2>2, <3>1
    <3>3. QED
      BY <2>7, <3>2
  <2>11. \A i \in DOMAIN r : i \in Nat \ {0} /\ i + d \in DOMAIN seq /\ r[i] = seq[i + d]
    <3>1. \A i \in 1..Len(seq) - d : r[i] = seq[i + d]
      BY <2>7, <2>8
    <3>2. QED
      BY <1>1, <2>7, <2>8, <3>1
  <2>12. d + 1 \in DOMAIN seq /\ seq[d + 1].call # call
    BY <1>1, <2>2, <2>9
  <2>13. \A j \in DOMAIN seq : seq[j].call # call => \E i \in DOMAIN r : r[i] = seq[j]
    BY <2>10
  <2>14. QED
    BY <2>11, <2>12, <2>13
<1>4. QED
  BY <1>2, <1>3

\* A script has ended: what is left of the agenda.
GivesUp(w, code) == ~(code = "ok" \/ job[w].goesOn)

Left(w, code) ==
  /\ ~GivesUp(w, code) => agenda'[w] = agenda[w]
  /\ GivesUp(w, code) =>
       /\ \A x \in Todo(w)' : job[w].call < x.call
       /\ \A n \in DOMAIN agenda[w] : agenda[w][n].call # job[w].call => agenda[w][n] \in Todo(w)'

\* A script ends: what is left to do is as it was, or without the call.
LEMMA EndLeaves ==
  ASSUME EInv, LearnedInv, NEW w \in Workers, job[w] # None, NEW code, End(w, code), place' = place, raw' = raw
  PROVE  /\ Others(w) /\ job'[w] = None
         /\ made'[w] = IF job[w].step = "preprocess" /\ code = "ok" THEN <<job[w].call, job[w].number>> ELSE made[w]
         /\ Left(w, code)
         /\ \A x \in Todo(w)' : \E n \in DOMAIN agenda[w] : x = agenda[w][n]
         /\ WorkOK(w)'
<1>1. /\ job = [u \in Workers |-> job[u]] /\ agenda = [u \in Workers |-> agenda[u]] /\ made = [u \in Workers |-> made[u]]
      /\ Listed(agenda[w]) /\ job[w].number \in Nat
  BY DEF EInv, Shapes, AgendasOK, LearnedInv, ScriptOK
<1>2. WorkOK(w)
  BY DEF LearnedInv, OrderOK
<1>3. /\ Others(w) /\ job'[w] = None
      /\ made'[w] = IF job[w].step = "preprocess" /\ code = "ok" THEN <<job[w].call, job[w].number>> ELSE made[w]
      /\ agenda'[w] = IF code = "ok" \/ job[w].goesOn THEN agenda[w] ELSE Rest(agenda[w], job[w].call)
  BY <1>1 DEF End, Others
<1>4. PICK old, call : old = agenda[w] /\ call = job[w].call
  OBVIOUS
<1>5. /\ made[w][1] \in Nat /\ \A i, j \in DOMAIN old : i < j => Sooner(old[i], old[j])
      /\ \A n \in DOMAIN old : Sooner(job[w], old[n]) /\ ItemOK(w, old[n])
      /\ ItemOK(w, job[w])
  BY <1>2, <1>4, TodoFacts DEF WorkOK
<1>6. PICK d \in Nat : /\ \A i \in DOMAIN agenda'[w] : i \in Nat \ {0} /\ i + d \in DOMAIN old /\ agenda'[w][i] = old[i + d]
                       /\ GivesUp(w, code) => \A i \in DOMAIN agenda'[w] : d + 1 \in DOMAIN old /\ old[d + 1].call # call
                       /\ GivesUp(w, code) => \A j \in DOMAIN old : old[j].call # call =>
                                                \E i \in DOMAIN agenda'[w] : agenda'[w][i] = old[j]
  <2>1. CASE GivesUp(w, code)
    <3>1. agenda'[w] = Rest(old, call)
      BY <1>3, <1>4, <2>1 DEF GivesUp
    <3>2. PICK d \in Nat :
           /\ \A i \in DOMAIN Rest(old, call) : i \in Nat \ {0} /\ i + d \in DOMAIN old /\ Rest(old, call)[i] = old[i + d]
           /\ \A i \in DOMAIN Rest(old, call) : d + 1 \in DOMAIN old /\ old[d + 1].call # call
           /\ \A j \in DOMAIN old : old[j].call # call => \E i \in DOMAIN Rest(old, call) : Rest(old, call)[i] = old[j]
      BY <1>1, <1>4, RestSuffix
    <3>3. QED
      BY <3>1, <3>2
  <2>2. CASE ~GivesUp(w, code)
    <3>1. agenda'[w] = old
      BY <1>3, <1>4, <2>2 DEF GivesUp
    <3>2. \A i \in DOMAIN old : i \in Nat \ {0} /\ i + 0 = i
      BY <1>1, <1>4 DEF Listed
    <3>3. 0 \in Nat
      OBVIOUS
    <3>4. QED
      BY <2>2, <3>1, <3>2, <3>3
  <2>3. QED
    BY <2>1, <2>2
<1>7. Todo(w)' = ToSet(agenda'[w])
  BY <1>3 DEF Todo
<1>8. \A x \in Todo(w)' : \E i \in DOMAIN agenda'[w] : x = agenda'[w][i]
  BY <1>7 DEF ToSet
<1>9. \A x \in Todo(w)' : \E n \in DOMAIN agenda[w] : x = agenda[w][n]
  BY <1>4, <1>6, <1>8
<1>10. DOMAIN scenario.calls[w] \subseteq Nat \ {0}
  BY CallNumbers
<1>11. \A n \in DOMAIN old : old[n].call \in Nat
  BY <1>5, <1>10 DEF ItemOK
<1>12. call \in Nat
  BY <1>4, <1>5, <1>10 DEF ItemOK
<1>13. ASSUME GivesUp(w, code), NEW x \in Todo(w)' PROVE job[w].call < x.call
  <2>1. PICK i \in DOMAIN agenda'[w] : x = agenda'[w][i]
    BY <1>8
  <2>2. i \in Nat \ {0} /\ i + d \in DOMAIN old /\ x = old[i + d] /\ d + 1 \in DOMAIN old /\ old[d + 1].call # call
    BY <1>6, <1>13, <2>1
  <2>3. call < old[d + 1].call
    BY <1>4, <1>5, <1>11, <1>12, <2>2 DEF Sooner
  <2>4. CASE i = 1
    BY <1>4, <2>2, <2>3, <2>4
  <2>5. CASE i # 1
    <3>1. d + 1 < i + d
      BY <1>6, <2>2, <2>5
    <3>2. old[d + 1].call <= x.call
      BY <1>5, <1>11, <2>2, <3>1 DEF Sooner
    <3>3. QED
      BY <1>4, <1>11, <1>12, <2>2, <2>3, <3>2
  <2>6. QED
    BY <2>4, <2>5
<1>14. Left(w, code)
  <2>1. ~GivesUp(w, code) => agenda'[w] = agenda[w]
    BY <1>3 DEF GivesUp
  <2>2. ASSUME GivesUp(w, code), NEW n \in DOMAIN agenda[w], agenda[w][n].call # job[w].call
        PROVE  agenda[w][n] \in Todo(w)'
    BY <1>4, <1>6, <1>7, <2>2 DEF ToSet
  <2>3. QED
    BY <1>13, <2>1, <2>2 DEF Left
<1>15. WorkOK(w)'
  <2>1. made'[w][1] \in Nat
    BY <1>3, <1>4, <1>5, <1>12
  <2>2. ASSUME NEW i \in DOMAIN agenda'[w], NEW j \in DOMAIN agenda'[w], i < j PROVE Sooner(agenda'[w][i], agenda'[w][j])
    <3>1. i + d \in DOMAIN old /\ j + d \in DOMAIN old /\ i + d < j + d
          /\ agenda'[w][i] = old[i + d] /\ agenda'[w][j] = old[j + d]
      BY <1>6, <2>2
    <3>2. QED
      BY <1>5, <3>1
  <2>3. ASSUME NEW x \in Todo(w)' PROVE ItemOK(w, x)'
    <3>1. PICK n \in DOMAIN old : x = old[n]
      BY <1>4, <1>9
    <3>2. ItemOK(w, x) /\ Sooner(job[w], x)
      BY <1>5, <3>1
    <3>3. CASE made'[w] = made[w]
      <4>1. place' = place
        OBVIOUS
      <4>2. QED
        BY <3>2, <3>3, <4>1, ItemStays
    <3>4. CASE job[w].step = "preprocess" /\ made'[w] = <<job[w].call, job[w].number>>
      <4>1. made'[w][1] = call
        BY <1>4, <3>4
      <4>2. Rank("preprocess") = 1
        BY DEF Rank
      <4>3. call <= x.call /\ (x.step = "preprocess" => call < x.call)
        BY <1>4, <1>11, <1>12, <3>1, <3>2, <3>4, <4>2 DEF Sooner
      <4>4. QED
        BY <3>2, <4>1, <4>3 DEF ItemOK, CallOf, scenario, Prepares, PreparesBoth
    <3>5. QED
      BY <1>3, <3>3, <3>4
  <2>4. QED
    BY <1>3, <2>1, <2>2, <2>3 DEF WorkOK, Sooner
<1>16. QED
  BY <1>3, <1>9, <1>14, <1>15

\* What a script needs is no longer to be made when it runs.
LEMMA NothingBefore ==
  ASSUME EInv, LearnedInv, NEW w \in Workers, job[w] # None
  PROVE  /\ job[w].step = "features" => ~Pending(w, job[w].call, "preprocess")
         /\ job[w].step = "train" => ~Pending(w, job[w].call, "features")
         /\ \A n \in DOMAIN agenda[w] : job[w].call <= agenda[w][n].call
         /\ job[w].call \in Nat /\ made[w][1] \in Nat /\ made[w][1] <= job[w].call
         /\ job[w].step = "preprocess" => made[w][1] < job[w].call
<1>1. WorkOK(w) /\ DOMAIN scenario.calls[w] \subseteq Nat \ {0}
  BY CallNumbers DEF LearnedInv, OrderOK
<1>2. /\ \A n \in DOMAIN agenda[w] : Sooner(job[w], agenda[w][n]) /\ ItemOK(w, agenda[w][n])
      /\ ItemOK(w, job[w]) /\ made[w][1] \in Nat
  BY <1>1, TodoFacts DEF WorkOK
<1>3. job[w].call \in Nat /\ \A n \in DOMAIN agenda[w] : agenda[w][n].call \in Nat
  BY <1>1, <1>2 DEF ItemOK
<1>4. Rank("preprocess") = 1 /\ Rank("features") = 2 /\ Rank("train") = 3
  BY DEF Rank
<1>5. \A n \in DOMAIN agenda[w] : agenda[w][n].call = job[w].call => Rank(job[w].step) <= Rank(agenda[w][n].step)
  BY <1>2, <1>3 DEF Sooner
<1>6. ASSUME NEW s, NEW t, job[w].step = s, s # t, Rank(s) \in Nat, Rank(t) \in Nat, Rank(t) < Rank(s)
      PROVE  ~Pending(w, job[w].call, t)
  <2> SUFFICES ASSUME NEW x \in Todo(w), x.call = job[w].call, x.step = t PROVE FALSE
    BY DEF Pending
  <2>1. PICK n \in DOMAIN agenda[w] : x = agenda[w][n]
    BY <1>6, TodoFacts
  <2>2. QED
    BY <1>5, <1>6, <2>1
<1>7. (job[w].step = "features" => ~Pending(w, job[w].call, "preprocess"))
      /\ (job[w].step = "train" => ~Pending(w, job[w].call, "features"))
  BY <1>4, <1>6
<1>8. QED
  BY <1>2, <1>3, <1>7 DEF Sooner, ItemOK

\* The scripts that are left have, or will have, what they need: those of a call
\* that has been given up are not left, and those of later calls wait for their own.
LEMMA EndFresh ==
  ASSUME EInv, LearnedInv, NEW w \in Workers, job[w] # None, NEW code, End(w, code), place' = place, raw' = raw,
         \/ code # "ok"
         \/ /\ job[w].step \notin {"preprocess", "features"}
            /\ \A s \in Splits : processed'[s] = processed[s] /\ features'[s] = features[s]
  PROVE  FreshOK(w)'
<1>1. /\ job'[w] = None /\ Left(w, code)
      /\ made'[w] = IF job[w].step = "preprocess" /\ code = "ok" THEN <<job[w].call, job[w].number>> ELSE made[w]
      /\ \A x \in Todo(w)' : \E n \in DOMAIN agenda[w] : x = agenda[w][n]
  BY EndLeaves
<1>2. made'[w] = made[w]
  BY <1>1
<1> SUFFICES ASSUME NEW x \in Todo(w)' PROVE FreshItem(w, x)'
  BY DEF FreshOK
<1>3. PICK c : c = x.call
  OBVIOUS
<1>4. StrictAt(w, c)' <=> StrictAt(w, c)
  BY SamePlace
<1>5. PICK m \in DOMAIN agenda[w] : x = agenda[w][m]
  BY <1>1
<1>6. FreshItem(w, x) /\ ItemOK(w, x) /\ ItemOK(w, job[w])
  BY <1>5, TodoFacts DEF LearnedInv, OrderOK, FreshOK, WorkOK
<1>7. /\ \A n \in DOMAIN agenda[w] : job[w].call <= agenda[w][n].call
      /\ job[w].call \in Nat /\ made[w][1] \in Nat /\ made[w][1] <= job[w].call
  BY NothingBefore
<1>8. CASE GivesUp(w, code)
  <2>1. job[w].call < c /\ \A n \in DOMAIN agenda[w] : agenda[w][n].call # job[w].call => agenda[w][n] \in Todo(w)'
    BY <1>1, <1>3, <1>8 DEF Left
  <2>2. ASSUME NEW files PROVE ~Of(w, c, files)
    BY <1>7, <2>1 DEF Of
  <2>3. ASSUME NEW s, Pending(w, c, s) PROVE Pending(w, c, s)'
    <3>1. PICK y \in Todo(w) : y.call = c /\ y.step = s
      BY <2>3 DEF Pending
    <3>2. y.call # job[w].call
      BY <1>7, <2>1, <3>1
    <3>3. PICK n \in DOMAIN agenda[w] : y = agenda[w][n]
      BY <3>2, TodoFacts
    <3>4. y \in Todo(w)'
      BY <2>1, <3>2, <3>3
    <3>5. QED
      BY <3>1, <3>4 DEF Pending
  <2>4. QED
    BY <1>3, <1>4, <1>6, <2>2, <2>3 DEF FreshItem
<1>9. CASE ~GivesUp(w, code)
  <2>1. agenda'[w] = agenda[w]
    BY <1>1, <1>9 DEF Left
  <2>2. ASSUME StrictAt(w, c), code # "ok" PROVE job[w].call # c
    <3>1. job[w].goesOn
      BY <1>9, <2>2 DEF GivesUp
    <3>2. job[w].call = c => CallOf(w, c).goesOn
      BY <1>6, <3>1 DEF ItemOK
    <3>3. ~CallOf(w, c).goesOn
      BY <2>2 DEF StrictAt, Strict
    <3>4. QED
      BY <3>2, <3>3
  <2>3. Todo(w)' = ToSet(agenda[w])
    BY <1>1, <2>1 DEF Todo
  <2>4. ASSUME StrictAt(w, c), NEW s \in {"preprocess", "features"}, Pending(w, c, s) PROVE Pending(w, c, s)'
    <3>1. PICK y \in Todo(w) : y.call = c /\ y.step = s
      BY <2>4 DEF Pending
    <3>2. y # job[w]
      BY <2>2, <2>4, <3>1
    <3>3. PICK n \in DOMAIN agenda[w] : y = agenda[w][n]
      BY <3>2, TodoFacts
    <3>4. y \in Todo(w)'
      BY <2>3, <3>3 DEF ToSet
    <3>5. QED
      BY <3>1, <3>4 DEF Pending
  <2>5. ASSUME code # "ok", StrictAt(w, c), NEW files PROVE ~Of(w, c, files)
    BY <1>3, <1>5, <1>7, <2>2, <2>5 DEF Of
  <2>6. ASSUME code = "ok" PROVE (Of(w, c, processed)' <=> Of(w, c, processed)) /\ (Of(w, c, features)' <=> Of(w, c, features))
    BY <1>2, <2>6 DEF Of
  <2>7. QED
    BY <1>3, <1>4, <1>6, <2>4, <2>5, <2>6 DEF FreshItem
<1>10. QED
  BY <1>8, <1>9

\* A script that ends, unless it has written splits.
LEMMA EndOK ==
  ASSUME EInv, LearnedInv, NEW w \in Workers, job[w] # None, NEW code, End(w, code), place' = place, raw' = raw, Quiet(w), FramesOK',
         \/ code # "ok"
         \/ /\ job[w].step \notin {"preprocess", "features"}
            /\ \A s \in Splits : processed'[s] = processed[s] /\ features'[s] = features[s]
  PROVE  LearnedInv'
<1>1. Others(w) /\ job'[w] = None /\ WorkOK(w)'
  BY EndLeaves
<1>2. FreshOK(w)'
  BY EndFresh
<1>3. LearnedOK(w)' /\ ProgressOK(w)'
  BY <1>1 DEF LearnedOK, LoopOK, ResultOK, ReadOK, FitOK, InStage, ProgressOK
<1>4. QED
  BY <1>1, <1>2, <1>3, OwnStep DEF OrderOK

\* A script that goes on, without splits written, read or about to be.
Busy == {"name", "read", "select", "audit", "fit", "metadata", "artefacts"}

LEMMA GoesAside ==
  ASSUME EInv, LearnedInv, NoScript, NEW w \in Workers, job[w] # None, NEW stage, NEW more, Go(w, stage, more), place' = place, raw' = raw,
         {"step", "call", "goesOn", "stage", "number"} \cap DOMAIN more = {}, stage \notin Busy \cup Splits \cup {"elsewhere"},
         UNCHANGED <<processed, features>>
  PROVE  LearnedInv'
<1>1. Others(w) /\ Quiet(w)
  BY GoAlone DEF Quiet
<1>2. job'[w].stage = stage /\ job'[w] # None /\ WorkOK(w)'
  BY GoWork
<1>3. FreshOK(w)'
  BY GoFresh
<1>4. LearnedOK(w)'
  BY <1>2 DEF LearnedOK, LoopOK, ResultOK, ReadOK, FitOK, InStage, Busy
<1>5. ProgressOK(w)'
  <2> PICK j : j = job'[w]
    OBVIOUS
  <2>1. WrittenBefore(j.stage) = {} /\ j.stage \notin Busy \cup Splits
    BY <1>2 DEF WrittenBefore, Busy, Splits, SplitNames, ToSet
  <2>2. ProgressItem(w, j)'
    BY <2>1 DEF ProgressItem, Busy
  <2>3. QED
    BY <2>2, ProgressFrom
<1>6. FramesOK'
  BY DEF LearnedInv, FramesOK, Listed
<1>7. QED
  BY <1>1, <1>2, <1>3, <1>4, <1>5, <1>6, OwnStep DEF OrderOK

-----------------------------------------------------------------------------
(* The steps of the scripts. *)

\* The frames where no split is written.
LEMMA FramesStay ==
  ASSUME LearnedInv, \A s \in Splits : processed'[s] = processed[s] /\ features'[s] = features[s]
  PROVE  FramesOK'
BY DEF LearnedInv, FramesOK, Listed

\* A script that is not modelled ends.
LEMMA RunElsewhereLearned ==
  ASSUME EInv, LearnedInv, NoScript, NEW w \in Workers, RunElsewhere(w)
  PROVE  LearnedInv'
<1>1. /\ job[w] # None /\ job[w].stage = "elsewhere" /\ place' = place /\ raw' = raw
      /\ UNCHANGED <<processed, features>>
      /\ \E code : End(w, code)
  BY DEF RunElsewhere, InStage, stores
<1>2. job[w].step \notin {"preprocess", "features"}
  BY <1>1 DEF LearnedInv, OrderOK, WorkOK
<1>3. FramesOK' /\ Quiet(w)
  BY <1>1, FramesStay DEF Quiet
<1>4. QED
  BY <1>1, <1>2, <1>3, EndOK

\* What lies there stays while a script goes on elsewhere.
LEMMA AsideLearned ==
  ASSUME EInv, LearnedInv, NoScript, NEW w \in Workers,
         \/ NameExperiment(w) \/ MakeDirectory(w) \/ LookAtIndex(w) \/ CollectManifests(w) \/ TruncateIndex(w)
         \/ \E part \in {"model", "metrics", "manifest"} : WriteExperiment(w, part)
  PROVE  LearnedInv'
<1> DEFINE Ok(stage, more) ==
             /\ Go(w, stage, more) /\ {"step", "call", "goesOn", "stage", "number"} \cap DOMAIN more = {}
             /\ stage \notin Busy \cup Splits \cup {"elsewhere"}
           Stays == job[w] # None /\ place' = place /\ raw' = raw /\ processed' = processed /\ features' = features
<1>0. /\ {"mkdir", "model", "metrics", "manifest", "look", "row", "truncate", "fill"}
           \cap (Busy \cup Splits \cup {"elsewhere"}) = {}
      /\ DOMAIN <<>> = {}
  BY DEF Busy, Splits, SplitNames, ToSet
<1>1. Stays
  BY DEF NameExperiment, MakeDirectory, LookAtIndex, CollectManifests, TruncateIndex, WriteExperiment, InStage, At, Steady,
         stores
<1> HIDE DEF Stays
<1>2. CASE NameExperiment(w)
  <2> DEFINE more == [key |-> FreeName(job[w].model, second'), created |-> number']
  <2>1. Go(w, "mkdir", more) /\ DOMAIN more = {"key", "created"}
    BY <1>2 DEF NameExperiment
  <2> HIDE DEF more
  <2>2. Ok("mkdir", more)
    BY <1>0, <2>1
  <2>3. QED
    BY <1>1, <2>2, GoesAside DEF Stays
<1>3. CASE MakeDirectory(w)
  <2>1. Ok("model", <<>>)
    BY <1>0, <1>3 DEF MakeDirectory
  <2>2. QED
    BY <1>1, <2>1, GoesAside DEF Stays
<1>4. CASE LookAtIndex(w)
  <2> DEFINE more == [header |-> IF index = None THEN <<Header>> ELSE <<>>]
  <2>1. Go(w, "row", more) /\ DOMAIN more = {"header"}
    BY <1>4 DEF LookAtIndex
  <2> HIDE DEF more
  <2>2. Ok("row", more)
    BY <1>0, <2>1
  <2>3. QED
    BY <1>1, <2>2, GoesAside DEF Stays
<1>5. CASE CollectManifests(w)
  <2> DEFINE more == [rows |-> RowsOfManifests, known |-> Readable]
  <2>1. Go(w, "truncate", more) /\ DOMAIN more = {"rows", "known"}
    BY <1>5 DEF CollectManifests
  <2> HIDE DEF more
  <2>2. Ok("truncate", more)
    BY <1>0, <2>1
  <2>3. QED
    BY <1>1, <2>2, GoesAside DEF Stays
<1>6. CASE TruncateIndex(w)
  <2>1. Ok("fill", <<>>)
    BY <1>0, <1>6 DEF TruncateIndex
  <2>2. QED
    BY <1>1, <2>1, GoesAside DEF Stays
<1>7. ASSUME NEW part \in {"model", "metrics", "manifest"}, WriteExperiment(w, part) PROVE LearnedInv'
  <2>1. \E stage \in {"metrics", "manifest", "look"} : Go(w, stage, <<>>)
    BY <1>7 DEF WriteExperiment
  <2>2. PICK stage \in {"metrics", "manifest", "look"} : Ok(stage, <<>>)
    BY <1>0, <2>1
  <2>3. QED
    BY <1>1, <2>2, GoesAside DEF Stays
<1>8. QED
  BY <1>2, <1>3, <1>4, <1>5, <1>6, <1>7

\* A training or a search has told the index.
LEMMA AppendRowLearned ==
  ASSUME EInv, LearnedInv, NoScript, NEW w \in Workers, AppendRow(w)
  PROVE  LearnedInv'
<1>1. /\ job[w] # None /\ job[w].stage = "row" /\ place' = place /\ raw' = raw
      /\ processed' = processed /\ features' = features /\ Finish(w)
  BY DEF AppendRow, InStage
<1>2. job[w].step \in {"train", "optimize"}
  BY <1>1 DEF EInv, ScriptOK, Training, Naming
<1>3. CASE job[w].step = "optimize"
  <2>1. Go(w, "summary", <<>>) /\ DOMAIN <<>> = {} /\ "summary" \notin Busy \cup Splits \cup {"elsewhere"}
    BY <1>1, <1>3 DEF Finish, Busy, Splits, SplitNames, ToSet
  <2>2. QED
    BY <1>1, <2>1, GoesAside
<1>4. CASE job[w].step # "optimize"
  <2>1. End(w, "ok")
    BY <1>1, <1>4 DEF Finish
  <2>2. FramesOK' /\ Quiet(w)
    BY <1>1, FramesStay DEF Quiet
  <2>3. QED
    BY <1>1, <1>2, <2>1, <2>2, EndOK
<1>5. QED
  BY <1>3, <1>4

\* A search, or a rebuild of the index, ends.
LEMMA EndsLearned ==
  ASSUME EInv, LearnedInv, NoScript, NEW w \in Workers, WriteStudy(w) \/ FillIndex(w)
  PROVE  LearnedInv'
<1>1. /\ job[w] # None /\ place' = place /\ raw' = raw /\ processed' = processed /\ features' = features
      /\ job[w].step \in {"optimize", "experiment_index"} /\ \E code : End(w, code)
  BY DEF WriteStudy, FillIndex, At, Steady
<1>2. FramesOK' /\ Quiet(w)
  BY <1>1, FramesStay DEF Quiet
<1>3. QED
  BY <1>1, <1>2, EndOK

\* A trial.
LEMMA RunTrialLearned ==
  ASSUME EInv, LearnedInv, NoScript, NEW w \in Workers, RunTrial(w)
  PROVE  LearnedInv'
<1>1. /\ job[w] # None /\ place' = place /\ raw' = raw /\ processed' = processed /\ features' = features
      /\ job[w].step = "optimize"
      /\ End(w, "failed") \/ \E value \in {Missing, 1, 2} : Go(w, "trial", [trials |-> Append(job[w].trials, value)])
  BY DEF RunTrial, At, Steady, stores
<1>2. CASE End(w, "failed")
  <2>1. FramesOK' /\ Quiet(w)
    BY <1>1, FramesStay DEF Quiet
  <2>2. QED
    BY <1>1, <1>2, <2>1, EndOK
<1>3. ASSUME NEW value, Go(w, "trial", [trials |-> Append(job[w].trials, value)]) PROVE LearnedInv'
  <2> DEFINE more == [trials |-> Append(job[w].trials, value)]
  <2>1. DOMAIN more = {"trials"} /\ "trial" \notin Busy \cup Splits \cup {"elsewhere"}
    BY DEF Busy, Splits, SplitNames, ToSet
  <2>2. Go(w, "trial", more)
    BY <1>3
  <2> HIDE DEF more
  <2>3. QED
    BY <1>1, <2>1, <2>2, GoesAside
<1>4. QED
  BY <1>1, <1>2, <1>3

\* A script that is killed may leave a split torn.
LEMMA KillLearned ==
  ASSUME EInv, LearnedInv, NoScript, NEW w \in Workers, Kill(w)
  PROVE  LearnedInv'
<1>1. job[w] # None /\ place' = place /\ raw' = raw /\ End(w, "killed")
  BY DEF Kill
<1>2. \/ processed' = processed /\ features' = features
      \/ /\ job[w].step \in {"preprocess", "features"}
         /\ processed' = processed \/ processed' = [processed EXCEPT ![job[w].stage] = Torn]
         /\ features' = features \/ features' = [features EXCEPT ![job[w].stage] = Torn]
  BY DEF Kill, stores
<1>3. \A s \in Splits : processed'[s] \in {processed[s], Torn} /\ features'[s] \in {features[s], Torn}
  BY <1>2 DEF EInv, Shapes, Splits
<1>4. FramesOK'
  BY <1>3 DEF LearnedInv, FramesOK, Listed
<1>5. Quiet(w)
  BY <1>1, <1>2 DEF Quiet
<1>6. QED
  BY <1>1, <1>4, <1>5, EndOK

\* The raw files are replaced, or nothing happens.
LEMMA SameLearned ==
  ASSUME EInv, LearnedInv, UNCHANGED engineVars \/ Replace
  PROVE  LearnedInv'
<1>1. UNCHANGED <<place, processed, features, agenda, job, made>>
  BY DEF engineVars, Replace, stores
<1>2. raw' \in (DOMAIN scenario.histories)'
  <2>1. place \in DOMAIN Scenarios /\ raw \in DOMAIN scenario.histories
    BY DEF EInv, Shapes, LearnedInv
  <2>2. Listed(scenario.histories)
    BY <2>1, EngineAAssumption DEF scenario
  <2>3. DOMAIN scenario.histories = 1..Len(scenario.histories) /\ Len(scenario.histories) \in Nat
    BY <2>2 DEF Listed
  <2>4. raw' \in DOMAIN scenario.histories
    BY <2>1, <2>3 DEF engineVars, Replace
  <2>5. QED
    BY <1>1, <2>4 DEF scenario
<1>3. \A w \in Workers : LearnedOK(w)' /\ OrderOK(w)'
  BY <1>1, AsideOK DEF LearnedInv
<1>4. FramesOK'
  BY <1>1, FramesStay
<1>5. made' = [w \in Workers |-> made'[w]]
  BY <1>1 DEF LearnedInv
<1>6. QED
  BY <1>2, <1>3, <1>4, <1>5 DEF LearnedInv

\* The next script of the agenda starts.
LEMMA StartLearned ==
  ASSUME EInv, LearnedInv, NoScript, NEW w \in Workers, Start(w)
  PROVE  LearnedInv'
<1> DEFINE item == Head(agenda[w])
           first == [stage |-> FirstStage(item.step), number |-> number', read |-> <<>>, trials |-> <<>>, best |-> 0]
<1>1. /\ place' = place /\ raw' = raw /\ made' = made /\ processed' = processed /\ features' = features
      /\ job[w] = None /\ agenda[w] # <<>>
  BY DEF Start, stores
<1>2. Listed(agenda[w]) /\ \A n \in DOMAIN agenda[w] : IsScript(agenda[w][n])
  BY DEF EInv, AgendasOK
<1>3. /\ 1 \in DOMAIN agenda[w] /\ item = agenda[w][1]
      /\ \A n \in DOMAIN Tail(agenda[w]) : n + 1 \in DOMAIN agenda[w] /\ 1 < n + 1 /\ Tail(agenda[w])[n] = agenda[w][n + 1]
      /\ \A n \in DOMAIN agenda[w] \ {1} : \E m \in DOMAIN Tail(agenda[w]) : Tail(agenda[w])[m] = agenda[w][n]
      /\ DOMAIN Tail(agenda[w]) \subseteq Nat
  <2> PICK seq : seq = agenda[w]
    OBVIOUS
  <2>1. seq \in Seq(ToSet(seq)) /\ seq # <<>> /\ Len(seq) \in Nat /\ DOMAIN seq = 1..Len(seq)
    BY <1>1, <1>2 DEF Listed
  <2>2. /\ Len(seq) >= 1 /\ Head(seq) = seq[1] /\ Len(Tail(seq)) = Len(seq) - 1
        /\ DOMAIN Tail(seq) = 1..Len(seq) - 1
        /\ \A n \in 1..Len(seq) - 1 : Tail(seq)[n] = seq[n + 1]
    BY <2>1
  <2>3. ASSUME NEW n \in DOMAIN seq \ {1} PROVE \E m \in DOMAIN Tail(seq) : Tail(seq)[m] = seq[n]
    <3>1. n - 1 \in DOMAIN Tail(seq) /\ (n - 1) + 1 = n
      BY <2>1, <2>2
    <3>2. QED
      BY <2>2, <3>1
  <2>4. \A n \in 1..Len(seq) - 1 : n \in Nat /\ n + 1 \in DOMAIN seq /\ 1 < n + 1
    BY <2>1, <2>2
  <2>5. 1 \in DOMAIN seq
    BY <2>1, <2>2
  <2>6. QED
    BY <2>2, <2>3, <2>4, <2>5
<1>4. /\ agenda' = [u \in Workers |-> agenda'[u]] /\ agenda'[w] = Tail(agenda[w])
      /\ \A u \in Workers \ {w} : agenda'[u] = agenda[u] /\ job'[u] = job[u]
      /\ job'[w] = With(item, first)
  BY DEF EInv, AgendasOK, Shapes, Start
<1>5. IsScript(item)
  BY <1>2, <1>3
<1> HIDE DEF item
<1>6. /\ job'[w] # None
      /\ job'[w].step = item.step /\ job'[w].call = item.call /\ job'[w].goesOn = item.goesOn
      /\ job'[w].stage = FirstStage(item.step) /\ job'[w].read = <<>>
  <2>1. DOMAIN item = {"step", "model", "call", "goesOn"} /\ DOMAIN first = {"stage", "number", "read", "trials", "best"}
    BY <1>5 DEF IsScript
  <2>2. /\ DOMAIN With(item, first) = DOMAIN item \cup DOMAIN first
        /\ \A f \in DOMAIN first : With(item, first)[f] = first[f]
        /\ \A f \in DOMAIN item \ DOMAIN first : With(item, first)[f] = item[f]
    BY WithFields
  <2>3. With(item, first) # None
    BY DEF NoScript
  <2>4. QED
    BY <1>4, <2>1, <2>2, <2>3
<1>7. /\ FirstStage(item.step) \in {"load", "read", "collect", "elsewhere"}
      /\ FirstStage(item.step) = "elsewhere" => item.step \notin {"preprocess", "features"}
      /\ item.step = "preprocess" => FirstStage(item.step) = "load"
  BY DEF FirstStage
<1>8. Others(w) /\ Quiet(w) /\ FramesOK'
  BY <1>1, <1>4, FramesStay DEF Others, Quiet, LearnedInv
<1>9. LearnedOK(w)'
  <2>1. job'[w].stage \notin Splits \cup {"name", "select", "audit", "fit"}
    BY <1>6, <1>7 DEF Splits, SplitNames, ToSet
  <2>2. DOMAIN job'[w].read = {}
    BY <1>6
  <2>3. LoopOK(w)' /\ FitOK(w)'
    BY <2>1 DEF LoopOK, FitOK, InStage
  <2>4. ResultOK(w)' /\ ReadOK(w)'
    BY <2>1, <2>2 DEF ResultOK, ReadOK
  <2>5. QED
    BY <2>3, <2>4 DEF LearnedOK
<1>10. WorkOK(w) /\ FreshOK(w)
  BY DEF LearnedInv, OrderOK
<1>11. Todo(w) = ToSet(agenda[w]) /\ Todo(w)' = ToSet(agenda'[w]) \cup {job'[w]}
  BY <1>1, <1>6 DEF Todo
<1>12. \A x \in Todo(w)' : (\E n \in DOMAIN agenda[w] : x = agenda[w][n]) \/ x = job'[w]
  BY <1>3, <1>4, <1>11 DEF ToSet
<1>13. \A n \in DOMAIN agenda[w] : agenda[w][n] \in Todo(w) /\ (n = 1 \/ agenda[w][n] \in Todo(w)')
  <2>1. \A n \in DOMAIN agenda[w] : agenda[w][n] \in Todo(w)
    BY <1>11 DEF ToSet
  <2>2. ASSUME NEW n \in DOMAIN agenda[w], n # 1 PROVE agenda[w][n] \in ToSet(agenda'[w])
    BY <1>3, <1>4, <2>2 DEF ToSet
  <2>3. QED
    BY <1>11, <2>1, <2>2
<1>14. WorkOK(w)'
  <2>1. made'[w] = made[w]
    BY <1>1
  <2>2. \A i, j \in DOMAIN agenda[w] : i < j => Sooner(agenda[w][i], agenda[w][j])
    BY <1>10 DEF WorkOK
  <2>3. \A i, j \in DOMAIN agenda'[w] : i < j => Sooner(agenda'[w][i], agenda'[w][j])
    BY <1>3, <1>4, <2>2
  <2>4. \A n \in DOMAIN agenda'[w] : Sooner(item, agenda'[w][n])
    BY <1>3, <1>4, <2>2
  <2>5. \A n \in DOMAIN agenda'[w] : Sooner(job'[w], agenda'[w][n])
    BY <1>6, <2>4 DEF Sooner
  <2>6. ASSUME NEW x \in Todo(w)' PROVE ItemOK(w, x)'
    <3>1. ItemOK(w, x)
      <4>1. CASE x = job'[w]
        <5>1. ItemOK(w, item)
          BY <1>3, <1>10, <1>13 DEF WorkOK
        <5>2. QED
          BY <1>6, <4>1, <5>1 DEF ItemOK
      <4>2. CASE x # job'[w]
        BY <1>10, <1>12, <1>13, <4>2 DEF WorkOK
      <4>3. QED
        BY <4>1, <4>2
    <3>2. QED
      BY <1>1, <2>1, <3>1, ItemStays
  <2>7. made'[w][1] \in Nat
    BY <1>10, <2>1 DEF WorkOK
  <2>8. job'[w].stage = "elsewhere" => job'[w].step \notin {"preprocess", "features"}
    BY <1>6, <1>7
  <2>9. QED
    BY <2>3, <2>5, <2>6, <2>7, <2>8 DEF WorkOK, Sooner
<1>15. FreshOK(w)'
  <2> SUFFICES ASSUME NEW x \in Todo(w)' PROVE FreshItem(w, x)'
    BY DEF FreshOK
  <2> PICK c : c = x.call
    OBVIOUS
  <2>1. PICK y \in Todo(w) : y.call = c /\ y.step = x.step
    BY <1>3, <1>6, <1>12, <1>13
  <2>2. FreshItem(w, y)
    BY <1>10 DEF FreshOK
  <2>3. ASSUME NEW s, Pending(w, c, s) PROVE Pending(w, c, s)'
    <3>1. PICK n \in DOMAIN agenda[w] : agenda[w][n].call = c /\ agenda[w][n].step = s
      BY <1>11, <2>3 DEF Pending, ToSet
    <3>2. \E z \in Todo(w)' : z.call = c /\ z.step = s
      <4>1. CASE n = 1
        BY <1>3, <1>6, <1>11, <3>1, <4>1
      <4>2. CASE n # 1
        BY <1>13, <3>1, <4>2
      <4>3. QED
        BY <4>1, <4>2
    <3>3. QED
      BY <3>2 DEF Pending
  <2>4. (Of(w, c, processed)' <=> Of(w, c, processed)) /\ (Of(w, c, features)' <=> Of(w, c, features))
    BY <1>1 DEF Of
  <2>5. StrictAt(w, c)' <=> StrictAt(w, c)
    BY <1>1, SamePlace
  <2>6. QED
    BY <2>1, <2>2, <2>3, <2>4, <2>5 DEF FreshItem
<1>16. ProgressOK(w)'
  <2> PICK j : j = job'[w]
    OBVIOUS
  <2>1. /\ j.step = "preprocess" => WrittenBefore(j.stage) = {}
        /\ j.stage \notin Splits \cup {"metadata", "artefacts", "name"} /\ DOMAIN j.read = {}
    BY <1>6, <1>7 DEF WrittenBefore, Splits, SplitNames, ToSet
  <2>2. ProgressItem(w, j)'
    BY <2>1 DEF ProgressItem
  <2>3. QED
    BY <2>2, ProgressFrom
<1>17. QED
  BY <1>8, <1>9, <1>14, <1>15, <1>16, OwnStep DEF OrderOK

\* What a script has learned where it is about to write splits.
LEMMA WritingLearned ==
  ASSUME NEW w, job'[w] # None, job'[w].stage \in Splits \cup {"metadata", "artefacts"},
         job'[w].stage \in Splits => ResultOK(w)'
  PROVE  LearnedOK(w)'
<1>1. job'[w].stage \notin {"name", "read", "select", "audit", "fit"}
  BY DEF Splits, SplitNames, ToSet
<1>2. LoopOK(w)' /\ ReadOK(w)' /\ FitOK(w)'
  BY <1>1 DEF LoopOK, ReadOK, FitOK, InStage
<1>3. ResultOK(w)'
  BY DEF ResultOK
<1>4. QED
  BY <1>2, <1>3 DEF LearnedOK

\* A preprocessing has its splits, or fails.
LEMMA LoadLearned ==
  ASSUME EInv, LearnedInv, NoScript, NEW w \in Workers, Load(w)
  PROVE  LearnedInv'
<1> DEFINE result == PrepareSplits(CleanTable(scenario.histories[raw], scenario.cleaning))
           more == [result |-> result]
<1>1. /\ job[w] # None /\ job[w].step = "preprocess" /\ place' = place /\ raw' = raw
      /\ processed' = processed /\ features' = features
      /\ End(w, "failed") \/ (result # None /\ Go(w, "train", more))
  BY DEF Load, At, Steady, stores
<1>2. FramesOK' /\ Quiet(w)
  BY <1>1, FramesStay DEF Quiet
<1>3. CASE End(w, "failed")
  BY <1>1, <1>2, <1>3, EndOK
<1>4. CASE result # None /\ Go(w, "train", more)
  <2> PICK files : files = scenario.histories[raw]
    OBVIOUS
  <2>1. \A f \in {TrainFile, TestFile} : files[f] # None => Listed(files[f].columns) /\ Listed(files[f].rows)
    <3>1. place \in DOMAIN Scenarios /\ raw \in DOMAIN Scenarios[place].histories /\ files = Scenarios[place].histories[raw]
      BY DEF EInv, Shapes, LearnedInv, scenario
    <3>2. QED
      BY <3>1, EngineAAssumption DEF IsRaw
  <2> PICK cleaning : cleaning = scenario.cleaning
    OBVIOUS
  <2>2. result = PrepareSplits(CleanTable(files, cleaning)) /\ result # None
    BY <1>4
  <2>3. DOMAIN more = {"result"} /\ more.result = result /\ Go(w, "train", more)
    BY <1>4
  <2> HIDE DEF result, more
  <2>4. \A s \in Splits : Listed(result.frames[s].columns)
    BY <2>1, <2>2, PreparedFrames
  <2>5. Others(w) /\ "train" \in Splits
    BY <1>1, <2>3, GoAlone DEF Splits, SplitNames, ToSet
  <2>6. /\ job'[w] # None /\ job'[w].stage = "train" /\ job'[w].step = "preprocess"
        /\ "result" \in DOMAIN job'[w] /\ job'[w].result = result /\ WorkOK(w)'
    BY <1>1, <2>3, GoWork
  <2>7. FreshOK(w)'
    BY <1>1, <2>3, GoFresh
  <2>8. LearnedOK(w)'
    <3>1. ResultOK(w)'
      BY <2>4, <2>6 DEF ResultOK, Listed
    <3>2. QED
      BY <2>5, <2>6, <3>1, WritingLearned
  <2>9. ProgressOK(w)'
    <3> PICK j : j = job'[w]
      OBVIOUS
    <3>1. j.step = "preprocess" /\ WrittenBefore(j.stage) = {}
      BY <2>6 DEF WrittenBefore
    <3>2. ProgressItem(w, j)'
      BY <3>1 DEF ProgressItem
    <3>3. QED
      BY <3>2, ProgressFrom
  <2>10. QED
    BY <1>2, <2>5, <2>6, <2>7, <2>8, <2>9, OwnStep DEF OrderOK
<1>5. QED
  BY <1>1, <1>3, <1>4

\* The splits that are written when one more is.
LEMMA OneMoreSplit ==
  /\ Splits = {"train", "validation", "test"}
  /\ \A s \in Splits : /\ Following(s) \in {"validation", "test", "metadata"}
                       /\ WrittenBefore(Following(s)) = WrittenBefore(s) \cup {s}
                       /\ s \notin {"read", "select", "metadata", "artefacts", "name"} /\ WrittenBefore(s) \subseteq Splits
  /\ WrittenBefore("artefacts") = WrittenBefore("test") \cup {"test"} /\ WrittenBefore("metadata") = Splits
  /\ WrittenBefore("artefacts") = Splits
<1>1. Splits = {"train", "validation", "test"}
  BY DEF Splits, SplitNames, ToSet
<1>2. /\ Following("train") = "validation" /\ Following("validation") = "test" /\ Following("test") = "metadata"
  BY DEF Following
<1>3. /\ WrittenBefore("train") = {} /\ WrittenBefore("validation") = {"train"}
      /\ WrittenBefore("test") = {"train", "validation"} /\ WrittenBefore("metadata") = Splits /\ WrittenBefore("artefacts") = Splits
  BY <1>1 DEF WrittenBefore
<1>4. QED
  BY <1>1, <1>2, <1>3

\* A split of the preprocessing that runs.
LEMMA WriteProcessedSplitLearned ==
  ASSUME EInv, LearnedInv, NoScript, NEW w \in Workers, NEW s \in Splits, WriteProcessedSplit(w, s)
  PROVE  LearnedInv'
<1> PICK next : next = IF s = "test" THEN "artefacts" ELSE Following(s)
  OBVIOUS
<1>1. /\ job[w] # None /\ job[w].step = "preprocess" /\ job[w].stage = s
      /\ place' = place /\ raw' = raw /\ features' = features /\ Go(w, next, <<>>)
      /\ processed' = [processed EXCEPT ![s] = [number |-> job[w].number, frame |-> job[w].result.frames[s]]]
  BY DEF WriteProcessedSplit, At, Steady
<1>2. /\ next \in {"validation", "test", "artefacts"} /\ WrittenBefore(next) = WrittenBefore(s) \cup {s}
      /\ DOMAIN <<>> = {}
  <2>1. s \in {"train", "validation", "test"}
    BY OneMoreSplit
  <2>2. /\ Following("train") = "validation" /\ Following("validation") = "test"
    BY DEF Following
  <2>3. QED
    BY <2>1, <2>2, OneMoreSplit
<1>3. /\ processed'[s].number = job[w].number /\ processed'[s].frame = job[w].result.frames[s]
      /\ \A t \in Splits \ {s} : processed'[t] = processed[t]
  <2>1. s \in DOMAIN processed
    BY DEF EInv, Shapes, Splits
  <2>2. processed'[s] = [number |-> job[w].number, frame |-> job[w].result.frames[s]]
    BY <1>1, <2>1
  <2>3. \A t \in Splits \ {s} : processed'[t] = processed[t]
    BY <1>1
  <2>4. QED
    BY <2>2, <2>3
<1>4. ResultOK(w) /\ ProgressOK(w) /\ FreshOK(w)
  BY DEF LearnedInv, LearnedOK, OrderOK
<1>5. "result" \in DOMAIN job[w] /\ \A t \in Splits : Listed(job[w].result.frames[t].columns)
  BY <1>1, <1>4 DEF ResultOK
<1>6. FramesOK'
  <2>1. FramesOK
    BY DEF LearnedInv
  <2>2. ASSUME NEW t \in Splits PROVE (processed'[t] \notin {None, Torn} => Listed(processed'[t].frame.columns))
                                      /\ (features'[t] \notin {None, Torn} => Listed(features'[t].frame.columns))
    BY <1>1, <1>3, <1>5, <2>1 DEF FramesOK
  <2>3. QED
    BY <2>2 DEF FramesOK, Listed
<1>7. Quiet(w) /\ Others(w)
  BY <1>1, GoAlone DEF Quiet
<1>8. /\ job'[w] # None /\ made'[w] = made[w] /\ agenda'[w] = agenda[w]
      /\ job'[w].step = "preprocess" /\ job'[w].call = job[w].call /\ job'[w].number = job[w].number
      /\ job'[w].stage = next
      /\ "result" \in DOMAIN job'[w] /\ job'[w].result = job[w].result
      /\ \A c, t : Pending(w, c, t)' <=> Pending(w, c, t)
      /\ WorkOK(w)'
  BY <1>1, <1>2, <1>5, GoWork
<1>9. LearnedOK(w)'
  <2>1. ResultOK(w)'
    BY <1>5, <1>8 DEF ResultOK, Listed
  <2>2. QED
    BY <1>2, <1>8, <2>1, WritingLearned, OneMoreSplit
<1>10. FreshOK(w)'
  <2> SUFFICES ASSUME NEW x \in Todo(w)' PROVE FreshItem(w, x)'
    BY DEF FreshOK
  <2> PICK c : c = x.call
    OBVIOUS
  <2>1. (\E n \in DOMAIN agenda[w] : x = agenda[w][n]) \/ x = job'[w]
    BY <1>8 DEF Todo, ToSet
  <2>2. job[w].call <= c /\ made[w][1] < job[w].call /\ job[w].call \in Nat /\ made[w][1] \in Nat /\ c \in Nat
    <3>1. \A n \in DOMAIN agenda[w] : ItemOK(w, agenda[w][n])
      BY TodoFacts DEF LearnedInv, OrderOK, WorkOK
    <3>2. \A n \in DOMAIN agenda[w] : agenda[w][n].call \in Nat
      BY <3>1, CallNumbers DEF ItemOK
    <3>3. QED
      BY <1>1, <1>8, <2>1, <3>2, NothingBefore
  <2>3. ASSUME NEW files PROVE ~Of(w, c, files)
    BY <2>2 DEF Of
  <2>4. \E y \in Todo(w) : y.call = c /\ y.step = x.step
    <3>1. CASE x = job'[w]
      BY <1>1, <1>8, <3>1, TodoFacts
    <3>2. CASE \E n \in DOMAIN agenda[w] : x = agenda[w][n]
      BY <3>2, TodoFacts
    <3>3. QED
      BY <2>1, <3>1, <3>2
  <2>5. PICK y \in Todo(w) : y.call = c /\ y.step = x.step
    BY <2>4
  <2>6. FreshItem(w, y)
    BY <1>4 DEF FreshOK
  <2>7. StrictAt(w, c)' <=> StrictAt(w, c)
    BY <1>1, SamePlace
  <2>8. StrictAt(w, c) => /\ x.step = "features" => Pending(w, c, "preprocess")
                          /\ x.step = "train" => Pending(w, c, "features")
    BY <2>3, <2>5, <2>6 DEF FreshItem
  <2>9. StrictAt(w, c) => /\ x.step = "features" => Pending(w, c, "preprocess")'
                          /\ x.step = "train" => Pending(w, c, "features")'
    BY <1>8, <2>8
  <2>10. QED
    BY <2>7, <2>9 DEF FreshItem
<1>11. ProgressOK(w)'
  <2> PICK j : j = job'[w]
    OBVIOUS
  <2> PICK old : old = job[w]
    OBVIOUS
  <2>1. ProgressItem(w, old) /\ (StrictAt(w, j.call)' <=> StrictAt(w, old.call))
    BY <1>1, <1>4, <1>8, SamePlace DEF ProgressOK
  <2>2. StrictAt(w, old.call) => \A t \in WrittenBefore(s) : processed[t].number = old.number
    BY <1>1, <2>1 DEF ProgressItem
  <2>3. StrictAt(w, old.call) => \A t \in WrittenBefore(j.stage) : processed'[t].number = j.number
    BY <1>2, <1>3, <1>8, <2>2, OneMoreSplit
  <2>4. ProgressItem(w, j)'
    BY <1>8, <2>1, <2>3 DEF ProgressItem
  <2>5. QED
    BY <2>4, ProgressFrom
<1>12. QED
  BY <1>6, <1>7, <1>8, <1>9, <1>10, <1>11, OwnStep DEF OrderOK

\* A preprocessing or a feature engineering ends well: what the others wait for
\* has been made.
LEMMA MadeFresh ==
  ASSUME EInv, LearnedInv, NEW w \in Workers, job[w] # None, End(w, "ok"), place' = place, raw' = raw,
         NEW step \in {"preprocess", "features"}, job[w].step = step,
         NEW c, StrictAt(w, c), NEW t, Pending(w, c, t)
  PROVE  Pending(w, c, t)' \/ (t = step /\ c = job[w].call)
<1>1. job'[w] = None /\ agenda'[w] = agenda[w]
  BY EndLeaves DEF Left, GivesUp
<1>2. PICK y \in Todo(w) : y.call = c /\ y.step = t
  BY DEF Pending
<1>3. CASE y = job[w]
  BY <1>2, <1>3
<1>4. CASE y # job[w]
  <2>1. y \in ToSet(agenda[w])
    BY <1>4 DEF Todo
  <2>2. y \in Todo(w)'
    BY <1>1, <2>1 DEF Todo
  <2>3. QED
    BY <1>2, <2>2 DEF Pending
<1>5. QED
  BY <1>3, <1>4

\* A preprocessing ends: its splits are all of one number.
LEMMA WriteTransformsLearned ==
  ASSUME EInv, LearnedInv, NoScript, NEW w \in Workers, WriteTransforms(w)
  PROVE  LearnedInv'
<1>1. /\ job[w] # None /\ job[w].step = "preprocess" /\ job[w].stage = "artefacts" /\ place' = place /\ raw' = raw
      /\ features' = features /\ End(w, "ok") /\ \A s \in Splits : processed'[s] = processed[s]
  <2>1. "artefacts" \notin Splits
    BY OneMoreSplit
  <2>2. QED
    BY <2>1 DEF WriteTransforms, At, Steady
<1>2. FramesOK' /\ Quiet(w)
  BY <1>1, FramesStay DEF Quiet
<1>3. /\ Others(w) /\ job'[w] = None /\ WorkOK(w)' /\ made'[w] = <<job[w].call, job[w].number>>
      /\ \A x \in Todo(w)' : \E n \in DOMAIN agenda[w] : x = agenda[w][n]
  BY <1>1, EndLeaves
<1>4. LearnedOK(w)' /\ ProgressOK(w)'
  BY <1>3 DEF LearnedOK, LoopOK, ResultOK, ReadOK, FitOK, InStage, ProgressOK
<1>5. FreshOK(w)'
  <2> SUFFICES ASSUME NEW x \in Todo(w)' PROVE FreshItem(w, x)'
    BY DEF FreshOK
  <2> PICK c : c = x.call
    OBVIOUS
  <2>1. PICK n \in DOMAIN agenda[w] : x = agenda[w][n]
    BY <1>3
  <2>2. FreshItem(w, x)
    BY <2>1, TodoFacts DEF LearnedInv, OrderOK, FreshOK
  <2>3. job[w].call <= c /\ made[w][1] < job[w].call /\ job[w].call \in Nat /\ made[w][1] \in Nat
    BY <1>1, <2>1, NothingBefore
  <2>4. ItemOK(w, x)
    BY <2>1, TodoFacts DEF LearnedInv, OrderOK, WorkOK
  <2>5. c \in Nat
    BY <2>4, CallNumbers DEF ItemOK
  <2>6. ASSUME NEW files PROVE ~Of(w, c, files)
    BY <2>3, <2>5 DEF Of
  <2>7. StrictAt(w, c)' <=> StrictAt(w, c)
    BY <1>1, SamePlace
  <2>8. ASSUME StrictAt(w, c), x.step = "features" PROVE Pending(w, c, "preprocess")' \/ Of(w, c, processed)'
    <3>1. Pending(w, c, "preprocess")
      BY <2>2, <2>6, <2>8 DEF FreshItem
    <3>2. CASE Pending(w, c, "preprocess")'
      BY <3>2
    <3>3. CASE c = job[w].call
      <4> PICK j : j = job[w]
        OBVIOUS
      <4>1. ProgressItem(w, j)
        BY <1>1 DEF LearnedInv, OrderOK, ProgressOK
      <4>2. \A s \in Splits : processed[s].number = job[w].number
        BY <1>1, <2>8, <3>3, <4>1, OneMoreSplit DEF ProgressItem
      <4>3. made'[w][1] = c /\ made'[w][2] = job[w].number
        BY <1>3, <3>3
      <4>4. Of(w, c, processed)'
        BY <1>1, <4>2, <4>3 DEF Of
      <4>5. QED
        BY <4>4
    <3>4. QED
      BY <1>1, <2>8, <3>1, <3>2, <3>3, MadeFresh
  <2>9. ASSUME StrictAt(w, c), x.step = "train" PROVE Pending(w, c, "features")'
    <3>1. Pending(w, c, "features")
      BY <2>2, <2>6, <2>9 DEF FreshItem
    <3>2. QED
      BY <1>1, <2>9, <3>1, MadeFresh
  <2>10. QED
    BY <2>7, <2>8, <2>9 DEF FreshItem
<1>6. QED
  BY <1>2, <1>3, <1>4, <1>5, OwnStep DEF OrderOK

\* A feature engineering ends: its splits are all of one preprocessing.
LEMMA WriteSelectorLearned ==
  ASSUME EInv, LearnedInv, NoScript, NEW w \in Workers, WriteSelector(w)
  PROVE  LearnedInv'
<1>1. /\ job[w] # None /\ job[w].step = "features" /\ job[w].stage = "artefacts" /\ place' = place /\ raw' = raw
      /\ processed' = processed /\ End(w, "ok") /\ \A s \in Splits : features'[s] = features[s]
  <2>1. "artefacts" \notin Splits
    BY OneMoreSplit
  <2>2. QED
    BY <2>1 DEF WriteSelector, At, Steady
<1>2. FramesOK' /\ Quiet(w)
  BY <1>1, FramesStay DEF Quiet
<1>3. /\ Others(w) /\ job'[w] = None /\ WorkOK(w)' /\ made'[w] = made[w]
      /\ \A x \in Todo(w)' : \E n \in DOMAIN agenda[w] : x = agenda[w][n]
  BY <1>1, EndLeaves
<1>4. LearnedOK(w)' /\ ProgressOK(w)'
  BY <1>3 DEF LearnedOK, LoopOK, ResultOK, ReadOK, FitOK, InStage, ProgressOK
<1>5. FreshOK(w)'
  <2> SUFFICES ASSUME NEW x \in Todo(w)' PROVE FreshItem(w, x)'
    BY DEF FreshOK
  <2> PICK c : c = x.call
    OBVIOUS
  <2>1. PICK n \in DOMAIN agenda[w] : x = agenda[w][n]
    BY <1>3
  <2>2. FreshItem(w, x)
    BY <2>1, TodoFacts DEF LearnedInv, OrderOK, FreshOK
  <2>3. /\ StrictAt(w, c)' <=> StrictAt(w, c)
        /\ Of(w, c, processed)' <=> Of(w, c, processed)
        /\ Of(w, c, features)' <=> Of(w, c, features)
    BY <1>1, <1>3, SamePlace DEF Of
  <2>4. ASSUME StrictAt(w, c), Pending(w, c, "preprocess") PROVE Pending(w, c, "preprocess")'
    BY <1>1, <2>4, MadeFresh
  <2>5. ASSUME StrictAt(w, c), Pending(w, c, "features") PROVE Pending(w, c, "features")' \/ Of(w, c, features)'
    <3>1. CASE Pending(w, c, "features")'
      BY <3>1
    <3>2. CASE c = job[w].call
      <4> PICK j : j = job[w]
        OBVIOUS
      <4>1. ProgressItem(w, j) /\ FreshItem(w, j) /\ ~Pending(w, c, "preprocess")
        BY <1>1, <3>2, NothingBefore, TodoFacts DEF LearnedInv, OrderOK, ProgressOK, FreshOK
      <4>2. Of(w, c, processed)
        BY <1>1, <2>5, <3>2, <4>1 DEF FreshItem
      <4>3. \A s \in Splits : features[s].number = made[w][2]
        BY <1>1, <2>5, <3>2, <4>1, OneMoreSplit DEF ProgressItem
      <4>4. Of(w, c, features)
        BY <4>2, <4>3 DEF Of
      <4>5. QED
        BY <2>3, <4>4
    <3>3. QED
      BY <1>1, <2>5, <3>1, <3>2, MadeFresh
  <2>6. QED
    BY <2>2, <2>3, <2>4, <2>5 DEF FreshItem
<1>6. QED
  BY <1>2, <1>3, <1>4, <1>5, OwnStep DEF OrderOK

\* What a script reads is of the preprocessing of its call.
LEMMA ReadsFresh ==
  ASSUME EInv, LearnedInv, NEW w \in Workers, job[w] # None, StrictAt(w, job[w].call)
  PROVE  /\ job[w].step = "features" => Of(w, job[w].call, processed)
         /\ job[w].step = "train" => Of(w, job[w].call, features)
<1> PICK j : j = job[w]
  OBVIOUS
<1>1. FreshItem(w, j)
  BY TodoFacts DEF LearnedInv, OrderOK, FreshOK
<1>2. (j.step = "features" => ~Pending(w, j.call, "preprocess")) /\ (j.step = "train" => ~Pending(w, j.call, "features"))
  BY NothingBefore
<1>3. QED
  BY <1>1, <1>2 DEF FreshItem

\* The splits are read in this order.
LEMMA ThreeSplits ==
  ASSUME NEW n \in Nat, n <= 2
  PROVE  /\ SplitNames[n + 1] \in Splits
         /\ (SplitNames[n + 1] = "test" <=> n = 2) /\ (SplitNames[n + 1] = "train" <=> n = 0)
         /\ (n = 2 => n + 1 = 3)
<1>1. n = 0 \/ n = 1 \/ n = 2
  OBVIOUS
<1>2. QED
  BY <1>1 DEF SplitNames, Splits, ToSet

\* One more split is read.
LEMMA ReadSplitLearned ==
  ASSUME EInv, LearnedInv, NoScript, NEW w \in Workers, ReadSplit(w)
  PROVE  LearnedInv'
<1> DEFINE read == job[w].read
           s == SplitNames[Len(read) + 1]
           file == IF job[w].step = "features" THEN processed[s] ELSE features[s]
           lacks == /\ job[w].step # "features" /\ file \notin {None, Torn} /\ s # "train"
                    /\ ~Needed(FeatureColumns(read[1].frame), file.frame)
           next == IF s # "test" THEN "read"
                   ELSE CASE job[w].step = "features" -> "select"
                          [] job[w].step = "optimize" /\ job[w].best = 0 -> "trial"
                          [] OTHER -> "audit"
           more == [read |-> Append(read, file)]
<1>1. /\ job[w] # None /\ job[w].stage = "read" /\ place' = place /\ raw' = raw
      /\ processed' = processed /\ features' = features
  BY DEF ReadSplit, InStage, Steady, stores
<1>2. FramesOK' /\ (job[w].step \in {"preprocess", "features"} => Quiet(w)) /\ Quiet(w)
  BY <1>1, FramesStay DEF Quiet
<1>3. \/ End(w, "failed")
      \/ /\ Go(w, next, more) /\ file # Torn /\ (file = None => job[w].step # "features" /\ s # "train") /\ ~lacks
  BY DEF ReadSplit
<1>4. CASE End(w, "failed")
  BY <1>1, <1>2, <1>4, EndOK
<1>5. CASE Go(w, next, more) /\ file # Torn /\ (file = None => job[w].step # "features" /\ s # "train") /\ ~lacks
  <2>1. ScriptOK(w) /\ ReadOK(w) /\ FramesOK /\ ProgressOK(w)
    BY DEF EInv, LearnedInv, LearnedOK, OrderOK
  <2> PICK n \in Nat : n = Len(read) /\ n <= 2 /\ DOMAIN read = 1..n
    BY <1>1, <2>1 DEF ScriptOK, Listed
  <2>2. Listed(read) /\ job[w].step \in {"features", "train", "optimize"}
    BY <1>1, <2>1 DEF ScriptOK
  <2>3. s \in Splits /\ (s = "test" <=> n = 2) /\ (s = "train" <=> n = 0)
    <3>1. s = SplitNames[n + 1] /\ n \in Nat /\ n <= 2
      OBVIOUS
    <3> HIDE DEF s
    <3>2. QED
      BY ONLY <3>1, ThreeSplits
  <2>4. file # None => Listed(file.frame.columns)
    <3>1. /\ processed[s] \notin {None, Torn} => Listed(processed[s].frame.columns)
          /\ features[s] \notin {None, Torn} => Listed(features[s].frame.columns)
      BY <2>1, <2>3 DEF FramesOK
    <3> HIDE DEF s
    <3>2. QED
      BY <1>5, <3>1
  <2>5. file # None /\ s # "train" /\ job[w].step # "features" => Needed(FeatureColumns(read[1].frame), file.frame)
    BY <1>5
  <2>6. /\ s # "test" => next = "read"
        /\ s = "test" => next \in {"select", "trial", "audit"}
    OBVIOUS
  <2>7. /\ next = "select" => job[w].step = "features"
        /\ next = "audit" => job[w].step # "features"
    OBVIOUS
  <2>8. StrictAt(w, job[w].call) => /\ job[w].step = "features" => made[w][1] = job[w].call /\ file.number = made[w][2]
                                    /\ job[w].step = "train" => made[w][1] = job[w].call /\ file.number = made[w][2]
    <3>1. /\ file = processed[s] \/ job[w].step # "features"
          /\ file = features[s] \/ job[w].step = "features"
      OBVIOUS
    <3> HIDE DEF s, file
    <3>2. QED
      BY <1>1, <2>3, <3>1, ReadsFresh DEF Of
  <2>9. DOMAIN more = {"read"} /\ more.read = Append(read, file) /\ Go(w, next, more)
    BY <1>5
  <2>10. next \in {"read", "select", "trial", "audit"}
    BY <2>6
  <2> PICK known : known = read
    OBVIOUS
  <2> PICK all : all = Append(read, file)
    OBVIOUS
  <2>11. /\ Len(all) = n + 1 /\ DOMAIN all = 1..n + 1 /\ all[n + 1] = file /\ \A i \in 1..n : all[i] = read[i]
    <3>1. read \in Seq(ToSet(read) \cup {file})
      BY <2>2 DEF Listed
    <3> HIDE DEF read, file
    <3>2. QED
      BY <3>1
  <2>12. ASSUME NEW i \in DOMAIN all PROVE (i \in 1..n /\ all[i] = read[i] /\ i \in DOMAIN read) \/ (i = n + 1 /\ all[i] = file)
    BY <2>11
  <2>13. n # 0 => all[1] = read[1] /\ 1 \in DOMAIN read
    BY <2>11
  <2> PICK step : step = job[w].step
    OBVIOUS
  <2> HIDE DEF more, next, lacks, file, s
  <2>14. Others(w)
    BY <1>1, <2>9, GoAlone
  <2>15. /\ job'[w] # None /\ job'[w].stage = next /\ job'[w].step = job[w].step /\ job'[w].call = job[w].call
         /\ job'[w].read = all /\ made'[w] = made[w] /\ WorkOK(w)'
    BY <1>1, <2>9, <2>10, GoWork
  <2>16. FreshOK(w)'
    BY <1>1, <2>9, <2>10, GoFresh
  <2>17. next \notin {"name", "fit", "metadata", "artefacts"} \cup Splits
    BY <2>10, OneMoreSplit
  <2>18. \A i \in DOMAIN read : /\ i = 1 => read[i] # None
                                /\ read[i] # None => Listed(read[i].frame.columns)
                                /\ job[w].step # "features" /\ read[i] # None =>
                                     Needed(FeatureColumns(read[1].frame), read[i].frame)
    BY <1>1, <2>1 DEF ReadOK
  <2>19. ASSUME NEW i \in DOMAIN all
         PROVE  /\ i = 1 => all[i] # None
                /\ all[i] # None => Listed(all[i].frame.columns)
                /\ job[w].step # "features" /\ all[i] # None => Needed(FeatureColumns(all[1].frame), all[i].frame)
    <3>1. CASE i \in 1..n /\ all[i] = read[i] /\ i \in DOMAIN read
      <4>1. all[1] = read[1]
        BY <2>13, <3>1
      <4>2. QED
        BY <2>18, <3>1, <4>1
    <3>2. CASE i = n + 1 /\ all[i] = file
      <4>1. CASE n = 0
        <5>1. i = 1 /\ file # None
          BY <1>5, <2>3, <3>2, <4>1
        <5>2. QED
          BY <2>4, <3>2, <5>1 DEF Needed
      <4>2. CASE n # 0
        BY <2>3, <2>4, <2>5, <2>13, <3>2, <4>2
      <4>3. QED
        BY <4>1, <4>2
    <3>3. QED
      BY <2>12, <3>1, <3>2
  <2>20. next # "read" => Len(all) = 3
    <3>1. n = 2 => n + 1 = 3
      OBVIOUS
    <3>2. QED
      BY <2>3, <2>6, <2>11, <3>1
  <2>21. LearnedOK(w)'
    <3>1. LoopOK(w)' /\ FitOK(w)' /\ ResultOK(w)'
      BY <2>15, <2>17 DEF LoopOK, FitOK, ResultOK, InStage
    <3>2. ReadOK(w)'
      BY <2>15, <2>19, <2>20 DEF ReadOK, Listed, Needed
    <3>3. QED
      BY <3>1, <3>2 DEF LearnedOK
  <2>22. ProgressOK(w)'
    <3> PICK j : j = job'[w]
      OBVIOUS
    <3> PICK old : old = job[w]
      OBVIOUS
    <3>1. ProgressItem(w, old) /\ (StrictAt(w, j.call)' <=> StrictAt(w, old.call))
      BY <1>1, <2>1, <2>15, SamePlace DEF ProgressOK
    <3>2. ASSUME StrictAt(w, old.call), j.step = "features" PROVE \A i \in DOMAIN j.read : j.read[i].number = made[w][2]
      <4>1. \A i \in DOMAIN read : read[i].number = made[w][2]
        BY <1>1, <2>15, <3>1, <3>2 DEF ProgressItem
      <4>2. QED
        BY <2>8, <2>12, <2>15, <3>2, <4>1
    <3>3. ASSUME StrictAt(w, old.call), j.step = "train"
          PROVE  \A i \in DOMAIN j.read : j.read[i] # None => j.read[i].number = made[w][2]
      <4>1. \A i \in DOMAIN read : read[i] # None => read[i].number = made[w][2]
        BY <1>1, <2>15, <3>1, <3>3 DEF ProgressItem
      <4>2. QED
        BY <2>8, <2>12, <2>15, <3>3, <4>1
    <3>4. j.stage = next /\ WrittenBefore(j.stage) = {} /\ made'[w] = made[w]
      BY <2>10, <2>15 DEF WrittenBefore
    <3>5. ProgressItem(w, j)'
      BY <2>17, <3>1, <3>2, <3>3, <3>4 DEF ProgressItem
    <3>6. QED
      BY <3>5, ProgressFrom
  <2>23. QED
    BY <1>2, <2>14, <2>15, <2>16, <2>21, <2>22, OwnStep DEF OrderOK
<1>6. QED
  BY <1>3, <1>4, <1>5

\* The frames that feature engineering selects from, split by split.
LEMMA PlaceOfSplit ==
  ASSUME NEW at, at = [s \in Splits |-> CHOOSE i \in 1..3 : SplitNames[i] = s]
  PROVE  (\A s \in Splits : at[s] \in 1..3) /\ at["train"] = 1
<1>1. /\ SplitNames[1] = "train" /\ SplitNames[2] = "validation" /\ SplitNames[3] = "test"
      /\ \A i \in 1..3 : i = 1 \/ i = 2 \/ i = 3
  BY DEF SplitNames
<1>2. Splits = {"train", "validation", "test"}
  BY OneMoreSplit
<1>3. \A s \in Splits : \E i \in 1..3 : SplitNames[i] = s
  BY <1>1, <1>2
<1>4. \A s \in Splits : at[s] \in 1..3 /\ SplitNames[at[s]] = s
  BY <1>3
<1>5. QED
  BY <1>1, <1>2, <1>4

\* The columns are selected, or the script fails.
LEMMA SelectFeaturesLearned ==
  ASSUME EInv, LearnedInv, NoScript, NEW w \in Workers, SelectFeatures(w)
  PROVE  LearnedInv'
<1> DEFINE read == job[w].read
           frames == [s \in Splits |-> read[CHOOSE i \in 1..3 : SplitNames[i] = s].frame]
           from == [s \in Splits |-> read[CHOOSE i \in 1..3 : SplitNames[i] = s].number]
           result == RunFeaturePipeline(frames)
           more == [result |-> result, read |-> <<>>, from |-> from]
<1>1. /\ job[w] # None /\ job[w].step = "features" /\ job[w].stage = "select" /\ place' = place /\ raw' = raw
      /\ processed' = processed /\ features' = features
  BY DEF SelectFeatures, At, Steady, stores
<1>2. End(w, "failed") \/ (result # None /\ Go(w, "train", more))
  BY DEF SelectFeatures, Splits
<1>3. FramesOK' /\ Quiet(w)
  BY <1>1, FramesStay DEF Quiet
<1>4. CASE End(w, "failed")
  BY <1>1, <1>3, <1>4, EndOK
<1>5. CASE result # None /\ Go(w, "train", more)
  <2> PICK at : at = [s \in Splits |-> CHOOSE i \in 1..3 : SplitNames[i] = s]
    OBVIOUS
  <2>1. (\A s \in Splits : at[s] \in 1..3) /\ at["train"] = 1
    BY PlaceOfSplit
  <2>2. \A s \in Splits : frames[s] = read[at[s]].frame /\ from[s] = read[at[s]].number
    OBVIOUS
  <2>3. DOMAIN read = 1..3 /\ read[1] # None /\ Listed(read[1].frame.columns)
    <3>1. ScriptOK(w) /\ ReadOK(w)
      BY DEF EInv, LearnedInv, LearnedOK
    <3>2. Listed(read) /\ Len(read) = 3
      BY <1>1, <3>1 DEF ScriptOK
    <3>3. DOMAIN read = 1..3 /\ 1 \in 1..3
      BY <3>2 DEF Listed
    <3>4. \A i \in DOMAIN read : (i = 1 => read[i] # None) /\ (read[i] # None => Listed(read[i].frame.columns))
      BY <1>1, <3>1 DEF ReadOK
    <3>5. QED
      BY <3>3, <3>4
  <2>4. DOMAIN more = {"result", "read", "from"} /\ more.result = result /\ more.from = from /\ Go(w, "train", more)
    BY <1>5
  <2>5. DOMAIN frames = Splits /\ "train" \in Splits
    BY OneMoreSplit
  <2>6. result = RunFeaturePipeline(frames) /\ result # None
    BY <1>5
  <2> HIDE DEF more, result, from, frames, read
  <2>7. \A s \in Splits : Listed(result.frames[s].columns)
    <3>1. Listed(frames["train"].columns)
      BY <2>1, <2>2, <2>3, <2>5
    <3>2. QED
      BY ONLY <2>5, <2>6, <3>1, SelectedFrames
  <2>8. Others(w)
    BY <1>1, <2>4, GoAlone
  <2>9. /\ job'[w] # None /\ job'[w].stage = "train" /\ job'[w].step = "features" /\ job'[w].call = job[w].call
        /\ "result" \in DOMAIN job'[w] /\ job'[w].result = result
        /\ "from" \in DOMAIN job'[w] /\ job'[w].from = from /\ made'[w] = made[w] /\ WorkOK(w)'
    BY <1>1, <2>4, GoWork
  <2>10. FreshOK(w)'
    BY <1>1, <2>4, GoFresh
  <2>11. LearnedOK(w)'
    <3>1. ResultOK(w)'
      BY <2>7, <2>9 DEF ResultOK, Listed
    <3>2. QED
      BY <2>5, <2>9, <3>1, WritingLearned
  <2>12. ProgressOK(w)'
    <3> PICK j : j = job'[w]
      OBVIOUS
    <3> PICK old : old = job[w]
      OBVIOUS
    <3>1. ProgressItem(w, old) /\ (StrictAt(w, j.call)' <=> StrictAt(w, old.call))
      BY <1>1, <2>9, SamePlace DEF LearnedInv, OrderOK, ProgressOK
    <3>2. ASSUME StrictAt(w, old.call) PROVE \A s \in Splits : from[s] = made[w][2]
      <4>1. \A i \in DOMAIN read : read[i].number = made[w][2]
        BY <1>1, <3>1, <3>2 DEF ProgressItem, read
      <4>2. QED
        BY <2>1, <2>2, <2>3, <4>1
    <3>3. WrittenBefore(j.stage) = {}
      BY <2>9 DEF WrittenBefore
    <3>4. ProgressItem(w, j)'
      BY <2>9, <3>1, <3>2, <3>3 DEF ProgressItem
    <3>5. QED
      BY <3>4, ProgressFrom
  <2>13. QED
    BY <1>3, <2>8, <2>9, <2>10, <2>11, <2>12, OwnStep DEF OrderOK
<1>6. QED
  BY <1>2, <1>4, <1>5

\* A split that is selected from one of the last preprocessing.
LEMMA WriteFeatureSplitLearned ==
  ASSUME EInv, LearnedInv, NoScript, NEW w \in Workers, NEW s \in Splits, WriteFeatureSplit(w, s)
  PROVE  LearnedInv'
<1> PICK next : next = Following(s)
  OBVIOUS
<1>1. /\ job[w] # None /\ job[w].step = "features" /\ job[w].stage = s
      /\ place' = place /\ raw' = raw /\ processed' = processed /\ Go(w, next, <<>>)
      /\ features' = [features EXCEPT ![s] = [number |-> job[w].from[s], frame |-> job[w].result.frames[s]]]
  BY DEF WriteFeatureSplit, At, Steady
<1>2. /\ next \in {"validation", "test", "metadata"} /\ WrittenBefore(next) = WrittenBefore(s) \cup {s}
      /\ DOMAIN <<>> = {}
  BY OneMoreSplit
<1>3. /\ features'[s].number = job[w].from[s] /\ features'[s].frame = job[w].result.frames[s]
      /\ \A t \in Splits \ {s} : features'[t] = features[t]
  <2>1. s \in DOMAIN features
    BY DEF EInv, Shapes, Splits
  <2>2. features'[s] = [number |-> job[w].from[s], frame |-> job[w].result.frames[s]]
    BY <1>1, <2>1
  <2>3. \A t \in Splits \ {s} : features'[t] = features[t]
    BY <1>1
  <2>4. QED
    BY <2>2, <2>3
<1>4. ResultOK(w) /\ ProgressOK(w) /\ FreshOK(w)
  BY DEF LearnedInv, LearnedOK, OrderOK
<1>5. "result" \in DOMAIN job[w] /\ \A t \in Splits : Listed(job[w].result.frames[t].columns)
  BY <1>1, <1>4 DEF ResultOK
<1>6. FramesOK'
  <2>1. FramesOK
    BY DEF LearnedInv
  <2>2. ASSUME NEW t \in Splits PROVE (processed'[t] \notin {None, Torn} => Listed(processed'[t].frame.columns))
                                      /\ (features'[t] \notin {None, Torn} => Listed(features'[t].frame.columns))
    BY <1>1, <1>3, <1>5, <2>1 DEF FramesOK
  <2>3. QED
    BY <2>2 DEF FramesOK, Listed
<1>7. Quiet(w) /\ Others(w)
  BY <1>1, GoAlone DEF Quiet
<1>8. "from" \in DOMAIN job[w]
  BY <1>1 DEF EInv, ScriptOK, Splits
<1>9. /\ job'[w] # None /\ made'[w] = made[w] /\ agenda'[w] = agenda[w]
      /\ job'[w].step = "features" /\ job'[w].call = job[w].call
      /\ job'[w].stage = next
      /\ "result" \in DOMAIN job'[w] /\ job'[w].result = job[w].result
      /\ "from" \in DOMAIN job'[w] /\ job'[w].from = job[w].from
      /\ \A c, t : Pending(w, c, t)' <=> Pending(w, c, t)
      /\ WorkOK(w)'
  BY <1>1, <1>2, <1>5, <1>8, GoWork
<1>10. LearnedOK(w)'
  <2>1. ResultOK(w)'
    BY <1>5, <1>9 DEF ResultOK, Listed
  <2>2. QED
    BY <1>2, <1>9, <2>1, WritingLearned, OneMoreSplit
<1>11. FreshOK(w)'
  <2> SUFFICES ASSUME NEW x \in Todo(w)' PROVE FreshItem(w, x)'
    BY DEF FreshOK
  <2> PICK c : c = x.call
    OBVIOUS
  <2>1. (\E n \in DOMAIN agenda[w] : x = agenda[w][n]) \/ x = job'[w]
    BY <1>9 DEF Todo, ToSet
  <2>2. \E y \in Todo(w) : y.call = c /\ y.step = x.step
    <3>1. CASE x = job'[w]
      BY <1>1, <1>9, <3>1, TodoFacts
    <3>2. CASE \E n \in DOMAIN agenda[w] : x = agenda[w][n]
      BY <3>2, TodoFacts
    <3>3. QED
      BY <2>1, <3>1, <3>2
  <2>3. PICK y \in Todo(w) : y.call = c /\ y.step = x.step
    BY <2>2
  <2>4. FreshItem(w, y)
    BY <1>4 DEF FreshOK
  <2>5. (StrictAt(w, c)' <=> StrictAt(w, c)) /\ (Of(w, c, processed)' <=> Of(w, c, processed))
    BY <1>1, <1>9, SamePlace DEF Of
  <2>6. ASSUME Of(w, c, features) PROVE Pending(w, c, "features")
    <3>1. job[w].call <= c /\ made[w][1] <= job[w].call /\ job[w].call \in Nat /\ made[w][1] \in Nat
      BY <1>1, <1>9, <2>1, NothingBefore
    <3>2. made[w][1] = c
      BY <2>6 DEF Of
    <3>3. job[w].call = c
      BY <3>1, <3>2
    <3>4. QED
      BY <1>1, <3>3, TodoFacts DEF Pending
  <2>7. StrictAt(w, c) => /\ x.step = "features" => Pending(w, c, "preprocess") \/ Of(w, c, processed)
                          /\ x.step = "train" => Pending(w, c, "features")
    BY <2>3, <2>4, <2>6 DEF FreshItem
  <2>8. StrictAt(w, c) => /\ x.step = "features" => Pending(w, c, "preprocess")' \/ Of(w, c, processed)'
                          /\ x.step = "train" => Pending(w, c, "features")'
    BY <1>9, <2>5, <2>7
  <2>9. QED
    BY <2>5, <2>8 DEF FreshItem
<1>12. ProgressOK(w)'
  <2> PICK j : j = job'[w]
    OBVIOUS
  <2> PICK old : old = job[w]
    OBVIOUS
  <2>1. ProgressItem(w, old) /\ (StrictAt(w, j.call)' <=> StrictAt(w, old.call))
    BY <1>1, <1>4, <1>9, SamePlace DEF ProgressOK
  <2>2. StrictAt(w, old.call) => /\ \A t \in Splits : old.from[t] = made[w][2]
                                 /\ \A t \in WrittenBefore(s) : features[t].number = made[w][2]
    BY <1>1, <2>1 DEF ProgressItem
  <2>3. StrictAt(w, old.call) => \A t \in WrittenBefore(j.stage) : features'[t].number = made[w][2]
    BY <1>2, <1>3, <1>9, <2>2, OneMoreSplit
  <2>4. j.stage \notin {"read", "select", "name"}
    BY <1>2, <1>9
  <2>5. ProgressItem(w, j)'
    BY <1>9, <2>1, <2>2, <2>3, <2>4 DEF ProgressItem
  <2>6. QED
    BY <2>5, ProgressFrom
<1>13. QED
  BY <1>6, <1>7, <1>9, <1>10, <1>11, <1>12, OwnStep DEF OrderOK

\* The metadata of the selected splits.
LEMMA WriteMetadataLearned ==
  ASSUME EInv, LearnedInv, NoScript, NEW w \in Workers, WriteMetadata(w)
  PROVE  LearnedInv'
<1>1. /\ job[w] # None /\ job[w].step = "features" /\ job[w].stage = "metadata" /\ place' = place /\ raw' = raw
      /\ processed' = processed /\ Go(w, "artefacts", <<>>) /\ DOMAIN <<>> = {}
      /\ \A s \in Splits : features'[s] = features[s]
  <2>1. "metadata" \notin Splits
    BY OneMoreSplit
  <2>2. QED
    BY <2>1 DEF WriteMetadata, At, Steady
<1>2. FramesOK' /\ Quiet(w) /\ Others(w)
  BY <1>1, FramesStay, GoAlone DEF Quiet
<1>3. FreshOK(w)'
  BY <1>1, GoFresh
<1>4. /\ job'[w] # None /\ job'[w].stage = "artefacts" /\ job'[w].step = "features" /\ job'[w].call = job[w].call
      /\ \A f \in DOMAIN job[w] \ {"stage"} : f \in DOMAIN job'[w] /\ job'[w][f] = job[w][f]
      /\ made'[w] = made[w] /\ WorkOK(w)'
  BY <1>1, GoWork
<1>5. LearnedOK(w)'
  BY <1>4, WritingLearned, OneMoreSplit
<1>6. ProgressOK(w)'
  <2> PICK j : j = job'[w]
    OBVIOUS
  <2> PICK old : old = job[w]
    OBVIOUS
  <2>1. ProgressItem(w, old) /\ (StrictAt(w, j.call)' <=> StrictAt(w, old.call))
    BY <1>1, <1>4, SamePlace DEF LearnedInv, OrderOK, ProgressOK
  <2>2. StrictAt(w, old.call) => /\ "from" \in DOMAIN old /\ \A s \in Splits : old.from[s] = made[w][2]
                                 /\ \A s \in Splits : features[s].number = made[w][2]
    BY <1>1, <2>1, OneMoreSplit DEF ProgressItem
  <2>3. "from" \in DOMAIN old => "from" \in DOMAIN j /\ j.from = old.from
    BY <1>4
  <2>4. ProgressItem(w, j)'
    BY <1>1, <1>4, <2>1, <2>2, <2>3, OneMoreSplit DEF ProgressItem
  <2>5. QED
    BY <2>4, ProgressFrom
<1>7. QED
  BY <1>2, <1>3, <1>4, <1>5, <1>6, OwnStep DEF OrderOK

\* The audit lets splits through that have the recorded columns and no hole.
LEMMA AuditLearned ==
  ASSUME EInv, LearnedInv, NoScript, NEW w \in Workers, Audit(w)
  PROVE  LearnedInv'
<1> PICK expected : expected = ExpectedFeatures
  OBVIOUS
<1> DEFINE read == job[w].read
           columns == FeatureColumns(read[1].frame)
           more == [expected |-> expected]
<1>1. /\ job[w] # None /\ job[w].stage = "audit" /\ place' = place /\ raw' = raw
      /\ processed' = processed /\ features' = features
      /\ End(w, "failed") \/ (AuditFeatures(read) /\ Go(w, "fit", more))
  BY DEF Audit, InStage, Steady, stores
<1>2. FramesOK' /\ Quiet(w)
  BY <1>1, FramesStay DEF Quiet
<1>3. CASE End(w, "failed")
  BY <1>1, <1>2, <1>3, EndOK
<1>4. CASE AuditFeatures(read) /\ Go(w, "fit", more)
  <2>1. /\ expected \in {None, columns}
        /\ \A i \in {k \in 1..3 : read[k] # None} : \A x \in ToSet(columns) : Missing \notin Values(read[i].frame, x)
    BY <1>4 DEF AuditFeatures
  <2>2. DOMAIN more = {"expected"} /\ more.expected = expected /\ Go(w, "fit", more)
    BY <1>4
  <2> HIDE DEF more
  <2>3. Others(w)
    BY <1>1, <2>2, GoAlone
  <2>4. "fit" \notin Splits /\ "audit" \in Training
    BY OneMoreSplit DEF Training
  <2>5. "read" \in DOMAIN job[w] /\ job[w].step \in {"train", "optimize"}
    BY <1>1, <2>4 DEF EInv, ScriptOK, Fields
  <2>6. /\ job'[w] # None /\ job'[w].stage = "fit" /\ job'[w].step = job[w].step /\ job'[w].call = job[w].call
        /\ job'[w].expected = expected /\ job'[w].read = job[w].read /\ made'[w] = made[w] /\ WorkOK(w)'
    BY <1>1, <2>2, <2>5, GoWork
  <2>7. FreshOK(w)'
    BY <1>1, <2>2, GoFresh
  <2>8. LearnedOK(w)'
    <3>1. LoopOK(w)' /\ ResultOK(w)'
      BY <2>4, <2>6 DEF LoopOK, ResultOK, InStage
    <3>2. ReadOK(w)'
      <4>1. ReadOK(w)
        BY DEF LearnedInv, LearnedOK
      <4>2. QED
        BY <1>1, <2>6, <4>1 DEF ReadOK, Listed, Needed
    <3>3. FitOK(w)'
      BY <2>1, <2>6 DEF FitOK
    <3>4. QED
      BY <3>1, <3>2, <3>3 DEF LearnedOK
  <2>9. ProgressOK(w)'
    <3> PICK j : j = job'[w]
      OBVIOUS
    <3> PICK old : old = job[w]
      OBVIOUS
    <3>1. ProgressItem(w, old) /\ (StrictAt(w, j.call)' <=> StrictAt(w, old.call))
      BY <1>1, <2>6, SamePlace DEF LearnedInv, OrderOK, ProgressOK
    <3>2. StrictAt(w, old.call) /\ old.step = "train" => \A i \in DOMAIN old.read : old.read[i] # None => old.read[i].number = made[w][2]
      BY <1>1, <3>1 DEF ProgressItem
    <3>3. ProgressItem(w, j)'
      BY <2>5, <2>6, <3>1, <3>2 DEF ProgressItem
    <3>4. QED
      BY <3>3, ProgressFrom
  <2>10. QED
    BY <1>2, <2>3, <2>6, <2>7, <2>8, <2>9, OwnStep DEF OrderOK
<1>5. QED
  BY <1>1, <1>3, <1>4

\* The fit remembers what the splits are of, and what the epochs left.
LEMMA FitLearned ==
  ASSUME EInv, LearnedInv, NoScript, NEW w \in Workers, Fit(w)
  PROVE  LearnedInv'
<1> DEFINE read == job[w].read
           known == {i \in 1..3 : read[i] # None}
           learned(losses) == [ by |-> job[w].number, from |-> {read[i].number : i \in known},
                                columns |-> FeatureColumns(read[1].frame), trial |-> job[w].best, loop |-> TrainLoop(losses) ]
<1>1. /\ job[w] # None /\ job[w].stage = "fit" /\ place' = place /\ raw' = raw
      /\ processed' = processed /\ features' = features
  BY DEF Fit, InStage, Steady, stores
<1>2. PICK losses \in IF job[w].model \in Deep THEN scenario.losses ELSE {<<>>} :
        Go(w, "name", [read |-> <<>>, losses |-> losses, content |-> learned(losses)])
  BY Zenon DEF Fit
<1> PICK content : content = learned(losses)
  OBVIOUS
<1> DEFINE more == [read |-> <<>>, losses |-> losses, content |-> content]
<1>3. Go(w, "name", more) /\ DOMAIN more = {"read", "losses", "content"} /\ more.losses = losses /\ more.content = content
  BY <1>2
<1>4. content.from = {read[i].number : i \in known} /\ content.loop = TrainLoop(losses)
  OBVIOUS
<1> HIDE DEF more, learned
<1>5. losses \in Seq(Int \cup {Missing})
  <2>1. <<>> \in Seq(Int \cup {Missing})
    OBVIOUS
  <2>2. \A l \in scenario.losses : l \in Seq(Int \cup {Missing})
    BY EngineAAssumption DEF EInv, Shapes, scenario
  <2>3. QED
    BY <2>1, <2>2
<1>6. FramesOK' /\ Quiet(w) /\ Others(w)
  BY <1>1, <1>3, FramesStay, GoAlone DEF Quiet
<1>7. /\ job'[w] # None /\ job'[w].stage = "name" /\ job'[w].step = job[w].step /\ job'[w].call = job[w].call
      /\ {"losses", "content"} \subseteq DOMAIN job'[w]
      /\ job'[w].losses = losses /\ job'[w].content = content /\ made'[w] = made[w] /\ WorkOK(w)'
  BY <1>1, <1>3, GoWork
<1>8. FreshOK(w)'
  BY <1>1, <1>3, GoFresh
<1>9. LearnedOK(w)'
  <2>1. LoopOK(w)'
    <3>1. (job[w].losses)' = losses /\ (job[w].content)' = content
      BY <1>7
    <3>2. QED
      BY <1>4, <1>5, <1>7, <3>1 DEF LoopOK
  <2>2. "name" \notin Splits
    BY OneMoreSplit
  <2>3. ResultOK(w)' /\ ReadOK(w)' /\ FitOK(w)'
    BY <1>7, <2>2 DEF ResultOK, ReadOK, FitOK, InStage
  <2>4. QED
    BY <2>1, <2>3 DEF LearnedOK
<1>10. ProgressOK(w)'
  <2> PICK j : j = job'[w]
    OBVIOUS
  <2> PICK old : old = job[w]
    OBVIOUS
  <2>1. ProgressItem(w, old) /\ (StrictAt(w, j.call)' <=> StrictAt(w, old.call))
    BY <1>1, <1>7, SamePlace DEF LearnedInv, OrderOK, ProgressOK
  <2>2. DOMAIN read = 1..3 /\ read[1] # None
    <3>1. Listed(read) /\ Len(read) = 3 /\ \A i \in DOMAIN read : i = 1 => read[i] # None
      BY <1>1 DEF EInv, ScriptOK, LearnedInv, LearnedOK, ReadOK
    <3>2. DOMAIN read = 1..3 /\ 1 \in 1..3
      BY <3>1 DEF Listed
    <3>3. QED
      BY <3>1, <3>2
  <2>3. ASSUME StrictAt(w, old.call), old.step = "train" PROVE content.from = {made[w][2]}
    <3>1. \A i \in DOMAIN read : read[i] # None => read[i].number = made[w][2]
      BY <1>1, <2>1, <2>3 DEF ProgressItem
    <3>2. 1 \in known /\ \A i \in known : read[i].number = made[w][2]
      BY <2>2, <3>1
    <3> HIDE DEF known
    <3>3. QED
      BY <1>4, <3>2
  <2>4. old.step \in {"train", "optimize"}
    <3>1. "fit" \in Training
      BY DEF Training
    <3>2. QED
      BY <1>1, <3>1 DEF EInv, ScriptOK
  <2>5. ProgressItem(w, j)'
    BY <1>7, <2>1, <2>3, <2>4 DEF ProgressItem
  <2>6. QED
    BY <2>5, ProgressFrom
<1>11. QED
  BY <1>6, <1>7, <1>8, <1>9, <1>10, OwnStep DEF OrderOK

\* The training with the best parameters reads the splits again.
LEMMA TrainFinalModelLearned ==
  ASSUME EInv, LearnedInv, NoScript, NEW w \in Workers, TrainFinalModel(w)
  PROVE  LearnedInv'
<1> PICK best : best = BestTrial(job[w].trials)
  OBVIOUS
<1> DEFINE more == [read |-> <<>>, best |-> best]
<1>1. /\ job[w] # None /\ job[w].step = "optimize" /\ place' = place /\ raw' = raw
      /\ processed' = processed /\ features' = features
      /\ End(w, "failed") \/ Go(w, "read", more)
  BY DEF TrainFinalModel, At, Steady, stores
<1>2. FramesOK' /\ Quiet(w)
  BY <1>1, FramesStay DEF Quiet
<1>3. CASE End(w, "failed")
  BY <1>1, <1>2, <1>3, EndOK
<1>4. CASE Go(w, "read", more)
  <2>1. DOMAIN more = {"read", "best"} /\ more.read = <<>> /\ Go(w, "read", more)
    BY <1>4
  <2> HIDE DEF more
  <2>2. Others(w) /\ FreshOK(w)'
    BY <1>1, <2>1, GoAlone, GoFresh
  <2>3. /\ job'[w] # None /\ job'[w].stage = "read" /\ job'[w].step = "optimize" /\ job'[w].read = <<>> /\ WorkOK(w)'
    BY <1>1, <2>1, GoWork
  <2>4. LearnedOK(w)'
    <3>1. "read" \notin Splits /\ DOMAIN job'[w].read = {}
      BY <2>3, OneMoreSplit
    <3>2. LoopOK(w)' /\ ResultOK(w)' /\ FitOK(w)'
      BY <2>3, <3>1 DEF LoopOK, ResultOK, FitOK, InStage
    <3>3. ReadOK(w)'
      BY <2>3, <3>1 DEF ReadOK
    <3>4. QED
      BY <3>2, <3>3 DEF LearnedOK
  <2>5. ProgressOK(w)'
    <3> PICK j : j = job'[w]
      OBVIOUS
    <3>1. ProgressItem(w, j)'
      BY <2>3 DEF ProgressItem
    <3>2. QED
      BY <3>1, ProgressFrom
  <2>6. QED
    BY <1>2, <2>2, <2>3, <2>4, <2>5, OwnStep DEF OrderOK
<1>5. QED
  BY <1>1, <1>3, <1>4

-----------------------------------------------------------------------------
(* The theorem about what trainings have learned. *)

\* Nothing has been learned, and every agenda is in order.
LEMMA LearnedInitial == EngineInit => LearnedInv
<1> SUFFICES ASSUME EngineInit PROVE LearnedInv
  OBVIOUS
<1>1. place \in DOMAIN Scenarios /\ EInv
  BY EngineInitial DEF EngineInit
<1>2. raw \in DOMAIN scenario.histories
  <2>1. scenario.histories # <<>> /\ Listed(scenario.histories)
    BY <1>1, EngineAAssumption DEF scenario
  <2> PICK h : h = scenario.histories
    OBVIOUS
  <2>2. 1 \in DOMAIN h
    BY <2>1 DEF Listed
  <2>3. QED
    BY <2>2 DEF EngineInit
<1>3. FramesOK /\ made = [w \in Workers |-> made[w]]
  BY DEF EngineInit, FramesOK, Absent, Splits
<1>4. ASSUME NEW w \in Workers PROVE LearnedOK(w) /\ OrderOK(w)
  <2>1. job[w] = None /\ made[w] = <<0, 0>>
    BY DEF EngineInit
  <2>2. LearnedOK(w) /\ ProgressOK(w)
    BY <2>1 DEF LearnedOK, LoopOK, ResultOK, ReadOK, FitOK, InStage, ProgressOK
  <2> PICK calls : calls = scenario.calls[w]
    OBVIOUS
  <2> PICK a : a = Agenda(calls)
    OBVIOUS
  <2>3. agenda[w] = a
    BY DEF EngineInit
  <2>4. Listed(calls)
    BY <1>1, EngineAAssumption DEF scenario
  <2>5. /\ Listed(a)
        /\ \A i \in DOMAIN a : Planned(calls, a[i])
        /\ \A i, j \in DOMAIN a : i < j => Sooner(a[i], a[j])
        /\ \A i \in DOMAIN a : a[i].step \in {"train", "features"} /\ PreparesBoth(calls[a[i].call]) =>
             HasOf(a, a[i].call, "preprocess") /\ HasOf(a, a[i].call, "features")
    BY <2>4, AgendaFacts
  <2>6. Todo(w) = ToSet(a)
    BY <2>1, <2>3 DEF Todo
  <2>7. DOMAIN calls \subseteq Nat \ {0}
    BY <2>4 DEF Listed
  <2>8. ASSUME NEW i \in DOMAIN a PROVE ItemOK(w, a[i])
    <3>1. Planned(calls, a[i])
      BY <2>5
    <3>2. QED
      BY <2>1, <2>7, <3>1 DEF Planned, ItemOK, CallOf
  <2>9. WorkOK(w)
    <3>1. \A x \in Todo(w) : ItemOK(w, x)
      BY <2>6, <2>8 DEF ToSet
    <3>2. made[w][1] \in Nat
      BY <2>1
    <3>3. QED
      BY <2>1, <2>3, <2>5, <3>1, <3>2 DEF WorkOK
  <2>10. ASSUME NEW x \in Todo(w) PROVE FreshItem(w, x)
    <3>1. PICK i \in DOMAIN a : x = a[i]
      BY <2>6 DEF ToSet
    <3>2. ASSUME NEW s, HasOf(a, x.call, s) PROVE Pending(w, x.call, s)
      BY <2>6, <3>2 DEF HasOf, Pending, ToSet
    <3>3. StrictAt(w, x.call) => PreparesBoth(calls[x.call])
      BY DEF StrictAt, Strict, CallOf
    <3>4. QED
      BY <2>5, <3>1, <3>2, <3>3 DEF FreshItem
  <2>11. QED
    BY <2>2, <2>9, <2>10 DEF OrderOK, FreshOK
<1>5. QED
  BY <1>2, <1>3, <1>4 DEF LearnedInv

\* Every step keeps the invariant.
LEMMA LearnedStep ==
  ASSUME EInv, LearnedInv, NoScript, [EngineNext]_engineVars
  PROVE  LearnedInv'
<1>1. CASE UNCHANGED engineVars \/ Replace
  BY <1>1, SameLearned
<1>2. ASSUME NEW w \in Workers,
             \/ Start(w) \/ RunElsewhere(w) \/ Load(w) \/ WriteTransforms(w) \/ ReadSplit(w) \/ SelectFeatures(w)
             \/ WriteMetadata(w) \/ WriteSelector(w)
      PROVE  LearnedInv'
  BY <1>2, StartLearned, RunElsewhereLearned, LoadLearned, WriteTransformsLearned, ReadSplitLearned, SelectFeaturesLearned, WriteMetadataLearned, WriteSelectorLearned
<1>3. ASSUME NEW w \in Workers,
             \/ Audit(w) \/ Fit(w) \/ NameExperiment(w) \/ MakeDirectory(w) \/ LookAtIndex(w) \/ AppendRow(w)
             \/ RunTrial(w) \/ TrainFinalModel(w) \/ WriteStudy(w)
      PROVE  LearnedInv'
  BY <1>3, AuditLearned, FitLearned, AsideLearned, AppendRowLearned, RunTrialLearned, TrainFinalModelLearned, EndsLearned
<1>4. ASSUME NEW w \in Workers, CollectManifests(w) \/ TruncateIndex(w) \/ FillIndex(w) \/ Kill(w)
      PROVE  LearnedInv'
  BY <1>4, AsideLearned, EndsLearned, KillLearned
<1>5. ASSUME NEW w \in Workers, NEW s \in Splits, WriteProcessedSplit(w, s) \/ WriteFeatureSplit(w, s)
      PROVE  LearnedInv'
  BY <1>5, WriteProcessedSplitLearned, WriteFeatureSplitLearned
<1>6. ASSUME NEW w \in Workers, NEW part \in {"model", "metrics", "manifest"}, WriteExperiment(w, part)
      PROVE  LearnedInv'
  BY <1>6, AsideLearned
<1>7. QED
  BY <1>1, <1>2, <1>3, <1>4, <1>5, <1>6 DEF EngineNext, Splits

\* A column of a frame that is chosen is one of its columns.
LEMMA FeatureColumnsFacts ==
  ASSUME NEW frame, Listed(frame.columns)
  PROVE  ToSet(FeatureColumns(frame)) \subseteq ToSet(frame.columns)
BY ChosenFacts DEF FeatureColumns

\* At the fit the splits agree.
LEMMA SplitsAgreeLearned ==
  ASSUME EInv, LearnedInv, NEW w \in Workers, InStage(w, "fit")
  PROVE  LET read == job[w].read
             columns == FeatureColumns(read[1].frame)
         IN /\ job[w].expected \in {None, columns}
            /\ \A i \in {k \in 1..3 : read[k] # None} : \A x \in ToSet(columns) :
                 x \in ToSet(read[i].frame.columns) /\ Missing \notin Values(read[i].frame, x)
<1> DEFINE read == job[w].read
           columns == FeatureColumns(read[1].frame)
<1>1. /\ job[w].expected \in {None, columns}
      /\ \A i \in {k \in 1..3 : read[k] # None} : \A x \in ToSet(columns) : Missing \notin Values(read[i].frame, x)
  BY DEF LearnedInv, LearnedOK, FitOK
<1>2. job[w] # None /\ job[w].stage = "fit" /\ "fit" \in Training
  BY DEF InStage, Training
<1>3. DOMAIN read = 1..3 /\ job[w].step # "features"
  <2>1. Listed(read) /\ Len(read) = 3 /\ job[w].step \in {"train", "optimize"}
    BY <1>2 DEF EInv, ScriptOK, LearnedInv, LearnedOK, ReadOK
  <2>2. QED
    BY <2>1 DEF Listed
<1>4. \A i \in DOMAIN read : read[i] # None => Listed(read[i].frame.columns) /\ Needed(columns, read[i].frame)
  BY <1>2, <1>3 DEF LearnedInv, LearnedOK, ReadOK
<1>5. ASSUME NEW i \in 1..3, read[i] # None, NEW x \in ToSet(columns) PROVE x \in ToSet(read[i].frame.columns)
  <2> PICK frame : frame = read[i].frame
    OBVIOUS
  <2>1. Listed(frame.columns) /\ x \in ToSet(FeatureColumns(frame))
    BY <1>3, <1>4, <1>5 DEF Needed
  <2>2. QED
    BY <2>1, FeatureColumnsFacts
<1> HIDE DEF read, columns
<1>6. QED
  BY <1>1, <1>5 DEF read, columns

\* A strict workflow has trained on what it has prepared.
LEMMA TrainedOnFreshLearned ==
  ASSUME EInv, LearnedInv, NEW w \in Workers, InStage(w, "name"), StrictAt(w, job[w].call)
  PROVE  made[w][1] = job[w].call /\ job[w].content.from = {made[w][2]}
<1>1. job[w] # None /\ job[w].stage = "name" /\ "name" \in Training
  BY DEF InStage, Training
<1>2. job[w].step \in {"train", "optimize"}
  BY <1>1 DEF EInv, ScriptOK
<1>3. job[w].step # "optimize"
  <2>1. ItemOK(w, job[w])
    BY <1>1, TodoFacts DEF LearnedInv, OrderOK, WorkOK
  <2>2. PreparesBoth(CallOf(w, job[w].call))
    BY DEF StrictAt, Strict
  <2>3. QED
    BY <2>1, <2>2 DEF ItemOK
<1>4. made[w][1] = job[w].call
  BY <1>1, <1>2, <1>3, ReadsFresh DEF Of
<1>5. job[w].content.from = {made[w][2]}
  <2> PICK j : j = job[w]
    OBVIOUS
  <2>1. ProgressItem(w, j)
    BY <1>1 DEF LearnedInv, OrderOK, ProgressOK
  <2>2. QED
    BY <1>1, <1>2, <1>3, <2>1 DEF ProgressItem
<1>6. QED
  BY <1>4, <1>5

\* A training has its splits from one preparation, its own where its workflow
\* makes one and nobody else does, on the columns that were recorded; it keeps its
\* best epoch and stops when its patience is used up.
THEOREM TrainingSoundHolds ==
  ASSUME Markers, NoScript
  PROVE  EngineSpec => []TrainingSound
<1>1. ASSUME EInv, LearnedInv PROVE TrainingSound
  <2>1. SplitsAgree
    BY <1>1, SplitsAgreeLearned DEF SplitsAgree
  <2>2. TrainedOnFresh
    BY <1>1, TrainedOnFreshLearned DEF TrainedOnFresh, StrictAt, CallOf
  <2>3. ASSUME NEW w \in Workers, InStage(w, "name")
        PROVE  /\ job[w].losses \in Seq(Int \cup {Missing})
               /\ job[w].content.loop = TrainLoop(job[w].losses)
    BY <1>1, <2>3 DEF LearnedInv, LearnedOK, LoopOK
  <2>4. BestRestored
    <3> SUFFICES ASSUME NEW w \in Workers, InStage(w, "name"), NEW all, all = job[w].losses,
                        NEW loop, loop = job[w].content.loop, NEW some, some = SubSeq(all, 1, loop.epochs),
                        ToSet(some) \ {Missing} # {}
                 PROVE  /\ some[loop.weights] # Missing
                        /\ \A e \in DOMAIN some : some[e] # Missing => some[e] >= some[loop.weights] - MinDelta
      BY DEF BestRestored
    <3>1. all \in Seq(Int \cup {Missing}) /\ loop = TrainLoop(all)
      BY <2>3
    <3>2. QED
      BY <3>1, LoopFacts
  <2>5. StopsAfterPatience
    <3> SUFFICES ASSUME NEW w \in Workers, InStage(w, "name"), NEW all, all = job[w].losses,
                        NEW loop, loop = job[w].content.loop, NEW some, some = SubSeq(all, 1, loop.epochs)
                 PROVE  LET since == loop.epochs - IF ToSet(some) \ {Missing} = {} THEN 0 ELSE loop.weights
                        IN since <= Patience /\ (loop.epochs < Len(all) => since = Patience)
      BY DEF StopsAfterPatience
    <3>1. all \in Seq(Int \cup {Missing}) /\ loop = TrainLoop(all)
      BY <2>3
    <3>2. QED
      BY <3>1, LoopFacts
  <2>6. QED
    BY <2>1, <2>2, <2>4, <2>5 DEF TrainingSound
<1>2. EInv /\ LearnedInv /\ [EngineNext]_engineVars => EInv' /\ LearnedInv'
  BY EngineStep, LearnedStep
<1>3. EngineInit => EInv /\ LearnedInv
  BY EngineInitial, LearnedInitial
<1>4. QED
  BY <1>1, <1>2, <1>3, PTL DEF EngineSpec

-----------------------------------------------------------------------------
(* What preprocessing and feature engineering have computed. *)

\* What a script has computed or read, until it is written.
DataItem(j, cleaning) ==
  /\ j.step = "preprocess" /\ j.stage \in Splits => PreparedOK(j.result.frames, Fills(cleaning))
  /\ j.step = "features" /\ j.stage \in {"read", "select"} => \A i \in DOMAIN j.read : FrameOK(j.read[i].frame)
  /\ j.step = "features" /\ j.stage = "train" => SelectionOK(j.result)

DataOK(w) == job[w] # None => DataItem(job[w], scenario.cleaning)

WrittenOK == \A s \in Splits : processed[s] \notin {None, Torn} => FrameOK(processed[s].frame)

DataInv == WrittenOK /\ \A w \in Workers : DataOK(w)

\* A step of one worker leaves what the others have computed.
LEMMA OwnData ==
  ASSUME DataInv, NEW w \in Workers, Others(w), WrittenOK', DataOK(w)'
  PROVE  DataInv'
<1>1. ASSUME NEW u \in Workers, u # w PROVE DataOK(u)'
  <2>1. job'[u] = job[u] /\ scenario' = scenario
    BY <1>1 DEF Others, scenario
  <2>2. DataOK(u)
    BY DEF DataInv
  <2>3. QED
    BY <2>1, <2>2 DEF DataOK
<1>2. QED
  BY <1>1 DEF DataInv

\* The splits that lie there, where none is written, or one is torn.
LEMMA WrittenStays ==
  ASSUME DataInv, \A s \in Splits : processed'[s] \in {processed[s], Torn}
  PROVE  WrittenOK'
<1>1. WrittenOK
  BY DEF DataInv
<1>2. ASSUME NEW s \in Splits, processed'[s] \notin {None, Torn} PROVE FrameOK(processed'[s].frame)
  <2>1. processed'[s] = processed[s]
    BY <1>2
  <2>2. FrameOK(processed[s].frame)
    BY <1>1, <1>2, <2>1 DEF WrittenOK
  <2>3. QED
    BY <2>1, <2>2 DEF FrameOK
<1>3. QED
  BY <1>2 DEF WrittenOK, FrameOK, Listed

\* A script ends.
LEMMA EndData ==
  ASSUME EInv, LearnedInv, DataInv, NEW w \in Workers, job[w] # None, NEW code, End(w, code), place' = place, raw' = raw,
         \A s \in Splits : processed'[s] \in {processed[s], Torn}
  PROVE  DataInv'
<1>1. Others(w) /\ job'[w] = None
  BY EndLeaves
<1>2. DataOK(w)'
  BY <1>1 DEF DataOK
<1>3. QED
  BY <1>1, <1>2, WrittenStays, OwnData

\* A script goes on where no split is read or computed.
LEMMA AwayData ==
  ASSUME EInv, LearnedInv, DataInv, NoScript, NEW w \in Workers, job[w] # None, NEW stage, NEW more, Go(w, stage, more),
         place' = place, raw' = raw, {"step", "call", "goesOn", "stage", "number"} \cap DOMAIN more = {}, stage # "elsewhere",
         job[w].step \notin {"preprocess", "features"} \/ stage \notin Splits \cup {"read", "select"},
         \A s \in Splits : processed'[s] = processed[s]
  PROVE  DataInv'
<1>1. Others(w)
  BY GoAlone
<1>2. job'[w].stage = stage /\ job'[w].step = job[w].step
  BY GoWork
<1>3. "train" \in Splits
  BY OneMoreSplit
<1>4. DataOK(w)'
  BY <1>2, <1>3 DEF DataOK, DataItem
<1>5. QED
  BY <1>1, <1>4, WrittenStays, OwnData

\* The steps of the scripts that neither prepare nor select, and of those that are
\* not modelled.
LEMMA ElsewhereData ==
  ASSUME EInv, LearnedInv, DataInv, NoScript, NEW w \in Workers,
         \/ RunElsewhere(w) \/ Audit(w) \/ Fit(w) \/ NameExperiment(w) \/ MakeDirectory(w) \/ LookAtIndex(w) \/ AppendRow(w)
         \/ RunTrial(w) \/ TrainFinalModel(w) \/ WriteStudy(w) \/ CollectManifests(w) \/ TruncateIndex(w) \/ FillIndex(w)
         \/ \E part \in {"model", "metrics", "manifest"} : WriteExperiment(w, part)
  PROVE  DataInv'
<1> DEFINE Reserved == {"step", "call", "goesOn", "stage", "number"}
           Ok(stage, more) == /\ Go(w, stage, more) /\ Reserved \cap DOMAIN more = {} /\ stage # "elsewhere"
                              /\ job[w].step \notin {"preprocess", "features"} \/ stage \notin Splits \cup {"read", "select"}
<1>1. job[w] # None /\ place' = place /\ raw' = raw /\ processed' = processed
  BY DEF RunElsewhere, Audit, Fit, NameExperiment, MakeDirectory, LookAtIndex, AppendRow, RunTrial, TrainFinalModel, WriteStudy,
         CollectManifests, TruncateIndex, FillIndex, WriteExperiment, InStage, At, Steady, stores
<1>2. ASSUME NEW code, End(w, code) PROVE DataInv'
  BY <1>1, <1>2, EndData
<1>3. ASSUME NEW stage, NEW more, Ok(stage, more) PROVE DataInv'
  BY <1>1, <1>3, AwayData
<1>4. {"fit", "name", "mkdir", "model", "metrics", "manifest", "look", "row", "summary", "trial", "truncate", "fill"}
        \cap (Splits \cup {"read", "select", "elsewhere"}) = {}
  BY OneMoreSplit
<1> HIDE DEF Ok
<1>5. ASSUME NEW stage \in {"fit", "name", "mkdir", "model", "metrics", "manifest", "look", "row", "summary", "trial", "truncate", "fill"},
             NEW more, Go(w, stage, more), Reserved \cap DOMAIN more = {}
      PROVE  DataInv'
  BY <1>3, <1>4, <1>5 DEF Ok
<1>6. CASE RunElsewhere(w) \/ WriteStudy(w) \/ FillIndex(w)
  BY <1>2, <1>6 DEF RunElsewhere, WriteStudy, FillIndex
<1>7. CASE Audit(w)
  <2> DEFINE more == [expected |-> ExpectedFeatures]
  <2>1. DOMAIN more = {"expected"} /\ (End(w, "failed") \/ Go(w, "fit", more))
    BY <1>7 DEF Audit
  <2> HIDE DEF more
  <2>2. QED
    BY <1>2, <1>5, <2>1
<1>8. CASE Fit(w)
  <2>1. PICK losses, content : Go(w, "name", [read |-> <<>>, losses |-> losses, content |-> content])
    BY <1>8, Zenon DEF Fit
  <2> DEFINE more == [read |-> <<>>, losses |-> losses, content |-> content]
  <2>2. DOMAIN more = {"read", "losses", "content"} /\ Go(w, "name", more)
    BY <2>1
  <2> HIDE DEF more
  <2>3. QED
    BY <1>5, <2>2
<1>9. CASE NameExperiment(w)
  <2> DEFINE more == [key |-> FreeName(job[w].model, second'), created |-> number']
  <2>1. Go(w, "mkdir", more) /\ DOMAIN more = {"key", "created"}
    BY <1>9 DEF NameExperiment
  <2> HIDE DEF more
  <2>2. QED
    BY <1>5, <2>1
<1>10. ASSUME NEW stage \in {"model", "metrics", "manifest", "look", "summary", "fill"}, Go(w, stage, <<>>) PROVE DataInv'
  <2>1. DOMAIN <<>> = {}
    OBVIOUS
  <2>2. QED
    BY <1>5, <1>10, <2>1
<1>11. CASE MakeDirectory(w)
  BY <1>10, <1>11 DEF MakeDirectory
<1>12. CASE LookAtIndex(w)
  <2> DEFINE more == [header |-> IF index = None THEN <<Header>> ELSE <<>>]
  <2>1. Go(w, "row", more) /\ DOMAIN more = {"header"}
    BY <1>12 DEF LookAtIndex
  <2> HIDE DEF more
  <2>2. QED
    BY <1>5, <2>1
<1>13. CASE AppendRow(w)
  <2>1. Go(w, "summary", <<>>) \/ End(w, "ok")
    BY <1>13 DEF AppendRow, Finish
  <2>2. QED
    BY <1>2, <1>10, <2>1
<1>14. CASE RunTrial(w)
  <2>1. End(w, "failed") \/ \E value \in {Missing, 1, 2} : Go(w, "trial", [trials |-> Append(job[w].trials, value)])
    BY <1>14 DEF RunTrial
  <2>2. ASSUME NEW trials, Go(w, "trial", [trials |-> trials]) PROVE DataInv'
    <3> DEFINE more == [trials |-> trials]
    <3>1. DOMAIN more = {"trials"} /\ Go(w, "trial", more)
      BY <2>2
    <3> HIDE DEF more
    <3>2. QED
      BY <1>5, <3>1
  <2>3. QED
    BY <1>2, <2>1, <2>2
<1>15. CASE TrainFinalModel(w)
  <2> PICK best : best = BestTrial(job[w].trials)
    OBVIOUS
  <2> DEFINE more == [read |-> <<>>, best |-> best]
  <2>1. job[w].step = "optimize" /\ DOMAIN more = {"read", "best"} /\ (End(w, "failed") \/ Go(w, "read", more))
    BY <1>15 DEF TrainFinalModel, At
  <2> HIDE DEF more
  <2>2. Go(w, "read", more) => Ok("read", more)
    BY <2>1 DEF Ok
  <2>3. QED
    BY <1>2, <1>3, <2>1, <2>2
<1>16. CASE CollectManifests(w)
  <2> DEFINE more == [rows |-> RowsOfManifests, known |-> Readable]
  <2>1. Go(w, "truncate", more) /\ DOMAIN more = {"rows", "known"}
    BY <1>16 DEF CollectManifests
  <2> HIDE DEF more
  <2>2. QED
    BY <1>5, <2>1
<1>17. CASE TruncateIndex(w)
  BY <1>10, <1>17 DEF TruncateIndex
<1>18. ASSUME NEW part \in {"model", "metrics", "manifest"}, WriteExperiment(w, part) PROVE DataInv'
  <2>1. \E stage \in {"metrics", "manifest", "look"} : Go(w, stage, <<>>)
    BY <1>18 DEF WriteExperiment
  <2>2. QED
    BY <1>10, <2>1
<1>19. QED
  BY <1>6, <1>7, <1>8, <1>9, <1>11, <1>12, <1>13, <1>14, <1>15, <1>16, <1>17, <1>18

\* A script starts: it has read nothing yet.
LEMMA StartData ==
  ASSUME EInv, LearnedInv, DataInv, NoScript, NEW w \in Workers, Start(w)
  PROVE  DataInv'
<1> DEFINE item == Head(agenda[w])
           first == [stage |-> FirstStage(item.step), number |-> number', read |-> <<>>, trials |-> <<>>, best |-> 0]
<1>1. /\ place' = place /\ raw' = raw /\ made' = made /\ processed' = processed
      /\ agenda[w] # <<>>
  BY DEF Start, stores
<1>2. Listed(agenda[w]) /\ \A n \in DOMAIN agenda[w] : IsScript(agenda[w][n])
  BY DEF EInv, AgendasOK
<1>3. 1 \in DOMAIN agenda[w] /\ item = agenda[w][1]
  BY <1>1, <1>2, TailListed
<1>4. /\ \A u \in Workers \ {w} : agenda'[u] = agenda[u] /\ job'[u] = job[u]
      /\ job'[w] = With(item, first)
  BY DEF EInv, AgendasOK, Shapes, Start
<1>5. IsScript(item)
  BY <1>2, <1>3
<1> HIDE DEF item
<1>6. job'[w].step = item.step /\ job'[w].stage = FirstStage(item.step) /\ job'[w].read = <<>>
  <2>1. DOMAIN item = {"step", "model", "call", "goesOn"} /\ DOMAIN first = {"stage", "number", "read", "trials", "best"}
    BY <1>5 DEF IsScript
  <2>2. /\ DOMAIN With(item, first) = DOMAIN item \cup DOMAIN first
        /\ \A f \in DOMAIN first : With(item, first)[f] = first[f]
        /\ \A f \in DOMAIN item \ DOMAIN first : With(item, first)[f] = item[f]
    BY WithFields
  <2>3. QED
    BY <1>4, <2>1, <2>2
<1>7. FirstStage(item.step) \in {"load", "read", "collect", "elsewhere"}
  BY DEF FirstStage
<1>8. Others(w)
  BY <1>1, <1>4 DEF Others, LearnedInv
<1>9. DataOK(w)'
  <2>1. job'[w].stage \notin Splits /\ "train" \in Splits /\ DOMAIN job'[w].read = {}
    BY <1>6, <1>7, OneMoreSplit
  <2>2. QED
    BY <2>1 DEF DataOK, DataItem
<1>10. QED
  BY <1>1, <1>8, <1>9, WrittenStays, OwnData

\* A preprocessing computes its splits from raw files, or fails.
LEMMA LoadData ==
  ASSUME EInv, LearnedInv, DataInv, NoScript, Halves, NEW w \in Workers, Load(w)
  PROVE  DataInv'
<1> PICK files : files = scenario.histories[raw]
  OBVIOUS
<1> PICK cleaning : cleaning = scenario.cleaning
  OBVIOUS
<1> DEFINE result == PrepareSplits(CleanTable(files, cleaning))
           more == [result |-> result]
<1>1. /\ job[w] # None /\ job[w].step = "preprocess" /\ place' = place /\ raw' = raw /\ processed' = processed
      /\ End(w, "failed") \/ (result # None /\ Go(w, "train", more))
  BY DEF Load, At, Steady, stores
<1>2. CASE End(w, "failed")
  BY <1>1, <1>2, EndData
<1>3. CASE result # None /\ Go(w, "train", more)
  <2>1. place \in DOMAIN Scenarios /\ raw \in DOMAIN Scenarios[place].histories /\ files = Scenarios[place].histories[raw]
        /\ cleaning = Scenarios[place].cleaning
    BY DEF EInv, Shapes, LearnedInv, scenario
  <2>2. \A f \in {TrainFile, TestFile} : files[f] # None => IsRaw(files[f], files)
    BY <2>1, EngineAAssumption
  <2>3. cleaning \in Cleanings
    BY <2>1, EngineAAssumption
  <2>4. DOMAIN more = {"result"} /\ more.result = result /\ Go(w, "train", more)
    BY <1>3
  <2>5. result = PrepareSplits(CleanTable(files, cleaning)) /\ result # None
    BY <1>3
  <2> HIDE DEF result, more
  <2>6. PreparedOK(result.frames, Fills(cleaning))
    BY <2>2, <2>3, <2>5, PipelinePrepared
  <2>7. Others(w)
    BY <1>1, <2>4, GoAlone
  <2>8. job'[w].stage = "train" /\ job'[w].step = "preprocess" /\ job'[w].result = result
    BY <1>1, <2>4, GoWork
  <2>9. DataOK(w)'
    <3>1. scenario' = scenario
      BY <1>1 DEF scenario
    <3>2. QED
      BY <2>6, <2>8, <3>1 DEF DataOK, DataItem
  <2>10. QED
    BY <1>1, <2>7, <2>9, WrittenStays, OwnData
<1>4. QED
  BY <1>1, <1>2, <1>3

\* A split of the preprocessing that runs is written.
LEMMA WriteProcessedSplitData ==
  ASSUME EInv, LearnedInv, DataInv, NoScript, NEW w \in Workers, NEW s \in Splits, WriteProcessedSplit(w, s)
  PROVE  DataInv'
<1> PICK next : next = IF s = "test" THEN "artefacts" ELSE Following(s)
  OBVIOUS
<1>1. /\ job[w] # None /\ job[w].step = "preprocess" /\ job[w].stage = s
      /\ place' = place /\ raw' = raw /\ Go(w, next, <<>>)
      /\ processed' = [processed EXCEPT ![s] = [number |-> job[w].number, frame |-> job[w].result.frames[s]]]
  BY DEF WriteProcessedSplit, At, Steady
<1>2. next # "elsewhere" /\ DOMAIN <<>> = {}
  <2>1. s \in {"train", "validation", "test"}
    BY OneMoreSplit
  <2>2. Following("train") = "validation" /\ Following("validation") = "test"
    BY DEF Following
  <2>3. QED
    BY <2>1, <2>2
<1> PICK frame : frame = job[w].result.frames[s]
  OBVIOUS
<1>3. processed'[s].frame = frame /\ \A t \in Splits \ {s} : processed'[t] = processed[t]
  <2>1. s \in DOMAIN processed
    BY DEF EInv, Shapes, Splits
  <2>2. processed'[s] = [number |-> job[w].number, frame |-> frame]
    BY <1>1, <2>1
  <2>3. QED
    BY <1>1, <2>2
<1>4. DataItem(job[w], scenario.cleaning) /\ WrittenOK
  BY <1>1 DEF DataInv, DataOK
<1>5. PreparedOK(job[w].result.frames, Fills(scenario.cleaning))
  BY <1>1, <1>4 DEF DataItem
<1>6. FrameOK(frame)
  BY <1>5 DEF PreparedOK
<1>7. WrittenOK'
  <2>1. ASSUME NEW t \in Splits, processed'[t] \notin {None, Torn} PROVE FrameOK(processed'[t].frame)
    BY <1>3, <1>4, <1>6, <2>1 DEF WrittenOK
  <2>2. QED
    BY <2>1 DEF WrittenOK
<1>8. Others(w)
  BY <1>1, GoAlone
<1>9. /\ "result" \in DOMAIN job[w]
      /\ job'[w].step = "preprocess" /\ job'[w].stage = next /\ job'[w].result = job[w].result
  <2>1. "result" \in DOMAIN job[w]
    BY <1>1 DEF LearnedInv, LearnedOK, ResultOK
  <2>2. QED
    BY <1>1, <1>2, <2>1, GoWork
<1>10. DataOK(w)'
  <2>1. scenario' = scenario
    BY <1>1 DEF scenario
  <2>2. QED
    BY <1>5, <1>9, <2>1 DEF DataOK, DataItem
<1>11. QED
  BY <1>7, <1>8, <1>10, OwnData

\* A split is read: feature engineering reads what was prepared.
LEMMA ReadSplitData ==
  ASSUME EInv, LearnedInv, DataInv, NoScript, NEW w \in Workers, ReadSplit(w)
  PROVE  DataInv'
<1> DEFINE read == job[w].read
           s == SplitNames[Len(read) + 1]
           file == IF job[w].step = "features" THEN processed[s] ELSE features[s]
           next == IF s # "test" THEN "read"
                   ELSE CASE job[w].step = "features" -> "select"
                          [] job[w].step = "optimize" /\ job[w].best = 0 -> "trial"
                          [] OTHER -> "audit"
           more == [read |-> Append(read, file)]
<1>1. /\ job[w] # None /\ job[w].stage = "read" /\ place' = place /\ raw' = raw /\ processed' = processed
  BY DEF ReadSplit, InStage, Steady, stores
<1>2. \/ End(w, "failed")
      \/ Go(w, next, more) /\ file # Torn /\ (job[w].step = "features" => file # None)
  BY DEF ReadSplit
<1>3. CASE End(w, "failed")
  BY <1>1, <1>3, EndData
<1>4. CASE Go(w, next, more) /\ file # Torn /\ (job[w].step = "features" => file # None)
  <2>1. ScriptOK(w) /\ WrittenOK /\ DataItem(job[w], scenario.cleaning)
    BY <1>1 DEF EInv, DataInv, DataOK
  <2>2. Listed(read) /\ Len(read) \in Nat /\ Len(read) <= 2 /\ job[w].step \in {"features", "train", "optimize"}
    BY <1>1, <2>1 DEF ScriptOK, Listed
  <2>3. s \in Splits
    <3> PICK n \in Nat : n = Len(read) /\ n <= 2
      BY <2>2
    <3>1. s = SplitNames[n + 1] /\ n \in Nat /\ n <= 2
      OBVIOUS
    <3> HIDE DEF s
    <3>2. QED
      BY ONLY <3>1, ThreeSplits
  <2>4. DOMAIN more = {"read"} /\ more.read = Append(read, file) /\ Go(w, next, more)
    BY <1>4
  <2>5. next \in {"read", "select", "trial", "audit"}
    OBVIOUS
  <2>6. job[w].step = "features" => FrameOK(file.frame)
    <3>1. processed[s] \notin {None, Torn} => FrameOK(processed[s].frame)
      BY <2>1, <2>3 DEF WrittenOK
    <3>2. job[w].step = "features" => file = processed[s] /\ file \notin {None, Torn}
      BY <1>4
    <3> HIDE DEF s, file
    <3>3. QED
      BY <3>1, <3>2
  <2>7. job[w].step = "features" => \A i \in DOMAIN read : FrameOK(read[i].frame)
    BY <1>1, <2>1 DEF DataItem
  <2> PICK all : all = Append(read, file)
    OBVIOUS
  <2>8. \A i \in DOMAIN all : (i \in DOMAIN read /\ all[i] = read[i]) \/ all[i] = file
    <3> HIDE DEF read, file
    <3>1. QED
      BY <2>2, ListedAppend
  <2> HIDE DEF more, next, file, s
  <2>9. Others(w)
    BY <1>1, <2>4, GoAlone
  <2>10. job'[w].stage = next /\ job'[w].step = job[w].step /\ job'[w].read = all
    BY <1>1, <2>4, <2>5, GoWork
  <2>11. job[w].step = "features" => \A i \in DOMAIN all : FrameOK(all[i].frame)
    <3> HIDE DEF read
    <3>1. QED
      BY <2>6, <2>7, <2>8
  <2>12. DataOK(w)'
    <3>1. next \notin Splits /\ "train" \in Splits
      BY <2>5, OneMoreSplit
    <3>2. QED
      BY <2>10, <2>11, <3>1 DEF DataOK, DataItem
  <2>13. QED
    BY <1>1, <2>9, <2>12, WrittenStays, OwnData
<1>5. QED
  BY <1>2, <1>3, <1>4

\* The columns are selected from a training split that was prepared.
LEMMA SelectFeaturesData ==
  ASSUME EInv, LearnedInv, DataInv, NoScript, NEW w \in Workers, SelectFeatures(w)
  PROVE  DataInv'
<1> DEFINE read == job[w].read
           frames == [s \in Splits |-> read[CHOOSE i \in 1..3 : SplitNames[i] = s].frame]
           from == [s \in Splits |-> read[CHOOSE i \in 1..3 : SplitNames[i] = s].number]
           result == RunFeaturePipeline(frames)
           more == [result |-> result, read |-> <<>>, from |-> from]
<1>1. /\ job[w] # None /\ job[w].step = "features" /\ job[w].stage = "select" /\ place' = place /\ raw' = raw
      /\ processed' = processed
  BY DEF SelectFeatures, At, Steady, stores
<1>2. End(w, "failed") \/ (result # None /\ Go(w, "train", more))
  BY DEF SelectFeatures, Splits
<1>3. CASE End(w, "failed")
  BY <1>1, <1>3, EndData
<1>4. CASE result # None /\ Go(w, "train", more)
  <2> PICK at : at = [s \in Splits |-> CHOOSE i \in 1..3 : SplitNames[i] = s]
    OBVIOUS
  <2>1. (\A s \in Splits : at[s] \in 1..3) /\ at["train"] = 1
    BY PlaceOfSplit
  <2>2. \A s \in Splits : frames[s] = read[at[s]].frame
    OBVIOUS
  <2>3. FrameOK(read[1].frame)
    <3>1. ScriptOK(w) /\ DataItem(job[w], scenario.cleaning)
      BY <1>1 DEF EInv, DataInv, DataOK
    <3>2. Listed(read) /\ Len(read) = 3
      BY <1>1, <3>1 DEF ScriptOK
    <3>3. 1 \in DOMAIN read
      BY <3>2 DEF Listed
    <3>4. QED
      BY <1>1, <3>1, <3>3 DEF DataItem
  <2>4. DOMAIN more = {"result", "read", "from"} /\ more.result = result /\ Go(w, "train", more)
    BY <1>4
  <2>5. "train" \in Splits /\ "train" \in DOMAIN frames
    BY OneMoreSplit
  <2>6. result = RunFeaturePipeline(frames) /\ result # None
    BY <1>4
  <2> HIDE DEF more, result, from, frames, read
  <2>7. frames["train"] = read[1].frame
    BY <2>1, <2>2, <2>5
  <2>8. SelectionOK(result)
    <3>1. FrameOK(frames["train"])
      BY <2>3, <2>7
    <3>2. QED
      BY ONLY <2>5, <2>6, <3>1, PipelineSelected
  <2>9. Others(w)
    BY <1>1, <2>4, GoAlone
  <2>10. job'[w].stage = "train" /\ job'[w].step = "features" /\ job'[w].result = result
    BY <1>1, <2>4, GoWork
  <2>11. DataOK(w)'
    BY <2>8, <2>10 DEF DataOK, DataItem
  <2>12. QED
    BY <1>1, <2>9, <2>11, WrittenStays, OwnData
<1>5. QED
  BY <1>2, <1>3, <1>4

\* The other files of the two scripts, and the splits of feature engineering.
LEMMA WritesData ==
  ASSUME EInv, LearnedInv, DataInv, NoScript, NEW w \in Workers,
         WriteTransforms(w) \/ WriteMetadata(w) \/ WriteSelector(w) \/ \E s \in Splits : WriteFeatureSplit(w, s)
  PROVE  DataInv'
<1>0. "artefacts" \notin Splits \cup {"read", "select", "elsewhere"} /\ DOMAIN <<>> = {}
  BY OneMoreSplit
<1>1. job[w] # None /\ place' = place /\ raw' = raw /\ \A s \in Splits : processed'[s] = processed[s]
  <2>1. CASE WriteTransforms(w)
    BY <1>0, <2>1 DEF WriteTransforms, At, Steady
  <2>2. CASE WriteMetadata(w)
    BY <2>2 DEF WriteMetadata, At, Steady
  <2>3. CASE WriteSelector(w)
    BY <2>3 DEF WriteSelector, At, Steady
  <2>4. ASSUME NEW s \in Splits, WriteFeatureSplit(w, s)
        PROVE  job[w] # None /\ place' = place /\ raw' = raw /\ processed' = processed
    BY <2>4 DEF WriteFeatureSplit, At, Steady
  <2>5. QED
    BY <2>1, <2>2, <2>3, <2>4
<1>2. CASE WriteTransforms(w) \/ WriteSelector(w)
  <2>1. End(w, "ok")
    BY <1>2 DEF WriteTransforms, WriteSelector
  <2>2. QED
    BY <1>1, <2>1, EndData
<1>3. CASE WriteMetadata(w)
  <2>1. Go(w, "artefacts", <<>>)
    BY <1>3 DEF WriteMetadata
  <2>2. QED
    BY <1>0, <1>1, <2>1, AwayData
<1>4. ASSUME NEW s \in Splits, WriteFeatureSplit(w, s) PROVE DataInv'
  <2> PICK next : next = Following(s)
    OBVIOUS
  <2>1. job[w].step = "features" /\ Go(w, next, <<>>)
    BY <1>4 DEF WriteFeatureSplit, At
  <2>2. next \in {"validation", "test", "metadata"}
    BY OneMoreSplit
  <2>3. Others(w)
    BY <1>1, <2>1, GoAlone
  <2>4. job'[w].stage = next /\ job'[w].step = "features"
    BY <1>0, <1>1, <2>1, <2>2, GoWork
  <2>5. DataOK(w)'
    BY <2>2, <2>4 DEF DataOK, DataItem
  <2>6. QED
    BY <1>1, <2>3, <2>5, WrittenStays, OwnData
<1>5. QED
  BY <1>2, <1>3, <1>4

\* A script that is killed may leave a split torn.
LEMMA KillData ==
  ASSUME EInv, LearnedInv, DataInv, NEW w \in Workers, Kill(w)
  PROVE  DataInv'
<1>1. job[w] # None /\ place' = place /\ raw' = raw /\ End(w, "killed")
  BY DEF Kill
<1>2. processed' = processed \/ processed' = [processed EXCEPT ![job[w].stage] = Torn]
  BY DEF Kill, stores
<1>3. \A s \in Splits : processed'[s] \in {processed[s], Torn}
  BY <1>2 DEF EInv, Shapes, Splits
<1>4. QED
  BY <1>1, <1>3, EndData

\* The raw files are replaced, or nothing happens.
LEMMA SameData ==
  ASSUME DataInv, UNCHANGED engineVars \/ Replace
  PROVE  DataInv'
<1>1. job' = job /\ scenario' = scenario /\ processed' = processed
  BY DEF engineVars, Replace, stores, scenario
<1>2. ASSUME NEW w \in Workers PROVE DataOK(w)'
  BY <1>1 DEF DataInv, DataOK
<1>3. QED
  BY <1>1, <1>2, WrittenStays DEF DataInv

\* Nothing has been computed.
LEMMA DataInitial == EngineInit => DataInv
<1> SUFFICES ASSUME EngineInit PROVE DataInv
  OBVIOUS
<1>1. \A s \in Splits : processed[s] = None
  BY DEF EngineInit, Absent, Splits
<1>2. QED
  BY <1>1 DEF EngineInit, DataInv, WrittenOK, DataOK

\* Every step keeps it.
LEMMA DataStep ==
  ASSUME EInv, LearnedInv, DataInv, NoScript, Halves, [EngineNext]_engineVars
  PROVE  DataInv'
<1>1. CASE UNCHANGED engineVars \/ Replace
  BY <1>1, SameData
<1>2. ASSUME NEW w \in Workers,
             \/ Start(w) \/ Load(w) \/ WriteTransforms(w) \/ ReadSplit(w) \/ SelectFeatures(w)
             \/ WriteMetadata(w) \/ WriteSelector(w) \/ Kill(w)
      PROVE  DataInv'
  BY <1>2, StartData, LoadData, WritesData, ReadSplitData, SelectFeaturesData, KillData
<1>3. ASSUME NEW w \in Workers,
             \/ RunElsewhere(w) \/ Audit(w) \/ Fit(w) \/ NameExperiment(w) \/ MakeDirectory(w) \/ LookAtIndex(w) \/ AppendRow(w)
             \/ RunTrial(w) \/ TrainFinalModel(w) \/ WriteStudy(w) \/ CollectManifests(w) \/ TruncateIndex(w) \/ FillIndex(w)
      PROVE  DataInv'
  BY <1>3, ElsewhereData
<1>4. ASSUME NEW w \in Workers, NEW s \in Splits, WriteProcessedSplit(w, s) \/ WriteFeatureSplit(w, s)
      PROVE  DataInv'
  BY <1>4, WriteProcessedSplitData, WritesData
<1>5. ASSUME NEW w \in Workers, NEW part \in {"model", "metrics", "manifest"}, WriteExperiment(w, part)
      PROVE  DataInv'
  BY <1>5, ElsewhereData
<1>6. QED
  BY <1>1, <1>2, <1>3, <1>4, <1>5 DEF EngineNext, Splits

\* Whatever holes, infinities, twins and constant columns the raw files have, a
\* cleaning that fills or drops leaves no hole in a prepared split; what is scaled
\* and encoded is learned from the training rows alone; and each held-out class is
\* one that was learned.
THEOREM PreparedSoundHolds ==
  ASSUME Markers, NoScript, Halves
  PROVE  EngineSpec => []PreparedSound
<1>1. ASSUME DataInv PROVE PreparedSound
  <2>1. ASSUME NEW w \in Workers, At(w, "preprocess", "train")
        PROVE  PreparedOK(job[w].result.frames, Fills(scenario.cleaning))
    <3>1. "train" \in Splits
      BY OneMoreSplit
    <3>2. QED
      BY <1>1, <2>1, <3>1 DEF At, DataInv, DataOK, DataItem
  <2>2. PreparedComplete
    BY <2>1 DEF PreparedComplete, PreparedOK, Fills, Splits
  <2>3. ScalerAndEncoderOfTraining
    BY <2>1 DEF ScalerAndEncoderOfTraining, PreparedOK
  <2>4. EveryClassLearned
    BY <2>1 DEF EveryClassLearned, PreparedOK, Splits
  <2>5. QED
    BY <2>2, <2>3, <2>4 DEF PreparedSound
<1>2. EInv /\ LearnedInv /\ DataInv /\ [EngineNext]_engineVars => EInv' /\ LearnedInv' /\ DataInv'
  BY EngineStep, LearnedStep, DataStep
<1>3. EngineInit => EInv /\ LearnedInv /\ DataInv
  BY EngineInitial, LearnedInitial, DataInitial
<1>4. QED
  BY <1>1, <1>2, <1>3, PTL DEF EngineSpec

\* The columns that are left are among those that vary or hold nothing to compare;
\* no two of them say the same, whatever chains of correlated columns there were;
\* and where a column varies in training, one is left.
THEOREM SelectionSoundHolds ==
  ASSUME Markers, NoScript, Halves
  PROVE  EngineSpec => []SelectionSound
<1>1. ASSUME EInv, DataInv PROVE SelectionSound
  <2>1. ASSUME NEW w \in Workers, At(w, "features", "train") PROVE SelectionOK(job[w].result)
    BY <1>1, <2>1 DEF At, DataInv, DataOK, DataItem
  <2>2. KeptApart
    BY <2>1 DEF KeptApart, SelectionOK
  <2>3. ASSUME NEW w \in Workers, At(w, "features", "select"),
               NEW train, train = job[w].read[1].frame, NEW original, original = FeatureColumns(train),
               NEW x \in ToSet(original), Cardinality(Values(train, x) \ {Missing}) > 1
        PROVE  FitCorrelationFilter(train, FitVarianceThreshold(train, original)) # <<>>
    <3>1. job[w] # None /\ job[w].step = "features" /\ job[w].stage = "select"
      BY <2>3 DEF At
    <3>2. 1 \in DOMAIN job[w].read
      BY <1>1, <3>1 DEF EInv, ScriptOK, Listed
    <3>3. FrameOK(train)
      BY <1>1, <2>3, <3>1, <3>2 DEF DataInv, DataOK, DataItem
    <3>4. QED
      BY <2>3, <3>3, OneIsKept
  <2>4. SomethingIsKept
    BY <2>3 DEF SomethingIsKept
  <2>5. QED
    BY <2>2, <2>4 DEF SelectionSound
<1>2. EInv /\ LearnedInv /\ DataInv /\ [EngineNext]_engineVars => EInv' /\ LearnedInv' /\ DataInv'
  BY EngineStep, LearnedStep, DataStep
<1>3. EngineInit => EInv /\ LearnedInv /\ DataInv
  BY EngineInitial, LearnedInitial, DataInitial
<1>4. QED
  BY <1>1, <1>2, <1>3, PTL DEF EngineSpec

=============================================================================
