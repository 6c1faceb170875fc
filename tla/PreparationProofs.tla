---------------------------- MODULE PreparationProofs ----------------------------
(***************************************************************************)
(* Lemmas about DatasetPreparation and FeatureSelection, for every table,  *)
(* whatever its cells: sequences and folds, the orders, totals and spreads *)
(* their filters are built from, what a prepared split holds and what a    *)
(* selection of features leaves.                                           *)
(***************************************************************************)
EXTENDS FeatureSelection, FiniteSetTheorems, SequenceTheorems, WellFoundedInduction, TLAPS

-----------------------------------------------------------------------------
(* Sequences, smallest numbers and ranks.                                  *)

\* A sequence of anything is a sequence of its elements.
LEMMA ListedSeq ==
  ASSUME NEW S, NEW seq \in Seq(S)
  PROVE  Listed(seq) /\ DOMAIN seq = 1..Len(seq) /\ Len(seq) \in Nat
BY DEF Listed, ToSet

\* Another element at the end.
LEMMA ListedAppend ==
  ASSUME NEW seq, Listed(seq), NEW e
  PROVE  /\ Listed(Append(seq, e)) /\ Len(Append(seq, e)) = Len(seq) + 1
         /\ \A i \in DOMAIN Append(seq, e) : (i \in DOMAIN seq /\ Append(seq, e)[i] = seq[i]) \/ Append(seq, e)[i] = e
<1>1. seq \in Seq(ToSet(seq) \cup {e})
  BY DEF Listed
<1>2. Append(seq, e) \in Seq(ToSet(seq) \cup {e})
  BY <1>1
<1>3. /\ Len(Append(seq, e)) = Len(seq) + 1 /\ Len(seq) \in Nat
      /\ \A i \in 1..Len(seq) + 1 : Append(seq, e)[i] = IF i = Len(seq) + 1 THEN e ELSE seq[i]
  BY <1>1
<1>4. DOMAIN seq = 1..Len(seq) /\ DOMAIN Append(seq, e) = 1..Len(seq) + 1
  BY <1>1, <1>2, <1>3
<1>5. ASSUME NEW i \in DOMAIN Append(seq, e), Append(seq, e)[i] # e
      PROVE  i \in DOMAIN seq /\ Append(seq, e)[i] = seq[i]
  BY <1>3, <1>4, <1>5
<1>6. Listed(Append(seq, e))
  BY <1>2, ListedSeq
<1>7. QED
  BY <1>3, <1>5, <1>6

\* One sequence behind another.
LEMMA ListedConcat ==
  ASSUME NEW s, NEW t, Listed(s), Listed(t)
  PROVE  /\ Listed(s \o t)
         /\ \A i \in DOMAIN (s \o t) : \/ i \in DOMAIN s /\ (s \o t)[i] = s[i]
                                       \/ \E j \in DOMAIN t : (s \o t)[i] = t[j]
<1>1. s \in Seq(ToSet(s) \cup ToSet(t)) /\ t \in Seq(ToSet(s) \cup ToSet(t))
  BY DEF Listed
<1>2. s \o t \in Seq(ToSet(s) \cup ToSet(t))
  BY <1>1
<1>3. Len(s \o t) = Len(s) + Len(t) /\ DOMAIN s = 1..Len(s) /\ DOMAIN t = 1..Len(t)
      /\ DOMAIN (s \o t) = 1..Len(s) + Len(t) /\ Len(s) \in Nat /\ Len(t) \in Nat
  BY <1>1, <1>2
<1>4. ASSUME NEW i \in DOMAIN (s \o t), i \notin DOMAIN s PROVE \E j \in DOMAIN t : (s \o t)[i] = t[j]
  <2>1. i - Len(s) \in DOMAIN t /\ (s \o t)[i] = t[i - Len(s)]
    BY <1>1, <1>3, <1>4
  <2>2. QED
    BY <2>1
<1>5. \A i \in DOMAIN s : (s \o t)[i] = s[i]
  BY <1>1, <1>3
<1>6. QED
  BY <1>2, <1>4, <1>5, ListedSeq

\* The natural numbers below one another.
LessThan == {pair \in Nat \X Nat : pair[1] < pair[2]}

\* There is no infinite descent.
LEMMA LessThanFounded == IsWellFoundedOn(LessThan, Nat)
BY NatLessThanWellFounded, Zenon DEF OpToRel, LessThan

\* A set of numbers has a least one.
LEMMA LeastIsLeast ==
  ASSUME NEW T, T \subseteq Nat, T # {}
  PROVE  Least(T) \in T /\ \A y \in T : Least(T) <= y
<1>1. PICK x \in T : \A y \in T : ~ (<<y, x>> \in LessThan)
  BY LessThanFounded, WFMin
<1>2. ASSUME NEW y \in T PROVE x <= y
  <2>1. x \in Nat /\ y \in Nat /\ <<y, x>> \in Nat \X Nat
    OBVIOUS
  <2>2. ~(y < x)
    BY <1>1, <2>1 DEF LessThan
  <2>3. QED
    BY <2>1, <2>2
<1>3. QED
  BY <1>2 DEF Least

\* Two numbers of a finite set have their ranks in their order, and every rank
\* is that of a number.
Below(T, t) == {u \in T : u < t}

LEMMA Ranks ==
  ASSUME NEW T, T \subseteq Nat, IsFiniteSet(T)
  PROVE  /\ \A t \in T : Cardinality(Below(T, t)) \in 0..Cardinality(T) - 1
         /\ \A s, t \in T : s < t => Cardinality(Below(T, s)) < Cardinality(Below(T, t))
         /\ \A n \in 0..Cardinality(T) - 1 : \E t \in T : Cardinality(Below(T, t)) = n
<1>1. Cardinality(T) \in Nat
  BY FS_CardinalityType
<1>2. \A t \in T : IsFiniteSet(Below(T, t)) /\ Cardinality(Below(T, t)) \in Nat
  <2>1. \A t \in T : Below(T, t) \in SUBSET T
    BY DEF Below
  <2>2. QED
    BY <2>1, FS_Subset, FS_CardinalityType
<1>3. ASSUME NEW t \in T PROVE Cardinality(Below(T, t)) \in 0..Cardinality(T) - 1
  <2>1. Below(T, t) \in SUBSET (T \ {t})
    BY DEF Below
  <2>2. IsFiniteSet(T \ {t}) /\ Cardinality(T \ {t}) = Cardinality(T) - 1
    BY FS_RemoveElement
  <2>3. Cardinality(Below(T, t)) <= Cardinality(T \ {t})
    BY <2>1, <2>2, FS_Subset
  <2>4. QED
    BY <1>1, <1>2, <2>2, <2>3
<1>4. ASSUME NEW s \in T, NEW t \in T, s < t
      PROVE  Cardinality(Below(T, s)) < Cardinality(Below(T, t))
  <2>0. s \in Nat /\ t \in Nat
    OBVIOUS
  <2>1. Below(T, s) \in SUBSET Below(T, t) /\ s \in Below(T, t) /\ s \notin Below(T, s)
    <3>1. ASSUME NEW u \in Below(T, s) PROVE u \in Below(T, t)
      <4>1. u \in T /\ u \in Nat /\ u < s
        BY DEF Below
      <4>2. u < t
        BY <1>4, <2>0, <4>1
      <4>3. QED
        BY <4>1, <4>2 DEF Below
    <3>2. s \in Below(T, t) /\ s \notin Below(T, s)
      BY <1>4, <2>0 DEF Below
    <3>3. QED
      BY <3>1, <3>2
  <2>2. /\ Cardinality(Below(T, s)) <= Cardinality(Below(T, t))
        /\ Cardinality(Below(T, t)) = Cardinality(Below(T, s)) => Below(T, t) = Below(T, s)
    BY <1>2, <2>1, FS_Subset
  <2>3. QED
    BY <1>2, <2>1, <2>2
<1>5. \A n \in 0..Cardinality(T) - 1 : \E t \in T : Cardinality(Below(T, t)) = n
  <2> DEFINE rank == [t \in T |-> Cardinality(Below(T, t))]
             places == 0..Cardinality(T) - 1
  <2>1. rank \in [T -> places]
    BY <1>3
  <2>2. \A s, t \in T : rank[s] = rank[t] => s = t
    BY <1>2, <1>4
  <2>3. rank \in Injection(T, places)
    BY <2>1, <2>2 DEF Injection, IsInjective
  <2>4. IsFiniteSet(places) /\ Cardinality(places) = Cardinality(T)
    <3>1. 0 \in Int /\ Cardinality(T) - 1 \in Int
      BY <1>1
    <3>2. /\ IsFiniteSet(0..Cardinality(T) - 1)
          /\ Cardinality(0..Cardinality(T) - 1) =
               IF 0 > Cardinality(T) - 1 THEN 0 ELSE Cardinality(T) - 1 - 0 + 1
      BY ONLY <3>1, FS_Interval
    <3>3. QED
      BY <1>1, <3>2
  <2>5. rank \in Surjection(T, places)
    <3> HIDE DEF rank, places
    <3>1. QED
      BY <2>3, <2>4, FS_Injection
  <2>6. QED
    BY <2>5 DEF Surjection
<1>6. QED
  BY <1>3, <1>4, <1>5

-----------------------------------------------------------------------------
(* Folds.  A fold goes over the subsets of the indices of a sequence, the  *)
(* largest index last; what it has come to after the first k elements is a *)
(* function of k.                                                          *)

\* A set of numbers with 0 and the successors of its members has them all.
LEMMA Inductive ==
  ASSUME NEW T, T \subseteq Nat, 0 \in T, \A k \in T : k + 1 \in T
  PROVE  T = Nat
<1> SUFFICES ASSUME Nat \ T # {} PROVE FALSE
  OBVIOUS
<1>1. PICK m \in Nat \ T : \A y \in Nat \ T : m <= y
  <2>1. Nat \ T \subseteq Nat
    OBVIOUS
  <2>2. QED
    BY <2>1, LeastIsLeast
<1>2. m - 1 \in Nat /\ ~(m <= m - 1)
  BY <1>1
<1>3. m - 1 \in T
  BY <1>1, <1>2
<1>4. QED
  BY <1>1, <1>2, <1>3

\* Numbers up to n have a largest.
LEMMA MaxIsMax ==
  ASSUME NEW n \in Nat, NEW s \in SUBSET (1..n), s # {}
  PROVE  Max(s) \in s /\ \A x \in s : Max(s) >= x
<1> DEFINE T == {n - x : x \in s}
<1>0. \A x \in s : x \in Nat /\ x <= n
  OBVIOUS
<1>1. T \subseteq Nat /\ T # {}
  <2>1. \A x \in s : n - x \in Nat
    BY <1>0
  <2>2. QED
    BY <2>1
<1>2. PICK t \in T : \A u \in T : t <= u
  <2> HIDE DEF T
  <2>1. QED
    BY <1>1, LeastIsLeast
<1>3. PICK m \in s : t = n - m
  BY <1>2
<1>4. \A x \in s : m >= x
  <2> SUFFICES ASSUME NEW x \in s PROVE m >= x
    OBVIOUS
  <2>1. n - x \in T
    OBVIOUS
  <2>2. n - m <= n - x
    BY <1>2, <1>3, <2>1
  <2>3. QED
    BY <1>0, <2>2
<1>5. QED
  BY <1>4 DEF Max

\* The first numbers without their largest.
LEMMA FirstNumbers ==
  /\ 1..0 = {}
  /\ \A k \in Nat \ {0} : 1..k # {} /\ Max(1..k) = k /\ (1..k) \ {k} = 1..(k - 1)
<1>1. 1..0 = {}
  OBVIOUS
<1>2. ASSUME NEW k \in Nat \ {0} PROVE 1..k # {} /\ Max(1..k) = k /\ (1..k) \ {k} = 1..(k - 1)
  <2>1. k \in 1..k /\ 1..k # {} /\ (1..k) \ {k} = 1..(k - 1)
    OBVIOUS
  <2>2. Max(1..k) \in 1..k /\ Max(1..k) >= k
    <3>1. k \in Nat /\ 1..k \in SUBSET (1..k)
      OBVIOUS
    <3>2. QED
      BY <2>1, <3>1, MaxIsMax
  <2>3. Max(1..k) = k
    BY <2>2
  <2>4. QED
    BY <2>1, <2>3
<1>3. QED
  BY <1>1, <1>2

\* What a fold has come to on each set of indices.
FoldOf(it, seq, base, step) ==
  \A d \in SUBSET (DOMAIN seq) : it[d] = IF d = {} THEN base ELSE step[<<it[d \ {Max(d)}], seq[Max(d)]>>]

\* The function a fold is defined by exists.
LEMMA FoldExists ==
  ASSUME NEW X, NEW Y, NEW seq \in Seq(Y), NEW base \in X, NEW step \in [X \X Y -> X]
  PROVE  \E it \in [SUBSET (DOMAIN seq) -> X] : FoldOf(it, seq, base, step)
<1> DEFINE Folds(it, k) == \A d \in SUBSET (1..k) :
             it[d] = IF d = {} THEN base ELSE step[<<it[d \ {Max(d)}], seq[Max(d)]>>]
           T == {k \in Nat : k <= Len(seq) => \E it \in [SUBSET (1..k) -> X] : Folds(it, k)}
<1>1. 0 \in T
  <2> DEFINE it == [d \in SUBSET (1..0) |-> base]
  <2>1. \A d \in SUBSET (1..0) : d = {}
    OBVIOUS
  <2>2. it \in [SUBSET (1..0) -> X] /\ Folds(it, 0)
    BY <2>1
  <2> HIDE DEF Folds, it
  <2>3. QED
    BY <2>2
<1>2. ASSUME NEW k \in T PROVE k + 1 \in T
  <2>0. k \in Nat /\ k + 1 \in Nat /\ Len(seq) \in Nat
    OBVIOUS
  <2> SUFFICES ASSUME k + 1 <= Len(seq) PROVE \E it \in [SUBSET (1..k + 1) -> X] : Folds(it, k + 1)
    <3> HIDE DEF Folds
    <3>1. QED
      BY <2>0
  <2>1. k \in Nat /\ Len(seq) \in Nat /\ k <= Len(seq)
    BY <2>0
  <2>2. PICK g \in [SUBSET (1..k) -> X] : Folds(g, k)
    BY <2>1
  <2> DEFINE it == [d \in SUBSET (1..k + 1) |->
                      IF k + 1 \in d THEN step[<<g[d \ {k + 1}], seq[k + 1]>>] ELSE g[d]]
  <2>3. seq[k + 1] \in Y
    BY <2>1
  <2>4. ASSUME NEW d \in SUBSET (1..k + 1), k + 1 \in d
        PROVE  /\ d \ {k + 1} \in SUBSET (1..k) /\ Max(d) = k + 1 /\ d # {}
               /\ it[d] \in X /\ it[d] = step[<<it[d \ {Max(d)}], seq[Max(d)]>>]
    <3>1. d \ {k + 1} \in SUBSET (1..k) /\ d # {} /\ d \ {k + 1} \in SUBSET (1..k + 1) /\ k + 1 \notin d \ {k + 1}
      BY <2>1, <2>4
    <3>2. Max(d) \in d /\ Max(d) >= k + 1
      <4>1. k + 1 \in Nat
        BY <2>1
      <4>2. QED
        BY <2>4, <3>1, <4>1, MaxIsMax
    <3>3. Max(d) = k + 1
      <4>1. \A x \in 1..k + 1 : x >= k + 1 => x = k + 1
        BY <2>1
      <4>2. QED
        BY <3>2, <4>1
    <3>4. it[d \ {k + 1}] = g[d \ {k + 1}] /\ g[d \ {k + 1}] \in X
      BY <3>1
    <3>5. it[d] = step[<<g[d \ {k + 1}], seq[k + 1]>>]
      BY <2>4
    <3>6. QED
      BY <2>3, <3>1, <3>3, <3>4, <3>5
  <2>5. ASSUME NEW d \in SUBSET (1..k + 1), k + 1 \notin d
        PROVE  /\ d \in SUBSET (1..k) /\ it[d] \in X
               /\ it[d] = IF d = {} THEN base ELSE step[<<it[d \ {Max(d)}], seq[Max(d)]>>]
    <3>1. d \in SUBSET (1..k)
      BY <2>1, <2>5
    <3>2. it[d] = g[d] /\ g[d] \in X
      BY <2>5, <3>1
    <3>3. d \ {Max(d)} \in SUBSET (1..k + 1) /\ k + 1 \notin d \ {Max(d)}
      BY <2>5
    <3>4. it[d \ {Max(d)}] = g[d \ {Max(d)}]
      BY <3>3
    <3>5. g[d] = IF d = {} THEN base ELSE step[<<g[d \ {Max(d)}], seq[Max(d)]>>]
      BY <2>2, <3>1
    <3>6. QED
      BY <3>1, <3>2, <3>4, <3>5
  <2>6. it \in [SUBSET (1..k + 1) -> X]
    <3>1. \A d \in SUBSET (1..k + 1) : it[d] \in X
      BY <2>4, <2>5
    <3>2. it = [d \in SUBSET (1..k + 1) |-> it[d]]
      OBVIOUS
    <3> HIDE DEF it
    <3>3. QED
      BY <3>1, <3>2
  <2>7. Folds(it, k + 1)
    <3> HIDE DEF it
    <3>1. QED
      BY <2>4, <2>5
  <2> HIDE DEF Folds, it
  <2>8. QED
    BY <2>6, <2>7
<1>3. T = Nat
  <2>1. T \subseteq Nat
    OBVIOUS
  <2> HIDE DEF T
  <2>2. QED
    BY <1>1, <1>2, <2>1, Inductive
<1>4. Len(seq) \in T /\ DOMAIN seq = 1..Len(seq) /\ Len(seq) <= Len(seq)
  <2>1. Len(seq) \in Nat /\ DOMAIN seq = 1..Len(seq)
    OBVIOUS
  <2> HIDE DEF T
  <2>2. QED
    BY <1>3, <2>1
<1>5. PICK it \in [SUBSET (1..Len(seq)) -> X] : Folds(it, Len(seq))
  <2> HIDE DEF Folds
  <2>1. QED
    BY <1>4
<1>6. QED
  BY <1>4, <1>5 DEF FoldOf

\* The elements chosen among the first k.
LEMMA ChosenRuns ==
  ASSUME NEW seq, Listed(seq), NEW S
  PROVE  \E run : /\ run[0] = <<>>
                  /\ \A k \in 1..Len(seq) :
                       run[k] = IF seq[k] \in S THEN Append(run[k - 1], seq[k]) ELSE run[k - 1]
                  /\ run[Len(seq)] = Chosen(seq, S)
<1> DEFINE Y == ToSet(seq)
           n == Len(seq)
           Next1(out, x) == IF x \in S THEN Append(out, x) ELSE out
           step == [p \in Seq(Y) \X Y |-> Next1(p[1], p[2])]
           Folded(it) == it = [d \in SUBSET (DOMAIN seq) |->
                                IF d = {} THEN <<>> ELSE Next1(it[d \ {Max(d)}], seq[Max(d)])]
           it == CHOOSE it : Folded(it)
<1>1. seq \in Seq(Y) /\ n \in Nat /\ DOMAIN seq = 1..n
  BY DEF Listed
<1>2. step \in [Seq(Y) \X Y -> Seq(Y)] /\ <<>> \in Seq(Y)
  OBVIOUS
<1>3. \E f : Folded(f)
  <2>1. PICK f \in [SUBSET (DOMAIN seq) -> Seq(Y)] : FoldOf(f, seq, <<>>, step)
    <3> HIDE DEF step, Y
    <3>1. QED
      BY <1>1, <1>2, FoldExists
  <2>2. ASSUME NEW d \in SUBSET (DOMAIN seq), d # {}
        PROVE  step[<<f[d \ {Max(d)}], seq[Max(d)]>>] = Next1(f[d \ {Max(d)}], seq[Max(d)])
    <3>1. Max(d) \in d
      BY <1>1, <2>2, MaxIsMax
    <3>2. f[d \ {Max(d)}] \in Seq(Y) /\ seq[Max(d)] \in Y
      BY <1>1, <2>1, <3>1 DEF ToSet
    <3>3. QED
      BY <3>2
  <2> HIDE DEF step, Next1
  <2>3. \A d \in SUBSET (DOMAIN seq) : f[d] = IF d = {} THEN <<>> ELSE Next1(f[d \ {Max(d)}], seq[Max(d)])
    BY <2>1, <2>2 DEF FoldOf
  <2>4. f = [d \in SUBSET (DOMAIN seq) |-> IF d = {} THEN <<>> ELSE Next1(f[d \ {Max(d)}], seq[Max(d)])]
    BY <2>1, <2>3
  <2>5. QED
    BY <2>4
<1>4. Folded(it)
  BY <1>3
<1>5. Chosen(seq, S) = it[DOMAIN seq]
  BY DEF Chosen, FoldLeft, MapThenFoldSet
<1> DEFINE run == [k \in 0..n |-> it[1..k]]
<1> HIDE DEF it
<1>6. run[0] = <<>>
  <2>1. 1..0 = {} /\ {} \in SUBSET (DOMAIN seq) /\ 0 \in 0..n
    BY <1>1
  <2>2. it[{}] = <<>>
    BY <1>4, <2>1
  <2>3. QED
    BY <2>1, <2>2
<1>7. ASSUME NEW k \in 1..n PROVE run[k] = Next1(run[k - 1], seq[k])
  <2>1. 1..k # {} /\ Max(1..k) = k /\ (1..k) \ {k} = 1..(k - 1)
    BY <1>1, FirstNumbers
  <2>2. 1..k \in SUBSET (DOMAIN seq) /\ k \in 0..n /\ k - 1 \in 0..n
    BY <1>1
  <2>3. run[k] = it[1..k] /\ run[k - 1] = it[1..(k - 1)]
    BY <2>2
  <2>4. it[1..k] = Next1(it[(1..k) \ {Max(1..k)}], seq[Max(1..k)])
    BY <1>4, <2>1, <2>2
  <2> HIDE DEF Next1, run
  <2>5. QED
    BY <2>1, <2>3, <2>4
<1>8. run[n] = Chosen(seq, S)
  BY <1>1, <1>5
<1> HIDE DEF run
<1>9. QED
  BY <1>6, <1>7, <1>8

\* What is chosen of a list is a list of its elements in S, in their order.
LEMMA ChosenFacts ==
  ASSUME NEW seq, Listed(seq), NEW S
  PROVE  /\ Listed(Chosen(seq, S))
         /\ ToSet(Chosen(seq, S)) = ToSet(seq) \cap S
         /\ \A i, j \in DOMAIN Chosen(seq, S) : i < j =>
              \E a, b \in DOMAIN seq : a < b /\ Chosen(seq, S)[i] = seq[a] /\ Chosen(seq, S)[j] = seq[b]
<1>1. PICK run : /\ run[0] = <<>>
                 /\ \A k \in 1..Len(seq) :
                      run[k] = IF seq[k] \in S THEN Append(run[k - 1], seq[k]) ELSE run[k - 1]
                 /\ run[Len(seq)] = Chosen(seq, S)
  BY ChosenRuns
<1> DEFINE Y == ToSet(seq)
           n == Len(seq)
           Ordered(k) == \A i, j \in DOMAIN run[k] : i < j =>
                           \E a, b \in 1..k : a < b /\ run[k][i] = seq[a] /\ run[k][j] = seq[b]
           P(k) == /\ run[k] \in Seq(Y)
                   /\ \A i \in DOMAIN run[k] : \E a \in 1..k : run[k][i] = seq[a] /\ seq[a] \in S
                   /\ \A a \in 1..k : seq[a] \in S => \E i \in DOMAIN run[k] : run[k][i] = seq[a]
                   /\ Ordered(k)
           T == {k \in Nat : k <= n => P(k)}
<1>2. seq \in Seq(Y) /\ n \in Nat /\ DOMAIN seq = 1..n /\ \A a \in 1..n : seq[a] \in Y
  BY DEF Listed, ToSet
<1>3. 0 \in T
  <2>1. run[0] \in Seq(Y) /\ DOMAIN run[0] = {} /\ 1..0 = {}
    BY <1>1
  <2>2. P(0)
    BY <2>1
  <2> HIDE DEF P
  <2>3. QED
    BY <2>2
<1>4. ASSUME NEW k \in T PROVE k + 1 \in T
  <2>0. k \in Nat /\ k + 1 \in Nat
    OBVIOUS
  <2> SUFFICES ASSUME k + 1 <= n PROVE P(k + 1)
    <3> HIDE DEF P
    <3>1. QED
      BY <2>0
  <2>1. k + 1 \in 1..n /\ k <= n /\ (k + 1) - 1 = k /\ \A a \in 1..k : a \in 1..k + 1 /\ a < k + 1
    BY <1>2, <2>0
  <2>2. P(k)
    <3> HIDE DEF P
    <3>1. QED
      BY <2>1
  <2>3. \A a \in 1..k + 1 : a \in 1..k \/ a = k + 1
    BY <2>0
  <2>4. CASE seq[k + 1] \notin S
    <3>1. run[k + 1] = run[k]
      BY <1>1, <2>1, <2>4
    <3>2. Ordered(k + 1)
      BY <2>1, <2>2, <3>1
    <3>3. \A i \in DOMAIN run[k + 1] : \E a \in 1..k + 1 : run[k + 1][i] = seq[a] /\ seq[a] \in S
      BY <2>1, <2>2, <3>1
    <3>4. \A a \in 1..k + 1 : seq[a] \in S => \E i \in DOMAIN run[k + 1] : run[k + 1][i] = seq[a]
      BY <2>2, <2>3, <2>4, <3>1
    <3>5. run[k + 1] \in Seq(Y)
      BY <2>2, <3>1
    <3> HIDE DEF Ordered
    <3>6. QED
      BY <3>2, <3>3, <3>4, <3>5
  <2>5. CASE seq[k + 1] \in S
    <3> DEFINE x == seq[k + 1]
               r == run[k]
    <3>1. run[k + 1] = Append(r, x)
      BY <1>1, <2>1, <2>5
    <3>2. r \in Seq(Y) /\ x \in Y /\ Len(r) \in Nat /\ DOMAIN r = 1..Len(r)
      BY <1>2, <2>1, <2>2
    <3>3. /\ Append(r, x) \in Seq(Y) /\ DOMAIN Append(r, x) = 1..Len(r) + 1
          /\ Append(r, x)[Len(r) + 1] = x
          /\ \A i \in 1..Len(r) : i \in 1..Len(r) + 1 /\ i # Len(r) + 1 /\ Append(r, x)[i] = r[i]
      <4> HIDE DEF r, x
      <4>1. QED
        BY <3>2
    <3>4. \A i \in 1..Len(r) + 1 : i \in 1..Len(r) \/ i = Len(r) + 1
      <4> HIDE DEF r
      <4>1. QED
        BY <3>2
    <3>5. k + 1 \in 1..k + 1
      BY <2>0
    <3>6. \A i \in DOMAIN run[k + 1] : \E a \in 1..k + 1 : run[k + 1][i] = seq[a] /\ seq[a] \in S
      BY <2>1, <2>2, <2>5, <3>1, <3>2, <3>3, <3>4, <3>5
    <3>7. \A a \in 1..k + 1 : seq[a] \in S => \E i \in DOMAIN run[k + 1] : run[k + 1][i] = seq[a]
      <4>1. Len(r) + 1 \in 1..Len(r) + 1
        BY <3>2
      <4>2. QED
        BY <2>2, <2>3, <3>1, <3>2, <3>3, <4>1
    <3>8. Ordered(k + 1)
      <4> SUFFICES ASSUME NEW i \in DOMAIN run[k + 1], NEW j \in DOMAIN run[k + 1], i < j
                   PROVE  \E a, b \in 1..k + 1 : a < b /\ run[k + 1][i] = seq[a] /\ run[k + 1][j] = seq[b]
        OBVIOUS
      <4>0. i < j
        OBVIOUS
      <4>1. i \in 1..Len(r)
        <5>1. i \in 1..Len(r) + 1 /\ j \in 1..Len(r) + 1
          BY <3>1, <3>3
        <5> HIDE DEF r
        <5>2. QED
          BY <3>2, <4>0, <5>1
      <4>2. CASE j \in 1..Len(r)
        <5>0. Ordered(k) /\ i \in DOMAIN run[k] /\ j \in DOMAIN run[k]
          BY <2>2, <3>2, <4>1, <4>2
        <5>1. PICK a \in 1..k, b \in 1..k : a < b /\ r[i] = seq[a] /\ r[j] = seq[b]
          BY <4>0, <5>0
        <5>2. QED
          BY <2>1, <3>1, <3>3, <4>1, <4>2, <5>1
      <4>3. CASE j = Len(r) + 1
        <5>1. PICK a \in 1..k : r[i] = seq[a]
          BY <2>2, <3>2, <4>1
        <5>2. QED
          BY <2>1, <3>1, <3>3, <3>5, <4>1, <4>3, <5>1
      <4>4. QED
        BY <3>1, <3>3, <3>4, <4>2, <4>3
    <3> HIDE DEF Ordered
    <3>9. QED
      BY <3>1, <3>3, <3>6, <3>7, <3>8
  <2>6. QED
    BY <2>4, <2>5
<1>5. n \in T
  <2>1. T \subseteq Nat
    OBVIOUS
  <2> HIDE DEF T
  <2>2. QED
    BY <1>2, <1>3, <1>4, <2>1, Inductive
<1>6. P(n)
  <2> HIDE DEF P
  <2>1. QED
    BY <1>2, <1>5
<1>7. run[n] = Chosen(seq, S)
  BY <1>1
<1>8. Listed(Chosen(seq, S))
  BY <1>6, <1>7, ListedSeq
<1>9. ToSet(Chosen(seq, S)) = ToSet(seq) \cap S
  <2>1. ASSUME NEW x \in ToSet(Chosen(seq, S)) PROVE x \in ToSet(seq) \cap S
    BY <1>2, <1>6, <1>7, <2>1 DEF ToSet
  <2>2. ASSUME NEW x \in ToSet(seq) \cap S PROVE x \in ToSet(Chosen(seq, S))
    BY <1>2, <1>6, <1>7, <2>2 DEF ToSet
  <2>3. QED
    BY <2>1, <2>2
<1>10. \A i, j \in DOMAIN Chosen(seq, S) : i < j =>
         \E a, b \in DOMAIN seq : a < b /\ Chosen(seq, S)[i] = seq[a] /\ Chosen(seq, S)[j] = seq[b]
  <2>1. Ordered(n)
    BY <1>6
  <2>2. QED
    BY <1>2, <1>7, <2>1
<1>11. QED
  BY <1>8, <1>9, <1>10

\* The first k of the sequences, one behind the other.
LEMMA FlattenRuns ==
  ASSUME NEW Z, NEW seqs \in Seq(Seq(Z))
  PROVE  \E run : /\ run[0] = <<>>
                  /\ \A k \in 1..Len(seqs) : run[k] = run[k - 1] \o seqs[k]
                  /\ run[Len(seqs)] = FlattenSeq(seqs)
<1> DEFINE n == Len(seqs)
           step == [p \in Seq(Z) \X Seq(Z) |-> p[1] \o p[2]]
           Flat(fl) == fl = [i \in 1..Len(seqs) |-> IF i = 1 THEN seqs[i] ELSE fl[i - 1] \o seqs[i]]
           fl == CHOOSE f : Flat(f)
<1>1. n \in Nat /\ DOMAIN seqs = 1..n /\ \A k \in 1..n : seqs[k] \in Seq(Z)
  OBVIOUS
<1>2. step \in [Seq(Z) \X Seq(Z) -> Seq(Z)] /\ <<>> \in Seq(Z)
  OBVIOUS
<1>3. PICK it \in [SUBSET (DOMAIN seqs) -> Seq(Z)] : FoldOf(it, seqs, <<>>, step)
  <2> HIDE DEF step, Flat, fl
  <2>1. PICK X : X = Seq(Z)
    OBVIOUS
  <2>2. <<>> \in X /\ step \in [X \X X -> X] /\ seqs \in Seq(X)
    BY <1>2, <2>1
  <2>3. \E f \in [SUBSET (DOMAIN seqs) -> X] : FoldOf(f, seqs, <<>>, step)
    BY ONLY <2>2, FoldExists
  <2>4. QED
    BY <2>1, <2>3
<1> DEFINE run == [k \in 0..n |-> it[1..k]]
<1>4. \A k \in 0..n : run[k] \in Seq(Z)
  <2> HIDE DEF Flat, fl, step
  <2>1. \A k \in 0..n : 1..k \in SUBSET (DOMAIN seqs)
    BY <1>1
  <2>2. \A k \in 0..n : it[1..k] \in Seq(Z)
    BY <2>1
  <2>3. QED
    BY <2>2
<1>5. run[0] = <<>>
  <2>1. 1..0 = {} /\ {} \in SUBSET (DOMAIN seqs) /\ 0 \in 0..n
    BY <1>1
  <2>2. it[{}] = <<>>
    BY <1>3, <2>1 DEF FoldOf
  <2>3. QED
    BY <2>1, <2>2
<1>6. ASSUME NEW k \in 1..n PROVE run[k] = run[k - 1] \o seqs[k]
  <2>1. 1..k # {} /\ Max(1..k) = k /\ (1..k) \ {k} = 1..(k - 1)
    BY ONLY <1>1, k \in 1..n, FirstNumbers
  <2>2. 1..k \in SUBSET (DOMAIN seqs) /\ k \in 0..n /\ k - 1 \in 0..n
    BY <1>1
  <2>3. run[k] = it[1..k] /\ run[k - 1] = it[1..(k - 1)]
    BY <2>2
  <2>4. it[1..k] = step[<<it[(1..k) \ {Max(1..k)}], seqs[Max(1..k)]>>]
    <3> HIDE DEF step
    <3>1. QED
      BY <1>3, <2>1, <2>2 DEF FoldOf
  <2>5. it[1..k] = step[<<run[k - 1], seqs[k]>>]
    <3> HIDE DEF step, run
    <3>1. QED
      BY <2>1, <2>3, <2>4
  <2>6. step[<<run[k - 1], seqs[k]>>] = run[k - 1] \o seqs[k]
    <3>1. run[k - 1] \in Seq(Z) /\ seqs[k] \in Seq(Z)
      BY <1>1, <1>4, <2>2
    <3> HIDE DEF run
    <3>2. QED
      BY <3>1
  <2> HIDE DEF run, step
  <2>7. QED
    BY <2>3, <2>5, <2>6
<1>7. ASSUME n # 0 PROVE run[n] = FlattenSeq(seqs)
  <2> DEFINE g == [i \in 1..n |-> run[i]]
  <2>1. Flat(g)
    <3>1. ASSUME NEW i \in 1..n PROVE run[i] = IF i = 1 THEN seqs[i] ELSE g[i - 1] \o seqs[i]
      <4>1. CASE i = 1
        <5> HIDE DEF run, Flat, fl, step, g
        <5>1. run[1] = run[0] \o seqs[1] /\ seqs[1] \in Seq(Z)
          <6>1. 1 \in 1..n /\ 1 - 1 = 0
            BY <4>1
          <6>2. run[1] = run[1 - 1] \o seqs[1]
            BY <1>6, <6>1
          <6>3. QED
            BY <1>1, <6>1, <6>2
        <5>2. QED
          BY <1>5, <4>1, <5>1
      <4>2. CASE i # 1
        <5>1. i - 1 \in 1..n
          BY <1>1, <4>2
        <5>2. run[i] = run[i - 1] \o seqs[i]
          BY <1>6
        <5> HIDE DEF run
        <5>3. QED
          BY <4>2, <5>1, <5>2
      <4>3. QED
        BY <4>1, <4>2
    <3> HIDE DEF run
    <3>2. QED
      BY <3>1
  <2>2. Flat(fl)
    <3> HIDE DEF g, Flat
    <3>1. QED
      BY <2>1
  <2>3. FlattenSeq(seqs) = fl[n]
    BY <1>7 DEF FlattenSeq
  <2> DEFINE T == {k \in Nat : k + 1 <= n => fl[k + 1] = run[k + 1]}
  <2> HIDE DEF fl
  <2>4. 0 \in T
    <3>1. 1 \in 1..n
      BY <1>1, <1>7
    <3>2. fl[1] = seqs[1] /\ g[1] = seqs[1] /\ g[1] = run[1]
      <4> HIDE DEF run
      <4>1. g[1] = run[1]
        BY <3>1
      <4>2. fl[1] = seqs[1]
        BY <2>2, <3>1
      <4> HIDE DEF g
      <4>3. g[1] = seqs[1]
        BY <2>1, <3>1
      <4>4. QED
        BY <4>1, <4>2, <4>3
    <3> HIDE DEF run, g
    <3>3. QED
      BY <3>2
  <2>5. ASSUME NEW k \in T PROVE k + 1 \in T
    <3>0. k \in Nat
      OBVIOUS
    <3> SUFFICES ASSUME k + 2 <= n PROVE fl[k + 2] = run[k + 2]
      <4> HIDE DEF run
      <4>1. (k + 1) + 1 = k + 2 /\ k + 1 \in Nat
        BY <3>0
      <4>2. QED
        BY <4>1
    <3>1. k + 2 \in 1..n /\ k + 1 \in 1..n /\ (k + 2) - 1 = k + 1 /\ k + 2 # 1
      BY <1>1, <3>0
    <3>2. fl[k + 1] = run[k + 1]
      <4> HIDE DEF run
      <4>1. k + 1 <= n
        BY <1>1, <3>1
      <4>2. QED
        BY <4>1
    <3>3. run[k + 2] = run[k + 1] \o seqs[k + 2]
      BY <1>6, <3>1
    <3>4. fl[k + 2] = fl[k + 1] \o seqs[k + 2]
      BY <2>2, <3>1
    <3> HIDE DEF run
    <3>5. QED
      BY <3>2, <3>3, <3>4
  <2>6. T = Nat
    <3>1. T \subseteq Nat
      OBVIOUS
    <3> HIDE DEF T
    <3>2. QED
      BY <2>4, <2>5, <3>1, Inductive
  <2>7. fl[n] = run[n]
    <3> HIDE DEF run
    <3>0. n - 1 \in Nat /\ (n - 1) + 1 = n /\ n <= n
      BY <1>1, <1>7
    <3>1. n - 1 \in T /\ (n - 1) + 1 = n /\ n <= n
      <4> HIDE DEF T
      <4>1. QED
        BY <2>6, <3>0
    <3>2. (n - 1) + 1 <= n => fl[(n - 1) + 1] = run[(n - 1) + 1]
      BY <3>1
    <3>3. QED
      BY <3>1, <3>2
  <2> HIDE DEF run
  <2>8. QED
    BY <2>3, <2>7
<1>8. ASSUME n = 0 PROVE run[n] = FlattenSeq(seqs)
  <2>1. FlattenSeq(seqs) = seqs
    BY <1>8 DEF FlattenSeq
  <2>2. seqs = <<>>
    BY <1>8
  <2> HIDE DEF run
  <2>3. QED
    BY <1>5, <1>8, <2>1, <2>2
<1> HIDE DEF run
<1>9. QED
  BY <1>5, <1>6, <1>7, <1>8

\* Where the elements of two sequences are when one is behind the other.
Behind(t, r, s) ==
  /\ \A i \in DOMAIN r : i \in DOMAIN t /\ t[i] = r[i]
  /\ \A i \in DOMAIN s : Len(r) + i \in DOMAIN t /\ t[Len(r) + i] = s[i]
  /\ \A i \in DOMAIN t : i \notin DOMAIN r => i - Len(r) \in DOMAIN s /\ t[i] = s[i - Len(r)]
  /\ \A i, j \in DOMAIN t : i < j => (j \in DOMAIN r => i \in DOMAIN r) /\ i - Len(r) < j - Len(r)

\* The elements of one sequence and of the one behind it, at their places.
LEMMA ConcatPlaces ==
  ASSUME NEW Z, NEW r \in Seq(Z), NEW s \in Seq(Z), NEW t, t = r \o s
  PROVE  t \in Seq(Z) /\ Behind(t, r, s)
<1>1. /\ t \in Seq(Z) /\ Len(t) = Len(r) + Len(s) /\ Len(r) \in Nat /\ Len(s) \in Nat
      /\ DOMAIN r = 1..Len(r) /\ DOMAIN s = 1..Len(s) /\ DOMAIN t = 1..Len(r) + Len(s)
  OBVIOUS
<1>2. \A i \in 1..Len(r) : i \in 1..Len(r) + Len(s) /\ t[i] = r[i]
  BY <1>1
<1>3. \A i \in 1..Len(r) + Len(s) : i \notin 1..Len(r) => i - Len(r) \in 1..Len(s) /\ t[i] = s[i - Len(r)]
  BY <1>1
<1>4. ASSUME NEW i \in 1..Len(s) PROVE Len(r) + i \in 1..Len(r) + Len(s) /\ t[Len(r) + i] = s[i]
  <2>1. Len(r) + i \in 1..Len(r) + Len(s) /\ Len(r) + i \notin 1..Len(r) /\ (Len(r) + i) - Len(r) = i
    BY <1>1
  <2>2. QED
    BY <1>3, <2>1
<1>5. \A i, j \in 1..Len(r) + Len(s) : i < j => (j \in 1..Len(r) => i \in 1..Len(r)) /\ i - Len(r) < j - Len(r)
  BY <1>1
<1>6. QED
  BY <1>1, <1>2, <1>3, <1>4, <1>5 DEF Behind

\* A sequence has the elements of the first k sequences, in their order.
From(r, seqs, k) == \A i \in DOMAIN r : \E l \in 1..k : \E m \in DOMAIN seqs[l] : r[i] = seqs[l][m]

All(r, seqs, k) == \A l \in 1..k : \A m \in DOMAIN seqs[l] : \E i \in DOMAIN r : r[i] = seqs[l][m]

Apart(seqs, x, y, a, b) ==
  \E m \in DOMAIN seqs[a], p \in DOMAIN seqs[b] : x = seqs[a][m] /\ y = seqs[b][p] /\ (a < b \/ (a = b /\ m < p))

Ordered(r, seqs, k) ==
  \A i, j \in DOMAIN r : i < j => \E a, b \in 1..k : Apart(seqs, r[i], r[j], a, b)

\* Sequences behind one another: all their elements and no others, in their order.
LEMMA FlattenFacts ==
  ASSUME NEW Z, NEW seqs \in Seq(Seq(Z)), NEW flat, flat = FlattenSeq(seqs)
  PROVE  flat \in Seq(Z) /\ From(flat, seqs, Len(seqs)) /\ All(flat, seqs, Len(seqs)) /\ Ordered(flat, seqs, Len(seqs))
<1>1. PICK run : /\ run[0] = <<>>
                 /\ \A k \in 1..Len(seqs) : run[k] = run[k - 1] \o seqs[k]
                 /\ run[Len(seqs)] = FlattenSeq(seqs)
  BY FlattenRuns
<1> DEFINE n == Len(seqs)
           P(k) == run[k] \in Seq(Z) /\ From(run[k], seqs, k) /\ All(run[k], seqs, k) /\ Ordered(run[k], seqs, k)
           T == {k \in Nat : k <= n => P(k)}
<1>2. n \in Nat /\ DOMAIN seqs = 1..n /\ \A k \in 1..n : seqs[k] \in Seq(Z)
  OBVIOUS
<1>3. 0 \in T
  <2>1. run[0] \in Seq(Z) /\ DOMAIN run[0] = {} /\ 1..0 = {}
    BY <1>1
  <2>2. P(0)
    BY <2>1 DEF From, All, Ordered
  <2> HIDE DEF P
  <2>3. QED
    BY <2>2
<1>4. ASSUME NEW k \in T PROVE k + 1 \in T
  <2>0. k \in Nat /\ k + 1 \in Nat
    OBVIOUS
  <2> SUFFICES ASSUME k + 1 <= n PROVE P(k + 1)
    <3> HIDE DEF P
    <3>1. QED
      BY <2>0
  <2>1. k + 1 \in 1..n /\ k <= n /\ (k + 1) - 1 = k /\ k + 1 \in 1..k + 1 /\ \A a \in 1..k : a \in 1..k + 1 /\ a < k + 1
    BY <1>2, <2>0
  <2>2. P(k)
    <3> HIDE DEF P
    <3>1. QED
      BY <2>1
  <2>3. \A a \in 1..k + 1 : a \in 1..k \/ a = k + 1
    BY <2>0
  <2> PICK s : s = seqs[k + 1]
    OBVIOUS
  <2> PICK r : r = run[k]
    OBVIOUS
  <2> PICK t : t = r \o s
    OBVIOUS
  <2>4. r \in Seq(Z) /\ s \in Seq(Z) /\ run[k + 1] = t
    BY <1>1, <1>2, <2>1, <2>2
  <2>5. From(r, seqs, k) /\ All(r, seqs, k) /\ Ordered(r, seqs, k)
    BY <2>2
  <2>6. t \in Seq(Z) /\ Behind(t, r, s)
    BY ONLY <2>4, ConcatPlaces, t = r \o s
  <2> USE DEF Behind
  <2>9. From(t, seqs, k + 1)
    <3> SUFFICES ASSUME NEW i \in DOMAIN t
                 PROVE  \E l \in 1..k + 1 : \E m \in DOMAIN seqs[l] : t[i] = seqs[l][m]
      BY DEF From
    <3>1. CASE i \in DOMAIN r
      <4>1. PICK l \in 1..k : \E m \in DOMAIN seqs[l] : r[i] = seqs[l][m]
        BY <2>5, <3>1 DEF From
      <4>2. t[i] = r[i] /\ l \in 1..k + 1
        BY <2>1, <2>6, <3>1
      <4>3. QED
        BY <4>1, <4>2
    <3>2. CASE i \notin DOMAIN r
      <4>1. i - Len(r) \in DOMAIN seqs[k + 1] /\ t[i] = seqs[k + 1][i - Len(r)]
        BY <2>6, <3>2
      <4>2. QED
        BY <2>1, <4>1
    <3>3. QED
      BY <3>1, <3>2
  <2>10. All(t, seqs, k + 1)
    <3> SUFFICES ASSUME NEW l \in 1..k + 1, NEW m \in DOMAIN seqs[l]
                 PROVE  \E i \in DOMAIN t : t[i] = seqs[l][m]
      BY DEF All
    <3>1. CASE l \in 1..k
      <4>1. PICK i \in DOMAIN r : r[i] = seqs[l][m]
        BY <2>5, <3>1 DEF All
      <4>2. QED
        BY <2>6, <4>1
    <3>2. CASE l = k + 1
      <4>1. Len(r) + m \in DOMAIN t /\ t[Len(r) + m] = seqs[l][m]
        BY <2>6, <3>2
      <4>2. QED
        BY <4>1
    <3>3. QED
      BY <2>3, <3>1, <3>2
  <2>11. Ordered(t, seqs, k + 1)
    <3> SUFFICES ASSUME NEW i \in DOMAIN t, NEW j \in DOMAIN t, i < j
                 PROVE  \E a, b \in 1..k + 1 : Apart(seqs, t[i], t[j], a, b)
      BY DEF Ordered
    <3>0. i < j
      OBVIOUS
    <3>1. CASE i \in DOMAIN r /\ j \in DOMAIN r
      <4>1. PICK a \in 1..k, b \in 1..k : Apart(seqs, r[i], r[j], a, b)
        BY <2>5, <3>0, <3>1 DEF Ordered
      <4>2. t[i] = r[i] /\ t[j] = r[j] /\ a \in 1..k + 1 /\ b \in 1..k + 1
        BY <2>1, <2>6, <3>1
      <4>3. QED
        BY <4>1, <4>2
    <3>2. CASE i \in DOMAIN r /\ j \notin DOMAIN r
      <4>1. PICK a \in 1..k : \E m \in DOMAIN seqs[a] : r[i] = seqs[a][m]
        BY <2>5, <3>2 DEF From
      <4>2. j - Len(r) \in DOMAIN seqs[k + 1] /\ t[j] = seqs[k + 1][j - Len(r)]
        BY <2>6, <3>2
      <4>3. t[i] = r[i] /\ a < k + 1 /\ a \in 1..k + 1
        BY <2>1, <2>6, <3>2
      <4>4. Apart(seqs, t[i], t[j], a, k + 1)
        BY <4>1, <4>2, <4>3 DEF Apart
      <4>5. QED
        BY <2>1, <4>3, <4>4
    <3>3. CASE i \notin DOMAIN r
      <4>1. i - Len(r) \in DOMAIN seqs[k + 1] /\ t[i] = seqs[k + 1][i - Len(r)]
        BY <2>6, <3>3
      <4>2. j \notin DOMAIN r /\ i - Len(r) < j - Len(r)
        BY <2>6, <3>0, <3>3
      <4>3. j - Len(r) \in DOMAIN seqs[k + 1] /\ t[j] = seqs[k + 1][j - Len(r)]
        BY <2>6, <4>2
      <4>4. Apart(seqs, t[i], t[j], k + 1, k + 1)
        BY <4>1, <4>2, <4>3 DEF Apart
      <4>5. QED
        BY <2>1, <4>4
    <3>4. QED
      BY <3>1, <3>2, <3>3
  <2>12. QED
    BY <2>4, <2>6, <2>9, <2>10, <2>11
<1>5. n \in T
  <2>1. T \subseteq Nat
    OBVIOUS
  <2> HIDE DEF T
  <2>2. QED
    BY <1>2, <1>3, <1>4, <2>1, Inductive
<1>6. P(n)
  <2> HIDE DEF P
  <2>1. QED
    BY <1>2, <1>5
<1>7. run[n] = flat
  BY <1>1
<1>8. QED
  BY <1>6, <1>7

Splits == ToSet(SplitNames)

-----------------------------------------------------------------------------
(* The tables and the columns of datasets are lists. *)

\* A sequence that is mapped, numbered or chosen from is a sequence.
LEMMA MapListed ==
  ASSUME NEW seq, Listed(seq), NEW f, f = [i \in DOMAIN seq |-> f[i]]
  PROVE  Listed(f)
<1>1. DOMAIN seq = 1..Len(seq) /\ Len(seq) \in Nat
  BY DEF Listed
<1>2. \A i \in DOMAIN seq : f[i] \in ToSet(f)
  BY DEF ToSet
<1>3. QED
  BY <1>1, <1>2 DEF Listed

\* The indices of a sequence.
LEMMA IndicesListed ==
  ASSUME NEW seq, Listed(seq)
  PROVE  Listed(Indices(seq)) /\ DOMAIN Indices(seq) = DOMAIN seq
<1> PICK f : f = Indices(seq)
  OBVIOUS
<1>1. f = [i \in DOMAIN seq |-> f[i]] /\ DOMAIN f = DOMAIN seq
  BY DEF Indices
<1>2. Listed(f)
  BY ONLY <1>1, Listed(seq), MapListed
<1>3. QED
  BY <1>1, <1>2

\* The elements at chosen places.
LEMMA ChosenPlaces ==
  ASSUME NEW seq, Listed(seq), NEW S, NEW f, f = [k \in DOMAIN Chosen(Indices(seq), S) |-> f[k]]
  PROVE  Listed(f)
<1>1. Listed(Indices(seq))
  BY IndicesListed
<1>2. Listed(Chosen(Indices(seq), S))
  BY ONLY <1>1, ChosenFacts
<1>3. QED
  BY ONLY <1>2, f = [k \in DOMAIN Chosen(Indices(seq), S) |-> f[k]], MapListed

IsTable(t) == {"columns", "rows"} \subseteq DOMAIN t /\ Listed(t.columns) /\ Listed(t.rows)

\* The tables that loading and cleaning leave.
LEMMA LoadedTable ==
  ASSUME NEW files, NEW t, t = LoadRaw(files), t # None,
         \A f \in {TrainFile, TestFile} : files[f] # None => Listed(files[f].columns) /\ Listed(files[f].rows)
  PROVE  IsTable(t)
<1> DEFINE read == Append(files[TrainFile].columns, "split")
           columns == Chosen(read, ToSet(read) \ Dropped)
           rows == Rows(files, TrainFile) \o Rows(files, TestFile)
<1>1. None \notin {files[TrainFile], files[TestFile]} /\ t.columns = columns /\ t.rows = rows
      /\ {"columns", "rows"} \subseteq DOMAIN t
  BY DEF LoadRaw
<1>2. \A f \in {TrainFile, TestFile} : Listed(files[f].columns) /\ Listed(files[f].rows)
  BY <1>1
<1>3. Listed(columns)
  <2>1. Listed(read)
    BY <1>2, ListedAppend
  <2> HIDE DEF read
  <2>2. QED
    BY ONLY <2>1, ChosenFacts
<1>4. ASSUME NEW f \in {TrainFile, TestFile} PROVE Listed(Rows(files, f))
  <2> PICK seq : seq = files[f].rows
    OBVIOUS
  <2> PICK r : r = Rows(files, f)
    OBVIOUS
  <2>1. Listed(seq)
    BY <1>2
  <2>2. r = [i \in DOMAIN seq |-> r[i]]
    BY DEF Rows
  <2>3. Listed(r)
    BY ONLY <2>1, <2>2, MapListed
  <2>4. QED
    BY <2>3
<1>5. Listed(rows)
  BY <1>4, ListedConcat
<1>6. QED
  BY <1>1, <1>3, <1>5 DEF IsTable

\* A table whose holes are filled or dropped.
LEMMA ImputedTable ==
  ASSUME NEW t, IsTable(t), NEW columns, NEW strategy, NEW r, r = Impute(t, columns, strategy)
  PROVE  IsTable(r)
<1>1. {"columns", "rows"} \subseteq DOMAIN t /\ Listed(t.columns) /\ Listed(t.rows)
  BY DEF IsTable
<1> DEFINE S == {q \in ToSet(t.rows) : \A c \in columns : q.cell[c] # Missing}
<1>2. CASE strategy = "drop"
  <2>1. r = [t EXCEPT !.rows = Chosen(@, S)]
    BY <1>2 DEF Impute
  <2>2. Listed(Chosen(t.rows, S))
    <3> HIDE DEF S
    <3>1. QED
      BY ONLY <1>1, ChosenFacts
  <2> HIDE DEF S
  <2>3. QED
    BY <1>1, <2>1, <2>2 DEF IsTable
<1>3. CASE strategy # "drop"
  <2>1. /\ {"columns", "rows"} \subseteq DOMAIN r /\ r.columns = t.columns
        /\ r.rows = [i \in DOMAIN t.rows |-> r.rows[i]]
    BY <1>1, <1>3 DEF Impute
  <2>2. Listed(r.rows)
    BY ONLY <1>1, <2>1, MapListed
  <2>3. QED
    BY <1>1, <2>1, <2>2 DEF IsTable
<1>4. QED
  BY <1>2, <1>3

\* A table that is cleaned.
LEMMA CleanedTable ==
  ASSUME NEW t, IsTable(t), NEW cleaning, NEW r, r = CleanDataset(t, cleaning)
  PROVE  IsTable(r)
<1> PICK t1 : t1 = ReplaceInfinities(t)
  OBVIOUS
<1> PICK t2 : t2 = DropDuplicateRows(t1, cleaning.keep)
  OBVIOUS
<1> PICK t3 : t3 = DropConstantColumns(t2)
  OBVIOUS
<1> PICK t4 : t4 = DropAllNullRows(t3)
  OBVIOUS
<1> PICK t5 : t5 = Impute(t4, ToSet(t4.columns) \cap t4.numeric, cleaning.numbers)
  OBVIOUS
<1>1. r = Impute(t5, ToSet(t4.columns) \ t4.numeric, cleaning.words)
  BY DEF CleanDataset, ImputeMissing
<1>2. IsTable(t1)
  <2>1. {"columns", "rows"} \subseteq DOMAIN t /\ Listed(t.columns) /\ Listed(t.rows)
    BY DEF IsTable
  <2>2. /\ {"columns", "rows"} \subseteq DOMAIN t1 /\ t1.columns = t.columns
        /\ t1.rows = [i \in DOMAIN t.rows |-> t1.rows[i]]
    BY <2>1 DEF ReplaceInfinities
  <2>3. Listed(t1.rows)
    BY ONLY <2>1, <2>2, MapListed
  <2>4. QED
    BY <2>1, <2>2, <2>3 DEF IsTable
<1>3. IsTable(t2)
  <2>1. {"columns", "rows"} \subseteq DOMAIN t1 /\ Listed(t1.columns) /\ Listed(t1.rows)
    BY <1>2 DEF IsTable
  <2>2. PICK S, f : t2 = [t1 EXCEPT !.rows = f] /\ f = [k \in DOMAIN Chosen(Indices(t1.rows), S) |-> f[k]]
    <3> DEFINE Same(i, j) == \A c \in ToSet(t1.columns) : t1.rows[i].cell[c] = t1.rows[j].cell[c]
               Twins(i) == {j \in DOMAIN t1.rows \ {i} : Same(i, j)}
               Stays(i) == CASE cleaning.keep = "first" -> \A j \in Twins(i) : i < j
                             [] cleaning.keep = "last" -> \A j \in Twins(i) : j < i
                             [] cleaning.keep = "none" -> Twins(i) = {}
               S == {i \in DOMAIN t1.rows : Stays(i)}
               kept == Chosen(Indices(t1.rows), S)
               f == [k \in DOMAIN kept |-> t1.rows[kept[k]]]
    <3>1. t2 = [t1 EXCEPT !.rows = f]
      BY DEF DropDuplicateRows
    <3>2. f = [k \in DOMAIN kept |-> f[k]]
      OBVIOUS
    <3> HIDE DEF f, S
    <3>3. QED
      BY <3>1, <3>2
  <2>3. Listed(f)
    BY ONLY <2>1, <2>2, ChosenPlaces
  <2>4. QED
    BY <2>1, <2>2, <2>3 DEF IsTable
<1>4. IsTable(t3)
  <2> DEFINE S == {c \in ToSet(t2.columns) : Cardinality(Values(t2, c)) > 1}
  <2>1. {"columns", "rows"} \subseteq DOMAIN t2 /\ Listed(t2.columns) /\ Listed(t2.rows)
    BY <1>3 DEF IsTable
  <2>2. t3 = [t2 EXCEPT !.columns = Chosen(@, S)]
    BY DEF DropConstantColumns
  <2> HIDE DEF S
  <2>3. Listed(Chosen(t2.columns, S))
    BY ONLY <2>1, ChosenFacts
  <2>4. QED
    BY <2>1, <2>2, <2>3 DEF IsTable
<1>5. IsTable(t4)
  <2> DEFINE S == {q \in ToSet(t3.rows) : \E c \in ToSet(t3.columns) : q.cell[c] # Missing}
  <2>1. {"columns", "rows"} \subseteq DOMAIN t3 /\ Listed(t3.columns) /\ Listed(t3.rows)
    BY <1>4 DEF IsTable
  <2>2. t4 = [t3 EXCEPT !.rows = Chosen(@, S)]
    BY DEF DropAllNullRows
  <2> HIDE DEF S
  <2>3. Listed(Chosen(t3.rows, S))
    BY ONLY <2>1, ChosenFacts
  <2>4. QED
    BY <2>1, <2>2, <2>3 DEF IsTable
<1>6. IsTable(t5)
  BY <1>5, ImputedTable
<1>7. QED
  BY <1>1, <1>6, ImputedTable

\* The rows of the splits.
LEMMA SplitRest ==
  ASSUME NEW rows, Listed(rows), NEW count, NEW parts, parts = TrainTestSplit(rows, count), parts # None
  PROVE  Listed(parts.rest)
<1>1. \E S : parts.rest = [k \in DOMAIN Chosen(Indices(rows), S) |-> rows[Chosen(Indices(rows), S)[k]]]
  BY ZenonT(60) DEF TrainTestSplit
<1>2. PICK S : parts.rest = [k \in DOMAIN Chosen(Indices(rows), S) |-> parts.rest[k]]
  BY <1>1
<1>3. QED
  BY ONLY <1>2, Listed(rows), ChosenPlaces

\* The rows to learn from.
LEMMA TrainRows ==
  ASSUME NEW rows, Listed(rows), NEW splits, splits = TrainValTestSplit(rows), splits # None
  PROVE  Listed(splits["train"])
<1> DEFINE known == Shares["train"] + Shares["validation"]
           first == TrainTestSplit(rows, PartOf(Len(rows), Shares["test"], known + Shares["test"]))
           later == IF first = None THEN None
                     ELSE TrainTestSplit(first.rest, PartOf(Len(first.rest), Shares["validation"], known))
<1>1. later # None /\ splits["train"] = later.rest
  BY DEF TrainValTestSplit, SplitNames, ToSet
<1>2. first # None
  BY <1>1
<1>3. Listed(first.rest)
  BY <1>2, SplitRest
<1>4. later = TrainTestSplit(first.rest, PartOf(Len(first.rest), Shares["validation"], known))
  BY <1>2
<1> HIDE DEF first, later
<1>5. Listed(later.rest)
  BY <1>1, <1>3, <1>4, SplitRest
<1>6. QED
  BY <1>1, <1>5

\* A finite set, sorted.
LEMMA SortedListed ==
  ASSUME NEW S, IsFiniteSet(S)
  PROVE  Listed(Sorted(S))
<1> PICK f : f = Sorted(S)
  OBVIOUS
<1>1. Cardinality(S) \in Nat
  BY FS_CardinalityType
<1>2. f = [k \in 1..Cardinality(S) |-> f[k]]
  <2> DEFINE Kth(k) == CHOOSE v \in S : Cardinality({w \in S : Before(w, v)}) = k - 1
  <2>1. f = [k \in 1..Cardinality(S) |-> Kth(k)]
    BY DEF Sorted
  <2> HIDE DEF Kth
  <2>2. QED
    BY <2>1
<1>3. \A k \in 1..Cardinality(S) : f[k] \in ToSet(f)
  BY <1>2 DEF ToSet
<1>4. QED
  BY <1>1, <1>2, <1>3 DEF Listed

\* A column has finitely many values.
LEMMA ValuesFinite ==
  ASSUME NEW t, Listed(t.rows), NEW c
  PROVE  IsFiniteSet(Values(t, c))
<1> PICK n \in Nat : n = Len(t.rows) /\ DOMAIN t.rows = 1..n
  BY DEF Listed
<1> PICK f : f = Column(t, c)
  OBVIOUS
<1>1. Values(t, c) = {f[i] : i \in 1..n}
  BY DEF Values, Column, ToSet
<1>2. IsFiniteSet(1..n)
  BY FS_Interval
<1>3. IsFiniteSet({f[i] : i \in 1..n})
  <2> DEFINE T == {f[i] : i \in 1..n}
             g == [i \in 1..n |-> f[i]]
  <2>1. g \in Surjection(1..n, T)
    BY DEF Surjection
  <2> HIDE DEF T, g
  <2>2. QED
    BY <1>2, <2>1, FS_Surjection DEF T
<1>4. QED
  BY <1>1, <1>3

\* The columns of the prepared splits.
LEMMA PreparedColumnsListed ==
  ASSUME NEW t, IsTable(t), NEW fitted, \A c \in ToSet(Encoded(t)) : Listed(fitted.categories[c])
  PROVE  Listed(PreparedColumns(t, fitted))
<1> DEFINE kept == Chosen(t.columns, ToSet(t.columns) \ (ToSet(Categorical) \cup {Label}))
           enc == Encoded(t)
           plain == [k \in DOMAIN kept |-> <<kept[k], None>>]
           words == [k \in DOMAIN enc |->
                      [i \in DOMAIN fitted.categories[enc[k]] |-> <<enc[k], fitted.categories[enc[k]][i]>>]]
           Z == UNION {ToSet(words[k]) : k \in DOMAIN enc}
<1>1. PreparedColumns(t, fitted) = plain \o FlattenSeq(words)
  BY DEF PreparedColumns
<1>2. Listed(plain)
  <2>1. Listed(kept)
    BY ChosenFacts DEF IsTable
  <2>2. plain = [k \in DOMAIN kept |-> plain[k]]
    OBVIOUS
  <2> HIDE DEF plain, kept
  <2>3. QED
    BY ONLY <2>1, <2>2, MapListed
<1>3. Listed(enc)
  <2>1. Listed(Categorical)
    BY DatasetAssumption
  <2>2. QED
    BY <2>1, ChosenFacts DEF Encoded
<1>4. DOMAIN enc = 1..Len(enc) /\ Len(enc) \in Nat /\ \A k \in DOMAIN enc : enc[k] \in ToSet(enc)
  BY <1>3 DEF Listed, ToSet
<1>5. ASSUME NEW k \in DOMAIN enc PROVE words[k] \in Seq(Z)
  <2>1. Listed(fitted.categories[enc[k]])
    BY <1>4, <1>5
  <2>2. words[k] = [i \in DOMAIN fitted.categories[enc[k]] |-> words[k][i]]
    BY <1>5
  <2> HIDE DEF words, enc
  <2>3. Listed(words[k])
    BY ONLY <2>1, <2>2, MapListed
  <2>4. ToSet(words[k]) \subseteq Z
    BY <1>5
  <2> HIDE DEF Z
  <2>5. QED
    BY <2>3, <2>4 DEF Listed
<1>6. words \in Seq(Seq(Z))
  <2>1. words = [k \in 1..Len(enc) |-> words[k]] /\ Len(enc) \in Nat
    BY <1>4
  <2>2. \A k \in 1..Len(enc) : words[k] \in Seq(Z)
    BY <1>4, <1>5
  <2> HIDE DEF words, enc, Z
  <2>3. QED
    BY <2>1, <2>2
<1> HIDE DEF words, Z, plain
<1>7. Listed(FlattenSeq(words))
  <2>1. FlattenSeq(words) \in Seq(Z)
    BY <1>6, FlattenFacts
  <2>2. QED
    BY <2>1, ListedSeq
<1>8. QED
  BY <1>1, <1>2, <1>7, ListedConcat

\* Prepared splits have a list of columns each.
LEMMA PreparedFrames ==
  ASSUME NEW files, NEW cleaning, NEW result, result = PrepareSplits(CleanTable(files, cleaning)), result # None,
         \A f \in {TrainFile, TestFile} : files[f] # None => Listed(files[f].columns) /\ Listed(files[f].rows)
  PROVE  \A s \in Splits : Listed(result.frames[s].columns)
<1> PICK loaded : loaded = LoadRaw(files)
  OBVIOUS
<1> PICK table : table = IF loaded = None THEN None ELSE IF SchemaFails(loaded) THEN None
                         ELSE CleanDataset(loaded, cleaning)
  OBVIOUS
<1> PICK splits : splits = IF table = None THEN None
                           ELSE IF Label \notin ToSet(table.columns) THEN None ELSE TrainValTestSplit(table.rows)
  OBVIOUS
<1> PICK fitted : fitted = FitTransforms(table, splits)
  OBVIOUS
<1> PICK columns : columns = PreparedColumns(table, fitted)
  OBVIOUS
<1>1. result = IF splits = None THEN None
               ELSE [ transforms |-> fitted,
                      frames |-> [s \in ToSet(SplitNames) |-> PreparedFrame(table, fitted, columns, splits[s])] ]
  BY DEF CleanTable, PrepareSplits
<1>2. splits # None /\ table # None /\ loaded # None
  BY <1>1
<1>3. \A s \in Splits : result.frames[s].columns = columns
  <2>1. \A s \in Splits : result.frames[s] = PreparedFrame(table, fitted, columns, splits[s])
    BY <1>1, <1>2 DEF Splits
  <2>2. \A rows : PreparedFrame(table, fitted, columns, rows).columns = columns
    BY DEF PreparedFrame
  <2>3. QED
    BY <2>1, <2>2
<1>4. IsTable(loaded)
  BY <1>2, LoadedTable
<1>5. IsTable(table)
  BY <1>2, <1>4, CleanedTable
<1>6. Listed(splits["train"])
  BY <1>2, <1>5, TrainRows DEF IsTable
<1>7. ASSUME NEW c \in ToSet(Encoded(table)) PROVE Listed(fitted.categories[c])
  <2> PICK train : train = [table EXCEPT !.rows = splits["train"]]
    OBVIOUS
  <2>1. fitted.categories[c] = Sorted(Values(train, c))
    BY DEF FitTransforms
  <2>2. train.rows = splits["train"]
    BY <1>5 DEF IsTable
  <2>3. IsFiniteSet(Values(train, c))
    BY <1>6, <2>2, ValuesFinite
  <2>4. QED
    BY <2>1, <2>3, SortedListed
<1>8. Listed(columns)
  BY <1>5, <1>7, PreparedColumnsListed
<1>9. QED
  BY <1>3, <1>8

\* Feature selection keeps some of the columns of the training split.
LEMMA SelectedFrames ==
  ASSUME NEW frames, NEW result, result = RunFeaturePipeline(frames), result # None,
         Listed(frames["train"].columns), DOMAIN frames = Splits
  PROVE  \A s \in Splits : Listed(result.frames[s].columns)
<1> PICK train : train = frames["train"]
  OBVIOUS
<1> PICK original : original = FeatureColumns(train)
  OBVIOUS
<1> PICK varied : varied = FitVarianceThreshold(train, original)
  OBVIOUS
<1> PICK kept : kept = FitCorrelationFilter(train, varied)
  OBVIOUS
<1> PICK retained : retained = SelectTop(train, kept)
  OBVIOUS
<1>1. \A s \in Splits : result.frames[s] = Project(frames[s], retained)
  BY DEF RunFeaturePipeline
<1>2. \A s \in Splits : result.frames[s].columns = retained
  <2>1. \A s : Project(frames[s], retained).columns = retained
    BY DEF Project
  <2>2. QED
    BY <1>1, <2>1
<1>3. Listed(original)
  BY ChosenFacts DEF FeatureColumns
<1>4. Listed(varied)
  BY <1>3, ChosenFacts DEF FitVarianceThreshold
<1>5. Listed(kept)
  <2>1. PICK S : kept = [k \in DOMAIN Chosen(Indices(varied), S) |-> kept[k]]
    BY DEF FitCorrelationFilter
  <2>2. QED
    BY ONLY <1>4, <2>1, ChosenPlaces
<1>6. Listed(retained)
  <2> DEFINE score == [i \in DOMAIN kept |-> Score(train, kept[i])]
             Place(i) == Cardinality({j \in DOMAIN kept : score[j] > score[i] \/ (score[j] = score[i] /\ j < i)}) + 1
             At1(k) == kept[CHOOSE i \in DOMAIN kept : Place(i) = k]
             ranked == [k \in DOMAIN kept |-> At1(k)]
  <2>1. retained = SubSeq(ranked, 1, IF TopK < Len(ranked) THEN TopK ELSE Len(ranked))
    BY DEF SelectTop
  <2> HIDE DEF At1
  <2>2. ranked = [k \in DOMAIN kept |-> ranked[k]]
    OBVIOUS
  <2> HIDE DEF ranked
  <2>3. Listed(ranked)
    BY ONLY <1>5, <2>2, MapListed
  <2>4. PICK m \in Nat : m <= Len(ranked) /\ retained = SubSeq(ranked, 1, m)
    <3>1. Len(ranked) \in Nat /\ TopK \in Nat
      BY <2>3, SelectionAssumption DEF Listed
    <3>2. CASE TopK < Len(ranked)
      BY <2>1, <3>1, <3>2
    <3>3. CASE ~(TopK < Len(ranked))
      BY <2>1, <3>1, <3>3
    <3>4. QED
      BY <3>2, <3>3
  <2>5. retained \in Seq(ToSet(ranked))
    BY <2>3, <2>4 DEF Listed
  <2>6. QED
    BY <2>5, ListedSeq
<1>7. QED
  BY <1>2, <1>6

-----------------------------------------------------------------------------
(* Orders, totals, spreads and the columns of a frame. *)

\* Where R orders a finite set, its elements have the ranks from 0 on.
Under(S, R, v) == {w \in S : <<w, v>> \in R}

IsOrder(S, R) ==
  /\ \A v \in S : <<v, v>> \notin R
  /\ \A u, v, w \in S : <<u, v>> \in R /\ <<v, w>> \in R => <<u, w>> \in R
  /\ \A v, w \in S : v # w => <<v, w>> \in R \/ <<w, v>> \in R

LEMMA OrderRanks ==
  ASSUME NEW S, IsFiniteSet(S), NEW R, IsOrder(S, R)
  PROVE  /\ \A v \in S : Cardinality(Under(S, R, v)) \in 0..Cardinality(S) - 1
         /\ \A v, w \in S : <<v, w>> \in R => Cardinality(Under(S, R, v)) < Cardinality(Under(S, R, w))
         /\ \A v, w \in S : Cardinality(Under(S, R, v)) = Cardinality(Under(S, R, w)) => v = w
         /\ \A n \in 0..Cardinality(S) - 1 : \E v \in S : Cardinality(Under(S, R, v)) = n
<1>1. Cardinality(S) \in Nat
  BY FS_CardinalityType
<1>2. \A v \in S : IsFiniteSet(Under(S, R, v)) /\ Cardinality(Under(S, R, v)) \in Nat
  <2>1. \A v \in S : Under(S, R, v) \in SUBSET S
    BY DEF Under
  <2>2. QED
    BY <2>1, FS_Subset, FS_CardinalityType
<1>3. ASSUME NEW v \in S PROVE Cardinality(Under(S, R, v)) \in 0..Cardinality(S) - 1
  <2>1. Under(S, R, v) \in SUBSET (S \ {v})
    BY DEF Under, IsOrder
  <2>2. IsFiniteSet(S \ {v}) /\ Cardinality(S \ {v}) = Cardinality(S) - 1
    BY FS_RemoveElement
  <2>3. Cardinality(Under(S, R, v)) <= Cardinality(S \ {v})
    BY <2>1, <2>2, FS_Subset
  <2>4. QED
    BY <1>1, <1>2, <2>2, <2>3
<1>4. ASSUME NEW v \in S, NEW w \in S, <<v, w>> \in R
      PROVE  Cardinality(Under(S, R, v)) < Cardinality(Under(S, R, w))
  <2>1. Under(S, R, v) \in SUBSET Under(S, R, w) /\ v \in Under(S, R, w) /\ v \notin Under(S, R, v)
    BY <1>4 DEF Under, IsOrder
  <2>2. /\ Cardinality(Under(S, R, v)) <= Cardinality(Under(S, R, w))
        /\ Cardinality(Under(S, R, w)) = Cardinality(Under(S, R, v)) => Under(S, R, w) = Under(S, R, v)
    BY <1>2, <2>1, FS_Subset
  <2>3. QED
    BY <1>2, <2>1, <2>2
<1>5. ASSUME NEW v \in S, NEW w \in S, Cardinality(Under(S, R, v)) = Cardinality(Under(S, R, w)) PROVE v = w
  <2> SUFFICES ASSUME v # w PROVE FALSE
    OBVIOUS
  <2>1. <<v, w>> \in R \/ <<w, v>> \in R
    BY DEF IsOrder
  <2>2. Cardinality(Under(S, R, v)) < Cardinality(Under(S, R, w)) \/ Cardinality(Under(S, R, w)) < Cardinality(Under(S, R, v))
    BY <1>4, <2>1
  <2>3. QED
    BY <1>2, <1>5, <2>2
<1>6. \A n \in 0..Cardinality(S) - 1 : \E v \in S : Cardinality(Under(S, R, v)) = n
  <2> DEFINE rank == [v \in S |-> Cardinality(Under(S, R, v))]
             places == 0..Cardinality(S) - 1
  <2>1. rank \in [S -> places]
    BY <1>3
  <2>2. \A v, w \in S : rank[v] = rank[w] => v = w
    BY <1>5
  <2>3. rank \in Injection(S, places)
    BY <2>1, <2>2 DEF Injection, IsInjective
  <2>4. IsFiniteSet(places) /\ Cardinality(places) = Cardinality(S)
    <3>1. 0 \in Int /\ Cardinality(S) - 1 \in Int
      BY <1>1
    <3>2. /\ IsFiniteSet(0..Cardinality(S) - 1)
          /\ Cardinality(0..Cardinality(S) - 1) =
               IF 0 > Cardinality(S) - 1 THEN 0 ELSE Cardinality(S) - 1 - 0 + 1
      BY ONLY <3>1, FS_Interval
    <3>3. QED
      BY <1>1, <3>2
  <2>5. rank \in Surjection(S, places)
    <3> HIDE DEF rank, places
    <3>1. QED
      BY <2>3, <2>4, FS_Injection
  <2>6. QED
    BY <2>5 DEF Surjection
<1>7. QED
  BY <1>3, <1>4, <1>5, <1>6

\* Finitely many numbers have a largest and a smallest one.
LEMMA Bounds ==
  ASSUME NEW S, S \subseteq Int, IsFiniteSet(S), S # {}
  PROVE  (\E m \in S : \A x \in S : x <= m) /\ (\E m \in S : \A x \in S : m <= x)
<1> PICK R : R = {p \in S \X S : p[1] < p[2]}
  OBVIOUS
<1>0. \A v, w \in S : <<v, w>> \in R <=> v < w
  OBVIOUS
<1>1. IsOrder(S, R)
  <2>1. \A v \in S : v \in Int
    OBVIOUS
  <2>2. QED
    BY <1>0, <2>1 DEF IsOrder
<1>2. Cardinality(S) \in Nat /\ Cardinality(S) # 0
  BY FS_CardinalityType, FS_EmptySet
<1>3. /\ \A v \in S : Cardinality(Under(S, R, v)) \in 0..Cardinality(S) - 1
      /\ \A v, w \in S : v < w => Cardinality(Under(S, R, v)) < Cardinality(Under(S, R, w))
      /\ \A n \in 0..Cardinality(S) - 1 : \E v \in S : Cardinality(Under(S, R, v)) = n
  <2>1. /\ \A v \in S : Cardinality(Under(S, R, v)) \in 0..Cardinality(S) - 1
        /\ \A v, w \in S : <<v, w>> \in R => Cardinality(Under(S, R, v)) < Cardinality(Under(S, R, w))
        /\ \A n \in 0..Cardinality(S) - 1 : \E v \in S : Cardinality(Under(S, R, v)) = n
    BY ONLY <1>1, IsFiniteSet(S), OrderRanks
  <2>2. QED
    BY <1>0, <2>1
<1>4. PICK m \in S : Cardinality(Under(S, R, m)) = Cardinality(S) - 1
  BY <1>2, <1>3
<1>5. PICK l \in S : Cardinality(Under(S, R, l)) = 0
  BY <1>2, <1>3
<1>6. \A x \in S : x <= m /\ l <= x
  <2> SUFFICES ASSUME NEW x \in S, ~(x <= m) \/ ~(l <= x) PROVE FALSE
    OBVIOUS
  <2>1. x \in Int /\ m \in Int /\ l \in Int
    OBVIOUS
  <2>2. CASE m < x
    <3>1. Cardinality(S) - 1 < Cardinality(Under(S, R, x)) /\ Cardinality(Under(S, R, x)) \in 0..Cardinality(S) - 1
      BY <1>3, <1>4, <2>2
    <3>2. QED
      BY <1>2, <3>1
  <2>3. CASE x < l
    <3>1. Cardinality(Under(S, R, x)) < 0 /\ Cardinality(Under(S, R, x)) \in 0..Cardinality(S) - 1
      BY <1>3, <1>5, <2>3
    <3>2. QED
      BY <1>2, <3>1
  <2>4. QED
    BY <2>1, <2>2, <2>3
<1>7. QED
  BY <1>6

\* The cells of a column, and their order.
Known == Int \cup ToSet(Words) \cup {Missing}

LEMMA PositionFacts ==
  /\ \A v \in Known \ Int : Position(v) \in Int
  /\ \A v, w \in Known \ Int : Position(v) = Position(w) => v = w
<1>1. DOMAIN Words = 1..Len(Words) /\ Len(Words) \in Nat /\ Missing \notin ToSet(Words)
  BY DatasetAssumption DEF Listed
<1>2. \A v \in ToSet(Words) : Position(v) \in 1..Len(Words) /\ Words[Position(v)] = v
  <2> SUFFICES ASSUME NEW v \in ToSet(Words) PROVE Position(v) \in 1..Len(Words) /\ Words[Position(v)] = v
    OBVIOUS
  <2>1. \E i \in DOMAIN Words : Words[i] = v
    BY DEF ToSet
  <2>2. Position(v) = CHOOSE i \in DOMAIN Words : Words[i] = v
    BY DEF Position
  <2>3. Position(v) \in DOMAIN Words /\ Words[Position(v)] = v
    BY <2>1, <2>2
  <2>4. QED
    BY <1>1, <2>3
<1>3. Position(Missing) = Len(Words) + 1
  BY <1>1 DEF Position
<1>4. \A v \in Known \ Int : v \in ToSet(Words) \/ v = Missing
  BY DEF Known
<1>5. \A v \in Known \ Int : Position(v) \in Int
  BY <1>1, <1>2, <1>3, <1>4
<1>6. ASSUME NEW v \in Known \ Int, NEW w \in Known \ Int, Position(v) = Position(w) PROVE v = w
  <2>1. CASE v \in ToSet(Words) /\ w \in ToSet(Words)
    BY <1>2, <1>6, <2>1
  <2>2. CASE v = Missing /\ w \in ToSet(Words)
    BY <1>1, <1>2, <1>3, <1>6, <2>2
  <2>3. CASE w = Missing /\ v \in ToSet(Words)
    BY <1>1, <1>2, <1>3, <1>6, <2>3
  <2>4. QED
    BY <1>4, <2>1, <2>2, <2>3
<1>7. QED
  BY <1>5, <1>6

InTurn(S) == {p \in S \X S : Before(p[1], p[2])}

LEMMA BeforeOrders ==
  ASSUME NEW S, S \subseteq Known
  PROVE  IsOrder(S, InTurn(S)) /\ \A v \in S : Under(S, InTurn(S), v) = {w \in S : Before(w, v)}
<1>1. \A v, w \in S : <<v, w>> \in InTurn(S) <=> Before(v, w)
  BY DEF InTurn
<1>2. \A v \in S : v \in Int \/ v \in Known \ Int
  OBVIOUS
<1>3. /\ \A v, w \in Int : Before(v, w) <=> v < w
      /\ \A v \in Int : \A w \in Known \ Int : Before(v, w) /\ ~Before(w, v)
      /\ \A v, w \in Known \ Int : Before(v, w) <=> Position(v) < Position(w)
  BY DEF Before
<1>4. ASSUME NEW v \in S PROVE ~Before(v, v)
  BY <1>2, <1>3, PositionFacts
<1>5. ASSUME NEW u \in S, NEW v \in S, NEW w \in S, Before(u, v), Before(v, w) PROVE Before(u, w)
  <2>1. CASE u \in Int /\ w \in Known \ Int
    BY <1>3, <2>1
  <2>2. CASE u \in Int /\ w \in Int
    <3>1. v \in Int
      BY <1>2, <1>3, <1>5, <2>2
    <3>2. u < v /\ v < w
      BY <1>3, <1>5, <2>2, <3>1
    <3>3. u < w
      BY <2>2, <3>1, <3>2
    <3>4. QED
      BY <1>3, <2>2, <3>3
  <2>3. CASE u \in Known \ Int
    <3>1. v \in Known \ Int
      BY <1>2, <1>3, <1>5, <2>3
    <3>2. w \in Known \ Int
      BY <1>2, <1>3, <1>5, <3>1
    <3>3. Position(u) < Position(v) /\ Position(v) < Position(w)
      BY <1>3, <1>5, <2>3, <3>1, <3>2
    <3>4. Position(u) < Position(w)
      BY <2>3, <3>1, <3>2, <3>3, PositionFacts
    <3>5. QED
      BY <1>3, <2>3, <3>2, <3>4
  <2>4. QED
    BY <1>2, <2>1, <2>2, <2>3
<1>6. ASSUME NEW v \in S, NEW w \in S, v # w PROVE Before(v, w) \/ Before(w, v)
  <2>1. CASE v \in Int /\ w \in Int
    BY <1>3, <1>6, <2>1
  <2>2. CASE (v \in Int /\ w \in Known \ Int) \/ (w \in Int /\ v \in Known \ Int)
    BY <1>3, <2>2
  <2>3. CASE v \in Known \ Int /\ w \in Known \ Int
    <3>1. Position(v) \in Int /\ Position(w) \in Int /\ Position(v) # Position(w)
      BY <1>6, <2>3, PositionFacts
    <3>2. Position(v) < Position(w) \/ Position(w) < Position(v)
      BY <3>1
    <3>3. QED
      BY <1>3, <2>3, <3>2
  <2>4. QED
    BY <1>2, <2>1, <2>2, <2>3
<1>7. IsOrder(S, InTurn(S))
  <2> PICK R : R = InTurn(S)
    OBVIOUS
  <2>1. \A v \in S : <<v, v>> \notin R
    BY <1>1, <1>4
  <2>2. \A u, v, w \in S : <<u, v>> \in R /\ <<v, w>> \in R => <<u, w>> \in R
    BY <1>1, <1>5
  <2>3. \A v, w \in S : v # w => <<v, w>> \in R \/ <<w, v>> \in R
    BY <1>1, <1>6
  <2>4. QED
    BY <2>1, <2>2, <2>3 DEF IsOrder
<1>8. \A v \in S : Under(S, InTurn(S), v) = {w \in S : Before(w, v)}
  BY <1>1 DEF Under
<1>9. QED
  BY <1>7, <1>8

\* A finite set of cells, sorted, is a list of its elements.
LEMMA SortedSet ==
  ASSUME NEW S, S \subseteq Known, IsFiniteSet(S)
  PROVE  /\ Listed(Sorted(S)) /\ DOMAIN Sorted(S) = 1..Cardinality(S) /\ ToSet(Sorted(S)) = S
<1> DEFINE R == InTurn(S)
           rank(v) == Cardinality({w \in S : Before(w, v)})
<1> PICK f : f = Sorted(S)
  OBVIOUS
<1>0. Cardinality(S) \in Nat
  BY FS_CardinalityType
<1>1. /\ \A v \in S : rank(v) \in 0..Cardinality(S) - 1
      /\ \A v, w \in S : rank(v) = rank(w) => v = w
      /\ \A n \in 0..Cardinality(S) - 1 : \E v \in S : rank(v) = n
  <2>1. IsOrder(S, R) /\ \A v \in S : Under(S, R, v) = {w \in S : Before(w, v)}
    BY BeforeOrders
  <2> HIDE DEF R
  <2>2. \A v \in S : Cardinality(Under(S, R, v)) = rank(v)
    BY <2>1
  <2>3. /\ \A v \in S : Cardinality(Under(S, R, v)) \in 0..Cardinality(S) - 1
        /\ \A v, w \in S : Cardinality(Under(S, R, v)) = Cardinality(Under(S, R, w)) => v = w
        /\ \A n \in 0..Cardinality(S) - 1 : \E v \in S : Cardinality(Under(S, R, v)) = n
    BY <2>1, OrderRanks
  <2> HIDE DEF rank
  <2>4. QED
    BY <2>2, <2>3
<1>2. DOMAIN f = 1..Cardinality(S) /\ \A k \in 1..Cardinality(S) : f[k] = CHOOSE v \in S : rank(v) = k - 1
  BY DEF Sorted
<1> HIDE DEF rank
<1>3. ASSUME NEW k \in 1..Cardinality(S) PROVE f[k] \in S /\ rank(f[k]) = k - 1
  <2>1. k - 1 \in 0..Cardinality(S) - 1
    BY <1>0
  <2>2. QED
    BY <1>1, <1>2, <2>1
<1>4. ToSet(f) \subseteq S
  BY <1>2, <1>3 DEF ToSet
<1>5. ASSUME NEW v \in S PROVE v \in ToSet(f)
  <2> DEFINE k == rank(v) + 1
  <2>1. k \in 1..Cardinality(S) /\ k - 1 = rank(v)
    BY <1>0, <1>1
  <2>2. f[k] = v
    BY <1>1, <1>3, <2>1
  <2>3. QED
    BY <1>2, <2>1, <2>2 DEF ToSet
<1>6. Listed(f)
  BY SortedListed
<1>7. QED
  BY <1>2, <1>4, <1>5, <1>6

\* A sum over the first k.
Sums(run, values) ==
  run[0] = 0 /\ \A k \in 1..Len(values) : run[k] = run[k - 1] + values[k]

LEMMA SumsAreInt ==
  ASSUME NEW values \in Seq(Int), NEW run, Sums(run, values)
  PROVE  \A k \in 0..Len(values) : run[k] \in Int
<1> DEFINE n == Len(values)
           T == {k \in Nat : k <= n => run[k] \in Int}
<1>0. n \in Nat /\ \A k \in 1..n : values[k] \in Int
  OBVIOUS
<1>1. 0 \in T
  BY DEF Sums
<1>2. ASSUME NEW k \in T PROVE k + 1 \in T
  <2> SUFFICES ASSUME k + 1 <= n PROVE run[k + 1] \in Int
    OBVIOUS
  <2>1. k \in Nat /\ k <= n /\ run[k] \in Int /\ k + 1 \in 1..n
    BY <1>0
  <2>2. run[k + 1] = run[k] + values[k + 1]
    <3>1. run[k + 1] = run[(k + 1) - 1] + values[k + 1] /\ (k + 1) - 1 = k
      BY <2>1 DEF Sums
    <3>2. QED
      BY <3>1
  <2>3. QED
    BY <1>0, <2>1, <2>2
<1>3. T = Nat
  <2>1. T \subseteq Nat
    OBVIOUS
  <2> HIDE DEF T
  <2>2. QED
    BY <1>1, <1>2, <2>1, Inductive
<1>4. QED
  BY <1>0, <1>3

\* Two sums of the same numbers are the same.
LEMMA SumsAgree ==
  ASSUME NEW values \in Seq(Int), NEW run, NEW other, Sums(run, values), Sums(other, values)
  PROVE  \A k \in 0..Len(values) : run[k] = other[k]
<1> DEFINE n == Len(values)
           T == {k \in Nat : k <= n => run[k] = other[k]}
<1>0. n \in Nat
  OBVIOUS
<1>1. 0 \in T
  BY DEF Sums
<1>2. ASSUME NEW k \in T PROVE k + 1 \in T
  <2> SUFFICES ASSUME k + 1 <= n PROVE run[k + 1] = other[k + 1]
    OBVIOUS
  <2>1. k \in Nat /\ k <= n /\ run[k] = other[k] /\ k + 1 \in 1..n /\ (k + 1) - 1 = k
    BY <1>0
  <2>2. run[k + 1] = run[(k + 1) - 1] + values[k + 1] /\ other[k + 1] = other[(k + 1) - 1] + values[k + 1]
    BY <2>1 DEF Sums
  <2>3. QED
    BY <2>1, <2>2
<1>3. T = Nat
  <2>1. T \subseteq Nat
    OBVIOUS
  <2> HIDE DEF T
  <2>2. QED
    BY <1>1, <1>2, <2>1, Inductive
<1>4. QED
  BY <1>0, <1>3

\* The total is such a sum.
LEMMA TotalRuns ==
  ASSUME NEW values \in Seq(Int)
  PROVE  \E run : Sums(run, values) /\ run[Len(values)] = Total(values)
<1> DEFINE n == Len(values)
           step == [p \in Int \X Int |-> p[1] + p[2]]
           Folded(it) == it = [d \in SUBSET (DOMAIN values) |-> IF d = {} THEN 0 ELSE it[d \ {Max(d)}] + values[Max(d)]]
           it == CHOOSE it : Folded(it)
<1>1. n \in Nat /\ DOMAIN values = 1..n
  OBVIOUS
<1>2. step \in [Int \X Int -> Int] /\ 0 \in Int
  OBVIOUS
<1>3. \E f : Folded(f)
  <2>1. PICK f \in [SUBSET (DOMAIN values) -> Int] : FoldOf(f, values, 0, step)
    <3> HIDE DEF step
    <3>1. QED
      BY <1>2, FoldExists
  <2>2. ASSUME NEW d \in SUBSET (DOMAIN values), d # {}
        PROVE  step[<<f[d \ {Max(d)}], values[Max(d)]>>] = f[d \ {Max(d)}] + values[Max(d)]
    <3>1. Max(d) \in d
      BY <1>1, <2>2, MaxIsMax
    <3>2. f[d \ {Max(d)}] \in Int /\ values[Max(d)] \in Int
      BY <1>1, <2>1, <3>1
    <3>3. QED
      BY <3>2
  <2> HIDE DEF step
  <2>3. \A d \in SUBSET (DOMAIN values) : f[d] = IF d = {} THEN 0 ELSE f[d \ {Max(d)}] + values[Max(d)]
    BY <2>1, <2>2 DEF FoldOf
  <2>4. f = [d \in SUBSET (DOMAIN values) |-> IF d = {} THEN 0 ELSE f[d \ {Max(d)}] + values[Max(d)]]
    BY <2>1, <2>3
  <2>5. QED
    BY <2>4
<1>4. Folded(it)
  BY <1>3
<1>5. Total(values) = it[DOMAIN values]
  BY DEF Total, FoldLeft, MapThenFoldSet
<1> DEFINE run == [k \in 0..n |-> it[1..k]]
<1> HIDE DEF it
<1>6. run[0] = 0
  <2>1. 1..0 = {} /\ {} \in SUBSET (DOMAIN values) /\ 0 \in 0..n
    BY <1>1
  <2>2. it[{}] = 0
    BY <1>4, <2>1
  <2>3. QED
    BY <2>1, <2>2
<1>7. ASSUME NEW k \in 1..n PROVE run[k] = run[k - 1] + values[k]
  <2>1. 1..k # {} /\ Max(1..k) = k /\ (1..k) \ {k} = 1..(k - 1)
    BY ONLY <1>1, k \in 1..n, FirstNumbers
  <2>2. 1..k \in SUBSET (DOMAIN values) /\ k \in 0..n /\ k - 1 \in 0..n
    BY <1>1
  <2>3. run[k] = it[1..k] /\ run[k - 1] = it[1..(k - 1)]
    BY <2>2
  <2>4. it[1..k] = it[(1..k) \ {Max(1..k)}] + values[Max(1..k)]
    BY <1>4, <2>1, <2>2
  <2> HIDE DEF run
  <2>5. QED
    BY <2>1, <2>3, <2>4
<1>8. run[n] = Total(values)
  BY <1>1, <1>5
<1> HIDE DEF run
<1>9. QED
  BY <1>6, <1>7, <1>8 DEF Sums

\* What sums the numbers up comes to the total.
LEMMA TotalIs ==
  ASSUME NEW values \in Seq(Int)
  PROVE  Total(values) \in Int /\ \A run : Sums(run, values) => run[Len(values)] = Total(values)
<1>1. PICK run : Sums(run, values) /\ run[Len(values)] = Total(values)
  BY TotalRuns
<1>2. Len(values) \in 0..Len(values)
  OBVIOUS
<1>3. QED
  BY <1>1, <1>2, SumsAreInt, SumsAgree

\* One number more.
LEMMA TotalAppend ==
  ASSUME NEW values \in Seq(Int), NEW v \in Int
  PROVE  Append(values, v) \in Seq(Int) /\ Total(Append(values, v)) = Total(values) + v
<1> PICK more : more = Append(values, v)
  OBVIOUS
<1> PICK n \in Nat : n = Len(values)
  OBVIOUS
<1>1. more \in Seq(Int) /\ Len(more) = n + 1 /\ more[n + 1] = v /\ \A k \in 1..n : more[k] = values[k]
  OBVIOUS
<1>2. PICK run : Sums(run, values) /\ run[n] = Total(values)
  BY TotalRuns
<1> DEFINE further == [k \in 0..(n + 1) |-> IF k = n + 1 THEN run[n] + v ELSE run[k]]
<1>3. Sums(further, more)
  <2>1. further[0] = 0
    BY <1>2 DEF Sums
  <2>2. ASSUME NEW k \in 1..n PROVE further[k] = further[k - 1] + more[k]
    <3>1. k \in 0..(n + 1) /\ k - 1 \in 0..(n + 1) /\ k # n + 1 /\ k - 1 # n + 1
      OBVIOUS
    <3>2. run[k] = run[k - 1] + values[k]
      BY <1>2 DEF Sums
    <3>3. QED
      BY <1>1, <3>1, <3>2
  <2>3. further[n + 1] = further[n] + more[n + 1]
    BY <1>1
  <2>4. \A k \in 1..(n + 1) : k \in 1..n \/ (k = n + 1 /\ k - 1 = n)
    OBVIOUS
  <2> HIDE DEF further
  <2>5. \A k \in 1..(n + 1) : further[k] = further[k - 1] + more[k]
    BY <2>2, <2>3, <2>4
  <2>6. QED
    BY <1>1, <2>1, <2>5 DEF Sums
<1>4. further[n + 1] = run[n] + v
  OBVIOUS
<1> HIDE DEF further
<1>5. further[n + 1] = Total(more)
  BY <1>1, <1>3, TotalIs
<1>6. QED
  BY <1>1, <1>2, <1>4, <1>5

LEMMA TotalEmpty == Total(<<>>) = 0
<1>1. <<>> \in Seq(Int) /\ Len(<<>>) = 0
  OBVIOUS
<1>2. PICK run : Sums(run, <<>>) /\ run[Len(<<>>)] = Total(<<>>)
  BY <1>1, TotalRuns
<1>3. QED
  BY <1>1, <1>2 DEF Sums

\* The total of one number over and over.
LEMMA TotalConstant ==
  ASSUME NEW values \in Seq(Int), NEW v \in Int, \A k \in 1..Len(values) : values[k] = v
  PROVE  Total(values) = Len(values) * v
<1> DEFINE n == Len(values)
           run == [k \in 0..n |-> k * v]
<1>1. n \in Nat
  OBVIOUS
<1>2. Sums(run, values)
  <2>1. run[0] = 0
    BY <1>1
  <2>2. ASSUME NEW k \in 1..n PROVE run[k] = run[k - 1] + values[k]
    <3>1. k \in 0..n /\ k - 1 \in 0..n /\ values[k] = v
      BY <1>1
    <3>2. k * v = (k - 1) * v + v
      BY <1>1
    <3>3. QED
      BY <3>1, <3>2
  <2> HIDE DEF run
  <2>3. QED
    BY <2>1, <2>2 DEF Sums
<1>3. run[n] = n * v
  BY <1>1
<1> HIDE DEF run
<1>4. QED
  BY <1>2, <1>3, TotalIs

LEMMA Square == \A x \in Int : x * x \in Int /\ x * x >= 0 /\ (x # 0 => x * x > 0)
OBVIOUS

\* The sums of some numbers and of their squares tell how far the numbers are
\* from y.
Squares(values) == [k \in DOMAIN values |-> values[k] * values[k]]

Distance(s, q, y, k) == q[k] - 2 * (y * s[k]) + k * (y * y)

LEMMA OneFarther ==
  ASSUME NEW q \in Int, NEW s \in Int, NEW x \in Int, NEW y \in Int, NEW k \in Int
  PROVE  (q + x * x) - 2 * (y * (s + x)) + (k + 1) * (y * y)
           = (q - 2 * (y * s) + k * (y * y)) + (x - y) * (x - y)
OBVIOUS

LEMMA OneWider ==
  ASSUME NEW q \in Int, NEW s \in Int, NEW x \in Int, NEW k \in Int
  PROVE  (k + 1) * (q + x * x) - (s + x) * (s + x)
           = (k * q - s * s) + (q - 2 * (x * s) + k * (x * x))
OBVIOUS

LEMMA SquaresSeq ==
  ASSUME NEW values \in Seq(Int)
  PROVE  Squares(values) \in Seq(Int) /\ Len(Squares(values)) = Len(values)
<1> PICK f : f = Squares(values)
  OBVIOUS
<1> PICK n \in Nat : n = Len(values) /\ DOMAIN values = 1..n
  OBVIOUS
<1>1. f = [k \in 1..n |-> f[k]] /\ \A k \in 1..n : f[k] = values[k] * values[k] /\ values[k] \in Int
  BY DEF Squares
<1>2. \A k \in 1..n : f[k] \in Int
  BY <1>1, Square
<1>3. f \in Seq(Int) /\ Len(f) = n
  BY <1>1, <1>2
<1>4. QED
  BY <1>3

LEMMA Distances ==
  ASSUME NEW values \in Seq(Int), NEW s, NEW q, Sums(s, values), Sums(q, Squares(values)), NEW y \in Int
  PROVE  \A k \in 0..Len(values) :
           /\ Distance(s, q, y, k) \in Int /\ Distance(s, q, y, k) >= 0
           /\ (\E i \in 1..k : values[i] # y) => Distance(s, q, y, k) > 0
<1> DEFINE n == Len(values)
           Ok(k) == /\ Distance(s, q, y, k) \in Int /\ Distance(s, q, y, k) >= 0
                    /\ (\E i \in 1..k : values[i] # y) => Distance(s, q, y, k) > 0
           T == {k \in Nat : k <= n => Ok(k)}
<1>0. /\ n \in Nat /\ \A k \in 1..n : values[k] \in Int /\ Squares(values)[k] = values[k] * values[k]
      /\ Len(Squares(values)) = n /\ \A k \in 0..n : s[k] \in Int /\ q[k] \in Int
  BY SquaresSeq, SumsAreInt DEF Squares
<1>1. 0 \in T
  <2>1. s[0] = 0 /\ q[0] = 0 /\ y * 0 = 0 /\ y * y \in Int /\ 0 * (y * y) = 0
    BY Square DEF Sums
  <2>2. Distance(s, q, y, 0) = 0
    BY <2>1 DEF Distance
  <2>3. QED
    BY <2>2
<1>2. ASSUME NEW k \in T PROVE k + 1 \in T
  <2> SUFFICES ASSUME k + 1 <= n PROVE Ok(k + 1)
    BY <1>2
  <2>1. k \in Nat /\ k <= n /\ k \in 0..n /\ k + 1 \in 1..n /\ (k + 1) - 1 = k
    BY <1>0
  <2>2. Ok(k)
    BY <2>1
  <2> PICK x \in Int : x = values[k + 1]
    BY <1>0, <2>1
  <2>3. s[k + 1] = s[k] + x /\ q[k + 1] = q[k] + x * x
    <3>1. s[k + 1] = s[(k + 1) - 1] + values[k + 1] /\ q[k + 1] = q[(k + 1) - 1] + Squares(values)[k + 1]
      BY <1>0, <2>1 DEF Sums
    <3>2. QED
      BY <1>0, <2>1, <3>1
  <2>4. Distance(s, q, y, k + 1) = Distance(s, q, y, k) + (x - y) * (x - y)
    <3> PICK a : a = s[k]
      OBVIOUS
    <3> PICK b : b = q[k]
      OBVIOUS
    <3>1. a \in Int /\ b \in Int /\ k \in Int /\ x \in Int /\ y \in Int
      BY <1>0, <2>1
    <3>2. (b + x * x) - 2 * (y * (a + x)) + (k + 1) * (y * y) = (b - 2 * (y * a) + k * (y * y)) + (x - y) * (x - y)
      BY ONLY <3>1, OneFarther
    <3>3. /\ Distance(s, q, y, k) = b - 2 * (y * a) + k * (y * y)
          /\ Distance(s, q, y, k + 1) = (b + x * x) - 2 * (y * (a + x)) + (k + 1) * (y * y)
      BY <2>3 DEF Distance
    <3>4. QED
      BY ONLY <3>2, <3>3
  <2>5. /\ (x - y) * (x - y) \in Int /\ (x - y) * (x - y) >= 0 /\ (x # y => (x - y) * (x - y) > 0)
    <3>1. x - y \in Int /\ (x # y => x - y # 0)
      OBVIOUS
    <3>2. QED
      BY ONLY <3>1, Square
  <2>6. (\E i \in 1..(k + 1) : values[i] # y) => (\E i \in 1..k : values[i] # y) \/ x # y
    <3>1. \A i \in 1..(k + 1) : i \in 1..k \/ i = k + 1
      BY <2>1
    <3>2. QED
      BY <3>1
  <2> PICK d : d = Distance(s, q, y, k)
    OBVIOUS
  <2> PICK m : m = (x - y) * (x - y)
    OBVIOUS
  <2>7. d \in Int /\ m \in Int /\ d >= 0 /\ m >= 0
    BY <2>2, <2>5
  <2>8. d + m \in Int /\ d + m >= 0 /\ (d > 0 \/ m > 0 => d + m > 0)
    BY ONLY <2>7
  <2>9. QED
    BY <2>2, <2>4, <2>5, <2>6, <2>8
<1>3. T = Nat
  <2>1. T \subseteq Nat
    OBVIOUS
  <2> HIDE DEF T
  <2>2. QED
    BY <1>1, <1>2, <2>1, Inductive
<1> HIDE DEF Ok
<1>4. \A k \in 0..n : Ok(k)
  BY <1>0, <1>3
<1>5. QED
  BY <1>4 DEF Ok

\* Numbers that are not all the same have a variance.
LEMMA Spread ==
  ASSUME NEW values \in Seq(Int), NEW a \in 1..Len(values), NEW b \in 1..Len(values), values[a] # values[b]
  PROVE  Len(values) * Total(Squares(values)) - Total(values) * Total(values) > 0
<1> DEFINE n == Len(values)
           Differ(k) == \E i, j \in 1..k : values[i] # values[j]
<1>1. PICK s : Sums(s, values) /\ s[n] = Total(values)
  BY TotalRuns
<1>2. PICK q : Sums(q, Squares(values)) /\ q[n] = Total(Squares(values))
  <2>1. Squares(values) \in Seq(Int) /\ Len(Squares(values)) = n
    BY SquaresSeq
  <2>2. QED
    BY <2>1, TotalRuns
<1> DEFINE Wide(k) == k * q[k] - s[k] * s[k]
           Ok(k) == Wide(k) \in Int /\ Wide(k) >= 0 /\ (Differ(k) => Wide(k) > 0)
           T == {k \in Nat : k <= n => Ok(k)}
<1>0. /\ n \in Nat /\ \A k \in 1..n : values[k] \in Int /\ Squares(values)[k] = values[k] * values[k]
      /\ Len(Squares(values)) = n /\ Squares(values) \in Seq(Int)
  BY SquaresSeq DEF Squares
<1>3. \A k \in 0..n : s[k] \in Int /\ q[k] \in Int
  BY <1>0, <1>1, <1>2, SumsAreInt
<1>4. 0 \in T
  <2>1. s[0] = 0 /\ q[0] = 0
    BY <1>1, <1>2 DEF Sums
  <2>2. Wide(0) = 0 /\ ~Differ(0)
    BY <2>1
  <2>3. QED
    BY <2>2
<1>5. ASSUME NEW k \in T PROVE k + 1 \in T
  <2> SUFFICES ASSUME k + 1 <= n PROVE Ok(k + 1)
    BY <1>5
  <2>1. k \in Nat /\ k <= n /\ k \in 0..n /\ k + 1 \in 1..n /\ (k + 1) - 1 = k
    BY <1>0
  <2>2. Ok(k)
    BY <2>1
  <2> PICK x \in Int : x = values[k + 1]
    BY <1>0, <2>1
  <2>3. s[k + 1] = s[k] + x /\ q[k + 1] = q[k] + x * x
    <3>1. s[k + 1] = s[(k + 1) - 1] + values[k + 1] /\ q[k + 1] = q[(k + 1) - 1] + Squares(values)[k + 1]
      BY <1>0, <1>1, <1>2, <2>1 DEF Sums
    <3>2. QED
      BY <1>0, <2>1, <3>1
  <2>4. Wide(k + 1) = Wide(k) + Distance(s, q, x, k)
    <3> PICK c : c = s[k]
      OBVIOUS
    <3> PICK d : d = q[k]
      OBVIOUS
    <3>1. c \in Int /\ d \in Int /\ k \in Int /\ x \in Int
      BY <1>3, <2>1
    <3>2. (k + 1) * (d + x * x) - (c + x) * (c + x) = (k * d - c * c) + (d - 2 * (x * c) + k * (x * x))
      BY ONLY <3>1, OneWider
    <3>3. /\ Distance(s, q, x, k) = d - 2 * (x * c) + k * (x * x)
          /\ Wide(k) = k * d - c * c
          /\ Wide(k + 1) = (k + 1) * (d + x * x) - (c + x) * (c + x)
      BY <2>3 DEF Distance
    <3> HIDE DEF Wide
    <3>4. QED
      BY ONLY <3>2, <3>3
  <2>5. /\ Distance(s, q, x, k) \in Int /\ Distance(s, q, x, k) >= 0
        /\ (\E i \in 1..k : values[i] # x) => Distance(s, q, x, k) > 0
    BY <1>1, <1>2, <2>1, Distances
  <2>6. Differ(k + 1) => Differ(k) \/ \E i \in 1..k : values[i] # x
    <3> SUFFICES ASSUME NEW i \in 1..(k + 1), NEW j \in 1..(k + 1), values[i] # values[j]
                 PROVE  Differ(k) \/ \E e \in 1..k : values[e] # x
      OBVIOUS
    <3>1. (i \in 1..k \/ i = k + 1) /\ (j \in 1..k \/ j = k + 1)
      BY <2>1
    <3>2. QED
      BY <3>1
  <2> PICK v : v = Wide(k)
    OBVIOUS
  <2> PICK d : d = Distance(s, q, x, k)
    OBVIOUS
  <2>7. v \in Int /\ d \in Int /\ v >= 0 /\ d >= 0
    BY <2>2, <2>5
  <2>8. v + d \in Int /\ v + d >= 0 /\ (v > 0 \/ d > 0 => v + d > 0)
    BY <2>7
  <2> HIDE DEF Wide, Differ
  <2>9. QED
    BY <2>2, <2>4, <2>5, <2>6, <2>8
<1>6. T = Nat
  <2>1. T \subseteq Nat
    OBVIOUS
  <2> HIDE DEF T
  <2>2. QED
    BY <1>4, <1>5, <2>1, Inductive
<1>7. Ok(n)
  <2> HIDE DEF Ok
  <2>1. QED
    BY <1>0, <1>6
<1>8. Differ(n)
  OBVIOUS
<1>9. QED
  BY <1>1, <1>2, <1>7, <1>8

\* The elements of a sequence are finitely many, and those at which something holds are counted.
LEMMA SeqFinite ==
  ASSUME NEW values, Listed(values)
  PROVE  IsFiniteSet(ToSet(values)) /\ IsFiniteSet(DOMAIN values) /\ Cardinality(DOMAIN values) = Len(values)
<1> PICK n \in Nat : n = Len(values) /\ DOMAIN values = 1..n
  BY DEF Listed
<1>1. IsFiniteSet(1..n) /\ Cardinality(1..n) = n
  <2>1. 1 \in Int /\ n \in Int
    OBVIOUS
  <2>2. IsFiniteSet(1..n) /\ Cardinality(1..n) = IF 1 > n THEN 0 ELSE n - 1 + 1
    BY ONLY <2>1, FS_Interval
  <2>3. QED
    BY <2>2
<1>2. values \in Surjection(1..n, ToSet(values))
  <2>1. values = [i \in 1..n |-> values[i]] /\ \A i \in 1..n : values[i] \in ToSet(values)
    BY DEF Listed, ToSet
  <2>2. values \in [1..n -> ToSet(values)]
    BY <2>1
  <2>3. QED
    BY <2>2 DEF Surjection, ToSet
<1>3. QED
  BY <1>1, <1>2, FS_Surjection

\* The numbers at or below v, and those below it.
UpTo(values, v) == {i \in DOMAIN values : ~Before(v, values[i])}

Short(values, v) == {i \in DOMAIN values : Before(values[i], v)}

\* The k-th of a list of numbers is one of them.
LEMMA KthIsThere ==
  ASSUME NEW values \in Seq(Int), NEW k \in 1..Len(values)
  PROVE  \E v \in ToSet(values) : Cardinality(Short(values, v)) < k /\ Cardinality(UpTo(values, v)) >= k
<1> DEFINE S == ToSet(values)
           n == Len(values)
           A == {v \in S : Cardinality(UpTo(values, v)) >= k}
<1>0. n \in Nat /\ DOMAIN values = 1..n /\ k \in Nat /\ k >= 1 /\ k <= n
  OBVIOUS
<1>1. S \subseteq Int /\ IsFiniteSet(S) /\ IsFiniteSet(DOMAIN values) /\ Cardinality(DOMAIN values) = n
  <2>1. Listed(values)
    BY ListedSeq
  <2>2. IsFiniteSet(ToSet(values)) /\ IsFiniteSet(DOMAIN values) /\ Cardinality(DOMAIN values) = Len(values)
    BY ONLY <2>1, SeqFinite
  <2>3. S \subseteq Int
    BY DEF ToSet
  <2>4. QED
    BY <2>2, <2>3
<1>2. \A v \in S : /\ UpTo(values, v) = {i \in DOMAIN values : values[i] <= v}
                   /\ Short(values, v) = {i \in DOMAIN values : values[i] < v}
  <2>1. \A v \in S, i \in DOMAIN values : v \in Int /\ values[i] \in Int
    BY <1>1
  <2>2. \A v, w \in Int : (Before(v, w) <=> v < w) /\ (~(v < w) <=> w <= v)
    BY DEF Before
  <2>3. QED
    BY <2>1, <2>2 DEF UpTo, Short
<1>3. \A v : Cardinality(UpTo(values, v)) \in Nat /\ Cardinality(Short(values, v)) \in Nat
  <2>1. \A v : UpTo(values, v) \in SUBSET (DOMAIN values) /\ Short(values, v) \in SUBSET (DOMAIN values)
    BY DEF UpTo, Short
  <2>2. QED
    BY <1>1, <2>1, FS_Subset, FS_CardinalityType
<1>4. \A i \in DOMAIN values : values[i] \in S
  BY DEF ToSet
<1>5. A # {}
  <2>1. S # {}
    BY <1>0, <1>4
  <2>2. PICK m \in S : \A x \in S : x <= m
    <3> HIDE DEF S
    <3>1. QED
      BY <1>1, <2>1, Bounds
  <2>3. UpTo(values, m) = DOMAIN values
    BY <1>2, <1>4, <2>2
  <2>4. m \in A
    BY <1>0, <1>1, <2>3
  <2>5. QED
    BY <2>4
<1>6. PICK v \in A : \A x \in A : v <= x
  <2>1. A \subseteq Int /\ A \in SUBSET S
    BY <1>1
  <2> HIDE DEF A, S
  <2>2. IsFiniteSet(A)
    BY <1>1, <2>1, FS_Subset
  <2>3. QED
    BY <1>5, <2>1, <2>2, Bounds
<1>7. Cardinality(Short(values, v)) < k
  <2> SUFFICES ASSUME ~(Cardinality(Short(values, v)) < k) PROVE FALSE
    OBVIOUS
  <2>0. v \in S /\ v \in Int
    BY <1>1
  <2>1. Cardinality(Short(values, v)) >= k /\ Short(values, v) # {}
    <3>1. Cardinality(Short(values, v)) >= k
      BY <1>0, <1>3
    <3>2. ASSUME Short(values, v) = {} PROVE FALSE
      <4>1. Cardinality(Short(values, v)) = 0
        BY <3>2, FS_EmptySet
      <4>2. QED
        BY <1>0, <3>1, <4>1
    <3>3. QED
      BY <3>1, <3>2
  <2> DEFINE B == {x \in S : x < v}
  <2>2. PICK w \in B : \A x \in B : x <= w
    <3>1. B \subseteq Int /\ B \in SUBSET S
      BY <1>1
    <3>2. B # {}
      <4>1. PICK i \in DOMAIN values : values[i] < v
        BY <1>2, <2>0, <2>1
      <4>2. QED
        BY <1>4, <4>1
    <3> HIDE DEF B, S
    <3>3. IsFiniteSet(B)
      BY <1>1, <3>1, FS_Subset
    <3>4. QED
      BY <3>1, <3>2, <3>3, Bounds
  <2>3. w \in S /\ w < v /\ w \in Int
    BY <1>1
  <2>4. UpTo(values, w) = Short(values, v)
    <3>1. ASSUME NEW i \in DOMAIN values PROVE values[i] <= w <=> values[i] < v
      <4>1. values[i] \in S /\ values[i] \in Int
        BY <1>1, <1>4
      <4>2. values[i] < v => values[i] <= w
        BY <2>2, <4>1
      <4>3. QED
        BY <2>0, <2>3, <4>1, <4>2
    <3>2. UpTo(values, w) = {i \in DOMAIN values : values[i] <= w} /\ Short(values, v) = {i \in DOMAIN values : values[i] < v}
      BY <1>2, <2>0, <2>3
    <3>3. QED
      BY <3>1, <3>2
  <2>5. w \in A
    BY <2>1, <2>3, <2>4
  <2>6. v <= w
    BY <1>6, <2>5
  <2>7. QED
    BY <2>0, <2>3, <2>6
<1>8. QED
  BY <1>6, <1>7

\* The median of numbers is a number.
LEMMA MedianIsInt ==
  ASSUME NEW values \in Seq(Int), values # <<>>
  PROVE  Median(values) \in Int
<1> DEFINE n == Len(values)
           Kth(k) == CHOOSE v \in ToSet(values) :
                       Cardinality(Short(values, v)) < k /\ Cardinality(UpTo(values, v)) >= k
           low == Kth((n + 1) \div 2)
           high == Kth((n + 2) \div 2)
<1>1. Median(values) = IF high = Infinite THEN Infinite ELSE (low + high) \div 2
  BY DEF Median, Short, UpTo
<1>2. n \in Nat /\ n >= 1 /\ (n + 1) \div 2 \in 1..n /\ (n + 2) \div 2 \in 1..n
  OBVIOUS
<1>3. \A k \in 1..n : Kth(k) \in ToSet(values)
  BY KthIsThere
<1>4. ToSet(values) \subseteq Int
  BY DEF ToSet
<1> HIDE DEF Kth
<1>5. low \in Int /\ high \in Int
  BY <1>2, <1>3, <1>4
<1> HIDE DEF low, high
<1>6. high # Infinite
  BY <1>5, DatasetAssumption
<1>7. (low + high) \div 2 \in Int
  BY <1>5
<1>8. QED
  BY <1>1, <1>6, <1>7

\* The most frequent value of a column is one of them.
LEMMA MostFrequentIsThere ==
  ASSUME NEW values, Listed(values), values # <<>>, ToSet(values) \subseteq Known
  PROVE  MostFrequent(values) \in ToSet(values)
<1> DEFINE S == ToSet(values)
           Count(v) == Cardinality({i \in DOMAIN values : values[i] = v})
           modes == {v \in S : \A w \in S : Count(w) <= Count(v)}
           counts == {Count(v) : v \in S}
<1>1. MostFrequent(values) = Sorted(modes)[1]
  BY DEF MostFrequent
<1>2. IsFiniteSet(S) /\ IsFiniteSet(DOMAIN values) /\ S # {}
  <2>1. 1 \in DOMAIN values
    BY DEF Listed
  <2>2. QED
    BY <2>1, SeqFinite DEF ToSet
<1>3. counts \subseteq Int
  <2>1. \A v : {i \in DOMAIN values : values[i] = v} \in SUBSET (DOMAIN values)
    OBVIOUS
  <2>2. \A v : Count(v) \in Nat
    BY <1>2, <2>1, FS_Subset, FS_CardinalityType
  <2> HIDE DEF Count
  <2>3. QED
    BY <2>2
<1>4. IsFiniteSet(counts) /\ counts # {}
  <2> PICK f : f = [v \in S |-> Count(v)]
    OBVIOUS
  <2>1. f \in Surjection(S, counts)
    BY DEF Surjection
  <2>2. counts # {}
    BY <1>2
  <2> HIDE DEF counts, S
  <2>3. QED
    BY <1>2, <2>1, <2>2, FS_Surjection
<1>5. modes # {}
  <2>1. PICK m \in counts : \A x \in counts : x <= m
    <3> HIDE DEF counts
    <3>1. QED
      BY <1>3, <1>4, Bounds
  <2>2. PICK v \in S : m = Count(v)
    OBVIOUS
  <2>3. v \in modes
    BY <2>1, <2>2
  <2>4. QED
    BY <2>3
<1>6. IsFiniteSet(modes) /\ modes \subseteq S
  <2>1. modes \in SUBSET S
    OBVIOUS
  <2> HIDE DEF modes, S
  <2>2. QED
    BY <1>2, <2>1, FS_Subset
<1> HIDE DEF modes
<1>7. /\ Listed(Sorted(modes)) /\ DOMAIN Sorted(modes) = 1..Cardinality(modes) /\ ToSet(Sorted(modes)) = modes
  BY <1>6, SortedSet
<1>8. Cardinality(modes) \in Nat /\ Cardinality(modes) # 0
  BY <1>5, <1>6, FS_CardinalityType, FS_EmptySet
<1>9. 1 \in DOMAIN Sorted(modes)
  BY <1>7, <1>8
<1>10. QED
  BY <1>1, <1>6, <1>7, <1>9 DEF ToSet

\* A table whose cells are known, or among some more.
CellsOf(t, more) ==
  /\ IsTable(t) /\ "numeric" \in DOMAIN t
  /\ \A row \in ToSet(t.rows) :
       /\ "cell" \in DOMAIN row /\ ToSet(t.columns) \subseteq DOMAIN row.cell
       /\ \A c \in ToSet(t.columns) :
            row.cell[c] \in Known \cup more /\ (c \in t.numeric => row.cell[c] \in Int \cup {Missing} \cup more)

\* The cells of rows and columns that stay.
LEMMA FewerCells ==
  ASSUME NEW t, NEW more, CellsOf(t, more), NEW r, IsTable(r), "numeric" \in DOMAIN r, r.numeric = t.numeric,
         ToSet(r.rows) \subseteq ToSet(t.rows), ToSet(r.columns) \subseteq ToSet(t.columns)
  PROVE  CellsOf(r, more)
BY DEF CellsOf

\* A table that was loaded.
LEMMA LoadedCells ==
  ASSUME NEW files, NEW t, t = LoadRaw(files), t # None,
         \A f \in {TrainFile, TestFile} : files[f] # None => IsRaw(files[f], files)
  PROVE  CellsOf(t, {Infinite})
<1> DEFINE read == Append(files[TrainFile].columns, "split")
           columns == Chosen(read, ToSet(read) \ Dropped)
           rows == Rows(files, TrainFile) \o Rows(files, TestFile)
           Number(c) == \A i \in DOMAIN rows : rows[i].cell[c] \in Int \cup {Missing, Infinite}
<1>1. /\ None \notin {files[TrainFile], files[TestFile]}
      /\ t = [columns |-> columns, numeric |-> {c \in ToSet(columns) : Number(c)}, rows |-> rows]
  BY DEF LoadRaw
<1>2. \A f \in {TrainFile, TestFile} : /\ IsRaw(files[f], files) /\ Listed(files[f].columns) /\ Listed(files[f].rows)
                                       /\ files[f].columns = files[TrainFile].columns
  BY <1>1 DEF IsRaw
<1>3. IsTable(t) /\ "numeric" \in DOMAIN t
  BY <1>1, <1>2, LoadedTable
<1>4. ToSet(columns) \subseteq ToSet(files[TrainFile].columns) \cup {"split"}
  <2>1. Listed(read) /\ \A i \in DOMAIN read : read[i] \in ToSet(files[TrainFile].columns) \cup {"split"}
    BY <1>2, ListedAppend DEF ToSet
  <2>2. ToSet(read) \subseteq ToSet(files[TrainFile].columns) \cup {"split"}
    BY <2>1 DEF ToSet
  <2> HIDE DEF read
  <2>3. ToSet(columns) \subseteq ToSet(read)
    BY <2>1, ChosenFacts
  <2>4. QED
    BY <2>2, <2>3
<1> HIDE DEF columns
<1>5. ASSUME NEW f \in {TrainFile, TestFile}, NEW i \in DOMAIN Rows(files, f), NEW row, row = Rows(files, f)[i]
      PROVE  /\ "cell" \in DOMAIN row /\ ToSet(columns) \subseteq DOMAIN row.cell
             /\ \A c \in ToSet(columns) : row.cell[c] \in Known \cup {Infinite}
  <2> PICK given : given = files[f].rows[i]
    OBVIOUS
  <2>1. i \in DOMAIN files[f].rows /\ given \in ToSet(files[f].rows)
    BY <1>5 DEF Rows, ToSet
  <2>2. row = [ id |-> <<f, i>>,
                cell |-> [c \in DOMAIN given \cup {"split"} |-> IF c = "split" THEN f ELSE given[c]] ]
    BY <1>5, <2>1 DEF Rows
  <2>3. "cell" \in DOMAIN row /\ row.cell = [c \in DOMAIN given \cup {"split"} |-> IF c = "split" THEN f ELSE given[c]]
    BY <2>2
  <2>4. ToSet(files[TrainFile].columns) \subseteq DOMAIN given
    BY <1>2, <2>1 DEF IsRaw
  <2>5. \A c \in ToSet(files[TrainFile].columns) : given[c] \in Known \cup {Infinite}
    <3>1. \A c \in ToSet(files[f].columns) : given[c] \in Int \/ given[c] \in ToSet(Words) \cup {Missing, Infinite}
      BY <1>2, <2>1 DEF IsRaw
    <3>2. files[f].columns = files[TrainFile].columns
      BY <1>2
    <3>3. QED
      BY <3>1, <3>2 DEF Known
  <2>6. f \in Known
    BY <1>5, DatasetAssumption DEF Known
  <2>7. ASSUME NEW c \in ToSet(columns) PROVE c \in DOMAIN row.cell /\ row.cell[c] \in Known \cup {Infinite}
    BY <1>4, <2>3, <2>4, <2>5, <2>6
  <2>8. QED
    BY <2>3, <2>7
<1>6. \A i \in DOMAIN rows : /\ "cell" \in DOMAIN rows[i] /\ ToSet(columns) \subseteq DOMAIN rows[i].cell
                             /\ \A c \in ToSet(columns) : rows[i].cell[c] \in Known \cup {Infinite}
  <2>1. ASSUME NEW f \in {TrainFile, TestFile} PROVE Listed(Rows(files, f))
    <3> PICK seq : seq = files[f].rows
      OBVIOUS
    <3> PICK r : r = Rows(files, f)
      OBVIOUS
    <3>1. Listed(seq) /\ r = [i \in DOMAIN seq |-> r[i]]
      BY <1>2 DEF Rows
    <3>2. Listed(r)
      BY ONLY <3>1, MapListed
    <3>3. QED
      BY <3>2
  <2> PICK a : a = Rows(files, TrainFile)
    OBVIOUS
  <2> PICK b : b = Rows(files, TestFile)
    OBVIOUS
  <2>2. Listed(a) /\ Listed(b) /\ rows = a \o b
    BY <2>1
  <2>3. \A i \in DOMAIN (a \o b) : (i \in DOMAIN a /\ (a \o b)[i] = a[i]) \/ \E j \in DOMAIN b : (a \o b)[i] = b[j]
    BY ONLY <2>2, ListedConcat
  <2>4. \A i \in DOMAIN a : /\ "cell" \in DOMAIN a[i] /\ ToSet(columns) \subseteq DOMAIN a[i].cell
                            /\ \A c \in ToSet(columns) : a[i].cell[c] \in Known \cup {Infinite}
    BY <1>5
  <2>5. \A i \in DOMAIN b : /\ "cell" \in DOMAIN b[i] /\ ToSet(columns) \subseteq DOMAIN b[i].cell
                            /\ \A c \in ToSet(columns) : b[i].cell[c] \in Known \cup {Infinite}
    BY <1>5
  <2> HIDE DEF rows
  <2>6. QED
    BY <2>2, <2>3, <2>4, <2>5
<1>7. \A c \in t.numeric : \A i \in DOMAIN rows : rows[i].cell[c] \in Int \cup {Missing, Infinite}
  BY <1>1
<1>8. t.columns = columns /\ t.rows = rows
  BY <1>1
<1> HIDE DEF rows
<1>9. ASSUME NEW row \in ToSet(t.rows)
      PROVE  /\ "cell" \in DOMAIN row /\ ToSet(t.columns) \subseteq DOMAIN row.cell
             /\ \A c \in ToSet(t.columns) :
                  row.cell[c] \in Known \cup {Infinite} /\ (c \in t.numeric => row.cell[c] \in Int \cup {Missing} \cup {Infinite})
  <2>1. PICK i \in DOMAIN rows : row = rows[i]
    BY <1>8 DEF ToSet
  <2>2. QED
    BY <1>6, <1>7, <1>8, <2>1
<1>10. QED
  BY <1>3, <1>9 DEF CellsOf

\* Infinite numbers become holes.
LEMMA ReplacedCells ==
  ASSUME NEW t, CellsOf(t, {Infinite}), NEW r, r = ReplaceInfinities(t)
  PROVE  CellsOf(r, {}) /\ r.columns = t.columns /\ r.numeric = t.numeric
<1>1. /\ {"columns", "rows", "numeric"} \subseteq DOMAIN t /\ Listed(t.columns) /\ Listed(t.rows)
      /\ \A i \in DOMAIN t.rows : t.rows[i] \in ToSet(t.rows)
  BY DEF CellsOf, IsTable, ToSet
<1>2. /\ {"columns", "rows", "numeric"} \subseteq DOMAIN r /\ r.columns = t.columns /\ r.numeric = t.numeric
      /\ r.rows = [i \in DOMAIN t.rows |-> WithoutInfinities(t.rows[i])]
  BY <1>1 DEF ReplaceInfinities
<1>3. r.rows = [i \in DOMAIN t.rows |-> r.rows[i]]
  BY <1>2
<1>4. Listed(r.rows)
  BY ONLY <1>1, <1>3, MapListed
<1>5. ASSUME NEW i \in DOMAIN t.rows
      PROVE  /\ "cell" \in DOMAIN r.rows[i] /\ ToSet(r.columns) \subseteq DOMAIN r.rows[i].cell
             /\ \A c \in ToSet(r.columns) :
                  /\ r.rows[i].cell[c] \in Known
                  /\ c \in r.numeric => r.rows[i].cell[c] \in Int \cup {Missing}
  <2> PICK old : old = t.rows[i]
    OBVIOUS
  <2> PICK new : new = r.rows[i]
    OBVIOUS
  <2>1. /\ "cell" \in DOMAIN old /\ ToSet(t.columns) \subseteq DOMAIN old.cell
        /\ \A c \in ToSet(t.columns) :
             old.cell[c] \in Known \cup {Infinite} /\ (c \in t.numeric => old.cell[c] \in Int \cup {Missing} \cup {Infinite})
    BY <1>1 DEF CellsOf
  <2>2. new = [old EXCEPT !.cell = [c \in DOMAIN @ |-> IF @[c] = Infinite THEN Missing ELSE @[c]]]
    BY <1>2 DEF WithoutInfinities
  <2>3. /\ "cell" \in DOMAIN new
        /\ new.cell = [c \in DOMAIN old.cell |-> IF old.cell[c] = Infinite THEN Missing ELSE old.cell[c]]
    BY <2>1, <2>2 DEF WithoutInfinities
  <2>4. Missing \in Known
    BY DEF Known
  <2>5. ASSUME NEW c \in ToSet(t.columns)
        PROVE  c \in DOMAIN new.cell /\ new.cell[c] \in Known /\ (c \in t.numeric => new.cell[c] \in Int \cup {Missing})
    BY <2>1, <2>3, <2>4
  <2>6. QED
    BY <1>2, <2>3, <2>5
<1>6. ASSUME NEW row \in ToSet(r.rows) PROVE \E i \in DOMAIN t.rows : row = r.rows[i]
  BY <1>2 DEF ToSet
<1>7. QED
  BY <1>1, <1>2, <1>4, <1>5, <1>6 DEF CellsOf, IsTable

\* Duplicates, constant columns and rows of holes go; the rest stays as it is.
LEMMA DroppedDuplicates ==
  ASSUME NEW t, IsTable(t), "numeric" \in DOMAIN t, NEW keep, NEW r, r = DropDuplicateRows(t, keep)
  PROVE  /\ IsTable(r) /\ "numeric" \in DOMAIN r /\ r.numeric = t.numeric /\ r.columns = t.columns
         /\ ToSet(r.rows) \subseteq ToSet(t.rows)
<1> DEFINE Same(i, j) == \A c \in ToSet(t.columns) : t.rows[i].cell[c] = t.rows[j].cell[c]
           Twins(i) == {j \in DOMAIN t.rows \ {i} : Same(i, j)}
           Stays(i) == CASE keep = "first" -> \A j \in Twins(i) : i < j
                         [] keep = "last" -> \A j \in Twins(i) : j < i
                         [] keep = "none" -> Twins(i) = {}
           S == {i \in DOMAIN t.rows : Stays(i)}
           kept == Chosen(Indices(t.rows), S)
           f == [k \in DOMAIN kept |-> t.rows[kept[k]]]
<1>1. r = [t EXCEPT !.rows = f]
  BY DEF DropDuplicateRows
<1>2. {"columns", "rows", "numeric"} \subseteq DOMAIN t /\ Listed(t.columns) /\ Listed(t.rows)
  BY DEF IsTable
<1>3. Listed(Indices(t.rows)) /\ \A i \in DOMAIN Indices(t.rows) : Indices(t.rows)[i] \in DOMAIN t.rows
  BY <1>2, IndicesListed DEF Indices
<1> HIDE DEF S
<1>4. Listed(kept) /\ ToSet(kept) \subseteq DOMAIN t.rows
  <2>1. Listed(kept) /\ ToSet(kept) = ToSet(Indices(t.rows)) \cap S
    BY ONLY <1>3, ChosenFacts
  <2>2. ToSet(Indices(t.rows)) \subseteq DOMAIN t.rows
    BY <1>3 DEF ToSet
  <2>3. QED
    BY <2>1, <2>2
<1>5. f = [k \in DOMAIN kept |-> f[k]]
  OBVIOUS
<1>6. ToSet(f) \subseteq ToSet(t.rows)
  BY <1>4 DEF ToSet
<1> HIDE DEF f, kept
<1>7. Listed(f)
  BY ONLY <1>4, <1>5, MapListed
<1>8. QED
  BY <1>1, <1>2, <1>6, <1>7 DEF IsTable

LEMMA DroppedColumns ==
  ASSUME NEW t, IsTable(t), "numeric" \in DOMAIN t, NEW r, r = DropConstantColumns(t)
  PROVE  /\ IsTable(r) /\ "numeric" \in DOMAIN r /\ r.numeric = t.numeric /\ r.rows = t.rows
         /\ ToSet(r.columns) \subseteq ToSet(t.columns)
         /\ \A c \in ToSet(r.columns) : Cardinality(Values(t, c)) > 1
<1> DEFINE S == {c \in ToSet(t.columns) : Cardinality(Values(t, c)) > 1}
<1>1. {"columns", "rows", "numeric"} \subseteq DOMAIN t /\ Listed(t.columns) /\ Listed(t.rows)
  BY DEF IsTable
<1>2. r = [t EXCEPT !.columns = Chosen(@, S)]
  BY DEF DropConstantColumns
<1>3. \A c \in S : Cardinality(Values(t, c)) > 1
  OBVIOUS
<1> HIDE DEF S
<1>4. Listed(Chosen(t.columns, S)) /\ ToSet(Chosen(t.columns, S)) = ToSet(t.columns) \cap S
  BY ONLY <1>1, ChosenFacts
<1>5. QED
  BY <1>1, <1>2, <1>3, <1>4 DEF IsTable

LEMMA DroppedHoles ==
  ASSUME NEW t, IsTable(t), "numeric" \in DOMAIN t, NEW r, r = DropAllNullRows(t)
  PROVE  /\ IsTable(r) /\ "numeric" \in DOMAIN r /\ r.numeric = t.numeric /\ r.columns = t.columns
         /\ ToSet(r.rows) = {row \in ToSet(t.rows) : \E c \in ToSet(t.columns) : row.cell[c] # Missing}
<1> DEFINE S == {row \in ToSet(t.rows) : \E c \in ToSet(t.columns) : row.cell[c] # Missing}
<1>1. {"columns", "rows", "numeric"} \subseteq DOMAIN t /\ Listed(t.columns) /\ Listed(t.rows)
  BY DEF IsTable
<1>2. r = [t EXCEPT !.rows = Chosen(@, S)]
  BY DEF DropAllNullRows
<1>3. S \subseteq ToSet(t.rows)
  OBVIOUS
<1> HIDE DEF S
<1>4. Listed(Chosen(t.rows, S)) /\ ToSet(Chosen(t.rows, S)) = ToSet(t.rows) \cap S
  BY ONLY <1>1, ChosenFacts
<1>5. ToSet(r.rows) = S
  BY <1>1, <1>2, <1>3, <1>4
<1>6. QED
  BY <1>1, <1>2, <1>4, <1>5 DEF IsTable, S

\* The cells of a column.
LEMMA ColumnFacts ==
  ASSUME NEW t, Listed(t.rows), NEW c
  PROVE  /\ Listed(Column(t, c)) /\ Len(Column(t, c)) = Len(t.rows) /\ DOMAIN Column(t, c) = DOMAIN t.rows
         /\ \A i \in DOMAIN t.rows : Column(t, c)[i] = t.rows[i].cell[c]
         /\ Values(t, c) = {row.cell[c] : row \in ToSet(t.rows)}
         /\ IsFiniteSet(Values(t, c))
<1> PICK f : f = Column(t, c)
  OBVIOUS
<1> PICK n \in Nat : n = Len(t.rows) /\ DOMAIN t.rows = 1..n
  BY DEF Listed
<1>1. f = [i \in DOMAIN t.rows |-> f[i]] /\ \A i \in DOMAIN t.rows : f[i] = t.rows[i].cell[c]
  BY DEF Column
<1>2. Listed(f)
  BY ONLY <1>1, Listed(t.rows), MapListed
<1>3. DOMAIN f = 1..Len(f) /\ Len(f) \in Nat /\ DOMAIN f = 1..n
  BY <1>1, <1>2 DEF Listed
<1>4. Len(f) = n
  BY <1>3
<1>5. Values(t, c) = {row.cell[c] : row \in ToSet(t.rows)}
  <2>1. Values(t, c) = ToSet(f)
    BY DEF Values
  <2>2. ToSet(f) = {f[i] : i \in DOMAIN t.rows}
    BY <1>1 DEF ToSet
  <2>3. {f[i] : i \in DOMAIN t.rows} = {t.rows[i].cell[c] : i \in DOMAIN t.rows}
    BY <1>1
  <2>4. ToSet(t.rows) = {t.rows[i] : i \in DOMAIN t.rows}
    BY DEF ToSet
  <2>5. {t.rows[i].cell[c] : i \in DOMAIN t.rows} = {row.cell[c] : row \in ToSet(t.rows)}
    BY <2>4
  <2>6. QED
    BY <2>1, <2>2, <2>3, <2>5
<1>6. QED
  BY <1>1, <1>2, <1>4, <1>5, ValuesFinite

LEMMA PresentFacts ==
  ASSUME NEW t, Listed(t.rows), NEW c
  PROVE  Listed(Present(t, c)) /\ ToSet(Present(t, c)) = Values(t, c) \ {Missing}
<1> PICK f : f = Column(t, c)
  OBVIOUS
<1>1. Listed(f) /\ Values(t, c) = ToSet(f)
  BY ColumnFacts DEF Values
<1> PICK S : S = Values(t, c) \ {Missing}
  OBVIOUS
<1>2. Present(t, c) = Chosen(f, S)
  BY DEF Present
<1>3. Listed(Chosen(f, S)) /\ ToSet(Chosen(f, S)) = ToSet(f) \cap S
  BY ONLY <1>1, ChosenFacts
<1>4. QED
  BY <1>1, <1>2, <1>3

\* The present values of a numeric column are numbers.
LEMMA PresentInts ==
  ASSUME NEW t, Listed(t.rows), NEW c, \A row \in ToSet(t.rows) : row.cell[c] \in Int \cup {Missing}
  PROVE  Present(t, c) \in Seq(Int)
<1>1. Listed(Present(t, c)) /\ ToSet(Present(t, c)) \subseteq Int
  BY PresentFacts, ColumnFacts
<1>2. QED
  BY <1>1 DEF Listed

\* What holes become.
LEMMA FillFacts ==
  ASSUME NEW t, CellsOf(t, {}), NEW c \in ToSet(t.columns), NEW strategy
  PROVE  /\ c \in t.numeric /\ strategy = "zero" => FillOf(t, c, strategy) \in Int
         /\ c \in t.numeric /\ strategy = "median" /\ (\E row \in ToSet(t.rows) : row.cell[c] # Missing) =>
              FillOf(t, c, strategy) \in Int
         /\ c \in t.numeric /\ strategy = "median" => FillOf(t, c, strategy) \in Int \cup {Missing}
         /\ strategy \in {"most_frequent", "constant"} => FillOf(t, c, strategy) \in Known \ {Missing}
         /\ strategy = "none" => FillOf(t, c, strategy) = Missing
<1> DEFINE values == Present(t, c)
<1>1. Listed(t.rows) /\ \A row \in ToSet(t.rows) : row.cell[c] \in Known /\ (c \in t.numeric => row.cell[c] \in Int \cup {Missing})
  BY DEF CellsOf, IsTable
<1>2. Listed(values) /\ ToSet(values) = Values(t, c) \ {Missing} /\ Values(t, c) = {row.cell[c] : row \in ToSet(t.rows)}
  BY <1>1, PresentFacts, ColumnFacts
<1>3. Filler \in Known \ {Missing}
  BY DatasetAssumption DEF Known
<1>4. strategy = "zero" => FillOf(t, c, strategy) = 0
  BY DEF FillOf
<1>5. strategy = "median" => FillOf(t, c, strategy) = IF values # <<>> THEN Median(values) ELSE Missing
  BY DEF FillOf
<1>6. strategy = "most_frequent" => FillOf(t, c, strategy) = IF values # <<>> THEN MostFrequent(values) ELSE Filler
  BY DEF FillOf
<1>7. strategy = "constant" => FillOf(t, c, strategy) = Filler
  BY DEF FillOf
<1>8. strategy = "none" => FillOf(t, c, strategy) = Missing
  BY DEF FillOf
<1>9. c \in t.numeric => values \in Seq(Int)
  BY <1>1, PresentInts
<1>10. (\E row \in ToSet(t.rows) : row.cell[c] # Missing) => values # <<>>
  <2> SUFFICES ASSUME NEW row \in ToSet(t.rows), row.cell[c] # Missing, values = <<>> PROVE FALSE
    OBVIOUS
  <2>1. row.cell[c] \in ToSet(values)
    BY <1>2
  <2>2. QED
    BY <2>1 DEF ToSet
<1> HIDE DEF values
<1>11. c \in t.numeric /\ values # <<>> => Median(values) \in Int
  BY <1>9, MedianIsInt
<1>12. values # <<>> => MostFrequent(values) \in Known \ {Missing}
  <2>1. ToSet(values) \subseteq Known
    BY <1>1, <1>2
  <2>2. values # <<>> => MostFrequent(values) \in ToSet(values)
    BY <1>2, <2>1, MostFrequentIsThere
  <2>3. QED
    BY <1>2, <2>1, <2>2
<1>13. QED
  BY <1>3, <1>4, <1>5, <1>6, <1>7, <1>8, <1>10, <1>11, <1>12

\* No row has a hole in these columns.
Whole(t, columns) == \A row \in ToSet(t.rows) : \A c \in columns : row.cell[c] # Missing

\* The other columns stay as they are.
KeptOutside(r, t, columns) ==
  \A new \in ToSet(r.rows) : \E row \in ToSet(t.rows) : \A c \in ToSet(t.columns) \ columns : new.cell[c] = row.cell[c]

\* A strategy that is of the kind of its columns.
Suits(t, columns, strategy) ==
  /\ columns \subseteq ToSet(t.columns)
  /\ \/ columns \subseteq t.numeric /\ strategy \in {"median", "zero", "drop", "none"}
     \/ columns \cap t.numeric = {} /\ strategy \in {"most_frequent", "constant", "drop", "none"}
  /\ strategy = "median" => \A c \in columns : \E row \in ToSet(t.rows) : row.cell[c] # Missing

LEMMA FilledRow ==
  ASSUME NEW t, CellsOf(t, {}), NEW columns, NEW strategy, Suits(t, columns, strategy), strategy # "drop",
         NEW fill, fill = [c \in columns |-> FillOf(t, c, strategy)],
         NEW row \in ToSet(t.rows), NEW new, new = Filled(row, fill)
  PROVE  /\ "cell" \in DOMAIN new /\ ToSet(t.columns) \subseteq DOMAIN new.cell
         /\ \A c \in ToSet(t.columns) \ columns : new.cell[c] = row.cell[c]
         /\ \A c \in ToSet(t.columns) : /\ new.cell[c] \in Known
                                        /\ c \in t.numeric => new.cell[c] \in Int \cup {Missing}
         /\ strategy # "none" => \A c \in columns : new.cell[c] # Missing
<1>1. /\ "cell" \in DOMAIN row /\ ToSet(t.columns) \subseteq DOMAIN row.cell
      /\ \A c \in ToSet(t.columns) : row.cell[c] \in Known /\ (c \in t.numeric => row.cell[c] \in Int \cup {Missing})
  BY DEF CellsOf
<1>2. /\ "cell" \in DOMAIN new
      /\ new.cell = [c \in DOMAIN row.cell |-> IF c \in columns /\ row.cell[c] = Missing THEN fill[c] ELSE row.cell[c]]
  BY <1>1 DEF Filled
<1>3. ASSUME NEW c \in columns
      PROVE  /\ fill[c] \in Known /\ (c \in t.numeric => fill[c] \in Int \cup {Missing})
             /\ strategy # "none" => fill[c] # Missing
  <2>1. c \in ToSet(t.columns) /\ fill[c] = FillOf(t, c, strategy)
    BY DEF Suits
  <2>2. Missing \notin Int /\ Missing \in Known /\ Int \subseteq Known
    BY DatasetAssumption DEF Known
  <2>3. /\ c \in t.numeric /\ strategy = "zero" => FillOf(t, c, strategy) \in Int
        /\ c \in t.numeric /\ strategy = "median" /\ (\E r \in ToSet(t.rows) : r.cell[c] # Missing) =>
             FillOf(t, c, strategy) \in Int
        /\ strategy \in {"most_frequent", "constant"} => FillOf(t, c, strategy) \in Known \ {Missing}
        /\ strategy = "none" => FillOf(t, c, strategy) = Missing
    BY <2>1, FillFacts
  <2>4. CASE columns \subseteq t.numeric /\ strategy \in {"median", "zero", "drop", "none"}
    <3>1. strategy = "median" => \E r \in ToSet(t.rows) : r.cell[c] # Missing
      BY DEF Suits
    <3>2. c \in t.numeric /\ strategy \in {"median", "zero", "none"}
      BY <2>4
    <3>3. QED
      BY <2>1, <2>2, <2>3, <3>1, <3>2
  <2>5. CASE columns \cap t.numeric = {} /\ strategy \in {"most_frequent", "constant", "drop", "none"}
    <3>1. c \notin t.numeric /\ strategy \in {"most_frequent", "constant", "none"}
      BY <2>5
    <3>2. QED
      BY <2>1, <2>2, <2>3, <3>1
  <2>6. QED
    BY <2>4, <2>5 DEF Suits
<1>4. columns \subseteq ToSet(t.columns)
  BY DEF Suits
<1>5. QED
  BY <1>1, <1>2, <1>3, <1>4

LEMMA ImputedCells ==
  ASSUME NEW t, CellsOf(t, {}), NEW columns, NEW strategy, Suits(t, columns, strategy), NEW r, r = Impute(t, columns, strategy)
  PROVE  /\ CellsOf(r, {}) /\ r.columns = t.columns /\ r.numeric = t.numeric
         /\ strategy # "none" => Whole(r, columns)
         /\ KeptOutside(r, t, columns)
<1> DEFINE S == {q \in ToSet(t.rows) : \A c \in columns : q.cell[c] # Missing}
<1>1. {"columns", "rows", "numeric"} \subseteq DOMAIN t /\ Listed(t.columns) /\ Listed(t.rows) /\ IsTable(t)
  BY DEF CellsOf, IsTable
<1>2. IsTable(r)
  BY <1>1, ImputedTable
<1>3. CASE strategy = "drop"
  <2>1. r = [t EXCEPT !.rows = Chosen(@, S)]
    BY <1>3 DEF Impute
  <2>2. \A row \in S : row \in ToSet(t.rows) /\ \A c \in columns : row.cell[c] # Missing
    OBVIOUS
  <2> HIDE DEF S
  <2>3. ToSet(Chosen(t.rows, S)) = ToSet(t.rows) \cap S
    BY ONLY <1>1, ChosenFacts
  <2>4. /\ "numeric" \in DOMAIN r /\ r.columns = t.columns /\ r.numeric = t.numeric
        /\ ToSet(r.rows) \subseteq ToSet(t.rows) /\ ToSet(r.rows) \subseteq S
    BY <1>1, <2>1, <2>3
  <2>5. CellsOf(r, {})
    BY <1>2, <2>4, FewerCells
  <2>6. Whole(r, columns)
    BY <2>2, <2>4 DEF Whole
  <2>7. KeptOutside(r, t, columns)
    BY <2>4 DEF KeptOutside
  <2>8. QED
    BY <2>4, <2>5, <2>6, <2>7
<1>4. CASE strategy # "drop"
  <2> PICK fill : fill = [c \in columns |-> FillOf(t, c, strategy)]
    OBVIOUS
  <2>1. r = [t EXCEPT !.rows = [i \in DOMAIN @ |-> Filled(@[i], fill)]]
    BY <1>4 DEF Impute
  <2>2. /\ "numeric" \in DOMAIN r /\ r.columns = t.columns /\ r.numeric = t.numeric
        /\ r.rows = [i \in DOMAIN t.rows |-> Filled(t.rows[i], fill)]
    BY <1>1, <2>1
  <2>3. ASSUME NEW new \in ToSet(r.rows) PROVE \E row \in ToSet(t.rows) : new = Filled(row, fill)
    BY <2>2 DEF ToSet
  <2>4. ASSUME NEW row \in ToSet(t.rows), NEW new, new = Filled(row, fill)
        PROVE  /\ "cell" \in DOMAIN new /\ ToSet(t.columns) \subseteq DOMAIN new.cell
               /\ \A c \in ToSet(t.columns) \ columns : new.cell[c] = row.cell[c]
               /\ \A c \in ToSet(t.columns) : /\ new.cell[c] \in Known
                                              /\ c \in t.numeric => new.cell[c] \in Int \cup {Missing}
               /\ strategy # "none" => \A c \in columns : new.cell[c] # Missing
    BY <1>4, <2>4, FilledRow
  <2>5. ASSUME NEW new \in ToSet(r.rows)
        PROVE  /\ "cell" \in DOMAIN new /\ ToSet(r.columns) \subseteq DOMAIN new.cell
               /\ \A c \in ToSet(r.columns) : /\ new.cell[c] \in Known
                                              /\ c \in r.numeric => new.cell[c] \in Int \cup {Missing}
               /\ strategy # "none" => \A c \in columns : new.cell[c] # Missing
               /\ \E row \in ToSet(t.rows) : \A c \in ToSet(t.columns) \ columns : new.cell[c] = row.cell[c]
    <3>1. PICK row \in ToSet(t.rows) : new = Filled(row, fill)
      BY <2>3
    <3>2. QED
      BY <2>2, <2>4, <3>1
  <2>6. CellsOf(r, {})
    BY <1>2, <2>2, <2>5 DEF CellsOf
  <2>7. strategy # "none" => Whole(r, columns)
    BY <2>5 DEF Whole
  <2>8. KeptOutside(r, t, columns)
    BY <2>5 DEF KeptOutside
  <2>9. QED
    BY <2>2, <2>6, <2>7, <2>8
<1>5. QED
  BY <1>3, <1>4

\* More than one value is more than a hole.
LEMMA MoreThanOne ==
  ASSUME NEW S, IsFiniteSet(S), Cardinality(S) > 1, NEW x
  PROVE  \E y \in S : y # x
<1> SUFFICES ASSUME \A y \in S : y = x PROVE FALSE
  OBVIOUS
<1>1. S \in SUBSET {x}
  OBVIOUS
<1>2. IsFiniteSet({x}) /\ Cardinality({x}) = 1
  BY FS_Singleton
<1>3. Cardinality(S) \in Nat /\ Cardinality(S) <= 1
  BY <1>1, <1>2, FS_Subset, FS_CardinalityType
<1>4. QED
  BY <1>3

\* A cleaned table.
LEMMA CleanedCells ==
  ASSUME NEW t, CellsOf(t, {Infinite}), NEW cleaning \in Cleanings, NEW r, r = CleanDataset(t, cleaning)
  PROVE  CellsOf(r, {}) /\ ("none" \notin {cleaning.numbers, cleaning.words} => Whole(r, ToSet(r.columns)))
<1> PICK t1 : t1 = ReplaceInfinities(t)
  OBVIOUS
<1> PICK t2 : t2 = DropDuplicateRows(t1, cleaning.keep)
  OBVIOUS
<1> PICK t3 : t3 = DropConstantColumns(t2)
  OBVIOUS
<1> PICK t4 : t4 = DropAllNullRows(t3)
  OBVIOUS
<1> PICK numbers : numbers = ToSet(t4.columns) \cap t4.numeric
  OBVIOUS
<1> PICK words : words = ToSet(t4.columns) \ t4.numeric
  OBVIOUS
<1> PICK t5 : t5 = Impute(t4, numbers, cleaning.numbers)
  OBVIOUS
<1>1. r = Impute(t5, words, cleaning.words)
  BY DEF CleanDataset, ImputeMissing
<1>2. CellsOf(t1, {})
  BY ReplacedCells
<1>3. CellsOf(t2, {})
  <2>1. IsTable(t1) /\ "numeric" \in DOMAIN t1
    BY <1>2 DEF CellsOf
  <2>2. QED
    BY <1>2, <2>1, DroppedDuplicates, FewerCells
<1>4. CellsOf(t3, {}) /\ t3.rows = t2.rows /\ \A c \in ToSet(t3.columns) : Cardinality(Values(t2, c)) > 1
  <2>1. IsTable(t2) /\ "numeric" \in DOMAIN t2
    BY <1>3 DEF CellsOf
  <2>2. /\ IsTable(t3) /\ "numeric" \in DOMAIN t3 /\ t3.numeric = t2.numeric /\ t3.rows = t2.rows
        /\ ToSet(t3.columns) \subseteq ToSet(t2.columns)
        /\ \A c \in ToSet(t3.columns) : Cardinality(Values(t2, c)) > 1
    BY <2>1, DroppedColumns
  <2>3. QED
    BY <1>3, <2>2, FewerCells
<1>5. /\ CellsOf(t4, {}) /\ t4.columns = t3.columns
      /\ ToSet(t4.rows) = {row \in ToSet(t3.rows) : \E c \in ToSet(t3.columns) : row.cell[c] # Missing}
  <2>1. IsTable(t3) /\ "numeric" \in DOMAIN t3
    BY <1>4 DEF CellsOf
  <2>2. /\ IsTable(t4) /\ "numeric" \in DOMAIN t4 /\ t4.numeric = t3.numeric /\ t4.columns = t3.columns
        /\ ToSet(t4.rows) = {row \in ToSet(t3.rows) : \E c \in ToSet(t3.columns) : row.cell[c] # Missing}
    BY <2>1, DroppedHoles
  <2>3. ToSet(t4.rows) \subseteq ToSet(t3.rows) /\ ToSet(t4.columns) \subseteq ToSet(t3.columns)
    BY <2>2
  <2>4. QED
    BY <1>4, <2>2, <2>3, FewerCells
<1>6. \A c \in ToSet(t4.columns) : \E row \in ToSet(t4.rows) : row.cell[c] # Missing
  <2> SUFFICES ASSUME NEW c \in ToSet(t3.columns) PROVE \E row \in ToSet(t4.rows) : row.cell[c] # Missing
    BY <1>5
  <2>1. Listed(t2.rows) /\ Cardinality(Values(t2, c)) > 1
    BY <1>3, <1>4 DEF CellsOf, IsTable
  <2>2. Values(t2, c) = {row.cell[c] : row \in ToSet(t2.rows)} /\ IsFiniteSet(Values(t2, c))
    BY <2>1, ColumnFacts
  <2>3. PICK row \in ToSet(t2.rows) : row.cell[c] # Missing
    <3>1. PICK v \in Values(t2, c) : v # Missing
      BY <2>1, <2>2, MoreThanOne
    <3>2. QED
      BY ONLY <2>2, <3>1
  <2>4. row \in ToSet(t3.rows)
    BY <1>4, <2>3
  <2>5. row \in ToSet(t4.rows)
    BY <1>5, <2>3, <2>4
  <2>6. QED
    BY ONLY <2>3, <2>5
<1>7. cleaning.numbers \in {"median", "zero", "drop", "none"} /\ cleaning.words \in {"most_frequent", "constant", "drop", "none"}
  BY DEF Cleanings
<1>8. Suits(t4, numbers, cleaning.numbers)
  BY <1>6, <1>7 DEF Suits
<1>9. /\ CellsOf(t5, {}) /\ t5.columns = t4.columns /\ t5.numeric = t4.numeric
      /\ cleaning.numbers # "none" => Whole(t5, numbers)
  BY <1>5, <1>8, ImputedCells
<1>10. Suits(t5, words, cleaning.words)
  BY <1>7, <1>9 DEF Suits
<1>11. /\ CellsOf(r, {}) /\ r.columns = t5.columns /\ r.numeric = t5.numeric
       /\ cleaning.words # "none" => Whole(r, words)
       /\ KeptOutside(r, t5, words)
  BY <1>1, <1>9, <1>10, ImputedCells
<1>12. cleaning.numbers # "none" => Whole(r, numbers)
  <2> SUFFICES ASSUME cleaning.numbers # "none", NEW new \in ToSet(r.rows), NEW c \in numbers PROVE new.cell[c] # Missing
    BY DEF Whole
  <2>1. PICK row \in ToSet(t5.rows) : \A d \in ToSet(t5.columns) \ words : new.cell[d] = row.cell[d]
    <3>1. KeptOutside(r, t5, words)
      BY <1>11
    <3>2. \A n \in ToSet(r.rows) : \E row \in ToSet(t5.rows) : \A d \in ToSet(t5.columns) \ words : n.cell[d] = row.cell[d]
      BY ONLY <3>1 DEF KeptOutside
    <3>3. new \in ToSet(r.rows)
      OBVIOUS
    <3>4. QED
      BY ONLY <3>2, <3>3
  <2>2. c \in ToSet(t5.columns) \ words
    BY <1>9
  <2>3. row.cell[c] # Missing
    BY <1>9 DEF Whole
  <2>4. QED
    BY <2>1, <2>2, <2>3
<1>13. ToSet(r.columns) \subseteq numbers \cup words
  BY <1>9, <1>11
<1>14. ASSUME cleaning.numbers # "none", cleaning.words # "none" PROVE Whole(r, ToSet(r.columns))
  <2>1. Whole(r, numbers) /\ Whole(r, words)
    BY <1>11, <1>12, <1>14
  <2>2. QED
    BY <1>13, <2>1 DEF Whole
<1>15. QED
  BY <1>11, <1>14

-----------------------------------------------------------------------------
(* Splits. *)

\* Products grow with their factors.
LEMMA Times ==
  ASSUME NEW a \in Int, NEW b \in Int, NEW c \in Nat, a <= b
  PROVE  c * a <= c * b
<1>1. b - a \in Nat /\ b = a + (b - a)
  OBVIOUS
<1>2. c * (b - a) \in Nat
  BY <1>1
<1>3. c * b = c * a + c * (b - a)
  OBVIOUS
<1>4. c * a \in Int /\ c * b \in Int
  OBVIOUS
<1>5. QED
  BY <1>2, <1>3, <1>4

\* Division with a rest.
LEMMA Divided ==
  ASSUME NEW a \in Int, NEW d \in Nat, d > 0
  PROVE  a \div d \in Int /\ a % d \in 0..d - 1 /\ a = d * (a \div d) + (a % d)
OBVIOUS

\* What is at least the divisor has it once.
LEMMA AtLeastOnce ==
  ASSUME NEW a \in Int, NEW d \in Nat, d > 0, d <= a
  PROVE  a \div d >= 1
<1> PICK q \in Int, r \in 0..d - 1 : a = d * q + r /\ q = a \div d
  BY Divided
<1>1. SUFFICES ASSUME q <= 0 PROVE FALSE
  OBVIOUS
<1>2. d * q <= d * 0
  BY <1>1, Times
<1>3. d * 0 = 0 /\ d * q \in Int
  OBVIOUS
<1>4. QED
  BY <1>2, <1>3

\* A multiple has no rest.
LEMMA NoRest ==
  ASSUME NEW k \in Int, NEW d \in Nat, d > 0
  PROVE  (d * k) % d = 0
<1> PICK a \in Int : a = d * k
  OBVIOUS
<1> PICK q \in Int, r \in 0..d - 1 : a = d * q + r /\ r = a % d
  BY Divided
<1>1. d * (k - q) = d * k - d * q
  OBVIOUS
<1>2. d * (k - q) = r
  <2>1. d * k \in Int /\ d * q \in Int /\ d * (k - q) \in Int
    OBVIOUS
  <2>2. QED
    BY <1>1, <2>1
<1>3. CASE k - q >= 1
  <2>1. d * 1 <= d * (k - q)
    BY <1>3, Times
  <2>2. QED
    BY <1>2, <2>1
<1>4. CASE k - q <= -1
  <2>1. d * (k - q) <= d * (-1)
    BY <1>4, Times
  <2>2. d * (-1) = -d
    OBVIOUS
  <2>3. QED
    BY <1>2, <2>1, <2>2
<1>5. CASE k - q = 0
  BY <1>2, <1>5
<1>6. QED
  BY <1>3, <1>4, <1>5

\* Some rotation ends at the beginning.
LEMMA Rotation ==
  ASSUME NEW s \in Nat, NEW m \in Nat, m > 0
  PROVE  \E r \in 0..m - 1 : (r + s) % m = 0
<1>0. s \in Int
  OBVIOUS
<1> PICK q \in Int, t \in 0..m - 1 : s = m * q + t
  BY <1>0, Divided
<1>1. CASE t = 0
  <2>1. 0 + s = m * q
    BY <1>1
  <2>2. (m * q) % m = 0
    BY NoRest
  <2>3. QED
    BY <2>1, <2>2
<1>2. CASE t # 0
  <2>1. m * (q + 1) = m * q + m
    OBVIOUS
  <2>2. (m - t) + s = m * (q + 1)
    <3>1. m * q \in Int
      OBVIOUS
    <3>2. QED
      BY <2>1, <3>1
  <2>3. (m * (q + 1)) % m = 0
    BY NoRest
  <2>4. m - t \in 0..m - 1
    BY <1>2
  <2>5. QED
    BY <2>2, <2>3, <2>4
<1>3. QED
  BY <1>1, <1>2

\* The rows at chosen places.
LEMMA ChosenRows ==
  ASSUME NEW rows, Listed(rows), NEW S, S \subseteq DOMAIN rows, NEW C, C = Chosen(Indices(rows), S),
         NEW f, f = [k \in DOMAIN C |-> rows[C[k]]]
  PROVE  Listed(f) /\ ToSet(f) = {rows[i] : i \in S}
<1>1. Listed(f)
  <2>1. f = [k \in DOMAIN Chosen(Indices(rows), S) |-> f[k]]
    OBVIOUS
  <2>2. QED
    BY ONLY <2>1, Listed(rows), ChosenPlaces
<1>2. Listed(Indices(rows)) /\ DOMAIN Indices(rows) = DOMAIN rows
  BY IndicesListed
<1>3. ToSet(C) = ToSet(Indices(rows)) \cap S
  BY <1>2, ChosenFacts
<1>4. ToSet(C) = S
  <2>1. ToSet(Indices(rows)) = DOMAIN rows
    BY DEF Indices, ToSet
  <2>2. QED
    BY <1>3, <2>1
<1>5. {C[k] : k \in DOMAIN C} = S
  BY <1>4 DEF ToSet
<1>6. ToSet(f) = {rows[i] : i \in S}
  BY <1>5 DEF ToSet
<1>7. QED
  BY <1>1, <1>6

\* The rows of a class.
Members(rows, v) == {i \in DOMAIN rows : rows[i].cell[Label] = v}

\* The parts of a split are of its rows; where at most half of them are for the
\* test, each class is in the rest.
LEMMA SplitFacts ==
  ASSUME NEW rows, Listed(rows), NEW count \in Nat, NEW parts, parts = TrainTestSplit(rows, count), parts # None
  PROVE  /\ Listed(parts.rest) /\ Listed(parts.test)
         /\ ToSet(parts.rest) \subseteq ToSet(rows) /\ ToSet(parts.test) \subseteq ToSet(rows)
         /\ 2 * count <= Len(rows) =>
              \A row \in ToSet(rows) : \E other \in ToSet(parts.rest) : other.cell[Label] = row.cell[Label]
<1> DEFINE n == Len(rows)
           classes == {rows[i].cell[Label] : i \in DOMAIN rows}
           members == [v \in classes |-> {i \in DOMAIN rows : rows[i].cell[Label] = v}]
           share == [v \in classes |-> (n - count) * Cardinality(members[v])]
           order == Sorted(classes)
           floors == [k \in DOMAIN order |-> share[order[k]] \div n]
           Ahead(v) == {w \in classes : \/ share[w] % n > share[v] % n
                                        \/ share[w] % n = share[v] % n /\ Before(w, v)}
           inRest == [v \in classes |-> (share[v] \div n)
                        + IF Cardinality(Ahead(v)) < (n - count) - Total(floors) THEN 1 ELSE 0]
           InTest(i) ==
             LET class == rows[i].cell[Label]
                 rank == Cardinality({j \in members[class] : j < i})
             IN (rank + Seed) % Cardinality(members[class]) >= inRest[class]
           S == {i \in DOMAIN rows : ~InTest(i)}
           T == {i \in DOMAIN rows : InTest(i)}
           rest == [k \in DOMAIN Chosen(Indices(rows), S) |-> rows[Chosen(Indices(rows), S)[k]]]
           test == [k \in DOMAIN Chosen(Indices(rows), T) |-> rows[Chosen(Indices(rows), T)[k]]]
<1>1. /\ parts.rest = rest /\ parts.test = test
      /\ rows # <<>> /\ \A v \in classes : ~(Cardinality(members[v]) < 2)
  BY ZenonT(60) DEF TrainTestSplit
<1>2. S \subseteq DOMAIN rows /\ T \subseteq DOMAIN rows
  BY Zenon
<1>3. Listed(rest) /\ ToSet(rest) = {rows[i] : i \in S}
  <2> HIDE DEF S
  <2>1. QED
    BY <1>2, ChosenRows, Zenon
<1>4. Listed(test) /\ ToSet(test) = {rows[i] : i \in T}
  <2> HIDE DEF T
  <2>1. QED
    BY <1>2, ChosenRows, Zenon
<1>5. ToSet(parts.rest) \subseteq ToSet(rows) /\ ToSet(parts.test) \subseteq ToSet(rows)
  <2> HIDE DEF rest, test, S, T
  <2>1. QED
    BY ONLY <1>1, <1>2, <1>3, <1>4 DEF ToSet
<1>6. n \in Nat /\ DOMAIN rows = 1..n /\ n > 0
  <2>1. rows # <<>>
    BY <1>1, Zenon
  <2> HIDE DEF classes, members, rest, test
  <2>2. QED
    BY <2>1 DEF Listed
<1>7. ASSUME 2 * count <= n, NEW i \in DOMAIN rows
      PROVE  \E j \in S : rows[j].cell[Label] = rows[i].cell[Label]
  <2> DEFINE v == rows[i].cell[Label]
             M == {j \in DOMAIN rows : rows[j].cell[Label] = v}
             m == Cardinality(M)
  <2>1. v \in classes /\ members[v] = M
    OBVIOUS
  <2>2. IsFiniteSet(M) /\ M \subseteq Nat
    <3>1. M \in SUBSET (1..n)
      BY <1>6
    <3>2. IsFiniteSet(1..n) /\ 1..n \subseteq Nat
      BY <1>6, FS_Interval
    <3> HIDE DEF M, n
    <3>3. QED
      BY <3>1, <3>2, FS_Subset
  <2>3. m \in Nat /\ m >= 2
    <3>1. m \in Nat
      BY <2>2, FS_CardinalityType
    <3>2. ~(Cardinality(members[v]) < 2)
      <4> HIDE DEF members, classes, v
      <4>1. QED
        BY <1>1, <2>1, Zenon
    <3>3. ~(m < 2)
      BY <2>1, <3>2
    <3> HIDE DEF m
    <3>4. QED
      BY <3>1, <3>3
  <2>4. share[v] = (n - count) * m
    BY <2>1
  <2>5. share[v] \div n >= 1 /\ share[v] \div n \in Int
    <3> HIDE DEF n, m, share, v
    <3>1. n - count \in Nat /\ n <= (n - count) * 2
      BY <1>6, <1>7
    <3>2. (n - count) * 2 <= (n - count) * m
      BY <2>3, <3>1, Times
    <3>3. (n - count) * m \in Int /\ (n - count) * 2 \in Int
      BY <2>3, <3>1
    <3>4. n <= (n - count) * m
      BY <1>6, <3>1, <3>2, <3>3
    <3>5. QED
      BY <1>6, <2>4, <3>3, <3>4, AtLeastOnce, Divided
  <2>6. inRest[v] >= 1
    <3>1. inRest[v] = (share[v] \div n) + IF Cardinality(Ahead(v)) < (n - count) - Total(floors) THEN 1 ELSE 0
      BY <2>1, Zenon
    <3> HIDE DEF inRest, n, share, v, floors, Ahead
    <3>2. QED
      BY <2>5, <3>1
  <2>7. PICK r \in 0..m - 1 : (r + Seed) % m = 0
    <3>1. Seed \in Nat
      BY DatasetAssumption
    <3> HIDE DEF m
    <3>2. m > 0
      BY <2>3
    <3>3. QED
      BY <2>3, <3>1, <3>2, Rotation
  <2>8. PICK j \in M : Cardinality(Below(M, j)) = r
    <3> HIDE DEF M
    <3>1. QED
      BY <2>2, <2>7, Ranks
  <2>9. j \in DOMAIN rows /\ rows[j].cell[Label] = v
    OBVIOUS
  <2>10. ~InTest(j)
    <3>1. Cardinality({k \in members[v] : k < j}) = r
      <4>1. {k \in members[v] : k < j} = Below(M, j)
        BY <2>1 DEF Below
      <4>2. QED
        BY <2>8, <4>1
    <3>2. (Cardinality({k \in members[v] : k < j}) + Seed) % Cardinality(members[v]) = 0
      BY <2>1, <2>7, <3>1
    <3>3. InTest(j) <=> (Cardinality({k \in members[v] : k < j}) + Seed) % Cardinality(members[v]) >= inRest[v]
      BY <2>9
    <3> HIDE DEF members, inRest, InTest, v
    <3>4. inRest[v] >= 1 => ~(0 >= inRest[v])
      <4>1. inRest[v] \in Int
        <5>1. inRest[v] = (share[v] \div n) + IF Cardinality(Ahead(v)) < (n - count) - Total(floors) THEN 1 ELSE 0
          BY <2>1 DEF inRest
        <5> HIDE DEF n, share, floors, Ahead
        <5>2. QED
          BY <2>5, <5>1
      <4>2. QED
        BY <4>1
    <3>5. QED
      BY <2>6, <3>2, <3>3, <3>4
  <2>11. QED
    BY <2>9, <2>10, Zenon
<1>8. ASSUME 2 * count <= n, NEW row \in ToSet(rows)
      PROVE  \E other \in ToSet(parts.rest) : other.cell[Label] = row.cell[Label]
  <2>1. PICK i \in DOMAIN rows : row = rows[i]
    BY DEF ToSet
  <2>2. PICK j \in S : rows[j].cell[Label] = rows[i].cell[Label]
    BY <1>7, <1>8, Zenon
  <2>3. rows[j] \in ToSet(parts.rest)
    <3> HIDE DEF S, rest
    <3>1. QED
      BY <1>1, <1>3, Zenon
  <2>4. QED
    BY <2>1, <2>2, <2>3, Zenon
<1>9. QED
  <2> HIDE DEF rest, test, S, T
  <2>1. QED
    BY <1>1, <1>3, <1>4, <1>5, <1>8

\* Held-out parts that are small enough to leave each class to learn from.
Halves ==
  /\ 2 * Shares["test"] <= Shares["train"] + Shares["validation"]
  /\ 2 * Shares["validation"] <= Shares["train"]

\* A third of the rows is at most half of them, also when it is rounded up.
LEMMA SmallPart ==
  ASSUME NEW n \in Nat, n >= 2, NEW part \in Nat, NEW whole \in Nat, whole > 0, 3 * part <= whole
  PROVE  PartOf(n, part, whole) \in Nat /\ 2 * PartOf(n, part, whole) <= n
<1> PICK p \in Int, A \in Int : p = n * part /\ A = n * whole
  OBVIOUS
<1> PICK a \in Int : a = p + whole - 1
  OBVIOUS
<1> PICK q \in Int, r \in 0..whole - 1 : a = whole * q + r /\ q = a \div whole
  BY Divided
<1> PICK b \in Int : b = whole * q
  OBVIOUS
<1>1. PartOf(n, part, whole) = q
  BY DEF PartOf
<1>2. p >= 0
  OBVIOUS
<1>3. 3 * p <= A
  <2>1. n * (3 * part) <= n * whole
    BY Times
  <2>2. n * (3 * part) = 3 * (n * part)
    OBVIOUS
  <2>3. QED
    BY <2>1, <2>2
<1>4. q >= 0
  <2>1. SUFFICES ASSUME q <= -1 PROVE FALSE
    OBVIOUS
  <2>2. whole * q <= whole * (-1)
    BY <2>1, Times
  <2>3. whole * (-1) = -whole
    OBVIOUS
  <2>4. QED
    BY <1>2, <2>2, <2>3
<1>5. b <= p + whole - 1
  OBVIOUS
<1>6. ASSUME n + 1 <= 2 * q PROVE FALSE
  <2>1. whole * (n + 1) <= whole * (2 * q)
    BY <1>6, Times
  <2>2. whole * (n + 1) = A + whole /\ whole * (2 * q) = 2 * b
    <3>1. whole * (n + 1) = n * whole + whole
      OBVIOUS
    <3>2. whole * (2 * q) = 2 * (whole * q)
      OBVIOUS
    <3>3. QED
      BY <3>1, <3>2
  <2>3. A + whole <= 2 * b
    BY <2>1, <2>2
  <2>4. CASE n >= 3
    <3>1. whole * 3 <= whole * n
      BY <2>4, Times
    <3>2. whole * n = A /\ whole * 3 = 3 * whole
      OBVIOUS
    <3>3. 3 * whole <= A
      BY <3>1, <3>2
    <3>4. QED
      BY ONLY <1>3, <1>5, <2>3, <3>3, A \in Int, b \in Int, p \in Int, whole \in Nat, whole > 0
  <2>5. CASE n = 2
    <3>1. q >= 2
      BY <1>6, <2>5
    <3>2. whole * 2 <= whole * q
      BY <3>1, Times
    <3>3. 2 * whole <= b /\ A = 2 * whole
      <4>1. whole * 2 = 2 * whole /\ n * whole = 2 * whole
        BY <2>5
      <4>2. QED
        BY <3>2, <4>1
    <3>4. QED
      BY ONLY <1>3, <1>5, <3>3, A \in Int, b \in Int, p \in Int, whole \in Nat, whole > 0
  <2>6. QED
    BY <2>4, <2>5
<1>7. q \in Nat /\ 2 * q <= n
  BY ONLY <1>4, <1>6, q \in Int, n \in Nat
<1>8. QED
  BY <1>1, <1>7

\* Fewer than two rows are not split.
LEMMA RowsToSplit ==
  ASSUME NEW rows, Listed(rows), NEW count, TrainTestSplit(rows, count) # None
  PROVE  Len(rows) \in Nat /\ Len(rows) >= 2
<1> DEFINE n == Len(rows)
           classes == {rows[i].cell[Label] : i \in DOMAIN rows}
           members == [v \in classes |-> {i \in DOMAIN rows : rows[i].cell[Label] = v}]
<1>1. rows # <<>> /\ \A v \in classes : ~(Cardinality(members[v]) < 2)
  BY ZenonT(60) DEF TrainTestSplit
<1>2. n \in Nat /\ DOMAIN rows = 1..n /\ n > 0
  <2>1. rows # <<>>
    BY <1>1
  <2> HIDE DEF classes, members
  <2>2. QED
    BY <2>1 DEF Listed
<1>3. 1 \in DOMAIN rows
  BY <1>2
<1>4. PICK M \in SUBSET (1..n) : ~(Cardinality(M) < 2)
  <2>1. rows[1].cell[Label] \in classes
    BY <1>3
  <2>2. members[rows[1].cell[Label]] \in SUBSET (1..n)
    BY <1>2, <2>1
  <2>3. QED
    BY <1>1, <2>1, <2>2
<1>5. IsFiniteSet(1..n) /\ Cardinality(1..n) = n
  <2> HIDE DEF n
  <2>1. QED
    BY <1>2, FS_Interval
<1>6. Cardinality(M) <= n /\ Cardinality(M) \in Nat
  BY <1>5, FS_Subset, FS_CardinalityType
<1> HIDE DEF n
<1>7. n >= 2
  BY <1>2, <1>4, <1>6
<1>8. QED
  BY <1>2, <1>7 DEF n

\* The splits are of the rows of the table, and training has each of their classes.
LEMMA SplitsFacts ==
  ASSUME Halves, NEW rows, Listed(rows), NEW splits, splits = TrainValTestSplit(rows), splits # None
  PROVE  /\ Splits = {"train", "validation", "test"}
         /\ \A s \in Splits :
              /\ Listed(splits[s]) /\ ToSet(splits[s]) \subseteq ToSet(rows)
              /\ \A row \in ToSet(splits[s]) : \E other \in ToSet(splits["train"]) : other.cell[Label] = row.cell[Label]
<1> DEFINE known == Shares["train"] + Shares["validation"]
           a == PartOf(Len(rows), Shares["test"], known + Shares["test"])
           first == TrainTestSplit(rows, a)
           b == PartOf(Len(first.rest), Shares["validation"], known)
           later == IF first = None THEN None ELSE TrainTestSplit(first.rest, b)
<1>0. Splits = {"train", "validation", "test"}
  BY DEF Splits, SplitNames, ToSet
<1>1. /\ later # None /\ splits["train"] = later.rest /\ splits["validation"] = later.test
      /\ splits["test"] = first.test
  <2>1. /\ later # None
        /\ splits = [s \in ToSet(SplitNames) |->
                      CASE s = "train" -> later.rest [] s = "validation" -> later.test [] s = "test" -> first.test]
    BY DEF TrainValTestSplit
  <2>2. ToSet(SplitNames) = {"train", "validation", "test"}
    BY <1>0 DEF Splits
  <2> HIDE DEF first, later
  <2>3. QED
    BY <2>1, <2>2
<1>2. first # None /\ later = TrainTestSplit(first.rest, b)
  BY <1>1
<1>3. \A s \in {"train", "validation", "test"} : Shares[s] \in Nat /\ Shares[s] > 0
  BY DatasetAssumption
<1>4. Len(rows) \in Nat /\ Len(rows) >= 2
  <2> HIDE DEF a
  <2>1. QED
    BY <1>2, RowsToSplit
<1>5. a \in Nat /\ 2 * a <= Len(rows)
  <2> PICK whole \in Nat, part \in Nat : whole = known + Shares["test"] /\ part = Shares["test"]
    BY <1>3
  <2>1. whole > 0 /\ 3 * part <= whole
    BY <1>3 DEF Halves
  <2>2. PartOf(Len(rows), part, whole) \in Nat /\ 2 * PartOf(Len(rows), part, whole) <= Len(rows)
    BY ONLY <1>4, <2>1, whole \in Nat, part \in Nat, SmallPart
  <2>3. QED
    BY <2>2
<1> HIDE DEF a, b, later, first
<1>6. /\ Listed(first.rest) /\ Listed(first.test)
      /\ ToSet(first.rest) \subseteq ToSet(rows) /\ ToSet(first.test) \subseteq ToSet(rows)
      /\ \A row \in ToSet(rows) : \E other \in ToSet(first.rest) : other.cell[Label] = row.cell[Label]
  <2>1. first = TrainTestSplit(rows, a)
    BY DEF first
  <2>2. QED
    BY <1>2, <1>5, <2>1, SplitFacts
<1>7. Len(first.rest) \in Nat /\ Len(first.rest) >= 2
  BY <1>1, <1>2, <1>6, RowsToSplit
<1>8. b \in Nat /\ 2 * b <= Len(first.rest)
  <2> PICK whole \in Nat, part \in Nat : whole = known /\ part = Shares["validation"]
    BY <1>3
  <2>1. whole > 0 /\ 3 * part <= whole
    BY <1>3 DEF Halves
  <2> PICK n \in Nat : n = Len(first.rest) /\ n >= 2
    BY <1>7
  <2>2. PartOf(n, part, whole) \in Nat /\ 2 * PartOf(n, part, whole) <= n
    BY ONLY n \in Nat, n >= 2, <2>1, whole \in Nat, part \in Nat, SmallPart
  <2>3. QED
    BY <2>2 DEF b
<1>9. /\ Listed(later.rest) /\ Listed(later.test)
      /\ ToSet(later.rest) \subseteq ToSet(first.rest) /\ ToSet(later.test) \subseteq ToSet(first.rest)
      /\ \A row \in ToSet(first.rest) : \E other \in ToSet(later.rest) : other.cell[Label] = row.cell[Label]
  <2> PICK f : f = first.rest
    OBVIOUS
  <2>1. Listed(f) /\ later = TrainTestSplit(f, b) /\ later # None /\ 2 * b <= Len(f) /\ b \in Nat
    BY <1>1, <1>2, <1>6, <1>8
  <2>2. /\ Listed(later.rest) /\ Listed(later.test)
        /\ ToSet(later.rest) \subseteq ToSet(f) /\ ToSet(later.test) \subseteq ToSet(f)
        /\ \A row \in ToSet(f) : \E other \in ToSet(later.rest) : other.cell[Label] = row.cell[Label]
    BY <2>1, SplitFacts
  <2>3. QED
    BY <2>2
<1>10. \A s \in {"train", "validation", "test"} : Listed(splits[s]) /\ ToSet(splits[s]) \subseteq ToSet(rows)
  BY <1>1, <1>6, <1>9
<1>11. \A row \in ToSet(rows) : \E other \in ToSet(splits["train"]) : other.cell[Label] = row.cell[Label]
  <2>1. ASSUME NEW row \in ToSet(rows) PROVE \E other \in ToSet(splits["train"]) : other.cell[Label] = row.cell[Label]
    <3>1. PICK x \in ToSet(first.rest) : x.cell[Label] = row.cell[Label]
      BY <1>6
    <3>2. PICK y \in ToSet(later.rest) : y.cell[Label] = x.cell[Label]
      BY <1>9
    <3>3. QED
      BY <1>1, <3>1, <3>2
  <2>2. QED
    BY <2>1
<1>12. QED
  BY <1>0, <1>10, <1>11

-----------------------------------------------------------------------------
(* Prepared splits. *)

\* Where a column of the prepared splits comes from.
LEMMA PreparedOrigin ==
  ASSUME NEW t, IsTable(t), NEW fitted, \A c \in ToSet(Encoded(t)) : Listed(fitted.categories[c]),
         NEW x \in ToSet(PreparedColumns(t, fitted))
  PROVE  \/ \E c \in ToSet(t.columns) \ (ToSet(Categorical) \cup {Label}) : x = <<c, None>>
         \/ \E c \in ToSet(Encoded(t)) : \E v \in ToSet(fitted.categories[c]) : x = <<c, v>>
<1> DEFINE kept == Chosen(t.columns, ToSet(t.columns) \ (ToSet(Categorical) \cup {Label}))
           enc == Encoded(t)
           plain == [k \in DOMAIN kept |-> <<kept[k], None>>]
           words == [k \in DOMAIN enc |->
                      [i \in DOMAIN fitted.categories[enc[k]] |-> <<enc[k], fitted.categories[enc[k]][i]>>]]
           Z == UNION {ToSet(words[k]) : k \in DOMAIN enc}
<1>1. PreparedColumns(t, fitted) = plain \o FlattenSeq(words)
  BY DEF PreparedColumns
<1>2. Listed(kept) /\ ToSet(kept) = ToSet(t.columns) \cap (ToSet(t.columns) \ (ToSet(Categorical) \cup {Label}))
  <2> PICK S : S = ToSet(t.columns) \ (ToSet(Categorical) \cup {Label})
    OBVIOUS
  <2>1. Listed(t.columns)
    BY DEF IsTable
  <2>2. Listed(Chosen(t.columns, S)) /\ ToSet(Chosen(t.columns, S)) = ToSet(t.columns) \cap S
    BY ONLY <2>1, ChosenFacts
  <2>3. QED
    BY <2>2
<1>3. Listed(plain)
  <2>1. plain = [k \in DOMAIN kept |-> plain[k]]
    OBVIOUS
  <2>2. Listed(kept)
    BY <1>2
  <2> HIDE DEF plain, kept
  <2>3. QED
    BY ONLY <2>1, <2>2, MapListed
<1>4. Listed(enc)
  <2>1. Listed(Categorical)
    BY DatasetAssumption
  <2>2. QED
    BY <2>1, ChosenFacts DEF Encoded
<1>5. DOMAIN enc = 1..Len(enc) /\ Len(enc) \in Nat /\ \A k \in DOMAIN enc : enc[k] \in ToSet(enc)
  BY <1>4 DEF Listed, ToSet
<1>6. ASSUME NEW k \in DOMAIN enc PROVE words[k] \in Seq(Z)
  <2>1. Listed(fitted.categories[enc[k]])
    BY <1>5, <1>6
  <2>2. words[k] = [i \in DOMAIN fitted.categories[enc[k]] |-> words[k][i]]
    BY <1>6
  <2> HIDE DEF words, enc
  <2>3. Listed(words[k])
    BY ONLY <2>1, <2>2, MapListed
  <2>4. ToSet(words[k]) \subseteq Z
    BY <1>6
  <2> HIDE DEF Z
  <2>5. QED
    BY <2>3, <2>4 DEF Listed
<1>7. words \in Seq(Seq(Z))
  <2>1. words = [k \in 1..Len(enc) |-> words[k]] /\ Len(enc) \in Nat
    BY <1>5
  <2>2. \A k \in 1..Len(enc) : words[k] \in Seq(Z)
    BY <1>5, <1>6
  <2> HIDE DEF words, enc, Z
  <2>3. QED
    BY <2>1, <2>2
<1>8. ASSUME NEW l \in DOMAIN words, NEW m \in DOMAIN words[l], x = words[l][m]
      PROVE  \E c \in ToSet(Encoded(t)) : \E v \in ToSet(fitted.categories[c]) : x = <<c, v>>
  <2>1. l \in DOMAIN enc /\ enc[l] \in ToSet(Encoded(t))
    BY <1>5
  <2>2. m \in DOMAIN fitted.categories[enc[l]] /\ x = <<enc[l], fitted.categories[enc[l]][m]>>
    BY <1>8
  <2>3. fitted.categories[enc[l]][m] \in ToSet(fitted.categories[enc[l]])
    BY <2>2 DEF ToSet
  <2> HIDE DEF words, enc
  <2>4. QED
    BY <2>1, <2>2, <2>3
<1>9. ASSUME NEW i \in DOMAIN plain, x = plain[i]
      PROVE  \E c \in ToSet(t.columns) \ (ToSet(Categorical) \cup {Label}) : x = <<c, None>>
  <2>1. i \in DOMAIN kept /\ x = <<kept[i], None>>
    BY <1>9
  <2>2. kept[i] \in ToSet(kept)
    BY <2>1 DEF ToSet
  <2> HIDE DEF kept, plain
  <2>3. QED
    BY <1>2, <2>1, <2>2
<1> HIDE DEF Z, plain
<1>10. /\ Listed(FlattenSeq(words)) /\ From(FlattenSeq(words), words, Len(words)) /\ DOMAIN words = 1..Len(words)
  <2> HIDE DEF words
  <2>1. FlattenSeq(words) \in Seq(Z) /\ From(FlattenSeq(words), words, Len(words))
    BY <1>7, FlattenFacts
  <2>2. QED
    BY <1>7, <2>1, ListedSeq
<1> HIDE DEF words, kept, enc
<1>11. PICK i \in DOMAIN (plain \o FlattenSeq(words)) : x = (plain \o FlattenSeq(words))[i]
  BY <1>1 DEF ToSet
<1>12. \/ i \in DOMAIN plain /\ x = plain[i]
       \/ \E j \in DOMAIN FlattenSeq(words) : x = FlattenSeq(words)[j]
  BY <1>3, <1>10, <1>11, ListedConcat
<1>13. ASSUME NEW j \in DOMAIN FlattenSeq(words), x = FlattenSeq(words)[j]
       PROVE  \E c \in ToSet(Encoded(t)) : \E v \in ToSet(fitted.categories[c]) : x = <<c, v>>
  BY <1>8, <1>10, <1>13 DEF From
<1>14. QED
  BY <1>9, <1>12, <1>13

\* Values and the same ones scaled.
IsScaled(values, scaled, n, sum) ==
  /\ Listed(values) /\ Listed(scaled) /\ DOMAIN scaled = DOMAIN values /\ ToSet(values) \subseteq Int \cup {Missing}
  /\ \A i \in DOMAIN values : scaled[i] = IF values[i] = Missing THEN Missing ELSE n * values[i] - sum

Filling(values) == Chosen(values, ToSet(values) \ {Missing})

\* Scaled values add up to the scaled sum.
LEMMA ScaledTotal ==
  ASSUME NEW values, NEW scaled, NEW n \in Int, NEW sum \in Int, IsScaled(values, scaled, n, sum)
  PROVE  Total(Filling(scaled)) = n * Total(Filling(values)) - sum * Len(Filling(values))
<1> PICK a : a = Filling(values)
  OBVIOUS
<1> PICK b : b = Filling(scaled)
  OBVIOUS
<1>0. /\ Listed(values) /\ Listed(scaled) /\ DOMAIN scaled = DOMAIN values /\ ToSet(values) \subseteq Int \cup {Missing}
      /\ \A i \in DOMAIN values : scaled[i] = IF values[i] = Missing THEN Missing ELSE n * values[i] - sum
  BY DEF IsScaled
<1> PICK A : A = ToSet(values) \ {Missing}
  OBVIOUS
<1> PICK B : B = ToSet(scaled) \ {Missing}
  OBVIOUS
<1>1. PICK p : /\ p[0] = <<>>
               /\ \A k \in 1..Len(values) : p[k] = IF values[k] \in A THEN Append(p[k - 1], values[k]) ELSE p[k - 1]
               /\ p[Len(values)] = Chosen(values, A)
  BY ONLY <1>0, ChosenRuns
<1>2. PICK q : /\ q[0] = <<>>
               /\ \A k \in 1..Len(scaled) : q[k] = IF scaled[k] \in B THEN Append(q[k - 1], scaled[k]) ELSE q[k - 1]
               /\ q[Len(scaled)] = Chosen(scaled, B)
  BY ONLY <1>0, ChosenRuns
<1> DEFINE N == Len(values)
           P(k) == /\ p[k] \in Seq(Int) /\ q[k] \in Seq(Int)
                   /\ Total(q[k]) = n * Total(p[k]) - sum * Len(p[k])
           T == {k \in Nat : k <= N => P(k)}
<1>3. N \in Nat /\ DOMAIN values = 1..N /\ Len(scaled) = N /\ \A k \in 1..N : values[k] \in ToSet(values)
  BY <1>0 DEF Listed, ToSet
<1>4. Missing \notin Int
  BY DatasetAssumption
<1>5. 0 \in T
  <2>1. Total(p[0]) = 0 /\ Total(q[0]) = 0 /\ Len(p[0]) = 0 /\ p[0] \in Seq(Int) /\ q[0] \in Seq(Int)
    BY <1>1, <1>2, TotalEmpty
  <2>2. n * 0 - sum * 0 = 0
    OBVIOUS
  <2>3. QED
    BY <2>1, <2>2
<1>6. ASSUME NEW k \in T PROVE k + 1 \in T
  <2>0. k \in Nat /\ k + 1 \in Nat
    OBVIOUS
  <2> SUFFICES ASSUME k + 1 <= N PROVE P(k + 1)
    <3> HIDE DEF P
    <3>1. QED
      BY <2>0
  <2>1. k + 1 \in 1..N /\ k <= N /\ (k + 1) - 1 = k
    BY <1>3, <2>0
  <2>2. P(k)
    <3> HIDE DEF P
    <3>1. QED
      BY <2>1
  <2>3. values[k + 1] \in Int \cup {Missing} /\ values[k + 1] \in ToSet(values) /\ scaled[k + 1] \in ToSet(scaled)
    BY <1>0, <1>3, <2>1 DEF ToSet
  <2>4. scaled[k + 1] = IF values[k + 1] = Missing THEN Missing ELSE n * values[k + 1] - sum
    BY <1>0, <1>3, <2>1
  <2>5. /\ p[k + 1] = IF values[k + 1] \in A THEN Append(p[k], values[k + 1]) ELSE p[k]
        /\ q[k + 1] = IF scaled[k + 1] \in B THEN Append(q[k], scaled[k + 1]) ELSE q[k]
    <3>1. /\ p[k + 1] = IF values[k + 1] \in A THEN Append(p[(k + 1) - 1], values[k + 1]) ELSE p[(k + 1) - 1]
          /\ q[k + 1] = IF scaled[k + 1] \in B THEN Append(q[(k + 1) - 1], scaled[k + 1]) ELSE q[(k + 1) - 1]
      BY <1>1, <1>2, <1>3, <2>1
    <3>2. QED
      BY <2>1, <3>1
  <2>6. CASE values[k + 1] = Missing
    <3>1. p[k + 1] = p[k] /\ q[k + 1] = q[k]
      BY <2>4, <2>5, <2>6
    <3>2. QED
      BY <2>2, <3>1
  <2>7. CASE values[k + 1] # Missing
    <3> PICK v \in Int : v = values[k + 1]
      BY <2>3, <2>7
    <3> PICK u \in Int : u = n * v - sum
      OBVIOUS
    <3>1. scaled[k + 1] = u /\ u # Missing /\ v \in A
      BY <1>4, <2>3, <2>4, <2>7
    <3>2. p[k + 1] = Append(p[k], v) /\ q[k + 1] = Append(q[k], u)
      BY <2>3, <2>5, <3>1
    <3>3. /\ Append(p[k], v) \in Seq(Int) /\ Total(Append(p[k], v)) = Total(p[k]) + v
          /\ Append(q[k], u) \in Seq(Int) /\ Total(Append(q[k], u)) = Total(q[k]) + u
      BY <2>2, TotalAppend
    <3>4. Len(Append(p[k], v)) = Len(p[k]) + 1 /\ Len(p[k]) \in Nat /\ Total(p[k]) \in Int
      BY <2>2, TotalIs
    <3> PICK s \in Int, l \in Int : s = Total(p[k]) /\ l = Len(p[k])
      BY <3>4
    <3>5. n * (s + v) - sum * (l + 1) = (n * s - sum * l) + u
      <4>1. n * (s + v) = n * s + n * v /\ sum * (l + 1) = sum * l + sum
        OBVIOUS
      <4> PICK x \in Int, y \in Int, z \in Int : x = n * s /\ y = n * v /\ z = sum * l
        OBVIOUS
      <4>2. n * (s + v) = x + y /\ sum * (l + 1) = z + sum /\ u = y - sum
        BY <4>1
      <4>3. QED
        BY ONLY <4>2, x = n * s, z = sum * l, x \in Int, y \in Int, z \in Int, sum \in Int
    <3>6. Total(q[k + 1]) = n * Total(p[k + 1]) - sum * Len(p[k + 1])
      BY <2>2, <3>2, <3>3, <3>4, <3>5
    <3>7. QED
      BY <3>2, <3>3, <3>6
  <2>8. QED
    BY <2>6, <2>7
<1>7. N \in T
  <2>1. T \subseteq Nat
    OBVIOUS
  <2> HIDE DEF T
  <2>2. QED
    BY <1>3, <1>5, <1>6, <2>1, Inductive
<1>8. P(N)
  <2> HIDE DEF P
  <2>1. QED
    BY <1>3, <1>7
<1>9. p[N] = a /\ q[N] = b
  BY <1>1, <1>2, <1>3 DEF Filling
<1>10. QED
  BY <1>8, <1>9

\* A table that is split, each class where it can be learned.
SplitUp(t, splits) ==
  /\ CellsOf(t, {}) /\ Label \in ToSet(t.columns)
  /\ \A s \in Splits :
       /\ Listed(splits[s]) /\ ToSet(splits[s]) \subseteq ToSet(t.rows)
       /\ \A row \in ToSet(splits[s]) : \E other \in ToSet(splits["train"]) : other.cell[Label] = row.cell[Label]

\* What encoders and scaler have learned.
Learned(t, splits, fitted) ==
  /\ \A c \in ToSet(Encoded(t)) :
       /\ Listed(fitted.categories[c])
       /\ ToSet(fitted.categories[c]) = {row.cell[c] : row \in ToSet(splits["train"])}
  /\ DOMAIN fitted.classes \subseteq Nat \ {0}
  /\ ToSet(fitted.classes) = {row.cell[Label] : row \in ToSet(splits["train"])}
  /\ DOMAIN fitted.scaler = Scaled(t)

LEMMA FittedFacts ==
  ASSUME NEW t, NEW splits, SplitUp(t, splits), NEW fitted, fitted = FitTransforms(t, splits)
  PROVE  Learned(t, splits, fitted)
<1> PICK train : train = [t EXCEPT !.rows = splits["train"]]
  OBVIOUS
<1>1. "train" \in Splits
  BY DEF Splits, SplitNames, ToSet
<1>2. train.rows = splits["train"] /\ Listed(train.rows) /\ ToSet(train.rows) \subseteq ToSet(t.rows)
  BY <1>1 DEF SplitUp, CellsOf, IsTable
<1>3. ASSUME NEW c \in ToSet(t.columns)
      PROVE  /\ Listed(Sorted(Values(train, c))) /\ DOMAIN Sorted(Values(train, c)) \subseteq Nat \ {0}
             /\ ToSet(Sorted(Values(train, c))) = {row.cell[c] : row \in ToSet(splits["train"])}
  <2>1. Values(train, c) = {row.cell[c] : row \in ToSet(train.rows)} /\ IsFiniteSet(Values(train, c))
    BY ONLY <1>2, ColumnFacts
  <2>2. \A row \in ToSet(t.rows) : row.cell[c] \in Known
    BY DEF SplitUp, CellsOf
  <2>3. Values(train, c) \subseteq Known
    BY <1>2, <2>1, <2>2
  <2> PICK S : S = Values(train, c)
    OBVIOUS
  <2>4. Listed(Sorted(S)) /\ DOMAIN Sorted(S) = 1..Cardinality(S) /\ ToSet(Sorted(S)) = S
    BY <2>1, <2>3, SortedSet
  <2>5. Cardinality(S) \in Nat
    BY <2>1, FS_CardinalityType
  <2>6. QED
    BY <1>2, <2>1, <2>4, <2>5
<1>4. ToSet(Encoded(t)) \subseteq ToSet(t.columns)
  <2>1. Listed(Categorical)
    BY DatasetAssumption
  <2>2. QED
    BY <2>1, ChosenFacts DEF Encoded
<1>5. /\ \A c \in ToSet(Encoded(t)) : fitted.categories[c] = Sorted(Values(train, c))
      /\ fitted.classes = Sorted(Values(train, Label)) /\ DOMAIN fitted.scaler = Scaled(t)
  BY DEF FitTransforms
<1>6. Label \in ToSet(t.columns)
  BY DEF SplitUp
<1>7. QED
  BY <1>3, <1>4, <1>5, <1>6 DEF Learned

\* What the scaler has learned of a column.
LEMMA ScalerFacts ==
  ASSUME NEW t, NEW splits, SplitUp(t, splits), NEW fitted, fitted = FitTransforms(t, splits), NEW c \in Scaled(t),
         NEW train, train = [t EXCEPT !.rows = splits["train"]]
  PROVE  /\ train.rows = splits["train"] /\ Listed(train.rows)
         /\ Present(train, c) \in Seq(Int) /\ ToSet(Present(train, c)) = Values(train, c) \ {Missing}
         /\ Values(train, c) = {row.cell[c] : row \in ToSet(splits["train"])}
         /\ fitted.scaler[c].n = Len(Present(train, c)) /\ fitted.scaler[c].sum = Total(Present(train, c))
         /\ fitted.scaler[c].n \in Nat /\ fitted.scaler[c].sum \in Int
         /\ \A row \in ToSet(t.rows) : row.cell[c] \in Int \cup {Missing}
<1>1. "train" \in Splits
  BY DEF Splits, SplitNames, ToSet
<1>2. train.rows = splits["train"] /\ Listed(train.rows) /\ ToSet(train.rows) \subseteq ToSet(t.rows)
  BY <1>1 DEF SplitUp, CellsOf, IsTable
<1>3. \A row \in ToSet(t.rows) : row.cell[c] \in Int \cup {Missing}
  BY DEF SplitUp, CellsOf, Scaled
<1>4. Present(train, c) \in Seq(Int)
  BY <1>2, <1>3, PresentInts
<1>5. fitted.scaler[c].n = Len(Present(train, c)) /\ fitted.scaler[c].sum = Total(Present(train, c))
  BY DEF FitTransforms
<1>6. Len(Present(train, c)) \in Nat /\ Total(Present(train, c)) \in Int
  BY <1>4, TotalIs
<1>7. ToSet(Present(train, c)) = Values(train, c) \ {Missing}
  BY <1>2, PresentFacts
<1>8. Values(train, c) = {row.cell[c] : row \in ToSet(splits["train"])}
  BY <1>2, ColumnFacts
<1>9. QED
  BY <1>2, <1>3, <1>4, <1>5, <1>6, <1>7, <1>8

\* A cell of a prepared split.
Prepared(fitted, x, v) ==
  IF x[2] # None THEN (IF v = x[2] THEN 1 ELSE 0)
  ELSE IF x[1] \in DOMAIN fitted.scaler THEN ApplyScaler(fitted.scaler[x[1]], v) ELSE v

LEMMA PreparedRows ==
  ASSUME NEW t, NEW fitted, NEW columns, NEW rows, Listed(rows), NEW frame, frame = PreparedFrame(t, fitted, columns, rows)
  PROVE  /\ frame.columns = columns /\ Listed(frame.rows) /\ DOMAIN frame.rows = DOMAIN rows
         /\ frame.numeric = {x \in ToSet(columns) : x[2] # None \/ x[1] \in DOMAIN fitted.scaler}
         /\ \A i \in DOMAIN rows :
              /\ "cell" \in DOMAIN frame.rows[i]
              /\ frame.rows[i].label = ApplyLabelEncoder(fitted.classes, rows[i].cell[Label])
              /\ \A x \in ToSet(columns) : frame.rows[i].cell[x] = Prepared(fitted, x, rows[i].cell[x[1]])
<1>1. /\ frame.columns = columns
      /\ frame.numeric = {x \in ToSet(columns) : x[2] # None \/ x[1] \in DOMAIN fitted.scaler}
      /\ frame.rows = [i \in DOMAIN rows |->
           [ id |-> rows[i].id, label |-> ApplyLabelEncoder(fitted.classes, rows[i].cell[Label]),
             cell |-> Transformed(t, fitted, columns, rows[i]) ]]
  BY DEF PreparedFrame
<1>2. Listed(frame.rows)
  <2> PICK f : f = frame.rows
    OBVIOUS
  <2>1. f = [i \in DOMAIN rows |-> f[i]]
    BY <1>1
  <2>2. Listed(f)
    BY ONLY <2>1, Listed(rows), MapListed
  <2>3. QED
    BY <2>2
<1>3. ASSUME NEW row, NEW x \in ToSet(columns) PROVE Transformed(t, fitted, columns, row)[x] = Prepared(fitted, x, row.cell[x[1]])
  BY DEF Transformed, Prepared
<1>4. QED
  BY <1>1, <1>2, <1>3

\* Frames as feature selection finds them.
FrameOK(frame) ==
  /\ Listed(frame.columns) /\ Listed(frame.rows) /\ frame.numeric \subseteq ToSet(frame.columns)
  /\ \A row \in ToSet(frame.rows) :
       "cell" \in DOMAIN row /\ \A x \in frame.numeric : row.cell[x] \in Int \cup {Missing}

\* The number of a class.
LEMMA LabelLearned ==
  ASSUME NEW classes, DOMAIN classes \subseteq Nat \ {0}, NEW v \in ToSet(classes)
  PROVE  ApplyLabelEncoder(classes, v) >= 0
<1>1. \E k \in DOMAIN classes : classes[k] = v
  BY DEF ToSet
<1>2. PICK k \in Nat \ {0} : k = (CHOOSE j \in DOMAIN classes : classes[j] = v)
  BY <1>1
<1>3. ApplyLabelEncoder(classes, v) = k - 1
  BY <1>2 DEF ApplyLabelEncoder
<1>4. QED
  BY <1>3

\* Scaling a number or a hole.
LEMMA ScaledCell ==
  ASSUME NEW by, by.n \in Nat, by.sum \in Int, NEW v \in Int \cup {Missing}
  PROVE  /\ ApplyScaler(by, v) \in Int \cup {Missing}
         /\ v # Missing /\ by.n # 0 => ApplyScaler(by, v) \in Int
BY DEF ApplyScaler

\* Where a prepared column comes from, and what that says of its name.
LEMMA PreparedNames ==
  ASSUME NEW t, NEW splits, SplitUp(t, splits), NEW fitted, fitted = FitTransforms(t, splits),
         NEW x \in ToSet(PreparedColumns(t, fitted))
  PROVE  /\ x[1] \in ToSet(t.columns)
         /\ x[2] # None => \E row \in ToSet(splits["train"]) : row.cell[x[1]] = x[2]
<1>1. Learned(t, splits, fitted)
  BY FittedFacts
<1>2. IsTable(t)
  BY DEF SplitUp, CellsOf
<1>3. ToSet(Encoded(t)) \subseteq ToSet(t.columns)
  <2>1. Listed(Categorical)
    BY DatasetAssumption
  <2>2. QED
    BY <2>1, ChosenFacts DEF Encoded
<1>4. \A c \in ToSet(Encoded(t)) : Listed(fitted.categories[c])
  BY <1>1 DEF Learned
<1>5. \/ \E c \in ToSet(t.columns) \ (ToSet(Categorical) \cup {Label}) : x = <<c, None>>
      \/ \E c \in ToSet(Encoded(t)) : \E v \in ToSet(fitted.categories[c]) : x = <<c, v>>
  BY <1>2, <1>4, PreparedOrigin
<1>6. ASSUME NEW c \in ToSet(t.columns) \ (ToSet(Categorical) \cup {Label}), x = <<c, None>>
      PROVE  x[1] \in ToSet(t.columns) /\ x[2] = None
  BY <1>6
<1>7. ASSUME NEW c \in ToSet(Encoded(t)), NEW v \in ToSet(fitted.categories[c]), x = <<c, v>>
      PROVE  /\ x[1] \in ToSet(t.columns) /\ x[2] = v /\ \E row \in ToSet(splits["train"]) : row.cell[x[1]] = v
  <2>1. v \in {row.cell[c] : row \in ToSet(splits["train"])}
    BY <1>1 DEF Learned
  <2>2. x[1] = c /\ x[2] = v
    BY <1>7
  <2>3. QED
    BY <1>3, <2>1, <2>2
<1>8. QED
  BY <1>5, <1>6, <1>7

\* The cells of a prepared split.
LEMMA PreparedCells ==
  ASSUME NEW t, NEW splits, SplitUp(t, splits), NEW fitted, fitted = FitTransforms(t, splits),
         NEW columns, columns = PreparedColumns(t, fitted), NEW s \in Splits,
         NEW row \in ToSet(splits[s]), NEW x \in ToSet(columns)
  PROVE  /\ x[2] # None \/ x[1] \in DOMAIN fitted.scaler => Prepared(fitted, x, row.cell[x[1]]) \in Int \cup {Missing}
         /\ Whole(t, ToSet(t.columns)) => Prepared(fitted, x, row.cell[x[1]]) \notin {Missing, Infinite}
<1>1. x[1] \in ToSet(t.columns)
  BY PreparedNames
<1>2. row \in ToSet(t.rows) /\ \E other \in ToSet(splits["train"]) : TRUE
  BY DEF SplitUp
<1>3. row.cell[x[1]] \in Known
  BY <1>1, <1>2 DEF SplitUp, CellsOf
<1>4. /\ Missing \notin Int /\ Infinite \notin Int /\ Infinite \notin Known /\ 0 \in Int /\ 1 \in Int
  BY DatasetAssumption DEF Known
<1>5. Whole(t, ToSet(t.columns)) => row.cell[x[1]] # Missing
  BY <1>1, <1>2 DEF Whole
<1>6. CASE x[2] # None
  <2>1. Prepared(fitted, x, row.cell[x[1]]) \in {0, 1}
    BY <1>6 DEF Prepared
  <2>2. QED
    BY <1>4, <2>1
<1>7. CASE x[2] = None /\ x[1] \in DOMAIN fitted.scaler
  <2>1. Prepared(fitted, x, row.cell[x[1]]) = ApplyScaler(fitted.scaler[x[1]], row.cell[x[1]])
    BY <1>7 DEF Prepared
  <2>2. x[1] \in Scaled(t)
    BY <1>7, FittedFacts DEF Learned
  <2> PICK train : train = [t EXCEPT !.rows = splits["train"]]
    OBVIOUS
  <2>3. /\ Present(train, x[1]) \in Seq(Int) /\ ToSet(Present(train, x[1])) = Values(train, x[1]) \ {Missing}
        /\ Values(train, x[1]) = {r.cell[x[1]] : r \in ToSet(splits["train"])}
        /\ fitted.scaler[x[1]].n = Len(Present(train, x[1]))
        /\ fitted.scaler[x[1]].n \in Nat /\ fitted.scaler[x[1]].sum \in Int
        /\ \A r \in ToSet(t.rows) : r.cell[x[1]] \in Int \cup {Missing}
    BY <2>2, ScalerFacts
  <2>4. row.cell[x[1]] \in Int \cup {Missing}
    BY <1>2, <2>3
  <2>5. Whole(t, ToSet(t.columns)) => fitted.scaler[x[1]].n # 0
    <3> SUFFICES ASSUME Whole(t, ToSet(t.columns)), fitted.scaler[x[1]].n = 0 PROVE FALSE
      OBVIOUS
    <3>1. PICK other \in ToSet(splits["train"]) : TRUE
      BY <1>2
    <3>2. other \in ToSet(t.rows)
      <4>1. "train" \in Splits
        BY DEF Splits, SplitNames, ToSet
      <4>2. QED
        BY <4>1 DEF SplitUp
    <3>3. other.cell[x[1]] # Missing
      BY <1>1, <3>2 DEF Whole
    <3>4. other.cell[x[1]] \in ToSet(Present(train, x[1]))
      BY <2>3, <3>3
    <3> PICK values : values = Present(train, x[1])
      OBVIOUS
    <3>5. values \in Seq(Int) /\ Len(values) = 0 /\ ToSet(values) # {}
      BY <2>3, <3>4
    <3>6. DOMAIN values = {}
      BY <3>5
    <3>7. QED
      BY <3>5, <3>6 DEF ToSet
  <2> PICK by : by = fitted.scaler[x[1]]
    OBVIOUS
  <2> PICK v \in Int \cup {Missing} : v = row.cell[x[1]]
    BY <2>4
  <2>6. ApplyScaler(by, v) \in Int \cup {Missing} /\ (v # Missing /\ by.n # 0 => ApplyScaler(by, v) \in Int)
    BY <2>3, ScaledCell
  <2>7. QED
    BY <1>4, <1>5, <2>1, <2>5, <2>6
<1>8. CASE x[2] = None /\ x[1] \notin DOMAIN fitted.scaler
  <2>1. Prepared(fitted, x, row.cell[x[1]]) = row.cell[x[1]]
    BY <1>8 DEF Prepared
  <2>2. QED
    BY <1>3, <1>4, <1>5, <1>8, <2>1
<1>9. QED
  BY <1>6, <1>7, <1>8

\* A scaled column adds up to zero in training.
LEMMA CenteredColumn ==
  ASSUME NEW t, NEW splits, SplitUp(t, splits), NEW fitted, fitted = FitTransforms(t, splits),
         NEW columns, columns = PreparedColumns(t, fitted), NEW frame,
         frame = PreparedFrame(t, fitted, columns, splits["train"]),
         NEW x \in ToSet(columns), x[2] = None, x[1] \in DOMAIN fitted.scaler
  PROVE  Total(Present(frame, x)) = 0
<1> PICK c : c = x[1]
  OBVIOUS
<1> PICK rows : rows = splits["train"]
  OBVIOUS
<1> PICK by : by = fitted.scaler[c]
  OBVIOUS
<1> PICK train : train = [t EXCEPT !.rows = splits["train"]]
  OBVIOUS
<1>1. c \in Scaled(t)
  BY FittedFacts DEF Learned
<1>2. /\ train.rows = rows /\ Listed(train.rows)
      /\ Present(train, c) \in Seq(Int) /\ ToSet(Present(train, c)) = Values(train, c) \ {Missing}
      /\ by.n = Len(Present(train, c)) /\ by.sum = Total(Present(train, c)) /\ by.n \in Nat /\ by.sum \in Int
      /\ \A r \in ToSet(t.rows) : r.cell[c] \in Int \cup {Missing}
  BY <1>1, ScalerFacts
<1>3. ToSet(rows) \subseteq ToSet(t.rows)
  <2>1. "train" \in Splits
    BY DEF Splits, SplitNames, ToSet
  <2>2. QED
    BY <2>1 DEF SplitUp
<1>4. /\ Listed(frame.rows) /\ DOMAIN frame.rows = DOMAIN rows
      /\ \A i \in DOMAIN rows : frame.rows[i].cell[x] = Prepared(fitted, x, rows[i].cell[x[1]])
  <2>1. Listed(rows)
    BY <1>2
  <2>2. QED
    BY <2>1, PreparedRows
<1> PICK values : values = Column(train, c)
  OBVIOUS
<1> PICK scaled : scaled = Column(frame, x)
  OBVIOUS
<1>5. /\ Listed(values) /\ DOMAIN values = DOMAIN rows /\ \A i \in DOMAIN rows : values[i] = rows[i].cell[c]
      /\ Listed(scaled) /\ DOMAIN scaled = DOMAIN rows
      /\ \A i \in DOMAIN rows : scaled[i] = Prepared(fitted, x, rows[i].cell[c])
  <2>1. Listed(values) /\ DOMAIN values = DOMAIN train.rows /\ \A i \in DOMAIN train.rows : values[i] = train.rows[i].cell[c]
    <3>1. Listed(train.rows)
      BY <1>2
    <3>2. QED
      BY ONLY <3>1, values = Column(train, c), ColumnFacts
  <2>2. Listed(scaled) /\ DOMAIN scaled = DOMAIN frame.rows /\ \A i \in DOMAIN frame.rows : scaled[i] = frame.rows[i].cell[x]
    <3>1. Listed(frame.rows)
      BY <1>4
    <3>2. QED
      BY ONLY <3>1, scaled = Column(frame, x), ColumnFacts
  <2>3. QED
    BY <1>2, <1>4, <2>1, <2>2
<1>6. ToSet(values) = Values(train, c) /\ ToSet(scaled) = Values(frame, x)
  BY DEF Values
<1>7. Present(train, c) = Chosen(values, ToSet(values) \ {Missing}) /\ Present(frame, x) = Chosen(scaled, ToSet(scaled) \ {Missing})
  BY <1>6 DEF Present
<1>8. ToSet(values) \subseteq Int \cup {Missing}
  <2>1. \A i \in DOMAIN rows : rows[i] \in ToSet(rows)
    BY DEF ToSet
  <2>2. \A i \in DOMAIN values : values[i] \in Int \cup {Missing}
    BY <1>2, <1>3, <1>5, <2>1
  <2>3. QED
    BY <2>2 DEF ToSet
<1>9. ASSUME NEW i \in DOMAIN values
      PROVE  scaled[i] = IF values[i] = Missing THEN Missing ELSE by.n * values[i] - by.sum
  <2>1. scaled[i] = ApplyScaler(by, values[i])
    BY <1>5 DEF Prepared
  <2>2. values[i] # Missing => by.n # 0
    <3> SUFFICES ASSUME values[i] # Missing, by.n = 0 PROVE FALSE
      OBVIOUS
    <3>1. values[i] \in ToSet(Present(train, c))
      BY <1>2, <1>6 DEF ToSet
    <3> PICK present : present = Present(train, c)
      OBVIOUS
    <3>2. present \in Seq(Int) /\ Len(present) = 0 /\ ToSet(present) # {}
      BY <1>2, <3>1
    <3>3. DOMAIN present = {}
      BY <3>2
    <3>4. QED
      BY <3>2, <3>3 DEF ToSet
  <2>3. QED
    BY <2>1, <2>2 DEF ApplyScaler
<1> PICK n \in Int, sum \in Int : n = by.n /\ sum = by.sum
  BY <1>2
<1> PICK a : a = Present(train, c)
  OBVIOUS
<1> PICK b : b = Present(frame, x)
  OBVIOUS
<1>10. \A i \in DOMAIN values : scaled[i] = IF values[i] = Missing THEN Missing ELSE n * values[i] - sum
  BY <1>9
<1>11. DOMAIN scaled = DOMAIN values
  BY <1>5
<1>12. Listed(values) /\ Listed(scaled)
  BY <1>5
<1>13. a = Filling(values) /\ b = Filling(scaled)
  BY <1>7 DEF Filling
<1>14. Total(b) = n * Total(a) - sum * Len(a)
  <2>1. IsScaled(values, scaled, n, sum)
    BY <1>8, <1>10, <1>11, <1>12 DEF IsScaled
  <2>2. Total(Filling(scaled)) = n * Total(Filling(values)) - sum * Len(Filling(values))
    BY ONLY <2>1, n \in Int, sum \in Int, ScaledTotal
  <2>3. QED
    BY <1>13, <2>2
<1>15. Total(a) = sum /\ Len(a) = n
  BY <1>2
<1>16. n * sum - sum * n = 0
  <2>1. n * sum = sum * n /\ n * sum \in Int
    BY ONLY n \in Int, sum \in Int
  <2>2. QED
    BY <2>1
<1>17. QED
  BY <1>14, <1>15, <1>16

\* What preparation promises of its frames.
PreparedOK(frames, whole) ==
  /\ \A s \in Splits :
       /\ FrameOK(frames[s])
       /\ whole => \A x \in ToSet(frames[s].columns) : Values(frames[s], x) \cap {Missing, Infinite} = {}
       /\ \A i \in DOMAIN frames[s].rows : frames[s].rows[i].label >= 0
  /\ \A x \in frames["train"].numeric :
       IF x[2] = None THEN Total(Present(frames["train"], x)) = 0 ELSE 1 \in Values(frames["train"], x)

\* One prepared split.
LEMMA OnePrepared ==
  ASSUME NEW t, NEW splits, SplitUp(t, splits), NEW fitted, fitted = FitTransforms(t, splits),
         NEW columns, columns = PreparedColumns(t, fitted), NEW s \in Splits,
         NEW frame, frame = PreparedFrame(t, fitted, columns, splits[s])
  PROVE  /\ FrameOK(frame) /\ frame.columns = columns
         /\ frame.numeric = {x \in ToSet(columns) : x[2] # None \/ x[1] \in DOMAIN fitted.scaler}
         /\ Whole(t, ToSet(t.columns)) => \A x \in ToSet(columns) : Values(frame, x) \cap {Missing, Infinite} = {}
         /\ \A i \in DOMAIN frame.rows : frame.rows[i].label >= 0
<1> PICK rows : rows = splits[s]
  OBVIOUS
<1>1. Listed(rows) /\ ToSet(rows) \subseteq ToSet(t.rows)
  BY DEF SplitUp
<1>2. Learned(t, splits, fitted)
  BY FittedFacts
<1>3. /\ frame.columns = columns /\ Listed(frame.rows) /\ DOMAIN frame.rows = DOMAIN rows
      /\ frame.numeric = {x \in ToSet(columns) : x[2] # None \/ x[1] \in DOMAIN fitted.scaler}
      /\ \A i \in DOMAIN rows :
           /\ "cell" \in DOMAIN frame.rows[i]
           /\ frame.rows[i].label = ApplyLabelEncoder(fitted.classes, rows[i].cell[Label])
           /\ \A x \in ToSet(columns) : frame.rows[i].cell[x] = Prepared(fitted, x, rows[i].cell[x[1]])
  <2>1. frame = PreparedFrame(t, fitted, columns, rows)
    OBVIOUS
  <2>2. QED
    BY ONLY <1>1, <2>1, PreparedRows
<1>4. Listed(columns)
  <2>1. IsTable(t)
    BY DEF SplitUp, CellsOf
  <2>2. \A c \in ToSet(Encoded(t)) : Listed(fitted.categories[c])
    BY <1>2 DEF Learned
  <2>3. QED
    BY <2>1, <2>2, PreparedColumnsListed
<1>5. \A i \in DOMAIN rows : rows[i] \in ToSet(splits[s])
  BY DEF ToSet
<1>6. ASSUME NEW i \in DOMAIN rows, NEW x \in ToSet(columns)
      PROVE  /\ x \in frame.numeric => frame.rows[i].cell[x] \in Int \cup {Missing}
             /\ Whole(t, ToSet(t.columns)) => frame.rows[i].cell[x] \notin {Missing, Infinite}
  <2>1. rows[i] \in ToSet(splits[s])
    BY <1>5
  <2>2. /\ x[2] # None \/ x[1] \in DOMAIN fitted.scaler => Prepared(fitted, x, rows[i].cell[x[1]]) \in Int \cup {Missing}
        /\ Whole(t, ToSet(t.columns)) => Prepared(fitted, x, rows[i].cell[x[1]]) \notin {Missing, Infinite}
    BY <2>1, PreparedCells
  <2>3. QED
    BY <1>3, <2>2
<1>7. \A row \in ToSet(frame.rows) : \E i \in DOMAIN rows : row = frame.rows[i]
  BY <1>3 DEF ToSet
<1>8. FrameOK(frame)
  <2>1. \A row \in ToSet(frame.rows) :
          "cell" \in DOMAIN row /\ \A x \in frame.numeric : row.cell[x] \in Int \cup {Missing}
    BY <1>3, <1>6, <1>7
  <2>2. frame.numeric \subseteq ToSet(frame.columns)
    BY <1>3
  <2>3. QED
    BY <1>3, <1>4, <2>1, <2>2 DEF FrameOK
<1>9. ASSUME Whole(t, ToSet(t.columns)), NEW x \in ToSet(columns) PROVE Values(frame, x) \cap {Missing, Infinite} = {}
  <2>1. Values(frame, x) = {row.cell[x] : row \in ToSet(frame.rows)}
    BY <1>3, ColumnFacts
  <2>2. \A row \in ToSet(frame.rows) : row.cell[x] \notin {Missing, Infinite}
    BY <1>6, <1>7, <1>9
  <2>3. QED
    BY <2>1, <2>2
<1>10. ASSUME NEW i \in DOMAIN rows PROVE frame.rows[i].label >= 0
  <2>1. rows[i] \in ToSet(splits[s])
    BY <1>5
  <2>2. PICK other \in ToSet(splits["train"]) : other.cell[Label] = rows[i].cell[Label]
    BY <2>1 DEF SplitUp
  <2> PICK classes : classes = fitted.classes
    OBVIOUS
  <2> PICK v : v = rows[i].cell[Label]
    OBVIOUS
  <2>3. v \in ToSet(classes) /\ DOMAIN classes \subseteq Nat \ {0}
    BY <1>2, <2>2 DEF Learned
  <2>4. ApplyLabelEncoder(classes, v) >= 0
    BY <2>3, LabelLearned
  <2>5. QED
    BY <1>3, <2>4
<1>11. QED
  BY <1>3, <1>8, <1>9, <1>10

\* The splits of a table, prepared.
LEMMA AllPrepared ==
  ASSUME NEW t, NEW splits, SplitUp(t, splits), NEW fitted, fitted = FitTransforms(t, splits),
         NEW columns, columns = PreparedColumns(t, fitted),
         NEW frames, \A s \in Splits : frames[s] = PreparedFrame(t, fitted, columns, splits[s]),
         NEW whole \in BOOLEAN, whole => Whole(t, ToSet(t.columns))
  PROVE  PreparedOK(frames, whole)
<1>1. "train" \in Splits
  BY DEF Splits, SplitNames, ToSet
<1>2. \A s \in Splits :
        /\ FrameOK(frames[s]) /\ frames[s].columns = columns
        /\ frames[s].numeric = {x \in ToSet(columns) : x[2] # None \/ x[1] \in DOMAIN fitted.scaler}
        /\ Whole(t, ToSet(t.columns)) => \A x \in ToSet(columns) : Values(frames[s], x) \cap {Missing, Infinite} = {}
        /\ \A i \in DOMAIN frames[s].rows : frames[s].rows[i].label >= 0
  BY OnePrepared
<1>3. ASSUME NEW x \in frames["train"].numeric
      PROVE  IF x[2] = None THEN Total(Present(frames["train"], x)) = 0 ELSE 1 \in Values(frames["train"], x)
  <2> PICK frame : frame = frames["train"]
    OBVIOUS
  <2>1. frame = PreparedFrame(t, fitted, columns, splits["train"]) /\ x \in ToSet(columns)
        /\ (x[2] # None \/ x[1] \in DOMAIN fitted.scaler)
    BY <1>1, <1>2
  <2>2. CASE x[2] = None
    <3>1. x[1] \in DOMAIN fitted.scaler
      BY <2>1, <2>2
    <3>2. Total(Present(frame, x)) = 0
      BY <2>1, <2>2, <3>1, CenteredColumn
    <3>3. QED
      BY <2>2, <3>2
  <2>3. CASE x[2] # None
    <3> PICK rows : rows = splits["train"]
      OBVIOUS
    <3>1. PICK row \in ToSet(rows) : row.cell[x[1]] = x[2]
      BY <2>1, <2>3, PreparedNames
    <3>2. PICK i \in DOMAIN rows : row = rows[i]
      BY DEF ToSet
    <3>3. Listed(rows)
      BY <1>1 DEF SplitUp
    <3>4. /\ Listed(frame.rows) /\ DOMAIN frame.rows = DOMAIN rows
          /\ \A j \in DOMAIN rows : \A y \in ToSet(columns) : frame.rows[j].cell[y] = Prepared(fitted, y, rows[j].cell[y[1]])
      <4>1. frame = PreparedFrame(t, fitted, columns, rows)
        BY <2>1
      <4>2. QED
        BY ONLY <3>3, <4>1, PreparedRows
    <3>5. frame.rows[i].cell[x] = 1
      BY <2>1, <2>3, <3>1, <3>2, <3>4 DEF Prepared
    <3>6. frame.rows[i] \in ToSet(frame.rows)
      BY <3>2, <3>4 DEF ToSet
    <3>7. Values(frame, x) = {r.cell[x] : r \in ToSet(frame.rows)}
      BY <3>4, ColumnFacts
    <3>8. 1 \in Values(frame, x)
      BY <3>5, <3>6, <3>7
    <3>9. QED
      BY <2>3, <3>8
  <2>4. QED
    BY <2>2, <2>3
<1>4. QED
  BY <1>2, <1>3 DEF PreparedOK

Fills(cleaning) == "none" \notin {cleaning.numbers, cleaning.words}

\* What run_pipeline returns.
LEMMA PipelinePrepared ==
  ASSUME Halves, NEW files, NEW cleaning \in Cleanings, NEW result, result = PrepareSplits(CleanTable(files, cleaning)), result # None,
         \A f \in {TrainFile, TestFile} : files[f] # None => IsRaw(files[f], files)
  PROVE  PreparedOK(result.frames, Fills(cleaning))
<1> PICK loaded : loaded = LoadRaw(files)
  OBVIOUS
<1> PICK table : table = IF loaded = None THEN None ELSE IF SchemaFails(loaded) THEN None
                         ELSE CleanDataset(loaded, cleaning)
  OBVIOUS
<1> PICK splits : splits = IF table = None THEN None
                           ELSE IF Label \notin ToSet(table.columns) THEN None ELSE TrainValTestSplit(table.rows)
  OBVIOUS
<1> PICK fitted : fitted = FitTransforms(table, splits)
  OBVIOUS
<1> PICK columns : columns = PreparedColumns(table, fitted)
  OBVIOUS
<1>1. result = IF splits = None THEN None
               ELSE [ transforms |-> fitted,
                      frames |-> [s \in ToSet(SplitNames) |-> PreparedFrame(table, fitted, columns, splits[s])] ]
  BY DEF CleanTable, PrepareSplits
<1>2. /\ splits # None /\ table # None /\ loaded # None /\ table = CleanDataset(loaded, cleaning)
      /\ splits = TrainValTestSplit(table.rows) /\ Label \in ToSet(table.columns)
  BY <1>1
<1>3. CellsOf(loaded, {Infinite})
  BY <1>2, LoadedCells
<1>4. CellsOf(table, {}) /\ (Fills(cleaning) => Whole(table, ToSet(table.columns)))
  BY <1>2, <1>3, CleanedCells DEF Fills
<1>5. Listed(table.rows)
  BY <1>4 DEF CellsOf, IsTable
<1>6. SplitUp(table, splits)
  <2> PICK rows : rows = table.rows
    OBVIOUS
  <2>1. Listed(rows) /\ splits = TrainValTestSplit(rows) /\ splits # None
    BY <1>2, <1>5
  <2>2. \A s \in Splits :
          /\ Listed(splits[s]) /\ ToSet(splits[s]) \subseteq ToSet(rows)
          /\ \A row \in ToSet(splits[s]) : \E other \in ToSet(splits["train"]) : other.cell[Label] = row.cell[Label]
    BY <2>1, SplitsFacts
  <2>3. QED
    BY <1>2, <1>4, <2>2 DEF SplitUp
<1> PICK frames : frames = result.frames
  OBVIOUS
<1>7. \A s \in Splits : frames[s] = PreparedFrame(table, fitted, columns, splits[s])
  BY <1>1, <1>2 DEF Splits
<1> PICK whole \in BOOLEAN : whole = Fills(cleaning)
  BY DEF Fills
<1>8. whole => Whole(table, ToSet(table.columns))
  BY <1>4
<1>9. PreparedOK(frames, whole)
  BY ONLY <1>6, <1>7, <1>8, fitted = FitTransforms(table, splits), columns = PreparedColumns(table, fitted),
          whole \in BOOLEAN, AllPrepared
<1>10. QED
  BY <1>9

-----------------------------------------------------------------------------
(* Selection. *)

\* Columns of numbers and holes.
IsColumn(a) == Listed(a) /\ ToSet(a) \subseteq Int \cup {Missing}

\* The places where both columns have a value.
LEMMA BothFacts ==
  ASSUME NEW a, NEW b, IsColumn(a), IsColumn(b), DOMAIN a = DOMAIN b, NEW rows, rows = Both(a, b)
  PROVE  /\ Listed(rows) /\ Len(rows) \in Nat /\ DOMAIN rows = 1..Len(rows) /\ rows = Both(b, a)
         /\ ToSet(rows) = {i \in DOMAIN a : a[i] # Missing /\ b[i] # Missing}
         /\ \A k \in DOMAIN rows : rows[k] \in DOMAIN a /\ a[rows[k]] \in Int /\ b[rows[k]] \in Int
<1> PICK S : S = {i \in DOMAIN a : a[i] # Missing /\ b[i] # Missing}
  OBVIOUS
<1>1. rows = Chosen(Indices(a), S)
  BY DEF Both
<1>2. rows = Both(b, a)
  <2>1. Indices(a) = Indices(b)
    BY DEF Indices
  <2>2. S = {i \in DOMAIN b : b[i] # Missing /\ a[i] # Missing}
    OBVIOUS
  <2>3. QED
    BY <1>1, <2>1, <2>2 DEF Both
<1>3. Listed(a)
  BY DEF IsColumn
<1>4. Listed(Indices(a))
  BY <1>3, IndicesListed
<1>5. Listed(rows) /\ ToSet(rows) = ToSet(Indices(a)) \cap S
  BY <1>1, <1>4, ChosenFacts
<1>6. ToSet(rows) = S
  <2>1. ToSet(Indices(a)) = DOMAIN a
    BY DEF Indices, ToSet
  <2>2. QED
    BY <1>5, <2>1
<1>7. \A k \in DOMAIN rows : rows[k] \in S
  BY <1>6 DEF ToSet
<1>8. \A i \in DOMAIN a : a[i] \in Int \cup {Missing} /\ b[i] \in Int \cup {Missing}
  BY DEF IsColumn, ToSet
<1>9. Len(rows) \in Nat /\ DOMAIN rows = 1..Len(rows)
  BY <1>5 DEF Listed
<1>10. QED
  BY <1>2, <1>5, <1>6, <1>7, <1>8, <1>9

\* A sequence of numbers, from what its elements are.
LEMMA MapInts ==
  ASSUME NEW rows, Len(rows) \in Nat, DOMAIN rows = 1..Len(rows), NEW f, f = [k \in DOMAIN rows |-> f[k]],
         \A k \in DOMAIN rows : f[k] \in Int
  PROVE  f \in Seq(Int) /\ Len(f) = Len(rows)
<1> PICK n \in Nat : n = Len(rows)
  OBVIOUS
<1>1. f = [k \in 1..n |-> f[k]] /\ \A k \in 1..n : f[k] \in Int
  OBVIOUS
<1>2. f \in Seq(Int) /\ Len(f) = n
  BY ONLY <1>1, n \in Nat
<1>3. QED
  BY <1>2

\* What the covariance is made of.
LEMMA CovarianceParts ==
  ASSUME NEW rows, Len(rows) \in Nat, DOMAIN rows = 1..Len(rows), NEW a, NEW b,
         \A k \in DOMAIN rows : a[rows[k]] \in Int /\ b[rows[k]] \in Int
  PROVE  \E x, y, z \in Seq(Int) :
           /\ Len(x) = Len(rows) /\ Len(y) = Len(rows) /\ Len(z) = Len(rows)
           /\ \A k \in DOMAIN rows : x[k] = a[rows[k]] /\ y[k] = b[rows[k]] /\ z[k] = x[k] * y[k]
           /\ Covariance(a, b, rows) = Len(rows) * Total(z) - Total(x) * Total(y)
           /\ Covariance(b, a, rows) = Len(rows) * Total(z) - Total(y) * Total(x)
           /\ Covariance(a, b, rows) \in Int
<1> PICK x : x = [k \in DOMAIN rows |-> a[rows[k]]]
  OBVIOUS
<1> PICK y : y = [k \in DOMAIN rows |-> b[rows[k]]]
  OBVIOUS
<1> PICK z : z = [k \in DOMAIN rows |-> x[k] * y[k]]
  OBVIOUS
<1>1. \A k \in DOMAIN rows : x[k] \in Int /\ y[k] \in Int /\ z[k] \in Int /\ z[k] = x[k] * y[k] /\ z[k] = y[k] * x[k]
  OBVIOUS
<1>2. /\ x = [k \in DOMAIN rows |-> x[k]] /\ y = [k \in DOMAIN rows |-> y[k]] /\ z = [k \in DOMAIN rows |-> z[k]]
      /\ z = [k \in DOMAIN rows |-> y[k] * x[k]]
  BY <1>1
<1>3. x \in Seq(Int) /\ Len(x) = Len(rows)
  BY <1>1, <1>2, MapInts
<1>4. y \in Seq(Int) /\ Len(y) = Len(rows)
  BY <1>1, <1>2, MapInts
<1>5. z \in Seq(Int) /\ Len(z) = Len(rows)
  BY <1>1, <1>2, MapInts
<1>6. Covariance(a, b, rows) = Len(rows) * Total(z) - Total(x) * Total(y)
  BY DEF Covariance
<1>7. Covariance(b, a, rows) = Len(rows) * Total(z) - Total(y) * Total(x)
  BY <1>2 DEF Covariance
<1>8. Total(x) \in Int /\ Total(y) \in Int /\ Total(z) \in Int
  BY <1>3, <1>4, <1>5, TotalIs
<1>9. Covariance(a, b, rows) \in Int
  <2>0. Len(rows) \in Int
    BY ONLY Len(rows) \in Nat
  <2> PICK n \in Int : n = Len(rows)
    BY ONLY <2>0
  <2> PICK p \in Int : p = Total(x)
    BY <1>8
  <2> PICK q \in Int : q = Total(y)
    BY <1>8
  <2> PICK r \in Int : r = Total(z)
    BY <1>8
  <2>1. n * r - p * q \in Int
    BY ONLY n \in Int, p \in Int, q \in Int, r \in Int
  <2>2. QED
    BY <1>6, <2>1
<1>10. QED
  BY <1>1, <1>3, <1>4, <1>5, <1>6, <1>7, <1>9

\* The covariance is the same both ways.
LEMMA CovarianceSymmetric ==
  ASSUME NEW rows, Len(rows) \in Nat, DOMAIN rows = 1..Len(rows), NEW a, NEW b,
         \A k \in DOMAIN rows : a[rows[k]] \in Int /\ b[rows[k]] \in Int
  PROVE  Covariance(a, b, rows) = Covariance(b, a, rows) /\ Covariance(a, b, rows) \in Int
<1>1. PICK x \in Seq(Int), y \in Seq(Int), z \in Seq(Int) :
        /\ Len(x) = Len(rows) /\ Len(y) = Len(rows) /\ Len(z) = Len(rows)
        /\ \A k \in DOMAIN rows : x[k] = a[rows[k]] /\ y[k] = b[rows[k]] /\ z[k] = x[k] * y[k]
        /\ Covariance(a, b, rows) = Len(rows) * Total(z) - Total(x) * Total(y)
        /\ Covariance(b, a, rows) = Len(rows) * Total(z) - Total(y) * Total(x)
        /\ Covariance(a, b, rows) \in Int
  BY CovarianceParts, Zenon
<1>2. Total(x) \in Int /\ Total(y) \in Int
  BY TotalIs
<1>3. Total(x) * Total(y) = Total(y) * Total(x)
  BY <1>2
<1>4. QED
  BY <1>1, <1>3

\* What Correlated asks of two columns.
AreCorrelated(a, b) ==
  LET rows == Both(a, b)
      v == Covariance(a, a, rows) * Covariance(b, b, rows)
      c == Covariance(a, b, rows)
  IN v > 0 /\ 10 * c * c >= Threshold * v

LEMMA CorrelatedSymmetric ==
  ASSUME NEW a, NEW b, IsColumn(a), IsColumn(b), DOMAIN a = DOMAIN b
  PROVE  AreCorrelated(a, b) <=> AreCorrelated(b, a)
<1> PICK rows : rows = Both(a, b)
  OBVIOUS
<1>1. /\ Len(rows) \in Nat /\ DOMAIN rows = 1..Len(rows) /\ rows = Both(b, a)
      /\ \A k \in DOMAIN rows : a[rows[k]] \in Int /\ b[rows[k]] \in Int
  BY BothFacts
<1> PICK p : p = Covariance(a, a, rows)
  OBVIOUS
<1> PICK q : q = Covariance(b, b, rows)
  OBVIOUS
<1> PICK c : c = Covariance(a, b, rows)
  OBVIOUS
<1>2. c = Covariance(b, a, rows)
  BY <1>1, CovarianceSymmetric
<1>3. p \in Int /\ q \in Int
  <2>1. p \in Int
    BY <1>1, CovarianceSymmetric
  <2>2. q \in Int
    BY <1>1, CovarianceSymmetric
  <2>3. QED
    BY <2>1, <2>2
<1>4. p * q = q * p
  BY <1>3
<1>5. AreCorrelated(a, b) <=> (p * q > 0 /\ 10 * c * c >= Threshold * (p * q))
  BY DEF AreCorrelated
<1>6. AreCorrelated(b, a) <=> (q * p > 0 /\ 10 * c * c >= Threshold * (q * p))
  BY <1>1, <1>2 DEF AreCorrelated
<1>7. QED
  BY <1>4, <1>5, <1>6

\* What the variance is made of.
LEMMA VarianceParts ==
  ASSUME NEW a, IsColumn(a)
  PROVE  \E x \in Seq(Int) :
           /\ Variance(a) = Len(x) * Total(Squares(x)) - Total(x) * Total(x)
           /\ \A k \in 1..Len(x) : \E i \in DOMAIN a : x[k] = a[i]
           /\ \A i \in DOMAIN a : a[i] # Missing => \E k \in 1..Len(x) : x[k] = a[i]
<1> PICK rows : rows = Both(a, a)
  OBVIOUS
<1>1. /\ Len(rows) \in Nat /\ DOMAIN rows = 1..Len(rows)
      /\ ToSet(rows) = {i \in DOMAIN a : a[i] # Missing /\ a[i] # Missing}
      /\ \A k \in DOMAIN rows : rows[k] \in DOMAIN a /\ a[rows[k]] \in Int /\ a[rows[k]] \in Int
  BY BothFacts
<1> PICK x : x = [k \in DOMAIN rows |-> a[rows[k]]]
  OBVIOUS
<1>2. x = [k \in DOMAIN rows |-> x[k]] /\ \A k \in DOMAIN rows : x[k] \in Int /\ x[k] = a[rows[k]]
  BY <1>1
<1>3. x \in Seq(Int) /\ Len(x) = Len(rows)
  BY <1>1, <1>2, MapInts
<1>4. Variance(a) = Len(x) * Total(Squares(x)) - Total(x) * Total(x)
  <2>1. Squares(x) = [k \in DOMAIN rows |-> x[k] * x[k]]
    BY <1>2 DEF Squares
  <2>2. Variance(a) = Len(rows) * Total([k \in DOMAIN rows |-> x[k] * x[k]]) - Total(x) * Total(x)
    BY DEF Variance, Covariance
  <2>3. QED
    BY <1>3, <2>1, <2>2
<1>5. \A k \in 1..Len(x) : \E i \in DOMAIN a : x[k] = a[i]
  BY <1>1, <1>2, <1>3
<1>6. ASSUME NEW i \in DOMAIN a, a[i] # Missing PROVE \E k \in 1..Len(x) : x[k] = a[i]
  <2>1. i \in ToSet(rows)
    BY <1>1, <1>6
  <2>2. PICK k \in DOMAIN rows : rows[k] = i
    BY <2>1 DEF ToSet
  <2>3. QED
    BY <1>1, <1>2, <1>3, <2>2
<1>7. QED
  BY <1>3, <1>4, <1>5, <1>6

\* A column of one number has no variance.
LEMMA ConstantVariance ==
  ASSUME NEW a, IsColumn(a), NEW v \in Int, \A i \in DOMAIN a : a[i] = v
  PROVE  Variance(a) = 0
<1>1. PICK x \in Seq(Int) :
        /\ Variance(a) = Len(x) * Total(Squares(x)) - Total(x) * Total(x)
        /\ \A k \in 1..Len(x) : \E i \in DOMAIN a : x[k] = a[i]
  BY VarianceParts
<1>2. \A k \in 1..Len(x) : x[k] = v
  BY <1>1
<1> PICK n \in Int : n = Len(x)
  OBVIOUS
<1> PICK w \in Int : w = v * v
  OBVIOUS
<1>3. Total(x) = n * v
  BY <1>2, TotalConstant
<1>4. Total(Squares(x)) = n * w
  <2>1. Squares(x) \in Seq(Int) /\ Len(Squares(x)) = Len(x)
    BY SquaresSeq
  <2>2. \A k \in 1..Len(x) : Squares(x)[k] = x[k] * x[k]
    BY DEF Squares
  <2>3. \A k \in 1..Len(Squares(x)) : Squares(x)[k] = w
    BY <1>2, <2>1, <2>2
  <2> PICK y \in Seq(Int) : y = Squares(x)
    BY <2>1
  <2>4. Total(y) = Len(y) * w
    BY <2>3, TotalConstant
  <2>5. QED
    BY <2>1, <2>4
<1>5. n * (n * w) = (n * v) * (n * v)
  BY ONLY n \in Int, v \in Int, w = v * v
<1>6. n * (n * w) \in Int
  OBVIOUS
<1>7. QED
  BY <1>1, <1>3, <1>4, <1>5, <1>6

\* A column of two numbers has one.
LEMMA VaryingVariance ==
  ASSUME NEW a, IsColumn(a), NEW i \in DOMAIN a, NEW j \in DOMAIN a, a[i] # Missing, a[j] # Missing, a[i] # a[j]
  PROVE  Variance(a) > 0
<1>1. PICK x \in Seq(Int) :
        /\ Variance(a) = Len(x) * Total(Squares(x)) - Total(x) * Total(x)
        /\ \A k \in 1..Len(x) : \E l \in DOMAIN a : x[k] = a[l]
        /\ \A l \in DOMAIN a : a[l] # Missing => \E k \in 1..Len(x) : x[k] = a[l]
  BY VarianceParts
<1>2. PICK k \in 1..Len(x), l \in 1..Len(x) : x[k] = a[i] /\ x[l] = a[j]
  BY <1>1
<1>3. Len(x) * Total(Squares(x)) - Total(x) * Total(x) > 0
  BY <1>2, Spread
<1>4. QED
  BY <1>1, <1>3

\* What is chosen of a list by a set that has it all is as long as the list.
LEMMA ChosenAll ==
  ASSUME NEW seq, Listed(seq), NEW S, ToSet(seq) \subseteq S
  PROVE  Len(Chosen(seq, S)) = Len(seq)
<1>1. PICK run : /\ run[0] = <<>>
                 /\ \A k \in 1..Len(seq) : run[k] = IF seq[k] \in S THEN Append(run[k - 1], seq[k]) ELSE run[k - 1]
                 /\ run[Len(seq)] = Chosen(seq, S)
  BY ChosenRuns
<1> DEFINE Y == ToSet(seq)
           N == Len(seq)
           P(k) == run[k] \in Seq(Y) /\ Len(run[k]) = k
           T == {k \in Nat : k <= N => P(k)}
<1>2. N \in Nat /\ \A k \in 1..N : seq[k] \in Y /\ seq[k] \in S
  BY DEF Listed, ToSet
<1>3. 0 \in T
  <2>1. P(0)
    <3>1. run[0] = <<>>
      BY <1>1
    <3> HIDE DEF Y
    <3>2. QED
      BY <3>1
  <2> HIDE DEF P
  <2>2. QED
    BY <2>1
<1>4. ASSUME NEW k \in T PROVE k + 1 \in T
  <2>0. k \in Nat /\ k + 1 \in Nat
    OBVIOUS
  <2> SUFFICES ASSUME k + 1 <= N PROVE P(k + 1)
    <3> HIDE DEF P
    <3>1. QED
      BY <2>0
  <2>1. k + 1 \in 1..N /\ k <= N /\ (k + 1) - 1 = k
    BY <1>2, <2>0
  <2>2. P(k)
    <3> HIDE DEF P
    <3>1. QED
      BY <2>1
  <2>3. run[k + 1] = Append(run[k], seq[k + 1])
    <3>1. run[k + 1] = Append(run[(k + 1) - 1], seq[k + 1])
      BY <1>1, <1>2, <2>1
    <3>2. QED
      BY <2>1, <3>1
  <2> HIDE DEF Y
  <2>4. QED
    BY <1>2, <2>1, <2>2, <2>3
<1>5. N \in T
  <2>1. T \subseteq Nat
    OBVIOUS
  <2> HIDE DEF T
  <2>2. QED
    BY <1>2, <1>3, <1>4, <2>1, Inductive
<1>6. P(N)
  <2> HIDE DEF P
  <2>1. QED
    BY <1>2, <1>5
<1>7. QED
  BY <1>1, <1>6

-----------------------------------------------------------------------------
(* Filters. *)

\* The columns that are selected from are numbers in the training split.
LEMMA FeatureFacts ==
  ASSUME NEW frame, FrameOK(frame), NEW original, original = FeatureColumns(frame)
  PROVE  /\ Listed(original) /\ ToSet(original) \subseteq frame.numeric
         /\ \A x \in ToSet(original) : IsColumn(Column(frame, x)) /\ DOMAIN Column(frame, x) = DOMAIN frame.rows
<1>1. Listed(frame.columns) /\ Listed(frame.rows)
  BY DEF FrameOK
<1>2. Listed(original) /\ ToSet(original) \subseteq frame.numeric
  <2> PICK S : S = {x \in frame.numeric : ~(x[2] = None /\ x[1] \in Provenance)}
    OBVIOUS
  <2>1. original = Chosen(frame.columns, S) /\ S \subseteq frame.numeric
    BY DEF FeatureColumns
  <2>2. Listed(Chosen(frame.columns, S)) /\ ToSet(Chosen(frame.columns, S)) = ToSet(frame.columns) \cap S
    BY ONLY <1>1, ChosenFacts
  <2>3. QED
    BY <2>1, <2>2
<1>3. ASSUME NEW x \in frame.numeric PROVE IsColumn(Column(frame, x)) /\ DOMAIN Column(frame, x) = DOMAIN frame.rows
  <2> PICK a : a = Column(frame, x)
    OBVIOUS
  <2>1. Listed(a) /\ DOMAIN a = DOMAIN frame.rows /\ \A i \in DOMAIN frame.rows : a[i] = frame.rows[i].cell[x]
    BY <1>1, ColumnFacts
  <2>2. \A i \in DOMAIN frame.rows : frame.rows[i] \in ToSet(frame.rows)
    BY DEF ToSet
  <2>3. \A i \in DOMAIN a : a[i] \in Int \cup {Missing}
    BY <2>1, <2>2 DEF FrameOK
  <2>4. ToSet(a) \subseteq Int \cup {Missing}
    BY <2>3 DEF ToSet
  <2>5. QED
    BY <2>1, <2>4 DEF IsColumn
<1>4. QED
  BY <1>2, <1>3

\* The variance threshold keeps a list of the columns that vary.
LEMMA VarianceFacts ==
  ASSUME NEW frame, NEW columns, Listed(columns), NEW varying, varying = FitVarianceThreshold(frame, columns)
  PROVE  /\ Listed(varying)
         /\ ToSet(varying) =
              {x \in ToSet(columns) : Len(Present(frame, x)) <= 1 \/ Variance(Column(frame, x)) > 0}
<1> PICK S : S = {x \in ToSet(columns) : Len(Present(frame, x)) <= 1 \/ Variance(Column(frame, x)) > 0}
  OBVIOUS
<1>1. varying = Chosen(columns, S) /\ S \subseteq ToSet(columns)
  BY DEF FitVarianceThreshold
<1>2. Listed(Chosen(columns, S)) /\ ToSet(Chosen(columns, S)) = ToSet(columns) \cap S
  BY ChosenFacts
<1>3. QED
  BY <1>1, <1>2

\* No two of these columns say the same.
SayDifferent(frame, columns) == \A i, j \in DOMAIN columns : i # j => ~Correlated(frame, columns[i], columns[j])

\* Correlation does not depend on the order, nor on other columns.
LEMMA CorrelatedBothWays ==
  ASSUME NEW frame, FrameOK(frame), NEW x \in frame.numeric, NEW y \in frame.numeric
  PROVE  Correlated(frame, x, y) <=> Correlated(frame, y, x)
<1> PICK a : a = Column(frame, x)
  OBVIOUS
<1> PICK b : b = Column(frame, y)
  OBVIOUS
<1>1. ASSUME NEW z \in frame.numeric PROVE IsColumn(Column(frame, z)) /\ DOMAIN Column(frame, z) = DOMAIN frame.rows
  <2> PICK c : c = Column(frame, z)
    OBVIOUS
  <2>0. Listed(frame.rows)
    BY DEF FrameOK
  <2>1. Listed(c) /\ DOMAIN c = DOMAIN frame.rows /\ \A i \in DOMAIN frame.rows : c[i] = frame.rows[i].cell[z]
    BY <2>0, ColumnFacts
  <2>2. \A i \in DOMAIN frame.rows : frame.rows[i] \in ToSet(frame.rows)
    BY DEF ToSet
  <2>3. \A i \in DOMAIN c : c[i] \in Int \cup {Missing}
    BY <2>1, <2>2 DEF FrameOK
  <2>4. ToSet(c) \subseteq Int \cup {Missing}
    BY <2>3 DEF ToSet
  <2>5. QED
    BY <2>1, <2>4 DEF IsColumn
<1>2. IsColumn(a) /\ IsColumn(b) /\ DOMAIN a = DOMAIN b
  BY <1>1
<1>3. AreCorrelated(a, b) <=> AreCorrelated(b, a)
  BY <1>2, CorrelatedSymmetric
<1>4. Correlated(frame, x, y) <=> AreCorrelated(a, b)
  BY DEF Correlated, AreCorrelated
<1>5. Correlated(frame, y, x) <=> AreCorrelated(b, a)
  BY DEF Correlated, AreCorrelated
<1>6. QED
  BY <1>3, <1>4, <1>5

\* The correlation filter leaves a list of columns of which no two are
\* correlated, and the first one of all.
LEMMA CorrelationFacts ==
  ASSUME NEW frame, FrameOK(frame), NEW columns, Listed(columns), ToSet(columns) \subseteq frame.numeric,
         NEW kept, kept = FitCorrelationFilter(frame, columns)
  PROVE  /\ Listed(kept) /\ ToSet(kept) \subseteq ToSet(columns) /\ SayDifferent(frame, kept)
         /\ columns # <<>> => kept # <<>>
<1> PICK S : S = {i \in DOMAIN columns : \A j \in 1..(i-1) : ~Correlated(frame, columns[j], columns[i])}
  OBVIOUS
<1> PICK C : C = Chosen(Indices(columns), S)
  OBVIOUS
<1>1. kept = [k \in DOMAIN C |-> columns[C[k]]]
  BY DEF FitCorrelationFilter
<1>2. S \subseteq DOMAIN columns
  OBVIOUS
<1>3. Listed(kept) /\ ToSet(kept) = {columns[i] : i \in S}
  BY ONLY <1>1, <1>2, Listed(columns), C = Chosen(Indices(columns), S), ChosenRows
<1>4. Listed(Indices(columns)) /\ DOMAIN Indices(columns) = DOMAIN columns
  BY IndicesListed
<1>5. /\ ToSet(C) = ToSet(Indices(columns)) \cap S
      /\ \A i, j \in DOMAIN C : i < j =>
           \E a, b \in DOMAIN Indices(columns) : a < b /\ C[i] = Indices(columns)[a] /\ C[j] = Indices(columns)[b]
      /\ Listed(C)
  BY ONLY <1>4, C = Chosen(Indices(columns), S), ChosenFacts
<1>6. \A i \in DOMAIN C : C[i] \in S
  BY ONLY <1>5 DEF ToSet
<1>7. \A i, j \in DOMAIN C : i < j => C[i] < C[j]
  <2>1. \A a \in DOMAIN Indices(columns) : Indices(columns)[a] = a
    BY DEF Indices
  <2>2. QED
    BY <1>5, <2>1
<1>8. DOMAIN columns = 1..Len(columns) /\ Len(columns) \in Nat /\ DOMAIN C = 1..Len(C) /\ Len(C) \in Nat
  BY <1>5 DEF Listed
<1>9. ASSUME NEW i \in DOMAIN C, NEW j \in DOMAIN C, i < j PROVE ~Correlated(frame, columns[C[i]], columns[C[j]])
  <2>1. C[i] \in DOMAIN columns /\ C[j] \in S /\ C[j] \in DOMAIN columns /\ C[i] < C[j]
    BY <1>6, <1>7, <1>9
  <2>2. C[i] \in 1..(C[j] - 1)
    BY <1>8, <2>1
  <2>3. QED
    BY <2>1, <2>2
<1>10. \A i \in DOMAIN C : columns[C[i]] \in frame.numeric
  BY <1>6 DEF ToSet
<1>11. SayDifferent(frame, kept)
  <2> SUFFICES ASSUME NEW i \in DOMAIN C, NEW j \in DOMAIN C, i # j PROVE ~Correlated(frame, columns[C[i]], columns[C[j]])
    BY <1>1 DEF SayDifferent
  <2>1. i < j \/ j < i
    BY <1>8
  <2>2. CASE i < j
    BY <1>9, <2>2
  <2>3. CASE j < i
    <3>1. ~Correlated(frame, columns[C[j]], columns[C[i]])
      BY <1>9, <2>3
    <3>2. QED
      BY <1>10, <3>1, CorrelatedBothWays
  <2>4. QED
    BY <2>1, <2>2, <2>3
<1>12. ToSet(kept) \subseteq ToSet(columns)
  BY <1>2, <1>3 DEF ToSet
<1>13. ASSUME columns # <<>> PROVE kept # <<>>
  <2>1. 1 \in DOMAIN columns
    BY <1>8, <1>13
  <2>2. 1 \in S
    BY <2>1
  <2>3. ToSet(kept) # {}
    BY <1>3, <2>2
  <2>4. QED
    BY <2>3 DEF ToSet
<1>14. QED
  BY <1>3, <1>11, <1>12, <1>13

\* The score is a count.
LEMMA ScoreIsNat ==
  ASSUME NEW frame, Listed(frame.rows), NEW x
  PROVE  Score(frame, x) \in Nat
<1> PICK D : D = DOMAIN frame.rows
  OBVIOUS
<1>1. IsFiniteSet(D)
  BY SeqFinite
<1>2. IsFiniteSet(D \X D)
  BY <1>1, FS_Product
<1>3. PICK P \in SUBSET (D \X D) : Score(frame, x) = Cardinality(P)
  BY DEF Score
<1>4. IsFiniteSet(P)
  BY <1>2, FS_Subset
<1>5. QED
  BY <1>3, <1>4, FS_CardinalityType

\* The best columns are different ones of the list.
LEMMA TopFacts ==
  ASSUME NEW frame, Listed(frame.rows), NEW columns, Listed(columns), NEW retained, retained = SelectTop(frame, columns)
  PROVE  /\ Listed(retained)
         /\ \E from \in [DOMAIN retained -> DOMAIN columns] :
              /\ \A i \in DOMAIN retained : retained[i] = columns[from[i]]
              /\ \A i, j \in DOMAIN retained : i # j => from[i] # from[j]
<1> PICK D : D = DOMAIN columns
  OBVIOUS
<1> PICK n : n = Len(columns)
  OBVIOUS
<1>1. n \in Nat /\ D = 1..n /\ IsFiniteSet(D) /\ Cardinality(D) = n
  <2>1. n \in Nat /\ D = 1..n
    BY DEF Listed
  <2>2. IsFiniteSet(D) /\ Cardinality(D) = n
    BY SeqFinite
  <2>3. QED
    BY <2>1, <2>2
<1> PICK score : score = [i \in DOMAIN columns |-> Score(frame, columns[i])]
  OBVIOUS
<1>2. \A i \in D : score[i] \in Nat
  BY ScoreIsNat
<1> PICK R : R = {p \in D \X D : score[p[1]] > score[p[2]] \/ (score[p[1]] = score[p[2]] /\ p[1] < p[2])}
  OBVIOUS
<1>3. \A i, j \in D : <<j, i>> \in R <=> (score[j] > score[i] \/ (score[j] = score[i] /\ j < i))
  OBVIOUS
<1>4. IsOrder(D, R)
  <2>1. \A i \in D : i \in Int /\ score[i] \in Int
    BY <1>1, <1>2
  <2>2. \A i \in D : <<i, i>> \notin R
    BY <1>3, <2>1
  <2>3. \A u, v, w \in D : <<u, v>> \in R /\ <<v, w>> \in R => <<u, w>> \in R
    BY <1>3, <2>1
  <2>4. \A v, w \in D : v # w => <<v, w>> \in R \/ <<w, v>> \in R
    BY <1>3, <2>1
  <2>5. QED
    BY <2>2, <2>3, <2>4 DEF IsOrder
<1> DEFINE Place(i) == Cardinality({j \in DOMAIN columns : score[j] > score[i] \/ (score[j] = score[i] /\ j < i)}) + 1
<1>5. \A i \in D : Place(i) = Cardinality(Under(D, R, i)) + 1
  <2>1. ASSUME NEW i \in D
        PROVE  Under(D, R, i) = {j \in DOMAIN columns : score[j] > score[i] \/ (score[j] = score[i] /\ j < i)}
    BY <1>3 DEF Under
  <2>2. QED
    BY <2>1
<1>6. \A m \in 0..Cardinality(D) - 1 : \E i \in D : Cardinality(Under(D, R, i)) = m
  BY ONLY <1>1, <1>4, OrderRanks
<1> DEFINE picked == [k \in D |-> CHOOSE i \in DOMAIN columns : Place(i) = k]
<1>7. ASSUME NEW k \in D PROVE picked[k] \in D /\ Place(picked[k]) = k
  <2>1. k - 1 \in 0..Cardinality(D) - 1 /\ k \in Int
    BY <1>1
  <2>2. PICK i \in D : Cardinality(Under(D, R, i)) = k - 1
    BY <1>6, <2>1
  <2>3. Place(i) = (k - 1) + 1
    BY <1>5, <2>2
  <2> HIDE DEF Place
  <2>4. Place(i) = k
    BY <2>1, <2>3
  <2>5. QED
    BY <2>4
<1> PICK ranked : ranked = [k \in DOMAIN columns |-> columns[CHOOSE i \in DOMAIN columns : Place(i) = k]]
  OBVIOUS
<1>8. retained = SubSeq(ranked, 1, IF TopK < Len(ranked) THEN TopK ELSE Len(ranked))
  BY DEF SelectTop
<1> HIDE DEF Place
<1>9. \A k \in D : ranked[k] = columns[picked[k]]
  OBVIOUS
<1>10. ranked \in Seq(ToSet(columns)) /\ Len(ranked) = n
  <2>1. ranked = [k \in 1..n |-> ranked[k]]
    BY <1>1
  <2>2. \A k \in 1..n : ranked[k] \in ToSet(columns)
    BY <1>1, <1>7, <1>9 DEF ToSet
  <2> PICK Z : Z = ToSet(columns)
    OBVIOUS
  <2>3. ranked \in Seq(Z) /\ Len(ranked) = n
    BY ONLY <1>1, <2>1, <2>2, Z = ToSet(columns)
  <2>4. QED
    BY <2>3
<1>11. TopK \in Nat
  BY SelectionAssumption
<1> PICK m \in 0..n : m = IF TopK < Len(ranked) THEN TopK ELSE Len(ranked)
  BY <1>1, <1>10, <1>11
<1> HIDE DEF picked
<1>12. retained \in Seq(ToSet(columns)) /\ Len(retained) = m /\ \A i \in 1..m : retained[i] = ranked[i] /\ i \in D
  <2> PICK Z : Z = ToSet(columns)
    OBVIOUS
  <2>1. ranked \in Seq(Z) /\ Len(ranked) = n /\ retained = SubSeq(ranked, 1, m)
    BY <1>8, <1>10
  <2>2. retained \in Seq(Z) /\ Len(retained) = m /\ \A i \in 1..m : retained[i] = ranked[i]
    BY ONLY <1>1, <2>1, m \in 0..n
  <2>3. \A i \in 1..m : i \in D
    BY <1>1
  <2>4. QED
    BY <2>2, <2>3
<1>13. DOMAIN retained = 1..m /\ Listed(retained)
  BY <1>12, ListedSeq
<1> PICK from : from = [i \in 1..m |-> picked[i]]
  OBVIOUS
<1>14. from \in [DOMAIN retained -> DOMAIN columns]
  BY <1>7, <1>12, <1>13
<1>15. \A i \in DOMAIN retained : retained[i] = columns[from[i]]
  BY <1>9, <1>12, <1>13
<1>16. \A i, j \in DOMAIN retained : i # j => from[i] # from[j]
  BY <1>7, <1>12, <1>13
<1>17. QED
  BY <1>13, <1>14, <1>15, <1>16

\* A projected frame has the same columns, where it has them.
LEMMA ProjectFacts ==
  ASSUME NEW frame, FrameOK(frame), NEW columns, NEW new, new = Project(frame, columns)
  PROVE  /\ Listed(new.rows) /\ Len(new.rows) = Len(frame.rows)
         /\ \A x \in ToSet(columns) : Column(new, x) = Column(frame, x)
<1>1. Listed(frame.rows) /\ \A row \in ToSet(frame.rows) : "cell" \in DOMAIN row
  BY DEF FrameOK
<1> PICK f : f = new.rows
  OBVIOUS
<1>2. f = [i \in DOMAIN frame.rows |->
            [frame.rows[i] EXCEPT !.cell = [x \in ToSet(columns) |-> frame.rows[i].cell[x]]]]
  BY DEF Project
<1>3. f = [i \in DOMAIN frame.rows |-> f[i]] /\ DOMAIN f = DOMAIN frame.rows
  BY <1>2
<1>4. Listed(f)
  BY ONLY <1>1, <1>3, MapListed
<1>5. Len(f) = Len(frame.rows)
  BY <1>1, <1>3, <1>4 DEF Listed
<1>6. ASSUME NEW x \in ToSet(columns), NEW i \in DOMAIN frame.rows PROVE f[i].cell[x] = frame.rows[i].cell[x]
  <2>1. "cell" \in DOMAIN frame.rows[i]
    BY <1>1 DEF ToSet
  <2> PICK row : row = frame.rows[i]
    OBVIOUS
  <2>2. f[i] = [row EXCEPT !.cell = [y \in ToSet(columns) |-> row.cell[y]]]
    BY <1>2
  <2>3. f[i].cell = [y \in ToSet(columns) |-> row.cell[y]]
    BY <2>1, <2>2
  <2>4. QED
    BY <2>3
<1>7. ASSUME NEW x \in ToSet(columns) PROVE Column(new, x) = Column(frame, x)
  <2>1. Column(new, x) = [i \in DOMAIN f |-> f[i].cell[x]]
    BY DEF Column
  <2>2. Column(frame, x) = [i \in DOMAIN frame.rows |-> frame.rows[i].cell[x]]
    BY DEF Column
  <2>3. QED
    BY <1>3, <1>6, <2>1, <2>2
<1>8. QED
  BY <1>4, <1>5, <1>7

\* A retained column has more than one value, or the split one row.
LEMMA RetainedVaries ==
  ASSUME NEW frame, FrameOK(frame), NEW x \in frame.numeric,
         Len(Present(frame, x)) <= 1 \/ Variance(Column(frame, x)) > 0,
         NEW v, v \in Values(frame, x), Values(frame, x) = {v}
  PROVE  v = Missing \/ Len(frame.rows) = 1
<1> SUFFICES ASSUME v # Missing PROVE Len(frame.rows) = 1
  OBVIOUS
<1> PICK a : a = Column(frame, x)
  OBVIOUS
<1>1. Listed(frame.rows) /\ \A row \in ToSet(frame.rows) : row.cell[x] \in Int \cup {Missing}
  BY DEF FrameOK
<1>2. Listed(a) /\ Len(a) = Len(frame.rows) /\ DOMAIN a = DOMAIN frame.rows
      /\ \A i \in DOMAIN frame.rows : a[i] = frame.rows[i].cell[x]
  BY ONLY <1>1, a = Column(frame, x), ColumnFacts
<1>3. ToSet(a) = {v}
  BY DEF Values
<1>4. \A i \in DOMAIN a : a[i] = v
  BY <1>3 DEF ToSet
<1>5. v \in Int
  <2>1. PICK i \in DOMAIN a : TRUE
    BY <1>3 DEF ToSet
  <2>2. a[i] \in Int \cup {Missing}
    BY <1>1, <1>2 DEF ToSet
  <2>3. QED
    BY <1>4, <2>2
<1>6. IsColumn(a)
  BY <1>2, <1>3, <1>5 DEF IsColumn
<1>7. Variance(a) = 0
  BY <1>4, <1>5, <1>6, ConstantVariance
<1>8. Len(Present(frame, x)) = Len(a)
  <2> PICK S : S = Values(frame, x) \ {Missing}
    OBVIOUS
  <2>1. Present(frame, x) = Chosen(a, S)
    BY DEF Present
  <2>2. ToSet(a) \subseteq S
    BY <1>3
  <2>3. Len(Chosen(a, S)) = Len(a)
    BY ONLY <1>2, <2>2, ChosenAll
  <2>4. QED
    BY <2>1, <2>3
<1>9. Len(a) <= 1
  BY <1>7, <1>8
<1>10. Len(a) \in Nat /\ Len(a) # 0
  <2>1. Len(a) \in Nat /\ DOMAIN a = 1..Len(a)
    BY <1>2 DEF Listed
  <2>2. DOMAIN a # {}
    BY <1>3 DEF ToSet
  <2>3. QED
    BY <2>1, <2>2
<1>11. Len(frame.rows) = Len(a)
  BY <1>2
<1> PICK n : n = Len(a)
  OBVIOUS
<1>12. n = 1
  <2>1. n \in Nat /\ n # 0 /\ n <= 1
    BY <1>9, <1>10
  <2>2. QED
    BY ONLY <2>1
<1>13. QED
  BY <1>11, <1>12

\* What KeptApart says of a selection.
SelectionOK(result) ==
  LET kept == result.kept
      train == result.frames["train"]
      retained == result.retained
  IN /\ ToSet(retained) \subseteq ToSet(kept) /\ ToSet(kept) \subseteq ToSet(result.original)
     /\ \A i, j \in DOMAIN retained : i # j => ~Correlated(train, retained[i], retained[j])
     /\ \A x \in ToSet(retained) : \A v \in Values(train, x) :
          Values(train, x) = {v} => v = Missing \/ Len(train.rows) = 1

LEMMA PipelineSelected ==
  ASSUME NEW frames, "train" \in DOMAIN frames, FrameOK(frames["train"]),
         NEW result, result = RunFeaturePipeline(frames), result # None
  PROVE  SelectionOK(result)
<1> PICK train : train = frames["train"]
  OBVIOUS
<1> PICK original : original = FeatureColumns(train)
  OBVIOUS
<1> PICK varying : varying = FitVarianceThreshold(train, original)
  OBVIOUS
<1> PICK kept : kept = FitCorrelationFilter(train, varying)
  OBVIOUS
<1> PICK retained : retained = SelectTop(train, kept)
  OBVIOUS
<1>1. result = [ original |-> original, kept |-> kept, retained |-> retained,
                 frames |-> [s \in DOMAIN frames |-> Project(frames[s], retained)] ]
  BY DEF RunFeaturePipeline
<1> PICK new : new = Project(train, retained)
  OBVIOUS
<1>2. result.original = original /\ result.kept = kept /\ result.retained = retained /\ result.frames["train"] = new
  BY <1>1
<1>3. FrameOK(train) /\ Listed(train.rows)
  BY DEF FrameOK
<1>4. Listed(original) /\ ToSet(original) \subseteq train.numeric
  BY <1>3, FeatureFacts
<1>5. /\ Listed(varying)
      /\ ToSet(varying) = {x \in ToSet(original) : Len(Present(train, x)) <= 1 \/ Variance(Column(train, x)) > 0}
  BY <1>4, VarianceFacts
<1>6. ToSet(varying) \subseteq train.numeric
  BY <1>4, <1>5
<1>7. Listed(kept) /\ ToSet(kept) \subseteq ToSet(varying) /\ SayDifferent(train, kept)
  BY <1>3, <1>5, <1>6, CorrelationFacts
<1>8. PICK from \in [DOMAIN retained -> DOMAIN kept] :
        /\ \A i \in DOMAIN retained : retained[i] = kept[from[i]]
        /\ \A i, j \in DOMAIN retained : i # j => from[i] # from[j]
  BY <1>3, <1>7, TopFacts
<1>9. ToSet(retained) \subseteq ToSet(kept)
  BY <1>8 DEF ToSet
<1>10. ToSet(kept) \subseteq ToSet(original)
  BY <1>5, <1>7
<1>11. Len(new.rows) = Len(train.rows) /\ \A x \in ToSet(retained) : Column(new, x) = Column(train, x)
  BY <1>3, ProjectFacts
<1>12. ASSUME NEW i \in DOMAIN retained, NEW j \in DOMAIN retained, i # j
       PROVE  ~Correlated(new, retained[i], retained[j])
  <2>1. ~Correlated(train, retained[i], retained[j])
    <3>1. from[i] \in DOMAIN kept /\ from[j] \in DOMAIN kept /\ from[i] # from[j]
      BY <1>8, <1>12
    <3>2. ~Correlated(train, kept[from[i]], kept[from[j]])
      BY <1>7, <3>1 DEF SayDifferent
    <3>3. QED
      BY <1>8, <3>2
  <2>2. Column(new, retained[i]) = Column(train, retained[i]) /\ Column(new, retained[j]) = Column(train, retained[j])
    BY <1>11 DEF ToSet
  <2>3. Correlated(new, retained[i], retained[j]) <=> Correlated(train, retained[i], retained[j])
    BY <2>2 DEF Correlated
  <2>4. QED
    BY <2>1, <2>3
<1>13. ASSUME NEW x \in ToSet(retained), NEW v \in Values(new, x), Values(new, x) = {v}
       PROVE  v = Missing \/ Len(new.rows) = 1
  <2>1. Values(new, x) = Values(train, x)
    BY <1>11 DEF Values
  <2>2. x \in train.numeric /\ (Len(Present(train, x)) <= 1 \/ Variance(Column(train, x)) > 0)
    BY <1>5, <1>6, <1>7, <1>9
  <2>3. v \in Values(train, x) /\ Values(train, x) = {v}
    BY <1>13, <2>1
  <2>4. v = Missing \/ Len(train.rows) = 1
    BY <1>3, <2>2, <2>3, RetainedVaries
  <2>5. QED
    BY <1>11, <2>4
<1>14. QED
  BY <1>2, <1>9, <1>10, <1>12, <1>13 DEF SelectionOK

\* A column with two values is not removed without one that stands for it.
LEMMA OneIsKept ==
  ASSUME NEW train, FrameOK(train), NEW original, original = FeatureColumns(train),
         NEW x \in ToSet(original), Cardinality(Values(train, x) \ {Missing}) > 1
  PROVE  FitCorrelationFilter(train, FitVarianceThreshold(train, original)) # <<>>
<1> PICK varying : varying = FitVarianceThreshold(train, original)
  OBVIOUS
<1> PICK a : a = Column(train, x)
  OBVIOUS
<1>1. Listed(train.rows)
  BY DEF FrameOK
<1>2. Listed(original) /\ ToSet(original) \subseteq train.numeric /\ IsColumn(a)
  BY FeatureFacts
<1>3. /\ Listed(varying)
      /\ ToSet(varying) = {y \in ToSet(original) : Len(Present(train, y)) <= 1 \/ Variance(Column(train, y)) > 0}
  BY <1>2, VarianceFacts
<1>4. IsFiniteSet(Values(train, x))
  BY <1>1, ColumnFacts
<1> PICK S : S = Values(train, x) \ {Missing}
  OBVIOUS
<1>5. IsFiniteSet(S) /\ Cardinality(S) > 1
  <2>1. S \subseteq Values(train, x)
    OBVIOUS
  <2>2. QED
    BY <1>4, <2>1, FS_Subset
<1>6. PICK v \in S : v # Missing
  BY <1>5, MoreThanOne
<1>7. PICK w \in S : w # v
  BY <1>5, MoreThanOne
<1>8. \A u \in S : u # Missing /\ \E i \in DOMAIN a : a[i] = u
  BY DEF Values, ToSet
<1>9. PICK i \in DOMAIN a, j \in DOMAIN a : a[i] = v /\ a[j] = w
  BY <1>8
<1>10. Variance(a) > 0
  BY <1>2, <1>7, <1>8, <1>9, VaryingVariance
<1>11. x \in ToSet(varying)
  BY <1>3, <1>10
<1>12. varying # <<>>
  BY <1>11 DEF ToSet
<1>13. ToSet(varying) \subseteq train.numeric
  BY <1>2, <1>3
<1>14. FitCorrelationFilter(train, varying) # <<>>
  BY <1>3, <1>12, <1>13, CorrelationFacts
<1>15. QED
  BY <1>14

=============================================================================
