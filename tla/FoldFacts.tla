----------------------------- MODULE FoldFacts -----------------------------
(***************************************************************************)
(* Facts about the folds the model uses, by induction: a set of naturals   *)
(* that is not empty has a least element, so what holds unless there is a  *)
(* least counterexample holds.  First the fold of a sequence from its left *)
(* (FoldLeft of SequencesExt) with any operator Op, then the sum of values *)
(* over a finite set (MapThenSumSet of FiniteSetsExt).                     *)
(***************************************************************************)
EXTENDS Integers, Sequences, SequencesExt, FiniteSetTheorems,
        WellFoundedInduction, TLAPS

CONSTANT Op(_, _)   \* what the fold of a sequence does with each element

\* A set of naturals that is not empty has a least element.
LEMMA LeastNat ==
  ASSUME NEW T \in SUBSET Nat, T # {}
  PROVE  \E x \in T : \A y \in T : x <= y
<1> DEFINE R == OpToRel(<, Nat)
<1>1. IsWellFoundedOn(R, Nat)
  BY NatLessThanWellFounded
<1>2. \A x, y \in Nat : y < x => <<y, x>> \in R
  BY DEF OpToRel
<1> HIDE DEF R
<1>3. PICK x \in T : \A y \in T : ~ (<<y, x>> \in R)
  BY <1>1, WFMin
<1>4. \A y \in T : x <= y
  <2> SUFFICES ASSUME NEW y \in T, y < x PROVE FALSE
    OBVIOUS
  <2>1. x \in Nat /\ y \in Nat
    OBVIOUS
  <2> QED BY <2>1, <1>2, <1>3
<1> QED BY <1>4

\* The fold of seq from its left.
Fold(base, seq) == FoldLeft(Op, base, seq)

\* One unfolding of the partial results g of a fold over seq.
FoldStep(base, seq, g) ==
  [s \in SUBSET (DOMAIN seq) |->
     IF s = {} THEN base ELSE Op(g[s \ {Max(s)}], seq[Max(s)])]

\* The largest of the numbers from 1 to n is n.
LEMMA MaxOfInterval ==
  ASSUME NEW n \in Nat \ {0}
  PROVE  Max(1..n) = n /\ (1..n) \ {Max(1..n)} = 1..(n - 1)
<1>1. n \in 1..n /\ \A y \in 1..n : n >= y
  OBVIOUS
<1>2. Max(1..n) \in 1..n /\ \A y \in 1..n : Max(1..n) >= y
  BY <1>1 DEF Max
<1>3. Max(1..n) = n
  BY <1>1, <1>2
<1> QED BY <1>3

\* The largest of some numbers from 1 to n.
LEMMA MaxIn ==
  ASSUME NEW n \in Nat, NEW s \in SUBSET (1..n), s # {}
  PROVE  Max(s) \in s /\ \A y \in s : Max(s) >= y
<1> DEFINE T == {k \in Nat : \A y \in s : k >= y}
<1>1. n \in T
  OBVIOUS
<1>2. PICK m \in T : \A k \in T : m <= k
  <2>1. T \in SUBSET Nat /\ T # {}
    BY <1>1
  <2> HIDE DEF T
  <2> QED BY <2>1, LeastNat
<1>3. m \in s
  <2> SUFFICES ASSUME m \notin s PROVE FALSE
    OBVIOUS
  <2>1. PICK y \in s : TRUE
    OBVIOUS
  <2>2. m - 1 \in Nat /\ \A z \in s : m - 1 >= z
    <3>1. \A z \in s : z \in 1..n /\ m >= z /\ z # m
      OBVIOUS
    <3> QED BY <3>1, <2>1
  <2>3. m - 1 \in T
    BY <2>2
  <2> QED BY <1>2, <2>3
<1>4. \E x \in s : \A y \in s : x >= y
  BY <1>3
<1> QED BY <1>4 DEF Max

\* The partial results of a fold exist.
LEMMA FoldExists ==
  ASSUME NEW n \in Nat, NEW base, NEW seq, DOMAIN seq = 1..n
  PROVE  \E g : g = FoldStep(base, seq, g)
<1> DEFINE Good(m, g) ==
             /\ g = [s \in SUBSET (1..n) |-> g[s]]
             /\ \A s \in SUBSET (1..m) : s \in SUBSET (1..n) =>
                  g[s] = FoldStep(base, seq, g)[s]
           Bad == {m \in Nat : ~ \E g : Good(m, g)}
<1>1. \E g : Good(0, g)
  <2> DEFINE g == [s \in SUBSET (1..n) |-> base]
  <2>1. g = [s \in SUBSET (1..n) |-> g[s]]
    OBVIOUS
  <2>2. \A s \in SUBSET (1..0) : s = {}
    OBVIOUS
  <2>3. g[{}] = base /\ FoldStep(base, seq, g)[{}] = base
    BY DEF FoldStep
  <2>4. Good(0, g)
    BY <2>1, <2>2, <2>3
  <2> QED BY <2>4
<1>2. ASSUME NEW m \in Nat, NEW g, Good(m, g) PROVE \E h : Good(m + 1, h)
  <2> DEFINE h == FoldStep(base, seq, g)
  <2>1. h = [s \in SUBSET (1..n) |-> h[s]]
    BY DEF FoldStep
  <2>2. ASSUME NEW s \in SUBSET (1..(m + 1)), s \in SUBSET (1..n)
        PROVE  h[s] = FoldStep(base, seq, h)[s]
    <3>1. CASE s = {}
      BY <3>1 DEF FoldStep
    <3>2. CASE s # {}
      <4> DEFINE r == s \ {Max(s)}
      <4>1. Max(s) \in s
        BY <2>2, <3>2, MaxIn
      <4>2. r \in SUBSET (1..n)
        BY <2>2
      <4>3. r \in SUBSET (1..m)
        <5> SUFFICES ASSUME NEW x \in r PROVE x \in 1..m
          OBVIOUS
        <5>1. x \in s /\ x # Max(s) /\ x \in 1..(m + 1) /\ Max(s) \in 1..(m + 1)
          BY <2>2, <4>1
        <5>2. Max(s) >= x
          BY <2>2, <3>2, <5>1, MaxIn
        <5> QED BY <5>1, <5>2
      <4>4. g[r] = h[r]
        BY <1>2, <4>2, <4>3
      <4>5. /\ h[s] = Op(g[r], seq[Max(s)])
            /\ FoldStep(base, seq, h)[s] = Op(h[r], seq[Max(s)])
        BY <2>2, <3>2 DEF FoldStep
      <4> QED BY <4>4, <4>5
    <3> QED BY <3>1, <3>2
  <2> HIDE DEF h
  <2>3. Good(m + 1, h)
    BY <2>1, <2>2
  <2> QED BY <2>3
<1>3. Bad = {}
  <2> SUFFICES ASSUME Bad # {} PROVE FALSE
    OBVIOUS
  <2> HIDE DEF Good
  <2>1. PICK m \in Bad : \A y \in Bad : m <= y
    BY LeastNat
  <2>2. m \in Nat /\ m # 0 /\ ~ \E g : Good(m, g)
    BY <1>1
  <2>3. m - 1 \in Nat /\ m - 1 \notin Bad
    BY <2>1, <2>2
  <2>4. PICK g : Good(m - 1, g)
    BY <2>3
  <2>5. \E h : Good(m - 1 + 1, h)
    BY <2>3, <2>4, <1>2
  <2>6. m - 1 + 1 = m
    BY <2>2
  <2> QED BY <2>2, <2>5, <2>6
<1>4. PICK g : Good(n, g)
  BY <1>3
<1>5. g = FoldStep(base, seq, g)
  BY <1>4 DEF FoldStep
<1> QED BY <1>5

\* A fold of a sequence goes through partial results, from the first element
\* to the last.
LEMMA FoldLeftSteps ==
  ASSUME NEW n \in Nat, NEW base, NEW seq, DOMAIN seq = 1..n
  PROVE  \E acc : /\ acc[0] = base
                  /\ \A i \in 1..n : acc[i] = Op(acc[i - 1], seq[i])
                  /\ Fold(base, seq) = acc[n]
<1> DEFINE g == CHOOSE h : h = FoldStep(base, seq, h)
           acc == [i \in 0..n |-> g[1..i]]
<1>1. g = FoldStep(base, seq, g)
  BY FoldExists
<1>2. Fold(base, seq) = g[DOMAIN seq]
  BY DEF Fold, FoldLeft, MapThenFoldSet, FoldStep
<1> HIDE DEF g
<1>3. acc[0] = base
  <2>1. acc[0] = g[1..0] /\ 1..0 = {}
    OBVIOUS
  <2>2. g[{}] = base
    BY <1>1 DEF FoldStep
  <2> QED BY <2>1, <2>2
<1>4. ASSUME NEW i \in 1..n PROVE acc[i] = Op(acc[i - 1], seq[i])
  <2>1. Max(1..i) = i /\ (1..i) \ {Max(1..i)} = 1..(i - 1)
    BY MaxOfInterval
  <2>2. 1..i \in SUBSET (1..n) /\ 1..i # {}
    OBVIOUS
  <2>3. g[1..i] = Op(g[(1..i) \ {Max(1..i)}], seq[Max(1..i)])
    BY <1>1, <2>2 DEF FoldStep
  <2>4. g[1..i] = Op(g[1..(i - 1)], seq[i])
    BY <2>1, <2>3
  <2>5. acc[i] = g[1..i] /\ acc[i - 1] = g[1..(i - 1)]
    OBVIOUS
  <2> QED BY <2>4, <2>5
<1>5. Fold(base, seq) = acc[n]
  BY <1>2
<1> HIDE DEF acc
<1> QED BY <1>3, <1>4, <1>5

\* Induction over a fold: what holds of the base, and is kept by each step,
\* holds of the result.  Good holds the pairs of how many elements have been
\* taken and a partial result.
LEMMA FoldLeftInduction ==
  ASSUME NEW n \in Nat, NEW base, NEW seq, DOMAIN seq = 1..n, NEW Good,
         <<0, base>> \in Good,
         \A i \in 1..n : \A st :
           <<i - 1, st>> \in Good => <<i, Op(st, seq[i])>> \in Good
  PROVE  <<n, Fold(base, seq)>> \in Good
<1>1. PICK acc : /\ acc[0] = base
                 /\ \A i \in 1..n : acc[i] = Op(acc[i - 1], seq[i])
                 /\ Fold(base, seq) = acc[n]
  BY FoldLeftSteps
<1> DEFINE Bad == {i \in 0..n : <<i, acc[i]>> \notin Good}
<1>2. Bad = {}
  <2> SUFFICES ASSUME Bad # {} PROVE FALSE
    OBVIOUS
  <2>1. PICK m \in Bad : \A y \in Bad : m <= y
    <3>1. Bad \in SUBSET Nat
      OBVIOUS
    <3> HIDE DEF Bad
    <3> QED BY <3>1, LeastNat
  <2>2. m \in 1..n
    BY <1>1
  <2>3. m - 1 \in 0..n /\ m - 1 \notin Bad
    BY <2>1, <2>2
  <2>4. <<m - 1, acc[m - 1]>> \in Good
    BY <2>3
  <2>5. <<m, Op(acc[m - 1], seq[m])>> \in Good
    BY <2>2, <2>4
  <2> QED BY <1>1, <2>2, <2>5
<1> QED BY <1>1, <1>2
\* Folding one element more is one more step.
LEMMA FoldLeftAppend ==
  ASSUME NEW n \in Nat, NEW base, NEW seq, DOMAIN seq = 1..n,
         NEW more, DOMAIN more = 1..(n + 1),
         \A i \in 1..n : more[i] = seq[i]
  PROVE  Fold(base, more) = Op(Fold(base, seq), more[n + 1])
<1>1. n + 1 \in Nat
  OBVIOUS
<1>2. PICK acc : /\ acc[0] = base
                 /\ \A i \in 1..(n + 1) : acc[i] = Op(acc[i - 1], more[i])
                 /\ Fold(base, more) = acc[n + 1]
  BY <1>1, FoldLeftSteps
<1> DEFINE Good == {<<i, acc[i]>> : i \in 0..n}
<1>3. <<0, base>> \in Good
  BY <1>2
<1>4. ASSUME NEW i \in 1..n, NEW st, <<i - 1, st>> \in Good
      PROVE  <<i, Op(st, seq[i])>> \in Good
  <2>1. st = acc[i - 1]
    BY <1>4
  <2>2. i \in 1..(n + 1) /\ i \in 0..n
    OBVIOUS
  <2>3. acc[i] = Op(st, seq[i])
    BY <1>2, <2>1, <2>2
  <2> QED BY <2>2, <2>3
<1> HIDE DEF Good
<1>5. <<n, Fold(base, seq)>> \in Good
  BY <1>3, <1>4, FoldLeftInduction
<1>6. Fold(base, seq) = acc[n]
  BY <1>5 DEF Good
<1>7. n + 1 \in 1..(n + 1) /\ n + 1 - 1 = n
  OBVIOUS
<1>8. acc[n + 1] = Op(acc[n], more[n + 1])
  BY <1>2, <1>7
<1> QED BY <1>2, <1>6, <1>8
----------------------------------------------------------------------------
(* Sums over finite sets.                                                  *)

\* The element that a fold takes out of s next.
Pick(s) == CHOOSE x \in s : TRUE

\* The sum of the values of w.
SumOf(w, S) == MapThenSumSet(LAMBDA t : w[t], S)

\* One unfolding of the partial sums g.
SumStep(w, S, g) ==
  [s \in SUBSET S |-> IF s = {} THEN 0 ELSE w[Pick(s)] + g[s \ {Pick(s)}]]

PartialSums(w, S) == CHOOSE g : g = SumStep(w, S, g)

\* The picked element is one of the set.
LEMMA PickIn == ASSUME NEW s, s # {} PROVE Pick(s) \in s
BY DEF Pick

\* What is left of a finite set when the picked element is taken out has
\* fewer elements.
LEMMA PickLess ==
  ASSUME NEW S, IsFiniteSet(S), NEW s \in SUBSET S, s # {}
  PROVE  /\ Pick(s) \in s /\ s \ {Pick(s)} \in SUBSET S
         /\ Cardinality(s) \in Nat
         /\ Cardinality(s \ {Pick(s)}) \in Nat
         /\ Cardinality(s \ {Pick(s)}) = Cardinality(s) - 1
<1>1. Pick(s) \in s
  BY PickIn
<1>2. IsFiniteSet(s)
  BY FS_Subset
<1>3. /\ IsFiniteSet(s \ {Pick(s)})
      /\ Cardinality(s \ {Pick(s)}) = Cardinality(s) - 1
  BY <1>1, <1>2, FS_RemoveElement
<1>4. Cardinality(s) \in Nat /\ Cardinality(s \ {Pick(s)}) \in Nat
  BY <1>2, <1>3, FS_CardinalityType
<1> QED BY <1>1, <1>3, <1>4

\* The partial sums exist.
LEMMA SumsExist ==
  ASSUME NEW S, IsFiniteSet(S), NEW w \in [S -> Int]
  PROVE  \E g \in [SUBSET S -> Int] : g = SumStep(w, S, g)
<1> DEFINE Good(n) == {g \in [SUBSET S -> Int] :
                         \A s \in SUBSET S : Cardinality(s) <= n =>
                           g[s] = SumStep(w, S, g)[s]}
           Bad == {n \in Nat : Good(n) = {}}
<1>0. \A g \in [SUBSET S -> Int] : SumStep(w, S, g) \in [SUBSET S -> Int]
  BY PickIn DEF SumStep
<1>1. Good(0) # {}
  <2> DEFINE g == [s \in SUBSET S |-> 0]
  <2>1. g \in [SUBSET S -> Int]
    OBVIOUS
  <2>2. ASSUME NEW s \in SUBSET S, Cardinality(s) <= 0
        PROVE  g[s] = SumStep(w, S, g)[s]
    <3>1. ASSUME s # {} PROVE FALSE
      <4>1. /\ Cardinality(s) \in Nat /\ Cardinality(s) - 1 \in Nat
        BY <3>1, PickLess
      <4> QED BY <4>1, <2>2
    <3> QED BY <3>1 DEF SumStep
  <2> QED BY <2>1, <2>2
<1>2. ASSUME NEW m \in Nat, Good(m) # {} PROVE Good(m + 1) # {}
  <2>1. PICK g \in Good(m) : TRUE
    BY <1>2
  <2>2. g \in [SUBSET S -> Int]
    OBVIOUS
  <2> DEFINE h == SumStep(w, S, g)
  <2>3. h \in [SUBSET S -> Int]
    BY <1>0, <2>2
  <2>4. ASSUME NEW s \in SUBSET S, Cardinality(s) <= m + 1
        PROVE  h[s] = SumStep(w, S, h)[s]
    <3>1. CASE s = {}
      BY <3>1 DEF SumStep
    <3>2. CASE s # {}
      <4> DEFINE r == s \ {Pick(s)}
      <4>1. r \in SUBSET S /\ Cardinality(r) <= m
        BY <3>2, <2>4, PickLess
      <4>2. g[r] = h[r]
        BY <4>1
      <4>3. /\ h[s] = w[Pick(s)] + g[r]
            /\ SumStep(w, S, h)[s] = w[Pick(s)] + h[r]
        BY <3>2 DEF SumStep
      <4> QED BY <4>2, <4>3
    <3> QED BY <3>1, <3>2
  <2> HIDE DEF h
  <2> QED BY <2>3, <2>4
<1>3. Bad = {}
  <2> SUFFICES ASSUME Bad # {} PROVE FALSE
    OBVIOUS
  <2> HIDE DEF Good
  <2>1. PICK m \in Bad : \A y \in Bad : m <= y
    BY LeastNat
  <2>2. m \in Nat /\ Good(m) = {} /\ m # 0
    BY <1>1
  <2>3. m - 1 \in Nat /\ m - 1 \notin Bad
    BY <2>1, <2>2
  <2>4. Good(m - 1) # {}
    BY <2>3
  <2>5. Good(m - 1 + 1) # {}
    BY <2>3, <2>4, <1>2
  <2>6. m - 1 + 1 = m
    BY <2>2
  <2> QED BY <2>2, <2>5, <2>6
<1>4. Cardinality(S) \in Nat
  BY FS_CardinalityType
<1>5. PICK g \in Good(Cardinality(S)) : TRUE
  BY <1>3, <1>4
<1>6. g \in [SUBSET S -> Int]
  OBVIOUS
<1>7. \A s \in SUBSET S : g[s] = SumStep(w, S, g)[s]
  <2> SUFFICES ASSUME NEW s \in SUBSET S PROVE g[s] = SumStep(w, S, g)[s]
    OBVIOUS
  <2>1. Cardinality(s) <= Cardinality(S)
    BY FS_Subset
  <2> QED BY <2>1
<1>8. g = SumStep(w, S, g)
  BY <1>0, <1>6, <1>7 DEF SumStep
<1> QED BY <1>6, <1>8

\* The partial sums are integers, and each is the picked value plus the sum
\* of the rest.
LEMMA SumsUnfold ==
  ASSUME NEW S, IsFiniteSet(S), NEW w \in [S -> Int]
  PROVE  /\ PartialSums(w, S) \in [SUBSET S -> Int]
         /\ PartialSums(w, S) = SumStep(w, S, PartialSums(w, S))
         /\ SumOf(w, S) = PartialSums(w, S)[S]
<1>1. PartialSums(w, S) = SumStep(w, S, PartialSums(w, S))
  BY SumsExist DEF PartialSums
<1>2. SumOf(w, S) = PartialSums(w, S)[S]
  BY DEF SumOf, PartialSums, MapThenSumSet, MapThenFoldSet, SumStep, Pick
<1>3. PartialSums(w, S) \in [SUBSET S -> Int]
  <2> DEFINE g == PartialSums(w, S)
             Bad == {n \in Nat : \E s \in SUBSET S :
                                  Cardinality(s) = n /\ g[s] \notin Int}
  <2>1. g = SumStep(w, S, g)
    BY <1>1
  <2> HIDE DEF g
  <2>2. DOMAIN g = SUBSET S
    BY <2>1 DEF SumStep
  <2>3. Bad = {}
    <3> SUFFICES ASSUME Bad # {} PROVE FALSE
      OBVIOUS
    <3>1. PICK m \in Bad : \A y \in Bad : m <= y
      BY LeastNat
    <3>2. PICK s \in SUBSET S : Cardinality(s) = m /\ g[s] \notin Int
      BY <3>1
    <3>3. s # {}
      BY <2>1, <3>2 DEF SumStep
    <3>4. /\ Pick(s) \in S /\ s \ {Pick(s)} \in SUBSET S
          /\ Cardinality(s \ {Pick(s)}) \in Nat
          /\ Cardinality(s \ {Pick(s)}) = m - 1
      BY <3>2, <3>3, PickLess
    <3>5. g[s] = w[Pick(s)] + g[s \ {Pick(s)}]
      BY <2>1, <3>3 DEF SumStep
    <3>6. m - 1 \notin Bad
      BY <3>1
    <3>7. g[s \ {Pick(s)}] \in Int
      BY <3>4, <3>6
    <3>8. w[Pick(s)] \in Int
      BY <3>4
    <3> QED BY <3>2, <3>5, <3>7, <3>8
  <2>4. ASSUME NEW s \in SUBSET S PROVE g[s] \in Int
    <3>1. IsFiniteSet(s) /\ Cardinality(s) \in Nat
      BY FS_Subset, FS_CardinalityType
    <3> QED BY <2>3, <3>1
  <2>5. g = [s \in SUBSET S |-> g[s]]
    BY <2>1, <2>2 DEF SumStep
  <2>6. g \in [SUBSET S -> Int]
    BY <2>4, <2>5
  <2> QED BY <2>6 DEF g
<1> QED BY <1>1, <1>2, <1>3

\* The sum is an integer, and changing the value of one element changes it by
\* the same amount.
LEMMA SumChange ==
  ASSUME NEW S, IsFiniteSet(S), NEW w \in [S -> Int], NEW v \in [S -> Int],
         NEW t \in S, \A u \in S : u # t => v[u] = w[u]
  PROVE  /\ SumOf(w, S) \in Int
         /\ SumOf(v, S) = SumOf(w, S) + v[t] - w[t]
<1> DEFINE g == PartialSums(w, S)
           h == PartialSums(v, S)
           d(s) == IF t \in s THEN v[t] - w[t] ELSE 0
           Bad == {n \in Nat : \E s \in SUBSET S :
                      Cardinality(s) = n /\ h[s] # g[s] + d(s)}
<1>1. /\ g \in [SUBSET S -> Int] /\ g = SumStep(w, S, g)
      /\ h \in [SUBSET S -> Int] /\ h = SumStep(v, S, h)
      /\ SumOf(w, S) = g[S] /\ SumOf(v, S) = h[S]
  BY SumsUnfold
<1> HIDE DEF g, h
<1>2. \A s \in SUBSET S : d(s) \in Int
  OBVIOUS
<1>3. Bad = {}
  <2> SUFFICES ASSUME Bad # {} PROVE FALSE
    OBVIOUS
  <2>1. PICK m \in Bad : \A y \in Bad : m <= y
    BY LeastNat
  <2>2. PICK s \in SUBSET S : Cardinality(s) = m /\ h[s] # g[s] + d(s)
    BY <2>1
  <2>3. s # {}
    <3> SUFFICES ASSUME s = {} PROVE FALSE
      OBVIOUS
    <3>1. h[s] = 0 /\ g[s] = 0 /\ d(s) = 0
      BY <1>1 DEF SumStep
    <3> QED BY <3>1, <2>2
  <2> DEFINE x == Pick(s)
             r == s \ {x}
  <2>4. /\ x \in s /\ x \in S /\ r \in SUBSET S
        /\ Cardinality(r) \in Nat /\ Cardinality(r) = m - 1
    BY <2>2, <2>3, PickLess
  <2>5. g[s] = w[x] + g[r] /\ h[s] = v[x] + h[r]
    BY <1>1, <2>3 DEF SumStep
  <2>6. m - 1 \notin Bad
    BY <2>1
  <2>7. h[r] = g[r] + d(r)
    BY <2>4, <2>6
  <2>8. v[x] + d(r) = w[x] + d(s)
    <3>0. v[x] \in Int /\ w[x] \in Int /\ v[t] \in Int /\ w[t] \in Int
      BY <2>4
    <3>1. CASE x = t
      <4>1. d(r) = 0 /\ d(s) = v[t] - w[t]
        BY <3>1, <2>4
      <4> QED BY <4>1, <3>0, <3>1
    <3>2. CASE x # t
      <4>1. d(r) = d(s)
        BY <3>2
      <4> QED BY <4>1, <3>0, <3>2, <2>4
    <3> QED BY <3>1, <3>2
  <2>9. /\ g[r] \in Int /\ h[r] \in Int /\ w[x] \in Int /\ v[x] \in Int
        /\ d(r) \in Int /\ d(s) \in Int
    BY <1>1, <1>2, <2>4
  <2>b. g[s] \in Int /\ h[s] \in Int
    BY <1>1
  <2> HIDE DEF d, x, r
  <2>c. h[s] = v[x] + (g[r] + d(r))
    BY <2>5, <2>7
  <2>d. h[s] = g[r] + (v[x] + d(r))
    BY <2>c, <2>9
  <2>e. h[s] = g[r] + (w[x] + d(s))
    BY <2>d, <2>8
  <2>f. h[s] = w[x] + g[r] + d(s)
    BY <2>e, <2>9
  <2> QED BY <2>f, <2>5, <2>2
<1>4. Cardinality(S) \in Nat /\ S \in SUBSET S
  BY FS_CardinalityType
<1>5. h[S] = g[S] + d(S)
  BY <1>3, <1>4
<1>6. d(S) = v[t] - w[t]
  OBVIOUS
<1> QED BY <1>1, <1>4, <1>5, <1>6

\* The sum of zeros is zero.
LEMMA SumOfZeros ==
  ASSUME NEW S, IsFiniteSet(S), NEW w, w = [t \in S |-> 0]
  PROVE  SumOf(w, S) = 0
<1> DEFINE g == PartialSums(w, S)
           Bad == {n \in Nat : \E s \in SUBSET S :
                      Cardinality(s) = n /\ g[s] # 0}
<1>0. w \in [S -> Int]
  OBVIOUS
<1>1. /\ g \in [SUBSET S -> Int] /\ g = SumStep(w, S, g)
      /\ SumOf(w, S) = g[S]
  BY <1>0, SumsUnfold
<1> HIDE DEF g
<1>2. Bad = {}
  <2> SUFFICES ASSUME Bad # {} PROVE FALSE
    OBVIOUS
  <2>1. PICK m \in Bad : \A y \in Bad : m <= y
    BY LeastNat
  <2>2. PICK s \in SUBSET S : Cardinality(s) = m /\ g[s] # 0
    BY <2>1
  <2>3. s # {}
    BY <1>1, <2>2 DEF SumStep
  <2>4. /\ Pick(s) \in S /\ s \ {Pick(s)} \in SUBSET S
        /\ Cardinality(s \ {Pick(s)}) \in Nat
        /\ Cardinality(s \ {Pick(s)}) = m - 1
    BY <2>2, <2>3, PickLess
  <2>5. g[s] = 0 + g[s \ {Pick(s)}]
    BY <1>1, <2>3, <2>4 DEF SumStep
  <2>6. m - 1 \notin Bad
    BY <2>1
  <2>7. g[s \ {Pick(s)}] = 0
    BY <2>4, <2>6
  <2> QED BY <2>2, <2>5, <2>7
<1>3. Cardinality(S) \in Nat /\ S \in SUBSET S
  BY FS_CardinalityType
<1> QED BY <1>1, <1>2, <1>3
============================================================================
