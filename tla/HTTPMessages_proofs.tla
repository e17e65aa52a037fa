------------------------- MODULE HTTPMessages_proofs -------------------------
(***************************************************************************)
(* However the bytes of a well-formed script are cut into reads, the       *)
(* parser of HTTPMessages hands on the messages that were sent             *)
(* (FramedAsSent, EndedAsSent), and none of its assertions fails           *)
(* (AssertionsHold).                                                       *)
(***************************************************************************)
EXTENDS HTTPMessages, FiniteSetTheorems, SequenceTheorems, TLAPS

F == INSTANCE FoldFacts WITH Op <- LAMBDA a, b : a
-----------------------------------------------------------------------------
(* Strings put one after the other.                                        *)

\* The first n elements of f, joined.
Joined(f, n) == FlattenSeq([j \in 1..n |-> f[j]])

\* One unfolding of the partial results g of FlattenSeq.
JoinStep(f, n, g) ==
  [i \in 1..n |-> IF i = 1 THEN f[i] ELSE g[i - 1] \o f[i]]

IsJoin(f, n, g) == g = JoinStep(f, n, g)

\* The partial results of FlattenSeq exist.
LEMMA JoinExists ==
  ASSUME NEW f, NEW n \in Nat
  PROVE  \E g : IsJoin(f, n, g)
<1> USE DEF IsJoin
<1> DEFINE Bad == {m \in Nat : ~ \E g : g = JoinStep(f, m, g)}
<1>1. \E g : g = JoinStep(f, 0, g)
  <2> DEFINE g == [i \in 1..0 |-> f[i]]
  <2>1. g = JoinStep(f, 0, g)
    BY DEF JoinStep
  <2> QED BY <2>1
<1>2. ASSUME NEW m \in Nat, NEW g, g = JoinStep(f, m, g)
      PROVE  \E h : h = JoinStep(f, m + 1, h)
  <2> DEFINE h == [i \in 1..(m + 1) |->
                     IF i = 1 THEN f[i] ELSE g[i - 1] \o f[i]]
  <2>0. \A i \in 1..m : g[i] = IF i = 1 THEN f[i] ELSE g[i - 1] \o f[i]
    BY <1>2, Zenon DEF JoinStep
  <2>1. \A i \in 1..(m + 1) :
          h[i] = IF i = 1 THEN f[i] ELSE g[i - 1] \o f[i]
    OBVIOUS
  <2> HIDE DEF h
  <2>2. ASSUME NEW i \in 1..(m + 1)
        PROVE  h[i] = IF i = 1 THEN f[i] ELSE h[i - 1] \o f[i]
    <3>1. CASE i = 1
      BY <2>1, <3>1
    <3>2. CASE i # 1
      <4>1. i - 1 \in 1..m /\ i - 1 \in 1..(m + 1)
        BY <3>2
      <4>2. h[i - 1] = g[i - 1]
        BY <2>0, <2>1, <4>1
      <4> QED BY <2>1, <3>2, <4>2
    <3> QED BY <3>1, <3>2
  <2>3. h = [i \in 1..(m + 1) |-> h[i]]
    BY DEF h
  <2>4. h = JoinStep(f, m + 1, h)
    BY <2>2, <2>3 DEF JoinStep
  <2> QED BY <2>4
<1>3. Bad = {}
  <2> SUFFICES ASSUME Bad # {} PROVE FALSE
    OBVIOUS
  <2>1. PICK m \in Bad : \A y \in Bad : m <= y
    BY F!LeastNat
  <2>2. m \in Nat /\ m # 0
    BY <1>1
  <2>3. m - 1 \in Nat /\ m - 1 \notin Bad /\ (m - 1) + 1 = m
    BY <2>1, <2>2
  <2> QED BY <1>2, <2>1, <2>3
<1> QED BY <1>3

\* The partial results that two lengths have in common are the same.
LEMMA JoinSame ==
  ASSUME NEW f, NEW n \in Nat, NEW m \in Nat, n <= m,
         NEW g, IsJoin(f, n, g), NEW h, IsJoin(f, m, h)
  PROVE  \A i \in 1..n : g[i] = h[i]
<1> USE DEF IsJoin
<1> DEFINE Bad == {i \in Nat : i \in 1..n /\ g[i] # h[i]}
<1>1. Bad = {}
  <2> SUFFICES ASSUME Bad # {} PROVE FALSE
    OBVIOUS
  <2>1. PICK i \in Bad : \A y \in Bad : i <= y
    BY F!LeastNat
  <2>2. i \in 1..n /\ i \in 1..m
    OBVIOUS
  <2>3. /\ g[i] = IF i = 1 THEN f[i] ELSE g[i - 1] \o f[i]
        /\ h[i] = IF i = 1 THEN f[i] ELSE h[i - 1] \o f[i]
    BY <2>2 DEF JoinStep
  <2>4. i = 1 \/ g[i - 1] = h[i - 1]
    BY <2>1, <2>2
  <2> QED BY <2>1, <2>3, <2>4
<1> QED BY <1>1

\* What FlattenSeq gives of n elements.
LEMMA JoinedIs ==
  ASSUME NEW f, NEW n \in Nat \ {0}
  PROVE  \E g : IsJoin(f, n, g) /\ Joined(f, n) = g[n]
<1> USE DEF IsJoin
<1> DEFINE s == [j \in 1..n |-> f[j]]
           Flat(g) == g = [i \in 1..n |-> IF i = 1 THEN s[i]
                                          ELSE g[i - 1] \o s[i]]
<1>1. Len(s) = n /\ n # 0
  OBVIOUS
<1>2. Joined(f, n)
        = (CHOOSE g : g = [i \in 1..Len(s) |->
                             IF i = 1 THEN s[i] ELSE g[i - 1] \o s[i]])[Len(s)]
  BY <1>1 DEF Joined, FlattenSeq
<1>3. Joined(f, n) = (CHOOSE g : Flat(g))[n]
  BY <1>1, <1>2
<1>4. \A g : Flat(g) <=> g = JoinStep(f, n, g)
  BY DEF JoinStep
<1>5. Flat(CHOOSE g : Flat(g))
  <2>1. \E g : Flat(g)
    BY <1>4, JoinExists
  <2> HIDE DEF Flat
  <2> QED BY <2>1
<1> HIDE DEF Flat
<1> QED BY <1>3, <1>4, <1>5

\* The first elements joined: none, and one more.
LEMMA JoinedZero ==
  ASSUME NEW f
  PROVE  Joined(f, 0) = <<>>
<1>1. [j \in 1..0 |-> f[j]] = <<>>
  OBVIOUS
<1>2. FlattenSeq(<<>>) = <<>>
  BY DEF FlattenSeq
<1> QED BY <1>1, <1>2 DEF Joined

LEMMA JoinedNext ==
  ASSUME NEW T, NEW f \in Seq(Seq(T)), NEW n \in Nat, n < Len(f),
         Joined(f, n) \in Seq(T)
  PROVE  Joined(f, n + 1) = Joined(f, n) \o f[n + 1]
<1>1. PICK h : IsJoin(f, n + 1, h) /\ Joined(f, n + 1) = h[n + 1]
  <2>1. n + 1 \in Nat \ {0}
    OBVIOUS
  <2> QED BY <2>1, JoinedIs
<1>2. h[n + 1] = IF n + 1 = 1 THEN f[n + 1] ELSE h[n] \o f[n + 1]
  <2>1. n + 1 \in 1..(n + 1) /\ (n + 1) - 1 = n
    OBVIOUS
  <2>2. \A i \in 1..(n + 1) : h[i] = IF i = 1 THEN f[i] ELSE h[i - 1] \o f[i]
    BY <1>1, Zenon DEF JoinStep, IsJoin
  <2> QED BY <2>1, <2>2
<1>3. CASE n = 0
  <2>1. f[n + 1] \in Seq(T)
    OBVIOUS
  <2>2. <<>> \o f[n + 1] = f[n + 1]
    BY <2>1, ConcatEmptySeq
  <2>3. Joined(f, n) = <<>>
    BY <1>3, JoinedZero
  <2>4. h[n + 1] = f[n + 1]
    BY <1>2, <1>3
  <2> QED BY <1>1, <2>2, <2>3, <2>4, Zenon
<1>4. CASE n # 0
  <2>1. PICK g : IsJoin(f, n, g) /\ Joined(f, n) = g[n]
    BY <1>4, JoinedIs
  <2>2. n \in 1..n
    BY <1>4
  <2>3. g[n] = h[n]
    <3> DEFINE k == n + 1
    <3>1. k \in Nat /\ n <= k
      OBVIOUS
    <3>2. IsJoin(f, k, h)
      BY <1>1
    <3>3. IsJoin(f, n, g)
      BY <2>1
    <3> HIDE DEF k
    <3>4. \A i \in 1..n : g[i] = h[i]
      BY <3>1, <3>2, <3>3, JoinSame
    <3> QED BY <2>2, <3>4
  <2>4. h[n + 1] = h[n] \o f[n + 1]
    <3>1. n + 1 # 1
      BY <1>4
    <3> QED BY <1>2, <3>1, Zenon
  <2> QED BY <1>1, <2>1, <2>3, <2>4
<1> QED BY <1>3, <1>4

\* They are a string.
LEMMA JoinedType ==
  ASSUME NEW T, NEW f \in Seq(Seq(T)), NEW n \in Nat, n <= Len(f)
  PROVE  Joined(f, n) \in Seq(T)
<1> DEFINE Bad == {m \in Nat : m <= Len(f) /\ Joined(f, m) \notin Seq(T)}
<1>1. Bad = {}
  <2> SUFFICES ASSUME Bad # {} PROVE FALSE
    OBVIOUS
  <2>1. PICK m \in Bad : \A y \in Bad : m <= y
    BY F!LeastNat
  <2>2. m # 0
    <3>1. <<>> \in Seq(T)
      OBVIOUS
    <3> QED BY <3>1, JoinedZero
  <2>3. m - 1 \in Nat /\ m - 1 < Len(f) /\ (m - 1) + 1 = m
    BY <2>2
  <2>4. Joined(f, m - 1) \in Seq(T)
    BY <2>1, <2>3
  <2>5. Joined(f, m) = Joined(f, m - 1) \o f[m]
    BY <2>3, <2>4, JoinedNext
  <2>6. f[m] \in Seq(T)
    BY <2>2
  <2>7. Joined(f, m - 1) \o f[m] \in Seq(T)
    BY <2>4, <2>6
  <2>8. Joined(f, m) \notin Seq(T)
    OBVIOUS
  <2> QED BY <2>5, <2>7, <2>8
<1> QED BY <1>1

\* Each begins with those before it.
LEMMA JoinedPrefix ==
  ASSUME NEW T, NEW f \in Seq(Seq(T)), NEW n \in Nat, NEW m \in Nat,
         n <= m, m <= Len(f)
  PROVE  /\ Len(Joined(f, n)) <= Len(Joined(f, m))
         /\ \A x \in 1..Len(Joined(f, n)) : Joined(f, m)[x] = Joined(f, n)[x]
<1> DEFINE P(k) ==
             /\ Len(Joined(f, n)) <= Len(Joined(f, k))
             /\ \A x \in 1..Len(Joined(f, n)) :
                  Joined(f, k)[x] = Joined(f, n)[x]
           Bad == {k \in Nat : n <= k /\ k <= Len(f) /\ ~P(k)}
<1>1. Bad = {}
  <2> SUFFICES ASSUME Bad # {} PROVE FALSE
    OBVIOUS
  <2>1. PICK k \in Bad : \A y \in Bad : k <= y
    BY F!LeastNat
  <2>2. k # n
    <3>1. Joined(f, n) \in Seq(T)
      BY JoinedType
    <3>2. P(n)
      BY <3>1
    <3> QED BY <3>2
  <2>3. k - 1 \in Nat /\ k - 1 < Len(f) /\ (k - 1) + 1 = k /\ n <= k - 1
    BY <2>2
  <2>4. P(k - 1)
    BY <2>1, <2>3
  <2>5. /\ Joined(f, k - 1) \in Seq(T) /\ Joined(f, n) \in Seq(T)
        /\ f[k] \in Seq(T)
    BY <2>3, JoinedType
  <2>6. Joined(f, k) = Joined(f, k - 1) \o f[k]
    BY <2>3, <2>5, JoinedNext
  <2>7. /\ Len(Joined(f, k)) = Len(Joined(f, k - 1)) + Len(f[k])
        /\ Len(Joined(f, k - 1)) \in Nat /\ Len(f[k]) \in Nat
        /\ \A x \in 1..Len(Joined(f, k - 1)) :
             Joined(f, k)[x] = Joined(f, k - 1)[x]
    BY <2>5, <2>6
  <2>8. Len(Joined(f, n)) \in Nat
    BY <2>5
  <2>9. P(k)
    <3>1. Len(Joined(f, n)) <= Len(Joined(f, k - 1))
      BY <2>4
    <3>2. Len(Joined(f, n)) <= Len(Joined(f, k))
      <4> DEFINE a == Len(Joined(f, n))
                 b == Len(Joined(f, k - 1))
                 c == Len(f[k])
                 d == Len(Joined(f, k))
      <4>1. a \in Nat /\ b \in Nat /\ c \in Nat /\ d = b + c /\ a <= b
        BY <2>7, <2>8, <3>1
      <4> HIDE DEF a, b, c, d
      <4>2. a <= d
        BY <4>1
      <4> QED BY <4>2 DEF a, d
    <3>3. ASSUME NEW x \in 1..Len(Joined(f, n))
          PROVE  Joined(f, k)[x] = Joined(f, n)[x]
      <4>1. x \in 1..Len(Joined(f, k - 1))
        BY <2>7, <2>8, <3>1
      <4> QED BY <2>4, <2>7, <4>1
    <3> QED BY <3>2, <3>3
  <2> QED BY <2>9
<1> QED BY <1>1

\* Where the element n + 1 lies in the whole.
LEMMA JoinedAt ==
  ASSUME NEW T, NEW f \in Seq(Seq(T)), NEW n \in Nat, n < Len(f)
  PROVE  /\ Joined(f, Len(f)) \in Seq(T)
         /\ Len(Joined(f, n)) \in Nat
         /\ Len(Joined(f, n + 1)) = Len(Joined(f, n)) + Len(f[n + 1])
         /\ Len(Joined(f, n + 1)) <= Len(Joined(f, Len(f)))
         /\ \A x \in 1..Len(f[n + 1]) :
              Joined(f, Len(f))[Len(Joined(f, n)) + x] = f[n + 1][x]
<1>1. /\ Joined(f, Len(f)) \in Seq(T) /\ Joined(f, n) \in Seq(T)
      /\ f[n + 1] \in Seq(T)
  BY JoinedType
<1>2. Joined(f, n + 1) = Joined(f, n) \o f[n + 1]
  BY <1>1, JoinedNext
<1>3. /\ Len(Joined(f, n + 1)) = Len(Joined(f, n)) + Len(f[n + 1])
      /\ \A x \in 1..Len(f[n + 1]) :
           Joined(f, n + 1)[Len(Joined(f, n)) + x] = f[n + 1][x]
  BY <1>1, <1>2, ConcatProperties
<1>4. /\ Len(Joined(f, n + 1)) <= Len(Joined(f, Len(f)))
      /\ \A x \in 1..Len(Joined(f, n + 1)) :
           Joined(f, Len(f))[x] = Joined(f, n + 1)[x]
  <2>1. n + 1 \in Nat /\ n + 1 <= Len(f) /\ Len(f) \in Nat /\ Len(f) <= Len(f)
    OBVIOUS
  <2>2. \A a, b \in Nat : a <= b /\ b <= Len(f) =>
          /\ Len(Joined(f, a)) <= Len(Joined(f, b))
          /\ \A x \in 1..Len(Joined(f, a)) : Joined(f, b)[x] = Joined(f, a)[x]
    BY JoinedPrefix
  <2> QED BY <2>1, <2>2
<1>5. ASSUME NEW x \in 1..Len(f[n + 1])
      PROVE  Joined(f, Len(f))[Len(Joined(f, n)) + x] = f[n + 1][x]
  <2> DEFINE a == Len(Joined(f, n))
             b == Len(f[n + 1])
             c == Len(Joined(f, n + 1))
  <2>1. a \in Nat /\ b \in Nat /\ c = a + b /\ x \in 1..b
    BY <1>1, <1>3
  <2>2. a + x \in 1..c
    <3> HIDE DEF a, b, c
    <3> QED BY <2>1
  <2>3. Joined(f, Len(f))[a + x] = Joined(f, n + 1)[a + x]
    BY <1>4, <2>2, Zenon
  <2>4. Joined(f, n + 1)[a + x] = f[n + 1][x]
    BY <1>3, Zenon
  <2> QED BY <2>3, <2>4, Zenon
<1>6. Len(Joined(f, n)) \in Nat
  <2> DEFINE s == Joined(f, n)
  <2>1. s \in Seq(T)
    BY <1>1
  <2> HIDE DEF s
  <2>2. Len(s) \in Nat
    BY <2>1
  <2> QED BY <2>2 DEF s
<1> QED BY <1>1, <1>3, <1>4, <1>5, <1>6, Zenon
-----------------------------------------------------------------------------
(* find: the first place of a needle.                                      *)

\* Parts that hold the same are the same.
LEMMA SamePart ==
  ASSUME NEW T, NEW a \in Seq(T), NEW b \in Seq(T), NEW i \in Nat \ {0},
         NEW j \in Nat, j <= Len(a), j <= Len(b),
         \A x \in i..j : a[x] = b[x]
  PROVE  SubSeq(a, i, j) = SubSeq(b, i, j)
<1>1. \A x \in i..j : a[x] \in T /\ b[x] \in T
  <2> SUFFICES ASSUME NEW x \in i..j PROVE a[x] \in T /\ b[x] \in T
    OBVIOUS
  <2>1. x \in 1..Len(a) /\ x \in 1..Len(b)
    OBVIOUS
  <2> QED BY <2>1
<1> DEFINE s == SubSeq(a, i, j)
           t == SubSeq(b, i, j)
<1>2. /\ s \in Seq(T) /\ t \in Seq(T)
      /\ Len(s) = IF i <= j THEN j - i + 1 ELSE 0
      /\ Len(t) = IF i <= j THEN j - i + 1 ELSE 0
  BY <1>1, SubSeqProperties
<1>3. \A x \in 1..(j - i + 1) : s[x] = a[i + x - 1] /\ t[x] = b[i + x - 1]
  BY <1>1, SubSeqProperties
<1>4. ASSUME NEW x \in 1..Len(s) PROVE s[x] = t[x]
  <2>1. x \in 1..(j - i + 1) /\ i + x - 1 \in i..j
    BY <1>2
  <2> QED BY <1>3, <2>1
<1> HIDE DEF s, t
<1>5. s = t
  BY <1>2, <1>4, SeqEqual
<1> QED BY <1>5 DEF s, t

\* needle begins at i of s.
At(s, needle, i) ==
  /\ i \in 1..(Len(s) - Len(needle) + 1)
  /\ SubSeq(s, i, i + Len(needle) - 1) = needle

\* The two things find may say.
LEMMA FindIs ==
  ASSUME NEW T, NEW s \in Seq(T), NEW needle \in Seq(T)
  PROVE  \/ find(s, needle) = 0 /\ \A i \in Nat : ~At(s, needle, i)
         \/ /\ find(s, needle) \in Nat \ {0} /\ At(s, needle, find(s, needle))
            /\ \A i \in Nat : At(s, needle, i) => find(s, needle) <= i
<1> DEFINE at == {i \in 1..(Len(s) - Len(needle) + 1) :
                    SubSeq(s, i, i + Len(needle) - 1) = needle}
<1>1. find(s, needle) = IF at = {} THEN 0
                        ELSE CHOOSE i \in at : \A j \in at : i <= j
  BY Zenon DEF find, npos
<1>2. \A i : i \in at <=> At(s, needle, i)
  BY DEF At
<1>3. at \in SUBSET (Nat \ {0}) /\ at \in SUBSET Nat
  OBVIOUS
<1> HIDE DEF at
<1>4. CASE at = {}
  BY <1>1, <1>2, <1>4
<1>5. CASE at # {}
  <2>1. \E i \in at : \A j \in at : i <= j
    BY <1>3, <1>5, F!LeastNat
  <2>2. find(s, needle) \in at /\ \A j \in at : find(s, needle) <= j
    BY <1>1, <1>5, <2>1
  <2> QED BY <1>2, <1>3, <2>2
<1> QED BY <1>4, <1>5

\* What find finds in a string it finds in one that begins the same, if that
\* is long enough.
LEMMA FindAgrees ==
  ASSUME NEW T, NEW a \in Seq(T), NEW b \in Seq(T), NEW needle \in Seq(T),
         find(a, needle) # 0,
         \A x \in 1..Len(a) : x <= Len(b) => b[x] = a[x]
  PROVE  find(b, needle) =
           IF find(a, needle) + Len(needle) - 1 <= Len(b)
           THEN find(a, needle) ELSE 0
<1> DEFINE k == find(a, needle)
           l == Len(needle)
<1>1. /\ k \in Nat \ {0} /\ l \in Nat /\ At(a, needle, k)
      /\ \A i \in Nat : At(a, needle, i) => k <= i
  BY FindIs
<1> HIDE DEF k
<1>2. Len(a) \in Nat /\ Len(b) \in Nat /\ k + l - 1 <= Len(a)
  BY <1>1 DEF At
<1>3. ASSUME NEW i \in Nat, i <= k
      PROVE  At(b, needle, i) <=> At(a, needle, i) /\ i + l - 1 <= Len(b)
  <2>1. CASE i = 0
    BY <2>1 DEF At
  <2>2. CASE i # 0 /\ i + l - 1 > Len(b)
    <3>1. i \notin 1..(Len(b) - l + 1)
      BY <1>1, <1>2, <2>2
    <3> QED BY <2>2, <3>1, <1>1, <1>2 DEF At
  <2>3. CASE i # 0 /\ i + l - 1 <= Len(b)
    <3> DEFINE j == i + l - 1
    <3>1. j \in Nat /\ j <= Len(a) /\ j <= Len(b) /\ i \in Nat \ {0}
      BY <1>1, <1>2, <1>3, <2>3
    <3>2. i \in 1..(Len(b) - l + 1) /\ i \in 1..(Len(a) - l + 1)
      BY <1>1, <1>2, <1>3, <2>3
    <3> HIDE DEF j
    <3>3. \A x \in i..j : a[x] = b[x]
      <4> SUFFICES ASSUME NEW x \in i..j PROVE a[x] = b[x]
        OBVIOUS
      <4>1. x \in 1..Len(a) /\ x <= Len(b)
        BY <1>2, <3>1
      <4> QED BY <4>1
    <3>4. SubSeq(a, i, j) = SubSeq(b, i, j)
      BY <3>1, <3>3, SamePart
    <3> QED BY <2>3, <3>2, <3>4 DEF At, j
  <2> QED BY <2>1, <2>2, <2>3, <1>1, <1>2
<1>4. CASE k + l - 1 <= Len(b)
  <2>1. At(b, needle, k)
    BY <1>1, <1>3, <1>4
  <2>2. ASSUME NEW i \in Nat, i < k PROVE ~At(b, needle, i)
    BY <1>1, <1>3, <2>2
  <2>3. find(b, needle) = k
    BY <1>1, <2>1, <2>2, FindIs
  <2> QED BY <1>4, <2>3 DEF k
<1>5. CASE ~(k + l - 1 <= Len(b))
  <2>1. ASSUME NEW i \in Nat, At(b, needle, i) PROVE FALSE
    <3>1. i + l - 1 <= Len(b)
      BY <1>1, <1>2, <2>1 DEF At
    <3>2. i < k
      BY <1>1, <1>2, <1>5, <3>1
    <3> QED BY <1>1, <1>3, <2>1, <3>2
  <2>2. find(b, needle) = 0
    BY <2>1, FindIs
  <2> QED BY <1>5, <2>2 DEF k
<1> QED BY <1>4, <1>5

\* What is found lies within the string.
LEMMA FoundWithin ==
  ASSUME NEW T, NEW s \in Seq(T), NEW needle \in Seq(T)
  PROVE  /\ find(s, needle) \in Nat
         /\ find(s, needle) # 0 => find(s, needle) + Len(needle) - 1 <= Len(s)
<1>1. CASE find(s, needle) = 0
  BY <1>1
<1>2. CASE find(s, needle) # 0
  <2> DEFINE k == find(s, needle)
             l == Len(needle)
             n == Len(s)
  <2>1. k \in Nat \ {0} /\ At(s, needle, k)
    BY <1>2, FindIs
  <2>2. l \in Nat /\ n \in Nat
    OBVIOUS
  <2>3. k \in 1..(n - l + 1)
    BY <2>1 DEF At
  <2> HIDE DEF k, l, n
  <2>4. k \in Nat /\ k + l - 1 <= n
    BY <2>1, <2>2, <2>3
  <2> QED BY <2>4 DEF k, l, n
<1> QED BY <1>1, <1>2
-----------------------------------------------------------------------------
(* HTTPHeader: a line is split at its colon.                               *)

\* The place of the first colon.
LEMMA FindColon ==
  ASSUME NEW T, NEW s \in Seq(T), NEW c \in T, NEW k \in 1..Len(s),
         s[k] = c, \A j \in 1..(k - 1) : s[j] # c
  PROVE  find(s, <<c>>) = k
<1>1. <<c>> \in Seq(T) /\ Len(<<c>>) = 1
  OBVIOUS
<1>2. ASSUME NEW i \in Nat PROVE At(s, <<c>>, i) <=> i \in 1..Len(s) /\ s[i] = c
  <2>1. CASE i \notin 1..Len(s)
    BY <1>1, <2>1 DEF At
  <2>2. CASE i \in 1..Len(s)
    <3> DEFINE t == SubSeq(s, i, i)
               u == <<s[i]>>
    <3>1. \A x \in i..i : s[x] \in T
      BY <2>2
    <3>2. t \in Seq(T) /\ Len(t) = 1
      BY <3>1, SubSeqProperties
    <3>3. \A x \in 1..(i - i + 1) : t[x] = s[i + x - 1]
      BY <3>1, SubSeqProperties
    <3>4. t[1] = s[i]
      BY <3>3
    <3>5. u \in Seq(T) /\ Len(u) = 1 /\ u[1] = s[i]
      BY <3>1
    <3> HIDE DEF t, u
    <3>6. \A x \in 1..Len(t) : t[x] = u[x]
      BY <3>2, <3>4, <3>5
    <3>7. t = u
      BY <3>2, <3>5, <3>6, SeqEqual
    <3>8. SubSeq(s, i, i) = <<s[i]>>
      BY <3>7 DEF t, u
    <3> QED BY <1>1, <2>2, <3>8 DEF At
  <2> QED BY <2>1, <2>2
<1>3. At(s, <<c>>, k)
  BY <1>2
<1>4. /\ find(s, <<c>>) \in Nat \ {0} /\ At(s, <<c>>, find(s, <<c>>))
      /\ find(s, <<c>>) <= k
  <2> DEFINE needle == <<c>>
  <2>1. needle \in Seq(T) /\ At(s, needle, k) /\ k \in Nat
    BY <1>1, <1>3
  <2> HIDE DEF needle
  <2>2. /\ find(s, needle) \in Nat \ {0} /\ At(s, needle, find(s, needle))
        /\ find(s, needle) <= k
    BY <2>1, FindIs
  <2> QED BY <2>2 DEF needle
<1> DEFINE f == find(s, <<c>>)
<1>5. f \in Nat /\ f \in 1..Len(s) /\ s[f] = c /\ f <= k
  BY <1>2, <1>4
<1> HIDE DEF f
<1>6. f = k
  BY <1>5
<1> QED BY <1>6 DEF f

\* Initial spaces are stripped.
LEMMA Stripped ==
  ASSUME NEW T, NEW s \in Seq(T), NEW n \in 0..Len(s),
         \A j \in 1..n : s[j] = Space, n < Len(s) => s[n + 1] # Space
  PROVE  strip_initial_whitespace(s) = SubSeq(s, n + 1, Len(s))
<1> DEFINE spaces == {i \in DOMAIN s : \A j \in 1..i : s[j] = Space}
<1>1. spaces = 1..n
  <2>1. ASSUME NEW i \in spaces PROVE i \in 1..n
    <3>1. i \in 1..Len(s) /\ \A j \in 1..i : s[j] = Space
      OBVIOUS
    <3>2. CASE i > n
      <4>1. n + 1 \in 1..i /\ n < Len(s)
        BY <3>1, <3>2
      <4> QED BY <3>1, <4>1
    <3> QED BY <3>1, <3>2
  <2>2. ASSUME NEW i \in 1..n PROVE i \in spaces
    OBVIOUS
  <2> HIDE DEF spaces
  <2> QED BY <2>1, <2>2
<1>2. strip_initial_whitespace(s) = SubSeq(s, Cardinality(spaces) + 1, Len(s))
  BY Zenon DEF strip_initial_whitespace
<1>3. Cardinality(1..n) = n
  BY FS_Interval
<1> HIDE DEF spaces
<1> QED BY <1>1, <1>2, <1>3

\* A header is read as it was written.
LEMMA HeaderSplit ==
  ASSUME NEW T, NEW h, h.key \in Seq(T), h.sep \in Seq(T), h.value \in Seq(T),
         IsHeader(h)
  PROVE  /\ HasColon(HeaderLine(h))
         /\ HTTPHeader(HeaderLine(h)) = [key |-> h.key, value |-> h.value]
<1> DEFINE k == h.key
           p == h.sep
           v == h.value
           line == HeaderLine(h)
           colon == Len(k) + 1
           value == SubSeq(line, colon + 1, Len(line))
           m == Len(p) - 1
<1>1. /\ k \in Seq(T) /\ p \in Seq(T) /\ v \in Seq(T) /\ line = k \o p \o v
      /\ \A j \in DOMAIN k : k[j] # Colon
      /\ p # <<>> /\ p[1] = Colon
      /\ \A j \in 2..Len(p) : p[j] = Space
      /\ \/ v # <<>> /\ v[1] # Space
         \/ Len(p) = 1 /\ \A j \in DOMAIN v : v[j] = Space
  BY Zenon DEF IsHeader, HeaderLine
<1> HIDE DEF k, p, v, line
<1>2. /\ line \in Seq(T) /\ Len(line) = Len(k) + Len(p) + Len(v)
      /\ Len(p) \in Nat \ {0} /\ Len(k) \in Nat /\ Len(v) \in Nat
      /\ \A x \in 1..Len(k) : line[x] = k[x]
      /\ \A x \in 1..Len(p) : line[Len(k) + x] = p[x]
      /\ \A x \in 1..Len(v) : line[Len(k) + Len(p) + x] = v[x]
  BY <1>1
<1>3. find(line, <<Colon>>) = colon
  <2>1. colon \in 1..Len(line) /\ line[colon] = Colon
    BY <1>1, <1>2
  <2>2. Colon \in T
    BY <1>1
  <2>3. \A j \in 1..(colon - 1) : line[j] # Colon
    BY <1>1, <1>2
  <2> HIDE DEF colon
  <2> QED BY <1>2, <2>1, <2>2, <2>3, FindColon
<1>4. HasColon(line)
  <2>1. colon # 0
    BY <1>2
  <2> QED BY <1>3, <2>1 DEF HasColon, npos
<1>5. SubSeq(line, 1, colon - 1) = k
  BY <1>1, <1>2
<1>6. /\ value \in Seq(T) /\ Len(value) = m + Len(v) /\ m \in Nat
      /\ \A x \in 1..m : value[x] = Space
      /\ \A x \in 1..Len(v) : value[m + x] = v[x]
  <2> DEFINE a == Len(k)
             b == Len(p)
             c == Len(v)
             n == Len(line)
  <2>1. a \in Nat /\ b \in Nat \ {0} /\ c \in Nat /\ n = a + b + c
    BY <1>2
  <2>2. \A x \in (a + 2)..n : line[x] \in T
    BY <1>2
  <2>3. colon + 1 = a + 2
    BY <2>1
  <2> HIDE DEF a, b, c, n
  <2>4. a + 2 \in Int /\ n \in Int /\ n - (a + 2) + 1 = (b - 1) + c
        /\ (a + 2 <= n \/ (b - 1) + c = 0)
    BY <2>1
  <2> DEFINE w == SubSeq(line, a + 2, n)
  <2>5. /\ w \in Seq(T)
        /\ Len(w) = IF a + 2 <= n THEN n - (a + 2) + 1 ELSE 0
        /\ \A x \in 1..(n - (a + 2) + 1) : w[x] = line[(a + 2) + x - 1]
    BY <2>2, <2>4, SubSeqProperties
  <2> HIDE DEF w
  <2>6. Len(w) = (b - 1) + c
    BY <2>1, <2>4, <2>5
  <2>7. ASSUME NEW x \in 1..((b - 1) + c) PROVE w[x] = line[a + (1 + x)]
    <3>1. (a + 2) + x - 1 = a + (1 + x)
      BY <2>1
    <3> QED BY <2>4, <2>5, <3>1
  <2>8. ASSUME NEW x \in 1..(b - 1) PROVE w[x] = Space
    <3>1. 1 + x \in 1..b /\ 1 + x \in 2..b /\ x \in 1..((b - 1) + c)
      BY <2>1
    <3>2. line[a + (1 + x)] = p[1 + x] /\ p[1 + x] = Space
      BY <1>1, <1>2, <3>1 DEF a, b
    <3> QED BY <2>7, <3>1, <3>2
  <2>9. ASSUME NEW x \in 1..c PROVE w[(b - 1) + x] = v[x]
    <3>1. /\ (b - 1) + x \in 1..((b - 1) + c)
          /\ a + (1 + ((b - 1) + x)) = a + b + x
      BY <2>1
    <3>2. line[a + b + x] = v[x]
      BY <1>2 DEF a, b, c
    <3> QED BY <2>7, <3>1, <3>2
  <2>10. w = value /\ m = b - 1 /\ c = Len(v) /\ m \in Nat
    <3>1. m = b - 1 /\ c = Len(v)
      BY DEF m, b, c
    <3>2. w = value
      BY <2>3, Zenon DEF w, n
    <3> QED BY <2>1, <3>1, <3>2
  <2> QED BY <2>5, <2>6, <2>8, <2>9, <2>10
<1> HIDE DEF value, m, colon
<1>7. (IF strip_initial_whitespace(value) = <<>> THEN value
       ELSE strip_initial_whitespace(value)) = v
  <2>1. CASE v # <<>> /\ v[1] # Space
    <3>1. strip_initial_whitespace(value) = SubSeq(value, m + 1, Len(value))
      <4>1. m \in 0..Len(value) /\ (m < Len(value) => value[m + 1] # Space)
        BY <1>1, <1>2, <1>6, <2>1
      <4> QED BY <1>6, <4>1, Stripped
    <3>2. SubSeq(value, m + 1, Len(value)) = v
      BY <1>1, <1>2, <1>6
    <3> QED BY <2>1, <3>1, <3>2
  <2>2. CASE Len(p) = 1 /\ \A j \in DOMAIN v : v[j] = Space
    <3>1. m = 0 /\ value = v
      <4>1. m = 0
        BY <2>2 DEF m
      <4>2. Len(value) = Len(v)
        BY <1>2, <1>6, <4>1
      <4>3. \A x \in 1..Len(v) : m + x = x
        BY <4>1
      <4>4. ASSUME NEW x \in 1..Len(value) PROVE value[x] = v[x]
        <5>1. x \in 1..Len(v)
          BY <4>2
        <5>2. value[m + x] = v[x]
          BY <1>6, <5>1
        <5> QED BY <4>3, <5>1, <5>2
      <4> QED BY <1>1, <1>6, <4>1, <4>2, <4>4, SeqEqual
    <3>2. strip_initial_whitespace(value)
            = SubSeq(value, Len(value) + 1, Len(value))
      <4> DEFINE n == Len(value)
      <4>1. n \in 0..Len(value) /\ (n < Len(value) => value[n + 1] # Space)
        BY <1>6
      <4>2. \A j \in 1..n : value[j] = Space
        <5>1. DOMAIN v = 1..n
          BY <1>1, <3>1
        <5> QED BY <2>2, <3>1, <5>1
      <4> HIDE DEF n
      <4>3. strip_initial_whitespace(value) = SubSeq(value, n + 1, Len(value))
        BY <1>6, <4>1, <4>2, Stripped
      <4> QED BY <4>3 DEF n
    <3>3. SubSeq(value, Len(value) + 1, Len(value)) = <<>>
      BY <1>6
    <3> QED BY <3>1, <3>2, <3>3
  <2> QED BY <1>1, <2>1, <2>2
<1>8. HTTPHeader(line) =
        [key |-> SubSeq(line, 1, find(line, <<Colon>>) - 1),
         value |->
           IF strip_initial_whitespace(SubSeq(line, find(line, <<Colon>>) + 1,
                                              Len(line))) = <<>>
           THEN SubSeq(line, find(line, <<Colon>>) + 1, Len(line))
           ELSE strip_initial_whitespace(SubSeq(line, find(line, <<Colon>>) + 1,
                                                Len(line)))]
  BY Zenon DEF HTTPHeader
<1>9. HTTPHeader(line) = [key |-> k, value |-> v]
  BY <1>3, <1>5, <1>7, <1>8, Zenon DEF value
<1> QED BY <1>4, <1>9 DEF line, k, v
-----------------------------------------------------------------------------
(* Pieces of the wire.                                                     *)

\* What a piece of w holds, what is left of it when its first n bytes are
\* popped, and what these are.
LEMMA Piece ==
  ASSUME NEW T, NEW w \in Seq(T), NEW p \in 0..Len(w), NEW c \in 0..p
  PROVE  /\ SubSeq(w, c + 1, p) \in Seq(T)
         /\ Len(SubSeq(w, c + 1, p)) = p - c
         /\ \A x \in 1..(p - c) : SubSeq(w, c + 1, p)[x] = w[c + x]
<1> DEFINE a == c + 1
           b == SubSeq(w, a, p)
           n == Len(w)
<1>1. /\ a \in Nat \ {0} /\ a \in Int /\ p \in Int /\ p - a + 1 = p - c
      /\ n \in Nat /\ p \in 0..n /\ a = c + 1
  OBVIOUS
<1>2. \A x \in a..p : w[x] \in T
  OBVIOUS
<1> HIDE DEF a, n
<1>3. /\ b \in Seq(T)
      /\ Len(b) = IF a <= p THEN p - a + 1 ELSE 0
      /\ \A x \in 1..(p - a + 1) : b[x] = w[a + x - 1]
  BY <1>1, <1>2, SubSeqProperties
<1> HIDE DEF b
<1>4. Len(b) = p - c
  BY <1>1, <1>3
<1>5. ASSUME NEW x \in 1..(p - c) PROVE b[x] = w[c + x]
  <2>1. x \in 1..(p - a + 1) /\ a + x - 1 = c + x
    BY <1>1
  <2> QED BY <1>3, <2>1
<1> QED BY <1>3, <1>4, <1>5 DEF a, b

LEMMA PieceRest ==
  ASSUME NEW T, NEW w \in Seq(T), NEW p \in 0..Len(w), NEW c \in 0..p,
         NEW n \in 0..(p - c),
         NEW b, b = SubSeq(w, c + 1, p)
  PROVE  /\ SubSeq(b, n + 1, Len(b)) = SubSeq(w, c + n + 1, p)
         /\ SubSeq(b, 1, n) = SubSeq(w, c + 1, c + n)
<1>1. /\ b \in Seq(T) /\ Len(b) = p - c
      /\ \A x \in 1..(p - c) : b[x] = w[c + x]
  BY Piece
<1>2. SubSeq(b, n + 1, Len(b)) = SubSeq(w, c + n + 1, p)
  <2> DEFINE l == Len(b)
             d == c + n
             s == SubSeq(b, n + 1, l)
             t == SubSeq(w, d + 1, p)
  <2>1. l \in 0..Len(b) /\ n \in 0..l /\ d \in 0..p /\ l - n = p - d
    BY <1>1
  <2> HIDE DEF l, d
  <2>2. s \in Seq(T) /\ Len(s) = l - n /\ \A x \in 1..(l - n) : s[x] = b[n + x]
    <3>1. b \in Seq(T)
      BY <1>1
    <3>2. \A q \in 0..Len(b) : \A e \in 0..q :
            /\ SubSeq(b, e + 1, q) \in Seq(T)
            /\ Len(SubSeq(b, e + 1, q)) = q - e
            /\ \A x \in 1..(q - e) : SubSeq(b, e + 1, q)[x] = b[e + x]
      BY <3>1, Piece
    <3> QED BY <2>1, <3>2
  <2>3. t \in Seq(T) /\ Len(t) = p - d /\ \A x \in 1..(p - d) : t[x] = w[d + x]
    BY <2>1, Piece
  <2>4. ASSUME NEW x \in 1..Len(s) PROVE s[x] = t[x]
    <3>1. x \in 1..(l - n) /\ x \in 1..(p - d)
      BY <2>1, <2>2
    <3>2. n + x \in 1..(p - c) /\ c + (n + x) = d + x
      BY <1>1, <3>1 DEF l, d
    <3>3. b[n + x] = w[d + x]
      BY <1>1, <3>2
    <3> QED BY <2>2, <2>3, <3>1, <3>3
  <2> HIDE DEF s, t
  <2>5. s = t
    BY <2>1, <2>2, <2>3, <2>4, SeqEqual
  <2> QED BY <2>5, Zenon DEF s, t, l, d
<1>3. SubSeq(b, 1, n) = SubSeq(w, c + 1, c + n)
  <2> DEFINE d == c + n
             s == SubSeq(b, 1, n)
             t == SubSeq(w, c + 1, d)
  <2>1. d \in 0..Len(w) /\ c \in 0..d /\ d - c = n /\ n \in 0..Len(b)
    BY <1>1
  <2> HIDE DEF d
  <2>2. s \in Seq(T) /\ Len(s) = n /\ \A x \in 1..n : s[x] = b[x]
    <3>1. 0 + 1 = 1 /\ 0 \in 0..n /\ n - 0 = n
      OBVIOUS
    <3>2. \A x \in 1..n : 0 + x = x
      OBVIOUS
    <3>3. /\ SubSeq(b, 0 + 1, n) \in Seq(T) /\ Len(SubSeq(b, 0 + 1, n)) = n - 0
          /\ \A x \in 1..(n - 0) : SubSeq(b, 0 + 1, n)[x] = b[0 + x]
      BY <1>1, <2>1, <3>1, Piece
    <3> QED BY <3>1, <3>2, <3>3
  <2>3. t \in Seq(T) /\ Len(t) = d - c /\ \A x \in 1..(d - c) : t[x] = w[c + x]
    BY <2>1, Piece
  <2>4. ASSUME NEW x \in 1..Len(s) PROVE s[x] = t[x]
    <3>1. x \in 1..n /\ x \in 1..(p - c) /\ x \in 1..(d - c)
      BY <2>1, <2>2
    <3> QED BY <1>1, <2>2, <2>3, <3>1
  <2> HIDE DEF s, t
  <2>5. s = t
    BY <2>1, <2>2, <2>3, <2>4, SeqEqual
  <2> QED BY <2>5, Zenon DEF s, t, d
<1> QED BY <1>2, <1>3

\* A piece and the one after it.
LEMMA PieceMore ==
  ASSUME NEW T, NEW w \in Seq(T), NEW p \in 0..Len(w), NEW q \in 0..p,
         NEW c \in 0..q
  PROVE  SubSeq(w, c + 1, q) \o SubSeq(w, q + 1, p) = SubSeq(w, c + 1, p)
<1> DEFINE m == c + 1
           l == Len(w)
<1>1. m \in 1..(l + 1) /\ q \in (m - 1)..l /\ p \in q..l /\ l \in Nat
  OBVIOUS
<1> HIDE DEF m
<1>2. SubSeq(w, m, q) \o SubSeq(w, q + 1, p) = SubSeq(w, m, p)
  BY <1>1, ConcatAdjacentSubSeq
<1> QED BY <1>2 DEF m
-----------------------------------------------------------------------------
(* The inductive invariant.                                                *)

\* The peer.
PeerInv ==
  /\ script \in Scripts /\ wire = Wire(script) /\ starts = Starts(script)
  /\ pos \in 0..Len(wire) /\ arrived \in 0..Len(script.requests)
  /\ script.kind = "request" => arrived = 0
  /\ pos <= Available
  /\ eof \in BOOLEAN

Parsers ==
  [buffer : String, size : Nat, acked : Nat, parsed : Nat,
   state : {"CHUNK_HDR", "CHUNK", "TRAILER"}, trailers : BOOLEAN, input : Nat]

Count == Len(script.sent)
Msg(i) == script.sent[i]
Headers(i) == Len(Msg(i).headers)

\* Where the n-th header of the i-th message ends, and the line after it.
HeaderPos(i, n) ==
  LineEnd(i)
    + Len(FlattenSeq([j \in 1..n |-> HeaderLine(Msg(i).headers[j]) \o CRLF]))
NextPos(i, n) == IF n < Headers(i) THEN HeaderPos(i, n + 1) ELSE HeadEnd(i)

\* The bytes from c on have not been taken.
Unread(c) == c <= pos /\ buffer_ = SubSeq(wire, c + 1, pos)

\* The requests that have not been answered by the first n messages.
Waiting(n) ==
  requests_ = IF script.kind = "request" THEN <<>>
              ELSE SubSeq(script.requests, n + 1, arrived)

\* The i-th message is due: those before it have been handed on.
Due(i) ==
  /\ i \in 1..(Count + 1)
  /\ \A j \in 1..(i - 1) : Msg(j).ends \in {"length", "chunked"}

Rule(i) == Body(script.kind, WholeHead(script, i))
Announces(i) == has_header(WholeHead(script, i), "Trailer")

\* It is one the parser can read the body of.
Readable(i) ==
  /\ script.kind = "response" => i <= Len(script.requests)
  /\ \A j \in 1..Headers(i) : IsHeader(Msg(i).headers[j])
  /\ HasItsBody(script, i)
  /\ Rule(i).ends # "throws"

Between(i) ==
  /\ pc \in {"parse", "rest"}
  /\ message_ = NewMessage /\ complete_ = Whole(i - 1)
  /\ Unread(starts[i]) /\ Waiting(i - 1)
  /\ (pc = "rest" \/ eof) /\ i <= Count => pos < LineEnd(i)

InHead(i, n) ==
  /\ pc \in {"parse", "rest"} /\ ~eof
  /\ i <= Count /\ n \in 0..Headers(i)
  /\ script.kind = "response" => i <= Len(script.requests)
  /\ \A j \in 1..n : IsHeader(Msg(i).headers[j])
  /\ message_ = HeadRead(script, i, n) /\ complete_ = Whole(i - 1)
  /\ Unread(HeaderPos(i, n)) /\ Waiting(i)
  /\ pc = "rest" => pos < NextPos(i, n)

\* The message in progress with n bytes of its body.
BodyRead(i, n, state) ==
  [state |-> state, first_line |-> Msg(i).first_line,
   headers |-> WholeHead(script, i).headers,
   body |-> SubSeq(Msg(i).body, 1, n),
   known |-> Rule(i).ends = "length", expected |-> Rule(i).size,
   parser |-> IF Rule(i).ends \in {"chunked", "close"} THEN Rule(i).ends
              ELSE "none",
   request |-> WholeHead(script, i).request]

\* What the parser of a chunked body is at: a header, what follows the header of
\* the chunk c, or what follows that of the last one.
AtHeader(i, n) ==
  /\ chunk_.state = "CHUNK_HDR" /\ chunk_.parsed \in Msg(i).chunks
  /\ n < SizeEnd(Msg(i).body, chunk_.parsed)

AtChunk(i, n, c) ==
  /\ chunk_.state = "CHUNK" /\ chunk_.parsed = SizeEnd(Msg(i).body, c)
  /\ IsInteger(SizeOf(Msg(i).body, c))
  /\ chunk_.size = myatoi(SizeOf(Msg(i).body, c)) /\ chunk_.size # 0
  /\ n < chunk_.parsed + chunk_.size + 2

AtTrailer(i, n, c) ==
  /\ chunk_.state = "TRAILER" /\ chunk_.parsed = SizeEnd(Msg(i).body, c)
  /\ IsInteger(SizeOf(Msg(i).body, c)) /\ myatoi(SizeOf(Msg(i).body, c)) = 0
  /\ n < Len(Msg(i).body)

AtItem(i, n) ==
  \/ AtHeader(i, n)
  \/ \E c \in Msg(i).chunks : AtChunk(i, n, c) \/ AtTrailer(i, n, c)

\* It is where its chunks say, of its first n bytes, and what it is at has not
\* ended.  While it reads, it has all of the input.
Given(i, n) == IF pc = "chunk" THEN pos ELSE HeadEnd(i) + n

InChunks(i, n) ==
  /\ chunk_.trailers = Announces(i) /\ chunk_.acked = n
  /\ HeadEnd(i) + chunk_.parsed <= Given(i, n)
  /\ chunk_.buffer = SubSeq(wire, HeadEnd(i) + chunk_.parsed + 1, Given(i, n))
  /\ pc = "chunk" => chunk_.input = Len(buffer_)
  /\ AtItem(i, n)

InBody(i, n) ==
  /\ pc \in {"parse", "rest", "chunk"} /\ ~eof
  /\ i <= Count /\ n \in 0..Len(Msg(i).body) /\ Readable(i)
  /\ message_ = BodyRead(i, n, "BODY_PENDING") /\ complete_ = Whole(i - 1)
  /\ Unread(HeadEnd(i) + n) /\ Waiting(i)
  /\ pc = "rest" => buffer_ = <<>>
  /\ pc = "rest" /\ Msg(i).ends = "length" => n < Len(Msg(i).body)
  /\ pc = "chunk" => Rule(i).ends = "chunked"
  /\ Rule(i).ends = "chunked" => InChunks(i, n)

AtEnd(i) ==
  /\ pc = "parse" /\ ~eof
  /\ i <= Count /\ Msg(i).ends \in {"length", "chunked"}
  /\ message_ = BodyRead(i, Len(Msg(i).body), "COMPLETE")
  /\ complete_ = Whole(i - 1)
  /\ Unread(starts[i + 1]) /\ Waiting(i)

\* The end of file came when n bytes of the body had, and nothing else is left.
CutShort(i, n) ==
  /\ eof /\ i <= Count /\ n \in 0..Len(Msg(i).body)
  /\ Msg(i).ends \in {"chunked", "close", "refused"}
  /\ Msg(i).ends # "close" => pos < starts[i + 1]
  /\ pos = HeadEnd(i) + n /\ buffer_ = <<>>

AtEof(i, n) ==
  /\ CutShort(i, n) /\ pc = "parse"
  /\ message_ = BodyRead(i, n, "COMPLETE") /\ complete_ = Whole(i - 1)

AfterEof(i, n) ==
  /\ CutShort(i, n) /\ pc \in {"parse", "rest"}
  /\ message_ = NewMessage
  /\ complete_ = Append(Whole(i - 1), AsSent(i, n))

Thrown(i) ==
  /\ pc = "thrown" /\ i <= Count /\ complete_ = Whole(i - 1)
  /\ ~eof => ~Accepted(i)
  /\ eof =>
       /\ pos >= LineEnd(i) /\ pos < starts[i + 1]
       /\ pos < HeadEnd(i) \/ Msg(i).ends \notin {"chunked", "close"}

Parsing(i) ==
  \/ Between(i)
  \/ \E n \in Nat : InHead(i, n)
  \/ \E n \in Nat : InBody(i, n)
  \/ AtEnd(i)
  \/ \E n \in Nat : AtEof(i, n) \/ AfterEof(i, n)
  \/ Thrown(i)

IInv ==
  /\ PeerInv /\ chunk_ \in Parsers
  /\ \E i \in Nat : Due(i) /\ Parsing(i)

-----------------------------------------------------------------------------
(* Where things are on the wire.                                           *)

\* The line end.
LEMMA CRLFType ==
  CRLF \in String /\ Len(CRLF) = 2 /\ CRLF[1] = "CR" /\ CRLF[2] = "LF"
<1>1. "CR" \in Tokens /\ "LF" \in Tokens
  BY DEF Tokens
<1>2. ASSUME NEW T, NEW a \in T, NEW b \in T
      PROVE  <<a, b>> \in Seq(T) /\ Len(<<a, b>>) = 2
             /\ <<a, b>>[1] = a /\ <<a, b>>[2] = b
  OBVIOUS
<1> QED BY <1>1, <1>2, Zenon DEF CRLF, String

\* A line that starts at c is there as soon as its line end is.
LEMMA LineFound ==
  ASSUME NEW w \in String, NEW p \in 0..Len(w), NEW c \in 0..p,
         NEW line \in String, IsLine(line), c + Len(line) + 2 <= Len(w),
         \A x \in 1..(Len(line) + 2) : w[c + x] = (line \o CRLF)[x],
         NEW b, b = SubSeq(w, c + 1, p)
  PROVE  /\ find(b, CRLF) = IF c + Len(line) + 2 <= p THEN Len(line) + 1 ELSE 0
         /\ c + Len(line) + 2 <= p => SubSeq(b, 1, Len(line)) = line
<1> DEFINE a == line \o CRLF
           l == Len(line)
           n == Len(b)
<1>1. /\ a \in Seq(Tokens) /\ Len(a) = l + 2 /\ l \in Nat
      /\ \A x \in 1..l : a[x] = line[x]
  <2>1. line \in Seq(Tokens) /\ CRLF \in Seq(Tokens) /\ Len(CRLF) = 2
    BY CRLFType DEF String
  <2> HIDE DEF a
  <2>2. ASSUME NEW s \in Seq(Tokens), NEW t \in Seq(Tokens)
        PROVE  /\ s \o t \in Seq(Tokens) /\ Len(s \o t) = Len(s) + Len(t)
               /\ \A x \in 1..Len(s) : (s \o t)[x] = s[x]
    BY ConcatProperties
  <2>3. /\ line \o CRLF \in Seq(Tokens)
        /\ Len(line \o CRLF) = Len(line) + Len(CRLF)
        /\ \A x \in 1..Len(line) : (line \o CRLF)[x] = line[x]
    BY <2>1, <2>2
  <2>4. Len(line) \in Nat /\ Len(line \o CRLF) = Len(line) + 2
    BY <2>1, <2>3
  <2> QED BY <2>3, <2>4 DEF a
<1>2. b \in Seq(Tokens) /\ n = p - c /\ \A x \in 1..n : b[x] = w[c + x]
  BY Piece DEF String
<1>3. find(a, CRLF) = l + 1
  BY DEF IsLine
<1>4. \A x \in 1..(l + 2) : w[c + x] = a[x]
  OBVIOUS
<1> HIDE DEF a
<1>5. \A x \in 1..Len(a) : x <= Len(b) => b[x] = a[x]
  BY <1>1, <1>2, <1>4
<1>6. find(b, CRLF) = IF find(a, CRLF) + Len(CRLF) - 1 <= Len(b)
                      THEN find(a, CRLF) ELSE 0
  <2>1. find(a, CRLF) # 0 /\ CRLF \in Seq(Tokens)
    BY <1>1, <1>3, CRLFType DEF String
  <2>2. ASSUME NEW s \in Seq(Tokens), NEW t \in Seq(Tokens),
               NEW needle \in Seq(Tokens), find(s, needle) # 0,
               \A x \in 1..Len(s) : x <= Len(t) => t[x] = s[x]
        PROVE  find(t, needle) =
                 IF find(s, needle) + Len(needle) - 1 <= Len(t)
                 THEN find(s, needle) ELSE 0
    BY <2>2, FindAgrees
  <2> QED BY <1>1, <1>2, <1>5, <2>1, <2>2, ZenonT(40)
<1>7. find(b, CRLF) = IF l + 2 <= n THEN l + 1 ELSE 0
  BY <1>1, <1>2, <1>3, <1>6, CRLFType
<1>8. (l + 2 <= n) <=> (c + l + 2 <= p)
  BY <1>1, <1>2
<1>9. ASSUME c + l + 2 <= p PROVE SubSeq(b, 1, l) = line
  <2>1. l \in 0..(p - c) /\ l <= n
    BY <1>1, <1>8, <1>9
  <2>2. \A x \in 1..l : b[x] = line[x]
    BY <1>1, <1>2, <1>4, <2>1
  <2>3. SubSeq(b, 1, l) = SubSeq(line, 1, l)
    <3>1. l <= Len(b) /\ l <= Len(line) /\ 1 \in Nat \ {0} /\ l \in Nat
      BY <1>1, <2>1
    <3> HIDE DEF l
    <3> QED BY <1>2, <2>2, <3>1, SamePart DEF String
  <2>4. SubSeq(line, 1, Len(line)) = line
    BY SubSeqFull DEF String
  <2> QED BY <2>3, <2>4
<1> QED BY <1>7, <1>8, <1>9

\* The empty line.
LEMMA EmptyLine ==
  <<>> \in String /\ IsLine(<<>>) /\ Len(<<>>) = 0 /\ <<>> \o CRLF = CRLF
<1>1. <<>> \in Seq(Tokens) /\ CRLF \in Seq(Tokens) /\ <<>> \o CRLF = CRLF
      /\ Len(CRLF) = 2
  BY CRLFType, ConcatEmptySeq DEF String
<1>2. SubSeq(CRLF, 1, 2) = CRLF
  BY <1>1, SubSeqFull
<1>3. At(CRLF, CRLF, 1)
  BY <1>1, <1>2 DEF At
<1>4. find(CRLF, CRLF) \in Nat \ {0} /\ find(CRLF, CRLF) <= 1
  BY <1>1, <1>3, FindIs
<1>5. find(CRLF, CRLF) = 1
  BY <1>4
<1> QED BY <1>1, <1>5 DEF IsLine, String

\* Two strings, one after the other.
LEMMA Concat2 ==
  ASSUME NEW p \in Seq(Tokens), NEW q \in Seq(Tokens)
  PROVE  /\ p \o q \in Seq(Tokens) /\ Len(p \o q) = Len(p) + Len(q)
         /\ Len(p) \in Nat /\ Len(q) \in Nat
         /\ \A x \in 1..Len(p) : (p \o q)[x] = p[x]
         /\ \A x \in 1..Len(q) : (p \o q)[Len(p) + x] = q[x]
<1>1. p \o q \in Seq(Tokens) /\ Len(p \o q) = Len(p) + Len(q)
  OBVIOUS
<1>2. Len(p) \in Nat /\ Len(q) \in Nat
  OBVIOUS
<1>3. \A x \in 1..Len(p) : (p \o q)[x] = p[x]
  OBVIOUS
<1>4. \A x \in 1..Len(q) : (p \o q)[Len(p) + x] = q[x]
  OBVIOUS
<1> QED BY <1>1, <1>2, <1>3, <1>4

\* Four of them.
LEMMA Concat4 ==
  ASSUME NEW p \in Seq(Tokens), NEW q \in Seq(Tokens), NEW r \in Seq(Tokens),
         NEW t \in Seq(Tokens), NEW s, s = p \o q \o r \o t
  PROVE  /\ s \in Seq(Tokens) /\ Len(s) = Len(p) + Len(q) + Len(r) + Len(t)
         /\ \A x \in 1..Len(p) : s[x] = p[x]
         /\ \A x \in 1..Len(q) : s[Len(p) + x] = q[x]
         /\ \A x \in 1..Len(r) : s[Len(p) + Len(q) + x] = r[x]
         /\ \A x \in 1..Len(t) : s[Len(p) + Len(q) + Len(r) + x] = t[x]
<1> DEFINE u == p \o q
           v == u \o r
           a == Len(p)
           b == Len(q)
           c == Len(r)
           d == Len(t)
<1>1. /\ u \in Seq(Tokens) /\ Len(u) = a + b /\ a \in Nat /\ b \in Nat
      /\ \A x \in 1..a : u[x] = p[x]
      /\ \A x \in 1..b : u[a + x] = q[x]
  BY Concat2
<1> HIDE DEF u
<1>2. /\ v \in Seq(Tokens) /\ Len(v) = Len(u) + c /\ c \in Nat
      /\ \A x \in 1..Len(u) : v[x] = u[x]
      /\ \A x \in 1..c : v[Len(u) + x] = r[x]
  BY <1>1, Concat2
<1> HIDE DEF v
<1>3. s = v \o t
  BY DEF u, v
<1>4. /\ s \in Seq(Tokens) /\ Len(s) = Len(v) + d /\ d \in Nat
      /\ \A x \in 1..Len(v) : s[x] = v[x]
      /\ \A x \in 1..d : s[Len(v) + x] = t[x]
  <2> DEFINE z == v \o t
  <2>1. /\ z \in Seq(Tokens) /\ Len(z) = Len(v) + d /\ d \in Nat
        /\ \A x \in 1..Len(v) : z[x] = v[x]
        /\ \A x \in 1..d : z[Len(v) + x] = t[x]
    BY <1>2, Concat2
  <2>2. s = z
    BY <1>3
  <2> HIDE DEF z
  <2> QED BY <2>1, <2>2, Zenon
<1> HIDE DEF a, b, c, d
<1>5. Len(u) = a + b /\ Len(v) = a + b + c /\ Len(s) = a + b + c + d
  BY <1>1, <1>2, <1>4
<1>6. ASSUME NEW x \in 1..a PROVE s[x] = p[x]
  <2>1. x \in 1..Len(u) /\ x \in 1..Len(v)
    BY <1>1, <1>2, <1>5
  <2> QED BY <1>1, <1>2, <1>4, <2>1
<1>7. ASSUME NEW x \in 1..b PROVE s[a + x] = q[x]
  <2>1. a + x \in 1..Len(u) /\ a + x \in 1..Len(v)
    BY <1>1, <1>2, <1>5
  <2> QED BY <1>1, <1>2, <1>4, <2>1
<1>8. ASSUME NEW x \in 1..c PROVE s[a + b + x] = r[x]
  <2>1. a + b + x \in 1..Len(v) /\ Len(u) + x = a + b + x
    BY <1>1, <1>2, <1>5
  <2> QED BY <1>2, <1>4, <2>1
<1>9. ASSUME NEW x \in 1..d PROVE s[a + b + c + x] = t[x]
  <2>1. Len(v) + x = a + b + c + x
    BY <1>1, <1>2, <1>5
  <2> QED BY <1>4, <2>1
<1> QED BY <1>4, <1>5, <1>6, <1>7, <1>8, <1>9 DEF a, b, c, d

\* The headers of m as lines.
HeaderLines(m) == [j \in DOMAIN m.headers |-> HeaderLine(m.headers[j]) \o CRLF]

LEMMA HeaderLinesType ==
  ASSUME NEW m \in Messages
  PROVE  /\ HeaderLines(m) \in Seq(Seq(Tokens))
         /\ Len(HeaderLines(m)) = Len(m.headers) /\ Len(m.headers) \in Nat
         /\ \A j \in 1..Len(m.headers) :
              /\ HeaderLines(m)[j] = HeaderLine(m.headers[j]) \o CRLF
              /\ HeaderLine(m.headers[j]) \in String
              /\ Len(HeaderLines(m)[j]) = Len(HeaderLine(m.headers[j])) + 2
              /\ m.headers[j].key \in Seq(Tokens)
              /\ m.headers[j].sep \in Seq(Tokens)
              /\ m.headers[j].value \in Seq(Tokens)
<1> DEFINE hs == m.headers
           n == Len(hs)
<1>1. hs \in Seq([key : Seq(Tokens), sep : Seq(Tokens), value : Seq(Tokens)])
  BY DEF Messages, String
<1>2. n \in Nat /\ DOMAIN hs = 1..n
  BY <1>1
<1>3. ASSUME NEW j \in 1..n
      PROVE  /\ HeaderLine(hs[j]) \in Seq(Tokens)
             /\ HeaderLine(hs[j]) \o CRLF \in Seq(Tokens)
             /\ Len(HeaderLine(hs[j]) \o CRLF) = Len(HeaderLine(hs[j])) + 2
             /\ hs[j].key \in Seq(Tokens) /\ hs[j].sep \in Seq(Tokens)
             /\ hs[j].value \in Seq(Tokens)
  <2>1. hs[j] \in [key : Seq(Tokens), sep : Seq(Tokens), value : Seq(Tokens)]
    <3> DEFINE R == [key : Seq(Tokens), sep : Seq(Tokens), value : Seq(Tokens)]
    <3>1. hs \in Seq(R)
      BY <1>1
    <3> HIDE DEF hs, R
    <3>2. hs[j] \in R
      BY <3>1, ElementOfSeq
    <3> QED BY <3>2 DEF R
  <2>2. /\ hs[j].key \in Seq(Tokens) /\ hs[j].sep \in Seq(Tokens)
        /\ hs[j].value \in Seq(Tokens)
    BY <2>1
  <2> HIDE DEF hs
  <2>3. HeaderLine(hs[j]) \in Seq(Tokens)
    BY <2>2 DEF HeaderLine
  <2>4. CRLF \in Seq(Tokens) /\ Len(CRLF) = 2
    BY CRLFType DEF String
  <2> DEFINE a == HeaderLine(hs[j])
  <2>5. a \in Seq(Tokens)
    BY <2>3
  <2> HIDE DEF a
  <2>6. a \o CRLF \in Seq(Tokens) /\ Len(a \o CRLF) = Len(a) + 2
    <3>1. /\ a \o CRLF \in Seq(Tokens)
          /\ Len(a \o CRLF) = Len(a) + Len(CRLF)
      BY <2>4, <2>5, Concat2, Zenon
    <3> QED BY <2>4, <3>1, Zenon
  <2> QED BY <2>2, <2>3, <2>6 DEF a
<1> HIDE DEF hs, n
<1>4. HeaderLines(m) = [j \in 1..n |-> HeaderLine(hs[j]) \o CRLF]
  BY <1>2 DEF HeaderLines, hs
<1>5. HeaderLines(m) \in Seq(Seq(Tokens)) /\ Len(HeaderLines(m)) = n
  BY <1>2, <1>3, <1>4
<1>6. \A j \in 1..n : HeaderLines(m)[j] = HeaderLine(hs[j]) \o CRLF
  BY <1>4
<1> QED BY <1>2, <1>3, <1>5, <1>6 DEF hs, n, String

\* A message on the wire: a line, the headers, the empty line, the body.
LEMMA StrLayout ==
  ASSUME NEW m \in Messages
  PROVE  LET p == m.first_line \o CRLF
             q == Joined(HeaderLines(m), Len(m.headers))
         IN  /\ str(m) \in Seq(Tokens)
             /\ Len(p) = Len(m.first_line) + 2
             /\ Len(m.first_line) \in Nat /\ Len(q) \in Nat
             /\ Len(m.body) \in Nat
             /\ Len(str(m)) = Len(p) + Len(q) + 2 + Len(m.body)
             /\ \A x \in 1..Len(p) : str(m)[x] = p[x]
             /\ \A x \in 1..Len(q) : str(m)[Len(p) + x] = q[x]
             /\ \A x \in 1..2 : str(m)[Len(p) + Len(q) + x] = CRLF[x]
             /\ \A x \in 1..Len(m.body) :
                  str(m)[Len(p) + Len(q) + 2 + x] = m.body[x]
<1> DEFINE p == m.first_line \o CRLF
           q == Joined(HeaderLines(m), Len(m.headers))
           t == m.body
<1>1. m.first_line \in Seq(Tokens) /\ t \in Seq(Tokens) /\ CRLF \in Seq(Tokens)
      /\ Len(CRLF) = 2
  BY CRLFType DEF Messages, String
<1>2. p \in Seq(Tokens) /\ Len(p) = Len(m.first_line) + 2
      /\ Len(m.first_line) \in Nat
  BY <1>1, Concat2
<1>3. q \in Seq(Tokens)
  BY HeaderLinesType, JoinedType
<1>4. [i \in DOMAIN m.headers |-> HeaderLine(m.headers[i]) \o CRLF]
        = [j \in 1..Len(m.headers) |-> HeaderLines(m)[j]]
  <2>1. DOMAIN m.headers = 1..Len(m.headers)
    BY DEF Messages, String
  <2> QED BY <2>1 DEF HeaderLines
<1>5. str(m) = p \o q \o CRLF \o t
  BY <1>4, Zenon DEF str, Joined
<1> HIDE DEF p, q, t
<1> DEFINE s == str(m)
<1>6. s = p \o q \o CRLF \o t
  BY <1>5
<1> HIDE DEF s
<1>7. /\ s \in Seq(Tokens) /\ Len(s) = Len(p) + Len(q) + Len(CRLF) + Len(t)
      /\ \A x \in 1..Len(p) : s[x] = p[x]
      /\ \A x \in 1..Len(q) : s[Len(p) + x] = q[x]
      /\ \A x \in 1..Len(CRLF) : s[Len(p) + Len(q) + x] = CRLF[x]
      /\ \A x \in 1..Len(t) : s[Len(p) + Len(q) + Len(CRLF) + x] = t[x]
  <2> DEFINE r == CRLF
  <2>1. r \in Seq(Tokens) /\ s = p \o q \o r \o t
    BY <1>1, <1>6
  <2> HIDE DEF r
  <2>2. /\ s \in Seq(Tokens) /\ Len(s) = Len(p) + Len(q) + Len(r) + Len(t)
        /\ \A x \in 1..Len(p) : s[x] = p[x]
        /\ \A x \in 1..Len(q) : s[Len(p) + x] = q[x]
        /\ \A x \in 1..Len(r) : s[Len(p) + Len(q) + x] = r[x]
        /\ \A x \in 1..Len(t) : s[Len(p) + Len(q) + Len(r) + x] = t[x]
    <3> DEFINE Four(k, l, v, u, z) ==
            /\ z \in Seq(Tokens) /\ Len(z) = Len(k) + Len(l) + Len(v) + Len(u)
            /\ \A x \in 1..Len(k) : z[x] = k[x]
            /\ \A x \in 1..Len(l) : z[Len(k) + x] = l[x]
            /\ \A x \in 1..Len(v) : z[Len(k) + Len(l) + x] = v[x]
            /\ \A x \in 1..Len(u) : z[Len(k) + Len(l) + Len(v) + x] = u[x]
    <3>1. \A k, l, v, u \in Seq(Tokens) : \A z : z = k \o l \o v \o u =>
            Four(k, l, v, u, z)
      BY Concat4, Zenon
    <3> HIDE DEF Four
    <3>2. p \in Seq(Tokens) /\ q \in Seq(Tokens) /\ t \in Seq(Tokens)
      BY <1>1, <1>2, <1>3
    <3>3. Four(p, q, r, t, s)
      BY <2>1, <3>1, <3>2, Zenon
    <3> QED BY <3>3, Zenon DEF Four
  <2> QED BY <2>2 DEF r
<1>8. Len(q) \in Nat /\ Len(t) \in Nat
  BY <1>1, <1>3
<1> QED BY <1>1, <1>2, <1>7, <1>8, Zenon DEF p, q, t, s

\* What is sent.
LEMMA ScriptType ==
  ASSUME script \in Scripts
  PROVE  /\ script.kind \in {"request", "response"}
         /\ script.requests \in Seq(String) /\ Len(script.requests) \in Nat
         /\ script.sent \in Seq(Messages) /\ Count \in Nat
         /\ DOMAIN script.sent = 1..Count
         /\ script.kind = "response" => Len(script.requests) <= Count
         /\ \A i \in 1..Count : Msg(i) \in Messages /\ IsMessage(script, i)
<1>1. /\ script.kind \in {"request", "response"}
      /\ script.requests \in Seq(String) /\ script.sent \in Seq(Messages)
      /\ script.kind = "response" => Len(script.requests) <= Len(script.sent)
      /\ \A i \in DOMAIN script.sent : IsMessage(script, i)
  BY ScriptsAssumption
<1> DEFINE r == script.requests
           t == script.sent
<1>2. r \in Seq(String) /\ t \in Seq(Messages)
  BY <1>1
<1> HIDE DEF r, t
<1>3. Len(r) \in Nat /\ Len(t) \in Nat /\ DOMAIN t = 1..Len(t)
  BY <1>2
<1>4. \A i \in 1..Len(t) : t[i] \in Messages
  BY <1>2
<1> QED BY <1>1, <1>3, <1>4 DEF r, t, Count, Msg

\* The messages, and the wire that carries them.
Sent ==
  script \in Scripts /\ wire = Wire(script) /\ starts = Starts(script)

\* The messages on the wire.
LEMMA SentLayout ==
  ASSUME Sent
  PROVE  /\ wire \in Seq(Tokens) /\ Len(wire) \in Nat
         /\ starts[1] = 0 /\ starts[Count + 1] = Len(wire)
         /\ \A i \in 1..(Count + 1) : starts[i] \in Nat
         /\ \A i, j \in 1..(Count + 1) : i <= j => starts[i] <= starts[j]
         /\ \A i \in 1..Count :
              /\ starts[i + 1] = starts[i] + Len(str(Msg(i)))
              /\ \A x \in 1..Len(str(Msg(i))) :
                   wire[starts[i] + x] = str(Msg(i))[x]
<1>0. script \in Scripts
  BY DEF Sent
<1>1. Count \in Nat /\ DOMAIN script.sent = 1..Count
      /\ \A i \in 1..Count : Msg(i) \in Messages
  BY <1>0, ScriptType
<1> DEFINE f == [i \in 1..Count |-> str(Msg(i))]
           n == Count
<1>2. ASSUME NEW i \in 1..n PROVE str(Msg(i)) \in Seq(Tokens)
  BY <1>1, StrLayout
<1>3. f \in Seq(Seq(Tokens)) /\ Len(f) = n /\ \A i \in 1..n : f[i] = str(Msg(i))
  BY <1>1, <1>2
<1>4. wire = Joined(f, n)
  <2>1. [i \in DOMAIN script.sent |-> str(script.sent[i])]
          = [j \in 1..n |-> f[j]]
    BY <1>1 DEF Msg
  <2> QED BY <2>1, Zenon DEF Sent, Wire, Joined
<1>5. ASSUME NEW i \in 1..(n + 1)
      PROVE  starts[i] = Len(Joined(f, i - 1)) /\ i - 1 \in 0..n
  <2>1. starts = [k \in 1..(n + 1) |->
                    Len(FlattenSeq([j \in 1..(k - 1) |-> str(script.sent[j])]))]
    BY DEF Sent, Starts, Count
  <2>2. starts[i] = Len(FlattenSeq([j \in 1..(i - 1) |-> str(script.sent[j])]))
    BY <2>1, Zenon
  <2>3. i - 1 \in 0..n
    BY <1>1
  <2>4. [j \in 1..(i - 1) |-> str(script.sent[j])] = [j \in 1..(i - 1) |-> f[j]]
    <3>1. \A j \in 1..(i - 1) : j \in 1..n
      BY <1>1
    <3> QED BY <3>1, <1>3 DEF Msg
  <2> QED BY <2>2, <2>3, <2>4, Zenon DEF Joined
<1>6. n \in Nat
  BY <1>1
<1> HIDE DEF f, n
<1>7. wire \in Seq(Tokens) /\ Len(wire) \in Nat
  BY <1>3, <1>4, <1>6, JoinedType
<1>8. starts[1] = 0
  <2>1. 1 \in 1..(n + 1) /\ 1 - 1 = 0 /\ Len(<<>>) = 0
    BY <1>6
  <2>2. Joined(f, 0) = <<>>
    BY JoinedZero
  <2>3. starts[1] = Len(Joined(f, 1 - 1))
    BY <1>5, <2>1
  <2> QED BY <2>1, <2>2, <2>3, Zenon
<1>9. starts[n + 1] = Len(wire)
  <2>1. n + 1 \in 1..(n + 1) /\ (n + 1) - 1 = n
    BY <1>6
  <2>2. starts[n + 1] = Len(Joined(f, (n + 1) - 1))
    BY <1>5, <2>1
  <2> QED BY <1>4, <2>1, <2>2, Zenon
<1>10. ASSUME NEW i \in 1..(n + 1) PROVE starts[i] \in Nat
  <2>1. i - 1 \in Nat /\ i - 1 <= Len(f)
    BY <1>3, <1>5, <1>6
  <2>2. Joined(f, i - 1) \in Seq(Tokens)
    BY <1>3, <2>1, JoinedType
  <2>3. Len(Joined(f, i - 1)) \in Nat
    BY <2>2
  <2> QED BY <1>5, <2>3
<1>11. ASSUME NEW i \in 1..(n + 1), NEW j \in 1..(n + 1), i <= j
       PROVE  starts[i] <= starts[j]
  <2>1. i - 1 \in Nat /\ j - 1 \in Nat /\ i - 1 <= j - 1 /\ j - 1 <= Len(f)
    BY <1>3, <1>6, <1>11
  <2>2. \A a, b \in Nat : a <= b /\ b <= Len(f) =>
          Len(Joined(f, a)) <= Len(Joined(f, b))
    BY <1>3, JoinedPrefix
  <2>3. Len(Joined(f, i - 1)) <= Len(Joined(f, j - 1))
    BY <2>1, <2>2
  <2> QED BY <1>5, <2>3
<1>12. ASSUME NEW i \in 1..n
       PROVE  /\ starts[i + 1] = starts[i] + Len(str(Msg(i)))
              /\ \A x \in 1..Len(str(Msg(i))) :
                   wire[starts[i] + x] = str(Msg(i))[x]
  <2>1. \A k \in Nat : k < Len(f) =>
          /\ Len(Joined(f, k + 1)) = Len(Joined(f, k)) + Len(f[k + 1])
          /\ \A x \in 1..Len(f[k + 1]) :
               Joined(f, Len(f))[Len(Joined(f, k)) + x] = f[k + 1][x]
    BY <1>3, JoinedAt
  <2>2. i - 1 \in Nat /\ i - 1 < Len(f) /\ (i - 1) + 1 = i /\ (i + 1) - 1 = i
        /\ i \in 1..(n + 1) /\ i + 1 \in 1..(n + 1)
    BY <1>3, <1>6
  <2>3. starts[i] = Len(Joined(f, i - 1)) /\ starts[i + 1] = Len(Joined(f, i))
    BY <1>5, <2>2
  <2>4. f[i] = str(Msg(i)) /\ wire = Joined(f, Len(f))
    BY <1>3, <1>4
  <2>5. /\ Len(Joined(f, i)) = Len(Joined(f, i - 1)) + Len(f[i])
        /\ \A x \in 1..Len(f[i]) :
               Joined(f, Len(f))[Len(Joined(f, i - 1)) + x] = f[i][x]
    BY <2>1, <2>2
  <2> QED BY <2>3, <2>4, <2>5, Zenon
<1> QED BY <1>7, <1>8, <1>9, <1>10, <1>11, <1>12 DEF n

\* The messages on the wire.
LEMMA WireLayout ==
  ASSUME PeerInv
  PROVE  /\ wire \in Seq(Tokens) /\ Len(wire) \in Nat
         /\ starts[1] = 0 /\ starts[Count + 1] = Len(wire)
         /\ \A i \in 1..(Count + 1) : starts[i] \in Nat
         /\ \A i, j \in 1..(Count + 1) : i <= j => starts[i] <= starts[j]
         /\ \A i \in 1..Count :
              /\ starts[i + 1] = starts[i] + Len(str(Msg(i)))
              /\ \A x \in 1..Len(str(Msg(i))) :
                   wire[starts[i] + x] = str(Msg(i))[x]
<1>1. Sent
  BY DEF PeerInv, Sent
<1> QED BY <1>1, SentLayout

\* The header positions, by the strings they are the lengths of.
LEMMA HeaderPosIs ==
  ASSUME script \in Scripts, NEW i \in 1..Count, NEW n \in 0..Headers(i)
  PROVE  HeaderPos(i, n) = LineEnd(i) + Len(Joined(HeaderLines(Msg(i)), n))
<1> DEFINE m == Msg(i)
<1>1. m \in Messages
  BY ScriptType
<1> HIDE DEF m
<1>2. \A j \in 1..n : HeaderLines(m)[j] = HeaderLine(m.headers[j]) \o CRLF
  <2>1. Len(m.headers) \in Nat
    BY <1>1, HeaderLinesType
  <2>2. \A j \in 1..n : j \in 1..Len(m.headers)
    BY <2>1 DEF Headers, m
  <2> QED BY <1>1, <2>2, HeaderLinesType
<1>3. [j \in 1..n |-> HeaderLine(m.headers[j]) \o CRLF]
        = [j \in 1..n |-> HeaderLines(m)[j]]
  BY <1>2
<1> QED BY <1>3, Zenon DEF HeaderPos, Joined, m

\* The parts of a message on the wire.
LEMMA MessageLayout ==
  ASSUME PeerInv, NEW i \in 1..Count
  PROVE  /\ Msg(i) \in Messages /\ Headers(i) \in Nat
         /\ Msg(i).first_line \in String /\ Msg(i).body \in String
         /\ Len(Msg(i).first_line) \in Nat /\ Len(Msg(i).body) \in Nat
         /\ starts[i] \in Nat /\ starts[i + 1] \in Nat
         /\ Len(wire) \in Nat /\ starts[i + 1] <= Len(wire)
         /\ LineEnd(i) = starts[i] + Len(Msg(i).first_line) + 2
         /\ \A x \in 1..(Len(Msg(i).first_line) + 2) :
              wire[starts[i] + x] = (Msg(i).first_line \o CRLF)[x]
         /\ HeaderPos(i, 0) = LineEnd(i)
         /\ \A n \in 0..Headers(i) : HeaderPos(i, n) \in Nat
         /\ \A n \in 0..Headers(i) : LineEnd(i) <= HeaderPos(i, n)
         /\ \A n \in 0..Headers(i) : HeaderPos(i, n) + 2 <= HeadEnd(i)
         /\ HeadEnd(i) = HeaderPos(i, Headers(i)) + 2
         /\ \A x \in 1..2 : wire[HeaderPos(i, Headers(i)) + x] = CRLF[x]
         /\ starts[i + 1] = HeadEnd(i) + Len(Msg(i).body)
         /\ \A x \in 1..Len(Msg(i).body) : wire[HeadEnd(i) + x] = Msg(i).body[x]
<1>0. script \in Scripts
  BY DEF PeerInv
<1> DEFINE m == Msg(i)
           h == Headers(i)
           H == HeaderLines(m)
           p == m.first_line \o CRLF
           q == Joined(H, h)
           S == str(m)
           a == Len(m.first_line)
           b == Len(m.body)
           l == Len(q)
           L == Len(S)
           at == starts[i]
           next == starts[i + 1]
           at0(n) == Len(Joined(H, n))
<1>1. m \in Messages /\ Count \in Nat
  BY <1>0, ScriptType
<1>2. /\ H \in Seq(Seq(Tokens)) /\ Len(H) = h /\ h \in Nat
  BY <1>1, HeaderLinesType DEF Headers
<1>3. /\ Len(p) = a + 2 /\ a \in Nat /\ l \in Nat /\ b \in Nat
      /\ L = Len(p) + l + 2 + b
      /\ \A x \in 1..Len(p) : S[x] = p[x]
      /\ \A x \in 1..2 : S[Len(p) + l + x] = CRLF[x]
      /\ \A x \in 1..b : S[Len(p) + l + 2 + x] = m.body[x]
  <2> HIDE DEF m
  <2> QED BY <1>1, StrLayout, Zenon DEF Headers, m
<1>4. /\ at \in Nat /\ next \in Nat /\ next = at + L /\ next <= Len(wire)
      /\ Len(wire) \in Nat
      /\ \A x \in 1..L : wire[at + x] = S[x]
  <2>1. i \in 1..(Count + 1) /\ i + 1 \in 1..(Count + 1)
        /\ Count + 1 \in 1..(Count + 1) /\ i + 1 <= Count + 1
    BY <1>1
  <2> QED BY <2>1, WireLayout
<1>5. m.first_line \in String /\ m.body \in String
  BY <1>1 DEF Messages
<1>6. LineEnd(i) = at + a + 2 /\ HeadEnd(i) = next - b
  BY DEF LineEnd, HeadEnd, Msg
<1>7. ASSUME NEW n \in 0..h
      PROVE  /\ HeaderPos(i, n) = LineEnd(i) + at0(n) /\ at0(n) \in Nat
             /\ at0(n) <= l
  <2>1. HeaderPos(i, n) = LineEnd(i) + at0(n)
    BY <1>0, HeaderPosIs
  <2>2. n \in Nat /\ n <= Len(H) /\ h \in Nat /\ n <= h /\ h <= Len(H)
    BY <1>2
  <2> HIDE DEF H, h
  <2>3. Joined(H, n) \in Seq(Tokens)
    BY <1>2, <2>2, JoinedType
  <2>4. Len(Joined(H, n)) <= Len(Joined(H, h))
    BY <1>2, <2>2, JoinedPrefix
  <2> QED BY <2>1, <2>3, <2>4
<1>8. at0(0) = 0
  <2>1. Len(<<>>) = 0
    OBVIOUS
  <2> QED BY <2>1, JoinedZero, Zenon
<1>9. HeaderPos(i, 0) = LineEnd(i) /\ HeaderPos(i, h) = LineEnd(i) + l
  <2>1. 0 \in 0..h /\ h \in 0..h
    BY <1>2
  <2>2. /\ HeaderPos(i, 0) = LineEnd(i) + at0(0)
        /\ HeaderPos(i, h) = LineEnd(i) + at0(h)
    BY <1>7, <2>1
  <2> QED BY <1>3, <1>4, <1>6, <1>8, <2>2
<1> DEFINE le == LineEnd(i)
           he == HeadEnd(i)
<1>10. /\ le \in Nat /\ he = le + l + 2 /\ next = he + b
       /\ le = at + a + 2
  <2>1. /\ a \in Nat /\ l \in Nat /\ b \in Nat /\ at \in Nat /\ next \in Nat
        /\ next = at + L
    BY <1>3, <1>4
  <2>2. L = a + 2 + l + 2 + b
    <3>1. Len(p) = a + 2 /\ L = Len(p) + l + 2 + b
      BY <1>3
    <3> QED BY <3>1, Zenon
  <2>3. le = at + a + 2 /\ he = next - b
    BY <1>6
  <2> HIDE DEF a, b, l, L, at, next, le, he
  <2> QED BY <2>1, <2>2, <2>3
<1> HIDE DEF m, h, H, p, q, S, a, b, l, L, at, next, at0, le, he
<1>11. \A x \in 1..(a + 2) : wire[at + x] = p[x]
  <2>1. a + 2 <= L /\ L \in Nat
    BY <1>3
  <2> SUFFICES ASSUME NEW x \in 1..(a + 2) PROVE wire[at + x] = p[x]
    OBVIOUS
  <2>2. x \in 1..L /\ x \in 1..Len(p)
    BY <1>3, <2>1
  <2> QED BY <1>3, <1>4, <2>2
<1>12. \A x \in 1..2 : wire[(le + l) + x] = CRLF[x]
  <2>1. a + 2 + l \in Nat /\ (a + 2 + l) + 2 <= L /\ le + l = at + (a + 2 + l)
        /\ 2 \in Nat /\ L \in Nat /\ Len(p) + l = a + 2 + l
    BY <1>3, <1>4, <1>10
  <2>2. \A x \in 1..2 : S[(a + 2 + l) + x] = CRLF[x]
    BY <1>3, <2>1
  <2> SUFFICES ASSUME NEW x \in 1..2 PROVE wire[(le + l) + x] = CRLF[x]
    OBVIOUS
  <2>3. (a + 2 + l) + x \in 1..L /\ (le + l) + x = at + ((a + 2 + l) + x)
    <3>1. a \in Nat /\ l \in Nat /\ at \in Nat /\ le \in Nat
      BY <1>3, <1>4, <1>10
    <3>2. (a + 2 + l) + x \in 1..L
      BY <2>1, <3>1
    <3>3. (le + l) + x = at + ((a + 2 + l) + x)
      BY <1>10, <3>1
    <3> QED BY <3>2, <3>3
  <2>4. wire[at + ((a + 2 + l) + x)] = S[(a + 2 + l) + x]
    BY <1>4, <2>3, Zenon
  <2> QED BY <2>2, <2>3, <2>4, Zenon
<1>13. \A x \in 1..b : wire[he + x] = m.body[x]
  <2>1. a + 2 + l + 2 \in Nat /\ (a + 2 + l + 2) + b <= L
        /\ he = at + (a + 2 + l + 2) /\ L \in Nat
        /\ Len(p) + l + 2 = a + 2 + l + 2
    BY <1>3, <1>4, <1>10
  <2>2. \A x \in 1..b : S[(a + 2 + l + 2) + x] = m.body[x]
    BY <1>3, <2>1
  <2> DEFINE o == a + 2 + l + 2
             B == m.body
  <2>3. /\ o \in Nat /\ o + b <= L /\ he = at + o /\ L \in Nat
        /\ b \in Nat /\ at \in Nat
        /\ \A x \in 1..b : S[o + x] = B[x]
        /\ \A x \in 1..L : wire[at + x] = S[x]
    BY <1>3, <1>4, <2>1, <2>2
  <2> HIDE DEF o, B
  <2>4. \A x \in 1..b : wire[he + x] = B[x]
    <3> SUFFICES ASSUME NEW x \in 1..b PROVE wire[he + x] = B[x]
      OBVIOUS
    <3>1. o + x \in 1..L /\ he + x = at + (o + x)
      BY <2>3
    <3>2. wire[at + (o + x)] = S[o + x]
      BY <2>3, <3>1, Zenon
    <3>3. S[o + x] = B[x]
      BY <2>3, Zenon
    <3> QED BY <3>1, <3>2, <3>3, Zenon
  <2> QED BY <2>4 DEF B
<1>14. ASSUME NEW n \in 0..h
       PROVE  HeaderPos(i, n) \in Nat /\ le <= HeaderPos(i, n)
              /\ HeaderPos(i, n) + 2 <= he
  <2>1. HeaderPos(i, n) = le + at0(n) /\ at0(n) \in Nat /\ at0(n) <= l
    BY <1>7 DEF le
  <2>2. l \in Nat /\ le \in Nat /\ he = le + l + 2
    BY <1>3, <1>10
  <2> DEFINE z == at0(n)
  <2>3. HeaderPos(i, n) = le + z /\ z \in Nat /\ z <= l
    BY <2>1
  <2> HIDE DEF z
  <2> QED BY <2>2, <2>3
<1>15. he = HeaderPos(i, h) + 2 /\ HeaderPos(i, h) = le + l
  <2>1. HeaderPos(i, h) = le + l
    BY <1>9 DEF le
  <2> QED BY <1>3, <1>10, <2>1
<1>16. \A x \in 1..2 : wire[HeaderPos(i, h) + x] = CRLF[x]
  BY <1>12, <1>15
<1>17. h \in Nat /\ a \in Nat /\ b \in Nat
  BY <1>2, <1>3
<1>18. \A n \in 0..h : HeaderPos(i, n) \in Nat /\ le <= HeaderPos(i, n)
              /\ HeaderPos(i, n) + 2 <= he
  BY <1>14
<1> QED BY <1>1, <1>4, <1>5, <1>9, <1>10, <1>11, <1>13, <1>15, <1>16, <1>17,
           <1>18, Zenon DEF m, h, p, a, b, at, next, le, he

\* The n-th header on the wire.
LEMMA HeaderLayout ==
  ASSUME PeerInv, NEW i \in 1..Count, NEW n \in 0..(Headers(i) - 1)
  PROVE  LET r == Msg(i).headers[n + 1]
         IN  /\ n + 1 \in 1..Headers(i)
             /\ r.key \in Seq(Tokens) /\ r.sep \in Seq(Tokens)
             /\ r.value \in Seq(Tokens)
             /\ HeaderLine(r) \in String /\ Len(HeaderLine(r)) \in Nat
             /\ HeaderPos(i, n + 1) = HeaderPos(i, n) + Len(HeaderLine(r)) + 2
             /\ \A x \in 1..(Len(HeaderLine(r)) + 2) :
                  wire[HeaderPos(i, n) + x] = (HeaderLine(r) \o CRLF)[x]
<1>0. script \in Scripts
  BY DEF PeerInv
<1> DEFINE m == Msg(i)
           h == Headers(i)
           H == HeaderLines(m)
           p == m.first_line \o CRLF
           q == Joined(H, h)
           S == str(m)
           L == Len(S)
           l == Len(q)
           at == starts[i]
           le == LineEnd(i)
           r == m.headers[n + 1]
           t == HeaderLine(r)
           c == HeaderPos(i, n)
           o == Len(Joined(H, n))
           k == Len(t)
<1>1. m \in Messages /\ Count \in Nat
  BY <1>0, ScriptType
<1>2. /\ H \in Seq(Seq(Tokens)) /\ Len(H) = h /\ h \in Nat
      /\ \A j \in 1..h :
              /\ H[j] = HeaderLine(m.headers[j]) \o CRLF
              /\ HeaderLine(m.headers[j]) \in String
              /\ Len(H[j]) = Len(HeaderLine(m.headers[j])) + 2
              /\ m.headers[j].key \in Seq(Tokens)
              /\ m.headers[j].sep \in Seq(Tokens)
              /\ m.headers[j].value \in Seq(Tokens)
  BY <1>1, HeaderLinesType DEF Headers
<1>3. /\ l \in Nat /\ L \in Nat /\ Len(p) + l <= L /\ Len(p) \in Nat
      /\ \A x \in 1..l : S[Len(p) + x] = q[x]
  <2> DEFINE b == Len(m.body)
             a == Len(m.first_line)
  <2>1. /\ Len(p) = a + 2 /\ a \in Nat /\ l \in Nat /\ b \in Nat
        /\ L = Len(p) + l + 2 + b
        /\ \A x \in 1..l : S[Len(p) + x] = q[x]
    <3> HIDE DEF m
    <3> QED BY <1>1, StrLayout, Zenon DEF Headers, m
  <2> HIDE DEF L, l, a, b, S, q, p
  <2> QED BY <2>1
<1>4. /\ at \in Nat /\ \A x \in 1..L : wire[at + x] = S[x]
      /\ le = at + Len(p)
  <2>1. i \in 1..(Count + 1)
    BY <1>1
  <2>2. Len(p) = Len(m.first_line) + 2
    <3> HIDE DEF m
    <3> QED BY <1>1, StrLayout, Zenon
  <2>3. /\ at \in Nat /\ Len(m.first_line) \in Nat
        /\ le = at + Len(m.first_line) + 2
    BY MessageLayout
  <2>4. \A x \in 1..L : wire[at + x] = S[x]
    BY WireLayout
  <2>5. le = at + Len(p)
    <3> DEFINE a == Len(m.first_line)
               b == Len(p)
    <3>1. b = a + 2 /\ at \in Nat /\ a \in Nat /\ le = at + a + 2
      BY <2>2, <2>3
    <3> HIDE DEF a, b, at, le
    <3>2. le = at + b
      BY <3>1
    <3> QED BY <3>2 DEF b
  <2> QED BY <2>3, <2>4, <2>5
<1>5. n \in Nat /\ n + 1 \in 1..h /\ n < Len(H) /\ n \in 0..h /\ n + 1 \in 0..h
  BY <1>2
<1>6. t \in String /\ k \in Nat /\ H[n + 1] = t \o CRLF /\ Len(H[n + 1]) = k + 2
      /\ r.key \in Seq(Tokens) /\ r.sep \in Seq(Tokens)
      /\ r.value \in Seq(Tokens)
  <2>1. /\ t \in String /\ H[n + 1] = t \o CRLF /\ Len(H[n + 1]) = k + 2
        /\ r.key \in Seq(Tokens) /\ r.sep \in Seq(Tokens)
        /\ r.value \in Seq(Tokens)
    BY <1>2, <1>5
  <2>2. k \in Nat
    <3> HIDE DEF t
    <3> QED BY <2>1 DEF String
  <2> QED BY <2>1, <2>2
<1>7. c = le + o /\ HeaderPos(i, n + 1) = le + Len(Joined(H, n + 1))
  BY <1>0, <1>5, HeaderPosIs
<1> HIDE DEF m, h, H, p, q, S, L, l, at, le, r, t, c, k
<1>8. /\ o \in Nat /\ Len(Joined(H, n + 1)) = o + (k + 2)
      /\ Len(Joined(H, n + 1)) <= l
      /\ \A x \in 1..(k + 2) : q[o + x] = (t \o CRLF)[x]
  <2>1. /\ Len(Joined(H, n)) \in Nat
        /\ Len(Joined(H, n + 1)) = Len(Joined(H, n)) + Len(H[n + 1])
        /\ Len(Joined(H, n + 1)) <= Len(Joined(H, Len(H)))
        /\ \A x \in 1..Len(H[n + 1]) :
              Joined(H, Len(H))[Len(Joined(H, n)) + x] = H[n + 1][x]
    <3>1. ASSUME NEW f \in Seq(Seq(Tokens)), NEW j \in Nat, j < Len(f)
          PROVE  /\ Len(Joined(f, j)) \in Nat
                 /\ Len(Joined(f, j + 1)) = Len(Joined(f, j)) + Len(f[j + 1])
                 /\ Len(Joined(f, j + 1)) <= Len(Joined(f, Len(f)))
                 /\ \A x \in 1..Len(f[j + 1]) :
                      Joined(f, Len(f))[Len(Joined(f, j)) + x] = f[j + 1][x]
      BY <3>1, JoinedAt
    <3> QED BY <1>2, <1>5, <3>1
  <2> QED BY <1>2, <1>6, <2>1, Zenon DEF q, l
<1> HIDE DEF o
<1>9. c = le + o /\ HeaderPos(i, n + 1) = c + k + 2 /\ o + (k + 2) <= l
  <2> DEFINE z == Len(Joined(H, n + 1))
  <2>1. c = le + o /\ HeaderPos(i, n + 1) = le + z /\ z = o + (k + 2) /\ z <= l
        /\ le \in Nat /\ k \in Nat /\ o \in Nat
    BY <1>3, <1>4, <1>6, <1>7, <1>8, SMTT(40)
  <2> HIDE DEF z
  <2> QED BY <2>1
<1>10. ASSUME NEW x \in 1..(k + 2) PROVE wire[c + x] = (t \o CRLF)[x]
  <2> DEFINE y == o + x
             z == Len(p) + y
             e == Len(p)
  <2>1. y \in 1..l
    BY <1>3, <1>6, <1>8, <1>9
  <2>2. z \in 1..L /\ c + x = at + z
    <3>1. e \in Nat /\ l \in Nat /\ L \in Nat /\ e + l <= L /\ at \in Nat
          /\ le = at + e /\ c = le + o /\ o \in Nat
      BY <1>3, <1>4, <1>8, <1>9
    <3>2. z = e + y /\ c + x = at + z
      <4> HIDE DEF e
      <4> QED BY <1>6, <3>1 DEF e
    <3> HIDE DEF y, z, e
    <3>3. z \in 1..L
      BY <2>1, <3>1, <3>2
    <3> QED BY <3>2, <3>3
  <2>3. q[y] = (t \o CRLF)[x]
    BY <1>8
  <2>4. S[z] = q[y]
    BY <1>3, <2>1
  <2> HIDE DEF y, z
  <2>5. wire[at + z] = S[z]
    BY <1>4, <2>2
  <2> QED BY <2>2, <2>3, <2>4, <2>5, Zenon
<1> QED BY <1>5, <1>6, <1>9, <1>10, Zenon DEF h, r, t, c, k, m
-----------------------------------------------------------------------------
(* Where the parser can be.                                                *)

\* What depends on the peer alone stays as it is.
LEMMA SamePeer ==
  ASSUME UNCHANGED Peer
  PROVE  /\ script' = script /\ wire' = wire /\ starts' = starts
         /\ Count' = Count
         /\ \A i : Msg(i)' = Msg(i) /\ Headers(i)' = Headers(i)
         /\ \A i : LineEnd(i)' = LineEnd(i) /\ HeadEnd(i)' = HeadEnd(i)
         /\ \A i, n : HeaderPos(i, n)' = HeaderPos(i, n)
         /\ \A i, n : NextPos(i, n)' = NextPos(i, n)
         /\ \A i, n : AsSent(i, n)' = AsSent(i, n)
         /\ \A k : Whole(k)' = Whole(k)
         /\ \A i : Accepted(i)' = Accepted(i)
         /\ \A i : Rule(i)' = Rule(i) /\ Announces(i)' = Announces(i)
         /\ \A i, n, s : BodyRead(i, n, s)' = BodyRead(i, n, s)
         /\ \A i : Readable(i)' = Readable(i)
         /\ \A i : Due(i)' = Due(i)
<1>1. script' = script /\ wire' = wire /\ starts' = starts
  BY DEF Peer
<1>2. Count' = Count
  BY <1>1, Zenon DEF Count
<1>3. \A i : Msg(i)' = Msg(i)
  BY <1>1, Zenon DEF Msg
<1>4. \A i : Headers(i)' = Headers(i)
  BY <1>1, Zenon DEF Headers, Msg
<1>5. \A i : LineEnd(i)' = LineEnd(i) /\ HeadEnd(i)' = HeadEnd(i)
  BY <1>1, Zenon DEF LineEnd, HeadEnd
<1>6. \A i, n : HeaderPos(i, n)' = HeaderPos(i, n)
  BY <1>1, Zenon DEF HeaderPos, Msg, LineEnd
<1>7. \A i, n : NextPos(i, n)' = NextPos(i, n)
  BY <1>4, <1>5, <1>6, Zenon DEF NextPos
<1>8. \A i, n : AsSent(i, n)' = AsSent(i, n)
  BY <1>1, Zenon DEF AsSent
<1>9. \A k : Whole(k)' = Whole(k)
  BY <1>1, <1>8, Zenon DEF Whole
<1>10. \A i : Accepted(i)' = Accepted(i)
  BY <1>1, Zenon DEF Accepted
<1>11. \A i : Rule(i)' = Rule(i) /\ Announces(i)' = Announces(i)
  BY <1>1, Zenon DEF Rule, Announces
<1>12. \A i, n, s : BodyRead(i, n, s)' = BodyRead(i, n, s)
  BY <1>1, <1>3, <1>11, Zenon DEF BodyRead
<1>13. \A i : Readable(i)' = Readable(i)
  BY <1>1, <1>3, <1>4, <1>11, Zenon DEF Readable
<1>14. \A i : Due(i)' = Due(i)
  BY <1>2, <1>3, Zenon DEF Due
<1> QED BY <1>1, <1>2, <1>3, <1>4, <1>5, <1>6, <1>7, <1>8, <1>9, <1>10, <1>11,
           <1>12, <1>13, <1>14, Zenon

\* The phases, told apart by the state of the message and by where parse is.
LEMMA Phases ==
  ASSUME NEW i \in Nat, Parsing(i)
  PROVE  /\ pc \in {"parse", "rest", "chunk", "thrown"}
         /\ pc = "rest" => \/ Between(i) \/ \E n \in Nat : InHead(i, n)
                           \/ \E n \in Nat : InBody(i, n)
                           \/ \E n \in Nat : AfterEof(i, n)
         /\ pc = "chunk" => \E n \in Nat : InBody(i, n)
         /\ pc = "parse" =>
              /\ message_.state = "FIRST_LINE_PENDING" =>
                   Between(i) \/ \E n \in Nat : AfterEof(i, n)
              /\ message_.state = "HEADERS_PENDING" =>
                   \E n \in Nat : InHead(i, n)
              /\ message_.state = "BODY_PENDING" => \E n \in Nat : InBody(i, n)
              /\ message_.state = "COMPLETE" =>
                   AtEnd(i) \/ \E n \in Nat : AtEof(i, n)
<1>1. CASE Between(i)
  <2>1. pc \in {"parse", "rest"} /\ message_.state = "FIRST_LINE_PENDING"
    BY <1>1 DEF Between, NewMessage
  <2> QED BY <1>1, <2>1
<1>2. ASSUME NEW n \in Nat, InHead(i, n)
      PROVE  /\ InHead(i, n) /\ pc \in {"parse", "rest"}
             /\ message_.state = "HEADERS_PENDING"
  BY <1>2 DEF InHead, HeadRead
<1>3. ASSUME NEW n \in Nat, InBody(i, n)
      PROVE  /\ InBody(i, n) /\ pc \in {"parse", "rest", "chunk"}
             /\ message_.state = "BODY_PENDING"
  BY <1>3 DEF InBody, BodyRead
<1>4. CASE AtEnd(i)
  <2>1. pc = "parse" /\ message_.state = "COMPLETE"
    BY <1>4 DEF AtEnd, BodyRead
  <2> QED BY <1>4, <2>1
<1>5. ASSUME NEW n \in Nat, AtEof(i, n)
      PROVE  AtEof(i, n) /\ pc = "parse" /\ message_.state = "COMPLETE"
  BY <1>5 DEF AtEof, BodyRead
<1>6. ASSUME NEW n \in Nat, AfterEof(i, n)
      PROVE  /\ AfterEof(i, n) /\ pc \in {"parse", "rest"}
             /\ message_.state = "FIRST_LINE_PENDING"
  BY <1>6 DEF AfterEof, NewMessage
<1>7. CASE Thrown(i)
  BY <1>7 DEF Thrown
<1> QED BY <1>1, <1>2, <1>3, <1>4, <1>5, <1>6, <1>7 DEF Parsing

\* A line that starts where nothing has been taken yet.
LEMMA TakeLine ==
  ASSUME PeerInv, NEW c \in Nat, Unread(c), NEW line \in String, IsLine(line),
         c + Len(line) + 2 <= Len(wire),
         \A x \in 1..(Len(line) + 2) : wire[c + x] = (line \o CRLF)[x]
  PROVE  /\ have_complete_line <=> c + Len(line) + 2 <= pos
         /\ have_complete_line /\ get_and_pop_line =>
              buffer_' = SubSeq(wire, c + Len(line) + 2 + 1, pos)
         /\ have_complete_line => Line = line
<1> DEFINE l == Len(line)
           b == buffer_
<1>1. /\ pos \in 0..Len(wire) /\ c \in 0..pos /\ b = SubSeq(wire, c + 1, pos)
      /\ wire \in String /\ l \in Nat /\ Len(wire) \in Nat
  <2>1. wire \in Seq(Tokens) /\ Len(wire) \in Nat /\ pos \in 0..Len(wire)
    BY WireLayout DEF PeerInv
  <2>2. l \in Nat
    BY DEF String
  <2> QED BY <2>1, <2>2 DEF Unread, String
<1>2. /\ find(b, CRLF) = IF c + l + 2 <= pos THEN l + 1 ELSE 0
      /\ c + l + 2 <= pos => SubSeq(b, 1, l) = line
  <2>1. \A w \in String : \A p \in 0..Len(w) : \A d \in 0..p : \A y \in String :
          IsLine(y) /\ d + Len(y) + 2 <= Len(w)
          /\ (\A x \in 1..(Len(y) + 2) : w[d + x] = (y \o CRLF)[x])
          => \A a : a = SubSeq(w, d + 1, p) =>
               /\ find(a, CRLF) = IF d + Len(y) + 2 <= p THEN Len(y) + 1 ELSE 0
               /\ d + Len(y) + 2 <= p => SubSeq(a, 1, Len(y)) = y
    BY LineFound
  <2>2. \A a : a = SubSeq(wire, c + 1, pos) =>
          /\ find(a, CRLF) = IF c + l + 2 <= pos THEN l + 1 ELSE 0
          /\ c + l + 2 <= pos => SubSeq(a, 1, l) = line
    BY <1>1, <2>1, Zenon
  <2> QED BY <1>1, <2>2, Zenon
<1>3. have_complete_line <=> c + l + 2 <= pos
  <2>1. l + 1 # 0
    BY <1>1
  <2> QED BY <1>2, <2>1 DEF have_complete_line, npos
<1>4. ASSUME have_complete_line PROVE Line = line
  <2>1. find(b, CRLF) = l + 1 /\ (l + 1) - 1 = l
    BY <1>1, <1>2, <1>3, <1>4
  <2>2. SubSeq(b, 1, l) = line
    BY <1>2, <1>3, <1>4
  <2> QED BY <2>1, <2>2, Zenon DEF Line
<1>5. ASSUME have_complete_line, get_and_pop_line
      PROVE  buffer_' = SubSeq(wire, c + l + 2 + 1, pos)
  <2>1. buffer_' = SubSeq(b, (l + 2) + 1, Len(b))
    BY <1>4, <1>5, CRLFType DEF get_and_pop_line, pop_bytes
  <2>2. l + 2 \in 0..(pos - c) /\ c + (l + 2) = c + l + 2
    BY <1>1, <1>3, <1>5
  <2>3. SubSeq(b, (l + 2) + 1, Len(b)) = SubSeq(wire, c + (l + 2) + 1, pos)
    <3> DEFINE n == l + 2
    <3>1. n \in 0..(pos - c)
      BY <2>2
    <3> HIDE DEF n, b
    <3>2. SubSeq(b, n + 1, Len(b)) = SubSeq(wire, c + n + 1, pos)
      BY <1>1, <3>1, PieceRest DEF String
    <3> QED BY <3>2 DEF n
  <2> QED BY <2>1, <2>2, <2>3
<1> QED BY <1>3, <1>4, <1>5
-----------------------------------------------------------------------------
(* What the assumption says of a message that can be read.                 *)

\* A numeral has a value.
LEMMA Numeral ==
  ASSUME NEW s, IsInteger(s)
  PROVE  myatoi(s) \in Nat
<1>1. \E i \in DOMAIN Numerals : Numerals[i] = s[1]
  BY Zenon DEF IsInteger, Range
<1>2. DOMAIN Numerals = 1..6
  BY DEF Numerals
<1>3. (CHOOSE i \in DOMAIN Numerals : Numerals[i] = s[1]) \in 1..6
  <2> HIDE DEF Numerals
  <2> QED BY <1>1, <1>2, Zenon
<1> DEFINE k == CHOOSE i \in DOMAIN Numerals : Numerals[i] = s[1]
<1>4. k \in 1..6 /\ myatoi(s) = k - 1
  BY <1>3, Zenon DEF myatoi
<1> HIDE DEF k
<1> QED BY <1>4

\* A request has no body that is chunked or ends with the connection.
LEMMA RequestEnds ==
  ASSUME NEW m
  PROVE  Body("request", m).ends \in {"length", "throws"}
<1>1. Body("request", m) = RequestBody(m)
  BY Zenon DEF Body
<1>2. RequestBody(m) \in {Nothing, Throws, ByLength(m)}
  BY Zenon DEF RequestBody
<1>3. ByLength(m).ends \in {"length", "throws"}
  BY DEF ByLength
<1> QED BY <1>1, <1>2, <1>3 DEF Nothing, Throws

\* How the body of a message that can be read ends.
LEMMA ReadableEnds ==
  ASSUME script \in Scripts, NEW i \in 1..Count, Readable(i)
  PROVE  /\ Rule(i).ends \in {"length", "chunked", "close"}
         /\ Rule(i).ends = "length" <=> Msg(i).ends = "length"
         /\ Rule(i).ends = "length" => Rule(i).size = Len(Msg(i).body)
         /\ Rule(i).ends = "close" <=> Msg(i).ends = "close"
         /\ Rule(i).ends = "close" => i = Count
         /\ Rule(i).ends = "chunked" =>
              /\ Msg(i).ends \in {"chunked", "refused"}
              /\ IsChunkedBody(Msg(i), Announces(i))
         /\ script.kind = "request" => Rule(i).ends = "length"
<1> DEFINE m == Msg(i)
           b == Rule(i)
           e == m.ends
           C == IsChunkedBody(m, Announces(i))
<1>1. e \in {"length", "chunked", "close", "refused"}
  BY ScriptType DEF Messages
<1>2. script.kind = "request" => b.ends \in {"length", "throws"}
  BY RequestEnds DEF Rule
<1>3. /\ e = "length" => b = [ends |-> "length", size |-> Len(m.body)]
      /\ e = "close" => b.ends = "close" /\ i = Count
      /\ e = "chunked" => b.ends = "chunked" /\ C
      /\ e = "refused" => (b.ends = "throws" \/ (b.ends = "chunked" /\ C))
  <2>1. HasItsBody(script, i)
    BY DEF Readable
  <2>2. /\ e = "length" => b = [ends |-> "length", size |-> Len(m.body)]
        /\ e = "close" => b.ends = "close" /\ i = Len(script.sent)
        /\ e = "chunked" => b.ends = "chunked" /\ C
        /\ e = "refused" => (b.ends = "throws" \/ (b.ends = "chunked" /\ C))
    BY <2>1, Zenon DEF HasItsBody, Msg, Rule, Announces
  <2>3. Count = Len(script.sent)
    BY DEF Count
  <2> QED BY <2>2, <2>3, Zenon
<1>4. b.ends # "throws"
  BY DEF Readable
<1> HIDE DEF b, C, m
<1>5. e = "length" => b.ends = "length" /\ b.size = Len(m.body)
  BY <1>3
<1> HIDE DEF e
<1> QED BY <1>1, <1>2, <1>3, <1>4, <1>5 DEF b, C, m, e

\* A response that has begun answers a request that has arrived.
LEMMA Arrived ==
  ASSUME PeerInv, script.kind = "response", arrived < Len(script.requests),
         NEW i \in 1..(Count + 1), starts[i] <= pos
  PROVE  /\ i <= arrived + 1
         /\ i <= Count /\ LineEnd(i) <= pos => i <= arrived
<1>1. /\ arrived \in Nat /\ Count \in Nat /\ arrived + 1 \in 1..Count
      /\ pos <= starts[arrived + 1] /\ pos \in Nat
  <2>1. /\ arrived \in Nat /\ pos <= Available
        /\ Len(wire) \in Nat /\ pos \in 0..Len(wire) /\ script \in Scripts
    BY ScriptType, WireLayout DEF PeerInv
  <2>2. Available = starts[arrived + 1]
    BY <2>1 DEF Available
  <2>3. /\ Len(script.requests) \in Nat /\ Count \in Nat
        /\ Len(script.requests) <= Count
    BY <2>1, ScriptType
  <2> QED BY <2>1, <2>2, <2>3
<1>2. \A k, j \in 1..(Count + 1) : k <= j => starts[k] <= starts[j]
  BY WireLayout
<1>3. /\ starts[i] \in Nat /\ starts[arrived + 1] \in Nat
      /\ starts[arrived + 2] \in Nat
  BY <1>1, WireLayout
<1>4. starts[arrived + 1] < starts[arrived + 2]
  <2> DEFINE a == arrived + 1
  <2>1. /\ Len(Msg(a).first_line) \in Nat /\ Len(Msg(a).body) \in Nat
        /\ LineEnd(a) = starts[a] + Len(Msg(a).first_line) + 2
        /\ HeaderPos(a, Headers(a)) \in Nat
        /\ LineEnd(a) <= HeaderPos(a, Headers(a))
        /\ HeaderPos(a, Headers(a)) + 2 <= HeadEnd(a)
        /\ HeadEnd(a) = HeaderPos(a, Headers(a)) + 2
        /\ starts[a + 1] = HeadEnd(a) + Len(Msg(a).body)
    <3> HIDE DEF a
    <3>1. a \in 1..Count
      BY <1>1 DEF a
    <3>2. Headers(a) \in Nat
      BY <3>1, MessageLayout
    <3>3. Headers(a) \in 0..Headers(a)
      BY <3>2
    <3> QED BY <3>1, <3>3, MessageLayout
  <2>2. a + 1 = arrived + 2 /\ starts[a] \in Nat
    BY <1>1, <1>3
  <2>3. starts[a] < starts[a + 1]
    <3> DEFINE x == starts[a]
               y == Len(Msg(a).first_line)
               z == HeaderPos(a, Headers(a))
               h == HeadEnd(a)
               b == Len(Msg(a).body)
               n == starts[a + 1]
               l == LineEnd(a)
    <3>1. /\ x \in Nat /\ y \in Nat /\ b \in Nat /\ z \in Nat /\ l <= z
          /\ l = x + y + 2 /\ h = z + 2 /\ n = h + b
      BY <2>1, <2>2
    <3> HIDE DEF x, y, z, h, b, n, l
    <3>2. x < n
      BY <3>1
    <3> QED BY <3>2 DEF x, n
  <2> QED BY <2>2, <2>3
<1>5. i <= arrived + 1
  <2> SUFFICES ASSUME i > arrived + 1 PROVE FALSE
    BY <1>1
  <2>1. arrived + 2 <= i /\ arrived + 2 \in 1..(Count + 1)
    BY <1>1
  <2>2. starts[arrived + 2] <= starts[i]
    BY <1>2, <2>1
  <2> QED BY <1>1, <1>3, <1>4, <2>2
<1>6. ASSUME i <= Count, LineEnd(i) <= pos PROVE i <= arrived
  <2>1. LineEnd(i) = starts[i] + Len(Msg(i).first_line) + 2
        /\ Len(Msg(i).first_line) \in Nat
    BY <1>6, MessageLayout
  <2>2. i # arrived + 1
    <3> SUFFICES ASSUME i = arrived + 1 PROVE FALSE
      OBVIOUS
    <3> DEFINE s == starts[i]
               le == LineEnd(i)
               l == Len(Msg(i).first_line)
    <3>1. /\ s \in Nat /\ l \in Nat /\ le = s + l + 2 /\ le <= pos
          /\ pos <= s /\ pos \in Nat
      BY <1>1, <1>3, <1>6, <2>1
    <3> HIDE DEF s, le, l
    <3> QED BY <3>1
  <2> QED BY <1>1, <1>5, <2>2
<1> QED BY <1>5, <1>6

\* The lines of a head, each where nothing of it has been taken.
LEMMA FirstLine ==
  ASSUME PeerInv, NEW i \in 1..Count, Unread(starts[i])
  PROVE  /\ have_complete_line <=> LineEnd(i) <= pos
         /\ have_complete_line /\ get_and_pop_line =>
              buffer_' = SubSeq(wire, LineEnd(i) + 1, pos)
         /\ have_complete_line => Line = Msg(i).first_line
<1> DEFINE c == starts[i]
           line == Msg(i).first_line
           le == LineEnd(i)
<1>1. /\ line \in String /\ c \in Nat /\ le = c + Len(line) + 2
      /\ \A x \in 1..(Len(line) + 2) : wire[c + x] = (line \o CRLF)[x]
  BY MessageLayout
<1>2. IsLine(line)
  <2>1. IsMessage(script, i)
    BY ScriptType DEF PeerInv
  <2> QED BY <2>1, Zenon DEF IsMessage, Msg
<1>3. le <= Len(wire)
  <2>1. Headers(i) \in Nat
    BY MessageLayout
  <2>2. Headers(i) \in 0..Headers(i)
    BY <2>1
  <2> DEFINE z == HeaderPos(i, Headers(i))
             h == HeadEnd(i)
             b == Len(Msg(i).body)
             n == starts[i + 1]
             w == Len(wire)
  <2>3. /\ le <= z /\ z \in Nat /\ b \in Nat /\ h = z + 2 /\ n = h + b /\ n <= w
        /\ c \in Nat /\ w \in Nat
    BY <2>2, MessageLayout
  <2>4. le \in Nat
    <3>1. Len(line) \in Nat
      BY MessageLayout
    <3> QED BY <1>1, <3>1
  <2> HIDE DEF z, h, b, n, w, le, c
  <2>5. le <= w
    BY <2>3, <2>4
  <2> QED BY <2>5 DEF w
<1>4. Unread(c)
  OBVIOUS
<1> HIDE DEF c, line, le
<1>5. c + Len(line) + 2 <= Len(wire)
  BY <1>1, <1>3
<1>6. /\ have_complete_line <=> c + Len(line) + 2 <= pos
      /\ have_complete_line /\ get_and_pop_line =>
           buffer_' = SubSeq(wire, c + Len(line) + 2 + 1, pos)
      /\ have_complete_line => Line = line
  BY <1>1, <1>2, <1>4, <1>5, TakeLine
<1>7. c + Len(line) + 2 = le
  BY <1>1
<1> QED BY <1>6, <1>7, Zenon DEF line, le

LEMMA NextHeader ==
  ASSUME PeerInv, NEW i \in 1..Count, NEW n \in 0..(Headers(i) - 1),
         Unread(HeaderPos(i, n))
  PROVE  /\ have_complete_line <=> HeaderPos(i, n + 1) <= pos
         /\ have_complete_line /\ get_and_pop_line =>
              buffer_' = SubSeq(wire, HeaderPos(i, n + 1) + 1, pos)
         /\ have_complete_line => Line = HeaderLine(Msg(i).headers[n + 1])
         /\ have_complete_line => Line # <<>>
<1> DEFINE c == HeaderPos(i, n)
           line == HeaderLine(Msg(i).headers[n + 1])
           le == HeaderPos(i, n + 1)
<1>1. /\ n + 1 \in 1..Headers(i) /\ line \in String /\ Len(line) \in Nat
      /\ le = c + Len(line) + 2
      /\ \A x \in 1..(Len(line) + 2) : wire[c + x] = (line \o CRLF)[x]
  BY HeaderLayout
<1>2. IsLine(line) /\ line # <<>>
  <2>1. IsMessage(script, i) /\ Msg(i) \in Messages
    BY ScriptType DEF PeerInv
  <2>2. n + 1 \in DOMAIN Msg(i).headers
    BY <1>1, <2>1 DEF Messages, Headers
  <2> QED BY <2>1, <2>2, Zenon DEF IsMessage, Msg
<1>3. /\ le <= Len(wire) /\ c \in Nat
  <2>1. Headers(i) \in Nat /\ n \in 0..Headers(i) /\ n + 1 \in 0..Headers(i)
    <3>1. Headers(i) \in Nat
      BY MessageLayout
    <3> QED BY <3>1
  <2> DEFINE h == HeadEnd(i)
             b == Len(Msg(i).body)
             e == starts[i + 1]
             w == Len(wire)
  <2>2. \A k \in 0..Headers(i) : HeaderPos(i, k) \in Nat
    BY MessageLayout
  <2>3. \A k \in 0..Headers(i) : HeaderPos(i, k) + 2 <= HeadEnd(i)
    BY MessageLayout
  <2>4. /\ b \in Nat /\ e = h + b /\ e <= w
        /\ w \in Nat /\ h = HeaderPos(i, Headers(i)) + 2
    BY MessageLayout
  <2>5. Headers(i) \in 0..Headers(i)
    BY <2>1
  <2>6. h \in Nat
    BY <2>2, <2>4, <2>5
  <2>7. le \in Nat /\ c \in Nat /\ le + 2 <= h
    BY <2>1, <2>2, <2>3
  <2> HIDE DEF h, b, e, w, le, c
  <2>8. le <= w
    BY <2>4, <2>6, <2>7
  <2> QED BY <2>7, <2>8 DEF w
<1>4. Unread(c)
  OBVIOUS
<1> HIDE DEF c, line, le
<1>5. c + Len(line) + 2 <= Len(wire)
  BY <1>1, <1>3
<1>6. /\ have_complete_line <=> c + Len(line) + 2 <= pos
      /\ have_complete_line /\ get_and_pop_line =>
           buffer_' = SubSeq(wire, c + Len(line) + 2 + 1, pos)
      /\ have_complete_line => Line = line
  BY <1>1, <1>2, <1>3, <1>4, <1>5, TakeLine
<1>7. c + Len(line) + 2 = le
  BY <1>1
<1> QED BY <1>2, <1>6, <1>7, Zenon DEF line, le

LEMMA LastLine ==
  ASSUME PeerInv, NEW i \in 1..Count, Unread(HeaderPos(i, Headers(i)))
  PROVE  /\ have_complete_line <=> HeadEnd(i) <= pos
         /\ have_complete_line /\ get_and_pop_line =>
              buffer_' = SubSeq(wire, HeadEnd(i) + 1, pos)
         /\ have_complete_line => Line = <<>>
<1> DEFINE c == HeaderPos(i, Headers(i))
           le == HeadEnd(i)
           b == Len(Msg(i).body)
           e == starts[i + 1]
           w == Len(wire)
<1>1. Headers(i) \in 0..Headers(i)
  <2>1. Headers(i) \in Nat
    BY MessageLayout
  <2> QED BY <2>1
<1>2. /\ c \in Nat /\ le = c + 2 /\ b \in Nat /\ e = le + b /\ e <= w
      /\ w \in Nat
      /\ \A x \in 1..2 : wire[c + x] = CRLF[x]
  BY <1>1, MessageLayout
<1>3. Unread(c)
  OBVIOUS
<1> HIDE DEF c, le, b, e
<1>4. c + 2 <= w
  BY <1>2
<1>5. /\ <<>> \in String /\ IsLine(<<>>) /\ c + Len(<<>>) + 2 = c + 2
      /\ c + Len(<<>>) + 2 <= Len(wire)
      /\ \A x \in 1..(Len(<<>>) + 2) : wire[c + x] = (<<>> \o CRLF)[x]
  BY <1>2, <1>4, EmptyLine DEF w
<1> DEFINE line == <<>>
<1> HIDE DEF line
<1>6. line \in String /\ IsLine(line) /\ c + Len(line) + 2 <= Len(wire)
      /\ \A x \in 1..(Len(line) + 2) : wire[c + x] = (line \o CRLF)[x]
  BY <1>5, Zenon DEF line
<1>7. /\ have_complete_line <=> c + Len(line) + 2 <= pos
      /\ have_complete_line /\ get_and_pop_line =>
           buffer_' = SubSeq(wire, c + Len(line) + 2 + 1, pos)
      /\ have_complete_line => Line = line
  BY <1>2, <1>3, <1>6, TakeLine
<1>8. c + Len(line) + 2 = le
  BY <1>2, <1>5, Zenon DEF line
<1> QED BY <1>7, <1>8, Zenon DEF line, le
-----------------------------------------------------------------------------
(* The steps, one lemma for each.                                          *)

\* What has been read, and is waiting, as long as it stays the same.
LEMMA SameRead ==
  ASSUME UNCHANGED Peer, pos' = pos, buffer_' = buffer_
  PROVE  \A c : Unread(c)' <=> Unread(c)
BY Zenon DEF Unread, Peer

LEMMA SameWaiting ==
  ASSUME UNCHANGED Peer, arrived' = arrived, requests_' = requests_
  PROVE  \A n : Waiting(n)' <=> Waiting(n)
BY Zenon DEF Waiting, Peer

\* What the parser of chunks is at.
LEMMA SameItem ==
  ASSUME UNCHANGED Peer, chunk_.parsed' = chunk_.parsed,
         chunk_.state' = chunk_.state, chunk_.size' = chunk_.size
  PROVE  /\ \A i, n : AtHeader(i, n)' <=> AtHeader(i, n)
         /\ \A i, n, c : AtChunk(i, n, c)' <=> AtChunk(i, n, c)
         /\ \A i, n, c : AtTrailer(i, n, c)' <=> AtTrailer(i, n, c)
         /\ \A i, n : AtItem(i, n)' <=> AtItem(i, n)
<1>1. \A i : Msg(i)' = Msg(i)
  BY SamePeer
<1>2. \A i, n : AtHeader(i, n)' <=> AtHeader(i, n)
  BY <1>1, Zenon DEF AtHeader
<1>3. \A i, n, c : AtChunk(i, n, c)' <=> AtChunk(i, n, c)
  BY <1>1, Zenon DEF AtChunk
<1>4. \A i, n, c : AtTrailer(i, n, c)' <=> AtTrailer(i, n, c)
  BY <1>1, Zenon DEF AtTrailer
<1>5. \A i, n : AtItem(i, n)' <=> AtItem(i, n)
  BY <1>1, <1>2, <1>3, <1>4, Zenon DEF AtItem
<1> QED BY <1>2, <1>3, <1>4, <1>5

\* Where the i-th message is.
LEMMA DueIndex ==
  ASSUME PeerInv, NEW i \in Nat, Due(i)
  PROVE  /\ i \in 1..(Count + 1) /\ Count \in Nat
         /\ i <= Count => i \in 1..Count
<1>1. Count \in Nat
  BY ScriptType DEF PeerInv
<1>2. i \in 1..(Count + 1)
  BY DEF Due
<1> QED BY <1>1, <1>2

\* The line a head waits for is there once its end has been read.
LEMMA HeadLine ==
  ASSUME PeerInv, NEW i \in 1..Count, NEW n \in 0..Headers(i),
         Unread(HeaderPos(i, n))
  PROVE  /\ have_complete_line <=> NextPos(i, n) <= pos
         /\ NextPos(i, n) \in Nat
<1>1. Headers(i) \in Nat /\ \A k \in 0..Headers(i) : HeaderPos(i, k) \in Nat
  BY MessageLayout
<1>2. CASE n < Headers(i)
  <2>1. n \in 0..(Headers(i) - 1) /\ n + 1 \in 0..Headers(i)
    BY <1>1, <1>2
  <2>2. NextPos(i, n) = HeaderPos(i, n + 1)
    BY <1>2 DEF NextPos
  <2> QED BY <1>1, <2>1, <2>2, NextHeader
<1>3. CASE ~(n < Headers(i))
  <2>1. n = Headers(i) /\ n \in 0..Headers(i)
    BY <1>1, <1>3
  <2>2. NextPos(i, n) = HeadEnd(i)
    BY <1>3 DEF NextPos
  <2>3. have_complete_line <=> HeadEnd(i) <= pos
    BY <2>1, LastLine
  <2>4. HeadEnd(i) = HeaderPos(i, n) + 2 /\ HeaderPos(i, n) \in Nat
    BY <2>1, MessageLayout
  <2> QED BY <2>2, <2>3, <2>4
<1> QED BY <1>2, <1>3

\* Nothing can be done before more bytes are read.
LEMMA NoLineStep ==
  ASSUME PeerInv, NEW i \in Nat, Due(i), Parsing(i), NoCompleteLine
  PROVE  (Due(i) /\ Parsing(i))'
<1>1. /\ pc = "parse" /\ pc' = "rest" /\ UNCHANGED Peer /\ ~have_complete_line
      /\ pos' = pos /\ arrived' = arrived /\ eof' = eof /\ buffer_' = buffer_
      /\ message_' = message_ /\ chunk_' = chunk_ /\ requests_' = requests_
      /\ complete_' = complete_
      /\ message_.state \in {"FIRST_LINE_PENDING", "HEADERS_PENDING"}
  BY DEF NoCompleteLine, Outside
<1>2. pos \in Nat
  <2>1. pos \in 0..Len(wire) /\ Len(wire) \in Nat
    BY WireLayout DEF PeerInv
  <2> QED BY <2>1
<1>3. CASE Between(i)
  <2>1. i <= Count => pos < LineEnd(i)
    <3>1. ASSUME i <= Count PROVE pos < LineEnd(i)
      <4>1. i \in 1..Count
        BY <3>1, DueIndex
      <4>2. Unread(starts[i])
        BY <1>3 DEF Between
      <4>3. ~(LineEnd(i) <= pos)
        BY <1>1, <4>1, <4>2, FirstLine
      <4>4. starts[i] \in Nat /\ Len(Msg(i).first_line) \in Nat
            /\ LineEnd(i) = starts[i] + Len(Msg(i).first_line) + 2
        BY <4>1, MessageLayout
      <4> QED BY <1>2, <4>3, <4>4
    <3> QED BY <3>1
  <2>2. Between(i)'
    BY <1>1, <1>3, <2>1, SamePeer, SameRead, SameWaiting, Zenon
    DEF Between, NewMessage
  <2> QED BY <1>1, <2>2, SamePeer DEF Parsing
<1>4. ASSUME NEW n \in Nat, InHead(i, n) PROVE InHead(i, n)'
  <2>1. i \in 1..Count /\ n \in 0..Headers(i) /\ Unread(HeaderPos(i, n))
    <3>1. i <= Count /\ n \in 0..Headers(i) /\ Unread(HeaderPos(i, n))
      BY <1>4 DEF InHead
    <3> QED BY <3>1, DueIndex
  <2>2. NextPos(i, n) \in Nat /\ ~(NextPos(i, n) <= pos)
    BY <1>1, <2>1, HeadLine
  <2>3. pos < NextPos(i, n)
    BY <1>2, <2>2
  <2> QED BY <1>1, <1>4, <2>3, SamePeer, SameRead, SameWaiting, Zenon
          DEF InHead, HeadRead
<1>5. ASSUME NEW n \in Nat, AfterEof(i, n) PROVE AfterEof(i, n)'
  BY <1>1, <1>5, SamePeer, Zenon DEF AfterEof, CutShort, NewMessage
<1>6. \/ Between(i) \/ \E n \in Nat : InHead(i, n)
      \/ \E n \in Nat : AfterEof(i, n)
  BY <1>1, Phases
<1>7. Due(i)'
  BY <1>1, SamePeer
<1> QED BY <1>3, <1>4, <1>5, <1>6, <1>7 DEF Parsing

\* More bytes are read.
LEMMA AvailableIs ==
  ASSUME PeerInv
  PROVE  /\ Len(wire) \in Nat /\ wire \in Seq(Tokens) /\ pos \in 0..Len(wire)
         /\ pos <= Available /\ Available <= Len(wire) /\ Available \in Nat
<1>1. Len(wire) \in Nat /\ wire \in Seq(Tokens)
  BY WireLayout
<1>2. pos \in 0..Len(wire) /\ pos <= Available
  BY DEF PeerInv
<1>3. Available <= Len(wire) /\ Available \in Nat
  <2>1. CASE script.kind = "request" \/ arrived = Len(script.requests)
    BY <1>1, <2>1 DEF Available
  <2>2. CASE ~(script.kind = "request" \/ arrived = Len(script.requests))
    <3>1. script.kind = "response" /\ script \in Scripts
      BY <2>2, ScriptType DEF PeerInv
    <3>2. /\ arrived \in 0..Len(script.requests) /\ Len(script.requests) \in Nat
          /\ Len(script.requests) <= Count /\ Count \in Nat
      BY <3>1, ScriptType DEF PeerInv
    <3>3. arrived + 1 \in 1..(Count + 1) /\ Count + 1 \in 1..(Count + 1)
          /\ arrived + 1 <= Count + 1
      BY <2>2, <3>2
    <3>4. Available = starts[arrived + 1]
      BY <2>2 DEF Available
    <3>5. starts[arrived + 1] <= starts[Count + 1]
          /\ starts[arrived + 1] \in Nat /\ starts[Count + 1] = Len(wire)
      BY <3>3, WireLayout
    <3> QED BY <3>4, <3>5
  <2> QED BY <2>1, <2>2
<1> QED BY <1>1, <1>2, <1>3

LEMMA MoreRead ==
  ASSUME PeerInv, NEW n \in Nat, UNCHANGED Peer, pos' = pos + n,
         pos + n <= Available,
         buffer_' = buffer_ \o SubSeq(wire, pos + 1, pos + n)
  PROVE  \A c \in Nat : Unread(c) => Unread(c)'
<1> SUFFICES ASSUME NEW c \in Nat, Unread(c) PROVE Unread(c)'
  OBVIOUS
<1>1. /\ c <= pos /\ buffer_ = SubSeq(wire, c + 1, pos) /\ wire' = wire
  BY DEF Unread, Peer
<1>2. /\ wire \in Seq(Tokens) /\ pos + n \in 0..Len(wire)
      /\ pos \in 0..(pos + n)
      /\ c \in 0..pos /\ pos \in Nat
  BY <1>1, AvailableIs
<1>3. \A T : \A w \in Seq(T) :
        \A p \in 0..Len(w) : \A q \in 0..p : \A d \in 0..q :
        SubSeq(w, d + 1, q) \o SubSeq(w, q + 1, p) = SubSeq(w, d + 1, p)
  BY PieceMore
<1>4. SubSeq(wire, c + 1, pos) \o SubSeq(wire, pos + 1, pos + n)
        = SubSeq(wire, c + 1, pos + n)
  <2> DEFINE p == pos + n
  <2>1. p \in 0..Len(wire) /\ pos \in 0..p
    BY <1>2
  <2> HIDE DEF p
  <2>2. SubSeq(wire, c + 1, pos) \o SubSeq(wire, pos + 1, p)
          = SubSeq(wire, c + 1, p)
    BY <1>2, <1>3, <2>1
  <2> QED BY <2>2 DEF p
<1>5. c <= pos + n
  BY <1>2
<1>6. c <= pos' /\ buffer_' = SubSeq(wire', c + 1, pos')
  BY <1>1, <1>4, <1>5, Zenon
<1> QED BY <1>6, Zenon DEF Unread

LEMMA ParseStep ==
  ASSUME PeerInv, NEW i \in Nat, Due(i), Parsing(i),
         NEW k \in 1..Len(wire), parse(k)
  PROVE  (Due(i) /\ Parsing(i))'
<1>1. /\ pc = "rest" /\ pc' = "parse" /\ ~eof /\ UNCHANGED Peer
      /\ pos' = pos + k /\ arrived' = arrived /\ eof' = eof
      /\ pos + k <= Available
      /\ buffer_' = buffer_ \o SubSeq(wire, pos + 1, pos + k)
      /\ message_' = message_ /\ chunk_' = chunk_ /\ requests_' = requests_
      /\ complete_' = complete_
  BY DEF parse
<1>2. \A c \in Nat : Unread(c) => Unread(c)'
  <2>1. k \in Nat
    BY AvailableIs
  <2> QED BY <1>1, <2>1, MoreRead
<1>3. i \in 1..(Count + 1) /\ Count \in Nat
  BY DueIndex
<1>4. CASE Between(i)
  <2>1. starts[i] \in Nat
    BY <1>3, WireLayout
  <2>2. Between(i)'
    BY <1>1, <1>2, <1>4, <2>1, SamePeer, SameWaiting, Zenon
    DEF Between, NewMessage
  <2> QED BY <1>1, <2>2, SamePeer DEF Parsing
<1>5. ASSUME NEW n \in Nat, InHead(i, n) PROVE InHead(i, n)'
  <2>1. i <= Count /\ n \in 0..Headers(i)
    BY <1>5 DEF InHead
  <2>2. HeaderPos(i, n) \in Nat
    BY <1>3, <2>1, MessageLayout
  <2> QED BY <1>1, <1>2, <1>5, <2>2, SamePeer, SameWaiting, Zenon
          DEF InHead, HeadRead
<1>6. ASSUME NEW n \in Nat, InBody(i, n) PROVE InBody(i, n)'
  <2>1. i \in 1..Count
    <3>1. i <= Count
      BY <1>6 DEF InBody
    <3> QED BY <1>3, <3>1
  <2>2. HeadEnd(i) + n \in Nat
    <3>1. Headers(i) \in 0..Headers(i)
      <4>1. Headers(i) \in Nat
        BY <2>1, MessageLayout
      <4> QED BY <4>1
    <3>2. HeadEnd(i) = HeaderPos(i, Headers(i)) + 2
          /\ HeaderPos(i, Headers(i)) \in Nat
      BY <2>1, <3>1, MessageLayout
    <3> QED BY <3>2
  <2>3. pc # "chunk" /\ pc' # "chunk" /\ pc' # "rest"
    BY <1>1
  <2>4. InChunks(i, n) => InChunks(i, n)'
    <3>1. Given(i, n)' = Given(i, n)
      BY <1>1, <2>3, SamePeer DEF Given
    <3>2. AtItem(i, n)' <=> AtItem(i, n)
      BY <1>1, SameItem
    <3> QED BY <1>1, <2>3, <3>1, <3>2, SamePeer, Zenon DEF InChunks
  <2> QED BY <1>1, <1>2, <1>6, <2>2, <2>3, <2>4, SamePeer, SameWaiting, Zenon
          DEF InBody
<1>7. ASSUME NEW n \in Nat, AfterEof(i, n) PROVE FALSE
  BY <1>1, <1>7 DEF AfterEof, CutShort
<1>8. Due(i)'
  BY <1>1, SamePeer
<1>9. \/ Between(i) \/ \E n \in Nat : InHead(i, n)
      \/ \E n \in Nat : InBody(i, n)
      \/ \E n \in Nat : AfterEof(i, n)
  BY <1>1, Phases
<1> QED BY <1>4, <1>5, <1>6, <1>7, <1>8, <1>9 DEF Parsing

\* What follows c in a body.
LEMMA AfterIs ==
  ASSUME NEW body \in Seq(Tokens), NEW c \in 0..Len(body)
  PROVE  /\ After(body, c) \in Seq(Tokens)
         /\ Len(After(body, c)) = Len(body) - c
         /\ Len(body) \in Nat
         /\ \A x \in 1..(Len(body) - c) : After(body, c)[x] = body[c + x]
<1>1. Len(body) \in 0..Len(body) /\ Len(body) \in Nat
  OBVIOUS
<1>2. \A T : \A w \in Seq(T) :
        \A p \in 0..Len(w) : \A d \in 0..p :
        /\ SubSeq(w, d + 1, p) \in Seq(T)
        /\ Len(SubSeq(w, d + 1, p)) = p - d
        /\ \A x \in 1..(p - d) : SubSeq(w, d + 1, p)[x] = w[d + x]
  BY Piece
<1>3. After(body, c) = SubSeq(body, c + 1, Len(body))
  BY DEF After
<1> DEFINE l == Len(body)
<1> HIDE DEF l
<1>4. /\ SubSeq(body, c + 1, l) \in Seq(Tokens)
      /\ Len(SubSeq(body, c + 1, l)) = l - c
      /\ \A x \in 1..(l - c) : SubSeq(body, c + 1, l)[x] = body[c + x]
  BY <1>1, <1>2 DEF l
<1> QED BY <1>1, <1>3, <1>4, Zenon DEF l

\* Where the header of a chunk ends.
LEMMA HeaderEnds ==
  ASSUME NEW body \in Seq(Tokens), NEW c \in 0..Len(body),
         find(After(body, c), CRLF) # npos
  PROVE  /\ find(After(body, c), CRLF) \in Nat \ {0}
         /\ SizeEnd(body, c) \in 0..Len(body) /\ c + 2 <= SizeEnd(body, c)
         /\ SizeEnd(body, c) = c + find(After(body, c), CRLF) + 1
<1>1. /\ After(body, c) \in Seq(Tokens) /\ Len(After(body, c)) = Len(body) - c
      /\ Len(body) \in Nat
  BY AfterIs
<1>2. CRLF \in Seq(Tokens) /\ Len(CRLF) = 2
  BY CRLFType DEF String
<1> DEFINE f == find(After(body, c), CRLF)
<1>3. f \in Nat /\ (f # 0 => f + 2 - 1 <= Len(body) - c)
  <2>1. \A T : \A s \in Seq(T) : \A needle \in Seq(T) :
          /\ find(s, needle) \in Nat
          /\ find(s, needle) # 0 => find(s, needle) + Len(needle) - 1 <= Len(s)
    BY FoundWithin
  <2> DEFINE a == After(body, c)
  <2> HIDE DEF a
  <2>2. a \in Seq(Tokens)
    BY <1>1 DEF a
  <2>3. /\ find(a, CRLF) \in Nat
        /\ find(a, CRLF) # 0 => find(a, CRLF) + Len(CRLF) - 1 <= Len(a)
    BY <1>2, <2>1, <2>2
  <2> QED BY <1>1, <1>2, <2>3, Zenon DEF a
<1>4. f # 0 /\ SizeEnd(body, c) = c + f + 1
  BY DEF npos, SizeEnd
<1> HIDE DEF f
<1>5. /\ f \in Nat \ {0} /\ c + f + 1 \in 0..Len(body) /\ c + 2 <= c + f + 1
  BY <1>1, <1>3, <1>4
<1> QED BY <1>4, <1>5 DEF f

\* What a chunked body says of the chunk whose header starts at c.
LEMMA ChunkFacts ==
  ASSUME script \in Scripts, NEW i \in 1..Count, Readable(i),
         Rule(i).ends = "chunked", NEW c \in Msg(i).chunks
  PROVE  LET body == Msg(i).body
             end == SizeEnd(body, c)
             text == SizeOf(body, c)
             size == myatoi(text)
         IN  /\ body \in Seq(Tokens) /\ Len(body) \in Nat /\ c \in 0..Len(body)
             /\ find(After(body, c), CRLF) \in Nat \ {0}
             /\ end \in 0..Len(body) /\ c + 2 <= end
             /\ end = c + find(After(body, c), CRLF) + 1
             /\ ~IsInteger(text) => Msg(i).ends = "refused"
             /\ IsInteger(text) => size \in Nat /\ size + 2 < Word
             /\ IsInteger(text) /\ size = 0 =>
                  /\ Msg(i).ends = "chunked"
                  /\ IsLastChunk(Msg(i), c, Announces(i))
             /\ IsInteger(text) /\ size # 0 =>
                  /\ end + size + 2 \in Msg(i).chunks
                  /\ end + size + 2 \in 0..Len(body)
                  /\ SubSeq(body, end + size + 1, end + size + 2) = CRLF
<1> DEFINE m == Msg(i)
           end == SizeEnd(m.body, c)
           text == SizeOf(m.body, c)
           size == myatoi(text)
<1>1. /\ m.body \in Seq(Tokens) /\ m.chunks \in SUBSET Nat /\ c \in Nat
      /\ Len(m.body) \in Nat
  <2>1. m \in Messages
    BY ScriptType
  <2>2. m.body \in Seq(Tokens) /\ m.chunks \in SUBSET Nat
    BY <2>1 DEF Messages, String
  <2> HIDE DEF m
  <2> QED BY <2>2 DEF m
<1>2. IsChunkedBody(m, Announces(i))
  BY ReadableEnds
<1>3. \A d \in m.chunks :
       /\ d <= Len(m.body) /\ find(After(m.body, d), CRLF) # npos
       /\ IF ~IsInteger(SizeOf(m.body, d)) THEN m.ends = "refused"
          ELSE /\ myatoi(SizeOf(m.body, d)) + 2 < Word
               /\ IF myatoi(SizeOf(m.body, d)) = 0
                  THEN m.ends = "chunked" /\ IsLastChunk(m, d, Announces(i))
                  ELSE IsMiddleChunk(m, d)
  BY <1>2, Zenon DEF IsChunkedBody
<1>4. c \in 0..Len(m.body) /\ find(After(m.body, c), CRLF) # npos
  BY <1>1, <1>3
<1>5. /\ find(After(m.body, c), CRLF) \in Nat \ {0}
      /\ end \in 0..Len(m.body) /\ c + 2 <= end
      /\ end = c + find(After(m.body, c), CRLF) + 1
  BY <1>1, <1>4, HeaderEnds
<1>6. /\ IF ~IsInteger(text) THEN m.ends = "refused"
         ELSE /\ size + 2 < Word
              /\ IF size = 0
                 THEN m.ends = "chunked" /\ IsLastChunk(m, c, Announces(i))
                 ELSE IsMiddleChunk(m, c)
  BY <1>3
<1>7. IsInteger(text) => size \in Nat
  BY Numeral
<1>8. ASSUME IsInteger(text), size # 0
      PROVE  /\ end + size + 2 \in m.chunks
             /\ end + size + 2 \in 0..Len(m.body)
             /\ SubSeq(m.body, end + size + 1, end + size + 2) = CRLF
  <2>1. IsMiddleChunk(m, c)
    BY <1>6, <1>8
  <2>2. /\ end + size + 2 \in m.chunks
        /\ SubSeq(m.body, (end + size + 2) - 1, end + size + 2) = CRLF
    BY <2>1, Zenon DEF IsMiddleChunk
  <2> HIDE DEF end, size, m
  <2>3. (end + size + 2) - 1 = end + size + 1 /\ end + size + 2 \in Nat
    BY <1>5, <1>7, <1>8
  <2>4. end + size + 2 <= Len(m.body)
    BY <1>3, <2>2
  <2> QED BY <1>1, <2>2, <2>3, <2>4
<1> HIDE DEF m, end, text, size
<1>9. ~IsInteger(text) => m.ends = "refused"
  BY <1>6
<1>10. IsInteger(text) => size + 2 < Word
  BY <1>6
<1>11. IsInteger(text) /\ size = 0 =>
         m.ends = "chunked" /\ IsLastChunk(m, c, Announces(i))
  BY <1>6
<1> QED BY <1>1, <1>4, <1>5, <1>7, <1>8, <1>9, <1>10, <1>11, Zenon
        DEF m, end, text, size

\* A chunked body whose parser waits has not ended.
LEMMA Unfinished ==
  ASSUME script \in Scripts, NEW i \in 1..Count, Readable(i),
         Rule(i).ends = "chunked", NEW n \in Nat, AtItem(i, n)
  PROVE  n < Len(Msg(i).body)
<1>1. CASE AtHeader(i, n)
  <2>1. /\ chunk_.parsed \in Msg(i).chunks
        /\ n < SizeEnd(Msg(i).body, chunk_.parsed)
    BY <1>1 DEF AtHeader
  <2> DEFINE p == chunk_.parsed
             e == SizeEnd(Msg(i).body, p)
             l == Len(Msg(i).body)
  <2>2. l \in Nat /\ e \in 0..l
    <3> HIDE DEF p
    <3>1. p \in Msg(i).chunks
      BY <2>1 DEF p
    <3> QED BY <3>1, ChunkFacts
  <2> HIDE DEF e, l
  <2>3. n < l
    BY <2>1, <2>2 DEF e
  <2> QED BY <2>3 DEF l
<1>2. ASSUME NEW c \in Msg(i).chunks, AtChunk(i, n, c)
      PROVE  n < Len(Msg(i).body)
  <2> DEFINE e == SizeEnd(Msg(i).body, c)
             size == myatoi(SizeOf(Msg(i).body, c))
             l == Len(Msg(i).body)
  <2>1. /\ IsInteger(SizeOf(Msg(i).body, c)) /\ size # 0 /\ n < e + size + 2
    BY <1>2 DEF AtChunk
  <2>2. l \in Nat /\ e \in 0..l /\ size \in Nat /\ e + size + 2 \in 0..l
    BY <2>1, ChunkFacts
  <2> HIDE DEF e, size, l
  <2>3. n < l
    BY <2>1, <2>2
  <2> QED BY <2>3 DEF l
<1>3. ASSUME NEW c \in Msg(i).chunks, AtTrailer(i, n, c)
      PROVE  n < Len(Msg(i).body)
  BY <1>3 DEF AtTrailer
<1> QED BY <1>1, <1>2, <1>3 DEF AtItem

\* The places in a message, in their order.
LEMMA Places ==
  ASSUME PeerInv, NEW i \in 1..Count
  PROVE  /\ starts[i] \in Nat /\ LineEnd(i) \in Nat /\ HeadEnd(i) \in Nat
         /\ Len(Msg(i).body) \in Nat /\ Headers(i) \in Nat
         /\ Msg(i).body \in Seq(Tokens)
         /\ starts[i] < LineEnd(i) /\ LineEnd(i) < HeadEnd(i)
         /\ starts[i + 1] = HeadEnd(i) + Len(Msg(i).body)
         /\ starts[i + 1] <= Len(wire) /\ starts[i + 1] \in Nat
         /\ Len(wire) \in Nat
         /\ \A n \in 0..Headers(i) :
              /\ HeaderPos(i, n) \in Nat /\ NextPos(i, n) \in Nat
              /\ LineEnd(i) <= HeaderPos(i, n) /\ HeaderPos(i, n) < HeadEnd(i)
              /\ NextPos(i, n) <= HeadEnd(i)
<1> DEFINE s == starts[i]
           f == Len(Msg(i).first_line)
           l == LineEnd(i)
           h == HeadEnd(i)
           b == Len(Msg(i).body)
           z == HeaderPos(i, Headers(i))
           e == starts[i + 1]
           w == Len(wire)
<1>1. Headers(i) \in Nat /\ Msg(i).body \in Seq(Tokens)
  BY MessageLayout DEF String
<1>2. Headers(i) \in 0..Headers(i)
  BY <1>1
<1>3. /\ s \in Nat /\ f \in Nat /\ l = s + f + 2 /\ h = z + 2 /\ z \in Nat
      /\ b \in Nat /\ e = h + b /\ e <= w /\ w \in Nat /\ l <= z
  BY <1>2, MessageLayout
<1>4. \A n \in 0..Headers(i) : HeaderPos(i, n) \in Nat /\ l <= HeaderPos(i, n)
  BY MessageLayout
<1>5. \A n \in 0..Headers(i) : HeaderPos(i, n) + 2 <= h
  BY MessageLayout
<1> HIDE DEF s, f, l, h, b, z, e, w
<1>6. /\ l \in Nat /\ h \in Nat /\ s < l /\ l < h /\ e \in Nat
  BY <1>3
<1>7. ASSUME NEW n \in 0..Headers(i)
      PROVE  /\ HeaderPos(i, n) \in Nat /\ NextPos(i, n) \in Nat
             /\ l <= HeaderPos(i, n) /\ HeaderPos(i, n) < h
             /\ NextPos(i, n) <= h
  <2>1. HeaderPos(i, n) \in Nat /\ l <= HeaderPos(i, n) /\ HeaderPos(i, n) < h
    BY <1>4, <1>5, <1>6
  <2>2. CASE n < Headers(i)
    <3>1. n + 1 \in 0..Headers(i) /\ NextPos(i, n) = HeaderPos(i, n + 1)
      BY <1>1, <2>2 DEF NextPos
    <3>2. HeaderPos(i, n + 1) \in Nat /\ HeaderPos(i, n + 1) + 2 <= h
      BY <1>4, <1>5, <3>1
    <3> QED BY <1>6, <2>1, <3>1, <3>2
  <2>3. CASE ~(n < Headers(i))
    <3>1. NextPos(i, n) = h
      BY <2>3 DEF NextPos, h
    <3> QED BY <1>6, <2>1, <3>1
  <2> QED BY <2>2, <2>3
<1> QED BY <1>1, <1>3, <1>6, <1>7, Zenon DEF s, l, h, b, e, w

\* The peer's end of file.
LEMMA EofStep ==
  ASSUME PeerInv, NEW i \in Nat, Due(i), Parsing(i), parse_eof
  PROVE  (Due(i) /\ Parsing(i))'
<1>1. /\ pc = "rest" /\ ~eof /\ eof' = TRUE /\ UNCHANGED Peer
      /\ pos' = pos /\ arrived' = arrived
      /\ buffer_' = buffer_ /\ chunk_' = chunk_ /\ requests_' = requests_
      /\ complete_' = complete_
  BY DEF parse_eof
<1>2. /\ message_.state = "FIRST_LINE_PENDING" =>
           pc' = "parse" /\ message_' = message_
      /\ message_.state = "HEADERS_PENDING" =>
           pc' = "thrown" /\ message_' = message_
      /\ message_.state = "BODY_PENDING" /\ EofInBodyThrows =>
           pc' = "thrown" /\ message_' = message_
      /\ message_.state = "BODY_PENDING" /\ ~EofInBodyThrows =>
           pc' = "parse" /\ message_' = [message_ EXCEPT !.state = "COMPLETE"]
  BY DEF parse_eof
<1>3. pos \in Nat /\ Len(wire) \in Nat
  <2>1. pos \in 0..Len(wire) /\ Len(wire) \in Nat
    BY AvailableIs
  <2> QED BY <2>1
<1>4. script \in Scripts /\ Due(i)'
  BY <1>1, SamePeer DEF PeerInv
<1>5. CASE Between(i)
  <2>1. pc' = "parse" /\ message_' = message_
    BY <1>2, <1>5 DEF Between, NewMessage
  <2>2. Between(i)'
    BY <1>1, <1>5, <2>1, SamePeer, SameRead, SameWaiting, Zenon
    DEF Between, NewMessage
  <2> QED BY <1>4, <2>2 DEF Parsing
<1>6. ASSUME NEW n \in Nat, InHead(i, n) PROVE Thrown(i)'
  <2>1. pc' = "thrown"
    BY <1>2, <1>6 DEF InHead, HeadRead
  <2>2. /\ i <= Count /\ n \in 0..Headers(i) /\ complete_ = Whole(i - 1)
        /\ HeaderPos(i, n) <= pos /\ pos < NextPos(i, n)
    BY <1>1, <1>6 DEF InHead, Unread
  <2>3. i \in 1..Count
    BY <2>2, DueIndex
  <2>4. /\ LineEnd(i) \in Nat /\ HeadEnd(i) \in Nat
        /\ starts[i + 1] = HeadEnd(i) + Len(Msg(i).body)
        /\ Len(Msg(i).body) \in Nat
        /\ HeaderPos(i, n) \in Nat /\ NextPos(i, n) \in Nat
        /\ LineEnd(i) <= HeaderPos(i, n) /\ NextPos(i, n) <= HeadEnd(i)
    BY <2>2, <2>3, Places
  <2>5. pos >= LineEnd(i) /\ pos < starts[i + 1] /\ pos < HeadEnd(i)
    <3> DEFINE a == LineEnd(i)
               b == HeadEnd(i)
               c == HeaderPos(i, n)
               d == NextPos(i, n)
               e == starts[i + 1]
               f == Len(Msg(i).body)
    <3>1. /\ a \in Nat /\ b \in Nat /\ c \in Nat /\ d \in Nat /\ e = b + f
          /\ f \in Nat /\ c <= pos /\ pos < d /\ a <= c /\ d <= b
      BY <2>2, <2>4
    <3> HIDE DEF a, b, c, d, e, f
    <3>2. pos >= a /\ pos < e /\ pos < b
      BY <1>3, <3>1
    <3> QED BY <3>2 DEF a, b, e
  <2>6. /\ i <= Count' /\ complete_' = Whole(i - 1)' /\ eof'
        /\ pos' >= LineEnd(i)' /\ pos' < starts'[i + 1] /\ pos' < HeadEnd(i)'
    BY <1>1, <2>2, <2>5, SamePeer, Zenon
  <2> QED BY <2>1, <2>6, Zenon DEF Thrown
<1>7. ASSUME NEW n \in Nat, InBody(i, n)
      PROVE  Thrown(i)' \/ AtEof(i, n)'
  <2>1. /\ i <= Count /\ n \in 0..Len(Msg(i).body) /\ Readable(i)
        /\ message_ = BodyRead(i, n, "BODY_PENDING") /\ complete_ = Whole(i - 1)
        /\ Unread(HeadEnd(i) + n) /\ buffer_ = <<>>
        /\ Msg(i).ends = "length" => n < Len(Msg(i).body)
        /\ Rule(i).ends = "chunked" => InChunks(i, n)
    BY <1>1, <1>7 DEF InBody
  <2>2. i \in 1..Count
    BY <2>1, DueIndex
  <2>3. /\ Rule(i).ends \in {"length", "chunked", "close"}
        /\ Rule(i).ends = "length" <=> Msg(i).ends = "length"
        /\ Rule(i).ends = "close" <=> Msg(i).ends = "close"
        /\ Rule(i).ends = "chunked" => Msg(i).ends \in {"chunked", "refused"}
        /\ script.kind = "request" => Rule(i).ends = "length"
    BY <1>4, <2>1, <2>2, ReadableEnds
  <2> DEFINE b == Len(Msg(i).body)
             h == HeadEnd(i)
             l == LineEnd(i)
             e == starts[i + 1]
  <2>4. /\ b \in Nat /\ h \in Nat /\ l \in Nat /\ l < h /\ e = h + b
        /\ e <= Len(wire)
    BY <2>2, Places
  <2>5. pos = h + n
    <3>1. h + n <= pos /\ SubSeq(wire, (h + n) + 1, pos) = <<>>
      BY <2>1 DEF Unread
    <3> HIDE DEF b, h, l, e
    <3>2. h + n \in 0..pos /\ pos \in 0..Len(wire) /\ wire \in Seq(Tokens)
      BY <2>4, <3>1, AvailableIs
    <3> DEFINE c == h + n
    <3> HIDE DEF c
    <3>3. Len(SubSeq(wire, c + 1, pos)) = pos - c
      <4>1. \A T : \A w \in Seq(T) :
              \A p \in 0..Len(w) : \A d \in 0..p :
              Len(SubSeq(w, d + 1, p)) = p - d
        BY Piece
      <4>2. c \in 0..pos
        BY <3>2 DEF c
      <4> QED BY <3>2, <4>1, <4>2
    <3>4. SubSeq(wire, c + 1, pos) = <<>>
      BY <3>1 DEF c
    <3>5. pos - c = 0
      BY <3>3, <3>4
    <3>6. c \in Nat
      BY <3>2 DEF c
    <3>7. pos = c
      BY <1>3, <3>5, <3>6
    <3> QED BY <3>7 DEF c
  <2>6. Msg(i).ends # "close" => n < b
    <3>1. CASE Rule(i).ends = "length"
      BY <2>1, <2>3, <3>1
    <3>2. CASE Rule(i).ends = "chunked"
      BY <1>4, <2>1, <2>2, <3>2, Unfinished DEF InChunks
    <3>3. CASE Rule(i).ends = "close"
      BY <2>3, <3>3
    <3> QED BY <2>3, <3>1, <3>2, <3>3
  <2>7. /\ message_.state = "BODY_PENDING"
        /\ message_.parser = IF Rule(i).ends \in {"chunked", "close"}
                             THEN Rule(i).ends ELSE "none"
    BY <2>1 DEF BodyRead
  <2>8. EofInBodyThrows <=> Rule(i).ends = "length"
    BY <2>3, <2>7 DEF EofInBodyThrows
  <2>9. pos >= l /\ (n < b => pos < e)
    <3> HIDE DEF b, h, l, e
    <3> QED BY <2>4, <2>5
  <2>10. CASE Rule(i).ends = "length"
    <3>1. pc' = "thrown"
      BY <1>2, <2>7, <2>8, <2>10
    <3>2. /\ i <= Count' /\ complete_' = Whole(i - 1)' /\ eof'
          /\ pos' >= LineEnd(i)' /\ pos' < starts'[i + 1]
          /\ Msg(i)'.ends = "length"
      BY <1>1, <2>1, <2>3, <2>6, <2>9, <2>10, SamePeer
    <3> QED BY <3>1, <3>2 DEF Thrown
  <2>11. CASE Rule(i).ends # "length"
    <3>1. pc' = "parse" /\ message_' = [message_ EXCEPT !.state = "COMPLETE"]
      BY <1>2, <2>7, <2>8, <2>11
    <3>2. message_' = BodyRead(i, n, "COMPLETE")
      BY <2>1, <3>1 DEF BodyRead
    <3>3. CutShort(i, n)'
      <4>1. Msg(i).ends \in {"chunked", "close", "refused"}
        BY <2>3, <2>11
      <4>2. Msg(i).ends # "close" => pos < starts[i + 1]
        BY <2>6, <2>9
      <4> QED BY <1>1, <2>1, <2>5, <4>1, <4>2, SamePeer, Zenon DEF CutShort
    <3>4. /\ complete_' = Whole(i - 1)'
          /\ BodyRead(i, n, "COMPLETE")' = BodyRead(i, n, "COMPLETE")
      BY <1>1, <2>1, SamePeer
    <3> QED BY <3>1, <3>2, <3>3, <3>4, Zenon DEF AtEof
  <2> QED BY <2>10, <2>11
<1>8. ASSUME NEW n \in Nat, AfterEof(i, n) PROVE FALSE
  BY <1>1, <1>8 DEF AfterEof, CutShort
<1>9. \/ Between(i) \/ \E n \in Nat : InHead(i, n)
      \/ \E n \in Nat : InBody(i, n)
      \/ \E n \in Nat : AfterEof(i, n)
  BY <1>1, Phases
<1>10. Parsing(i)'
  BY <1>5, <1>6, <1>7, <1>8, <1>9 DEF Parsing
<1> QED BY <1>4, <1>10

\* Nothing is found in nothing.
LEMMA NoLineInEmpty ==
  ASSUME buffer_ = <<>>
  PROVE  ~have_complete_line
<1> DEFINE b == <<>>
<1>1. b \in Seq(Tokens) /\ Len(b) = 0
  OBVIOUS
<1>2. CRLF \in Seq(Tokens) /\ Len(CRLF) = 2
  BY CRLFType DEF String
<1> HIDE DEF b
<1>3. \A T : \A s \in Seq(T) : \A needle \in Seq(T) :
        /\ find(s, needle) \in Nat
        /\ find(s, needle) # 0 => find(s, needle) + Len(needle) - 1 <= Len(s)
  BY FoundWithin
<1>4. /\ find(b, CRLF) \in Nat
      /\ find(b, CRLF) # 0 => find(b, CRLF) + Len(CRLF) - 1 <= Len(b)
  BY <1>1, <1>2, <1>3
<1> DEFINE f == find(b, CRLF)
<1>5. f \in Nat /\ (f # 0 => f + 2 - 1 <= 0)
  BY <1>1, <1>2, <1>4
<1> HIDE DEF f
<1>6. f = 0
  BY <1>5
<1> QED BY <1>6, Zenon DEF have_complete_line, npos, f, b

\* Past the end of what is sent there is nothing to take.
LEMMA NothingAfterAll ==
  ASSUME PeerInv, Unread(Len(wire))
  PROVE  buffer_ = <<>> /\ pos = Len(wire)
<1>1. /\ Len(wire) <= pos /\ buffer_ = SubSeq(wire, Len(wire) + 1, pos)
      /\ wire \in Seq(Tokens) /\ pos \in 0..Len(wire) /\ Len(wire) \in Nat
  BY AvailableIs DEF Unread
<1>2. pos = Len(wire)
  BY <1>1
<1> QED BY <1>1, <1>2

\* The requests that wait for their responses.
LEMMA WaitingHead ==
  ASSUME PeerInv, script.kind = "response", NEW i \in Nat \ {0}, Waiting(i - 1)
  PROVE  /\ requests_ = <<>> => arrived < i
         /\ requests_ # <<>> =>
              /\ i <= arrived /\ i <= Len(script.requests)
              /\ Head(requests_) = script.requests[i]
              /\ Tail(requests_) = SubSeq(script.requests, i + 1, arrived)
<1> DEFINE R == script.requests
<1>1. /\ R \in Seq(String) /\ Len(R) \in Nat /\ arrived \in 0..Len(R)
      /\ arrived \in Nat
  <2>1. script \in Scripts /\ arrived \in 0..Len(R)
    BY DEF PeerInv
  <2>2. R \in Seq(String) /\ Len(R) \in Nat
    BY <2>1, ScriptType
  <2> HIDE DEF R
  <2> QED BY <2>1, <2>2
<1>2. requests_ = SubSeq(R, i, arrived)
  <2>1. (i - 1) + 1 = i
    OBVIOUS
  <2> QED BY <2>1 DEF Waiting
<1> HIDE DEF R
<1>3. CASE i <= arrived
  <2>1. \A j \in i..arrived : R[j] \in String
    BY <1>1, <1>3
  <2>2. /\ Len(SubSeq(R, i, arrived)) = arrived - i + 1
    BY <1>1, <1>3, <2>1, SubSeqProperties
  <2>3. requests_ # <<>>
    BY <1>1, <1>2, <1>3, <2>2
  <2>4. \A S : \A seq \in Seq(S) : \A m \in 1..Len(seq) : \A n \in m..Len(seq) :
          /\ Head(SubSeq(seq, m, n)) = seq[m]
          /\ Tail(SubSeq(seq, m, n)) = SubSeq(seq, m + 1, n)
    BY HeadTailOfSubSeq
  <2>5. i \in 1..Len(R) /\ arrived \in i..Len(R)
    BY <1>1, <1>3
  <2>6. /\ Head(SubSeq(R, i, arrived)) = R[i]
        /\ Tail(SubSeq(R, i, arrived)) = SubSeq(R, i + 1, arrived)
    BY <1>1, <2>4, <2>5
  <2>7. i <= Len(R)
    BY <2>5
  <2> QED BY <1>2, <1>3, <2>3, <2>6, <2>7, Zenon DEF R
<1>4. CASE arrived < i
  <2>1. requests_ = <<>>
    BY <1>1, <1>2, <1>4
  <2> QED BY <1>4, <2>1
<1> QED BY <1>1, <1>3, <1>4

\* The first line of a message.
LEMMA FirstLineStep ==
  ASSUME PeerInv, NEW i \in Nat, Due(i), Parsing(i), FirstLinePending
  PROVE  (Due(i) /\ Parsing(i))'
<1>1. /\ pc = "parse" /\ message_.state = "FIRST_LINE_PENDING"
      /\ have_complete_line /\ UNCHANGED Peer
      /\ pos' = pos /\ arrived' = arrived /\ eof' = eof
      /\ chunk_' = chunk_ /\ complete_' = complete_
  BY DEF FirstLinePending, Outside
<1>2. script \in Scripts /\ Due(i)' /\ pos \in Nat /\ Len(wire) \in Nat
  <2>1. pos \in 0..Len(wire) /\ Len(wire) \in Nat
    BY AvailableIs
  <2> QED BY <1>1, <2>1, SamePeer DEF PeerInv
<1>3. ASSUME NEW n \in Nat, AfterEof(i, n) PROVE FALSE
  BY <1>1, <1>3, NoLineInEmpty DEF AfterEof, CutShort
<1>4. Between(i)
  BY <1>1, <1>3, Phases
<1>5. i \in 1..Count
  <2>1. i \in 1..(Count + 1) /\ Count \in Nat
    BY DueIndex
  <2>2. ASSUME i = Count + 1 PROVE FALSE
    <3>1. starts[i] = Len(wire)
      BY <2>2, WireLayout
    <3>2. Unread(Len(wire))
      BY <1>4, <3>1 DEF Between
    <3> QED BY <1>1, <3>2, NothingAfterAll, NoLineInEmpty
  <2> QED BY <2>1, <2>2
<1>6. /\ Unread(starts[i]) /\ Waiting(i - 1) /\ complete_ = Whole(i - 1)
      /\ message_ = NewMessage
      /\ eof /\ i <= Count => pos < LineEnd(i)
  BY <1>4 DEF Between
<1>7. /\ LineEnd(i) <= pos /\ Line = Msg(i).first_line
      /\ get_and_pop_line => buffer_' = SubSeq(wire, LineEnd(i) + 1, pos)
  BY <1>1, <1>5, <1>6, FirstLine
<1>8. ~eof /\ i <= Count /\ i \in Nat \ {0} /\ starts[i] <= pos
      /\ i \in 1..(Count + 1) /\ LineEnd(i) \in Nat
  <2>1. LineEnd(i) \in Nat
    BY <1>5, Places
  <2>2. i <= Count /\ i \in Nat \ {0} /\ i \in 1..(Count + 1)
    BY <1>5, DueIndex
  <2>3. ~eof
    BY <1>2, <1>6, <1>7, <2>1, <2>2
  <2>4. starts[i] <= pos
    BY <1>6 DEF Unread
  <2> QED BY <2>1, <2>2, <2>3, <2>4
<1>9. CASE Unmatched
  <2>1. pc' = "thrown"
    BY <1>9 DEF FirstLinePending
  <2>2. script.kind = "response" /\ requests_ = <<>>
    BY <1>9 DEF Unmatched
  <2>3. arrived < i
    BY <1>6, <1>8, <2>2, WaitingHead
  <2>4. arrived \in Nat /\ Len(script.requests) \in Nat
        /\ arrived <= Len(script.requests)
    <3>1. arrived \in 0..Len(script.requests) /\ Len(script.requests) \in Nat
      BY <1>2, ScriptType DEF PeerInv
    <3> QED BY <3>1
  <2>5. ~(arrived < Len(script.requests))
    <3> SUFFICES ASSUME arrived < Len(script.requests) PROVE FALSE
      OBVIOUS
    <3>1. i <= arrived
      BY <1>7, <1>8, <2>2, Arrived
    <3> QED BY <1>8, <2>3, <2>4, <3>1
  <2>6. ~(i <= Len(script.requests))
    BY <1>8, <2>3, <2>4, <2>5
  <2>7. Msg(i).ends = "refused"
    <3>1. IsMessage(script, i)
      BY <1>2, <1>5, ScriptType
    <3> QED BY <2>2, <2>6, <3>1, Zenon DEF IsMessage, Msg
  <2>8. /\ i <= Count' /\ complete_' = Whole(i - 1)' /\ ~eof' /\ ~Accepted(i)'
    BY <1>1, <1>6, <1>8, <2>7, SamePeer DEF Accepted, Msg
  <2>9. Thrown(i)'
    BY <2>1, <2>8 DEF Thrown
  <2> QED BY <1>2, <2>9 DEF Parsing
<1>10. CASE ~Unmatched
  <2> DEFINE r == IF script.kind = "request" THEN <<>> ELSE Head(requests_)
  <2>1. /\ message_' = [message_ EXCEPT
                          !.state = "HEADERS_PENDING", !.first_line = Line,
                          !.request = r]
        /\ requests_' = IF script.kind = "request" THEN requests_
                        ELSE Tail(requests_)
        /\ get_and_pop_line /\ pc' = pc
    BY <1>10 DEF FirstLinePending
  <2>2. script.kind \in {"request", "response"}
    BY <1>2, ScriptType
  <2>3. /\ script.kind = "response" => i <= Len(script.requests)
        /\ r = IF script.kind = "request" THEN <<>> ELSE script.requests[i]
        /\ requests_' = IF script.kind = "request" THEN <<>>
                        ELSE SubSeq(script.requests, i + 1, arrived)
    <3>1. CASE script.kind = "request"
      BY <1>6, <2>1, <3>1 DEF Waiting
    <3>2. CASE script.kind = "response"
      <4>1. requests_ # <<>>
        BY <1>10, <3>2 DEF Unmatched
      <4>2. /\ i <= Len(script.requests) /\ Head(requests_) = script.requests[i]
            /\ Tail(requests_) = SubSeq(script.requests, i + 1, arrived)
        BY <1>6, <1>8, <3>2, <4>1, WaitingHead
      <4>3. script.kind # "request"
        BY <3>2
      <4> QED BY <2>1, <4>2, <4>3
    <3> QED BY <2>2, <3>1, <3>2
  <2>4. message_' = HeadRead(script, i, 0)
    <3> DEFINE hs == [j \in 1..0 |->
                        [key |-> script.sent[i].headers[j].key,
                         value |-> script.sent[i].headers[j].value]]
    <3>1. hs = <<>>
      OBVIOUS
    <3> HIDE DEF hs, r
    <3>2. message_' =
            [state |-> "HEADERS_PENDING", first_line |-> Line,
             headers |-> <<>>, body |-> <<>>, known |-> FALSE,
             expected |-> 0, parser |-> "none", request |-> r]
      BY <1>6, <2>1 DEF NewMessage
    <3>3. message_' =
            [state |-> "HEADERS_PENDING",
             first_line |-> script.sent[i].first_line,
             headers |-> hs, body |-> <<>>, known |-> FALSE,
             expected |-> 0, parser |-> "none",
             request |-> IF script.kind = "request" THEN <<>>
                         ELSE script.requests[i]]
      BY <1>7, <2>3, <3>1, <3>2, Zenon DEF Msg
    <3> QED BY <3>3, Zenon DEF HeadRead, hs
  <2>5. HeaderPos(i, 0) = LineEnd(i)
    BY <1>5, MessageLayout
  <2>6. Unread(HeaderPos(i, 0))'
    <3>1. LineEnd(i) <= pos' /\ buffer_' = SubSeq(wire', LineEnd(i) + 1, pos')
      BY <1>1, <1>7, <2>1, SamePeer
    <3>2. HeaderPos(i, 0)' = LineEnd(i)
      BY <1>1, <2>5, SamePeer
    <3> QED BY <3>1, <3>2, Zenon DEF Unread
  <2>7. Waiting(i)'
    BY <1>1, <2>3, SamePeer, Zenon DEF Waiting
  <2>8. HeadRead(script', i, 0) = message_' /\ complete_' = Whole(i - 1)'
    BY <1>1, <1>6, <2>4, SamePeer, Zenon
  <2>9. 0 \in 0..Headers(i) /\ Headers(i)' = Headers(i) /\ Count' = Count
    <3>1. Headers(i) \in Nat
      BY <1>5, Places
    <3>2. 0 \in 0..Headers(i)
      BY <3>1
    <3> QED BY <1>1, <3>2, SamePeer
  <2>10. pc' = "parse" /\ ~eof' /\ pc' # "rest" /\ i <= Count'
         /\ (script'.kind = "response" => i <= Len(script'.requests))
    BY <1>1, <1>8, <2>1, <2>3, SamePeer
  <2>11. InHead(i, 0)'
    <3>1. \A j \in 1..0 : IsHeader(Msg(i).headers[j])'
      OBVIOUS
    <3> QED BY <2>6, <2>7, <2>8, <2>9, <2>10, <3>1 DEF InHead
  <2> QED BY <1>2, <2>11 DEF Parsing
<1> QED BY <1>9, <1>10

\* What comes next in a head that could be read so far: if the parser throws
\* there, it is to.
LEMMA HeadGoesOn ==
  ASSUME PeerInv, NEW i \in 1..Count, NEW n \in 0..Headers(i),
         script.kind = "response" => i <= Len(script.requests),
         \A j \in 1..n : IsHeader(Msg(i).headers[j])
  PROVE  /\ n < Headers(i) =>
              \/ IsHeader(Msg(i).headers[n + 1])
              \/ /\ ~HasColon(HeaderLine(Msg(i).headers[n + 1]))
                 /\ Msg(i).ends = "refused"
         /\ n = Headers(i) =>
              \/ Readable(i)
              \/ Rule(i).ends = "throws" /\ Msg(i).ends = "refused"
<1> DEFINE m == Msg(i)
           h == m.headers
           good(k) == \A j \in 1..k : IsHeader(h[j])
           answers == script.kind = "response" => i <= Len(script.requests)
<1>1. /\ IsMessage(script, i) /\ m \in Messages /\ Headers(i) \in Nat
      /\ DOMAIN h = 1..Headers(i) /\ Headers(i) = Len(h)
  <2>1. IsMessage(script, i) /\ m \in Messages
    BY ScriptType DEF PeerInv
  <2>2. h \in Seq([key : String, sep : String, value : String])
    <3> HIDE DEF m
    <3> QED BY <2>1 DEF Messages
  <2>3. Headers(i) = Len(h)
    BY DEF Headers
  <2> HIDE DEF h
  <2> QED BY <2>1, <2>2, <2>3
<1>2. \/ answers /\ good(Len(h)) /\ HasItsBody(script, i)
      \/ m.ends = "refused" /\ ~answers
      \/ /\ m.ends = "refused"
         /\ \E j \in DOMAIN h : good(j - 1) /\ ~HasColon(HeaderLine(h[j]))
  BY <1>1, Zenon DEF IsMessage, Msg
<1>3. answers /\ good(n)
  OBVIOUS
<1>4. \A j \in DOMAIN h : IsHeader(h[j]) => HasColon(HeaderLine(h[j]))
  <2> SUFFICES ASSUME NEW j \in 1..Headers(i), IsHeader(h[j])
               PROVE  HasColon(HeaderLine(h[j]))
    BY <1>1
  <2>1. /\ h[j].key \in Seq(Tokens) /\ h[j].sep \in Seq(Tokens)
        /\ h[j].value \in Seq(Tokens)
    BY <1>1, HeaderLinesType
  <2> DEFINE x == h[j]
  <2> HIDE DEF x
  <2>2. /\ x.key \in Seq(Tokens) /\ x.sep \in Seq(Tokens)
        /\ x.value \in Seq(Tokens) /\ IsHeader(x)
    BY <2>1 DEF x
  <2>3. HasColon(HeaderLine(x))
    BY <2>2, HeaderSplit
  <2> QED BY <2>3 DEF x
<1>5. m.ends = "length" \/ m.ends = "chunked" \/ m.ends = "close"
      \/ m.ends = "refused"
  BY <1>1 DEF Messages
<1> HIDE DEF answers, h
<1>6. ASSUME n < Headers(i)
      PROVE  IsHeader(h[n + 1])
             \/ (~HasColon(HeaderLine(h[n + 1])) /\ m.ends = "refused")
  <2>1. n + 1 \in 1..Headers(i)
    BY <1>1, <1>6
  <2>2. CASE good(Len(h))
    BY <1>1, <2>1, <2>2
  <2>3. ASSUME NEW j \in DOMAIN h, good(j - 1), ~HasColon(HeaderLine(h[j])),
               m.ends = "refused"
        PROVE  IsHeader(h[n + 1])
               \/ (~HasColon(HeaderLine(h[n + 1])) /\ m.ends = "refused")
    <3>1. j \in 1..Headers(i)
      BY <1>1
    <3>2. CASE j <= n
      <4>1. j \in 1..n
        BY <3>1, <3>2
      <4> QED BY <1>3, <1>4, <2>3, <4>1
    <3>3. CASE j = n + 1
      BY <2>3, <3>3
    <3>4. CASE j > n + 1
      <4>1. n + 1 \in 1..(j - 1)
        BY <2>1, <3>1, <3>4
      <4> QED BY <2>3, <4>1
    <3> QED BY <3>1, <3>2, <3>3, <3>4
  <2> QED BY <1>2, <1>3, <2>2, <2>3
<1>7. ASSUME n = Headers(i)
      PROVE  Readable(i) \/ (Rule(i).ends = "throws" /\ m.ends = "refused")
  <2>1. HasItsBody(script, i)
    <3>1. ASSUME NEW j \in DOMAIN h, ~HasColon(HeaderLine(h[j])) PROVE FALSE
      <4>1. j \in 1..n
        BY <1>1, <1>7
      <4> QED BY <1>3, <1>4, <3>1, <4>1
    <3> QED BY <1>2, <1>3, <3>1
  <2>2. CASE Rule(i).ends # "throws"
    <3>1. \A j \in 1..Headers(i) : IsHeader(Msg(i).headers[j])
      BY <1>3, <1>7 DEF h
    <3>2. script.kind = "response" => i <= Len(script.requests)
      BY <1>3 DEF answers
    <3> QED BY <2>1, <2>2, <3>1, <3>2 DEF Readable
  <2>3. CASE Rule(i).ends = "throws"
    <3> DEFINE b == Rule(i)
               e == m.ends
    <3>1. /\ e = "length" => b = [ends |-> "length", size |-> Len(m.body)]
          /\ e = "close" => b.ends = "close"
          /\ e = "chunked" => b.ends = "chunked"
      BY <2>1, Zenon DEF HasItsBody, Msg, Rule
    <3> HIDE DEF b, e
    <3>2. e = "length" => b.ends = "length"
      BY <3>1
    <3>3. b.ends = "throws"
      BY <2>3 DEF b
    <3>4. e = "refused"
      BY <1>5, <3>1, <3>2, <3>3 DEF e
    <3> QED BY <2>3, <3>4 DEF e
  <2> QED BY <2>2, <2>3
<1> QED BY <1>6, <1>7 DEF h

\* Where a message in progress is whose head has not ended.
LEMMA InHeadWhere ==
  ASSUME PeerInv, NEW i \in Nat, Due(i), NEW n \in Nat, InHead(i, n)
  PROVE  /\ i \in 1..Count /\ n \in 0..Headers(i) /\ i <= Count
         /\ Headers(i) \in Nat /\ Unread(HeaderPos(i, n)) /\ Waiting(i)
         /\ script.kind = "response" => i <= Len(script.requests)
         /\ \A j \in 1..n : IsHeader(Msg(i).headers[j])
         /\ message_ = HeadRead(script, i, n) /\ complete_ = Whole(i - 1)
         /\ ~eof /\ HeaderPos(i, n) \in Nat
<1>1. /\ n \in 0..Headers(i) /\ i <= Count
      /\ Unread(HeaderPos(i, n)) /\ Waiting(i)
      /\ script.kind = "response" => i <= Len(script.requests)
      /\ \A j \in 1..n : IsHeader(Msg(i).headers[j])
      /\ message_ = HeadRead(script, i, n) /\ complete_ = Whole(i - 1)
      /\ ~eof
  BY DEF InHead
<1>2. i \in 1..Count
  BY <1>1, DueIndex
<1>3. Headers(i) \in Nat /\ HeaderPos(i, n) \in Nat
  BY <1>1, <1>2, Places
<1> QED BY <1>1, <1>2, <1>3

\* The message in progress when its first line, its headers and its request are
\* known.
HeadOf(line, hs, r) ==
  [state |-> "HEADERS_PENDING", first_line |-> line, headers |-> hs,
   body |-> <<>>, known |-> FALSE, expected |-> 0, parser |-> "none",
   request |-> r]

LEMMA HeadersSet ==
  ASSUME NEW a, NEW g, NEW r, NEW v
  PROVE  /\ [HeadOf(a, g, r) EXCEPT !.headers = v] = HeadOf(a, v, r)
         /\ HeadOf(a, g, r).headers = g
<1> DEFINE st == "HEADERS_PENDING"
           body == <<>>
           known == FALSE
           expected == 0
           parser == "none"
           of(hs) == [state |-> st, first_line |-> a, headers |-> hs,
                      body |-> body, known |-> known, expected |-> expected,
                      parser |-> parser, request |-> r]
<1>1. HeadOf(a, g, r) = of(g) /\ HeadOf(a, v, r) = of(v)
  BY DEF HeadOf
<1> HIDE DEF st, body, known, expected, parser
<1>2. [of(g) EXCEPT !.headers = v] = of(v) /\ of(g).headers = g
  OBVIOUS
<1> HIDE DEF of
<1> QED BY <1>1, <1>2, Zenon

\* One more header.
LEMMA HeadReadNext ==
  ASSUME NEW s, NEW i, NEW n \in Nat,
         NEW h, h = [key |-> s.sent[i].headers[n + 1].key,
                     value |-> s.sent[i].headers[n + 1].value],
         NEW m, m = HeadRead(s, i, n)
  PROVE  [m EXCEPT !.headers = Append(@, h)] = HeadRead(s, i, n + 1)
<1> DEFINE f(j) == [key |-> s.sent[i].headers[j].key,
                    value |-> s.sent[i].headers[j].value]
           g == [j \in 1..n |-> f(j)]
           k == [j \in 1..(n + 1) |-> f(j)]
           a == s.sent[i].first_line
           r == IF s.kind = "request" THEN <<>> ELSE s.requests[i]
<1>1. Append(g, f(n + 1)) = k
  <2> HIDE DEF f
  <2> QED OBVIOUS
<1>2. m = HeadOf(a, g, r) /\ HeadRead(s, i, n + 1) = HeadOf(a, k, r)
  BY Zenon DEF HeadRead, HeadOf
<1>3. h = f(n + 1)
  OBVIOUS
<1> HIDE DEF a, r, k, g, f
<1>4. m.headers = g
  BY <1>2, HeadersSet
<1>5. [m EXCEPT !.headers = k] = HeadRead(s, i, n + 1)
  BY <1>2, HeadersSet
<1>6. Append(m.headers, h) = k
  BY <1>1, <1>3, <1>4
<1> QED BY <1>5, <1>6, Zenon

\* A header.
LEMMA AddHeaderStep ==
  ASSUME PeerInv, NEW i \in Nat, Due(i), Parsing(i), add_header
  PROVE  (Due(i) /\ Parsing(i))'
<1>1. /\ pc = "parse" /\ message_.state = "HEADERS_PENDING"
      /\ have_complete_line /\ Line # <<>> /\ get_and_pop_line
      /\ UNCHANGED Peer
      /\ pos' = pos /\ arrived' = arrived /\ eof' = eof
      /\ chunk_' = chunk_ /\ complete_' = complete_ /\ requests_' = requests_
  BY DEF add_header, Outside
<1>2. /\ HasColon(Line) =>
           /\ message_' = [message_ EXCEPT
                           !.headers = Append(@, HTTPHeader(Line))]
           /\ pc' = pc
      /\ ~HasColon(Line) => pc' = "thrown" /\ message_' = message_
  BY DEF add_header
<1>3. PICK n \in Nat : InHead(i, n)
  BY <1>1, Phases
<1>4. /\ i \in 1..Count /\ n \in 0..Headers(i) /\ i <= Count
      /\ Headers(i) \in Nat /\ Unread(HeaderPos(i, n)) /\ Waiting(i)
      /\ script.kind = "response" => i <= Len(script.requests)
      /\ \A j \in 1..n : IsHeader(Msg(i).headers[j])
      /\ message_ = HeadRead(script, i, n) /\ complete_ = Whole(i - 1)
      /\ ~eof /\ HeaderPos(i, n) \in Nat
  BY <1>3, InHeadWhere
<1>5. n < Headers(i) /\ n \in 0..(Headers(i) - 1) /\ n + 1 \in 0..Headers(i)
  <2>1. ASSUME n = Headers(i) PROVE FALSE
    BY <1>1, <1>4, <2>1, LastLine
  <2> QED BY <1>4, <2>1
<1> DEFINE h == Msg(i).headers[n + 1]
<1>6. /\ Line = HeaderLine(h) /\ HeaderPos(i, n + 1) <= pos
      /\ buffer_' = SubSeq(wire, HeaderPos(i, n + 1) + 1, pos)
  BY <1>1, <1>4, <1>5, NextHeader
<1>7. IsHeader(h) \/ (~HasColon(HeaderLine(h)) /\ Msg(i).ends = "refused")
  BY <1>4, <1>5, HeadGoesOn
<1>8. Due(i)' /\ script' = script
  BY <1>1, SamePeer
<1>9. CASE IsHeader(h)
  <2>1. /\ h.key \in Seq(Tokens) /\ h.sep \in Seq(Tokens)
        /\ h.value \in Seq(Tokens)
    BY <1>4, <1>5, HeaderLayout
  <2>2. HasColon(HeaderLine(h))
        /\ HTTPHeader(HeaderLine(h)) = [key |-> h.key, value |-> h.value]
    <3> DEFINE x == h
    <3> HIDE DEF x
    <3>1. /\ x.key \in Seq(Tokens) /\ x.sep \in Seq(Tokens)
          /\ x.value \in Seq(Tokens) /\ IsHeader(x)
      BY <1>9, <2>1 DEF x
    <3>2. HasColon(HeaderLine(x))
          /\ HTTPHeader(HeaderLine(x)) = [key |-> x.key, value |-> x.value]
      BY <3>1, HeaderSplit
    <3> QED BY <3>2 DEF x
  <2> DEFINE r == [key |-> h.key, value |-> h.value]
  <2>3. /\ message_' = [message_ EXCEPT !.headers = Append(@, r)] /\ pc' = pc
    BY <1>2, <1>6, <2>2, Zenon
  <2>4. [message_ EXCEPT !.headers = Append(@, r)] = HeadRead(script, i, n + 1)
    <3>1. r = [key |-> script.sent[i].headers[n + 1].key,
               value |-> script.sent[i].headers[n + 1].value]
      BY Zenon DEF Msg
    <3> DEFINE m == message_
    <3> HIDE DEF r, m
    <3>2. m = HeadRead(script, i, n)
      BY <1>4 DEF m
    <3>3. [m EXCEPT !.headers = Append(@, r)] = HeadRead(script, i, n + 1)
      BY <3>1, <3>2, HeadReadNext
    <3> QED BY <3>3 DEF m
  <2>5. message_' = HeadRead(script', i, n + 1)
    BY <1>8, <2>3, <2>4, Zenon
  <2>6. Unread(HeaderPos(i, n + 1))'
    <3>1. HeaderPos(i, n + 1)' = HeaderPos(i, n + 1) /\ wire' = wire
      BY <1>1, SamePeer
    <3> QED BY <1>1, <1>6, <3>1, Zenon DEF Unread
  <2>7. Waiting(i)' /\ complete_' = Whole(i - 1)' /\ Headers(i)' = Headers(i)
        /\ Count' = Count /\ Msg(i)' = Msg(i)
    BY <1>1, <1>4, SamePeer, SameWaiting
  <2>8. \A j \in 1..(n + 1) : IsHeader(Msg(i)'.headers[j])
    <3>1. \A j \in 1..(n + 1) : j \in 1..n \/ j = n + 1
      BY <1>4
    <3> QED BY <1>4, <1>9, <2>7, <3>1
  <2>9. pc' # "rest" /\ pc' = "parse" /\ ~eof'
        /\ (script'.kind = "response" => i <= Len(script'.requests))
    BY <1>1, <1>4, <1>8, <2>3
  <2>10. InHead(i, n + 1)' /\ n + 1 \in Nat
    BY <1>4, <1>5, <2>5, <2>6, <2>7, <2>8, <2>9 DEF InHead
  <2> QED BY <1>8, <2>10 DEF Parsing
<1>10. CASE ~HasColon(HeaderLine(h)) /\ Msg(i).ends = "refused"
  <2>1. pc' = "thrown"
    BY <1>2, <1>6, <1>10
  <2>2. /\ i <= Count' /\ complete_' = Whole(i - 1)' /\ ~eof' /\ ~Accepted(i)'
    BY <1>1, <1>4, <1>10, SamePeer DEF Accepted, Msg
  <2>3. Thrown(i)'
    BY <2>1, <2>2 DEF Thrown
  <2> QED BY <1>8, <2>3 DEF Parsing
<1> QED BY <1>7, <1>9, <1>10

\* The empty line, and what calculate_expected_body_size says.
LEMMA DoneWithHeadersStep ==
  ASSUME PeerInv, NEW i \in Nat, Due(i), Parsing(i), done_with_headers
  PROVE  (Due(i) /\ Parsing(i))'
<1> DEFINE b == Body(script.kind, message_)
<1>1. /\ pc = "parse" /\ message_.state = "HEADERS_PENDING"
      /\ have_complete_line /\ Line = <<>> /\ get_and_pop_line
      /\ UNCHANGED Peer
      /\ pos' = pos /\ arrived' = arrived /\ eof' = eof
      /\ complete_' = complete_ /\ requests_' = requests_
  BY DEF done_with_headers, Outside
<1>2. /\ message_' =
           [message_ EXCEPT
              !.state = "BODY_PENDING",
              !.known = b.ends = "length", !.expected = b.size,
              !.parser = IF b.ends \in {"chunked", "close"} THEN b.ends
                         ELSE "none"]
      /\ chunk_' = NewChunkedParser(b.ends = "chunked"
                                      /\ has_header(message_, "Trailer"))
      /\ pc' = IF b.ends = "throws" THEN "thrown" ELSE pc
  BY Zenon DEF done_with_headers
<1>3. PICK n \in Nat : InHead(i, n)
  BY <1>1, Phases
<1>4. /\ i \in 1..Count /\ n \in 0..Headers(i) /\ i <= Count
      /\ Headers(i) \in Nat /\ Unread(HeaderPos(i, n)) /\ Waiting(i)
      /\ script.kind = "response" => i <= Len(script.requests)
      /\ \A j \in 1..n : IsHeader(Msg(i).headers[j])
      /\ message_ = HeadRead(script, i, n) /\ complete_ = Whole(i - 1)
      /\ ~eof /\ HeaderPos(i, n) \in Nat
  BY <1>3, InHeadWhere
<1>5. n = Headers(i)
  <2> SUFFICES ASSUME n # Headers(i) PROVE FALSE
    OBVIOUS
  <2>1. n \in 0..(Headers(i) - 1)
    BY <1>4
  <2> QED BY <1>1, <1>4, <2>1, NextHeader
<1>6. /\ HeadEnd(i) <= pos /\ buffer_' = SubSeq(wire, HeadEnd(i) + 1, pos)
  BY <1>1, <1>4, <1>5, LastLine
<1>7. message_ = WholeHead(script, i) /\ b = Rule(i)
  <2>1. message_ = WholeHead(script, i)
    BY <1>4, <1>5, Zenon DEF WholeHead, Headers, Msg
  <2> QED BY <2>1, Zenon DEF Rule
<1>8. Readable(i) \/ (Rule(i).ends = "throws" /\ Msg(i).ends = "refused")
  BY <1>4, <1>5, HeadGoesOn
<1>9. Due(i)' /\ script' = script
  BY <1>1, SamePeer
<1>10. CASE Rule(i).ends = "throws" /\ Msg(i).ends = "refused"
  <2>1. pc' = "thrown"
    BY <1>2, <1>7, <1>10
  <2>2. /\ i <= Count' /\ complete_' = Whole(i - 1)' /\ ~eof' /\ ~Accepted(i)'
    BY <1>1, <1>4, <1>10, SamePeer DEF Accepted, Msg
  <2>3. Thrown(i)'
    BY <2>1, <2>2 DEF Thrown
  <2> QED BY <1>9, <2>3 DEF Parsing
<1>11. CASE Readable(i)
  <2> DEFINE B == Msg(i).body
  <2>1. Rule(i).ends # "throws"
    BY <1>11 DEF Readable
  <2>2. pc' = "parse"
    BY <1>1, <1>2, <1>7, <2>1
  <2>3. /\ HeadEnd(i) \in Nat /\ Len(B) \in Nat /\ HeadEnd(i) + 0 = HeadEnd(i)
        /\ 0 \in 0..Len(B) /\ script \in Scripts /\ B \in Seq(Tokens)
    <3>1. /\ HeadEnd(i) \in Nat /\ Len(B) \in Nat /\ B \in Seq(Tokens)
      BY <1>4, Places
    <3>2. script \in Scripts
      BY DEF PeerInv
    <3> QED BY <3>1, <3>2
  <2>4. message_' = BodyRead(i, 0, "BODY_PENDING")
    <3> DEFINE hs == WholeHead(script, i).headers
               r == WholeHead(script, i).request
               f == Msg(i).first_line
               k == b.ends = "length"
               s == b.size
               p == IF b.ends \in {"chunked", "close"} THEN b.ends ELSE "none"
               e == SubSeq(Msg(i).body, 1, 0)
    <3>1. message_ =
            [state |-> "HEADERS_PENDING", first_line |-> f, headers |-> hs,
             body |-> <<>>, known |-> FALSE, expected |-> 0, parser |-> "none",
             request |-> r]
      BY <1>7, Zenon DEF WholeHead, HeadRead, Msg
    <3>2. e = <<>>
      BY <2>3
    <3> HIDE DEF hs, r, f, k, s, p, e
    <3>3. message_' = [message_ EXCEPT !.state = "BODY_PENDING", !.known = k,
                                       !.expected = s, !.parser = p]
      BY <1>2, Zenon DEF k, s, p
    <3>4. message_' =
            [state |-> "BODY_PENDING", first_line |-> f, headers |-> hs,
             body |-> e, known |-> k, expected |-> s, parser |-> p,
             request |-> r]
      BY <3>1, <3>2, <3>3
    <3> QED BY <1>7, <3>4, Zenon DEF BodyRead, hs, r, f, k, s, p, e
  <2>5. Unread(HeadEnd(i) + 0)'
    <3>1. HeadEnd(i)' = HeadEnd(i) /\ wire' = wire
      BY <1>1, SamePeer
    <3> QED BY <1>1, <1>6, <2>3, <3>1, Zenon DEF Unread
  <2>6. ASSUME Rule(i).ends = "chunked"
        PROVE  InChunks(i, 0)'
    <3>1. /\ chunk_'.trailers = Announces(i) /\ chunk_'.acked = 0
          /\ chunk_'.parsed = 0 /\ chunk_'.buffer = <<>>
          /\ chunk_'.state = "CHUNK_HDR"
      <4>1. chunk_' = NewChunkedParser(Announces(i))
        <5>1. Announces(i)
                <=> (b.ends = "chunked" /\ has_header(message_, "Trailer"))
          BY <1>7, <2>6, Zenon DEF Announces
        <5>2. Announces(i) \in BOOLEAN
          BY Zenon DEF Announces, has_header
        <5>3. Announces(i)
                = (b.ends = "chunked" /\ has_header(message_, "Trailer"))
          BY <5>1, <5>2
        <5> QED BY <1>2, <5>3, Zenon
      <4> DEFINE a == Announces(i)
      <4> HIDE DEF a
      <4>2. chunk_' = NewChunkedParser(a)
        BY <4>1 DEF a
      <4>3. /\ chunk_'.trailers = a /\ chunk_'.acked = 0
            /\ chunk_'.parsed = 0 /\ chunk_'.buffer = <<>>
            /\ chunk_'.state = "CHUNK_HDR"
        BY <4>2 DEF NewChunkedParser
      <4> QED BY <4>3 DEF a
    <3>2. Given(i, 0)' = HeadEnd(i)
      <4>1. HeadEnd(i)' = HeadEnd(i) /\ pc' # "chunk"
        BY <1>1, <2>2, SamePeer
      <4>2. Given(i, 0)' = HeadEnd(i) + 0
        BY <4>1 DEF Given
      <4> QED BY <2>3, <4>2
    <3>3. 0 \in Msg(i).chunks
      <4>1. IsChunkedBody(Msg(i), Announces(i))
        BY <1>4, <1>11, <2>3, <2>6, ReadableEnds
      <4> QED BY <4>1, Zenon DEF IsChunkedBody
    <3>4. 0 < SizeEnd(Msg(i).body, 0)
      <4> DEFINE c == 0
                 z == SizeEnd(Msg(i).body, c)
      <4> HIDE DEF c
      <4>1. c \in Msg(i).chunks /\ c = 0
        BY <3>3 DEF c
      <4>2. z \in 0..Len(B) /\ c + 2 <= z
        BY <1>4, <1>11, <2>3, <2>6, <4>1, ChunkFacts
      <4> HIDE DEF z
      <4>3. 0 < z
        BY <2>3, <4>1, <4>2
      <4> QED BY <4>3 DEF z, c
    <3>5. AtHeader(i, 0)'
      <4>1. Msg(i)' = Msg(i)
        BY <1>1, SamePeer
      <4>2. /\ chunk_'.state = "CHUNK_HDR" /\ chunk_'.parsed \in Msg(i)'.chunks
            /\ 0 < SizeEnd(Msg(i)'.body, chunk_'.parsed)
        BY <3>1, <3>3, <3>4, <4>1
      <4> QED BY <4>2, Zenon DEF AtHeader
    <3>6. chunk_'.buffer = SubSeq(wire', HeadEnd(i)' + chunk_'.parsed + 1,
                                  Given(i, 0)')
          /\ HeadEnd(i)' + chunk_'.parsed <= Given(i, 0)'
      <4> DEFINE h == HeadEnd(i)
      <4>1. HeadEnd(i)' = HeadEnd(i) /\ wire' = wire
        BY <1>1, SamePeer
      <4> HIDE DEF h
      <4>2. SubSeq(wire, h + 0 + 1, h) = <<>> /\ h + 0 <= h
        <5>1. h \in Nat /\ wire \in Seq(Tokens)
          BY <2>3, AvailableIs DEF h
        <5> QED BY <5>1
      <4> QED BY <3>1, <3>2, <4>1, <4>2, Zenon DEF h
    <3>7. Announces(i)' = Announces(i) /\ pc' # "chunk"
      BY <1>1, <2>2, SamePeer
    <3> QED BY <3>1, <3>5, <3>6, <3>7, Zenon DEF InChunks, AtItem
  <2>7. /\ Waiting(i)' /\ complete_' = Whole(i - 1)' /\ Count' = Count
        /\ Msg(i)' = Msg(i) /\ Readable(i)' = Readable(i) /\ Rule(i)' = Rule(i)
        /\ BodyRead(i, 0, "BODY_PENDING")' = BodyRead(i, 0, "BODY_PENDING")
    BY <1>1, <1>4, SamePeer, SameWaiting
  <2>8. pc' # "rest" /\ pc' # "chunk" /\ ~eof'
    BY <1>1, <1>4, <2>2
  <2>9. InBody(i, 0)'
    BY <1>4, <1>11, <2>2, <2>3, <2>4, <2>5, <2>6, <2>7, <2>8, Zenon DEF InBody
  <2> QED BY <1>9, <2>9 DEF Parsing
<1> QED BY <1>8, <1>10, <1>11
-----------------------------------------------------------------------------
(* The steps in a body.                                                    *)

\* A part of a body is a part of the wire.
LEMMA BodyOnWire ==
  ASSUME PeerInv, NEW i \in 1..Count, NEW b \in 0..Len(Msg(i).body),
         NEW a \in 0..b
  PROVE  SubSeq(wire, HeadEnd(i) + a + 1, HeadEnd(i) + b)
           = SubSeq(Msg(i).body, a + 1, b)
<1> DEFINE h == HeadEnd(i)
           B == Msg(i).body
           l == Len(B)
           w == Len(wire)
           e == starts[i + 1]
<1>1. /\ h \in Nat /\ l \in Nat /\ e = h + l /\ e <= w /\ w \in Nat
      /\ B \in Seq(Tokens)
  BY Places
<1>2. wire \in Seq(Tokens)
  BY AvailableIs
<1>3. \A x \in 1..l : wire[h + x] = B[x]
  BY MessageLayout
<1> HIDE DEF h, l, e, B
<1>4. /\ h + b \in 0..w /\ h + a \in 0..(h + b) /\ b \in 0..l /\ a \in Nat
      /\ b \in Nat /\ (h + b) - (h + a) = b - a
  BY <1>1 DEF l, B
<1>5. \A T : \A v \in Seq(T) :
        \A p \in 0..Len(v) : \A c \in 0..p :
        /\ SubSeq(v, c + 1, p) \in Seq(T)
        /\ Len(SubSeq(v, c + 1, p)) = p - c
        /\ \A x \in 1..(p - c) : SubSeq(v, c + 1, p)[x] = v[c + x]
  BY Piece
<1> DEFINE s == SubSeq(wire, h + a + 1, h + b)
           t == SubSeq(B, a + 1, b)
<1>6. /\ s \in Seq(Tokens) /\ Len(s) = b - a
      /\ \A x \in 1..(b - a) : s[x] = wire[h + a + x]
  <2> DEFINE p == h + b
             c == h + a
  <2>1. p \in 0..Len(wire) /\ c \in 0..p /\ p - c = b - a
    BY <1>4 DEF w
  <2> HIDE DEF p, c
  <2>2. /\ SubSeq(wire, c + 1, p) \in Seq(Tokens)
        /\ Len(SubSeq(wire, c + 1, p)) = p - c
        /\ \A x \in 1..(p - c) : SubSeq(wire, c + 1, p)[x] = wire[c + x]
    BY <1>2, <1>5, <2>1
  <2> QED BY <2>1, <2>2, Zenon DEF p, c
<1>7. /\ t \in Seq(Tokens) /\ Len(t) = b - a
      /\ \A x \in 1..(b - a) : t[x] = B[a + x]
  BY <1>1, <1>4, <1>5 DEF l
<1>8. ASSUME NEW x \in 1..(b - a) PROVE s[x] = t[x]
  <2> DEFINE y == a + x
  <2>1. y \in 1..l /\ h + a + x = h + y
    BY <1>1, <1>4
  <2> HIDE DEF y, s, t
  <2>2. wire[h + y] = B[y]
    BY <1>3, <2>1
  <2>3. s[x] = wire[h + a + x] /\ t[x] = B[a + x]
    BY <1>6, <1>7
  <2> QED BY <2>1, <2>2, <2>3 DEF y
<1> HIDE DEF s, t
<1>9. s = t
  BY <1>6, <1>7, <1>8, SeqEqual
<1> QED BY <1>9, Zenon DEF s, t, h, B

\* What the body of a message has taken of the buffer.
LEMMA MoreBody ==
  ASSUME PeerInv, NEW i \in 1..Count, NEW n \in 0..Len(Msg(i).body),
         Unread(HeadEnd(i) + n),
         NEW k \in Nat, k <= Len(buffer_), n + k <= Len(Msg(i).body)
  PROVE  /\ SubSeq(Msg(i).body, 1, n) \o SubSeq(buffer_, 1, k)
              = SubSeq(Msg(i).body, 1, n + k)
         /\ SubSeq(buffer_, k + 1, Len(buffer_))
              = SubSeq(wire, (HeadEnd(i) + (n + k)) + 1, pos)
         /\ Len(buffer_) = pos - (HeadEnd(i) + n)
         /\ HeadEnd(i) + n <= pos /\ HeadEnd(i) + (n + k) <= pos
<1> DEFINE h == HeadEnd(i)
           B == Msg(i).body
           l == Len(B)
           b == buffer_
           c == h + n
           m == n + k
<1>1. /\ h \in Nat /\ l \in Nat /\ B \in Seq(Tokens)
  BY Places
<1>2. wire \in Seq(Tokens) /\ pos \in 0..Len(wire) /\ Len(wire) \in Nat
  BY AvailableIs
<1>3. c <= pos /\ b = SubSeq(wire, c + 1, pos)
  BY DEF Unread
<1>4. n \in 0..l /\ k \in Nat /\ k <= Len(b) /\ m <= l
  OBVIOUS
<1> HIDE DEF h, l, B, b
<1>5. /\ m \in 0..l /\ n \in 0..m /\ c \in 0..pos /\ n \in Nat /\ m \in Nat
      /\ pos \in Nat
  BY <1>1, <1>2, <1>3, <1>4
<1>6. Len(b) = pos - c
  <2>1. \A T : \A v \in Seq(T) :
          \A p \in 0..Len(v) : \A d \in 0..p :
          Len(SubSeq(v, d + 1, p)) = p - d
    BY Piece
  <2> HIDE DEF c
  <2> QED BY <1>2, <1>3, <1>5, <2>1
<1>7. k \in 0..(pos - c) /\ c + k = h + m /\ h + m <= pos
  BY <1>1, <1>4, <1>5, <1>6
<1>8. /\ SubSeq(b, k + 1, Len(b)) = SubSeq(wire, c + k + 1, pos)
      /\ SubSeq(b, 1, k) = SubSeq(wire, c + 1, c + k)
  <2>1. \A T : \A v \in Seq(T) :
          \A p \in 0..Len(v) : \A d \in 0..p :
        \A j \in 0..(p - d) : \A s : s = SubSeq(v, d + 1, p) =>
          /\ SubSeq(s, j + 1, Len(s)) = SubSeq(v, d + j + 1, p)
          /\ SubSeq(s, 1, j) = SubSeq(v, d + 1, d + j)
    BY PieceRest
  <2> HIDE DEF c
  <2> QED BY <1>2, <1>3, <1>5, <1>7, <2>1
<1>9. SubSeq(wire, c + 1, c + k) = SubSeq(B, n + 1, m)
  <2>1. SubSeq(wire, h + n + 1, h + m) = SubSeq(B, n + 1, m)
    BY <1>5, BodyOnWire DEF h, B, l
  <2> QED BY <1>7, <2>1
<1>10. SubSeq(B, 1, n) \o SubSeq(B, n + 1, m) = SubSeq(B, 1, m)
  <2>1. \A T : \A v \in Seq(T) :
          \A p \in 0..Len(v) : \A q \in 0..p : \A d \in 0..q :
          SubSeq(v, d + 1, q) \o SubSeq(v, q + 1, p) = SubSeq(v, d + 1, p)
    BY PieceMore
  <2> DEFINE z == 0
  <2>2. z \in 0..n /\ z + 1 = 1
    BY <1>5
  <2> HIDE DEF z, m
  <2>3. SubSeq(B, z + 1, n) \o SubSeq(B, n + 1, m) = SubSeq(B, z + 1, m)
    BY <1>1, <1>5, <2>1, <2>2 DEF l
  <2> QED BY <2>2, <2>3
<1>11. SubSeq(B, 1, n) \o SubSeq(b, 1, k) = SubSeq(B, 1, m)
  BY <1>8, <1>9, <1>10
<1>12. SubSeq(b, k + 1, Len(b)) = SubSeq(wire, (h + m) + 1, pos)
  BY <1>7, <1>8
<1> QED BY <1>3, <1>6, <1>7, <1>11, <1>12, Zenon DEF h, B, b, c, m

\* A body and a state are set.
MessageOf(st, f, hs, u, kn, ex, pa, r) ==
  [state |-> st, first_line |-> f, headers |-> hs, body |-> u, known |-> kn,
   expected |-> ex, parser |-> pa, request |-> r]

SetBody(m, v) == [m EXCEPT !.body = v]
SetState(m, t) == [m EXCEPT !.state = t]

LEMMA BodySet ==
  ASSUME NEW s, NEW f, NEW hs, NEW u, NEW kn, NEW ex, NEW pa, NEW r,
         NEW v, NEW t
  PROVE  /\ SetBody(MessageOf(s, f, hs, u, kn, ex, pa, r), v)
              = MessageOf(s, f, hs, v, kn, ex, pa, r)
         /\ SetState(MessageOf(s, f, hs, u, kn, ex, pa, r), t)
              = MessageOf(t, f, hs, u, kn, ex, pa, r)
<1>1. SetBody(MessageOf(s, f, hs, u, kn, ex, pa, r), v)
        = MessageOf(s, f, hs, v, kn, ex, pa, r)
  BY DEF MessageOf, SetBody
<1>2. SetState(MessageOf(s, f, hs, u, kn, ex, pa, r), t)
        = MessageOf(t, f, hs, u, kn, ex, pa, r)
  BY DEF MessageOf, SetState
<1> QED BY <1>1, <1>2

\* read_in_body of parsing_step takes k bytes.
LEMMA TakesBody ==
  ASSUME PeerInv, NEW i \in 1..Count, NEW n \in 0..Len(Msg(i).body),
         Unread(HeadEnd(i) + n), message_ = BodyRead(i, n, "BODY_PENDING"),
         NEW k \in Nat, k <= Len(buffer_), n + k <= Len(Msg(i).body),
         NEW done \in BOOLEAN, TakeInBody(k, done), UNCHANGED Peer, pos' = pos
  PROVE  /\ message_' = BodyRead(i, n + k,
                                 IF done THEN "COMPLETE" ELSE "BODY_PENDING")'
         /\ Unread(HeadEnd(i) + (n + k))'
         /\ pc' = IF ~done /\ k # Len(buffer_) THEN "abort"
                  ELSE IF done THEN "parse" ELSE "rest"
<1>1. /\ SubSeq(Msg(i).body, 1, n) \o SubSeq(buffer_, 1, k)
           = SubSeq(Msg(i).body, 1, n + k)
      /\ SubSeq(buffer_, k + 1, Len(buffer_))
           = SubSeq(wire, (HeadEnd(i) + (n + k)) + 1, pos)
      /\ HeadEnd(i) + (n + k) <= pos
  BY MoreBody
<1>2. /\ message_' = [message_ EXCEPT
                        !.body = @ \o SubSeq(buffer_, 1, k),
                        !.state = IF done THEN "COMPLETE" ELSE @]
      /\ buffer_' = SubSeq(buffer_, k + 1, Len(buffer_))
      /\ pc' = IF ~done /\ k # Len(buffer_) THEN "abort"
               ELSE IF done THEN "parse" ELSE "rest"
  BY Zenon DEF TakeInBody, pop_bytes
<1>3. Unread(HeadEnd(i) + (n + k))'
  <2>1. HeadEnd(i)' = HeadEnd(i) /\ wire' = wire
    BY SamePeer
  <2> QED BY <1>1, <1>2, <2>1, Zenon DEF Unread
<1> DEFINE st == IF done THEN "COMPLETE" ELSE "BODY_PENDING"
<1>4. message_' = BodyRead(i, n + k, st)
  <2> DEFINE f == Msg(i).first_line
             hs == WholeHead(script, i).headers
             kn == Rule(i).ends = "length"
             ex == Rule(i).size
             pa == IF Rule(i).ends \in {"chunked", "close"} THEN Rule(i).ends
                   ELSE "none"
             r == WholeHead(script, i).request
             B == Msg(i).body
             s0 == "BODY_PENDING"
             v == SubSeq(B, 1, n + k)
             u == SubSeq(B, 1, n)
             of(s, x) == MessageOf(s, f, hs, x, kn, ex, pa, r)
             t == SubSeq(buffer_, 1, k)
  <2>1. message_ = of(s0, u) /\ BodyRead(i, n + k, st) = of(st, v)
    BY Zenon DEF BodyRead, MessageOf
  <2>2. st = IF done THEN "COMPLETE" ELSE s0
    OBVIOUS
  <2>3. u \o t = v
    BY <1>1
  <2>4. message_' = [message_ EXCEPT !.body = @ \o t,
                                     !.state = IF done THEN "COMPLETE" ELSE @]
    BY <1>2
  <2> HIDE DEF f, hs, kn, ex, pa, r, B, s0, v, u, t, st
  <2>5. message_.body = u /\ message_.state = s0
    BY <2>1 DEF MessageOf
  <2>6. message_' = [message_ EXCEPT !.body = v, !.state = st]
    BY <2>2, <2>3, <2>4, <2>5
  <2>7. message_' = SetState(SetBody(message_, v), st)
    BY <2>6, Zenon DEF SetState, SetBody
  <2>8. SetBody(of(s0, u), v) = of(s0, v) /\ SetState(of(s0, v), st) = of(st, v)
    BY BodySet
  <2> HIDE DEF of
  <2> QED BY <2>1, <2>7, <2>8, Zenon
<1>5. BodyRead(i, n + k, st)' = BodyRead(i, n + k, st)
  BY SamePeer
<1> QED BY <1>2, <1>3, <1>4, <1>5, Zenon

\* Where a message in progress is whose body has not ended.
LEMMA InBodyWhere ==
  ASSUME PeerInv, NEW i \in Nat, Due(i), NEW n \in Nat, InBody(i, n)
  PROVE  /\ i \in 1..Count /\ i <= Count /\ n \in 0..Len(Msg(i).body)
         /\ Readable(i)
         /\ message_ = BodyRead(i, n, "BODY_PENDING")
         /\ complete_ = Whole(i - 1)
         /\ Unread(HeadEnd(i) + n) /\ Waiting(i)
         /\ Rule(i).ends = "chunked" => InChunks(i, n)
         /\ ~eof /\ HeadEnd(i) \in Nat /\ Len(Msg(i).body) \in Nat
         /\ starts[i + 1] = HeadEnd(i) + Len(Msg(i).body)
         /\ starts[i + 1] \in Nat
         /\ Len(buffer_) = pos - (HeadEnd(i) + n)
         /\ Len(buffer_) \in Nat /\ pos \in Nat
         /\ HeadEnd(i) + n <= pos
         /\ script \in Scripts
<1>1. /\ i <= Count /\ n \in 0..Len(Msg(i).body) /\ Readable(i)
      /\ message_ = BodyRead(i, n, "BODY_PENDING") /\ complete_ = Whole(i - 1)
      /\ Unread(HeadEnd(i) + n) /\ Waiting(i)
      /\ Rule(i).ends = "chunked" => InChunks(i, n)
      /\ ~eof
  BY DEF InBody
<1>2. i \in 1..Count /\ script \in Scripts
  BY <1>1, DueIndex DEF PeerInv
<1>3. /\ HeadEnd(i) \in Nat /\ Len(Msg(i).body) \in Nat
      /\ starts[i + 1] = HeadEnd(i) + Len(Msg(i).body)
      /\ starts[i + 1] \in Nat
  BY <1>2, Places
<1>4. buffer_ = SubSeq(wire, (HeadEnd(i) + n) + 1, pos) /\ HeadEnd(i) + n <= pos
  BY <1>1 DEF Unread
<1>5. wire \in Seq(Tokens) /\ pos \in 0..Len(wire) /\ Len(wire) \in Nat
  BY AvailableIs
<1> DEFINE c == HeadEnd(i) + n
<1>6. c \in 0..pos
  BY <1>3, <1>4, <1>5
<1>7. Len(buffer_) = pos - c
  <2>1. \A T : \A v \in Seq(T) :
          \A p \in 0..Len(v) : \A d \in 0..p :
          Len(SubSeq(v, d + 1, p)) = p - d
    BY Piece
  <2> HIDE DEF c
  <2> QED BY <1>4, <1>5, <1>6, <2>1 DEF c
<1>8. pos \in Nat
  BY <1>5
<1>9. Len(buffer_) \in Nat
  <2> HIDE DEF c
  <2> QED BY <1>6, <1>7, <1>8
<1> QED BY <1>1, <1>2, <1>3, <1>4, <1>7, <1>8, <1>9

\* A body whose size is known.
LEMMA ReadInBodyStep ==
  ASSUME PeerInv, NEW i \in Nat, Due(i), Parsing(i), read_in_body
  PROVE  (Due(i) /\ Parsing(i))'
<1> DEFINE missing == message_.expected - Len(message_.body)
           amount == IF missing < Len(buffer_) THEN missing ELSE Len(buffer_)
<1>1. /\ pc = "parse" /\ message_.state = "BODY_PENDING" /\ message_.known
      /\ TakeInBody(amount, amount = missing)
      /\ UNCHANGED Peer
      /\ pos' = pos /\ arrived' = arrived /\ eof' = eof
      /\ chunk_' = chunk_ /\ complete_' = complete_ /\ requests_' = requests_
  BY DEF read_in_body, Outside
<1>2. PICK n \in Nat : InBody(i, n)
  BY <1>1, Phases
<1>3. /\ i \in 1..Count /\ i <= Count /\ n \in 0..Len(Msg(i).body)
      /\ Readable(i)
      /\ message_ = BodyRead(i, n, "BODY_PENDING") /\ complete_ = Whole(i - 1)
      /\ Unread(HeadEnd(i) + n) /\ Waiting(i)
      /\ ~eof /\ HeadEnd(i) \in Nat /\ Len(Msg(i).body) \in Nat
      /\ starts[i + 1] = HeadEnd(i) + Len(Msg(i).body)
      /\ Len(buffer_) = pos - (HeadEnd(i) + n)
      /\ Len(buffer_) \in Nat /\ pos \in Nat
      /\ script \in Scripts
  BY <1>2, InBodyWhere
<1>4. Rule(i).ends = "length" /\ Msg(i).ends = "length"
      /\ Rule(i).size = Len(Msg(i).body)
  <2>1. message_.known = (Rule(i).ends = "length")
    BY <1>3 DEF BodyRead
  <2>2. Rule(i).ends = "length"
    BY <1>1, <2>1
  <2> QED BY <1>3, <2>2, ReadableEnds
<1> DEFINE l == Len(Msg(i).body)
           L == Len(buffer_)
<1>5. missing = l - n
  <2>1. /\ message_.expected = Rule(i).size
        /\ message_.body = SubSeq(Msg(i).body, 1, n)
    BY <1>3 DEF BodyRead
  <2>2. Len(SubSeq(Msg(i).body, 1, n)) = n
    <3> DEFINE B == Msg(i).body
    <3>1. B \in Seq(Tokens)
      BY <1>3, Places
    <3> HIDE DEF B
    <3> QED BY <1>3, <3>1 DEF B
  <2> QED BY <1>4, <2>1, <2>2
<1> HIDE DEF l, L, missing
<1>6. n \in 0..l /\ l \in Nat /\ L \in Nat
  BY <1>3 DEF l, L
<1> DEFINE a == IF missing < L THEN missing ELSE L
<1>7. /\ a \in Nat /\ a <= L /\ n + a <= l /\ missing = l - n
      /\ a # missing => a = L /\ n + a < l
      /\ a = missing => n + a = l
  BY <1>5, <1>6
<1> DEFINE full == a = missing
<1>8. PICK k \in Nat, done \in BOOLEAN :
        k = a /\ (done <=> full) /\ TakeInBody(k, done)
  <2>1. TakeInBody(a, full) /\ full \in BOOLEAN /\ a \in Nat
    BY <1>1, <1>7 DEF L
  <2> HIDE DEF a, full
  <2> QED BY <2>1
<1> HIDE DEF a, full
<1>9. k \in Nat /\ k <= Len(buffer_) /\ n + k <= Len(Msg(i).body)
  BY <1>7, <1>8 DEF l, L
<1>10. /\ message_' = BodyRead(i, n + k,
                              IF done THEN "COMPLETE" ELSE "BODY_PENDING")'
       /\ Unread(HeadEnd(i) + (n + k))'
       /\ pc' = IF ~done /\ k # Len(buffer_) THEN "abort"
                ELSE IF done THEN "parse" ELSE "rest"
  BY <1>1, <1>3, <1>8, <1>9, TakesBody
<1>11. /\ Due(i)' /\ Waiting(i)' /\ complete_' = Whole(i - 1)' /\ Count' = Count
       /\ Msg(i)' = Msg(i) /\ Readable(i)' = Readable(i) /\ Rule(i)' = Rule(i)
       /\ HeadEnd(i)' = HeadEnd(i) /\ starts' = starts
  BY <1>1, <1>3, SamePeer, SameWaiting
<1>12. CASE done
  <2>1. n + k = Len(Msg(i).body)
    BY <1>7, <1>8, <1>12 DEF full, l
  <2>2. message_' = BodyRead(i, Len(Msg(i).body), "COMPLETE")'
    BY <1>10, <1>11, <1>12, <2>1, Zenon
  <2>3. Unread(starts[i + 1])'
    BY <1>3, <1>10, <1>11, <2>1, Zenon
  <2>4. pc' = "parse" /\ ~eof'
    BY <1>1, <1>3, <1>10, <1>12
  <2>5. AtEnd(i)'
    BY <1>3, <1>4, <1>11, <2>2, <2>3, <2>4 DEF AtEnd
  <2> QED BY <1>11, <2>5 DEF Parsing
<1>13. CASE ~done
  <2>1. k = Len(buffer_) /\ n + k < Len(Msg(i).body)
    BY <1>7, <1>8, <1>13 DEF full, l, L
  <2>2. /\ pc' = "rest" /\ message_' = BodyRead(i, n + k, "BODY_PENDING")'
        /\ ~eof'
    BY <1>1, <1>3, <1>10, <1>13, <2>1
  <2>3. n + k \in 0..Len(Msg(i).body) /\ n + k \in Nat
    BY <1>3, <1>9, <2>1
  <2>4. buffer_' = <<>>
    <3>1. buffer_' = SubSeq(buffer_, k + 1, Len(buffer_))
      BY <1>8, Zenon DEF TakeInBody, pop_bytes
    <3>2. Len(buffer_) \in Nat
      BY <1>3
    <3> QED BY <2>1, <3>1, <3>2
  <2>5. pc' # "chunk" /\ Rule(i)'.ends # "chunked"
    BY <1>4, <1>11, <2>2
  <2>6. InBody(i, n + k)'
    <3> DEFINE N == n + k
    <3>1. N \in 0..Len(Msg(i).body) /\ N < Len(Msg(i).body)
      BY <2>1, <2>3
    <3> HIDE DEF N
    <3>2. message_' = BodyRead(i, N, "BODY_PENDING")' /\ Unread(HeadEnd(i) + N)'
      BY <1>10, <2>2 DEF N
    <3>3. InBody(i, N)'
      BY <1>3, <1>11, <2>2, <2>4, <2>5, <3>1, <3>2 DEF InBody
    <3> QED BY <3>3 DEF N
  <2> QED BY <1>11, <2>3, <2>6 DEF Parsing
<1> QED BY <1>12, <1>13

\* All of the buffer is taken, and more is needed.
LEMMA TakesAll ==
  ASSUME PeerInv, NEW i \in Nat, Due(i), NEW n \in Nat, InBody(i, n),
         TakeInBody(Len(buffer_), FALSE), UNCHANGED Peer, pos' = pos,
         arrived' = arrived, eof' = eof, complete_' = complete_,
         requests_' = requests_, pos <= starts[i + 1],
         Msg(i).ends # "length", NEW m \in Nat, HeadEnd(i) + m = pos,
         Rule(i).ends = "chunked" => InChunks(i, m)'
  PROVE  InBody(i, m)' /\ pc' = "rest"
<1>1. /\ i \in 1..Count /\ i <= Count /\ n \in 0..Len(Msg(i).body)
      /\ Readable(i)
      /\ message_ = BodyRead(i, n, "BODY_PENDING") /\ complete_ = Whole(i - 1)
      /\ Unread(HeadEnd(i) + n) /\ Waiting(i)
      /\ ~eof /\ HeadEnd(i) \in Nat /\ Len(Msg(i).body) \in Nat
      /\ starts[i + 1] = HeadEnd(i) + Len(Msg(i).body)
      /\ Len(buffer_) = pos - (HeadEnd(i) + n)
      /\ Len(buffer_) \in Nat /\ pos \in Nat
  BY InBodyWhere
<1>2. n + Len(buffer_) = m /\ m \in 0..Len(Msg(i).body)
  <2> DEFINE h == HeadEnd(i)
             l == Len(Msg(i).body)
             b == Len(buffer_)
             e == starts[i + 1]
  <2>1. /\ h \in Nat /\ l \in Nat /\ e = h + l /\ b = pos - (h + n) /\ b \in Nat
        /\ pos \in Nat /\ h + m = pos /\ pos <= e
    BY <1>1
  <2> HIDE DEF h, l, b, e
  <2>2. n + b = m /\ m \in 0..l
    BY <2>1
  <2> QED BY <2>2 DEF b, l
<1>3. PICK k \in Nat : k = Len(buffer_)
  BY <1>1
<1>4. k <= Len(buffer_) /\ n + k <= Len(Msg(i).body) /\ n + k = m
  <2>1. k <= Len(buffer_) /\ n + k = m
    BY <1>2, <1>3
  <2>2. m <= Len(Msg(i).body)
    BY <1>2
  <2> QED BY <2>1, <2>2
<1>5. TakeInBody(k, FALSE)
  BY <1>3
<1>6. PICK done \in BOOLEAN : done = FALSE
  OBVIOUS
<1>7. TakeInBody(k, done)
  BY <1>5, <1>6
<1>8. /\ message_' = BodyRead(i, n + k,
                              IF done THEN "COMPLETE" ELSE "BODY_PENDING")'
      /\ Unread(HeadEnd(i) + (n + k))'
      /\ pc' = IF ~done /\ k # Len(buffer_) THEN "abort"
               ELSE IF done THEN "parse" ELSE "rest"
  <2>1. /\ n \in 0..Len(Msg(i).body) /\ Unread(HeadEnd(i) + n)
        /\ message_ = BodyRead(i, n, "BODY_PENDING") /\ i \in 1..Count
    BY <1>1
  <2>2. k <= Len(buffer_) /\ n + k <= Len(Msg(i).body)
    BY <1>4
  <2>3. pos' = pos /\ UNCHANGED Peer
    OBVIOUS
  <2> QED BY <1>7, <2>1, <2>2, <2>3, TakesBody
<1>9. /\ message_' = BodyRead(i, m, "BODY_PENDING")'
      /\ Unread(HeadEnd(i) + m)' /\ pc' = "rest"
  BY <1>3, <1>4, <1>6, <1>8
<1>10. /\ Waiting(i)' /\ complete_' = Whole(i - 1)' /\ Count' = Count
       /\ Msg(i)' = Msg(i) /\ Readable(i)' = Readable(i) /\ Rule(i)' = Rule(i)
  BY <1>1, SamePeer, SameWaiting
<1>11. buffer_' = <<>>
  <2>1. buffer_' = SubSeq(buffer_, Len(buffer_) + 1, Len(buffer_))
    BY Zenon DEF TakeInBody, pop_bytes
  <2> QED BY <1>1, <2>1
<1>12. Msg(i)'.ends # "length" /\ pc' # "chunk" /\ ~eof'
  BY <1>1, <1>9, <1>10
<1>13. InBody(i, m)'
  BY <1>1, <1>2, <1>9, <1>10, <1>11, <1>12, Zenon DEF InBody
<1> QED BY <1>9, <1>13

\* A body that ends with the connection.
LEMMA Rule5ReadStep ==
  ASSUME PeerInv, NEW i \in Nat, Due(i), Parsing(i), Rule5Read
  PROVE  (Due(i) /\ Parsing(i))'
<1>1. /\ pc = "parse" /\ message_.state = "BODY_PENDING"
      /\ message_.parser = "close"
      /\ TakeInBody(Len(buffer_), FALSE) /\ UNCHANGED Peer
      /\ pos' = pos /\ arrived' = arrived /\ eof' = eof
      /\ chunk_' = chunk_ /\ complete_' = complete_ /\ requests_' = requests_
  BY DEF Rule5Read, Outside
<1>2. PICK n \in Nat : InBody(i, n)
  BY <1>1, Phases
<1>3. /\ i \in 1..Count /\ Readable(i)
      /\ message_ = BodyRead(i, n, "BODY_PENDING")
      /\ HeadEnd(i) \in Nat /\ HeadEnd(i) + n <= pos /\ pos \in Nat
      /\ script \in Scripts
  BY <1>2, InBodyWhere
<1>4. /\ Rule(i).ends \in {"length", "chunked", "close"}
      /\ Rule(i).ends = "close" <=> Msg(i).ends = "close"
      /\ Rule(i).ends = "close" => i = Count
  BY <1>3, ReadableEnds
<1>5. Rule(i).ends = "close"
  <2>1. message_.parser = IF Rule(i).ends \in {"chunked", "close"}
                          THEN Rule(i).ends ELSE "none"
    BY <1>3 DEF BodyRead
  <2> QED BY <1>1, <1>4, <2>1
<1>6. pos <= starts[i + 1]
  <2>1. starts[Count + 1] = Len(wire)
    BY WireLayout
  <2>2. pos \in 0..Len(wire) /\ Len(wire) \in Nat
    BY AvailableIs
  <2> QED BY <1>4, <1>5, <2>1, <2>2
<1>7. PICK m \in Nat : HeadEnd(i) + m = pos
  <2>1. pos - HeadEnd(i) \in Nat /\ HeadEnd(i) + (pos - HeadEnd(i)) = pos
    BY <1>3
  <2> QED BY <2>1
<1>8. Msg(i).ends # "length" /\ (Rule(i).ends = "chunked" => InChunks(i, m)')
  BY <1>4, <1>5
<1>9. InBody(i, m)'
  BY <1>1, <1>2, <1>6, <1>7, <1>8, TakesAll
<1>10. Due(i)'
  BY <1>1, SamePeer
<1> QED BY <1>9, <1>10 DEF Parsing

\* The parser of a chunked body is given what has been read.
LEMMA ChunkedReadStep ==
  ASSUME PeerInv, chunk_ \in Parsers, NEW i \in Nat, Due(i), Parsing(i),
         ChunkedRead
  PROVE  (Due(i) /\ Parsing(i))'
<1>1. /\ pc = "parse" /\ message_.state = "BODY_PENDING"
      /\ message_.parser = "chunked" /\ pc' = "chunk"
      /\ chunk_' = [chunk_ EXCEPT !.buffer = @ \o buffer_,
                                  !.input = Len(buffer_)]
      /\ UNCHANGED Peer
      /\ pos' = pos /\ arrived' = arrived /\ eof' = eof /\ buffer_' = buffer_
      /\ message_' = message_ /\ complete_' = complete_
      /\ requests_' = requests_
  BY DEF ChunkedRead, Outside
<1>2. PICK n \in Nat : InBody(i, n)
  BY <1>1, Phases
<1>3. /\ i \in 1..Count /\ i <= Count /\ n \in 0..Len(Msg(i).body)
      /\ Readable(i)
      /\ message_ = BodyRead(i, n, "BODY_PENDING") /\ complete_ = Whole(i - 1)
      /\ Unread(HeadEnd(i) + n) /\ Waiting(i)
      /\ Rule(i).ends = "chunked" => InChunks(i, n)
      /\ ~eof /\ HeadEnd(i) \in Nat
      /\ HeadEnd(i) + n <= pos /\ pos \in Nat
      /\ script \in Scripts
  BY <1>2, InBodyWhere
<1>4. Rule(i).ends = "chunked"
  <2>1. message_.parser = IF Rule(i).ends \in {"chunked", "close"}
                          THEN Rule(i).ends ELSE "none"
    BY <1>3 DEF BodyRead
  <2> QED BY <1>1, <2>1
<1> DEFINE h == HeadEnd(i)
           p == chunk_.parsed
<1>5. /\ chunk_'.trailers = chunk_.trailers /\ chunk_'.acked = chunk_.acked
      /\ chunk_'.parsed = chunk_.parsed /\ chunk_'.state = chunk_.state
      /\ chunk_'.size = chunk_.size /\ chunk_'.input = Len(buffer_)
      /\ chunk_'.buffer = chunk_.buffer \o buffer_
  BY <1>1 DEF Parsers
<1>6. InChunks(i, n)
  BY <1>3, <1>4
<1>7. Given(i, n) = h + n /\ Given(i, n)' = pos
  BY <1>1 DEF Given
<1>8. /\ chunk_.buffer = SubSeq(wire, h + p + 1, h + n) /\ h + p <= h + n
      /\ chunk_.trailers = Announces(i) /\ chunk_.acked = n
  BY <1>6, <1>7 DEF InChunks
<1>9. p \in Nat
  BY DEF Parsers
<1>10. chunk_'.buffer = SubSeq(wire, h + p + 1, pos) /\ h + p <= pos
  <2>1. buffer_ = SubSeq(wire, (h + n) + 1, pos)
    BY <1>3 DEF Unread
  <2>2. wire \in Seq(Tokens) /\ pos \in 0..Len(wire)
    BY AvailableIs
  <2>3. \A T : \A v \in Seq(T) :
          \A a \in 0..Len(v) : \A q \in 0..a : \A d \in 0..q :
          SubSeq(v, d + 1, q) \o SubSeq(v, q + 1, a) = SubSeq(v, d + 1, a)
    BY PieceMore
  <2> DEFINE q == h + n
             d == h + p
  <2> HIDE DEF h, p
  <2>4. q \in 0..pos /\ d \in 0..q
    BY <1>3, <1>8, <1>9 DEF h
  <2> HIDE DEF q, d
  <2>5. SubSeq(wire, d + 1, q) \o SubSeq(wire, q + 1, pos)
          = SubSeq(wire, d + 1, pos)
    BY <2>2, <2>3, <2>4
  <2>6. chunk_'.buffer = SubSeq(wire, d + 1, pos)
    BY <1>5, <1>8, <2>1, <2>5 DEF q, d, h
  <2>7. d <= pos
    BY <1>3, <2>4
  <2> QED BY <2>6, <2>7 DEF d
<1>11. AtItem(i, n)' <=> AtItem(i, n)
  BY <1>1, <1>5, SameItem
<1>12. /\ HeadEnd(i)' = h /\ wire' = wire /\ Announces(i)' = Announces(i)
       /\ Msg(i)' = Msg(i) /\ Rule(i)' = Rule(i) /\ Count' = Count /\ Due(i)'
       /\ Readable(i)' = Readable(i) /\ Waiting(i)' /\ Unread(HeadEnd(i) + n)'
       /\ complete_' = Whole(i - 1)'
       /\ message_' = BodyRead(i, n, "BODY_PENDING")'
  BY <1>1, <1>3, SamePeer, SameRead, SameWaiting
<1>13. InChunks(i, n)'
  <2>2. AtItem(i, n)'
    BY <1>6, <1>11 DEF InChunks
  <2>3. /\ chunk_'.trailers = Announces(i)' /\ chunk_'.acked = n
        /\ HeadEnd(i)' + chunk_'.parsed <= Given(i, n)'
        /\ chunk_'.buffer = SubSeq(wire', HeadEnd(i)' + chunk_'.parsed + 1,
                                   Given(i, n)')
        /\ chunk_'.input = Len(buffer_')
    <3> HIDE DEF h
    <3> QED BY <1>1, <1>5, <1>7, <1>8, <1>10, <1>12, Zenon
  <2> QED BY <2>2, <2>3 DEF InChunks
<1>14. pc' = "chunk" /\ pc' # "rest" /\ ~eof' /\ Rule(i)'.ends = "chunked"
  BY <1>1, <1>3, <1>4, <1>12
<1>15. InBody(i, n)'
  BY <1>3, <1>12, <1>13, <1>14, Zenon DEF InBody
<1> QED BY <1>12, <1>15 DEF Parsing

\* A request that arrives waits behind the others.
LEMMA MoreWaiting ==
  ASSUME PeerInv, new_request_arrived, NEW n \in Nat, n <= arrived, Waiting(n)
  PROVE  Waiting(n)'
<1> DEFINE R == script.requests
           a == arrived
           k == a + 1
<1>1. /\ script.kind = "response" /\ a < Len(R) /\ arrived' = k
      /\ requests_' = Append(requests_, R[k]) /\ script' = script
  BY DEF new_request_arrived, Peer
<1>2. R \in Seq(String) /\ Len(R) \in Nat /\ a \in 0..Len(R)
  BY ScriptType DEF PeerInv
<1>3. requests_ = SubSeq(R, n + 1, a)
  BY <1>1 DEF Waiting
<1> HIDE DEF R
<1>4. /\ k \in 0..Len(R) /\ a \in 0..k /\ n \in 0..a /\ k \in 1..Len(R)
      /\ a \in Nat
  BY <1>1, <1>2
<1> HIDE DEF a
<1>5. SubSeq(R, n + 1, a) \o SubSeq(R, k, k) = SubSeq(R, n + 1, k)
  <2>1. \A T : \A v \in Seq(T) :
          \A p \in 0..Len(v) : \A q \in 0..p : \A d \in 0..q :
          SubSeq(v, d + 1, q) \o SubSeq(v, q + 1, p) = SubSeq(v, d + 1, p)
    BY PieceMore
  <2> DEFINE p == k
  <2>2. p \in 0..Len(R) /\ a \in 0..p
    BY <1>4
  <2> HIDE DEF p
  <2>3. SubSeq(R, n + 1, a) \o SubSeq(R, a + 1, p) = SubSeq(R, n + 1, p)
    BY <1>2, <1>4, <2>1, <2>2
  <2> QED BY <2>3 DEF p
<1> HIDE DEF k
<1>6. SubSeq(R, k, k) = <<R[k]>>
  <2>1. SubSeq(R, k, k) \in Seq(String) /\ Len(SubSeq(R, k, k)) = 1
        /\ SubSeq(R, k, k)[1] = R[k]
    BY <1>2, <1>4
  <2>2. <<R[k]>> \in Seq(String) /\ Len(<<R[k]>>) = 1 /\ <<R[k]>>[1] = R[k]
    BY <1>2, <1>4
  <2> DEFINE s == SubSeq(R, k, k)
             t == <<R[k]>>
  <2> HIDE DEF s, t
  <2>3. \A x \in 1..Len(s) : s[x] = t[x]
    BY <2>1, <2>2 DEF s, t
  <2>4. s = t
    BY <2>1, <2>2, <2>3, SeqEqual DEF s, t
  <2> QED BY <2>4 DEF s, t
<1>7. SubSeq(R, n + 1, a) \in Seq(String) /\ R[k] \in String
  BY <1>2, <1>4
<1>8. Append(requests_, R[k]) = requests_ \o <<R[k]>>
  <2> DEFINE s == SubSeq(R, n + 1, a)
             x == R[k]
  <2>1. s \in Seq(String) /\ x \in String
    BY <1>7
  <2> HIDE DEF s, x
  <2>2. Append(s, x) = s \o <<x>>
    BY <2>1, AppendIsConcat
  <2> QED BY <1>3, <2>2 DEF s, x
<1>9. requests_' = SubSeq(R, n + 1, k)
  BY <1>1, <1>3, <1>5, <1>6, <1>8, Zenon
<1>10. script.kind # "request"
  BY <1>1
<1> QED BY <1>1, <1>9, <1>10, Zenon DEF Waiting, R

\* A request is passed on.
LEMMA NewRequestStep ==
  ASSUME PeerInv, NEW i \in Nat, Due(i), Parsing(i), new_request_arrived
  PROVE  (Due(i) /\ Parsing(i))'
<1>1. /\ pc = "rest" /\ ~eof /\ script.kind = "response"
      /\ arrived < Len(script.requests) /\ UNCHANGED Peer
      /\ pos' = pos /\ eof' = eof /\ buffer_' = buffer_
      /\ message_' = message_ /\ chunk_' = chunk_ /\ complete_' = complete_
      /\ pc' = pc
  BY DEF new_request_arrived
<1>2. /\ i \in 1..(Count + 1) /\ Count \in Nat
      /\ i <= Count => i \in 1..Count
      /\ pos \in Nat /\ arrived \in Nat
  <2>1. pos \in 0..Len(wire) /\ Len(wire) \in Nat
    BY AvailableIs
  <2>2. arrived \in 0..Len(script.requests)
    BY DEF PeerInv
  <2>3. Len(script.requests) \in Nat
    BY ScriptType DEF PeerInv
  <2> QED BY <2>1, <2>2, <2>3, DueIndex
<1>3. starts[i] \in Nat
  BY <1>2, WireLayout
<1>4. CASE Between(i)
  <2>1. starts[i] <= pos /\ Waiting(i - 1)
    BY <1>4 DEF Between, Unread
  <2>2. i <= arrived + 1
    BY <1>1, <1>2, <2>1, Arrived
  <2>3. Waiting(i - 1)'
    <3>1. PICK k \in Nat : k = i - 1
      BY <1>2
    <3>2. k <= arrived
      BY <1>2, <2>2, <3>1
    <3> QED BY <2>1, <3>1, <3>2, MoreWaiting
  <2>4. Between(i)'
    BY <1>1, <1>4, <2>3, SamePeer, SameRead, Zenon DEF Between, NewMessage
  <2> QED BY <1>1, <2>4, SamePeer DEF Parsing
<1>5. ASSUME i <= Count, LineEnd(i) <= pos, Waiting(i)
      PROVE  Waiting(i)'
  <2>1. i \in 1..Count
    BY <1>2, <1>5
  <2>2. starts[i] < LineEnd(i) /\ LineEnd(i) \in Nat
    BY <2>1, Places
  <2>3. starts[i] <= pos
    BY <1>2, <1>3, <1>5, <2>2
  <2>4. i <= arrived
    BY <1>1, <1>2, <1>5, <2>3, Arrived
  <2> QED BY <1>5, <2>4, MoreWaiting
<1>6. ASSUME NEW n \in Nat, InHead(i, n) PROVE InHead(i, n)'
  <2>1. /\ i <= Count /\ n \in 0..Headers(i) /\ Waiting(i)
        /\ HeaderPos(i, n) <= pos
    BY <1>6 DEF InHead, Unread
  <2>2. LineEnd(i) <= HeaderPos(i, n) /\ LineEnd(i) \in Nat
        /\ HeaderPos(i, n) \in Nat
    BY <1>2, <2>1, Places
  <2>3. LineEnd(i) <= pos
    BY <1>2, <2>1, <2>2
  <2>4. Waiting(i)'
    BY <1>5, <2>1, <2>3
  <2> QED BY <1>1, <1>6, <2>4, SamePeer, SameRead, Zenon DEF InHead, HeadRead
<1>7. ASSUME NEW n \in Nat, InBody(i, n) PROVE InBody(i, n)'
  <2>1. i <= Count /\ Waiting(i) /\ HeadEnd(i) + n <= pos
    BY <1>7 DEF InBody, Unread
  <2>2. LineEnd(i) < HeadEnd(i) /\ LineEnd(i) \in Nat /\ HeadEnd(i) \in Nat
    BY <1>2, <2>1, Places
  <2>3. LineEnd(i) <= pos
    BY <1>2, <2>1, <2>2
  <2>4. Waiting(i)'
    BY <1>5, <2>1, <2>3
  <2>5. InChunks(i, n) => InChunks(i, n)'
    <3>1. Given(i, n)' = Given(i, n)
      BY <1>1, SamePeer DEF Given
    <3>2. AtItem(i, n)' <=> AtItem(i, n)
      BY <1>1, SameItem
    <3> QED BY <1>1, <3>1, <3>2, SamePeer, Zenon DEF InChunks
  <2> QED BY <1>1, <1>7, <2>4, <2>5, SamePeer, SameRead, Zenon DEF InBody
<1>8. ASSUME NEW n \in Nat, AfterEof(i, n) PROVE FALSE
  BY <1>1, <1>8 DEF AfterEof, CutShort
<1>9. Due(i)'
  BY <1>1, SamePeer
<1>10. \/ Between(i) \/ \E n \in Nat : InHead(i, n)
       \/ \E n \in Nat : InBody(i, n)
       \/ \E n \in Nat : AfterEof(i, n)
  BY <1>1, Phases
<1> QED BY <1>4, <1>6, <1>7, <1>8, <1>9, <1>10 DEF Parsing
-----------------------------------------------------------------------------
(* The steps of the parser of a chunked body.                              *)

\* Where what the parser is at lies in the body.
LEMMA ItemWhere ==
  ASSUME script \in Scripts, NEW i \in 1..Count, Readable(i),
         Rule(i).ends = "chunked", NEW n \in Nat, AtItem(i, n)
  PROVE  chunk_.parsed \in 0..Len(Msg(i).body)
<1>1. CASE AtHeader(i, n)
  <2>1. chunk_.parsed \in Msg(i).chunks
    BY <1>1 DEF AtHeader
  <2> DEFINE p == chunk_.parsed
  <2> HIDE DEF p
  <2>2. p \in 0..Len(Msg(i).body)
    BY <2>1, ChunkFacts DEF p
  <2> QED BY <2>2 DEF p
<1>2. ASSUME NEW c \in Msg(i).chunks, AtChunk(i, n, c) \/ AtTrailer(i, n, c)
      PROVE  chunk_.parsed \in 0..Len(Msg(i).body)
  <2>1. chunk_.parsed = SizeEnd(Msg(i).body, c)
    BY <1>2 DEF AtChunk, AtTrailer
  <2>2. SizeEnd(Msg(i).body, c) \in 0..Len(Msg(i).body)
    BY ChunkFacts
  <2> QED BY <2>1, <2>2
<1> QED BY <1>1, <1>2 DEF AtItem

\* What the parser of a chunked body has while it reads.
LEMMA InChunkWhere ==
  ASSUME PeerInv, chunk_ \in Parsers, NEW i \in Nat, Due(i),
         NEW n \in Nat, InBody(i, n), pc = "chunk"
  PROVE  /\ Rule(i).ends = "chunked" /\ Msg(i).ends \in {"chunked", "refused"}
         /\ AtItem(i, n)
         /\ chunk_.trailers = Announces(i) /\ chunk_.acked = n
         /\ chunk_.input = Len(buffer_)
         /\ chunk_.parsed \in 0..Len(Msg(i).body) /\ chunk_.parsed \in Nat
         /\ HeadEnd(i) + chunk_.parsed <= pos
         /\ chunk_.buffer = SubSeq(wire, HeadEnd(i) + chunk_.parsed + 1, pos)
         /\ chunk_.buffer \in Seq(Tokens)
         /\ Len(chunk_.buffer) = pos - (HeadEnd(i) + chunk_.parsed)
         /\ Len(chunk_.buffer) \in Nat
         /\ \A x \in 1..(Len(Msg(i).body) - chunk_.parsed) :
              x <= Len(chunk_.buffer) =>
                chunk_.buffer[x] = Msg(i).body[chunk_.parsed + x]
<1>1. /\ i \in 1..Count /\ Readable(i) /\ script \in Scripts
      /\ Rule(i).ends = "chunked" => InChunks(i, n)
      /\ HeadEnd(i) \in Nat /\ Len(Msg(i).body) \in Nat /\ pos \in Nat
  BY InBodyWhere
<1>2. Rule(i).ends = "chunked"
  BY DEF InBody
<1>3. InChunks(i, n)
  BY <1>1, <1>2
<1>4. Given(i, n) = pos
  BY DEF Given
<1>5. /\ chunk_.trailers = Announces(i) /\ chunk_.acked = n
      /\ HeadEnd(i) + chunk_.parsed <= pos
      /\ chunk_.buffer = SubSeq(wire, HeadEnd(i) + chunk_.parsed + 1, pos)
      /\ chunk_.input = Len(buffer_) /\ AtItem(i, n)
  BY <1>3, <1>4 DEF InChunks
<1>6. Msg(i).ends \in {"chunked", "refused"}
  BY <1>1, <1>2, ReadableEnds
<1>7. chunk_.parsed \in 0..Len(Msg(i).body)
  BY <1>1, <1>2, <1>5, ItemWhere
<1> DEFINE p == chunk_.parsed
           l == Len(Msg(i).body)
           h == HeadEnd(i)
           b == chunk_.buffer
           c == h + p
<1>8. wire \in Seq(Tokens) /\ pos \in 0..Len(wire) /\ Len(wire) \in Nat
  BY AvailableIs
<1>9. /\ h \in Nat /\ l \in Nat /\ p \in 0..l /\ p \in Nat /\ pos \in Nat
      /\ b = SubSeq(wire, c + 1, pos) /\ c <= pos
  BY <1>1, <1>5, <1>7
<1>10. \A x \in 1..l : wire[h + x] = Msg(i).body[x]
  BY <1>1, MessageLayout
<1> HIDE DEF p, l, h, b
<1>11. c \in 0..pos
  BY <1>9
<1>12. /\ b \in Seq(Tokens) /\ Len(b) = pos - c
       /\ \A x \in 1..(pos - c) : b[x] = wire[c + x]
  <2>1. \A T : \A v \in Seq(T) :
          \A q \in 0..Len(v) : \A d \in 0..q :
          /\ SubSeq(v, d + 1, q) \in Seq(T)
          /\ Len(SubSeq(v, d + 1, q)) = q - d
          /\ \A x \in 1..(q - d) : SubSeq(v, d + 1, q)[x] = v[d + x]
    BY Piece
  <2> HIDE DEF c
  <2> QED BY <1>8, <1>9, <1>11, <2>1
<1>13. Len(b) \in Nat
  BY <1>9, <1>11, <1>12
<1>14. ASSUME NEW x \in 1..(l - p), x <= Len(b)
       PROVE  b[x] = Msg(i).body[p + x]
  <2> DEFINE y == p + x
  <2>1. x \in 1..(pos - c) /\ y \in 1..l /\ c + x = h + y
    BY <1>9, <1>11, <1>12, <1>14
  <2> HIDE DEF y, c
  <2>2. b[x] = wire[c + x] /\ wire[h + y] = Msg(i).body[y]
    BY <1>10, <1>12, <2>1
  <2> QED BY <2>1, <2>2 DEF y
<1>15. Len(b) = pos - (h + p)
  BY <1>12
<1> QED BY <1>2, <1>5, <1>6, <1>7, <1>9, <1>12, <1>13, <1>14, <1>15
        DEF p, l, h, b

\* The parser takes all of its input, as what it is at has not ended yet.
LEMMA AckAllStep ==
  ASSUME PeerInv, chunk_ \in Parsers, NEW i \in Nat, Due(i),
         NEW n \in Nat, InBody(i, n), pc = "chunk", AckAll,
         UNCHANGED <<Outside, requests_, complete_>>,
         NEW m \in Nat, HeadEnd(i) + m = pos, AtItem(i, m)
  PROVE  (Due(i) /\ Parsing(i))'
<1>1. /\ UNCHANGED Peer /\ pos' = pos /\ arrived' = arrived /\ eof' = eof
      /\ complete_' = complete_ /\ requests_' = requests_
      /\ chunk_' = [chunk_ EXCEPT !.acked = @ + chunk_.input]
      /\ TakeInBody(chunk_.input, FALSE)
  BY DEF AckAll, Outside
<1>2. /\ i \in 1..Count /\ Readable(i) /\ script \in Scripts
      /\ HeadEnd(i) \in Nat /\ Len(Msg(i).body) \in Nat /\ pos \in Nat
      /\ starts[i + 1] = HeadEnd(i) + Len(Msg(i).body)
      /\ Len(buffer_) = pos - (HeadEnd(i) + n)
  BY InBodyWhere
<1>3. /\ Rule(i).ends = "chunked" /\ Msg(i).ends \in {"chunked", "refused"}
      /\ chunk_.trailers = Announces(i) /\ chunk_.acked = n
      /\ chunk_.input = Len(buffer_)
      /\ HeadEnd(i) + chunk_.parsed <= pos
      /\ chunk_.buffer = SubSeq(wire, HeadEnd(i) + chunk_.parsed + 1, pos)
  BY InChunkWhere
<1>4. m < Len(Msg(i).body)
  BY <1>2, <1>3, Unfinished
<1>5. pos <= starts[i + 1]
  BY <1>2, <1>4
<1>6. TakeInBody(Len(buffer_), FALSE)
  BY <1>1, <1>3
<1>7. pc' = "rest"
  <2>1. pc' = IF ~FALSE /\ Len(buffer_) # Len(buffer_) THEN "abort"
              ELSE IF FALSE THEN "parse" ELSE "rest"
    BY <1>6, Zenon DEF TakeInBody
  <2> QED BY <2>1
<1>8. /\ chunk_'.buffer = chunk_.buffer /\ chunk_'.size = chunk_.size
      /\ chunk_'.parsed = chunk_.parsed /\ chunk_'.state = chunk_.state
      /\ chunk_'.trailers = chunk_.trailers
      /\ chunk_'.acked = chunk_.acked + chunk_.input
  BY <1>1 DEF Parsers
<1>9. chunk_'.acked = m
  <2> DEFINE h == HeadEnd(i)
             b == Len(buffer_)
  <2>1. h \in Nat /\ b = pos - (h + n) /\ h + m = pos /\ chunk_'.acked = n + b
    BY <1>2, <1>3, <1>8
  <2> HIDE DEF h, b
  <2> QED BY <1>2, <2>1
<1>10. InChunks(i, m)'
  <2>1. /\ Announces(i)' = Announces(i) /\ HeadEnd(i)' = HeadEnd(i)
        /\ wire' = wire
    BY <1>1, SamePeer
  <2>2. AtItem(i, m)'
    BY <1>1, <1>8, SameItem
  <2>3. Given(i, m)' = pos
    BY <1>7, <2>1 DEF Given
  <2>4. /\ chunk_'.trailers = Announces(i)' /\ chunk_'.acked = m
        /\ HeadEnd(i)' + chunk_'.parsed <= Given(i, m)'
        /\ chunk_'.buffer = SubSeq(wire', HeadEnd(i)' + chunk_'.parsed + 1,
                                   Given(i, m)')
        /\ pc' # "chunk"
    BY <1>3, <1>7, <1>8, <1>9, <2>1, <2>3
  <2> QED BY <2>2, <2>4, Zenon DEF InChunks
<1>11. InBody(i, m)'
  BY <1>1, <1>3, <1>5, <1>6, <1>10, TakesAll
<1>12. Due(i)'
  BY <1>1, SamePeer
<1> QED BY <1>11, <1>12 DEF Parsing

\* The parser has parsed k bytes more, and goes on.
LEMMA ParsedStep ==
  ASSUME PeerInv, chunk_ \in Parsers, NEW i \in Nat, Due(i),
         NEW n \in Nat, InBody(i, n), pc = "chunk", pc' = pc,
         NEW k \in Nat, k <= Len(chunk_.buffer), NEW state, NEW size,
         Parsed(k, state, size), UNCHANGED <<Outside, requests_, complete_>>
  PROVE  /\ chunk_'.parsed = chunk_.parsed + k /\ chunk_'.state = state
         /\ chunk_'.size = size
         /\ AtItem(i, n)' => (Due(i) /\ Parsing(i))'
<1>1. /\ UNCHANGED Peer /\ pos' = pos /\ arrived' = arrived /\ eof' = eof
      /\ complete_' = complete_ /\ requests_' = requests_
      /\ buffer_' = buffer_ /\ message_' = message_
      /\ chunk_' = [chunk_ EXCEPT
                      !.buffer = SubSeq(@, k + 1, Len(@)), !.parsed = @ + k,
                      !.state = state, !.size = size]
  BY DEF Parsed, Outside
<1>2. /\ i \in 1..Count /\ i <= Count /\ Readable(i) /\ script \in Scripts
      /\ n \in 0..Len(Msg(i).body)
      /\ message_ = BodyRead(i, n, "BODY_PENDING") /\ complete_ = Whole(i - 1)
      /\ Unread(HeadEnd(i) + n) /\ Waiting(i)
      /\ ~eof /\ HeadEnd(i) \in Nat /\ pos \in Nat
  BY InBodyWhere
<1>3. /\ Rule(i).ends = "chunked"
      /\ chunk_.trailers = Announces(i) /\ chunk_.acked = n
      /\ chunk_.input = Len(buffer_)
      /\ HeadEnd(i) + chunk_.parsed <= pos /\ chunk_.parsed \in Nat
      /\ chunk_.buffer = SubSeq(wire, HeadEnd(i) + chunk_.parsed + 1, pos)
      /\ Len(chunk_.buffer) = pos - (HeadEnd(i) + chunk_.parsed)
  BY InChunkWhere
<1>4. /\ chunk_'.buffer = SubSeq(chunk_.buffer, k + 1, Len(chunk_.buffer))
      /\ chunk_'.size = size
      /\ chunk_'.parsed = chunk_.parsed + k /\ chunk_'.state = state
      /\ chunk_'.trailers = chunk_.trailers /\ chunk_'.input = chunk_.input
      /\ chunk_'.acked = chunk_.acked
  BY <1>1 DEF Parsers
<1> DEFINE h == HeadEnd(i)
           p == chunk_.parsed
           b == chunk_.buffer
           c == h + p
<1>5. /\ SubSeq(b, k + 1, Len(b)) = SubSeq(wire, h + (p + k) + 1, pos)
      /\ h + (p + k) <= pos
  <2>1. wire \in Seq(Tokens) /\ pos \in 0..Len(wire)
    BY AvailableIs
  <2>2. /\ h \in Nat /\ p \in Nat /\ b = SubSeq(wire, c + 1, pos)
        /\ c <= pos /\ Len(b) = pos - c /\ k <= Len(b)
    BY <1>2, <1>3
  <2> HIDE DEF h, p, b
  <2>3. /\ c \in 0..pos /\ k \in 0..(pos - c) /\ c + k = h + (p + k)
        /\ h + (p + k) <= pos
    BY <1>2, <2>2
  <2> HIDE DEF c
  <2>4. \A T : \A v \in Seq(T) :
          \A q \in 0..Len(v) : \A d \in 0..q :
        \A j \in 0..(q - d) : \A s : s = SubSeq(v, d + 1, q) =>
          SubSeq(s, j + 1, Len(s)) = SubSeq(v, d + j + 1, q)
    BY PieceRest
  <2>5. SubSeq(b, k + 1, Len(b)) = SubSeq(wire, c + k + 1, pos)
    BY <2>1, <2>2, <2>3, <2>4
  <2> QED BY <2>3, <2>5
<1>6. ASSUME AtItem(i, n)' PROVE (Due(i) /\ Parsing(i))'
  <2>1. /\ HeadEnd(i)' = HeadEnd(i) /\ wire' = wire
        /\ Announces(i)' = Announces(i)
        /\ Msg(i)' = Msg(i) /\ Rule(i)' = Rule(i) /\ Count' = Count /\ Due(i)'
        /\ Readable(i)' = Readable(i) /\ Waiting(i)'
        /\ Unread(HeadEnd(i) + n)' /\ complete_' = Whole(i - 1)'
        /\ message_' = BodyRead(i, n, "BODY_PENDING")'
    BY <1>1, <1>2, SamePeer, SameRead, SameWaiting
  <2>2. Given(i, n)' = pos
    BY <1>1 DEF Given
  <2>3. InChunks(i, n)'
    <3>1. chunk_'.trailers = Announces(i)' /\ chunk_'.acked = n
      BY <1>3, <1>4, <2>1
    <3>2. chunk_'.input = Len(buffer_')
      BY <1>1, <1>3, <1>4
    <3>3. /\ HeadEnd(i)' + chunk_'.parsed <= Given(i, n)'
          /\ chunk_'.buffer = SubSeq(wire', HeadEnd(i)' + chunk_'.parsed + 1,
                                     Given(i, n)')
      BY <1>4, <1>5, <2>1, <2>2, Zenon
    <3> QED BY <1>6, <3>1, <3>2, <3>3, Zenon DEF InChunks
  <2>4. /\ pc' = "chunk" /\ pc' # "rest" /\ ~eof'
        /\ Rule(i)'.ends = "chunked"
    BY <1>1, <1>2, <1>3, <2>1
  <2>5. InBody(i, n)'
    BY <1>2, <2>1, <2>3, <2>4, Zenon DEF InBody
  <2> QED BY <2>1, <2>5 DEF Parsing
<1> QED BY <1>4, <1>6

\* What is looked for in the parser's buffer is found where the body has it, if
\* it has been read.
LEMMA FindInBuffer ==
  ASSUME PeerInv, chunk_ \in Parsers, NEW i \in Nat, Due(i),
         NEW n \in Nat, InBody(i, n), pc = "chunk",
         NEW needle \in Seq(Tokens),
         find(After(Msg(i).body, chunk_.parsed), needle) # 0
  PROVE  /\ find(After(Msg(i).body, chunk_.parsed), needle) \in Nat
         /\ find(After(Msg(i).body, chunk_.parsed), needle) + Len(needle) - 1
              <= Len(Msg(i).body) - chunk_.parsed
         /\ find(chunk_.buffer, needle) =
              IF find(After(Msg(i).body, chunk_.parsed), needle)
                   + Len(needle) - 1 <= Len(chunk_.buffer)
              THEN find(After(Msg(i).body, chunk_.parsed), needle) ELSE 0
<1> DEFINE p == chunk_.parsed
           b == chunk_.buffer
           B == Msg(i).body
           a == After(B, p)
<1>1. B \in Seq(Tokens)
  BY InBodyWhere, Places
<1>2. /\ p \in 0..Len(B) /\ b \in Seq(Tokens)
      /\ \A x \in 1..(Len(B) - p) : x <= Len(b) => b[x] = B[p + x]
  BY InChunkWhere
<1> HIDE DEF p, b, B
<1>3. /\ a \in Seq(Tokens) /\ Len(a) = Len(B) - p
      /\ \A x \in 1..(Len(B) - p) : a[x] = B[p + x]
  BY <1>1, <1>2, AfterIs
<1>4. find(a, needle) # 0
  BY DEF a, B, p
<1> HIDE DEF a
<1>5. \A x \in 1..Len(a) : x <= Len(b) => b[x] = a[x]
  BY <1>2, <1>3
<1>6. find(b, needle) = IF find(a, needle) + Len(needle) - 1 <= Len(b)
                        THEN find(a, needle) ELSE 0
  BY <1>2, <1>3, <1>4, <1>5, FindAgrees
<1>7. /\ find(a, needle) \in Nat
      /\ find(a, needle) + Len(needle) - 1 <= Len(a)
  BY <1>3, <1>4, FoundWithin
<1> QED BY <1>3, <1>6, <1>7 DEF a, B, p, b

\* The header of a chunk.
LEMMA ChunkHeaderStep ==
  ASSUME PeerInv, WordAssumption, chunk_ \in Parsers, NEW i \in Nat, Due(i),
         Parsing(i), ChunkHeader
  PROVE  (Due(i) /\ Parsing(i))'
<1> DEFINE it == find(chunk_.buffer, CRLF)
           text == SizeText(SubSeq(chunk_.buffer, 1, it - 1))
           size == myatoi(text) % Word
           st == IF size = 0 THEN "TRAILER" ELSE "CHUNK"
           p == chunk_.parsed
           B == Msg(i).body
           f == find(After(B, p), CRLF)
           e == SizeEnd(B, p)
           h == HeadEnd(i)
           b == chunk_.buffer
<1>1. /\ pc = "chunk" /\ chunk_.state = "CHUNK_HDR"
      /\ UNCHANGED <<Outside, requests_, complete_>>
      /\ \/ it = npos /\ AckAll
         \/ it # npos /\ IsInteger(text) /\ Parsed(it + 1, st, size) /\ pc' = pc
         \/ it # npos /\ ~IsInteger(text) /\ pc' = "thrown"
  BY Zenon DEF ChunkHeader
<1>2. PICK n \in Nat : InBody(i, n)
  BY <1>1, Phases
<1>3. /\ i \in 1..Count /\ i <= Count /\ Readable(i) /\ script \in Scripts
      /\ h \in Nat /\ pos \in Nat /\ ~eof /\ complete_ = Whole(i - 1)
      /\ Len(B) \in Nat /\ B \in Seq(Tokens) /\ h + n <= pos
  BY <1>2, InBodyWhere, Places
<1>4. /\ Rule(i).ends = "chunked" /\ AtItem(i, n) /\ p \in Nat
      /\ p \in 0..Len(B)
      /\ h + p <= pos /\ Len(b) = pos - (h + p) /\ b \in Seq(Tokens)
      /\ Len(b) \in Nat
      /\ \A x \in 1..(Len(B) - p) : x <= Len(b) => b[x] = B[p + x]
  BY <1>1, <1>2, InChunkWhere
<1>5. AtHeader(i, n)
  BY <1>1, <1>4 DEF AtItem, AtChunk, AtTrailer
<1>6. p \in Msg(i).chunks /\ n < e
  BY <1>5 DEF AtHeader
<1>7. /\ f \in Nat \ {0} /\ e \in 0..Len(B) /\ e = p + f + 1
      /\ ~IsInteger(SizeOf(B, p)) => Msg(i).ends = "refused"
      /\ IsInteger(SizeOf(B, p)) =>
           /\ myatoi(SizeOf(B, p)) \in Nat /\ myatoi(SizeOf(B, p)) + 2 < Word
  <2> HIDE DEF p, h, b
  <2> QED BY <1>3, <1>4, <1>6, ChunkFacts
<1>8. it = IF f + 1 <= Len(b) THEN f ELSE 0
  <2>1. CRLF \in Seq(Tokens) /\ Len(CRLF) = 2
    BY CRLFType DEF String
  <2>2. it = IF f + Len(CRLF) - 1 <= Len(b) THEN f ELSE 0
    BY <1>1, <1>2, <1>7, <2>1, FindInBuffer
  <2> HIDE DEF f, it, b
  <2>3. f + 2 - 1 = f + 1
    BY <1>7
  <2> QED BY <2>1, <2>2, <2>3
<1> HIDE DEF it
<1>9. CASE it = npos
  <2>1. AckAll
    BY <1>1, <1>9
  <2>2. PICK m \in Nat : h + m = pos
    <3>1. pos - h \in Nat /\ h + (pos - h) = pos
      BY <1>3, <1>4
    <3> QED BY <3>1
  <2>3. m < e
    <3> HIDE DEF f, e, h, b
    <3>1. ~(f + 1 <= Len(b)) /\ Len(b) = pos - (h + p)
      BY <1>4, <1>7, <1>8, <1>9 DEF npos
    <3> HIDE DEF p
    <3> QED BY <1>3, <1>4, <1>7, <2>2, <3>1
  <2>4. AtHeader(i, m)
    BY <1>5, <2>3 DEF AtHeader
  <2>5. AtItem(i, m)
    BY <2>4 DEF AtItem
  <2> QED BY <1>1, <1>2, <2>1, <2>2, <2>5, AckAllStep
<1>10. CASE it # npos
  <2>1. it = f /\ f + 1 <= Len(b)
    BY <1>8, <1>10 DEF npos
  <2>2. text = SizeOf(B, p)
    <3>1. \A x \in 1..(f - 1) : b[x] = B[p + x]
      <4> SUFFICES ASSUME NEW x \in 1..(f - 1) PROVE b[x] = B[p + x]
        OBVIOUS
      <4>1. x \in 1..(Len(B) - p) /\ x <= Len(b)
        <5> DEFINE l == Len(B)
                   g == Len(b)
        <5> HIDE DEF f, p, b, e, B, l, g
        <5>1. /\ f \in Nat \ {0} /\ e <= l /\ e = p + f + 1 /\ l \in Nat
              /\ p \in Nat /\ f + 1 <= g /\ g \in Nat
          BY <1>3, <1>4, <1>7, <2>1 DEF l, g
        <5>2. x \in 1..(l - p) /\ x <= g
          BY <5>1
        <5> QED BY <5>2 DEF l, g
      <4> QED BY <1>4, <4>1
    <3>2. SubSeq(b, 1, f - 1) = SubSeq(B, p + 1, e - 2)
      <4> DEFINE s == SubSeq(b, 1, f - 1)
                 t == SubSeq(B, p + 1, e - 2)
                 k == f - 1
                 q == e - 2
      <4> HIDE DEF f, p, b, e, B
      <4>1. /\ k \in Nat /\ k <= Len(b) /\ q = p + k /\ q \in 0..Len(B)
            /\ Len(b) \in Nat /\ p \in 0..q /\ q - p = k
        BY <1>3, <1>4, <1>7, <2>1
      <4> HIDE DEF k, q
      <4>2. /\ SubSeq(b, 1, k) \in Seq(Tokens) /\ Len(SubSeq(b, 1, k)) = k
            /\ \A x \in 1..k : SubSeq(b, 1, k)[x] = b[x]
        BY <1>4, <4>1
      <4>3. /\ SubSeq(B, p + 1, q) \in Seq(Tokens)
            /\ Len(SubSeq(B, p + 1, q)) = q - p
            /\ \A x \in 1..(q - p) : SubSeq(B, p + 1, q)[x] = B[p + x]
        <5>1. \A T : \A v \in Seq(T) :
                \A a \in 0..Len(v) : \A d \in 0..a :
                /\ SubSeq(v, d + 1, a) \in Seq(T)
                /\ Len(SubSeq(v, d + 1, a)) = a - d
                /\ \A x \in 1..(a - d) : SubSeq(v, d + 1, a)[x] = v[d + x]
          BY Piece
        <5> QED BY <1>3, <4>1, <5>1
      <4>4. \A x \in 1..k : b[x] = B[p + x]
        BY <3>1 DEF k
      <4>5. \A x \in 1..Len(s) : s[x] = t[x]
        BY <4>1, <4>2, <4>3, <4>4 DEF k, q
      <4>6. s \in Seq(Tokens) /\ t \in Seq(Tokens) /\ Len(s) = Len(t)
        BY <4>1, <4>2, <4>3 DEF k, q
      <4> HIDE DEF s, t
      <4>7. s = t
        BY <4>5, <4>6, SeqEqual
      <4> QED BY <4>7 DEF s, t
    <3>3. SizeText(SubSeq(b, 1, f - 1)) = SizeText(SubSeq(B, p + 1, e - 2))
      BY <3>2, Zenon
    <3> QED BY <2>1, <3>3, Zenon DEF SizeOf
  <2> HIDE DEF text
  <2>3. CASE IsInteger(text)
    <3>1. Parsed(it + 1, st, size) /\ pc' = pc
      BY <1>1, <1>10, <2>3
    <3> DEFINE z == myatoi(SizeOf(B, p))
    <3>2. /\ z \in Nat /\ z + 2 < Word /\ IsInteger(SizeOf(B, p))
          /\ size = z % Word
      BY <1>7, <2>2, <2>3
    <3> HIDE DEF z
    <3>3. size = z
      BY <3>2, WordAssumption
    <3>4. PICK k \in Nat : k = it + 1
      BY <1>7, <2>1
    <3>5. k <= Len(b) /\ p + k = e
      <4> HIDE DEF f, p, b, e
      <4> QED BY <1>4, <1>7, <2>1, <3>4
    <3>6. Parsed(k, st, size)
      BY <3>1, <3>4
    <3>7. /\ chunk_'.parsed = e /\ chunk_'.state = st /\ chunk_'.size = z
          /\ AtItem(i, n)' => (Due(i) /\ Parsing(i))'
      <4>1. PICK sz, stt : sz = size /\ stt = st
        OBVIOUS
      <4>2. /\ chunk_'.parsed = chunk_.parsed + k /\ chunk_'.state = stt
            /\ chunk_'.size = sz
            /\ AtItem(i, n)' => (Due(i) /\ Parsing(i))'
        BY <1>1, <1>2, <3>1, <3>5, <3>6, <4>1, ParsedStep
      <4> QED BY <3>3, <3>5, <4>1, <4>2
    <3>8. Msg(i)' = Msg(i)
      BY <1>1, SamePeer DEF Outside
    <3>10. PICK c \in Msg(i).chunks : c = p
      BY <1>6
    <3>11. /\ chunk_'.parsed = SizeEnd(Msg(i).body, c)
           /\ z = myatoi(SizeOf(Msg(i).body, c))
           /\ IsInteger(SizeOf(Msg(i).body, c))
      BY <3>2, <3>7, <3>10, Zenon DEF z
    <3>9. AtItem(i, n)'
      <4>1. CASE z = 0
        <5>1. chunk_'.state = "TRAILER"
          BY <3>3, <3>7, <4>1
        <5>2. n < Len(Msg(i).body)
          <6> HIDE DEF e
          <6> QED BY <1>3, <1>6, <1>7
        <5>3. AtTrailer(i, n, c)'
          BY <3>8, <3>11, <4>1, <5>1, <5>2, Zenon DEF AtTrailer
        <5> QED BY <3>8, <3>10, <5>3 DEF AtItem
      <4>2. CASE z # 0
        <5>1. chunk_'.state = "CHUNK"
          BY <3>3, <3>7, <4>2
        <5>2. n < e + z + 2
          <6> HIDE DEF e
          <6> QED BY <1>6, <1>7, <3>2
        <5>4. n < chunk_'.parsed + chunk_'.size + 2
          BY <3>7, <5>2
        <5>3. AtChunk(i, n, c)'
          BY <3>7, <3>8, <3>11, <4>2, <5>1, <5>4, Zenon DEF AtChunk
        <5> QED BY <3>8, <3>10, <5>3 DEF AtItem
      <4> QED BY <4>1, <4>2
    <3> QED BY <3>7, <3>9
  <2>4. CASE ~IsInteger(text)
    <3>1. pc' = "thrown"
      BY <1>1, <1>10, <2>4
    <3>2. ~Accepted(i)
      BY <1>7, <2>2, <2>4 DEF Accepted, Msg
    <3>3. Thrown(i)' /\ Due(i)'
      BY <1>1, <1>3, <3>1, <3>2, SamePeer DEF Thrown, Outside
    <3> QED BY <3>3 DEF Parsing
  <2> QED BY <2>3, <2>4
<1> QED BY <1>9, <1>10

\* A piece of the parser's buffer is a piece of the body.
LEMMA PieceOfBody ==
  ASSUME NEW b \in Seq(Tokens), NEW B \in Seq(Tokens), NEW p \in Nat,
         NEW k \in Nat, NEW j \in 0..k, k <= Len(b), p + k <= Len(B),
         \A x \in 1..k : b[x] = B[p + x]
  PROVE  SubSeq(b, j + 1, k) = SubSeq(B, p + j + 1, p + k)
<1> DEFINE s == SubSeq(b, j + 1, k)
           q == p + k
           d == p + j
           t == SubSeq(B, d + 1, q)
<1>1. \A v \in Seq(Tokens) : \A a \in 0..Len(v) : \A c \in 0..a :
        /\ SubSeq(v, c + 1, a) \in Seq(Tokens)
        /\ Len(SubSeq(v, c + 1, a)) = a - c
        /\ \A x \in 1..(a - c) : SubSeq(v, c + 1, a)[x] = v[c + x]
  BY Piece
<1>2. /\ k \in 0..Len(b) /\ q \in 0..Len(B) /\ d \in 0..q /\ q - d = k - j
      /\ k - j \in Nat
  OBVIOUS
<1>3. /\ s \in Seq(Tokens) /\ Len(s) = k - j
      /\ \A x \in 1..(k - j) : s[x] = b[j + x]
  BY <1>1, <1>2
<1> HIDE DEF d, q
<1>4. /\ t \in Seq(Tokens) /\ Len(t) = q - d
      /\ \A x \in 1..(q - d) : t[x] = B[d + x]
  BY <1>1, <1>2
<1>5. ASSUME NEW x \in 1..(k - j) PROVE s[x] = t[x]
  <2> DEFINE y == j + x
  <2>1. y \in 1..k /\ d + x = p + y /\ x \in 1..(q - d)
    BY <1>2 DEF d
  <2> HIDE DEF y, s, t
  <2>2. s[x] = b[y] /\ t[x] = B[p + y]
    BY <1>3, <1>4, <2>1 DEF y
  <2> QED BY <2>1, <2>2
<1> HIDE DEF s, t
<1>6. s = t
  BY <1>2, <1>3, <1>4, <1>5, SeqEqual
<1> QED BY <1>6 DEF s, t, d, q

\* The bytes of a chunk, and the line end after them.
LEMMA ChunkStep ==
  ASSUME PeerInv, WordAssumption, chunk_ \in Parsers, NEW i \in Nat, Due(i),
         Parsing(i), Chunk
  PROVE  (Due(i) /\ Parsing(i))'
<1> DEFINE p == chunk_.parsed
           B == Msg(i).body
           h == HeadEnd(i)
           b == chunk_.buffer
           z == chunk_.size
           l == Len(B)
           g == Len(b)
           enough == g >= ChunkLength
           ended == /\ z + 2 <= g
                    /\ SubSeq(b, z + 1, z + 2) = CRLF
<1>1. /\ pc = "chunk" /\ chunk_.state = "CHUNK"
      /\ UNCHANGED <<Outside, requests_, complete_>>
      /\ \/ ~enough /\ AckAll
         \/ /\ enough /\ Parsed(ChunkLength, "CHUNK_HDR", z)
            /\ pc' = IF ended THEN pc ELSE "abort"
  BY Zenon DEF Chunk
<1>2. PICK n \in Nat : InBody(i, n)
  BY <1>1, Phases
<1>3. /\ i \in 1..Count /\ i <= Count /\ Readable(i) /\ script \in Scripts
      /\ h \in Nat /\ pos \in Nat
      /\ l \in Nat /\ B \in Seq(Tokens) /\ h + n <= pos
  BY <1>2, InBodyWhere, Places
<1>4. /\ Rule(i).ends = "chunked" /\ AtItem(i, n) /\ p \in Nat
      /\ h + p <= pos /\ g = pos - (h + p) /\ b \in Seq(Tokens)
      /\ g \in Nat
      /\ \A x \in 1..(l - p) : x <= g => b[x] = B[p + x]
  BY <1>1, <1>2, InChunkWhere
<1>5. PICK c \in Msg(i).chunks : AtChunk(i, n, c)
  BY <1>1, <1>4 DEF AtItem, AtHeader, AtTrailer
<1>6. /\ p = SizeEnd(B, c) /\ z = myatoi(SizeOf(B, c)) /\ z # 0
      /\ IsInteger(SizeOf(B, c)) /\ n < p + z + 2
  BY <1>5 DEF AtChunk
<1>7. /\ z \in Nat /\ z + 2 < Word
      /\ p + z + 2 \in Msg(i).chunks /\ p + z + 2 \in 0..l
      /\ SubSeq(B, p + z + 1, p + z + 2) = CRLF
  <2>1. LET e == SizeEnd(B, c)
            size == myatoi(SizeOf(B, c))
        IN  /\ IsInteger(SizeOf(B, c)) => size \in Nat /\ size + 2 < Word
            /\ IsInteger(SizeOf(B, c)) /\ size # 0 =>
                 /\ e + size + 2 \in Msg(i).chunks
                 /\ e + size + 2 \in 0..l
                 /\ SubSeq(B, e + size + 1, e + size + 2) = CRLF
    BY <1>3, <1>4, ChunkFacts
  <2> QED BY <1>6, <2>1, Zenon
<1> HIDE DEF p, h, b, z, l, g
<1>8. ChunkLength = z + 2
  <2>1. (z + 2) % Word = z + 2
    BY <1>7, WordAssumption
  <2> QED BY <2>1 DEF ChunkLength, z
<1>9. CASE ~enough
  <2>1. AckAll
    BY <1>1, <1>9
  <2>2. PICK m \in Nat : h + m = pos
    <3>1. pos - h \in Nat /\ h + (pos - h) = pos
      BY <1>3, <1>4
    <3> QED BY <3>1
  <2>3. m < p + z + 2
    <3>1. g < z + 2
      BY <1>4, <1>7, <1>8, <1>9
    <3> QED BY <1>3, <1>4, <1>7, <2>2, <3>1
  <2>4. AtChunk(i, m, c)
    BY <1>5, <2>3 DEF AtChunk, p, z
  <2>5. AtItem(i, m)
    BY <2>4 DEF AtItem
  <2> QED BY <1>1, <1>2, <2>1, <2>2, <2>5, AckAllStep DEF h
<1>10. CASE enough
  <2>1. PICK k \in Nat : k = z + 2
    BY <1>7
  <2>2. k <= g /\ p + k <= l /\ z \in 0..k /\ p + k = p + z + 2
    BY <1>4, <1>7, <1>8, <1>10, <2>1, SMTT(40)
  <2>3. ended
    <3>1. \A x \in 1..k : b[x] = B[p + x]
      BY <1>3, <1>4, <2>2
    <3>2. SubSeq(b, z + 1, k) = SubSeq(B, p + z + 1, p + k)
      <4>1. k <= Len(b) /\ p + k <= Len(B) /\ p \in Nat /\ k \in Nat
            /\ z \in 0..k /\ b \in Seq(Tokens) /\ B \in Seq(Tokens)
        BY <1>3, <1>4, <2>2 DEF l, g
      <4> HIDE DEF B
      <4> QED BY <3>1, <4>1, PieceOfBody
    <3>3. SubSeq(B, p + z + 1, p + k) = CRLF
      BY <1>7, <2>2
    <3> QED BY <2>1, <2>2, <3>2, <3>3 DEF z, b, g
  <2>4. Parsed(k, "CHUNK_HDR", z) /\ pc' = pc
    BY <1>1, <1>8, <1>10, <2>1, <2>3
  <2>5. PICK st, sz : st = "CHUNK_HDR" /\ sz = z
    OBVIOUS
  <2>6. /\ chunk_'.parsed = chunk_.parsed + k /\ chunk_'.state = st
        /\ chunk_'.size = sz
        /\ AtItem(i, n)' => (Due(i) /\ Parsing(i))'
    BY <1>1, <1>2, <2>2, <2>4, <2>5, ParsedStep DEF g, b
  <2>7. PICK d \in Msg(i).chunks : d = p + z + 2
    BY <1>7
  <2>8. chunk_'.parsed = d
    BY <2>2, <2>6, <2>7 DEF p
  <2>9. n < SizeEnd(B, d)
    <3>1. d + 2 <= SizeEnd(B, d) /\ SizeEnd(B, d) \in 0..l
      BY <1>3, <1>4, <2>7, ChunkFacts DEF l
    <3> DEFINE e == SizeEnd(B, d)
    <3> HIDE DEF e
    <3>2. e \in 0..l /\ l \in Nat /\ d + 2 <= e
      BY <1>3, <3>1 DEF e
    <3>3. n < p + z + 2 /\ d = p + z + 2 /\ p \in Nat /\ z \in Nat
      BY <1>4, <1>6, <1>7, <2>7
    <3>4. n < e
      BY <3>2, <3>3
    <3> QED BY <3>4 DEF e
  <2>10. Msg(i)' = Msg(i)
    BY <1>1, SamePeer DEF Outside
  <2>11. AtHeader(i, n)'
    BY <2>5, <2>6, <2>8, <2>9, <2>10, Zenon DEF AtHeader
  <2>12. AtItem(i, n)'
    BY <2>11, Zenon DEF AtItem
  <2> QED BY <2>6, <2>12
<1> QED BY <1>9, <1>10

\* What ends the trailer is a string.
LEMMA TrailerEndType ==
  ASSUME NEW trailers
  PROVE  /\ TrailerEnd(trailers) \in Seq(Tokens)
         /\ Len(TrailerEnd(trailers)) \in Nat \ {0}
<1> DEFINE s == CRLF
           t == s \o s
<1>1. s \in Seq(Tokens) /\ Len(s) = 2
  BY CRLFType DEF String
<1>2. TrailerEnd(trailers) = t \/ TrailerEnd(trailers) = s
  BY Zenon DEF TrailerEnd
<1> HIDE DEF s
<1>3. t \in Seq(Tokens) /\ Len(t) = Len(s) + Len(s)
  BY <1>1, ConcatProperties
<1>4. Len(t) = 4
  BY <1>1, <1>3
<1> HIDE DEF t
<1>5. CASE TrailerEnd(trailers) = t
  BY <1>3, <1>4, <1>5
<1>6. CASE TrailerEnd(trailers) = s
  BY <1>1, <1>6
<1> QED BY <1>2, <1>5, <1>6

\* All of the parser's buffer is parsed.
LEMMA ChunkBufferEmptyStep ==
  ASSUME PeerInv, chunk_ \in Parsers, NEW i \in Nat, Due(i),
         Parsing(i), ChunkBufferEmpty
  PROVE  (Due(i) /\ Parsing(i))'
<1>1. /\ pc = "chunk" /\ chunk_.buffer = <<>> /\ AckAll
      /\ UNCHANGED <<Outside, requests_, complete_>>
  BY DEF ChunkBufferEmpty
<1>2. PICK n \in Nat : InBody(i, n)
  BY <1>1, Phases
<1> DEFINE p == chunk_.parsed
           h == HeadEnd(i)
           B == Msg(i).body
           l == Len(B)
<1>3. /\ i \in 1..Count /\ Readable(i) /\ script \in Scripts
      /\ h \in Nat /\ pos \in Nat /\ l \in Nat /\ B \in Seq(Tokens)
  BY <1>2, InBodyWhere, Places
<1>4. /\ Rule(i).ends = "chunked" /\ AtItem(i, n) /\ p \in Nat
      /\ h + p <= pos /\ Len(chunk_.buffer) = pos - (h + p)
      /\ chunk_.trailers = Announces(i)
  BY <1>1, <1>2, InChunkWhere
<1>5. h + p = pos
  <2>1. Len(chunk_.buffer) = 0
    BY <1>1
  <2> HIDE DEF h, p
  <2> QED BY <1>3, <1>4, <2>1
<1> HIDE DEF p, h, l, B
<1>6. PICK m \in Nat : m = p
  BY <1>4
<1>7. AtItem(i, m)
  <2>1. CASE AtHeader(i, n)
    <3>1. p \in Msg(i).chunks
      BY <2>1 DEF AtHeader, p
    <3>2. p + 2 <= SizeEnd(B, p) /\ SizeEnd(B, p) \in 0..l
      BY <1>3, <1>4, <3>1, ChunkFacts DEF B, l
    <3> DEFINE e == SizeEnd(B, p)
    <3> HIDE DEF e
    <3>3. m < e
      BY <1>3, <1>4, <1>6, <3>2 DEF e
    <3>4. AtHeader(i, m)
      BY <2>1, <3>3 DEF AtHeader, e, p, B
    <3> QED BY <3>4 DEF AtItem
  <2>2. ASSUME NEW c \in Msg(i).chunks, AtChunk(i, n, c) PROVE AtItem(i, m)
    <3>1. chunk_.size \in Nat
      BY DEF Parsers
    <3>2. m < p + chunk_.size + 2
      BY <1>4, <1>6, <3>1
    <3>3. AtChunk(i, m, c)
      BY <2>2, <3>2 DEF AtChunk, p
    <3> QED BY <3>3 DEF AtItem
  <2>3. ASSUME NEW c \in Msg(i).chunks, AtTrailer(i, n, c) PROVE AtItem(i, m)
    <3> DEFINE trailers == Announces(i)
               end == TrailerEnd(trailers)
               rest == After(B, SizeEnd(B, c))
    <3>1. /\ p = SizeEnd(B, c) /\ IsInteger(SizeOf(B, c))
          /\ myatoi(SizeOf(B, c)) = 0
      BY <2>3 DEF AtTrailer, p, B
    <3>2. IsLastChunk(Msg(i), c, trailers) /\ SizeEnd(B, c) \in 0..l
      BY <1>3, <1>4, <3>1, ChunkFacts DEF B, l
    <3>3. find(rest, end) # npos /\ find(rest, end) + Len(end) - 1 = Len(rest)
      BY <3>2, Zenon DEF IsLastChunk, B
    <3>4. rest \in Seq(Tokens) /\ Len(rest) = l - p
      BY <1>3, <3>1, <3>2, AfterIs DEF l
    <3>5. end \in Seq(Tokens) /\ Len(end) \in Nat \ {0}
      BY TrailerEndType
    <3>6. find(rest, end) \in Nat
      <4> HIDE DEF rest, end
      <4> QED BY <3>4, <3>5, FoundWithin
    <3> DEFINE f == find(rest, end)
               r == Len(end)
               L == Len(rest)
    <3> HIDE DEF f, r, L, rest, end
    <3>7. f # 0 /\ f + r - 1 = L /\ f \in Nat /\ r \in Nat \ {0} /\ L = l - p
      BY <3>3, <3>4, <3>5, <3>6 DEF f, r, L, npos
    <3>8. m < l
      BY <1>3, <1>4, <1>6, <3>7
    <3>9. AtTrailer(i, m, c)
      BY <2>3, <3>8 DEF AtTrailer, l, B
    <3> QED BY <3>9 DEF AtItem
  <2> QED BY <1>4, <2>1, <2>2, <2>3 DEF AtItem
<1>8. HeadEnd(i) + m = pos
  BY <1>5, <1>6 DEF h
<1> QED BY <1>1, <1>2, <1>7, <1>8, AckAllStep

\* What follows the last chunk.
LEMMA TrailerStep ==
  ASSUME PeerInv, chunk_ \in Parsers, NEW i \in Nat, Due(i),
         Parsing(i), Trailer
  PROVE  (Due(i) /\ Parsing(i))'
<1> DEFINE needle == TrailerEnd(chunk_.trailers)
           loc == find(chunk_.buffer, needle)
           p == chunk_.parsed
           parsed == p + loc - 1 + Len(needle)
           B == Msg(i).body
           h == HeadEnd(i)
           l == Len(B)
           g == Len(chunk_.buffer)
           r == Len(needle)
           f == find(After(B, p), needle)
<1>1. /\ pc = "chunk" /\ chunk_.state = "TRAILER"
      /\ UNCHANGED <<Outside, requests_, complete_>>
      /\ \/ loc = npos /\ AckAll
         \/ /\ loc # npos
            /\ parsed > chunk_.acked => TakeInBody(Acked(parsed), TRUE)
            /\ ~(parsed > chunk_.acked) => pc' = "abort"
  BY Zenon DEF Trailer
<1>2. PICK n \in Nat : InBody(i, n)
  BY <1>1, Phases
<1>3. /\ i \in 1..Count /\ i <= Count /\ Readable(i) /\ script \in Scripts
      /\ h \in Nat /\ pos \in Nat /\ n \in 0..l /\ ~eof
      /\ message_ = BodyRead(i, n, "BODY_PENDING") /\ complete_ = Whole(i - 1)
      /\ Unread(h + n) /\ Waiting(i)
      /\ Len(buffer_) = pos - (h + n) /\ Len(buffer_) \in Nat
      /\ starts[i + 1] = h + l
      /\ l \in Nat /\ B \in Seq(Tokens)
  BY <1>2, InBodyWhere, Places
<1>4. /\ Rule(i).ends = "chunked" /\ AtItem(i, n) /\ p \in Nat
      /\ h + p <= pos /\ g = pos - (h + p) /\ g \in Nat
      /\ chunk_.trailers = Announces(i) /\ chunk_.acked = n
  BY <1>1, <1>2, InChunkWhere
<1>5. PICK c \in Msg(i).chunks : AtTrailer(i, n, c)
  BY <1>1, <1>4 DEF AtItem, AtHeader, AtChunk
<1>6. /\ p = SizeEnd(B, c) /\ IsInteger(SizeOf(B, c))
      /\ myatoi(SizeOf(B, c)) = 0 /\ n < l
  BY <1>5 DEF AtTrailer
<1>7. /\ IsLastChunk(Msg(i), c, Announces(i)) /\ p \in 0..l
      /\ Msg(i).ends = "chunked"
  <2>1. LET body == Msg(i).body
            end == SizeEnd(body, c)
            text == SizeOf(body, c)
            size == myatoi(text)
        IN  /\ end \in 0..Len(body)
            /\ IsInteger(text) /\ size = 0 =>
                 /\ Msg(i).ends = "chunked"
                 /\ IsLastChunk(Msg(i), c, Announces(i))
    BY <1>3, <1>4, ChunkFacts
  <2> QED BY <1>6, <2>1, Zenon
<1>8. f # npos /\ f + r - 1 = Len(After(B, p))
  BY <1>4, <1>6, <1>7, Zenon DEF IsLastChunk
<1>9. needle \in Seq(Tokens) /\ r \in Nat \ {0}
  BY TrailerEndType
<1>10. Len(After(B, p)) = l - p
  <2> HIDE DEF p, B
  <2> QED BY <1>3, <1>7, AfterIs DEF l
<1>11. f \in Nat /\ loc = IF f + r - 1 <= g THEN f ELSE 0
  BY <1>1, <1>2, <1>8, <1>9, FindInBuffer DEF npos
<1> DEFINE a == Len(After(B, p))
<1> HIDE DEF h, l, g, r, f, p, needle, loc, a
<1>12. /\ f # 0 /\ f \in Nat /\ r \in Nat \ {0} /\ f + r - 1 = l - p
  BY <1>8, <1>9, <1>10, <1>11 DEF a, npos
<1>13. CASE loc = npos
  <2>1. PICK m \in Nat : h + m = pos
    <3>1. pos - h \in Nat /\ h + (pos - h) = pos
      BY <1>3, <1>4
    <3> QED BY <3>1
  <2>2. ~(f + r - 1 <= g)
    BY <1>11, <1>12, <1>13 DEF npos
  <2>3. m < l
    <3>1. g < l - p /\ g = pos - (h + p) /\ h \in Nat /\ p \in Nat /\ l \in Nat
      BY <1>3, <1>4, <1>7, <1>12, <2>2
    <3>2. g = m - p
      BY <2>1, <3>1
    <3> QED BY <3>1, <3>2
  <2>4. AtTrailer(i, m, c)
    BY <1>5, <2>3 DEF AtTrailer, l
  <2>5. AtItem(i, m)
    BY <2>4 DEF AtItem
  <2>6. AckAll
    BY <1>1, <1>13
  <2> QED BY <1>1, <1>2, <2>1, <2>5, <2>6, AckAllStep DEF h
<1>14. CASE loc # npos
  <2>1. loc = f /\ f + r - 1 <= g
    BY <1>11, <1>14 DEF npos
  <2>2. parsed = l
    <3>1. parsed = p + loc - 1 + r
      BY DEF r
    <3> HIDE DEF parsed
    <3>2. (p + loc - 1) + r = l
      BY <1>3, <1>4, <1>7, <1>12, <2>1
    <3> QED BY <3>1, <3>2
  <2> HIDE DEF parsed
  <2>3. parsed > chunk_.acked
    BY <1>3, <1>4, <1>6, <2>2
  <2>4. PICK k \in Nat : k = l - n
    BY <1>3
  <2>5. k <= Len(buffer_) /\ n + k = l
    <3> DEFINE b == Len(buffer_)
    <3> HIDE DEF b
    <3>1. b = pos - (h + n) /\ b \in Nat
      BY <1>3 DEF b
    <3>2. k <= b /\ n + k = l
      BY <1>3, <1>4, <1>7, <1>12, <2>1, <2>4, <3>1
    <3> QED BY <3>2 DEF b
  <2>6. TakeInBody(k, TRUE)
    <3>1. TakeInBody(Acked(parsed), TRUE)
      BY <1>1, <1>14, <2>3
    <3>2. Acked(parsed) = k
      BY <1>4, <2>2, <2>4 DEF Acked
    <3> QED BY <3>1, <3>2, Zenon
  <2>7. PICK done \in BOOLEAN : done = TRUE
    OBVIOUS
  <2>8. UNCHANGED Peer /\ pos' = pos /\ arrived' = arrived /\ eof' = eof
        /\ complete_' = complete_ /\ requests_' = requests_
    BY <1>1 DEF Outside
  <2>9. /\ message_' = BodyRead(i, n + k,
                                IF done THEN "COMPLETE" ELSE "BODY_PENDING")'
        /\ Unread(HeadEnd(i) + (n + k))'
        /\ pc' = IF ~done /\ k # Len(buffer_) THEN "abort"
                 ELSE IF done THEN "parse" ELSE "rest"
    <3>1. TakeInBody(k, done)
      BY <2>6, <2>7
    <3>2. /\ n \in 0..Len(Msg(i).body) /\ Unread(HeadEnd(i) + n)
          /\ k <= Len(buffer_) /\ n + k <= Len(Msg(i).body)
      BY <1>3, <2>5 DEF l, h
    <3>3. i \in 1..Count /\ message_ = BodyRead(i, n, "BODY_PENDING")
      BY <1>3
    <3>4. UNCHANGED Peer /\ pos' = pos
      BY <2>8
    <3> QED BY <3>1, <3>2, <3>3, <3>4, TakesBody
  <2>10. /\ message_' = BodyRead(i, Len(Msg(i).body), "COMPLETE")'
         /\ Unread(starts[i + 1])' /\ pc' = "parse"
    <3>1. /\ Msg(i)' = Msg(i) /\ HeadEnd(i)' = HeadEnd(i) /\ starts' = starts
      BY <2>8, SamePeer
    <3>2. n + k = Len(Msg(i).body)
          /\ starts[i + 1] = HeadEnd(i) + Len(Msg(i).body)
      BY <1>3, <2>5 DEF l, h
    <3>3. pc' = "parse" /\ message_' = BodyRead(i, n + k, "COMPLETE")'
      BY <2>7, <2>9
    <3>4. message_' = BodyRead(i, Len(Msg(i).body), "COMPLETE")'
      BY <3>1, <3>2, <3>3, Zenon
    <3>5. Unread(starts[i + 1])'
      BY <2>9, <3>1, <3>2, Zenon
    <3> QED BY <3>3, <3>4, <3>5
  <2>11. AtEnd(i)' /\ Due(i)'
    BY <1>3, <1>7, <2>8, <2>10, SamePeer, SameWaiting DEF AtEnd
  <2> QED BY <2>11 DEF Parsing
<1> QED BY <1>13, <1>14
-----------------------------------------------------------------------------
(* A message is handed on.                                                 *)

\* The messages handed on, and one more.
LEMMA WholeNext ==
  ASSUME NEW k \in Nat
  PROVE  /\ Len(Whole(k)) = k
         /\ Append(Whole(k), AsSent(k + 1, Len(script.sent[k + 1].body)))
              = Whole(k + 1)
<1> DEFINE sent(j) == AsSent(j, Len(script.sent[j].body))
           S == {sent(j) : j \in Nat}
           s == Whole(k)
           n == k + 1
           t == Whole(n)
           x == sent(n)
           u == Append(s, x)
<1>1. s = [j \in 1..k |-> sent(j)] /\ t = [j \in 1..n |-> sent(j)]
  BY Zenon DEF Whole
<1>2. \A j \in Nat : sent(j) \in S
  OBVIOUS
<1>3. n \in Nat /\ n = k + 1
  OBVIOUS
<1> HIDE DEF sent, S, s, t, n
<1>4. /\ s \in Seq(S) /\ Len(s) = k /\ t \in Seq(S) /\ Len(t) = n /\ x \in S
  BY <1>1, <1>2, <1>3
<1> HIDE DEF x
<1>5. /\ u \in Seq(S) /\ Len(u) = k + 1
      /\ \A j \in 1..k : u[j] = s[j]
      /\ u[k + 1] = x
  BY <1>4, AppendProperties
<1>6. ASSUME NEW j \in 1..Len(u) PROVE u[j] = t[j]
  <2>1. j \in 1..n
    BY <1>3, <1>5
  <2>2. t[j] = sent(j)
    BY <1>1, <2>1
  <2>3. CASE j = n
    BY <1>3, <1>5, <2>2, <2>3 DEF x
  <2>4. CASE j # n
    <3>1. j \in 1..k
      BY <1>3, <2>1, <2>4
    <3>2. s[j] = sent(j)
      BY <1>1, <3>1
    <3> QED BY <1>5, <2>2, <3>1, <3>2
  <2> QED BY <2>3, <2>4
<1> HIDE DEF u
<1>7. u = t
  BY <1>3, <1>4, <1>5, <1>6, SeqEqual
<1> QED BY <1>4, <1>7, Zenon DEF u, s, t, x, sent, n

\* What is handed on of the message in progress.
LEMMA HandedOn ==
  ASSUME PeerInv, NEW i \in 1..Count, NEW n, NEW state,
         message_ = BodyRead(i, n, state)
  PROVE  [first_line |-> message_.first_line, headers |-> message_.headers,
          body |-> message_.body, request |-> message_.request] = AsSent(i, n)
<1> DEFINE hs == Msg(i).headers
           head == [j \in 1..Len(hs) |->
                      [key |-> hs[j].key, value |-> hs[j].value]]
           req == IF script.kind = "request" THEN <<>> ELSE script.requests[i]
           b == SubSeq(Msg(i).body, 1, n)
           f == Msg(i).first_line
<1>1. DOMAIN hs = 1..Len(hs)
  <2>1. Msg(i) \in Messages
    BY MessageLayout
  <2>2. hs \in Seq([key : String, sep : String, value : String])
    BY <2>1 DEF Messages
  <2> QED BY <2>2
<1>2. WholeHead(script, i).headers = head /\ WholeHead(script, i).request = req
  BY DEF WholeHead, HeadRead, Msg
<1>3. /\ message_.first_line = f /\ message_.headers = head
      /\ message_.body = b /\ message_.request = req
  BY <1>2 DEF BodyRead
<1>4. AsSent(i, n) =
        [first_line |-> f,
         headers |-> [j \in DOMAIN hs |-> [key |-> hs[j].key,
                                           value |-> hs[j].value]],
         body |-> b, request |-> req]
  BY Zenon DEF AsSent, Msg
<1>5. AsSent(i, n) = [first_line |-> f, headers |-> head, body |-> b,
                      request |-> req]
  BY <1>1, <1>4
<1> QED BY <1>3, <1>5

LEMMA CompleteStep ==
  ASSUME PeerInv, NEW i \in Nat, Due(i), Parsing(i), Complete
  PROVE  \E j \in Nat : (Due(j) /\ Parsing(j))'
<1>1. /\ pc = "parse" /\ message_.state = "COMPLETE" /\ pc' = pc
      /\ complete_' = Append(complete_,
                             [first_line |-> message_.first_line,
                              headers |-> message_.headers,
                              body |-> message_.body,
                              request |-> message_.request])
      /\ message_' = NewMessage /\ UNCHANGED Peer
      /\ pos' = pos /\ arrived' = arrived /\ eof' = eof
      /\ buffer_' = buffer_ /\ requests_' = requests_
  BY DEF Complete, Outside
<1>2. /\ i \in 1..(Count + 1) /\ Count \in Nat
      /\ i <= Count => i \in 1..Count
  BY DueIndex
<1>3. CASE AtEnd(i)
  <2>1. /\ ~eof /\ i \in 1..Count /\ Msg(i).ends \in {"length", "chunked"}
        /\ message_ = BodyRead(i, Len(Msg(i).body), "COMPLETE")
        /\ complete_ = Whole(i - 1) /\ Unread(starts[i + 1]) /\ Waiting(i)
    BY <1>2, <1>3 DEF AtEnd
  <2>2. complete_' = Append(Whole(i - 1), AsSent(i, Len(Msg(i).body)))
    BY <1>1, <2>1, HandedOn
  <2>3. Append(Whole(i - 1), AsSent(i, Len(Msg(i).body))) = Whole(i)
    <3>1. PICK k \in Nat : k + 1 = i /\ k = i - 1
      BY <2>1
    <3>2. Append(Whole(k), AsSent(k + 1, Len(script.sent[k + 1].body)))
            = Whole(k + 1)
      BY WholeNext
    <3> QED BY <3>1, <3>2, Zenon DEF Msg
  <2>4. PICK j \in Nat : j = i + 1 /\ j - 1 = i
    BY <2>1
  <2>5. Due(j)
    <3>1. j \in 1..(Count + 1)
      BY <1>2, <2>1, <2>4
    <3>2. \A x \in 1..(j - 1) : x = i \/ x \in 1..(i - 1)
      BY <2>4
    <3> QED BY <2>1, <3>1, <3>2 DEF Due
  <2>6. Due(j)' /\ Waiting(j - 1)' /\ Unread(starts[j])' /\ starts' = starts
        /\ complete_' = Whole(j - 1)'
    BY <1>1, <2>1, <2>2, <2>3, <2>4, <2>5, SamePeer, SameRead, SameWaiting
  <2>7. message_' = NewMessage' /\ pc' = "parse" /\ ~eof'
    BY <1>1, <2>1 DEF NewMessage
  <2>8. Between(j)'
    BY <2>6, <2>7 DEF Between
  <2> QED BY <2>6, <2>8 DEF Parsing
<1>4. ASSUME NEW n \in Nat, AtEof(i, n) PROVE (Due(i) /\ Parsing(i))'
  <2>1. /\ CutShort(i, n) /\ message_ = BodyRead(i, n, "COMPLETE")
        /\ complete_ = Whole(i - 1)
    BY <1>4 DEF AtEof
  <2>2. i \in 1..Count
    BY <1>2, <2>1 DEF CutShort
  <2>3. complete_' = Append(Whole(i - 1), AsSent(i, n))
    BY <1>1, <2>1, <2>2, HandedOn
  <2>4. CutShort(i, n)'
    BY <1>1, <2>1, SamePeer, Zenon DEF CutShort
  <2>5. /\ message_' = NewMessage' /\ pc' = "parse" /\ Due(i)'
        /\ complete_' = Append(Whole(i - 1)', AsSent(i, n)')
    BY <1>1, <2>3, SamePeer DEF NewMessage
  <2>6. AfterEof(i, n)'
    BY <2>4, <2>5, Zenon DEF AfterEof
  <2> QED BY <2>5, <2>6 DEF Parsing
<1>5. AtEnd(i) \/ \E n \in Nat : AtEof(i, n)
  BY <1>1, Phases
<1> QED BY <1>3, <1>4, <1>5
-----------------------------------------------------------------------------
(* The invariant.                                                          *)

\* What the peer has done stays within what it may do.
LEMMA PeerStep ==
  ASSUME PeerInv, [Next]_vars
  PROVE  PeerInv'
<1>0. /\ script \in Scripts /\ wire = Wire(script) /\ starts = Starts(script)
      /\ pos \in 0..Len(wire) /\ arrived \in 0..Len(script.requests)
      /\ script.kind = "request" => arrived = 0
      /\ pos <= Available /\ eof \in BOOLEAN
  BY DEF PeerInv
<1>1. CASE UNCHANGED Outside
  <2>1. /\ script' = script /\ wire' = wire /\ starts' = starts
        /\ pos' = pos /\ arrived' = arrived /\ eof' = eof
    BY <1>1 DEF Outside, Peer
  <2>2. Available' = Available
    BY <2>1, Zenon DEF Available
  <2> QED BY <1>0, <2>1, <2>2, Zenon DEF PeerInv
<1>2. CASE new_request_arrived
  <2>1. /\ script' = script /\ wire' = wire /\ starts' = starts
        /\ pos' = pos /\ arrived' = arrived + 1 /\ eof' = eof
        /\ script.kind = "response" /\ arrived < Len(script.requests)
    BY <1>2 DEF new_request_arrived, Peer
  <2>2. /\ Len(script.requests) \in Nat /\ Count \in Nat
        /\ Len(script.requests) <= Count
    BY <1>0, <2>1, ScriptType
  <2>3. arrived + 1 \in 0..Len(script.requests) /\ arrived \in Nat
    BY <1>0, <2>1, <2>2
  <2>4. pos <= Available'
    <3>1. pos <= starts[arrived + 1]
      <4>1. Available = starts[arrived + 1]
        BY <1>0, <2>1, <2>2 DEF Available
      <4> QED BY <1>0, <4>1
    <3>2. CASE arrived + 1 = Len(script.requests)
      <4>1. Available' = Len(wire)
        BY <2>1, <3>2, Zenon DEF Available
      <4> QED BY <1>0, <4>1
    <3>3. CASE arrived + 1 # Len(script.requests)
      <4>1. Available' = starts[(arrived + 1) + 1]
        BY <2>1, <3>3 DEF Available
      <4>2. PICK k \in Nat, j \in Nat : k = arrived + 1 /\ j = k + 1
        BY <2>3
      <4>3. k \in 1..(Count + 1) /\ j \in 1..(Count + 1) /\ k <= j
        BY <2>1, <2>2, <2>3, <4>2
      <4>4. starts[k] <= starts[j] /\ starts[k] \in Nat /\ starts[j] \in Nat
        BY <4>3, WireLayout
      <4>5. pos <= starts[k] /\ Available' = starts[j] /\ pos \in Nat
        BY <1>0, <3>1, <4>1, <4>2, AvailableIs
      <4> QED BY <4>4, <4>5
    <3> QED BY <3>2, <3>3
  <2>5. script'.kind # "request"
    BY <2>1
  <2> QED BY <1>0, <2>1, <2>3, <2>4, <2>5, Zenon DEF PeerInv
<1>3. ASSUME NEW n \in 1..Len(wire), parse(n) PROVE PeerInv'
  <2>1. /\ script' = script /\ wire' = wire /\ starts' = starts
        /\ pos' = pos + n /\ arrived' = arrived /\ eof' = eof
        /\ pos + n <= Available
    BY <1>3 DEF parse, Peer
  <2>2. Available' = Available
    BY <2>1, Zenon DEF Available
  <2>3. pos + n \in 0..Len(wire)
    BY <2>1, AvailableIs
  <2>4. pos' \in 0..Len(wire') /\ pos' <= Available'
    BY <2>1, <2>2, <2>3
  <2> QED BY <1>0, <2>1, <2>4, Zenon DEF PeerInv
<1>4. CASE parse_eof
  <2>1. /\ script' = script /\ wire' = wire /\ starts' = starts
        /\ pos' = pos /\ arrived' = arrived /\ eof' = TRUE
    BY <1>4 DEF parse_eof, Peer
  <2>2. Available' = Available
    BY <2>1, Zenon DEF Available
  <2> QED BY <1>0, <2>1, <2>2 DEF PeerInv
<1>5. ASSUME parsing_step PROVE UNCHANGED Outside
  BY <1>5, Zenon DEF parsing_step, NoCompleteLine, FirstLinePending, add_header,
     done_with_headers, read_in_body, Rule5Read, ChunkedRead, ChunkHeader,
     Chunk, Trailer, ChunkBufferEmpty, Complete
<1>6. ASSUME UNCHANGED vars PROVE UNCHANGED Outside
  BY <1>6 DEF vars, Outside, Peer
<1> QED BY <1>1, <1>2, <1>3, <1>4, <1>5, <1>6, Zenon DEF Next

\* A parser that is new.
LEMMA NewParser ==
  ASSUME NEW trailers \in BOOLEAN
  PROVE  NewChunkedParser(trailers) \in Parsers
<1> DEFINE e == <<>>
<1>1. e \in String
  BY DEF String
<1> HIDE DEF e
<1>2. [buffer |-> e, size |-> 0, acked |-> 0, parsed |-> 0,
       state |-> "CHUNK_HDR", trailers |-> trailers, input |-> 0] \in Parsers
  BY <1>1 DEF Parsers
<1> QED BY <1>2, Zenon DEF NewChunkedParser, e

\* What is taken of its buffer leaves it a parser.
LEMMA ParserParsed ==
  ASSUME chunk_ \in Parsers, NEW n \in Nat, NEW size \in Nat,
         NEW state \in {"CHUNK_HDR", "CHUNK", "TRAILER"}, Parsed(n, state, size)
  PROVE  chunk_' \in Parsers
<1>1. chunk_' = [chunk_ EXCEPT
                   !.buffer = SubSeq(@, n + 1, Len(@)), !.parsed = @ + n,
                   !.state = state, !.size = size]
  BY DEF Parsed
<1>2. chunk_.buffer \in String /\ chunk_.parsed + n \in Nat
  BY DEF Parsers
<1> DEFINE b == chunk_.buffer
           s == SubSeq(b, n + 1, Len(b))
           p == chunk_.parsed + n
<1>3. s \in String
  <2> HIDE DEF b
  <2>1. b \in Seq(Tokens)
    BY <1>2 DEF b, String
  <2> QED BY <2>1 DEF String
<1>4. chunk_' = [chunk_ EXCEPT !.buffer = s, !.parsed = p, !.state = state,
                               !.size = size]
  BY <1>1
<1> HIDE DEF s, p
<1>5. p \in Nat
  BY <1>2 DEF p
<1> QED BY <1>3, <1>4, <1>5 DEF Parsers

\* So does all that it is given.
LEMMA ParserAcked ==
  ASSUME chunk_ \in Parsers, AckAll
  PROVE  chunk_' \in Parsers
<1>1. chunk_' = [chunk_ EXCEPT !.acked = @ + chunk_.input]
  BY DEF AckAll
<1>2. chunk_.acked + chunk_.input \in Nat
  BY DEF Parsers
<1> DEFINE n == chunk_.acked + chunk_.input
<1>3. chunk_' = [chunk_ EXCEPT !.acked = n] /\ n \in Nat
  BY <1>1, <1>2
<1> HIDE DEF n
<1> QED BY <1>3 DEF Parsers

\* The parser of chunks keeps its type.
LEMMA ParserStep ==
  ASSUME PeerInv, WordAssumption, chunk_ \in Parsers, NEW i \in Nat, Due(i),
         Parsing(i), [Next]_vars
  PROVE  (chunk_ \in Parsers)'
<1>0. chunk_.buffer \in Seq(Tokens)
  BY DEF Parsers, String
<1>1. CASE UNCHANGED chunk_
  BY <1>1 DEF Parsers
<1>2. ASSUME AckAll PROVE (chunk_ \in Parsers)'
  <2>1. chunk_' \in Parsers
    BY <1>2, ParserAcked
  <2> QED BY <2>1 DEF Parsers
<1>3. ASSUME NEW n \in Nat, NEW size \in Nat,
             NEW state \in {"CHUNK_HDR", "CHUNK", "TRAILER"},
             Parsed(n, state, size)
      PROVE  (chunk_ \in Parsers)'
  <2>1. chunk_' \in Parsers
    BY <1>3, ParserParsed
  <2> QED BY <2>1 DEF Parsers
<1>4. CASE done_with_headers
  <2>1. PICK t : /\ chunk_' = NewChunkedParser(t)
                 /\ t = (/\ Body(script.kind, message_).ends = "chunked"
                         /\ has_header(message_, "Trailer"))
    BY <1>4 DEF done_with_headers
  <2>2. t \in BOOLEAN
    BY <2>1, Zenon DEF has_header
  <2>3. chunk_' \in Parsers
    BY <2>1, <2>2, NewParser
  <2> QED BY <2>3 DEF Parsers
<1>5. CASE Complete
  <2>1. PICK t : chunk_' = NewChunkedParser(t) /\ t = FALSE
    BY <1>5 DEF Complete
  <2>2. t \in BOOLEAN
    BY <2>1
  <2>3. chunk_' \in Parsers
    BY <2>1, <2>2, NewParser
  <2> QED BY <2>3 DEF Parsers
<1>6. CASE ChunkedRead
  <2>1. /\ pc = "parse" /\ message_.state = "BODY_PENDING"
        /\ chunk_' = [chunk_ EXCEPT !.buffer = @ \o buffer_,
                                    !.input = Len(buffer_)]
    BY <1>6 DEF ChunkedRead
  <2>2. PICK n \in Nat : InBody(i, n)
    BY <2>1, Phases
  <2>3. buffer_ \in Seq(Tokens) /\ Len(buffer_) \in Nat
    <3>1. /\ buffer_ = SubSeq(wire, (HeadEnd(i) + n) + 1, pos)
          /\ HeadEnd(i) + n \in Nat /\ HeadEnd(i) + n <= pos
      BY <2>2, InBodyWhere DEF Unread
    <3>2. wire \in Seq(Tokens) /\ pos \in 0..Len(wire) /\ Len(wire) \in Nat
      BY AvailableIs
    <3> DEFINE c == HeadEnd(i) + n
    <3>3. c \in 0..pos
      BY <3>1, <3>2
    <3>4. \A T : \A v \in Seq(T) :
            \A q \in 0..Len(v) : \A d \in 0..q :
            SubSeq(v, d + 1, q) \in Seq(T)
      BY Piece
    <3> HIDE DEF c
    <3>5. SubSeq(wire, c + 1, pos) \in Seq(Tokens)
      BY <3>2, <3>3, <3>4
    <3>6. buffer_ \in Seq(Tokens)
      BY <3>1, <3>5 DEF c
    <3> QED BY <3>6
  <2> DEFINE b == chunk_.buffer \o buffer_
             l == Len(buffer_)
  <2>4. chunk_' = [chunk_ EXCEPT !.buffer = b, !.input = l]
    BY <2>1
  <2>5. b \in String /\ l \in Nat
    BY <1>0, <2>3, ConcatProperties DEF String
  <2> HIDE DEF b, l
  <2>6. chunk_' \in Parsers
    BY <2>4, <2>5 DEF Parsers
  <2> QED BY <2>6 DEF Parsers
<1>7. CASE ChunkHeader
  <2> DEFINE it == find(chunk_.buffer, CRLF)
             text == SizeText(SubSeq(chunk_.buffer, 1, it - 1))
             size == myatoi(text) % Word
             st == IF size = 0 THEN "TRAILER" ELSE "CHUNK"
  <2>1. \/ AckAll
        \/ IsInteger(text) /\ Parsed(it + 1, st, size)
        \/ UNCHANGED chunk_
    BY <1>7, Zenon DEF ChunkHeader
  <2>2. it \in Nat
    <3>1. CRLF \in Seq(Tokens)
      BY CRLFType DEF String
    <3> QED BY <1>0, <3>1, FoundWithin
  <2> HIDE DEF it, text
  <2>3. ASSUME IsInteger(text), Parsed(it + 1, st, size)
        PROVE  (chunk_ \in Parsers)'
    <3>1. myatoi(text) \in Nat
      BY <2>3, Numeral
    <3>2. size \in Nat
      BY <3>1, WordAssumption
    <3>3. PICK n \in Nat, z \in Nat, s \in {"CHUNK_HDR", "CHUNK", "TRAILER"} :
            n = it + 1 /\ z = size /\ s = st
      <4>1. st \in {"CHUNK_HDR", "CHUNK", "TRAILER"} /\ it + 1 \in Nat
        BY <2>2
      <4> HIDE DEF st, size
      <4> QED BY <3>2, <4>1
    <3>4. Parsed(n, s, z)
      BY <2>3, <3>3
    <3> QED BY <1>3, <3>4
  <2> QED BY <1>1, <1>2, <2>1, <2>3
<1>8. CASE Chunk
  <2>1. AckAll \/ Parsed(ChunkLength, "CHUNK_HDR", chunk_.size)
    BY <1>8, Zenon DEF Chunk
  <2>2. ASSUME Parsed(ChunkLength, "CHUNK_HDR", chunk_.size)
        PROVE  (chunk_ \in Parsers)'
    <3>1. chunk_.size \in Nat
      BY DEF Parsers
    <3>2. ChunkLength \in Nat
      BY <3>1, WordAssumption DEF ChunkLength
    <3>3. PICK n \in Nat, z \in Nat, s \in {"CHUNK_HDR", "CHUNK", "TRAILER"} :
            n = ChunkLength /\ z = chunk_.size /\ s = "CHUNK_HDR"
      BY <3>1, <3>2
    <3>4. Parsed(n, s, z)
      BY <2>2, <3>3
    <3> QED BY <1>3, <3>4
  <2> QED BY <1>2, <2>1, <2>2
<1>9. CASE Trailer
  <2> DEFINE needle == TrailerEnd(chunk_.trailers)
             loc == find(chunk_.buffer, needle)
             r == Len(needle)
             p == chunk_.parsed + loc - 1 + r
  <2>1. \/ loc = npos /\ AckAll
        \/ loc # npos /\ chunk_' = [chunk_ EXCEPT !.parsed = p]
    BY <1>9, Zenon DEF Trailer
  <2>2. needle \in Seq(Tokens) /\ r \in Nat
    BY TrailerEndType
  <2> HIDE DEF needle, r
  <2>3. loc \in Nat
    BY <1>0, <2>2, FoundWithin
  <2> HIDE DEF loc
  <2>4. ASSUME loc # npos, chunk_' = [chunk_ EXCEPT !.parsed = p]
        PROVE  (chunk_ \in Parsers)'
    <3>1. chunk_.parsed \in Nat /\ loc # 0
      BY <2>4 DEF Parsers, npos
    <3>2. p \in Nat
      <4> DEFINE c == chunk_.parsed
      <4>1. c \in Nat
        BY <3>1
      <4> HIDE DEF c
      <4>2. (c + loc - 1) + r \in Nat
        BY <2>2, <2>3, <3>1, <4>1
      <4> QED BY <4>2 DEF c
    <3> HIDE DEF p
    <3>3. chunk_' \in Parsers
      BY <2>4, <3>2 DEF Parsers
    <3> QED BY <3>3 DEF Parsers
  <2> QED BY <1>2, <2>1, <2>4
<1>10. CASE ChunkBufferEmpty
  BY <1>2, <1>10 DEF ChunkBufferEmpty
<1>11. ASSUME NEW n \in 1..Len(wire), parse(n) PROVE UNCHANGED chunk_
  BY <1>11 DEF parse
<1>12. ASSUME \/ new_request_arrived \/ parse_eof \/ NoCompleteLine
              \/ FirstLinePending \/ add_header \/ read_in_body \/ Rule5Read
              \/ UNCHANGED vars
       PROVE  UNCHANGED chunk_
  BY <1>12, Zenon DEF new_request_arrived, parse_eof, NoCompleteLine,
     FirstLinePending, add_header, read_in_body, Rule5Read, vars
<1> QED BY <1>1, <1>4, <1>5, <1>6, <1>7, <1>8, <1>9, <1>10, <1>11, <1>12
        DEF Next, parsing_step

\* Before anything has been read.
LEMMA AtStart ==
  ASSUME Init
  PROVE  IInv
<1>1. /\ script \in Scripts /\ wire = Wire(script) /\ starts = Starts(script)
      /\ pos = 0 /\ arrived = 0 /\ eof = FALSE
      /\ buffer_ = <<>> /\ message_ = NewMessage
      /\ chunk_ = NewChunkedParser(FALSE)
      /\ requests_ = <<>> /\ complete_ = <<>> /\ pc = "rest"
  BY DEF Init
<1>2. Len(script.requests) \in Nat /\ Count \in Nat
  BY <1>1, ScriptType
<1>3. /\ Len(wire) \in Nat /\ starts[1] = 0 /\ starts[Count + 1] = Len(wire)
      /\ \A k \in 1..(Count + 1) : starts[k] \in Nat
  <2>1. Sent
    BY <1>1 DEF Sent
  <2> QED BY <2>1, SentLayout
<1>4. pos <= Available
  <2>1. CASE script.kind = "request" \/ arrived = Len(script.requests)
    <3>1. Available = Len(wire)
      BY <2>1, Zenon DEF Available
    <3> QED BY <1>1, <1>3, <3>1
  <2>2. CASE ~(script.kind = "request" \/ arrived = Len(script.requests))
    <3>1. Available = starts[arrived + 1]
      BY <2>2, Zenon DEF Available
    <3>2. arrived + 1 = 1
      BY <1>1
    <3>3. Available = 0
      BY <1>3, <3>1, <3>2
    <3> QED BY <1>1, <3>3
  <2> QED BY <2>1, <2>2
<1>5. pos \in 0..Len(wire) /\ arrived \in 0..Len(script.requests)
  BY <1>1, <1>2, <1>3
<1>6. PeerInv
  BY <1>1, <1>4, <1>5 DEF PeerInv
<1>7. chunk_ \in Parsers
  <2>1. PICK t \in BOOLEAN : t = FALSE
    OBVIOUS
  <2> QED BY <1>1, <2>1, NewParser
<1>8. PICK i \in Nat : i = 1
  OBVIOUS
<1>9. Due(i)
  <2>1. i \in 1..(Count + 1) /\ \A j : j \notin 1..(i - 1)
    BY <1>2, <1>8
  <2> QED BY <2>1 DEF Due
<1>10. Between(i)
  <2>1. starts[i] = 0
    BY <1>3, <1>8
  <2>2. Unread(starts[i])
    <3>1. SubSeq(wire, 0 + 1, 0) = <<>>
      BY <1>3
    <3>2. starts[i] + 1 = 0 + 1 /\ starts[i] <= pos
      BY <1>1, <2>1
    <3> QED BY <1>1, <2>1, <3>1, <3>2 DEF Unread
  <2>3. Waiting(i - 1)
    <3>1. i - 1 = 0
      BY <1>8
    <3>2. script.requests \in Seq(String)
      BY <1>1, ScriptType
    <3> DEFINE R == script.requests
    <3> HIDE DEF R
    <3>3. SubSeq(R, 0 + 1, 0) = <<>>
      BY <3>2 DEF R
    <3> QED BY <1>1, <3>1, <3>3 DEF Waiting, R
  <2>4. complete_ = Whole(i - 1)
    <3>1. Whole(0) = <<>>
      <4>1. 1..0 = {}
        OBVIOUS
      <4>2. Whole(0) = [k \in 1..0 |-> AsSent(k, Len(script.sent[k].body))]
        BY Zenon DEF Whole
      <4> QED BY <4>1, <4>2
    <3>2. i - 1 = 0
      BY <1>8
    <3> QED BY <1>1, <3>1, <3>2
  <2>5. i <= Count => pos < LineEnd(i)
    <3> SUFFICES ASSUME i <= Count PROVE pos < LineEnd(i)
      OBVIOUS
    <3>1. i \in 1..Count
      BY <1>2, <1>8
    <3>2. starts[i] < LineEnd(i) /\ LineEnd(i) \in Nat
      BY <1>6, <3>1, Places
    <3> QED BY <1>1, <2>1, <3>2
  <2> QED BY <1>1, <2>2, <2>3, <2>4, <2>5 DEF Between
<1> QED BY <1>6, <1>7, <1>9, <1>10 DEF IInv, Parsing

\* Where nothing happens nothing changes.
LEMMA Stutters ==
  ASSUME NEW i \in Nat, Due(i) /\ Parsing(i), UNCHANGED vars
  PROVE  (Due(i) /\ Parsing(i))'
<1>1. /\ UNCHANGED Peer /\ pos' = pos /\ arrived' = arrived /\ eof' = eof
      /\ buffer_' = buffer_ /\ message_' = message_ /\ chunk_' = chunk_
      /\ requests_' = requests_ /\ complete_' = complete_ /\ pc' = pc
  BY DEF vars, Peer
<1>2. Between(i) => Between(i)'
  BY <1>1, SamePeer, SameRead, SameWaiting, Zenon DEF Between, NewMessage
<1>3. \A n : InHead(i, n) => InHead(i, n)'
  BY <1>1, SamePeer, SameRead, SameWaiting, Zenon DEF InHead, HeadRead
<1>4. \A n : InBody(i, n) => InBody(i, n)'
  <2>1. \A n : Given(i, n)' = Given(i, n)
    BY <1>1, SamePeer, Zenon DEF Given
  <2>2. \A n : AtItem(i, n)' <=> AtItem(i, n)
    BY <1>1, SameItem
  <2>3. \A n : InChunks(i, n) => InChunks(i, n)'
    BY <1>1, <2>1, <2>2, SamePeer, Zenon DEF InChunks
  <2> QED BY <1>1, <2>3, SamePeer, SameRead, SameWaiting, Zenon DEF InBody
<1>5. AtEnd(i) => AtEnd(i)'
  BY <1>1, SamePeer, SameRead, SameWaiting, Zenon DEF AtEnd
<1>6. \A n : CutShort(i, n) => CutShort(i, n)'
  BY <1>1, SamePeer, Zenon DEF CutShort
<1>7. \A n : AtEof(i, n) => AtEof(i, n)'
  BY <1>1, <1>6, SamePeer, Zenon DEF AtEof
<1>8. \A n : AfterEof(i, n) => AfterEof(i, n)'
  BY <1>1, <1>6, SamePeer, Zenon DEF AfterEof, NewMessage
<1>9. Thrown(i) => Thrown(i)'
  BY <1>1, SamePeer, Zenon DEF Thrown
<1>10. Due(i)'
  BY <1>1, SamePeer
<1> QED BY <1>2, <1>3, <1>4, <1>5, <1>7, <1>8, <1>9, <1>10 DEF Parsing

\* Every step keeps the invariant.
LEMMA Inductive ==
  ASSUME WordAssumption, IInv, [Next]_vars
  PROVE  IInv'
<1>1. PeerInv /\ chunk_ \in Parsers
  BY DEF IInv
<1>2. PICK i \in Nat : Due(i) /\ Parsing(i)
  BY DEF IInv
<1>3. PeerInv'
  BY <1>1, PeerStep
<1>4. (chunk_ \in Parsers)'
  BY <1>1, <1>2, ParserStep
<1>5. \E j \in Nat : (Due(j) /\ Parsing(j))'
  <2>1. CASE UNCHANGED vars
    <3>1. (Due(i) /\ Parsing(i))'
      BY <1>2, <2>1, Stutters
    <3> QED BY <3>1
  <2>2. CASE new_request_arrived
    BY <1>1, <1>2, <2>2, NewRequestStep
  <2>3. ASSUME NEW n \in 1..Len(wire), parse(n)
        PROVE  \E j \in Nat : (Due(j) /\ Parsing(j))'
    BY <1>1, <1>2, <2>3, ParseStep
  <2>4. CASE parse_eof
    BY <1>1, <1>2, <2>4, EofStep
  <2>5. CASE NoCompleteLine
    BY <1>1, <1>2, <2>5, NoLineStep
  <2>6. CASE FirstLinePending
    BY <1>1, <1>2, <2>6, FirstLineStep
  <2>7. CASE add_header
    BY <1>1, <1>2, <2>7, AddHeaderStep
  <2>8. CASE done_with_headers
    BY <1>1, <1>2, <2>8, DoneWithHeadersStep
  <2>9. CASE read_in_body
    BY <1>1, <1>2, <2>9, ReadInBodyStep
  <2>10. CASE Rule5Read
    BY <1>1, <1>2, <2>10, Rule5ReadStep
  <2>11. CASE ChunkedRead
    BY <1>1, <1>2, <2>11, ChunkedReadStep
  <2>12. CASE ChunkHeader
    BY <1>1, <1>2, <2>12, ChunkHeaderStep
  <2>13. CASE Chunk
    BY <1>1, <1>2, <2>13, ChunkStep
  <2>14. CASE Trailer
    BY <1>1, <1>2, <2>14, TrailerStep
  <2>15. CASE ChunkBufferEmpty
    BY <1>1, <1>2, <2>15, ChunkBufferEmptyStep
  <2>16. CASE Complete
    BY <1>1, <1>2, <2>16, CompleteStep
  <2> QED BY <2>1, <2>2, <2>3, <2>4, <2>5, <2>6, <2>7, <2>8, <2>9, <2>10, <2>11,
             <2>12, <2>13, <2>14, <2>15, <2>16 DEF Next, parsing_step
<1> QED BY <1>3, <1>4, <1>5 DEF IInv
-----------------------------------------------------------------------------
(* What the invariant says of the messages that are handed on.             *)

\* Only the last message ends with the connection.
LEMMA CloseLast ==
  ASSUME script \in Scripts, NEW i \in 1..Count, Msg(i).ends = "close"
  PROVE  i = Count
<1>1. IsMessage(script, i)
  BY ScriptType
<1>2. HasItsBody(script, i)
  BY <1>1, Zenon DEF IsMessage, Msg
<1> QED BY <1>2, Zenon DEF HasItsBody, Msg, Count

\* The messages that have been read to their ends are those before the one due.
LEMMA ReceivedIs ==
  ASSUME PeerInv, NEW i \in Nat, Due(i), starts[i] <= pos,
         i <= Count => pos < starts[i + 1] \/ Msg(i).ends = "close"
  PROVE  Received = i - 1
<1>1. /\ i \in 1..(Count + 1) /\ Count \in Nat /\ script \in Scripts
      /\ DOMAIN script.sent = 1..Count /\ pos \in Nat
  <2>1. pos \in 0..Len(wire) /\ Len(wire) \in Nat
    BY AvailableIs
  <2> QED BY <2>1, DueIndex, ScriptType DEF PeerInv
<1>2. /\ \A k \in 1..(Count + 1) : starts[k] \in Nat
      /\ \A k, j \in 1..(Count + 1) : k <= j => starts[k] <= starts[j]
  BY WireLayout
<1> DEFINE R == {j \in DOMAIN script.sent :
                   script.sent[j].ends # "close" /\ starts[j + 1] <= pos}
<1>3. ASSUME NEW j \in 1..Count, j < i PROVE j \in R
  <2>1. Msg(j).ends \in {"length", "chunked"}
    <3>1. j \in 1..(i - 1)
      BY <1>1, <1>3
    <3> QED BY <3>1 DEF Due
  <2>2. j + 1 \in 1..(Count + 1) /\ j + 1 <= i
    BY <1>1, <1>3
  <2>3. starts[j + 1] <= starts[i] /\ starts[j + 1] \in Nat /\ starts[i] \in Nat
    BY <1>1, <1>2, <2>2
  <2>4. starts[j + 1] <= pos
    BY <1>1, <2>3
  <2> QED BY <1>1, <2>1, <2>4 DEF Msg
<1>4. ASSUME NEW j \in 1..Count, i <= j PROVE j \notin R
  <2>1. i \in 1..Count /\ i <= Count
    BY <1>1, <1>4
  <2>2. CASE pos < starts[i + 1]
    <3>1. i + 1 \in 1..(Count + 1) /\ j + 1 \in 1..(Count + 1) /\ i + 1 <= j + 1
      BY <1>1, <1>4, <2>1
    <3>2. starts[i + 1] <= starts[j + 1]
          /\ starts[i + 1] \in Nat /\ starts[j + 1] \in Nat
      BY <1>2, <3>1
    <3>3. ~(starts[j + 1] <= pos)
      BY <1>1, <2>2, <3>2
    <3> QED BY <3>3
  <2>3. CASE Msg(i).ends = "close"
    <3>1. i = Count
      BY <1>1, <2>1, <2>3, CloseLast
    <3>2. j = i
      BY <1>1, <1>4, <3>1
    <3> QED BY <2>3, <3>2 DEF Msg
  <2> QED BY <2>1, <2>2, <2>3
<1>5. \A j \in R : j \in 1..Count
  BY <1>1
<1> HIDE DEF R
<1>6. R = 1..(i - 1)
  <2>1. ASSUME NEW j \in R PROVE j \in 1..(i - 1)
    <3>1. j \in 1..Count /\ ~(i <= j)
      BY <1>4, <1>5
    <3> QED BY <1>1, <3>1
  <2>2. ASSUME NEW j \in 1..(i - 1) PROVE j \in R
    <3>1. j \in 1..Count /\ j < i
      BY <1>1, <2>2
    <3> QED BY <1>3, <3>1
  <2> QED BY <2>1, <2>2
<1>7. Cardinality(R) = i - 1
  <2>1. PICK n \in Nat : n = i - 1
    BY <1>1
  <2>2. \A a, b \in Int : Cardinality(a..b) = IF a > b THEN 0 ELSE b - a + 1
    BY FS_Interval
  <2>3. Cardinality(1..n) = IF 1 > n THEN 0 ELSE n - 1 + 1
    BY <2>1, <2>2
  <2>4. Cardinality(1..n) = n
    BY <2>1, <2>3
  <2> QED BY <1>6, <2>1, <2>4
<1> QED BY <1>7, Zenon DEF Received, R

\* How far the bytes reach where parse rests, or has thrown.
LEMMA Reached ==
  ASSUME PeerInv, NEW i \in Nat, Due(i), Parsing(i), pc \in {"rest", "thrown"},
         pc = "thrown" => eof
  PROVE  /\ starts[i] <= pos
         /\ i <= Count => pos < starts[i + 1] \/ Msg(i).ends = "close"
<1>1. /\ i \in 1..(Count + 1) /\ Count \in Nat /\ script \in Scripts
      /\ pos \in Nat
      /\ i <= Count => i \in 1..Count
  <2>1. pos \in 0..Len(wire) /\ Len(wire) \in Nat
    BY AvailableIs
  <2> QED BY <2>1, DueIndex DEF PeerInv
<1> DEFINE s == starts[i]
           le == LineEnd(i)
           h == HeadEnd(i)
           l == Len(Msg(i).body)
           e == starts[i + 1]
<1>2. s \in Nat
  BY <1>1, WireLayout
<1>3. i <= Count => /\ le \in Nat /\ h \in Nat /\ l \in Nat /\ e \in Nat
                    /\ s < le /\ le < h /\ e = h + l
  BY <1>1, Places
<1> HIDE DEF s, le, h, l, e
<1>4. CASE Between(i) /\ pc = "rest"
  <2>1. s <= pos /\ (i <= Count => pos < le)
    BY <1>4 DEF Between, Unread, s, le
  <2>2. i <= Count => pos < e
    BY <1>1, <1>3, <2>1
  <2> QED BY <2>1, <2>2 DEF s, e
<1>5. ASSUME NEW n \in Nat, InHead(i, n), pc = "rest"
      PROVE  s <= pos /\ i <= Count /\ pos < e
  <2>1. /\ i <= Count /\ n \in 0..Headers(i) /\ HeaderPos(i, n) <= pos
        /\ pos < NextPos(i, n)
    BY <1>5 DEF InHead, Unread
  <2>2. /\ HeaderPos(i, n) \in Nat /\ NextPos(i, n) \in Nat
        /\ le <= HeaderPos(i, n) /\ NextPos(i, n) <= h
    BY <1>1, <2>1, Places DEF le, h
  <2> QED BY <1>1, <1>2, <1>3, <2>1, <2>2
<1>6. ASSUME NEW n \in Nat, InBody(i, n), pc = "rest"
      PROVE  s <= pos /\ i <= Count /\ (pos < e \/ Msg(i).ends = "close")
  <2>1. /\ i \in 1..Count /\ i <= Count /\ Readable(i)
        /\ Rule(i).ends = "chunked" => InChunks(i, n)
        /\ Len(buffer_) = pos - (h + n) /\ h + n <= pos
    BY <1>6, InBodyWhere DEF h
  <2>2. buffer_ = <<>> /\ (Msg(i).ends = "length" => n < l)
    BY <1>6 DEF InBody, l
  <2>3. Len(buffer_) = 0
    BY <2>2
  <2>4. h + n = pos
    BY <1>1, <1>3, <2>1, <2>3
  <2>5. n < l \/ Msg(i).ends = "close"
    <3>1. /\ Rule(i).ends \in {"length", "chunked", "close"}
          /\ Rule(i).ends = "length" <=> Msg(i).ends = "length"
          /\ Rule(i).ends = "close" <=> Msg(i).ends = "close"
      BY <1>1, <2>1, ReadableEnds
    <3>2. Rule(i).ends = "chunked" => n < l
      <4>1. ASSUME Rule(i).ends = "chunked" PROVE n < l
        <5>1. AtItem(i, n)
          BY <2>1, <4>1 DEF InChunks
        <5> QED BY <1>1, <2>1, <4>1, <5>1, Unfinished DEF l
      <4> QED BY <4>1
    <3> QED BY <2>2, <3>1, <3>2
  <2>6. s <= pos /\ (n < l => pos < e)
    BY <1>1, <1>2, <1>3, <2>1, <2>4
  <2> QED BY <2>1, <2>5, <2>6
<1>7. ASSUME NEW n \in Nat, AfterEof(i, n)
      PROVE  s <= pos /\ i <= Count /\ (pos < e \/ Msg(i).ends = "close")
  <2>1. /\ i <= Count /\ h + n = pos
        /\ Msg(i).ends # "close" => pos < e
    BY <1>7 DEF AfterEof, CutShort, h, e
  <2>2. s <= pos
    BY <1>1, <1>2, <1>3, <2>1
  <2> QED BY <2>1, <2>2
<1>8. CASE pc = "thrown"
  <2>1. Thrown(i)
    <3>1. pc = "thrown" /\ pc # "rest" /\ pc # "parse" /\ pc # "chunk"
      BY <1>8
    <3> QED BY <3>1, Zenon
            DEF Parsing, Between, InHead, InBody, AtEnd, AtEof, AfterEof
  <2>2. pos >= le /\ pos < e
    BY <1>8, <2>1 DEF Thrown, le, e
  <2>3. i <= Count
    BY <2>1 DEF Thrown
  <2>4. s <= pos
    BY <1>1, <1>2, <1>3, <2>2, <2>3
  <2> QED BY <2>2, <2>4 DEF s, e
<1>9. CASE pc = "rest"
  <2>1. \/ Between(i) \/ \E n \in Nat : InHead(i, n)
        \/ \E n \in Nat : InBody(i, n)
        \/ \E n \in Nat : AfterEof(i, n)
    BY <1>9, Phases
  <2> QED BY <1>4, <1>5, <1>6, <1>7, <1>9, <2>1 DEF s, e
<1> QED BY <1>8, <1>9

\* What has been handed on is what was sent before the message that is due.
LEMMA Framed ==
  ASSUME IInv
  PROVE  FramedAsSent
<1>1. PICK i \in Nat : Due(i) /\ Parsing(i)
  BY DEF IInv
<1>2. PeerInv /\ script \in Scripts
  BY DEF IInv, PeerInv
<1> SUFFICES ASSUME pc \in {"rest", "thrown"}, ~eof
             PROVE  /\ complete_ = Whole(Len(complete_))
                    /\ \A j \in DOMAIN complete_ : Accepted(j)
                    /\ pc = "rest" => Len(complete_) = Received
                    /\ pc = "thrown" => ~Accepted(Len(complete_) + 1)
  BY DEF FramedAsSent
<1>3. complete_ = Whole(i - 1)
  BY <1>1, Zenon DEF Parsing, Between, InHead, InBody, AtEnd, AtEof, AfterEof,
     CutShort, Thrown
<1>4. PICK k \in Nat : k = i - 1 /\ k + 1 = i
  <2>1. i \in 1..(Count + 1) /\ Count \in Nat
    BY <1>1, <1>2, DueIndex
  <2> QED BY <2>1
<1>5. Len(complete_) = k /\ complete_ = Whole(k)
  BY <1>3, <1>4, WholeNext
<1>6. ASSUME NEW j \in DOMAIN complete_ PROVE Accepted(j)
  <2>1. DOMAIN complete_ = 1..k
    BY <1>5, Zenon DEF Whole
  <2>2. Msg(j).ends \in {"length", "chunked"}
    BY <1>1, <1>4, <2>1 DEF Due
  <2> QED BY <2>2 DEF Accepted, Msg
<1>7. ASSUME pc = "rest" PROVE Len(complete_) = Received
  <2>1. pc # "thrown"
    BY <1>7
  <2>2. /\ starts[i] <= pos
        /\ i <= Count => pos < starts[i + 1] \/ Msg(i).ends = "close"
    BY <1>1, <1>2, <2>1, Reached
  <2> QED BY <1>1, <1>2, <1>4, <1>5, <2>2, ReceivedIs
<1>8. ASSUME pc = "thrown" PROVE ~Accepted(Len(complete_) + 1)
  <2>1. Thrown(i)
    <3>1. pc = "thrown" /\ pc # "rest" /\ pc # "parse" /\ pc # "chunk"
      BY <1>8
    <3> QED BY <1>1, <3>1, Zenon
            DEF Parsing, Between, InHead, InBody, AtEnd, AtEof, AfterEof
  <2>2. ~Accepted(i)
    BY <2>1 DEF Thrown
  <2> QED BY <1>4, <1>5, <2>2
<1> QED BY <1>5, <1>6, <1>7, <1>8

\* What the end of file ends is the message that is due.
LEMMA Ended ==
  ASSUME IInv
  PROVE  EndedAsSent
<1>1. PICK i \in Nat : Due(i) /\ Parsing(i)
  BY DEF IInv
<1>2. PeerInv /\ script \in Scripts
  BY DEF IInv, PeerInv
<1> SUFFICES ASSUME pc \in {"rest", "thrown"}, eof PROVE EndedAsSent
  BY DEF EndedAsSent
<1>3. /\ i \in 1..(Count + 1) /\ Count \in Nat /\ Count = Len(script.sent)
      /\ i <= Count => i \in 1..Count
  BY <1>1, <1>2, DueIndex DEF Count
<1>4. Received + 1 = i
  <2>1. pc \in {"rest", "thrown"} /\ (pc = "thrown" => eof)
    OBVIOUS
  <2>2. /\ starts[i] <= pos
        /\ i <= Count => pos < starts[i + 1] \/ Msg(i).ends = "close"
    BY <1>1, <1>2, <2>1, Reached
  <2>3. Received = i - 1
    BY <1>1, <1>2, <2>2, ReceivedIs
  <2> QED BY <1>3, <2>3
<1> DEFINE cut == i <= Len(script.sent) /\ pos >= LineEnd(i)
           ends == /\ cut /\ pos >= HeadEnd(i)
                   /\ script.sent[i].ends \in {"chunked", "close"}
<1> SUFFICES ASSUME i > Len(script.sent) \/ Accepted(i)
             PROVE  /\ (pc = "thrown") <=> (cut /\ ~ends)
                    /\ complete_ = IF ends
                                   THEN Append(Whole(i - 1),
                                               AsSent(i, pos - HeadEnd(i)))
                                   ELSE Whole(i - 1)
  BY <1>4, Zenon DEF EndedAsSent
<1>5. pos \in Nat
  <2>1. pos \in 0..Len(wire) /\ Len(wire) \in Nat
    BY <1>2, AvailableIs
  <2> QED BY <2>1
<1>6. i <= Count => /\ LineEnd(i) \in Nat /\ HeadEnd(i) \in Nat
                    /\ LineEnd(i) < HeadEnd(i)
  BY <1>2, <1>3, Places
<1>7. CASE Between(i)
  <2>1. /\ pc \in {"parse", "rest"} /\ complete_ = Whole(i - 1)
        /\ i <= Count => pos < LineEnd(i)
    BY <1>7 DEF Between
  <2>2. ~cut
    <3> DEFINE le == LineEnd(i)
    <3>1. i <= Count => le \in Nat
      BY <1>6
    <3> HIDE DEF le
    <3> QED BY <1>3, <1>5, <2>1, <3>1 DEF le
  <2> HIDE DEF cut
  <2> QED BY <2>1, <2>2
<1>8. ASSUME NEW n \in Nat, AfterEof(i, n)
      PROVE  /\ (pc = "thrown") <=> (cut /\ ~ends)
             /\ complete_ = IF ends
                            THEN Append(Whole(i - 1),
                                        AsSent(i, pos - HeadEnd(i)))
                            ELSE Whole(i - 1)
  <2>1. /\ pc \in {"parse", "rest"} /\ i <= Count
        /\ Msg(i).ends \in {"chunked", "close", "refused"}
        /\ pos = HeadEnd(i) + n
        /\ complete_ = Append(Whole(i - 1), AsSent(i, n))
    BY <1>8 DEF AfterEof, CutShort
  <2>2. script.sent[i].ends \in {"chunked", "close"}
    <3>1. Accepted(i)
      BY <1>3, <2>1
    <3> QED BY <2>1, <3>1 DEF Accepted, Msg
  <2>3. pos >= HeadEnd(i) /\ pos >= LineEnd(i) /\ pos - HeadEnd(i) = n
    <3> DEFINE h == HeadEnd(i)
               le == LineEnd(i)
    <3>1. h \in Nat /\ le \in Nat /\ le < h /\ pos = h + n
      BY <1>6, <2>1
    <3> HIDE DEF h, le
    <3>2. pos >= h /\ pos >= le /\ pos - h = n
      BY <3>1
    <3> QED BY <3>2 DEF h, le
  <2>4. cut /\ ends
    BY <1>3, <2>1, <2>2, <2>3
  <2>5. AsSent(i, pos - HeadEnd(i)) = AsSent(i, n)
    BY <2>3
  <2> HIDE DEF cut, ends
  <2> QED BY <2>1, <2>4, <2>5
<1>9. CASE Thrown(i)
  <2>1. /\ pc = "thrown" /\ i <= Count /\ complete_ = Whole(i - 1)
        /\ pos >= LineEnd(i)
        /\ pos < HeadEnd(i) \/ Msg(i).ends \notin {"chunked", "close"}
    BY <1>9 DEF Thrown
  <2>2. cut
    BY <1>3, <2>1
  <2>3. ~ends
    <3> DEFINE h == HeadEnd(i)
    <3>1. h \in Nat
      BY <1>6, <2>1
    <3>2. ASSUME pos < h PROVE ~(pos >= h)
      <4> HIDE DEF h
      <4> QED BY <1>5, <3>1, <3>2
    <3> QED BY <2>1, <3>2 DEF Msg
  <2> HIDE DEF cut, ends
  <2> QED BY <2>1, <2>2, <2>3
<1>10. Between(i) \/ Thrown(i) \/ \E n \in Nat : AfterEof(i, n)
  <2>1. pc # "parse" /\ eof
    OBVIOUS
  <2> QED BY <1>1, <2>1, Zenon DEF Parsing, InHead, InBody, AtEnd, AtEof
<1> QED BY <1>7, <1>8, <1>9, <1>10

-----------------------------------------------------------------------------
\* In every state the parser is between two messages of the script, in the one
\* that is due, or done with it: what it has taken and what it keeps are what
\* the bytes read so far say.
THEOREM MessagesInvariant == Spec => []IInv
<1>1. Init => IInv
  BY AtStart
<1>2. IInv /\ [Next]_vars => IInv'
  BY WordAssumption, Inductive
<1> QED BY <1>1, <1>2, PTL DEF Spec

\* However a well-formed script is cut into reads, its messages are handed on
\* as they were sent, each as soon as its last byte has been read and each with
\* the request it answers, and parse throws only in one it is to refuse
\* (http_message_sequence.hh:140).
THEOREM Framing == Spec => []FramedAsSent
<1>1. IInv => FramedAsSent
  BY Framed
<1> QED BY <1>1, MessagesInvariant, PTL

\* The end of file ends a body that is chunked or has no length, with what there
\* is of it, throws in one that has a length, and in the headers, and changes
\* nothing between messages (http_message.cc:68).
THEOREM Ending == Spec => []EndedAsSent
<1>1. IInv => EndedAsSent
  BY Ended
<1> QED BY <1>1, MessagesInvariant, PTL

\* The assertions of the chunked parser (chunked_parser.cc:63) and of
\* parsing_step (http_message_sequence.hh:125) hold: a chunk ends with CRLF, and
\* all of the buffer is taken unless the message is complete.
THEOREM Assertions == Spec => []AssertionsHold
<1>1. IInv => AssertionsHold
  <2> SUFFICES ASSUME IInv PROVE pc # "abort"
    BY DEF AssertionsHold
  <2>1. PICK i \in Nat : Parsing(i)
    BY DEF IInv
  <2>2. pc \in {"parse", "rest", "chunk", "thrown"}
    BY <2>1, Phases
  <2> QED BY <2>2
<1> QED BY <1>1, MessagesInvariant, PTL

=============================================================================
