----------------------------- MODULE OrderedFacts -----------------------------
(***************************************************************************)
(* Facts about the sequences of the models, for sequences of any length:   *)
(* induction over the natural numbers, sets in their order (InOrder,       *)
(* Picked), and the concatenation of a sequence of sequences (FlattenSeq). *)
(*                                                                         *)
(* Induction is stated for a set of numbers, so that no operator has to be *)
(* a parameter: it follows from the well-foundedness of < on Nat.          *)
(***************************************************************************)
EXTENDS Ordered, SequencesExt, FunctionTheorems, FiniteSetTheorems,
        SequenceTheorems, WellFoundedInduction, TLAPS

-----------------------------------------------------------------------------
(***************************************************************************)
(* Induction                                                               *)
(***************************************************************************)
LEMMA NatOrder == IsWellFoundedOn({ss \in Nat \X Nat : ss[1] < ss[2]}, Nat)
  <1> DEFINE R == OpToRel(<, Nat)
  <1>1. IsWellFoundedOn(R, Nat)
    BY NatLessThanWellFounded, Zenon
  <1>2. R = {ss \in Nat \X Nat : ss[1] < ss[2]}
    BY Zenon DEF OpToRel
  <1> QED
    BY <1>1, <1>2, Zenon

LEMMA LeastNat ==
  ASSUME NEW S \in SUBSET Nat, S # {}
  PROVE  \E n \in S : \A m \in S : n <= m
  <1> DEFINE R == {ss \in Nat \X Nat : ss[1] < ss[2]}
  <1>1. IsWellFoundedOn(R, Nat)
    BY NatOrder
  <1>2. \E x \in S : \A y \in S : ~ (<<y, x>> \in R)
    <2> HIDE DEF R
    <2> QED
      BY <1>1, WFMin
  <1>3. PICK x \in S : \A y \in S : ~ (<<y, x>> \in R)
    BY <1>2
  <1>4. ASSUME NEW y \in S PROVE x <= y
    <2>1. x \in Nat /\ y \in Nat
      OBVIOUS
    <2>2. ~ (y < x)
      BY <1>3, <2>1
    <2> QED
      BY <2>1, <2>2
  <1> QED
    BY <1>4

LEMMA NatInd ==
  ASSUME NEW S \in SUBSET Nat, 0 \in S, \A n \in S : n + 1 \in S
  PROVE  S = Nat
  <1> DEFINE T == Nat \ S
  <1>1. SUFFICES ASSUME T # {} PROVE FALSE
    OBVIOUS
  <1>2. PICK n \in T : \A m \in T : n <= m
    <2> T \in SUBSET Nat
      OBVIOUS
    <2> HIDE DEF T
    <2> QED
      BY <1>1, LeastNat
  <1>3. n # 0 /\ n - 1 \in Nat
    OBVIOUS
  <1>4. n - 1 \notin S
    BY <1>3
  <1> QED
    BY <1>2, <1>3, <1>4

-----------------------------------------------------------------------------
(***************************************************************************)
(* Sets in their order                                                     *)
(***************************************************************************)
\* the elements of S below i, and how many they are
Below(S, i) == {j \in S : j < i}
Rank(S, i) == Cardinality(Below(S, i)) + 1

\* A rank is a place, and larger elements have larger ranks.
LEMMA RankFacts ==
  ASSUME NEW S \in SUBSET Int, IsFiniteSet(S)
  PROVE  /\ \A i \in S : Rank(S, i) \in 1 .. Cardinality(S)
         /\ \A i, j \in S : i < j => Rank(S, i) < Rank(S, j)
  <1>1. ASSUME NEW i \in S
        PROVE  /\ IsFiniteSet(Below(S, i)) /\ Cardinality(Below(S, i)) \in Nat
               /\ Cardinality(Below(S, i) \cup {i}) = Cardinality(Below(S, i)) + 1
               /\ IsFiniteSet(Below(S, i) \cup {i})
    <2>1. Below(S, i) \in SUBSET S /\ i \notin Below(S, i)
      BY DEF Below
    <2>2. IsFiniteSet(Below(S, i))
      BY <2>1, FS_Subset
    <2> QED
      BY <2>1, <2>2, FS_CardinalityType, FS_AddElement
  <1>2. ASSUME NEW i \in S
        PROVE  Rank(S, i) \in 1 .. Cardinality(S)
    <2>1. Below(S, i) \cup {i} \in SUBSET S
      BY DEF Below
    <2>2. Cardinality(Below(S, i) \cup {i}) <= Cardinality(S)
      BY <2>1, FS_Subset
    <2>3. Cardinality(S) \in Nat
      BY FS_CardinalityType
    <2> QED
      BY <1>1, <2>2, <2>3 DEF Rank
  <1>3. ASSUME NEW i \in S, NEW j \in S, i < j
        PROVE  Rank(S, i) < Rank(S, j)
    <2>1. Below(S, i) \cup {i} \in SUBSET Below(S, j)
      <3>1. i \in Int /\ j \in Int /\ \A h \in S : h \in Int
        OBVIOUS
      <3>2. \A h \in S : h < i => h < j
        BY <1>3, <3>1
      <3> QED
        BY <1>3, <3>2 DEF Below
    <2>2. Cardinality(Below(S, i) \cup {i}) <= Cardinality(Below(S, j))
      BY <1>1, <2>1, FS_Subset
    <2>3. Cardinality(Below(S, i)) \in Nat /\ Cardinality(Below(S, j)) \in Nat
          /\ Cardinality(Below(S, i) \cup {i}) = Cardinality(Below(S, i)) + 1
      BY <1>1
    <2> QED
      BY <2>2, <2>3 DEF Rank
  <1> QED
    BY <1>2, <1>3

\* sorted() keeps the elements, each at the place of its rank.
LEMMA InOrderFacts ==
  ASSUME NEW S \in SUBSET Int, IsFiniteSet(S)
  PROVE  /\ Cardinality(S) \in Nat
         /\ InOrder(S) \in Seq(S)
         /\ Len(InOrder(S)) = Cardinality(S)
         /\ DOMAIN InOrder(S) = 1 .. Cardinality(S)
         /\ \A i \in S : InOrder(S)[Rank(S, i)] = i
         /\ \A k \in 1 .. Cardinality(S) :
               InOrder(S)[k] \in S /\ Rank(S, InOrder(S)[k]) = k
         /\ \A k, l \in 1 .. Cardinality(S) : k < l => InOrder(S)[k] < InOrder(S)[l]
         /\ Range(InOrder(S)) = S
  <1> DEFINE n == Cardinality(S)
             f == [i \in S |-> Rank(S, i)]
  <1>1. n \in Nat
    BY FS_CardinalityType
  <1>2. /\ \A i \in S : Rank(S, i) \in 1 .. n
        /\ \A i, j \in S : i < j => Rank(S, i) < Rank(S, j)
    BY RankFacts
  <1>3. \A i, j \in S : Rank(S, i) = Rank(S, j) => i = j
    <2> SUFFICES ASSUME NEW i \in S, NEW j \in S, Rank(S, i) = Rank(S, j), i # j
                 PROVE  FALSE
      OBVIOUS
    <2>1. i \in Int /\ j \in Int /\ Rank(S, i) \in Int
      BY <1>1, <1>2
    <2>2. i < j \/ j < i
      BY <2>1
    <2> QED
      BY <1>2, <2>1, <2>2
  <1>4. f \in Injection(S, 1 .. n)
    BY <1>2, <1>3 DEF Injection, IsInjective
  <1>5. IsFiniteSet(1 .. n) /\ Cardinality(1 .. n) = n
    BY <1>1, FS_Interval
  <1>6. f \in Surjection(S, 1 .. n)
    <2> HIDE DEF f
    <2> QED
      BY <1>4, <1>5, FS_Injection
  <1>7. \A k \in 1 .. n : \E i \in S : Rank(S, i) = k
    BY <1>6 DEF Surjection
  <1>8. ASSUME NEW k \in 1 .. n
        PROVE  InOrder(S)[k] \in S /\ Rank(S, InOrder(S)[k]) = k
    <2>1. PICK i \in S : Rank(S, i) = k
      BY <1>7
    <2>2. \A j \in S : Rank(S, j) = k <=> Cardinality({h \in S : h < j}) = k - 1
      <3> SUFFICES ASSUME NEW j \in S
                   PROVE  Rank(S, j) = k <=> Cardinality({h \in S : h < j}) = k - 1
        OBVIOUS
      <3>1. Cardinality(Below(S, j)) \in Nat
        <4>1. Below(S, j) \in SUBSET S
          BY DEF Below
        <4> QED
          BY <4>1, FS_Subset, FS_CardinalityType
      <3> QED
        BY <1>1, <3>1 DEF Rank, Below
    <2>3. InOrder(S)[k] = CHOOSE j \in S : Cardinality({h \in S : h < j}) = k - 1
      BY DEF InOrder
    <2> QED
      BY <2>1, <2>2, <2>3
  <1>9. /\ InOrder(S) = [k \in 1 .. n |-> InOrder(S)[k]]
        /\ DOMAIN InOrder(S) = 1 .. n
    <2> DEFINE e(k) == CHOOSE j \in S : Cardinality({h \in S : h < j}) = k - 1
    <2>1. InOrder(S) = [k \in 1 .. n |-> e(k)]
      BY DEF InOrder
    <2> HIDE DEF e, n
    <2>2. DOMAIN InOrder(S) = 1 .. n /\ \A k \in 1 .. n : InOrder(S)[k] = e(k)
      BY <2>1
    <2> QED
      BY <2>1, <2>2
  <1>10. InOrder(S) \in Seq(S) /\ Len(InOrder(S)) = n
    <2>1. InOrder(S) \in [1 .. n -> S]
      BY <1>8, <1>9
    <2> HIDE DEF n
    <2> QED
      BY <1>1, <2>1, SeqDef, LenProperties
  <1>11. \A i \in S : InOrder(S)[Rank(S, i)] = i
    BY <1>2, <1>3, <1>8
  <1>12. ASSUME NEW k \in 1 .. n, NEW l \in 1 .. n, k < l
         PROVE  InOrder(S)[k] < InOrder(S)[l]
    <2> DEFINE a == InOrder(S)[k]
               b == InOrder(S)[l]
    <2>1. a \in S /\ b \in S /\ Rank(S, a) = k /\ Rank(S, b) = l
      BY <1>8
    <2> HIDE DEF a, b
    <2>2. a \in Int /\ b \in Int /\ k \in Int /\ l \in Int
      BY <2>1
    <2>3. ~ (b < a) /\ a # b
      BY <1>2, <1>12, <2>1, <2>2
    <2>4. a < b
      BY <2>2, <2>3
    <2> QED
      BY <2>4 DEF a, b
  <1>13. Range(InOrder(S)) = S
    BY <1>2, <1>8, <1>9, <1>11 DEF Range
  <1> QED
    BY <1>1, <1>8, <1>9, <1>10, <1>11, <1>12, <1>13

\* What stands in increasing order is the set of its elements, sorted.
LEMMA IncreasingInOrder ==
  ASSUME NEW m \in Nat, NEW f \in [1 .. m -> Int],
         \A k, l \in 1 .. m : k < l => f[k] < f[l],
         NEW S, S = {f[k] : k \in 1 .. m}
  PROVE  /\ IsFiniteSet(S) /\ Cardinality(S) = m
         /\ InOrder(S) = f
  <1>1. \A k, l \in 1 .. m : f[k] = f[l] => k = l
    <2> SUFFICES ASSUME NEW k \in 1 .. m, NEW l \in 1 .. m, f[k] = f[l], k # l
                 PROVE  FALSE
      OBVIOUS
    <2>1. k < l \/ l < k
      OBVIOUS
    <2>2. f[k] \in Int /\ f[l] \in Int
      OBVIOUS
    <2> QED
      BY <2>1, <2>2
  <1>2. ASSUME NEW n \in 0 .. m
        PROVE  LET T == {f[k] : k \in 1 .. n}
               IN  IsFiniteSet(T) /\ Cardinality(T) = n
    <2> DEFINE T == {f[k] : k \in 1 .. n}
               g == [k \in 1 .. n |-> f[k]]
    <2>1. g \in Bijection(1 .. n, T)
      BY <1>1 DEF Bijection, Injection, Surjection, IsInjective
    <2> HIDE DEF T, g
    <2>2. ExistsBijection(1 .. n, T)
      BY <2>1 DEF ExistsBijection
    <2>3. n \in Nat
      OBVIOUS
    <2>4. IsFiniteSet(T) /\ Cardinality(T) = n
      BY <2>2, <2>3, FS_NatBijection, FS_CountingElements
    <2> QED
      BY <2>4 DEF T
  <1>3. IsFiniteSet(S) /\ Cardinality(S) = m /\ S \in SUBSET Int
    <2>1. m \in 0 .. m
      OBVIOUS
    <2>2. S \in SUBSET Int
      OBVIOUS
    <2> QED
      BY <1>2, <2>1, <2>2
  <1>4. ASSUME NEW k \in 1 .. m
        PROVE  Rank(S, f[k]) = k
    <2>1. Below(S, f[k]) = {f[j] : j \in 1 .. (k - 1)}
      <3>1. ASSUME NEW j \in 1 .. m
            PROVE  f[j] < f[k] <=> j < k
        <4>1. f[k] \in Int /\ f[j] \in Int
          OBVIOUS
        <4>2. CASE j < k
          BY <4>2
        <4>3. CASE j = k
          BY <4>1, <4>3
        <4>4. CASE k < j
          <5>1. f[k] < f[j]
            BY <4>4
          <5> QED
            BY <4>1, <4>4, <5>1
        <4> QED
          BY <4>2, <4>3, <4>4
      <3>2. ASSUME NEW x \in Below(S, f[k])
            PROVE  x \in {f[j] : j \in 1 .. (k - 1)}
        <4>1. PICK j \in 1 .. m : x = f[j] /\ f[j] < f[k]
          BY DEF Below
        <4> QED
          BY <3>1, <4>1
      <3>3. ASSUME NEW j \in 1 .. (k - 1)
            PROVE  f[j] \in Below(S, f[k])
        <4>1. j \in 1 .. m /\ j < k
          OBVIOUS
        <4> QED
          BY <3>1, <4>1 DEF Below
      <3> QED
        BY <3>2, <3>3
    <2>2. k - 1 \in 0 .. m
      OBVIOUS
    <2>3. Cardinality(Below(S, f[k])) = k - 1
      BY <1>2, <2>1, <2>2
    <2> QED
      BY <2>3 DEF Rank
  <1>5. ASSUME NEW k \in 1 .. m PROVE InOrder(S)[k] = f[k]
    <2>1. f[k] \in S
      OBVIOUS
    <2>2. InOrder(S)[Rank(S, f[k])] = f[k]
      BY <1>3, <2>1, InOrderFacts
    <2> QED
      BY <1>4, <2>2
  <1>6. InOrder(S) \in [1 .. m -> S]
    <2>1. InOrder(S) \in Seq(S) /\ Len(InOrder(S)) = m
      BY <1>3, InOrderFacts
    <2> QED
      BY <2>1, LenProperties
  <1> QED
    BY <1>3, <1>5, <1>6

-----------------------------------------------------------------------------
(***************************************************************************)
(* The places of a sequence                                                *)
(***************************************************************************)
\* What stands at some places of a list, as long as the places are many.
LEMMA PickedFacts ==
  ASSUME NEW T, NEW s \in Seq(T), NEW I \in SUBSET DOMAIN s
  PROVE  /\ IsFiniteSet(I) /\ Cardinality(I) \in Nat
         /\ Picked(s, I) \in Seq(T)
         /\ Len(Picked(s, I)) = Cardinality(I)
         /\ \A k \in 1 .. Cardinality(I) :
               /\ InOrder(I)[k] \in I
               /\ Picked(s, I)[k] = s[InOrder(I)[k]]
  <1>1. DOMAIN s = 1 .. Len(s) /\ Len(s) \in Nat
    BY LenProperties
  <1>2. IsFiniteSet(I) /\ I \in SUBSET Int
    <2>1. IsFiniteSet(1 .. Len(s))
      BY <1>1, FS_Interval
    <2>2. IsFiniteSet(I)
      BY <1>1, <2>1, FS_Subset
    <2> QED
      BY <1>1, <2>2
  <1>3. /\ DOMAIN InOrder(I) = 1 .. Cardinality(I) /\ Cardinality(I) \in Nat
        /\ \A k \in 1 .. Cardinality(I) : InOrder(I)[k] \in I
    BY <1>2, InOrderFacts
  <1>4. Picked(s, I) = [k \in 1 .. Cardinality(I) |-> s[InOrder(I)[k]]]
    BY <1>3 DEF Picked
  <1>5. \A i \in I : s[i] \in T
    BY <1>1, ElementOfSeq
  <1> QED
    BY <1>2, <1>3, <1>4, <1>5

\* All places of a list hold the list.
LEMMA PickedAll ==
  ASSUME NEW T, NEW s \in Seq(T)
  PROVE  Picked(s, DOMAIN s) = s
  <1> DEFINE m == Len(s)
             f == [k \in 1 .. m |-> k]
  <1>1. m \in Nat /\ DOMAIN s = 1 .. m /\ s \in [1 .. m -> T]
    BY LenProperties
  <1>2. InOrder(1 .. m) = f
    <2>1. /\ f \in [1 .. m -> Int]
          /\ \A k, l \in 1 .. m : k < l => f[k] < f[l]
          /\ 1 .. m = {f[k] : k \in 1 .. m}
      BY <1>1
    <2> HIDE DEF f, m
    <2> QED
      BY <2>1, <1>1, IncreasingInOrder
  <1> QED
    BY <1>1, <1>2 DEF Picked

-----------------------------------------------------------------------------
(***************************************************************************)
(* Concatenation                                                           *)
(***************************************************************************)
\* F holds, at each place, the concatenation of the sequences up to there.
Flattens(F, seqs) ==
    /\ DOMAIN F = 1 .. Len(seqs)
    /\ \A i \in 1 .. Len(seqs) :
          F[i] = IF i = 1 THEN seqs[i] ELSE F[i - 1] \o seqs[i]

LEMMA FlattensStep ==
  ASSUME NEW seqs, Len(seqs) \in Nat, NEW F, Flattens(F, seqs)
  PROVE  /\ Len(seqs) >= 1 => F[1] = seqs[1]
         /\ \A n \in Nat : n # 0 /\ n + 1 <= Len(seqs)
                          => F[n + 1] = F[n] \o seqs[n + 1]
  <1>1. Len(seqs) >= 1 => 1 \in 1 .. Len(seqs)
    OBVIOUS
  <1>2. ASSUME NEW n \in Nat, n # 0, n + 1 <= Len(seqs)
        PROVE  F[n + 1] = F[n] \o seqs[n + 1]
    <2>1. n + 1 \in 1 .. Len(seqs) /\ n + 1 # 1 /\ (n + 1) - 1 = n
      BY <1>2
    <2>2. F[n + 1] = IF n + 1 = 1 THEN seqs[n + 1] ELSE F[(n + 1) - 1] \o seqs[n + 1]
      BY <2>1, Zenon DEF Flattens
    <2> QED
      BY <2>1, <2>2
  <1> QED
    BY <1>1, <1>2 DEF Flattens

LEMMA FlattensTyped ==
  ASSUME NEW T, NEW seqs \in Seq(Seq(T)), NEW F, Flattens(F, seqs)
  PROVE  \A i \in 1 .. Len(seqs) : F[i] \in Seq(T)
  <1> DEFINE S == {n \in Nat : n \in 1 .. Len(seqs) => F[n] \in Seq(T)}
  <1>1. Len(seqs) \in Nat /\ \A i \in 1 .. Len(seqs) : seqs[i] \in Seq(T)
    BY LenProperties, ElementOfSeq
  <1>2. 0 \in S
    OBVIOUS
  <1>3. ASSUME NEW n \in S PROVE n + 1 \in S
    <2> SUFFICES ASSUME n + 1 \in 1 .. Len(seqs) PROVE F[n + 1] \in Seq(T)
      OBVIOUS
    <2>1. seqs[n + 1] \in Seq(T)
      BY <1>1
    <2>2. CASE n = 0
      <3>1. F[1] = seqs[1]
        <4>1. Len(seqs) >= 1
          BY <1>1, <2>2
        <4> QED
          BY <1>1, <4>1, FlattensStep
      <3> QED
        BY <2>1, <2>2, <3>1
    <2>3. CASE n # 0
      <3>1. n \in 1 .. Len(seqs) /\ F[n] \in Seq(T) /\ n + 1 <= Len(seqs)
        BY <1>1, <2>3
      <3>2. F[n + 1] = F[n] \o seqs[n + 1]
        BY <1>1, <2>3, <3>1, FlattensStep
      <3> QED
        BY <2>1, <3>1, <3>2, ConcatProperties
    <2> QED
      BY <2>2, <2>3
  <1>4. S = Nat
    <2> S \in SUBSET Nat
      OBVIOUS
    <2> HIDE DEF S
    <2> QED
      BY <1>2, <1>3, NatInd
  <1>5. ASSUME NEW i \in 1 .. Len(seqs) PROVE F[i] \in Seq(T)
    <2>1. i \in S
      <3>1. i \in Nat
        BY <1>1
      <3> HIDE DEF S
      <3> QED
        BY <1>4, <3>1
    <2> QED
      BY <2>1
  <1> QED
    BY <1>5

LEMMA FlattensUnique ==
  ASSUME NEW seqs, Len(seqs) \in Nat, NEW F, NEW G,
         Flattens(F, seqs), Flattens(G, seqs)
  PROVE  \A i \in 1 .. Len(seqs) : F[i] = G[i]
  <1> DEFINE S == {n \in Nat : n \in 1 .. Len(seqs) => F[n] = G[n]}
  <1>1. 0 \in S
    OBVIOUS
  <1>2. ASSUME NEW n \in S PROVE n + 1 \in S
    <2> SUFFICES ASSUME n + 1 \in 1 .. Len(seqs) PROVE F[n + 1] = G[n + 1]
      OBVIOUS
    <2>1. CASE n = 0
      <3>1. F[1] = seqs[1] /\ G[1] = seqs[1]
        <4>1. Len(seqs) >= 1
          BY <2>1
        <4> QED
          BY <4>1, FlattensStep
      <3> QED
        BY <2>1, <3>1
    <2>2. CASE n # 0
      <3>1. n \in 1 .. Len(seqs) /\ F[n] = G[n] /\ n + 1 <= Len(seqs)
        BY <2>2
      <3>2. F[n + 1] = F[n] \o seqs[n + 1] /\ G[n + 1] = G[n] \o seqs[n + 1]
        BY <2>2, <3>1, FlattensStep
      <3> QED
        BY <3>1, <3>2
    <2> QED
      BY <2>1, <2>2
  <1>3. S = Nat
    <2> S \in SUBSET Nat
      OBVIOUS
    <2> HIDE DEF S
    <2> QED
      BY <1>1, <1>2, NatInd
  <1> QED
    BY <1>3

LEMMA FlattensExists ==
  ASSUME NEW seqs, Len(seqs) \in Nat
  PROVE  \E F : Flattens(F, seqs)
  <1> DEFINE Up(F, n) ==
               /\ DOMAIN F = 1 .. n
               /\ \A i \in 1 .. n :
                     F[i] = IF i = 1 THEN seqs[i] ELSE F[i - 1] \o seqs[i]
             S == {n \in Nat : \E F : Up(F, n)}
  <1>1. 0 \in S
    <2>1. Up([i \in 1 .. 0 |-> 0], 0)
      OBVIOUS
    <2> QED
      BY <2>1
  <1>2. ASSUME NEW n \in S PROVE n + 1 \in S
    <2>1. PICK F : Up(F, n)
      OBVIOUS
    <2> DEFINE next == IF n = 0 THEN seqs[1] ELSE F[n] \o seqs[n + 1]
               G == [i \in 1 .. (n + 1) |-> IF i = n + 1 THEN next ELSE F[i]]
    <2>2. ASSUME NEW i \in 1 .. (n + 1)
          PROVE  G[i] = IF i = 1 THEN seqs[i] ELSE G[i - 1] \o seqs[i]
      <3>1. CASE i = n + 1 /\ n = 0
        BY <3>1
      <3>2. CASE i = n + 1 /\ n # 0
        <4>1. i # 1 /\ i - 1 = n /\ n \in 1 .. (n + 1) /\ n # n + 1
          BY <3>2
        <4>2. G[i] = F[n] \o seqs[i] /\ G[i - 1] = F[n]
          BY <3>2, <4>1
        <4> QED
          BY <4>1, <4>2
      <3>3. CASE i # n + 1 /\ i = 1
        <4>1. i \in 1 .. n
          BY <3>3
        <4>2. G[i] = F[i] /\ F[i] = seqs[i]
          BY <2>1, <3>3, <4>1
        <4> QED
          BY <3>3, <4>2
      <3>4. CASE i # n + 1 /\ i # 1
        <4>1. /\ i \in 1 .. n /\ i - 1 \in 1 .. n /\ i - 1 # n + 1
              /\ i - 1 \in 1 .. (n + 1)
          BY <3>4
        <4>2. G[i] = F[i] /\ G[i - 1] = F[i - 1] /\ F[i] = F[i - 1] \o seqs[i]
          BY <2>1, <3>4, <4>1
        <4> QED
          BY <3>4, <4>2
      <3> QED
        BY <3>1, <3>2, <3>3, <3>4
    <2>3. DOMAIN G = 1 .. (n + 1)
      OBVIOUS
    <2> HIDE DEF G
    <2>4. Up(G, n + 1)
      BY <2>2, <2>3
    <2> HIDE DEF Up
    <2>5. \E H : Up(H, n + 1)
      BY <2>4
    <2> QED
      BY <2>5
  <1>3. S = Nat
    <2> S \in SUBSET Nat
      OBVIOUS
    <2> HIDE DEF S
    <2> QED
      BY <1>1, <1>2, NatInd
  <1>4. \E F : Up(F, Len(seqs))
    BY <1>3
  <1> QED
    BY <1>4 DEF Flattens

\* FlattenSeq is what every function of that kind ends with.
LEMMA FlattenIs ==
  ASSUME NEW seqs, Len(seqs) \in Nat, NEW F, Flattens(F, seqs)
  PROVE  FlattenSeq(seqs) = IF Len(seqs) = 0 THEN seqs ELSE F[Len(seqs)]
  <1>1. CASE Len(seqs) = 0
    BY <1>1 DEF FlattenSeq
  <1>2. CASE Len(seqs) # 0
    <2> DEFINE n == Len(seqs)
               Rec(G) == G = [i \in 1 .. n |-> IF i = 1 THEN seqs[i]
                                               ELSE G[i - 1] \o seqs[i]]
               C == CHOOSE G : Rec(G)
    <2>1. FlattenSeq(seqs) = C[n]
      BY <1>2 DEF FlattenSeq
    <2> DEFINE D == [i \in 1 .. n |-> F[i]]
    <2>2. Rec(D)
      <3>1. ASSUME NEW i \in 1 .. n
            PROVE  D[i] = IF i = 1 THEN seqs[i] ELSE D[i - 1] \o seqs[i]
        <4>1. F[i] = IF i = 1 THEN seqs[i] ELSE F[i - 1] \o seqs[i]
          BY Zenon DEF Flattens
        <4>2. CASE i = 1
          BY <4>1, <4>2
        <4>3. CASE i # 1
          <5>1. i - 1 \in 1 .. n
            BY <4>3
          <5>2. D[i - 1] = F[i - 1] /\ D[i] = F[i]
            BY <5>1
          <5> QED
            BY <4>1, <4>3, <5>2
        <4> QED
          BY <4>2, <4>3
      <3>2. D = [i \in 1 .. n |-> D[i]]
        OBVIOUS
      <3> HIDE DEF D
      <3>3. D = [i \in 1 .. n |-> IF i = 1 THEN seqs[i] ELSE D[i - 1] \o seqs[i]]
        BY <3>1, <3>2
      <3> QED
        BY <3>3
    <2> HIDE DEF D
    <2>3. Rec(C)
      BY <2>2, Zenon
    <2> HIDE DEF C
    <2>4. Flattens(C, seqs)
      BY <2>3 DEF Flattens
    <2>5. C[n] = F[n]
      BY <1>2, <2>4, FlattensUnique
    <2> QED
      BY <1>2, <2>1, <2>5
  <1> QED
    BY <1>1, <1>2

\* Where each of the sequences begins in the concatenation.
Offsets(o, seqs) ==
    /\ o \in [0 .. Len(seqs) -> Nat]
    /\ o[0] = 0
    /\ \A i \in 1 .. Len(seqs) : o[i] = o[i - 1] + Len(seqs[i])

\* The concatenation F of the first k of the sequences, place by place.
Joined(F, o, seqs, k) ==
    /\ Len(F) = o[k]
    /\ \A i \in 1 .. k : /\ o[i] <= o[k]
                         /\ \A j \in 1 .. Len(seqs[i]) : F[o[i - 1] + j] = seqs[i][j]
    /\ \A p \in 1 .. o[k] :
          \E i \in 1 .. k : \E j \in 1 .. Len(seqs[i]) : p = o[i - 1] + j

LEMMA FlattenPlaces ==
  ASSUME NEW T, NEW seqs \in Seq(Seq(T)), NEW o, Offsets(o, seqs)
  PROVE  /\ FlattenSeq(seqs) \in Seq(T)
         /\ Joined(FlattenSeq(seqs), o, seqs, Len(seqs))
  <1> DEFINE m == Len(seqs)
  <1>1. m \in Nat /\ \A i \in 1 .. m : seqs[i] \in Seq(T) /\ Len(seqs[i]) \in Nat
    BY LenProperties, ElementOfSeq
  <1>2. /\ \A i \in 0 .. m : o[i] \in Nat
        /\ o[0] = 0
        /\ \A i \in 1 .. m : o[i] = o[i - 1] + Len(seqs[i])
    BY DEF Offsets
  <1>3. PICK F : Flattens(F, seqs)
    BY <1>1, FlattensExists
  <1>4. /\ \A i \in 1 .. m : F[i] \in Seq(T)
        /\ m >= 1 => F[1] = seqs[1]
        /\ \A n \in Nat : n # 0 /\ n + 1 <= m => F[n + 1] = F[n] \o seqs[n + 1]
    BY <1>1, <1>3, FlattensTyped, FlattensStep
  <1>5. FlattenSeq(seqs) = IF m = 0 THEN seqs ELSE F[m]
    BY <1>1, <1>3, FlattenIs
  <1> DEFINE S == {k \in Nat : k \in 1 .. m => Joined(F[k], o, seqs, k)}
  <1>6. 0 \in S
    OBVIOUS
  <1>7. ASSUME NEW k \in S PROVE k + 1 \in S
    <2> SUFFICES ASSUME k + 1 \in 1 .. m PROVE Joined(F[k + 1], o, seqs, k + 1)
      OBVIOUS
    <2> DEFINE s == seqs[k + 1]
               n == Len(s)
    <2>1. /\ s \in Seq(T) /\ n \in Nat /\ k \in Nat /\ k \in 0 .. m /\ k + 1 \in 0 .. m
          /\ o[k] \in Nat /\ o[k + 1] \in Nat /\ o[k + 1] = o[k] + n
      <3>1. k \in 0 .. m /\ k + 1 \in 0 .. m /\ (k + 1) - 1 = k
        BY <1>1
      <3> QED
        BY <1>1, <1>2, <3>1
    <2>2. CASE k = 0
      <3>1. F[k + 1] = s /\ o[k] = 0 /\ o[k + 1] = n
        BY <1>1, <1>2, <1>4, <2>1, <2>2
      <3>2. \A i \in 1 .. (k + 1) : i = k + 1 /\ i - 1 = k
        BY <2>2
      <3>3. \A j \in 1 .. n : 0 + j = j
        OBVIOUS
      <3>4. ASSUME NEW i \in 1 .. (k + 1)
            PROVE  /\ o[i] <= o[k + 1]
                   /\ \A j \in 1 .. Len(seqs[i]) : F[k + 1][o[i - 1] + j] = seqs[i][j]
        <4>1. i = k + 1 /\ i - 1 = k /\ seqs[i] = s
          BY <3>2
        <4> QED
          BY <2>1, <3>1, <3>3, <4>1
      <3>5. ASSUME NEW p \in 1 .. o[k + 1]
            PROVE  \E i \in 1 .. (k + 1) : \E j \in 1 .. Len(seqs[i]) : p = o[i - 1] + j
        <4>1. k + 1 \in 1 .. (k + 1) /\ (k + 1) - 1 = k /\ p \in 1 .. Len(seqs[k + 1])
          BY <2>1, <3>1
        <4>2. p = o[(k + 1) - 1] + p
          BY <3>1, <4>1
        <4> QED
          BY <4>1, <4>2
      <3>6. Len(F[k + 1]) = o[k + 1]
        BY <3>1
      <3> QED
        BY <3>4, <3>5, <3>6 DEF Joined
    <2>3. CASE k # 0
      <3>1. /\ F[k] \in Seq(T) /\ F[k + 1] = F[k] \o s
            /\ Joined(F[k], o, seqs, k)
        <4>1. k \in 1 .. m /\ k + 1 <= m
          BY <1>1, <2>1, <2>3
        <4>2. Joined(F[k], o, seqs, k)
          BY <4>1
        <4> QED
          BY <1>4, <2>1, <2>3, <4>1, <4>2
      <3>2. /\ Len(F[k]) = o[k]
            /\ Len(F[k + 1]) = o[k] + n
            /\ \A p \in 1 .. (o[k] + n) :
                  F[k + 1][p] = IF p <= o[k] THEN F[k][p] ELSE s[p - o[k]]
        <4>1. Len(F[k]) = o[k]
          BY <3>1 DEF Joined
        <4>2. /\ Len(F[k] \o s) = Len(F[k]) + Len(s)
              /\ \A p \in 1 .. Len(F[k]) + Len(s) : (F[k] \o s)[p] =
                    IF p <= Len(F[k]) THEN F[k][p] ELSE s[p - Len(F[k])]
          <5> HIDE DEF s
          <5> QED
            BY <2>1, <3>1, ConcatProperties
        <4> QED
          BY <3>1, <4>1, <4>2
      <3>3. ASSUME NEW i \in 1 .. (k + 1)
            PROVE  /\ o[i] <= o[k + 1]
                   /\ \A j \in 1 .. Len(seqs[i]) : F[k + 1][o[i - 1] + j] = seqs[i][j]
        <4>1. CASE i = k + 1
          <5>1. i - 1 = k /\ seqs[i] = s
            BY <4>1
          <5>2. ASSUME NEW j \in 1 .. n PROVE F[k + 1][o[k] + j] = s[j]
            <6>1. o[k] + j \in 1 .. (o[k] + n) /\ ~ (o[k] + j <= o[k])
                  /\ (o[k] + j) - o[k] = j
              <7>1. o[k] \in Nat /\ n \in Nat
                BY <2>1
              <7> HIDE DEF n, s
              <7> QED
                BY <7>1
            <6> QED
              BY <3>2, <6>1
          <5>3. o[i] <= o[k + 1]
            BY <2>1, <4>1
          <5>4. Len(seqs[i]) = n /\ o[i - 1] = o[k]
            BY <5>1
          <5>5. \A j \in 1 .. Len(seqs[i]) : F[k + 1][o[i - 1] + j] = seqs[i][j]
            BY <5>1, <5>2, <5>4, Zenon
          <5> QED
            BY <5>3, <5>5
        <4>2. CASE i # k + 1
          <5>1. i \in 1 .. k /\ i \in 1 .. m /\ i - 1 \in 0 .. m /\ i \in 0 .. m
            BY <1>1, <2>1, <4>2
          <5>2. /\ o[i] <= o[k] /\ o[i] \in Nat /\ o[i - 1] \in Nat
                /\ o[i] = o[i - 1] + Len(seqs[i]) /\ Len(seqs[i]) \in Nat
                /\ \A j \in 1 .. Len(seqs[i]) : F[k][o[i - 1] + j] = seqs[i][j]
            BY <1>1, <1>2, <3>1, <5>1 DEF Joined
          <5>3. ASSUME NEW j \in 1 .. Len(seqs[i])
                PROVE  F[k + 1][o[i - 1] + j] = seqs[i][j]
            <6>1. /\ j \in Nat /\ 1 <= j /\ j <= Len(seqs[i])
                  /\ o[i - 1] \in Nat /\ o[i] = o[i - 1] + Len(seqs[i]) /\ o[i] <= o[k]
                  /\ o[k] \in Nat /\ n \in Nat /\ Len(seqs[i]) \in Nat
              BY <2>1, <5>2
            <6> HIDE DEF n
            <6>2. \A a, b, c, h, g, z \in Nat :
                     1 <= h /\ h <= g /\ b = a + g /\ b <= c
                       => a + h \in 1 .. (c + z) /\ a + h <= c
              OBVIOUS
            <6>3. o[i - 1] + j \in 1 .. (o[k] + n) /\ o[i - 1] + j <= o[k]
              BY <5>2, <6>1, <6>2
            <6>4. F[k + 1][o[i - 1] + j] = F[k][o[i - 1] + j]
              BY <3>2, <6>3
            <6> QED
              BY <5>2, <6>4
          <5>4. o[k + 1] = o[k] + n /\ o[k] \in Nat /\ n \in Nat
            BY <2>1
          <5>5. o[i] <= o[k + 1]
            <6> HIDE DEF n, s
            <6> QED
              BY <5>2, <5>4
          <5> QED
            BY <5>3, <5>5
        <4> HIDE DEF n, s, m
        <4> QED
          BY <4>1, <4>2, Zenon
      <3>4. ASSUME NEW p \in 1 .. o[k + 1]
            PROVE  \E i \in 1 .. (k + 1) : \E j \in 1 .. Len(seqs[i]) : p = o[i - 1] + j
        <4>1. CASE p <= o[k]
          <5>1. p \in 1 .. o[k]
            BY <2>1, <4>1
          <5>2. PICK i \in 1 .. k : \E j \in 1 .. Len(seqs[i]) : p = o[i - 1] + j
            BY <3>1, <5>1 DEF Joined
          <5>3. i \in 1 .. (k + 1)
            BY <2>1
          <5> QED
            BY <5>2, <5>3
        <4>2. CASE p > o[k]
          <5>1. p - o[k] \in 1 .. n /\ p = o[k] + (p - o[k])
            <6>1. o[k] \in Nat /\ n \in Nat /\ p \in 1 .. (o[k] + n)
              BY <2>1
            <6> HIDE DEF n, s
            <6> QED
              BY <4>2, <6>1
          <5>2. k + 1 \in 1 .. (k + 1) /\ (k + 1) - 1 = k /\ seqs[k + 1] = s
            BY <2>1
          <5>3. \E j \in 1 .. Len(seqs[k + 1]) : p = o[(k + 1) - 1] + j
            BY <5>1, <5>2
          <5> QED
            BY <5>2, <5>3
        <4> QED
          BY <2>1, <4>1, <4>2
      <3> HIDE DEF n, s
      <3> QED
        BY <2>1, <3>2, <3>3, <3>4 DEF Joined
    <2> QED
      BY <2>2, <2>3
  <1>8. S = Nat
    <2> S \in SUBSET Nat
      OBVIOUS
    <2> HIDE DEF S
    <2> QED
      BY <1>6, <1>7, NatInd
  <1>9. CASE m = 0
    <2>1. seqs = << >> /\ FlattenSeq(seqs) = << >>
      BY <1>5, <1>9, EmptySeq
    <2>2. << >> \in Seq(T) /\ Len(<< >>) = 0
      BY EmptySeq
    <2>3. Joined(<< >>, o, seqs, 0)
      BY <1>2, <2>2 DEF Joined
    <2> QED
      BY <1>9, <2>1, <2>2, <2>3
  <1>10. CASE m # 0
    <2>1. m \in S /\ m \in 1 .. m
      BY <1>1, <1>8, <1>10
    <2> QED
      BY <1>4, <1>5, <1>10, <2>1
  <1> QED
    BY <1>9, <1>10

\* The places exist.
LEMMA OffsetsExist ==
  ASSUME NEW T, NEW seqs \in Seq(Seq(T))
  PROVE  \E o : Offsets(o, seqs)
  <1> DEFINE m == Len(seqs)
             Up(o, k) == /\ o \in [0 .. k -> Nat]
                         /\ o[0] = 0
                         /\ \A i \in 1 .. k : o[i] = o[i - 1] + Len(seqs[i])
             S == {k \in Nat : k <= m => \E o : Up(o, k)}
  <1>1. m \in Nat /\ \A i \in 1 .. m : Len(seqs[i]) \in Nat
    BY LenProperties, ElementOfSeq
  <1>2. 0 \in S
    <2>1. Up([i \in 0 .. 0 |-> 0], 0)
      OBVIOUS
    <2> QED
      BY <2>1
  <1>3. ASSUME NEW k \in S PROVE k + 1 \in S
    <2> SUFFICES ASSUME k + 1 <= m PROVE \E o : Up(o, k + 1)
      <3> HIDE DEF Up
      <3> QED
        OBVIOUS
    <2>1. PICK o : Up(o, k)
      <3>1. k <= m
        BY <1>1
      <3> HIDE DEF Up
      <3> QED
        BY <3>1
    <2> DEFINE q == [i \in 0 .. (k + 1) |-> IF i = k + 1 THEN o[k] + Len(seqs[i]) ELSE o[i]]
    <2>2. k \in Nat /\ k \in 0 .. k /\ o[k] \in Nat /\ Len(seqs[k + 1]) \in Nat
      BY <1>1, <2>1
    <2>3. q \in [0 .. (k + 1) -> Nat] /\ q[0] = 0
      BY <2>1, <2>2
    <2>4. ASSUME NEW i \in 1 .. (k + 1) PROVE q[i] = q[i - 1] + Len(seqs[i])
      <3>1. CASE i = k + 1
        <4>1. /\ i \in 0 .. (k + 1) /\ i - 1 \in 0 .. (k + 1) /\ i - 1 = k
              /\ i - 1 # k + 1
          BY <2>2, <3>1
        <4>2. q[i] = o[k] + Len(seqs[i]) /\ q[i - 1] = o[k]
          BY <3>1, <4>1
        <4> QED
          BY <4>2
      <3>2. CASE i # k + 1
        <4>1. /\ i \in 1 .. k /\ i \in 0 .. (k + 1) /\ i - 1 \in 0 .. (k + 1)
              /\ i - 1 # k + 1
          BY <2>2, <3>2
        <4>2. q[i] = o[i] /\ q[i - 1] = o[i - 1]
          BY <3>2, <4>1
        <4> QED
          BY <2>1, <4>1, <4>2
      <3> QED
        BY <3>1, <3>2
    <2> HIDE DEF q
    <2>5. Up(q, k + 1)
      BY <2>3, <2>4
    <2> HIDE DEF Up
    <2> QED
      BY <2>5
  <1>4. S = Nat
    <2> S \in SUBSET Nat
      OBVIOUS
    <2> HIDE DEF S
    <2> QED
      BY <1>2, <1>3, NatInd
  <1>5. \E o : Up(o, m)
    <2>1. m \in S
      BY <1>1, <1>4
    <2> QED
      BY <1>1, <2>1
  <1> QED
    BY <1>5 DEF Offsets

-----------------------------------------------------------------------------
(***************************************************************************)
(* Counting by a label                                                     *)
(***************************************************************************)
\* A set with no more elements than another goes into it one to one.
LEMMA GoesInto ==
  ASSUME NEW A, IsFiniteSet(A), NEW B, IsFiniteSet(B),
         Cardinality(A) <= Cardinality(B)
  PROVE  \E h \in [A -> B] : \A a, b \in A : h[a] = h[b] => a = b
  <1> DEFINE m == Cardinality(A)
             n == Cardinality(B)
  <1>1. m \in Nat /\ n \in Nat /\ ExistsBijection(1 .. m, A)
        /\ ExistsBijection(1 .. n, B)
    BY FS_CardinalityType
  <1>2. m <= n
    OBVIOUS
  <1> HIDE DEF m, n
  <1>3. PICK x \in Bijection(1 .. m, A) : TRUE
    BY <1>1 DEF ExistsBijection
  <1>4. PICK y \in Bijection(1 .. n, B) : TRUE
    BY <1>1 DEF ExistsBijection
  <1>5. /\ x \in [1 .. m -> A]
        /\ \A a \in A : \E k \in 1 .. m : x[k] = a
    BY <1>3 DEF Bijection, Surjection
  <1>6. /\ y \in [1 .. n -> B]
        /\ \A k, l \in 1 .. n : y[k] = y[l] => k = l
    BY <1>4 DEF Bijection, Injection, IsInjective
  <1> DEFINE At(a) == CHOOSE k \in 1 .. m : x[k] = a
             h == [a \in A |-> y[At(a)]]
  <1>7. \A a \in A : At(a) \in 1 .. m /\ x[At(a)] = a
    BY <1>5
  <1>8. \A a \in A : At(a) \in 1 .. n
    <2> HIDE DEF At
    <2> QED
      BY <1>1, <1>2, <1>7
  <1> HIDE DEF At
  <1>9. h \in [A -> B]
    BY <1>6, <1>8
  <1>10. \A a, b \in A : h[a] = h[b] => a = b
    <2> TAKE a \in A, b \in A
    <2> HAVE h[a] = h[b]
    <2>1. At(a) = At(b)
      BY <1>6, <1>8
    <2> QED
      BY <2>1, <1>7
  <1> QED
    BY <1>9, <1>10

Labelled(A, f, p) == {a \in A : f[a] = p}

\* A set that has of every label no more elements than another set is not
\* larger than it.
LEMMA FewerOfEach ==
  ASSUME NEW P, NEW A, IsFiniteSet(A), NEW B, IsFiniteSet(B),
         NEW f \in [A -> P], NEW g \in [B -> P],
         \A p \in P : Cardinality(Labelled(A, f, p)) <= Cardinality(Labelled(B, g, p))
  PROVE  Cardinality(A) <= Cardinality(B)
  <1> DEFINE FA(p) == {a \in A : f[a] = p}
             FB(p) == {b \in B : g[b] = p}
             Good(p, h) == /\ h \in [FA(p) -> FB(p)]
                           /\ \A a, b \in FA(p) : h[a] = h[b] => a = b
  <1>1. \A p \in P : \E h : Good(p, h)
    <2> TAKE p \in P
    <2>1. FA(p) \in SUBSET A /\ FB(p) \in SUBSET B
      OBVIOUS
    <2>2. Cardinality(FA(p)) <= Cardinality(FB(p))
      BY DEF Labelled
    <2> HIDE DEF FA, FB
    <2>3. IsFiniteSet(FA(p)) /\ IsFiniteSet(FB(p))
      BY <2>1, FS_Subset
    <2>4. \E h \in [FA(p) -> FB(p)] : \A a, b \in FA(p) : h[a] = h[b] => a = b
      BY <2>2, <2>3, GoesInto
    <2> QED
      BY <2>4
  <1> DEFINE H(p) == CHOOSE h : Good(p, h)
  <1>2. \A p \in P : Good(p, H(p))
    <2> HIDE DEF Good
    <2> QED
      BY <1>1
  <1> HIDE DEF H
  <1> DEFINE inj == [a \in A |-> H(f[a])[a]]
  <1>3. \A a \in A : inj[a] \in B /\ g[inj[a]] = f[a]
    <2> TAKE a \in A
    <2>1. f[a] \in P /\ a \in FA(f[a])
      OBVIOUS
    <2>2. H(f[a]) \in [FA(f[a]) -> FB(f[a])]
      BY <1>2, <2>1
    <2>3. H(f[a])[a] \in FB(f[a])
      BY <2>1, <2>2
    <2> QED
      BY <2>3
  <1>4. ASSUME NEW a \in A, NEW b \in A, inj[a] = inj[b] PROVE a = b
    <2>1. f[a] = f[b] /\ f[a] \in P
      BY <1>3, <1>4
    <2>2. a \in FA(f[a]) /\ b \in FA(f[a])
      BY <2>1
    <2>3. H(f[a])[a] = H(f[a])[b]
      BY <1>4, <2>1
    <2> QED
      BY <1>2, <2>1, <2>2, <2>3
  <1>5. inj \in Injection(A, B)
    <2>1. inj \in [A -> B]
      BY <1>3
    <2> QED
      BY <2>1, <1>4 DEF Injection, IsInjective
  <1> QED
    BY <1>5, FS_Injection

-----------------------------------------------------------------------------
(***************************************************************************)
(* The elements of a list                                                  *)
(***************************************************************************)
LEMMA RangeOfJoin ==
  ASSUME NEW T, NEW s \in Seq(T), NEW t \in Seq(T)
  PROVE  /\ s \o t \in Seq(T)
         /\ Len(s \o t) = Len(s) + Len(t)
         /\ Range(s \o t) = Range(s) \cup Range(t)
  <1>1. /\ s \o t \in Seq(T) /\ Len(s \o t) = Len(s) + Len(t)
        /\ Len(s) \in Nat /\ Len(t) \in Nat
        /\ DOMAIN s = 1 .. Len(s) /\ DOMAIN (s \o t) = 1 .. Len(s \o t)
    BY LenProperties, ConcatProperties
  <1>2. \A k \in 1 .. Len(s) + Len(t) :
          (s \o t)[k] = IF k <= Len(s) THEN s[k] ELSE t[k - Len(s)]
    BY <1>1, ConcatProperties
  <1>3. \A k \in 1 .. Len(t) : /\ Len(s) + k \in 1 .. Len(s) + Len(t)
                               /\ (s \o t)[Len(s) + k] = t[k]
    BY <1>1, <1>2
  <1>4. \A k \in 1 .. Len(s) : /\ k \in 1 .. Len(s) + Len(t)
                               /\ (s \o t)[k] = s[k]
    BY <1>1, <1>2
  <1>5. \A k \in 1 .. Len(s) + Len(t) :
          \/ k \in 1 .. Len(s) /\ (s \o t)[k] = s[k]
          \/ k - Len(s) \in 1 .. Len(t) /\ (s \o t)[k] = t[k - Len(s)]
    BY <1>1, <1>2
  <1>6. Range(s \o t) = {(s \o t)[k] : k \in 1 .. Len(s) + Len(t)}
    BY <1>1 DEF Range
  <1>7. /\ Range(s) = {s[k] : k \in 1 .. Len(s)}
        /\ Range(t) = {t[k] : k \in 1 .. Len(t)}
    BY <1>1, LenProperties DEF Range
  <1> HIDE DEF Range
  <1>8. Range(s \o t) \subseteq Range(s) \cup Range(t)
    BY <1>5, <1>6, <1>7
  <1>9. Range(s) \subseteq Range(s \o t)
    BY <1>4, <1>6, <1>7
  <1>10. Range(t) \subseteq Range(s \o t)
    BY <1>3, <1>6, <1>7
  <1> QED
    BY <1>1, <1>8, <1>9, <1>10

LEMMA RangeOfAppend ==
  ASSUME NEW T, NEW s \in Seq(T), NEW x \in T
  PROVE  Range(Append(s, x)) = Range(s) \cup {x}
  <1>1. /\ Len(s) \in Nat /\ DOMAIN s = 1 .. Len(s)
        /\ DOMAIN Append(s, x) = 1 .. (Len(s) + 1)
        /\ \A k \in 1 .. Len(s) : Append(s, x)[k] = s[k]
        /\ Append(s, x)[Len(s) + 1] = x
    BY LenProperties, AppendProperties
  <1>2. \A k \in 1 .. (Len(s) + 1) : k = Len(s) + 1 \/ k \in 1 .. Len(s)
    BY <1>1
  <1>3. Len(s) + 1 \in 1 .. (Len(s) + 1) /\ 1 .. Len(s) \subseteq 1 .. (Len(s) + 1)
    BY <1>1
  <1>4. /\ Range(s) = {s[k] : k \in 1 .. Len(s)}
        /\ Range(Append(s, x)) = {Append(s, x)[k] : k \in 1 .. (Len(s) + 1)}
    BY <1>1 DEF Range
  <1>5. Range(Append(s, x)) \subseteq Range(s) \cup {x}
    BY <1>1, <1>2, <1>4
  <1>6. Range(s) \subseteq Range(Append(s, x)) /\ x \in Range(Append(s, x))
    BY <1>1, <1>3, <1>4
  <1> QED
    BY <1>5, <1>6

LEMMA CountTo ==
  ASSUME NEW n \in Nat
  PROVE  IsFiniteSet(1 .. n) /\ Cardinality(1 .. n) = n
  <1>1. Cardinality(1 .. n) = IF 1 > n THEN 0 ELSE n - 1 + 1
    BY FS_Interval
  <1> QED
    BY <1>1, FS_Interval

LEMMA Quotient ==
  ASSUME NEW n \in Nat \ {0}, NEW q \in Nat, NEW r \in Nat, r < n
  PROVE  (q * n + r) \div n = q
  <1> DEFINE a == q * n + r
             d == a \div n
             e == a % n
  <1>1. a \in Nat /\ d \in Int /\ e \in 0 .. (n - 1) /\ a = n * d + e
    OBVIOUS
  <1>2. ASSUME d > q PROVE FALSE
    <2>1. d - q \in Nat /\ d - q >= 1
      BY <1>1, <1>2
    <2>2. n * (d - q) >= n
      BY <2>1
    <2>3. n * (d - q) = n * d - n * q
      BY <1>1
    <2> QED
      BY <2>2, <2>3, <1>1
  <1>3. ASSUME d < q PROVE FALSE
    <2>1. q - d \in Nat /\ q - d >= 1
      BY <1>1, <1>3
    <2>2. n * (q - d) >= n
      BY <2>1
    <2>3. n * (q - d) = n * q - n * d
      BY <1>1
    <2> QED
      BY <2>2, <2>3, <1>1
  <1> QED
    BY <1>1, <1>2, <1>3

\* Lists of n copies each, and all of them one after the other.
Copies(x, m, n) == [i \in 1 .. m |-> [j \in 1 .. n |-> x[i]]]
CopiesJoined(x, m, n) == [p \in 1 .. (m * n) |-> x[((p - 1) \div n) + 1]]

LEMMA FlattenCopies ==
  ASSUME NEW T, NEW m \in Nat, NEW n \in Nat \ {0}, NEW x \in [1 .. m -> T]
  PROVE  FlattenSeq(Copies(x, m, n)) = CopiesJoined(x, m, n)
  <1>0. PICK seqs : seqs = [i \in 1 .. m |-> [j \in 1 .. n |-> x[i]]]
    OBVIOUS
  <1> DEFINE o == [i \in 0 .. m |-> i * n]
             F == FlattenSeq(seqs)
  <1>1. /\ seqs \in Seq(Seq(T)) /\ Len(seqs) = m
        /\ \A i \in 1 .. m : Len(seqs[i]) = n /\ \A j \in 1 .. n : seqs[i][j] = x[i]
    <2>1. \A i \in 1 .. m : [j \in 1 .. n |-> x[i]] \in Seq(T)
      OBVIOUS
    <2> QED
      BY <2>1, <1>0
  <1>2. Offsets(o, seqs)
    <2>1. \A i \in 1 .. m : i * n = (i - 1) * n + n /\ i - 1 \in 0 .. m
      OBVIOUS
    <2>2. \A i \in 0 .. m : i * n \in Nat
      OBVIOUS
    <2> QED
      BY <2>1, <2>2, <1>1, <1>0 DEF Offsets
  <1>3. F \in Seq(T) /\ Joined(F, o, seqs, m)
    BY <1>1, <1>2, FlattenPlaces
  <1>4. /\ Len(F) = m * n /\ m * n \in Nat
        /\ \A i \in 1 .. m : \A j \in 1 .. n : F[(i - 1) * n + j] = x[i]
        /\ \A p \in 1 .. (m * n) : \E i \in 1 .. m : \E j \in 1 .. n :
              p = (i - 1) * n + j
    <2>1. o[m] = m * n /\ m * n \in Nat /\ \A i \in 1 .. m : o[i - 1] = (i - 1) * n
      OBVIOUS
    <2>2. o[m] \in Nat /\ \A i \in 1 .. m : o[i - 1] \in Nat
      OBVIOUS
    <2> HIDE DEF o, F
    <2>3. Len(F) = o[m]
      BY <1>3 DEF Joined
    <2>4. \A i \in 1 .. m : \A j \in 1 .. n : F[o[i - 1] + j] = x[i]
      BY <1>1, <1>3, <1>0 DEF Joined
    <2>5. \A p \in 1 .. o[m] : \E i \in 1 .. m : \E j \in 1 .. n : p = o[i - 1] + j
      <3> TAKE p \in 1 .. o[m]
      <3>1. PICK i \in 1 .. m : \E j \in 1 .. Len(seqs[i]) : p = o[i - 1] + j
        BY <1>3 DEF Joined
      <3>2. Len(seqs[i]) = n
        BY <1>1
      <3> QED
        BY <3>1, <3>2
    <2>6. \A i \in 1 .. m : \A j \in 1 .. n : F[(i - 1) * n + j] = x[i]
      BY <2>1, <2>4
    <2>7. \A p \in 1 .. (m * n) : \E i \in 1 .. m : \E j \in 1 .. n :
             p = (i - 1) * n + j
      <3> TAKE p \in 1 .. (m * n)
      <3>1. PICK i \in 1 .. m : \E j \in 1 .. n : p = o[i - 1] + j
        BY <2>1, <2>5
      <3>2. o[i - 1] = (i - 1) * n
        BY <2>1
      <3> QED
        BY <3>1, <3>2
    <2> QED
      BY <2>1, <2>3, <2>6, <2>7
  <1>5. DOMAIN F = 1 .. (m * n)
    BY <1>3, <1>4, LenProperties
  <1>6. ASSUME NEW p \in 1 .. (m * n)
        PROVE  F[p] = x[((p - 1) \div n) + 1]
    <2>1. PICK i \in 1 .. m, j \in 1 .. n : p = (i - 1) * n + j
      BY <1>4
    <2>2. i - 1 \in Nat /\ j - 1 \in Nat /\ j - 1 < n
      OBVIOUS
    <2>3. ((i - 1) * n + (j - 1)) \div n = i - 1
      BY <2>2, Quotient
    <2>4. p - 1 = (i - 1) * n + (j - 1)
      BY <2>1, <2>2
    <2>5. ((p - 1) \div n) + 1 = i
      BY <2>3, <2>4
    <2> QED
      BY <1>4, <2>1, <2>5
  <1>7. F = [p \in DOMAIN F |-> F[p]]
    <2> HIDE DEF F
    <2> QED
      BY <1>3, LenProperties
  <1> QED
    BY <1>5, <1>6, <1>7, <1>0 DEF Copies, CopiesJoined

-----------------------------------------------------------------------------
(***************************************************************************)
(* Parts of a list                                                         *)
(***************************************************************************)
\* The largest of finitely many numbers.
LEMMA GreatestOf ==
  ASSUME NEW S \in SUBSET Int, IsFiniteSet(S), S # {}
  PROVE  Max(S) \in S /\ \A i \in S : i <= Max(S)
  <1> DEFINE n == Cardinality(S)
             g == InOrder(S)[n]
  <1>1. /\ n \in Nat
        /\ \A i \in S : InOrder(S)[Rank(S, i)] = i
        /\ \A k \in 1 .. n : InOrder(S)[k] \in S
        /\ \A k, l \in 1 .. n : k < l => InOrder(S)[k] < InOrder(S)[l]
    BY InOrderFacts
  <1>2. \A i \in S : Rank(S, i) \in 1 .. n
    BY RankFacts
  <1>3. n \in 1 .. n
    <2>1. PICK i \in S : TRUE
      OBVIOUS
    <2>2. Rank(S, i) \in 1 .. n
      BY <1>2
    <2> HIDE DEF n
    <2> QED
      BY <1>1, <2>2
  <1>4. g \in S
    BY <1>1, <1>3
  <1>5. ASSUME NEW i \in S PROVE g >= i
    <2>1. PICK k \in 1 .. n : InOrder(S)[k] = i
      BY <1>1, <1>2
    <2> HIDE DEF n
    <2>2. k = n \/ k < n
      BY <1>1
    <2>3. k < n => i < InOrder(S)[n]
      BY <1>1, <1>3, <2>1
    <2>4. i \in Int /\ InOrder(S)[n] \in Int
      BY <1>4
    <2> QED
      BY <2>1, <2>2, <2>3, <2>4
  <1>6. \E x \in S : \A y \in S : x >= y
    <2> HIDE DEF g
    <2> QED
      BY <1>4, <1>5
  <1>7. Max(S) \in S /\ \A y \in S : Max(S) >= y
    BY <1>6 DEF Max
  <1> QED
    BY <1>7

\* A list cut into pieces of n elements; the last one may be shorter.
Piece(x, n, p) ==
    SubSeq(x, (p - 1) * n + 1, IF p * n <= Len(x) THEN p * n ELSE Len(x))
Pieces(x, n) == [p \in 1 .. (Len(x) + n - 1) \div n |-> Piece(x, n, p)]

\* The pieces are as many as it takes, and each begins inside the list.
LEMMA PieceCount ==
  ASSUME NEW L \in Nat, NEW n \in Nat \ {0}
  PROVE  /\ (L + n - 1) \div n \in Nat
         /\ ((L + n - 1) \div n) * n >= L
         /\ \A p \in 1 .. (L + n - 1) \div n : (p - 1) * n < L /\ (p - 1) * n \in Nat
  <1> DEFINE a == L + n - 1
             d == a \div n
             e == a % n
  <1>1. a \in Nat /\ d \in Int /\ e \in 0 .. (n - 1) /\ a = n * d + e
    OBVIOUS
  <1>2. d >= 0
    <2> SUFFICES ASSUME d <= 0 - 1 PROVE FALSE
      BY <1>1
    <2>1. n * d <= 0 - n
      <3>1. 0 - 1 - d \in Nat
        BY <1>1
      <3>2. n * (0 - 1 - d) >= 0
        BY <3>1
      <3>3. n * (0 - 1 - d) = 0 - n - n * d
        BY <1>1
      <3> HIDE DEF d
      <3> QED
        BY <1>1, <3>2, <3>3
    <2> QED
      BY <1>1, <2>1
  <1>3. d * n = L + n - 1 - e
    BY <1>1
  <1>4. ASSUME NEW p \in 1 .. d
        PROVE  (p - 1) * n < L /\ (p - 1) * n \in Nat
    <2>1. d - p \in Nat /\ p - 1 \in Nat
      BY <1>1
    <2>2. (d - p) * n >= 0 /\ (p - 1) * n \in Nat
      BY <2>1
    <2>3. (d - p) * n = d * n - p * n /\ (p - 1) * n = p * n - n
      BY <1>1
    <2> HIDE DEF d, e, a
    <2> QED
      BY <1>1, <1>3, <2>2, <2>3
  <1>5. d \in Nat
    BY <1>1, <1>2
  <1>6. d * n >= L
    BY <1>1, <1>3
  <1> QED
    BY <1>4, <1>5, <1>6

LEMMA PiecesJoin ==
  ASSUME NEW T, NEW x \in Seq(T), NEW n \in Nat \ {0}
  PROVE  FlattenSeq(Pieces(x, n)) = x
  <1> DEFINE L == Len(x)
             m == (L + n - 1) \div n
             End(p) == IF p * n <= L THEN p * n ELSE L
             o == [p \in 0 .. m |-> End(p)]
             F == FlattenSeq(Pieces(x, n))
  <1>1. /\ L \in Nat /\ m \in Nat /\ m * n >= L
        /\ \A p \in 1 .. m : (p - 1) * n < L /\ (p - 1) * n \in Nat
        /\ \A i \in 1 .. L : x[i] \in T
    BY PieceCount, LenProperties, ElementOfSeq
  <1>2. /\ \A p \in 1 .. m : End(p - 1) = (p - 1) * n
        /\ \A p \in 0 .. m : End(p) \in Nat
        /\ \A p \in 1 .. m : (p - 1) * n < End(p) /\ End(p) <= L
        /\ End(0) = 0 /\ End(m) = L
    <2>1. \A p \in 0 .. m : p * n \in Nat
      BY <1>1
    <2>2. 0 * n = 0 /\ (m * n <= L => m * n = L)
      BY <1>1
    <2>3. \A p \in 1 .. m : p * n > (p - 1) * n
      <3> TAKE p \in 1 .. m
      <3>1. p * n = (p - 1) * n + n
        BY <1>1
      <3> QED
        BY <1>1, <3>1
    <2> HIDE DEF m, L
    <2> QED
      BY <1>1, <2>1, <2>2, <2>3
  <1>3. ASSUME NEW p \in 1 .. m
        PROVE  /\ Piece(x, n, p) \in Seq(T)
               /\ Len(Piece(x, n, p)) = End(p) - (p - 1) * n
               /\ \A j \in 1 .. Len(Piece(x, n, p)) :
                     Piece(x, n, p)[j] = x[(p - 1) * n + j]
    <2> DEFINE b == (p - 1) * n + 1
               c == End(p)
    <2>1. b \in Int /\ c \in Int /\ b <= c /\ \A i \in b .. c : x[i] \in T
      <3> HIDE DEF m, End
      <3>1. (p - 1) * n \in Nat /\ (p - 1) * n < End(p) /\ End(p) <= L /\ End(p) \in Nat
        BY <1>1, <1>2
      <3> QED
        BY <1>1, <3>1
    <2>2. Piece(x, n, p) = SubSeq(x, b, c)
      BY DEF Piece
    <2>3. (p - 1) * n \in Int
      BY <1>1
    <2> HIDE DEF c
    <2>4. /\ SubSeq(x, b, c) \in Seq(T) /\ Len(SubSeq(x, b, c)) = c - b + 1
          /\ \A i \in 1 .. c - b + 1 : SubSeq(x, b, c)[i] = x[b + i - 1]
      BY <2>1, SubSeqProperties
    <2>5. c - b + 1 = c - (p - 1) * n
      BY <2>1, <2>3
    <2>6. \A i \in Int : b + i - 1 = (p - 1) * n + i
      BY <2>3
    <2> HIDE DEF b
    <2>7. /\ Piece(x, n, p) \in Seq(T) /\ Len(Piece(x, n, p)) = c - (p - 1) * n
      BY <2>2, <2>4, <2>5
    <2>8. ASSUME NEW i \in 1 .. Len(Piece(x, n, p))
          PROVE  Piece(x, n, p)[i] = x[(p - 1) * n + i]
      <3>1. i \in 1 .. c - b + 1 /\ b + i - 1 = (p - 1) * n + i
        BY <2>5, <2>6, <2>7
      <3>2. SubSeq(x, b, c)[i] = x[b + i - 1]
        BY <2>4, <3>1
      <3> QED
        BY <2>2, <3>1, <3>2
    <2> QED
      BY <2>7, <2>8 DEF c
  <1>4. PICK s : s = Pieces(x, n)
    OBVIOUS
  <1>5. /\ s = [p \in 1 .. m |-> Piece(x, n, p)]
        /\ s \in Seq(Seq(T)) /\ Len(s) = m
    <2>1. s = [p \in 1 .. m |-> Piece(x, n, p)]
      BY <1>4 DEF Pieces
    <2> HIDE DEF m, L, End
    <2>2. \A p \in 1 .. m : Piece(x, n, p) \in Seq(T)
      BY <1>3
    <2> QED
      BY <1>1, <2>1, <2>2
  <1> HIDE DEF m, L, End
  <1>6. Offsets(o, s)
    <2>1. \A p \in 1 .. m : o[p] = o[p - 1] + Len(s[p])
      <3> TAKE p \in 1 .. m
      <3>1. p - 1 \in 0 .. m /\ p \in 0 .. m
        BY <1>1
      <3>2. Len(s[p]) = End(p) - (p - 1) * n /\ End(p - 1) = (p - 1) * n
            /\ End(p) \in Nat /\ (p - 1) * n \in Nat
        BY <1>1, <1>2, <1>3, <1>5, <3>1
      <3> QED
        BY <3>1, <3>2
    <2>2. o \in [0 .. m -> Nat] /\ o[0] = 0
      BY <1>1, <1>2
    <2> QED
      BY <1>5, <2>1, <2>2 DEF Offsets
  <1>7. F \in Seq(T) /\ Joined(F, o, s, m)
    BY <1>4, <1>5, <1>6, FlattenPlaces
  <1>8. o[m] = L /\ \A p \in 1 .. m : o[p - 1] = (p - 1) * n
    BY <1>1, <1>2
  <1> HIDE DEF o, F
  <1>9. Len(F) = L
    BY <1>7, <1>8 DEF Joined
  <1>10. ASSUME NEW q \in 1 .. L PROVE F[q] = x[q]
    <2>1. PICK p \in 1 .. m : \E j \in 1 .. Len(s[p]) : q = o[p - 1] + j
      BY <1>7, <1>8 DEF Joined
    <2>2. PICK j \in 1 .. Len(s[p]) : q = o[p - 1] + j
      BY <2>1
    <2>3. F[o[p - 1] + j] = s[p][j]
      BY <1>7 DEF Joined
    <2>4. s[p][j] = x[(p - 1) * n + j]
      BY <1>3, <1>5
    <2> QED
      BY <1>8, <2>2, <2>3, <2>4
  <1>11. F = x
    BY <1>7, <1>9, <1>10, SeqEqual DEF L
  <1> QED
    BY <1>11 DEF F

\* Each of some lists is a slice of the list they are joined to, and begins
\* where the lists before it end.
LEMMA SliceOfJoin ==
  ASSUME NEW T, NEW seqs \in Seq(Seq(T)), NEW k \in 1 .. Len(seqs)
  PROVE  LET F == FlattenSeq(seqs)
             b == Len(FlattenSeq(SubSeq(seqs, 1, k - 1)))
         IN  /\ b \in Nat /\ F \in Seq(T) /\ b + Len(seqs[k]) <= Len(F)
             /\ \A i \in 1 .. Len(seqs[k]) : F[b + i] = seqs[k][i]
             /\ SubSeq(F, b + 1, b + Len(seqs[k])) = seqs[k]
  <1> DEFINE F == FlattenSeq(seqs)
             m == Len(seqs)
             t == SubSeq(seqs, 1, k - 1)
  <1>1. m \in Nat /\ \A i \in 1 .. m : seqs[i] \in Seq(T) /\ Len(seqs[i]) \in Nat
    BY LenProperties, ElementOfSeq
  <1>2. /\ t \in Seq(Seq(T)) /\ Len(t) = k - 1
        /\ \A i \in 1 .. k - 1 : t[i] = seqs[i]
    <2>1. \A i \in 1 .. (k - 1) : seqs[i] \in Seq(T)
      BY <1>1
    <2>2. /\ SubSeq(seqs, 1, k - 1) \in Seq(Seq(T))
          /\ Len(SubSeq(seqs, 1, k - 1)) = IF 1 <= k - 1 THEN (k - 1) - 1 + 1 ELSE 0
          /\ \A i \in 1 .. (k - 1) - 1 + 1 : SubSeq(seqs, 1, k - 1)[i] = seqs[1 + i - 1]
      BY <2>1, SubSeqProperties
    <2> QED
      BY <1>1, <2>2
  <1>3. PICK o : Offsets(o, seqs)
    BY OffsetsExist
  <1> DEFINE u == [i \in 0 .. k - 1 |-> o[i]]
  <1>4. /\ o \in [0 .. m -> Nat] /\ o[0] = 0
        /\ \A i \in 1 .. m : o[i] = o[i - 1] + Len(seqs[i])
    BY <1>3 DEF Offsets
  <1>5. Offsets(u, t)
    <2>0. /\ k \in Nat /\ 0 \in 0 .. k - 1
          /\ \A i \in 0 .. k - 1 : i \in 0 .. m
          /\ \A i \in 1 .. k - 1 : i \in 1 .. m /\ i \in 0 .. k - 1 /\ i - 1 \in 0 .. k - 1
      BY <1>1
    <2> HIDE DEF t, m
    <2>1. u \in [0 .. k - 1 -> Nat] /\ u[0] = 0
      BY <2>0, <1>4
    <2>2. ASSUME NEW i \in 1 .. k - 1 PROVE u[i] = u[i - 1] + Len(t[i])
      <3>1. i \in 1 .. m /\ i - 1 \in 0 .. k - 1 /\ i \in 0 .. k - 1 /\ t[i] = seqs[i]
        BY <2>0, <1>2
      <3>2. o[i] = o[i - 1] + Len(seqs[i])
        BY <1>4, <3>1
      <3> QED
        BY <3>1, <3>2
    <2> HIDE DEF u
    <2> QED
      BY <1>2, <2>1, <2>2 DEF Offsets
  <1>6. F \in Seq(T) /\ Joined(F, o, seqs, m)
    BY <1>3, FlattenPlaces
  <1>7. Joined(FlattenSeq(t), u, t, k - 1)
    <2>1. Joined(FlattenSeq(t), u, t, Len(t))
      <3> HIDE DEF t, u
      <3> QED
        BY <1>2, <1>5, FlattenPlaces
    <2> QED
      BY <1>2, <2>1
  <1>8. Len(FlattenSeq(t)) = o[k - 1]
    <2>1. Len(FlattenSeq(t)) = u[k - 1]
      BY <1>7 DEF Joined
    <2> QED
      BY <2>1, <1>1
  <1> HIDE DEF F, t, u
  <1>9. o[k - 1] \in Nat /\ o[k] = o[k - 1] + Len(seqs[k]) /\ o[k] \in Nat
    <2>1. k \in 0 .. m /\ k - 1 \in 0 .. m
      BY <1>1
    <2> QED
      BY <1>4, <2>1
  <1>10. Len(F) = o[m] /\ o[k] <= o[m]
    BY <1>6 DEF Joined
  <1>11. \A i \in 1 .. Len(seqs[k]) : F[o[k - 1] + i] = seqs[k][i]
    BY <1>6 DEF Joined
  <1>12. SubSeq(F, o[k - 1] + 1, o[k - 1] + Len(seqs[k])) = seqs[k]
    <2> DEFINE b == o[k - 1] + 1
               c == o[k - 1] + Len(seqs[k])
    <2>1. b \in Int /\ c \in Int /\ Len(seqs[k]) \in Nat /\ c - b + 1 = Len(seqs[k])
      <3>1. PICK n \in Nat : n = Len(seqs[k])
        BY <1>1
      <3>2. PICK q \in Nat : q = o[k - 1]
        BY <1>9
      <3>3. b = q + 1 /\ c = q + n
        BY <3>1, <3>2
      <3> HIDE DEF b, c
      <3> QED
        BY <3>1, <3>3
    <2>2. \A i \in b .. c : F[i] \in T
      <3>1. Len(F) \in Nat /\ \A i \in 1 .. Len(F) : F[i] \in T
        BY <1>6, LenProperties, ElementOfSeq
      <3>2. b >= 1 /\ c <= Len(F)
        BY <1>9, <1>10
      <3> HIDE DEF b, c
      <3> QED
        BY <2>1, <3>1, <3>2
    <2> HIDE DEF b, c
    <2>3. /\ SubSeq(F, b, c) \in Seq(T)
          /\ Len(SubSeq(F, b, c)) = IF b <= c THEN c - b + 1 ELSE 0
          /\ \A i \in 1 .. c - b + 1 : SubSeq(F, b, c)[i] = F[b + i - 1]
      BY <2>1, <2>2, SubSeqProperties
    <2>4. Len(SubSeq(F, b, c)) = Len(seqs[k])
      BY <2>1, <2>3
    <2>5. ASSUME NEW i \in 1 .. Len(seqs[k])
          PROVE  SubSeq(F, b, c)[i] = seqs[k][i]
      <3>1. b + i - 1 = o[k - 1] + i
        <4>1. PICK q \in Nat : q = o[k - 1]
          BY <1>9
        <4>2. i \in Nat
          BY <2>1
        <4>3. b + i - 1 = (q + 1) + i - 1
          BY <4>1 DEF b
        <4> QED
          BY <4>1, <4>2, <4>3
      <3> QED
        BY <1>11, <2>1, <2>3, <3>1
    <2>6. SubSeq(F, b, c) = seqs[k]
      BY <1>1, <2>3, <2>4, <2>5, SeqEqual
    <2> QED
      BY <2>6 DEF b, c
  <1> QED
    BY <1>6, <1>8, <1>9, <1>10, <1>11, <1>12 DEF F, t

=============================================================================
