-------------------------- MODULE InductionLemmas --------------------------
(***************************************************************************)
(* What Kept and the sums of FiniteSetsExt compute, for every sequence and *)
(* every finite set.  The induction is over sets of numbers, which the     *)
(* provers can instantiate, instead of over predicates.                    *)
(***************************************************************************)
EXTENDS KeptInOrder, FiniteSetsExt, FiniteSetTheorems, SequenceTheorems, TLAPS

\* A set of numbers that has 0, and with a number the next, has all of them.
LEMMA NatSetInduction ==
    ASSUME NEW S, 0 \in S, \A n \in Nat : n \in S => n + 1 \in S
    PROVE  \A n \in Nat : n \in S
<1>. DEFINE Missing == Nat \ S
            Less == OpToRel(<, Nat)
<1>1. SUFFICES ASSUME Missing # {} PROVE FALSE
  OBVIOUS
<1>2. \E x \in Missing : \A y \in Missing : <<y, x>> \notin Less
  <2>1. IsWellFoundedOn(Less, Nat)
    BY NatLessThanWellFounded
  <2>. HIDE DEF Less
  <2>. QED
    BY <1>1, <2>1, WFMin
<1>3. PICK x \in Missing : \A y \in Missing : <<y, x>> \notin Less
  BY <1>2
<1>4. \A y \in Missing : ~(y < x)
  BY <1>3 DEF OpToRel
<1>5. x # 0 /\ x - 1 \in Nat /\ x - 1 < x
  OBVIOUS
<1>. QED
  BY <1>4, <1>5

-----------------------------------------------------------------------------
(* Kept                                                                    *)

Distinct(s) == \A i, j \in DOMAIN s : s[i] = s[j] => i = j

\* The first n steps of Kept.
Step(s, S, n, f) == IF n = 0 THEN <<>>
                    ELSE IF s[n] \in S THEN Append(f[n - 1], s[n]) ELSE f[n - 1]
KeptTo(s, S, n, f) == f = [i \in 0 .. n |-> Step(s, S, i, f)]

LEMMA KeptExists ==
    ASSUME NEW s, NEW S, NEW m \in Nat
    PROVE  \E f : KeptTo(s, S, m, f)
<1>. DEFINE Good == {n \in Nat : \E f : KeptTo(s, S, n, f)}
<1>1. 0 \in Good
  <2>. DEFINE f == [i \in 0 .. 0 |-> <<>>]
  <2>1. KeptTo(s, S, 0, f)
    BY DEF KeptTo, Step
  <2>. QED
    BY <2>1
<1>2. ASSUME NEW n \in Nat, n \in Good PROVE n + 1 \in Good
  <2>1. PICK f : KeptTo(s, S, n, f)
    BY <1>2
  <2>. DEFINE g == [i \in 0 .. n + 1 |-> IF i = n + 1 THEN Step(s, S, n + 1, f) ELSE f[i]]
  <2>2. \A i \in 0 .. n : g[i] = f[i] /\ f[i] = Step(s, S, i, f)
    BY <2>1 DEF KeptTo
  <2>3. ASSUME NEW i \in 0 .. n + 1 PROVE g[i] = Step(s, S, i, g)
    <3>1. i # 0 => i - 1 \in 0 .. n
      OBVIOUS
    <3>2. Step(s, S, i, g) = Step(s, S, i, f)
      BY <2>2, <3>1 DEF Step
    <3>3. CASE i = n + 1
      BY <3>2, <3>3
    <3>4. CASE i \in 0 .. n
      BY <2>2, <3>2, <3>4
    <3>. QED
      BY <3>3, <3>4
  <2>4. g = [i \in 0 .. n + 1 |-> g[i]]
    OBVIOUS
  <2>. HIDE DEF g
  <2>5. KeptTo(s, S, n + 1, g)
    BY <2>3, <2>4 DEF KeptTo
  <2>. QED
    BY <2>5
<1>. HIDE DEF Good
<1>3. \A n \in Nat : n \in Good
  BY <1>1, <1>2, NatSetInduction
<1>. QED
  BY <1>3 DEF Good

\* A new element at the end of a sequence without repetitions.
LEMMA DistinctAppend ==
    ASSUME NEW T, NEW s \in Seq(T), NEW e \in T
    PROVE  /\ Append(s, e) \in Seq(T) /\ Range(Append(s, e)) = Range(s) \cup {e}
           /\ Distinct(s) /\ e \notin Range(s) => Distinct(Append(s, e))
<1>. DEFINE b == Append(s, e)
<1>1. /\ b \in Seq(T) /\ Len(b) = Len(s) + 1
      /\ \A i \in 1 .. Len(s) : b[i] = s[i]
      /\ b[Len(s) + 1] = e
      /\ Len(s) \in Nat /\ DOMAIN s = 1 .. Len(s) /\ DOMAIN b = 1 .. Len(s) + 1
  BY AppendProperties
<1>. HIDE DEF b
<1>2. Range(b) = Range(s) \cup {e}
  BY <1>1 DEF Range
<1>3. Distinct(s) /\ e \notin Range(s) => Distinct(b)
  BY <1>1 DEF Distinct, Range
<1>. QED
  BY <1>1, <1>2, <1>3 DEF b

\* Kept has the elements that are in the set, each as often as the sequence, and
\* is in the sequence's type.
LEMMA KeptFacts ==
    ASSUME NEW T, NEW s \in Seq(T), NEW S
    PROVE  /\ Kept(s, S) \in Seq(T)
           /\ Range(Kept(s, S)) = Range(s) \cap S
           /\ Distinct(s) => Distinct(Kept(s, S))
<1>1. Len(s) \in Nat /\ DOMAIN s = 1 .. Len(s)
  OBVIOUS
<1>. DEFINE f == CHOOSE f : KeptTo(s, S, Len(s), f)
<1>2. KeptTo(s, S, Len(s), f)
  BY <1>1, KeptExists
<1>3. Kept(s, S) = f[Len(s)]
  BY DEF Kept, KeptTo, Step
<1>. HIDE DEF f
<1>4. \A n \in 0 .. Len(s) : f[n] = Step(s, S, n, f)
  BY <1>2 DEF KeptTo
<1>. DEFINE Good == {n \in Nat : n <= Len(s) =>
                       /\ f[n] \in Seq(T)
                       /\ Range(f[n]) = {s[i] : i \in 1 .. n} \cap S
                       /\ Distinct(s) => Distinct(f[n])}
<1>5. 0 \in Good
  <2>1. f[0] = <<>>
    BY <1>1, <1>4 DEF Step
  <2>2. /\ <<>> \in Seq(T) /\ Distinct(<<>>)
        /\ Range(<<>>) = {s[i] : i \in 1 .. 0} \cap S
    BY DEF Range, Distinct
  <2>. QED
    BY <2>1, <2>2
<1>6. ASSUME NEW n \in Nat, n \in Good PROVE n + 1 \in Good
  <2>. SUFFICES ASSUME n + 1 <= Len(s)
                PROVE  /\ f[n + 1] \in Seq(T)
                       /\ Range(f[n + 1]) = {s[i] : i \in 1 .. n + 1} \cap S
                       /\ Distinct(s) => Distinct(f[n + 1])
    OBVIOUS
  <2>1. /\ f[n] \in Seq(T) /\ Range(f[n]) = {s[i] : i \in 1 .. n} \cap S
        /\ Distinct(s) => Distinct(f[n])
    BY <1>1, <1>6
  <2>2. f[n + 1] = IF s[n + 1] \in S THEN Append(f[n], s[n + 1]) ELSE f[n]
    BY <1>1, <1>4 DEF Step
  <2>3. s[n + 1] \in T /\ n + 1 \in DOMAIN s
    BY <1>1
  <2>4. {s[i] : i \in 1 .. n + 1} = {s[i] : i \in 1 .. n} \cup {s[n + 1]}
    OBVIOUS
  <2>5. CASE s[n + 1] \notin S
    BY <2>1, <2>2, <2>4, <2>5
  <2>6. CASE s[n + 1] \in S
    <3>1. f[n + 1] = Append(f[n], s[n + 1])
      BY <2>2, <2>6
    <3>2. /\ f[n + 1] \in Seq(T) /\ Range(f[n + 1]) = Range(f[n]) \cup {s[n + 1]}
          /\ Distinct(f[n]) /\ s[n + 1] \notin Range(f[n]) => Distinct(f[n + 1])
      BY <2>1, <2>3, <3>1, DistinctAppend
    <3>3. Distinct(s) => s[n + 1] \notin {s[i] : i \in 1 .. n}
      BY <1>1, <2>3 DEF Distinct
    <3>. QED
      BY <2>1, <2>4, <2>6, <3>2, <3>3
  <2>. QED
    BY <2>5, <2>6
<1>. HIDE DEF Good
<1>7. Len(s) \in Good
  BY <1>1, <1>5, <1>6, NatSetInduction
<1>8. Range(s) = {s[i] : i \in 1 .. Len(s)}
  BY <1>1 DEF Range
<1>. QED
  BY <1>1, <1>3, <1>7, <1>8 DEF Good

\* Kept goes through a sequence from its beginning: an element at the end is added
\* at the end, if it is in the set.
LEMMA KeptAppend ==
    ASSUME NEW T, NEW s \in Seq(T), NEW e \in T, NEW S
    PROVE  /\ Kept(<<>>, S) = <<>>
           /\ Kept(Append(s, e), S) = IF e \in S THEN Append(Kept(s, S), e) ELSE Kept(s, S)
<1>. DEFINE b == Append(s, e)
            n == Len(s)
<1>1. /\ n \in Nat /\ Len(b) = n + 1 /\ b[n + 1] = e
      /\ \A i \in 1 .. n : b[i] = s[i]
  BY AppendProperties
<1>. HIDE DEF b
<1>. DEFINE f == CHOOSE f : KeptTo(s, S, n, f)
            g == CHOOSE g : KeptTo(b, S, Len(b), g)
            h == CHOOSE h : KeptTo(<<>>, S, Len(<<>>), h)
<1>2. KeptTo(s, S, n, f) /\ KeptTo(b, S, Len(b), g) /\ KeptTo(<<>>, S, Len(<<>>), h)
  <2>1. KeptTo(s, S, n, f)
    BY <1>1, KeptExists
  <2>2. KeptTo(b, S, Len(b), g)
    <3>1. Len(b) \in Nat
      BY <1>1
    <3>. QED
      BY <3>1, KeptExists
  <2>3. KeptTo(<<>>, S, Len(<<>>), h)
    <3>1. Len(<<>>) \in Nat
      OBVIOUS
    <3>. QED
      BY <3>1, KeptExists
  <2>. HIDE DEF f, g, h
  <2>. QED
    BY <2>1, <2>2, <2>3
<1>3. Kept(s, S) = f[n]
  BY DEF Kept, KeptTo, Step
<1>4. Kept(b, S) = g[n + 1] /\ Kept(<<>>, S) = h[0]
  <2>1. Kept(b, S) = g[Len(b)]
    BY DEF Kept, KeptTo, Step
  <2>2. Kept(<<>>, S) = h[Len(<<>>)]
    BY DEF Kept, KeptTo, Step
  <2>. HIDE DEF f, g, h
  <2>. QED
    BY <1>1, <2>1, <2>2
<1>. HIDE DEF f, g, h
<1>5. h[0] = <<>>
  BY <1>2 DEF KeptTo, Step
<1>6. /\ \A i \in 0 .. n : f[i] = Step(s, S, i, f)
      /\ \A i \in 0 .. n + 1 : g[i] = Step(b, S, i, g)
  BY <1>1, <1>2 DEF KeptTo
<1>. DEFINE Same == {i \in Nat : i <= n => f[i] = g[i]}
<1>7. 0 \in Same
  BY <1>1, <1>6 DEF Step
<1>8. ASSUME NEW i \in Nat, i \in Same PROVE i + 1 \in Same
  <2>. SUFFICES ASSUME i + 1 <= n PROVE f[i + 1] = g[i + 1]
    OBVIOUS
  <2>1. f[i] = g[i] /\ b[i + 1] = s[i + 1]
    BY <1>1, <1>8
  <2>2. /\ f[i + 1] = IF s[i + 1] \in S THEN Append(f[i], s[i + 1]) ELSE f[i]
        /\ g[i + 1] = IF b[i + 1] \in S THEN Append(g[i], b[i + 1]) ELSE g[i]
    <3>1. i + 1 \in 0 .. n /\ i + 1 \in 0 .. n + 1 /\ i + 1 # 0 /\ (i + 1) - 1 = i
      BY <1>1
    <3>. QED
      BY <1>6, <3>1 DEF Step
  <2>. QED
    BY <2>1, <2>2
<1>. HIDE DEF Same
<1>9. f[n] = g[n]
  <2>1. n \in Same
    BY <1>1, <1>7, <1>8, NatSetInduction
  <2>. QED
    BY <1>1, <2>1 DEF Same
<1>10. g[n + 1] = IF e \in S THEN Append(g[n], e) ELSE g[n]
  <2>1. n + 1 \in 0 .. n + 1 /\ n + 1 # 0 /\ (n + 1) - 1 = n
    BY <1>1
  <2>. QED
    BY <1>1, <1>6, <2>1 DEF Step
<1>. QED
  BY <1>3, <1>4, <1>5, <1>9, <1>10 DEF b

\* A sequence without repetitions is as long as its range is large.
LEMMA DistinctLength ==
    ASSUME NEW T, NEW s \in Seq(T), Distinct(s)
    PROVE  IsFiniteSet(Range(s)) /\ Cardinality(Range(s)) = Len(s)
<1>. DEFINE D == 1 .. Len(s)
<1>1. Len(s) \in Nat /\ DOMAIN s = D
  OBVIOUS
<1>2. IsFiniteSet(D) /\ Cardinality(D) = Len(s)
  BY <1>1, FS_Interval
<1>3. s \in Bijection(D, Range(s))
  <2>1. s \in [D -> Range(s)]
    BY <1>1 DEF Range
  <2>2. \A i, j \in D : s[i] = s[j] => i = j
    BY <1>1 DEF Distinct
  <2>3. \A x \in Range(s) : \E i \in D : s[i] = x
    BY <1>1 DEF Range
  <2>. QED
    BY <1>1, <2>1, <2>2, <2>3 DEF Bijection, Injection, Surjection, IsInjective
<1>. QED
  BY <1>2, <1>3, FS_Bijection DEF ExistsBijection

-----------------------------------------------------------------------------
(* Sums                                                                    *)

\* The sum of g over S; FiniteSetsExt picks the elements one after the other.
Total(g, S) == MapThenSumSet(LAMBDA x : g[x], S)
Pick(S) == CHOOSE x \in S : TRUE

SumStep(g, s, sums) == IF s = {} THEN 0 ELSE g[Pick(s)] + sums[s \ {Pick(s)}]
IsSums(g, P, sums) == sums = [s \in P |-> SumStep(g, s, sums)]

LEMMA PickFacts ==
    ASSUME NEW S, S # {}
    PROVE  Pick(S) \in S
BY DEF Pick

LEMMA SumsExist ==
    ASSUME NEW g, NEW S, IsFiniteSet(S)
    PROVE  \E sums : IsSums(g, SUBSET S, sums)
<1>. DEFINE Small(n) == {s \in SUBSET S : Cardinality(s) <= n}
            Good == {n \in Nat : \E sums : IsSums(g, Small(n), sums)}
<1>1. \A s \in SUBSET S : /\ IsFiniteSet(s) /\ Cardinality(s) \in Nat
                          /\ Cardinality(s) <= Cardinality(S)
                          /\ Cardinality(s) = 0 <=> s = {}
  BY FS_Subset, FS_CardinalityType, FS_EmptySet
<1>2. \A s \in SUBSET S : s # {} =>
        /\ s \ {Pick(s)} \in SUBSET S
        /\ Cardinality(s \ {Pick(s)}) = Cardinality(s) - 1
  BY <1>1, PickFacts, FS_RemoveElement
<1>3. 0 \in Good
  <2>. DEFINE sums == [s \in Small(0) |-> 0]
  <2>1. \A s \in Small(0) : s = {}
    BY <1>1
  <2>2. IsSums(g, Small(0), sums)
    BY <2>1 DEF IsSums, SumStep
  <2>. QED
    BY <2>2
<1>4. ASSUME NEW n \in Nat, n \in Good PROVE n + 1 \in Good
  <2>1. PICK f : IsSums(g, Small(n), f)
    BY <1>4
  <2>. DEFINE P == Small(n + 1)
              sums == [s \in P |-> SumStep(g, s, f)]
  <2>2. \A s \in Small(n) : s \in P /\ sums[s] = f[s]
    <3>1. \A s \in Small(n) : s \in P
      BY <1>1
    <3>2. \A s \in Small(n) : f[s] = SumStep(g, s, f)
      BY <2>1 DEF IsSums
    <3>. QED
      BY <3>1, <3>2
  <2>3. \A s \in P : s # {} => s \ {Pick(s)} \in Small(n)
    BY <1>1, <1>2
  <2>4. \A s \in P : SumStep(g, s, sums) = SumStep(g, s, f)
    <3>. HIDE DEF sums
    <3>. QED
      BY <2>2, <2>3 DEF SumStep
  <2>5. sums = [s \in P |-> SumStep(g, s, sums)]
    <3>1. \A s \in P : sums[s] = SumStep(g, s, f)
      OBVIOUS
    <3>2. sums = [s \in P |-> sums[s]]
      OBVIOUS
    <3>. HIDE DEF sums, P
    <3>. QED
      BY <2>4, <3>1, <3>2
  <2>. HIDE DEF sums
  <2>6. IsSums(g, Small(n + 1), sums)
    BY <2>5 DEF IsSums
  <2>. QED
    BY <2>6
<1>5. Small(Cardinality(S)) = SUBSET S /\ Cardinality(S) \in Nat
  BY <1>1
<1>. HIDE DEF Good
<1>6. Cardinality(S) \in Good
  BY <1>3, <1>4, <1>5, NatSetInduction
<1>. QED
  BY <1>5, <1>6 DEF Good

\* The sums over a set depend only on what is summed there.
LEMMA SumsAgree ==
    ASSUME NEW S, NEW T, NEW U, IsFiniteSet(U), U \subseteq S, U \subseteq T,
           NEW g, NEW f, IsSums(g, SUBSET S, f),
           NEW h, NEW e, IsSums(h, SUBSET T, e),
           \A x \in U : g[x] = h[x]
    PROVE  f[U] = e[U]
<1>. DEFINE Good == {n \in Nat : \A s \in SUBSET U : Cardinality(s) = n => f[s] = e[s]}
<1>1. \A s \in SUBSET U : /\ IsFiniteSet(s) /\ Cardinality(s) \in Nat
                          /\ Cardinality(s) = 0 <=> s = {}
  BY FS_Subset, FS_CardinalityType, FS_EmptySet
<1>2. \A s \in SUBSET U : f[s] = SumStep(g, s, f) /\ e[s] = SumStep(h, s, e)
  BY DEF IsSums
<1>3. 0 \in Good
  BY <1>1, <1>2 DEF SumStep
<1>4. ASSUME NEW n \in Nat, n \in Good PROVE n + 1 \in Good
  <2>1. SUFFICES ASSUME NEW s \in SUBSET U, Cardinality(s) = n + 1 PROVE f[s] = e[s]
    OBVIOUS
  <2>2. s # {} /\ Pick(s) \in U
    BY <1>1, <2>1, PickFacts
  <2>3. s \ {Pick(s)} \in SUBSET U /\ Cardinality(s \ {Pick(s)}) = n
    <3>1. IsFiniteSet(s) /\ Pick(s) \in s
      BY <1>1, <2>2, PickFacts
    <3>2. Cardinality(s \ {Pick(s)}) = Cardinality(s) - 1
      BY <3>1, FS_RemoveElement
    <3>. QED
      BY <2>1, <3>2
  <2>4. f[s \ {Pick(s)}] = e[s \ {Pick(s)}] /\ g[Pick(s)] = h[Pick(s)]
    BY <1>4, <2>2, <2>3
  <2>. QED
    BY <1>2, <2>2, <2>4 DEF SumStep
<1>. HIDE DEF Good
<1>5. Cardinality(U) \in Good
  BY <1>1, <1>3, <1>4, NatSetInduction
<1>. QED
  BY <1>5 DEF Good

\* The library's sum is one of these.
LEMMA TotalIsSum ==
    ASSUME NEW g, NEW S, IsFiniteSet(S)
    PROVE  \E sums : IsSums(g, SUBSET S, sums) /\ Total(g, S) = sums[S]
<1>. DEFINE f == CHOOSE sums : IsSums(g, SUBSET S, sums)
<1>1. IsSums(g, SUBSET S, f)
  BY SumsExist
<1>2. Total(g, S) = f[S]
  BY DEF Total, IsSums, SumStep, Pick, MapThenSumSet, MapThenFoldSet
<1>. HIDE DEF f
<1>. QED
  BY <1>1, <1>2

\* Two functions that agree on a set have the same sum over it.
LEMMA TotalSame ==
    ASSUME NEW g, NEW h, NEW S, IsFiniteSet(S), \A x \in S : g[x] = h[x]
    PROVE  Total(g, S) = Total(h, S)
<1>1. PICK f : IsSums(g, SUBSET S, f) /\ Total(g, S) = f[S]
  BY TotalIsSum
<1>2. PICK e : IsSums(h, SUBSET S, e) /\ Total(h, S) = e[S]
  BY TotalIsSum
<1>. QED
  BY <1>1, <1>2, SumsAgree

LEMMA TotalPick ==
    ASSUME NEW g, NEW S, IsFiniteSet(S), S # {}
    PROVE  Total(g, S) = g[Pick(S)] + Total(g, S \ {Pick(S)})
<1>. DEFINE T == S \ {Pick(S)}
<1>1. IsFiniteSet(T) /\ T \in SUBSET S
  BY FS_Subset
<1>2. PICK f : IsSums(g, SUBSET S, f) /\ Total(g, S) = f[S]
  BY TotalIsSum
<1>. HIDE DEF T
<1>3. PICK e : IsSums(g, SUBSET T, e) /\ Total(g, T) = e[T]
  BY <1>1, TotalIsSum
<1>4. f[T] = e[T]
  BY <1>1, <1>2, <1>3, SumsAgree
<1>5. f[S] = g[Pick(S)] + f[T]
  <2>1. f[S] = SumStep(g, S, f)
    BY <1>2 DEF IsSums
  <2>. QED
    BY <2>1 DEF SumStep, T
<1>. QED
  BY <1>2, <1>3, <1>4, <1>5 DEF T

\* Every element may be taken out of a sum of numbers, whichever is picked first.
LEMMA TotalRemove ==
    ASSUME NEW g, NEW S, IsFiniteSet(S), \A x \in S : g[x] \in Nat
    PROVE  /\ Total(g, S) \in Nat /\ Total(g, {}) = 0
           /\ \A x \in S : Total(g, S) = g[x] + Total(g, S \ {x})
<1>. DEFINE Holds(s) == /\ Total(g, s) \in Nat
                        /\ \A x \in s : Total(g, s) = g[x] + Total(g, s \ {x})
            Good == {n \in Nat : \A s \in SUBSET S : Cardinality(s) <= n => Holds(s)}
<1>1. \A s \in SUBSET S : /\ IsFiniteSet(s) /\ Cardinality(s) \in Nat
                          /\ Cardinality(s) = 0 <=> s = {}
                          /\ \A x \in s : /\ s \ {x} \in SUBSET S
                                          /\ Cardinality(s \ {x}) = Cardinality(s) - 1
  BY FS_Subset, FS_CardinalityType, FS_EmptySet, FS_RemoveElement
<1>2. Total(g, {}) = 0
  <2>1. PICK f : IsSums(g, SUBSET {}, f) /\ Total(g, {}) = f[{}]
    BY FS_EmptySet, TotalIsSum
  <2>. QED
    BY <2>1 DEF IsSums, SumStep
<1>3. 0 \in Good
  <2>1. \A s \in SUBSET S : Cardinality(s) <= 0 => s = {}
    BY <1>1
  <2>2. Holds({})
    BY <1>2
  <2>. HIDE DEF Holds
  <2>. QED
    BY <2>1, <2>2
<1>4. ASSUME NEW n \in Nat, n \in Good PROVE n + 1 \in Good
  <2>1. SUFFICES ASSUME NEW s \in SUBSET S, Cardinality(s) = n + 1 PROVE Holds(s)
    <3>1. \A s \in SUBSET S : Cardinality(s) <= n + 1 =>
            Cardinality(s) <= n \/ Cardinality(s) = n + 1
      BY <1>1
    <3>. HIDE DEF Holds
    <3>. QED
      BY <1>4, <3>1
  <2>. DEFINE c == Pick(s)
  <2>2. c \in s /\ s # {}
    BY <1>1, <2>1, PickFacts
  <2>3. Total(g, s) = g[c] + Total(g, s \ {c})
    BY <1>1, <2>2, TotalPick
  <2>. HIDE DEF c
  <2>4. \A x \in s : Holds(s \ {x})
    <3>1. \A x \in s : s \ {x} \in SUBSET S /\ Cardinality(s \ {x}) = n
      BY <1>1, <2>1
    <3>. HIDE DEF Holds
    <3>. QED
      BY <1>4, <3>1
  <2>5. Total(g, s) \in Nat
    BY <2>2, <2>3, <2>4
  <2>6. ASSUME NEW x \in s, x # c PROVE Total(g, s) = g[x] + Total(g, s \ {x})
    <3>1. x \in s \ {c} /\ c \in s \ {x} /\ (s \ {c}) \ {x} = (s \ {x}) \ {c}
      BY <2>2, <2>6
    <3>2. Total(g, s \ {c}) = g[x] + Total(g, (s \ {x}) \ {c})
      BY <2>2, <2>4, <3>1
    <3>3. Total(g, s \ {x}) = g[c] + Total(g, (s \ {x}) \ {c})
      BY <2>4, <3>1
    <3>4. g[x] \in Nat /\ g[c] \in Nat
      BY <2>2
    <3>5. Total(g, s \ {x}) \in Nat /\ Total(g, s \ {c}) \in Nat
      BY <2>2, <2>4
    <3>6. Total(g, (s \ {x}) \ {c}) \in Int
      <4>1. s \ {x} \in SUBSET S /\ Cardinality(s \ {x}) = n
        BY <1>1, <2>1
      <4>2. /\ (s \ {x}) \ {c} \in SUBSET S
            /\ Cardinality((s \ {x}) \ {c}) = n - 1
        BY <1>1, <3>1, <4>1
      <4>3. Holds((s \ {x}) \ {c})
        <5>. HIDE DEF Holds
        <5>. QED
          BY <1>4, <4>2
      <4>. QED
        BY <4>3
    <3>. QED
      BY <2>3, <3>2, <3>3, <3>4, <3>6
  <2>. QED
    BY <2>3, <2>5, <2>6
<1>. HIDE DEF Good
<1>5. Cardinality(S) \in Good
  BY <1>1, <1>3, <1>4, NatSetInduction
<1>. QED
  BY <1>2, <1>5 DEF Good

\* A sum over a set is the sum over a part of it and that over the rest.
LEMMA TotalSplit ==
    ASSUME NEW g, NEW S, IsFiniteSet(S), \A x \in S : g[x] \in Nat, NEW T \in SUBSET S
    PROVE  /\ Total(g, S) = Total(g, T) + Total(g, S \ T)
           /\ Total(g, S) \in Nat /\ Total(g, T) \in Nat /\ Total(g, S \ T) \in Nat
<1>. DEFINE Good == {n \in Nat : \A t \in SUBSET S : Cardinality(t) = n =>
                       Total(g, S) = Total(g, t) + Total(g, S \ t)}
<1>1. \A s \in SUBSET S : /\ IsFiniteSet(s) /\ Cardinality(s) \in Nat
                          /\ Cardinality(s) = 0 <=> s = {}
                          /\ \A x \in s : Cardinality(s \ {x}) = Cardinality(s) - 1
  BY FS_Subset, FS_CardinalityType, FS_EmptySet, FS_RemoveElement
<1>2. Total(g, {}) = 0
  BY TotalRemove
<1>3. ASSUME NEW s \in SUBSET S
      PROVE  /\ Total(g, s) \in Nat
             /\ \A x \in s : Total(g, s) = g[x] + Total(g, s \ {x})
  <2>1. IsFiniteSet(s) /\ \A x \in s : g[x] \in Nat
    BY <1>1
  <2>. QED
    BY <2>1, TotalRemove
<1>4. 0 \in Good
  <2>1. S \ {} = S /\ Total(g, S) \in Nat
    BY <1>3
  <2>2. ASSUME NEW t \in SUBSET S, Cardinality(t) = 0
        PROVE  Total(g, S) = Total(g, t) + Total(g, S \ t)
    <3>1. t = {}
      BY <1>1, <2>2
    <3>. QED
      BY <1>2, <2>1, <3>1
  <2>. QED
    BY <2>2
<1>5. ASSUME NEW n \in Nat, n \in Good PROVE n + 1 \in Good
  <2>1. SUFFICES ASSUME NEW t \in SUBSET S, Cardinality(t) = n + 1
                 PROVE  Total(g, S) = Total(g, t) + Total(g, S \ t)
    OBVIOUS
  <2>2. PICK x : x \in t
    BY <1>1, <2>1
  <2>3. Cardinality(t \ {x}) = n /\ t \ {x} \in SUBSET S
    BY <1>1, <2>1, <2>2
  <2>4. Total(g, S) = Total(g, t \ {x}) + Total(g, S \ (t \ {x}))
    BY <1>5, <2>3
  <2>5. Total(g, t) = g[x] + Total(g, t \ {x})
    BY <1>3, <2>2
  <2>6. Total(g, S \ (t \ {x})) = g[x] + Total(g, S \ t)
    <3>1. /\ S \ (t \ {x}) \in SUBSET S /\ x \in S \ (t \ {x})
          /\ (S \ (t \ {x})) \ {x} = S \ t
      BY <2>2
    <3>2. Total(g, S \ (t \ {x})) = g[x] + Total(g, (S \ (t \ {x})) \ {x})
      BY <1>3, <3>1
    <3>. QED
      BY <3>1, <3>2
  <2>7. /\ g[x] \in Nat /\ Total(g, t \ {x}) \in Nat /\ Total(g, S \ t) \in Nat
    BY <1>3, <2>2, <2>3
  <2>. QED
    BY <2>4, <2>5, <2>6, <2>7
<1>. HIDE DEF Good
<1>6. Cardinality(T) \in Good
  BY <1>1, <1>4, <1>5, NatSetInduction
<1>. QED
  BY <1>6, <1>3 DEF Good
=============================================================================
