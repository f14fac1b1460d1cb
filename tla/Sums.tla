-------------------------------- MODULE Sums --------------------------------
(***************************************************************************)
(* What the accounts of the models rest on: lemmas about MapThenSumSet     *)
(* over a finite set, for a summand that is a function, and the two        *)
(* induction principles that they and other proofs need, stated with a set *)
(* of counterexamples in the place of a predicate.                         *)
(***************************************************************************)
EXTENDS Integers, FiniteSets, FiniteSetsExt, FiniteSetTheorems, WellFoundedInduction, TLAPS

SumOf(f, S) == MapThenSumSet(LAMBDA x : f[x], S)

-----------------------------------------------------------------------------
(* Induction.                                                              *)

\* A set of natural numbers has a least element.
LEMMA LeastNumber ==
    ASSUME NEW T \in SUBSET Nat, T # {}
    PROVE  \E n \in T : \A m \in T : n <= m
  <1>1. PICK n \in T : \A m \in T : ~(<<m, n>> \in OpToRel(<, Nat))
    BY WFMin, NatLessThanWellFounded, Zenon
  <1>2. \A m \in T : ~(m < n)
    BY <1>1 DEF OpToRel
  <1> QED  BY <1>2

\* Among subsets of a finite set there is one without a smaller one.
LEMMA SmallestSubset ==
    ASSUME NEW S, IsFiniteSet(S), NEW B \in SUBSET (SUBSET S), B # {}
    PROVE  \E s \in B : \A t \in B : t \subseteq s => t = s
  <1>1. IsWellFoundedOn(StrictSubsetOrdering(S), SUBSET S)
    BY FS_StrictSubsetOrderingWellFounded, FS_FiniteSubsetsOfFinite
  <1>2. B \subseteq SUBSET S
    OBVIOUS
  <1>3. PICK s \in B : \A t \in B : ~(<<t, s>> \in StrictSubsetOrdering(S))
    BY <1>1, <1>2, WFMin, Zenon
  <1> QED  BY <1>3 DEF StrictSubsetOrdering

-----------------------------------------------------------------------------
(* MapThenSumSet is what its recursive function says.                      *)

Some(s) == CHOOSE x \in s : TRUE

\* One round of the fold, with g for the rest
Round(f, g, s) == IF s = {} THEN 0 ELSE f[Some(s)] + g[s \ {Some(s)}]

IsFold(f, g, S) == \A s \in SUBSET S : g[s] = Round(f, g, s)

Fold(f, S) == CHOOSE g : g = [s \in SUBSET S |-> Round(f, g, s)]

LEMMA SumIsFold == ASSUME NEW f, NEW S PROVE SumOf(f, S) = Fold(f, S)[S]
  BY DEF SumOf, Fold, Round, MapThenSumSet, MapThenFoldSet, Some

\* The element a round takes is one of the set.
LEMMA SomeMember == ASSUME NEW s, s # {} PROVE Some(s) \in s
  BY DEF Some

\* There is a function that satisfies every round ...
LEMMA FoldExists ==
    ASSUME NEW S, IsFiniteSet(S), NEW f, \A x \in S : f[x] \in Int
    PROVE  \E g \in [SUBSET S -> Int] : IsFold(f, g, S)
  <1> USE DEF IsFold
  <1> DEFINE Up(k) == {g \in [SUBSET S -> Int] :
                         \A s \in SUBSET S : Cardinality(s) <= k => g[s] = Round(f, g, s)}
             Bad == {k \in Nat : Up(k) = {}}
  <1>0. \A s \in SUBSET S : IsFiniteSet(s) /\ Cardinality(s) \in Nat
                            /\ (Cardinality(s) = 0 <=> s = {})
    BY FS_Subset, FS_CardinalityType, FS_EmptySet
  <1>1. 0 \notin Bad
    <2> DEFINE zero == [s \in SUBSET S |-> 0]
    <2>1. zero \in [SUBSET S -> Int]
      OBVIOUS
    <2>2. \A s \in SUBSET S : Cardinality(s) <= 0 => s = {}
      BY <1>0
    <2>3. \A s \in SUBSET S : Cardinality(s) <= 0 => zero[s] = Round(f, zero, s)
      BY <2>2 DEF Round
    <2> QED  BY <2>1, <2>3
  <1>2. ASSUME NEW k \in Nat, k \notin Bad  PROVE k + 1 \notin Bad
    <2>1. PICK g \in [SUBSET S -> Int] :
             \A s \in SUBSET S : Cardinality(s) <= k => g[s] = Round(f, g, s)
      BY <1>2
    <2> DEFINE h == [s \in SUBSET S |-> Round(f, g, s)]
    <2>2. \A s \in SUBSET S : s # {} => /\ Some(s) \in S /\ s \ {Some(s)} \in SUBSET S
                                        /\ Cardinality(s \ {Some(s)}) = Cardinality(s) - 1
      BY <1>0, SomeMember, FS_RemoveElement
    <2>3. h \in [SUBSET S -> Int]
      BY <2>2 DEF Round
    <2>4. ASSUME NEW s \in SUBSET S, Cardinality(s) <= k + 1
          PROVE  h[s] = Round(f, h, s)
      <3>1. CASE s = {}
        BY <3>1 DEF Round
      <3>2. CASE s # {}
        <4> DEFINE t == s \ {Some(s)}
        <4>1. t \in SUBSET S /\ Cardinality(t) <= k
          BY <2>2, <2>4, <3>2, <1>0
        <4>2. g[t] = Round(f, g, t)
          BY <2>1, <4>1
        <4>3. h[t] = g[t]
          BY <4>1, <4>2
        <4> QED  BY <3>2, <4>3 DEF Round
      <3> QED  BY <3>1, <3>2
    <2>5. h \in Up(k + 1)
      BY <2>3, <2>4
    <2> QED  BY <2>5
  <1>3. Bad \subseteq Nat
    OBVIOUS
  <1>4. Bad = {}
    <2> HIDE DEF Bad
    <2> SUFFICES ASSUME Bad # {} PROVE FALSE
      OBVIOUS
    <2>1. PICK n \in Bad : \A m \in Bad : n <= m
      BY <1>3, LeastNumber
    <2>2. n \in Nat /\ n # 0
      BY <1>1, <1>3
    <2>3. n - 1 \in Nat /\ n - 1 \notin Bad
      BY <2>1, <2>2
    <2>4. (n - 1) + 1 \notin Bad
      BY <1>2, <2>3
    <2> QED  BY <2>2, <2>4
  <1>5. Cardinality(S) \in Nat /\ Cardinality(S) \notin Bad
    BY <1>0, <1>4
  <1>6. PICK g \in Up(Cardinality(S)) : TRUE
    BY <1>5
  <1>7. \A s \in SUBSET S : Cardinality(s) <= Cardinality(S)
    BY FS_Subset
  <1> QED  BY <1>6, <1>7

\* ... and only one, below any set.
LEMMA FoldUnique ==
    ASSUME NEW S, IsFiniteSet(S), NEW f, NEW g, NEW h,
           IsFold(f, g, S), IsFold(f, h, S)
    PROVE  \A s \in SUBSET S : g[s] = h[s]
  <1> USE DEF IsFold
  <1> DEFINE Bad == {s \in SUBSET S : g[s] # h[s]}
  <1> SUFFICES ASSUME Bad # {} PROVE FALSE
    OBVIOUS
  <1>1. PICK s \in Bad : \A t \in Bad : t \subseteq s => t = s
    <2>1. Bad \in SUBSET (SUBSET S)
      OBVIOUS
    <2> HIDE DEF Bad
    <2> QED  BY <2>1, SmallestSubset
  <1>2. s # {}
    BY DEF Round
  <1>3. s \ {Some(s)} \in SUBSET S /\ s \ {Some(s)} \notin Bad
    BY <1>1, <1>2, SomeMember
  <1>4. g[s \ {Some(s)}] = h[s \ {Some(s)}]
    BY <1>3
  <1> QED  BY <1>2, <1>4 DEF Round

\* So a sum is an integer, and the sum of the rest and what a round takes.
LEMMA SumRound ==
    ASSUME NEW S, IsFiniteSet(S), NEW f, \A x \in S : f[x] \in Int
    PROVE  /\ SumOf(f, S) \in Int
           /\ SumOf(f, {}) = 0
           /\ S # {} => SumOf(f, S) = f[Some(S)] + SumOf(f, S \ {Some(S)})
  <1>1. PICK g \in [SUBSET S -> Int] : IsFold(f, g, S)
    BY FoldExists
  <1>2. ASSUME NEW T \in SUBSET S  PROVE SumOf(f, T) = g[T]
    <2>1. IsFiniteSet(T) /\ \A x \in T : f[x] \in Int
      BY FS_Subset
    <2>2. \E h : h = [s \in SUBSET T |-> Round(f, h, s)]
      <3>1. PICK h \in [SUBSET T -> Int] : IsFold(f, h, T)
        BY <2>1, FoldExists
      <3>2. h = [s \in SUBSET T |-> Round(f, h, s)]
        BY <3>1 DEF IsFold
      <3> QED  BY <3>2
    <2>3. Fold(f, T) = [s \in SUBSET T |-> Round(f, Fold(f, T), s)]
      BY <2>2 DEF Fold
    <2>h. PICK h : h = Fold(f, T)
      OBVIOUS
    <2>4. IsFold(f, h, T)
      BY <2>3, <2>h DEF IsFold
    <2>5. IsFold(f, g, T)
      BY <1>1 DEF IsFold
    <2>6. \A s \in SUBSET T : g[s] = h[s]
      BY <2>1, <2>4, <2>5, FoldUnique
    <2> QED  BY <2>6, <2>h, SumIsFold
  <1>3. SumOf(f, S) = g[S] /\ SumOf(f, {}) = g[{}]
    BY <1>2
  <1>4. g[S] = Round(f, g, S) /\ g[{}] = Round(f, g, {})
    BY <1>1 DEF IsFold
  <1>5. SumOf(f, S \ {Some(S)}) = g[S \ {Some(S)}]
    BY <1>2
  <1> QED  BY <1>3, <1>4, <1>5 DEF Round

-----------------------------------------------------------------------------
(* Sums and the sets they are over.                                        *)

\* Any element may be taken first.
LEMMA SumRemove ==
    ASSUME NEW S, IsFiniteSet(S), NEW f, \A x \in S : f[x] \in Int, NEW x \in S
    PROVE  SumOf(f, S) = f[x] + SumOf(f, S \ {x})
  <1> DEFINE Bad == {s \in SUBSET S : \E y \in s : SumOf(f, s) # f[y] + SumOf(f, s \ {y})}
  <1> SUFFICES Bad = {}
    OBVIOUS
  <1> SUFFICES ASSUME Bad # {} PROVE FALSE
    OBVIOUS
  <1>0. \A s \in SUBSET S : /\ IsFiniteSet(s) /\ \A y \in s : f[y] \in Int
                            /\ SumOf(f, s) \in Int
    BY FS_Subset, SumRound
  <1>1. PICK s \in Bad : \A t \in Bad : t \subseteq s => t = s
    <2>1. Bad \in SUBSET (SUBSET S)
      OBVIOUS
    <2> HIDE DEF Bad
    <2> QED  BY <2>1, SmallestSubset
  <1>2. PICK y \in s : SumOf(f, s) # f[y] + SumOf(f, s \ {y})
    OBVIOUS
  <1> DEFINE c == Some(s)
             both == (s \ {c}) \ {y}
  <1>3. c \in s /\ SumOf(f, s) = f[c] + SumOf(f, s \ {c})
    BY <1>0, <1>2, SomeMember, SumRound
  <1>4. c # y
    BY <1>2, <1>3
  <1>5. s \ {c} \notin Bad /\ s \ {y} \notin Bad /\ s \ {c} \in SUBSET S /\ s \ {y} \in SUBSET S
    BY <1>1, <1>3
  <1>6. y \in s \ {c} /\ c \in s \ {y} /\ (s \ {y}) \ {c} = both
    BY <1>3, <1>4
  <1> HIDE DEF c, both
  <1>7. SumOf(f, s \ {c}) = f[y] + SumOf(f, (s \ {c}) \ {y})
    BY <1>5, <1>6
  <1>8. SumOf(f, s \ {y}) = f[c] + SumOf(f, (s \ {y}) \ {c})
    BY <1>5, <1>6
  <1>9. both \in SUBSET S /\ f[c] \in Int /\ f[y] \in Int /\ SumOf(f, both) \in Int
    BY <1>0, <1>2, <1>3 DEF both
  <1>10. SumOf(f, s \ {c}) = f[y] + SumOf(f, both) /\ SumOf(f, s \ {y}) = f[c] + SumOf(f, both)
    BY <1>6, <1>7, <1>8 DEF both
  <1> QED  BY <1>2, <1>3, <1>9, <1>10

\* One element more.
LEMMA SumAdd ==
    ASSUME NEW S, IsFiniteSet(S), NEW f, \A y \in S : f[y] \in Int,
           NEW x, x \notin S, f[x] \in Int
    PROVE  SumOf(f, S \cup {x}) = SumOf(f, S) + f[x]
  <1>1. IsFiniteSet(S \cup {x}) /\ \A y \in S \cup {x} : f[y] \in Int
    BY FS_AddElement
  <1>2. (S \cup {x}) \ {x} = S
    OBVIOUS
  <1>3. SumOf(f, S \cup {x}) = f[x] + SumOf(f, (S \cup {x}) \ {x})
    BY <1>1, SumRemove
  <1>4. SumOf(f, (S \cup {x}) \ {x}) = SumOf(f, S)
    BY <1>2, Zenon
  <1>5. SumOf(f, S) \in Int
    BY SumRound
  <1> QED  BY <1>3, <1>4, <1>5

\* The sum of a set is what is in a subset and what is not.
LEMMA SumSplit ==
    ASSUME NEW S, IsFiniteSet(S), NEW f, \A x \in S : f[x] \in Int, NEW T \in SUBSET S
    PROVE  SumOf(f, S) = SumOf(f, T) + SumOf(f, S \ T)
  <1> DEFINE Bad == {t \in SUBSET T : SumOf(f, S) # SumOf(f, t) + SumOf(f, S \ t)}
  <1> SUFFICES Bad = {}
    OBVIOUS
  <1> SUFFICES ASSUME Bad # {} PROVE FALSE
    OBVIOUS
  <1>0. \A s \in SUBSET S : /\ IsFiniteSet(s) /\ \A y \in s : f[y] \in Int
                            /\ SumOf(f, s) \in Int
    BY FS_Subset, SumRound
  <1>1. PICK t \in Bad : \A u \in Bad : u \subseteq t => u = t
    <2>1. Bad \in SUBSET (SUBSET T) /\ IsFiniteSet(T)
      BY FS_Subset
    <2> HIDE DEF Bad
    <2> QED  BY <2>1, SmallestSubset
  <1>2. t # {}
    <2>1. SumOf(f, {}) = 0 /\ S \ {} = S /\ SumOf(f, S) \in Int
      BY SumRound
    <2>2. SumOf(f, S \ {}) = SumOf(f, S)
      BY <2>1, Zenon
    <2>3. SumOf(f, S) = SumOf(f, {}) + SumOf(f, S \ {})
      BY <2>1, <2>2
    <2>4. {} \notin Bad
      BY <2>3
    <2> HIDE DEF Bad
    <2> QED  BY <2>4
  <1>3. PICK x \in t : TRUE
    BY <1>2
  <1> DEFINE u == t \ {x}
  <1>4. u \in SUBSET T /\ u \notin Bad
    BY <1>1
  <1>5. SumOf(f, S) = SumOf(f, u) + SumOf(f, S \ u)
    BY <1>4
  <1>6. SumOf(f, t) = f[x] + SumOf(f, u)
    BY <1>0, SumRemove
  <1>7. S \ u \in SUBSET S /\ x \in S \ u /\ (S \ u) \ {x} = S \ t
    OBVIOUS
  <1>8. SumOf(f, S \ u) = f[x] + SumOf(f, (S \ u) \ {x})
    BY <1>0, <1>7, SumRemove
  <1>11. SumOf(f, (S \ u) \ {x}) = SumOf(f, S \ t)
    BY <1>7, Zenon
  <1>9. /\ f[x] \in Int /\ SumOf(f, u) \in Int /\ SumOf(f, S \ t) \in Int
    BY <1>0
  <1>10. SumOf(f, S) # SumOf(f, t) + SumOf(f, S \ t)
    OBVIOUS
  <1> HIDE DEF u, Bad
  <1> QED  BY <1>5, <1>6, <1>11, <1>8, <1>9, <1>10

\* A sum of no larger terms is no larger ...
LEMMA SumOrdered ==
    ASSUME NEW S, IsFiniteSet(S), NEW f, NEW g,
           \A x \in S : f[x] \in Int /\ g[x] \in Int /\ f[x] <= g[x]
    PROVE  SumOf(f, S) <= SumOf(g, S)
  <1> DEFINE Bad == {s \in SUBSET S : ~(SumOf(f, s) <= SumOf(g, s))}
  <1> SUFFICES Bad = {}
    OBVIOUS
  <1> SUFFICES ASSUME Bad # {} PROVE FALSE
    OBVIOUS
  <1>0. \A s \in SUBSET S : IsFiniteSet(s) /\ (\A x \in s : f[x] \in Int /\ g[x] \in Int)
    BY FS_Subset
  <1>1. PICK s \in Bad : \A t \in Bad : t \subseteq s => t = s
    <2>1. Bad \in SUBSET (SUBSET S)
      OBVIOUS
    <2> HIDE DEF Bad
    <2> QED  BY <2>1, SmallestSubset
  <1>2. s # {}
    <2>1. SumOf(f, {}) = 0 /\ SumOf(g, {}) = 0
      BY SumRound
    <2>2. {} \notin Bad
      BY <2>1
    <2> HIDE DEF Bad
    <2> QED  BY <2>2
  <1>3. PICK x \in s : TRUE
    BY <1>2
  <1> DEFINE u == s \ {x}
  <1>4. u \in SUBSET S /\ u \notin Bad
    BY <1>1
  <1>5. SumOf(f, u) <= SumOf(g, u)
    BY <1>4
  <1>6. SumOf(f, s) = f[x] + SumOf(f, u)
    BY <1>0, SumRemove
  <1>7. SumOf(g, s) = g[x] + SumOf(g, u)
    BY <1>0, SumRemove
  <1>8. SumOf(f, u) \in Int /\ SumOf(g, u) \in Int
    BY <1>0, <1>4, SumRound
  <1>9. f[x] \in Int /\ g[x] \in Int /\ f[x] <= g[x] /\ ~(SumOf(f, s) <= SumOf(g, s))
    OBVIOUS
  <1> HIDE DEF u, Bad
  <1> QED  BY <1>5, <1>6, <1>7, <1>8, <1>9

\* ... and equal terms have equal sums.
LEMMA SumSame ==
    ASSUME NEW S, IsFiniteSet(S), NEW f, NEW g, \A x \in S : f[x] \in Int /\ f[x] = g[x]
    PROVE  SumOf(f, S) = SumOf(g, S)
  <1>1. SumOf(f, S) <= SumOf(g, S) /\ SumOf(g, S) <= SumOf(f, S)
    BY SumOrdered
  <1>2. SumOf(f, S) \in Int /\ SumOf(g, S) \in Int
    BY SumRound
  <1> QED  BY <1>1, <1>2

\* Sums of natural numbers are natural numbers ...
LEMMA SumNat ==
    ASSUME NEW S, IsFiniteSet(S), NEW f, \A x \in S : f[x] \in Nat
    PROVE  SumOf(f, S) \in Nat
  <1> DEFINE Bad == {s \in SUBSET S : SumOf(f, s) \notin Nat}
  <1> SUFFICES Bad = {}
    OBVIOUS
  <1> SUFFICES ASSUME Bad # {} PROVE FALSE
    OBVIOUS
  <1>1. PICK s \in Bad : \A t \in Bad : t \subseteq s => t = s
    <2>1. Bad \in SUBSET (SUBSET S)
      OBVIOUS
    <2> HIDE DEF Bad
    <2> QED  BY <2>1, SmallestSubset
  <1>2. s \in SUBSET S /\ IsFiniteSet(s) /\ \A x \in s : f[x] \in Int
    BY FS_Subset
  <1>3. s # {}
    <2>1. SumOf(f, {}) = 0
      BY <1>2, SumRound
    <2>2. {} \notin Bad
      BY <2>1
    <2> HIDE DEF Bad
    <2> QED  BY <2>2
  <1>4. SumOf(f, s) = f[Some(s)] + SumOf(f, s \ {Some(s)})
    BY <1>2, <1>3, SumRound
  <1>5. Some(s) \in S /\ s \ {Some(s)} \in SUBSET S /\ s \ {Some(s)} \notin Bad
    BY <1>1, <1>2, <1>3, SomeMember
  <1> QED  BY <1>4, <1>5

\* ... and grow with the set.
LEMMA SumMonotone ==
    ASSUME NEW S, IsFiniteSet(S), NEW f, \A x \in S : f[x] \in Nat, NEW T \in SUBSET S
    PROVE  SumOf(f, T) <= SumOf(f, S)
  <1>1. SumOf(f, S) = SumOf(f, T) + SumOf(f, S \ T)
    BY SumSplit
  <1>2. /\ IsFiniteSet(T) /\ IsFiniteSet(S \ T)
        /\ \A x \in S : f[x] \in Nat
    BY FS_Subset
  <1>3. SumOf(f, T) \in Nat /\ SumOf(f, S \ T) \in Nat
    BY <1>2, SumNat
  <1> QED  BY <1>1, <1>3

-----------------------------------------------------------------------------
(* Counting.                                                               *)

\* Two subsets of a finite set that agree on everything but c: their numbers of
\* elements differ by what c says.
LEMMA CountChange ==
    ASSUME NEW S, IsFiniteSet(S), NEW A \in SUBSET S, NEW B \in SUBSET S, NEW c,
           A \ {c} = B \ {c}
    PROVE  /\ Cardinality(A) \in Nat /\ Cardinality(B) \in Nat
           /\ Cardinality(B) = Cardinality(A) - (IF c \in A THEN 1 ELSE 0)
                                              + (IF c \in B THEN 1 ELSE 0)
           /\ c \in A => Cardinality(A) # 0
  <1>1. IsFiniteSet(A) /\ IsFiniteSet(B) /\ Cardinality(A) \in Nat /\ Cardinality(B) \in Nat
    BY FS_Subset, FS_CardinalityType
  <1>2. ASSUME NEW T, IsFiniteSet(T), Cardinality(T) \in Nat
        PROVE  /\ Cardinality(T \ {c}) \in Nat
               /\ Cardinality(T) = Cardinality(T \ {c}) + (IF c \in T THEN 1 ELSE 0)
    <2>1. CASE c \in T
      <3>1. IsFiniteSet(T \ {c}) /\ Cardinality(T \ {c}) = Cardinality(T) - 1
        BY <1>2, <2>1, FS_RemoveElement
      <3>2. Cardinality(T \ {c}) \in Nat
        BY <3>1, FS_CardinalityType
      <3> QED  BY <1>2, <2>1, <3>1, <3>2
    <2>2. CASE c \notin T
      <3>1. T \ {c} = T
        BY <2>2
      <3> QED  BY <1>2, <2>2, <3>1
    <2> QED  BY <2>1, <2>2
  <1>3. /\ Cardinality(A) = Cardinality(A \ {c}) + (IF c \in A THEN 1 ELSE 0)
        /\ Cardinality(B) = Cardinality(B \ {c}) + (IF c \in B THEN 1 ELSE 0)
        /\ Cardinality(A \ {c}) \in Nat
    BY <1>1, <1>2
  <1>4. Cardinality(A \ {c}) = Cardinality(B \ {c})
    OBVIOUS
  <1> QED  BY <1>1, <1>3, <1>4

=============================================================================
