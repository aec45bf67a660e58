--------------------------- MODULE GatewayProofs ---------------------------
(***************************************************************************)
(* Proofs about calls, their slots, logs and accounts, and the reports     *)
(* made of the accounts (Gateway, UsageLedger), for every finite set of    *)
(* calls and users, every number of days and faults, and weeks, months and *)
(* retention of any length.                                                *)
(***************************************************************************)
EXTENDS Gateway, FiniteSetTheorems, TLAPS

-----------------------------------------------------------------------------
(***************************************************************************)
(* Sums over a finite set.  A fold is a CHOOSE of the function that solves *)
(* its recursion; that there is one, and that it does not matter which     *)
(* element is taken first, is shown by induction over the subsets, stated  *)
(* for a set of good subsets because no prover here instantiates a         *)
(* predicate.                                                              *)
(***************************************************************************)
Usage == [tokens : Nat, requests : Nat]

\* Induction over the subsets of a finite set: G has them all.
LEMMA SubsetInduction ==
  ASSUME NEW S, IsFiniteSet(S), NEW G, {} \in G,
         \A T \in SUBSET S : \A x \in S \ T : T \in G => T \cup {x} \in G
  PROVE  \A T \in SUBSET S : T \in G
<1>. DEFINE Bad == {T \in SUBSET S : T \notin G}
<1>1. SUFFICES ASSUME Bad # {} PROVE FALSE
  OBVIOUS
<1>2. IsWellFoundedOn(StrictSubsetOrdering(S), SUBSET S)
  BY FS_StrictSubsetOrderingWellFounded, FS_FiniteSubsetsOfFinite
<1>3. PICK T \in Bad : \A U \in Bad : <<U, T>> \notin StrictSubsetOrdering(S)
  BY <1>1, <1>2, WFMin
<1>4. T # {}
  OBVIOUS
<1>5. PICK x \in T : TRUE
  BY <1>4
<1>6. T \ {x} \notin Bad
  BY <1>3, <1>5 DEF StrictSubsetOrdering
<1>7. T \ {x} \in G /\ (T \ {x}) \cup {x} = T
  BY <1>5, <1>6
<1>. QED
  BY <1>5, <1>7

\* The element that a fold takes first, and the recursion it solves.
Chosen(T) == CHOOSE x \in T : TRUE

Solves(g, f, S) ==
  g = [T \in SUBSET S |-> IF T = {} THEN Zero ELSE Plus(f[Chosen(T)], g[T \ {Chosen(T)}])]

\* SumOf unfolded down to its CHOOSE.
LEMMA SumDef ==
  ASSUME NEW f, NEW S
  PROVE  SumOf(f, S) = (CHOOSE g : Solves(g, f, S))[S]
BY Zenon DEF SumOf, FoldFunctionOnSet, MapThenFoldSet, Solves, Chosen

\* A sum exists
LEMMA SumExists ==
  ASSUME NEW f, NEW S, IsFiniteSet(S)
  PROVE  \E g : Solves(g, f, S)
<1>. DEFINE Up(n, g) ==
              /\ g[{}] = Zero
              /\ \A T \in SUBSET S : T # {} /\ Cardinality(T) <= n
                    => g[T] = Plus(f[Chosen(T)], g[T \ {Chosen(T)}])
            G == {k \in SUBSET S : \E g : Up(Cardinality(k), g)}
<1>1. \A T \in SUBSET S :
        IsFiniteSet(T) /\ Cardinality(T) \in Nat /\ (Cardinality(T) = 0 <=> T = {})
  BY FS_Subset, FS_CardinalityType, FS_EmptySet
<1>2. {} \in G
  <2>1. Up(0, [T \in SUBSET S |-> Zero])
    BY <1>1
  <2>. QED  BY <2>1, FS_EmptySet
<1>3. ASSUME NEW k \in SUBSET S, NEW x \in S \ k, k \in G PROVE k \cup {x} \in G
  <2>. DEFINE n == Cardinality(k)
  <2>1. PICK g : Up(n, g)
    BY <1>3
  <2>2. n \in Nat /\ Cardinality(k \cup {x}) = n + 1
    BY <1>1, <1>3, FS_AddElement
  <2>. DEFINE h == [T \in SUBSET S |-> IF Cardinality(T) <= n THEN g[T]
                                       ELSE Plus(f[Chosen(T)], g[T \ {Chosen(T)}])]
  <2>3. h[{}] = Zero
    BY <2>1, <2>2, FS_EmptySet
  <2>4. ASSUME NEW T \in SUBSET S, T # {}, Cardinality(T) <= n + 1
        PROVE  h[T] = Plus(f[Chosen(T)], h[T \ {Chosen(T)}])
    <3>. DEFINE c == Chosen(T)
    <3>1. c \in T
      BY <2>4 DEF Chosen
    <3>2. Cardinality(T \ {c}) = Cardinality(T) - 1 /\ T \ {c} \in SUBSET S
      BY <1>1, <3>1, FS_RemoveElement
    <3>. HIDE DEF c
    <3>3. Cardinality(T \ {c}) <= n
      BY <3>2, <2>4, <2>2, <1>1
    <3>4. h[T \ {c}] = g[T \ {c}]
      BY <3>2, <3>3
    <3>5. h[T] = Plus(f[c], g[T \ {c}])
      <4>1. CASE Cardinality(T) <= n
        BY <4>1, <2>1, <2>4 DEF c
      <4>2. CASE ~(Cardinality(T) <= n)
        BY <4>2 DEF c
      <4>. QED  BY <4>1, <4>2
    <3>. QED  BY <3>4, <3>5 DEF c
  <2>. HIDE DEF h
  <2>5. Up(Cardinality(k \cup {x}), h)
    BY <2>2, <2>3, <2>4
  <2>. QED  BY <2>5
<1>4. S \in G
  <2>. HIDE DEF G
  <2>. QED  BY <1>2, <1>3, SubsetInduction
<1>5. PICK g : Up(Cardinality(S), g)
  BY <1>4
<1>6. \A T \in SUBSET S : Cardinality(T) <= Cardinality(S)
  BY FS_Subset
<1>. DEFINE h == [T \in SUBSET S |-> g[T]]
<1>7. h[{}] = Zero /\ h = [T \in SUBSET S |-> h[T]]
  BY <1>5
<1>8. ASSUME NEW T \in SUBSET S, T # {} PROVE h[T] = Plus(f[Chosen(T)], h[T \ {Chosen(T)}])
  BY <1>5, <1>6, <1>8
<1>. QED  BY <1>7, <1>8 DEF Solves

\* What a sum is
LEMMA SumRec ==
  ASSUME NEW f, NEW S, IsFiniteSet(S)
  PROVE  \E g : Solves(g, f, S) /\ SumOf(f, S) = g[S]
<1>. DEFINE g == CHOOSE g : Solves(g, f, S)
<1>1. \E h : Solves(h, f, S)
  BY SumExists
<1>2. Solves(g, f, S)
  BY <1>1, Zenon
<1>. QED  BY <1>2, SumDef, Zenon

\* Two functions that agree on a set have the same sums on its subsets.
LEMMA SumUnique ==
  ASSUME NEW S, IsFiniteSet(S), NEW f, NEW e, \A x \in S : f[x] = e[x],
         NEW R, S \subseteq R, NEW g, Solves(g, f, R), NEW h, Solves(h, e, S)
  PROVE  \A T \in SUBSET S : g[T] = h[T]
<1>. DEFINE G == {k \in SUBSET S :
                    \A T \in SUBSET S : Cardinality(T) <= Cardinality(k) => g[T] = h[T]}
<1>1. \A T \in SUBSET S :
        IsFiniteSet(T) /\ Cardinality(T) \in Nat /\ (Cardinality(T) = 0 <=> T = {})
  BY FS_Subset, FS_CardinalityType, FS_EmptySet
<1>2. {} \in G
  <2>1. g[{}] = Zero /\ h[{}] = Zero
    BY DEF Solves
  <2>. QED  BY <1>1, <2>1, FS_EmptySet
<1>3. ASSUME NEW k \in SUBSET S, NEW x \in S \ k, k \in G PROVE k \cup {x} \in G
  <2>2. Cardinality(k) \in Nat /\ Cardinality(k \cup {x}) = Cardinality(k) + 1
    BY <1>1, <1>3, FS_AddElement
  <2>3. ASSUME NEW T \in SUBSET S, T # {}, Cardinality(T) <= Cardinality(k) + 1
        PROVE  g[T] = h[T]
    <3>. DEFINE c == Chosen(T)
    <3>1. c \in T
      BY <2>3 DEF Chosen
    <3>2. Cardinality(T \ {c}) = Cardinality(T) - 1 /\ T \ {c} \in SUBSET S
      BY <1>1, <3>1, FS_RemoveElement
    <3>3. Cardinality(T \ {c}) <= Cardinality(k)
      BY <3>2, <2>3, <2>2, <1>1
    <3>4. g[T \ {c}] = h[T \ {c}]
      BY <3>2, <3>3, <1>3
    <3>5. h[T] = Plus(e[c], h[T \ {c}]) /\ g[T] = Plus(f[c], g[T \ {c}])
      BY <2>3 DEF Solves
    <3>. QED  BY <3>1, <3>4, <3>5
  <2>4. g[{}] = h[{}]
    BY DEF Solves
  <2>. QED  BY <2>2, <2>3, <2>4
<1>4. S \in G
  <2>. HIDE DEF G
  <2>. QED  BY <1>2, <1>3, SubsetInduction
<1>. QED  BY <1>4, FS_Subset

-----------------------------------------------------------------------------
\* Usages add up, in any order.
LEMMA PlusType == \A a, b \in Usage : Plus(a, b) \in Usage
BY DEF Usage, Plus

\* Either first.
LEMMA PlusCommutes == \A a, b \in Usage : Plus(a, b) = Plus(b, a)
BY DEF Usage, Plus

\* Any two of three first.
LEMMA PlusShifts == \A a, b, c \in Usage : Plus(a, Plus(b, c)) = Plus(b, Plus(a, c))
BY DEF Usage, Plus

\* Zero adds nothing.
LEMMA PlusZero ==
  /\ Zero \in Usage
  /\ \A a \in Usage : Plus(a, Zero) = a /\ Plus(Zero, a) = a
BY DEF Usage, Plus, Zero

\* Nothing adds up to zero.
LEMMA SumEmpty ==
  ASSUME NEW f
  PROVE  SumOf(f, {}) = Zero
<1>1. PICK g : Solves(g, f, {}) /\ SumOf(f, {}) = g[{}]
  BY SumRec, FS_EmptySet
<1>. QED  BY <1>1 DEF Solves

\* The term that the fold takes first.
LEMMA SumChosen ==
  ASSUME NEW f, NEW S, IsFiniteSet(S), S # {}
  PROVE  SumOf(f, S) = Plus(f[Chosen(S)], SumOf(f, S \ {Chosen(S)}))
<1>. DEFINE c == Chosen(S)
<1>1. PICK g : Solves(g, f, S) /\ SumOf(f, S) = g[S]
  BY SumRec
<1>2. IsFiniteSet(S \ {c})
  BY FS_RemoveElement
<1>3. PICK h : Solves(h, f, S \ {c}) /\ SumOf(f, S \ {c}) = h[S \ {c}]
  BY <1>2, SumRec
<1>4. g[S \ {c}] = h[S \ {c}]
  <2>1. S \ {c} \subseteq S
    OBVIOUS
  <2>. HIDE DEF c
  <2>2. \A T \in SUBSET (S \ {c}) : g[T] = h[T]
    BY <2>1, <1>1, <1>2, <1>3, SumUnique
  <2>. QED  BY <2>2
<1>5. g[S] = Plus(f[c], g[S \ {c}])
  BY <1>1 DEF Solves
<1>. QED  BY <1>1, <1>3, <1>4, <1>5

\* A sum depends on its terms only.
LEMMA SumSame ==
  ASSUME NEW S, IsFiniteSet(S), NEW f, NEW e, \A x \in S : f[x] = e[x]
  PROVE  SumOf(f, S) = SumOf(e, S)
<1>1. PICK g : Solves(g, f, S) /\ SumOf(f, S) = g[S]
  BY SumRec
<1>2. PICK h : Solves(h, e, S) /\ SumOf(e, S) = h[S]
  BY SumRec
<1>3. \A T \in SUBSET S : g[T] = h[T]
  BY <1>1, <1>2, SumUnique
<1>. QED  BY <1>1, <1>2, <1>3

\* Every term can be taken out first.
LEMMA SumTerms ==
  ASSUME NEW S, IsFiniteSet(S), NEW f, \A x \in S : f[x] \in Usage
  PROVE  \A T \in SUBSET S :
            /\ SumOf(f, T) \in Usage
            /\ \A x \in T : SumOf(f, T) = Plus(f[x], SumOf(f, T \ {x}))
<1>. DEFINE Good(T) == /\ SumOf(f, T) \in Usage
                       /\ \A x \in T : SumOf(f, T) = Plus(f[x], SumOf(f, T \ {x}))
            G == {k \in SUBSET S :
                    \A T \in SUBSET S : Cardinality(T) <= Cardinality(k) => Good(T)}
<1>1. \A T \in SUBSET S :
        IsFiniteSet(T) /\ Cardinality(T) \in Nat /\ (Cardinality(T) = 0 <=> T = {})
  BY FS_Subset, FS_CardinalityType, FS_EmptySet
<1>2. {} \in G
  <2>1. Good({})
    BY SumEmpty, PlusZero
  <2>. HIDE DEF Good
  <2>. QED  BY <1>1, <2>1, FS_EmptySet
<1>3. ASSUME NEW k \in SUBSET S, NEW z \in S \ k, k \in G PROVE k \cup {z} \in G
  <2>1. Cardinality(k) \in Nat /\ Cardinality(k \cup {z}) = Cardinality(k) + 1
    BY <1>1, <1>3, FS_AddElement
  <2>2. ASSUME NEW T \in SUBSET S, T # {}, Cardinality(T) <= Cardinality(k) + 1
        PROVE  Good(T)
    <3>. DEFINE c == Chosen(T)
    <3>1. c \in T
      BY <2>2 DEF Chosen
    <3>2. \A x \in T : Cardinality(T \ {x}) = Cardinality(T) - 1 /\ T \ {x} \in SUBSET S
      BY <1>1, FS_RemoveElement
    <3>3. \A x \in T : Good(T \ {x})
      <4>. HIDE DEF Good
      <4>. QED  BY <3>2, <2>2, <2>1, <1>1, <1>3
    <3>4. SumOf(f, T) = Plus(f[c], SumOf(f, T \ {c}))
      BY <1>1, <2>2, SumChosen
    <3>. HIDE DEF c
    <3>5. SumOf(f, T) \in Usage
      <4>1. f[c] \in Usage /\ SumOf(f, T \ {c}) \in Usage
        BY <3>1, <3>3
      <4>. QED  BY <3>4, <4>1, PlusType
    <3>6. ASSUME NEW x \in T, x # c
          PROVE  SumOf(f, T) = Plus(f[x], SumOf(f, T \ {x}))
      <4>. DEFINE rest == SumOf(f, (T \ {c}) \ {x})
      <4>1. SumOf(f, T \ {c}) = Plus(f[x], rest)
        BY <3>1, <3>3, <3>6
      <4>2. (T \ {x}) \ {c} = (T \ {c}) \ {x}
        OBVIOUS
      <4>3. SumOf(f, T \ {x}) = Plus(f[c], rest)
        BY <3>1, <3>3, <3>6, <4>2
      <4>4. rest \in Usage
        <5>1. (T \ {c}) \ {x} \in SUBSET S /\ Cardinality((T \ {c}) \ {x}) <= Cardinality(k)
          <6>1. IsFiniteSet(T \ {c}) /\ x \in T \ {c}
            BY <1>1, <3>1, <3>2, <3>6
          <6>2. Cardinality((T \ {c}) \ {x}) = Cardinality(T \ {c}) - 1
            BY <6>1, FS_RemoveElement
          <6>. QED  BY <6>2, <3>1, <3>2, <2>1, <2>2, <1>1
        <5>. HIDE DEF Good
        <5>2. Good((T \ {c}) \ {x})
          BY <5>1, <1>3
        <5>. QED  BY <5>2 DEF Good
      <4>. HIDE DEF rest
      <4>5. f[x] \in Usage /\ f[c] \in Usage
        BY <3>1
      <4>6. Plus(f[c], Plus(f[x], rest)) = Plus(f[x], Plus(f[c], rest))
        BY <4>4, <4>5, PlusShifts
      <4>. QED  BY <3>4, <4>1, <4>3, <4>6
    <3>. QED  BY <3>4, <3>5, <3>6
  <2>3. Good({})
    BY SumEmpty, PlusZero
  <2>. HIDE DEF Good
  <2>. QED  BY <2>1, <2>2, <2>3
<1>4. S \in G
  <2>. HIDE DEF G
  <2>. QED  BY <1>2, <1>3, SubsetInduction
<1>5. \A T \in SUBSET S : Cardinality(T) <= Cardinality(S)
  BY FS_Subset
<1>. QED  BY <1>4, <1>5

\* The sum of usages is a usage.
LEMMA SumType ==
  ASSUME NEW S, IsFiniteSet(S), NEW f, \A x \in S : f[x] \in Usage
  PROVE  SumOf(f, S) \in Usage
BY SumTerms

\* One more element ...
LEMMA SumAdd ==
  ASSUME NEW S, IsFiniteSet(S), NEW x, x \notin S, NEW f, \A y \in S \cup {x} : f[y] \in Usage
  PROVE  SumOf(f, S \cup {x}) = Plus(f[x], SumOf(f, S))
<1>1. IsFiniteSet(S \cup {x}) /\ (S \cup {x}) \ {x} = S
  BY FS_AddElement
<1>. QED  BY <1>1, SumTerms

\* ... and one less.
LEMMA SumRemove ==
  ASSUME NEW S, IsFiniteSet(S), NEW x \in S, NEW f, \A y \in S : f[y] \in Usage
  PROVE  SumOf(f, S) = Plus(f[x], SumOf(f, S \ {x}))
BY SumTerms

\* One term grows, and the sum by as much.
LEMMA SumGrows ==
  ASSUME NEW S, IsFiniteSet(S), NEW x \in S, NEW n \in Usage,
         NEW f, \A y \in S : f[y] \in Usage,
         NEW e, e[x] = Plus(f[x], n), \A y \in S \ {x} : e[y] = f[y]
  PROVE  SumOf(e, S) = Plus(SumOf(f, S), n)
<1>1. IsFiniteSet(S \ {x})
  BY FS_RemoveElement
<1>2. SumOf(e, S \ {x}) = SumOf(f, S \ {x}) /\ SumOf(f, S \ {x}) \in Usage
  <2>1. \A y \in S \ {x} : f[y] \in Usage /\ f[y] = e[y]
    OBVIOUS
  <2>2. SumOf(f, S \ {x}) \in Usage
    BY <1>1, <2>1, SumType
  <2>. QED  BY <1>1, <2>1, <2>2, SumSame
<1>3. \A y \in S : e[y] \in Usage
  BY PlusType
<1>4. SumOf(e, S) = Plus(e[x], SumOf(e, S \ {x}))
  BY <1>3, SumRemove
<1>5. SumOf(f, S) = Plus(f[x], SumOf(f, S \ {x}))
  BY SumRemove
<1>. HIDE DEF SumOf
<1>. QED  BY <1>2, <1>4, <1>5 DEF Usage, Plus

\* Usages are ordered by both of their parts.
LEMMA AtMostReflexive == \A a \in Usage : AtMost(a, a)
BY DEF Usage, AtMost

\* ... in a chain ...
LEMMA AtMostTransitive ==
  \A a, b, c \in Usage : AtMost(a, b) /\ AtMost(b, c) => AtMost(a, c)
BY DEF Usage, AtMost

\* ... sums like their terms ...
LEMMA AtMostPlus ==
  \A a, b, c, d \in Usage : AtMost(a, b) /\ AtMost(c, d) => AtMost(Plus(a, c), Plus(b, d))
BY DEF Usage, AtMost, Plus

\* ... and more keeps the order.
LEMMA AtMostMore ==
  \A a, b, c \in Usage : AtMost(a, b) => AtMost(a, Plus(b, c)) /\ AtMost(a, Plus(c, b))
BY DEF Usage, AtMost, Plus

\* What is left out of a sum makes it no larger, and as large when it is zeros.
LEMMA SumSubset ==
  ASSUME NEW S, IsFiniteSet(S), NEW f, \A x \in S : f[x] \in Usage, NEW T \in SUBSET S
  PROVE  /\ AtMost(SumOf(f, T), SumOf(f, S))
         /\ (\A x \in S \ T : f[x] = Zero) => SumOf(f, T) = SumOf(f, S)
<1>. DEFINE R == S \ T
            G == {k \in SUBSET R :
                    /\ AtMost(SumOf(f, T), SumOf(f, T \cup k))
                    /\ (\A x \in k : f[x] = Zero) => SumOf(f, T) = SumOf(f, T \cup k)}
<1>1. IsFiniteSet(R) /\ IsFiniteSet(T)
  BY FS_Subset
<1>2. {} \in G
  <2>1. T \cup {} = T
    OBVIOUS
  <2>2. SumOf(f, T) \in Usage
    BY <1>1, SumType
  <2>. QED  BY <2>1, <2>2, AtMostReflexive
<1>3. ASSUME NEW k \in SUBSET R, NEW x \in R \ k, k \in G PROVE k \cup {x} \in G
  <2>1. IsFiniteSet(T \cup k) /\ x \notin T \cup k /\ T \cup (k \cup {x}) = (T \cup k) \cup {x}
    <3>1. T \cup k \in SUBSET S
      OBVIOUS
    <3>. QED  BY <3>1, FS_Subset
  <2>2. SumOf(f, T \cup (k \cup {x})) = Plus(f[x], SumOf(f, T \cup k))
    BY <2>1, SumAdd
  <2>3. SumOf(f, T \cup k) \in Usage /\ SumOf(f, T) \in Usage /\ f[x] \in Usage
    <3>1. (\A y \in T \cup k : f[y] \in Usage) /\ (\A y \in T : f[y] \in Usage)
      OBVIOUS
    <3>2. SumOf(f, T \cup k) \in Usage
      BY <2>1, <3>1, SumType
    <3>3. SumOf(f, T) \in Usage
      BY <1>1, <3>1, SumType
    <3>. QED  BY <3>2, <3>3
  <2>4. AtMost(SumOf(f, T), SumOf(f, T \cup (k \cup {x})))
    BY <1>3, <2>2, <2>3, AtMostMore
  <2>5. (\A y \in k \cup {x} : f[y] = Zero) => SumOf(f, T) = SumOf(f, T \cup (k \cup {x}))
    BY <1>3, <2>2, <2>3, PlusZero
  <2>. QED  BY <2>4, <2>5
<1>4. R \in G
  <2>. HIDE DEF G, R
  <2>1. \A k \in SUBSET R : k \in G
    BY <1>1, <1>2, <1>3, SubsetInduction
  <2>. QED  BY <2>1
<1>5. T \cup R = S
  OBVIOUS
<1>. QED  BY <1>4, <1>5

\* The terms under other names.
LEMMA SumRenamed ==
  ASSUME NEW S, IsFiniteSet(S), NEW h, \A x, y \in S : h[x] = h[y] => x = y,
         NEW f, NEW e, \A x \in S : e[x] = f[h[x]] /\ e[x] \in Usage
  PROVE  SumOf(f, {h[x] : x \in S}) = SumOf(e, S)
<1>. DEFINE Im(k) == {h[x] : x \in k}
            G == {k \in SUBSET S : IsFiniteSet(Im(k)) /\ SumOf(f, Im(k)) = SumOf(e, k)}
<1>1. {} \in G
  <2>1. Im({}) = {}
    OBVIOUS
  <2>. QED  BY <2>1, SumEmpty, FS_EmptySet
<1>2. ASSUME NEW k \in SUBSET S, NEW x \in S \ k, k \in G PROVE k \cup {x} \in G
  <2>1. Im(k \cup {x}) = Im(k) \cup {h[x]} /\ h[x] \notin Im(k)
    OBVIOUS
  <2>2. IsFiniteSet(k)
    BY FS_Subset
  <2>3. \A y \in Im(k) \cup {h[x]} : f[y] \in Usage
    OBVIOUS
  <2>4. IsFiniteSet(Im(k)) /\ SumOf(f, Im(k)) = SumOf(e, k)
    BY <1>2
  <2>. HIDE DEF Im
  <2>5. SumOf(f, Im(k) \cup {h[x]}) = Plus(f[h[x]], SumOf(f, Im(k)))
    BY <2>1, <2>3, <2>4, SumAdd
  <2>6. SumOf(e, k \cup {x}) = Plus(e[x], SumOf(e, k))
    BY <2>2, SumAdd
  <2>7. IsFiniteSet(Im(k) \cup {h[x]})
    BY <2>4, FS_AddElement
  <2>. QED  BY <2>1, <2>4, <2>5, <2>6, <2>7
<1>3. S \in G
  <2>. HIDE DEF G
  <2>. QED  BY <1>1, <1>2, SubsetInduction
<1>. QED  BY <1>3

\* The elements that h maps to d.
Fiber(S, h, d) == {x \in S : h[x] = d}

\* Terms in groups add up to what they add up to at once.
LEMMA SumGrouped ==
  ASSUME NEW S, IsFiniteSet(S), NEW D, IsFiniteSet(D), NEW h, \A x \in S : h[x] \in D,
         NEW f, \A x \in S : f[x] \in Usage,
         NEW e, \A d \in D : e[d] = SumOf(f, Fiber(S, h, d))
  PROVE  SumOf(e, D) = SumOf(f, S)
<1>. DEFINE Group(k, d) == {x \in k : h[x] = d}
            E(k) == [d \in D |-> SumOf(f, Group(k, d))]
            G == {k \in SUBSET S : SumOf(E(k), D) = SumOf(f, k)}
<1>0. \A k \in SUBSET S, d \in D :
         IsFiniteSet(k) /\ IsFiniteSet(Group(k, d)) /\ E(k)[d] = SumOf(f, Group(k, d))
                        /\ E(k)[d] \in Usage
  <2>. SUFFICES ASSUME NEW k \in SUBSET S, NEW d \in D
                PROVE  IsFiniteSet(k) /\ IsFiniteSet(Group(k, d))
                         /\ SumOf(f, Group(k, d)) \in Usage
    OBVIOUS
  <2>1. Group(k, d) \in SUBSET S /\ \A x \in Group(k, d) : f[x] \in Usage
    OBVIOUS
  <2>2. IsFiniteSet(k) /\ IsFiniteSet(Group(k, d))
    BY <2>1, FS_Subset
  <2>. HIDE DEF Group
  <2>. QED  BY <2>1, <2>2, SumType
<1>1. {} \in G
  <2>1. \A d \in D : E({})[d] = Zero
    BY SumEmpty
  <2>2. SumOf(E({}), {}) = SumOf(E({}), D)
    BY <2>1, SumSubset, PlusZero
  <2>. QED  BY <2>2, SumEmpty
<1>2. ASSUME NEW k \in SUBSET S, NEW x \in S \ k, k \in G PROVE k \cup {x} \in G
  <2>. DEFINE d == h[x]
  <2>1. /\ Group(k \cup {x}, d) = Group(k, d) \cup {x} /\ x \notin Group(k, d)
        /\ \A c \in D \ {d} : Group(k \cup {x}, c) = Group(k, c)
    OBVIOUS
  <2>2. SumOf(f, Group(k, d) \cup {x}) = Plus(f[x], SumOf(f, Group(k, d)))
    <3>1. \A y \in Group(k, d) \cup {x} : f[y] \in Usage
      OBVIOUS
    <3>2. IsFiniteSet(Group(k, d))
      BY <1>0
    <3>. HIDE DEF Group
    <3>. QED  BY <2>1, <3>1, <3>2, SumAdd
  <2>3. k \cup {x} \in SUBSET S /\ d \in D
    OBVIOUS
  <2>4. /\ \A c \in D : E(k)[c] \in Usage
        /\ \A c \in D : E(k)[c] = SumOf(f, Group(k, c))
        /\ \A c \in D : E(k \cup {x})[c] = SumOf(f, Group(k \cup {x}, c))
    BY <2>3, <1>0
  <2>5. E(k \cup {x})[d] = Plus(E(k)[d], f[x])
    <3>. HIDE DEF E, Group
    <3>. QED  BY <2>1, <2>2, <2>3, <2>4, PlusCommutes
  <2>6. \A c \in D \ {d} : E(k \cup {x})[c] = E(k)[c]
    <3>. HIDE DEF E, Group
    <3>. QED  BY <2>1, <2>4
  <2>7. SumOf(E(k \cup {x}), D) = Plus(SumOf(E(k), D), f[x])
    <3>. HIDE DEF E, Group
    <3>1. f[x] \in Usage
      OBVIOUS
    <3>2. ASSUME NEW a, NEW b, \A c \in D : a[c] \in Usage, b[d] = Plus(a[d], f[x]),
                 \A c \in D \ {d} : b[c] = a[c]
          PROVE  SumOf(b, D) = Plus(SumOf(a, D), f[x])
      BY <2>3, <3>1, <3>2, SumGrows
    <3>. HIDE DEF d
    <3>. QED  BY <2>4, <2>5, <2>6, <3>2
  <2>8. SumOf(f, k \cup {x}) = Plus(f[x], SumOf(f, k)) /\ SumOf(f, k) \in Usage
    BY <1>0, SumAdd, SumType, FS_Subset
  <2>9. SumOf(E(k), D) = SumOf(f, k)
    BY <1>2
  <2>. HIDE DEF E
  <2>. QED  BY <2>7, <2>8, <2>9, PlusCommutes
<1>3. S \in G
  <2>. HIDE DEF G
  <2>. QED  BY <1>1, <1>2, SubsetInduction
<1>4. SumOf(e, D) = SumOf(E(S), D)
  <2>1. \A c \in D : e[c] = E(S)[c]
    BY DEF Fiber
  <2>. HIDE DEF E
  <2>. QED  BY <2>1, SumSame
<1>. QED  BY <1>3, <1>4

-----------------------------------------------------------------------------
(***************************************************************************)
(* The inductive invariant                                                 *)
(***************************************************************************)
\* Rows of third_party_token_usage and of request_logs.
ThirdPartyRow == [user : User, tokens : Nat, day : Day]
LogRow == [call : Request, type : {e.type : e \in Endpoints}, status : {200, 502}, day : Day]

\* What the tables hold.
TablesTypeOK ==
  /\ today \in Day
  /\ daily \in [User -> [Day -> Usage]]
  /\ dailyKey \in [Key -> [Day -> Usage]]
  /\ cycle \in [User -> Nat]
  /\ IsFiniteSet(DOMAIN thirdParty)
  /\ DOMAIN thirdParty \subseteq ThirdPartyRow
  /\ \A row \in DOMAIN thirdParty : thirdParty[row] \in Nat
  /\ DOMAIN logs \subseteq LogRow

\* No date after the current one has a summary or a third-party row.
FutureIsEmpty ==
  /\ \A u \in User, d \in Day : d > today => daily[u][d] = Zero
  /\ \A row \in DOMAIN thirdParty : row.day <= today

\* The handler of r has answered.
Over(r) == phase[r] \in {"leaving", "done"}

\* Until its handler has answered, a call has neither answer nor usage, and its route is
\* that of the part of the handler it is in.
CallsProgress ==
  \A r \in Request :
    /\ ~Over(r) => answer[r] = None /\ used[r] = None
    /\ phase[r] # "new" => endpoint[r] \in Endpoints
    /\ phase[r] \in {"new", "received"} => route[r] = None
    /\ phase[r] \in PlatformPhases => route[r] = "platform"
    /\ phase[r] \in ThirdPartyPhases => route[r] = "third_party"

\* Goroutines that end in a usage record, and those that end in a log.
UsageKinds == {"RecordUsage", "Writes"}
LogKinds   == {"RecordRequestLog", "Metrics", "MetricsLog"}

\* What a goroutine records is an answer that was given, with what it needs of it.
TasksBelong ==
  \A t \in tasks :
    /\ Over(t.call) /\ endpoint[t.call] \in Endpoints
    /\ t.kind \in UsageKinds => route[t.call] = "platform" /\ answer[t.call] = 200
    /\ t.kind = "Writes" => used[t.call] # None /\ t.day \in FirstDay..today
    /\ t.kind # "Writes" => t.day = 0
    /\ t.kind \in {"Metrics", "MetricsLog"} =>
         route[t.call] = "third_party" /\ answer[t.call] = 200
    /\ t.kind = "RecordRequestLog" =>
         \/ route[t.call] = "platform" /\ answer[t.call] \in {200, 502}
         \/ route[t.call] = "third_party" /\ answer[t.call] = 502

\* A call has one goroutine for its usage and one for its log at most.
TasksAreSingle ==
  \A t, s \in tasks : t.call = s.call =>
    /\ t.kind \in UsageKinds /\ s.kind \in UsageKinds => t = s
    /\ t.kind \in LogKinds /\ s.kind \in LogKinds => t = s

CallsInv ==
  /\ TypeOK /\ TablesTypeOK /\ FutureIsEmpty
  /\ CallsProgress /\ TasksBelong /\ TasksAreSingle

-----------------------------------------------------------------------------
(***************************************************************************)
(* What a step of a handler comes to                                       *)
(***************************************************************************)

\* Only the call r is touched.
OnlyCall(r) ==
  /\ UNCHANGED <<today, tables, faults>>
  /\ \A q \in Request \ {r} :
       /\ phase'[q] = phase[q] /\ endpoint'[q] = endpoint[q]
       /\ route'[q] = route[q] /\ answer'[q] = answer[q] /\ used'[q] = used[q]

\* The handler goes on ...
Moves(r) ==
  /\ ~Over(r) /\ ~Over(r)'
  /\ UNCHANGED <<answer, used, tasks>>

\* ... answers, and starts the goroutines that the answer asks for ...
Started(r) ==
  CASE answer'[r] = 200 /\ route'[r] = "platform" ->
         {Task(r, "RecordUsage"), Task(r, "RecordRequestLog")}
    [] answer'[r] = 200 /\ route'[r] = "third_party" -> {Task(r, "Metrics")}
    [] answer'[r] = 502 -> {Task(r, "RecordRequestLog")}
    [] OTHER -> {}

Answers(r) ==
  /\ ~Over(r) /\ Over(r)'
  /\ answer'[r] \in {200, 400, 429, 500, 502}
  /\ endpoint'[r] \in Endpoints
  /\ answer'[r] = 200 => route'[r] \in {"platform", "third_party"}
  /\ answer'[r] = 502 => route'[r] \in {"platform", "third_party"}
  /\ \/ tasks' = tasks \cup Started(r)
     \/ answer'[r] = 502 /\ route'[r] = "third_party" /\ UNCHANGED tasks

\* ... or leaves.
Leaves(r) ==
  /\ phase[r] = "leaving" /\ phase'[r] = "done"
  /\ UNCHANGED <<endpoint, route, answer, used, tasks>>

\* The slots: the handler takes none, takes one, or gives its own back.
SlotsOf(r) ==
  LET u == UserOf[r] IN
  \/ UNCHANGED slots /\ (Holds(r)' <=> Holds(r))
  \/ /\ ~Holds(r) /\ Holds(r)' /\ slots[u] < MaxConcurrency
     /\ slots' = [slots EXCEPT ![u] = @ + 1]
  \/ /\ Holds(r) /\ ~Holds(r)'
     /\ slots' = [slots EXCEPT ![u] = @ - 1]

\* The variables of calls keep their types.
CallType(r) ==
  /\ phase' \in [Request -> {"new", "received", "done"} \cup PlatformPhases \cup ThirdPartyPhases]
  /\ endpoint' \in [Request -> Endpoints \cup {None}]
  /\ route' \in [Request -> {"platform", "third_party", None}]
  /\ answer' \in [Request -> {200, 400, 429, 500, 502} \cup {None}]
  /\ used' \in [Request -> Usages \cup {None}]
  /\ tasks' \subseteq [call : Request, kind : TaskKinds, day : 0..MaxDay]

\* How the call stands afterwards.
CallProgress(r) ==
  /\ ~Over(r)' => answer'[r] = None /\ used'[r] = None
  /\ phase'[r] # "new" => endpoint'[r] \in Endpoints
  /\ phase'[r] \in {"new", "received"} => route'[r] = None
  /\ phase'[r] \in PlatformPhases => route'[r] = "platform"
  /\ phase'[r] \in ThirdPartyPhases => route'[r] = "third_party"

\* A step of the handler of r.
Effect(r) ==
  /\ CallType(r) /\ CallProgress(r) /\ OnlyCall(r) /\ SlotsOf(r)
  /\ Moves(r) \/ Answers(r) \/ Leaves(r)

\* None is none of the values that it stands for the absence of: no status, ...
LEMMA NoneIsNoStatus == None \notin {200, 400, 429, 500, 502}
BY GatewayAssumption

\* ... no usage, ...
LEMMA NoneIsNoUsage == None \notin Usages
BY GatewayAssumption

\* ... no endpoint, ...
LEMMA NoneIsNoEndpoint == None \notin Endpoints
BY GatewayAssumption

\* ... and no route.
LEMMA NoneIsNoRoute == None # "platform" /\ None # "third_party"
BY GatewayAssumption

\* The day of a goroutine that has read no date.
LEMMA NoDay == 0 \in 0..MaxDay
BY LedgerAssumption

\* handleThirdPartyProxy answers with one of its two errors or goes on to the pipe.
LEMMA ProxyOutcomes ==
  ASSUME NEW r, NEW o \in {"no key", "unreachable", "error", "answer"},
         handleThirdPartyProxy(r, o)
  PROVE  /\ phase[r] = "proxying"
         /\ \/ Reply(r, 500, {}) \/ Reply(r, 502, {Task(r, "RecordRequestLog")})
            \/ Goto(r, "piping") /\ UNCHANGED <<answer, tasks>>
         /\ UNCHANGED <<today, tables, endpoint, slots, route, used, faults>>
<1>1. CASE o = "no key"
  BY <1>1, Zenon DEF handleThirdPartyProxy
<1>2. CASE o = "unreachable"
  BY <1>2 DEF handleThirdPartyProxy
<1>3. CASE o = "error"
  BY <1>3 DEF handleThirdPartyProxy
<1>4. CASE o = "answer"
  BY <1>4 DEF handleThirdPartyProxy
<1>. QED  BY <1>1, <1>2, <1>3, <1>4

\* Each of those is a step of a handler.
LEMMA Proxied ==
  ASSUME TypeOK, CallsProgress, NEW r \in Request,
         phase[r] = "proxying",
         \/ Reply(r, 500, {}) \/ Reply(r, 502, {Task(r, "RecordRequestLog")})
         \/ Goto(r, "piping") /\ UNCHANGED <<answer, tasks>>,
         UNCHANGED <<today, tables, endpoint, slots, route, used, faults>>
  PROVE  Effect(r)
<1>. USE NoneIsNoStatus, NoneIsNoUsage, NoneIsNoEndpoint, NoDay
   DEF TypeOK, Goto, Task, TaskKinds, PlatformPhases, ThirdPartyPhases
<1>1. CASE Reply(r, 500, {})
  <2>1. CallType(r) /\ CallProgress(r) /\ OnlyCall(r)
    BY <1>1 DEF Reply, Holds, Over, CallType, CallProgress, OnlyCall, CallsProgress
  <2>2. SlotsOf(r)
    BY <1>1 DEF Reply, Holds, SlotsOf
  <2>3. Moves(r) \/ Answers(r) \/ Leaves(r)
    BY <1>1 DEF Reply, Holds, Moves, Answers, Leaves, Started, Over, CallsProgress
  <2>. QED  BY <2>1, <2>2, <2>3 DEF Effect
<1>2. CASE Reply(r, 502, {Task(r, "RecordRequestLog")})
  <2>1. CallType(r) /\ CallProgress(r) /\ OnlyCall(r)
    BY <1>2 DEF Reply, Holds, Over, CallType, CallProgress, OnlyCall, CallsProgress
  <2>2. SlotsOf(r)
    BY <1>2 DEF Reply, Holds, SlotsOf
  <2>3. Moves(r) \/ Answers(r) \/ Leaves(r)
    BY <1>2 DEF Reply, Holds, Moves, Answers, Leaves, Started, Over, CallsProgress
  <2>. QED  BY <2>1, <2>2, <2>3 DEF Effect
<1>3. CASE Goto(r, "piping") /\ UNCHANGED <<answer, tasks>>
  <2>1. CallType(r) /\ CallProgress(r) /\ OnlyCall(r)
    BY <1>3 DEF Reply, Holds, Over, CallType, CallProgress, OnlyCall, CallsProgress
  <2>2. SlotsOf(r)
    BY <1>3 DEF Reply, Holds, SlotsOf
  <2>3. Moves(r) \/ Answers(r) \/ Leaves(r)
    BY <1>3 DEF Reply, Holds, Moves, Answers, Leaves, Started, Over, CallsProgress
  <2>. QED  BY <2>1, <2>2, <2>3 DEF Effect
<1>. QED  BY <1>1, <1>2, <1>3

\* The nine handlers of a platform answer do the same.
LEMMA AnsweredOneWay ==
  ASSUME NEW r, NEW tokens,
         \/ handleNonStreamChatRaw(r, tokens) \/ handleStreamChatRaw(r, tokens)
         \/ handleNonStreamCompletionRaw(r, tokens) \/ handleStreamCompletionRaw(r, tokens)
         \/ handleEmbeddingRaw(r, tokens)
         \/ handleNonStreamResponses(r, tokens) \/ handleStreamResponses(r, tokens)
         \/ handleAnthropicNonStream(r, tokens) \/ handleAnthropicStream(r, tokens)
  PROVE  \E e : Answered(r, e, tokens)
BY Zenon
   DEF handleNonStreamChatRaw, handleNonStreamCompletionRaw, handleEmbeddingRaw,
       handleNonStreamResponses, handleAnthropicNonStream, handleStreamChatRaw,
       handleStreamCompletionRaw, handleStreamResponses, handleAnthropicStream

\* Every operation of a handler moves, answers or leaves, and touches its own call only.
LEMMA HandlerEffect ==
  ASSUME CallsInv, NEW r \in Request, Handle(r)
  PROVE  Effect(r)
<1>a. ASSUME NEW e \in Served[r], NEW readable \in BOOLEAN, Receive(r, e, readable)
      PROVE  Effect(r)
  <2>. USE NoneIsNoStatus, NoneIsNoUsage, NoneIsNoEndpoint, NoDay
       DEF CallsInv, TypeOK, Goto, Task, TaskKinds, PlatformPhases, ThirdPartyPhases
  <2>0. e \in Endpoints
    BY GatewayAssumption
  <2>1. CallType(r) /\ CallProgress(r) /\ OnlyCall(r)
    BY <1>a, <2>0 DEF Receive, Reply, Holds, Over, CallType, CallProgress, OnlyCall, CallsProgress
  <2>2. SlotsOf(r)
    BY <1>a, <2>0 DEF Receive, Reply, Holds, SlotsOf
  <2>3. Moves(r) \/ Answers(r)
    BY <1>a, <2>0 DEF Receive, Reply, Holds, Moves, Answers, Started, Over
  <2>. QED  BY <2>1, <2>2, <2>3 DEF Effect
<1>b. ASSUME NEW f \in {None, "openai", "anthropic", "all"},
             checkAndHandleThirdParty(r, f)
      PROVE  Effect(r)
  <2>. USE NoneIsNoStatus, NoneIsNoUsage, NoneIsNoEndpoint, NoDay
       DEF CallsInv, TypeOK, Goto, Task, TaskKinds, PlatformPhases, ThirdPartyPhases
  <2>1. CallType(r) /\ CallProgress(r) /\ OnlyCall(r)
    BY <1>b
       DEF checkAndHandleThirdParty, Reply, Holds, Over, CallType, CallProgress, OnlyCall,
           CallsProgress
  <2>2. SlotsOf(r)
    BY <1>b DEF checkAndHandleThirdParty, Reply, Holds, SlotsOf
  <2>3. Moves(r) \/ Answers(r) \/ Leaves(r)
    BY <1>b
       DEF checkAndHandleThirdParty, Reply, Holds, Moves, Answers, Leaves, Started, Over,
           CallsProgress
  <2>. QED  BY <2>1, <2>2, <2>3 DEF Effect
<1>c. ASSUME NEW o \in {"no key", "unreachable", "error", "answer"},
             handleThirdPartyProxy(r, o)
      PROVE  Effect(r)
  <2>1. /\ phase[r] = "proxying"
        /\ \/ Reply(r, 500, {}) \/ Reply(r, 502, {Task(r, "RecordRequestLog")})
           \/ Goto(r, "piping") /\ UNCHANGED <<answer, tasks>>
        /\ UNCHANGED <<today, tables, endpoint, slots, route, used, faults>>
    BY <1>c, ProxyOutcomes
  <2>2. TypeOK /\ CallsProgress
    BY DEF CallsInv
  <2>. QED  BY <2>1, <2>2, Proxied, Zenon
<1>d. ASSUME NEW allowed \in BOOLEAN, CheckTokenQuota(r, allowed) PROVE Effect(r)
  <2>. USE NoneIsNoStatus, NoneIsNoUsage, NoneIsNoEndpoint, NoDay
       DEF CallsInv, TypeOK, Goto, Task, TaskKinds, PlatformPhases, ThirdPartyPhases
  <2>1. CallType(r) /\ CallProgress(r) /\ OnlyCall(r)
    BY <1>d
       DEF CheckTokenQuota, Reply, Holds, Over, CallType, CallProgress, OnlyCall,
           CallsProgress
  <2>2. SlotsOf(r)
    BY <1>d DEF CheckTokenQuota, Reply, Holds, SlotsOf
  <2>3. Moves(r) \/ Answers(r) \/ Leaves(r)
    BY <1>d
       DEF CheckTokenQuota, Reply, Holds, Moves, Answers, Leaves, Started, Over,
           CallsProgress
  <2>. QED  BY <2>1, <2>2, <2>3 DEF Effect
<1>e. ASSUME AcquireConcurrency(r) PROVE Effect(r)
  <2>. USE NoneIsNoStatus, NoneIsNoUsage, NoneIsNoEndpoint, NoDay
       DEF CallsInv, TypeOK, Goto, Task, TaskKinds, PlatformPhases, ThirdPartyPhases
  <2>1. CallType(r) /\ CallProgress(r) /\ OnlyCall(r)
    BY <1>e
       DEF AcquireConcurrency, Reply, Holds, Over, CallType, CallProgress, OnlyCall,
           CallsProgress
  <2>2. SlotsOf(r)
    BY <1>e DEF AcquireConcurrency, Reply, Holds, SlotsOf
  <2>3. Moves(r) \/ Answers(r) \/ Leaves(r)
    BY <1>e
       DEF AcquireConcurrency, Reply, Holds, Moves, Answers, Leaves, Started, Over,
           CallsProgress
  <2>. QED  BY <2>1, <2>2, <2>3 DEF Effect
<1>f. ASSUME NEW found \in BOOLEAN, GetProviderForModel(r, found) PROVE Effect(r)
  <2>. USE NoneIsNoStatus, NoneIsNoUsage, NoneIsNoEndpoint, NoDay
       DEF CallsInv, TypeOK, Goto, Task, TaskKinds, PlatformPhases, ThirdPartyPhases
  <2>1. CallType(r) /\ CallProgress(r) /\ OnlyCall(r)
    BY <1>f
       DEF GetProviderForModel, Reply, Holds, Over, CallType, CallProgress, OnlyCall,
           CallsProgress
  <2>2. SlotsOf(r)
    BY <1>f DEF GetProviderForModel, Reply, Holds, SlotsOf
  <2>3. Moves(r) \/ Answers(r) \/ Leaves(r)
    BY <1>f
       DEF GetProviderForModel, Reply, Holds, Moves, Answers, Leaves, Started, Over,
           CallsProgress
  <2>. QED  BY <2>1, <2>2, <2>3 DEF Effect
<1>g. ASSUME handleLLMError(r) PROVE Effect(r)
  <2>. USE NoneIsNoStatus, NoneIsNoUsage, NoneIsNoEndpoint, NoDay
       DEF CallsInv, TypeOK, Goto, Task, TaskKinds, PlatformPhases, ThirdPartyPhases
  <2>1. CallType(r) /\ CallProgress(r) /\ OnlyCall(r)
    BY <1>g
       DEF handleLLMError, Reply, Holds, Over, CallType, CallProgress, OnlyCall,
           CallsProgress
  <2>2. SlotsOf(r)
    BY <1>g DEF handleLLMError, Reply, Holds, SlotsOf
  <2>3. Moves(r) \/ Answers(r) \/ Leaves(r)
    BY <1>g DEF handleLLMError, Reply, Holds, Moves, Answers, Leaves, Started, Over, CallsProgress
  <2>. QED  BY <2>1, <2>2, <2>3 DEF Effect
<1>h. ASSUME NEW tokens \in Usages \cup {None}, NEW readable \in BOOLEAN,
             pipeThirdPartyNonStreamResponse(r, readable, tokens)
      PROVE  Effect(r)
  <2>. USE NoneIsNoStatus, NoneIsNoUsage, NoneIsNoEndpoint, NoDay
       DEF CallsInv, TypeOK, Goto, Task, TaskKinds, PlatformPhases, ThirdPartyPhases
  <2>1. CallType(r) /\ CallProgress(r) /\ OnlyCall(r)
    BY <1>h
       DEF pipeThirdPartyNonStreamResponse, Reply, Holds, Over, CallType, CallProgress,
           OnlyCall, CallsProgress
  <2>2. SlotsOf(r)
    BY <1>h DEF pipeThirdPartyNonStreamResponse, Reply, Holds, SlotsOf
  <2>3. Moves(r) \/ Answers(r) \/ Leaves(r)
    BY <1>h
       DEF pipeThirdPartyNonStreamResponse, Reply, Holds, Moves, Answers, Leaves, Started,
           Over, CallsProgress
  <2>. QED  BY <2>1, <2>2, <2>3 DEF Effect
<1>i. ASSUME NEW tokens \in Usages \cup {None},
             pipeThirdPartyStreamResponse(r, tokens)
      PROVE  Effect(r)
  <2>. USE NoneIsNoStatus, NoneIsNoUsage, NoneIsNoEndpoint, NoDay
       DEF CallsInv, TypeOK, Goto, Task, TaskKinds, PlatformPhases, ThirdPartyPhases
  <2>1. CallType(r) /\ CallProgress(r) /\ OnlyCall(r)
    BY <1>i
       DEF pipeThirdPartyStreamResponse, Reply, Holds, Over, CallType, CallProgress,
           OnlyCall, CallsProgress
  <2>2. SlotsOf(r)
    BY <1>i DEF pipeThirdPartyStreamResponse, Reply, Holds, SlotsOf
  <2>3. Moves(r) \/ Answers(r) \/ Leaves(r)
    BY <1>i
       DEF pipeThirdPartyStreamResponse, Reply, Holds, Moves, Answers, Leaves, Started, Over,
           CallsProgress
  <2>. QED  BY <2>1, <2>2, <2>3 DEF Effect
<1>j. ASSUME NEW tokens \in Usages \cup {None}, NEW e, Answered(r, e, tokens)
      PROVE  Effect(r)
  <2>. USE NoneIsNoStatus, NoneIsNoUsage, NoneIsNoEndpoint, NoDay
       DEF CallsInv, TypeOK, Goto, Task, TaskKinds, PlatformPhases, ThirdPartyPhases
  <2>1. CallType(r) /\ CallProgress(r) /\ OnlyCall(r)
    BY <1>j DEF Answered, Reply, Holds, Over, CallType, CallProgress, OnlyCall, CallsProgress
  <2>2. SlotsOf(r)
    BY <1>j DEF Answered, Reply, Holds, SlotsOf
  <2>3. Moves(r) \/ Answers(r) \/ Leaves(r)
    BY <1>j DEF Answered, Reply, Holds, Moves, Answers, Leaves, Started, Over, CallsProgress
  <2>. QED  BY <2>1, <2>2, <2>3 DEF Effect
<1>k. ASSUME ReleaseConcurrency(r) PROVE Effect(r)
  <2>. USE NoneIsNoStatus, NoneIsNoUsage, NoneIsNoEndpoint, NoDay
       DEF CallsInv, TypeOK, Goto, Task, TaskKinds, PlatformPhases, ThirdPartyPhases
  <2>1. CallType(r) /\ CallProgress(r) /\ OnlyCall(r)
    BY <1>k
       DEF ReleaseConcurrency, Reply, Holds, Over, CallType, CallProgress, OnlyCall,
           CallsProgress
  <2>2. SlotsOf(r)
    BY <1>k DEF ReleaseConcurrency, Reply, Holds, SlotsOf
  <2>3. Moves(r) \/ Answers(r) \/ Leaves(r)
    BY <1>k
       DEF ReleaseConcurrency, Reply, Holds, Moves, Answers, Leaves, Started, Over,
           CallsProgress
  <2>. QED  BY <2>1, <2>2, <2>3 DEF Effect
<1>l. ASSUME NEW tokens \in Usages \cup {None},
             \/ handleNonStreamChatRaw(r, tokens) \/ handleStreamChatRaw(r, tokens)
             \/ handleNonStreamCompletionRaw(r, tokens) \/ handleStreamCompletionRaw(r, tokens)
             \/ handleEmbeddingRaw(r, tokens)
             \/ handleNonStreamResponses(r, tokens) \/ handleStreamResponses(r, tokens)
             \/ handleAnthropicNonStream(r, tokens) \/ handleAnthropicStream(r, tokens)
      PROVE  Effect(r)
  <2>1. \E e : Answered(r, e, tokens)
    BY <1>l, AnsweredOneWay
  <2>. QED  BY <2>1, <1>j, Zenon
<1>2. CASE \E tokens \in Usages \cup {None} :
       \/ \E readable \in BOOLEAN : pipeThirdPartyNonStreamResponse(r, readable, tokens)
       \/ pipeThirdPartyStreamResponse(r, tokens)
       \/ handleNonStreamChatRaw(r, tokens) \/ handleStreamChatRaw(r, tokens)
       \/ handleNonStreamCompletionRaw(r, tokens) \/ handleStreamCompletionRaw(r, tokens)
       \/ handleEmbeddingRaw(r, tokens)
       \/ handleNonStreamResponses(r, tokens) \/ handleStreamResponses(r, tokens)
       \/ handleAnthropicNonStream(r, tokens) \/ handleAnthropicStream(r, tokens)
  BY <1>2, <1>h, <1>i, <1>l, Zenon
<1>. QED
  BY <1>2, <1>a, <1>b, <1>c, <1>d, <1>e, <1>f, <1>g, <1>k, Zenon DEF Handle

-----------------------------------------------------------------------------
(***************************************************************************)
(* Slots                                                                   *)
(***************************************************************************)

\* The handlers that hold a slot of a user.
Holders(u) == {r \in Request : UserOf[r] = u /\ Holds(r)}

\* Slots that a crash leaked aside, the handlers' are all that is taken.
SlotsCoverHandlers ==
  \A u \in User : /\ Cardinality(Holders(u)) <= slots[u]
                  /\ faults = 0 => slots[u] = Cardinality(Holders(u))

\* A user has finitely many handlers.
LEMMA HoldersAreCounted ==
  \A u : IsFiniteSet(Holders(u)) /\ Cardinality(Holders(u)) \in Nat
<1>. TAKE u
<1>1. Holders(u) \subseteq Request /\ IsFiniteSet(Request)
  BY GatewayAssumption DEF Holders
<1>. QED  BY <1>1, FS_Subset, FS_CardinalityType

\* A handler that takes or gives back a slot keeps the count.
LEMMA SlotsStep ==
  ASSUME TypeOK, SlotsCoverHandlers, NEW r \in Request, SlotsOf(r), OnlyCall(r)
  PROVE  slots' \in [User -> 0..MaxConcurrency] /\ SlotsCoverHandlers'
<1>. DEFINE u == UserOf[r]
<1>0. u \in User /\ slots \in [User -> 0..MaxConcurrency] /\ MaxConcurrency \in Nat \ {0}
  BY GatewayAssumption DEF TypeOK
<1>1. \A v \in User \ {u} : Holders(v)' = Holders(v)
  BY DEF OnlyCall, Holders, Holds
<1>2. faults' = faults
  BY DEF OnlyCall
<1>3. CASE UNCHANGED slots /\ (Holds(r)' <=> Holds(r))
  <2>1. \A v \in User : Holders(v)' = Holders(v)
    BY <1>3 DEF OnlyCall, Holders, Holds
  <2>. QED  BY <1>0, <1>2, <1>3, <2>1 DEF SlotsCoverHandlers
<1>4. CASE /\ ~Holds(r) /\ Holds(r)' /\ slots[u] < MaxConcurrency
           /\ slots' = [slots EXCEPT ![u] = @ + 1]
  <2>1. Holders(u)' = Holders(u) \cup {r} /\ r \notin Holders(u)
    BY <1>4 DEF OnlyCall, Holders, Holds
  <2>2. Cardinality(Holders(u)') = Cardinality(Holders(u)) + 1
    BY <2>1, HoldersAreCounted, FS_AddElement
  <2>3. slots' \in [User -> 0..MaxConcurrency]
    BY <1>0, <1>4
  <2>4. \A v \in User : slots[v] \in 0..MaxConcurrency /\ Cardinality(Holders(v)) \in Nat
    BY <1>0, HoldersAreCounted
  <2>5. slots'[u] = slots[u] + 1 /\ \A v \in User \ {u} : slots'[v] = slots[v]
    BY <1>0, <1>4
  <2>. QED  BY <1>0, <1>1, <1>2, <2>2, <2>3, <2>4, <2>5 DEF SlotsCoverHandlers
<1>5. CASE /\ Holds(r) /\ ~Holds(r)'
           /\ slots' = [slots EXCEPT ![u] = @ - 1]
  <2>1. Holders(u)' = Holders(u) \ {r} /\ r \in Holders(u)
    BY <1>5 DEF OnlyCall, Holders, Holds
  <2>2. Cardinality(Holders(u)') = Cardinality(Holders(u)) - 1 /\ Cardinality(Holders(u)) > 0
    BY <2>1, HoldersAreCounted, FS_RemoveElement, FS_EmptySet
  <2>4. \A v \in User : slots[v] \in 0..MaxConcurrency /\ Cardinality(Holders(v)) \in Nat
    BY <1>0, HoldersAreCounted
  <2>3. slots' \in [User -> 0..MaxConcurrency]
    <3>1. slots[u] >= 1
      BY <1>0, <2>2, <2>4 DEF SlotsCoverHandlers
    <3>. QED  BY <1>0, <1>5, <3>1
  <2>5. slots'[u] = slots[u] - 1 /\ \A v \in User \ {u} : slots'[v] = slots[v]
    BY <1>0, <1>5
  <2>. QED  BY <1>0, <1>1, <1>2, <2>2, <2>3, <2>4, <2>5 DEF SlotsCoverHandlers
<1>. QED  BY <1>3, <1>4, <1>5 DEF SlotsOf

-----------------------------------------------------------------------------
(***************************************************************************)
(* Calls and their goroutines                                              *)
(***************************************************************************)
\* A handler's step keeps the progress of calls and the slots.
LEMMA HandleStep ==
  ASSUME CallsInv, SlotsCoverHandlers, NEW r \in Request, Handle(r)
  PROVE  CallsInv' /\ SlotsCoverHandlers'
<1>1. Effect(r)
  BY HandlerEffect
<1>2. slots' \in [User -> 0..MaxConcurrency] /\ SlotsCoverHandlers'
  BY <1>1, SlotsStep DEF Effect, CallsInv
<1>3. TypeOK'
  BY <1>1, <1>2 DEF Effect, CallType, OnlyCall, CallsInv, TypeOK
<1>4. TablesTypeOK' /\ FutureIsEmpty'
  <2>1. UNCHANGED <<today, daily, dailyKey, cycle, thirdParty, logs>>
    BY <1>1 DEF Effect, OnlyCall, tables
  <2>. QED  BY <2>1 DEF CallsInv, TablesTypeOK, FutureIsEmpty
<1>5. CallsProgress'
  BY <1>1 DEF Effect, CallProgress, OnlyCall, Over, CallsInv, CallsProgress
<1>6. \A t \in tasks : t.call \in Request /\ (Over(r) \/ t.call # r)
  BY DEF CallsInv, TypeOK, TasksBelong
<1>7. TasksBelong'
  <2>1. ASSUME NEW t \in tasks
        PROVE  /\ Over(t.call)' /\ endpoint'[t.call] = endpoint[t.call]
               /\ route'[t.call] = route[t.call] /\ answer'[t.call] = answer[t.call]
               /\ used'[t.call] = used[t.call] /\ today' = today
    <3>1. CASE t.call # r
      BY <1>1, <1>6, <3>1 DEF Effect, OnlyCall, Over, CallsInv, TasksBelong
    <3>2. CASE t.call = r
      BY <1>1, <1>6, <3>2 DEF Effect, OnlyCall, Moves, Answers, Leaves, Over
    <3>. QED  BY <3>1, <3>2
  <2>2. ASSUME NEW t \in Started(r), Answers(r)
        PROVE  /\ t.call = r /\ t.kind \in TaskKinds \ {"Writes"} /\ t.day = 0
               /\ t.kind \in UsageKinds => route'[r] = "platform" /\ answer'[r] = 200
               /\ t.kind \in {"Metrics", "MetricsLog"} => route'[r] = "third_party" /\ answer'[r] = 200
               /\ t.kind = "RecordRequestLog" =>
                     \/ route'[r] = "platform" /\ answer'[r] \in {200, 502}
                     \/ route'[r] = "third_party" /\ answer'[r] = 502
    BY <2>2 DEF Answers, Started, Task, TaskKinds, UsageKinds
  <2>3. ASSUME NEW t \in tasks' PROVE t \in tasks \/ (t \in Started(r) /\ Answers(r))
    BY <1>1, <2>3 DEF Effect, Moves, Answers, Leaves
  <2>4. Answers(r) => Over(r)' /\ endpoint'[r] \in Endpoints
    BY DEF Answers
  <2>. QED  BY <2>1, <2>2, <2>3, <2>4 DEF TasksBelong, CallsInv, UsageKinds
<1>8. TasksAreSingle'
  <2>1. \A t, s \in Started(r) :
          /\ t.kind \in UsageKinds /\ s.kind \in UsageKinds => t = s
          /\ t.kind \in LogKinds /\ s.kind \in LogKinds => t = s
    BY DEF Started, Task, UsageKinds, LogKinds
  <2>2. \A t \in Started(r) : t.call = r
    BY DEF Started, Task
  <2>3. \/ tasks' = tasks
        \/ tasks' = tasks \cup Started(r) /\ ~Over(r)
    BY <1>1 DEF Effect, Moves, Answers, Leaves
  <2>. QED  BY <1>6, <2>1, <2>2, <2>3 DEF CallsInv, TasksAreSingle
<1>. QED  BY <1>2, <1>3, <1>4, <1>5, <1>7, <1>8 DEF CallsInv

-----------------------------------------------------------------------------
(***************************************************************************)
(* What a step of a goroutine comes to                                     *)
(***************************************************************************)
\* No handler moves and no fault is undone.
OnlyTasks ==
  /\ UNCHANGED <<today, phase, endpoint, slots, route, answer, used>>
  /\ faults' \in 0..MaxFaults /\ faults' >= faults

\* RecordUsage goes on to its writes, with the date.
WritesTask(t) == [call |-> t.call, kind |-> "Writes", day |-> today]
Dates(t) ==
  /\ t.kind = "RecordUsage"
  /\ \/ used[t.call] = None /\ tasks' = tasks \ {t}
     \/ used[t.call] # None /\ tasks' = (tasks \ {t}) \cup {WritesTask(t)}
  /\ UNCHANGED tables /\ faults' = faults

\* The writes of a usage, each done or lost.
Accounts(t) ==
  LET u == UserOf[t.call]  n == used[t.call] IN
  /\ t.kind = "Writes" /\ tasks' = tasks \ {t}
  /\ \/ UpsertDaily(u, t.day, n)
     \/ UNCHANGED daily /\ faults' > 0
  /\ \/ UpsertDailyKey(KeyOf[u], t.day, n)
     \/ UNCHANGED dailyKey /\ faults' > 0
  /\ \/ RecordCycleUsage(u, n)
     \/ UNCHANGED cycle /\ faults' > 0
  /\ UNCHANGED <<thirdParty, logs>>

\* A log is written, or lost.
LogTypeOf(r) == IF route[r] = "third_party" THEN "chat_completion" ELSE endpoint[r].type
LogsCall(t) ==
  /\ t.kind \in {"RecordRequestLog", "MetricsLog"} /\ tasks' = tasks \ {t}
  /\ \/ UNCHANGED tables /\ faults' > 0
     \/ CreateRequestLog(t.call, LogTypeOf(t.call), answer[t.call])

\* The usage of a third party's answer is written, or lost.
Meters(t) ==
  /\ t.kind = "Metrics" /\ tasks' = (tasks \ {t}) \cup {Task(t.call, "MetricsLog")}
  /\ \/ UNCHANGED tables /\ faults' > 0
     \/ RecordThirdPartyUsage(UserOf[t.call], Tokens(t.call))

\* A step of a goroutine dates, accounts for, logs or meters its call.
LEMMA RecordEffect ==
  ASSUME CallsInv, NEW t \in tasks, Record(t)
  PROVE  /\ OnlyTasks
         /\ Dates(t) \/ Accounts(t) \/ LogsCall(t) \/ Meters(t)
<1>0. faults \in 0..MaxFaults /\ MaxFaults \in Nat
  BY GatewayAssumption DEF CallsInv, TypeOK
<1>1. UNCHANGED <<today, phase, endpoint, slots, route, answer, used>>
  BY DEF Record
<1>2. ASSUME NEW failed, Fault(failed)
      PROVE  faults' \in 0..MaxFaults /\ faults' >= faults /\ (failed => faults' > 0)
  <2>1. CASE failed
    BY <1>0, <1>2, <2>1 DEF Fault
  <2>2. CASE ~failed
    BY <1>0, <1>2, <2>2 DEF Fault
  <2>. QED  BY <2>1, <2>2
<1>3. CASE RecordUsage(t)
  <2>1. OnlyTasks
    BY <1>0, <1>1, <1>3 DEF RecordUsage, OnlyTasks
  <2>2. Dates(t)
    BY <1>3 DEF RecordUsage, Run, Dates, WritesTask
  <2>. QED  BY <2>1, <2>2
<1>4. ASSUME NEW lost \in SUBSET Writes, RecordUsageWrites(t, lost)
      PROVE  OnlyTasks /\ Accounts(t)
  <2>1. Fault(lost # {})
    BY <1>4 DEF RecordUsageWrites
  <2>2. OnlyTasks
    BY <1>1, <1>2, <2>1 DEF OnlyTasks
  <2>3. lost # {} => faults' > 0
    BY <1>2, <2>1
  <2>4. t.kind = "Writes" /\ tasks' = tasks \ {t} /\ Written(t, lost)
    BY <1>4 DEF RecordUsageWrites, Run
  <2>. DEFINE u == UserOf[t.call]
              n == used[t.call]
  <2>5. UpsertDaily(u, t.day, n) \/ (UNCHANGED daily /\ faults' > 0)
    BY <2>3, <2>4, Zenon DEF Written
  <2>6. UpsertDailyKey(KeyOf[u], t.day, n) \/ (UNCHANGED dailyKey /\ faults' > 0)
    BY <2>3, <2>4, Zenon DEF Written
  <2>7. RecordCycleUsage(u, n) \/ (UNCHANGED cycle /\ faults' > 0)
    BY <2>3, <2>4, Zenon DEF Written
  <2>8. UNCHANGED <<thirdParty, logs>>
    BY <2>4, Zenon DEF Written
  <2>9. Accounts(t)
    BY <2>4, <2>5, <2>6, <2>7, <2>8, Zenon DEF Accounts
  <2>. QED  BY <2>2, <2>9
<1>5. ASSUME NEW failed \in BOOLEAN, RecordRequestLog(t, failed)
      PROVE  OnlyTasks /\ LogsCall(t)
  <2>1. Fault(failed)
    BY <1>5 DEF RecordRequestLog
  <2>2. OnlyTasks
    BY <1>1, <1>2, <2>1 DEF OnlyTasks
  <2>3. failed => faults' > 0
    BY <1>2, <2>1
  <2>4. LogsCall(t)
    <3>1. t.kind = "RecordRequestLog" /\ tasks' = tasks \ {t}
      BY <1>5 DEF RecordRequestLog, Run
    <3>2. \/ UNCHANGED tables /\ faults' > 0
          \/ CreateRequestLog(t.call, LogTypeOf(t.call), answer[t.call])
      BY <1>5, <2>3, Zenon DEF RecordRequestLog, LogTypeOf
    <3>. QED  BY <3>1, <3>2 DEF LogsCall
  <2>. QED  BY <2>2, <2>4
<1>6. ASSUME NEW failed \in BOOLEAN, recordThirdPartyMetrics(t, failed)
      PROVE  OnlyTasks /\ (LogsCall(t) \/ Meters(t))
  <2>1. Fault(failed)
    BY <1>6 DEF recordThirdPartyMetrics
  <2>2. OnlyTasks
    BY <1>1, <1>2, <2>1 DEF OnlyTasks
  <2>3. failed => faults' > 0
    BY <1>2, <2>1
  <2>4. CASE /\ Run(t, "Metrics", {Task(t.call, "MetricsLog")})
             /\ IF failed THEN UNCHANGED tables
                ELSE RecordThirdPartyUsage(UserOf[t.call], Tokens(t.call))
    <3>1. Meters(t)
      BY <2>3, <2>4, Zenon DEF Run, Meters
    <3>. QED  BY <2>2, <3>1
  <2>5. CASE /\ Run(t, "MetricsLog", {})
             /\ IF failed THEN UNCHANGED tables
                ELSE CreateRequestLog(t.call, "chat_completion", 200)
    <3>1. t.kind = "MetricsLog" /\ tasks' = tasks \ {t}
      BY <2>5 DEF Run
    <3>2. route[t.call] = "third_party" /\ answer[t.call] = 200
      BY <3>1 DEF CallsInv, TasksBelong
    <3>3. LogTypeOf(t.call) = "chat_completion"
      BY <3>2 DEF LogTypeOf
    <3>4. \/ UNCHANGED tables /\ faults' > 0
          \/ CreateRequestLog(t.call, LogTypeOf(t.call), answer[t.call])
      BY <2>3, <2>5, <3>2, <3>3, Zenon
    <3>5. LogsCall(t)
      BY <3>1, <3>4 DEF LogsCall
    <3>. QED  BY <2>2, <3>5
  <2>. QED  BY <1>6, <2>4, <2>5, Zenon DEF recordThirdPartyMetrics
<1>. QED  BY <1>3, <1>4, <1>5, <1>6, Zenon DEF Record

-----------------------------------------------------------------------------
\* A row that is added to a table.
LEMMA InsertRow ==
  ASSUME NEW table, NEW row, \A other \in DOMAIN table : table[other] \in Nat
  PROVE  /\ DOMAIN Insert(table, row) = DOMAIN table \cup {row}
         /\ row \in DOMAIN table => Insert(table, row)[row] = table[row] + 1
         /\ row \notin DOMAIN table => Insert(table, row)[row] = 1
         /\ \A other \in DOMAIN table \ {row} : Insert(table, row)[other] = table[other]
<1>. DEFINE one == SetToBag({row})
<1>1. DOMAIN one = {row} /\ one[row] = 1
  BY DEF SetToBag
<1>. HIDE DEF one
<1>2. Insert(table, row) = [x \in DOMAIN table \cup {row} |->
         (IF x \in DOMAIN table THEN table[x] ELSE 0) + (IF x \in {row} THEN one[x] ELSE 0)]
  BY <1>1 DEF Insert, (+), one
<1>. QED  BY <1>1, <1>2

\* A summary that grows.
Grown(f, a, d, n) == [f EXCEPT ![a][d] = Plus(@, n)]

\* An account with n more in one place.
LEMMA GrownRow ==
  ASSUME NEW A, NEW D, NEW f \in [A -> [D -> Usage]], NEW a \in A, NEW d \in D,
         NEW n \in Usage
  PROVE  /\ Grown(f, a, d, n) \in [A -> [D -> Usage]]
         /\ Grown(f, a, d, n)[a][d] = Plus(f[a][d], n)
         /\ \A x \in A, y \in D : x # a \/ y # d => Grown(f, a, d, n)[x][y] = f[x][y]
<1>. DEFINE sum == Plus(f[a][d], n)
            g == Grown(f, a, d, n)
<1>1. sum \in Usage
  BY PlusType
<1>2. g = [f EXCEPT ![a] = [f[a] EXCEPT ![d] = sum]]
  BY DEF Grown
<1>. HIDE DEF sum, g
<1>3. [f[a] EXCEPT ![d] = sum] \in [D -> Usage]
  BY <1>1
<1>4. g \in [A -> [D -> Usage]] /\ g[a] = [f[a] EXCEPT ![d] = sum]
  BY <1>2, <1>3
<1>5. \A x \in A \ {a} : g[x] = f[x]
  BY <1>2
<1>6. /\ g \in [A -> [D -> Usage]] /\ g[a][d] = sum
      /\ \A x \in A, y \in D : x # a \/ y # d => g[x][y] = f[x][y]
  BY <1>4, <1>5
<1>. QED  BY <1>6 DEF sum, g

\* A goroutine's step keeps the progress of calls and the slots.
LEMMA RecordStep ==
  ASSUME CallsInv, SlotsCoverHandlers, NEW t \in tasks, Record(t)
  PROVE  CallsInv' /\ SlotsCoverHandlers'
<1>0. OnlyTasks /\ (Dates(t) \/ Accounts(t) \/ LogsCall(t) \/ Meters(t))
  BY RecordEffect
<1>1. faults \in Nat /\ faults' \in Nat /\ (faults' = 0 => faults = 0)
  BY <1>0, GatewayAssumption DEF CallsInv, TypeOK, OnlyTasks
<1>2. SlotsCoverHandlers'
  <2>1. \A u : Holders(u)' = Holders(u)
    BY <1>0 DEF OnlyTasks, Holders, Holds
  <2>. QED  BY <1>0, <1>1, <2>1 DEF OnlyTasks, SlotsCoverHandlers
<1>3. /\ t \in [call : Request, kind : TaskKinds, day : 0..MaxDay]
      /\ t.call \in Request /\ UserOf[t.call] \in User /\ today \in Day
  BY GatewayAssumption DEF CallsInv, TypeOK, TablesTypeOK
<1>. DEFINE new == {s \in tasks' : s \notin tasks}
<1>4. /\ tasks' \ new \subseteq tasks \ {t}
      /\ \A s \in new : /\ s.call = t.call
                        /\ \/ /\ s = WritesTask(t) /\ t.kind = "RecordUsage"
                              /\ used[t.call] # None
                           \/ s = Task(t.call, "MetricsLog") /\ t.kind = "Metrics"
  BY <1>0 DEF Dates, Accounts, LogsCall, Meters, WritesTask, Task
<1>5. TypeOK'
  <2>1. WritesTask(t) \in [call : Request, kind : TaskKinds, day : 0..MaxDay]
    BY <1>3, LedgerAssumption DEF WritesTask, TaskKinds, Day
  <2>2. Task(t.call, "MetricsLog") \in [call : Request, kind : TaskKinds, day : 0..MaxDay]
    BY <1>3, NoDay DEF Task, TaskKinds
  <2>3. tasks' \subseteq [call : Request, kind : TaskKinds, day : 0..MaxDay]
    BY <1>4, <2>1, <2>2 DEF CallsInv, TypeOK
  <2>. QED  BY <1>0, <2>3 DEF OnlyTasks, CallsInv, TypeOK
<1>6. CallsProgress'
  BY <1>0 DEF OnlyTasks, CallsInv, CallsProgress, Over
<1>7. TasksBelong'
  <2>1. ASSUME NEW s \in tasks'
        PROVE  /\ Over(s.call) /\ endpoint[s.call] \in Endpoints
               /\ s.kind \in UsageKinds => route[s.call] = "platform" /\ answer[s.call] = 200
               /\ s.kind = "Writes" => used[s.call] # None /\ s.day \in FirstDay..today
               /\ s.kind # "Writes" => s.day = 0
               /\ s.kind \in {"Metrics", "MetricsLog"} =>
                    route[s.call] = "third_party" /\ answer[s.call] = 200
               /\ s.kind = "RecordRequestLog" =>
                    \/ route[s.call] = "platform" /\ answer[s.call] \in {200, 502}
                    \/ route[s.call] = "third_party" /\ answer[s.call] = 502
    <3>1. CASE s \in tasks
      BY <3>1 DEF CallsInv, TasksBelong
    <3>2. CASE s = WritesTask(t) /\ t.kind = "RecordUsage" /\ used[t.call] # None
      BY <1>3, <3>2, LedgerAssumption DEF CallsInv, TasksBelong, WritesTask, UsageKinds, Day
    <3>3. CASE s = Task(t.call, "MetricsLog") /\ t.kind = "Metrics"
      BY <3>3 DEF CallsInv, TasksBelong, Task, UsageKinds
    <3>. QED  BY <1>4, <2>1, <3>1, <3>2, <3>3
  <2>2. \A r : Over(r)' <=> Over(r)
    BY <1>0 DEF OnlyTasks, Over
  <2>. QED  BY <1>0, <2>1, <2>2 DEF OnlyTasks, TasksBelong
<1>8. TasksAreSingle'
  <2>1. ASSUME NEW s \in tasks', NEW q \in tasks', s.call = q.call
        PROVE  /\ s.kind \in UsageKinds /\ q.kind \in UsageKinds => s = q
               /\ s.kind \in LogKinds /\ q.kind \in LogKinds => s = q
    <3>1. CASE s \notin new /\ q \notin new
      BY <1>4, <2>1, <3>1 DEF CallsInv, TasksAreSingle
    <3>2. ASSUME NEW a \in new, NEW b \in tasks' \ new, a.call = b.call
          PROVE  /\ ~(a.kind \in UsageKinds /\ b.kind \in UsageKinds)
                 /\ ~(a.kind \in LogKinds /\ b.kind \in LogKinds)
      <4>1. b \in tasks /\ b # t /\ b.call = t.call
        BY <1>4, <3>2
      <4>2. CASE a = WritesTask(t) /\ t.kind = "RecordUsage"
        BY <4>1, <4>2 DEF CallsInv, TasksAreSingle, WritesTask, UsageKinds, LogKinds
      <4>3. CASE a = Task(t.call, "MetricsLog") /\ t.kind = "Metrics"
        BY <4>1, <4>3 DEF CallsInv, TasksAreSingle, Task, UsageKinds, LogKinds
      <4>. QED  BY <1>4, <3>2, <4>2, <4>3
    <3>3. CASE s \in new /\ q \in new
      BY <1>4, <3>3
    <3>. QED  BY <2>1, <3>1, <3>2, <3>3
  <2>. QED  BY <2>1 DEF TasksAreSingle
<1>9. TablesTypeOK' /\ FutureIsEmpty'
  <2>0. /\ today' = today /\ TablesTypeOK /\ FutureIsEmpty
    BY <1>0 DEF OnlyTasks, CallsInv
  <2>1. CASE UNCHANGED tables
    BY <2>0, <2>1 DEF tables, TablesTypeOK, FutureIsEmpty
  <2>2. CASE Accounts(t)
    <3>. DEFINE u == UserOf[t.call]
                n == used[t.call]
                one == [tokens |-> n, requests |-> 1]
    <3>0. t.day \in FirstDay..today /\ n # None
      BY <2>2 DEF CallsInv, TasksBelong, Accounts
    <3>a. n \in Nat
      BY <1>3, <3>0, GatewayAssumption DEF CallsInv, TypeOK
    <3>b. KeyOf[u] \in Key
      BY <1>3 DEF Key
    <3>1. t.day \in FirstDay..today /\ t.day \in Day /\ n \in Nat /\ u \in User /\ KeyOf[u] \in Key
      BY <1>3, <3>0, <3>a, <3>b, LedgerAssumption DEF Day
    <3>2. one \in Usage
      BY <3>1 DEF Usage
    <3>. HIDE DEF one
    <3>3. /\ daily' \in [User -> [Day -> Usage]]
          /\ \A v \in User, d \in Day : d # t.day => daily'[v][d] = daily[v][d]
      <4>1. CASE UpsertDaily(u, t.day, n)
        <5>1. daily' = Grown(daily, u, t.day, one)
          BY <4>1 DEF UpsertDaily, Grown, one
        <5>2. daily \in [User -> [Day -> Usage]]
          BY <2>0 DEF TablesTypeOK
        <5>. HIDE DEF u, n
        <5>. DEFINE g == Grown(daily, u, t.day, one)
        <5>3. g \in [User -> [Day -> Usage]]
          BY <3>1, <3>2, <5>2, GrownRow
        <5>4. \A x \in User, y \in Day : x # u \/ y # t.day => g[x][y] = daily[x][y]
          BY <3>1, <5>2 DEF Grown
        <5>. HIDE DEF g
        <5>5. daily' = g
          BY <5>1 DEF g
        <5>. QED  BY <5>3, <5>4, <5>5
      <4>2. CASE UNCHANGED daily
        BY <2>0, <4>2 DEF TablesTypeOK
      <4>. QED  BY <2>2, <4>1, <4>2 DEF Accounts
    <3>4. dailyKey' \in [Key -> [Day -> Usage]]
      <4>1. CASE UpsertDailyKey(KeyOf[u], t.day, n)
        <5>1. dailyKey' = Grown(dailyKey, KeyOf[u], t.day, one)
          BY <4>1 DEF UpsertDailyKey, Grown, one
        <5>2. dailyKey \in [Key -> [Day -> Usage]]
          BY <2>0 DEF TablesTypeOK
        <5>. QED  BY <3>1, <3>2, <5>1, <5>2, GrownRow
      <4>2. CASE UNCHANGED dailyKey
        BY <2>0, <4>2 DEF TablesTypeOK
      <4>. QED  BY <2>2, <4>1, <4>2 DEF Accounts
    <3>5. cycle' \in [User -> Nat]
      <4>0. cycle \in [User -> Nat]
        BY <2>0 DEF TablesTypeOK
      <4>1. CASE RecordCycleUsage(UserOf[t.call], used[t.call])
        <5>1. PICK counted \in {cycle[UserOf[t.call]] + used[t.call], used[t.call]} :
                     cycle' = [cycle EXCEPT ![UserOf[t.call]] = counted]
          BY <4>1 DEF RecordCycleUsage
        <5>2. counted \in Nat
          BY <3>1, <4>0, <5>1
        <5>. QED  BY <4>0, <5>1, <5>2
      <4>2. CASE UNCHANGED cycle
        BY <4>0, <4>2
      <4>. QED  BY <2>2, <4>1, <4>2 DEF Accounts
    <3>6. FutureIsEmpty'
      <4>1. ASSUME NEW v \in User, NEW d \in Day, d > today PROVE daily'[v][d] = daily[v][d]
        <5>1. d # t.day
          BY <2>0, <3>1, <4>1 DEF TablesTypeOK, Day
        <5>. QED  BY <3>3, <5>1
      <4>2. today' = today /\ thirdParty' = thirdParty
        BY <2>0, <2>2 DEF Accounts
      <4>3. \A v \in User, d \in Day : d > today => daily[v][d] = Zero
        BY <2>0 DEF FutureIsEmpty
      <4>4. \A v \in User, d \in Day : d > today' => daily'[v][d] = Zero
        BY <4>1, <4>2, <4>3
      <4>5. \A row \in DOMAIN thirdParty' : row.day <= today'
        BY <2>0, <4>2 DEF FutureIsEmpty
      <4>. QED  BY <4>4, <4>5 DEF FutureIsEmpty
    <3>. QED  BY <2>0, <2>2, <3>3, <3>4, <3>5, <3>6 DEF Accounts, TablesTypeOK
  <2>3. CASE CreateRequestLog(t.call, LogTypeOf(t.call), answer[t.call]) /\ LogsCall(t)
    <3>. DEFINE row == [call |-> t.call, type |-> LogTypeOf(t.call), status |-> answer[t.call],
                        day |-> today]
    <3>1. row \in LogRow
      <4>1. answer[t.call] \in {200, 502} /\ endpoint[t.call] \in Endpoints
        BY <2>3 DEF LogsCall, CallsInv, TasksBelong
      <4>2. LogTypeOf(t.call) \in {e.type : e \in Endpoints}
        BY <4>1 DEF LogTypeOf, Endpoints, ChatCompletions
      <4>. QED  BY <1>3, <4>1, <4>2 DEF LogRow
    <3>2. DOMAIN logs' \subseteq DOMAIN logs \cup {row}
      BY <2>3 DEF CreateRequestLog, Insert, (+), SetToBag
    <3>. QED  BY <2>0, <2>3, <3>1, <3>2 DEF CreateRequestLog, TablesTypeOK, FutureIsEmpty
  <2>4. CASE RecordThirdPartyUsage(UserOf[t.call], Tokens(t.call))
    <3>. DEFINE row == [user |-> UserOf[t.call], tokens |-> Tokens(t.call), day |-> today]
    <3>1. row \in ThirdPartyRow
      BY <1>3, GatewayAssumption DEF CallsInv, TypeOK, Tokens, ThirdPartyRow
    <3>0. row.day = today
      OBVIOUS
    <3>2. /\ thirdParty' = Insert(thirdParty, row)
          /\ UNCHANGED <<daily, dailyKey, cycle, logs>>
      BY <2>4 DEF RecordThirdPartyUsage
    <3>. HIDE DEF row
    <3>3. \A other \in DOMAIN thirdParty : thirdParty[other] \in Nat
      BY <2>0 DEF TablesTypeOK
    <3>a. /\ DOMAIN thirdParty' = DOMAIN thirdParty \cup {row}
          /\ row \in DOMAIN thirdParty => thirdParty'[row] = thirdParty[row] + 1
          /\ row \notin DOMAIN thirdParty => thirdParty'[row] = 1
          /\ \A other \in DOMAIN thirdParty \ {row} : thirdParty'[other] = thirdParty[other]
      BY <3>2, <3>3, InsertRow
    <3>4. /\ DOMAIN thirdParty' = DOMAIN thirdParty \cup {row}
          /\ \A other \in DOMAIN thirdParty' : thirdParty'[other] \in Nat
      BY <3>3, <3>a
    <3>5. IsFiniteSet(DOMAIN thirdParty')
      BY <2>0, <3>4, FS_AddElement DEF TablesTypeOK
    <3>6. FutureIsEmpty'
      <4>1. today \in Nat
        BY <1>3, LedgerAssumption DEF Day
      <4>. QED  BY <2>0, <3>0, <3>2, <3>4, <4>1 DEF FutureIsEmpty
    <3>. QED  BY <2>0, <3>1, <3>2, <3>4, <3>5, <3>6 DEF TablesTypeOK
  <2>. QED  BY <1>0, <2>1, <2>2, <2>3, <2>4 DEF Dates, LogsCall, Meters
<1>. QED  BY <1>2, <1>5, <1>6, <1>7, <1>8, <1>9 DEF CallsInv

\* They hold at first,
LEMMA CallsInit == Init => CallsInv /\ SlotsCoverHandlers
<1>. SUFFICES ASSUME Init PROVE CallsInv /\ SlotsCoverHandlers
  OBVIOUS
<1>1. MaxConcurrency \in Nat /\ MaxFaults \in Nat /\ MaxDay \in Nat
  BY GatewayAssumption, LedgerAssumption
<1>2. TypeOK
  BY <1>1 DEF Init, TypeOK
<1>3. DOMAIN EmptyBag = {}
  BY DEF EmptyBag, SetToBag
<1>4. TablesTypeOK /\ FutureIsEmpty
  <2>1. today = FirstDay /\ today \in Day
    BY LedgerAssumption DEF Init, LedgerInit, Day
  <2>2. daily \in [User -> [Day -> Usage]] /\ dailyKey \in [Key -> [Day -> Usage]]
    BY PlusZero DEF Init, LedgerInit
  <2>3. \A u \in User, d \in Day : daily[u][d] = Zero
    BY DEF Init, LedgerInit
  <2>4. cycle \in [User -> Nat] /\ DOMAIN thirdParty = {} /\ DOMAIN logs = {}
    BY <1>3 DEF Init, LedgerInit
  <2>. QED  BY <2>1, <2>2, <2>3, <2>4, FS_EmptySet DEF TablesTypeOK, FutureIsEmpty
<1>5. CallsProgress /\ TasksBelong /\ TasksAreSingle
  BY DEF Init, CallsProgress, TasksBelong, TasksAreSingle, Over, PlatformPhases, ThirdPartyPhases
<1>6. SlotsCoverHandlers
  <2>1. \A u : Holders(u) = {}
    BY DEF Init, Holders, Holds
  <2>2. \A u \in User : slots[u] = 0
    BY DEF Init
  <2>. QED  BY <2>1, <2>2, FS_EmptySet DEF SlotsCoverHandlers
<1>. QED  BY <1>2, <1>4, <1>5, <1>6 DEF CallsInv

\* when the server stops,
LEMMA StopStep ==
  ASSUME CallsInv, SlotsCoverHandlers, Stop
  PROVE  CallsInv' /\ SlotsCoverHandlers' /\ faults' > 0
<1>0. faults' \in 0..MaxFaults /\ faults' > 0
  BY GatewayAssumption DEF CallsInv, TypeOK, Stop
<1>1. \A r \in Request : phase'[r] = IF phase[r] = "new" THEN "new" ELSE "done"
  BY DEF Stop
<1>2. TypeOK'
  BY <1>0 DEF CallsInv, TypeOK, Stop
<1>3. TablesTypeOK' /\ FutureIsEmpty'
  BY DEF CallsInv, TablesTypeOK, FutureIsEmpty, Stop, tables
<1>4. CallsProgress'
  BY <1>1 DEF CallsInv, CallsProgress, Over, Stop, PlatformPhases, ThirdPartyPhases
<1>5. TasksBelong' /\ TasksAreSingle'
  BY DEF TasksBelong, TasksAreSingle, Stop
<1>6. SlotsCoverHandlers'
  <2>1. \A u : Holders(u)' = {}
    BY <1>1 DEF Holders, Holds
  <2>2. \A u \in User : slots'[u] \in Nat
    <3>1. slots \in [User -> 0..MaxConcurrency] /\ MaxConcurrency \in Nat
      BY GatewayAssumption DEF CallsInv, TypeOK
    <3>2. slots' = slots
      BY DEF Stop
    <3>. QED  BY <3>1, <3>2
  <2>3. \A u \in User : Cardinality(Holders(u)') = 0
    BY <2>1, FS_EmptySet
  <2>4. faults' # 0
    BY <1>0
  <2>. QED  BY <2>2, <2>3, <2>4 DEF SlotsCoverHandlers
<1>. QED  BY <1>0, <1>2, <1>3, <1>4, <1>5, <1>6 DEF CallsInv

\* A day passes.
LEMMA MidnightStep ==
  ASSUME CallsInv, SlotsCoverHandlers, Midnight, Calm
  PROVE  CallsInv' /\ SlotsCoverHandlers'
<1>0. today \in Day /\ today' = today + 1 /\ today' \in Day
  BY LedgerAssumption DEF CallsInv, TablesTypeOK, Midnight, Day
<1>1. TypeOK'
  BY DEF CallsInv, TypeOK, Calm
<1>2. TablesTypeOK' /\ FutureIsEmpty'
  <2>1. TablesTypeOK'
    BY <1>0 DEF CallsInv, TablesTypeOK, Midnight, tables
  <2>2. /\ \A d \in Day : d > today' => d > today
        /\ \A d \in Day : d <= today => d <= today'
    BY <1>0, LedgerAssumption DEF Day
  <2>3. \A row \in DOMAIN thirdParty : row.day \in Day
    BY DEF CallsInv, TablesTypeOK, ThirdPartyRow
  <2>. QED  BY <2>1, <2>2, <2>3 DEF CallsInv, FutureIsEmpty, Midnight, tables
<1>3. CallsProgress'
  BY DEF CallsInv, CallsProgress, Over, Calm
<1>4. TasksBelong'
  <2>1. FirstDay..today \subseteq FirstDay..today'
    BY <1>0, LedgerAssumption DEF Day
  <2>. QED  BY <2>1 DEF CallsInv, TasksBelong, Over, Calm
<1>5. TasksAreSingle'
  BY DEF CallsInv, TasksAreSingle, Calm
<1>6. SlotsCoverHandlers'
  BY DEF SlotsCoverHandlers, Holders, Holds, Calm
<1>. QED  BY <1>1, <1>2, <1>3, <1>4, <1>5, <1>6 DEF CallsInv

\* When a user is deleted,
LEMMA DeleteStep ==
  ASSUME CallsInv, SlotsCoverHandlers, NEW u, DeleteUser(u), Calm
  PROVE  CallsInv' /\ SlotsCoverHandlers'
<1>1. TypeOK'
  BY DEF CallsInv, TypeOK, Calm
<1>2. TablesTypeOK' /\ FutureIsEmpty'
  BY DEF CallsInv, TablesTypeOK, FutureIsEmpty, DeleteUser
<1>3. CallsProgress'
  BY DEF CallsInv, CallsProgress, Over, Calm
<1>4. TasksBelong' /\ TasksAreSingle'
  BY DEF CallsInv, TasksBelong, TasksAreSingle, Over, Calm, DeleteUser
<1>5. SlotsCoverHandlers'
  BY DEF SlotsCoverHandlers, Holders, Holds, Calm
<1>. QED  BY <1>1, <1>2, <1>3, <1>4, <1>5 DEF CallsInv

\* What the cleaner leaves.
LEMMA KeptRows ==
  ASSUME NEW table, NEW left \in Kept(table)
  PROVE  /\ DOMAIN left \subseteq DOMAIN table
         /\ \A row \in DOMAIN left : left[row] = table[row]
         /\ \A row \in DOMAIN table \ DOMAIN left : row.day <= today - RetentionDays
<1>. DEFINE old == {row \in DOMAIN table : row.day <= today - RetentionDays}
<1>1. PICK gone \in SUBSET old : left = [row \in DOMAIN table \ gone |-> table[row]]
  BY Zenon DEF Kept
<1>. QED  BY <1>1

\* when the cleaner deletes,
LEMMA CleanupStep ==
  ASSUME CallsInv, SlotsCoverHandlers, cleanup, Calm
  PROVE  CallsInv' /\ SlotsCoverHandlers'
<1>1. TypeOK'
  BY DEF CallsInv, TypeOK, Calm
<1>2. TablesTypeOK' /\ FutureIsEmpty'
  <2>1. DOMAIN logs' \subseteq DOMAIN logs
    BY KeptRows DEF cleanup
  <2>2. UNCHANGED <<today, daily, dailyKey, cycle, thirdParty>>
    BY DEF cleanup
  <2>. QED  BY <2>1, <2>2 DEF CallsInv, TablesTypeOK, FutureIsEmpty
<1>3. CallsProgress'
  BY DEF CallsInv, CallsProgress, Over, Calm
<1>4. TasksBelong'
  BY DEF CallsInv, TasksBelong, Over, Calm, cleanup
<1>5. TasksAreSingle'
  BY DEF CallsInv, TasksAreSingle, Calm
<1>6. SlotsCoverHandlers'
  BY DEF SlotsCoverHandlers, Holders, Holds, Calm
<1>. QED  BY <1>1, <1>2, <1>3, <1>4, <1>5, <1>6 DEF CallsInv

\* and when nothing happens.
LEMMA CallsStutter ==
  ASSUME CallsInv, SlotsCoverHandlers, UNCHANGED vars
  PROVE  CallsInv' /\ SlotsCoverHandlers'
<1>. USE DEF vars, tables
<1>1. TypeOK' /\ TablesTypeOK' /\ FutureIsEmpty'
  BY DEF CallsInv, TypeOK, TablesTypeOK, FutureIsEmpty
<1>2. CallsProgress' /\ TasksBelong' /\ TasksAreSingle'
  BY DEF CallsInv, CallsProgress, TasksBelong, TasksAreSingle, Over
<1>3. SlotsCoverHandlers'
  BY DEF SlotsCoverHandlers, Holders, Holds
<1>. QED  BY <1>1, <1>2, <1>3 DEF CallsInv

-----------------------------------------------------------------------------
(***************************************************************************)
(* Logs                                                                    *)
(***************************************************************************)
\* The logs of a call, and that one is still to be written.
LogOf(r) == {row \in DOMAIN logs : row.call = r}
LogPending(r) == \E t \in tasks : t.call = r /\ t.kind \in LogKinds

\* A row is that of its call's answer, the only one, and no goroutine is to write another.
LogsBelong ==
  \A row \in DOMAIN logs :
    /\ logs[row] = 1
    /\ Over(row.call) /\ ~LogPending(row.call)
    /\ row.status = answer[row.call]
    /\ route[row.call] = "platform" => row.type = endpoint[row.call].type
    /\ \A other \in LogOf(row.call) : other = row

\* A call whose goroutine has ended has its log, unless the cleaner may have been there.
LogsAreComplete ==
  faults = 0 /\ today < FirstDay + RetentionDays =>
    \A r \in Request :
      /\ answer[r] = 200 \/ (answer[r] = 502 /\ route[r] = "platform")
      /\ ~LogPending(r)
      => LogOf(r) # {}

LogsInv == LogsBelong /\ LogsAreComplete

\* No log at first.
LEMMA LogsInit == Init => LogsInv
<1>. SUFFICES ASSUME Init PROVE LogsInv
  OBVIOUS
<1>1. DOMAIN logs = {}
  BY DEF Init, LedgerInit, EmptyBag, SetToBag
<1>2. \A r \in Request : answer[r] = None
  BY DEF Init
<1>. QED  BY <1>1, <1>2, NoneIsNoStatus DEF LogsInv, LogsBelong, LogsAreComplete

\* A handler's answer starts what will log it.
LEMMA LogsHandle ==
  ASSUME CallsInv, LogsInv, NEW r \in Request, Handle(r)
  PROVE  LogsInv'
<1>1. Effect(r)
  BY HandlerEffect
<1>2. UNCHANGED <<logs, faults, today>>
  BY <1>1 DEF Effect, OnlyCall, tables
<1>3. \A q : LogOf(q)' = LogOf(q)
  BY <1>2 DEF LogOf
<1>4. ASSUME NEW q \in Request, Over(q)
      PROVE  /\ Over(q)' /\ answer'[q] = answer[q] /\ route'[q] = route[q]
             /\ endpoint'[q] = endpoint[q] /\ (LogPending(q)' <=> LogPending(q))
  <2>1. CASE q # r
    <3>1. \A t \in Started(r) : t.call = r
      BY DEF Started, Task
    <3>2. \A t : t.call = q => (t \in tasks' <=> t \in tasks)
      BY <1>1, <2>1, <3>1 DEF Effect, Moves, Answers, Leaves
    <3>. QED  BY <1>1, <1>4, <2>1, <3>2 DEF Effect, OnlyCall, Over, LogPending
  <2>2. CASE q = r
    BY <1>1, <1>4, <2>2 DEF Effect, Moves, Answers, Leaves, Over, LogPending
  <2>. QED  BY <2>1, <2>2
<1>5. DOMAIN logs \subseteq LogRow /\ \A row \in DOMAIN logs : row.call \in Request
  BY DEF CallsInv, TablesTypeOK, LogRow
<1>6. LogsBelong'
  BY <1>2, <1>3, <1>4, <1>5 DEF LogsInv, LogsBelong
<1>7. LogsAreComplete'
  <2>1. ASSUME faults' = 0, today' < FirstDay + RetentionDays, NEW q \in Request,
               answer'[q] = 200 \/ (answer'[q] = 502 /\ route'[q] = "platform"),
               ~LogPending(q)'
        PROVE  LogOf(q)' # {}
    <3>1. CASE Over(q)
      BY <1>2, <1>3, <1>4, <2>1, <3>1 DEF LogsInv, LogsAreComplete
    <3>2. CASE ~Over(q)
      <4>1. answer[q] = None
        BY <3>2 DEF CallsInv, CallsProgress
      <4>2. q = r
        BY <1>1, <2>1, <4>1, NoneIsNoStatus DEF Effect, OnlyCall
      <4>3. Answers(r)
        BY <1>1, <2>1, <3>2, <4>1, <4>2, NoneIsNoStatus DEF Effect, Moves, Leaves, Over
      <4>4. tasks' = tasks \cup Started(r)
        BY <2>1, <4>2, <4>3 DEF Answers
      <4>5. \E t \in Started(r) : t.call = r /\ t.kind \in LogKinds
        <5>1. /\ answer'[r] = 200 => route'[r] \in {"platform", "third_party"}
              /\ answer'[r] = 200 \/ answer'[r] = 502
          BY <2>1, <4>2, <4>3 DEF Answers
        <5>2. \/ Task(r, "RecordRequestLog") \in Started(r) \/ Task(r, "Metrics") \in Started(r)
          BY <5>1 DEF Started
        <5>3. \A kind \in LogKinds : Task(r, kind).call = r /\ Task(r, kind).kind \in LogKinds
          BY DEF Task
        <5>4. "RecordRequestLog" \in LogKinds /\ "Metrics" \in LogKinds
          BY DEF LogKinds
        <5>. QED  BY <5>2, <5>3, <5>4
      <4>. QED  BY <2>1, <4>2, <4>4, <4>5 DEF LogPending
    <3>. QED  BY <3>1, <3>2
  <2>. QED  BY <2>1 DEF LogsAreComplete
<1>. QED  BY <1>6, <1>7 DEF LogsInv

\* A goroutine writes its call's one log.
LEMMA LogsRecord ==
  ASSUME CallsInv, LogsInv, NEW t \in tasks, Record(t)
  PROVE  LogsInv'
<1>0. OnlyTasks /\ (Dates(t) \/ Accounts(t) \/ LogsCall(t) \/ Meters(t))
  BY RecordEffect
<1>1. faults \in Nat /\ faults' \in Nat /\ (faults' = 0 => faults = 0)
  BY <1>0, GatewayAssumption DEF CallsInv, TypeOK, OnlyTasks
<1>2. t.call \in Request /\ today' = today
  BY <1>0 DEF CallsInv, TypeOK, OnlyTasks
<1>3. \A q : Over(q)' <=> Over(q)
  BY <1>0 DEF OnlyTasks, Over
<1>4. CASE Dates(t) \/ Accounts(t) \/ Meters(t)
  <2>1. UNCHANGED logs
    BY <1>4 DEF Dates, Accounts, Meters, tables, RecordThirdPartyUsage
  <2>2. \A q : LogOf(q)' = LogOf(q)
    BY <2>1 DEF LogOf
  <2>3. ASSUME NEW q PROVE LogPending(q)' <=> LogPending(q)
    <3>1. CASE Dates(t)
      BY <3>1 DEF Dates, WritesTask, LogPending, LogKinds
    <3>2. CASE Accounts(t)
      BY <3>2 DEF Accounts, LogPending, LogKinds
    <3>3. CASE Meters(t)
      <4>1. tasks' = (tasks \ {t}) \cup {Task(t.call, "MetricsLog")} /\ t.kind = "Metrics"
        BY <3>3 DEF Meters
      <4>2. LogPending(t.call)' /\ LogPending(t.call)
        <5>1. PICK s \in tasks' : s = Task(t.call, "MetricsLog")
          BY <4>1
        <5>2. s.call = t.call /\ s.kind \in LogKinds /\ t.kind \in LogKinds
          BY <4>1, <5>1 DEF Task, LogKinds
        <5>. QED  BY <5>2 DEF LogPending
      <4>3. q # t.call => (LogPending(q)' <=> LogPending(q))
        BY <4>1 DEF LogPending, Task
      <4>. QED  BY <4>2, <4>3
    <3>. QED  BY <1>4, <3>1, <3>2, <3>3
  <2>. QED  BY <1>0, <1>1, <1>3, <2>1, <2>2, <2>3
            DEF OnlyTasks, LogsInv, LogsBelong, LogsAreComplete
<1>5. CASE LogsCall(t)
  <2>. DEFINE r == t.call
  <2>1. LogPending(r)
    BY <1>5 DEF LogsCall, LogPending, LogKinds
  <2>2. LogOf(r) = {}
    BY <2>1 DEF LogsInv, LogsBelong, LogOf
  <2>3. ~LogPending(r)' /\ \A q : LogPending(q)' => LogPending(q)
    BY <1>5 DEF LogsCall, LogPending, LogKinds, CallsInv, TasksAreSingle
  <2>4. \A q : q # r => (LogPending(q)' <=> LogPending(q))
    BY <1>5 DEF LogsCall, LogPending
  <2>5. CASE UNCHANGED tables /\ faults' > 0
    <3>1. UNCHANGED logs /\ \A q : LogOf(q)' = LogOf(q)
      BY <2>5 DEF tables, LogOf
    <3>. QED  BY <1>0, <1>1, <1>3, <2>3, <2>5, <3>1
              DEF OnlyTasks, LogsInv, LogsBelong, LogsAreComplete
  <2>6. CASE CreateRequestLog(r, LogTypeOf(r), answer[r])
    <3>0. PICK row : row = [call |-> r, type |-> LogTypeOf(r), status |-> answer[r],
                            day |-> today]
      OBVIOUS
    <3>1. logs' = Insert(logs, row) /\ row \notin DOMAIN logs /\ row.call = r
      BY <2>2, <2>6, <3>0 DEF CreateRequestLog, LogOf
    <3>2. Over(r) /\ row.status = answer[r]
          /\ (route[r] = "platform" => row.type = endpoint[r].type)
      BY <3>0 DEF CallsInv, TasksBelong, LogTypeOf
    <3>. HIDE DEF r
    <3>3. /\ DOMAIN logs' = DOMAIN logs \cup {row}
          /\ logs'[row] = 1 /\ \A other \in DOMAIN logs : logs'[other] = logs[other]
      <4>1. \A other \in DOMAIN logs : logs[other] \in Nat
        BY DEF LogsInv, LogsBelong
      <4>2. /\ DOMAIN Insert(logs, row) = DOMAIN logs \cup {row}
            /\ row \notin DOMAIN logs => Insert(logs, row)[row] = 1
            /\ \A other \in DOMAIN logs \ {row} : Insert(logs, row)[other] = logs[other]
        BY <4>1, InsertRow
      <4>. QED  BY <3>1, <4>2
    <3>4. LogOf(r)' = {row} /\ \A q : q # r => LogOf(q)' = LogOf(q)
      BY <2>2, <3>1, <3>3 DEF LogOf
    <3>5. LogsBelong'
      <4>1. ASSUME NEW other \in DOMAIN logs, other.call # r
            PROVE  /\ logs'[other] = 1 /\ Over(other.call)' /\ ~LogPending(other.call)'
                   /\ other.status = answer'[other.call]
                   /\ route'[other.call] = "platform" =>
                        other.type = endpoint'[other.call].type
                   /\ \A third \in LogOf(other.call)' : third = other
        BY <1>0, <1>3, <2>4, <3>3, <3>4, <4>1 DEF OnlyTasks, LogsInv, LogsBelong
      <4>2. \A other \in DOMAIN logs : other.call # r
        BY <2>2 DEF LogOf
      <4>3. /\ logs'[row] = 1 /\ Over(row.call)' /\ ~LogPending(row.call)'
            /\ row.status = answer'[row.call]
            /\ route'[row.call] = "platform" => row.type = endpoint'[row.call].type
            /\ \A third \in LogOf(row.call)' : third = row
        BY <1>0, <1>3, <2>3, <3>1, <3>2, <3>3, <3>4 DEF OnlyTasks
      <4>. QED  BY <3>3, <4>1, <4>2, <4>3 DEF LogsBelong
    <3>6. LogsAreComplete'
      BY <1>0, <1>1, <2>4, <3>4 DEF OnlyTasks, LogsInv, LogsAreComplete
    <3>. QED  BY <3>5, <3>6 DEF LogsInv
  <2>. QED  BY <1>5, <2>5, <2>6 DEF LogsCall
<1>. QED  BY <1>0, <1>4, <1>5

\* What a stop loses is a fault.
LEMMA LogsStop ==
  ASSUME CallsInv, SlotsCoverHandlers, LogsInv, Stop
  PROVE  LogsInv'
<1>1. faults' > 0 /\ faults' \in Nat
  BY StopStep, GatewayAssumption DEF CallsInv, TypeOK, Stop
<1>2. UNCHANGED <<logs, answer, route, endpoint>> /\ tasks' = {}
  BY DEF Stop, tables
<1>3. ASSUME NEW r \in Request, Over(r) PROVE Over(r)'
  BY <1>3 DEF Stop, Over
<1>4. \A q : LogOf(q)' = LogOf(q) /\ ~LogPending(q)'
  BY <1>2 DEF LogOf, LogPending
<1>5. \A row \in DOMAIN logs : row.call \in Request
  BY DEF CallsInv, TablesTypeOK, LogRow
<1>6. LogsBelong'
  BY <1>2, <1>3, <1>4, <1>5 DEF LogsInv, LogsBelong
<1>. QED  BY <1>1, <1>6 DEF LogsInv, LogsAreComplete

\* Midnight changes no log.
LEMMA LogsMidnight ==
  ASSUME CallsInv, LogsInv, Midnight, Calm
  PROVE  LogsInv'
<1>1. today \in Nat /\ today' = today + 1 /\ RetentionDays \in Nat /\ FirstDay \in Nat
  BY LedgerAssumption DEF CallsInv, TablesTypeOK, Midnight, Day
<1>2. UNCHANGED <<logs, answer, route, endpoint, phase, tasks, faults>>
  BY DEF Midnight, Calm, tables
<1>. QED
  BY <1>1, <1>2 DEF LogsInv, LogsBelong, LogsAreComplete, LogOf, LogPending, Over

\* A deletion changes no log.
LEMMA LogsDelete ==
  ASSUME LogsInv, NEW u, DeleteUser(u), Calm
  PROVE  LogsInv'
BY DEF LogsInv, LogsBelong, LogsAreComplete, LogOf, LogPending, Over, DeleteUser, Calm

\* The cleaner deletes old logs only.
LEMMA LogsCleanup ==
  ASSUME CallsInv, LogsInv, cleanup, Calm
  PROVE  LogsInv'
<1>1. UNCHANGED <<today, answer, route, endpoint, phase, tasks, faults>>
  BY DEF cleanup, Calm
<1>2. /\ DOMAIN logs' \subseteq DOMAIN logs
      /\ \A row \in DOMAIN logs' : logs'[row] = logs[row]
      /\ \A row \in DOMAIN logs \ DOMAIN logs' : row.day <= today - RetentionDays
  BY KeptRows DEF cleanup
<1>3. LogsBelong'
  BY <1>1, <1>2 DEF LogsInv, LogsBelong, LogOf, LogPending, Over
<1>4. ASSUME today < FirstDay + RetentionDays PROVE DOMAIN logs' = DOMAIN logs
  <2>1. /\ today \in Nat /\ RetentionDays \in Nat /\ FirstDay \in Nat
        /\ \A row \in DOMAIN logs : row.day \in Nat /\ row.day >= FirstDay
    BY LedgerAssumption DEF CallsInv, TablesTypeOK, LogRow, Day
  <2>. QED  BY <1>2, <1>4, <2>1
<1>5. LogsAreComplete'
  BY <1>1, <1>4 DEF LogsInv, LogsAreComplete, LogOf, LogPending
<1>. QED  BY <1>3, <1>5 DEF LogsInv

\* Nothing, no log.
LEMMA LogsStutter ==
  ASSUME LogsInv, UNCHANGED vars
  PROVE  LogsInv'
BY DEF LogsInv, LogsBelong, LogsAreComplete, LogOf, LogPending, Over, vars, tables

-----------------------------------------------------------------------------
(***************************************************************************)
(* Accounts                                                                *)
(***************************************************************************)

\* The calls that are to be found in the accounts of the platform's usage and of a third
\* party's: those whose goroutine has done its writes.
Accounted(r) ==
  /\ route[r] = "platform" /\ answer[r] = 200 /\ used[r] # None
  /\ ~ \E t \in tasks : t.call = r /\ t.kind \in UsageKinds
Metered(r) ==
  /\ route[r] = "third_party" /\ answer[r] = 200
  /\ ~ \E t \in tasks : t.call = r /\ t.kind = "Metrics"

\* Those of a user, and its third-party rows.
AccountedOf(u) == {r \in Request : UserOf[r] = u /\ Accounted(r)}
MeteredOf(u)   == {r \in Request : UserOf[r] = u /\ Metered(r)}
RowsOf(u)      == {row \in DOMAIN thirdParty : row.user = u}

\* An account never shows more than the calls that were recorded in it and, unless a write
\* was lost, as much.
Balanced(account, total, exact) == AtMost(account, total) /\ (exact => account = total)

\* The summaries of days and of the key, the quota count and the rows.
LedgerBalanced ==
  \A u \in User :
    /\ Balanced(SumOf(daily[u], Day), SumOf(CallUsage, AccountedOf(u)), faults = 0)
    /\ Balanced(SumOf(dailyKey[KeyOf[u]], Day), SumOf(CallUsage, AccountedOf(u)), faults = 0)
    /\ cycle[u] <= SumOf(CallUsage, AccountedOf(u)).tokens
    /\ Balanced(SumOf(RowTotal, RowsOf(u)), SumOf(CallUsage, MeteredOf(u)), faults = 0)

\* The sums are sums of usages.
LEMMA CallUsageType ==
  ASSUME CallsInv
  PROVE  /\ \A r \in Request : CallUsage[r] \in Usage
         /\ \A S \in SUBSET Request : IsFiniteSet(S) /\ SumOf(CallUsage, S) \in Usage
<1>1. ASSUME NEW r \in Request PROVE CallUsage[r] \in Usage
  <2>1. Tokens(r) \in Nat
    BY GatewayAssumption DEF CallsInv, TypeOK, Tokens
  <2>. QED  BY <2>1 DEF CallUsage, Usage
<1>2. ASSUME NEW S \in SUBSET Request PROVE IsFiniteSet(S) /\ SumOf(CallUsage, S) \in Usage
  <2>1. IsFiniteSet(S)
    BY GatewayAssumption, FS_Subset
  <2>. HIDE DEF CallUsage
  <2>2. \A r \in S : CallUsage[r] \in Usage
    BY <1>1
  <2>. QED  BY <2>1, <2>2, SumType
<1>. QED  BY <1>1, <1>2

\* The days are finitely many.
LEMMA DayIsFinite == IsFiniteSet(Day)
BY LedgerAssumption, FS_Interval DEF Day

\* The rows of third-party usage add up.
LEMMA RowTotalType ==
  ASSUME TablesTypeOK
  PROVE  /\ \A row \in DOMAIN thirdParty : RowTotal[row] \in Usage
         /\ \A S \in SUBSET DOMAIN thirdParty : IsFiniteSet(S) /\ SumOf(RowTotal, S) \in Usage
<1>1. ASSUME NEW row \in DOMAIN thirdParty PROVE RowTotal[row] \in Usage
  <2>1. thirdParty[row] \in Nat /\ row.tokens \in Nat
    BY DEF TablesTypeOK, ThirdPartyRow
  <2>2. thirdParty[row] * row.tokens \in Nat
    BY <2>1
  <2>. QED  BY <2>1, <2>2 DEF RowTotal, Usage
<1>2. ASSUME NEW S \in SUBSET DOMAIN thirdParty
      PROVE  IsFiniteSet(S) /\ SumOf(RowTotal, S) \in Usage
  <2>1. IsFiniteSet(S)
    BY FS_Subset DEF TablesTypeOK
  <2>. HIDE DEF RowTotal
  <2>2. \A row \in S : RowTotal[row] \in Usage
    BY <1>1
  <2>. QED  BY <2>1, <2>2, SumType
<1>. QED  BY <1>1, <1>2

\* The summaries of a user and of a key add up.
LEMMA SummaryType ==
  ASSUME TablesTypeOK
  PROVE  /\ \A u \in User : SumOf(daily[u], Day) \in Usage
         /\ \A k \in Key : SumOf(dailyKey[k], Day) \in Usage
<1>1. ASSUME NEW u \in User PROVE SumOf(daily[u], Day) \in Usage
  <2>1. \A d \in Day : daily[u][d] \in Usage
    BY DEF TablesTypeOK
  <2>. QED  BY <2>1, DayIsFinite, SumType
<1>2. ASSUME NEW k \in Key PROVE SumOf(dailyKey[k], Day) \in Usage
  <2>1. \A d \in Day : dailyKey[k][d] \in Usage
    BY DEF TablesTypeOK
  <2>. QED  BY <2>1, DayIsFinite, SumType
<1>. QED  BY <1>1, <1>2

\* A total that grows while the account does, or does not and the write is lost.
LEMMA TotalGrows ==
  \A a, s, n \in Usage :
    /\ AtMost(a, s) => AtMost(a, Plus(n, s)) /\ AtMost(Plus(a, n), Plus(n, s))
    /\ a = s => Plus(a, n) = Plus(n, s)
BY DEF Usage, AtMost, Plus

\* Empty accounts of no calls.
LEMMA LedgerStart == Init => LedgerBalanced
<1>. SUFFICES ASSUME Init, NEW u \in User
     PROVE  /\ Balanced(SumOf(daily[u], Day), SumOf(CallUsage, AccountedOf(u)), faults = 0)
            /\ Balanced(SumOf(dailyKey[KeyOf[u]], Day), SumOf(CallUsage, AccountedOf(u)), faults = 0)
            /\ cycle[u] <= SumOf(CallUsage, AccountedOf(u)).tokens
            /\ Balanced(SumOf(RowTotal, RowsOf(u)), SumOf(CallUsage, MeteredOf(u)), faults = 0)
  BY DEF LedgerBalanced
<1>1. AccountedOf(u) = {} /\ MeteredOf(u) = {}
  BY NoneIsNoStatus DEF Init, AccountedOf, MeteredOf, Accounted, Metered
<1>2. RowsOf(u) = {}
  BY DEF Init, LedgerInit, RowsOf, EmptyBag, SetToBag
<1>3. SumOf(CallUsage, {}) = Zero /\ SumOf(RowTotal, {}) = Zero
  BY SumEmpty
<1>4. \A d \in Day : daily[u][d] = Zero /\ dailyKey[KeyOf[u]][d] = Zero
  BY DEF Init, LedgerInit, Key
<1>5. ASSUME NEW f, \A d \in Day : f[d] = Zero PROVE SumOf(f, Day) = Zero
  <2>1. SumOf(f, {}) = SumOf(f, Day)
    <3>1. (\A d \in Day : f[d] \in Usage) /\ (\A d \in Day \ {} : f[d] = Zero)
      BY <1>5, PlusZero
    <3>. QED  BY <3>1, DayIsFinite, SumSubset
  <2>. QED  BY <2>1, SumEmpty
<1>6. SumOf(daily[u], Day) = Zero /\ SumOf(dailyKey[KeyOf[u]], Day) = Zero
  BY <1>4, <1>5
<1>7. cycle[u] = 0 /\ Zero.tokens = 0 /\ AtMost(Zero, Zero)
  BY DEF Init, LedgerInit, Zero, AtMost
<1>. QED  BY <1>1, <1>2, <1>3, <1>6, <1>7 DEF Balanced

\* Nothing is written, and no call becomes recorded unless its writes were lost.
LEMMA LedgerKept ==
  ASSUME CallsInv, CallsInv', LedgerBalanced,
         UNCHANGED <<daily, dailyKey, cycle, thirdParty>>,
         faults' = 0 => faults = 0,
         \A r \in Request :
           /\ Accounted(r) => Accounted(r)' /\ CallUsage'[r] = CallUsage[r]
           /\ Metered(r) => Metered(r)' /\ CallUsage'[r] = CallUsage[r]
           /\ faults' = 0 => (Accounted(r)' => Accounted(r)) /\ (Metered(r)' => Metered(r))
  PROVE  LedgerBalanced'
<1>1. RowTotal' = RowTotal /\ \A u : RowsOf(u)' = RowsOf(u)
  BY DEF RowTotal, RowsOf
<1>2. ASSUME NEW S \in SUBSET Request, NEW T \in SUBSET S,
             \A r \in T : CallUsage'[r] = CallUsage[r]
      PROVE  /\ SumOf(CallUsage, T) \in Usage /\ SumOf(CallUsage', S) \in Usage
             /\ AtMost(SumOf(CallUsage, T), SumOf(CallUsage', S))
             /\ S = T => SumOf(CallUsage, T) = SumOf(CallUsage', S)
  <2>1. \A r \in S : CallUsage'[r] \in Usage
    <3>1. ASSUME NEW r \in Request PROVE CallUsage'[r] \in Usage
      <4>1. used'[r] \in Usages \cup {None}
        BY DEF CallsInv, TypeOK
      <4>2. Tokens(r)' \in Nat
        BY <4>1, GatewayAssumption DEF Tokens
      <4>. QED  BY <4>2 DEF CallUsage, Usage
    <3>. QED  BY <3>1
  <2>2. IsFiniteSet(S) /\ IsFiniteSet(T)
    BY CallUsageType
  <2>3. \A r \in T : CallUsage[r] = CallUsage'[r]
    BY <1>2
  <2>. HIDE DEF CallUsage
  <2>4. SumOf(CallUsage, T) = SumOf(CallUsage', T)
    BY <2>2, <2>3, SumSame
  <2>5. AtMost(SumOf(CallUsage', T), SumOf(CallUsage', S))
    BY <2>1, <2>2, SumSubset
  <2>6. SumOf(CallUsage', S) \in Usage
    BY <2>1, <2>2, SumType
  <2>7. SumOf(CallUsage, T) \in Usage
    BY CallUsageType
  <2>. QED  BY <2>4, <2>5, <2>6, <2>7
<1>. SUFFICES ASSUME NEW u \in User
     PROVE  /\ Balanced(SumOf(daily[u], Day), SumOf(CallUsage, AccountedOf(u)), faults = 0)'
            /\ Balanced(SumOf(dailyKey[KeyOf[u]], Day), SumOf(CallUsage, AccountedOf(u)), faults = 0)'
            /\ cycle'[u] <= SumOf(CallUsage, AccountedOf(u))'.tokens
            /\ Balanced(SumOf(RowTotal, RowsOf(u)), SumOf(CallUsage, MeteredOf(u)), faults = 0)'
  BY DEF LedgerBalanced
<1>. DEFINE A == AccountedOf(u)
            M == MeteredOf(u)
            a == SumOf(CallUsage, A)
            m == SumOf(CallUsage, M)
<1>3. /\ A \in SUBSET A' /\ A' \in SUBSET Request /\ M \in SUBSET M' /\ M' \in SUBSET Request
      /\ faults' = 0 => A' = A /\ M' = M
      /\ \A r \in A : CallUsage'[r] = CallUsage[r]
      /\ \A r \in M : CallUsage'[r] = CallUsage[r]
  BY DEF AccountedOf, MeteredOf
<1>4. /\ AtMost(a, a') /\ AtMost(m, m') /\ a \in Usage /\ m \in Usage /\ a' \in Usage /\ m' \in Usage
      /\ faults' = 0 => a' = a /\ m' = m
  <2>1. a \in Usage /\ a' \in Usage /\ AtMost(a, a') /\ (A' = A => a = a')
    BY <1>2, <1>3
  <2>2. m \in Usage /\ m' \in Usage /\ AtMost(m, m') /\ (M' = M => m = m')
    BY <1>2, <1>3
  <2>. QED  BY <1>3, <2>1, <2>2
<1>5. TablesTypeOK /\ UserOf \in [Request -> User] /\ KeyOf[u] \in Key /\ cycle[u] \in Nat
  BY GatewayAssumption DEF CallsInv, TablesTypeOK, Key
<1>6. ASSUME NEW x \in Usage, Balanced(x, a, faults = 0) PROVE Balanced(x, a', faults' = 0)
  BY <1>4, <1>6, AtMostTransitive DEF Balanced
<1>7. ASSUME NEW x \in Usage, Balanced(x, m, faults = 0) PROVE Balanced(x, m', faults' = 0)
  BY <1>4, <1>7, AtMostTransitive DEF Balanced
<1>8. /\ Balanced(SumOf(daily[u], Day), a, faults = 0)
      /\ Balanced(SumOf(dailyKey[KeyOf[u]], Day), a, faults = 0)
      /\ Balanced(SumOf(RowTotal, RowsOf(u)), m, faults = 0)
      /\ cycle[u] <= a.tokens
  BY DEF LedgerBalanced
<1>9. /\ SumOf(daily[u], Day) \in Usage /\ SumOf(dailyKey[KeyOf[u]], Day) \in Usage
      /\ SumOf(RowTotal, RowsOf(u)) \in Usage
  <2>1. RowsOf(u) \in SUBSET DOMAIN thirdParty
    BY DEF RowsOf
  <2>. QED  BY <1>5, <2>1, RowTotalType, SummaryType
<1>10. /\ Balanced(SumOf(daily[u], Day), a', faults' = 0)
       /\ Balanced(SumOf(dailyKey[KeyOf[u]], Day), a', faults' = 0)
       /\ Balanced(SumOf(RowTotal, RowsOf(u)), m', faults' = 0)
  BY <1>6, <1>7, <1>8, <1>9
<1>11. cycle'[u] <= a'.tokens
  <2>1. a.tokens \in Nat /\ a'.tokens \in Nat /\ a.tokens <= a'.tokens
    BY <1>4 DEF Usage, AtMost
  <2>. QED  BY <1>4, <1>5, <1>8, <2>1
<1>. QED  BY <1>1, <1>10, <1>11

\* A handler's step accounts for nothing.
LEMMA LedgerHandle ==
  ASSUME CallsInv, CallsInv', LedgerBalanced, NEW r \in Request, Handle(r)
  PROVE  LedgerBalanced'
<1>1. Effect(r)
  BY HandlerEffect
<1>2. UNCHANGED <<daily, dailyKey, cycle, thirdParty, faults>>
  BY <1>1 DEF Effect, OnlyCall, tables
<1>3. ASSUME NEW q \in Request, Over(q)
      PROVE  /\ Accounted(q)' <=> Accounted(q)
             /\ Metered(q)' <=> Metered(q)
             /\ CallUsage'[q] = CallUsage[q]
  <2>1. CASE q # r
    <3>1. \A t \in Started(r) : t.call = r
      BY DEF Started, Task
    <3>2. \A t : t.call = q => (t \in tasks' <=> t \in tasks)
      BY <1>1, <2>1, <3>1 DEF Effect, Moves, Answers, Leaves
    <3>3. answer'[q] = answer[q] /\ route'[q] = route[q] /\ used'[q] = used[q]
      BY <1>1, <2>1 DEF Effect, OnlyCall
    <3>4. CallUsage'[q] = CallUsage[q]
      BY <3>3 DEF CallUsage, Tokens
    <3>5. Accounted(q)' <=> Accounted(q)
      BY <3>2, <3>3 DEF Accounted
    <3>6. Metered(q)' <=> Metered(q)
      BY <3>2, <3>3 DEF Metered
    <3>. QED  BY <3>4, <3>5, <3>6
  <2>2. CASE q = r
    <3>1. UNCHANGED <<route, answer, used, tasks>>
      BY <1>1, <1>3, <2>2 DEF Effect, Moves, Answers, Leaves
    <3>. QED  BY <3>1 DEF Accounted, Metered, CallUsage, Tokens
  <2>. QED  BY <2>1, <2>2
<1>4. ASSUME NEW q \in Request, ~Over(q)
      PROVE  ~Accounted(q) /\ ~Metered(q) /\ ~Accounted(q)' /\ ~Metered(q)'
  <2>1. answer[q] = None /\ None # 200
    BY <1>4, NoneIsNoStatus DEF CallsInv, CallsProgress
  <2>2. CASE answer'[q] = 200
    <3>1. q = r /\ Answers(r) /\ tasks' = tasks \cup Started(r)
      BY <1>1, <1>4, <2>1, <2>2 DEF Effect, OnlyCall, Moves, Answers, Leaves, Over
    <3>2. CASE route'[q] = "platform"
      <4>1. PICK t \in tasks' : t = Task(q, "RecordUsage")
        BY <2>2, <3>1, <3>2 DEF Started
      <4>2. t.call = q /\ t.kind \in UsageKinds
        BY <4>1 DEF Task, UsageKinds
      <4>. QED  BY <2>1, <3>2, <4>2 DEF Accounted, Metered
    <3>3. CASE route'[q] = "third_party"
      <4>1. PICK t \in tasks' : t = Task(q, "Metrics")
        BY <2>2, <3>1, <3>3 DEF Started
      <4>2. t.call = q /\ t.kind = "Metrics"
        BY <4>1 DEF Task
      <4>. QED  BY <2>1, <3>3, <4>2 DEF Accounted, Metered
    <3>. QED  BY <2>2, <3>1, <3>2, <3>3 DEF Answers
  <2>3. CASE answer'[q] # 200
    BY <2>1, <2>3 DEF Accounted, Metered
  <2>. QED  BY <2>2, <2>3
<1>. HIDE DEF CallUsage
<1>5. \A q \in Request :
           /\ Accounted(q) => Accounted(q)' /\ CallUsage'[q] = CallUsage[q]
           /\ Metered(q) => Metered(q)' /\ CallUsage'[q] = CallUsage[q]
           /\ faults' = 0 => (Accounted(q)' => Accounted(q)) /\ (Metered(q)' => Metered(q))
  BY <1>3, <1>4
<1>. QED  BY <1>2, <1>5, LedgerKept

\* A stop loses writes, and is a fault.
LEMMA LedgerStop ==
  ASSUME CallsInv, CallsInv', LedgerBalanced, Stop, faults' > 0
  PROVE  LedgerBalanced'
<1>1. UNCHANGED <<daily, dailyKey, cycle, thirdParty, route, answer, used>> /\ tasks' = {}
  BY DEF Stop, tables
<1>2. faults' # 0
  BY DEF CallsInv, TypeOK
<1>3. \A q : /\ Accounted(q) => Accounted(q)'
             /\ Metered(q) => Metered(q)'
             /\ CallUsage' = CallUsage
  BY <1>1 DEF Accounted, Metered, CallUsage, Tokens
<1>. QED  BY <1>1, <1>2, <1>3, LedgerKept

\* Steps that touch no account and no call.
LEMMA LedgerCalm ==
  ASSUME CallsInv, CallsInv', LedgerBalanced,
         UNCHANGED <<daily, dailyKey, cycle, thirdParty, route, answer, used, tasks, faults>>
  PROVE  LedgerBalanced'
<1>1. \A q : /\ Accounted(q) <=> Accounted(q)'
             /\ Metered(q) <=> Metered(q)'
             /\ CallUsage' = CallUsage
  BY DEF Accounted, Metered, CallUsage, Tokens
<1>. QED  BY <1>1, LedgerKept

\* The writes of a platform call: one more call is accounted, and each of the accounts has
\* grown by it or a write was lost.
LEMMA LedgerAccounts ==
  ASSUME CallsInv, CallsInv', LedgerBalanced, NEW t \in tasks, Accounts(t), OnlyTasks,
         faults' = 0 => faults = 0
  PROVE  LedgerBalanced'
<1>. DEFINE r == t.call
            u == UserOf[r]
            n == used[r]
            one == [tokens |-> n, requests |-> 1]
<1>1. /\ r \in Request /\ u \in User /\ KeyOf[u] \in Key /\ TablesTypeOK
      /\ t.kind = "Writes" /\ t.day \in Day /\ n # None
      /\ route[r] = "platform" /\ answer[r] = 200
  <2>1. r \in Request /\ u \in User /\ TablesTypeOK /\ t.kind = "Writes"
    BY GatewayAssumption DEF CallsInv, TypeOK, Accounts
  <2>2. t.day \in FirstDay..today /\ n # None /\ route[r] = "platform" /\ answer[r] = 200
    BY <2>1 DEF CallsInv, TasksBelong, UsageKinds
  <2>3. t.day \in Day
    BY <2>1, <2>2, LedgerAssumption DEF TablesTypeOK, Day
  <2>. QED  BY <2>1, <2>2, <2>3 DEF Key
<1>2. n \in Nat /\ one \in Usage /\ CallUsage[r] = one
  <2>1. n \in Nat
    <3>1. n \in Usages \cup {None}
      BY <1>1 DEF CallsInv, TypeOK
    <3>. QED  BY <1>1, <3>1, GatewayAssumption
  <2>. QED  BY <1>1, <2>1 DEF CallUsage, Tokens, Usage
<1>3. CallUsage' = CallUsage /\ UNCHANGED <<route, answer, used>>
  BY DEF OnlyTasks, CallUsage, Tokens
<1>4. tasks' = tasks \ {t}
  BY DEF Accounts
<1>5. ~Accounted(r) /\ Accounted(r)'
  <2>1. ~Accounted(r)
    BY <1>1 DEF Accounted, UsageKinds
  <2>2. \A s \in tasks' : ~(s.call = r /\ s.kind \in UsageKinds)
    BY <1>1, <1>4 DEF CallsInv, TasksAreSingle, UsageKinds
  <2>. QED  BY <1>1, <1>3, <2>1, <2>2 DEF Accounted
<1>6. \A q \in Request : /\ q # r => (Accounted(q) <=> Accounted(q)')
                         /\ Metered(q) <=> Metered(q)'
  BY <1>1, <1>3, <1>4 DEF Accounted, Metered
<1>7. /\ AccountedOf(u)' = AccountedOf(u) \cup {r} /\ r \notin AccountedOf(u)
      /\ \A v \in User \ {u} : AccountedOf(v)' = AccountedOf(v)
      /\ \A v \in User : MeteredOf(v)' = MeteredOf(v)
  BY <1>1, <1>5, <1>6 DEF AccountedOf, MeteredOf
<1>8. RowTotal' = RowTotal /\ \A v : RowsOf(v)' = RowsOf(v)
  BY DEF Accounts, RowTotal, RowsOf
<1>. HIDE DEF CallUsage, one
<1>9. /\ \A v \in User : AccountedOf(v) \in SUBSET Request /\ SumOf(CallUsage, AccountedOf(v)) \in Usage
      /\ SumOf(CallUsage, AccountedOf(u) \cup {r}) = Plus(one, SumOf(CallUsage, AccountedOf(u)))
  <2>1. \A v \in User : AccountedOf(v) \in SUBSET Request
    BY DEF AccountedOf
  <2>2. /\ \A v \in User : IsFiniteSet(AccountedOf(v)) /\ SumOf(CallUsage, AccountedOf(v)) \in Usage
        /\ \A q \in AccountedOf(u) \cup {r} : CallUsage[q] \in Usage
    BY <1>1, <2>1, CallUsageType
  <2>3. SumOf(CallUsage, AccountedOf(u) \cup {r})
          = Plus(CallUsage[r], SumOf(CallUsage, AccountedOf(u)))
    <3>1. IsFiniteSet(AccountedOf(u)) /\ r \notin AccountedOf(u)
      BY <1>1, <1>7, <2>2
    <3>. QED  BY <2>2, <3>1, SumAdd
  <2>. QED  BY <1>2, <2>1, <2>2, <2>3
<1>. DEFINE s == SumOf(CallUsage, AccountedOf(u))
<1>10. SumOf(CallUsage, AccountedOf(u))' = Plus(one, s)
  BY <1>3, <1>7, <1>9
<1>11. /\ Balanced(SumOf(daily[u], Day), s, faults = 0)
       /\ Balanced(SumOf(dailyKey[KeyOf[u]], Day), s, faults = 0)
       /\ cycle[u] <= s.tokens
  BY <1>1 DEF LedgerBalanced
<1>12. ASSUME NEW a \in Usage, Balanced(a, s, faults = 0)
       PROVE  /\ faults' > 0 => Balanced(a, Plus(one, s), faults' = 0)
              /\ Balanced(Plus(a, one), Plus(one, s), faults' = 0)
  BY <1>1, <1>2, <1>9, <1>12, TotalGrows DEF Balanced
<1>13. ASSUME NEW f, NEW g, \A d \in Day : f[d] \in Usage, g[t.day] = Plus(f[t.day], one),
              \A d \in Day \ {t.day} : g[d] = f[d]
       PROVE  SumOf(g, Day) = Plus(SumOf(f, Day), one)
  BY <1>1, <1>2, <1>13, DayIsFinite, SumGrows
<1>14. /\ Balanced(SumOf(daily'[u], Day), Plus(one, s), faults' = 0)
       /\ \A v \in User \ {u} : daily'[v] = daily[v]
  <2>1. CASE UpsertDaily(u, t.day, n)
    <3>1. daily' = Grown(daily, u, t.day, one)
      BY <2>1 DEF UpsertDaily, Grown, one
    <3>2. daily \in [User -> [Day -> Usage]]
      BY <1>1 DEF TablesTypeOK
    <3>3. /\ daily'[u][t.day] = Plus(daily[u][t.day], one)
          /\ \A d \in Day \ {t.day} : daily'[u][d] = daily[u][d]
      BY <1>1, <3>1, <3>2 DEF Grown
    <3>4. SumOf(daily'[u], Day) = Plus(SumOf(daily[u], Day), one)
      <4>1. \A d \in Day : daily[u][d] \in Usage
        BY <1>1, <3>2
      <4>. QED  BY <1>13, <3>3, <4>1
    <3>5. \A v \in User \ {u} : daily'[v] = daily[v]
      BY <1>1, <3>1 DEF TablesTypeOK, Grown
    <3>. QED  BY <1>1, <1>11, <1>12, <3>4, <3>5, SummaryType
  <2>2. CASE UNCHANGED daily /\ faults' > 0
    BY <1>1, <1>11, <1>12, <2>2, SummaryType
  <2>. QED  BY <2>1, <2>2, Zenon DEF Accounts
<1>15. /\ Balanced(SumOf(dailyKey'[KeyOf[u]], Day), Plus(one, s), faults' = 0)
       /\ \A v \in User \ {u} : dailyKey'[KeyOf[v]] = dailyKey[KeyOf[v]]
  <2>1. CASE UpsertDailyKey(KeyOf[u], t.day, n)
    <3>1. dailyKey' = Grown(dailyKey, KeyOf[u], t.day, one)
      BY <2>1 DEF UpsertDailyKey, Grown, one
    <3>2. dailyKey \in [Key -> [Day -> Usage]]
      BY <1>1 DEF TablesTypeOK
    <3>3. /\ dailyKey'[KeyOf[u]][t.day] = Plus(dailyKey[KeyOf[u]][t.day], one)
          /\ \A d \in Day \ {t.day} : dailyKey'[KeyOf[u]][d] = dailyKey[KeyOf[u]][d]
      BY <1>1, <3>1, <3>2 DEF Grown
    <3>4. SumOf(dailyKey'[KeyOf[u]], Day) = Plus(SumOf(dailyKey[KeyOf[u]], Day), one)
      <4>1. \A d \in Day : dailyKey[KeyOf[u]][d] \in Usage
        BY <1>1, <3>2
      <4>. QED  BY <1>13, <3>3, <4>1
    <3>5. \A v \in User \ {u} : KeyOf[v] \in Key /\ KeyOf[v] # KeyOf[u]
      BY <1>1, LedgerAssumption DEF Key
    <3>6. \A k \in Key \ {KeyOf[u]} : dailyKey'[k] = dailyKey[k]
      BY <1>1, <3>1 DEF TablesTypeOK, Grown
    <3>. QED  BY <1>1, <1>11, <1>12, <3>4, <3>5, <3>6, SummaryType
  <2>2. CASE UNCHANGED dailyKey /\ faults' > 0
    BY <1>1, <1>11, <1>12, <2>2, SummaryType
  <2>. QED  BY <2>1, <2>2, Zenon DEF Accounts
<1>16. /\ cycle'[u] <= Plus(one, s).tokens
       /\ \A v \in User \ {u} : cycle'[v] = cycle[v]
  <2>1. /\ cycle \in [User -> Nat] /\ s.tokens \in Nat /\ Plus(one, s).tokens = n + s.tokens
    BY <1>1, <1>9 DEF TablesTypeOK, Usage, Plus, one
  <2>2. CASE RecordCycleUsage(u, n)
    BY <1>1, <1>2, <1>11, <2>1, <2>2 DEF RecordCycleUsage
  <2>3. CASE UNCHANGED cycle /\ faults' > 0
    BY <1>1, <1>2, <1>11, <2>1, <2>3
  <2>. QED  BY <2>2, <2>3, Zenon DEF Accounts
<1>17. ASSUME NEW v \in User
       PROVE  /\ Balanced(SumOf(daily[v], Day), SumOf(CallUsage, AccountedOf(v)), faults = 0)'
              /\ Balanced(SumOf(dailyKey[KeyOf[v]], Day), SumOf(CallUsage, AccountedOf(v)), faults = 0)'
              /\ cycle'[v] <= SumOf(CallUsage, AccountedOf(v))'.tokens
              /\ Balanced(SumOf(RowTotal, RowsOf(v)), SumOf(CallUsage, MeteredOf(v)), faults = 0)'
  <2>0. Balanced(SumOf(RowTotal, RowsOf(v)), SumOf(CallUsage, MeteredOf(v)), faults = 0)'
    BY <1>3, <1>7, <1>8 DEF LedgerBalanced, Balanced
  <2>1. CASE v = u
    BY <1>10, <1>14, <1>15, <1>16, <2>0, <2>1
  <2>2. CASE v # u
    BY <1>3, <1>7, <1>14, <1>15, <1>16, <2>0, <2>2 DEF LedgerBalanced, Balanced
  <2>. QED  BY <2>1, <2>2
<1>. QED  BY <1>17 DEF LedgerBalanced

\* A row once more in the bag.
LEMMA OnceMore ==
  ASSUME NEW c \in Nat, NEW n \in Nat
  PROVE  (c + 1) * n = c * n + n
OBVIOUS

\* A third party's answer is metered: a row that is new or counts once more.
LEMMA RowsGrow ==
  ASSUME TablesTypeOK, TablesTypeOK', NEW row \in ThirdPartyRow, thirdParty' = Insert(thirdParty, row)
  PROVE  /\ SumOf(RowTotal, RowsOf(row.user))'
              = Plus(SumOf(RowTotal, RowsOf(row.user)), [tokens |-> row.tokens, requests |-> 1])
         /\ \A u \in User \ {row.user} :
              SumOf(RowTotal, RowsOf(u))' = SumOf(RowTotal, RowsOf(u))
<1>. DEFINE v == row.user
            n == row.tokens
            one == [tokens |-> n, requests |-> 1]
            D == DOMAIN thirdParty
<1>1. n \in Nat /\ one \in Usage /\ v \in User
  BY DEF ThirdPartyRow, Usage
<1>2. \A other \in D : thirdParty[other] \in Nat
  BY DEF TablesTypeOK
<1>3. /\ DOMAIN thirdParty' = D \cup {row}
      /\ row \in D => thirdParty'[row] = thirdParty[row] + 1
      /\ row \notin D => thirdParty'[row] = 1
      /\ \A other \in D \ {row} : thirdParty'[other] = thirdParty[other]
  BY <1>2, InsertRow
<1>4. \A other \in D \ {row} : RowTotal'[other] = RowTotal[other]
  BY <1>3 DEF RowTotal
<1>5. /\ row \in D => RowTotal'[row] = Plus(RowTotal[row], one)
      /\ row \notin D => RowTotal'[row] = one
  <2>1. CASE row \in D
    <3>1. thirdParty[row] \in Nat /\ thirdParty'[row] = thirdParty[row] + 1
      BY <1>2, <1>3, <2>1
    <3>2. RowTotal[row] = [tokens |-> thirdParty[row] * n, requests |-> thirdParty[row]]
      BY <2>1 DEF RowTotal
    <3>3. RowTotal'[row] = [tokens |-> thirdParty'[row] * n, requests |-> thirdParty'[row]]
      BY <1>3 DEF RowTotal
    <3>4. \A c \in Nat : (c + 1) * n = c * n + n
      BY <1>1, OnceMore
    <3>. HIDE DEF n
    <3>. QED  BY <2>1, <3>1, <3>2, <3>3, <3>4 DEF Plus
  <2>2. CASE row \notin D
    <3>1. RowTotal'[row] = [tokens |-> 1 * n, requests |-> 1]
      BY <1>3, <2>2 DEF RowTotal
    <3>. QED  BY <1>1, <2>2, <3>1
  <2>. QED  BY <2>1, <2>2
<1>6. ASSUME NEW u PROVE RowsOf(u) \in SUBSET D /\ RowsOf(u)' \in SUBSET (D \cup {row})
  BY <1>3 DEF RowsOf
<1>7. /\ \A other \in D : RowTotal[other] \in Usage
      /\ \A S \in SUBSET D : IsFiniteSet(S)
  BY RowTotalType
<1>. HIDE DEF RowTotal, one
<1>8. SumOf(RowTotal', RowsOf(v)') = Plus(SumOf(RowTotal, RowsOf(v)), one)
  <2>0. /\ IsFiniteSet(RowsOf(v)) /\ \A other \in RowsOf(v) : RowTotal[other] \in Usage
        /\ RowsOf(v) \in SUBSET D
    BY <1>6, <1>7
  <2>1. CASE row \in D
    <3>1. RowsOf(v)' = RowsOf(v) /\ row \in RowsOf(v)
      BY <1>3, <2>1 DEF RowsOf
    <3>2. /\ RowTotal'[row] = Plus(RowTotal[row], one)
          /\ \A other \in RowsOf(v) \ {row} : RowTotal'[other] = RowTotal[other]
      BY <1>4, <1>5, <2>0, <2>1
    <3>3. SumOf(RowTotal', RowsOf(v)) = Plus(SumOf(RowTotal, RowsOf(v)), one)
      BY <1>1, <2>0, <3>1, <3>2, SumGrows
    <3>. QED  BY <3>1, <3>3
  <2>2. CASE row \notin D
    <3>1. RowsOf(v)' = RowsOf(v) \cup {row} /\ row \notin RowsOf(v)
      BY <1>3, <2>2 DEF RowsOf
    <3>2. \A other \in RowsOf(v) : RowTotal[other] = RowTotal'[other]
      BY <1>4, <2>0, <2>2
    <3>3. SumOf(RowTotal, RowsOf(v)) = SumOf(RowTotal', RowsOf(v))
      BY <2>0, <3>2, SumSame
    <3>4. \A other \in RowsOf(v) \cup {row} : RowTotal'[other] \in Usage
      BY <1>1, <1>5, <2>0, <2>2, <3>2
    <3>5. SumOf(RowTotal', RowsOf(v) \cup {row}) = Plus(RowTotal'[row], SumOf(RowTotal', RowsOf(v)))
      BY <2>0, <3>1, <3>4, SumAdd
    <3>6. SumOf(RowTotal, RowsOf(v)) \in Usage
      BY <2>0, RowTotalType
    <3>. QED  BY <1>1, <1>5, <2>2, <3>1, <3>3, <3>5, <3>6, PlusCommutes
  <2>. QED  BY <2>1, <2>2
<1>9. ASSUME NEW u \in User \ {v}
      PROVE  SumOf(RowTotal', RowsOf(u)') = SumOf(RowTotal, RowsOf(u))
  <2>1. RowsOf(u)' = RowsOf(u) /\ row \notin RowsOf(u)
    BY <1>3 DEF RowsOf
  <2>2. IsFiniteSet(RowsOf(u)) /\ \A other \in RowsOf(u) : RowTotal[other] = RowTotal'[other]
    BY <1>4, <1>6, <1>7, <2>1
  <2>3. SumOf(RowTotal, RowsOf(u)) = SumOf(RowTotal', RowsOf(u))
    BY <2>2, SumSame
  <2>. QED  BY <2>1, <2>3
<1>. QED  BY <1>8, <1>9 DEF one

\* A third-party call and its row are added to both sides.
LEMMA LedgerMeters ==
  ASSUME CallsInv, CallsInv', LedgerBalanced, NEW t \in tasks, Meters(t), OnlyTasks,
         faults' = 0 => faults = 0
  PROVE  LedgerBalanced'
<1>. DEFINE r == t.call
            u == UserOf[r]
            n == Tokens(r)
            one == [tokens |-> n, requests |-> 1]
<1>1. /\ r \in Request /\ u \in User /\ TablesTypeOK /\ TablesTypeOK' /\ t.kind = "Metrics"
      /\ route[r] = "third_party" /\ answer[r] = 200
  <2>1. r \in Request /\ u \in User /\ TablesTypeOK /\ TablesTypeOK' /\ t.kind = "Metrics"
    BY GatewayAssumption DEF CallsInv, TypeOK, Meters
  <2>2. route[r] = "third_party" /\ answer[r] = 200
    BY <2>1 DEF CallsInv, TasksBelong
  <2>. QED  BY <2>1, <2>2
<1>2. n \in Nat /\ one \in Usage /\ CallUsage[r] = one
  <2>1. CallUsage[r] = one
    BY <1>1 DEF CallUsage
  <2>2. CallUsage[r] \in Usage
    BY <1>1, CallUsageType
  <2>. QED  BY <2>1, <2>2 DEF Usage
<1>3. CallUsage' = CallUsage /\ UNCHANGED <<route, answer, used>>
  BY DEF OnlyTasks, CallUsage, Tokens
<1>4. tasks' = (tasks \ {t}) \cup {Task(r, "MetricsLog")}
  BY DEF Meters
<1>a. Task(r, "MetricsLog").call = r /\ Task(r, "MetricsLog").kind = "MetricsLog"
  BY DEF Task
<1>5. ~Metered(r) /\ Metered(r)'
  <2>1. ~Metered(r)
    BY <1>1 DEF Metered
  <2>2. \A s \in tasks' : ~(s.call = r /\ s.kind = "Metrics")
    BY <1>1, <1>4, <1>a DEF CallsInv, TasksAreSingle, LogKinds
  <2>. QED  BY <1>1, <1>3, <2>1, <2>2 DEF Metered
<1>6. \A q \in Request : /\ q # r => (Metered(q) <=> Metered(q)')
                         /\ Accounted(q) <=> Accounted(q)'
  BY <1>1, <1>3, <1>4, <1>a DEF Accounted, Metered, UsageKinds
<1>7. /\ MeteredOf(u)' = MeteredOf(u) \cup {r} /\ r \notin MeteredOf(u)
      /\ \A v \in User \ {u} : MeteredOf(v)' = MeteredOf(v)
      /\ \A v \in User : AccountedOf(v)' = AccountedOf(v)
  BY <1>1, <1>5, <1>6 DEF AccountedOf, MeteredOf
<1>. HIDE DEF CallUsage, one
<1>8. /\ SumOf(CallUsage, MeteredOf(u)) \in Usage
      /\ SumOf(CallUsage, MeteredOf(u) \cup {r}) = Plus(one, SumOf(CallUsage, MeteredOf(u)))
  <2>1. MeteredOf(u) \in SUBSET Request
    BY DEF MeteredOf
  <2>2. /\ IsFiniteSet(MeteredOf(u)) /\ SumOf(CallUsage, MeteredOf(u)) \in Usage
        /\ \A q \in MeteredOf(u) \cup {r} : CallUsage[q] \in Usage
    BY <1>1, <2>1, CallUsageType
  <2>3. SumOf(CallUsage, MeteredOf(u) \cup {r})
          = Plus(CallUsage[r], SumOf(CallUsage, MeteredOf(u)))
    BY <1>7, <2>2, SumAdd
  <2>. QED  BY <1>2, <2>2, <2>3
<1>. DEFINE s == SumOf(CallUsage, MeteredOf(u))
<1>9. SumOf(CallUsage, MeteredOf(u))' = Plus(one, s)
  BY <1>3, <1>7, <1>8
<1>10. UNCHANGED <<daily, dailyKey, cycle>>
  BY DEF Meters, RecordThirdPartyUsage, tables
<1>11. /\ Balanced(SumOf(RowTotal, RowsOf(u))', Plus(one, s), faults' = 0)
       /\ \A v \in User \ {u} : SumOf(RowTotal, RowsOf(v))' = SumOf(RowTotal, RowsOf(v))
  <2>1. Balanced(SumOf(RowTotal, RowsOf(u)), s, faults = 0) /\ SumOf(RowTotal, RowsOf(u)) \in Usage
    <3>1. RowsOf(u) \in SUBSET DOMAIN thirdParty
      BY DEF RowsOf
    <3>. QED  BY <1>1, <3>1, RowTotalType DEF LedgerBalanced
  <2>2. ASSUME NEW a \in Usage, Balanced(a, s, faults = 0)
        PROVE  /\ faults' > 0 => Balanced(a, Plus(one, s), faults' = 0)
               /\ Balanced(Plus(a, one), Plus(one, s), faults' = 0)
    BY <1>2, <1>8, <2>2, TotalGrows DEF Balanced
  <2>3. CASE UNCHANGED tables /\ faults' > 0
    <3>1. RowTotal' = RowTotal /\ \A v : RowsOf(v)' = RowsOf(v)
      BY <2>3 DEF tables, RowTotal, RowsOf
    <3>. QED  BY <2>1, <2>2, <2>3, <3>1
  <2>4. CASE RecordThirdPartyUsage(u, n)
    <3>1. PICK row : row = [user |-> u, tokens |-> n, day |-> today]
      OBVIOUS
    <3>2. thirdParty' = Insert(thirdParty, row)
      BY <2>4, <3>1 DEF RecordThirdPartyUsage
    <3>3. row \in ThirdPartyRow /\ row.user = u /\ row.tokens = n
      BY <1>1, <1>2, <3>1 DEF ThirdPartyRow, TablesTypeOK
    <3>4. /\ SumOf(RowTotal, RowsOf(u))' = Plus(SumOf(RowTotal, RowsOf(u)), one)
          /\ \A v \in User \ {u} : SumOf(RowTotal, RowsOf(v))' = SumOf(RowTotal, RowsOf(v))
      BY <1>1, <3>2, <3>3, RowsGrow DEF one
    <3>. QED  BY <2>1, <2>2, <3>4
  <2>. QED  BY <2>3, <2>4 DEF Meters
<1>12. ASSUME NEW v \in User
       PROVE  /\ Balanced(SumOf(daily[v], Day), SumOf(CallUsage, AccountedOf(v)), faults = 0)'
              /\ Balanced(SumOf(dailyKey[KeyOf[v]], Day), SumOf(CallUsage, AccountedOf(v)), faults = 0)'
              /\ cycle'[v] <= SumOf(CallUsage, AccountedOf(v))'.tokens
              /\ Balanced(SumOf(RowTotal, RowsOf(v)), SumOf(CallUsage, MeteredOf(v)), faults = 0)'
  <2>1. SumOf(CallUsage, AccountedOf(v))' = SumOf(CallUsage, AccountedOf(v))
    BY <1>3, <1>7
  <2>2. CASE v = u
    BY <1>9, <1>10, <1>11, <2>1, <2>2 DEF LedgerBalanced, Balanced
  <2>3. CASE v # u
    BY <1>3, <1>7, <1>10, <1>11, <2>1, <2>3 DEF LedgerBalanced, Balanced
  <2>. QED  BY <2>2, <2>3
<1>. QED  BY <1>12 DEF LedgerBalanced

\* Every step of a goroutine adds a call to the accounts once, or loses it by a fault.
LEMMA LedgerRecord ==
  ASSUME CallsInv, CallsInv', LedgerBalanced, NEW t \in tasks, Record(t)
  PROVE  LedgerBalanced'
<1>0. OnlyTasks /\ (Dates(t) \/ Accounts(t) \/ LogsCall(t) \/ Meters(t))
  BY RecordEffect
<1>1. faults \in Nat /\ faults' \in Nat /\ (faults' = 0 => faults = 0)
  BY <1>0, GatewayAssumption DEF CallsInv, TypeOK, OnlyTasks
<1>2. CallUsage' = CallUsage /\ UNCHANGED <<route, answer, used>>
  BY <1>0 DEF CallUsage, Tokens, OnlyTasks
<1>3. CASE Dates(t)
  <2>1. UNCHANGED <<daily, dailyKey, cycle, thirdParty, faults>>
    BY <1>3 DEF Dates, tables
  <2>2. ASSUME NEW q PROVE /\ Accounted(q) <=> Accounted(q)'
                           /\ Metered(q) <=> Metered(q)'
    <3>1. CASE used[t.call] = None /\ tasks' = tasks \ {t}
      BY <1>2, <1>3, <3>1 DEF Dates, Accounted, Metered
    <3>2. CASE used[t.call] # None /\ tasks' = (tasks \ {t}) \cup {WritesTask(t)}
      <4>1. t.kind = "RecordUsage"
        BY <1>3 DEF Dates
      <4>2. WritesTask(t).call = t.call /\ WritesTask(t).kind = "Writes"
        BY DEF WritesTask
      <4>3. CASE q = t.call
        <5>1. \E s \in tasks' : s.call = q /\ s.kind \in UsageKinds
          BY <3>2, <4>2, <4>3 DEF UsageKinds
        <5>2. ~Accounted(q) /\ ~Accounted(q)'
          BY <4>1, <4>3, <5>1 DEF Accounted, UsageKinds
        <5>3. route[q] = "platform"
          BY <4>1, <4>3 DEF CallsInv, TasksBelong, UsageKinds
        <5>. QED  BY <1>2, <5>2, <5>3 DEF Metered
      <4>4. CASE q # t.call
        BY <1>2, <3>2, <4>2, <4>4 DEF Accounted, Metered
      <4>. QED  BY <4>3, <4>4
    <3>. QED  BY <1>3, <3>1, <3>2 DEF Dates
  <2>. QED  BY <1>2, <2>1, <2>2, LedgerKept
<1>4. CASE LogsCall(t)
  <2>1. UNCHANGED <<daily, dailyKey, cycle, thirdParty>>
    BY <1>4 DEF LogsCall, CreateRequestLog, tables
  <2>2. ASSUME NEW q PROVE /\ Accounted(q) <=> Accounted(q)'
                           /\ Metered(q) <=> Metered(q)'
    BY <1>2, <1>4 DEF LogsCall, Accounted, Metered, UsageKinds
  <2>. QED  BY <1>1, <1>2, <2>1, <2>2, LedgerKept
<1>. QED  BY <1>0, <1>1, <1>3, <1>4, LedgerAccounts, LedgerMeters

-----------------------------------------------------------------------------
(***************************************************************************)
(* The invariant                                                           *)
(***************************************************************************)
GatewayInv == CallsInv /\ SlotsCoverHandlers /\ LogsInv /\ LedgerBalanced

\* The invariant holds at first ...
LEMMA GatewayInit == Init => GatewayInv
BY CallsInit, LogsInit, LedgerStart DEF GatewayInv

\* ... and every step keeps it.
LEMMA GatewayStep == GatewayInv /\ [Next]_vars => GatewayInv'
<1>. SUFFICES ASSUME GatewayInv, [Next]_vars PROVE GatewayInv'
  OBVIOUS
<1>. USE DEF GatewayInv
<1>1. ASSUME NEW r \in Request, Handle(r) PROVE GatewayInv'
  BY <1>1, HandleStep, LogsHandle, LedgerHandle
<1>2. ASSUME NEW t \in tasks, Record(t) PROVE GatewayInv'
  BY <1>2, RecordStep, LogsRecord, LedgerRecord
<1>3. CASE Midnight /\ Calm
  <2>1. UNCHANGED <<daily, dailyKey, cycle, thirdParty, route, answer, used, tasks, faults>>
    BY <1>3 DEF Midnight, Calm, tables
  <2>. QED  BY <1>3, <2>1, MidnightStep, LogsMidnight, LedgerCalm
<1>4. CASE cleanup /\ Calm
  <2>1. UNCHANGED <<daily, dailyKey, cycle, thirdParty, route, answer, used, tasks, faults>>
    BY <1>4 DEF cleanup, Calm
  <2>. QED  BY <1>4, <2>1, CleanupStep, LogsCleanup, LedgerCalm
<1>7. ASSUME NEW u \in User, DeleteUser(u), Calm PROVE GatewayInv'
  <2>1. UNCHANGED <<daily, dailyKey, cycle, thirdParty, route, answer, used, tasks, faults>>
    BY <1>7 DEF DeleteUser, Calm
  <2>. QED  BY <1>7, <2>1, DeleteStep, LogsDelete, LedgerCalm
<1>5. CASE Stop
  BY <1>5, StopStep, LogsStop, LedgerStop
<1>6. CASE UNCHANGED vars
  <2>1. UNCHANGED <<daily, dailyKey, cycle, thirdParty, route, answer, used, tasks, faults>>
    BY <1>6 DEF vars, tables
  <2>. QED  BY <1>6, <2>1, CallsStutter, LogsStutter, LedgerCalm
<1>. QED  BY <1>1, <1>2, <1>3, <1>4, <1>5, <1>6, <1>7, Zenon DEF Next

\* The progress of calls, the slots that cover handlers, the logs of calls and the balance of
\* accounts hold in every state: an answered call is on its way into its records or in them
\* (llm_proxy.go, third_party_proxy.go).
THEOREM GatewayInvariant == Spec => []GatewayInv
BY GatewayInit, GatewayStep, PTL DEF Spec

\* The slots of a user are those of its running handlers in every behaviour without a crash,
\* on every way out of a handler: the deferred ReleaseConcurrency (llm_proxy.go).
THEOREM SlotsFollow == Spec => []SlotsFollowHandlers
<1>1. GatewayInv => SlotsFollowHandlers
  BY DEF GatewayInv, SlotsCoverHandlers, SlotsFollowHandlers, Holders
<1>. QED  BY <1>1, GatewayInvariant, PTL

\* A call that reached an upstream leaves its one log, with its status and type, and a refused
\* one none: RecordRequestLog and recordThirdPartyMetrics
\* (llm_proxy.go, third_party_proxy.go).
THEOREM CallsLogged == Spec => []CallsAreLogged
<1>1. ASSUME GatewayInv PROVE CallsAreLogged
  <2>. SUFFICES ASSUME Quiet, faults = 0, NEW r \in Request, phase[r] = "done"
       PROVE  /\ answer[r] \in {400, 429, 500} => LogOf(r) = {}
              /\ \A row \in LogOf(r) : /\ LogOf(r) = {row} /\ logs[row] = 1
                                       /\ row.status = answer[r]
                                       /\ route[r] = "platform" => row.type = endpoint[r].type
              /\ today < FirstDay + RetentionDays =>
                   (answer[r] = 200 \/ (answer[r] = 502 /\ route[r] = "platform") => LogOf(r) # {})
    BY DEF CallsAreLogged, LogOf
  <2>1. LogsBelong /\ LogsAreComplete /\ DOMAIN logs \subseteq LogRow
    BY <1>1 DEF GatewayInv, LogsInv, CallsInv, TablesTypeOK
  <2>2. \A row \in LogOf(r) : /\ LogOf(r) = {row} /\ logs[row] = 1
                              /\ row.status = answer[r]
                              /\ route[r] = "platform" => row.type = endpoint[r].type
    BY <2>1 DEF LogsBelong, LogOf
  <2>3. \A row \in LogOf(r) : row.status \in {200, 502}
    BY <2>1 DEF LogOf, LogRow
  <2>4. ~LogPending(r)
    BY DEF Quiet, LogPending
  <2>. QED  BY <2>1, <2>2, <2>3, <2>4 DEF LogsAreComplete
<1>. QED  BY <1>1, GatewayInvariant, PTL

-----------------------------------------------------------------------------
(***************************************************************************)
(* Reports                                                                 *)
(***************************************************************************)
\* An image of a finite set is finite.
LEMMA ImageIsFinite ==
  ASSUME NEW S, IsFiniteSet(S), NEW h
  PROVE  IsFiniteSet({h[x] : x \in S})
<1>. DEFINE Im(k) == {h[x] : x \in k}
            G == {k \in SUBSET S : IsFiniteSet(Im(k))}
<1>1. {} \in G
  <2>1. Im({}) = {}
    OBVIOUS
  <2>. QED  BY <2>1, FS_EmptySet
<1>2. ASSUME NEW k \in SUBSET S, NEW x \in S \ k, k \in G PROVE k \cup {x} \in G
  <2>1. Im(k \cup {x}) = Im(k) \cup {h[x]}
    OBVIOUS
  <2>2. IsFiniteSet(Im(k))
    BY <1>2
  <2>. HIDE DEF Im
  <2>3. IsFiniteSet(Im(k) \cup {h[x]})
    BY <2>2, FS_AddElement
  <2>. QED  BY <2>1, <2>3
<1>3. S \in G
  <2>. HIDE DEF G
  <2>. QED  BY <1>1, <1>2, SubsetInduction
<1>. QED  BY <1>3

\* The users are finitely many.
LEMMA UserIsFinite == IsFiniteSet(User) /\ \A users \in SUBSET User : IsFiniteSet(users)
BY LedgerAssumption, FS_Subset

\* A summary is a usage, that of its user's day.
LEMMA SummaryOf ==
  ASSUME TablesTypeOK
  PROVE  /\ \A p \in User \X Day : Summary[p] \in Usage
         /\ \A u \in User, d \in Day : Summary[<<u, d>>] = daily[u][d]
BY DEF TablesTypeOK, Summary

\* The summaries of some users and days are the terms of every report of the platform's usage.
LEMMA SummaryTerms ==
  ASSUME TablesTypeOK, NEW users \in SUBSET User, NEW days \in SUBSET Day
  PROVE  /\ IsFiniteSet(users \X days) /\ \A p \in users \X days : Summary[p] \in Usage
         /\ SumOf(Summary, users \X days) \in Usage
<1>1. IsFiniteSet(users \X days)
  BY UserIsFinite, DayIsFinite, FS_Subset, FS_Product
<1>2. \A p \in users \X days : Summary[p] \in Usage
  BY SummaryOf
<1>. HIDE DEF Summary
<1>. QED  BY <1>1, <1>2, SumType

\* What a user has used on some days.
LEMMA OneUser ==
  ASSUME TablesTypeOK, NEW u \in User, NEW days \in SUBSET Day
  PROVE  SumOf(Summary, {u} \X days) = SumOf(daily[u], days)
<1>. DEFINE h == [d \in days |-> <<u, d>>]
<1>1. {h[d] : d \in days} = {u} \X days
  OBVIOUS
<1>2. IsFiniteSet(days)
  BY DayIsFinite, FS_Subset
<1>3. \A x, y \in days : h[x] = h[y] => x = y
  OBVIOUS
<1>4. \A d \in days : daily[u][d] = Summary[h[d]] /\ daily[u][d] \in Usage
  BY SummaryOf DEF TablesTypeOK
<1>. HIDE DEF h
<1>5. SumOf(Summary, {h[d] : d \in days}) = SumOf(daily[u], days)
  BY <1>2, <1>3, <1>4, SumRenamed
<1>. QED  BY <1>1, <1>5

\* Days without a summary add nothing.
LEMMA IdleDays ==
  ASSUME TablesTypeOK, NEW users \in SUBSET User, NEW days \in SUBSET Day, NEW less \in SUBSET days,
         \A u \in users, d \in days \ less : daily[u][d] = Zero
  PROVE  SumOf(Summary, users \X less) = SumOf(Summary, users \X days)
<1>1. /\ IsFiniteSet(users \X days) /\ \A p \in users \X days : Summary[p] \in Usage
  BY SummaryTerms
<1>2. users \X less \in SUBSET (users \X days)
  OBVIOUS
<1>3. \A p \in (users \X days) \ (users \X less) : Summary[p] = Zero
  BY SummaryOf
<1>. HIDE DEF Summary
<1>. QED  BY <1>1, <1>2, <1>3, SumSubset

\* The statistics by period have every summary of the range once.
LEMMA PlatformTotal ==
  ASSUME TablesTypeOK, NEW users \in SUBSET User, NEW p, NEW range
  PROVE  /\ IsFiniteSet(DOMAIN PlatformStats(p, users, range))
         /\ \A date \in DOMAIN PlatformStats(p, users, range) : PlatformStats(p, users, range)[date] \in Usage
         /\ SumOf(PlatformStats(p, users, range), DOMAIN PlatformStats(p, users, range))
              = SumOf(Summary, users \X (Day \cap range))
<1>. DEFINE days == {d \in Day \cap range : \E u \in users : daily[u][d] # Zero}
            D == {Trunc(p, d) : d \in days}
            S == users \X days
            h == [x \in S |-> Trunc(p, x[2])]
            e == [date \in D |-> SumOf(Summary, users \X {d \in days : Trunc(p, d) = date})]
<1>1. PlatformStats(p, users, range) = e
  BY Zenon DEF PlatformStats
<1>2. IsFiniteSet(days) /\ IsFiniteSet(D)
  <2>1. IsFiniteSet(days)
    BY DayIsFinite, FS_Subset
  <2>. DEFINE g == [d \in days |-> Trunc(p, d)]
  <2>2. D = {g[d] : d \in days}
    OBVIOUS
  <2>. HIDE DEF g, D, days
  <2>. QED  BY <2>1, <2>2, ImageIsFinite
<1>3. IsFiniteSet(S) /\ \A x \in S : Summary[x] \in Usage
  BY SummaryTerms
<1>4. \A x \in S : h[x] \in D
  OBVIOUS
<1>5. \A date \in D : e[date] = SumOf(Summary, Fiber(S, h, date))
  <2>1. ASSUME NEW date \in D
        PROVE  users \X {d \in days : Trunc(p, d) = date} = Fiber(S, h, date)
    BY DEF Fiber
  <2>. QED  BY <2>1
<1>6. \A date \in D : e[date] \in Usage
  <2>1. \A date \in D : {d \in days : Trunc(p, d) = date} \in SUBSET Day
    OBVIOUS
  <2>. QED  BY <2>1, SummaryTerms
<1>7. SumOf(e, D) = SumOf(Summary, S)
  <2>. HIDE DEF h, e, D, S, Summary
  <2>. QED  BY <1>2, <1>3, <1>4, <1>5, SumGrouped
<1>8. SumOf(Summary, S) = SumOf(Summary, users \X (Day \cap range))
  <2>1. /\ Day \cap range \in SUBSET Day /\ days \in SUBSET (Day \cap range)
        /\ \A u \in users, d \in (Day \cap range) \ days : daily[u][d] = Zero
    OBVIOUS
  <2>. HIDE DEF days
  <2>. QED  BY <2>1, IdleDays
<1>9. DOMAIN e = D
  OBVIOUS
<1>. HIDE DEF e, D
<1>. QED  BY <1>1, <1>2, <1>6, <1>7, <1>8, <1>9

\* The third-party statistics by period have every row of the range once.
LEMMA ThirdPartyTotal ==
  ASSUME TablesTypeOK, NEW users \in SUBSET User, NEW p, NEW range
  PROVE  /\ IsFiniteSet(DOMAIN ThirdPartyStats(p, users, range))
         /\ \A date \in DOMAIN ThirdPartyStats(p, users, range) : ThirdPartyStats(p, users, range)[date] \in Usage
         /\ SumOf(ThirdPartyStats(p, users, range), DOMAIN ThirdPartyStats(p, users, range))
              = SumOf(RowTotal, RowsIn(users, range))
<1>. DEFINE S == RowsIn(users, range)
            D == {Trunc(p, row.day) : row \in S}
            h == [row \in S |-> Trunc(p, row.day)]
            e == [date \in D |-> SumOf(RowTotal, {row \in S : Trunc(p, row.day) = date})]
<1>1. ThirdPartyStats(p, users, range) = e
  BY Zenon DEF ThirdPartyStats
<1>2. IsFiniteSet(S) /\ \A row \in S : RowTotal[row] \in Usage
  <2>1. S \in SUBSET DOMAIN thirdParty
    BY DEF RowsIn
  <2>. QED  BY <2>1, RowTotalType
<1>3. IsFiniteSet(D)
  <2>1. D = {h[row] : row \in S}
    OBVIOUS
  <2>. HIDE DEF h, D, S
  <2>. QED  BY <1>2, <2>1, ImageIsFinite
<1>4. \A x \in S : h[x] \in D
  OBVIOUS
<1>5. \A date \in D : e[date] = SumOf(RowTotal, Fiber(S, h, date))
  <2>1. ASSUME NEW date \in D
        PROVE  {row \in S : Trunc(p, row.day) = date} = Fiber(S, h, date)
    BY DEF Fiber
  <2>. QED  BY <2>1
<1>6. \A date \in D : e[date] \in Usage
  <2>1. \A date \in D : {row \in S : Trunc(p, row.day) = date} \in SUBSET DOMAIN thirdParty
    BY DEF RowsIn
  <2>. QED  BY <2>1, RowTotalType
<1>7. SumOf(e, D) = SumOf(RowTotal, S)
  <2>. HIDE DEF h, e, D, S, RowTotal
  <2>. QED  BY <1>2, <1>3, <1>4, <1>5, SumGrouped
<1>9. DOMAIN e = D
  OBVIOUS
<1>. HIDE DEF e, D
<1>. QED  BY <1>1, <1>3, <1>6, <1>7, <1>9

\* Merging drops nothing of either.
LEMMA MergedTotals ==
  ASSUME NEW a, IsFiniteSet(DOMAIN a), \A date \in DOMAIN a : a[date] \in Usage,
         NEW b, IsFiniteSet(DOMAIN b), \A date \in DOMAIN b : b[date] \in Usage
  PROVE  /\ Platform(mergeUsageStats(a, b)) = SumOf(a, DOMAIN a)
         /\ ThirdParty(mergeUsageStats(a, b)) = SumOf(b, DOMAIN b)
<1>. DEFINE D == DOMAIN a \cup DOMAIN b
<1>1. IsFiniteSet(D)
  BY FS_Union
<1>2. ASSUME NEW f, IsFiniteSet(DOMAIN f), DOMAIN f \subseteq D, \A date \in DOMAIN f : f[date] \in Usage,
             NEW e, \A date \in D : e[date] = At(f, date)
      PROVE  SumOf(e, D) = SumOf(f, DOMAIN f)
  <2>1. /\ \A date \in DOMAIN f : f[date] = e[date]
        /\ \A date \in D : e[date] \in Usage
        /\ \A date \in D \ DOMAIN f : e[date] = Zero
    BY <1>2, PlusZero DEF At
  <2>2. SumOf(f, DOMAIN f) = SumOf(e, DOMAIN f)
    BY <1>2, <2>1, SumSame
  <2>3. SumOf(e, DOMAIN f) = SumOf(e, D)
    BY <1>1, <1>2, <2>1, SumSubset
  <2>. QED  BY <2>2, <2>3
<1>. DEFINE report == mergeUsageStats(a, b)
            pl == [date \in DOMAIN report |-> report[date].platform]
            tp == [date \in DOMAIN report |-> report[date].thirdParty]
<1>3. DOMAIN report = D /\ DOMAIN pl = D /\ DOMAIN tp = D
  BY DEF mergeUsageStats
<1>4. \A date \in D : pl[date] = At(a, date) /\ tp[date] = At(b, date)
  BY DEF mergeUsageStats
<1>5. Platform(report) = SumOf(pl, D) /\ ThirdParty(report) = SumOf(tp, D)
  BY <1>3, Zenon DEF Platform, ThirdParty, Total
<1>. HIDE DEF report, pl, tp
<1>6. SumOf(pl, D) = SumOf(a, DOMAIN a)
  BY <1>2, <1>4
<1>7. SumOf(tp, D) = SumOf(b, DOMAIN b)
  BY <1>2, <1>4
<1>. QED  BY <1>5, <1>6, <1>7 DEF report

\* A report that names the first day and the last has every day, and every row of a user.
LEMMA EveryDay ==
  /\ \A p : Day \cap parseDateRange(FirstDay, MaxDay, p) = Day
  /\ TablesTypeOK => \A u \in User : \A p :
       RowsIn({u}, parseDateRange(FirstDay, MaxDay, p)) = RowsOf(u)
<1>1. ASSUME NEW p PROVE parseDateRange(FirstDay, MaxDay, p) = Day
  BY LedgerAssumption DEF parseDateRange, Day
<1>2. ASSUME TablesTypeOK, NEW u \in User PROVE RowsIn({u}, Day) = RowsOf(u)
  BY <1>2 DEF RowsIn, RowsOf, TablesTypeOK, ThirdPartyRow
<1>. QED  BY <1>1, <1>2

\* What the statistics of a user, its key's summary and its export add up to.
LEMMA UserTotals ==
  ASSUME TablesTypeOK, NEW u \in User, NEW p
  PROVE  /\ Platform(Full(p, u)) = SumOf(daily[u], Day)
         /\ ThirdParty(Full(p, u)) = SumOf(RowTotal, RowsOf(u))
<1>1. {u} \in SUBSET User
  OBVIOUS
<1>2. PICK range : range = parseDateRange(FirstDay, MaxDay, p)
  OBVIOUS
<1>3. PICK a : a = PlatformStats(p, {u}, range)
  OBVIOUS
<1>4. PICK b : b = ThirdPartyStats(p, {u}, range)
  OBVIOUS
<1>5. Full(p, u) = mergeUsageStats(a, b)
  BY <1>2, <1>3, <1>4, Zenon DEF Full, GetUsageStats, Scope
<1>6. /\ IsFiniteSet(DOMAIN a) /\ \A date \in DOMAIN a : a[date] \in Usage
      /\ SumOf(a, DOMAIN a) = SumOf(Summary, {u} \X (Day \cap range))
  BY <1>1, <1>3, PlatformTotal
<1>7. /\ IsFiniteSet(DOMAIN b) /\ \A date \in DOMAIN b : b[date] \in Usage
      /\ SumOf(b, DOMAIN b) = SumOf(RowTotal, RowsIn({u}, range))
  BY <1>1, <1>4, ThirdPartyTotal
<1>8. RowsIn({u}, range) = RowsOf(u) /\ Day \cap range = Day
  BY <1>2, EveryDay
<1>9. SumOf(Summary, {u} \X Day) = SumOf(daily[u], Day)
  BY OneUser
<1>10. /\ Platform(mergeUsageStats(a, b)) = SumOf(a, DOMAIN a)
       /\ ThirdParty(mergeUsageStats(a, b)) = SumOf(b, DOMAIN b)
  BY <1>6, <1>7, MergedTotals
<1>. QED  BY <1>5, <1>6, <1>7, <1>8, <1>9, <1>10

\* The summary of a user's key has the days of the key and the rows of the user.
LEMMA KeyTotal ==
  ASSUME TablesTypeOK, NEW u \in User
  PROVE  GetKeyUsageSummary("user", u, FirstDay, MaxDay)[KeyOf[u]]
           = Plus(SumOf(dailyKey[KeyOf[u]], Day), SumOf(RowTotal, RowsOf(u)))
<1>. DEFINE range == parseDateRange(FirstDay, MaxDay, "daily")
<1>1. range = Day
  BY LedgerAssumption DEF parseDateRange, Day
<1>2. {row \in DOMAIN thirdParty : KeyOf[row.user] = KeyOf[u] /\ row.day \in Day} = RowsOf(u)
  BY LedgerAssumption DEF RowsOf, TablesTypeOK, ThirdPartyRow
<1>3. KeyOf[u] \in {KeyOf[v] : v \in Scope("user", u)}
  BY DEF Scope
<1>4. GetKeyUsageSummary("user", u, FirstDay, MaxDay)[KeyOf[u]]
        = Plus(SumOf(dailyKey[KeyOf[u]], Day \cap range),
               SumOf(RowTotal, {row \in DOMAIN thirdParty :
                                  KeyOf[row.user] = KeyOf[u] /\ row.day \in range}))
  BY <1>3, Zenon DEF GetKeyUsageSummary
<1>5. Day \cap Day = Day
  OBVIOUS
<1>. HIDE DEF range
<1>. QED  BY <1>1, <1>2, <1>4, <1>5

\* The export has every summary of the user once, and none of a deleted user.
LEMMA ExportTotal ==
  ASSUME TablesTypeOK, NEW u \in User
  PROVE  Exported(ExportUsageStats("daily", "user", u, FirstDay, MaxDay))
           = IF u \in live THEN SumOf(daily[u], Day) ELSE Zero
<1>. DEFINE own == {u} \cap live
            S == {q \in own \X Day : Summary[q] # Zero}
            rows == {[user |-> p[1], date |-> p[2], usage |-> Summary[p]] : p \in S}
            h == [p \in S |-> [user |-> p[1], date |-> p[2], usage |-> Summary[p]]]
            f == [row \in rows |-> row.usage]
<1>1. /\ ExportUsageStats("daily", "user", u, FirstDay, MaxDay) = rows
      /\ rows = {h[p] : p \in S}
  <2>1. Scope("user", u) = {u} /\ Day \cap parseDateRange(FirstDay, MaxDay, "daily") = Day
    BY EveryDay, Zenon DEF Scope
  <2>2. ExportUsageStats("daily", "user", u, FirstDay, MaxDay) = rows
    BY <2>1, Zenon DEF ExportUsageStats
  <2>3. rows = {h[p] : p \in S}
    OBVIOUS
  <2>. QED  BY <2>2, <2>3
<1>2. Exported(rows) = SumOf(f, rows)
  BY Zenon DEF Exported, Total
<1>3. \A x, y \in S : h[x] = h[y] => x = y
  <2>. SUFFICES ASSUME NEW x \in S, NEW y \in S, h[x] = h[y] PROVE x = y
    OBVIOUS
  <2>1. h[x].user = x[1] /\ h[x].date = x[2] /\ h[y].user = y[1] /\ h[y].date = y[2]
    OBVIOUS
  <2>. QED  BY <2>1
<1>4. \A p \in S : h[p] \in rows /\ h[p].usage = Summary[p] /\ f[h[p]] = h[p].usage
  OBVIOUS
<1>5. /\ IsFiniteSet(own \X Day) /\ \A p \in own \X Day : Summary[p] \in Usage
  <2>1. own \in SUBSET User
    OBVIOUS
  <2>. HIDE DEF own
  <2>. QED  BY <2>1, SummaryTerms
<1>6. S \in SUBSET (own \X Day) /\ \A p \in (own \X Day) \ S : Summary[p] = Zero
  OBVIOUS
<1>7. IsFiniteSet(S) /\ \A p \in S : Summary[p] \in Usage
  BY <1>5, <1>6, FS_Subset
<1>a. CASE u \in live
  <2>1. own = {u}
    BY <1>a
  <2>. HIDE DEF own, S, Summary
  <2>. QED
    <3>1. SumOf(Summary, own \X Day) = SumOf(daily[u], Day)
      BY <2>1, OneUser
    <3>2. SumOf(Summary, S) = SumOf(Summary, own \X Day)
      BY <1>5, <1>6, SumSubset
    <3>3. SumOf(f, rows) = SumOf(Summary, S)
      <4>. HIDE DEF rows, h, f
      <4>1. SumOf(f, {h[p] : p \in S}) = SumOf(Summary, S)
        BY <1>3, <1>4, <1>7, SumRenamed
      <4>. QED  BY <1>1, <4>1
    <3>. HIDE DEF rows, h, f
    <3>. QED  BY <1>1, <1>2, <1>a, <3>1, <3>2, <3>3
<1>b. CASE u \notin live
  <2>1. rows = {}
    BY <1>b
  <2>2. SumOf(f, {}) = Zero
    BY SumEmpty
  <2>. HIDE DEF rows, f
  <2>. QED  BY <1>1, <1>2, <1>b, <2>1, <2>2
<1>. QED  BY <1>a, <1>b

\* The calls that the accounts are compared with.
LEMMA UsedCovers ==
  ASSUME CallsInv, NEW u \in User
  PROVE  /\ Used(u, "platform") \in Usage /\ Used(u, "third_party") \in Usage
         /\ AtMost(SumOf(CallUsage, AccountedOf(u)), Used(u, "platform"))
         /\ AtMost(SumOf(CallUsage, MeteredOf(u)), Used(u, "third_party"))
         /\ tasks = {} => /\ SumOf(CallUsage, AccountedOf(u)) = Used(u, "platform")
                          /\ SumOf(CallUsage, MeteredOf(u)) = Used(u, "third_party")
<1>. DEFINE A == {r \in Calls(u, "platform") : "platform" = "third_party" \/ used[r] # None}
            M == {r \in Calls(u, "third_party") : "third_party" = "third_party" \/ used[r] # None}
<1>1. /\ A \in SUBSET Request /\ M \in SUBSET Request
      /\ AccountedOf(u) \in SUBSET A /\ MeteredOf(u) \in SUBSET M
      /\ tasks = {} => AccountedOf(u) = A /\ MeteredOf(u) = M
  BY DEF Calls, AccountedOf, MeteredOf, Accounted, Metered
<1>2. Used(u, "platform") = SumOf(CallUsage, A) /\ Used(u, "third_party") = SumOf(CallUsage, M)
  BY DEF Used
<1>3. /\ \A r \in Request : CallUsage[r] \in Usage
      /\ \A S \in SUBSET Request : IsFiniteSet(S) /\ SumOf(CallUsage, S) \in Usage
  BY CallUsageType
<1>. HIDE DEF A, M, CallUsage
<1>4. \A r \in A : CallUsage[r] \in Usage
  BY <1>1, <1>3
<1>5. \A r \in M : CallUsage[r] \in Usage
  BY <1>1, <1>3
<1>6. AtMost(SumOf(CallUsage, AccountedOf(u)), SumOf(CallUsage, A))
  BY <1>1, <1>3, <1>4, SumSubset
<1>7. AtMost(SumOf(CallUsage, MeteredOf(u)), SumOf(CallUsage, M))
  BY <1>1, <1>3, <1>5, SumSubset
<1>. QED  BY <1>1, <1>2, <1>3, <1>6, <1>7

\* The accounts of a user and the calls in them are usages.
LEMMA AccountTypes ==
  ASSUME CallsInv, NEW u \in User
  PROVE  /\ SumOf(daily[u], Day) \in Usage /\ SumOf(dailyKey[KeyOf[u]], Day) \in Usage
         /\ SumOf(RowTotal, RowsOf(u)) \in Usage /\ cycle[u] \in Nat
         /\ SumOf(CallUsage, AccountedOf(u)) \in Usage /\ SumOf(CallUsage, MeteredOf(u)) \in Usage
<1>1. RowsOf(u) \in SUBSET DOMAIN thirdParty /\ KeyOf[u] \in Key /\ TablesTypeOK
  BY DEF RowsOf, Key, CallsInv
<1>2. AccountedOf(u) \in SUBSET Request /\ MeteredOf(u) \in SUBSET Request
  BY DEF AccountedOf, MeteredOf
<1>3. cycle[u] \in Nat
  BY <1>1 DEF TablesTypeOK
<1>. QED  BY <1>1, <1>2, <1>3, RowTotalType, SummaryType, CallUsageType

\* Whatever fails, crashes or still runs, nobody's account shows more than the calls that were
\* answered: RecordUsage's writes are done at most once, for the call's user, over the
\* call's route (service/llm_proxy.go, third_party_proxy.go).
THEOREM NeverExceed == Spec => []RecordsNeverExceedCalls
<1>1. ASSUME GatewayInv PROVE RecordsNeverExceedCalls
  <2>. SUFFICES ASSUME NEW u \in User
       PROVE  /\ AtMost(Platform(Full("daily", u)), Used(u, "platform"))
              /\ AtMost(ThirdParty(Full("daily", u)), Used(u, "third_party"))
              /\ cycle[u] <= Used(u, "platform").tokens
              /\ AtMost(GetKeyUsageSummary("user", u, FirstDay, MaxDay)[KeyOf[u]],
                        Plus(Used(u, "platform"), Used(u, "third_party")))
    BY Zenon DEF RecordsNeverExceedCalls
  <2>. DEFINE a == SumOf(CallUsage, AccountedOf(u))
              m == SumOf(CallUsage, MeteredOf(u))
              pl == Used(u, "platform")
              tp == Used(u, "third_party")
              report == Full("daily", u)
  <2>1. CallsInv /\ TablesTypeOK
    BY <1>1 DEF GatewayInv, CallsInv
  <2>2. /\ AtMost(SumOf(daily[u], Day), a) /\ AtMost(SumOf(dailyKey[KeyOf[u]], Day), a)
        /\ AtMost(SumOf(RowTotal, RowsOf(u)), m) /\ cycle[u] <= a.tokens
    BY <1>1 DEF GatewayInv, LedgerBalanced, Balanced
  <2>3. pl \in Usage /\ tp \in Usage /\ AtMost(a, pl) /\ AtMost(m, tp)
    BY <2>1, UsedCovers
  <2>4. /\ SumOf(daily[u], Day) \in Usage /\ SumOf(dailyKey[KeyOf[u]], Day) \in Usage
        /\ SumOf(RowTotal, RowsOf(u)) \in Usage /\ cycle[u] \in Nat /\ a \in Usage /\ m \in Usage
    BY <2>1, AccountTypes
  <2>5. Platform(report) = SumOf(daily[u], Day) /\ ThirdParty(report) = SumOf(RowTotal, RowsOf(u))
    BY <2>1, UserTotals
  <2>6. GetKeyUsageSummary("user", u, FirstDay, MaxDay)[KeyOf[u]]
           = Plus(SumOf(dailyKey[KeyOf[u]], Day), SumOf(RowTotal, RowsOf(u)))
    BY <2>1, KeyTotal
  <2>. HIDE DEF a, m, pl, tp, report
  <2>7. AtMost(SumOf(daily[u], Day), pl) /\ AtMost(SumOf(dailyKey[KeyOf[u]], Day), pl)
        /\ AtMost(SumOf(RowTotal, RowsOf(u)), tp)
    BY <2>2, <2>3, <2>4, AtMostTransitive
  <2>8. AtMost(Plus(SumOf(dailyKey[KeyOf[u]], Day), SumOf(RowTotal, RowsOf(u))), Plus(pl, tp))
    BY <2>3, <2>4, <2>7, AtMostPlus
  <2>9. cycle[u] <= pl.tokens
    BY <2>2, <2>3, <2>4 DEF AtMost, Usage
  <2>. QED  BY <2>5, <2>6, <2>7, <2>8, <2>9 DEF pl, tp, report
<1>. QED  BY <1>1, GatewayInvariant, PTL

\* Without faults the reports of every date have every call exactly once, whatever the
\* midnights between answer and record, the cleaner's runs and the deletions of users:
\* RecordUsage's writes and the reports by day, week, month, key and row
\* (service/llm_proxy.go, stats.go, data_retention.go).
THEOREM Balance == Spec => []AccountsBalance
<1>1. ASSUME GatewayInv PROVE AccountsBalance
  <2>. SUFFICES ASSUME Quiet, faults = 0, NEW u \in User
       PROVE  /\ \A p \in Period :
                   /\ Platform(Full(p, u)) = Used(u, "platform")
                   /\ ThirdParty(Full(p, u)) = Used(u, "third_party")
              /\ GetKeyUsageSummary("user", u, FirstDay, MaxDay)[KeyOf[u]]
                   = Plus(Used(u, "platform"), Used(u, "third_party"))
              /\ Exported(ExportUsageStats("daily", "user", u, FirstDay, MaxDay))
                   = IF u \in live THEN Used(u, "platform") ELSE Zero
    BY Zenon DEF AccountsBalance
  <2>1. CallsInv /\ TablesTypeOK /\ tasks = {}
    BY <1>1 DEF GatewayInv, CallsInv, Quiet
  <2>2. /\ SumOf(CallUsage, AccountedOf(u)) = Used(u, "platform")
        /\ SumOf(CallUsage, MeteredOf(u)) = Used(u, "third_party")
    BY <2>1, UsedCovers
  <2>3. /\ SumOf(daily[u], Day) = Used(u, "platform")
        /\ SumOf(dailyKey[KeyOf[u]], Day) = Used(u, "platform")
        /\ SumOf(RowTotal, RowsOf(u)) = Used(u, "third_party")
    BY <1>1, <2>2 DEF GatewayInv, LedgerBalanced, Balanced
  <2>. QED  BY <2>1, <2>3, UserTotals, KeyTotal, ExportTotal
<1>. QED  BY <1>1, GatewayInvariant, PTL

-----------------------------------------------------------------------------
(***************************************************************************)
(* Periods: what the service computes and what the database truncates      *)
(***************************************************************************)
\* Quotient and remainder.
LEMMA Remainder ==
  ASSUME NEW n \in Nat, NEW w \in Nat \ {0}
  PROVE  /\ n \div w \in Nat /\ n % w \in 0..(w - 1)
         /\ n = w * (n \div w) + (n % w)
BY SMT

\* Multiples of w lie w apart.
LEMMA LargerQuotient ==
  ASSUME NEW w \in Nat \ {0}, NEW q \in Nat, NEW p \in Nat, q < p
  PROVE  w * q + w <= w * p
<1>1. PICK k \in Nat : p = q + 1 + k
  <2>1. p - q - 1 \in Nat /\ p = q + 1 + (p - q - 1)
    OBVIOUS
  <2>. QED  BY <2>1
<1>2. w * p = w * q + w + w * k
  BY <1>1
<1>3. w * k \in Nat /\ w * q \in Nat
  OBVIOUS
<1>. QED  BY <1>2, <1>3

\* There is one remainder.
LEMMA RemainderIsUnique ==
  ASSUME NEW n \in Nat, NEW w \in Nat \ {0}, NEW q \in Nat, NEW r \in 0..(w - 1), n = w * q + r
  PROVE  n % w = r
<1>. DEFINE p == n \div w
            s == n % w
<1>1. p \in Nat /\ s \in 0..(w - 1) /\ n = w * p + s
  BY Remainder
<1>. HIDE DEF p, s
<1>2. w * p \in Nat /\ w * q \in Nat
  BY <1>1
<1>3. ~(q < p)
  BY <1>1, <1>2, LargerQuotient
<1>4. ~(p < q)
  BY <1>1, <1>2, LargerQuotient
<1>5. p = q
  BY <1>1, <1>3, <1>4
<1>6. s = r
  BY <1>1, <1>2, <1>5
<1>. QED  BY <1>6 DEF s

\* Counting from 0, the days of t's period until t are those since it began.
LEMMA PeriodSince ==
  ASSUME NEW w \in Nat \ {0}, NEW t \in Nat, NEW d \in Nat, d <= t
  PROVE  /\ t - (t % w) \in Nat
         /\ d >= t - (t % w) <=> d - (d % w) = t - (t % w)
<1>. DEFINE q == t \div w
            r == t % w
<1>1. q \in Nat /\ r \in 0..(w - 1) /\ t = w * q + r
  BY Remainder
<1>2. d % w \in 0..(w - 1)
  BY Remainder
<1>. HIDE DEF q, r
<1>3. w * q \in Nat
  BY <1>1
<1>4. ASSUME d >= t - r PROVE d - (d % w) = t - r
  <2>1. d - w * q \in 0..(w - 1) /\ d = w * q + (d - w * q)
    BY <1>1, <1>3, <1>4
  <2>2. d % w = d - w * q
    BY <1>1, <2>1, RemainderIsUnique
  <2>. QED  BY <1>1, <1>3, <2>2
<1>5. ASSUME d - (d % w) = t - r PROVE d >= t - r
  BY <1>1, <1>2, <1>3, <1>5
<1>6. t - r \in Nat
  BY <1>1, <1>3
<1>. QED  BY <1>4, <1>5, <1>6 DEF r

\* The weekday, where the last one is w and not 0.
LEMMA LastWeekday ==
  ASSUME NEW w \in Nat \ {0}, NEW t \in Nat \ {0}
  PROVE  (IF t % w = 0 THEN w ELSE t % w) - 1 = (t - 1) % w
<1>. DEFINE q == t \div w
            r == t % w
<1>1. q \in Nat /\ r \in 0..(w - 1) /\ t = w * q + r
  BY Remainder
<1>. HIDE DEF q, r
<1>2. w * q \in Nat
  BY <1>1
<1>3. CASE r = 0
  <2>1. q # 0
    BY <1>1, <1>3
  <2>2. q - 1 \in Nat /\ w * (q - 1) = w * q - w
    BY <1>1, <2>1
  <2>3. w - 1 \in 0..(w - 1) /\ t - 1 = w * (q - 1) + (w - 1) /\ t - 1 \in Nat
    BY <1>1, <1>2, <1>3, <2>2
  <2>4. (t - 1) % w = w - 1
    BY <2>2, <2>3, RemainderIsUnique
  <2>. QED  BY <1>3, <2>4 DEF r
<1>4. CASE r # 0
  <2>1. r - 1 \in 0..(w - 1) /\ t - 1 = w * q + (r - 1) /\ t - 1 \in Nat
    BY <1>1, <1>2, <1>4
  <2>2. (t - 1) % w = r - 1
    BY <1>1, <2>1, RemainderIsUnique
  <2>. QED  BY <1>4, <2>2 DEF r
<1>. QED  BY <1>3, <1>4

\* The days that the database puts into the period of today.
PeriodDays(p) == {d \in Day : Trunc(p, d) = Trunc(p, today)}

\* ... and those that have begun.
Elapsed(p) == {d \in PeriodDays(p) : d <= today}

\* getPeriodRange begins where DATE_TRUNC does, and a report's default dates not later.
LEMMA PeriodRange ==
  ASSUME today \in Day, NEW p \in Period
  PROVE  /\ Day \cap (getPeriodRange(p)..today) = Elapsed(p)
         /\ Elapsed(p) \subseteq parseDateRange(None, None, p)
<1>. DEFINE first == getPeriodRange(p)
<1>1. /\ today \in Nat \ {0} /\ today <= MaxDay /\ MaxDay \in Nat
      /\ Day \subseteq Nat \ {0} /\ \A d \in Day : d <= MaxDay
  BY LedgerAssumption DEF Day
<1>2. WeekLength \in Nat \ {0} /\ MonthLength \in Nat \ {0}
  BY LedgerAssumption
<1>3. first = Trunc(p, today)
  <2>1. CASE p = "daily"
    BY <2>1 DEF getPeriodRange, Trunc
  <2>2. CASE p = "weekly"
    <3>1. (IF today % WeekLength = 0 THEN WeekLength ELSE today % WeekLength) - 1
            = (today - 1) % WeekLength
      BY <1>1, <1>2, LastWeekday
    <3>2. first = today - ((IF today % WeekLength = 0 THEN WeekLength ELSE today % WeekLength) - 1)
      BY <2>2 DEF getPeriodRange
    <3>3. Trunc(p, today) = today - ((today - 1) % WeekLength)
      BY <2>2 DEF Trunc
    <3>. QED  BY <3>1, <3>2, <3>3
  <2>3. CASE p = "monthly"
    BY <2>3 DEF getPeriodRange, Trunc
  <2>. QED  BY <2>1, <2>2, <2>3 DEF Period
<1>4. /\ Trunc(p, today) \in Nat \ {0}
      /\ \A d \in Nat \ {0} : d <= today =>
           (d >= Trunc(p, today) <=> Trunc(p, d) = Trunc(p, today))
  <2>0. ASSUME NEW w \in Nat \ {0}, NEW d \in Nat \ {0}, d <= today
        PROVE  /\ today - ((today - 1) % w) \in Nat \ {0}
               /\ d >= today - ((today - 1) % w)
                    <=> d - ((d - 1) % w) = today - ((today - 1) % w)
    <3>1. today - 1 \in Nat /\ d - 1 \in Nat /\ d - 1 <= today - 1
      BY <1>1, <2>0
    <3>2. /\ (today - 1) - ((today - 1) % w) \in Nat
          /\ d - 1 >= (today - 1) - ((today - 1) % w)
               <=> (d - 1) - ((d - 1) % w) = (today - 1) - ((today - 1) % w)
      BY <3>1, PeriodSince
    <3>3. (d - 1) % w \in Nat /\ (today - 1) % w \in Nat
      BY <3>1, Remainder
    <3>. QED  BY <1>1, <3>2, <3>3
  <2>1. CASE p = "daily"
    BY <1>1, <2>1 DEF Trunc
  <2>2. CASE p = "weekly"
    <3>1. \A d : Trunc(p, d) = d - ((d - 1) % WeekLength)
      BY <2>2 DEF Trunc
    <3>2. today \in Nat \ {0} /\ today <= today
      BY <1>1
    <3>3. today - ((today - 1) % WeekLength) \in Nat \ {0}
      BY <1>2, <2>0, <3>2
    <3>4. ASSUME NEW d \in Nat \ {0}, d <= today
          PROVE  d >= Trunc(p, today) <=> Trunc(p, d) = Trunc(p, today)
      <4>1. d >= today - ((today - 1) % WeekLength)
              <=> d - ((d - 1) % WeekLength) = today - ((today - 1) % WeekLength)
        BY <1>2, <2>0, <3>4
      <4>. QED  BY <3>1, <4>1
    <3>. QED  BY <3>1, <3>3, <3>4
  <2>3. CASE p = "monthly"
    <3>1. \A d : Trunc(p, d) = d - ((d - 1) % MonthLength)
      BY <2>3 DEF Trunc
    <3>2. today \in Nat \ {0} /\ today <= today
      BY <1>1
    <3>3. today - ((today - 1) % MonthLength) \in Nat \ {0}
      BY <1>2, <2>0, <3>2
    <3>4. ASSUME NEW d \in Nat \ {0}, d <= today
          PROVE  d >= Trunc(p, today) <=> Trunc(p, d) = Trunc(p, today)
      <4>1. d >= today - ((today - 1) % MonthLength)
              <=> d - ((d - 1) % MonthLength) = today - ((today - 1) % MonthLength)
        BY <1>2, <2>0, <3>4
      <4>. QED  BY <3>1, <4>1
    <3>. QED  BY <3>1, <3>3, <3>4
  <2>. QED  BY <2>1, <2>2, <2>3 DEF Period
<1>. HIDE DEF first
<1>5. first \in Nat \ {0}
  BY <1>3, <1>4
<1>6. ASSUME NEW d \in Day PROVE d \in first..today <=> d \in Elapsed(p)
  <2>1. d \in Nat \ {0}
    BY <1>1
  <2>2. d \in first..today <=> d <= today /\ d >= first
    BY <1>1, <1>5, <2>1
  <2>3. d \in Elapsed(p) <=> d <= today /\ Trunc(p, d) = Trunc(p, today)
    BY DEF Elapsed, PeriodDays
  <2>. QED  BY <1>3, <1>4, <2>1, <2>2, <2>3
<1>7. Elapsed(p) \subseteq Day
  BY DEF Elapsed, PeriodDays
<1>8. today - Window[p] \in Int /\ today - Window[p] <= first
  <2>0. ASSUME NEW w \in Nat \ {0} PROVE (today - 1) % w \in 0..(w - 1)
    <3>1. today - 1 \in Nat
      BY <1>1
    <3>. QED  BY <2>0, <3>1, Remainder
  <2>1. CASE p = "daily"
    <3>1. first = today
      BY <1>3, <2>1 DEF Trunc
    <3>2. Window["daily"] \in Nat
      BY LedgerAssumption
    <3>. QED  BY <1>1, <2>1, <3>1, <3>2
  <2>2. CASE p = "weekly"
    <3>1. first = today - ((today - 1) % WeekLength)
      BY <1>3, <2>2 DEF Trunc
    <3>2. Window["weekly"] \in Nat /\ Window["weekly"] >= WeekLength - 1
      BY LedgerAssumption
    <3>3. (today - 1) % WeekLength \in 0..(WeekLength - 1)
      BY <1>2, <2>0
    <3>. HIDE DEF first
    <3>. QED  BY <1>1, <1>2, <2>2, <3>1, <3>2, <3>3
  <2>3. CASE p = "monthly"
    <3>1. first = today - ((today - 1) % MonthLength)
      BY <1>3, <2>3 DEF Trunc
    <3>2. Window["monthly"] \in Nat /\ Window["monthly"] >= MonthLength - 1
      BY LedgerAssumption
    <3>3. (today - 1) % MonthLength \in 0..(MonthLength - 1)
      BY <1>2, <2>0
    <3>. HIDE DEF first
    <3>. QED  BY <1>1, <1>2, <2>3, <3>1, <3>2, <3>3
  <2>. QED  BY <2>1, <2>2, <2>3 DEF Period
<1>9. Elapsed(p) \subseteq (today - Window[p])..today
  <2>. SUFFICES ASSUME NEW d \in Elapsed(p) PROVE d \in (today - Window[p])..today
    OBVIOUS
  <2>1. d \in first..today /\ d \in Nat
    BY <1>1, <1>6, <1>7
  <2>. QED  BY <1>1, <1>5, <1>8, <2>1
<1>10. parseDateRange(None, None, p) = (today - Window[p])..today
  BY DEF parseDateRange
<1>. QED  BY <1>6, <1>7, <1>9, <1>10 DEF first

-----------------------------------------------------------------------------
\* A sum is that of a part and of the rest.
LEMMA SumSplit ==
  ASSUME NEW S, IsFiniteSet(S), NEW f, \A x \in S : f[x] \in Usage, NEW T \in SUBSET S
  PROVE  SumOf(f, S) = Plus(SumOf(f, T), SumOf(f, S \ T))
<1>. DEFINE h == [x \in S |-> IF x \in T THEN 1 ELSE 2]
            e == [d \in {1, 2} |-> IF d = 1 THEN SumOf(f, T) ELSE SumOf(f, S \ T)]
<1>1. IsFiniteSet({2}) /\ IsFiniteSet({2} \cup {1}) /\ {2} \cup {1} = {1, 2}
  <2>1. IsFiniteSet({2})
    BY FS_Singleton
  <2>2. IsFiniteSet({2} \cup {1})
    BY <2>1, FS_AddElement
  <2>. QED  BY <2>1, <2>2
<1>2. IsFiniteSet(T) /\ IsFiniteSet(S \ T)
  BY FS_Subset
<1>3. e[1] = SumOf(f, T) /\ e[2] = SumOf(f, S \ T) /\ e[1] \in Usage /\ e[2] \in Usage
  BY <1>2, SumType
<1>4. \A d \in {1, 2} : e[d] = SumOf(f, Fiber(S, h, d))
  <2>1. Fiber(S, h, 1) = T /\ Fiber(S, h, 2) = S \ T
    BY DEF Fiber
  <2>. QED  BY <1>3, <2>1
<1>5. \A x \in S : h[x] \in {1, 2}
  OBVIOUS
<1>. HIDE DEF h, e
<1>6. SumOf(e, {1, 2}) = SumOf(f, S)
  BY <1>1, <1>4, <1>5, SumGrouped
<1>7. SumOf(e, {2} \cup {1}) = Plus(e[1], SumOf(e, {2}))
  BY <1>1, <1>3, SumAdd
<1>8. SumOf(e, {} \cup {2}) = Plus(e[2], SumOf(e, {}))
  BY <1>3, SumAdd, FS_EmptySet
<1>9. {} \cup {2} = {2} /\ SumOf(e, {}) = Zero /\ Plus(e[2], Zero) = e[2]
  BY <1>3, SumEmpty, PlusZero
<1>. QED  BY <1>1, <1>3, <1>6, <1>7, <1>8, <1>9

\* The summaries of users, user by user.
LEMMA UserByUser ==
  ASSUME TablesTypeOK, NEW users \in SUBSET User, NEW days \in SUBSET Day,
         NEW f, \A u \in users : f[u] = SumOf(Summary, {u} \X days)
  PROVE  SumOf(f, users) = SumOf(Summary, users \X days)
<1>. DEFINE S == users \X days
            h == [x \in S |-> x[1]]
<1>1. IsFiniteSet(users)
  BY UserIsFinite
<1>2. IsFiniteSet(S) /\ \A x \in S : Summary[x] \in Usage
  BY SummaryTerms
<1>3. \A x \in S : h[x] \in users
  OBVIOUS
<1>4. \A u \in users : f[u] = SumOf(Summary, Fiber(S, h, u))
  <2>1. \A u \in users : Fiber(S, h, u) = {u} \X days
    BY DEF Fiber
  <2>. QED  BY <2>1
<1>. HIDE DEF h, S, Summary
<1>5. SumOf(f, users) = SumOf(Summary, S)
  BY <1>1, <1>2, <1>3, <1>4, SumGrouped
<1>. QED  BY <1>5 DEF S

-----------------------------------------------------------------------------
\* What the statistics show by default for the current period: all that is in the tables.
LEMMA PlatformItem ==
  ASSUME TablesTypeOK, NEW users \in SUBSET User, NEW p \in Period
  PROVE  At(PlatformStats(p, users, parseDateRange(None, None, p)), Trunc(p, today))
           = SumOf(Summary, users \X Elapsed(p))
<1>. DEFINE range == parseDateRange(None, None, p)
            days == {d \in Day \cap range : \E u \in users : daily[u][d] # Zero}
            D == {Trunc(p, d) : d \in days}
            now == {d \in days : Trunc(p, d) = Trunc(p, today)}
            e == [date \in D |-> SumOf(Summary, users \X {d \in days : Trunc(p, d) = date})]
<1>1. PlatformStats(p, users, range) = e
  BY Zenon DEF PlatformStats
<1>2. SumOf(Summary, users \X now) = SumOf(Summary, users \X Elapsed(p))
  <2>1. Elapsed(p) \in SUBSET Day
    BY DEF Elapsed, PeriodDays
  <2>2. Elapsed(p) \subseteq range /\ today \in Day /\ Day \subseteq Int
    BY PeriodRange, LedgerAssumption DEF TablesTypeOK, Day
  <2>3. \A d \in Day \cap range : d <= today
    BY <2>2 DEF parseDateRange
  <2>. HIDE DEF range
  <2>4. now \in SUBSET Elapsed(p)
    BY <2>3 DEF Elapsed, PeriodDays
  <2>5. \A u \in users, d \in Elapsed(p) \ now : daily[u][d] = Zero
    BY <2>1, <2>2 DEF Elapsed, PeriodDays
  <2>. HIDE DEF now
  <2>. QED  BY <2>1, <2>4, <2>5, IdleDays
<1>3. CASE Trunc(p, today) \in D
  <2>1. At(e, Trunc(p, today)) = SumOf(Summary, users \X now)
    BY <1>3, Zenon DEF At
  <2>. QED  BY <1>1, <1>2, <2>1
<1>4. CASE Trunc(p, today) \notin D
  <2>1. At(e, Trunc(p, today)) = Zero
    BY <1>4, Zenon DEF At
  <2>2. now = {}
    BY <1>4
  <2>3. users \X now = {}
    BY <2>2
  <2>4. SumOf(Summary, users \X now) = Zero
    BY <2>3, SumEmpty
  <2>. QED  BY <1>1, <1>2, <2>1, <2>4
<1>. QED  BY <1>3, <1>4

\* ... and of third parties.
LEMMA ThirdPartyItem ==
  ASSUME TablesTypeOK, NEW users \in SUBSET User, NEW p \in Period
  PROVE  At(ThirdPartyStats(p, users, parseDateRange(None, None, p)), Trunc(p, today))
           = SumOf(RowTotal, RowsIn(users, Elapsed(p)))
<1>. DEFINE range == parseDateRange(None, None, p)
            rows == RowsIn(users, range)
            D == {Trunc(p, row.day) : row \in rows}
            now == {row \in rows : Trunc(p, row.day) = Trunc(p, today)}
            e == [date \in D |-> SumOf(RowTotal, {row \in rows : Trunc(p, row.day) = date})]
<1>1. ThirdPartyStats(p, users, range) = e
  BY Zenon DEF ThirdPartyStats
<1>2. now = RowsIn(users, Elapsed(p))
  <2>1. \A row \in DOMAIN thirdParty : row.day \in Day
    BY DEF TablesTypeOK, ThirdPartyRow
  <2>2. Elapsed(p) \subseteq range /\ today \in Day /\ Day \subseteq Int
    BY PeriodRange, LedgerAssumption DEF TablesTypeOK, Day
  <2>3. \A d \in Day \cap range : d <= today
    BY <2>2 DEF parseDateRange
  <2>. HIDE DEF range
  <2>. QED  BY <2>1, <2>2, <2>3 DEF RowsIn, Elapsed, PeriodDays
<1>3. CASE Trunc(p, today) \in D
  <2>1. At(e, Trunc(p, today)) = SumOf(RowTotal, now)
    BY <1>3, Zenon DEF At
  <2>. QED  BY <1>1, <1>2, <2>1
<1>4. CASE Trunc(p, today) \notin D
  <2>1. At(e, Trunc(p, today)) = Zero
    BY <1>4, Zenon DEF At
  <2>2. now = {}
    BY <1>4
  <2>3. SumOf(RowTotal, now) = Zero
    BY <2>2, SumEmpty
  <2>. QED  BY <1>1, <1>2, <2>1, <2>3
<1>. QED  BY <1>3, <1>4

\* The item of the current period, as a report of some users has it.
ItemOf(users, p) == [platform   |-> SumOf(Summary, users \X Elapsed(p)),
                     thirdParty |-> SumOf(RowTotal, RowsIn(users, Elapsed(p)))]

\* What the console shows by default for the current period.
LEMMA CurrentItem ==
  ASSUME TablesTypeOK, NEW role \in {"super_admin", "dept_manager", "user"}, NEW u \in User,
         NEW p \in Period
  PROVE  Current(p, role, u) = ItemOf(Scope(role, u), p)
<1>. DEFINE users == Scope(role, u)
            now == Trunc(p, today)
            a == PlatformStats(p, users, parseDateRange(None, None, p))
            b == ThirdPartyStats(p, users, parseDateRange(None, None, p))
            report == mergeUsageStats(a, b)
<1>1. users \in SUBSET User
  BY DEF Scope, Members
<1>2. GetUsageStats(p, role, u, None, None) = report
  BY Zenon DEF GetUsageStats
<1>3. Current(p, role, u)
        = IF now \in DOMAIN report THEN report[now] ELSE [platform |-> Zero, thirdParty |-> Zero]
  BY <1>2, Zenon DEF Current
<1>. HIDE DEF users
<1>4. /\ At(a, now) = SumOf(Summary, users \X Elapsed(p))
      /\ At(b, now) = SumOf(RowTotal, RowsIn(users, Elapsed(p)))
  BY <1>1, PlatformItem, ThirdPartyItem
<1>. HIDE DEF a, b, now
<1>5. Current(p, role, u) = [platform |-> At(a, now), thirdParty |-> At(b, now)]
  <2>1. CASE now \in DOMAIN report
    BY <1>3, <2>1 DEF mergeUsageStats
  <2>2. CASE now \notin DOMAIN report
    <3>1. now \notin DOMAIN a /\ now \notin DOMAIN b
      BY <2>2 DEF mergeUsageStats
    <3>2. At(a, now) = Zero /\ At(b, now) = Zero
      BY <3>1 DEF At
    <3>. QED  BY <1>3, <2>2, <3>2
  <2>. QED  BY <2>1, <2>2
<1>. QED  BY <1>4, <1>5 DEF ItemOf, users

\* The days of the period that are still to come add nothing.
LEMMA WholePeriod ==
  ASSUME TablesTypeOK, FutureIsEmpty, NEW users \in SUBSET User, NEW p
  PROVE  /\ SumOf(Summary, users \X PeriodDays(p)) = SumOf(Summary, users \X Elapsed(p))
         /\ RowsIn(users, PeriodDays(p)) = RowsIn(users, Elapsed(p))
<1>1. PeriodDays(p) \in SUBSET Day /\ Elapsed(p) \in SUBSET PeriodDays(p)
  BY DEF PeriodDays, Elapsed
<1>2. \A u \in users, d \in PeriodDays(p) \ Elapsed(p) : daily[u][d] = Zero
  <2>1. \A d \in PeriodDays(p) \ Elapsed(p) : d > today /\ d \in Day
    BY LedgerAssumption DEF TablesTypeOK, Day, PeriodDays, Elapsed
  <2>. QED  BY <2>1 DEF FutureIsEmpty
<1>3. SumOf(Summary, users \X Elapsed(p)) = SumOf(Summary, users \X PeriodDays(p))
  BY <1>1, <1>2, IdleDays
<1>4. RowsIn(users, PeriodDays(p)) = RowsIn(users, Elapsed(p))
  BY DEF RowsIn, Elapsed, FutureIsEmpty
<1>. QED  BY <1>3, <1>4

\* The overview has the items of the current day and month.
LEMMA OverviewItems ==
  ASSUME TablesTypeOK, FutureIsEmpty, NEW u \in User, NEW role \in {"user", "super_admin"}
  PROVE  /\ GetOverview(role, u).today     = ItemOf(Scope(role, u), "daily")
         /\ GetOverview(role, u).thisMonth = ItemOf(Scope(role, u), "monthly")
<1>. DEFINE users == IF role = "user" THEN {u} ELSE User
<1>1. users = Scope(role, u)
  BY DEF Scope
<1>2. /\ GetOverview(role, u).today
           = [platform   |-> SumOf(Summary, users \X {today}),
              thirdParty |-> SumOf(RowTotal, RowsIn(users, {today}))]
      /\ GetOverview(role, u).thisMonth
           = [platform   |-> SumOf(Summary, users \X PeriodDays("monthly")),
              thirdParty |-> SumOf(RowTotal, RowsIn(users, PeriodDays("monthly")))]
  BY DEF GetOverview, PeriodDays
<1>3. Elapsed("daily") = {today}
  BY LedgerAssumption DEF Elapsed, PeriodDays, Trunc, TablesTypeOK, Day
<1>4. users \in SUBSET User
  OBVIOUS
<1>. HIDE DEF users
<1>5. /\ SumOf(Summary, users \X PeriodDays("monthly"))
           = SumOf(Summary, users \X Elapsed("monthly"))
      /\ RowsIn(users, PeriodDays("monthly")) = RowsIn(users, Elapsed("monthly"))
  BY <1>4, WholePeriod
<1>. QED  BY <1>1, <1>2, <1>3, <1>5, Zenon DEF ItemOf

-----------------------------------------------------------------------------
\* ORDER BY and LIMIT change no row, and leave all when they are not more than the limit.
LEMMA LimitedRows ==
  ASSUME NEW rows, NEW limit \in Nat, NEW ranking \in Limited(rows, limit)
  PROVE  /\ DOMAIN ranking \subseteq DOMAIN rows
         /\ \A x \in DOMAIN ranking : ranking[x] = rows[x]
         /\ IsFiniteSet(DOMAIN rows) /\ Cardinality(DOMAIN rows) <= limit =>
              DOMAIN ranking = DOMAIN rows
<1>1. PICK top \in SUBSET DOMAIN rows :
         /\ top # DOMAIN rows => Cardinality(top) = limit
         /\ ranking = [x \in top |-> rows[x]]
  BY Zenon DEF Limited
<1>2. DOMAIN ranking = top
  BY <1>1
<1>3. ASSUME IsFiniteSet(DOMAIN rows), Cardinality(DOMAIN rows) <= limit PROVE top = DOMAIN rows
  <2>1. CASE top # DOMAIN rows
    <3>1. Cardinality(top) = limit
      BY <1>1, <2>1
    <3>2. /\ Cardinality(top) < Cardinality(DOMAIN rows)
          /\ Cardinality(DOMAIN rows) \in Nat /\ Cardinality(top) \in Nat
      BY <1>1, <1>3, <2>1, FS_Subset, FS_CardinalityType
    <3>. QED  BY <1>3, <3>1, <3>2
  <2>. QED  BY <2>1
<1>. QED  BY <1>1, <1>2, <1>3

\* What a ranking shows of users is what they have used in the period.
Shows(ranking, p) ==
  \A u \in DOMAIN ranking : ranking[u] = SumOf(Summary, {u} \X Elapsed(p))

\* A ranking shows what its users have used, and one that is not cut adds up to it.
LEMMA UserRanking ==
  ASSUME TablesTypeOK, NEW p \in Period, NEW dep, NEW limit \in Nat,
         NEW ranking \in GetUserRanking(p, dep, limit)
  PROVE  /\ DOMAIN ranking \subseteq User
         /\ Shows(ranking, p)
         /\ limit = Cardinality(User) =>
              Total(ranking) = SumOf(Summary, (Members(dep) \cap live) \X Elapsed(p))
<1>. DEFINE days == Day \cap (getPeriodRange(p)..today)
            all == Members(dep) \cap live
            ranked == {u \in all : \E d \in days : daily[u][d] # Zero}
            rows == [u \in ranked |-> SumOf(daily[u], days)]
<1>1. today \in Day
  BY DEF TablesTypeOK
<1>2. days = Elapsed(p) /\ days \in SUBSET Day
  BY <1>1, PeriodRange
<1>3. ranking \in Limited(rows, limit)
  BY Zenon DEF GetUserRanking
<1>4. all \in SUBSET User /\ ranked \in SUBSET User /\ ranked \in SUBSET all
  BY DEF Members
<1>5. DOMAIN rows = ranked /\ \A u \in ranked : rows[u] = SumOf(daily[u], days)
  OBVIOUS
<1>6. \A u \in all, d \in days : u \notin ranked => daily[u][d] = Zero
  OBVIOUS
<1>. HIDE DEF days, all, ranked, rows
<1>7. /\ DOMAIN ranking \subseteq ranked
      /\ \A u \in DOMAIN ranking : ranking[u] = rows[u]
      /\ IsFiniteSet(ranked) /\ Cardinality(ranked) <= limit => DOMAIN ranking = ranked
  BY <1>3, <1>5, LimitedRows
<1>8. \A u \in DOMAIN ranking : ranking[u] = SumOf(Summary, {u} \X days)
  <2>. SUFFICES ASSUME NEW u \in DOMAIN ranking PROVE ranking[u] = SumOf(Summary, {u} \X days)
    OBVIOUS
  <2>1. u \in User /\ ranking[u] = SumOf(daily[u], days)
    BY <1>4, <1>5, <1>7
  <2>2. SumOf(Summary, {u} \X days) = SumOf(daily[u], days)
    BY <1>2, <2>1, OneUser
  <2>. QED  BY <2>1, <2>2
<1>9. ASSUME limit = Cardinality(User) PROVE Total(ranking) = SumOf(Summary, all \X days)
  <2>1. IsFiniteSet(ranked) /\ Cardinality(ranked) <= limit
    BY <1>4, <1>9, UserIsFinite, FS_Subset
  <2>2. DOMAIN ranking = ranked
    BY <1>7, <2>1
  <2>3. SumOf(ranking, ranked) = SumOf(Summary, ranked \X days)
    BY <1>2, <1>4, <1>8, <2>2, UserByUser
  <2>4. SumOf(Summary, ranked \X days) = SumOf(Summary, all \X days)
    <3>1. IsFiniteSet(all \X days) /\ \A x \in all \X days : Summary[x] \in Usage
      BY <1>2, <1>4, SummaryTerms
    <3>2. ranked \X days \in SUBSET (all \X days)
      BY <1>4
    <3>3. \A x \in (all \X days) \ (ranked \X days) : Summary[x] = Zero
      BY <1>2, <1>4, <1>6, SummaryOf
    <3>. HIDE DEF Summary
    <3>. QED  BY <3>1, <3>2, <3>3, SumSubset
  <2>. QED  BY <2>2, <2>3, <2>4, Zenon DEF Total
<1>. QED  BY <1>2, <1>4, <1>7, <1>8, <1>9 DEF all, Shows

\* A department's place in a ranking shows what its members have used.
LEMMA DepartmentRanking ==
  ASSUME TablesTypeOK, NEW p \in Period, NEW limit \in Nat,
         NEW ranking \in GetDeptRanking(p, limit), NEW dep \in DOMAIN ranking
  PROVE  dep # NoDepartment /\ ranking[dep] = SumOf(Summary, Members(dep) \X Elapsed(p))
<1>. DEFINE days == Day \cap (getPeriodRange(p)..today)
            active == {u \in live : \E d \in days : daily[u][d] # Zero}
            ranked == {DepartmentOf[u] : u \in active} \ {NoDepartment}
            rows == [c \in ranked |-> SumOf(Summary, Members(c) \X days)]
<1>1. today \in Day
  BY DEF TablesTypeOK
<1>2. days = Elapsed(p)
  BY <1>1, PeriodRange
<1>3. ranking \in Limited(rows, limit)
  BY Zenon DEF GetDeptRanking
<1>4. /\ DOMAIN rows = ranked /\ NoDepartment \notin ranked
      /\ \A c \in ranked : rows[c] = SumOf(Summary, Members(c) \X days)
  OBVIOUS
<1>. HIDE DEF days, active, ranked, rows
<1>5. dep \in ranked /\ ranking[dep] = rows[dep]
  BY <1>3, <1>4, LimitedRows
<1>. QED  BY <1>2, <1>4, <1>5

\* Rankings of users and of departments under any limit, the overview and the statistics show
\* the same for the current day, week and month: getPeriodRange (stats.go) and DATE_TRUNC
\* (repository/usage.go) begin a period on the same day, for weeks and months of any length,
\* the default dates of a report cover it, and what a complete ranking lacks are deleted users.
THEOREM Agree == Spec => []ReportsAgree
<1>1. ASSUME GatewayInv PROVE ReportsAgree
  <2>. DEFINE uncut == Cardinality(User)
              Own(p) == [u \in User |-> Current(p, "user", u).platform]
              Managed(p) == [u \in User |-> Current(p, "dept_manager", u).platform]
  <2>1. TablesTypeOK /\ FutureIsEmpty
    BY <1>1 DEF GatewayInv, CallsInv
  <2>2. uncut \in Nat /\ 1..uncut \subseteq Nat
    BY UserIsFinite, FS_CardinalityType
  <2>3. \A u \in User : /\ Scope("super_admin", u) = User /\ Scope("user", u) = {u}
                        /\ Scope("dept_manager", u) = Members(DepartmentOf[u])
    BY DEF Scope
  <2>4. \A users, p : ItemOf(users, p).platform = SumOf(Summary, users \X Elapsed(p))
    BY DEF ItemOf
  <2>5. ASSUME NEW p \in Period, NEW u \in User
        PROVE  /\ Own(p)[u] = SumOf(Summary, {u} \X Elapsed(p))
               /\ Managed(p)[u] = SumOf(Summary, Members(DepartmentOf[u]) \X Elapsed(p))
               /\ Current(p, "super_admin", u).platform = SumOf(Summary, User \X Elapsed(p))
    <3>1. /\ Current(p, "user", u) = ItemOf({u}, p)
          /\ Current(p, "dept_manager", u) = ItemOf(Members(DepartmentOf[u]), p)
          /\ Current(p, "super_admin", u) = ItemOf(User, p)
      BY <2>1, <2>3, CurrentItem
    <3>. QED  BY <2>4, <3>1, Zenon
  <2>. HIDE DEF Own, Managed, uncut
  <2>a. ASSUME NEW p \in Period, NEW department, NEW limit \in Nat,
               NEW ranking \in GetUserRanking(p, department, limit), NEW u \in DOMAIN ranking
        PROVE  u \in User /\ ranking[u] = SumOf(Summary, {u} \X Elapsed(p))
    <3>1. DOMAIN ranking \subseteq User
      BY <2>1, UserRanking
    <3>2. Shows(ranking, p)
      BY <2>1, UserRanking
    <3>. QED  BY <3>1, <3>2 DEF Shows
  <2>6. ASSUME NEW p \in Period, NEW limit \in 1..uncut
        PROVE  /\ \A department \in Department \cup {NoDepartment} :
                    \A ranking \in GetUserRanking(p, department, limit) :
                      \A u \in DOMAIN ranking : ranking[u] = Own(p)[u]
               /\ \A ranking \in GetDeptRanking(p, limit), u \in User :
                    DepartmentOf[u] \in DOMAIN ranking => ranking[DepartmentOf[u]] = Managed(p)[u]
    <3>0. limit \in Nat
      BY <2>2
    <3>1. ASSUME NEW department, NEW ranking \in GetUserRanking(p, department, limit),
                 NEW u \in DOMAIN ranking
          PROVE  ranking[u] = Own(p)[u]
      <4>1. u \in User /\ ranking[u] = SumOf(Summary, {u} \X Elapsed(p))
        BY <2>a, <3>0
      <4>. QED  BY <2>5, <4>1
    <3>2. ASSUME NEW ranking \in GetDeptRanking(p, limit), NEW u \in User,
                 DepartmentOf[u] \in DOMAIN ranking
          PROVE  ranking[DepartmentOf[u]] = Managed(p)[u]
      <4>1. ranking[DepartmentOf[u]] = SumOf(Summary, Members(DepartmentOf[u]) \X Elapsed(p))
        BY <2>1, <3>0, <3>2, DepartmentRanking
      <4>. QED  BY <2>5, <4>1
    <3>. QED  BY <3>1, <3>2
  <2>7. ASSUME NEW p \in Period, NEW u \in User, DepartmentOf[u] # NoDepartment,
               NEW ranking \in GetUserRanking(p, DepartmentOf[u], uncut)
        PROVE  Total(ranking) = Managed(p)[u]
    <3>1. Members(DepartmentOf[u]) \cap live = Members(DepartmentOf[u])
      BY <2>7 DEF Members
    <3>2. Total(ranking) = SumOf(Summary, (Members(DepartmentOf[u]) \cap live) \X Elapsed(p))
      BY <2>1, <2>2, <2>7, UserRanking DEF uncut
    <3>. QED  BY <2>5, <3>1, <3>2
  <2>8. ASSUME NEW p \in Period, NEW u \in User,
               NEW ranking \in GetUserRanking(p, NoDepartment, uncut)
        PROVE  Current(p, "super_admin", u).platform
                 = Plus(Total(ranking), SumOf(Own(p), User \ live))
    <3>. DEFINE days == Elapsed(p)
    <3>1. days \in SUBSET Day
      BY DEF Elapsed, PeriodDays
    <3>2. Total(ranking) = SumOf(Summary, (Members(NoDepartment) \cap live) \X days)
      BY <2>1, <2>2, <2>8, UserRanking DEF uncut
    <3>3. Members(NoDepartment) = User
      BY DEF Members
    <3>4. \A v \in User : Own(p)[v] = SumOf(Summary, {v} \X days)
      BY <2>5
    <3>. HIDE DEF days
    <3>5. \A users \in SUBSET User : SumOf(Own(p), users) = SumOf(Summary, users \X days)
      BY <2>1, <3>1, <3>4, UserByUser
    <3>6. \A v \in User : Own(p)[v] \in Usage
      <4>1. \A v \in User : {v} \in SUBSET User
        OBVIOUS
      <4>2. \A v \in User : SumOf(Summary, {v} \X days) \in Usage
        BY <2>1, <3>1, <4>1, SummaryTerms
      <4>. QED  BY <3>4, <4>2
    <3>7. SumOf(Own(p), User) = Plus(SumOf(Own(p), User \cap live), SumOf(Own(p), User \ (User \cap live)))
      BY <3>6, UserIsFinite, SumSplit
    <3>8. User \ (User \cap live) = User \ live
      OBVIOUS
    <3>9. Current(p, "super_admin", u).platform = SumOf(Summary, User \X days)
      BY <2>5 DEF days
    <3>. QED  BY <3>2, <3>3, <3>5, <3>7, <3>8, <3>9
  <2>9. ASSUME NEW role \in {"user", "super_admin"}, NEW u \in User
        PROVE  /\ GetOverview(role, u).today     = Current("daily", role, u)
               /\ GetOverview(role, u).thisMonth = Current("monthly", role, u)
    <3>1. "daily" \in Period /\ "monthly" \in Period
      BY DEF Period
    <3>2. /\ Current("daily", role, u) = ItemOf(Scope(role, u), "daily")
          /\ Current("monthly", role, u) = ItemOf(Scope(role, u), "monthly")
      BY <2>1, <3>1, CurrentItem
    <3>. QED  BY <2>1, <3>2, OverviewItems
  <2>. QED  BY <2>6, <2>7, <2>8, <2>9, Zenon DEF ReportsAgree, Own, Managed, uncut
<1>. QED  BY <1>1, GatewayInvariant, PTL
=============================================================================
