------------------------ MODULE StreamAdapterProofs ------------------------
(***************************************************************************)
(* Proofs about a call through the protocol adapter (StreamAdapter), for   *)
(* every set of requests, shapes of chunks and reports that the protocols  *)
(* allow, and streams of any length.  In this order:                       *)
(*   - the operators: sequences, folds, what an assembled message is;      *)
(*   - WritesLegalStream: the adapter refines MessageStream (StreamInv);   *)
(*   - TokensKept: what is recorded is what was reported (TokensInv);      *)
(*   - ConversationLegal and NothingLost: the conversion of a request      *)
(*     (RequestInv).                                                       *)
(***************************************************************************)
EXTENDS StreamAdapter, FiniteSetTheorems, SequenceTheorems, TLAPS

-----------------------------------------------------------------------------
(***************************************************************************)
(* Induction, stated for a set of good values because no prover here       *)
(* instantiates a predicate.                                               *)
(***************************************************************************)
\* Induction over the subsets of a finite set: G has them all.
LEMMA SubsetInduction ==
  ASSUME NEW S, IsFiniteSet(S), NEW G, {} \in G,
         \A T \in SUBSET S : \A x \in S \ T : T \in G => T \cup {x} \in G
  PROVE  \A T \in SUBSET S : T \in G
<1>. DEFINE Bad == {T \in SUBSET S : T \notin G}
<1>1. SUFFICES ASSUME Bad # {} PROVE FALSE
  OBVIOUS
<1>2. IsWellFoundedOn(StrictSubsetOrdering(S), SUBSET S)
  BY FS_StrictSubsetOrderingWellFounded, FS_FiniteSubsetsOfFinite
<1>3. PICK T \in Bad : \A U \in Bad : <<U, T>> \notin StrictSubsetOrdering(S)
  BY <1>1, <1>2, WFMin
<1>4. T # {}
  OBVIOUS
<1>5. PICK x \in T : TRUE
  BY <1>4
<1>6. T \ {x} \notin Bad
  BY <1>3, <1>5 DEF StrictSubsetOrdering
<1>7. T \ {x} \in G /\ (T \ {x}) \cup {x} = T
  BY <1>5, <1>6
<1>. QED
  BY <1>5, <1>7

\* Induction up to a number: G has every number up to n.
LEMMA UpTo ==
  ASSUME NEW n \in Nat, NEW G, 0 \in G, \A i \in 0 .. n - 1 : i \in G => i + 1 \in G
  PROVE  \A i \in 0 .. n : i \in G
<1>. SUFFICES ASSUME NEW m \in 0 .. n PROVE m \in G
  OBVIOUS
<1>. DEFINE D == 1 .. m
            Sizes == {T \in SUBSET D : Cardinality(T) \in G}
<1>1. IsFiniteSet(D) /\ Cardinality(D) = m
  BY FS_Interval
<1>2. {} \in Sizes
  BY FS_EmptySet
<1>. HIDE DEF D
<1>3. ASSUME NEW T \in SUBSET D, NEW x \in D \ T, T \in Sizes
      PROVE  T \cup {x} \in Sizes
  <2>1. IsFiniteSet(T) /\ Cardinality(T) \in Nat /\ Cardinality(T \cup {x}) = Cardinality(T) + 1
    BY <1>1, <1>3, FS_Subset, FS_CardinalityType, FS_AddElement
  <2>2. Cardinality(T \cup {x}) <= m
    BY <1>1, FS_Subset
  <2>3. Cardinality(T) \in 0 .. n - 1
    BY <2>1, <2>2
  <2>. QED  BY <1>3, <2>1, <2>3
<1>4. D \in Sizes
  <2>. HIDE DEF Sizes
  <2>. QED  BY <1>1, <1>2, <1>3, SubsetInduction
<1>. QED  BY <1>1, <1>4

\* Induction over sequences: G has them all.
LEMMA SeqInduction ==
  ASSUME NEW S, NEW G, <<>> \in G, \A s \in Seq(S), e \in S : s \in G => Append(s, e) \in G
  PROVE  \A s \in Seq(S) : s \in G
<1>. SUFFICES ASSUME NEW t \in Seq(S) PROVE t \in G
  OBVIOUS
<1>. DEFINE Fine == {n \in 0 .. Len(t) : \A s \in Seq(S) : Len(s) = n => s \in G}
<1>1. 0 \in Fine
  OBVIOUS
<1>2. ASSUME NEW i \in 0 .. Len(t) - 1, i \in Fine PROVE i + 1 \in Fine
  <2>. SUFFICES ASSUME NEW s \in Seq(S), Len(s) = i + 1 PROVE s \in G
    OBVIOUS
  <2>1. s # <<>>
    OBVIOUS
  <2>2. \E u \in Seq(S), e \in S : s = Append(u, e)
    BY <2>1, SequenceEmptyOrAppend, Zenon
  <2>3. PICK u \in Seq(S), e \in S : s = Append(u, e)
    BY <2>2
  <2>4. Len(u) = i
    BY <2>3
  <2>. QED  BY <1>2, <2>3, <2>4
<1>3. Len(t) \in Nat
  OBVIOUS
<1>4. \A i \in 0 .. Len(t) - 1 : i \in Fine => i + 1 \in Fine
  BY <1>2
<1>5. \A i \in 0 .. Len(t) : i \in Fine
  <2>. HIDE DEF Fine
  <2>. QED  BY <1>1, <1>4, <1>3, UpTo, Zenon
<1>. QED  BY <1>5, <1>3

-----------------------------------------------------------------------------
(***************************************************************************)
(* FlattenSeq: a CHOOSE of the function that solves its recursion.         *)
(***************************************************************************)
Flattens(f, ss) == f = [i \in 1 .. Len(ss) |-> IF i = 1 THEN ss[i] ELSE f[i - 1] \o ss[i]]

\* FlattenSeq unfolded down to its CHOOSE.
LEMMA FlattenDef ==
  ASSUME NEW ss, Len(ss) # 0
  PROVE  FlattenSeq(ss) = (CHOOSE f : Flattens(f, ss))[Len(ss)]
BY Zenon DEF FlattenSeq, Flattens

\* The recursion has a solution.
LEMMA FlattenExists ==
  ASSUME NEW S, NEW ss \in Seq(Seq(S))
  PROVE  \E f : Flattens(f, ss)
<1>. DEFINE n == Len(ss)
            Up(k, f) == \A i \in 1 .. k : f[i] = IF i = 1 THEN ss[i] ELSE f[i - 1] \o ss[i]
            G == {k \in 0 .. n : \E f : Up(k, f)}
<1>1. 0 \in G
  <2>1. Up(0, ss)
    OBVIOUS
  <2>. QED  BY <2>1
<1>2. \A k \in 0 .. n - 1 : k \in G => k + 1 \in G
  <2>. SUFFICES ASSUME NEW k \in 0 .. n - 1, k \in G PROVE k + 1 \in G
    OBVIOUS
  <2>1. PICK f : Up(k, f)
    OBVIOUS
  <2>. DEFINE g == [i \in 1 .. k + 1 |->
                      IF i <= k THEN f[i] ELSE IF i = 1 THEN ss[i] ELSE f[i - 1] \o ss[i]]
  <2>2. ASSUME NEW i \in 1 .. k + 1
        PROVE  g[i] = IF i = 1 THEN ss[i] ELSE g[i - 1] \o ss[i]
    <3>1. CASE i <= k
      <4>1. f[i] = IF i = 1 THEN ss[i] ELSE f[i - 1] \o ss[i]
        BY <2>1, <3>1
      <4>2. g[i] = f[i]
        BY <3>1
      <4>3. i # 1 => g[i - 1] = f[i - 1]
        BY <3>1
      <4>. QED  BY <4>1, <4>2, <4>3
    <3>2. CASE i = k + 1
      <4>1. g[i] = IF i = 1 THEN ss[i] ELSE f[i - 1] \o ss[i]
        BY <3>2
      <4>2. i # 1 => g[i - 1] = f[i - 1]
        BY <3>2
      <4>. QED  BY <4>1, <4>2
    <3>. QED  BY <3>1, <3>2
  <2>. HIDE DEF g
  <2>3. Up(k + 1, g)
    BY <2>2
  <2>. QED  BY <2>3
<1>3. n \in Nat
  OBVIOUS
<1>4. \A i \in 0 .. n : i \in G
  <2>1. \A i \in 0 .. n - 1 : i \in G => i + 1 \in G
    BY <1>2, Zenon
  <2>. HIDE DEF G, Up, n
  <2>. QED  BY <1>1, <2>1, <1>3, UpTo, Zenon
<1>5. \E f : Up(n, f)
  <2>. HIDE DEF Up, n
  <2>1. n \in 0 .. n
    BY <1>3
  <2>2. n \in G
    BY <1>4, <2>1, Zenon
  <2>. QED  BY <2>2, Zenon
<1>. PICK f : Up(n, f)
  BY <1>5
<1>. DEFINE h == [i \in 1 .. n |-> f[i]]
<1>6. \A i \in 1 .. n : h[i] = f[i] /\ (i # 1 => h[i - 1] = f[i - 1])
  OBVIOUS
<1>7. h = [i \in 1 .. n |-> IF i = 1 THEN ss[i] ELSE h[i - 1] \o ss[i]]
  <2>1. \A i \in 1 .. n : h[i] = IF i = 1 THEN ss[i] ELSE h[i - 1] \o ss[i]
    <3>. HIDE DEF h
    <3>. QED  BY <1>6
  <2>2. h = [i \in 1 .. n |-> h[i]]
    OBVIOUS
  <2>. HIDE DEF h
  <2>. QED  BY <2>1, <2>2
<1>. QED  BY <1>7, Zenon DEF Flattens

\* What FlattenSeq is.
LEMMA FlattenRec ==
  ASSUME NEW S, NEW ss \in Seq(Seq(S)), ss # <<>>
  PROVE  \E f : Flattens(f, ss) /\ FlattenSeq(ss) = f[Len(ss)]
<1>. DEFINE f == CHOOSE f : Flattens(f, ss)
<1>1. \E h : Flattens(h, ss)
  BY FlattenExists
<1>2. Flattens(f, ss)
  BY <1>1, Zenon
<1>3. Len(ss) # 0
  OBVIOUS
<1>. QED  BY <1>2, <1>3, FlattenDef, Zenon

\* Nothing is flattened to nothing ...
LEMMA FlattenEmpty == FlattenSeq(<<>>) = <<>>
BY DEF FlattenSeq

\* ... and one more sequence is added at the end.
LEMMA FlattenAppend ==
  ASSUME NEW S, NEW ss \in Seq(Seq(S)), NEW s \in Seq(S)
  PROVE  FlattenSeq(Append(ss, s)) = FlattenSeq(ss) \o s
<1>. DEFINE n == Len(ss)
            tt == Append(ss, s)
<1>1. n \in Nat /\ tt \in Seq(Seq(S)) /\ tt # <<>> /\ Len(tt) = n + 1
  <2>1. n \in Nat
    OBVIOUS
  <2>2. tt \in Seq(Seq(S)) /\ Len(tt) = n + 1
    BY AppendProperties
  <2>3. tt # <<>>
    BY AppendProperties
  <2>. QED  BY <2>1, <2>2, <2>3
<1>2. tt[n + 1] = s /\ \A i \in 1 .. n : tt[i] = ss[i]
  OBVIOUS
<1>. HIDE DEF tt
<1>3. PICK f : Flattens(f, tt) /\ FlattenSeq(tt) = f[n + 1]
  BY <1>1, FlattenRec
<1>4. CASE ss = <<>>
  <2>1. FlattenSeq(ss) = <<>> /\ n = 0
    BY <1>4, FlattenEmpty
  <2>2. f[1] = s
    BY <1>1, <1>2, <1>3, <2>1 DEF Flattens
  <2>. QED  BY <1>3, <2>1, <2>2 DEF tt
<1>5. CASE ss # <<>>
  <2>1. PICK g : Flattens(g, ss) /\ FlattenSeq(ss) = g[n]
    BY <1>5, FlattenRec
  <2>2. n # 0
    BY <1>5
  <2>. DEFINE G == {i \in 0 .. n : i = 0 \/ f[i] = g[i]}
  <2>3. 0 \in G
    BY <1>1
  <2>4. ASSUME NEW i \in 1 .. n
        PROVE  /\ f[i] = IF i = 1 THEN tt[i] ELSE f[i - 1] \o tt[i]
               /\ g[i] = IF i = 1 THEN ss[i] ELSE g[i - 1] \o ss[i]
    <3>1. i \in 1 .. Len(tt) /\ i \in 1 .. Len(ss)
      BY <1>1
    <3>. QED  BY <1>3, <2>1, <3>1 DEF Flattens
  <2>5. \A i \in 0 .. n - 1 : i \in G => i + 1 \in G
    <3>. HIDE DEF n
    <3>. SUFFICES ASSUME NEW i \in 0 .. n - 1, i \in G PROVE i + 1 \in G
      OBVIOUS
    <3>1. i + 1 \in 1 .. n /\ tt[i + 1] = ss[i + 1]
      BY <1>1, <1>2
    <3>2. (i + 1) - 1 = i
      BY <1>1
    <3>. QED  BY <2>4, <3>1, <3>2
  <2>6. \A i \in 0 .. n : i \in G
    <3>1. n \in Nat
      BY <1>1
    <3>. HIDE DEF G
    <3>. QED  BY <3>1, <2>3, <2>5, UpTo, Zenon
  <2>7. f[n + 1] = f[n] \o s
    <3>1. n + 1 \in 1 .. Len(tt) /\ n + 1 # 1 /\ (n + 1) - 1 = n
      BY <1>1, <2>2
    <3>2. f[n + 1] = IF n + 1 = 1 THEN tt[n + 1] ELSE f[(n + 1) - 1] \o tt[n + 1]
      BY <1>3, <3>1 DEF Flattens
    <3>. QED  BY <3>1, <3>2, <1>2
  <2>8. f[n] = g[n]
    <3>1. n \in 0 .. n
      BY <1>1
    <3>. HIDE DEF n
    <3>. QED  BY <2>2, <2>6, <3>1
  <2>. QED  BY <1>3, <2>1, <2>7, <2>8 DEF tt
<1>. QED  BY <1>4, <1>5

\* It is a sequence of the same elements.
LEMMA FlattenType ==
  ASSUME NEW S
  PROVE  \A ss \in Seq(Seq(S)) : FlattenSeq(ss) \in Seq(S)
<1>. DEFINE G == {ss \in Seq(Seq(S)) : FlattenSeq(ss) \in Seq(S)}
<1>1. <<>> \in G
  <2>1. <<>> \in Seq(Seq(S)) /\ <<>> \in Seq(S)
    OBVIOUS
  <2>. QED  BY <2>1, FlattenEmpty
<1>2. \A ss \in Seq(Seq(S)), s \in Seq(S) : ss \in G => Append(ss, s) \in G
  <2>. SUFFICES ASSUME NEW ss \in Seq(Seq(S)), NEW s \in Seq(S), ss \in G PROVE Append(ss, s) \in G
    OBVIOUS
  <2>1. FlattenSeq(Append(ss, s)) = FlattenSeq(ss) \o s /\ FlattenSeq(ss) \in Seq(S)
    BY FlattenAppend
  <2>2. FlattenSeq(ss) \o s \in Seq(S) /\ Append(ss, s) \in Seq(Seq(S))
    BY <2>1
  <2>. QED  BY <2>1, <2>2
<1>3. \A ss \in Seq(Seq(S)) : ss \in G
  <2>. HIDE DEF G
  <2>. QED  BY <1>1, <1>2, SeqInduction, Zenon
<1>. QED  BY <1>3

\* The elements of two sequences, one after the other.
LEMMA ConcatRange ==
  ASSUME NEW S, NEW a \in Seq(S), NEW b \in Seq(S)
  PROVE  ToSet(a \o b) = ToSet(a) \cup ToSet(b)
<1>1. DOMAIN (a \o b) = 1 .. Len(a) + Len(b) /\ DOMAIN a = 1 .. Len(a) /\ DOMAIN b = 1 .. Len(b)
  OBVIOUS
<1>2. ASSUME NEW i \in DOMAIN b PROVE b[i] \in ToSet(a \o b)
  <2>1. (a \o b)[Len(a) + i] = b[i] /\ Len(a) + i \in DOMAIN (a \o b)
    BY <1>1
  <2>. QED  BY <2>1 DEF ToSet
<1>3. ASSUME NEW i \in DOMAIN a PROVE a[i] \in ToSet(a \o b)
  <2>1. (a \o b)[i] = a[i] /\ i \in DOMAIN (a \o b)
    BY <1>1
  <2>. QED  BY <2>1 DEF ToSet
<1>4. ASSUME NEW i \in DOMAIN (a \o b) PROVE (a \o b)[i] \in ToSet(a) \cup ToSet(b)
  BY <1>1 DEF ToSet
<1>. QED  BY <1>2, <1>3, <1>4 DEF ToSet

\* What is in it.
LEMMA FlattenRange ==
  ASSUME NEW S
  PROVE  \A ss \in Seq(Seq(S)) : ToSet(FlattenSeq(ss)) = UNION {ToSet(ss[i]) : i \in DOMAIN ss}
<1>. DEFINE All(ss) == UNION {ToSet(ss[i]) : i \in DOMAIN ss}
            G == {ss \in Seq(Seq(S)) : ToSet(FlattenSeq(ss)) = All(ss)}
<1>1. <<>> \in G
  <2>1. <<>> \in Seq(Seq(S)) /\ ToSet(<<>>) = {} /\ All(<<>>) = {}
    BY DEF ToSet
  <2>. QED  BY <2>1, FlattenEmpty
<1>2. \A ss \in Seq(Seq(S)), s \in Seq(S) : ss \in G => Append(ss, s) \in G
  <2>. SUFFICES ASSUME NEW ss \in Seq(Seq(S)), NEW s \in Seq(S), ss \in G PROVE Append(ss, s) \in G
    OBVIOUS
  <2>1. FlattenSeq(ss) \in Seq(S) /\ FlattenSeq(Append(ss, s)) = FlattenSeq(ss) \o s
    BY FlattenType, FlattenAppend
  <2>2. ToSet(FlattenSeq(ss) \o s) = ToSet(FlattenSeq(ss)) \cup ToSet(s)
    BY <2>1, ConcatRange
  <2>3. All(Append(ss, s)) = All(ss) \cup ToSet(s)
    <3>. DEFINE tt == Append(ss, s)
    <3>1. DOMAIN tt = (DOMAIN ss) \cup {Len(ss) + 1}
      OBVIOUS
    <3>2. tt[Len(ss) + 1] = s /\ \A i \in DOMAIN ss : tt[i] = ss[i]
      OBVIOUS
    <3>. HIDE DEF tt
    <3>3. All(tt) = All(ss) \cup ToSet(s)
      BY <3>1, <3>2
    <3>. QED  BY <3>3 DEF tt
  <2>4. Append(ss, s) \in Seq(Seq(S))
    OBVIOUS
  <2>. QED  BY <2>1, <2>2, <2>3, <2>4
<1>3. \A ss \in Seq(Seq(S)) : ss \in G
  <2>. HIDE DEF G
  <2>. QED  BY <1>1, <1>2, SeqInduction, Zenon
<1>. QED  BY <1>3

Late(s) == {t \in DOMAIN s.tools : /\ ~s.tools[t].started
                                   /\ \/ s.tools[t].pending # <<>>
                                      \/ s.tools[t].id # None
                                      \/ s.tools[t].name # None}
LateIndices(s) == Ascending({s.tools[t].index : t \in Late(s)})

Assembles(f, events) ==
    f[0] = Unread /\ \A i \in 1 .. Len(events) : f[i] = Read(f[i - 1], events[i])

\* What a reader has assembled, one event after the other.
LEMMA AssembleFold ==
  ASSUME NEW events, Len(events) \in Nat
  PROVE  \E f : Assembles(f, events) /\ Assemble(events) = f[Len(events)]
<1>. DEFINE n == Len(events)
            Step(x, i) == Read(x, events[i])
            Up(k, f) == f[0] = Unread /\ \A i \in 1 .. k : f[i] = Step(f[i - 1], i)
            G == {k \in 0 .. n : \E f : Up(k, f)}
            Solves(f) == f = [i \in 0 .. n |-> IF i = 0 THEN Unread ELSE Step(f[i - 1], i)]
<1>1. n \in Nat
  OBVIOUS
<1>2. 0 \in G
  <2>. DEFINE f == [i \in {0} |-> Unread]
  <2>1. Up(0, f) /\ 0 \in 0 .. n
    BY <1>1
  <2>. HIDE DEF Up, f
  <2>. QED  BY <2>1
<1>3. \A k \in 0 .. n - 1 : k \in G => k + 1 \in G
  <2>. SUFFICES ASSUME NEW k \in 0 .. n - 1, k \in G PROVE k + 1 \in G
    OBVIOUS
  <2>. HIDE DEF Step
  <2>1. PICK f : Up(k, f)
    OBVIOUS
  <2>. DEFINE g == [i \in 0 .. k + 1 |-> IF i <= k THEN f[i] ELSE Step(f[k], i)]
  <2>2. g[0] = Unread
    BY <2>1
  <2>3. ASSUME NEW i \in 1 .. k + 1 PROVE g[i] = Step(g[i - 1], i)
    <3>1. g[i - 1] = f[i - 1]
      OBVIOUS
    <3>2. CASE i <= k
      <4>1. g[i] = f[i] /\ i \in 1 .. k
        BY <3>2
      <4>. QED  BY <2>1, <3>1, <4>1
    <3>3. CASE i = k + 1
      <4>1. g[i] = Step(f[k], i) /\ k = i - 1
        BY <3>3
      <4>. QED  BY <3>1, <4>1
    <3>. QED  BY <3>2, <3>3
  <2>4. Up(k + 1, g)
    <3>. HIDE DEF g
    <3>. QED  BY <2>2, <2>3
  <2>5. k + 1 \in 0 .. n
    BY <1>1
  <2>. HIDE DEF Up, g
  <2>. QED  BY <2>4, <2>5
<1>. HIDE DEF Step, n
<1>4. \A i \in 0 .. n : i \in G
  <2>1. \A i \in 0 .. n - 1 : i \in G => i + 1 \in G
    BY <1>3, Zenon
  <2>. HIDE DEF G, Up
  <2>. QED  BY <1>2, <2>1, <1>1, UpTo, Zenon
<1>5. \E f : Up(n, f)
  <2>. HIDE DEF Up
  <2>1. n \in 0 .. n
    BY <1>1
  <2>2. n \in G
    BY <1>4, <2>1, Zenon
  <2>. QED  BY <2>2, Zenon
<1>6. PICK f : Up(n, f)
  BY <1>5
<1>. DEFINE h == [i \in 0 .. n |-> f[i]]
<1>7. Solves(h)
  <2>1. h[0] = f[0] /\ \A i \in 1 .. n : h[i] = f[i] /\ h[i - 1] = f[i - 1]
    BY <1>1
  <2>2. h = [i \in 0 .. n |-> h[i]]
    OBVIOUS
  <2>. HIDE DEF h
  <2>3. \A i \in 0 .. n : h[i] = IF i = 0 THEN Unread ELSE Step(h[i - 1], i)
    BY <1>6, <2>1
  <2>. QED  BY <2>2, <2>3
<1>. DEFINE m == CHOOSE g : Solves(g)
<1>8. Solves(m)
  <2>. HIDE DEF Solves
  <2>. QED  BY <1>7, Zenon
<1>9. Assemble(events) = m[n]
  BY Zenon DEF Assemble, Step, n
<1>10. m[0] = Unread /\ \A i \in 1 .. n : m[i] = Step(m[i - 1], i)
  <2>. HIDE DEF m
  <2>. QED  BY <1>8, <1>1
<1>. HIDE DEF m
<1>11. Assembles(m, events)
  BY <1>10, Zenon DEF Assembles, Step, n
<1>. QED  BY <1>9, <1>11, Zenon DEF n

Applies(f, s, deltas) ==
    f[0] = closeOpenTextBlock(s) /\ \A i \in 1 .. Len(deltas) : f[i] = ToolDelta(f[i - 1], deltas[i])

\* The tool deltas of a chunk, one after the other.
LEMMA ToolDeltasFold ==
  ASSUME NEW s, NEW deltas, Len(deltas) \in Nat
  PROVE  \E f : Applies(f, s, deltas) /\ processOpenAIToolCallDeltas(s, deltas) = f[Len(deltas)]
<1>. DEFINE n == Len(deltas)
            Step(x, i) == ToolDelta(x, deltas[i])
            Up(k, f) == f[0] = closeOpenTextBlock(s) /\ \A i \in 1 .. k : f[i] = Step(f[i - 1], i)
            G == {k \in 0 .. n : \E f : Up(k, f)}
            Solves(f) == f = [i \in 0 .. n |-> IF i = 0 THEN closeOpenTextBlock(s) ELSE Step(f[i - 1], i)]
<1>1. n \in Nat
  OBVIOUS
<1>2. 0 \in G
  <2>. DEFINE f == [i \in {0} |-> closeOpenTextBlock(s)]
  <2>1. Up(0, f) /\ 0 \in 0 .. n
    BY <1>1
  <2>. HIDE DEF Up, f
  <2>. QED  BY <2>1
<1>3. \A k \in 0 .. n - 1 : k \in G => k + 1 \in G
  <2>. SUFFICES ASSUME NEW k \in 0 .. n - 1, k \in G PROVE k + 1 \in G
    OBVIOUS
  <2>. HIDE DEF Step
  <2>1. PICK f : Up(k, f)
    OBVIOUS
  <2>. DEFINE g == [i \in 0 .. k + 1 |-> IF i <= k THEN f[i] ELSE Step(f[k], i)]
  <2>2. g[0] = closeOpenTextBlock(s)
    BY <2>1
  <2>3. ASSUME NEW i \in 1 .. k + 1 PROVE g[i] = Step(g[i - 1], i)
    <3>1. g[i - 1] = f[i - 1]
      OBVIOUS
    <3>2. CASE i <= k
      <4>1. g[i] = f[i] /\ i \in 1 .. k
        BY <3>2
      <4>. QED  BY <2>1, <3>1, <4>1
    <3>3. CASE i = k + 1
      <4>1. g[i] = Step(f[k], i) /\ k = i - 1
        BY <3>3
      <4>. QED  BY <3>1, <4>1
    <3>. QED  BY <3>2, <3>3
  <2>4. Up(k + 1, g)
    <3>. HIDE DEF g
    <3>. QED  BY <2>2, <2>3
  <2>5. k + 1 \in 0 .. n
    BY <1>1
  <2>. HIDE DEF Up, g
  <2>. QED  BY <2>4, <2>5
<1>. HIDE DEF Step, n
<1>4. \A i \in 0 .. n : i \in G
  <2>1. \A i \in 0 .. n - 1 : i \in G => i + 1 \in G
    BY <1>3, Zenon
  <2>. HIDE DEF G, Up
  <2>. QED  BY <1>2, <2>1, <1>1, UpTo, Zenon
<1>5. \E f : Up(n, f)
  <2>. HIDE DEF Up
  <2>1. n \in 0 .. n
    BY <1>1
  <2>2. n \in G
    BY <1>4, <2>1, Zenon
  <2>. QED  BY <2>2, Zenon
<1>6. PICK f : Up(n, f)
  BY <1>5
<1>. DEFINE h == [i \in 0 .. n |-> f[i]]
<1>7. Solves(h)
  <2>1. h[0] = f[0] /\ \A i \in 1 .. n : h[i] = f[i] /\ h[i - 1] = f[i - 1]
    BY <1>1
  <2>2. h = [i \in 0 .. n |-> h[i]]
    OBVIOUS
  <2>. HIDE DEF h
  <2>3. \A i \in 0 .. n : h[i] = IF i = 0 THEN closeOpenTextBlock(s) ELSE Step(h[i - 1], i)
    BY <1>6, <2>1
  <2>. QED  BY <2>2, <2>3
<1>. DEFINE m == CHOOSE g : Solves(g)
<1>8. Solves(m)
  <2>. HIDE DEF Solves
  <2>. QED  BY <1>7, Zenon
<1>9. processOpenAIToolCallDeltas(s, deltas) = m[n]
  BY Zenon DEF processOpenAIToolCallDeltas, Step, n
<1>10. m[0] = closeOpenTextBlock(s) /\ \A i \in 1 .. n : m[i] = Step(m[i - 1], i)
  <2>. HIDE DEF m
  <2>. QED  BY <1>8, <1>1
<1>. HIDE DEF m
<1>11. Applies(m, s, deltas)
  BY <1>10, Zenon DEF Applies, Step, n
<1>. QED  BY <1>9, <1>11, Zenon DEF n

Adds(f, messages) ==
    f[0] = <<>> /\ \A i \in 1 .. Len(messages) : f[i] = AddMessage(f[i - 1], messages, i)

\* The messages of an OpenAI request, one after the other.
LEMMA AddMessagesFold ==
  ASSUME NEW messages, Len(messages) \in Nat
  PROVE  \E f : Adds(f, messages) /\ AddMessages(messages) = f[Len(messages)]
<1>. DEFINE n == Len(messages)
            Step(x, i) == AddMessage(x, messages, i)
            Up(k, f) == f[0] = <<>> /\ \A i \in 1 .. k : f[i] = Step(f[i - 1], i)
            G == {k \in 0 .. n : \E f : Up(k, f)}
            Solves(f) == f = [i \in 0 .. n |-> IF i = 0 THEN <<>> ELSE Step(f[i - 1], i)]
<1>1. n \in Nat
  OBVIOUS
<1>2. 0 \in G
  <2>. DEFINE f == [i \in {0} |-> <<>>]
  <2>1. Up(0, f) /\ 0 \in 0 .. n
    BY <1>1
  <2>. HIDE DEF Up, f
  <2>. QED  BY <2>1
<1>3. \A k \in 0 .. n - 1 : k \in G => k + 1 \in G
  <2>. SUFFICES ASSUME NEW k \in 0 .. n - 1, k \in G PROVE k + 1 \in G
    OBVIOUS
  <2>. HIDE DEF Step
  <2>1. PICK f : Up(k, f)
    OBVIOUS
  <2>. DEFINE g == [i \in 0 .. k + 1 |-> IF i <= k THEN f[i] ELSE Step(f[k], i)]
  <2>2. g[0] = <<>>
    BY <2>1
  <2>3. ASSUME NEW i \in 1 .. k + 1 PROVE g[i] = Step(g[i - 1], i)
    <3>1. g[i - 1] = f[i - 1]
      OBVIOUS
    <3>2. CASE i <= k
      <4>1. g[i] = f[i] /\ i \in 1 .. k
        BY <3>2
      <4>. QED  BY <2>1, <3>1, <4>1
    <3>3. CASE i = k + 1
      <4>1. g[i] = Step(f[k], i) /\ k = i - 1
        BY <3>3
      <4>. QED  BY <3>1, <4>1
    <3>. QED  BY <3>2, <3>3
  <2>4. Up(k + 1, g)
    <3>. HIDE DEF g
    <3>. QED  BY <2>2, <2>3
  <2>5. k + 1 \in 0 .. n
    BY <1>1
  <2>. HIDE DEF Up, g
  <2>. QED  BY <2>4, <2>5
<1>. HIDE DEF Step, n
<1>4. \A i \in 0 .. n : i \in G
  <2>1. \A i \in 0 .. n - 1 : i \in G => i + 1 \in G
    BY <1>3, Zenon
  <2>. HIDE DEF G, Up
  <2>. QED  BY <1>2, <2>1, <1>1, UpTo, Zenon
<1>5. \E f : Up(n, f)
  <2>. HIDE DEF Up
  <2>1. n \in 0 .. n
    BY <1>1
  <2>2. n \in G
    BY <1>4, <2>1, Zenon
  <2>. QED  BY <2>2, Zenon
<1>6. PICK f : Up(n, f)
  BY <1>5
<1>. DEFINE h == [i \in 0 .. n |-> f[i]]
<1>7. Solves(h)
  <2>1. h[0] = f[0] /\ \A i \in 1 .. n : h[i] = f[i] /\ h[i - 1] = f[i - 1]
    BY <1>1
  <2>2. h = [i \in 0 .. n |-> h[i]]
    OBVIOUS
  <2>. HIDE DEF h
  <2>3. \A i \in 0 .. n : h[i] = IF i = 0 THEN <<>> ELSE Step(h[i - 1], i)
    BY <1>6, <2>1
  <2>. QED  BY <2>2, <2>3
<1>. DEFINE m == CHOOSE g : Solves(g)
<1>8. Solves(m)
  <2>. HIDE DEF Solves
  <2>. QED  BY <1>7, Zenon
<1>9. AddMessages(messages) = m[n]
  BY Zenon DEF AddMessages, Step, n
<1>10. m[0] = <<>> /\ \A i \in 1 .. n : m[i] = Step(m[i - 1], i)
  <2>. HIDE DEF m
  <2>. QED  BY <1>8, <1>1
<1>. HIDE DEF m
<1>11. Adds(m, messages)
  BY <1>10, Zenon DEF Adds, Step, n
<1>. QED  BY <1>9, <1>11, Zenon DEF n

StartsLate(f, s) ==
    f[0] = s /\ \A i \in 1 .. Len(LateIndices(s)) : f[i] = lateStart(f[i - 1], LateIndices(s)[i])

\* The tools that are started when the message ends, one after the other.
LEMMA LateStartsFold ==
  ASSUME NEW s, Len(LateIndices(s)) \in Nat
  PROVE  \E f : StartsLate(f, s) /\ lateStartPendingToolBlocks(s) = f[Len(LateIndices(s))]
<1>. DEFINE n == Len(LateIndices(s))
            Step(x, i) == lateStart(x, LateIndices(s)[i])
            Up(k, f) == f[0] = s /\ \A i \in 1 .. k : f[i] = Step(f[i - 1], i)
            G == {k \in 0 .. n : \E f : Up(k, f)}
            Solves(f) == f = [i \in 0 .. n |-> IF i = 0 THEN s ELSE Step(f[i - 1], i)]
<1>1. n \in Nat
  OBVIOUS
<1>2. 0 \in G
  <2>. DEFINE f == [i \in {0} |-> s]
  <2>1. Up(0, f) /\ 0 \in 0 .. n
    BY <1>1
  <2>. HIDE DEF Up, f
  <2>. QED  BY <2>1
<1>3. \A k \in 0 .. n - 1 : k \in G => k + 1 \in G
  <2>. SUFFICES ASSUME NEW k \in 0 .. n - 1, k \in G PROVE k + 1 \in G
    OBVIOUS
  <2>. HIDE DEF Step
  <2>1. PICK f : Up(k, f)
    OBVIOUS
  <2>. DEFINE g == [i \in 0 .. k + 1 |-> IF i <= k THEN f[i] ELSE Step(f[k], i)]
  <2>2. g[0] = s
    BY <2>1
  <2>3. ASSUME NEW i \in 1 .. k + 1 PROVE g[i] = Step(g[i - 1], i)
    <3>1. g[i - 1] = f[i - 1]
      OBVIOUS
    <3>2. CASE i <= k
      <4>1. g[i] = f[i] /\ i \in 1 .. k
        BY <3>2
      <4>. QED  BY <2>1, <3>1, <4>1
    <3>3. CASE i = k + 1
      <4>1. g[i] = Step(f[k], i) /\ k = i - 1
        BY <3>3
      <4>. QED  BY <3>1, <4>1
    <3>. QED  BY <3>2, <3>3
  <2>4. Up(k + 1, g)
    <3>. HIDE DEF g
    <3>. QED  BY <2>2, <2>3
  <2>5. k + 1 \in 0 .. n
    BY <1>1
  <2>. HIDE DEF Up, g
  <2>. QED  BY <2>4, <2>5
<1>. HIDE DEF Step, n
<1>4. \A i \in 0 .. n : i \in G
  <2>1. \A i \in 0 .. n - 1 : i \in G => i + 1 \in G
    BY <1>3, Zenon
  <2>. HIDE DEF G, Up
  <2>. QED  BY <1>2, <2>1, <1>1, UpTo, Zenon
<1>5. \E f : Up(n, f)
  <2>. HIDE DEF Up
  <2>1. n \in 0 .. n
    BY <1>1
  <2>2. n \in G
    BY <1>4, <2>1, Zenon
  <2>. QED  BY <2>2, Zenon
<1>6. PICK f : Up(n, f)
  BY <1>5
<1>. DEFINE h == [i \in 0 .. n |-> f[i]]
<1>7. Solves(h)
  <2>1. h[0] = f[0] /\ \A i \in 1 .. n : h[i] = f[i] /\ h[i - 1] = f[i - 1]
    BY <1>1
  <2>2. h = [i \in 0 .. n |-> h[i]]
    OBVIOUS
  <2>. HIDE DEF h
  <2>3. \A i \in 0 .. n : h[i] = IF i = 0 THEN s ELSE Step(h[i - 1], i)
    BY <1>6, <2>1
  <2>. QED  BY <2>2, <2>3
<1>. DEFINE m == CHOOSE g : Solves(g)
<1>8. Solves(m)
  <2>. HIDE DEF Solves
  <2>. QED  BY <1>7, Zenon
<1>9. lateStartPendingToolBlocks(s) = m[n]
  BY Zenon DEF lateStartPendingToolBlocks, LateIndices, Late, Step, n
<1>10. m[0] = s /\ \A i \in 1 .. n : m[i] = Step(m[i - 1], i)
  <2>. HIDE DEF m
  <2>. QED  BY <1>8, <1>1
<1>. HIDE DEF m
<1>11. StartsLate(m, s)
  BY <1>10, Zenon DEF StartsLate, Step, n
<1>. QED  BY <1>9, <1>11, Zenon DEF n

-----------------------------------------------------------------------------
(* Pick: the subsequence at some places.                                   *)

\* Nothing is picked from nothing.
LEMMA PickEmpty ==
  ASSUME NEW I
  PROVE  Pick(<<>>, I) = <<>>
<1>1. [i \in DOMAIN <<>> |-> IF i \in I THEN <<(<<>>)[i]>> ELSE <<>>] = <<>>
  OBVIOUS
<1>. QED  BY <1>1, FlattenEmpty, Zenon DEF Pick

\* What is flattened is a sequence of sequences.
LEMMA PickParts ==
  ASSUME NEW S, NEW s \in Seq(S), NEW I
  PROVE  [i \in DOMAIN s |-> IF i \in I THEN <<s[i]>> ELSE <<>>] \in Seq(Seq(S))
<1>1. DOMAIN s = 1 .. Len(s) /\ Len(s) \in Nat
  OBVIOUS
<1>2. \A i \in 1 .. Len(s) : s[i] \in S
  OBVIOUS
<1>3. \A i \in 1 .. Len(s) : (IF i \in I THEN <<s[i]>> ELSE <<>>) \in Seq(S)
  BY <1>2
<1>. QED  BY <1>1, <1>3

\* The pick of a longer sequence.
LEMMA PickAppend ==
  ASSUME NEW S, NEW s \in Seq(S), NEW e \in S, NEW I
  PROVE  Pick(Append(s, e), I) = IF Len(s) + 1 \in I THEN Append(Pick(s, I), e) ELSE Pick(s, I)
<1>. DEFINE At(t) == [i \in DOMAIN t |-> IF i \in I THEN <<t[i]>> ELSE <<>>]
            x == IF Len(s) + 1 \in I THEN <<e>> ELSE <<>>
            t == Append(s, e)
<1>1. At(s) \in Seq(Seq(S)) /\ x \in Seq(S)
  BY PickParts
<1>2. Len(t) = Len(s) + 1 /\ t[Len(s) + 1] = e /\ (\A i \in 1 .. Len(s) : t[i] = s[i]) /\ DOMAIN t = 1 .. Len(s) + 1
  OBVIOUS
<1>3. DOMAIN s = 1 .. Len(s) /\ Len(s) \in Nat
  OBVIOUS
<1>4. At(t) = Append(At(s), x)
  <2>1. t \in Seq(S)
    OBVIOUS
  <2>2. At(t) \in Seq(Seq(S))
    BY <2>1, PickParts
  <2>3. Len(At(t)) = Len(s) + 1 /\ Len(At(s)) = Len(s)
    <3>. HIDE DEF t
    <3>. QED  BY <1>2, <1>3
  <2>4. (\A i \in 1 .. Len(s) : At(t)[i] = At(s)[i]) /\ At(t)[Len(s) + 1] = x
    <3>. HIDE DEF t
    <3>. QED  BY <1>2, <1>3
  <2>. HIDE DEF At, x, t
  <2>5. /\ Append(At(s), x) \in Seq(Seq(S)) /\ Len(Append(At(s), x)) = Len(s) + 1
        /\ \A i \in 1 .. Len(s) : Append(At(s), x)[i] = At(s)[i]
        /\ Append(At(s), x)[Len(s) + 1] = x
    BY <1>1, <2>3, AppendProperties
  <2>6. \A i \in 1 .. Len(s) + 1 : At(t)[i] = Append(At(s), x)[i]
    BY <1>3, <2>4, <2>5
  <2>. QED  BY <2>2, <2>3, <2>5, <2>6, SeqEqual
<1>5. FlattenSeq(At(t)) = FlattenSeq(At(s)) \o x /\ FlattenSeq(At(s)) \in Seq(S)
  <2>. HIDE DEF At, x, t
  <2>. QED  BY <1>1, <1>4, FlattenAppend, FlattenType
<1>6. Pick(s, I) = FlattenSeq(At(s)) /\ Pick(t, I) = FlattenSeq(At(t))
  BY Zenon DEF Pick
<1>. HIDE DEF At, t
<1>7. CASE Len(s) + 1 \in I
  BY <1>5, <1>6, <1>7 DEF t
<1>8. CASE Len(s) + 1 \notin I
  BY <1>5, <1>6, <1>8 DEF t
<1>. QED  BY <1>7, <1>8

\* The pick of a sequence is a sequence of the elements at the places.
LEMMA PickType ==
  ASSUME NEW S, NEW s \in Seq(S), NEW I
  PROVE  Pick(s, I) \in Seq(S)
BY PickParts, FlattenType, Zenon DEF Pick

\* ... and has those elements.
LEMMA PickRange ==
  ASSUME NEW S, NEW s \in Seq(S), NEW I
  PROVE  ToSet(Pick(s, I)) = {s[i] : i \in {j \in DOMAIN s : j \in I}}
<1>. DEFINE ss == [i \in DOMAIN s |-> IF i \in I THEN <<s[i]>> ELSE <<>>]
<1>1. ss \in Seq(Seq(S)) /\ Pick(s, I) = FlattenSeq(ss) /\ DOMAIN ss = DOMAIN s
  BY PickParts, Zenon DEF Pick
<1>2. ToSet(Pick(s, I)) = UNION {ToSet(ss[i]) : i \in DOMAIN ss}
  BY <1>1, FlattenRange
<1>3. \A i \in DOMAIN s : ToSet(ss[i]) = IF i \in I THEN {s[i]} ELSE {}
  BY DEF ToSet
<1>. HIDE DEF ss
<1>. QED  BY <1>1, <1>2, <1>3

\* A finite set of numbers has a greatest one.
LEMMA MaxOf ==
  ASSUME NEW S, S \subseteq Nat, IsFiniteSet(S), S # {}
  PROVE  Max(S) \in S /\ \A y \in S : Max(S) >= y
<1>. DEFINE G == {T \in SUBSET S : T = {} \/ \E x \in T : \A y \in T : x >= y}
<1>1. {} \in G
  OBVIOUS
<1>2. ASSUME NEW T \in SUBSET S, NEW x \in S \ T, T \in G PROVE T \cup {x} \in G
  <2>1. CASE T = {}
    <3>1. \A y \in T \cup {x} : x >= y
      BY <2>1
    <3>. QED  BY <3>1
  <2>2. CASE T # {}
    <3>1. PICK z \in T : \A y \in T : z >= y
      BY <1>2, <2>2
    <3>2. CASE x >= z
      <4>1. \A y \in T \cup {x} : x >= y
        BY <3>1, <3>2
      <4>. QED  BY <4>1
    <3>3. CASE ~(x >= z)
      <4>1. \A y \in T \cup {x} : z >= y
        BY <3>1, <3>3
      <4>. QED  BY <3>1, <4>1
    <3>. QED  BY <3>2, <3>3
  <2>. QED  BY <2>1, <2>2
<1>3. \A T \in SUBSET S : \A x \in S \ T : T \in G => T \cup {x} \in G
  BY <1>2
<1>4. \A T \in SUBSET S : T \in G
  <2>. HIDE DEF G
  <2>. QED  BY <1>1, <1>3, SubsetInduction, Zenon
<1>5. \E x \in S : \A y \in S : x >= y
  BY <1>4
<1>. QED  BY <1>5, Zenon DEF Max

\* What Ascending is: the elements of the set, each one once, in their order.
LEMMA AscendingIs ==
  ASSUME NEW S, S \subseteq Nat, IsFiniteSet(S)
  PROVE  /\ Ascending(S) \in Seq(S)
         /\ ToSet(Ascending(S)) = S
         /\ \A i, j \in DOMAIN Ascending(S) : i < j => Ascending(S)[i] < Ascending(S)[j]
<1>. DEFINE n == IF S = {} THEN 0 ELSE Max(S) + 1
            t(k) == [i \in 1 .. k |-> i - 1]
            I == {i \in 1 .. n : i - 1 \in S}
            Sorted(a) == \A i, j \in 1 .. Len(a) : i < j => a[i] < a[j]
            Fine(k) == LET a == Pick(t(k), I)
                       IN a \in Seq(Nat) /\ Sorted(a) /\ \A i \in 1 .. Len(a) : a[i] < k
            G == {k \in 0 .. n : Fine(k)}
<1>1. n \in Nat /\ \A y \in S : y < n
  <2>1. CASE S = {}
    BY <2>1
  <2>2. CASE S # {}
    <3>1. Max(S) \in S /\ \A y \in S : Max(S) >= y
      BY <2>2, MaxOf
    <3>2. Max(S) \in Nat /\ n = Max(S) + 1 /\ \A y \in S : y \in Nat
      BY <2>2, <3>1
    <3>. HIDE DEF n
    <3>. QED  BY <3>1, <3>2
  <2>. QED  BY <2>1, <2>2
<1>2. Ascending(S) = Pick(t(n), I)
  BY Zenon DEF Ascending
<1>3. ToSet(Pick(t(n), I)) = S
  <2>1. t(n) \in Seq(Nat)
    BY <1>1
  <2>2. ToSet(Pick(t(n), I)) = {t(n)[i] : i \in {j \in DOMAIN t(n) : j \in I}}
    <3>. HIDE DEF t, I
    <3>. QED  BY <2>1, PickRange
  <2>3. \A y \in S : y + 1 \in I /\ t(n)[y + 1] = y
    BY <1>1
  <2>4. \A i \in I : i \in DOMAIN t(n) /\ t(n)[i] = i - 1 /\ i - 1 \in S
    BY <1>1
  <2>5. S \subseteq {t(n)[i] : i \in {j \in DOMAIN t(n) : j \in I}}
    <3>1. \A y \in S : \E i \in {j \in DOMAIN t(n) : j \in I} : y = t(n)[i]
      BY <2>3, <2>4
    <3>. QED  BY <3>1
  <2>6. {t(n)[i] : i \in {j \in DOMAIN t(n) : j \in I}} \subseteq S
    BY <2>4
  <2>. QED  BY <2>2, <2>5, <2>6
<1>. HIDE DEF n, I
<1>4. 0 \in G
  <2>1. t(0) = <<>>
    OBVIOUS
  <2>2. Pick(t(0), I) = <<>>
    BY <2>1, PickEmpty
  <2>3. Fine(0)
    <3>. DEFINE a == Pick(t(0), I)
    <3>. HIDE DEF t
    <3>1. a = <<>>
      BY <2>2
    <3>. HIDE DEF a
    <3>2. a \in Seq(Nat) /\ Len(a) = 0
      BY <3>1
    <3>3. Sorted(a) /\ \A i \in 1 .. Len(a) : a[i] < 0
      BY <3>2
    <3>. QED  BY <3>2, <3>3 DEF a
  <2>. HIDE DEF Fine
  <2>. QED  BY <1>1, <2>3
<1>5. ASSUME NEW k \in 0 .. n - 1, k \in G PROVE k + 1 \in G
  <2>. DEFINE a == Pick(t(k), I)
  <2>1. t(k) \in Seq(Nat) /\ Len(t(k)) = k /\ k \in Nat /\ k + 1 \in 0 .. n
    BY <1>1
  <2>2. t(k + 1) = Append(t(k), k)
    <3>1. t(k + 1) \in Seq(Nat) /\ Len(t(k + 1)) = k + 1
      BY <2>1
    <3>2. \A i \in 1 .. k + 1 : t(k + 1)[i] = Append(t(k), k)[i]
      BY <2>1
    <3>3. Append(t(k), k) \in Seq(Nat) /\ Len(Append(t(k), k)) = k + 1
      BY <2>1
    <3>. HIDE DEF t
    <3>. QED  BY <3>1, <3>2, <3>3, SeqEqual
  <2>3. a \in Seq(Nat) /\ Sorted(a) /\ \A i \in 1 .. Len(a) : a[i] < k
    BY <1>5
  <2>4. Pick(t(k + 1), I) = IF k + 1 \in I THEN Append(a, k) ELSE a
    <3>. HIDE DEF t
    <3>1. Pick(Append(t(k), k), I) = IF Len(t(k)) + 1 \in I THEN Append(a, k) ELSE a
      BY <2>1, PickAppend
    <3>. QED  BY <2>1, <2>2, <3>1
  <2>. HIDE DEF a, t
  <2>5. Append(a, k) \in Seq(Nat) /\ Len(Append(a, k)) = Len(a) + 1
    BY <2>1, <2>3
  <2>6. \A i \in 1 .. Len(a) : Append(a, k)[i] = a[i]
    BY <2>1, <2>3
  <2>7. Append(a, k)[Len(a) + 1] = k
    BY <2>1, <2>3
  <2>8. Len(a) \in Nat /\ \A i \in 1 .. Len(a) : a[i] \in Nat
    BY <2>3
  <2>9. Sorted(Append(a, k)) /\ \A i \in 1 .. Len(a) + 1 : Append(a, k)[i] < k + 1
    BY <2>1, <2>3, <2>5, <2>6, <2>7, <2>8
  <2>10. \A i \in 1 .. Len(a) : a[i] < k + 1
    BY <2>1, <2>3, <2>8
  <2>11. Fine(k + 1)
    BY <2>3, <2>4, <2>5, <2>9, <2>10
  <2>. QED  BY <2>1, <2>11
<1>6. \A k \in 0 .. n - 1 : k \in G => k + 1 \in G
  BY <1>5
<1>7. \A k \in 0 .. n : k \in G
  <2>1. n \in Nat
    BY <1>1
  <2>. HIDE DEF G
  <2>. QED  BY <1>4, <1>6, <2>1, UpTo, Zenon
<1>8. Fine(n)
  <2>1. n \in 0 .. n
    BY <1>1
  <2>. HIDE DEF Fine
  <2>. QED  BY <1>7, <2>1
<1>. HIDE DEF t
<1>9. Pick(t(n), I) \in Seq(S)
  <2>. DEFINE a == Pick(t(n), I)
  <2>1. a \in Seq(Nat) /\ \A i \in DOMAIN a : a[i] \in S
    BY <1>3, <1>8 DEF ToSet
  <2>. HIDE DEF a
  <2>2. a \in Seq(S)
    BY <2>1
  <2>. QED  BY <2>2 DEF a
<1>. QED  BY <1>2, <1>3, <1>8, <1>9

-----------------------------------------------------------------------------
(***************************************************************************)
(* What a client of pipe to_anthropic reads.  Types of the conversion.     *)
(***************************************************************************)
Counts == [input : Nat, output : Nat, creation : Nat, read : Nat]
Ident == Nat \cup {None, "toolu", "unknown_tool"}
Stops == {"max_tokens", "tool_use", "end_turn", None}
BlockVal == {None} \cup [id : Ident, name : Ident]
Shown == {"text", "tool_use"}

Event ==
    [type : {"message_start"}, usage : Counts \cup {None}]
    \cup [type : {"block_start"}, index : Nat, kind : Shown, val : BlockVal]
    \cup [type : {"block_delta"}, index : Nat, kind : Shown, val : Seq(Nat)]
    \cup [type : {"block_stop"}, index : Nat]
    \cup [type : {"message_delta"}, stop : Stops, usage : Counts]
    \cup [type : {"message_stop"}]

ToolBlock == [index : Nat, id : Ident, name : Ident, pending : Seq(Nat),
              started : BOOLEAN, open : BOOLEAN]
ToolMap == {f \in UNION {[T -> ToolBlock] : T \in SUBSET Nat} : IsFiniteSet(DOMAIN f)}
Conv == [started : BOOLEAN, next : Nat, text : Nat \cup {None}, tools : ToolMap,
         stop : Stops, usage : Counts \cup {None}, ended : BOOLEAN, out : Seq(Event)]

ReadBlock == [kind : Shown, val : BlockVal, content : Seq(Nat), open : BOOLEAN]
BlockMap == UNION {[T -> ReadBlock] : T \in SUBSET Nat}
Stage == {"idle", "content", "ended", "stopped", "error"}
Message == [stage : Stage, blocks : BlockMap, stop : Stops]

\* The events that the conversion writes are events.
LEMMA EventTypes ==
  /\ \A u \in Counts \cup {None} : MessageStart(u) \in Event
  /\ \A i \in Nat, k \in Shown, v \in BlockVal : BlockStart(i, k, v) \in Event
  /\ \A i \in Nat, k \in Shown, f \in Seq(Nat) : Delta(i, k, f) \in Event
  /\ \A i \in Nat : BlockStop(i) \in Event
  /\ \A s \in Stops, u \in Counts : MessageDelta(s, u) \in Event
  /\ MessageStop \in Event
BY DEF Event, MessageStart, BlockStart, Delta, BlockStop, MessageDelta, MessageStop

\* Maps from numbers to tool blocks: what is in one, and one with a block set.
LEMMA ToolMapIs ==
  ASSUME NEW f \in ToolMap
  PROVE  /\ DOMAIN f \subseteq Nat /\ IsFiniteSet(DOMAIN f)
         /\ f = [t \in DOMAIN f |-> f[t]]
         /\ \A t \in DOMAIN f : f[t] \in ToolBlock
<1>1. PICK T \in SUBSET Nat : f \in [T -> ToolBlock]
  BY DEF ToolMap
<1>2. IsFiniteSet(DOMAIN f)
  BY DEF ToolMap
<1>. QED  BY <1>1, <1>2

\* ... and what is a map of tools.
LEMMA ToolMapOf ==
  ASSUME NEW f, DOMAIN f \subseteq Nat, IsFiniteSet(DOMAIN f),
         f = [t \in DOMAIN f |-> f[t]], \A t \in DOMAIN f : f[t] \in ToolBlock
  PROVE  f \in ToolMap
<1>1. f \in [DOMAIN f -> ToolBlock]
  OBVIOUS
<1>2. f \in UNION {[T -> ToolBlock] : T \in SUBSET Nat}
  BY <1>1
<1>. QED  BY <1>2 DEF ToolMap

\* The same for the blocks that have been read.
LEMMA BlockMapIs ==
  ASSUME NEW f \in BlockMap
  PROVE  /\ DOMAIN f \subseteq Nat
         /\ f = [i \in DOMAIN f |-> f[i]]
         /\ \A i \in DOMAIN f : f[i] \in ReadBlock
<1>1. PICK T \in SUBSET Nat : f \in [T -> ReadBlock]
  BY DEF BlockMap
<1>. QED  BY <1>1

\* ... and what is a map of blocks.
LEMMA BlockMapOf ==
  ASSUME NEW f, DOMAIN f \subseteq Nat,
         f = [i \in DOMAIN f |-> f[i]], \A i \in DOMAIN f : f[i] \in ReadBlock
  PROVE  f \in BlockMap
<1>1. f \in [DOMAIN f -> ReadBlock]
  OBVIOUS
<1>. QED  BY <1>1 DEF BlockMap

-----------------------------------------------------------------------------
(***************************************************************************)
(* An event that a client may read when it has assembled m: the guard of   *)
(* an action of MessageStream.                                             *)
(***************************************************************************)
Starts(m, e) == e.type = "message_start" /\ m.stage = "idle"
StartsBlock(m, e) == /\ e.type = "block_start" /\ m.stage = "content"
                     /\ e.index \in Nat \ DOMAIN m.blocks /\ e.kind \in Shown /\ e.val \in BlockVal
Fills(m, e) == /\ e.type = "block_delta" /\ m.stage = "content"
               /\ e.index \in DOMAIN m.blocks /\ m.blocks[e.index].open
               /\ e.val \in Seq(Nat) \ {<<>>}
StopsBlock(m, e) == /\ e.type = "block_stop" /\ m.stage = "content"
                    /\ e.index \in DOMAIN m.blocks /\ m.blocks[e.index].open
Ends(m, e) == /\ e.type = "message_delta" /\ m.stage = "content" /\ e.stop \in Stops
              /\ \A i \in DOMAIN m.blocks : ~m.blocks[i].open
              /\ \E n \in Nat : DOMAIN m.blocks = 0 .. n - 1
StopsMessage(m, e) == e.type = "message_stop" /\ m.stage = "ended"
MayRead(m, e) ==
    \/ Starts(m, e) \/ StartsBlock(m, e) \/ Fills(m, e)
    \/ StopsBlock(m, e) \/ Ends(m, e) \/ StopsMessage(m, e)

(* Reading the events from m leads to n, one legal event after the other.  *)
Steps(g, m, events, n) ==
    /\ g[0] = m /\ g[Len(events)] = n
    /\ \A i \in 1 .. Len(events) : MayRead(g[i - 1], events[i]) /\ g[i] = Read(g[i - 1], events[i])
Path(m, events, n) == \E g : Steps(g, m, events, n)

\* Nothing is read.
LEMMA PathEmpty ==
  ASSUME NEW m
  PROVE  Path(m, <<>>, m)
<1>. DEFINE g == [i \in {0} |-> m]
<1>1. Steps(g, m, <<>>, m)
  BY DEF Steps
<1>. QED  BY <1>1, Zenon DEF Path

\* One event more is read.
LEMMA PathAppend ==
  ASSUME NEW S, NEW events \in Seq(S), NEW e \in S, NEW m, NEW n, Path(m, events, n), MayRead(n, e)
  PROVE  Path(m, Append(events, e), Read(n, e))
<1>. DEFINE l == Len(events)
            t == Append(events, e)
<1>1. PICK f : Steps(f, m, events, n)
  BY Zenon DEF Path
<1>2. l \in Nat /\ Len(t) = l + 1 /\ t[l + 1] = e /\ \A i \in 1 .. l : t[i] = events[i]
  OBVIOUS
<1>. DEFINE g == [i \in 0 .. l + 1 |-> IF i <= l THEN f[i] ELSE Read(n, e)]
<1>3. g[0] = m /\ g[l + 1] = Read(n, e) /\ \A i \in 0 .. l : g[i] = f[i]
  BY <1>1, <1>2 DEF Steps
<1>. HIDE DEF g, t
<1>4. \A i \in 1 .. l : MayRead(f[i - 1], events[i]) /\ f[i] = Read(f[i - 1], events[i])
  BY <1>1 DEF Steps
<1>5. f[l] = n
  BY <1>1 DEF Steps
<1>. HIDE DEF l
<1>6. ASSUME NEW i \in 1 .. l + 1
      PROVE  MayRead(g[i - 1], t[i]) /\ g[i] = Read(g[i - 1], t[i])
  <2>1. CASE i \in 1 .. l
    <3>1. g[i - 1] = f[i - 1] /\ g[i] = f[i]
      BY <1>2, <1>3, <2>1
    <3>. QED  BY <1>2, <1>4, <2>1, <3>1
  <2>2. CASE i = l + 1
    <3>1. g[i - 1] = n
      BY <1>2, <1>3, <1>5, <2>2
    <3>. QED  BY <1>2, <1>3, <2>2, <3>1
  <2>. QED  BY <1>2, <2>1, <2>2
<1>7. Steps(g, m, t, Read(n, e))
  BY <1>2, <1>3, <1>6 DEF Steps
<1>. QED  BY <1>7, Zenon DEF Path, t

-----------------------------------------------------------------------------
(* What reading one event does.                                            *)

\* The message starts.
LEMMA ReadMessageStart ==
  ASSUME NEW m \in Message, NEW u, m.stage = "idle"
  PROVE  LET e == MessageStart(u) IN
         /\ MayRead(m, e)
         /\ Read(m, e) = [m EXCEPT !.stage = "content"]
         /\ Read(m, e) \in Message
<1>1. MessageStart(u).type = "message_start"
  BY DEF MessageStart
<1>. DEFINE e == MessageStart(u)
<1>. HIDE DEF e
<1>2. Read(m, e) = [m EXCEPT !.stage = "content"]
  BY <1>1 DEF Read, e
<1>3. [m EXCEPT !.stage = "content"] \in Message
  BY DEF Message, Stage
<1>4. MayRead(m, e)
  BY <1>1 DEF MayRead, Starts, e
<1>. QED  BY <1>2, <1>3, <1>4 DEF e

\* A block starts.
LEMMA ReadBlockStart ==
  ASSUME NEW m \in Message, NEW i \in Nat, i \notin DOMAIN m.blocks, NEW k \in Shown, NEW v \in BlockVal,
         m.stage = "content",
         NEW e, e = BlockStart(i, k, v), NEW n, n = Read(m, e)
  PROVE  /\ MayRead(m, e) /\ n \in Message
         /\ n.stage = m.stage /\ n.stop = m.stop
         /\ DOMAIN n.blocks = DOMAIN m.blocks \cup {i}
         /\ n.blocks[i] = [kind |-> k, val |-> v, content |-> <<>>, open |-> TRUE]
         /\ \A j \in DOMAIN m.blocks : n.blocks[j] = m.blocks[j]
<1>. DEFINE b == [kind |-> k, val |-> v, content |-> <<>>, open |-> TRUE]
            bs == [j \in DOMAIN m.blocks \cup {i} |-> IF j = i THEN b ELSE m.blocks[j]]
<1>1. e.type = "block_start" /\ e.index = i /\ e.kind = k /\ e.val = v
  BY DEF BlockStart
<1>2. Read(m, e) = [m EXCEPT !.blocks = bs]
  BY <1>1 DEF Read
<1>3. MayRead(m, e)
  BY <1>1 DEF MayRead, StartsBlock
<1>4. m.blocks \in BlockMap
  BY DEF Message
<1>5. bs \in BlockMap
  <2>1. DOMAIN m.blocks \subseteq Nat /\ \A j \in DOMAIN m.blocks : m.blocks[j] \in ReadBlock
    BY <1>4, BlockMapIs
  <2>2. b \in ReadBlock
    BY DEF ReadBlock
  <2>. HIDE DEF b
  <2>3. \A j \in DOMAIN bs : bs[j] \in ReadBlock
    BY <2>1, <2>2
  <2>4. DOMAIN bs \subseteq Nat /\ bs = [j \in DOMAIN bs |-> bs[j]]
    BY <2>1
  <2>. HIDE DEF bs
  <2>. QED  BY <2>3, <2>4, BlockMapOf
<1>6. /\ DOMAIN bs = DOMAIN m.blocks \cup {i} /\ bs[i] = b
      /\ \A j \in DOMAIN m.blocks : bs[j] = m.blocks[j]
  BY DEF b
<1>. HIDE DEF bs, b
<1>7. [m EXCEPT !.blocks = bs] \in Message /\ [m EXCEPT !.blocks = bs].blocks = bs
      /\ [m EXCEPT !.blocks = bs].stage = m.stage /\ [m EXCEPT !.blocks = bs].stop = m.stop
  BY <1>5 DEF Message
<1>. QED  BY <1>2, <1>3, <1>6, <1>7 DEF b

\* One block of a map is set.
LEMMA BlockSet ==
  ASSUME NEW m \in Message, NEW i \in DOMAIN m.blocks, NEW b \in ReadBlock
  PROVE  LET n == [m EXCEPT !.blocks[i] = b]
         IN /\ n \in Message /\ n.stage = m.stage /\ n.stop = m.stop
            /\ DOMAIN n.blocks = DOMAIN m.blocks /\ n.blocks[i] = b
            /\ \A j \in DOMAIN m.blocks \ {i} : n.blocks[j] = m.blocks[j]
<1>. DEFINE bs == [m.blocks EXCEPT ![i] = b]
<1>1. m.blocks \in BlockMap
  BY DEF Message
<1>2. /\ DOMAIN m.blocks \subseteq Nat /\ m.blocks = [j \in DOMAIN m.blocks |-> m.blocks[j]]
      /\ \A j \in DOMAIN m.blocks : m.blocks[j] \in ReadBlock
  BY <1>1, BlockMapIs
<1>3. /\ DOMAIN bs = DOMAIN m.blocks /\ bs[i] = b
      /\ \A j \in DOMAIN m.blocks \ {i} : bs[j] = m.blocks[j]
  OBVIOUS
<1>4. bs = [j \in DOMAIN bs |-> bs[j]]
  OBVIOUS
<1>. HIDE DEF bs
<1>5. bs \in BlockMap
  BY <1>2, <1>3, <1>4, BlockMapOf
<1>6. [m EXCEPT !.blocks = bs] \in Message /\ [m EXCEPT !.blocks = bs].blocks = bs
      /\ [m EXCEPT !.blocks = bs].stage = m.stage /\ [m EXCEPT !.blocks = bs].stop = m.stop
  BY <1>5 DEF Message
<1>7. [m EXCEPT !.blocks[i] = b] = [m EXCEPT !.blocks = bs]
  BY DEF bs
<1>. QED  BY <1>3, <1>6, <1>7

\* A block is filled.
LEMMA ReadDelta ==
  ASSUME NEW m \in Message, NEW i \in DOMAIN m.blocks, NEW k \in Shown, NEW f \in Seq(Nat), f # <<>>,
         m.stage = "content", m.blocks[i].open,
         NEW e, e = Delta(i, k, f), NEW n, n = Read(m, e)
  PROVE  /\ MayRead(m, e) /\ n \in Message
         /\ n.stage = m.stage /\ n.stop = m.stop
         /\ DOMAIN n.blocks = DOMAIN m.blocks
         /\ n.blocks[i].content = m.blocks[i].content \o f
         /\ n.blocks[i].kind = m.blocks[i].kind /\ n.blocks[i].open
         /\ \A j \in DOMAIN m.blocks \ {i} : n.blocks[j] = m.blocks[j]
<1>. DEFINE b == [m.blocks[i] EXCEPT !.content = m.blocks[i].content \o f]
<1>1. e.type = "block_delta" /\ e.index = i /\ e.val = f
  BY DEF Delta
<1>2. Read(m, e) = [m EXCEPT !.blocks[i] = b]
  BY <1>1 DEF Read
<1>3. MayRead(m, e)
  BY <1>1 DEF MayRead, Fills
<1>4. m.blocks[i] \in ReadBlock
  BY BlockMapIs DEF Message
<1>5. b \in ReadBlock
  <2>1. m.blocks[i].content \in Seq(Nat)
    BY <1>4 DEF ReadBlock
  <2>2. m.blocks[i].content \o f \in Seq(Nat)
    BY <2>1, ConcatProperties
  <2>. DEFINE c == m.blocks[i].content \o f
  <2>. HIDE DEF c
  <2>3. [m.blocks[i] EXCEPT !.content = c] \in ReadBlock
    BY <1>4, <2>2 DEF ReadBlock, c
  <2>. QED  BY <2>3 DEF c
<1>. HIDE DEF b
<1>6. /\ n \in Message /\ n.stage = m.stage /\ n.stop = m.stop
      /\ DOMAIN n.blocks = DOMAIN m.blocks /\ n.blocks[i] = b
      /\ \A j \in DOMAIN m.blocks \ {i} : n.blocks[j] = m.blocks[j]
  BY <1>2, <1>5, BlockSet
<1>7. b.content = m.blocks[i].content \o f /\ b.kind = m.blocks[i].kind /\ b.open = m.blocks[i].open
  BY <1>4 DEF b, ReadBlock
<1>. QED  BY <1>3, <1>6, <1>7

\* A block stops.
LEMMA ReadBlockStop ==
  ASSUME NEW m \in Message, NEW i \in DOMAIN m.blocks, m.stage = "content", m.blocks[i].open,
         NEW e, e = BlockStop(i), NEW n, n = Read(m, e)
  PROVE  /\ MayRead(m, e) /\ n \in Message
         /\ n.stage = m.stage /\ n.stop = m.stop
         /\ DOMAIN n.blocks = DOMAIN m.blocks
         /\ n.blocks[i].content = m.blocks[i].content
         /\ n.blocks[i].kind = m.blocks[i].kind /\ ~n.blocks[i].open
         /\ \A j \in DOMAIN m.blocks \ {i} : n.blocks[j] = m.blocks[j]
<1>. DEFINE b == [m.blocks[i] EXCEPT !.open = FALSE]
<1>1. e.type = "block_stop" /\ e.index = i
  BY DEF BlockStop
<1>2. Read(m, e) = [m EXCEPT !.blocks[i] = b]
  BY <1>1 DEF Read
<1>3. MayRead(m, e)
  BY <1>1 DEF MayRead, StopsBlock
<1>4. m.blocks[i] \in ReadBlock
  BY BlockMapIs DEF Message
<1>5. b \in ReadBlock
  BY <1>4 DEF ReadBlock
<1>. HIDE DEF b
<1>6. /\ n \in Message /\ n.stage = m.stage /\ n.stop = m.stop
      /\ DOMAIN n.blocks = DOMAIN m.blocks /\ n.blocks[i] = b
      /\ \A j \in DOMAIN m.blocks \ {i} : n.blocks[j] = m.blocks[j]
  BY <1>2, <1>5, BlockSet
<1>7. b.content = m.blocks[i].content /\ b.kind = m.blocks[i].kind /\ b.open = FALSE
  BY <1>4 DEF b, ReadBlock
<1>. QED  BY <1>3, <1>6, <1>7

\* The message ends, then it stops.
LEMMA ReadMessageEnd ==
  ASSUME NEW m \in Message, NEW s \in Stops, NEW u, m.stage = "content", NEW c \in Nat,
         DOMAIN m.blocks = 0 .. c - 1, \A i \in DOMAIN m.blocks : ~m.blocks[i].open,
         NEW e, e = MessageDelta(s, u), NEW n, n = Read(m, e)
  PROVE  /\ MayRead(m, e) /\ n \in Message /\ n.stage = "ended"
         /\ MayRead(n, MessageStop) /\ Read(n, MessageStop) \in Message
         /\ Read(n, MessageStop).stage = "stopped"
<1>1. e.type = "message_delta" /\ e.stop = s
  BY DEF MessageDelta
<1>2. Read(m, e) = [m EXCEPT !.stage = "ended", !.stop = s]
  BY <1>1 DEF Read
<1>3. MayRead(m, e)
  BY <1>1 DEF MayRead, Ends
<1>4. Read(m, e) \in Message /\ Read(m, e).stage = "ended"
  BY <1>2 DEF Message, Stage
<1>5. MessageStop.type = "message_stop"
  BY DEF MessageStop
<1>6. Read(n, MessageStop) = [n EXCEPT !.stage = "stopped"]
  BY <1>5 DEF Read
<1>7. MayRead(n, MessageStop)
  BY <1>4, <1>5 DEF MayRead, StopsMessage
<1>8. [n EXCEPT !.stage = "stopped"] \in Message /\ [n EXCEPT !.stage = "stopped"].stage = "stopped"
  BY <1>4 DEF Message, Stage
<1>. QED  BY <1>3, <1>4, <1>6, <1>7, <1>8

-----------------------------------------------------------------------------
(***************************************************************************)
(* The state s of the conversion fits what its client will have assembled, *)
(* m: an index without a block is that of a tool that is not started, and  *)
(* a block is open for the client when it is open in the conversion.       *)
(***************************************************************************)
Places(m, s) ==
    /\ DOMAIN m.blocks \subseteq 0 .. s.next - 1
    /\ \A i \in (0 .. s.next - 1) \ DOMAIN m.blocks :
          \E t \in DOMAIN s.tools : ~s.tools[t].started /\ s.tools[t].index = i
    /\ s.text # None => s.text \in DOMAIN m.blocks
OpenBlocks(m, s) ==
    \A i \in DOMAIN m.blocks :
        m.blocks[i].open <=> i = s.text \/ \E t \in DOMAIN s.tools : s.tools[t].index = i /\ s.tools[t].open
ToolPlaces(m, s) ==
    /\ \A t \in DOMAIN s.tools :
          /\ s.tools[t].index < s.next /\ s.tools[t].index # s.text
          /\ s.tools[t].started <=> s.tools[t].index \in DOMAIN m.blocks
          /\ s.tools[t].open => s.tools[t].started
    /\ \A t, u \in DOMAIN s.tools : s.tools[t].index = s.tools[u].index => t = u
Fits(m, s) ==
    /\ m \in Message /\ s \in Conv /\ m.stage = "content"
    /\ Places(m, s) /\ OpenBlocks(m, s) /\ ToolPlaces(m, s)
Run(m0, s, m) == Path(m0, s.out, m) /\ Fits(m, s)

(* What the operators on blocks leave alone.                               *)
Kept(s, o) == /\ o.started = s.started /\ o.usage = s.usage
              /\ o.stop = s.stop /\ o.ended = s.ended

\* An event is put.
LEMMA PutIs ==
  ASSUME NEW s \in Conv, NEW e \in Event, NEW o, o = Put(s, e)
  PROVE  /\ o \in Conv /\ o.out = Append(s.out, e)
         /\ Kept(s, o) /\ o.next = s.next /\ o.text = s.text /\ o.tools = s.tools
<1>1. s.out \in Seq(Event)
  BY DEF Conv
<1>. DEFINE x == Append(s.out, e)
<1>2. x \in Seq(Event)
  BY <1>1, AppendProperties
<1>3. o = [s EXCEPT !.out = x]
  BY DEF Put
<1>. HIDE DEF x
<1>4. o \in Conv
  BY <1>2, <1>3 DEF Conv
<1>5. o.out = x /\ Kept(s, o) /\ o.next = s.next /\ o.text = s.text /\ o.tools = s.tools
  BY <1>3 DEF Conv, Kept
<1>. QED  BY <1>4, <1>5 DEF x

\* What fits, fits when only contents differ.
LEMMA FitsSame ==
  ASSUME NEW m, NEW s, Fits(m, s), NEW n \in Message, NEW o \in Conv,
         n.stage = m.stage, DOMAIN n.blocks = DOMAIN m.blocks,
         \A i \in DOMAIN m.blocks : n.blocks[i].open = m.blocks[i].open,
         o.next = s.next, o.text = s.text, o.tools = s.tools
  PROVE  Fits(n, o)
BY DEF Fits, Places, OpenBlocks, ToolPlaces

\* A delta of an open block.
LEMMA RunDelta ==
  ASSUME NEW m0, NEW s, NEW m, Run(m0, s, m),
         NEW i \in DOMAIN m.blocks, m.blocks[i].open, NEW k \in Shown, NEW f \in Seq(Nat), f # <<>>,
         NEW o, o = Put(s, Delta(i, k, f))
  PROVE  /\ \E n : Run(m0, o, n) /\ DOMAIN n.blocks = DOMAIN m.blocks
         /\ Kept(s, o) /\ o.next = s.next /\ o.text = s.text /\ o.tools = s.tools
<1>. DEFINE e == Delta(i, k, f)
            n == Read(m, e)
<1>1. m \in Message /\ s \in Conv /\ m.stage = "content" /\ Fits(m, s) /\ Path(m0, s.out, m)
  BY DEF Run, Fits
<1>2. i \in Nat
  BY <1>1, BlockMapIs DEF Message
<1>3. e \in Event
  BY <1>2, EventTypes
<1>4. e = Delta(i, k, f) /\ n = Read(m, e) /\ o = Put(s, e)
  OBVIOUS
<1>. HIDE DEF e, n
<1>5. /\ MayRead(m, e) /\ n \in Message /\ n.stage = m.stage
      /\ DOMAIN n.blocks = DOMAIN m.blocks
      /\ n.blocks[i].open
      /\ \A j \in DOMAIN m.blocks \ {i} : n.blocks[j] = m.blocks[j]
  BY <1>1, <1>4, ReadDelta
<1>6. /\ o \in Conv /\ o.out = Append(s.out, e)
      /\ Kept(s, o) /\ o.next = s.next /\ o.text = s.text /\ o.tools = s.tools
  BY <1>1, <1>3, <1>4, PutIs
<1>7. m.blocks[i] \in ReadBlock
  BY <1>1, BlockMapIs DEF Message
<1>8. \A j \in DOMAIN m.blocks : n.blocks[j].open = m.blocks[j].open
  BY <1>5, <1>7 DEF ReadBlock
<1>9. Fits(n, o)
  BY <1>1, <1>5, <1>6, <1>8, FitsSame
<1>10. s.out \in Seq(Event)
  BY <1>1 DEF Conv
<1>11. Path(m0, o.out, n)
  BY <1>1, <1>3, <1>4, <1>5, <1>6, <1>10, PathAppend
<1>. QED  BY <1>5, <1>6, <1>9, <1>11 DEF Run

\* A block is started at the next index: for text, or for a tool.
LEMMA RunOpenText ==
  ASSUME NEW m0, NEW s, NEW m, Run(m0, s, m), s.text = None,
         NEW o, o = Put([s EXCEPT !.text = s.next, !.next = s.next + 1], BlockStart(s.next, "text", None))
  PROVE  /\ \E n : Run(m0, o, n) /\ o.text \in DOMAIN n.blocks /\ n.blocks[o.text].open
         /\ Kept(s, o) /\ o.tools = s.tools /\ o.text \in Nat
<1>. DEFINE i == s.next
            p == [s EXCEPT !.text = i, !.next = i + 1]
            e == BlockStart(i, "text", None)
            n == Read(m, e)
<1>1. m \in Message /\ s \in Conv /\ m.stage = "content" /\ Fits(m, s) /\ Path(m0, s.out, m)
  BY DEF Run, Fits
<1>2. i \in Nat /\ None \notin Nat
  BY <1>1, ReportsAssumption DEF Conv
<1>3. "text" \in Shown /\ None \in BlockVal
  BY DEF Shown, BlockVal
<1>4. e \in Event
  BY <1>2, <1>3, EventTypes
<1>5. /\ p \in Conv /\ p.out = s.out /\ Kept(s, p)
      /\ p.next = i + 1 /\ p.text = i /\ p.tools = s.tools
  <2>. DEFINE k == i + 1
  <2>1. k \in Nat
    BY <1>2
  <2>. HIDE DEF i, k
  <2>2. [s EXCEPT !.text = i, !.next = k] \in Conv
    BY <1>1, <1>2, <2>1 DEF Conv
  <2>3. LET q == [s EXCEPT !.text = i, !.next = k]
        IN q.out = s.out /\ Kept(s, q) /\ q.next = k /\ q.text = i /\ q.tools = s.tools
    BY <1>1 DEF Conv, Kept
  <2>. QED  BY <2>2, <2>3 DEF k
<1>6. i \notin DOMAIN m.blocks
  BY <1>1, <1>2 DEF Fits, Places
<1>7. e = BlockStart(i, "text", None) /\ n = Read(m, e) /\ o = Put(p, e)
  OBVIOUS
<1>. HIDE DEF e, n, p
<1>8. /\ MayRead(m, e) /\ n \in Message /\ n.stage = m.stage
      /\ DOMAIN n.blocks = DOMAIN m.blocks \cup {i}
      /\ n.blocks[i] = [kind |-> "text", val |-> None, content |-> <<>>, open |-> TRUE]
      /\ \A j \in DOMAIN m.blocks : n.blocks[j] = m.blocks[j]
  BY <1>1, <1>2, <1>3, <1>6, <1>7, ReadBlockStart
<1>9. /\ o \in Conv /\ o.out = Append(s.out, e) /\ Kept(s, o)
      /\ o.next = i + 1 /\ o.text = i /\ o.tools = s.tools
  <2>1. /\ o \in Conv /\ o.out = Append(p.out, e) /\ Kept(p, o)
        /\ o.next = p.next /\ o.text = p.text /\ o.tools = p.tools
    BY <1>4, <1>5, <1>7, PutIs
  <2>. QED  BY <1>5, <2>1 DEF Kept
<1>10. s.out \in Seq(Event)
  BY <1>1 DEF Conv
<1>11. Path(m0, o.out, n)
  BY <1>1, <1>4, <1>7, <1>8, <1>9, <1>10, PathAppend
<1>12. \A t \in DOMAIN s.tools : s.tools[t].index \in Nat /\ s.tools[t].index < i
  <2>1. \A t \in DOMAIN s.tools : s.tools[t] \in ToolBlock
    BY <1>1, ToolMapIs DEF Conv
  <2>2. \A t \in DOMAIN s.tools : s.tools[t].index < i
    BY <1>1 DEF Fits, ToolPlaces
  <2>. QED  BY <2>1, <2>2 DEF ToolBlock
<1>13. n.blocks[i].open
  BY <1>8
<1>14. DOMAIN m.blocks \subseteq 0 .. i - 1
  BY <1>1 DEF Fits, Places
<1>. HIDE DEF i
<1>15. Places(n, o)
  <2>1. \A j \in (0 .. i) \ DOMAIN n.blocks :
          \E t \in DOMAIN s.tools : ~s.tools[t].started /\ s.tools[t].index = j
    <3>. SUFFICES ASSUME NEW j \in (0 .. i) \ DOMAIN n.blocks
                  PROVE  \E t \in DOMAIN s.tools : ~s.tools[t].started /\ s.tools[t].index = j
      OBVIOUS
    <3>1. j \in (0 .. i - 1) \ DOMAIN m.blocks
      BY <1>2, <1>8
    <3>. QED  BY <1>1, <3>1 DEF Fits, Places, i
  <2>2. DOMAIN n.blocks \subseteq 0 .. i
    BY <1>2, <1>8, <1>14
  <2>3. o.next - 1 = i
    BY <1>2, <1>9
  <2>. QED  BY <1>8, <1>9, <2>1, <2>2, <2>3 DEF Places
<1>16. OpenBlocks(n, o)
  <2>1. \A j \in DOMAIN m.blocks :
           m.blocks[j].open <=> \E t \in DOMAIN s.tools : s.tools[t].index = j /\ s.tools[t].open
    <3>1. \A j \in DOMAIN m.blocks : j # s.text
      BY <1>2, <1>14
    <3>. QED  BY <1>1, <3>1 DEF Fits, OpenBlocks
  <2>2. \A j \in DOMAIN m.blocks : j # i
    BY <1>6
  <2>. QED  BY <1>8, <1>9, <1>13, <2>1, <2>2 DEF OpenBlocks
<1>17. ToolPlaces(n, o)
  <2>1. \A t \in DOMAIN s.tools : s.tools[t].index # i /\ s.tools[t].index < i + 1
    BY <1>2, <1>12
  <2>2. ToolPlaces(m, s)
    BY <1>1 DEF Fits
  <2>. QED  BY <1>8, <1>9, <2>1, <2>2 DEF ToolPlaces
<1>18. Fits(n, o)
  BY <1>1, <1>8, <1>9, <1>15, <1>16, <1>17 DEF Fits
<1>. QED  BY <1>2, <1>8, <1>9, <1>11, <1>13, <1>18 DEF Run

\* A delta of text.
LEMMA RunTextDelta ==
  ASSUME NEW m0, NEW s, NEW m, Run(m0, s, m), NEW f \in Nat, NEW o, o = TextDelta(s, f)
  PROVE  (\E n : Run(m0, o, n)) /\ Kept(s, o) /\ o.tools = s.tools
<1>. DEFINE p == IF s.text # None THEN s
                 ELSE Put([s EXCEPT !.text = s.next, !.next = s.next + 1], BlockStart(s.next, "text", None))
<1>1. o = Put(p, Delta(p.text, "text", <<f>>))
  BY DEF TextDelta
<1>2. \E n : /\ Run(m0, p, n) /\ p.text \in DOMAIN n.blocks /\ n.blocks[p.text].open
             /\ Kept(s, p) /\ p.tools = s.tools
  <2>1. CASE s.text # None
    <3>1. p = s /\ Kept(s, s)
      BY <2>1 DEF Kept
    <3>2. s.text \in DOMAIN m.blocks /\ m.blocks[s.text].open
      BY <2>1 DEF Run, Fits, Places, OpenBlocks
    <3>. HIDE DEF p
    <3>. QED  BY <3>1, <3>2
  <2>2. CASE s.text = None
    <3>1. p = Put([s EXCEPT !.text = s.next, !.next = s.next + 1], BlockStart(s.next, "text", None))
      BY <2>2
    <3>. HIDE DEF p
    <3>. QED  BY <2>2, <3>1, RunOpenText
  <2>. QED  BY <2>1, <2>2
<1>. HIDE DEF p
<1>3. PICK n : /\ Run(m0, p, n) /\ p.text \in DOMAIN n.blocks /\ n.blocks[p.text].open
               /\ Kept(s, p) /\ p.tools = s.tools
  BY <1>2
<1>4. <<f>> \in Seq(Nat) /\ <<f>> # <<>> /\ "text" \in Shown
  BY DEF Shown
<1>5. (\E r : Run(m0, o, r)) /\ Kept(p, o) /\ o.tools = p.tools
  <2>. DEFINE i == p.text
              ff == <<f>>
              k == "text"
  <2>1. /\ i \in DOMAIN n.blocks /\ n.blocks[i].open /\ k \in Shown
        /\ ff \in Seq(Nat) /\ ff # <<>> /\ o = Put(p, Delta(i, k, ff)) /\ Run(m0, p, n)
    BY <1>1, <1>3, <1>4
  <2>. HIDE DEF i, ff, k
  <2>. QED  BY <2>1, RunDelta
<1>. QED  BY <1>3, <1>5 DEF Kept

\* A block that is open in the conversion is closed: text.
LEMMA RunCloseText ==
  ASSUME NEW m0, NEW s, NEW m, Run(m0, s, m), NEW o, o = closeOpenTextBlock(s)
  PROVE  (\E n : Run(m0, o, n)) /\ Kept(s, o) /\ o.tools = s.tools /\ o.text = None /\ o.next = s.next
<1>1. m \in Message /\ s \in Conv /\ m.stage = "content" /\ Fits(m, s) /\ Path(m0, s.out, m)
  BY DEF Run, Fits
<1>2. CASE s.text = None
  BY <1>2 DEF closeOpenTextBlock, Kept
<1>3. CASE s.text # None
  <2>. DEFINE i == s.text
              p == [s EXCEPT !.text = None]
              e == BlockStop(i)
              n == Read(m, e)
  <2>1. i \in DOMAIN m.blocks /\ i \in Nat /\ m.blocks[i].open
    BY <1>1, <1>3 DEF Fits, Places, OpenBlocks, Conv
  <2>2. e \in Event
    BY <2>1, EventTypes
  <2>3. /\ p \in Conv /\ p.out = s.out /\ Kept(s, p)
        /\ p.next = s.next /\ p.text = None /\ p.tools = s.tools
    BY <1>1 DEF Conv, Kept
  <2>4. e = BlockStop(i) /\ n = Read(m, e) /\ o = Put(p, e)
    BY <1>3 DEF closeOpenTextBlock
  <2>. HIDE DEF e, n, p
  <2>5. /\ MayRead(m, e) /\ n \in Message /\ n.stage = m.stage
        /\ DOMAIN n.blocks = DOMAIN m.blocks /\ ~n.blocks[i].open
        /\ \A j \in DOMAIN m.blocks \ {i} : n.blocks[j] = m.blocks[j]
    BY <1>1, <2>1, <2>4, ReadBlockStop
  <2>6. /\ o \in Conv /\ o.out = Append(s.out, e) /\ Kept(s, o)
        /\ o.next = s.next /\ o.text = None /\ o.tools = s.tools
    <3>1. /\ o \in Conv /\ o.out = Append(p.out, e) /\ Kept(p, o)
          /\ o.next = p.next /\ o.text = p.text /\ o.tools = p.tools
      BY <2>2, <2>3, <2>4, PutIs
    <3>. QED  BY <2>3, <3>1 DEF Kept
  <2>7. s.out \in Seq(Event)
    BY <1>1 DEF Conv
  <2>8. Path(m0, o.out, n)
    BY <1>1, <2>2, <2>4, <2>5, <2>6, <2>7, PathAppend
  <2>9. Places(n, o)
    BY <1>1, <2>5, <2>6 DEF Fits, Places
  <2>10. OpenBlocks(n, o)
    <3>1. \A j \in DOMAIN m.blocks \ {i} :
             n.blocks[j].open <=> \E t \in DOMAIN s.tools : s.tools[t].index = j /\ s.tools[t].open
      BY <1>1, <2>5 DEF Fits, OpenBlocks
    <3>2. \A t \in DOMAIN s.tools : s.tools[t].index # i
      BY <1>1 DEF Fits, ToolPlaces
    <3>3. None \notin Nat /\ \A j \in DOMAIN m.blocks : j \in Nat
      BY <1>1, ReportsAssumption, BlockMapIs DEF Message
    <3>. HIDE DEF i
    <3>. QED  BY <2>5, <2>6, <3>1, <3>2, <3>3 DEF OpenBlocks
  <2>11. ToolPlaces(n, o)
    <3>1. \A t \in DOMAIN s.tools : s.tools[t].index \in Nat
      BY <1>1, ToolMapIs DEF Conv, ToolBlock
    <3>2. None \notin Nat
      BY ReportsAssumption
    <3>3. ToolPlaces(m, s)
      BY <1>1 DEF Fits
    <3>. QED  BY <2>5, <2>6, <3>1, <3>2, <3>3 DEF ToolPlaces
  <2>12. Fits(n, o)
    BY <1>1, <2>5, <2>6, <2>9, <2>10, <2>11 DEF Fits
  <2>. QED  BY <2>6, <2>8, <2>12 DEF Run
<1>. QED  BY <1>2, <1>3

\* One tool block of the conversion is set.
LEMMA ToolSet ==
  ASSUME NEW g \in ToolMap, NEW t \in Nat, NEW b \in ToolBlock, NEW f,
         f = [u \in DOMAIN f |-> f[u]], DOMAIN f = DOMAIN g \cup {t},
         f[t] = b, \A u \in DOMAIN g \ {t} : f[u] = g[u]
  PROVE  f \in ToolMap
<1>1. /\ DOMAIN g \subseteq Nat /\ IsFiniteSet(DOMAIN g)
      /\ \A u \in DOMAIN g : g[u] \in ToolBlock
  BY ToolMapIs
<1>2. IsFiniteSet(DOMAIN f)
  BY <1>1, FS_AddElement
<1>3. \A u \in DOMAIN f : f[u] \in ToolBlock
  BY <1>1
<1>4. DOMAIN f \subseteq Nat
  BY <1>1
<1>. QED  BY <1>2, <1>3, <1>4, ToolMapOf

\* The same of a block that is there.
LEMMA ToolChange ==
  ASSUME NEW s \in Conv, NEW t \in DOMAIN s.tools, NEW b \in ToolBlock,
         NEW f, f = [s.tools EXCEPT ![t] = b]
  PROVE  /\ f \in ToolMap /\ DOMAIN f = DOMAIN s.tools /\ f[t] = b
         /\ \A u \in DOMAIN s.tools \ {t} : f[u] = s.tools[u]
<1>1. s.tools \in ToolMap /\ t \in Nat
  BY ToolMapIs DEF Conv
<1>2. /\ f = [u \in DOMAIN f |-> f[u]] /\ DOMAIN f = DOMAIN s.tools
      /\ f[t] = b /\ \A u \in DOMAIN s.tools \ {t} : f[u] = s.tools[u]
  OBVIOUS
<1>3. DOMAIN f = DOMAIN s.tools \cup {t}
  BY <1>2
<1>. QED  BY <1>1, <1>2, <1>3, ToolSet

\* What fits, fits when a tool learns its name.
LEMMA RunSame ==
  ASSUME NEW m0, NEW s, NEW m, Run(m0, s, m), NEW o \in Conv,
         o.out = s.out, o.next = s.next, o.text = s.text, DOMAIN o.tools = DOMAIN s.tools,
         \A t \in DOMAIN s.tools : /\ o.tools[t].index = s.tools[t].index
                                   /\ o.tools[t].started = s.tools[t].started
                                   /\ o.tools[t].open = s.tools[t].open
  PROVE  Run(m0, o, m)
<1>1. m \in Message /\ s \in Conv /\ m.stage = "content" /\ Path(m0, o.out, m)
  BY DEF Run, Fits
<1>2. Places(m, o)
  BY DEF Run, Fits, Places
<1>3. OpenBlocks(m, o)
  BY DEF Run, Fits, OpenBlocks
<1>4. ToolPlaces(m, o)
  BY DEF Run, Fits, ToolPlaces
<1>. QED  BY <1>1, <1>2, <1>3, <1>4 DEF Run, Fits

\* The block of a tool is found, or takes the next index.
LEMMA RunGetTool ==
  ASSUME NEW m0, NEW s, NEW m, Run(m0, s, m), NEW t \in Nat, NEW o, o = getOrCreateToolBlock(s, t)
  PROVE  /\ Run(m0, o, m) /\ Kept(s, o) /\ DOMAIN o.tools = DOMAIN s.tools \cup {t}
         /\ \A u \in DOMAIN s.tools : o.tools[u] = s.tools[u]
         /\ t \notin DOMAIN s.tools => ~o.tools[t].started
<1>1. m \in Message /\ s \in Conv /\ m.stage = "content" /\ Fits(m, s) /\ Path(m0, s.out, m)
  BY DEF Run, Fits
<1>2. CASE t \in DOMAIN s.tools
  BY <1>2 DEF getOrCreateToolBlock, Kept
<1>3. CASE t \notin DOMAIN s.tools
  <2>. DEFINE i == s.next
              b == [index |-> i, id |-> None, name |-> None, pending |-> <<>>, started |-> FALSE, open |-> FALSE]
              f == [u \in DOMAIN s.tools \cup {t} |-> IF u = t THEN b ELSE s.tools[u]]
              k == i + 1
  <2>1. i \in Nat /\ k \in Nat /\ None \notin Nat
    BY <1>1, ReportsAssumption DEF Conv
  <2>2. b \in ToolBlock
    <3>. HIDE DEF i
    <3>. QED  BY <2>1 DEF ToolBlock, Ident
  <2>3. b.index = i /\ b.started = FALSE /\ b.open = FALSE
    OBVIOUS
  <2>4. o = [s EXCEPT !.next = k, !.tools = f]
    BY <1>3 DEF getOrCreateToolBlock
  <2>. HIDE DEF b
  <2>5. /\ f = [u \in DOMAIN f |-> f[u]] /\ DOMAIN f = DOMAIN s.tools \cup {t}
        /\ f[t] = b /\ \A u \in DOMAIN s.tools \ {t} : f[u] = s.tools[u]
    OBVIOUS
  <2>. HIDE DEF f, k
  <2>6. /\ o \in Conv /\ Kept(s, o) /\ o.out = s.out /\ o.text = s.text /\ o.next = k
        /\ DOMAIN o.tools = DOMAIN s.tools \cup {t} /\ o.tools[t] = b
        /\ \A u \in DOMAIN s.tools \ {t} : o.tools[u] = s.tools[u]
    <3>1. s.tools \in ToolMap
      BY <1>1 DEF Conv
    <3>2. f \in ToolMap
      BY <2>2, <2>5, <3>1, ToolSet
    <3>3. o \in Conv
      BY <1>1, <2>1, <2>4, <3>2 DEF Conv
    <3>4. Kept(s, o) /\ o.out = s.out /\ o.text = s.text /\ o.next = k /\ o.tools = f
      BY <1>1, <2>4 DEF Conv, Kept
    <3>. QED  BY <2>5, <3>3, <3>4
  <2>7. \A u \in DOMAIN s.tools : o.tools[u] = s.tools[u]
    BY <1>3, <2>6
  <2>8. \A u \in DOMAIN s.tools : s.tools[u].index \in Nat /\ s.tools[u].index < i
    <3>1. \A u \in DOMAIN s.tools : s.tools[u].index \in Nat
      BY <1>1, ToolMapIs DEF Conv, ToolBlock
    <3>. QED  BY <1>1, <3>1 DEF Fits, ToolPlaces
  <2>9. (0 .. i) = (0 .. i - 1) \cup {i} /\ o.next - 1 = i /\ i \notin 0 .. i - 1
    <3>. HIDE DEF i
    <3>. QED  BY <2>1, <2>6 DEF k
  <2>10. DOMAIN m.blocks \subseteq 0 .. i - 1
    BY <1>1 DEF Fits, Places
  <2>11. Places(m, o)
    <3>1. \A j \in (0 .. i) \ DOMAIN m.blocks :
             \E u \in DOMAIN o.tools : ~o.tools[u].started /\ o.tools[u].index = j
      <4>. SUFFICES ASSUME NEW j \in (0 .. i) \ DOMAIN m.blocks
                    PROVE  \E u \in DOMAIN o.tools : ~o.tools[u].started /\ o.tools[u].index = j
        OBVIOUS
      <4>1. CASE j = i
        BY <2>3, <2>6, <4>1
      <4>2. CASE j # i
        <5>1. j \in (0 .. i - 1) \ DOMAIN m.blocks
          BY <2>9, <4>2
        <5>2. PICK u \in DOMAIN s.tools : ~s.tools[u].started /\ s.tools[u].index = j
          BY <1>1, <5>1 DEF Fits, Places
        <5>. QED  BY <2>6, <2>7, <5>2
      <4>. QED  BY <4>1, <4>2
    <3>2. DOMAIN m.blocks \subseteq 0 .. i
      BY <2>9, <2>10
    <3>3. s.text # None => s.text \in DOMAIN m.blocks
      BY <1>1 DEF Fits, Places
    <3>. QED  BY <2>6, <2>9, <3>1, <3>2, <3>3 DEF Places
  <2>12. OpenBlocks(m, o)
    <3>1. OpenBlocks(m, s)
      BY <1>1 DEF Fits
    <3>. QED  BY <2>3, <2>6, <2>7, <3>1 DEF OpenBlocks
  <2>13. ToolPlaces(m, o)
    <3>1. s.text # i
      BY <1>1, <2>1, <2>9, <2>10 DEF Fits, Places
    <3>2. i \notin DOMAIN m.blocks
      BY <2>9, <2>10
    <3>3. ToolPlaces(m, s)
      BY <1>1 DEF Fits
    <3>. HIDE DEF i
    <3>4. \A u \in DOMAIN s.tools : s.tools[u].index < k /\ s.tools[u].index # i
      BY <2>1, <2>8 DEF k
    <3>5. \A u \in DOMAIN o.tools :
          /\ o.tools[u].index < k /\ o.tools[u].index # s.text
          /\ o.tools[u].started <=> o.tools[u].index \in DOMAIN m.blocks
          /\ o.tools[u].open => o.tools[u].started
      <4>. SUFFICES ASSUME NEW u \in DOMAIN o.tools
                    PROVE  /\ o.tools[u].index < k /\ o.tools[u].index # s.text
                           /\ o.tools[u].started <=> o.tools[u].index \in DOMAIN m.blocks
                           /\ o.tools[u].open => o.tools[u].started
        OBVIOUS
      <4>1. CASE u = t
        BY <2>1, <2>3, <2>6, <3>1, <3>2, <4>1 DEF k
      <4>2. CASE u # t
        BY <2>6, <2>7, <3>3, <3>4, <4>2 DEF ToolPlaces
      <4>. QED  BY <4>1, <4>2
    <3>6. \A u, w \in DOMAIN o.tools : o.tools[u].index = o.tools[w].index => u = w
      BY <2>3, <2>6, <2>7, <3>3, <3>4 DEF ToolPlaces
    <3>. QED  BY <2>6, <3>5, <3>6 DEF ToolPlaces
  <2>14. Fits(m, o)
    BY <1>1, <2>6, <2>11, <2>12, <2>13 DEF Fits
  <2>. QED  BY <1>1, <2>3, <2>6, <2>7, <2>14 DEF Run
<1>. QED  BY <1>2, <1>3

\* The block of a tool that is not started takes its place, open.
LEMMA FitsStarted ==
  ASSUME NEW s, NEW m, Fits(m, s), NEW t \in DOMAIN s.tools, ~s.tools[t].started,
         NEW n \in Message, n.stage = m.stage,
         DOMAIN n.blocks = DOMAIN m.blocks \cup {s.tools[t].index}, n.blocks[s.tools[t].index].open,
         \A j \in DOMAIN m.blocks : n.blocks[j] = m.blocks[j],
         NEW o \in Conv, o.next = s.next, o.text = s.text, DOMAIN o.tools = DOMAIN s.tools,
         o.tools[t].index = s.tools[t].index, o.tools[t].started, o.tools[t].open,
         \A u \in DOMAIN s.tools \ {t} : o.tools[u] = s.tools[u]
  PROVE  Fits(n, o)
<1>. DEFINE i == s.tools[t].index
<1>1. m \in Message /\ s \in Conv /\ m.stage = "content" /\ Places(m, s) /\ OpenBlocks(m, s) /\ ToolPlaces(m, s)
  BY DEF Fits
<1>2. \A u \in DOMAIN s.tools : s.tools[u].index \in Nat
  BY <1>1, ToolMapIs DEF Conv, ToolBlock
<1>3. i \in Nat /\ i < s.next /\ i # s.text /\ i \notin DOMAIN m.blocks
  BY <1>1, <1>2 DEF ToolPlaces
<1>4. \A u \in DOMAIN s.tools : s.tools[u].index = i => u = t
  BY <1>1 DEF ToolPlaces
<1>5. s.next \in Nat
  BY <1>1 DEF Conv
<1>6. /\ DOMAIN n.blocks = DOMAIN m.blocks \cup {i} /\ n.blocks[i].open
      /\ o.tools[t].index = i
  OBVIOUS
<1>. HIDE DEF i
<1>7. Places(n, o)
  <2>1. DOMAIN m.blocks \cup {i} \subseteq 0 .. s.next - 1
    BY <1>1, <1>3, <1>5 DEF Places
  <2>2. ASSUME NEW j \in (0 .. s.next - 1) \ DOMAIN n.blocks
        PROVE  \E u \in DOMAIN o.tools : ~o.tools[u].started /\ o.tools[u].index = j
    <3>1. PICK u \in DOMAIN s.tools : ~s.tools[u].started /\ s.tools[u].index = j
      BY <1>1, <1>6, <2>2 DEF Places
    <3>2. u # t
      BY <1>6, <2>2, <3>1 DEF i
    <3>. QED  BY <3>1, <3>2
  <2>3. s.text # None => s.text \in DOMAIN n.blocks
    BY <1>1, <1>6 DEF Places
  <2>. QED  BY <1>6, <2>1, <2>2, <2>3 DEF Places
<1>8. OpenBlocks(n, o)
  <2>1. ASSUME NEW j \in DOMAIN m.blocks
        PROVE  n.blocks[j].open <=> j = o.text \/ \E u \in DOMAIN o.tools : o.tools[u].index = j /\ o.tools[u].open
    <3>1. j # i
      BY <1>3, <2>1
    <3>2. m.blocks[j].open <=> j = s.text \/ \E u \in DOMAIN s.tools : s.tools[u].index = j /\ s.tools[u].open
      BY <1>1, <2>1 DEF OpenBlocks
    <3>3. \A u \in DOMAIN s.tools : s.tools[u].index = j /\ s.tools[u].open <=> o.tools[u].index = j /\ o.tools[u].open
      BY <1>6, <3>1 DEF i
    <3>. QED  BY <2>1, <3>2, <3>3
  <2>. QED  BY <1>6, <2>1 DEF OpenBlocks
<1>9. ToolPlaces(n, o)
  <2>1. \A u \in DOMAIN o.tools :
          /\ o.tools[u].index < s.next /\ o.tools[u].index # s.text
          /\ o.tools[u].started <=> o.tools[u].index \in DOMAIN n.blocks
          /\ o.tools[u].open => o.tools[u].started
    <3>. SUFFICES ASSUME NEW u \in DOMAIN s.tools
                  PROVE  /\ o.tools[u].index < s.next /\ o.tools[u].index # s.text
                         /\ o.tools[u].started <=> o.tools[u].index \in DOMAIN n.blocks
                         /\ o.tools[u].open => o.tools[u].started
      OBVIOUS
    <3>1. CASE u = t
      BY <1>3, <1>6, <3>1
    <3>2. CASE u # t
      BY <1>1, <1>4, <1>6, <3>2 DEF ToolPlaces
    <3>. QED  BY <3>1, <3>2
  <2>2. \A u, w \in DOMAIN o.tools : o.tools[u].index = o.tools[w].index => u = w
    <3>1. \A u \in DOMAIN s.tools : o.tools[u].index = s.tools[u].index
      BY <1>6 DEF i
    <3>. QED  BY <1>1, <3>1 DEF ToolPlaces
  <2>. QED  BY <2>1, <2>2 DEF ToolPlaces
<1>. QED  BY <1>1, <1>7, <1>8, <1>9 DEF Fits

\* A tool that is not started is started, with what was held back.
LEMMA RunStartTool ==
  ASSUME NEW m0, NEW s, NEW m, Run(m0, s, m), NEW t \in DOMAIN s.tools, ~s.tools[t].started,
         NEW o, o = startToolBlock(s, t)
  PROVE  /\ \E n : Run(m0, o, n)
         /\ Kept(s, o) /\ o.text = s.text /\ DOMAIN o.tools = DOMAIN s.tools
         /\ o.tools[t].index = s.tools[t].index /\ o.tools[t].started /\ o.tools[t].open
         /\ \A u \in DOMAIN s.tools \ {t} : o.tools[u] = s.tools[u]
<1>. DEFINE b == s.tools[t]
            i == b.index
            c == [b EXCEPT !.started = TRUE, !.open = TRUE, !.pending = <<>>]
            f == [s.tools EXCEPT ![t] = c]
            p == [s EXCEPT !.tools = f]
            k == "tool_use"
            v == [id |-> b.id, name |-> b.name]
            e == BlockStart(i, k, v)
            q == Put(p, e)
            n == Read(m, e)
<1>1. m \in Message /\ s \in Conv /\ m.stage = "content" /\ Fits(m, s) /\ Path(m0, s.out, m)
  BY DEF Run, Fits
<1>2. b \in ToolBlock
  BY <1>1, ToolMapIs DEF Conv
<1>3. i \in Nat /\ k \in Shown /\ v \in BlockVal /\ b.pending \in Seq(Nat)
  BY <1>2 DEF ToolBlock, Shown, BlockVal
<1>4. c \in ToolBlock /\ c.index = i /\ c.started /\ c.open
  <2>. HIDE DEF b
  <2>1. <<>> \in Seq(Nat)
    OBVIOUS
  <2>. QED  BY <1>2, <2>1 DEF ToolBlock
<1>5. o = IF b.pending = <<>> THEN q ELSE Put(q, Delta(i, k, b.pending))
  BY DEF startToolBlock
<1>6. e \in Event
  BY <1>3, EventTypes
<1>7. i \notin DOMAIN m.blocks
  BY <1>1 DEF Fits, ToolPlaces
<1>8. e = BlockStart(i, k, v) /\ q = Put(p, e) /\ n = Read(m, e) /\ f = [s.tools EXCEPT ![t] = c]
  OBVIOUS
<1>. HIDE DEF c, v, k, e, q, n
<1>9. /\ f \in ToolMap /\ DOMAIN f = DOMAIN s.tools /\ f[t] = c
      /\ \A u \in DOMAIN s.tools \ {t} : f[u] = s.tools[u]
  BY <1>1, <1>4, <1>8, ToolChange
<1>. HIDE DEF f
<1>10. p \in Conv
  BY <1>1, <1>9 DEF Conv
<1>11. Kept(s, p) /\ p.out = s.out /\ p.text = s.text /\ p.next = s.next /\ p.tools = f
  BY <1>1 DEF Conv, Kept
<1>. HIDE DEF p
<1>12. /\ q \in Conv /\ q.out = Append(s.out, e) /\ Kept(s, q)
       /\ q.next = s.next /\ q.text = s.text /\ q.tools = f
  <2>1. /\ q \in Conv /\ q.out = Append(p.out, e) /\ Kept(p, q)
        /\ q.next = p.next /\ q.text = p.text /\ q.tools = p.tools
    BY <1>6, <1>8, <1>10, PutIs
  <2>. QED  BY <1>11, <2>1 DEF Kept
<1>13. /\ MayRead(m, e) /\ n \in Message /\ n.stage = m.stage
       /\ DOMAIN n.blocks = DOMAIN m.blocks \cup {i}
       /\ n.blocks[i] = [kind |-> k, val |-> v, content |-> <<>>, open |-> TRUE]
       /\ \A j \in DOMAIN m.blocks : n.blocks[j] = m.blocks[j]
  BY <1>1, <1>3, <1>7, <1>8, ReadBlockStart
<1>14. n.blocks[i].open
  BY <1>13
<1>15. s.out \in Seq(Event)
  BY <1>1 DEF Conv
<1>16. Path(m0, q.out, n)
  BY <1>1, <1>6, <1>8, <1>12, <1>13, <1>15, PathAppend
<1>17. /\ DOMAIN q.tools = DOMAIN s.tools /\ q.tools[t].index = i /\ q.tools[t].started /\ q.tools[t].open
       /\ \A u \in DOMAIN s.tools \ {t} : q.tools[u] = s.tools[u]
  BY <1>4, <1>9, <1>12
<1>18. Fits(n, q)
  BY <1>1, <1>12, <1>13, <1>14, <1>17, FitsStarted
<1>19. Run(m0, q, n)
  BY <1>16, <1>18 DEF Run
<1>20. CASE b.pending = <<>>
  BY <1>5, <1>12, <1>17, <1>19, <1>20
<1>21. CASE b.pending # <<>>
  <2>. DEFINE g == b.pending
  <2>1. g \in Seq(Nat) /\ g # <<>> /\ o = Put(q, Delta(i, k, g)) /\ i \in DOMAIN n.blocks
    BY <1>3, <1>5, <1>13, <1>21
  <2>. HIDE DEF g, i, b
  <2>2. (\E r : Run(m0, o, r)) /\ Kept(q, o) /\ o.next = q.next /\ o.text = q.text /\ o.tools = q.tools
    BY <1>3, <1>14, <1>19, <2>1, RunDelta
  <2>. QED  BY <1>12, <1>17, <2>2 DEF Kept, i, b
<1>. QED  BY <1>20, <1>21

(* Until a finish reason is read, what is started is open; of a tool that  *)
(* is not started something is known.                                      *)
Opened(s) == \A t \in DOMAIN s.tools : s.tools[t].started => s.tools[t].open
KnownTool(b) == ~b.started => b.pending # <<>> \/ b.id # None \/ b.name # None
Known(s) == \A t \in DOMAIN s.tools : KnownTool(s.tools[t])

ToolDeltas ==
    {tc \in [index : Nat, id : Nat \cup {None}, name : Nat \cup {None}, args : Nat \cup {None}] :
        tc.id # None \/ tc.name # None \/ tc.args # None}

Named(s, t, x, y) == [s EXCEPT !.tools[t].id = x, !.tools[t].name = y]
Held(s, t, a) == [s EXCEPT !.tools[t].pending = Append(s.tools[t].pending, a)]

\* A tool learns its identifier and its name.
LEMMA RunNamed ==
  ASSUME NEW m0, NEW s, NEW m, Run(m0, s, m), NEW t \in DOMAIN s.tools,
         NEW x \in Ident, NEW y \in Ident,
         NEW o, o = Named(s, t, x, y)
  PROVE  /\ Run(m0, o, m) /\ Kept(s, o) /\ o.text = s.text /\ DOMAIN o.tools = DOMAIN s.tools
         /\ o.tools[t].index = s.tools[t].index /\ o.tools[t].id = x /\ o.tools[t].name = y
         /\ o.tools[t].pending = s.tools[t].pending
         /\ o.tools[t].started = s.tools[t].started /\ o.tools[t].open = s.tools[t].open
         /\ \A u \in DOMAIN s.tools \ {t} : o.tools[u] = s.tools[u]
<1>. DEFINE b == s.tools[t]
            c == [b EXCEPT !.id = x, !.name = y]
            f == [s.tools EXCEPT ![t] = c]
<1>1. s \in Conv
  BY DEF Run, Fits
<1>2. b \in ToolBlock
  BY <1>1, ToolMapIs DEF Conv
<1>3. /\ c \in ToolBlock /\ c.index = b.index /\ c.id = x /\ c.name = y /\ c.pending = b.pending
      /\ c.started = b.started /\ c.open = b.open
  <2>. HIDE DEF b
  <2>. QED  BY <1>2 DEF ToolBlock
<1>4. o = [s EXCEPT !.tools = f]
  <2>. DEFINE g == [s.tools EXCEPT ![t] = [b EXCEPT !.id = x]]
              h == [g EXCEPT ![t] = [g[t] EXCEPT !.name = y]]
  <2>1. o = [[s EXCEPT !.tools = g] EXCEPT !.tools = [[s EXCEPT !.tools = g].tools EXCEPT
                ![t] = [[s EXCEPT !.tools = g].tools[t] EXCEPT !.name = y]]]
    BY DEF Named
  <2>2. [s EXCEPT !.tools = g].tools = g
    <3>. HIDE DEF g
    <3>. QED  BY <1>1 DEF Conv
  <2>3. h = f
    <3>1. g[t] = [b EXCEPT !.id = x]
      OBVIOUS
    <3>2. [g[t] EXCEPT !.name = y] = c
      BY <3>1
    <3>. HIDE DEF c, b
    <3>3. [g EXCEPT ![t] = c] = f
      OBVIOUS
    <3>. QED  BY <3>2, <3>3
  <2>4. o = [[s EXCEPT !.tools = g] EXCEPT !.tools = h]
    <3>. HIDE DEF g
    <3>. QED  BY <2>1, <2>2
  <2>. HIDE DEF g, h, f
  <2>5. [[s EXCEPT !.tools = g] EXCEPT !.tools = h] = [s EXCEPT !.tools = h]
    BY <1>1 DEF Conv
  <2>. QED  BY <2>3, <2>4, <2>5
<1>5. f = [s.tools EXCEPT ![t] = c]
  OBVIOUS
<1>. HIDE DEF c
<1>6. /\ f \in ToolMap /\ DOMAIN f = DOMAIN s.tools /\ f[t] = c
      /\ \A u \in DOMAIN s.tools \ {t} : f[u] = s.tools[u]
  BY <1>1, <1>3, <1>5, ToolChange
<1>. HIDE DEF f
<1>7. o \in Conv
  BY <1>1, <1>4, <1>6 DEF Conv
<1>8. Kept(s, o) /\ o.out = s.out /\ o.text = s.text /\ o.next = s.next /\ o.tools = f
  BY <1>1, <1>4 DEF Conv, Kept
<1>9. \A u \in DOMAIN s.tools : /\ o.tools[u].index = s.tools[u].index
                                /\ o.tools[u].started = s.tools[u].started
                                /\ o.tools[u].open = s.tools[u].open
  BY <1>3, <1>6, <1>8
<1>10. Run(m0, o, m)
  BY <1>6, <1>7, <1>8, <1>9, RunSame
<1>. QED  BY <1>3, <1>6, <1>8, <1>10

\* A tool that is not started holds a delta back.
LEMMA RunHeld ==
  ASSUME NEW m0, NEW s, NEW m, Run(m0, s, m), NEW t \in DOMAIN s.tools, NEW a \in Nat,
         NEW o, o = Held(s, t, a)
  PROVE  /\ Run(m0, o, m) /\ Kept(s, o) /\ o.text = s.text /\ DOMAIN o.tools = DOMAIN s.tools
         /\ o.tools[t].pending # <<>>
         /\ o.tools[t].started = s.tools[t].started /\ o.tools[t].open = s.tools[t].open
         /\ \A u \in DOMAIN s.tools \ {t} : o.tools[u] = s.tools[u]
<1>. DEFINE b == s.tools[t]
            p == Append(b.pending, a)
            c == [b EXCEPT !.pending = p]
            f == [s.tools EXCEPT ![t] = c]
<1>1. s \in Conv
  BY DEF Run, Fits
<1>2. b \in ToolBlock
  BY <1>1, ToolMapIs DEF Conv
<1>3. p \in Seq(Nat) /\ p # <<>>
  <2>1. b.pending \in Seq(Nat)
    BY <1>2 DEF ToolBlock
  <2>. HIDE DEF b
  <2>. QED  BY <2>1, AppendProperties
<1>4. o = [s EXCEPT !.tools = f] /\ f = [s.tools EXCEPT ![t] = c]
  BY DEF Held
<1>. HIDE DEF p
<1>5. /\ c \in ToolBlock /\ c.index = b.index /\ c.pending = p
      /\ c.started = b.started /\ c.open = b.open
  <2>. HIDE DEF b
  <2>. QED  BY <1>2, <1>3 DEF ToolBlock
<1>. HIDE DEF c
<1>6. /\ f \in ToolMap /\ DOMAIN f = DOMAIN s.tools /\ f[t] = c
      /\ \A u \in DOMAIN s.tools \ {t} : f[u] = s.tools[u]
  BY <1>1, <1>4, <1>5, ToolChange
<1>. HIDE DEF f
<1>7. o \in Conv
  BY <1>1, <1>4, <1>6 DEF Conv
<1>8. Kept(s, o) /\ o.out = s.out /\ o.text = s.text /\ o.next = s.next /\ o.tools = f
  BY <1>1, <1>4 DEF Conv, Kept
<1>9. \A u \in DOMAIN s.tools : /\ o.tools[u].index = s.tools[u].index
                                /\ o.tools[u].started = s.tools[u].started
                                /\ o.tools[u].open = s.tools[u].open
  BY <1>5, <1>6, <1>8
<1>10. Run(m0, o, m)
  BY <1>6, <1>7, <1>8, <1>9, RunSame
<1>. QED  BY <1>3, <1>5, <1>6, <1>8, <1>10

\* A delta of a tool, whatever is known of the tool before.
LEMMA RunToolDelta ==
  ASSUME NEW m0, NEW s, NEW m, Run(m0, s, m), Opened(s), Known(s),
         NEW tc \in ToolDeltas, NEW o, o = ToolDelta(s, tc)
  PROVE  (\E n : Run(m0, o, n)) /\ Kept(s, o) /\ Opened(o) /\ Known(o)
<1>. DEFINE t == tc.index
            a == getOrCreateToolBlock(s, t)
            x == IF tc.id # None THEN tc.id ELSE a.tools[t].id
            y == IF tc.name # None THEN tc.name ELSE a.tools[t].name
            b == Named(a, t, x, y)
            ready == ~b.tools[t].started /\ b.tools[t].id # None /\ b.tools[t].name # None
            c == IF ready THEN startToolBlock(b, t) ELSE b
<1>1. o = IF tc.args = None THEN c
          ELSE IF c.tools[t].started THEN Put(c, Delta(c.tools[t].index, "tool_use", <<tc.args>>))
          ELSE Held(c, t, tc.args)
  <2>. DEFINE bb == [a EXCEPT !.tools[t].id = IF tc.id # None THEN tc.id ELSE @,
                              !.tools[t].name = IF tc.name # None THEN tc.name ELSE @]
  <2>1. bb = b
    BY DEF Named
  <2>. DEFINE r(z) == ~z.tools[t].started /\ z.tools[t].id # None /\ z.tools[t].name # None
              cc(z) == IF r(z) THEN startToolBlock(z, t) ELSE z
              w(z) == IF tc.args = None THEN cc(z)
                      ELSE IF cc(z).tools[t].started
                           THEN Put(cc(z), Delta(cc(z).tools[t].index, "tool_use", <<tc.args>>))
                           ELSE Held(cc(z), t, tc.args)
  <2>2. o = w(bb)
    BY Zenon DEF ToolDelta, Held
  <2>3. w(bb) = w(b)
    <3>. HIDE DEF b, bb, w
    <3>. QED  BY <2>1
  <2>. QED  BY <2>2, <2>3, Zenon
<1>2. /\ t \in Nat /\ tc.id \in Nat \cup {None} /\ tc.name \in Nat \cup {None} /\ tc.args \in Nat \cup {None}
      /\ tc.id # None \/ tc.name # None \/ tc.args # None
  BY DEF ToolDeltas
<1>3. /\ Run(m0, a, m) /\ Kept(s, a) /\ DOMAIN a.tools = DOMAIN s.tools \cup {t}
      /\ \A u \in DOMAIN s.tools : a.tools[u] = s.tools[u]
      /\ t \notin DOMAIN s.tools => ~a.tools[t].started
  BY <1>2, RunGetTool
<1>. HIDE DEF a
<1>4. a.tools[t] \in ToolBlock
  BY <1>3, ToolMapIs DEF Run, Fits, Conv
<1>5. x \in Ident /\ y \in Ident
  BY <1>2, <1>4 DEF ToolBlock, Ident
<1>6. (tc.id # None => x # None) /\ (tc.name # None => y # None)
      /\ (a.tools[t].id # None => x # None) /\ (a.tools[t].name # None => y # None)
  OBVIOUS
<1>7. t \in DOMAIN a.tools /\ b = Named(a, t, x, y)
  BY <1>3
<1>. HIDE DEF x, y, b
<1>8. /\ Run(m0, b, m) /\ Kept(a, b) /\ DOMAIN b.tools = DOMAIN a.tools
      /\ b.tools[t].id = x /\ b.tools[t].name = y /\ b.tools[t].pending = a.tools[t].pending
      /\ b.tools[t].started = a.tools[t].started /\ b.tools[t].open = a.tools[t].open
      /\ \A u \in DOMAIN a.tools \ {t} : b.tools[u] = a.tools[u]
  BY <1>3, <1>5, <1>7, RunNamed
<1>9. Opened(b)
  <2>. SUFFICES ASSUME NEW u \in DOMAIN b.tools, b.tools[u].started PROVE b.tools[u].open
    BY DEF Opened
  <2>1. u \in DOMAIN s.tools /\ s.tools[u].started
    BY <1>3, <1>8
  <2>2. s.tools[u].open
    BY <2>1 DEF Opened
  <2>. QED  BY <1>3, <1>8, <2>1, <2>2
<1>10. \A u \in DOMAIN b.tools \ {t} : KnownTool(b.tools[u])
  BY <1>3, <1>8 DEF Known
<1>11. tc.args = None => KnownTool(b.tools[t])
  BY <1>2, <1>6, <1>8 DEF KnownTool
<1>12. /\ \E n : Run(m0, c, n)
       /\ Kept(b, c) /\ DOMAIN c.tools = DOMAIN b.tools
       /\ Opened(c) /\ (\A u \in DOMAIN c.tools \ {t} : KnownTool(c.tools[u]))
       /\ tc.args = None => KnownTool(c.tools[t])
  <2>1. CASE ready
    <3>1. c = startToolBlock(b, t) /\ t \in DOMAIN b.tools /\ ~b.tools[t].started
      BY <1>3, <1>8, <2>1
    <3>. HIDE DEF c, ready
    <3>2. /\ \E n : Run(m0, c, n)
          /\ Kept(b, c) /\ DOMAIN c.tools = DOMAIN b.tools
          /\ c.tools[t].started /\ c.tools[t].open
          /\ \A u \in DOMAIN b.tools \ {t} : c.tools[u] = b.tools[u]
      BY <1>8, <3>1, RunStartTool
    <3>3. Opened(c)
      BY <1>9, <3>2 DEF Opened
    <3>4. KnownTool(c.tools[t])
      BY <3>2 DEF KnownTool
    <3>. QED  BY <1>10, <3>2, <3>3, <3>4
  <2>2. CASE ~ready
    <3>1. c = b /\ Kept(b, b)
      BY <2>2 DEF Kept
    <3>. HIDE DEF c, ready
    <3>. QED  BY <1>8, <1>9, <1>10, <1>11, <3>1
  <2>. QED  BY <2>1, <2>2
<1>. HIDE DEF c, t
<1>13. PICK n : Run(m0, c, n)
  BY <1>12
<1>14. t \in DOMAIN c.tools /\ Kept(s, c)
  BY <1>3, <1>8, <1>12 DEF Kept
<1>15. CASE tc.args = None
  <2>1. o = c
    BY <1>1, <1>15
  <2>2. Known(c)
    BY <1>12, <1>15 DEF Known
  <2>. QED  BY <1>12, <1>13, <1>14, <2>1, <2>2
<1>16. CASE tc.args # None /\ c.tools[t].started
  <2>. DEFINE i == c.tools[t].index
              f == <<tc.args>>
              k == "tool_use"
  <2>1. o = Put(c, Delta(i, k, f))
    BY <1>1, <1>16
  <2>2. f \in Seq(Nat) /\ f # <<>> /\ k \in Shown
    BY <1>2, <1>16 DEF Shown
  <2>3. c.tools[t].open
    BY <1>12, <1>14, <1>16 DEF Opened
  <2>4. i \in DOMAIN n.blocks
    BY <1>13, <1>14, <1>16 DEF Run, Fits, ToolPlaces
  <2>5. n.blocks[i].open
    BY <1>13, <1>14, <2>3, <2>4 DEF Run, Fits, OpenBlocks
  <2>. HIDE DEF i, f, k
  <2>6. (\E r : Run(m0, o, r)) /\ Kept(c, o) /\ o.tools = c.tools
    BY <1>13, <2>1, <2>2, <2>4, <2>5, RunDelta
  <2>7. Known(o) /\ Opened(o)
    BY <1>12, <1>16, <2>6 DEF Known, KnownTool, Opened
  <2>. QED  BY <1>14, <2>6, <2>7 DEF Kept
<1>17. CASE tc.args # None /\ ~c.tools[t].started
  <2>. DEFINE f == tc.args
  <2>1. o = Held(c, t, f) /\ f \in Nat
    BY <1>1, <1>2, <1>17
  <2>. HIDE DEF f
  <2>2. /\ Run(m0, o, n) /\ Kept(c, o) /\ DOMAIN o.tools = DOMAIN c.tools
        /\ o.tools[t].pending # <<>>
        /\ o.tools[t].started = c.tools[t].started /\ o.tools[t].open = c.tools[t].open
        /\ \A u \in DOMAIN c.tools \ {t} : o.tools[u] = c.tools[u]
    BY <1>13, <1>14, <2>1, RunHeld
  <2>3. Known(o)
    BY <1>12, <2>2 DEF Known, KnownTool
  <2>4. Opened(o)
    BY <1>12, <1>14, <2>2 DEF Opened
  <2>. QED  BY <1>14, <2>2, <2>3, <2>4 DEF Kept
<1>. QED  BY <1>15, <1>16, <1>17

\* The tool deltas of a chunk.
LEMMA RunToolDeltas ==
  ASSUME NEW m0, NEW s, NEW m, Run(m0, s, m), Opened(s), Known(s),
         NEW deltas \in Seq(ToolDeltas), NEW o, o = processOpenAIToolCallDeltas(s, deltas)
  PROVE  (\E n : Run(m0, o, n)) /\ Kept(s, o) /\ Opened(o) /\ Known(o)
<1>. DEFINE l == Len(deltas)
            p == closeOpenTextBlock(s)
            Fine(q) == (\E n : Run(m0, q, n)) /\ Kept(s, q) /\ Opened(q) /\ Known(q)
<1>1. l \in Nat /\ \A i \in 1 .. l : deltas[i] \in ToolDeltas
  OBVIOUS
<1>2. PICK f : /\ f[0] = p /\ o = f[l]
               /\ \A i \in 1 .. l : f[i] = ToolDelta(f[i - 1], deltas[i])
  <2>1. PICK f : Applies(f, s, deltas) /\ processOpenAIToolCallDeltas(s, deltas) = f[Len(deltas)]
    BY <1>1, ToolDeltasFold
  <2>2. /\ f[0] = p /\ o = f[l]
        /\ \A i \in 1 .. l : f[i] = ToolDelta(f[i - 1], deltas[i])
    BY <2>1, Zenon DEF Applies
  <2>. QED  BY <2>2, Zenon
<1>3. Fine(p)
  <2>1. p = closeOpenTextBlock(s)
    OBVIOUS
  <2>. HIDE DEF p
  <2>2. (\E n : Run(m0, p, n)) /\ Kept(s, p) /\ p.tools = s.tools
    BY <2>1, RunCloseText
  <2>. QED  BY <2>2 DEF Opened, Known
<1>. DEFINE G == {i \in 0 .. l : Fine(f[i])}
<1>4. 0 \in G
  BY <1>1, <1>2, <1>3
<1>5. \A i \in 0 .. l - 1 : i \in G => i + 1 \in G
  <2>. SUFFICES ASSUME NEW i \in 0 .. l - 1, Fine(f[i]) PROVE i + 1 \in G
    OBVIOUS
  <2>. HIDE DEF l
  <2>1. i + 1 \in 1 .. l /\ i + 1 \in 0 .. l /\ (i + 1) - 1 = i
    BY <1>1
  <2>2. f[i + 1] = ToolDelta(f[i], deltas[i + 1]) /\ deltas[i + 1] \in ToolDeltas
    BY <1>1, <1>2, <2>1
  <2>3. PICK n : Run(m0, f[i], n)
    OBVIOUS
  <2>4. /\ \E r : Run(m0, f[i + 1], r)
        /\ Kept(f[i], f[i + 1]) /\ Opened(f[i + 1]) /\ Known(f[i + 1])
    BY <2>2, <2>3, RunToolDelta
  <2>5. Kept(s, f[i + 1])
    BY <2>4 DEF Kept
  <2>. QED  BY <2>1, <2>4, <2>5
<1>6. \A i \in 0 .. l : i \in G
  <2>. HIDE DEF G
  <2>. QED  BY <1>1, <1>4, <1>5, UpTo, Zenon
<1>7. Fine(f[l])
  <2>. HIDE DEF Fine, l
  <2>. QED  BY <1>1, <1>6
<1>. QED  BY <1>2, <1>7

\* The indices of some of the tools are finitely many numbers.
LEMMA IndicesFinite ==
  ASSUME NEW s \in Conv
  PROVE  \A T \in SUBSET DOMAIN s.tools :
            LET I == {s.tools[t].index : t \in T} IN I \subseteq Nat /\ IsFiniteSet(I)
<1>. DEFINE D == DOMAIN s.tools
            G == {T \in SUBSET D : IsFiniteSet({s.tools[t].index : t \in T})}
<1>1. IsFiniteSet(D) /\ \A t \in D : s.tools[t].index \in Nat
  BY ToolMapIs DEF Conv, ToolBlock
<1>2. {} \in G
  <2>1. {s.tools[t].index : t \in {}} = {}
    OBVIOUS
  <2>. QED  BY <2>1, FS_EmptySet
<1>3. \A T \in SUBSET D : \A x \in D \ T : T \in G => T \cup {x} \in G
  <2>. SUFFICES ASSUME NEW T \in SUBSET D, NEW x \in D \ T, T \in G PROVE T \cup {x} \in G
    OBVIOUS
  <2>1. {s.tools[t].index : t \in T \cup {x}} = {s.tools[t].index : t \in T} \cup {s.tools[x].index}
    OBVIOUS
  <2>2. IsFiniteSet({s.tools[t].index : t \in T} \cup {s.tools[x].index})
    BY FS_AddElement
  <2>. QED  BY <2>1, <2>2
<1>4. \A T \in SUBSET D : T \in G
  <2>. HIDE DEF G, D
  <2>. QED  BY <1>1, <1>2, <1>3, SubsetInduction, Zenon
<1>. QED  BY <1>1, <1>4

\* A tool that lacks its identifier or its name is started late.
LEMMA RunLateStart ==
  ASSUME NEW m0, NEW s, NEW m, Run(m0, s, m), NEW t \in DOMAIN s.tools, ~s.tools[t].started,
         NEW i, i = s.tools[t].index, NEW o, o = lateStart(s, i)
  PROVE  /\ \E n : Run(m0, o, n)
         /\ Kept(s, o) /\ o.text = s.text /\ DOMAIN o.tools = DOMAIN s.tools
         /\ o.tools[t].index = i /\ o.tools[t].started
         /\ \A u \in DOMAIN s.tools \ {t} : o.tools[u] = s.tools[u]
<1>. DEFINE w == CHOOSE u \in DOMAIN s.tools : s.tools[u].index = i
            x == IF s.tools[w].id = None THEN "toolu" ELSE s.tools[w].id
            y == IF s.tools[w].name = None THEN "unknown_tool" ELSE s.tools[w].name
            b == Named(s, w, x, y)
            bb == [s EXCEPT !.tools[w].id = IF @ = None THEN "toolu" ELSE @,
                            !.tools[w].name = IF @ = None THEN "unknown_tool" ELSE @]
<1>1. w = t
  <2>1. w \in DOMAIN s.tools /\ s.tools[w].index = i
    BY Zenon
  <2>. HIDE DEF w
  <2>. QED  BY <2>1 DEF Run, Fits, ToolPlaces
<1>2. o = startToolBlock(bb, w)
  BY Zenon DEF lateStart
<1>. HIDE DEF w
<1>3. bb = b
  <2>1. s \in Conv
    BY DEF Run, Fits
  <2>2. bb = [s EXCEPT !.tools[w].id = x, !.tools[w].name = y]
    BY <1>1, <2>1 DEF Conv
  <2>. QED  BY <2>2 DEF Named
<1>4. s.tools[w] \in ToolBlock
  BY <1>1, ToolMapIs DEF Run, Fits, Conv
<1>5. x \in Ident /\ y \in Ident
  BY <1>4 DEF ToolBlock, Ident
<1>6. b = Named(s, w, x, y) /\ o = startToolBlock(b, w) /\ w \in DOMAIN s.tools
  BY <1>1, <1>2, <1>3
<1>. HIDE DEF x, y, b, bb
<1>7. /\ Run(m0, b, m) /\ Kept(s, b) /\ b.text = s.text /\ DOMAIN b.tools = DOMAIN s.tools
      /\ b.tools[w].index = s.tools[w].index /\ b.tools[w].started = s.tools[w].started
      /\ \A u \in DOMAIN s.tools \ {w} : b.tools[u] = s.tools[u]
  BY <1>5, <1>6, RunNamed
<1>8. /\ \E n : Run(m0, o, n)
      /\ Kept(b, o) /\ o.text = b.text /\ DOMAIN o.tools = DOMAIN b.tools
      /\ o.tools[w].index = b.tools[w].index /\ o.tools[w].started
      /\ \A u \in DOMAIN b.tools \ {w} : o.tools[u] = b.tools[u]
  BY <1>1, <1>6, <1>7, RunStartTool
<1>. QED  BY <1>1, <1>7, <1>8 DEF Kept

\* When the message ends, every tool is started of which something is known.
LEMMA RunLateStarts ==
  ASSUME NEW m0, NEW s, NEW m, Run(m0, s, m), Known(s),
         NEW o, o = lateStartPendingToolBlocks(s)
  PROVE  /\ \E n : Run(m0, o, n)
         /\ Kept(s, o) /\ o.text = s.text
         /\ \A t \in DOMAIN o.tools : o.tools[t].started
<1>. DEFINE L == LateIndices(s)
            l == Len(L)
            I == {s.tools[t].index : t \in Late(s)}
            Fine(q, k) == /\ \E n : Run(m0, q, n)
                          /\ Kept(s, q) /\ q.text = s.text /\ DOMAIN q.tools = DOMAIN s.tools
                          /\ \A t \in DOMAIN s.tools :
                                /\ q.tools[t].index = s.tools[t].index
                                /\ q.tools[t].started <=>
                                      s.tools[t].started \/ \E j \in 1 .. k : L[j] = s.tools[t].index
<1>1. s \in Conv
  BY DEF Run, Fits
<1>2. I \subseteq Nat /\ IsFiniteSet(I)
  <2>1. Late(s) \in SUBSET DOMAIN s.tools
    BY DEF Late
  <2>. QED  BY <1>1, <2>1, IndicesFinite, Zenon
<1>3. L \in Seq(I) /\ ToSet(L) = I /\ \A i, j \in DOMAIN L : i < j => L[i] < L[j]
  <2>1. L = Ascending(I)
    BY Zenon DEF LateIndices
  <2>. HIDE DEF L, I
  <2>. QED  BY <1>2, <2>1, AscendingIs
<1>. HIDE DEF L
<1>4. l \in Nat /\ DOMAIN L = 1 .. l /\ \A j \in 1 .. l : L[j] \in I /\ L[j] \in Nat
  BY <1>2, <1>3
<1>5. PICK f : f[0] = s /\ o = f[l] /\ \A i \in 1 .. l : f[i] = lateStart(f[i - 1], L[i])
  <2>1. Len(LateIndices(s)) \in Nat
    BY <1>4 DEF L
  <2>2. PICK f : StartsLate(f, s) /\ lateStartPendingToolBlocks(s) = f[Len(LateIndices(s))]
    BY <2>1, LateStartsFold
  <2>3. f[0] = s /\ o = f[l] /\ \A i \in 1 .. l : f[i] = lateStart(f[i - 1], L[i])
    BY <2>2, Zenon DEF StartsLate, L
  <2>. QED  BY <2>3, Zenon
<1>. DEFINE G == {k \in 0 .. l : Fine(f[k], k)}
<1>6. 0 \in G
  <2>1. Fine(s, 0)
    BY DEF Kept
  <2>. HIDE DEF Fine
  <2>. QED  BY <1>4, <1>5, <2>1
<1>7. \A k \in 0 .. l - 1 : k \in G => k + 1 \in G
  <2>. HIDE DEF l
  <2>. SUFFICES ASSUME NEW k \in 0 .. l - 1, Fine(f[k], k) PROVE k + 1 \in G
    OBVIOUS
  <2>. DEFINE q == f[k]
              i == L[k + 1]
              r == f[k + 1]
  <2>1. k + 1 \in 1 .. l /\ (k + 1) - 1 = k /\ k + 1 \in 0 .. l /\ (1 .. k + 1) = (1 .. k) \cup {k + 1}
    BY <1>4
  <2>2. r = lateStart(q, i) /\ i \in I
    BY <1>4, <1>5, <2>1
  <2>3. PICK t \in DOMAIN s.tools : ~s.tools[t].started /\ s.tools[t].index = i
    BY <2>2 DEF Late
  <2>4. \A j \in 1 .. k : L[j] # i
    <3>. SUFFICES ASSUME NEW j \in 1 .. k PROVE L[j] # i
      OBVIOUS
    <3>1. j \in DOMAIN L /\ k + 1 \in DOMAIN L /\ j < k + 1
      BY <1>4, <2>1
    <3>2. L[j] < L[k + 1] /\ L[j] \in Nat /\ L[k + 1] \in Nat
      BY <1>3, <1>4, <2>1, <3>1
    <3>. QED  BY <3>2
  <2>. HIDE DEF i, r, q, L
  <2>5. /\ Kept(s, q) /\ q.text = s.text /\ DOMAIN q.tools = DOMAIN s.tools
        /\ \A u \in DOMAIN s.tools :
              /\ q.tools[u].index = s.tools[u].index
              /\ q.tools[u].started <=> s.tools[u].started \/ \E j \in 1 .. k : L[j] = s.tools[u].index
    BY DEF q
  <2>6. PICK n : Run(m0, q, n)
    BY DEF q
  <2>7. ~q.tools[t].started /\ t \in DOMAIN q.tools /\ q.tools[t].index = i
    BY <2>3, <2>4, <2>5
  <2>8. /\ \E w : Run(m0, r, w)
        /\ Kept(q, r) /\ r.text = q.text /\ DOMAIN r.tools = DOMAIN q.tools
        /\ r.tools[t].index = i /\ r.tools[t].started
        /\ \A u \in DOMAIN q.tools \ {t} : r.tools[u] = q.tools[u]
    BY <2>2, <2>6, <2>7, RunLateStart
  <2>9. \A u \in DOMAIN s.tools : s.tools[u].index = i => u = t
    BY <2>3, <2>5, <2>6 DEF Run, Fits, ToolPlaces
  <2>10. \A u \in DOMAIN s.tools :
            (\E j \in 1 .. k + 1 : L[j] = s.tools[u].index)
            <=> u = t \/ \E j \in 1 .. k : L[j] = s.tools[u].index
    BY <2>1, <2>3, <2>9 DEF i
  <2>11. \A u \in DOMAIN s.tools :
            /\ r.tools[u].index = s.tools[u].index
            /\ r.tools[u].started <=> s.tools[u].started \/ \E j \in 1 .. k + 1 : L[j] = s.tools[u].index
    BY <2>3, <2>5, <2>8, <2>10
  <2>12. Kept(s, r)
    BY <2>5, <2>8 DEF Kept
  <2>13. Fine(r, k + 1)
    BY <2>5, <2>8, <2>11, <2>12
  <2>. HIDE DEF Fine
  <2>. QED  BY <2>1, <2>13 DEF r
<1>8. \A k \in 0 .. l : k \in G
  <2>. HIDE DEF G
  <2>. QED  BY <1>4, <1>6, <1>7, UpTo, Zenon
<1>9. Fine(o, l)
  <2>. HIDE DEF Fine, l
  <2>. QED  BY <1>4, <1>5, <1>8
<1>10. ASSUME NEW t \in DOMAIN s.tools, ~s.tools[t].started
       PROVE  \E j \in 1 .. l : L[j] = s.tools[t].index
  <2>1. t \in Late(s)
    BY <1>10 DEF Late, Known, KnownTool
  <2>2. s.tools[t].index \in ToSet(L)
    BY <1>3, <2>1
  <2>. QED  BY <1>4, <2>2 DEF ToSet
<1>. QED  BY <1>9, <1>10

Stopping(L) == [n \in DOMAIN L |-> BlockStop(L[n])]
Distinct(L) == \A i, j \in DOMAIN L : i # j => L[i] # L[j]
Stopped(m0, out, m, L, n) ==
    /\ n \in Message /\ Path(m0, out, n) /\ n.stage = "content" /\ DOMAIN n.blocks = DOMAIN m.blocks
    /\ \A i \in DOMAIN m.blocks : n.blocks[i].open <=> m.blocks[i].open /\ i \notin ToSet(L)

\* Several blocks stop, one after the other.
LEMMA PathStops ==
  ASSUME NEW m0, NEW out \in Seq(Event), NEW m \in Message, m.stage = "content", Path(m0, out, m),
         NEW L, NEW I, L \in Seq(I), \A i \in I : i \in DOMAIN m.blocks /\ m.blocks[i].open,
         Distinct(L),
         NEW stops, stops = Stopping(L)
  PROVE  \E n : Stopped(m0, out \o stops, m, L, n)
<1>. DEFINE l == Len(L)
            first(k) == [n \in 1 .. k |-> BlockStop(L[n])]
            Fine(k) == \E n \in Message :
                          /\ Path(m0, out \o first(k), n) /\ n.stage = "content"
                          /\ DOMAIN n.blocks = DOMAIN m.blocks
                          /\ \A i \in DOMAIN m.blocks :
                                n.blocks[i].open <=> m.blocks[i].open /\ \A j \in 1 .. k : L[j] # i
            G == {k \in 0 .. l : Fine(k)}
<1>1. l \in Nat /\ DOMAIN L = 1 .. l /\ \A j \in 1 .. l : L[j] \in I
  OBVIOUS
<1>2. \A j \in 1 .. l : L[j] \in DOMAIN m.blocks /\ m.blocks[L[j]].open /\ BlockStop(L[j]) \in Event
  <2>1. \A i \in DOMAIN m.blocks : i \in Nat
    BY BlockMapIs DEF Message
  <2>. QED  BY <1>1, <2>1, EventTypes
<1>. HIDE DEF l
<1>3. \A k \in 0 .. l : first(k) \in Seq(Event)
  <2>. SUFFICES ASSUME NEW k \in 0 .. l PROVE first(k) \in Seq(Event)
    OBVIOUS
  <2>1. \A n \in 1 .. k : BlockStop(L[n]) \in Event
    BY <1>1, <1>2
  <2>. QED  BY <1>1, <2>1
<1>4. 0 \in G
  <2>1. first(0) = <<>>
    OBVIOUS
  <2>2. out \o first(0) = out
    <3>. HIDE DEF first
    <3>. QED  BY <2>1, ConcatEmptySeq
  <2>3. Fine(0)
    <3>1. \A i \in DOMAIN m.blocks : m.blocks[i].open <=> m.blocks[i].open /\ \A j \in 1 .. 0 : L[j] # i
      OBVIOUS
    <3>2. Path(m0, out \o first(0), m)
      BY <2>2, Zenon
    <3>. HIDE DEF first
    <3>. QED  BY <3>1, <3>2
  <2>. HIDE DEF Fine
  <2>. QED  BY <1>1, <2>3
<1>5. \A k \in 0 .. l - 1 : k \in G => k + 1 \in G
  <2>. SUFFICES ASSUME NEW k \in 0 .. l - 1, Fine(k) PROVE k + 1 \in G
    OBVIOUS
  <2>. DEFINE i == L[k + 1]
              e == BlockStop(i)
              a == out \o first(k)
  <2>1. k + 1 \in 1 .. l /\ k + 1 \in 0 .. l /\ k \in 0 .. l /\ (1 .. k + 1) = (1 .. k) \cup {k + 1}
        /\ k + 1 \notin 1 .. k /\ k \in Nat /\ k + 1 \in Nat
    BY <1>1
  <2>2. first(k + 1) = Append(first(k), e)
    <3>1. first(k + 1) \in Seq(Event) /\ first(k) \in Seq(Event) /\ e \in Event
      BY <1>2, <1>3, <2>1
    <3>2. Len(first(k + 1)) = k + 1 /\ Len(first(k)) = k
      BY <2>1
    <3>3. (\A n \in 1 .. k : first(k + 1)[n] = first(k)[n]) /\ first(k + 1)[k + 1] = e
      BY <2>1
    <3>. HIDE DEF first, e
    <3>4. /\ Append(first(k), e) \in Seq(Event) /\ Len(Append(first(k), e)) = k + 1
          /\ \A n \in 1 .. k : Append(first(k), e)[n] = first(k)[n]
          /\ Append(first(k), e)[k + 1] = e
      BY <3>1, <3>2, AppendProperties
    <3>5. \A n \in 1 .. k + 1 : first(k + 1)[n] = Append(first(k), e)[n]
      BY <2>1, <3>3, <3>4
    <3>. QED  BY <3>1, <3>2, <3>4, <3>5, SeqEqual
  <2>3. first(k) \in Seq(Event) /\ e \in Event
    BY <1>2, <1>3, <2>1
  <2>. HIDE DEF first, e
  <2>4. a \in Seq(Event) /\ out \o first(k + 1) = Append(a, e)
    <3>1. out \o Append(first(k), e) = Append(out \o first(k), e)
      <4>. DEFINE b == first(k)
      <4>1. b \in Seq(Event)
        BY <2>3
      <4>. HIDE DEF b
      <4>2. Append(b, e) = b \o <<e>> /\ <<e>> \in Seq(Event) /\ out \o b \in Seq(Event)
        BY <2>3, <4>1, AppendIsConcat
      <4>3. Append(out \o b, e) = (out \o b) \o <<e>>
        BY <2>3, <4>2, AppendIsConcat
      <4>4. (out \o b) \o <<e>> = out \o (b \o <<e>>)
        BY <4>1, <4>2, ConcatAssociative
      <4>. QED  BY <4>2, <4>3, <4>4 DEF b
    <3>. QED  BY <2>2, <2>3, <3>1, ConcatProperties
  <2>5. PICK n \in Message :
           /\ Path(m0, a, n) /\ n.stage = "content"
           /\ DOMAIN n.blocks = DOMAIN m.blocks
           /\ \A j \in DOMAIN m.blocks :
                 n.blocks[j].open <=> m.blocks[j].open /\ \A w \in 1 .. k : L[w] # j
    OBVIOUS
  <2>. DEFINE r == Read(n, e)
  <2>6. i \in DOMAIN n.blocks /\ n.blocks[i].open
    <3>1. \A w \in 1 .. k : L[w] # L[k + 1]
      BY <1>1, <2>1 DEF Distinct
    <3>. QED  BY <1>2, <2>1, <2>5, <3>1
  <2>7. r = Read(n, e) /\ e = BlockStop(i)
    BY DEF e
  <2>. HIDE DEF r, i, a
  <2>8. /\ MayRead(n, e) /\ r \in Message /\ r.stage = n.stage
        /\ DOMAIN r.blocks = DOMAIN n.blocks /\ ~r.blocks[i].open
        /\ \A j \in DOMAIN n.blocks \ {i} : r.blocks[j] = n.blocks[j]
    BY <2>5, <2>6, <2>7, ReadBlockStop
  <2>9. Path(m0, Append(a, e), r)
    BY <2>3, <2>4, <2>5, <2>7, <2>8, PathAppend
  <2>10. \A j \in DOMAIN m.blocks :
            r.blocks[j].open <=> m.blocks[j].open /\ \A w \in 1 .. k + 1 : L[w] # j
    <3>. SUFFICES ASSUME NEW j \in DOMAIN m.blocks
                  PROVE  r.blocks[j].open <=> m.blocks[j].open /\ \A w \in 1 .. k + 1 : L[w] # j
      OBVIOUS
    <3>1. (\A w \in 1 .. k + 1 : L[w] # j) <=> i # j /\ \A w \in 1 .. k : L[w] # j
      BY <2>1 DEF i
    <3>2. CASE j = i
      BY <2>8, <3>1, <3>2
    <3>3. CASE j # i
      BY <2>5, <2>8, <3>1, <3>3
    <3>. QED  BY <3>2, <3>3
  <2>11. Fine(k + 1)
    <3>1. Path(m0, out \o first(k + 1), r)
      BY <2>4, <2>9
    <3>2. r \in Message /\ r.stage = "content" /\ DOMAIN r.blocks = DOMAIN m.blocks
      BY <2>5, <2>8
    <3>. QED  BY <2>10, <3>1, <3>2, Zenon
  <2>. HIDE DEF Fine
  <2>. QED  BY <2>1, <2>11
<1>6. \A k \in 0 .. l : k \in G
  <2>1. l \in Nat
    BY <1>1
  <2>. HIDE DEF G
  <2>. QED  BY <1>4, <1>5, <2>1, UpTo, Zenon
<1>7. Fine(l)
  <2>. HIDE DEF Fine
  <2>. QED  BY <1>1, <1>6
<1>8. stops = first(l)
  BY <1>1 DEF Stopping
<1>. HIDE DEF first
<1>9. PICK n \in Message :
         /\ Path(m0, out \o first(l), n) /\ n.stage = "content" /\ DOMAIN n.blocks = DOMAIN m.blocks
         /\ \A i \in DOMAIN m.blocks : n.blocks[i].open <=> m.blocks[i].open /\ \A j \in 1 .. l : L[j] # i
  BY <1>7, Zenon
<1>10. \A i : i \notin ToSet(L) <=> \A j \in 1 .. l : L[j] # i
  BY <1>1 DEF ToSet
<1>11. \A i \in DOMAIN m.blocks : n.blocks[i].open <=> m.blocks[i].open /\ i \notin ToSet(L)
  BY <1>9, <1>10
<1>12. Stopped(m0, out \o stops, m, L, n)
  BY <1>8, <1>9, <1>11 DEF Stopped
<1>. QED  BY <1>12, Zenon

\* The open blocks of tools are closed, and nothing is open any more.
LEMMA RunCloseTools ==
  ASSUME NEW m0, NEW s, NEW m, Run(m0, s, m), s.text = None, NEW o, o = closeOpenToolBlocks(s)
  PROVE  /\ \E n : Run(m0, o, n) /\ \A i \in DOMAIN n.blocks : ~n.blocks[i].open
         /\ Kept(s, o) /\ o.text = s.text /\ o.next = s.next /\ DOMAIN o.tools = DOMAIN s.tools
         /\ \A t \in DOMAIN s.tools : o.tools[t].started = s.tools[t].started
<1>. DEFINE T == {t \in DOMAIN s.tools : s.tools[t].open}
            I == {s.tools[t].index : t \in T}
            L == Ascending(I)
            stops == Stopping(L)
            f == [t \in DOMAIN s.tools |-> [s.tools[t] EXCEPT !.open = FALSE]]
            out == s.out \o stops
<1>1. m \in Message /\ s \in Conv /\ m.stage = "content" /\ Fits(m, s) /\ Path(m0, s.out, m)
  BY DEF Run, Fits
<1>2. o = [s EXCEPT !.tools = f, !.out = out]
  BY Zenon DEF closeOpenToolBlocks, Stopping
<1>3. I \subseteq Nat /\ IsFiniteSet(I)
  <2>1. T \in SUBSET DOMAIN s.tools
    OBVIOUS
  <2>. HIDE DEF T
  <2>. QED  BY <1>1, <2>1, IndicesFinite, Zenon
<1>4. L \in Seq(I) /\ ToSet(L) = I /\ \A i, j \in DOMAIN L : i < j => L[i] < L[j]
  <2>. HIDE DEF I
  <2>. QED  BY <1>3, AscendingIs
<1>5. Distinct(L)
  <2>. HIDE DEF L, I
  <2>1. DOMAIN L = 1 .. Len(L) /\ Len(L) \in Nat
    BY <1>4
  <2>2. \A i \in DOMAIN L : L[i] \in I
    BY <1>4
  <2>3. \A i, j \in DOMAIN L : i # j => i < j \/ j < i
    BY <2>1
  <2>4. \A i \in DOMAIN L : L[i] \in Nat
    BY <1>3, <2>2
  <2>. QED  BY <1>4, <2>3, <2>4 DEF Distinct
<1>6. \A i \in I : i \in DOMAIN m.blocks /\ m.blocks[i].open
  <2>. SUFFICES ASSUME NEW t \in DOMAIN s.tools, s.tools[t].open
                PROVE  s.tools[t].index \in DOMAIN m.blocks /\ m.blocks[s.tools[t].index].open
    OBVIOUS
  <2>1. s.tools[t].index \in DOMAIN m.blocks
    BY <1>1 DEF Fits, ToolPlaces
  <2>. QED  BY <1>1, <2>1 DEF Fits, OpenBlocks
<1>7. s.out \in Seq(Event)
  BY <1>1 DEF Conv
<1>8. stops \in Seq(Event)
  <2>. HIDE DEF L, I
  <2>1. DOMAIN L = 1 .. Len(L) /\ Len(L) \in Nat
    BY <1>4
  <2>2. \A i \in DOMAIN L : L[i] \in I
    BY <1>4
  <2>3. \A i \in DOMAIN L : BlockStop(L[i]) \in Event
    BY <1>3, <2>2, EventTypes
  <2>. QED  BY <2>1, <2>3 DEF Stopping
<1>9. PICK n \in Message :
         /\ Path(m0, out, n) /\ n.stage = "content" /\ DOMAIN n.blocks = DOMAIN m.blocks
         /\ \A i \in DOMAIN m.blocks : n.blocks[i].open <=> m.blocks[i].open /\ i \notin ToSet(L)
  <2>. HIDE DEF I
  <2>1. L \in Seq(I)
    BY <1>4
  <2>. HIDE DEF L
  <2>2. stops = Stopping(L)
    OBVIOUS
  <2>. HIDE DEF stops
  <2>3. PICK n : Stopped(m0, out, m, L, n)
    BY <1>1, <1>5, <1>6, <1>7, <2>1, <2>2, PathStops
  <2>. QED  BY <1>4, <2>3 DEF Stopped
<1>10. out \in Seq(Event)
  <2>. HIDE DEF stops
  <2>. QED  BY <1>7, <1>8, ConcatProperties
<1>11. f \in ToolMap /\ DOMAIN f = DOMAIN s.tools
       /\ \A t \in DOMAIN s.tools : /\ f[t].index = s.tools[t].index /\ f[t].started = s.tools[t].started
                                    /\ ~f[t].open
  <2>1. /\ DOMAIN s.tools \subseteq Nat /\ IsFiniteSet(DOMAIN s.tools)
        /\ \A t \in DOMAIN s.tools : s.tools[t] \in ToolBlock
    BY <1>1, ToolMapIs DEF Conv
  <2>2. DOMAIN f = DOMAIN s.tools /\ f = [t \in DOMAIN f |-> f[t]]
    OBVIOUS
  <2>3. \A t \in DOMAIN s.tools : /\ f[t] \in ToolBlock /\ f[t].index = s.tools[t].index
                                  /\ f[t].started = s.tools[t].started /\ ~f[t].open
    BY <2>1 DEF ToolBlock
  <2>. HIDE DEF f
  <2>4. f \in ToolMap
    BY <2>1, <2>2, <2>3, ToolMapOf
  <2>. QED  BY <2>2, <2>3, <2>4
<1>. HIDE DEF f, out
<1>12. o \in Conv
  BY <1>1, <1>2, <1>10, <1>11 DEF Conv
<1>13. Kept(s, o) /\ o.text = s.text /\ o.next = s.next /\ o.tools = f /\ o.out = out
  BY <1>1, <1>2 DEF Conv, Kept
<1>14. \A i \in DOMAIN n.blocks : ~n.blocks[i].open
  <2>. SUFFICES ASSUME NEW i \in DOMAIN m.blocks, m.blocks[i].open PROVE i \in I
    BY <1>4, <1>9
  <2>1. i \in Nat /\ i # s.text
    BY <1>1, ReportsAssumption, BlockMapIs DEF Message
  <2>. QED  BY <1>1, <2>1 DEF Fits, OpenBlocks
<1>15. Places(n, o)
  BY <1>1, <1>9, <1>11, <1>13 DEF Fits, Places
<1>16. OpenBlocks(n, o)
  <2>1. \A i \in DOMAIN m.blocks : i # s.text
    BY <1>1, ReportsAssumption, BlockMapIs DEF Message
  <2>. QED  BY <1>9, <1>11, <1>13, <1>14, <2>1 DEF OpenBlocks
<1>17. ToolPlaces(n, o)
  BY <1>1, <1>9, <1>11, <1>13 DEF Fits, ToolPlaces
<1>18. Run(m0, o, n)
  BY <1>9, <1>12, <1>13, <1>15, <1>16, <1>17 DEF Run, Fits
<1>. QED  BY <1>11, <1>13, <1>14, <1>18

\* The end of a message: every block is closed, and no index was left out.
LEMMA RunCloseBlocks ==
  ASSUME NEW m0, NEW s, NEW m, Run(m0, s, m), Known(s), NEW o, o = closeBlocks(s)
  PROVE  /\ \E n : /\ Run(m0, o, n) /\ \A i \in DOMAIN n.blocks : ~n.blocks[i].open
                   /\ DOMAIN n.blocks = 0 .. o.next - 1
         /\ Kept(s, o) /\ Known(o)
<1>. DEFINE p == closeOpenTextBlock(s)
            q == lateStartPendingToolBlocks(p)
<1>1. p = closeOpenTextBlock(s) /\ q = lateStartPendingToolBlocks(p) /\ o = closeOpenToolBlocks(q)
  BY DEF closeBlocks
<1>. HIDE DEF p, q
<1>2. (\E n : Run(m0, p, n)) /\ Kept(s, p) /\ p.tools = s.tools /\ p.text = None
  BY <1>1, RunCloseText
<1>3. Known(p)
  BY <1>2 DEF Known
<1>4. /\ \E n : Run(m0, q, n)
      /\ Kept(p, q) /\ q.text = p.text
      /\ \A t \in DOMAIN q.tools : q.tools[t].started
  BY <1>1, <1>2, <1>3, RunLateStarts
<1>5. q.text = None
  BY <1>2, <1>4
<1>6. /\ \E n : Run(m0, o, n) /\ \A i \in DOMAIN n.blocks : ~n.blocks[i].open
      /\ Kept(q, o) /\ DOMAIN o.tools = DOMAIN q.tools
      /\ \A t \in DOMAIN q.tools : o.tools[t].started = q.tools[t].started
  BY <1>1, <1>4, <1>5, RunCloseTools
<1>7. PICK n : Run(m0, o, n) /\ \A i \in DOMAIN n.blocks : ~n.blocks[i].open
  BY <1>6
<1>8. \A t \in DOMAIN o.tools : o.tools[t].started
  BY <1>4, <1>6
<1>9. DOMAIN n.blocks = 0 .. o.next - 1
  BY <1>7, <1>8 DEF Run, Fits, Places
<1>10. Known(o)
  BY <1>8 DEF Known, KnownTool
<1>11. Kept(s, o)
  BY <1>2, <1>4, <1>6 DEF Kept
<1>. QED  BY <1>7, <1>9, <1>10, <1>11

-----------------------------------------------------------------------------
(***************************************************************************)
(* What an OpenAI upstream sends.                                          *)
(***************************************************************************)
Usage == [prompt : Nat, completion : Nat, total : Nat,
          creation : Nat, read : Nat, cached : Nat, created : Nat]
ChunkItem == [type : {"chunk"}, choice : BOOLEAN, text : Nat \cup {None}, tools : Seq(ToolDeltas),
              finish : Finishes \cup {None}, usage : Usage \cup {None}]
Silent(c) == c.text = None /\ c.tools = <<>> /\ c.finish = None

(* The deltas of a shape, and what it reports.                             *)
DeltasOf(shape, n) ==
    [i \in DOMAIN shape.tools |->
        [index |-> shape.tools[i].index,
         id |-> IF shape.tools[i].id THEN shape.tools[i].index ELSE None,
         name |-> IF shape.tools[i].name THEN shape.tools[i].index ELSE None,
         args |-> IF shape.tools[i].args THEN n ELSE None]]
Counting(d, n) ==
    [prompt |-> Prompt, completion |-> n, total |-> Prompt + n, creation |-> d.creation,
     read |-> d.read, cached |-> d.cached, created |-> d.created]

\* The fields of a chunk.
LEMMA ChunkFields ==
  ASSUME NEW shape, NEW n, NEW c, c = Chunk(shape, n)
  PROVE  c = [type |-> "chunk", choice |-> shape.choice, text |-> IF shape.text THEN n ELSE None,
              tools |-> DeltasOf(shape, n), finish |-> shape.finish,
              usage |-> IF shape.usage = None THEN None ELSE Counting(shape.usage, n)]
BY Zenon DEF Chunk, DeltasOf, Counting

\* A chunk that is sent has the parts of a chunk; its report is one of those that an upstream may
\* make, for the tokens that the atom stands for.
LEMMA ChunkIs ==
  ASSUME NEW shape \in Shapes, NEW n \in Nat, NEW c, c = Chunk(shape, n)
  PROVE  /\ c \in ChunkItem /\ (~c.choice => Silent(c))
         /\ c.usage # None => \E d \in Reports : c.usage = Counting(d, n)
<1>. DEFINE deltas == DeltasOf(shape, n)
            u == IF shape.usage = None THEN None ELSE Counting(shape.usage, n)
            x == IF shape.text THEN n ELSE None
<1>1. c = [type |-> "chunk", choice |-> shape.choice, text |-> x,
           tools |-> deltas, finish |-> shape.finish, usage |-> u]
  BY ChunkFields
<1>2. /\ shape.choice \in BOOLEAN /\ shape.text \in BOOLEAN /\ shape.finish \in Finishes \cup {None}
      /\ shape.tools \in Seq([index : Nat, id : BOOLEAN, name : BOOLEAN, args : BOOLEAN])
      /\ shape.usage \in Reports \cup {None}
      /\ \A i \in DOMAIN shape.tools : shape.tools[i].id \/ shape.tools[i].name \/ shape.tools[i].args
      /\ ~shape.choice => ~shape.text /\ shape.tools = <<>> /\ shape.finish = None
  BY ShapesAssumption
<1>3. deltas \in Seq(ToolDeltas) /\ (shape.tools = <<>> => deltas = <<>>)
  <2>. DEFINE ts == shape.tools
              d(i) == [index |-> ts[i].index, id |-> IF ts[i].id THEN ts[i].index ELSE None,
                       name |-> IF ts[i].name THEN ts[i].index ELSE None,
                       args |-> IF ts[i].args THEN n ELSE None]
  <2>1. deltas = [i \in DOMAIN ts |-> d(i)]
    BY DEF DeltasOf
  <2>2. \A i \in DOMAIN ts : ts[i] \in [index : Nat, id : BOOLEAN, name : BOOLEAN, args : BOOLEAN]
    <3>. DEFINE S == [index : Nat, id : BOOLEAN, name : BOOLEAN, args : BOOLEAN]
    <3>1. ts \in Seq(S)
      BY <1>2
    <3>. HIDE DEF S, ts
    <3>2. \A i \in DOMAIN ts : ts[i] \in S
      BY <3>1
    <3>. QED  BY <3>2 DEF S
  <2>3. Len(ts) \in Nat /\ DOMAIN ts = 1 .. Len(ts) /\ (ts = <<>> => Len(ts) = 0)
    BY <1>2
  <2>4. \A i \in DOMAIN ts : ts[i].id \/ ts[i].name \/ ts[i].args
    BY <1>2
  <2>. HIDE DEF ts
  <2>5. ASSUME NEW i \in DOMAIN ts PROVE d(i) \in ToolDeltas
    <3>. DEFINE b == ts[i]
    <3>1. b \in [index : Nat, id : BOOLEAN, name : BOOLEAN, args : BOOLEAN] /\ (b.id \/ b.name \/ b.args)
      BY <2>2, <2>4
    <3>. HIDE DEF b
    <3>2. None \notin Nat
      BY ReportsAssumption
    <3>. QED  BY <3>1, <3>2 DEF ToolDeltas, b
  <2>. HIDE DEF d, deltas
  <2>. QED  BY <2>1, <2>3, <2>5 DEF ts
<1>4. u \in Usage \cup {None} /\ (u # None => \E d \in Reports : u = Counting(d, n))
  <2>1. CASE shape.usage = None
    BY <2>1
  <2>2. CASE shape.usage # None
    <3>1. shape.usage \in Reports /\ shape.usage \in [creation : Nat, read : Nat, cached : Nat, created : Nat]
      BY <1>2, <2>2, ReportsAssumption
    <3>2. Prompt \in Nat /\ Prompt + n \in Nat
      BY ReportsAssumption
    <3>3. Counting(shape.usage, n) \in Usage
      BY <3>1, <3>2 DEF Counting, Usage
    <3>. QED  BY <2>2, <3>1, <3>3
  <2>. QED  BY <2>1, <2>2
<1>5. x \in Nat \cup {None} /\ (~shape.text => x = None)
  OBVIOUS
<1>. HIDE DEF deltas, u, x
<1>6. c \in ChunkItem
  BY <1>1, <1>2, <1>3, <1>4, <1>5 DEF ChunkItem
<1>. QED  BY <1>1, <1>2, <1>3, <1>4, <1>5, <1>6 DEF Silent

\* The counts of a report, and those that two reports are merged to.
LEMMA CountsOf ==
  ASSUME NEW u \in Usage
  PROVE  openAIUsageToAnthropic(u) \in Counts
<1>1. CacheReadTokens(u) \in Nat /\ CacheCreationTokens(u) \in Nat /\ u.prompt \in Nat /\ u.completion \in Nat
  BY DEF Usage, CacheReadTokens, CacheCreationTokens
<1>. DEFINE rest == u.prompt - CacheReadTokens(u) - CacheCreationTokens(u)
            x == IF rest < 0 THEN 0 ELSE rest
<1>2. x \in Nat
  BY <1>1
<1>3. openAIUsageToAnthropic(u) = [input |-> x, output |-> u.completion,
                                   creation |-> CacheCreationTokens(u), read |-> CacheReadTokens(u)]
  BY DEF openAIUsageToAnthropic
<1>. HIDE DEF x
<1>. QED  BY <1>1, <1>2, <1>3 DEF Counts

\* Merging keeps what the new report does not count.
LEMMA MergedCounts ==
  ASSUME NEW a \in Counts \cup {None}, NEW b \in Counts, NEW u, u = mergeAnthropicUsage(a, b)
  PROVE  /\ u \in Counts
         /\ a = None => u = b
         /\ a # None => /\ u.input = IF b.input > 0 THEN b.input ELSE a.input
                        /\ u.output = IF b.output > 0 THEN b.output ELSE a.output
                        /\ u.creation = IF b.creation > 0 THEN b.creation ELSE a.creation
                        /\ u.read = IF b.read > 0 THEN b.read ELSE a.read
<1>1. CASE a = None
  BY <1>1 DEF mergeAnthropicUsage
<1>2. CASE a # None
  <2>1. DOMAIN a = {"input", "output", "creation", "read"}
    BY <1>2 DEF Counts
  <2>2. u = [f \in {"input", "output", "creation", "read"} |-> IF b[f] > 0 THEN b[f] ELSE a[f]]
    BY <1>2, <2>1 DEF mergeAnthropicUsage
  <2>3. /\ u.input = IF b.input > 0 THEN b.input ELSE a.input
        /\ u.output = IF b.output > 0 THEN b.output ELSE a.output
        /\ u.creation = IF b.creation > 0 THEN b.creation ELSE a.creation
        /\ u.read = IF b.read > 0 THEN b.read ELSE a.read
    BY <2>2
  <2>4. u = [input |-> u.input, output |-> u.output, creation |-> u.creation, read |-> u.read]
    BY <2>2
  <2>5. u.input \in Nat /\ u.output \in Nat /\ u.creation \in Nat /\ u.read \in Nat
    BY <1>2, <2>3 DEF Counts
  <2>6. u \in Counts
    BY <2>4, <2>5 DEF Counts
  <2>. QED  BY <1>2, <2>3, <2>6
<1>. QED  BY <1>1, <1>2

(* What the client has assembled before a chunk is read: nothing, or what  *)
(* fits.                                                                   *)
Before(m, s) == \/ s.started /\ Fits(m, s)
                \/ s = FreshToAnthropic /\ m = Unread
CountedAs(s, u) == [s EXCEPT !.usage = u, !.out = <<>>]
BegunAs(s, u) == IF s.started THEN CountedAs(s, u) ELSE writeMessageStart(CountedAs(s, u))

\* What no item has been put to.
LEMMA FreshTypes ==
  /\ FreshToAnthropic \in Conv /\ Unread \in Message
  /\ DOMAIN FreshToAnthropic.tools = {} /\ DOMAIN Unread.blocks = {}
<1>1. DOMAIN <<>> = {} /\ <<>> = [t \in DOMAIN <<>> |-> <<>>[t]]
  OBVIOUS
<1>2. <<>> \in ToolMap
  BY <1>1, ToolMapOf, FS_EmptySet
<1>3. <<>> \in BlockMap
  BY <1>1, BlockMapOf
<1>4. <<>> \in Seq(Event)
  OBVIOUS
<1>. QED  BY <1>1, <1>2, <1>3, <1>4 DEF FreshToAnthropic, Unread, Conv, Message, Stage, Stops

\* Every chunk counts its report, and the first one starts the message.
LEMMA RunBegun ==
  ASSUME NEW s \in Conv, NEW m, Before(m, s), NEW u \in Counts \cup {None}, NEW o, o = BegunAs(s, u)
  PROVE  /\ \E n : Run(m, o, n)
         /\ o.started /\ o.usage = u /\ o.stop = s.stop /\ o.ended = s.ended /\ o.tools = s.tools
<1>. DEFINE p == CountedAs(s, u)
<1>1. /\ p \in Conv /\ p.out = <<>> /\ p.started = s.started /\ p.usage = u /\ p.stop = s.stop
      /\ p.ended = s.ended /\ p.tools = s.tools /\ p.next = s.next /\ p.text = s.text
  <2>1. <<>> \in Seq(Event)
    OBVIOUS
  <2>. QED  BY <2>1 DEF CountedAs, Conv
<1>2. o = IF s.started THEN p ELSE writeMessageStart(p)
  BY DEF BegunAs
<1>. HIDE DEF p
<1>3. CASE s.started
  <2>1. Fits(m, s)
    BY <1>3 DEF Before, FreshToAnthropic
  <2>2. m \in Message
    BY <2>1 DEF Fits
  <2>3. Fits(m, p)
    BY <1>1, <2>1, <2>2, FitsSame
  <2>4. Path(m, p.out, m)
    BY <1>1, PathEmpty
  <2>. QED  BY <1>1, <1>2, <1>3, <2>3, <2>4 DEF Run
<1>4. CASE ~s.started
  <2>1. s = FreshToAnthropic /\ m = Unread
    BY <1>4 DEF Before
  <2>2. m \in Message /\ m.stage = "idle" /\ DOMAIN m.blocks = {} /\ DOMAIN s.tools = {}
        /\ s.next = 0 /\ s.text = None
    BY <2>1, FreshTypes DEF Unread, FreshToAnthropic
  <2>. DEFINE q == [p EXCEPT !.started = TRUE]
              e == MessageStart(u)
              n == Read(m, e)
  <2>3. /\ q \in Conv /\ q.out = <<>> /\ q.started /\ q.usage = u /\ q.stop = s.stop
        /\ q.ended = s.ended /\ q.tools = s.tools /\ q.next = s.next /\ q.text = s.text
    BY <1>1 DEF Conv
  <2>4. o = Put(q, e)
    BY <1>1, <1>2, <1>4 DEF writeMessageStart
  <2>5. e \in Event
    BY EventTypes
  <2>6. n = [m EXCEPT !.stage = "content"] /\ MayRead(m, e) /\ n \in Message
    BY <2>2, ReadMessageStart
  <2>7. n.stage = "content" /\ n.blocks = m.blocks
    BY <2>2, <2>6 DEF Message
  <2>8. n = Read(m, e)
    OBVIOUS
  <2>. HIDE DEF q, e, n
  <2>9. /\ o \in Conv /\ o.out = Append(q.out, e)
        /\ Kept(q, o) /\ o.next = q.next /\ o.text = q.text /\ o.tools = q.tools
    BY <2>3, <2>4, <2>5, PutIs
  <2>10. Path(m, q.out, m)
    BY <2>3, PathEmpty
  <2>11. q.out \in Seq(Event)
    BY <2>3
  <2>12. Path(m, o.out, n)
    BY <2>5, <2>6, <2>8, <2>9, <2>10, <2>11, PathAppend
  <2>13. Fits(n, o)
    <3>1. 0 .. o.next - 1 = {}
      BY <2>2, <2>3, <2>9
    <3>. QED  BY <2>2, <2>3, <2>6, <2>7, <2>9, <3>1 DEF Fits, Places, OpenBlocks, ToolPlaces
  <2>. QED  BY <2>3, <2>9, <2>12, <2>13 DEF Run, Kept
<1>. QED  BY <1>3, <1>4

\* A chunk is converted, after what fits it.
LEMMA RunChunk ==
  ASSUME NEW s \in Conv, NEW m, Before(m, s), Known(s),
         NEW c \in ChunkItem, ~c.choice => Silent(c), c.choice => Opened(s) /\ s.stop = None,
         NEW o, o = OpenAIChunkToAnthropicEvents(c, s)
  PROVE  /\ \E n : Run(m, o, n)
         /\ o.started /\ o.ended = s.ended /\ Known(o)
         /\ Opened(s) /\ c.finish = None => Opened(o) /\ o.stop = s.stop
         /\ c.usage = None => o.usage = s.usage
         /\ c.usage # None => o.usage = mergeAnthropicUsage(s.usage, openAIUsageToAnthropic(c.usage))
<1>. DEFINE u == IF c.usage = None THEN s.usage
                 ELSE mergeAnthropicUsage(s.usage, openAIUsageToAnthropic(c.usage))
            begun == BegunAs(s, u)
            text == IF c.text = None THEN begun ELSE TextDelta(begun, c.text)
            tools == IF c.tools = <<>> THEN text ELSE processOpenAIToolCallDeltas(text, c.tools)
            closed == closeBlocks(tools)
            stop == mapOpenAIStopReasonToAnthropic(c.finish)
            Fine(q) == /\ \E n : Run(m, q, n)
                       /\ q.started /\ q.ended = s.ended /\ q.usage = u /\ q.stop = s.stop
<1>1. /\ c.choice \in BOOLEAN /\ c.text \in Nat \cup {None} /\ c.tools \in Seq(ToolDeltas)
      /\ c.usage \in Usage \cup {None}
  BY DEF ChunkItem
<1>2. u \in Counts \cup {None}
  <2>1. s.usage \in Counts \cup {None}
    BY DEF Conv
  <2>. QED  BY <1>1, <2>1, CountsOf, MergedCounts
<1>3. o = IF ~c.choice THEN begun
          ELSE IF c.finish = None \/ tools.stop # None THEN tools
          ELSE [closed EXCEPT !.stop = stop]
  BY DEF OpenAIChunkToAnthropicEvents, BegunAs, CountedAs
<1>4. Fine(begun) /\ begun.tools = s.tools
  <2>1. begun = BegunAs(s, u)
    OBVIOUS
  <2>. HIDE DEF u, begun
  <2>. QED  BY <1>2, <2>1, RunBegun
<1>5. text = (IF c.text = None THEN begun ELSE TextDelta(begun, c.text))
      /\ tools = (IF c.tools = <<>> THEN text ELSE processOpenAIToolCallDeltas(text, c.tools))
      /\ closed = closeBlocks(tools)
  OBVIOUS
<1>6. stop \in Stops
  BY DEF mapOpenAIStopReasonToAnthropic, Stops
<1>. HIDE DEF begun, text, tools, closed, stop, u
<1>7. Fine(text) /\ text.tools = s.tools
  <2>1. CASE c.text = None
    BY <1>4, <1>5, <2>1
  <2>2. CASE c.text # None
    <3>1. text = TextDelta(begun, c.text) /\ c.text \in Nat
      BY <1>1, <1>5, <2>2
    <3>2. PICK n : Run(m, begun, n)
      BY <1>4
    <3>3. (\E k : Run(m, text, k)) /\ Kept(begun, text) /\ text.tools = begun.tools
      BY <3>1, <3>2, RunTextDelta
    <3>. QED  BY <1>4, <3>3 DEF Kept
  <2>. QED  BY <2>1, <2>2
<1>8. ASSUME c.choice PROVE Fine(tools) /\ Opened(tools) /\ Known(tools)
  <2>0. Opened(text) /\ Known(text)
    BY <1>7, <1>8 DEF Opened, Known
  <2>1. CASE c.tools = <<>>
    BY <1>5, <1>7, <2>0, <2>1
  <2>2. CASE c.tools # <<>>
    <3>1. PICK n : Run(m, text, n)
      BY <1>7
    <3>2. tools = processOpenAIToolCallDeltas(text, c.tools)
      BY <1>5, <2>2
    <3>3. (\E k : Run(m, tools, k)) /\ Kept(text, tools) /\ Opened(tools) /\ Known(tools)
      BY <1>1, <2>0, <3>1, <3>2, RunToolDeltas
    <3>. QED  BY <1>7, <3>3 DEF Kept
  <2>. QED  BY <2>1, <2>2
<1>9. CASE ~c.choice
  <2>1. o = begun /\ c.finish = None
    BY <1>3, <1>9 DEF Silent
  <2>2. Known(o) /\ (Opened(s) => Opened(o))
    BY <1>4, <2>1 DEF Known, Opened
  <2>. QED  BY <1>4, <2>1, <2>2 DEF u
<1>10. CASE c.choice /\ c.finish = None
  <2>1. o = tools
    BY <1>3, <1>10
  <2>. QED  BY <1>8, <1>10, <2>1 DEF u
<1>11. CASE c.choice /\ c.finish # None
  <2>1. Fine(tools) /\ Known(tools) /\ tools.stop = None
    BY <1>8, <1>11
  <2>2. o = [closed EXCEPT !.stop = stop]
    BY <1>3, <1>11, <2>1
  <2>3. PICK n : Run(m, tools, n)
    BY <2>1
  <2>4. (\E k : Run(m, closed, k)) /\ Kept(tools, closed) /\ Known(closed)
    BY <1>5, <2>1, <2>3, RunCloseBlocks
  <2>5. PICK k : Run(m, closed, k)
    BY <2>4
  <2>6. closed \in Conv
    BY <2>5 DEF Run, Fits
  <2>7. /\ o \in Conv /\ o.out = closed.out /\ o.next = closed.next /\ o.text = closed.text
        /\ o.tools = closed.tools /\ o.started = closed.started /\ o.ended = closed.ended
        /\ o.usage = closed.usage
    BY <1>6, <2>2, <2>6 DEF Conv
  <2>8. Run(m, o, k)
    BY <2>5, <2>7, RunSame
  <2>9. Known(o)
    BY <2>4, <2>7 DEF Known
  <2>10. o.started /\ o.ended = s.ended /\ o.usage = u
    BY <2>1, <2>4, <2>7 DEF Kept
  <2>. QED  BY <1>11, <2>8, <2>9, <2>10 DEF u
<1>. QED  BY <1>1, <1>9, <1>10, <1>11

\* At the end of the stream the message ends, once.
LEMMA RunFinalize ==
  ASSUME NEW s \in Conv, NEW m, Fits(m, s), Known(s), s.started, ~s.ended,
         NEW o, o = OpenAIStreamFinalize(s)
  PROVE  /\ \E n \in Message : Path(m, o.out, n) /\ n.stage = "stopped"
         /\ o \in Conv /\ o.ended /\ o.started /\ o.usage = s.usage
<1>. DEFINE p == [s EXCEPT !.out = <<>>]
            closed == closeBlocks(p)
            zero == [input |-> 0, output |-> 0, creation |-> 0, read |-> 0]
            stop == IF s.stop = None THEN "end_turn" ELSE s.stop
            u == IF s.usage = None THEN zero ELSE s.usage
            e == MessageDelta(stop, u)
            q == Put(closed, e)
            r == Put(q, MessageStop)
<1>1. o = [r EXCEPT !.ended = TRUE]
  BY Zenon DEF OpenAIStreamFinalize
<1>2. /\ p \in Conv /\ p.out = <<>> /\ p.started = s.started /\ p.usage = s.usage /\ p.stop = s.stop
      /\ p.ended = s.ended /\ p.tools = s.tools /\ p.next = s.next /\ p.text = s.text
  <2>1. <<>> \in Seq(Event)
    OBVIOUS
  <2>. QED  BY <2>1 DEF Conv
<1>3. stop \in Stops /\ u \in Counts
  BY DEF Conv, Stops, Counts
<1>4. closed = closeBlocks(p) /\ e = MessageDelta(stop, u) /\ q = Put(closed, e) /\ r = Put(q, MessageStop)
  OBVIOUS
<1>. HIDE DEF p, closed, stop, u, e, q, r
<1>5. Run(m, p, m) /\ Known(p)
  <2>1. m \in Message
    BY DEF Fits
  <2>2. Fits(m, p)
    BY <1>2, <2>1, FitsSame
  <2>. QED  BY <1>2, <2>2, PathEmpty DEF Run, Known
<1>6. /\ \E n : /\ Run(m, closed, n) /\ \A i \in DOMAIN n.blocks : ~n.blocks[i].open
                /\ DOMAIN n.blocks = 0 .. closed.next - 1
      /\ Kept(p, closed)
  BY <1>4, <1>5, RunCloseBlocks
<1>7. PICK n : /\ Run(m, closed, n) /\ \A i \in DOMAIN n.blocks : ~n.blocks[i].open
               /\ DOMAIN n.blocks = 0 .. closed.next - 1
  BY <1>6
<1>8. n \in Message /\ n.stage = "content" /\ closed \in Conv /\ Path(m, closed.out, n)
      /\ closed.next \in Nat /\ closed.out \in Seq(Event)
  BY <1>7 DEF Run, Fits, Conv
<1>. DEFINE k == Read(n, e)
            z == Read(k, MessageStop)
<1>9. k = Read(n, e) /\ z = Read(k, MessageStop)
  OBVIOUS
<1>. HIDE DEF k, z
<1>10. /\ MayRead(n, e) /\ k \in Message /\ k.stage = "ended"
       /\ MayRead(k, MessageStop) /\ z \in Message /\ z.stage = "stopped"
  BY <1>3, <1>4, <1>7, <1>8, <1>9, ReadMessageEnd
<1>11. e \in Event /\ MessageStop \in Event
  BY <1>3, <1>4, EventTypes
<1>12. q \in Conv /\ q.out = Append(closed.out, e) /\ Kept(closed, q)
  BY <1>4, <1>8, <1>11, PutIs
<1>13. r \in Conv /\ r.out = Append(q.out, MessageStop) /\ Kept(q, r)
  <2>. DEFINE w == MessageStop
  <2>1. w \in Event /\ r = Put(q, w) /\ q \in Conv
    BY <1>4, <1>11, <1>12
  <2>. HIDE DEF w
  <2>2. r \in Conv /\ r.out = Append(q.out, w) /\ Kept(q, r)
    BY <2>1, PutIs
  <2>. QED  BY <2>2 DEF w
<1>14. Path(m, q.out, k)
  BY <1>8, <1>9, <1>10, <1>11, <1>12, PathAppend
<1>15. q.out \in Seq(Event)
  BY <1>12 DEF Conv
<1>16. Path(m, r.out, z)
  BY <1>9, <1>10, <1>11, <1>13, <1>14, <1>15, PathAppend
<1>17. o \in Conv /\ o.ended /\ o.started = r.started /\ o.usage = r.usage /\ o.out = r.out
  BY <1>1, <1>13 DEF Conv
<1>. QED  BY <1>2, <1>6, <1>10, <1>12, <1>13, <1>16, <1>17 DEF Kept

-----------------------------------------------------------------------------
(***************************************************************************)
(* An event that may be read is an action of MessageStream.                *)
(***************************************************************************)
Face(b) == [kind |-> b.kind, content |-> b.content, open |-> b.open]
Told(m) == [i \in DOMAIN m.blocks |-> Face(m.blocks[i])]
NewBlock(f, i, k) ==
    [j \in DOMAIN f \cup {i} |-> IF j = i THEN [kind |-> k, content |-> <<>>, open |-> TRUE] ELSE f[j]]
Filled(f, i, c) == [f EXCEPT ![i].content = c]
Closed(f, i) == [f EXCEPT ![i].open = FALSE]

\* An event is made of its fields.
LEMMA EventIs ==
  ASSUME NEW e \in Event
  PROVE  /\ e.type = "block_start" => e = BlockStart(e.index, e.kind, e.val)
         /\ e.type = "block_delta" => e = Delta(e.index, e.kind, e.val)
         /\ e.type = "block_stop" => e = BlockStop(e.index)
         /\ e.type = "message_delta" => e = MessageDelta(e.stop, e.usage)
<1>1. ASSUME e.type = "block_start" PROVE e = BlockStart(e.index, e.kind, e.val)
  <2>1. e \in [type : {"block_start"}, index : Nat, kind : Shown, val : BlockVal]
    BY <1>1 DEF Event
  <2>. QED  BY <2>1 DEF BlockStart
<1>2. ASSUME e.type = "block_delta" PROVE e = Delta(e.index, e.kind, e.val)
  <2>1. e \in [type : {"block_delta"}, index : Nat, kind : Shown, val : Seq(Nat)]
    BY <1>2 DEF Event
  <2>. QED  BY <2>1 DEF Delta
<1>3. ASSUME e.type = "block_stop" PROVE e = BlockStop(e.index)
  <2>1. e \in [type : {"block_stop"}, index : Nat]
    BY <1>3 DEF Event
  <2>. QED  BY <2>1 DEF BlockStop
<1>4. ASSUME e.type = "message_delta" PROVE e = MessageDelta(e.stop, e.usage)
  <2>1. e \in [type : {"message_delta"}, stop : Stops, usage : Counts]
    BY <1>4 DEF Event
  <2>. QED  BY <2>1 DEF MessageDelta
<1>. QED  BY <1>1, <1>2, <1>3, <1>4

\* What is told of a block, when it is filled or stopped.
LEMMA FaceSet ==
  ASSUME NEW f, NEW x, NEW y, NEW z, f = [kind |-> x, content |-> y, open |-> z], NEW c,
         NEW g, g = [f EXCEPT !.content = c], NEW h, h = [f EXCEPT !.open = FALSE]
  PROVE  g = [kind |-> x, content |-> c, open |-> z] /\ h = [kind |-> x, content |-> y, open |-> FALSE]
OBVIOUS

\* What is told of a message.
LEMMA ToldIs ==
  ASSUME NEW m \in Message
  PROVE  /\ DOMAIN Told(m) = DOMAIN m.blocks /\ DOMAIN m.blocks \subseteq Nat
         /\ \A i \in DOMAIN m.blocks :
               /\ m.blocks[i] \in ReadBlock
               /\ Told(m)[i] = Face(m.blocks[i])
         /\ Told(m) = [i \in DOMAIN m.blocks |-> Told(m)[i]]
BY BlockMapIs DEF Told, Message

\* A sequence is a strict prefix of itself with something added.
LEMMA AddedTo ==
  ASSUME NEW S, NEW s \in Seq(S), NEW t \in Seq(S), t # <<>>
  PROVE  /\ Len(s) <= Len(s \o t) /\ s # s \o t
         /\ SubSeq(s, 1, Len(s)) = SubSeq(s \o t, 1, Len(s))
<1>1. Len(s) \in Nat /\ Len(t) \in Nat /\ Len(t) # 0 /\ Len(s \o t) = Len(s) + Len(t)
  BY ConcatProperties
<1>2. CASE Len(s) = 0
  BY <1>1, <1>2, SubSeqEmpty
<1>3. CASE Len(s) # 0
  <2>1. 1 \in 1 .. Len(s) /\ Len(s) \in 1 .. Len(s)
    BY <1>1, <1>3
  <2>2. SubSeq(s \o t, 1, Len(s)) = SubSeq(s, 1, Len(s))
    BY <2>1, SubSeqOfConcat1
  <2>. QED  BY <1>1, <2>2
<1>. QED  BY <1>2, <1>3

\* A message starts.
LEMMA TellsStart ==
  ASSUME NEW m \in Message, NEW e \in Event, Starts(m, e), NEW n, n = Read(m, e)
  PROVE  n \in Message /\ n.stage = "content" /\ Told(n) = Told(m)
<1>1. n = [m EXCEPT !.stage = "content"]
  BY DEF Starts, Read
<1>. QED  BY <1>1 DEF Told, Message, Stage

\* A message ends.
LEMMA TellsEnd ==
  ASSUME NEW m \in Message, NEW e \in Event, Ends(m, e), NEW n, n = Read(m, e)
  PROVE  n \in Message /\ n.stage = "ended" /\ Told(n) = Told(m)
<1>1. n = [m EXCEPT !.stage = "ended", !.stop = e.stop] /\ e.stop \in Stops
  BY DEF Ends, Read
<1>. QED  BY <1>1 DEF Told, Message, Stage

\* It stops.
LEMMA TellsStop ==
  ASSUME NEW m \in Message, NEW e \in Event, StopsMessage(m, e), NEW n, n = Read(m, e)
  PROVE  n \in Message /\ n.stage = "stopped" /\ Told(n) = Told(m)
<1>1. n = [m EXCEPT !.stage = "stopped"]
  BY DEF StopsMessage, Read
<1>. QED  BY <1>1 DEF Told, Message, Stage

\* A block starts.
LEMMA TellsBlock ==
  ASSUME NEW m \in Message, NEW e \in Event, StartsBlock(m, e), NEW n, n = Read(m, e)
  PROVE  n \in Message /\ n.stage = m.stage /\ Told(n) = NewBlock(Told(m), e.index, e.kind)
<1>. DEFINE i == e.index
            k == e.kind
            v == e.val
            b == [kind |-> k, content |-> <<>>, open |-> TRUE]
<1>1. e = BlockStart(i, k, v) /\ i \in Nat /\ i \notin DOMAIN m.blocks /\ k \in Shown /\ v \in BlockVal
      /\ m.stage = "content"
  BY EventIs DEF StartsBlock
<1>. HIDE DEF i, k, v
<1>2. /\ n \in Message
      /\ n.stage = m.stage
      /\ DOMAIN n.blocks = DOMAIN m.blocks \cup {i}
      /\ n.blocks[i] = [kind |-> k, val |-> v, content |-> <<>>, open |-> TRUE]
      /\ \A j \in DOMAIN m.blocks : n.blocks[j] = m.blocks[j]
  BY <1>1, ReadBlockStart
<1>3. /\ DOMAIN Told(m) = DOMAIN m.blocks /\ DOMAIN Told(n) = DOMAIN n.blocks
      /\ \A j \in DOMAIN m.blocks : Told(m)[j] = Face(m.blocks[j])
      /\ \A j \in DOMAIN n.blocks : Told(n)[j] = Face(n.blocks[j])
      /\ Told(n) = [j \in DOMAIN n.blocks |-> Told(n)[j]]
  BY <1>2, ToldIs
<1>4. Told(n)[i] = b
  <2>1. Face(n.blocks[i]) = b
    BY <1>2 DEF Face
  <2>. QED  BY <1>2, <1>3, <2>1
<1>5. \A j \in DOMAIN m.blocks : Told(n)[j] = Told(m)[j]
  BY <1>2, <1>3
<1>6. NewBlock(Told(m), i, k) = [j \in DOMAIN m.blocks \cup {i} |-> IF j = i THEN b ELSE Told(m)[j]]
  BY <1>3 DEF NewBlock
<1>. HIDE DEF b
<1>7. Told(n) = NewBlock(Told(m), i, k)
  BY <1>1, <1>2, <1>3, <1>4, <1>5, <1>6
<1>. QED  BY <1>2, <1>7 DEF i, k

\* A block is filled.
LEMMA TellsFill ==
  ASSUME NEW m \in Message, NEW e \in Event, Fills(m, e), NEW n, n = Read(m, e)
  PROVE  /\ n \in Message /\ n.stage = m.stage /\ DOMAIN n.blocks = DOMAIN m.blocks
         /\ Told(n)[e.index].content = Told(m)[e.index].content \o e.val
         /\ Told(m)[e.index].content \in Seq(Nat) /\ e.val \in Seq(Nat) /\ e.val # <<>>
         /\ Told(n) = Filled(Told(m), e.index, Told(n)[e.index].content)
<1>. DEFINE i == e.index
            k == e.kind
            v == e.val
<1>1. e \in [type : {"block_delta"}, index : Nat, kind : Shown, val : Seq(Nat)]
  BY DEF Fills, Event
<1>2. e = Delta(i, k, v) /\ i \in DOMAIN m.blocks /\ m.blocks[i].open /\ k \in Shown
      /\ v \in Seq(Nat) /\ v # <<>> /\ m.stage = "content"
  BY <1>1, EventIs DEF Fills
<1>. HIDE DEF i, k, v
<1>3. /\ n \in Message
      /\ n.stage = m.stage
      /\ DOMAIN n.blocks = DOMAIN m.blocks
      /\ n.blocks[i].content = m.blocks[i].content \o v
      /\ n.blocks[i].kind = m.blocks[i].kind /\ n.blocks[i].open
      /\ \A j \in DOMAIN m.blocks \ {i} : n.blocks[j] = m.blocks[j]
  BY <1>2, ReadDelta
<1>4. /\ \A j \in DOMAIN m.blocks : m.blocks[j] \in ReadBlock /\ Told(m)[j] = Face(m.blocks[j])
      /\ \A j \in DOMAIN n.blocks : n.blocks[j] \in ReadBlock /\ Told(n)[j] = Face(n.blocks[j])
      /\ Told(m) = [j \in DOMAIN m.blocks |-> Told(m)[j]]
      /\ Told(n) = [j \in DOMAIN n.blocks |-> Told(n)[j]]
  BY <1>3, ToldIs
<1>. DEFINE x == m.blocks[i].kind
            y == m.blocks[i].content
            z == m.blocks[i].open
            c == Told(n)[i].content
            b == [Told(m)[i] EXCEPT !.content = c]
<1>5. Told(m)[i] = [kind |-> x, content |-> y, open |-> z] /\ y \in Seq(Nat)
  BY <1>2, <1>4 DEF Face, ReadBlock
<1>6. Told(n)[i] = [kind |-> x, content |-> y \o v, open |-> z]
  <2>1. n.blocks[i].open = z
    BY <1>2, <1>3, <1>4 DEF ReadBlock
  <2>2. Told(n)[i] = Face(n.blocks[i])
    BY <1>2, <1>3, <1>4
  <2>. QED  BY <1>3, <2>1, <2>2 DEF Face
<1>7. Told(n)[i].content = Told(m)[i].content \o v /\ Told(m)[i].content \in Seq(Nat) /\ c = y \o v
  <2>. HIDE DEF x, y, z
  <2>. QED  BY <1>5, <1>6
<1>8. Told(n)[i] = b
  <2>1. b = [Told(m)[i] EXCEPT !.content = c]
    OBVIOUS
  <2>. DEFINE t == Told(m)[i]
  <2>2. t = [kind |-> x, content |-> y, open |-> z]
    BY <1>5
  <2>3. b = [t EXCEPT !.content = c]
    BY <2>1
  <2>. HIDE DEF x, y, z, c, b, t
  <2>4. b = [kind |-> x, content |-> c, open |-> z]
    BY <2>2, <2>3
  <2>. QED  BY <1>6, <1>7, <2>4
<1>9. \A j \in DOMAIN m.blocks \ {i} : Told(n)[j] = Told(m)[j]
  <2>. HIDE DEF x, y, z, c, b
  <2>. SUFFICES ASSUME NEW j \in DOMAIN m.blocks \ {i} PROVE Told(n)[j] = Told(m)[j]
    OBVIOUS
  <2>1. Told(n)[j] = Face(n.blocks[j]) /\ Told(m)[j] = Face(m.blocks[j]) /\ n.blocks[j] = m.blocks[j]
    BY <1>3, <1>4
  <2>. QED  BY <2>1
<1>10. Told(n) = [Told(m) EXCEPT ![i] = b]
  <2>. HIDE DEF b
  <2>. QED  BY <1>2, <1>3, <1>4, <1>8, <1>9
<1>11. [Told(m) EXCEPT ![i] = b] = Filled(Told(m), i, c)
  BY DEF Filled
<1>. HIDE DEF b
<1>. QED  BY <1>2, <1>3, <1>7, <1>10, <1>11 DEF i, v

\* A block stops.
LEMMA TellsBlockStop ==
  ASSUME NEW m \in Message, NEW e \in Event, StopsBlock(m, e), NEW n, n = Read(m, e)
  PROVE  /\ n \in Message /\ n.stage = m.stage
         /\ DOMAIN n.blocks = DOMAIN m.blocks
         /\ Told(n) = Closed(Told(m), e.index)
<1>. DEFINE i == e.index
<1>1. e = BlockStop(i) /\ i \in DOMAIN m.blocks /\ m.blocks[i].open /\ m.stage = "content"
  BY EventIs DEF StopsBlock
<1>. HIDE DEF i
<1>2. /\ n \in Message
      /\ n.stage = m.stage
      /\ DOMAIN n.blocks = DOMAIN m.blocks
      /\ n.blocks[i].content = m.blocks[i].content
      /\ n.blocks[i].kind = m.blocks[i].kind /\ ~n.blocks[i].open
      /\ \A j \in DOMAIN m.blocks \ {i} : n.blocks[j] = m.blocks[j]
  BY <1>1, ReadBlockStop
<1>3. /\ \A j \in DOMAIN m.blocks : m.blocks[j] \in ReadBlock /\ Told(m)[j] = Face(m.blocks[j])
      /\ \A j \in DOMAIN n.blocks : n.blocks[j] \in ReadBlock /\ Told(n)[j] = Face(n.blocks[j])
      /\ Told(m) = [j \in DOMAIN m.blocks |-> Told(m)[j]]
      /\ Told(n) = [j \in DOMAIN n.blocks |-> Told(n)[j]]
  BY <1>2, ToldIs
<1>. DEFINE x == m.blocks[i].kind
            y == m.blocks[i].content
            z == m.blocks[i].open
            b == [Told(m)[i] EXCEPT !.open = FALSE]
<1>4. Told(m)[i] = [kind |-> x, content |-> y, open |-> z]
  BY <1>1, <1>3 DEF Face
<1>5. Told(n)[i] = [kind |-> x, content |-> y, open |-> FALSE]
  <2>1. n.blocks[i].open = FALSE
    BY <1>1, <1>2, <1>3 DEF ReadBlock
  <2>2. Told(n)[i] = Face(n.blocks[i])
    BY <1>1, <1>2, <1>3
  <2>. QED  BY <1>2, <2>1, <2>2 DEF Face
<1>6. Told(n)[i] = b
  <2>. DEFINE t == Told(m)[i]
  <2>1. b = [t EXCEPT !.open = FALSE]
    OBVIOUS
  <2>2. t = [kind |-> x, content |-> y, open |-> z]
    BY <1>4
  <2>. HIDE DEF x, y, z, b, t
  <2>3. b = [kind |-> x, content |-> y, open |-> FALSE]
    BY <2>1, <2>2
  <2>. QED  BY <1>5, <2>3
<1>7. \A j \in DOMAIN m.blocks \ {i} : Told(n)[j] = Told(m)[j]
  BY <1>2, <1>3
<1>8. Told(n) = [Told(m) EXCEPT ![i] = b]
  <2>. HIDE DEF b
  <2>. QED  BY <1>1, <1>2, <1>3, <1>6, <1>7
<1>9. [Told(m) EXCEPT ![i] = b] = Closed(Told(m), i)
  BY DEF Closed
<1>. HIDE DEF b
<1>. QED  BY <1>2, <1>8, <1>9 DEF i

\* What the client reads is a step of the abstract specification.
LEMMA ReadsLegally ==
  ASSUME seen \in Message, NEW e \in Event, MayRead(seen, e), seen' = Read(seen, e)
  PROVE  Grammar!MessageNext /\ seen' \in Message
<1>. DEFINE m == seen
            n == seen'
<1>0. /\ Told(seen) = [i \in DOMAIN seen.blocks |->
            [kind |-> seen.blocks[i].kind, content |-> seen.blocks[i].content, open |-> seen.blocks[i].open]]
      /\ Told(seen') = [i \in DOMAIN seen'.blocks |->
            [kind |-> seen'.blocks[i].kind, content |-> seen'.blocks[i].content, open |-> seen'.blocks[i].open]]
  BY DEF Told, Face
<1>1. m \in Message /\ n = Read(m, e) /\ MayRead(m, e)
  OBVIOUS
<1>2. /\ DOMAIN Told(m) = DOMAIN m.blocks /\ DOMAIN m.blocks \subseteq Nat
      /\ \A i \in DOMAIN m.blocks : Told(m)[i].open = m.blocks[i].open
  <2>1. /\ DOMAIN Told(m) = DOMAIN m.blocks /\ DOMAIN m.blocks \subseteq Nat
        /\ \A i \in DOMAIN m.blocks : Told(m)[i] = Face(m.blocks[i])
    BY <1>1, ToldIs
  <2>2. \A i \in DOMAIN m.blocks : Told(m)[i].open = m.blocks[i].open
    <3>. SUFFICES ASSUME NEW i \in DOMAIN m.blocks PROVE Told(m)[i].open = m.blocks[i].open
      OBVIOUS
    <3>1. Told(m)[i] = Face(m.blocks[i])
      BY <2>1
    <3>. QED  BY <3>1 DEF Face
  <2>. QED  BY <2>1, <2>2
<1>3. CASE Starts(m, e)
  <2>1. n \in Message /\ n.stage = "content" /\ Told(n) = Told(m)
    BY <1>1, <1>3, TellsStart
  <2>2. Grammar!StartMessage
    BY <1>0, <1>3, <2>1 DEF Grammar!StartMessage, Starts
  <2>. QED  BY <2>1, <2>2 DEF Grammar!MessageNext
<1>4. CASE Ends(m, e)
  <2>1. n \in Message /\ n.stage = "ended" /\ Told(n) = Told(m)
    BY <1>1, <1>4, TellsEnd
  <2>2. PICK c \in Nat : DOMAIN m.blocks = 0 .. c - 1
    BY <1>4 DEF Ends
  <2>3. Cardinality(0 .. c - 1) = c
    BY FS_Interval
  <2>4. DOMAIN Told(m) = 0 .. Grammar!Cardinality(DOMAIN Told(m)) - 1
    <3>. DEFINE D == DOMAIN Told(m)
    <3>1. D = 0 .. Cardinality(D) - 1
      BY <1>2, <2>2, <2>3
    <3>. HIDE DEF D
    <3>2. Grammar!Cardinality(D) = Cardinality(D)
      BY Zenon DEF Grammar!Cardinality, Cardinality
    <3>3. D = 0 .. Grammar!Cardinality(D) - 1
      BY <3>1, <3>2
    <3>. QED  BY <3>3 DEF D
  <2>5. \A i \in DOMAIN Told(m) : ~Told(m)[i].open
    BY <1>2, <1>4 DEF Ends
  <2>6. Grammar!EndMessage
    BY <1>0, <1>4, <2>1, <2>4, <2>5, Zenon DEF Grammar!EndMessage, Ends
  <2>. QED  BY <2>1, <2>6 DEF Grammar!MessageNext
<1>5. CASE StopsMessage(m, e)
  <2>1. n \in Message /\ n.stage = "stopped" /\ Told(n) = Told(m)
    BY <1>1, <1>5, TellsStop
  <2>2. Grammar!StopMessage
    BY <1>0, <1>5, <2>1 DEF Grammar!StopMessage, StopsMessage
  <2>. QED  BY <2>1, <2>2 DEF Grammar!MessageNext
<1>6. CASE StartsBlock(m, e)
  <2>1. n \in Message /\ n.stage = m.stage /\ Told(n) = NewBlock(Told(m), e.index, e.kind)
    BY <1>1, <1>6, TellsBlock
  <2>2. /\ Told(n) = [j \in DOMAIN Told(m) \cup {e.index} |->
                          IF j = e.index THEN [kind |-> e.kind, content |-> <<>>, open |-> TRUE]
                          ELSE Told(m)[j]]
        /\ e.index \in Nat /\ e.index \notin DOMAIN Told(m) /\ m.stage = "content"
    BY <1>2, <1>6, <2>1 DEF StartsBlock, NewBlock
  <2>3. Grammar!StartBlock(e.index, e.kind)
    BY <1>0, <2>1, <2>2, Zenon DEF Grammar!StartBlock
  <2>4. e.index \in DOMAIN Told(n) /\ e.kind \in {"text", "tool_use"}
    BY <1>6, <2>2 DEF StartsBlock, Shown
  <2>. QED  BY <1>0, <2>1, <2>3, <2>4, Zenon DEF Grammar!MessageNext
<1>7. CASE StopsBlock(m, e)
  <2>1. /\ n \in Message /\ n.stage = m.stage
        /\ DOMAIN n.blocks = DOMAIN m.blocks
        /\ Told(n) = Closed(Told(m), e.index)
    BY <1>1, <1>7, TellsBlockStop
  <2>2. /\ Told(n) = [Told(m) EXCEPT ![e.index].open = FALSE]
        /\ e.index \in DOMAIN Told(m) /\ Told(m)[e.index].open /\ m.stage = "content"
    BY <1>2, <1>7, <2>1 DEF StopsBlock, Closed
  <2>3. Grammar!StopBlock(e.index)
    BY <1>0, <2>1, <2>2, Zenon DEF Grammar!StopBlock
  <2>4. e.index \in DOMAIN Told(n)
    BY <2>2
  <2>. QED  BY <1>0, <2>1, <2>3, <2>4, Zenon DEF Grammar!MessageNext
<1>8. CASE Fills(m, e)
  <2>1. /\ n \in Message /\ n.stage = m.stage /\ DOMAIN n.blocks = DOMAIN m.blocks
        /\ Told(n)[e.index].content = Told(m)[e.index].content \o e.val
        /\ Told(m)[e.index].content \in Seq(Nat) /\ e.val \in Seq(Nat) /\ e.val # <<>>
        /\ Told(n) = Filled(Told(m), e.index, Told(n)[e.index].content)
    BY <1>1, <1>8, TellsFill
  <2>2. /\ Told(n) = [Told(m) EXCEPT ![e.index].content = Told(n)[e.index].content]
        /\ e.index \in DOMAIN Told(m) /\ Told(m)[e.index].open /\ m.stage = "content"
    BY <1>2, <1>8, <2>1 DEF Fills, Filled
  <2>. DEFINE a == Told(m)[e.index].content
              b == Told(n)[e.index].content
  <2>3. Grammar!IsStrictPrefix(a, b)
    <3>1. Len(a) <= Len(b) /\ a # b /\ SubSeq(a, 1, Len(a)) = SubSeq(b, 1, Len(a))
      <4>1. a \in Seq(Nat) /\ e.val \in Seq(Nat) /\ e.val # <<>> /\ b = a \o e.val
        BY <2>1
      <4>. HIDE DEF a, b
      <4>. QED  BY <4>1, AddedTo
    <3>. HIDE DEF a, b
    <3>. QED  BY <3>1, Zenon DEF Grammar!IsStrictPrefix, Grammar!IsPrefix
  <2>4. Grammar!Fill(e.index)
    BY <1>0, <2>1, <2>2, <2>3, Zenon DEF Grammar!Fill
  <2>5. e.index \in DOMAIN Told(n)
    BY <2>2
  <2>. QED  BY <1>0, <2>1, <2>4, <2>5, Zenon DEF Grammar!MessageNext
<1>. QED  BY <1>1, <1>3, <1>4, <1>5, <1>6, <1>7, <1>8 DEF MayRead

-----------------------------------------------------------------------------
(***************************************************************************)
(* What is written and not yet read leads the client, one legal event      *)
(* after the other, from what it has assembled to m.                       *)
(***************************************************************************)
Unrolls(g, d, w, m0, m) ==
    /\ g[d] = m0 /\ g[Len(w)] = m
    /\ \A i \in d + 1 .. Len(w) : MayRead(g[i - 1], w[i]) /\ g[i] = Read(g[i - 1], w[i])
Ahead(d, w, m0, m) == \E g : Unrolls(g, d, w, m0, m)

\* When everything is read, nothing is ahead.
LEMMA AheadNone ==
  ASSUME NEW S, NEW w \in Seq(S), NEW m0
  PROVE  /\ Ahead(Len(w), w, m0, m0)
         /\ \A m : Ahead(Len(w), w, m0, m) => m = m0
<1>1. Len(w) \in Nat
  OBVIOUS
<1>. DEFINE l == Len(w)
            g == [i \in {l} |-> m0]
<1>2. Unrolls(g, Len(w), w, m0, m0)
  BY <1>1 DEF Unrolls
<1>. HIDE DEF g
<1>3. Ahead(Len(w), w, m0, m0)
  BY <1>2, Zenon DEF Ahead
<1>. QED  BY <1>3, Zenon DEF Ahead, Unrolls

\* What is written then is ahead.
LEMMA AheadWritten ==
  ASSUME NEW S, NEW w \in Seq(S), NEW out \in Seq(S), NEW m0, NEW m, Path(m0, out, m)
  PROVE  Ahead(Len(w), w \o out, m0, m)
<1>. DEFINE l == Len(w)
            k == Len(out)
            t == w \o out
<1>1. PICK f : Steps(f, m0, out, m)
  BY Zenon DEF Path
<1>2. /\ l \in Nat /\ k \in Nat /\ Len(t) = l + k
      /\ \A i \in 1 .. l + k : t[i] = IF i <= l THEN w[i] ELSE out[i - l]
  BY ConcatProperties
<1>3. /\ f[0] = m0 /\ f[k] = m
      /\ \A i \in 1 .. k : MayRead(f[i - 1], out[i]) /\ f[i] = Read(f[i - 1], out[i])
  BY <1>1 DEF Steps
<1>. HIDE DEF l, k, t
<1>. DEFINE g == [i \in l .. l + k |-> f[i - l]]
<1>4. \A i \in l .. l + k : g[i] = f[i - l]
  OBVIOUS
<1>. HIDE DEF g
<1>5. g[l] = m0 /\ g[l + k] = m
  BY <1>2, <1>3, <1>4
<1>6. ASSUME NEW i \in l + 1 .. l + k
      PROVE  MayRead(g[i - 1], t[i]) /\ g[i] = Read(g[i - 1], t[i])
  <2>1. /\ i - l \in 1 .. k /\ i - 1 \in l .. l + k /\ i \in l .. l + k
        /\ i \in 1 .. l + k /\ ~(i <= l) /\ (i - 1) - l = (i - l) - 1
    BY <1>2
  <2>2. t[i] = out[i - l] /\ g[i - 1] = f[(i - l) - 1] /\ g[i] = f[i - l]
    BY <1>2, <1>4, <2>1
  <2>. QED  BY <1>3, <2>1, <2>2
<1>7. Unrolls(g, l, t, m0, m)
  BY <1>2, <1>5, <1>6 DEF Unrolls
<1>. QED  BY <1>7, Zenon DEF Ahead, l, t

\* The next event may be read, and the rest is still ahead.
LEMMA AheadRead ==
  ASSUME NEW S, NEW w \in Seq(S), NEW d \in Nat, d < Len(w), NEW m0, NEW m, Ahead(d, w, m0, m)
  PROVE  /\ MayRead(m0, w[d + 1])
         /\ Ahead(d + 1, w, Read(m0, w[d + 1]), m)
<1>1. PICK g : Unrolls(g, d, w, m0, m)
  BY Zenon DEF Ahead
<1>2. Len(w) \in Nat
  OBVIOUS
<1>3. d + 1 \in d + 1 .. Len(w) /\ (d + 1) - 1 = d /\ \A i \in (d + 1) + 1 .. Len(w) : i \in d + 1 .. Len(w)
  BY <1>2
<1>4. MayRead(g[d], w[d + 1]) /\ g[d + 1] = Read(g[d], w[d + 1]) /\ g[d] = m0
  BY <1>1, <1>3 DEF Unrolls
<1>5. Unrolls(g, d + 1, w, Read(m0, w[d + 1]), m)
  BY <1>1, <1>3, <1>4 DEF Unrolls
<1>. QED  BY <1>4, <1>5, Zenon DEF Ahead

-----------------------------------------------------------------------------
(***************************************************************************)
(* The invariant of pipe to_anthropic.                                     *)
(***************************************************************************)
Finished == \E i \in DOMAIN received : received[i].finish # None
(* Between two chunks.                                                     *)
Between(m) ==
    /\ conv \in Conv /\ Before(m, conv) /\ Known(conv) /\ ~conv.ended
    /\ received # <<>> => conv.started
    /\ ~Finished => Opened(conv) /\ conv.stop = None
Nothing ==
    /\ conv = None /\ written = <<>> /\ delivered = 0 /\ seen = Unread /\ received = <<>>
Unfolds ==
    \E m \in Message : Ahead(delivered, written, seen, m) /\ (phase # "done" => Between(m))
StreamInv ==
    IF pipe = "to_anthropic"
    THEN /\ phase \in {"asked", "sent", "streaming", "done", "broken"}
         /\ seen \in Message /\ written \in Seq(Event) /\ received \in Seq(ChunkItem)
         /\ delivered \in 0 .. Len(written)
         /\ IF phase \in {"asked", "sent"} THEN Nothing ELSE Unfolds
    ELSE seen = Unread

\* Initially.
LEMMA StreamInvInit == Init => StreamInv
<1>. SUFFICES ASSUME Init PROVE StreamInv
  OBVIOUS
<1>1. written = <<>> /\ received = <<>> /\ delivered = 0 /\ seen = Unread /\ conv = None /\ phase = "asked"
  BY DEF Init
<1>2. written \in Seq(Event) /\ received \in Seq(ChunkItem) /\ Len(written) = 0
  BY <1>1
<1>. QED  BY <1>1, <1>2, FreshTypes DEF StreamInv, Nothing

\* A chunk is read, and what it becomes is written.
LEMMA StreamInvChunk == StreamInv /\ pipeOpenAIStreamToAnthropic => StreamInv'
<1>. SUFFICES ASSUME StreamInv, pipeOpenAIStreamToAnthropic PROVE StreamInv'
  OBVIOUS
<1>0. PICK c \in SentChunks :
         /\ Reads(c)
         /\ written' = written \o OpenAIChunkToAnthropicEvents(c, conv).out
         /\ conv' = [OpenAIChunkToAnthropicEvents(c, conv) EXCEPT !.out = <<>>]
  BY Zenon DEF pipeOpenAIStreamToAnthropic
<1>. DEFINE o == OpenAIChunkToAnthropicEvents(c, conv)
<1>1. /\ pipe = "to_anthropic" /\ pipe' = pipe /\ phase = "streaming" /\ phase' = phase
      /\ delivered = Len(written) /\ delivered' = delivered /\ seen' = seen
      /\ received' = Append(received, c)
      /\ written' = written \o o.out /\ conv' = [o EXCEPT !.out = <<>>]
  BY <1>0 DEF pipeOpenAIStreamToAnthropic, Reads
<1>2. o = OpenAIChunkToAnthropicEvents(c, conv)
  OBVIOUS
<1>. HIDE DEF o
<1>3. /\ seen \in Message /\ written \in Seq(Event) /\ received \in Seq(ChunkItem) /\ Unfolds
  BY <1>1 DEF StreamInv
<1>4. Len(received) \in Nat /\ Atom \in Nat
  BY <1>3 DEF Atom
<1>5. PICK shape \in Shapes : c = Chunk(shape, Atom) /\ SendsChunk(c)
  BY Zenon DEF SentChunks
<1>6. c \in ChunkItem /\ (~c.choice => Silent(c))
  BY <1>4, <1>5, ChunkIs
<1>7. c.choice = ~Finished
  BY <1>5, Zenon DEF SendsChunk, Finished
<1>8. PICK m \in Message : Ahead(delivered, written, seen, m) /\ Between(m)
  BY <1>1, <1>3 DEF Unfolds
<1>9. m = seen
  BY <1>1, <1>3, <1>8, AheadNone
<1>10. /\ conv \in Conv /\ Before(m, conv) /\ Known(conv) /\ ~conv.ended
       /\ c.choice => Opened(conv) /\ conv.stop = None
       /\ ~Finished => Opened(conv) /\ conv.stop = None
  BY <1>7, <1>8 DEF Between
<1>11. /\ \E n : Run(m, o, n)
       /\ o.started /\ o.ended = conv.ended /\ Known(o)
       /\ Opened(conv) /\ c.finish = None => Opened(o) /\ o.stop = conv.stop
  BY <1>2, <1>6, <1>10, RunChunk
<1>12. PICK n : Run(m, o, n)
  BY <1>11
<1>13. n \in Message /\ o \in Conv /\ Fits(n, o) /\ Path(m, o.out, n) /\ o.out \in Seq(Event)
  BY <1>12 DEF Run, Fits, Conv
<1>14. /\ conv' \in Conv /\ conv'.started = o.started /\ conv'.ended = o.ended /\ conv'.next = o.next
       /\ conv'.text = o.text /\ conv'.tools = o.tools /\ conv'.stop = o.stop
  <2>1. <<>> \in Seq(Event)
    OBVIOUS
  <2>. QED  BY <1>1, <1>13, <2>1 DEF Conv
<1>15. Fits(n, conv')
  BY <1>13, <1>14, FitsSame
<1>16. received' \in Seq(ChunkItem) /\ written' \in Seq(Event)
       /\ delivered' \in 0 .. Len(written')
  <2>1. received' \in Seq(ChunkItem)
    BY <1>1, <1>3, <1>6, AppendProperties
  <2>2. written' \in Seq(Event) /\ Len(written') = Len(written) + Len(o.out)
    BY <1>1, <1>3, <1>13, ConcatProperties
  <2>3. Len(written) \in Nat /\ Len(o.out) \in Nat
    BY <1>3, <1>13
  <2>. QED  BY <1>1, <2>1, <2>2, <2>3
<1>17. Ahead(delivered', written', seen', n)
  BY <1>1, <1>3, <1>9, <1>13, AheadWritten
<1>18. ~Finished' => ~Finished /\ c.finish = None
  <2>1. DOMAIN received = 1 .. Len(received) /\ DOMAIN received' = 1 .. Len(received) + 1
        /\ received'[Len(received) + 1] = c /\ \A i \in 1 .. Len(received) : received'[i] = received[i]
    BY <1>1, <1>3, <1>6, AppendProperties
  <2>. QED  BY <1>4, <2>1 DEF Finished
<1>19. ~Finished' => Opened(conv') /\ conv'.stop = None
  BY <1>10, <1>11, <1>14, <1>18 DEF Opened
<1>20. Known(conv') /\ ~conv'.ended /\ conv'.started /\ Before(n, conv')
  BY <1>10, <1>11, <1>14, <1>15 DEF Known, Before
<1>21. Between(n)'
  BY <1>14, <1>19, <1>20 DEF Between
<1>22. Unfolds'
  BY <1>13, <1>17, <1>21 DEF Unfolds
<1>. QED  BY <1>1, <1>3, <1>16, <1>22 DEF StreamInv

\* The stream ends, and with it the message.
LEMMA StreamInvEnd == StreamInv /\ EndOfStream => StreamInv'
<1>. SUFFICES ASSUME StreamInv, EndOfStream, pipe = "to_anthropic" PROVE StreamInv'
  BY DEF StreamInv, EndOfStream
<1>. DEFINE o == OpenAIStreamFinalize(conv)
<1>1. /\ pipe' = pipe /\ phase = "streaming" /\ phase' = "done" /\ received # <<>>
      /\ delivered = Len(written) /\ delivered' = delivered /\ seen' = seen
      /\ received' = received /\ written' = written \o o.out
  BY DEF EndOfStream
<1>2. o = OpenAIStreamFinalize(conv)
  OBVIOUS
<1>. HIDE DEF o
<1>3. /\ seen \in Message /\ written \in Seq(Event) /\ received \in Seq(ChunkItem) /\ Unfolds
  BY <1>1 DEF StreamInv
<1>4. PICK m \in Message : Ahead(delivered, written, seen, m) /\ Between(m)
  BY <1>1, <1>3 DEF Unfolds
<1>5. m = seen
  BY <1>1, <1>3, <1>4, AheadNone
<1>6. conv \in Conv /\ Fits(m, conv) /\ Known(conv) /\ ~conv.ended /\ conv.started
  BY <1>1, <1>4 DEF Between, Before, FreshToAnthropic
<1>7. /\ \E n \in Message : Path(m, o.out, n) /\ n.stage = "stopped"
      /\ o \in Conv
  BY <1>2, <1>6, RunFinalize
<1>8. PICK n \in Message : Path(m, o.out, n)
  BY <1>7
<1>9. o.out \in Seq(Event)
  BY <1>7 DEF Conv
<1>10. written' \in Seq(Event) /\ delivered' \in 0 .. Len(written')
  <2>1. written' \in Seq(Event) /\ Len(written') = Len(written) + Len(o.out)
    BY <1>1, <1>3, <1>9, ConcatProperties
  <2>2. Len(written) \in Nat /\ Len(o.out) \in Nat
    BY <1>3, <1>9
  <2>. QED  BY <1>1, <2>1, <2>2
<1>11. Ahead(delivered', written', seen', n)
  BY <1>1, <1>3, <1>5, <1>8, <1>9, AheadWritten
<1>12. Unfolds'
  BY <1>1, <1>8, <1>11 DEF Unfolds
<1>. QED  BY <1>1, <1>3, <1>10, <1>12 DEF StreamInv

\* The client reads an event: a step of the abstract specification.
LEMMA StreamInvReads ==
  StreamInv /\ ClientReads =>
      StreamInv' /\ (pipe = "to_anthropic" => Grammar!MessageNext) /\ (pipe # "to_anthropic" => seen' = seen)
<1>. SUFFICES ASSUME StreamInv, ClientReads, pipe = "to_anthropic"
              PROVE  StreamInv' /\ Grammar!MessageNext
  BY DEF StreamInv, ClientReads
<1>. DEFINE e == written[delivered + 1]
<1>1. /\ pipe' = pipe /\ phase' = phase /\ received' = received /\ conv' = conv /\ written' = written
      /\ delivered < Len(written) /\ delivered' = delivered + 1 /\ seen' = Read(seen, e)
  BY DEF ClientReads
<1>2. /\ phase \in {"asked", "sent", "streaming", "done", "broken"}
      /\ seen \in Message /\ written \in Seq(Event) /\ received \in Seq(ChunkItem)
      /\ delivered \in 0 .. Len(written) /\ Len(written) \in Nat
  BY DEF StreamInv
<1>3. phase \notin {"asked", "sent"} /\ Unfolds
  BY <1>1, <1>2 DEF StreamInv, Nothing
<1>4. PICK m \in Message : Ahead(delivered, written, seen, m) /\ (phase # "done" => Between(m))
  BY <1>3 DEF Unfolds
<1>5. MayRead(seen, e) /\ Ahead(delivered + 1, written, Read(seen, e), m)
  BY <1>1, <1>2, <1>4, AheadRead
<1>6. e \in Event
  BY <1>1, <1>2
<1>. HIDE DEF e
<1>7. Grammar!MessageNext /\ seen' \in Message
  BY <1>1, <1>2, <1>5, <1>6, ReadsLegally
<1>8. phase # "done" => Between(m)'
  BY <1>1, <1>4 DEF Between, Finished
<1>9. Unfolds'
  BY <1>1, <1>4, <1>5, <1>8 DEF Unfolds
<1>. QED  BY <1>1, <1>2, <1>3, <1>7, <1>9 DEF StreamInv

\* The invariant is kept, and every step reads legally or nothing.
LEMMA StreamInvNext ==
  StreamInv /\ [Next]_vars => StreamInv' /\ (Grammar!MessageNext \/ seen' = seen)
<1>. SUFFICES ASSUME StreamInv, [Next]_vars PROVE StreamInv' /\ (Grammar!MessageNext \/ seen' = seen)
  OBVIOUS
<1>1. CASE Send
  BY <1>1 DEF Send, StreamInv, Nothing
<1>2. CASE Open
  <2>1. CASE pipe # "to_anthropic"
    BY <1>2, <2>1 DEF Open, StreamInv
  <2>2. CASE pipe = "to_anthropic"
    <3>1. /\ pipe' = pipe /\ phase = "sent" /\ phase' = "streaming" /\ conv' = FreshToAnthropic
          /\ seen' = seen /\ written' = written /\ delivered' = delivered /\ received' = received
      BY <1>2, <2>2 DEF Open
    <3>2. Nothing /\ written \in Seq(Event) /\ received \in Seq(ChunkItem) /\ seen \in Message
          /\ delivered \in 0 .. Len(written)
      BY <2>2, <3>1 DEF StreamInv
    <3>0. PICK m : m = seen
      OBVIOUS
    <3>3. Ahead(delivered', written', seen', m)
      <4>1. Ahead(Len(written), written, seen, seen) /\ Len(written) = delivered
        BY <3>2, AheadNone DEF Nothing
      <4>. QED  BY <3>0, <3>1, <4>1
    <3>4. Between(m)'
      BY <3>0, <3>1, <3>2, FreshTypes DEF Between, Before, Known, Opened, FreshToAnthropic, Nothing
    <3>5. Unfolds'
      BY <3>0, <3>2, <3>3, <3>4 DEF Unfolds
    <3>. QED  BY <2>2, <3>1, <3>2, <3>5 DEF StreamInv
  <2>. QED  BY <2>1, <2>2
<1>3. CASE ClientReads
  BY <1>3, StreamInvReads
<1>4. CASE EndOfStream
  BY <1>4, StreamInvEnd DEF EndOfStream
<1>5. CASE ReadFails
  <2>1. /\ pipe' = pipe /\ phase = "streaming" /\ phase' = "broken" /\ conv' = conv
        /\ seen' = seen /\ written' = written /\ delivered' = delivered /\ received' = received
    BY <1>5 DEF ReadFails
  <2>. QED  BY <2>1 DEF StreamInv, Unfolds, Between, Finished
<1>6. CASE pipeOpenAIStreamToAnthropic
  BY <1>6, StreamInvChunk DEF pipeOpenAIStreamToAnthropic, Reads
<1>7. CASE pipeOpenAIStream \/ pipeAnthropicStream \/ pipeAnthropicStreamToOpenAI \/ pipeResponsesStream
  <2>1. pipe # "to_anthropic" /\ pipe' = pipe /\ seen' = seen
    BY <1>7 DEF pipeOpenAIStream, pipeAnthropicStream, pipeAnthropicStreamToOpenAI, pipeResponsesStream, Reads
  <2>. QED  BY <2>1 DEF StreamInv
<1>8. CASE UNCHANGED vars
  BY <1>8 DEF vars, StreamInv, Nothing, Unfolds, Between, Finished
<1>. QED  BY <1>1, <1>2, <1>3, <1>4, <1>5, <1>6, <1>7, <1>8 DEF Next

(* What OpenAIChunkToAnthropicEvents and OpenAIStreamFinalize write, in    *)
(* whatever order text, tool deltas, identifiers and finish reason arrive  *)
(* and wherever the upstream stops, is a legal message stream: the pipe    *)
(* implements MessageStream.                                               *)
THEOREM WritesLegalStream == Spec => WritesMessageStream
<1>1. Init => StreamInv
  BY StreamInvInit
<1>2. Init => Grammar!MessageInit
  <2>. SUFFICES ASSUME Init PROVE Grammar!MessageInit
    OBVIOUS
  <2>1. seen = Unread
    BY DEF Init
  <2>2. seen.stage = "idle" /\ DOMAIN seen.blocks = {}
    BY <2>1 DEF Unread
  <2>. QED  BY <2>2 DEF Grammar!MessageInit
<1>3. StreamInv /\ [Next]_vars => StreamInv' /\ [Grammar!MessageNext]_Grammar!messageVars
  <2>. SUFFICES ASSUME StreamInv, [Next]_vars
                PROVE  StreamInv' /\ [Grammar!MessageNext]_Grammar!messageVars
    OBVIOUS
  <2>1. StreamInv' /\ (Grammar!MessageNext \/ seen' = seen)
    BY StreamInvNext
  <2>2. seen' = seen => UNCHANGED Grammar!messageVars
    BY DEF Grammar!messageVars
  <2>. QED  BY <2>1, <2>2
<1>. QED  BY <1>1, <1>2, <1>3, PTL DEF Spec, WritesMessageStream, Grammar!MessageSpec

-----------------------------------------------------------------------------
(***************************************************************************)
(* Tokens.  What is reported last.                                         *)
(***************************************************************************)
LastReportAt(i) ==
    /\ i \in DOMAIN received /\ received[i].usage # None
    /\ \A j \in DOMAIN received : j > i => received[j].usage = None
LastOf(type, i) ==
    /\ i \in DOMAIN received /\ received[i].type = type /\ received[i].usage # None
    /\ \A j \in DOMAIN received : j > i /\ received[j].type = type => received[j].usage = None

\* The greatest number of a set is the one that no other exceeds.
LEMMA MaxIs ==
  ASSUME NEW S, S \subseteq Nat, NEW k \in S, \A j \in S : j <= k
  PROVE  Max(S) = k
<1>1. \E x \in S : \A y \in S : x >= y
  OBVIOUS
<1>2. Max(S) \in S /\ \A y \in S : Max(S) >= y
  BY <1>1, Zenon DEF Max
<1>. DEFINE m == Max(S)
<1>3. m \in S /\ m >= k
  BY <1>2
<1>. HIDE DEF m
<1>4. m \in Nat /\ k \in Nat /\ m <= k
  BY <1>3
<1>5. m = k
  BY <1>3, <1>4
<1>. QED  BY <1>5 DEF m

\* An OpenAI upstream's last report is what it reported.
LEMMA ReportedByChunks ==
  ASSUME NEW S, received \in Seq(S), pipe \in {"openai", "to_anthropic"}, NEW i, LastReportAt(i)
  PROVE  Reported.prompt = Prompt /\ Reported.output = received[i].usage.completion
<1>. DEFINE I == {j \in 1 .. Len(received) : TRUE /\ received[j].usage # None}
            k == IF I # {} THEN Max(I) ELSE 0
<1>1. Reported = [prompt |-> Prompt, output |-> received[k].usage.completion]
  BY Zenon DEF Reported, LastUsage, SelectLastInSeq
<1>2. I \subseteq Nat /\ i \in I /\ \A j \in I : j <= i
  BY DEF LastReportAt
<1>3. k = i
  <2>. HIDE DEF I
  <2>. QED  BY <1>2, MaxIs
<1>. HIDE DEF k
<1>. QED  BY <1>1, <1>3

\* A Responses upstream's last item is what it reported.
LEMMA ReportedByResponses ==
  ASSUME pipe = "responses"
  PROVE  /\ Reported.prompt = received[Len(received)].input
         /\ Reported.output = received[Len(received)].output
BY DEF Reported, Last

\* An Anthropic upstream reports its prompt when the message starts ...
LEMMA ReportedPrompt ==
  ASSUME NEW S, received \in Seq(S), pipe = "to_openai"
  PROVE  /\ \A i : LastOf("message_start", i) =>
                Reported.prompt = received[i].usage.input + received[i].usage.creation + received[i].usage.read
         /\ (\A i \in DOMAIN received : received[i].type = "message_start" => received[i].usage = None)
                => Reported.prompt = 0
<1>. DEFINE I == {j \in 1 .. Len(received) : received[j].type = "message_start" /\ received[j].usage # None}
            k == IF I # {} THEN Max(I) ELSE 0
            in == received[k].usage
            some == \E j \in DOMAIN received : received[j].type = "message_start" /\ received[j].usage # None
            p == IF some THEN in.input + in.creation + in.read ELSE 0
            q == LastUsage(LAMBDA r : r.type = "message_delta").output
<1>1. Reported = [prompt |-> p, output |-> q]
  BY Zenon DEF Reported, LastUsage, SelectLastInSeq
<1>2. Reported.prompt = p
  <2>. HIDE DEF p, q
  <2>. QED  BY <1>1
<1>3. ASSUME NEW i, LastOf("message_start", i)
      PROVE  Reported.prompt = received[i].usage.input + received[i].usage.creation + received[i].usage.read
  <2>1. I \subseteq Nat /\ i \in I /\ \A j \in I : j <= i
    BY <1>3 DEF LastOf
  <2>2. k = i
    <3>. HIDE DEF I
    <3>. QED  BY <2>1, MaxIs
  <2>3. some
    BY <1>3 DEF LastOf
  <2>. HIDE DEF k, some
  <2>. QED  BY <1>2, <2>2, <2>3
<1>4. ASSUME \A i \in DOMAIN received : received[i].type = "message_start" => received[i].usage = None
      PROVE  Reported.prompt = 0
  <2>1. ~some
    BY <1>4
  <2>. HIDE DEF some, k
  <2>. QED  BY <1>2, <2>1
<1>. QED  BY <1>3, <1>4

\* ... and its output when it ends.
LEMMA ReportedOutput ==
  ASSUME NEW S, received \in Seq(S), pipe \in {"anthropic", "to_openai"}, NEW i, LastOf("message_delta", i)
  PROVE  Reported.output = received[i].usage.output
<1>. DEFINE I == {j \in 1 .. Len(received) : received[j].type = "message_delta" /\ received[j].usage # None}
            k == IF I # {} THEN Max(I) ELSE 0
            in == LastUsage(LAMBDA r : r.type = "message_start")
            some == \E j \in DOMAIN received : received[j].type = "message_start" /\ received[j].usage # None
            p == IF some THEN in.input + in.creation + in.read ELSE 0
<1>1. Reported = [prompt |-> p, output |-> received[k].usage.output]
  BY Zenon DEF Reported, LastUsage, SelectLastInSeq
<1>2. I \subseteq Nat /\ i \in I /\ \A j \in I : j <= i
  BY DEF LastOf
<1>3. k = i
  <2>. HIDE DEF I
  <2>. QED  BY <1>2, MaxIs
<1>. HIDE DEF k, p
<1>. QED  BY <1>1, <1>3

-----------------------------------------------------------------------------
(***************************************************************************)
(* What the conversions do to a report.                                    *)
(***************************************************************************)
Style(u) == <<u.creation, u.read, u.cached, u.created>>

\* A report becomes an Anthropic one and an OpenAI one again, and nothing is counted twice.
LEMMA CountedOnce ==
  ASSUME NEW d \in Reports, NEW n \in Nat, NEW u, u = Counting(d, n),
         NEW a, a = openAIUsageToAnthropic(u), NEW v, v = ToUsage(a)
  PROVE  /\ u \in Usage /\ a \in Counts
         /\ u.prompt = Prompt /\ u.completion = n /\ u.total = Prompt + n
         /\ a.output = n /\ a.input = Prompt - CacheReadTokens(u) - CacheCreationTokens(u)
         /\ a.creation = CacheCreationTokens(u) /\ a.read = CacheReadTokens(u)
         /\ v.prompt = Prompt /\ v.completion = n /\ v.total = Prompt + n
<1>1. d \in [creation : Nat, read : Nat, cached : Nat, created : Nat] /\ Prompt \in Nat
      /\ CacheReadTokens(d) + CacheCreationTokens(d) <= Prompt
  BY ReportsAssumption
<1>2. /\ u.prompt = Prompt /\ u.completion = n /\ u.total = Prompt + n /\ u.creation = d.creation
      /\ u.read = d.read /\ u.cached = d.cached /\ u.created = d.created
  BY DEF Counting
<1>3. u \in Usage
  BY <1>1 DEF Counting, Usage
<1>4. CacheReadTokens(u) = CacheReadTokens(d) /\ CacheCreationTokens(u) = CacheCreationTokens(d)
  BY <1>2 DEF CacheReadTokens, CacheCreationTokens
<1>5. CacheReadTokens(d) \in Nat /\ CacheCreationTokens(d) \in Nat
  BY <1>1 DEF CacheReadTokens, CacheCreationTokens
<1>. DEFINE x == CacheReadTokens(u)
            y == CacheCreationTokens(u)
            rest == Prompt - x - y
<1>6. x \in Nat /\ y \in Nat /\ x + y <= Prompt
  BY <1>1, <1>4, <1>5
<1>7. a = [input |-> rest, output |-> n, creation |-> y, read |-> x]
  <2>1. openAIUsageToAnthropic(u) =
            [input |-> IF u.prompt - x - y < 0 THEN 0 ELSE u.prompt - x - y, output |-> u.completion,
             creation |-> y, read |-> x]
    BY DEF openAIUsageToAnthropic
  <2>2. u.prompt - x - y = rest /\ ~(rest < 0)
    <3>. HIDE DEF x, y
    <3>. QED  BY <1>1, <1>2, <1>6
  <2>. QED  BY <1>2, <2>1, <2>2
<1>8. rest \in Nat /\ rest + y + x = Prompt
  <2>. HIDE DEF x, y
  <2>. QED  BY <1>1, <1>6
<1>9. a.input = rest /\ a.output = n /\ a.creation = y /\ a.read = x
  <2>. HIDE DEF rest, x, y
  <2>. QED  BY <1>7
<1>10. a \in Counts
  <2>. HIDE DEF rest, x, y
  <2>. QED  BY <1>6, <1>7, <1>8 DEF Counts
<1>11. /\ v.prompt = a.input + a.creation + a.read /\ v.completion = a.output
       /\ v.total = a.input + a.creation + a.read + a.output
  BY DEF ToUsage
<1>12. v.prompt = Prompt /\ v.completion = n /\ v.total = Prompt + n
  <2>. HIDE DEF rest, x, y
  <2>. QED  BY <1>8, <1>9, <1>11
<1>. QED  BY <1>2, <1>3, <1>9, <1>10, <1>12

\* Of two reports in one style the later one stands.
LEMMA MergedSame ==
  ASSUME NEW d \in Reports, NEW e \in Reports, NEW n \in Nat, NEW k \in Nat, k > 0,
         NEW u, u = Counting(d, n), NEW w, w = Counting(e, k), Style(u) = Style(w),
         NEW a, a = openAIUsageToAnthropic(u), NEW b, b = openAIUsageToAnthropic(w)
  PROVE  mergeAnthropicUsage(a, b) = b
<1>. DEFINE m == mergeAnthropicUsage(a, b)
<1>1. /\ a \in Counts
      /\ a.output = n /\ a.input = Prompt - CacheReadTokens(u) - CacheCreationTokens(u)
      /\ a.creation = CacheCreationTokens(u) /\ a.read = CacheReadTokens(u)
  <2>1. ToUsage(a) = ToUsage(a)
    OBVIOUS
  <2>. QED  BY <2>1, CountedOnce
<1>2. /\ b \in Counts
      /\ b.output = k /\ b.input = Prompt - CacheReadTokens(w) - CacheCreationTokens(w)
      /\ b.creation = CacheCreationTokens(w) /\ b.read = CacheReadTokens(w)
  <2>1. ToUsage(b) = ToUsage(b)
    OBVIOUS
  <2>. QED  BY <2>1, CountedOnce
<1>3. CacheReadTokens(u) = CacheReadTokens(w) /\ CacheCreationTokens(u) = CacheCreationTokens(w)
  BY DEF Style, CacheReadTokens, CacheCreationTokens
<1>4. a.input = b.input /\ a.creation = b.creation /\ a.read = b.read
  BY <1>1, <1>2, <1>3
<1>5. m = mergeAnthropicUsage(a, b)
  OBVIOUS
<1>. HIDE DEF m
<1>6. a # None
  BY <1>1, ReportsAssumption DEF Counts
<1>7. /\ m \in Counts
      /\ m.input = (IF b.input > 0 THEN b.input ELSE a.input)
      /\ m.output = (IF b.output > 0 THEN b.output ELSE a.output)
      /\ m.creation = (IF b.creation > 0 THEN b.creation ELSE a.creation)
      /\ m.read = (IF b.read > 0 THEN b.read ELSE a.read)
  BY <1>1, <1>2, <1>5, <1>6, MergedCounts
<1>8. m.input = b.input /\ m.output = b.output /\ m.creation = b.creation /\ m.read = b.read
  BY <1>2, <1>4, <1>7
<1>9. /\ m = [input |-> m.input, output |-> m.output, creation |-> m.creation, read |-> m.read]
      /\ b = [input |-> b.input, output |-> b.output, creation |-> b.creation, read |-> b.read]
  BY <1>2, <1>7 DEF Counts
<1>10. m = b
  BY <1>8, <1>9
<1>. QED  BY <1>10 DEF m

(* The reports of an OpenAI upstream, and what has been collected of them. *)
ReportedAt(i) == i \in DOMAIN received /\ received[i].usage # None
ChunksInv ==
    /\ received \in Seq(ChunkItem)
    /\ \A i : ReportedAt(i) => \E d \in Reports : received[i].usage = Counting(d, i)
    /\ \A i, j : ReportedAt(i) /\ ReportedAt(j) => Style(received[i].usage) = Style(received[j].usage)
Collected ==
    \/ result.usage = None /\ \A i : ~ReportedAt(i)
    \/ \E i : LastReportAt(i) /\ result.usage = received[i].usage
Carried ==
    /\ result.usage = None => conv.usage = None
    /\ result.usage # None => conv.usage = openAIUsageToAnthropic(result.usage)
Settled ==
    result.usage # None =>
        \E i : /\ LastReportAt(i)
               /\ result.usage.prompt = Prompt
               /\ result.usage.completion = received[i].usage.completion
               /\ result.usage.total = Prompt + received[i].usage.completion
ChunkTokens ==
    /\ ChunksInv
    /\ phase # "done" => Collected
    /\ phase = "done" => Settled
    /\ pipe = "to_anthropic" /\ phase = "streaming" => Carried

\* A chunk is collected.
LEMMA CollectsChunk ==
  ASSUME ChunksInv, Collected, NEW c \in SentChunks, received' = Append(received, c),
         result' = CollectChunk(c)
  PROVE  /\ c \in ChunkItem /\ ChunksInv' /\ Collected'
         /\ result'.usage = IF c.usage # None THEN c.usage ELSE result.usage
         /\ c.usage # None /\ result.usage # None =>
               \E d, e \in Reports, n, k \in Nat :
                  /\ k > 0 /\ result.usage = Counting(d, n) /\ c.usage = Counting(e, k)
                  /\ Style(result.usage) = Style(c.usage)
<1>0. PICK l : l = Len(received)
  OBVIOUS
<1>1. received \in Seq(ChunkItem) /\ l \in Nat /\ DOMAIN received = 1 .. l
  BY <1>0 DEF ChunksInv
<1>2. PICK shape \in Shapes : c = Chunk(shape, Atom) /\ SendsChunk(c)
  BY Zenon DEF SentChunks
<1>3. Atom = l + 1 /\ Atom \in Nat
  BY <1>0, <1>1 DEF Atom
<1>4. c \in ChunkItem /\ (c.usage # None => \E d \in Reports : c.usage = Counting(d, Atom))
  BY <1>2, <1>3, ChunkIs
<1>5. c.usage # None => \A i : ReportedAt(i) => Style(received[i].usage) = Style(c.usage)
  BY <1>2, Zenon DEF SendsChunk, Style, ReportedAt
<1>6. /\ received' \in Seq(ChunkItem) /\ DOMAIN received' = 1 .. l + 1
      /\ received'[l + 1] = c /\ \A i \in 1 .. l : received'[i] = received[i]
  BY <1>0, <1>1, <1>4, AppendProperties
<1>7. result'.usage = IF c.usage # None THEN c.usage ELSE result.usage
  BY DEF CollectChunk
<1>8. \A i : /\ i # l + 1 => (ReportedAt(i)' <=> ReportedAt(i)) /\ (ReportedAt(i) => received'[i] = received[i])
             /\ ReportedAt(l + 1)' <=> c.usage # None
             /\ ~ReportedAt(l + 1)
  <2>. SUFFICES ASSUME NEW i
                PROVE  /\ i # l + 1 => (ReportedAt(i)' <=> ReportedAt(i)) /\ (ReportedAt(i) => received'[i] = received[i])
                       /\ ReportedAt(l + 1)' <=> c.usage # None
                       /\ ~ReportedAt(l + 1)
    OBVIOUS
  <2>1. i # l + 1 => (i \in 1 .. l + 1 <=> i \in 1 .. l)
    BY <1>1
  <2>2. l + 1 \in 1 .. l + 1 /\ l + 1 \notin 1 .. l
    BY <1>1
  <2>. QED  BY <1>1, <1>6, <2>1, <2>2 DEF ReportedAt
<1>9. ChunksInv'
  <2>1. \A i : ReportedAt(i)' => \E d \in Reports : received'[i].usage = Counting(d, i)
    <3>. SUFFICES ASSUME NEW i, ReportedAt(i)' PROVE \E d \in Reports : received'[i].usage = Counting(d, i)
      OBVIOUS
    <3>1. CASE i = l + 1
      BY <1>3, <1>4, <1>6, <1>8, <3>1
    <3>2. CASE i # l + 1
      BY <1>8, <3>2 DEF ChunksInv
    <3>. QED  BY <3>1, <3>2
  <2>2. ASSUME NEW i, NEW j, ReportedAt(i)', ReportedAt(j)'
        PROVE  Style(received'[i].usage) = Style(received'[j].usage)
    <3>1. CASE i # l + 1 /\ j # l + 1
      BY <1>8, <2>2, <3>1 DEF ChunksInv
    <3>2. CASE i # l + 1 /\ j = l + 1
      BY <1>5, <1>6, <1>8, <2>2, <3>2
    <3>3. CASE i = l + 1 /\ j # l + 1
      BY <1>5, <1>6, <1>8, <2>2, <3>3
    <3>4. CASE i = l + 1 /\ j = l + 1
      BY <3>4
    <3>. QED  BY <3>1, <3>2, <3>3, <3>4
  <2>. QED  BY <1>6, <2>1, <2>2 DEF ChunksInv
<1>10. Collected'
  <2>1. CASE c.usage # None
    <3>1. LastReportAt(l + 1)'
      <4>1. l + 1 \in DOMAIN received' /\ \A j \in DOMAIN received' : ~(j > l + 1)
        BY <1>1, <1>6
      <4>. QED  BY <1>6, <2>1, <4>1 DEF LastReportAt
    <3>2. result'.usage = received'[l + 1].usage
      BY <1>6, <1>7, <2>1
    <3>. QED  BY <3>1, <3>2 DEF Collected
  <2>2. CASE c.usage = None
    <3>1. CASE result.usage = None /\ \A i : ~ReportedAt(i)
      BY <1>7, <1>8, <2>2, <3>1 DEF Collected
    <3>2. CASE \E i : LastReportAt(i) /\ result.usage = received[i].usage
      <4>1. PICK i : LastReportAt(i) /\ result.usage = received[i].usage
        BY <3>2
      <4>2. i \in 1 .. l /\ received'[i] = received[i] /\ i \in DOMAIN received'
        BY <1>1, <1>6, <4>1 DEF LastReportAt
      <4>3. \A j \in DOMAIN received' : j > i => received'[j].usage = None
        <5>. SUFFICES ASSUME NEW j \in DOMAIN received', j > i PROVE received'[j].usage = None
          OBVIOUS
        <5>1. j = l + 1 \/ j \in 1 .. l
          BY <1>1, <1>6
        <5>. QED  BY <1>1, <1>6, <2>2, <4>1, <5>1 DEF LastReportAt
      <4>4. LastReportAt(i)'
        BY <4>1, <4>2, <4>3 DEF LastReportAt
      <4>. QED  BY <1>7, <2>2, <4>1, <4>2, <4>4 DEF Collected
    <3>. QED  BY <3>1, <3>2 DEF Collected
  <2>. QED  BY <2>1, <2>2
<1>11. ASSUME c.usage # None, result.usage # None
       PROVE  \E d, e \in Reports, n, k \in Nat :
                  /\ k > 0 /\ result.usage = Counting(d, n) /\ c.usage = Counting(e, k)
                  /\ Style(result.usage) = Style(c.usage)
  <2>1. PICK i : LastReportAt(i) /\ result.usage = received[i].usage
    BY <1>11 DEF Collected
  <2>2. ReportedAt(i) /\ i \in Nat
    BY <1>1, <2>1 DEF ReportedAt, LastReportAt
  <2>3. PICK d \in Reports : received[i].usage = Counting(d, i)
    BY <2>2 DEF ChunksInv
  <2>4. PICK e \in Reports : c.usage = Counting(e, Atom)
    BY <1>4, <1>11
  <2>5. Style(result.usage) = Style(c.usage)
    BY <1>5, <1>11, <2>1, <2>2
  <2>6. Atom > 0
    BY <1>1, <1>3
  <2>. QED  BY <1>3, <2>1, <2>2, <2>3, <2>4, <2>5, <2>6
<1>. QED  BY <1>4, <1>7, <1>9, <1>10, <1>11

\* Pipe openai writes the chunk as it is.
LEMMA TokensOpenAI ==
  ASSUME ChunkTokens, pipeOpenAIStream
  PROVE  ChunkTokens'
<1>1. PICK c \in SentChunks : Reads(c) /\ result' = CollectChunk(c)
  BY DEF pipeOpenAIStream
<1>2. /\ pipe = "openai" /\ pipe' = pipe /\ phase = "streaming" /\ phase' = phase
      /\ received' = Append(received, c)
  BY <1>1 DEF pipeOpenAIStream, Reads
<1>3. ChunksInv /\ Collected
  BY <1>2 DEF ChunkTokens
<1>4. ChunksInv' /\ Collected'
  BY <1>1, <1>2, <1>3, CollectsChunk
<1>. QED  BY <1>2, <1>4 DEF ChunkTokens

\* Pipe to_anthropic carries the report in the state of the conversion.
LEMMA TokensToAnthropic ==
  ASSUME StreamInv, ChunkTokens, pipeOpenAIStreamToAnthropic
  PROVE  ChunkTokens'
<1>. DEFINE o(c) == OpenAIChunkToAnthropicEvents(c, conv)
<1>1. PICK c \in SentChunks :
         Reads(c) /\ conv' = [OpenAIChunkToAnthropicEvents(c, conv) EXCEPT !.out = <<>>] /\ result' = CollectChunk(c)
  BY Zenon DEF pipeOpenAIStreamToAnthropic
<1>2. /\ pipe = "to_anthropic" /\ pipe' = pipe /\ phase = "streaming" /\ phase' = phase
      /\ received' = Append(received, c)
  BY <1>1 DEF pipeOpenAIStreamToAnthropic, Reads
<1>3. ChunksInv /\ Collected /\ Carried
  BY <1>2 DEF ChunkTokens
<1>4. /\ c \in ChunkItem /\ ChunksInv' /\ Collected'
      /\ result'.usage = IF c.usage # None THEN c.usage ELSE result.usage
      /\ c.usage # None /\ result.usage # None =>
            \E d, e \in Reports, n, k \in Nat :
               /\ k > 0 /\ result.usage = Counting(d, n) /\ c.usage = Counting(e, k)
               /\ Style(result.usage) = Style(c.usage)
  BY <1>1, <1>2, <1>3, CollectsChunk
<1>. DEFINE p == OpenAIChunkToAnthropicEvents(c, conv)
<1>5. /\ p \in Conv
      /\ c.usage = None => p.usage = conv.usage
      /\ c.usage # None => p.usage = mergeAnthropicUsage(conv.usage, openAIUsageToAnthropic(c.usage))
  <2>1. PICK m \in Message : Between(m)
    BY <1>2 DEF StreamInv, Unfolds
  <2>2. PICK shape \in Shapes : c = Chunk(shape, Atom) /\ SendsChunk(c)
    BY Zenon DEF SentChunks
  <2>3. Atom \in Nat
    BY <1>3 DEF Atom, ChunksInv
  <2>4. ~c.choice => Silent(c)
    BY <2>2, <2>3, ChunkIs
  <2>5. c.choice = ~Finished
    BY <2>2, Zenon DEF SendsChunk, Finished
  <2>6. /\ conv \in Conv /\ Before(m, conv) /\ Known(conv)
        /\ c.choice => Opened(conv) /\ conv.stop = None
    BY <2>1, <2>5 DEF Between
  <2>7. p = OpenAIChunkToAnthropicEvents(c, conv)
    OBVIOUS
  <2>. HIDE DEF p
  <2>8. /\ \E n : Run(m, p, n)
        /\ c.usage = None => p.usage = conv.usage
        /\ c.usage # None => p.usage = mergeAnthropicUsage(conv.usage, openAIUsageToAnthropic(c.usage))
    BY <1>4, <2>4, <2>6, <2>7, RunChunk
  <2>. QED  BY <2>8 DEF Run, Fits
<1>. HIDE DEF p
<1>6. conv'.usage = p.usage
  <2>1. conv' = [p EXCEPT !.out = <<>>]
    BY <1>1 DEF p
  <2>. QED  BY <1>5, <2>1 DEF Conv
<1>7. Carried'
  <2>1. CASE c.usage = None
    BY <1>3, <1>4, <1>5, <1>6, <2>1 DEF Carried
  <2>2. CASE c.usage # None /\ result.usage = None
    BY <1>3, <1>4, <1>5, <1>6, <2>2 DEF Carried, mergeAnthropicUsage
  <2>3. CASE c.usage # None /\ result.usage # None
    <3>1. PICK d \in Reports, e \in Reports, n \in Nat, k \in Nat :
             /\ k > 0 /\ result.usage = Counting(d, n) /\ c.usage = Counting(e, k)
             /\ Style(result.usage) = Style(c.usage)
      BY <1>4, <2>3
    <3>2. mergeAnthropicUsage(openAIUsageToAnthropic(result.usage), openAIUsageToAnthropic(c.usage))
             = openAIUsageToAnthropic(c.usage)
      BY <3>1, MergedSame
    <3>. QED  BY <1>3, <1>4, <1>5, <1>6, <2>3, <3>2 DEF Carried
  <2>. QED  BY <2>1, <2>2, <2>3
<1>. QED  BY <1>2, <1>4, <1>7 DEF ChunkTokens

\* At the end the report that was collected, or carried, is settled.
LEMMA TokensEnd ==
  ASSUME StreamInv, ChunkTokens, EndOfStream, pipe \in {"openai", "to_anthropic"}
  PROVE  ChunkTokens'
<1>1. /\ pipe' = pipe /\ phase = "streaming" /\ phase' = "done" /\ received' = received
      /\ pipe = "openai" => result' = result
      /\ pipe = "to_anthropic" =>
            result' = [result EXCEPT !.usage = IF conv.usage = None THEN @ ELSE ToUsage(conv.usage)]
  BY DEF EndOfStream
<1>2. ChunksInv /\ Collected /\ (pipe = "to_anthropic" => Carried)
  BY <1>1 DEF ChunkTokens
<1>3. ChunksInv'
  BY <1>1, <1>2 DEF ChunksInv, ReportedAt
<1>4. Settled'
  <2>1. CASE result.usage = None
    <3>1. result'.usage = None
      <4>1. CASE pipe = "openai"
        BY <1>1, <2>1, <4>1
      <4>2. CASE pipe = "to_anthropic"
        <5>1. result' = [result EXCEPT !.usage = result.usage]
          BY <1>1, <1>2, <2>1, <4>2 DEF Carried
        <5>. QED  BY <2>1, <5>1
      <4>. QED  BY <4>1, <4>2
    <3>. QED  BY <3>1 DEF Settled
  <2>2. CASE result.usage # None
    <3>1. PICK i : LastReportAt(i) /\ result.usage = received[i].usage
      BY <1>2, <2>2 DEF Collected
    <3>2. i \in Nat /\ ReportedAt(i) /\ LastReportAt(i)'
      BY <1>1, <1>2, <3>1 DEF LastReportAt, ReportedAt, ChunksInv
    <3>3. PICK d \in Reports : received[i].usage = Counting(d, i)
      BY <1>2, <3>2 DEF ChunksInv
    <3>. DEFINE u == received[i].usage
                a == openAIUsageToAnthropic(u)
                v == ToUsage(a)
    <3>4. u = Counting(d, i) /\ a = openAIUsageToAnthropic(u) /\ v = ToUsage(a) /\ result.usage = u
      BY <3>1, <3>3
    <3>5. received'[i].usage = u
      BY <1>1
    <3>. HIDE DEF u, a, v
    <3>6. /\ a \in Counts /\ u.prompt = Prompt /\ u.completion = i /\ u.total = Prompt + i
          /\ v.prompt = Prompt /\ v.completion = i /\ v.total = Prompt + i
      BY <3>2, <3>4, CountedOnce
    <3>7. result'.usage \in {u, v}
      <4>1. CASE pipe = "openai"
        BY <1>1, <3>4, <4>1
      <4>2. CASE pipe = "to_anthropic"
        <5>1. conv.usage = a /\ a # None
          BY <1>2, <2>2, <3>4, <3>6, <4>2, ReportsAssumption DEF Carried, Counts
        <5>2. result' = [result EXCEPT !.usage = v]
          BY <1>1, <3>4, <4>2, <5>1
        <5>. QED  BY <5>2
      <4>. QED  BY <4>1, <4>2
    <3>8. /\ result'.usage.prompt = Prompt /\ result'.usage.completion = received'[i].usage.completion
          /\ result'.usage.total = Prompt + received'[i].usage.completion
      BY <3>5, <3>6, <3>7
    <3>. QED  BY <3>2, <3>8 DEF Settled
  <2>. QED  BY <2>1, <2>2
<1>. QED  BY <1>1, <1>3, <1>4 DEF ChunkTokens

\* What was settled is what was reported.
LEMMA ChunksReported ==
  ASSUME ChunkTokens, Complete, pipe \in {"openai", "to_anthropic"}
  PROVE  TokensAreKept
<1>1. received \in Seq(ChunkItem) /\ Settled /\ result.usage # None
  BY DEF ChunkTokens, ChunksInv, Complete
<1>2. PICK i : /\ LastReportAt(i)
               /\ result.usage.prompt = Prompt
               /\ result.usage.completion = received[i].usage.completion
               /\ result.usage.total = Prompt + received[i].usage.completion
  BY <1>1 DEF Settled
<1>3. Reported.prompt = Prompt /\ Reported.output = received[i].usage.completion
  BY <1>1, <1>2, ReportedByChunks
<1>. QED  BY <1>2, <1>3 DEF TokensAreKept

-----------------------------------------------------------------------------
(***************************************************************************)
(* What an Anthropic upstream sends: the message starts once, and first.   *)
(***************************************************************************)
Sane(m) == /\ DOMAIN m = {"stage", "blocks", "stop"}
           /\ m.stage \in {"idle", "content", "ended", "stopped"}
EventsInv ==
    /\ \E S : received \in Seq(S)
    /\ Sane(Assemble(received))
    /\ Assemble(received).stage = "idle" => received = <<>>

\* What is assembled of one event more.
LEMMA AssembleAppend ==
  ASSUME NEW S, NEW events \in Seq(S), NEW e
  PROVE  Assemble(Append(events, e)) = Read(Assemble(events), e)
<1>. DEFINE l == Len(events)
            t == Append(events, e)
<1>1. l \in Nat /\ Len(t) = l + 1 /\ t[l + 1] = e /\ \A i \in 1 .. l : t[i] = events[i]
  OBVIOUS
<1>2. PICK f : Assembles(f, events) /\ Assemble(events) = f[l]
  BY <1>1, AssembleFold
<1>. HIDE DEF t
<1>3. PICK g : Assembles(g, t) /\ Assemble(t) = g[Len(t)]
  BY <1>1, AssembleFold
<1>. HIDE DEF l
<1>4. f[0] = Unread /\ \A i \in 1 .. l : f[i] = Read(f[i - 1], events[i])
  BY <1>2 DEF Assembles, l
<1>5. g[0] = Unread /\ \A i \in 1 .. l + 1 : g[i] = Read(g[i - 1], t[i])
  BY <1>1, <1>3 DEF Assembles
<1>. DEFINE G == {k \in 0 .. l : g[k] = f[k]}
<1>6. 0 \in G
  BY <1>1, <1>4, <1>5
<1>7. \A k \in 0 .. l - 1 : k \in G => k + 1 \in G
  <2>. SUFFICES ASSUME NEW k \in 0 .. l - 1, g[k] = f[k] PROVE k + 1 \in G
    OBVIOUS
  <2>1. k + 1 \in 1 .. l /\ k + 1 \in 1 .. l + 1 /\ (k + 1) - 1 = k /\ k + 1 \in 0 .. l
    BY <1>1
  <2>2. g[k + 1] = Read(g[k], t[k + 1]) /\ f[k + 1] = Read(f[k], events[k + 1])
    BY <1>4, <1>5, <2>1
  <2>. QED  BY <1>1, <2>1, <2>2
<1>8. \A k \in 0 .. l : k \in G
  <2>1. l \in Nat
    BY <1>1
  <2>. HIDE DEF G
  <2>. QED  BY <1>6, <1>7, <2>1, UpTo, Zenon
<1>9. g[l] = f[l]
  BY <1>1, <1>8
<1>10. g[l + 1] = Read(g[l], e)
  <2>1. l + 1 \in 1 .. l + 1 /\ (l + 1) - 1 = l
    BY <1>1
  <2>. QED  BY <1>1, <1>5, <2>1
<1>. QED  BY <1>1, <1>2, <1>3, <1>9, <1>10 DEF t

\* What an event does to the stage.
LEMMA ReadStage ==
  ASSUME NEW m, Sane(m), NEW e
  PROVE  /\ e.type = "message_start" => Sane(Read(m, e)) /\ Read(m, e).stage = "content"
         /\ e.type = "message_delta" => Sane(Read(m, e)) /\ Read(m, e).stage = "ended"
         /\ e.type = "message_stop" => Sane(Read(m, e)) /\ Read(m, e).stage = "stopped"
         /\ e.type = "block_start" => Sane(Read(m, e)) /\ Read(m, e).stage = m.stage
         /\ e.type \in {"block_delta", "block_stop"} /\ e.index \in DOMAIN m.blocks =>
               Sane(Read(m, e)) /\ Read(m, e).stage = m.stage
<1>. DEFINE r == Read(m, e)
<1>1. ASSUME e.type = "message_start" PROVE Sane(r) /\ r.stage = "content"
  <2>1. r = [m EXCEPT !.stage = "content"]
    BY <1>1 DEF Read
  <2>. QED  BY <2>1 DEF Sane
<1>2. ASSUME e.type = "message_delta" PROVE Sane(r) /\ r.stage = "ended"
  <2>1. r = [m EXCEPT !.stage = "ended", !.stop = e.stop]
    BY <1>2 DEF Read
  <2>. QED  BY <2>1 DEF Sane
<1>3. ASSUME e.type = "message_stop" PROVE Sane(r) /\ r.stage = "stopped"
  <2>1. r = [m EXCEPT !.stage = "stopped"]
    BY <1>3 DEF Read
  <2>. QED  BY <2>1 DEF Sane
<1>4. ASSUME e.type = "block_start" PROVE Sane(r) /\ r.stage = m.stage
  <2>. DEFINE b == [i \in DOMAIN m.blocks \cup {e.index} |->
                       IF i = e.index THEN [kind |-> e.kind, val |-> e.val, content |-> <<>>, open |-> TRUE]
                       ELSE m.blocks[i]]
  <2>1. r = [m EXCEPT !.blocks = b]
    BY <1>4 DEF Read
  <2>. HIDE DEF b, r
  <2>. QED  BY <2>1 DEF Sane
<1>5. ASSUME e.type = "block_delta", e.index \in DOMAIN m.blocks PROVE Sane(r) /\ r.stage = m.stage
  <2>. DEFINE b == [m.blocks EXCEPT ![e.index].content = @ \o e.val]
  <2>1. r = [m EXCEPT !.blocks = b]
    BY <1>5 DEF Read
  <2>. HIDE DEF b, r
  <2>. QED  BY <2>1 DEF Sane
<1>6. ASSUME e.type = "block_stop", e.index \in DOMAIN m.blocks PROVE Sane(r) /\ r.stage = m.stage
  <2>. DEFINE b == [m.blocks EXCEPT ![e.index].open = FALSE]
  <2>1. r = [m EXCEPT !.blocks = b]
    BY <1>6 DEF Read
  <2>. HIDE DEF b, r
  <2>. QED  BY <2>1 DEF Sane
<1>. QED  BY <1>1, <1>2, <1>3, <1>4, <1>5, <1>6

\* An event that is sent: a start only at the start, and a report of the output only at the end.
LEMMA SentIs ==
  ASSUME EventsInv, NEW e \in SentEvents
  PROVE  /\ Sane(Read(Assemble(received), e)) /\ Read(Assemble(received), e).stage # "idle"
         /\ \/ e.type = "message_start" /\ received = <<>> /\ e.usage \in Counts \cup {None}
            \/ e.type = "message_delta" /\ e.usage = OutputReport(Atom)
            \/ e.type \notin {"message_start", "message_delta"}
<1>. DEFINE said == Assemble(received)
            next == Cardinality(DOMAIN said.blocks)
            open == {i \in DOMAIN said.blocks : said.blocks[i].open}
            call == [id |-> next, name |-> next]
            room == Atom <= MaxEvents
            starts == {MessageStart(IF u = None THEN None
                             ELSE [input |-> u.input, output |-> 1, creation |-> u.creation, read |-> u.read])
                       : u \in InputReports}
            within == UNION {{BlockStop(i)} \cup {Delta(i, said.blocks[i].kind, <<a>>) : a \in {Atom} \cap 1 .. MaxEvents}
                             : i \in open}
            ends == {MessageDelta(stop, OutputReport(Atom)) : stop \in {"end_turn", "tool_use"}}
            blocks == {BlockStart(next, kind, IF kind = "tool_use" THEN call ELSE None) :
                          kind \in IF room /\ next < MaxBlocks THEN {"text", "tool_use", "thinking"} ELSE {}}
<1>1. /\ said.stage = "idle" => e \in starts
      /\ said.stage = "content" /\ open # {} => e \in within
      /\ said.stage = "content" /\ open = {} => e \in ends \cup blocks
      /\ said.stage = "ended" => e \in {MessageStop}
      /\ said.stage # "stopped"
  <2>1. /\ said.stage = "idle" => SentEvents = starts
        /\ said.stage = "content" /\ open # {} => SentEvents = within
        /\ said.stage = "content" /\ open = {} => SentEvents = ends \cup blocks
        /\ said.stage = "ended" => SentEvents = {MessageStop}
        /\ said.stage = "stopped" => SentEvents = {}
    <3>. DEFINE st == said.stage
    <3>1. SentEvents = CASE st = "idle" -> starts
                         [] st = "content" /\ open # {} -> within
                         [] st = "content" /\ open = {} -> ends \cup blocks
                         [] st = "ended" -> {MessageStop}
                         [] st = "stopped" -> {}
      BY Zenon DEF SentEvents
    <3>. HIDE DEF starts, within, ends, blocks, open, st
    <3>2. st = said.stage
      BY DEF st
    <3>. QED  BY <3>1, <3>2
  <2>. HIDE DEF starts, within, ends, blocks, open
  <2>. QED  BY <2>1
<1>2. Sane(said) /\ (said.stage = "idle" => received = <<>>)
  BY DEF EventsInv
<1>3. ASSUME e \in starts
      PROVE  e.type = "message_start" /\ e.usage \in Counts \cup {None}
  <2>1. PICK u \in InputReports :
           e = MessageStart(IF u = None THEN None
                            ELSE [input |-> u.input, output |-> 1, creation |-> u.creation, read |-> u.read])
    BY <1>3
  <2>2. u \in [input : Nat, creation : Nat, read : Nat] \cup {None}
    BY ReportsAssumption
  <2>. QED  BY <2>1, <2>2 DEF MessageStart, Counts
<1>4. ASSUME e \in within
      PROVE  e.type \in {"block_delta", "block_stop"} /\ e.index \in DOMAIN said.blocks
  <2>1. PICK i \in open : e = BlockStop(i) \/ \E a \in {Atom} : e = Delta(i, said.blocks[i].kind, <<a>>)
    <3>. HIDE DEF open
    <3>. QED  BY <1>4
  <2>2. i \in DOMAIN said.blocks
    BY <2>1
  <2>. HIDE DEF said
  <2>. QED  BY <2>1, <2>2 DEF BlockStop, Delta
<1>5. ASSUME e \in ends
      PROVE  e.type = "message_delta" /\ e.usage = OutputReport(Atom)
  BY <1>5 DEF MessageDelta
<1>6. ASSUME e \in blocks PROVE e.type = "block_start"
  <2>1. PICK kind : e = BlockStart(next, kind, IF kind = "tool_use" THEN call ELSE None)
    <3>. HIDE DEF next, call, room
    <3>. QED  BY <1>6
  <2>. HIDE DEF next, call
  <2>. QED  BY <2>1 DEF BlockStart
<1>7. MessageStop.type = "message_stop"
  BY DEF MessageStop
<1>. HIDE DEF starts, within, ends, blocks, open, said
<1>8. said.stage \in {"idle", "content", "ended", "stopped"}
  BY <1>2 DEF Sane
<1>9. CASE said.stage = "idle"
  <2>1. e.type = "message_start" /\ e.usage \in Counts \cup {None} /\ received = <<>>
    BY <1>1, <1>2, <1>3, <1>9
  <2>2. Sane(Read(said, e)) /\ Read(said, e).stage = "content"
    BY <1>2, <2>1, ReadStage
  <2>. QED  BY <2>1, <2>2 DEF said
<1>10. CASE said.stage = "content" /\ e \in within
  <2>1. e.type \in {"block_delta", "block_stop"} /\ e.index \in DOMAIN said.blocks
    BY <1>4, <1>10
  <2>2. Sane(Read(said, e)) /\ Read(said, e).stage = said.stage
    BY <1>2, <2>1, ReadStage
  <2>. QED  BY <1>10, <2>1, <2>2 DEF said
<1>11. CASE said.stage = "content" /\ e \in ends
  <2>1. e.type = "message_delta" /\ e.usage = OutputReport(Atom)
    BY <1>5, <1>11
  <2>2. Sane(Read(said, e)) /\ Read(said, e).stage = "ended"
    BY <1>2, <2>1, ReadStage
  <2>. QED  BY <2>1, <2>2 DEF said
<1>12. CASE said.stage = "content" /\ e \in blocks
  <2>1. e.type = "block_start"
    BY <1>6, <1>12
  <2>2. Sane(Read(said, e)) /\ Read(said, e).stage = said.stage
    BY <1>2, <2>1, ReadStage
  <2>. QED  BY <1>12, <2>1, <2>2 DEF said
<1>13. CASE said.stage = "ended"
  <2>1. e.type = "message_stop"
    BY <1>1, <1>7, <1>13
  <2>2. Sane(Read(said, e)) /\ Read(said, e).stage = "stopped"
    BY <1>2, <2>1, ReadStage
  <2>. QED  BY <2>1, <2>2 DEF said
<1>. QED  BY <1>1, <1>8, <1>9, <1>10, <1>11, <1>12, <1>13

\* The invariant of what is received.
LEMMA EventsStep ==
  ASSUME EventsInv, NEW e \in SentEvents, received' = Append(received, e)
  PROVE  EventsInv'
<1>1. PICK S : received \in Seq(S)
  BY DEF EventsInv
<1>2. received \in Seq(S \cup {e})
  BY <1>1
<1>3. received' \in Seq(S \cup {e}) /\ received' # <<>>
  <2>. DEFINE T == S \cup {e}
  <2>1. received \in Seq(T) /\ e \in T
    BY <1>2
  <2>. HIDE DEF T
  <2>2. Append(received, e) \in Seq(T) /\ Append(received, e) # <<>>
    BY <2>1, AppendProperties
  <2>. QED  BY <2>2 DEF T
<1>4. Assemble(received') = Read(Assemble(received), e)
  BY <1>1, AssembleAppend
<1>5. Sane(Read(Assemble(received), e)) /\ Read(Assemble(received), e).stage # "idle"
  BY SentIs
<1>6. Sane(Assemble(received')) /\ Assemble(received').stage # "idle"
  BY <1>4, <1>5
<1>7. \E T : received' \in Seq(T)
  BY <1>3
<1>. QED  BY <1>6, <1>7 DEF EventsInv

-----------------------------------------------------------------------------
(***************************************************************************)
(* The tokens of an Anthropic upstream, and of a Responses upstream.       *)
(***************************************************************************)
IsResult(r) == DOMAIN r = {"content", "finish", "usage"}

EndIs(e, v, r) ==
    /\ IsResult(r)
    /\ e.type = "message_start" =>
          /\ r.finish = result.finish
          /\ r.usage = result.usage
    /\ e.type = "message_delta" => r.usage = IF e.usage = None THEN result.usage ELSE v
    /\ e.type \notin {"message_start", "message_delta"} =>
          r.finish = result.finish /\ r.usage = result.usage

\* What an event changes of the result, when message_start is not read ...
LEMMA CollectEventAtEnd ==
  ASSUME IsResult(result), NEW e, NEW v, NEW r, r = CollectEvent(e, FALSE, v)
  PROVE  EndIs(e, v, r)
<1>1. CASE e.type = "message_start"
  <2>. DEFINE u == result.usage
  <2>1. r = [result EXCEPT !.usage = u]
    BY <1>1 DEF CollectEvent
  <2>. HIDE DEF u
  <2>2. IsResult(r) /\ r.finish = result.finish /\ r.usage = u
    BY <2>1 DEF IsResult
  <2>. QED  BY <1>1, <2>2 DEF u, EndIs
<1>2. CASE e.type = "message_delta"
  <2>. DEFINE u == IF e.usage = None THEN result.usage ELSE v
              f == IF e.stop = None THEN result.finish ELSE e.stop
  <2>1. r = [result EXCEPT !.finish = f, !.usage = u]
    BY <1>2 DEF CollectEvent
  <2>. HIDE DEF u, f
  <2>2. IsResult(r) /\ r.usage = u
    BY <2>1 DEF IsResult
  <2>. QED  BY <1>2, <2>2 DEF u, EndIs
<1>3. CASE e.type = "block_delta"
  <2>. DEFINE t == result.content \o e.val
  <2>1. r = [result EXCEPT !.content = t] \/ r = result
    BY <1>3 DEF CollectEvent
  <2>. HIDE DEF t
  <2>2. IsResult(r) /\ r.finish = result.finish /\ r.usage = result.usage
    BY <2>1 DEF IsResult
  <2>. QED  BY <1>3, <2>2 DEF EndIs
<1>4. CASE e.type \notin {"message_start", "message_delta", "block_delta"}
  BY <1>4 DEF CollectEvent, IsResult, EndIs
<1>. QED  BY <1>1, <1>2, <1>3, <1>4

StartOrEndIs(e, v, r) ==
    /\ IsResult(r)
    /\ e.type = "message_start" =>
          /\ r.finish = result.finish
          /\ r.usage = IF e.usage # None THEN ToUsage(e.usage) ELSE result.usage
    /\ e.type = "message_delta" => r.usage = IF e.usage = None THEN result.usage ELSE v
    /\ e.type \notin {"message_start", "message_delta"} =>
          r.finish = result.finish /\ r.usage = result.usage

\* ... and when it is.
LEMMA CollectEventAtStart ==
  ASSUME IsResult(result), NEW e, NEW v, NEW r, r = CollectEvent(e, TRUE, v)
  PROVE  StartOrEndIs(e, v, r)
<1>1. CASE e.type = "message_start"
  <2>. DEFINE u == IF e.usage # None THEN ToUsage(e.usage) ELSE result.usage
  <2>1. r = [result EXCEPT !.usage = u]
    BY <1>1 DEF CollectEvent
  <2>. HIDE DEF u
  <2>2. IsResult(r) /\ r.finish = result.finish /\ r.usage = u
    BY <2>1 DEF IsResult
  <2>. QED  BY <1>1, <2>2 DEF u, StartOrEndIs
<1>2. CASE e.type = "message_delta"
  <2>. DEFINE u == IF e.usage = None THEN result.usage ELSE v
              f == IF e.stop = None THEN result.finish ELSE e.stop
  <2>1. r = [result EXCEPT !.finish = f, !.usage = u]
    BY <1>2 DEF CollectEvent
  <2>. HIDE DEF u, f
  <2>2. IsResult(r) /\ r.usage = u
    BY <2>1 DEF IsResult
  <2>. QED  BY <1>2, <2>2 DEF u, StartOrEndIs
<1>3. CASE e.type = "block_delta"
  <2>. DEFINE t == result.content \o e.val
  <2>1. r = [result EXCEPT !.content = t] \/ r = result
    BY <1>3 DEF CollectEvent
  <2>. HIDE DEF t
  <2>2. IsResult(r) /\ r.finish = result.finish /\ r.usage = result.usage
    BY <2>1 DEF IsResult
  <2>. QED  BY <1>3, <2>2 DEF StartOrEndIs
<1>4. CASE e.type \notin {"message_start", "message_delta", "block_delta"}
  BY <1>4 DEF CollectEvent, IsResult, StartOrEndIs
<1>. QED  BY <1>1, <1>2, <1>3, <1>4

\* The last report of a type is the one that arrives, if it is of that type.
LEMMA LastMoves ==
  ASSUME NEW S, received \in Seq(S), NEW e, received' = Append(received, e), NEW type,
         NEW l, l = Len(received)
  PROVE  /\ l \in Nat /\ received'[l + 1] = e /\ DOMAIN received' = 1 .. l + 1
         /\ \A i \in 1 .. l : received'[i] = received[i]
         /\ e.type = type /\ e.usage # None =>
               LastOf(type, l + 1)' /\ \A i : LastOf(type, i)' => received'[i] = e
         /\ e.type # type => \A i : LastOf(type, i)' <=> LastOf(type, i)
<1>. DEFINE T == S \cup {e}
<1>0. received \in Seq(T) /\ e \in T
  OBVIOUS
<1>. HIDE DEF T
<1>1. /\ l \in Nat /\ DOMAIN received = 1 .. l /\ DOMAIN received' = 1 .. l + 1
      /\ received'[l + 1] = e /\ \A i \in 1 .. l : received'[i] = received[i]
  BY <1>0, AppendProperties
<1>2. l + 1 \in 1 .. l + 1 /\ \A i \in 1 .. l : i \in 1 .. l + 1 /\ l + 1 > i
  BY <1>1
<1>3. \A i \in 1 .. l + 1 : i \in 1 .. l \/ i = l + 1
  BY <1>1
<1>4. ASSUME e.type = type, e.usage # None
      PROVE  LastOf(type, l + 1)' /\ \A i : LastOf(type, i)' => received'[i] = e
  <2>1. \A j \in 1 .. l + 1 : ~(j > l + 1)
    BY <1>1
  <2>2. LastOf(type, l + 1)'
    BY <1>1, <1>2, <1>4, <2>1 DEF LastOf
  <2>3. ASSUME NEW i, LastOf(type, i)' PROVE received'[i] = e
    BY <1>1, <1>2, <1>3, <1>4, <2>3 DEF LastOf
  <2>. QED  BY <2>2, <2>3
<1>5. ASSUME e.type # type, NEW i PROVE LastOf(type, i)' <=> LastOf(type, i)
  BY <1>1, <1>2, <1>3, <1>5 DEF LastOf
<1>. QED  BY <1>1, <1>4, <1>5

(* Pipe anthropic: the end of the message is what is recorded.             *)
EndTokens ==
    /\ EventsInv /\ IsResult(result)
    /\ result.usage # None =>
           \E i : LastOf("message_delta", i) /\ result.usage.completion = received[i].usage.output

\* Pipe anthropic.
LEMMA TokensAnthropic ==
  ASSUME EndTokens, pipeAnthropicStream
  PROVE  EndTokens'
<1>1. PICK e \in SentEvents :
         received' = Append(received, e) /\ result' = CollectEvent(e, FALSE, ToUsage(e.usage))
  BY Zenon DEF pipeAnthropicStream, Reads
<1>2. PICK S : received \in Seq(S)
  BY DEF EndTokens, EventsInv
<1>3. PICK l : l = Len(received)
  OBVIOUS
<1>4. EventsInv' /\ IsResult(result)
  BY <1>1, EventsStep DEF EndTokens
<1>5. /\ IsResult(result')
      /\ e.type = "message_start" => result'.usage = result.usage
      /\ e.type = "message_delta" => result'.usage = IF e.usage = None THEN result.usage ELSE ToUsage(e.usage)
      /\ e.type \notin {"message_start", "message_delta"} => result'.usage = result.usage
  <2>1. PICK v : v = ToUsage(e.usage)
    OBVIOUS
  <2>2. PICK r : r = CollectEvent(e, FALSE, v)
    OBVIOUS
  <2>3. EndIs(e, v, r)
    BY <1>4, <2>1, <2>2, CollectEventAtEnd
  <2>. QED  BY <1>1, <2>1, <2>2, <2>3 DEF EndIs
<1>6. /\ l \in Nat /\ received'[l + 1] = e /\ DOMAIN received' = 1 .. l + 1
      /\ \A i \in 1 .. l : received'[i] = received[i]
      /\ e.type = "message_delta" /\ e.usage # None => LastOf("message_delta", l + 1)'
      /\ e.type # "message_delta" => \A i : LastOf("message_delta", i)' <=> LastOf("message_delta", i)
  BY <1>1, <1>2, <1>3, LastMoves
<1>7. e.type = "message_delta" => e.usage = OutputReport(Atom) /\ Atom = l + 1
  BY <1>3, <1>4, SentIs DEF EndTokens, Atom
<1>8. CASE e.type = "message_delta"
  <2>1. e.usage = [input |-> 0, output |-> l + 1, creation |-> 0, read |-> 0]
    BY <1>7, <1>8 DEF OutputReport
  <2>2. e.usage # None
    BY <1>6, <2>1, ReportsAssumption
  <2>3. result'.usage = ToUsage(e.usage)
    BY <1>5, <1>8, <2>2
  <2>4. result'.usage.completion = received'[l + 1].usage.output
    BY <1>6, <2>3 DEF ToUsage
  <2>. QED  BY <1>4, <1>5, <1>6, <1>8, <2>2, <2>4 DEF EndTokens
<1>9. CASE e.type # "message_delta"
  <2>1. result'.usage = result.usage
    BY <1>5, <1>9
  <2>2. ASSUME result'.usage # None
        PROVE  \E i : LastOf("message_delta", i)' /\ result'.usage.completion = received'[i].usage.output
    <3>1. PICK i : LastOf("message_delta", i) /\ result.usage.completion = received[i].usage.output
      BY <2>1, <2>2 DEF EndTokens
    <3>2. i \in 1 .. l
      BY <1>2, <1>3, <3>1 DEF LastOf
    <3>. QED  BY <1>6, <1>9, <2>1, <3>1, <3>2
  <2>. QED  BY <1>4, <1>5, <2>2 DEF EndTokens
<1>. QED  BY <1>8, <1>9

(* Pipe to_openai: the start gives the prompt and the end the completion.  *)
HasStart == 1 \in DOMAIN received /\ received[1].type = "message_start" /\ received[1].usage # None
BothTokens ==
    /\ EventsInv /\ IsResult(result)
    /\ \A i \in DOMAIN received :
          received[i].type = "message_start" => i = 1 /\ received[i].usage \in Counts \cup {None}
    /\ result.usage \in Usage \cup {None}
    /\ result.finish # None => \E i : LastOf("message_delta", i)
    /\ HasStart => result.usage # None
    /\ result.usage # None =>
          /\ HasStart => result.usage.prompt = received[1].usage.input + received[1].usage.creation
                                                   + received[1].usage.read
          /\ ~HasStart => result.usage.prompt = 0
          /\ result.usage.total = result.usage.prompt + result.usage.completion
          /\ \A i : LastOf("message_delta", i) => result.usage.completion = received[i].usage.output

\* An Anthropic report as an OpenAI one.
LEMMA UsageIs ==
  ASSUME NEW a \in Counts, NEW v, v = ToUsage(a)
  PROVE  /\ v \in Usage /\ v # None
         /\ v.prompt = a.input + a.creation + a.read /\ v.completion = a.output
         /\ v.total = v.prompt + v.completion
<1>1. v = [prompt |-> a.input + a.creation + a.read, completion |-> a.output,
           total |-> a.input + a.creation + a.read + a.output,
           creation |-> a.creation, read |-> a.read,
           cached |-> a.creation + a.read, created |-> 0]
  BY DEF ToUsage
<1>2. a.input \in Nat /\ a.output \in Nat /\ a.creation \in Nat /\ a.read \in Nat
  BY DEF Counts
<1>3. v \in Usage
  BY <1>1, <1>2 DEF Usage
<1>4. v # None
  BY <1>3, ReportsAssumption DEF Usage
<1>. QED  BY <1>1, <1>2, <1>3, <1>4

\* A report of the output replaces the completion, and keeps the prompt.
LEMMA CountedIs ==
  ASSUME result.usage \in Usage \cup {None}, NEW n \in Nat, n > 0,
         NEW a, a = OutputReport(n), NEW v, v = Counted(a)
  PROVE  /\ a \in Counts /\ a # None /\ a.output = n
         /\ v \in Usage /\ v # None /\ v.completion = n
         /\ v.prompt = IF result.usage = None THEN 0 ELSE result.usage.prompt
         /\ v.total = v.prompt + n
<1>1. a = [input |-> 0, output |-> n, creation |-> 0, read |-> 0]
  BY DEF OutputReport
<1>2. a \in Counts /\ a # None /\ a.output = n /\ a.input + a.creation + a.read = 0
  BY <1>1, ReportsAssumption DEF Counts
<1>3. CASE result.usage = None
  <2>1. v = ToUsage(a)
    BY <1>3 DEF Counted
  <2>2. v \in Usage /\ v # None /\ v.prompt = 0 /\ v.completion = n /\ v.total = v.prompt + v.completion
    BY <1>2, <2>1, UsageIs
  <2>. QED  BY <1>2, <1>3, <2>2
<1>4. CASE result.usage # None
  <2>. DEFINE u == result.usage
              t == u.prompt + n
  <2>1. u \in Usage /\ u # None /\ u.prompt \in Nat /\ t \in Nat
    BY <1>4 DEF Usage
  <2>2. v = [u EXCEPT !.completion = n, !.total = t]
    BY <1>2, <1>4 DEF Counted
  <2>. HIDE DEF u, t
  <2>3. v \in Usage /\ v.completion = n /\ v.total = t /\ v.prompt = u.prompt
    BY <2>1, <2>2 DEF Usage
  <2>4. v # None
    BY <2>3, ReportsAssumption DEF Usage
  <2>. QED  BY <1>2, <1>4, <2>3, <2>4 DEF u, t
<1>. QED  BY <1>3, <1>4

\* Pipe to_openai.
LEMMA TokensToOpenAI ==
  ASSUME BothTokens, pipeAnthropicStreamToOpenAI
  PROVE  BothTokens'
<1>1. PICK e \in SentEvents :
         received' = Append(received, e) /\ result' = CollectEvent(e, TRUE, Counted(e.usage))
  BY Zenon DEF pipeAnthropicStreamToOpenAI, Reads
<1>2. PICK S : received \in Seq(S)
  BY DEF BothTokens, EventsInv
<1>3. PICK l : l = Len(received)
  OBVIOUS
<1>4. EventsInv /\ EventsInv' /\ IsResult(result)
  BY <1>1, EventsStep DEF BothTokens
<1>5. /\ IsResult(result')
      /\ e.type = "message_start" =>
            /\ result'.finish = result.finish
            /\ result'.usage = IF e.usage # None THEN ToUsage(e.usage) ELSE result.usage
      /\ e.type = "message_delta" => result'.usage = IF e.usage = None THEN result.usage ELSE Counted(e.usage)
      /\ e.type \notin {"message_start", "message_delta"} =>
            result'.finish = result.finish /\ result'.usage = result.usage
  <2>1. PICK v : v = Counted(e.usage)
    OBVIOUS
  <2>2. PICK r : r = CollectEvent(e, TRUE, v)
    OBVIOUS
  <2>3. StartOrEndIs(e, v, r)
    BY <1>4, <2>1, <2>2, CollectEventAtStart
  <2>. QED  BY <1>1, <2>1, <2>2, <2>3 DEF StartOrEndIs
<1>6. /\ l \in Nat /\ received'[l + 1] = e /\ DOMAIN received' = 1 .. l + 1 /\ DOMAIN received = 1 .. l
      /\ \A i \in 1 .. l : received'[i] = received[i]
      /\ e.type = "message_delta" /\ e.usage # None =>
            LastOf("message_delta", l + 1)' /\ \A i : LastOf("message_delta", i)' => received'[i] = e
      /\ e.type # "message_delta" => \A i : LastOf("message_delta", i)' <=> LastOf("message_delta", i)
  <2>1. DOMAIN received = 1 .. l
    BY <1>2, <1>3
  <2>2. PICK type : type = "message_delta"
    OBVIOUS
  <2>3. /\ l \in Nat /\ received'[l + 1] = e /\ DOMAIN received' = 1 .. l + 1
        /\ \A i \in 1 .. l : received'[i] = received[i]
        /\ e.type = type /\ e.usage # None =>
              LastOf(type, l + 1)' /\ \A i : LastOf(type, i)' => received'[i] = e
        /\ e.type # type => \A i : LastOf(type, i)' <=> LastOf(type, i)
    BY <1>1, <1>2, <1>3, LastMoves
  <2>. QED  BY <2>1, <2>2, <2>3
<1>7. \/ e.type = "message_start" /\ received = <<>> /\ e.usage \in Counts \cup {None}
      \/ e.type = "message_delta" /\ e.usage = OutputReport(Atom) /\ Atom = l + 1
      \/ e.type \notin {"message_start", "message_delta"}
  BY <1>3, <1>4, SentIs DEF Atom
<1>8. \A i \in DOMAIN received' :
         received'[i].type = "message_start" => i = 1 /\ received'[i].usage \in Counts \cup {None}
  <2>. SUFFICES ASSUME NEW i \in 1 .. l + 1, received'[i].type = "message_start"
                PROVE  i = 1 /\ received'[i].usage \in Counts \cup {None}
    BY <1>6
  <2>1. CASE i \in 1 .. l
    BY <1>6, <2>1 DEF BothTokens
  <2>2. CASE i \notin 1 .. l
    <3>1. i = l + 1
      BY <1>6, <2>2
    <3>2. received = <<>> /\ e.usage \in Counts \cup {None}
      BY <1>6, <1>7, <3>1
    <3>3. l = 0
      BY <1>3, <3>2
    <3>. QED  BY <1>6, <3>1, <3>2, <3>3
  <2>. QED  BY <2>1, <2>2
<1>9. CASE e.type = "message_start"
  <2>1. received = <<>> /\ e.usage \in Counts \cup {None} /\ l = 0
    BY <1>3, <1>7, <1>9
  <2>2. \A i : ~LastOf("message_delta", i) /\ ~LastOf("message_delta", i)'
    BY <1>6, <1>9, <2>1 DEF LastOf
  <2>3. result.finish = None /\ ~HasStart
    BY <1>6, <2>1, <2>2 DEF BothTokens, HasStart
  <2>4. received'[1] = e /\ 1 \in DOMAIN received'
    BY <1>6, <2>1
  <2>5. HasStart' <=> e.usage # None
    BY <1>9, <2>4 DEF HasStart
  <2>6. CASE e.usage = None
    <3>1. result'.usage = result.usage /\ result'.finish = result.finish
      BY <1>5, <1>9, <2>6
    <3>. QED  BY <1>4, <1>5, <1>8, <2>2, <2>3, <2>5, <2>6, <3>1 DEF BothTokens
  <2>7. CASE e.usage # None
    <3>1. PICK v : v = ToUsage(e.usage)
      OBVIOUS
    <3>2. result'.usage = v /\ result'.finish = None /\ e.usage \in Counts
      BY <1>5, <1>9, <2>1, <2>3, <2>7, <3>1
    <3>3. /\ v \in Usage /\ v # None
          /\ v.prompt = e.usage.input + e.usage.creation + e.usage.read /\ v.completion = e.usage.output
          /\ v.total = v.prompt + v.completion
      BY <3>1, <3>2, UsageIs
    <3>. QED  BY <1>4, <1>5, <1>8, <2>2, <2>4, <2>5, <2>7, <3>2, <3>3 DEF BothTokens
  <2>. QED  BY <2>6, <2>7
<1>10. ASSUME e.type # "message_start"
       PROVE  (HasStart' <=> HasStart) /\ (HasStart => received'[1] = received[1])
  <2>1. CASE 1 \in 1 .. l
    BY <1>6, <2>1 DEF HasStart
  <2>2. CASE 1 \notin 1 .. l
    <3>1. l = 0
      BY <1>6, <2>2
    <3>2. 1 \in 1 .. l + 1 /\ received'[1] = e
      BY <1>6, <3>1
    <3>. QED  BY <1>6, <1>10, <2>2, <3>2 DEF HasStart
  <2>. QED  BY <2>1, <2>2
<1>11. CASE e.type = "message_delta"
  <2>1. PICK n : n = l + 1
    OBVIOUS
  <2>2. n \in Nat /\ n > 0 /\ e.usage = OutputReport(n)
    BY <1>6, <1>7, <1>11, <2>1
  <2>3. PICK v : v = Counted(e.usage)
    OBVIOUS
  <2>4. /\ e.usage # None /\ e.usage.output = n
        /\ v \in Usage /\ v # None /\ v.completion = n
        /\ v.prompt = IF result.usage = None THEN 0 ELSE result.usage.prompt
        /\ v.total = v.prompt + n
    BY <2>2, <2>3, CountedIs DEF BothTokens
  <2>5. result'.usage = v
    BY <1>5, <1>11, <2>3, <2>4
  <2>6. LastOf("message_delta", n)' /\ \A i : LastOf("message_delta", i)' => received'[i] = e
    BY <1>6, <1>11, <2>1, <2>4
  <2>7. (HasStart' <=> HasStart) /\ (HasStart => received'[1] = received[1])
    BY <1>10, <1>11
  <2>8. /\ HasStart' => v.prompt = received'[1].usage.input + received'[1].usage.creation
                                                  + received'[1].usage.read
        /\ ~HasStart' => v.prompt = 0
    BY <2>4, <2>7 DEF BothTokens
  <2>. QED  BY <1>4, <1>5, <1>8, <2>4, <2>5, <2>6, <2>8 DEF BothTokens
<1>12. CASE e.type \notin {"message_start", "message_delta"}
  <2>1. result'.usage = result.usage /\ result'.finish = result.finish
    BY <1>5, <1>12
  <2>2. (HasStart' <=> HasStart) /\ (HasStart => received'[1] = received[1])
    BY <1>10, <1>12
  <2>3. \A i : (LastOf("message_delta", i)' <=> LastOf("message_delta", i))
               /\ (LastOf("message_delta", i) => received'[i] = received[i])
    BY <1>6, <1>12 DEF LastOf
  <2>4. /\ result'.finish # None => \E i : LastOf("message_delta", i)'
        /\ \A i : LastOf("message_delta", i)' /\ result'.usage # None =>
               result'.usage.completion = received'[i].usage.output
    BY <2>1, <2>3 DEF BothTokens
  <2>. QED  BY <1>4, <1>5, <1>8, <2>1, <2>2, <2>4 DEF BothTokens
<1>. QED  BY <1>7, <1>9, <1>11, <1>12

(* Pipe responses: the report comes with the last item.                    *)
CompletedTokens ==
    /\ \E S : received \in Seq(S)
    /\ IsResult(result)
    /\ result.usage # None =>
           /\ received # <<>> /\ received[Len(received)].type = "completed"
           /\ result.usage = ResponsesToUsage(received[Len(received)])

\* Pipe responses.
LEMMA TokensResponses ==
  ASSUME CompletedTokens, pipeResponsesStream
  PROVE  CompletedTokens'
<1>1. PICK e \in SentResponses :
         /\ received' = Append(received, e)
         /\ result' = CASE e.type = "text_delta" -> [result EXCEPT !.content = Append(@, e.val)]
                        [] e.type = "completed" ->
                               [result EXCEPT !.finish = "stop", !.usage = ResponsesToUsage(e)]
                        [] OTHER -> result
  BY Zenon DEF pipeResponsesStream, Reads
<1>2. PICK S : received \in Seq(S)
  BY DEF CompletedTokens
<1>3. PICK l : l = Len(received)
  OBVIOUS
<1>4. PICK T : T = S \cup {e}
  OBVIOUS
<1>5. received \in Seq(T) /\ e \in T
  BY <1>2, <1>4
<1>6. /\ l \in Nat /\ received' \in Seq(T) /\ received' # <<>> /\ Len(received') = l + 1
      /\ received'[Len(received')] = e /\ DOMAIN received = 1 .. l
  BY <1>1, <1>3, <1>5, AppendProperties
<1>7. result.usage = None
  <2>. SUFFICES ASSUME result.usage # None PROVE FALSE
    OBVIOUS
  <2>1. received # <<>> /\ received[l].type = "completed"
    BY <1>3 DEF CompletedTokens
  <2>2. l \in DOMAIN received
    BY <1>2, <1>3, <1>6, <2>1
  <2>3. SentResponses = {}
    BY <2>1, <2>2 DEF SentResponses
  <2>. QED  BY <2>3
<1>8. PICK u : u = ResponsesToUsage(e)
  OBVIOUS
<1>9. IsResult(result') /\ (result'.usage # None => e.type = "completed" /\ result'.usage = u)
  <2>1. PICK t : t = Append(result.content, e.val)
    OBVIOUS
  <2>2. \/ e.type = "completed" /\ result' = [result EXCEPT !.finish = "stop", !.usage = u]
        \/ result' = [result EXCEPT !.content = t]
        \/ result' = result
    BY <1>1, <1>8, <2>1
  <2>. QED  BY <1>7, <2>2 DEF IsResult, CompletedTokens
<1>. QED  BY <1>6, <1>8, <1>9 DEF CompletedTokens

TokensInv ==
    /\ pipe \in Pipes
    /\ pipe \in {"openai", "to_anthropic"} => ChunkTokens
    /\ pipe = "anthropic" => EndTokens
    /\ pipe = "to_openai" => BothTokens
    /\ pipe = "responses" => CompletedTokens

\* Initially nothing is reported.
LEMMA TokensInit == Init => TokensInv
<1>. SUFFICES ASSUME Init PROVE TokensInv
  OBVIOUS
<1>1. /\ pipe \in Pipes /\ received = <<>> /\ phase = "asked" /\ conv = None
      /\ result = [content |-> <<>>, finish |-> None, usage |-> None]
  BY DEF Init
<1>2. IsResult(result) /\ result.usage = None /\ result.finish = None
  BY <1>1 DEF IsResult
<1>3. received \in Seq(ChunkItem) /\ DOMAIN received = {} /\ Len(received) = 0
  BY <1>1
<1>4. EventsInv
  <2>1. PICK f : Assembles(f, received) /\ Assemble(received) = f[Len(received)]
    BY <1>3, AssembleFold
  <2>2. Assemble(received) = Unread
    BY <1>3, <2>1 DEF Assembles
  <2>3. Sane(Assemble(received))
    BY <2>2 DEF Sane, Unread
  <2>. QED  BY <1>1, <1>3, <2>3 DEF EventsInv
<1>5. ChunkTokens
  BY <1>1, <1>2, <1>3 DEF ChunkTokens, ChunksInv, ReportedAt, Collected, Carried
<1>6. EndTokens
  BY <1>2, <1>4 DEF EndTokens
<1>7. BothTokens
  BY <1>2, <1>3, <1>4 DEF BothTokens, HasStart
<1>8. CompletedTokens
  BY <1>2, <1>3 DEF CompletedTokens
<1>. QED  BY <1>1, <1>5, <1>6, <1>7, <1>8 DEF TokensInv

\* What has no part in the items and the result disturbs nothing that is known of them.
LEMMA TokensSame ==
  ASSUME TokensInv, pipe' = pipe, received' = received, result' = result
  PROVE  /\ pipe' \in Pipes
         /\ pipe = "anthropic" => EndTokens'
         /\ pipe = "to_openai" => BothTokens'
         /\ pipe = "responses" => CompletedTokens'
         /\ pipe \in {"openai", "to_anthropic"} =>
               ChunksInv' /\ (Collected => Collected') /\ (Settled => Settled')
<1>1. \A type, i : LastOf(type, i)' <=> LastOf(type, i)
  BY DEF LastOf
<1>2. \A i : (LastReportAt(i)' <=> LastReportAt(i)) /\ (ReportedAt(i)' <=> ReportedAt(i))
  BY DEF LastReportAt, ReportedAt
<1>3. EventsInv => EventsInv'
  BY DEF EventsInv
<1>4. HasStart' <=> HasStart
  BY DEF HasStart
<1>5. ASSUME pipe = "anthropic" PROVE EndTokens'
  BY <1>1, <1>3, <1>5 DEF TokensInv, EndTokens, IsResult
<1>6. ASSUME pipe = "to_openai" PROVE BothTokens'
  BY <1>1, <1>3, <1>4, <1>6 DEF TokensInv, BothTokens, IsResult
<1>7. ASSUME pipe = "responses" PROVE CompletedTokens'
  BY <1>7 DEF TokensInv, CompletedTokens, IsResult
<1>8. ASSUME pipe \in {"openai", "to_anthropic"} PROVE ChunksInv'
  BY <1>2, <1>8 DEF TokensInv, ChunkTokens, ChunksInv
<1>9. (Collected => Collected') /\ (Settled => Settled')
  BY <1>2 DEF Collected, Settled
<1>. QED  BY <1>5, <1>6, <1>7, <1>8, <1>9 DEF TokensInv

\* Every step keeps it.
LEMMA TokensNext ==
  StreamInv /\ TokensInv /\ [Next]_vars => TokensInv'
<1>. SUFFICES ASSUME StreamInv, TokensInv, [Next]_vars PROVE TokensInv'
  OBVIOUS
<1>0. ASSUME pipe' = pipe, received' = received, result' = result,
             pipe \in {"openai", "to_anthropic"} => ChunkTokens'
      PROVE  TokensInv'
  BY <1>0, TokensSame DEF TokensInv
<1>1. CASE Send
  <2>1. /\ pipe' = pipe /\ received' = received /\ result' = result /\ conv' = conv
        /\ phase = "asked" /\ phase' \in {"refused", "sent"}
    BY <1>1 DEF Send
  <2>2. pipe \in {"openai", "to_anthropic"} => ChunkTokens'
    BY <2>1, TokensSame DEF TokensInv, ChunkTokens
  <2>. QED  BY <1>0, <2>1, <2>2
<1>2. CASE Open
  <2>1. /\ pipe' = pipe /\ received' = received /\ result' = result
        /\ phase = "sent" /\ phase' = "streaming"
        /\ pipe = "to_anthropic" => conv' = FreshToAnthropic
    BY <1>2 DEF Open
  <2>2. ASSUME pipe = "to_anthropic" PROVE Carried'
    <3>1. received = <<>>
      BY <2>1, <2>2 DEF StreamInv, Nothing
    <3>2. result.usage = None
      BY <2>1, <2>2, <3>1 DEF TokensInv, ChunkTokens, Collected, LastReportAt
    <3>3. conv'.usage = None
      BY <2>1, <2>2 DEF FreshToAnthropic
    <3>. QED  BY <2>1, <3>2, <3>3 DEF Carried
  <2>3. pipe \in {"openai", "to_anthropic"} => ChunkTokens'
    BY <2>1, <2>2, TokensSame DEF TokensInv, ChunkTokens
  <2>. QED  BY <1>0, <2>1, <2>3
<1>3. CASE ClientReads \/ UNCHANGED vars
  <2>1. pipe' = pipe /\ received' = received /\ result' = result /\ phase' = phase /\ conv' = conv
    BY <1>3 DEF ClientReads, vars
  <2>2. Carried => Carried'
    BY <2>1 DEF Carried
  <2>3. pipe \in {"openai", "to_anthropic"} => ChunkTokens'
    BY <2>1, <2>2, TokensSame DEF TokensInv, ChunkTokens
  <2>. QED  BY <1>0, <2>1, <2>3
<1>4. CASE ReadFails
  <2>1. /\ pipe' = pipe /\ received' = received /\ result' = result
        /\ phase = "streaming" /\ phase' = "broken"
    BY <1>4 DEF ReadFails
  <2>2. pipe \in {"openai", "to_anthropic"} => ChunkTokens'
    BY <2>1, TokensSame DEF TokensInv, ChunkTokens
  <2>. QED  BY <1>0, <2>1, <2>2
<1>5. CASE EndOfStream
  <2>1. pipe' = pipe /\ received' = received
    BY <1>5 DEF EndOfStream
  <2>2. CASE pipe \in {"openai", "to_anthropic"}
    BY <1>5, <2>1, <2>2, TokensEnd DEF TokensInv
  <2>3. CASE pipe \notin {"openai", "to_anthropic"}
    <3>1. result' = result
      BY <1>5, <2>3 DEF EndOfStream, TokensInv, Pipes
    <3>. QED  BY <1>0, <2>1, <2>3, <3>1
  <2>. QED  BY <2>2, <2>3
<1>6. CASE pipeOpenAIStream
  <2>1. pipe = "openai" /\ pipe' = pipe
    BY <1>6 DEF pipeOpenAIStream, Reads
  <2>. QED  BY <1>6, <2>1, TokensOpenAI DEF TokensInv
<1>7. CASE pipeOpenAIStreamToAnthropic
  <2>1. pipe = "to_anthropic" /\ pipe' = pipe
    BY <1>7 DEF pipeOpenAIStreamToAnthropic, Reads
  <2>. QED  BY <1>7, <2>1, TokensToAnthropic DEF TokensInv
<1>8. CASE pipeAnthropicStream
  <2>1. pipe = "anthropic" /\ pipe' = pipe
    BY <1>8 DEF pipeAnthropicStream, Reads
  <2>. QED  BY <1>8, <2>1, TokensAnthropic DEF TokensInv
<1>9. CASE pipeAnthropicStreamToOpenAI
  <2>1. pipe = "to_openai" /\ pipe' = pipe
    BY <1>9 DEF pipeAnthropicStreamToOpenAI, Reads
  <2>. QED  BY <1>9, <2>1, TokensToOpenAI DEF TokensInv
<1>10. CASE pipeResponsesStream
  <2>1. pipe = "responses" /\ pipe' = pipe
    BY <1>10 DEF pipeResponsesStream, Reads
  <2>. QED  BY <1>10, <2>1, TokensResponses DEF TokensInv
<1>. QED  BY <1>1, <1>2, <1>3, <1>4, <1>5, <1>6, <1>7, <1>8, <1>9, <1>10 DEF Next

\* What is known of the result is what was reported.
LEMMA TokensReported == TokensInv => TokensAreKept
<1>. SUFFICES ASSUME TokensInv, Complete PROVE TokensAreKept
  BY DEF TokensAreKept
<1>1. result.finish # None /\ result.usage # None
  BY DEF Complete
<1>2. CASE pipe \in {"openai", "to_anthropic"}
  BY <1>2, ChunksReported DEF TokensInv
<1>3. CASE pipe = "anthropic"
  <2>1. PICK S : received \in Seq(S)
    BY <1>3 DEF TokensInv, EndTokens, EventsInv
  <2>2. PICK i : LastOf("message_delta", i) /\ result.usage.completion = received[i].usage.output
    BY <1>1, <1>3 DEF TokensInv, EndTokens
  <2>3. Reported.output = received[i].usage.output
    BY <1>3, <2>1, <2>2, ReportedOutput
  <2>. QED  BY <1>3, <2>2, <2>3 DEF TokensAreKept
<1>4. CASE pipe = "to_openai"
  <2>1. PICK S : received \in Seq(S)
    BY <1>4 DEF TokensInv, BothTokens, EventsInv
  <2>2. BothTokens
    BY <1>4 DEF TokensInv
  <2>3. PICK i : LastOf("message_delta", i)
    BY <1>1, <2>2 DEF BothTokens
  <2>4. Reported.output = received[i].usage.output
    BY <1>4, <2>1, <2>3, ReportedOutput
  <2>5. /\ result.usage.completion = received[i].usage.output
        /\ result.usage.total = result.usage.prompt + result.usage.completion
    BY <1>1, <2>2, <2>3 DEF BothTokens
  <2>6. Reported.prompt = result.usage.prompt
    <3>1. CASE HasStart
      <4>1. LastOf("message_start", 1)
        <5>1. \A j \in DOMAIN received : received[j].type = "message_start" => j = 1
          BY <2>2 DEF BothTokens
        <5>2. ~(1 > 1)
          OBVIOUS
        <5>. QED  BY <3>1, <5>1, <5>2 DEF LastOf, HasStart
      <4>. DEFINE p == received[1].usage.input + received[1].usage.creation + received[1].usage.read
      <4>2. Reported.prompt = p
        BY <1>4, <2>1, <4>1, ReportedPrompt
      <4>3. result.usage.prompt = p
        BY <1>1, <2>2, <3>1 DEF BothTokens
      <4>. QED  BY <4>2, <4>3
    <3>2. CASE ~HasStart
      <4>1. \A j \in DOMAIN received : received[j].type = "message_start" => received[j].usage = None
        BY <2>2, <3>2 DEF BothTokens, HasStart
      <4>2. Reported.prompt = 0
        BY <1>4, <2>1, <4>1, ReportedPrompt
      <4>3. result.usage.prompt = 0
        BY <1>1, <2>2, <3>2 DEF BothTokens
      <4>. QED  BY <4>2, <4>3
    <3>. QED  BY <3>1, <3>2
  <2>. QED  BY <2>4, <2>5, <2>6 DEF TokensAreKept
<1>5. CASE pipe = "responses"
  <2>. DEFINE last == received[Len(received)]
  <2>1. result.usage = ResponsesToUsage(last)
    BY <1>1, <1>5 DEF TokensInv, CompletedTokens
  <2>2. Reported.prompt = last.input /\ Reported.output = last.output
    BY <1>5, ReportedByResponses
  <2>. HIDE DEF last
  <2>3. /\ result.usage.prompt = last.input /\ result.usage.completion = last.output
        /\ result.usage.total = last.input + last.output
    BY <2>1 DEF ResponsesToUsage
  <2>. QED  BY <2>2, <2>3 DEF TokensAreKept
<1>. QED  BY <1>2, <1>3, <1>4, <1>5 DEF TokensInv, Pipes

(* What RecordUsage is called with is what the upstream reported of its    *)
(* tokens, through every pipe and every conversion of a report, for any    *)
(* number of items, shapes of chunks and reports.                          *)
THEOREM TokensKept == Spec => []TokensAreKept
<1>1. Init => StreamInv /\ TokensInv
  BY StreamInvInit, TokensInit
<1>2. StreamInv /\ TokensInv /\ [Next]_vars => StreamInv' /\ TokensInv'
  BY StreamInvNext, TokensNext
<1>3. TokensInv => TokensAreKept
  BY TokensReported
<1>. QED  BY <1>1, <1>2, <1>3, PTL DEF Spec

-----------------------------------------------------------------------------
(***************************************************************************)
(* Conversations.  Picking from longer sequences, and everything.          *)
(***************************************************************************)
\* What is picked depends on the places within the sequence only.
LEMMA PickSame ==
  ASSUME NEW s, NEW I, NEW J, \A i \in DOMAIN s : i \in I <=> i \in J
  PROVE  Pick(s, I) = Pick(s, J)
<1>1. [i \in DOMAIN s |-> IF i \in I THEN <<s[i]>> ELSE <<>>] = [i \in DOMAIN s |-> IF i \in J THEN <<s[i]>> ELSE <<>>]
  OBVIOUS
<1>. QED  BY <1>1, Zenon DEF Pick

\* Picked everywhere, a sequence is itself.
LEMMA PickAll ==
  ASSUME NEW S
  PROVE  \A s \in Seq(S) : Pick(s, DOMAIN s) = s
<1>. DEFINE G == {s \in Seq(S) : Pick(s, DOMAIN s) = s}
<1>1. <<>> \in G
  BY PickEmpty
<1>2. \A s \in Seq(S), e \in S : s \in G => Append(s, e) \in G
  <2>. SUFFICES ASSUME NEW s \in Seq(S), NEW e \in S, s \in G PROVE Append(s, e) \in G
    OBVIOUS
  <2>. DEFINE t == Append(s, e)
  <2>1. DOMAIN s = 1 .. Len(s) /\ DOMAIN t = 1 .. Len(s) + 1 /\ Len(s) \in Nat /\ t \in Seq(S)
    OBVIOUS
  <2>2. Len(s) + 1 \in DOMAIN t /\ \A i \in DOMAIN s : i \in DOMAIN t
    BY <2>1
  <2>3. Pick(t, DOMAIN t) = Append(Pick(s, DOMAIN t), e)
    BY <2>2, PickAppend
  <2>4. Pick(s, DOMAIN t) = Pick(s, DOMAIN s)
    BY <2>2, PickSame
  <2>. QED  BY <2>1, <2>3, <2>4
<1>. HIDE DEF G
<1>3. \A s \in Seq(S) : s \in G
  BY <1>1, <1>2, SeqInduction, Zenon
<1>. QED  BY <1>3 DEF G

(* What stays of a sequence of messages, and what goes to its head.        *)
Said(s) == Pick(s, {i \in DOMAIN s : ~InHead(s[i])})
Heads(s) == Pick(s, {i \in DOMAIN s : InHead(s[i])})

\* The messages that stay, and those that go.
LEMMA SaidRange ==
  ASSUME NEW S, NEW s \in Seq(S)
  PROVE  /\ Said(s) \in Seq(S) /\ ToSet(Said(s)) = {m \in ToSet(s) : ~InHead(m)}
         /\ Heads(s) \in Seq(S) /\ ToSet(Heads(s)) = {m \in ToSet(s) : InHead(m)}
<1>. DEFINE I == {i \in DOMAIN s : ~InHead(s[i])}
            J == {i \in DOMAIN s : InHead(s[i])}
<1>1. {s[i] : i \in {j \in DOMAIN s : j \in I}} = {m \in ToSet(s) : ~InHead(m)}
  BY DEF ToSet
<1>2. {s[i] : i \in {j \in DOMAIN s : j \in J}} = {m \in ToSet(s) : InHead(m)}
  BY DEF ToSet
<1>3. Said(s) = Pick(s, I) /\ Heads(s) = Pick(s, J)
  BY DEF Said, Heads
<1>. HIDE DEF I, J
<1>4. Pick(s, I) \in Seq(S) /\ ToSet(Pick(s, I)) = {s[i] : i \in {j \in DOMAIN s : j \in I}}
  BY PickType, PickRange
<1>5. Pick(s, J) \in Seq(S) /\ ToSet(Pick(s, J)) = {s[i] : i \in {j \in DOMAIN s : j \in J}}
  BY PickType, PickRange
<1>. QED  BY <1>1, <1>2, <1>3, <1>4, <1>5

\* One message more.
LEMMA SaidAppend ==
  ASSUME NEW S, NEW s \in Seq(S), NEW e \in S
  PROVE  Said(Append(s, e)) = IF InHead(e) THEN Said(s) ELSE Append(Said(s), e)
<1>. DEFINE t == Append(s, e)
            I == {i \in DOMAIN s : ~InHead(s[i])}
            J == {i \in DOMAIN t : ~InHead(t[i])}
<1>1. /\ DOMAIN s = 1 .. Len(s) /\ DOMAIN t = 1 .. Len(s) + 1 /\ Len(s) \in Nat
      /\ t[Len(s) + 1] = e /\ \A i \in 1 .. Len(s) : t[i] = s[i]
  OBVIOUS
<1>2. Len(s) + 1 \in J <=> ~InHead(e)
  BY <1>1
<1>3. \A i \in DOMAIN s : i \in I <=> i \in J
  BY <1>1
<1>4. Said(s) = Pick(s, I) /\ Said(t) = Pick(t, J)
  BY Zenon DEF Said
<1>. HIDE DEF I, J
<1>5. Pick(t, J) = IF Len(s) + 1 \in J THEN Append(Pick(s, J), e) ELSE Pick(s, J)
  BY PickAppend
<1>6. Pick(s, J) = Pick(s, I)
  BY <1>3, PickSame
<1>. QED  BY <1>2, <1>4, <1>5, <1>6

\* What stays of two sequences, one after the other.
LEMMA SaidConcat ==
  ASSUME NEW S, NEW a \in Seq(S)
  PROVE  \A b \in Seq(S) : Said(a \o b) = Said(a) \o Said(b)
<1>. DEFINE G == {b \in Seq(S) : Said(a \o b) = Said(a) \o Said(b)}
<1>1. <<>> \in G
  <2>1. Said(<<>>) = <<>>
    BY PickEmpty DEF Said
  <2>2. Said(a) \in Seq(S)
    BY SaidRange
  <2>3. a \o <<>> = a /\ Said(a) \o <<>> = Said(a) /\ <<>> \in Seq(S)
    BY <2>2
  <2>. QED  BY <2>1, <2>3
<1>2. \A b \in Seq(S), e \in S : b \in G => Append(b, e) \in G
  <2>. SUFFICES ASSUME NEW b \in Seq(S), NEW e \in S, b \in G PROVE Append(b, e) \in G
    OBVIOUS
  <2>1. Said(a \o b) = Said(a) \o Said(b) /\ a \o b \in Seq(S) /\ Append(b, e) \in Seq(S)
    OBVIOUS
  <2>2. a \o Append(b, e) = Append(a \o b, e)
    OBVIOUS
  <2>3. Said(a) \in Seq(S) /\ Said(b) \in Seq(S)
    BY SaidRange
  <2>4. Said(Append(a \o b, e)) = IF InHead(e) THEN Said(a \o b) ELSE Append(Said(a \o b), e)
    BY <2>1, SaidAppend
  <2>5. Said(Append(b, e)) = IF InHead(e) THEN Said(b) ELSE Append(Said(b), e)
    BY SaidAppend
  <2>6. Said(a) \o Append(Said(b), e) = Append(Said(a) \o Said(b), e)
    BY <2>3
  <2>. QED  BY <2>1, <2>2, <2>4, <2>5, <2>6
<1>. HIDE DEF G
<1>3. \A b \in Seq(S) : b \in G
  BY <1>1, <1>2, SeqInduction, Zenon
<1>. QED  BY <1>3 DEF G

\* When none goes to the head, all stay, and when all go, none.
LEMMA SaidAll ==
  ASSUME NEW S, NEW s \in Seq(S)
  PROVE  /\ (\A i \in DOMAIN s : ~InHead(s[i])) => Said(s) = s
         /\ (\A i \in DOMAIN s : InHead(s[i])) => Said(s) = <<>>
<1>1. ASSUME \A i \in DOMAIN s : ~InHead(s[i]) PROVE Said(s) = s
  <2>1. Said(s) = Pick(s, DOMAIN s)
    BY <1>1, PickSame DEF Said
  <2>. QED  BY <2>1, PickAll
<1>2. ASSUME \A i \in DOMAIN s : InHead(s[i]) PROVE Said(s) = <<>>
  <2>1. Said(s) \in Seq(S) /\ ToSet(Said(s)) = {m \in ToSet(s) : ~InHead(m)}
    BY SaidRange
  <2>2. ToSet(Said(s)) = {}
    BY <1>2, <2>1 DEF ToSet
  <2>. QED  BY <2>1, <2>2 DEF ToSet
<1>. QED  BY <1>1, <1>2

\* The parts of a type, as a set.
LEMMA OfTypeRange ==
  ASSUME NEW S, NEW parts \in Seq(S), NEW type
  PROVE  OfType(parts, type) \in Seq(S) /\ ToSet(OfType(parts, type)) = {p \in ToSet(parts) : p.type = type}
<1>. DEFINE I == {i \in DOMAIN parts : parts[i].type = type}
<1>1. OfType(parts, type) = Pick(parts, I)
  BY Zenon DEF OfType, Those
<1>2. {parts[i] : i \in {j \in DOMAIN parts : j \in I}} = {p \in ToSet(parts) : p.type = type}
  BY DEF ToSet
<1>. HIDE DEF I
<1>3. Pick(parts, I) \in Seq(S) /\ ToSet(Pick(parts, I)) = {parts[i] : i \in {j \in DOMAIN parts : j \in I}}
  BY PickType, PickRange
<1>. QED  BY <1>1, <1>2, <1>3

-----------------------------------------------------------------------------
(***************************************************************************)
(* What becomes of an Anthropic message.                                   *)
(***************************************************************************)
PartTypes == {"text", "tool_result", "tool_use", "thinking", "image_data", "image_http", "image_other"}
Part == [type : PartTypes, val : Value]
Roles == {"system", "user", "assistant", "tool"}
Sendable == [role : Roles, plain : BOOLEAN, content : Seq(Part), calls : Seq(Value), answers : Value \cup {None}]
Calling(content, calls) == [OpenAIMessage("assistant", TRUE, content) EXCEPT !.calls = calls]
Answering(a) == [OpenAIMessage("tool", TRUE, <<>>) EXCEPT !.answers = a]
Legible == {m \in AnthropicMessages : m.plain => m.blocks \in Parts({"text"})}

CarriedAll(s) == UNION {CarriedBy(x) : x \in ToSet(s)}
Carryable(m) == {p \in ToSet(m.blocks) : p.type \notin {"thinking", "image_http"}}

(* t is what m becomes.                                                    *)
Becomes(m, t) ==
    /\ t \in Seq(Sendable)
    /\ CarriedAll(t) = Carryable(m)
    /\ \A i \in DOMAIN t :
          /\ t[i].role = "system" => InHead(t[i])
          /\ InHead(t[i]) <=> InHead(m)
          /\ InHead(t[i]) => t[i].calls = <<>> /\ t[i].answers = None
          /\ t[i].answers # None => t[i].answers \in ResultsOf(m) /\ \A k \in 1 .. i : t[k].role = "tool"
    /\ m.role = "assistant" /\ UsesOf(m) # {} => t # <<>> /\ UsesOf(m) \subseteq ToSet(t[Len(t)].calls)

\* Parts of some types.
LEMMA PartsIs ==
  ASSUME NEW types \in SUBSET PartTypes, NEW s \in Parts(types)
  PROVE  s \in Seq(Part) /\ \A p \in ToSet(s) : p.type \in types /\ p.val \in Value /\ p = [type |-> p.type, val |-> p.val]
<1>. DEFINE A == [type : types, val : Value]
<1>1. A \subseteq Part
  BY DEF Part
<1>2. \A p \in A : p.type \in types /\ p.val \in Value /\ p = [type |-> p.type, val |-> p.val]
  OBVIOUS
<1>3. s \in Seq(A)
  BY DEF Parts
<1>. HIDE DEF A
<1>4. \A p \in ToSet(s) : p \in A
  BY <1>3 DEF ToSet
<1>5. s \in Seq(Part)
  BY <1>1, <1>3
<1>. QED  BY <1>2, <1>4, <1>5

\* The parts of a message.
LEMMA LegibleIs ==
  ASSUME NEW m \in Legible
  PROVE  /\ m.role \in {"system", "user", "assistant"} /\ m.plain \in BOOLEAN /\ m.blocks \in Seq(Part)
         /\ \A p \in ToSet(m.blocks) :
               /\ p.val \in Value /\ p = [type |-> p.type, val |-> p.val]
               /\ m.plain => p.type = "text"
               /\ m.role = "assistant" => p.type \in {"text", "tool_use", "thinking"}
               /\ m.role # "assistant" => p.type \in {"text", "tool_result", "image_data", "image_http"}
<1>1. m \in AnthropicMessages /\ (m.plain => m.blocks \in Parts({"text"}))
  BY DEF Legible
<1>2. \/ /\ m.role \in {"user", "system"} /\ m.plain \in BOOLEAN
         /\ m.blocks \in Parts({"text", "tool_result", "image_data", "image_http"})
      \/ /\ m.role = "assistant" /\ m.plain \in BOOLEAN
         /\ m.blocks \in Parts({"text", "tool_use", "thinking"})
  BY <1>1 DEF AnthropicMessages
<1>4. /\ {"text", "tool_result", "image_data", "image_http"} \in SUBSET PartTypes
      /\ {"text", "tool_use", "thinking"} \in SUBSET PartTypes /\ {"text"} \in SUBSET PartTypes
  BY DEF PartTypes
<1>5. CASE m.role = "assistant"
  <2>1. m.blocks \in Parts({"text", "tool_use", "thinking"}) /\ m.plain \in BOOLEAN
    BY <1>2, <1>5
  <2>2. /\ m.blocks \in Seq(Part)
        /\ \A p \in ToSet(m.blocks) :
              p.type \in {"text", "tool_use", "thinking"} /\ p.val \in Value /\ p = [type |-> p.type, val |-> p.val]
    BY <1>4, <2>1, PartsIs
  <2>3. m.plain => \A p \in ToSet(m.blocks) : p.type \in {"text"}
    BY <1>1, <1>4, PartsIs
  <2>. QED  BY <1>5, <2>1, <2>2, <2>3
<1>6. CASE m.role # "assistant"
  <2>1. /\ m.blocks \in Parts({"text", "tool_result", "image_data", "image_http"}) /\ m.plain \in BOOLEAN
        /\ m.role \in {"user", "system"}
    BY <1>2, <1>6
  <2>2. /\ m.blocks \in Seq(Part)
        /\ \A p \in ToSet(m.blocks) :
              /\ p.type \in {"text", "tool_result", "image_data", "image_http"} /\ p.val \in Value
              /\ p = [type |-> p.type, val |-> p.val]
    BY <1>4, <2>1, PartsIs
  <2>3. m.plain => \A p \in ToSet(m.blocks) : p.type \in {"text"}
    BY <1>1, <1>4, PartsIs
  <2>. QED  BY <1>6, <2>1, <2>2, <2>3
<1>. QED  BY <1>5, <1>6

\* The calls and the results of a message are values of its blocks.
LEMMA UsesIs ==
  ASSUME NEW m
  PROVE  /\ UsesOf(m) = {p.val : p \in {b \in ToSet(m.blocks) : b.type = "tool_use"}}
         /\ ResultsOf(m) = {p.val : p \in {b \in ToSet(m.blocks) : b.type = "tool_result"}}
BY DEF UsesOf, ResultsOf, ToSet

\* The fields of a message that is sent to an OpenAI upstream.
LEMMA SendableIs ==
  ASSUME NEW role \in Roles, NEW plain \in BOOLEAN, NEW content \in Seq(Part),
         NEW x, x = OpenAIMessage(role, plain, content)
  PROVE  /\ x \in Sendable /\ x.role = role /\ x.content = content
         /\ x.calls = <<>> /\ x.answers = None /\ CarriedBy(x) = ToSet(content)
<1>1. x = [role |-> role, plain |-> plain, content |-> content, calls |-> <<>>, answers |-> None]
  BY DEF OpenAIMessage
<1>2. <<>> \in Seq(Value) /\ ToSet(<<>>) = {}
  BY DEF ToSet
<1>3. x \in Sendable
  BY <1>1, <1>2 DEF Sendable
<1>. QED  BY <1>1, <1>2, <1>3 DEF CarriedBy

\* ... with calls,
LEMMA CallingIs ==
  ASSUME NEW content \in Seq(Part), NEW calls \in Seq(Value), NEW x, x = Calling(content, calls)
  PROVE  /\ x \in Sendable /\ x.role = "assistant" /\ x.content = content
         /\ x.calls = calls /\ x.answers = None
         /\ CarriedBy(x) = ToSet(content) \cup {[type |-> "tool_use", val |-> c] : c \in ToSet(calls)}
<1>1. x = [role |-> "assistant", plain |-> TRUE, content |-> content, calls |-> calls, answers |-> None]
  BY DEF Calling, OpenAIMessage
<1>2. x \in Sendable
  <2>1. "assistant" \in Roles
    BY DEF Roles
  <2>. QED  BY <1>1, <2>1 DEF Sendable
<1>3. {[type |-> "tool_result", val |-> a] : a \in {None} \ {None}} = {}
  OBVIOUS
<1>4. x.role = "assistant" /\ x.calls = calls /\ x.content = content /\ x.answers = None
  BY <1>1
<1>5. CarriedBy(x) = ToSet(content) \cup {[type |-> "tool_use", val |-> c] : c \in ToSet(calls)}
  <2>. DEFINE U(calling) == {[type |-> "tool_use", val |-> c] : c \in ToSet(calling)}
              R(answer) == {[type |-> "tool_result", val |-> a] : a \in {answer} \ {None}}
  <2>1. CarriedBy(x) = ToSet(x.content) \cup U(x.calls) \cup R(x.answers)
    BY DEF CarriedBy
  <2>2. R(None) = {}
    OBVIOUS
  <2>. HIDE DEF U, R
  <2>3. CarriedBy(x) = ToSet(content) \cup U(calls)
    BY <1>4, <2>1, <2>2
  <2>. QED  BY <2>3 DEF U
<1>. QED  BY <1>2, <1>4, <1>5

\* ... or with the answer to one.
LEMMA AnswerIs ==
  ASSUME NEW a \in Value, NEW x, x = Answering(a)
  PROVE  /\ x \in Sendable /\ x.role = "tool" /\ x.answers = a /\ x.calls = <<>>
         /\ CarriedBy(x) = {[type |-> "tool_result", val |-> a]}
<1>1. x = [role |-> "tool", plain |-> TRUE, content |-> <<>>, calls |-> <<>>, answers |-> a]
  BY DEF Answering, OpenAIMessage
<1>2. <<>> \in Seq(Part) /\ <<>> \in Seq(Value) /\ ToSet(<<>>) = {}
  BY DEF ToSet
<1>3. x \in Sendable
  <2>1. "tool" \in Roles
    BY DEF Roles
  <2>. QED  BY <1>1, <1>2, <2>1 DEF Sendable
<1>4. a # None
  BY RequestsAssumption
<1>5. x.role = "tool" /\ x.calls = <<>> /\ x.content = <<>> /\ x.answers = a
  BY <1>1
<1>6. CarriedBy(x) = {[type |-> "tool_result", val |-> a]}
  <2>. DEFINE U(calling) == {[type |-> "tool_use", val |-> c] : c \in ToSet(calling)}
              R(answer) == {[type |-> "tool_result", val |-> b] : b \in {answer} \ {None}}
  <2>1. CarriedBy(x) = ToSet(x.content) \cup U(x.calls) \cup R(x.answers)
    BY DEF CarriedBy
  <2>2. R(a) = {[type |-> "tool_result", val |-> a]}
    BY <1>4
  <2>3. U(<<>>) = {}
    BY <1>2
  <2>. HIDE DEF U, R
  <2>. QED  BY <1>2, <1>5, <2>1, <2>2, <2>3
<1>. QED  BY <1>3, <1>5, <1>6

\* One message.
LEMMA CarriedOne ==
  ASSUME NEW x
  PROVE  CarriedAll(<<x>>) = CarriedBy(x)
<1>1. ToSet(<<x>>) = {x}
  BY DEF ToSet
<1>. QED  BY <1>1 DEF CarriedAll

\* No message.
LEMMA CarriedNone == CarriedAll(<<>>) = {}
<1>1. ToSet(<<>>) = {}
  BY DEF ToSet
<1>. QED  BY <1>1 DEF CarriedAll

\* The values of parts.
LEMMA ValsRange ==
  ASSUME NEW s \in Seq(Part)
  PROVE  Vals(s) \in Seq(Value) /\ ToSet(Vals(s)) = {p.val : p \in ToSet(s)} /\ (Vals(s) = <<>> <=> s = <<>>)
<1>1. \A p \in Part : p.val \in Value
  BY DEF Part
<1>2. Vals(s) = [i \in DOMAIN s |-> s[i].val] /\ DOMAIN s = 1 .. Len(s) /\ Len(s) \in Nat
  BY DEF Vals
<1>3. \A i \in 1 .. Len(s) : s[i] \in Part
  OBVIOUS
<1>4. Vals(s) \in Seq(Value) /\ DOMAIN Vals(s) = DOMAIN s
  BY <1>1, <1>2, <1>3
<1>5. Vals(s) = <<>> <=> s = <<>>
  BY <1>2, <1>4
<1>6. ToSet(Vals(s)) = {p.val : p \in ToSet(s)}
  BY <1>2, <1>4 DEF ToSet
<1>. QED  BY <1>4, <1>5, <1>6

\* A plain message.
LEMMA BecomesPlain ==
  ASSUME NEW m \in Legible, m.plain
  PROVE  Becomes(m, convertAnthropicMessageToOpenAI(m))
<1>1. /\ m.role \in Roles /\ m.blocks \in Seq(Part)
      /\ \A p \in ToSet(m.blocks) : p.type = "text"
  BY LegibleIs DEF Roles
<1>0. PICK plain \in BOOLEAN : plain = TRUE
  OBVIOUS
<1>2. PICK x : x = OpenAIMessage(m.role, plain, m.blocks)
  OBVIOUS
<1>3. /\ x \in Sendable /\ x.role = m.role /\ x.content = m.blocks
      /\ x.calls = <<>> /\ x.answers = None /\ CarriedBy(x) = ToSet(m.blocks)
  BY <1>1, <1>2, SendableIs
<1>4. convertAnthropicMessageToOpenAI(m) = <<x>>
  BY <1>0, <1>2 DEF convertAnthropicMessageToOpenAI
<1>5. Carryable(m) = ToSet(m.blocks)
  BY <1>1 DEF Carryable
<1>6. UsesOf(m) = {}
  BY <1>1, UsesIs
<1>7. PICK t : t = <<x>>
  OBVIOUS
<1>8. t \in Seq(Sendable) /\ DOMAIN t = {1} /\ t[1] = x
  BY <1>3, <1>7
<1>9. CarriedAll(t) = Carryable(m)
  BY <1>3, <1>5, <1>7, CarriedOne
<1>13. x.plain
  BY <1>0, <1>2 DEF OpenAIMessage
<1>10. InHead(x) <=> InHead(m)
  BY <1>3, <1>13 DEF InHead
<1>11. x.role = "system" => InHead(x)
  BY <1>13 DEF InHead
<1>12. Becomes(m, t)
  BY <1>3, <1>6, <1>8, <1>9, <1>10, <1>11 DEF Becomes
<1>. QED  BY <1>4, <1>7, <1>12

\* The blocks of an assistant.
LEMMA BecomesAssistant ==
  ASSUME NEW m \in Legible, ~m.plain, m.role = "assistant"
  PROVE  Becomes(m, convertAnthropicMessageToOpenAI(m))
<1>1. /\ m.blocks \in Seq(Part)
      /\ \A p \in ToSet(m.blocks) :
            p.type \in {"text", "tool_use", "thinking"} /\ p.val \in Value /\ p = [type |-> p.type, val |-> p.val]
  BY LegibleIs
<1>2. PICK texts : texts = Texts(m.blocks)
  OBVIOUS
<1>3. PICK uses : uses = OfType(m.blocks, "tool_use")
  OBVIOUS
<1>4. PICK calls : calls = Vals(uses)
  OBVIOUS
<1>5. PICK x : x = Calling(texts, calls)
  OBVIOUS
<1>6. /\ texts \in Seq(Part) /\ ToSet(texts) = {p \in ToSet(m.blocks) : p.type = "text"}
      /\ uses \in Seq(Part) /\ ToSet(uses) = {p \in ToSet(m.blocks) : p.type = "tool_use"}
  BY <1>1, <1>2, <1>3, OfTypeRange DEF Texts
<1>7. calls \in Seq(Value) /\ ToSet(calls) = {p.val : p \in ToSet(uses)} /\ (calls = <<>> <=> uses = <<>>)
  BY <1>4, <1>6, ValsRange
<1>8. ToSet(calls) = UsesOf(m)
  BY <1>6, <1>7, UsesIs
<1>9. /\ x \in Sendable /\ x.role = "assistant" /\ x.calls = calls /\ x.answers = None
      /\ CarriedBy(x) = ToSet(texts) \cup {[type |-> "tool_use", val |-> c] : c \in ToSet(calls)}
  BY <1>5, <1>6, <1>7, CallingIs
<1>10. {[type |-> "tool_use", val |-> c] : c \in ToSet(calls)} = ToSet(uses)
  <2>1. \A p \in ToSet(uses) : p = [type |-> "tool_use", val |-> p.val]
    BY <1>1, <1>6
  <2>. QED  BY <1>7, <2>1
<1>11. Carryable(m) = ToSet(texts) \cup ToSet(uses)
  BY <1>1, <1>6 DEF Carryable
<1>12. convertAnthropicMessageToOpenAI(m) = IF texts = <<>> /\ calls = <<>> THEN <<>> ELSE <<x>>
  BY <1>2, <1>3, <1>4, <1>5 DEF convertAnthropicMessageToOpenAI, FromAssistant, Calling
<1>13. ~InHead(x) /\ ~InHead(m)
  BY <1>9 DEF InHead
<1>14. CASE texts = <<>> /\ calls = <<>>
  <2>1. ToSet(texts) = {} /\ ToSet(calls) = {} /\ ToSet(uses) = {}
    BY <1>7, <1>14 DEF ToSet
  <2>2. PICK t : t = <<>>
    OBVIOUS
  <2>3. t \in Seq(Sendable) /\ DOMAIN t = {} /\ CarriedAll(t) = {}
    BY <2>2, CarriedNone
  <2>4. Becomes(m, t)
    BY <1>8, <1>11, <2>1, <2>3 DEF Becomes
  <2>. QED  BY <1>12, <1>14, <2>2, <2>4
<1>15. CASE ~(texts = <<>> /\ calls = <<>>)
  <2>1. PICK t : t = <<x>>
    OBVIOUS
  <2>2. t \in Seq(Sendable) /\ DOMAIN t = {1} /\ t[1] = x /\ Len(t) = 1 /\ t # <<>>
    BY <1>9, <2>1
  <2>3. CarriedAll(t) = Carryable(m)
    BY <1>9, <1>10, <1>11, <2>1, CarriedOne
  <2>4. Becomes(m, t)
    BY <1>8, <1>9, <1>13, <2>2, <2>3 DEF Becomes
  <2>. QED  BY <1>12, <1>15, <2>1, <2>4
<1>. QED  BY <1>14, <1>15

\* The blocks of a user: first the answers, then the rest.
LEMMA BecomesUser ==
  ASSUME NEW m \in Legible, ~m.plain, m.role # "assistant"
  PROVE  Becomes(m, convertAnthropicMessageToOpenAI(m))
<1>1. /\ m.blocks \in Seq(Part)
      /\ \A p \in ToSet(m.blocks) :
            /\ p.type \in {"text", "tool_result", "image_data", "image_http"} /\ p.val \in Value
            /\ p = [type |-> p.type, val |-> p.val]
  BY LegibleIs
<1>2. PICK results : results = OfType(m.blocks, "tool_result")
  OBVIOUS
<1>3. PICK images : images = OfType(m.blocks, "image_data")
  OBVIOUS
<1>4. PICK texts : texts = Texts(m.blocks)
  OBVIOUS
<1>5. PICK content : content = texts \o images
  OBVIOUS
<1>0. PICK plain \in BOOLEAN : plain = (images = <<>>)
  OBVIOUS
<1>6. PICK x : x = OpenAIMessage("user", plain, content)
  OBVIOUS
<1>7. PICK answers : answers = [i \in DOMAIN results |-> Answering(results[i].val)]
  OBVIOUS
<1>8. PICK rest : rest = IF content = <<>> THEN <<>> ELSE <<x>>
  OBVIOUS
<1>9. convertAnthropicMessageToOpenAI(m) = answers \o rest
  <2>1. answers = [i \in DOMAIN results |-> [OpenAIMessage("tool", TRUE, <<>>) EXCEPT !.answers = results[i].val]]
    BY <1>7, Zenon DEF Answering
  <2>2. convertAnthropicMessageToOpenAI(m) = FromUser(m.blocks)
    BY DEF convertAnthropicMessageToOpenAI
  <2>3. x = OpenAIMessage("user", images = <<>>, content)
    BY <1>0, <1>6
  <2>. QED  BY <1>2, <1>3, <1>4, <1>5, <1>8, <2>1, <2>2, <2>3, Zenon DEF FromUser
<1>10. /\ texts \in Seq(Part) /\ ToSet(texts) = {p \in ToSet(m.blocks) : p.type = "text"}
       /\ results \in Seq(Part) /\ ToSet(results) = {p \in ToSet(m.blocks) : p.type = "tool_result"}
       /\ images \in Seq(Part) /\ ToSet(images) = {p \in ToSet(m.blocks) : p.type = "image_data"}
  BY <1>1, <1>2, <1>3, <1>4, OfTypeRange DEF Texts
<1>11. content \in Seq(Part) /\ ToSet(content) = ToSet(texts) \cup ToSet(images)
  BY <1>5, <1>10, ConcatRange
<1>12. /\ x \in Sendable /\ x.role = "user" /\ x.answers = None /\ x.calls = <<>> /\ CarriedBy(x) = ToSet(content)
  <2>1. "user" \in Roles
    BY DEF Roles
  <2>. QED  BY <1>6, <1>11, <2>1, SendableIs
<1>13. rest \in Seq(Sendable) /\ CarriedAll(rest) = ToSet(content) /\ \A i \in DOMAIN rest : rest[i] = x
  <2>1. CASE content = <<>>
    <3>1. rest = <<>> /\ ToSet(content) = {}
      BY <1>8, <2>1 DEF ToSet
    <3>. QED  BY <3>1, CarriedNone
  <2>2. CASE content # <<>>
    <3>1. rest = <<x>>
      BY <1>8, <2>2
    <3>. QED  BY <1>12, <3>1, CarriedOne
  <2>. QED  BY <2>1, <2>2
<1>14. /\ DOMAIN results = 1 .. Len(results) /\ Len(results) \in Nat
       /\ \A i \in DOMAIN results : results[i] \in ToSet(results)
  BY <1>10 DEF ToSet
<1>15. \A i \in DOMAIN results :
          /\ answers[i] \in Sendable /\ answers[i].role = "tool" /\ answers[i].answers = results[i].val
          /\ answers[i].calls = <<>> /\ answers[i].answers \in ResultsOf(m)
          /\ CarriedBy(answers[i]) = {results[i]}
  <2>. SUFFICES ASSUME NEW i \in DOMAIN results
                PROVE  /\ answers[i] \in Sendable /\ answers[i].role = "tool" /\ answers[i].answers = results[i].val
                       /\ answers[i].calls = <<>> /\ answers[i].answers \in ResultsOf(m)
                       /\ CarriedBy(answers[i]) = {results[i]}
    OBVIOUS
  <2>1. PICK r : r = results[i]
    OBVIOUS
  <2>2. PICK y : y = Answering(r.val)
    OBVIOUS
  <2>3. answers[i] = y
    BY <1>7, <2>1, <2>2
  <2>4. r \in ToSet(m.blocks) /\ r.type = "tool_result" /\ r.val \in Value /\ r = [type |-> "tool_result", val |-> r.val]
    BY <1>1, <1>10, <1>14, <2>1
  <2>5. /\ y \in Sendable /\ y.role = "tool" /\ y.answers = r.val /\ y.calls = <<>>
        /\ CarriedBy(y) = {[type |-> "tool_result", val |-> r.val]}
    BY <2>2, <2>4, AnswerIs
  <2>6. r.val \in ResultsOf(m)
    BY <2>4, UsesIs
  <2>. QED  BY <2>1, <2>3, <2>4, <2>5, <2>6
<1>16. answers \in Seq(Sendable) /\ DOMAIN answers = 1 .. Len(results) /\ Len(answers) = Len(results)
  <2>1. answers = [i \in 1 .. Len(results) |-> answers[i]]
    BY <1>7, <1>14
  <2>2. \A i \in 1 .. Len(results) : answers[i] \in Sendable
    BY <1>14, <1>15
  <2>. QED  BY <1>14, <2>1, <2>2
<1>17. CarriedAll(answers) = ToSet(results)
  <2>1. CarriedAll(answers) = UNION {CarriedBy(answers[i]) : i \in DOMAIN answers}
    BY DEF CarriedAll, ToSet
  <2>. QED  BY <1>14, <1>15, <1>16, <2>1 DEF ToSet
<1>18. PICK t : t = answers \o rest
  OBVIOUS
<1>19. t \in Seq(Sendable) /\ ToSet(t) = ToSet(answers) \cup ToSet(rest)
  BY <1>13, <1>16, <1>18, ConcatRange
<1>20. CarriedAll(t) = CarriedAll(answers) \cup CarriedAll(rest)
  BY <1>19 DEF CarriedAll
<1>21. Carryable(m) = ToSet(results) \cup ToSet(content)
  BY <1>1, <1>10, <1>11 DEF Carryable
<1>22. \A i \in DOMAIN t : \/ i \in DOMAIN results /\ t[i] = answers[i]
                           \/ i \notin DOMAIN results /\ t[i] = x
  <2>1. /\ Len(t) = Len(answers) + Len(rest)
        /\ \A i \in 1 .. Len(answers) + Len(rest) : t[i] = IF i <= Len(answers) THEN answers[i] ELSE rest[i - Len(answers)]
    BY <1>13, <1>16, <1>18, ConcatProperties
  <2>2. DOMAIN t = 1 .. Len(t) /\ Len(rest) \in Nat /\ DOMAIN rest = 1 .. Len(rest)
    BY <1>13, <1>19
  <2>. SUFFICES ASSUME NEW i \in 1 .. Len(answers) + Len(rest)
                PROVE  \/ i \in DOMAIN results /\ t[i] = answers[i]
                       \/ i \notin DOMAIN results /\ t[i] = x
    BY <2>1, <2>2
  <2>3. CASE i <= Len(answers)
    BY <1>14, <1>16, <2>1, <2>3
  <2>4. CASE ~(i <= Len(answers))
    <3>1. i - Len(answers) \in DOMAIN rest /\ i \notin DOMAIN results
      BY <1>14, <1>16, <2>2, <2>4
    <3>. QED  BY <1>13, <2>1, <2>4, <3>1
  <2>. QED  BY <2>3, <2>4
<1>23. ~InHead(m)
  BY DEF InHead
<1>24. ASSUME NEW i \in DOMAIN t
       PROVE  /\ t[i].role \in {"tool", "user"}
              /\ t[i].answers # None => i \in DOMAIN results /\ t[i].answers \in ResultsOf(m)
  <2>1. CASE i \in DOMAIN results /\ t[i] = answers[i]
    BY <1>15, <2>1
  <2>2. CASE i \notin DOMAIN results /\ t[i] = x
    BY <1>12, <2>2
  <2>. QED  BY <1>22, <2>1, <2>2
<1>25. ASSUME NEW i \in DOMAIN t, t[i].answers # None
       PROVE  t[i].answers \in ResultsOf(m) /\ \A k \in 1 .. i : t[k].role = "tool"
  <2>1. i \in DOMAIN results /\ t[i].answers \in ResultsOf(m)
    BY <1>24, <1>25
  <2>. SUFFICES ASSUME NEW k \in 1 .. i PROVE t[k].role = "tool"
    BY <2>1
  <2>2. k \in DOMAIN results /\ k \in DOMAIN t
    <3>1. DOMAIN t = 1 .. Len(t) /\ Len(t) \in Nat
      BY <1>19
    <3>. QED  BY <1>14, <2>1, <3>1
  <2>. QED  BY <1>15, <1>22, <2>2
<1>26. \A i \in DOMAIN t : ~InHead(t[i]) /\ t[i].role # "system"
  BY <1>24 DEF InHead
<1>27. Becomes(m, t)
  BY <1>13, <1>17, <1>19, <1>20, <1>21, <1>23, <1>25, <1>26 DEF Becomes
<1>. QED  BY <1>9, <1>18, <1>27

\* Every message.
LEMMA BecomesIs ==
  ASSUME NEW m \in Legible
  PROVE  Becomes(m, convertAnthropicMessageToOpenAI(m))
BY BecomesPlain, BecomesAssistant, BecomesUser

-----------------------------------------------------------------------------
(***************************************************************************)
(* Calls that may still be answered, in either protocol.                   *)
(***************************************************************************)
Awaits(s, c) ==
    \E j \in DOMAIN s : c \in ToSet(s[j].calls) /\ \A k \in j + 1 .. Len(s) : s[k].role = "tool"
AwaitsUse(ms, r) ==
    \E j \in DOMAIN ms :
        /\ ms[j].role = "assistant" /\ r \in UsesOf(ms[j])
        /\ \A k \in j + 1 .. Len(ms) : InHead(ms[k])

\* Messages are added whose answers are awaited.
LEMMA LegalConcat ==
  ASSUME NEW S, NEW s \in Seq(S), NEW t \in Seq(S), LegalOpenAI(s),
         \A i \in DOMAIN t : t[i].answers # None =>
             Awaits(s, t[i].answers) /\ \A k \in 1 .. i : t[k].role = "tool"
  PROVE  LegalOpenAI(s \o t)
<1>1. PICK u : u = s \o t
  OBVIOUS
<1>2. PICK l : l = Len(s)
  OBVIOUS
<1>3. /\ l \in Nat /\ Len(t) \in Nat /\ Len(u) = l + Len(t) /\ DOMAIN u = 1 .. l + Len(t)
      /\ DOMAIN s = 1 .. l /\ DOMAIN t = 1 .. Len(t)
      /\ \A i \in 1 .. l + Len(t) : u[i] = IF i <= l THEN s[i] ELSE t[i - l]
  BY <1>1, <1>2, ConcatProperties
<1>4. ASSUME NEW i \in DOMAIN u, u[i].answers # None
      PROVE  \E j \in 1 .. i - 1 :
                /\ u[i].answers \in ToSet(u[j].calls)
                /\ \A k \in j + 1 .. i - 1 : u[k].role = "tool"
  <2>1. CASE i <= l
    <3>1. i \in DOMAIN s /\ u[i] = s[i]
      BY <1>3, <2>1
    <3>2. PICK j \in 1 .. i - 1 : /\ s[i].answers \in ToSet(s[j].calls)
                                  /\ \A k \in j + 1 .. i - 1 : s[k].role = "tool"
      BY <1>4, <3>1 DEF LegalOpenAI
    <3>3. \A k \in 1 .. i - 1 : u[k] = s[k]
      BY <1>3, <2>1
    <3>4. \A k \in j + 1 .. i - 1 : k \in 1 .. i - 1
      BY <1>3
    <3>. QED  BY <3>1, <3>2, <3>3, <3>4
  <2>2. CASE ~(i <= l)
    <3>1. PICK n : n = i - l
      OBVIOUS
    <3>2. n \in DOMAIN t /\ u[i] = t[n]
      BY <1>3, <2>2, <3>1
    <3>3. Awaits(s, t[n].answers) /\ \A k \in 1 .. n : t[k].role = "tool"
      BY <1>4, <3>2
    <3>4. PICK j \in DOMAIN s : t[n].answers \in ToSet(s[j].calls) /\ \A k \in j + 1 .. Len(s) : s[k].role = "tool"
      BY <3>3 DEF Awaits
    <3>5. j \in 1 .. i - 1 /\ j \in 1 .. l + Len(t) /\ j <= l
      BY <1>3, <2>2, <3>4
    <3>6. u[j] = s[j]
      BY <1>3, <3>5
    <3>7. \A k \in j + 1 .. i - 1 : u[k].role = "tool"
      <4>. SUFFICES ASSUME NEW k \in j + 1 .. i - 1 PROVE u[k].role = "tool"
        OBVIOUS
      <4>1. k \in 1 .. l + Len(t) /\ k \in Int
        BY <1>3, <3>5
      <4>2. CASE k <= l
        <5>1. k \in j + 1 .. Len(s) /\ u[k] = s[k]
          BY <1>2, <1>3, <4>1, <4>2
        <5>. QED  BY <3>4, <5>1
      <4>3. CASE ~(k <= l)
        <5>1. k - l \in 1 .. n /\ u[k] = t[k - l]
          BY <1>3, <3>1, <4>1, <4>3
        <5>. QED  BY <3>3, <5>1
      <4>. QED  BY <4>2, <4>3
    <3>. QED  BY <3>2, <3>4, <3>5, <3>6, <3>7
  <2>. QED  BY <2>1, <2>2
<1>5. LegalOpenAI(u)
  BY <1>4, Zenon DEF LegalOpenAI
<1>. QED  BY <1>1, <1>5

\* The calls of the last message are awaited.
LEMMA AwaitsLast ==
  ASSUME NEW S, NEW s \in Seq(S), NEW t \in Seq(S), t # <<>>, NEW c, c \in ToSet(t[Len(t)].calls)
  PROVE  Awaits(s \o t, c)
<1>1. PICK u : u = s \o t
  OBVIOUS
<1>2. PICK n : n = Len(s) + Len(t)
  OBVIOUS
<1>3. n \in Nat /\ Len(u) = n /\ n \in DOMAIN u /\ u[n] = t[Len(t)]
  <2>1. Len(s) \in Nat /\ Len(t) \in Nat /\ Len(t) > 0
    OBVIOUS
  <2>2. Len(u) = n /\ DOMAIN u = 1 .. n /\ \A i \in 1 .. n : u[i] = IF i <= Len(s) THEN s[i] ELSE t[i - Len(s)]
    BY <1>1, <1>2, <2>1, ConcatProperties
  <2>3. n \in 1 .. n /\ ~(n <= Len(s)) /\ n - Len(s) = Len(t) /\ n \in Nat
    BY <1>2, <2>1
  <2>. QED  BY <2>2, <2>3
<1>4. \A k \in n + 1 .. Len(u) : u[k].role = "tool"
  BY <1>3
<1>5. Awaits(u, c)
  BY <1>3, <1>4 DEF Awaits
<1>. QED  BY <1>1, <1>5

\* A first message that answers nothing.
LEMMA LegalShift ==
  ASSUME NEW S, NEW s \in Seq(S), NEW x \in S, x.answers = None, LegalOpenAI(s)
  PROVE  LegalOpenAI(<<x>> \o s)
<1>1. PICK u : u = <<x>> \o s
  OBVIOUS
<1>2. /\ Len(s) \in Nat /\ DOMAIN s = 1 .. Len(s) /\ Len(u) = Len(s) + 1 /\ DOMAIN u = 1 .. Len(s) + 1
      /\ u[1] = x /\ \A i \in 1 .. Len(s) : u[i + 1] = s[i]
  BY <1>1
<1>3. ASSUME NEW i \in DOMAIN u, u[i].answers # None
      PROVE  \E j \in 1 .. i - 1 :
                /\ u[i].answers \in ToSet(u[j].calls)
                /\ \A k \in j + 1 .. i - 1 : u[k].role = "tool"
  <2>1. i # 1
    BY <1>2, <1>3
  <2>2. PICK n : n = i - 1
    OBVIOUS
  <2>3. n \in DOMAIN s /\ i = n + 1 /\ u[i] = s[n]
    BY <1>2, <2>1, <2>2
  <2>4. PICK j \in 1 .. n - 1 : /\ s[n].answers \in ToSet(s[j].calls)
                                /\ \A k \in j + 1 .. n - 1 : s[k].role = "tool"
    BY <1>3, <2>3 DEF LegalOpenAI
  <2>5. j + 1 \in 1 .. i - 1 /\ u[j + 1] = s[j]
    BY <1>2, <2>3, <2>4
  <2>6. \A k \in (j + 1) + 1 .. i - 1 : u[k].role = "tool"
    <3>. SUFFICES ASSUME NEW k \in (j + 1) + 1 .. i - 1 PROVE u[k].role = "tool"
      OBVIOUS
    <3>1. k - 1 \in j + 1 .. n - 1 /\ k - 1 \in 1 .. Len(s) /\ (k - 1) + 1 = k
      BY <1>2, <2>3, <2>4
    <3>2. u[k] = s[k - 1]
      BY <1>2, <3>1
    <3>. QED  BY <2>4, <3>1, <3>2
  <2>. QED  BY <2>3, <2>4, <2>5, <2>6
<1>4. LegalOpenAI(u)
  BY <1>3, Zenon DEF LegalOpenAI
<1>. QED  BY <1>1, <1>4

-----------------------------------------------------------------------------
(***************************************************************************)
(* A conversation of a client of the Anthropic protocol.                   *)
(***************************************************************************)
Converted(ms) == FlattenSeq([i \in DOMAIN ms |-> convertAnthropicMessageToOpenAI(ms[i])])

\* What becomes of a conversation is what becomes of its messages, in their order.
LEMMA ConvertedIs ==
  ASSUME NEW ms \in Seq(Legible)
  PROVE  /\ Converted(ms) \in Seq(Sendable)
         /\ ToSet(Converted(ms)) = UNION {ToSet(convertAnthropicMessageToOpenAI(ms[i])) : i \in DOMAIN ms}
         /\ \A m \in Legible : Converted(Append(ms, m)) = Converted(ms) \o convertAnthropicMessageToOpenAI(m)
<1>. DEFINE To(m) == convertAnthropicMessageToOpenAI(m)
            cs(s) == [i \in DOMAIN s |-> To(s[i])]
<1>1. \A m \in Legible : To(m) \in Seq(Sendable)
  BY BecomesIs DEF Becomes
<1>2. \A s : Converted(s) = FlattenSeq(cs(s))
  BY DEF Converted
<1>3. ToSet(Converted(ms)) = UNION {ToSet(To(ms[i])) : i \in DOMAIN ms} /\ Converted(ms) \in Seq(Sendable)
        /\ cs(ms) \in Seq(Seq(Sendable))
  <2>. HIDE DEF To
  <2>1. cs(ms) \in Seq(Seq(Sendable)) /\ DOMAIN cs(ms) = DOMAIN ms /\ \A i \in DOMAIN ms : cs(ms)[i] = To(ms[i])
    <3>. DEFINE T == Seq(Sendable)
    <3>1. \A m \in Legible : To(m) \in T
      BY <1>1
    <3>. HIDE DEF T
    <3>2. DOMAIN ms = 1 .. Len(ms) /\ Len(ms) \in Nat /\ \A i \in 1 .. Len(ms) : ms[i] \in Legible
      OBVIOUS
    <3>3. cs(ms) \in Seq(T)
      BY <3>1, <3>2
    <3>. QED  BY <3>3 DEF T
  <2>. HIDE DEF cs
  <2>2. FlattenSeq(cs(ms)) \in Seq(Sendable)
    BY <2>1, FlattenType
  <2>3. ToSet(FlattenSeq(cs(ms))) = UNION {ToSet(cs(ms)[i]) : i \in DOMAIN cs(ms)}
    BY <2>1, FlattenRange
  <2>4. UNION {ToSet(cs(ms)[i]) : i \in DOMAIN cs(ms)} = UNION {ToSet(To(ms[i])) : i \in DOMAIN ms}
    BY <2>1
  <2>. QED  BY <1>2, <2>1, <2>2, <2>3, <2>4
<1>4. ASSUME NEW m \in Legible PROVE Converted(Append(ms, m)) = Converted(ms) \o To(m)
  <2>. HIDE DEF To
  <2>1. PICK u : u = Append(ms, m)
    OBVIOUS
  <2>2. /\ Len(ms) \in Nat /\ DOMAIN u = 1 .. Len(ms) + 1 /\ u[Len(ms) + 1] = m
        /\ \A i \in 1 .. Len(ms) : u[i] = ms[i]
    BY <2>1
  <2>3. cs(u) = Append(cs(ms), To(m))
    <3>1. /\ cs(u) = [i \in 1 .. Len(ms) + 1 |-> To(u[i])]
          /\ cs(ms) = [i \in 1 .. Len(ms) |-> To(ms[i])] /\ Len(cs(ms)) = Len(ms)
      BY <2>2
    <3>. QED  BY <2>2, <3>1
  <2>4. To(m) \in Seq(Sendable)
    BY <1>1
  <2>. HIDE DEF cs
  <2>5. FlattenSeq(Append(cs(ms), To(m))) = FlattenSeq(cs(ms)) \o To(m)
    BY <1>3, <2>4, FlattenAppend
  <2>. QED  BY <1>2, <2>1, <2>3, <2>5
<1>. QED  BY <1>3, <1>4

\* A conversation and one message more.
LEMMA LegalPrefix ==
  ASSUME NEW ms \in Seq(Legible), NEW m \in Legible, LegalAnthropic(Append(ms, m))
  PROVE  /\ LegalAnthropic(ms)
         /\ \A r \in ResultsOf(m) : AwaitsUse(ms, r)
         /\ \A r : AwaitsUse(Append(ms, m), r) =>
               IF InHead(m) THEN AwaitsUse(ms, r) ELSE m.role = "assistant" /\ r \in UsesOf(m)
<1>1. PICK u : u = Append(ms, m)
  OBVIOUS
<1>2. PICK l : l = Len(ms)
  OBVIOUS
<1>3. /\ l \in Nat /\ DOMAIN ms = 1 .. l /\ DOMAIN u = 1 .. l + 1 /\ Len(u) = l + 1
      /\ u[l + 1] = m /\ \A i \in 1 .. l : u[i] = ms[i]
  BY <1>1, <1>2
<1>4. \A i \in DOMAIN u : \A r \in ResultsOf(u[i]) :
         \E j \in 1 .. i - 1 : /\ u[j].role = "assistant" /\ r \in UsesOf(u[j])
                               /\ \A k \in j + 1 .. i - 1 : InHead(u[k])
  BY <1>1, Zenon DEF LegalAnthropic
<1>5. LegalAnthropic(ms)
  <2>1. ASSUME NEW i \in DOMAIN ms, NEW r \in ResultsOf(ms[i])
        PROVE  \E j \in 1 .. i - 1 : /\ ms[j].role = "assistant" /\ r \in UsesOf(ms[j])
                                     /\ \A k \in j + 1 .. i - 1 : InHead(ms[k])
    <3>1. i \in DOMAIN u /\ u[i] = ms[i] /\ \A k \in 1 .. i - 1 : u[k] = ms[k]
      BY <1>3
    <3>2. PICK j \in 1 .. i - 1 : /\ u[j].role = "assistant" /\ r \in UsesOf(u[j])
                                  /\ \A k \in j + 1 .. i - 1 : InHead(u[k])
      BY <1>4, <3>1
    <3>3. \A k \in j + 1 .. i - 1 : k \in 1 .. i - 1
      BY <1>3
    <3>. QED  BY <3>1, <3>2, <3>3
  <2>. QED  BY <2>1, Zenon DEF LegalAnthropic
<1>6. ASSUME NEW r \in ResultsOf(m) PROVE AwaitsUse(ms, r)
  <2>1. l + 1 \in DOMAIN u /\ (l + 1) - 1 = l
    BY <1>3
  <2>2. PICK j \in 1 .. l : /\ u[j].role = "assistant" /\ r \in UsesOf(u[j])
                            /\ \A k \in j + 1 .. l : InHead(u[k])
    BY <1>3, <1>4, <2>1
  <2>3. \A k \in j + 1 .. l : k \in 1 .. l
    BY <1>3
  <2>. QED  BY <1>2, <1>3, <2>2, <2>3 DEF AwaitsUse
<1>7. ASSUME NEW r, AwaitsUse(u, r)
      PROVE  IF InHead(m) THEN AwaitsUse(ms, r) ELSE m.role = "assistant" /\ r \in UsesOf(m)
  <2>1. PICK j \in 1 .. l + 1 : /\ u[j].role = "assistant" /\ r \in UsesOf(u[j])
                                /\ \A k \in j + 1 .. l + 1 : InHead(u[k])
    BY <1>3, <1>7 DEF AwaitsUse
  <2>2. CASE j = l + 1
    BY <1>3, <2>1, <2>2 DEF InHead
  <2>3. CASE j # l + 1
    <3>1. j \in 1 .. l /\ l + 1 \in j + 1 .. l + 1 /\ \A k \in j + 1 .. l : k \in j + 1 .. l + 1 /\ k \in 1 .. l
      BY <1>3, <2>1, <2>3
    <3>2. InHead(m)
      BY <1>3, <2>1, <3>1
    <3>. QED  BY <1>2, <1>3, <2>1, <3>1, <3>2 DEF AwaitsUse
  <2>. QED  BY <2>2, <2>3
<1>. QED  BY <1>1, <1>5, <1>6, <1>7

\* What stays of a legal conversation is one, and it awaits what the client's does.
LEMMA ConvertedLegal ==
  ASSUME NEW ms \in Seq(Legible), LegalAnthropic(ms)
  PROVE  LegalOpenAI(Said(Converted(ms)))
<1>. DEFINE Fine(s) == /\ LegalOpenAI(Said(Converted(s)))
                       /\ \A r : AwaitsUse(s, r) => Awaits(Said(Converted(s)), r)
            G == {s \in Seq(Legible) : LegalAnthropic(s) => Fine(s)}
<1>1. <<>> \in G
  <2>1. Converted(<<>>) = <<>>
    BY FlattenEmpty DEF Converted
  <2>2. Said(<<>>) = <<>>
    BY PickEmpty DEF Said
  <2>3. LegalOpenAI(<<>>) /\ \A r : ~AwaitsUse(<<>>, r)
    BY DEF LegalOpenAI, AwaitsUse
  <2>. QED  BY <2>1, <2>2, <2>3
<1>2. \A s \in Seq(Legible), m \in Legible : s \in G => Append(s, m) \in G
  <2>. SUFFICES ASSUME NEW s \in Seq(Legible), NEW m \in Legible, s \in G, LegalAnthropic(Append(s, m))
                PROVE  Fine(Append(s, m))
    OBVIOUS
  <2>1. /\ LegalAnthropic(s)
        /\ \A r \in ResultsOf(m) : AwaitsUse(s, r)
        /\ \A r : AwaitsUse(Append(s, m), r) =>
              IF InHead(m) THEN AwaitsUse(s, r) ELSE m.role = "assistant" /\ r \in UsesOf(m)
    BY LegalPrefix
  <2>2. LegalOpenAI(Said(Converted(s))) /\ \A r : AwaitsUse(s, r) => Awaits(Said(Converted(s)), r)
    BY <2>1
  <2>3. PICK a : a = Converted(s)
    OBVIOUS
  <2>4. PICK t : t = convertAnthropicMessageToOpenAI(m)
    OBVIOUS
  <2>5. a \in Seq(Sendable) /\ Converted(Append(s, m)) = a \o t
    BY <2>3, <2>4, ConvertedIs
  <2>6. Becomes(m, t) /\ t \in Seq(Sendable)
    BY <2>4, BecomesIs DEF Becomes
  <2>7. Said(a \o t) = Said(a) \o Said(t) /\ Said(a) \in Seq(Sendable)
    <3>1. \A d \in Seq(Sendable) : Said(a \o d) = Said(a) \o Said(d)
      BY <2>5, SaidConcat
    <3>2. Said(a) \in Seq(Sendable)
      BY <2>5, SaidRange
    <3>. QED  BY <2>6, <3>1, <3>2
  <2>. HIDE DEF G
  <2>8. CASE InHead(m)
    <3>1. Said(t) = <<>>
      BY <2>6, <2>8, SaidAll DEF Becomes
    <3>2. Said(a \o t) = Said(a)
      BY <2>7, <3>1
    <3>. QED  BY <2>1, <2>2, <2>3, <2>5, <2>8, <3>2
  <2>9. CASE ~InHead(m)
    <3>1. Said(t) = t
      BY <2>6, <2>9, SaidAll DEF Becomes
    <3>2. PICK b : b = Said(a)
      OBVIOUS
    <3>3. b \in Seq(Sendable) /\ Said(Converted(Append(s, m))) = b \o t
      BY <2>5, <2>7, <3>1, <3>2
    <3>4. \A i \in DOMAIN t : t[i].answers # None =>
             Awaits(b, t[i].answers) /\ \A k \in 1 .. i : t[k].role = "tool"
      BY <2>1, <2>2, <2>3, <2>6, <3>2 DEF Becomes
    <3>5. LegalOpenAI(b \o t)
      BY <2>2, <2>3, <2>6, <3>2, <3>3, <3>4, LegalConcat
    <3>6. ASSUME NEW r, AwaitsUse(Append(s, m), r) PROVE Awaits(b \o t, r)
      <4>1. m.role = "assistant" /\ r \in UsesOf(m)
        BY <2>1, <2>9, <3>6
      <4>2. t # <<>> /\ r \in ToSet(t[Len(t)].calls)
        BY <2>6, <4>1 DEF Becomes
      <4>. QED  BY <2>6, <3>3, <4>2, AwaitsLast
    <3>. QED  BY <3>3, <3>5, <3>6
  <2>. QED  BY <2>8, <2>9
<1>. HIDE DEF G
<1>3. \A s \in Seq(Legible) : s \in G
  BY <1>1, <1>2, SeqInduction, Zenon
<1>. QED  BY <1>3 DEF G

CarriedOf(T) == UNION {CarriedBy(m) : m \in T}

\* What two sets of messages carry.
LEMMA CarriedUnion ==
  ASSUME NEW A, NEW B
  PROVE  CarriedOf(A \cup B) = CarriedOf(A) \cup CarriedOf(B)
BY Zenon DEF CarriedOf

\* The system messages at the head become one, with all that they say.
LEMMA Collapsed ==
  ASSUME NEW s \in Seq(Sendable), \A x \in ToSet(s) : InHead(x) => x.calls = <<>> /\ x.answers = None,
         LegalOpenAI(Said(s)), \A x \in ToSet(s) : x.role = "system" => InHead(x),
         NEW c, c = collapseSystemMessagesToHead(s)
  PROVE  /\ LegalOpenAI(c) /\ c \in Seq(Sendable)
         /\ \A i \in DOMAIN c : c[i].role = "system" => i = 1
         /\ CarriedAll(c) = CarriedAll(s)
<1>. DEFINE head == Heads(s)
            contents == [i \in DOMAIN head |-> head[i].content]
            text == FlattenSeq(contents)
            x == OpenAIMessage("system", TRUE, text)
            first == IF text = <<>> THEN <<>> ELSE <<x>>
            said == Said(s)
<1>1. c = first \o said
  <2>1. Those(s, InHead) = head
    BY Zenon DEF Those, Heads
  <2>2. Those(s, LAMBDA m : ~InHead(m)) = said
    BY Zenon DEF Those, Said
  <2>. QED  BY <2>1, <2>2, Zenon DEF collapseSystemMessagesToHead
<1>2. /\ said \in Seq(Sendable) /\ ToSet(said) = {m \in ToSet(s) : ~InHead(m)}
      /\ head \in Seq(Sendable) /\ ToSet(head) = {m \in ToSet(s) : InHead(m)}
  BY SaidRange
<1>. HIDE DEF head, said
<1>3. \A m \in Sendable : m.content \in Seq(Part)
  BY DEF Sendable
<1>4. contents \in Seq(Seq(Part)) /\ DOMAIN contents = DOMAIN head
      /\ \A i \in DOMAIN head : contents[i] = head[i].content
  <2>. DEFINE T == Seq(Part)
  <2>1. \A m \in Sendable : m.content \in T
    BY <1>3
  <2>. HIDE DEF T
  <2>2. DOMAIN head = 1 .. Len(head) /\ Len(head) \in Nat /\ \A i \in 1 .. Len(head) : head[i] \in Sendable
    BY <1>2
  <2>3. contents \in Seq(T)
    BY <2>1, <2>2
  <2>. QED  BY <2>3 DEF T
<1>. HIDE DEF contents
<1>5. text \in Seq(Part) /\ ToSet(text) = UNION {ToSet(contents[i]) : i \in DOMAIN contents}
  BY <1>4, FlattenType, FlattenRange
<1>6. ToSet(text) = UNION {CarriedBy(m) : m \in {y \in ToSet(s) : InHead(y)}}
  <2>1. \A m \in ToSet(head) : CarriedBy(m) = ToSet(m.content)
    <3>. SUFFICES ASSUME NEW m \in ToSet(head) PROVE CarriedBy(m) = ToSet(m.content)
      OBVIOUS
    <3>1. m.calls = <<>> /\ m.answers = None
      BY <1>2
    <3>2. ToSet(<<>>) = {}
      BY DEF ToSet
    <3>. QED  BY <3>1, <3>2 DEF CarriedBy
  <2>2. UNION {ToSet(contents[i]) : i \in DOMAIN contents} = UNION {ToSet(m.content) : m \in ToSet(head)}
    <3>. DEFINE Con(m) == ToSet(m.content)
    <3>1. \A i \in DOMAIN contents : ToSet(contents[i]) = Con(head[i]) /\ i \in DOMAIN head
      BY <1>4
    <3>2. ToSet(head) = {head[i] : i \in DOMAIN contents}
      BY <1>4 DEF ToSet
    <3>. HIDE DEF Con
    <3>3. UNION {ToSet(contents[i]) : i \in DOMAIN contents} = UNION {Con(head[i]) : i \in DOMAIN contents}
      BY <3>1
    <3>4. UNION {Con(head[i]) : i \in DOMAIN contents} = UNION {Con(m) : m \in ToSet(head)}
      BY <3>2
    <3>. QED  BY <3>3, <3>4 DEF Con
  <2>3. UNION {ToSet(m.content) : m \in ToSet(head)} = UNION {CarriedBy(m) : m \in ToSet(head)}
    BY <2>1
  <2>. QED  BY <1>2, <1>5, <2>2, <2>3
<1>. HIDE DEF text
<1>7. /\ x \in Sendable /\ x.role = "system" /\ x.answers = None /\ CarriedBy(x) = ToSet(text)
  <2>1. PICK plain \in BOOLEAN : plain = TRUE
    OBVIOUS
  <2>2. PICK y : y = OpenAIMessage("system", plain, text)
    OBVIOUS
  <2>3. "system" \in Roles
    BY DEF Roles
  <2>4. y \in Sendable /\ y.role = "system" /\ y.answers = None /\ CarriedBy(y) = ToSet(text)
    BY <1>5, <2>2, <2>3, SendableIs
  <2>5. x = y
    BY <2>1, <2>2
  <2>. QED  BY <2>4, <2>5
<1>. HIDE DEF x
<1>8. CarriedAll(first) = ToSet(text) /\ first \in Seq(Sendable)
  <2>1. CASE text = <<>>
    <3>1. ToSet(text) = {} /\ first = <<>>
      BY <2>1 DEF ToSet
    <3>. QED  BY <3>1, CarriedNone
  <2>2. CASE text # <<>>
    <3>1. first = <<x>>
      BY <2>2
    <3>. QED  BY <1>7, <3>1, CarriedOne
  <2>. QED  BY <2>1, <2>2
<1>14. c = IF text = <<>> THEN said ELSE <<x>> \o said
  BY <1>1, <1>2
<1>. HIDE DEF first
<1>9. CarriedAll(c) = CarriedAll(s)
  <2>1. ToSet(c) = ToSet(first) \cup ToSet(said)
    BY <1>1, <1>2, <1>8, ConcatRange
  <2>2. CarriedAll(c) = CarriedAll(first) \cup CarriedAll(said)
    BY <2>1 DEF CarriedAll
  <2>3. PICK A : A = {y \in ToSet(s) : InHead(y)}
    OBVIOUS
  <2>4. PICK B : B = {y \in ToSet(s) : ~InHead(y)}
    OBVIOUS
  <2>5. CarriedAll(said) = CarriedOf(B)
    BY <1>2, <2>4 DEF CarriedAll, CarriedOf
  <2>6. CarriedAll(s) = CarriedOf(A \cup B)
    <3>1. ToSet(s) = A \cup B
      BY <2>3, <2>4
    <3>. QED  BY <3>1 DEF CarriedAll, CarriedOf
  <2>7. ToSet(text) = CarriedOf(A)
    BY <1>6, <2>3 DEF CarriedOf
  <2>. QED  BY <1>8, <2>2, <2>5, <2>6, <2>7, CarriedUnion
<1>10. \A i \in DOMAIN said : said[i].role # "system"
  <2>. SUFFICES ASSUME NEW i \in DOMAIN said PROVE said[i].role # "system"
    OBVIOUS
  <2>1. said[i] \in ToSet(said)
    BY DEF ToSet
  <2>. QED  BY <1>2, <2>1
<1>11. LegalOpenAI(said)
  BY DEF said
<1>12. CASE text = <<>>
  <2>1. c = said
    BY <1>12, <1>14
  <2>. QED  BY <1>2, <1>9, <1>10, <1>11, <2>1
<1>13. CASE text # <<>>
  <2>1. c = <<x>> \o said
    BY <1>13, <1>14
  <2>2. LegalOpenAI(c)
    BY <1>2, <1>7, <1>11, <2>1, LegalShift
  <2>3. c \in Seq(Sendable) /\ DOMAIN c = 1 .. Len(said) + 1
        /\ \A i \in DOMAIN c : i # 1 => i - 1 \in DOMAIN said /\ c[i] = said[i - 1]
    BY <1>2, <1>7, <2>1
  <2>4. \A i \in DOMAIN c : c[i].role = "system" => i = 1
    BY <1>10, <2>3
  <2>. QED  BY <1>9, <2>2, <2>3, <2>4
<1>. QED  BY <1>12, <1>13

\* A request of a client of the Anthropic protocol.
LEMMA SentToOpenAI ==
  ASSUME NEW r \in AnthropicRequests, NEW c, c = AnthropicToOpenAI(r)
  PROVE  /\ LegalOpenAI(c) /\ \A i \in DOMAIN c : c[i].role = "system" => i = 1
         /\ {p \in PartsOf(r.messages, "blocks") : p.type \notin {"thinking", "image_http"}} \cup ToSet(r.system)
               = CarriedAll(c)
<1>. DEFINE ms == r.messages
            all == Converted(ms)
            x == OpenAIMessage("system", TRUE, r.system)
            first == IF r.system = <<>> THEN <<>> ELSE <<x>>
            s == first \o all
<1>1. /\ r.system \in Parts({"text"}) /\ ms \in Seq(AnthropicMessages) /\ LegalAnthropic(ms)
      /\ \A i \in DOMAIN ms : ms[i].plain => ms[i].blocks \in Parts({"text"})
  BY RequestsAssumption
<1>2. ms \in Seq(Legible)
  <2>1. \A i \in 1 .. Len(ms) : ms[i] \in Legible
    BY <1>1 DEF Legible
  <2>2. Len(ms) \in Nat /\ ms = [i \in 1 .. Len(ms) |-> ms[i]]
    BY <1>1
  <2>. QED  BY <2>1, <2>2
<1>3. r.system \in Seq(Part)
  <2>1. [type : {"text"}, val : Value] \subseteq Part
    BY DEF Part, PartTypes
  <2>2. r.system \in Seq([type : {"text"}, val : Value])
    BY <1>1 DEF Parts
  <2>. DEFINE A == [type : {"text"}, val : Value]
  <2>3. A \subseteq Part /\ r.system \in Seq(A)
    BY <2>1, <2>2
  <2>. HIDE DEF A
  <2>. QED  BY <2>3
<1>4. c = collapseSystemMessagesToHead(s)
  BY Zenon DEF AnthropicToOpenAI, Converted
<1>. HIDE DEF ms
<1>5. /\ all \in Seq(Sendable) /\ LegalOpenAI(Said(all))
      /\ ToSet(all) = UNION {ToSet(convertAnthropicMessageToOpenAI(ms[i])) : i \in DOMAIN ms}
  BY <1>1, <1>2, ConvertedIs, ConvertedLegal
<1>. HIDE DEF all
<1>6. /\ x \in Sendable /\ InHead(x) /\ x.calls = <<>> /\ x.answers = None /\ CarriedBy(x) = ToSet(r.system)
  <2>1. PICK plain \in BOOLEAN : plain = TRUE
    OBVIOUS
  <2>2. PICK y : y = OpenAIMessage("system", plain, r.system)
    OBVIOUS
  <2>3. "system" \in Roles
    BY DEF Roles
  <2>4. y \in Sendable /\ y.role = "system" /\ y.calls = <<>> /\ y.answers = None /\ CarriedBy(y) = ToSet(r.system)
    BY <1>3, <2>2, <2>3, SendableIs
  <2>5. y.plain
    BY <2>1, <2>2 DEF OpenAIMessage
  <2>6. x = y /\ InHead(y)
    BY <2>1, <2>2, <2>4, <2>5 DEF InHead
  <2>. QED  BY <2>4, <2>6
<1>. HIDE DEF x
<1>7. first \in Seq(Sendable) /\ CarriedAll(first) = ToSet(r.system) /\ ToSet(first) \subseteq {x} /\ Said(first) = <<>>
  <2>1. CASE r.system = <<>>
    <3>1. first = <<>> /\ ToSet(r.system) = {} /\ ToSet(<<>>) = {} /\ Said(<<>>) = <<>>
      BY <2>1, PickEmpty DEF ToSet, Said
    <3>. QED  BY <3>1, CarriedNone
  <2>2. CASE r.system # <<>>
    <3>1. first = <<x>> /\ ToSet(<<x>>) = {x} /\ <<x>> \in Seq(Sendable)
      BY <1>6, <2>2 DEF ToSet
    <3>2. \A i \in DOMAIN <<x>> : InHead((<<x>>)[i])
      BY <1>6
    <3>3. Said(<<x>>) = <<>>
      BY <3>1, <3>2, SaidAll
    <3>. QED  BY <1>6, <3>1, <3>3, CarriedOne
  <2>. QED  BY <2>1, <2>2
<1>. HIDE DEF first
<1>8. s \in Seq(Sendable) /\ ToSet(s) = ToSet(first) \cup ToSet(all) /\ Said(s) = Said(all)
  <2>1. ToSet(s) = ToSet(first) \cup ToSet(all) /\ s \in Seq(Sendable)
    BY <1>5, <1>7, ConcatRange
  <2>2. Said(s) = Said(first) \o Said(all)
    <3>1. \A d \in Seq(Sendable) : Said(first \o d) = Said(first) \o Said(d)
      BY <1>7, SaidConcat
    <3>. QED  BY <1>5, <3>1
  <2>3. Said(all) \in Seq(Sendable)
    BY <1>5, SaidRange
  <2>. QED  BY <1>7, <2>1, <2>2, <2>3
<1>. HIDE DEF s
<1>9. \A i \in DOMAIN ms : ms[i] \in Legible /\ Becomes(ms[i], convertAnthropicMessageToOpenAI(ms[i]))
  <2>1. \A i \in DOMAIN ms : ms[i] \in Legible
    BY <1>2
  <2>. QED  BY <2>1, BecomesIs
<1>10. ASSUME NEW y \in ToSet(s)
       PROVE  (InHead(y) => y.calls = <<>> /\ y.answers = None) /\ (y.role = "system" => InHead(y))
  <2>1. CASE y \in ToSet(first)
    BY <1>6, <1>7, <2>1
  <2>2. CASE y \in ToSet(all)
    <3>1. PICK i \in DOMAIN ms : y \in ToSet(convertAnthropicMessageToOpenAI(ms[i]))
      BY <1>5, <2>2
    <3>2. PICK t : t = convertAnthropicMessageToOpenAI(ms[i])
      OBVIOUS
    <3>3. PICK n \in DOMAIN t : y = t[n]
      BY <3>1, <3>2 DEF ToSet
    <3>. QED  BY <1>9, <3>2, <3>3 DEF Becomes
  <2>. QED  BY <1>8, <2>1, <2>2
<1>11. LegalOpenAI(Said(s))
  BY <1>5, <1>8
<1>12. /\ LegalOpenAI(c) /\ \A i \in DOMAIN c : c[i].role = "system" => i = 1
       /\ CarriedAll(c) = CarriedAll(s)
  BY <1>4, <1>8, <1>10, <1>11, Collapsed
<1>13. CarriedAll(s) = ToSet(r.system) \cup CarriedAll(all)
  BY <1>7, <1>8 DEF CarriedAll
<1>14. CarriedAll(all) = UNION {Carryable(ms[i]) : i \in DOMAIN ms}
  <2>. DEFINE To(m) == convertAnthropicMessageToOpenAI(m)
  <2>1. ToSet(all) = UNION {ToSet(To(ms[i])) : i \in DOMAIN ms} /\ \A i \in DOMAIN ms : CarriedAll(To(ms[i])) = Carryable(ms[i])
    BY <1>5, <1>9 DEF Becomes
  <2>. HIDE DEF To
  <2>2. CarriedAll(all) = UNION {CarriedAll(To(ms[i])) : i \in DOMAIN ms}
    BY <2>1 DEF CarriedAll
  <2>. QED  BY <2>1, <2>2
<1>15. {p \in PartsOf(ms, "blocks") : p.type \notin {"thinking", "image_http"}} = UNION {Carryable(ms[i]) : i \in DOMAIN ms}
  BY DEF PartsOf, Carryable
<1>. QED  BY <1>12, <1>13, <1>14, <1>15 DEF ms

-----------------------------------------------------------------------------
(***************************************************************************)
(* A conversation of a client of the OpenAI protocol.                      *)
(***************************************************************************)
Postable == [role : Roles, plain : BOOLEAN, blocks : Seq(Part)]
Says(m) == {p \in CarriedBy(m) : p.type # "image_other"}
Blocks(d) == UNION {ToSet(d[i].blocks) : i \in DOMAIN d}

\* The parts of a message.
LEMMA OpenAIIs ==
  ASSUME NEW m \in OpenAIMessages
  PROVE  /\ m.role \in {"system", "developer", "user", "assistant", "tool"} /\ m.plain \in BOOLEAN
         /\ m.content \in Seq(Part) /\ m.calls \in Seq(Value)
         /\ \A p \in ToSet(m.content) :
               /\ p.val \in Value /\ p = [type |-> p.type, val |-> p.val]
               /\ p.type \in {"text", "image_data", "image_http", "image_other"}
               /\ m.role # "user" => p.type = "text"
         /\ m.role # "assistant" => m.calls = <<>>
         /\ m.role # "tool" => m.answers = None
         /\ m.role = "tool" => m.answers \in Value /\ m.content = <<>>
<1>1. /\ {"text", "image_data", "image_http", "image_other"} \in SUBSET PartTypes
      /\ {"text"} \in SUBSET PartTypes
  BY DEF PartTypes
<1>2. <<>> \in Seq(Part) /\ <<>> \in Seq(Value) /\ ToSet(<<>>) = {}
  BY DEF ToSet
<1>3. CASE m \in [role : {"system", "developer"}, plain : {TRUE}, content : Parts({"text"}),
                  calls : {<<>>}, answers : {None}]
  <2>1. m.role \in {"system", "developer"} /\ m.plain \in BOOLEAN /\ m.content \in Parts({"text"})
        /\ m.calls = <<>> /\ m.answers = None
    BY <1>3
  <2>2. /\ m.content \in Seq(Part)
        /\ \A p \in ToSet(m.content) : p.type \in {"text"} /\ p.val \in Value /\ p = [type |-> p.type, val |-> p.val]
    BY <1>1, <2>1, PartsIs
  <2>. QED  BY <1>2, <2>1, <2>2
<1>4. CASE m \in [role : {"user"}, plain : BOOLEAN,
                  content : Parts({"text", "image_data", "image_http", "image_other"}),
                  calls : {<<>>}, answers : {None}]
  <2>1. /\ m.role = "user" /\ m.plain \in BOOLEAN
        /\ m.content \in Parts({"text", "image_data", "image_http", "image_other"})
        /\ m.calls = <<>> /\ m.answers = None
    BY <1>4
  <2>2. /\ m.content \in Seq(Part)
        /\ \A p \in ToSet(m.content) :
              /\ p.type \in {"text", "image_data", "image_http", "image_other"} /\ p.val \in Value
              /\ p = [type |-> p.type, val |-> p.val]
    BY <1>1, <2>1, PartsIs
  <2>. QED  BY <1>2, <2>1, <2>2
<1>5. CASE m \in [role : {"assistant"}, plain : {TRUE}, content : Parts({"text"}),
                  calls : Seq(Value), answers : {None}]
  <2>1. m.role = "assistant" /\ m.plain \in BOOLEAN /\ m.content \in Parts({"text"})
        /\ m.calls \in Seq(Value) /\ m.answers = None
    BY <1>5
  <2>2. /\ m.content \in Seq(Part)
        /\ \A p \in ToSet(m.content) : p.type \in {"text"} /\ p.val \in Value /\ p = [type |-> p.type, val |-> p.val]
    BY <1>1, <2>1, PartsIs
  <2>. QED  BY <2>1, <2>2
<1>6. CASE m \in [role : {"tool"}, plain : {TRUE}, content : {<<>>}, calls : {<<>>}, answers : Value]
  <2>1. m.role = "tool" /\ m.plain \in BOOLEAN /\ m.content = <<>> /\ m.calls = <<>> /\ m.answers \in Value
    BY <1>6
  <2>. QED  BY <1>2, <2>1
<1>. QED  BY <1>3, <1>4, <1>5, <1>6 DEF OpenAIMessages

(* y is what m becomes, unless it is a notice or a result.                 *)
Turns(m, y) ==
    /\ y \in Postable /\ ResultsOf(y) = {} /\ Says(m) \subseteq ToSet(y.blocks)
    /\ m.role = "assistant" => y.role = "assistant" /\ ToSet(m.calls) \subseteq UsesOf(y)

\* What a message carries that answers nothing, and calls nothing.
LEMMA SaysContent ==
  ASSUME NEW m, m.calls = <<>>, m.answers = None
  PROVE  Says(m) = {p \in ToSet(m.content) : p.type # "image_other"}
<1>. DEFINE U(calling) == {[type |-> "tool_use", val |-> c] : c \in ToSet(calling)}
            R(answer) == {[type |-> "tool_result", val |-> a] : a \in {answer} \ {None}}
<1>1. CarriedBy(m) = ToSet(m.content) \cup U(m.calls) \cup R(m.answers)
  BY DEF CarriedBy
<1>2. R(None) = {}
  OBVIOUS
<1>3. U(<<>>) = {}
  BY DEF ToSet
<1>. HIDE DEF U, R
<1>. QED  BY <1>1, <1>2, <1>3 DEF Says

\* A message of the user.
LEMMA TurnsUser ==
  ASSUME NEW m \in OpenAIMessages, m.role = "user", NEW y, y = FromOpenAIMessage(m)
  PROVE  Turns(m, y)
<1>1. /\ m.plain \in BOOLEAN /\ m.content \in Seq(Part) /\ m.calls = <<>> /\ m.answers = None
      /\ \A p \in ToSet(m.content) : p.type \in {"text", "image_data", "image_http", "image_other"}
  BY OpenAIIs
<1>. DEFINE parts == m.content
            One(p) == IF p.type = "text" THEN <<p>> ELSE imageURLToAnthropicBlock(p)
            ones == [i \in DOMAIN parts |-> One(parts[i])]
            blocks == convertContentPartsToAnthropic(parts)
<1>2. blocks = FlattenSeq(ones)
  BY Zenon DEF convertContentPartsToAnthropic
<1>3. \A p \in Part : /\ One(p) \in Seq(Part)
                      /\ p.type # "image_other" /\ p.type \in {"text", "image_data", "image_http", "image_other"} =>
                            ToSet(One(p)) = {p}
                      /\ ToSet(One(p)) \subseteq {p}
  <2>. SUFFICES ASSUME NEW p \in Part
                PROVE  /\ One(p) \in Seq(Part)
                       /\ p.type # "image_other" /\ p.type \in {"text", "image_data", "image_http", "image_other"} =>
                             ToSet(One(p)) = {p}
                       /\ ToSet(One(p)) \subseteq {p}
    OBVIOUS
  <2>1. <<p>> \in Seq(Part) /\ <<>> \in Seq(Part) /\ ToSet(<<p>>) = {p} /\ ToSet(<<>>) = {}
    BY DEF ToSet
  <2>2. One(p) = IF p.type \in {"text", "image_data", "image_http"} THEN <<p>> ELSE <<>>
    BY DEF imageURLToAnthropicBlock
  <2>. HIDE DEF One
  <2>. QED  BY <2>1, <2>2
<1>. HIDE DEF One
<1>4. /\ ones \in Seq(Seq(Part)) /\ DOMAIN ones = DOMAIN parts
      /\ \A i \in DOMAIN parts : ones[i] = One(parts[i]) /\ parts[i] \in Part /\ parts[i] \in ToSet(parts)
  <2>. DEFINE T == Seq(Part)
  <2>1. \A p \in Part : One(p) \in T
    BY <1>3
  <2>. HIDE DEF T
  <2>2. DOMAIN parts = 1 .. Len(parts) /\ Len(parts) \in Nat /\ \A i \in 1 .. Len(parts) : parts[i] \in Part
    BY <1>1
  <2>3. ones \in Seq(T)
    BY <2>1, <2>2
  <2>. QED  BY <2>2, <2>3 DEF T, ToSet
<1>. HIDE DEF ones
<1>5. blocks \in Seq(Part) /\ ToSet(blocks) = UNION {ToSet(ones[i]) : i \in DOMAIN ones}
  BY <1>2, <1>4, FlattenType, FlattenRange
<1>6. {p \in ToSet(parts) : p.type # "image_other"} \subseteq ToSet(blocks)
  <2>. SUFFICES ASSUME NEW p \in ToSet(parts), p.type # "image_other" PROVE p \in ToSet(blocks)
    OBVIOUS
  <2>1. PICK i \in DOMAIN parts : p = parts[i]
    BY DEF ToSet
  <2>2. ToSet(ones[i]) = {p}
    BY <1>1, <1>3, <1>4, <2>1
  <2>. QED  BY <1>4, <1>5, <2>1, <2>2
<1>7. ToSet(blocks) \subseteq ToSet(parts)
  BY <1>3, <1>4, <1>5
<1>. HIDE DEF blocks
<1>8. y = [role |-> "user", plain |-> m.plain, blocks |-> blocks]
  BY DEF FromOpenAIMessage, blocks
<1>9. y \in Postable /\ y.blocks = blocks
  <2>1. "user" \in Roles
    BY DEF Roles
  <2>. QED  BY <1>1, <1>5, <1>8, <2>1 DEF Postable
<1>10. ResultsOf(y) = {}
  <2>1. \A p \in ToSet(y.blocks) : p.type # "tool_result"
    BY <1>1, <1>7, <1>9
  <2>. QED  BY <2>1, UsesIs
<1>. QED  BY <1>1, <1>6, <1>9, <1>10, SaysContent DEF Turns

\* A message of the assistant.
LEMMA TurnsAssistant ==
  ASSUME NEW m \in OpenAIMessages, m.role = "assistant", NEW y, y = FromOpenAIMessage(m)
  PROVE  Turns(m, y)
<1>1. /\ m.plain \in BOOLEAN /\ m.content \in Seq(Part) /\ m.calls \in Seq(Value) /\ m.answers = None
      /\ \A p \in ToSet(m.content) : p.type = "text"
  BY OpenAIIs
<1>2. PICK texts : texts = Texts(m.content)
  OBVIOUS
<1>. DEFINE Use(c) == [type |-> "tool_use", val |-> c]
<1>3. PICK uses : uses = [i \in DOMAIN m.calls |-> Use(m.calls[i])]
  OBVIOUS
<1>4. PICK blocks : blocks = texts \o uses
  OBVIOUS
<1>5. y = [role |-> "assistant", plain |-> m.plain /\ m.calls = <<>>, blocks |-> blocks]
  BY <1>2, <1>3, <1>4 DEF FromOpenAIMessage
<1>6. texts \in Seq(Part) /\ ToSet(texts) = ToSet(m.content)
  <2>1. texts \in Seq(Part) /\ ToSet(texts) = {p \in ToSet(m.content) : p.type = "text"}
    BY <1>1, <1>2, OfTypeRange DEF Texts
  <2>. QED  BY <1>1, <2>1
<1>7. \A c \in Value : Use(c) \in Part /\ Use(c).type = "tool_use" /\ Use(c).val = c
  BY DEF Part, PartTypes
<1>. HIDE DEF Use
<1>8. uses \in Seq(Part) /\ ToSet(uses) = {Use(c) : c \in ToSet(m.calls)}
  <2>1. DOMAIN m.calls = 1 .. Len(m.calls) /\ Len(m.calls) \in Nat /\ \A i \in 1 .. Len(m.calls) : m.calls[i] \in Value
    BY <1>1
  <2>2. uses \in Seq(Part) /\ DOMAIN uses = DOMAIN m.calls
    BY <1>3, <1>7, <2>1
  <2>. QED  BY <1>3, <2>2 DEF ToSet
<1>9. \A c \in ToSet(m.calls) : c \in Value
  BY <1>1 DEF ToSet
<1>10. blocks \in Seq(Part) /\ ToSet(blocks) = ToSet(texts) \cup ToSet(uses)
  BY <1>4, <1>6, <1>8, ConcatRange
<1>11. y \in Postable /\ y.blocks = blocks /\ y.role = "assistant"
  <2>1. "assistant" \in Roles /\ (m.plain /\ m.calls = <<>>) \in BOOLEAN
    BY DEF Roles
  <2>. QED  BY <1>5, <1>10, <2>1 DEF Postable
<1>12. ResultsOf(y) = {}
  <2>1. \A p \in ToSet(y.blocks) : p.type # "tool_result"
    BY <1>1, <1>6, <1>7, <1>8, <1>9, <1>10, <1>11
  <2>. QED  BY <2>1, UsesIs
<1>13. ToSet(m.calls) \subseteq UsesOf(y)
  <2>. SUFFICES ASSUME NEW c \in ToSet(m.calls) PROVE c \in UsesOf(y)
    OBVIOUS
  <2>1. Use(c) \in ToSet(y.blocks) /\ Use(c).type = "tool_use" /\ Use(c).val = c
    BY <1>7, <1>8, <1>9, <1>10, <1>11
  <2>. QED  BY <2>1, UsesIs
<1>14. CarriedBy(m) = ToSet(blocks)
  <2>. DEFINE R(answer) == {[type |-> "tool_result", val |-> a] : a \in {answer} \ {None}}
  <2>1. CarriedBy(m) = ToSet(m.content) \cup {Use(c) : c \in ToSet(m.calls)} \cup R(m.answers)
    BY DEF CarriedBy, Use
  <2>2. R(None) = {}
    OBVIOUS
  <2>. HIDE DEF R
  <2>. QED  BY <1>1, <1>6, <1>8, <1>10, <2>1, <2>2
<1>15. Says(m) \subseteq ToSet(y.blocks)
  BY <1>11, <1>14 DEF Says
<1>. QED  BY <1>11, <1>12, <1>13, <1>15 DEF Turns

(* d is what the first n messages become.                                  *)
Met(d, l, m) == d[l].role = "assistant" /\ ToSet(m.calls) \subseteq UsesOf(d[l])
Unanswered(ms, n, j) == ms[j].role = "assistant" /\ \A k \in j + 1 .. n : ms[k].role = "tool"
Added(ms, n, d) ==
    /\ d \in Seq(Postable)
    /\ LegalAnthropic(d)
    /\ \A j \in 1 .. n : Unanswered(ms, n, j) =>
          IF j = n THEN d # <<>> /\ Met(d, Len(d), ms[j])
          ELSE Len(d) >= 2 /\ Met(d, Len(d) - 1, ms[j])
    /\ \A i \in 1 .. n : ~IsSystem(ms[i]) => Says(ms[i]) \subseteq Blocks(d)

\* A message whose results answer the last one.
LEMMA LegalMore ==
  ASSUME NEW d \in Seq(Postable), NEW y \in Postable, LegalAnthropic(d),
         \A r \in ResultsOf(y) : d # <<>> /\ d[Len(d)].role = "assistant" /\ r \in UsesOf(d[Len(d)])
  PROVE  LegalAnthropic(Append(d, y))
<1>1. PICK e : e = Append(d, y)
  OBVIOUS
<1>2. /\ Len(d) \in Nat /\ DOMAIN e = 1 .. Len(d) + 1 /\ e[Len(d) + 1] = y
      /\ \A i \in 1 .. Len(d) : e[i] = d[i] /\ i \in DOMAIN d
      /\ d # <<>> => Len(d) >= 1
  BY <1>1
<1>3. ASSUME NEW i \in DOMAIN e, NEW r \in ResultsOf(e[i])
      PROVE  \E j \in 1 .. i - 1 :
                /\ e[j].role = "assistant" /\ r \in UsesOf(e[j])
                /\ \A k \in j + 1 .. i - 1 : InHead(e[k])
  <2>1. CASE i <= Len(d)
    <3>1. i \in DOMAIN d /\ e[i] = d[i]
      BY <1>2, <2>1
    <3>2. PICK j \in 1 .. i - 1 : /\ d[j].role = "assistant" /\ r \in UsesOf(d[j])
                                  /\ \A k \in j + 1 .. i - 1 : InHead(d[k])
      BY <1>3, <3>1 DEF LegalAnthropic
    <3>3. \A k \in 1 .. i - 1 : e[k] = d[k]
      BY <1>2, <2>1
    <3>4. e[j].role = "assistant" /\ r \in UsesOf(e[j]) /\ \A k \in j + 1 .. i - 1 : InHead(e[k])
      BY <1>2, <2>1, <3>2, <3>3
    <3>. QED  BY <3>4
  <2>2. CASE i = Len(d) + 1
    <3>1. Len(d) >= 1 /\ d[Len(d)].role = "assistant" /\ r \in UsesOf(d[Len(d)])
      BY <1>2, <1>3, <2>2
    <3>2. Len(d) \in 1 .. i - 1 /\ e[Len(d)] = d[Len(d)] /\ \A k \in Len(d) + 1 .. i - 1 : InHead(e[k])
      BY <1>2, <2>2, <3>1
    <3>. QED  BY <3>1, <3>2
  <2>. QED  BY <1>2, <2>1, <2>2
<1>. QED  BY <1>1, <1>3 DEF LegalAnthropic

\* The last message gets a result that answers the one before.
LEMMA LegalLonger ==
  ASSUME NEW d \in Seq(Postable), LegalAnthropic(d), Len(d) >= 2,
         NEW e, DOMAIN e = DOMAIN d, \A i \in 1 .. Len(d) - 1 : e[i] = d[i],
         d[Len(d) - 1].role = "assistant",
         ResultsOf(e[Len(d)]) \subseteq ResultsOf(d[Len(d)]) \cup UsesOf(d[Len(d) - 1])
  PROVE  LegalAnthropic(e)
<1>1. Len(d) \in Nat /\ DOMAIN d = 1 .. Len(d)
  OBVIOUS
<1>2. ASSUME NEW i \in DOMAIN e, NEW r \in ResultsOf(e[i])
      PROVE  \E j \in 1 .. i - 1 :
                /\ e[j].role = "assistant" /\ r \in UsesOf(e[j])
                /\ \A k \in j + 1 .. i - 1 : InHead(e[k])
  <2>1. i \in 1 .. Len(d) /\ i \in DOMAIN d
    BY <1>1
  <2>2. CASE r \in ResultsOf(d[i])
    <3>1. PICK j \in 1 .. i - 1 : /\ d[j].role = "assistant" /\ r \in UsesOf(d[j])
                                  /\ \A k \in j + 1 .. i - 1 : InHead(d[k])
      BY <2>1, <2>2 DEF LegalAnthropic
    <3>2. \A k \in 1 .. i - 1 : e[k] = d[k]
      BY <1>1, <2>1
    <3>3. e[j].role = "assistant" /\ r \in UsesOf(e[j]) /\ \A k \in j + 1 .. i - 1 : InHead(e[k])
      BY <2>1, <3>1, <3>2
    <3>. QED  BY <3>3
  <2>3. CASE r \notin ResultsOf(d[i])
    <3>1. i = Len(d)
      BY <1>1, <1>2, <2>1, <2>3
    <3>2. r \in UsesOf(d[i - 1])
      BY <1>2, <2>3, <3>1
    <3>3. i - 1 \in 1 .. i - 1 /\ e[i - 1] = d[i - 1] /\ \A k \in i - 1 + 1 .. i - 1 : InHead(e[k])
      BY <1>1, <3>1
    <3>. QED  BY <3>1, <3>2, <3>3
  <2>. QED  BY <2>2, <2>3
<1>. QED  BY <1>2 DEF LegalAnthropic

\* What a result answers.
LEMMA AnswersCall ==
  ASSUME NEW ms \in Seq(OpenAIMessages), LegalOpenAI(ms), NEW n \in DOMAIN ms, ms[n].role = "tool"
  PROVE  \E j \in 1 .. n - 1 : Unanswered(ms, n - 1, j) /\ ms[n].answers \in ToSet(ms[j].calls)
<1>1. n \in Nat /\ \A j \in 1 .. n : ms[j] \in OpenAIMessages
  OBVIOUS
<1>2. ms[n].answers # None
  BY <1>1, OpenAIIs, RequestsAssumption
<1>3. PICK j \in 1 .. n - 1 : /\ ms[n].answers \in ToSet(ms[j].calls)
                              /\ \A k \in j + 1 .. n - 1 : ms[k].role = "tool"
  BY <1>2 DEF LegalOpenAI
<1>4. ms[j].role = "assistant"
  <2>1. ms[j].calls # <<>>
    BY <1>3 DEF ToSet
  <2>2. ms[j] \in OpenAIMessages
    BY <1>1
  <2>. QED  BY <2>1, <2>2, OpenAIIs
<1>. QED  BY <1>3, <1>4 DEF Unanswered

\* The block of a result.
LEMMA ResultIs ==
  ASSUME NEW m \in OpenAIMessages, m.role = "tool", NEW p, p = ToolResult(m)
  PROVE  p \in Part /\ p.type = "tool_result" /\ p.val = m.answers /\ Says(m) = {p}
<1>1. m.answers \in Value /\ m.content = <<>> /\ m.calls = <<>> /\ m.answers # None
  BY OpenAIIs, RequestsAssumption
<1>2. p = [type |-> "tool_result", val |-> m.answers]
  BY DEF ToolResult
<1>3. p \in Part /\ p.type = "tool_result" /\ p.val = m.answers
  <2>1. "tool_result" \in PartTypes
    BY DEF PartTypes
  <2>. QED  BY <1>1, <1>2, <2>1 DEF Part
<1>4. CarriedBy(m) = {p}
  <2>. DEFINE U(calling) == {[type |-> "tool_use", val |-> c] : c \in ToSet(calling)}
              R(answer) == {[type |-> "tool_result", val |-> a] : a \in {answer} \ {None}}
  <2>1. CarriedBy(m) = ToSet(m.content) \cup U(m.calls) \cup R(m.answers)
    BY DEF CarriedBy
  <2>2. R(m.answers) = {p}
    BY <1>1, <1>2
  <2>3. ToSet(<<>>) = {} /\ U(<<>>) = {}
    BY DEF ToSet
  <2>. HIDE DEF U, R
  <2>. QED  BY <1>1, <2>1, <2>2, <2>3
<1>. QED  BY <1>3, <1>4 DEF Says

\* A sequence and one element more.
LEMMA AppendRange ==
  ASSUME NEW S, NEW s \in Seq(S), NEW x \in S
  PROVE  ToSet(Append(s, x)) = ToSet(s) \cup {x}
<1>1. PICK t : t = <<x>>
  OBVIOUS
<1>2. Append(s, x) = s \o t /\ t \in Seq(S) /\ ToSet(t) = {x}
  BY <1>1 DEF ToSet
<1>3. ToSet(s \o t) = ToSet(s) \cup ToSet(t)
  BY <1>2, ConcatRange
<1>. QED  BY <1>2, <1>3

\* The blocks of a conversation and one message more.
LEMMA BlocksAppend ==
  ASSUME NEW d \in Seq(Postable), NEW y \in Postable
  PROVE  Blocks(Append(d, y)) = Blocks(d) \cup ToSet(y.blocks)
<1>1. PICK e : e = Append(d, y)
  OBVIOUS
<1>2. /\ Len(d) \in Nat /\ DOMAIN d = 1 .. Len(d) /\ DOMAIN e = 1 .. Len(d) + 1
      /\ e[Len(d) + 1] = y /\ \A i \in DOMAIN d : e[i] = d[i]
  BY <1>1
<1>3. DOMAIN e = DOMAIN d \cup {Len(d) + 1}
  BY <1>2
<1>. QED  BY <1>1, <1>2, <1>3, Zenon DEF Blocks

\* A notice is left out.
LEMMA AddsNotice ==
  ASSUME NEW ms \in Seq(OpenAIMessages), NEW n \in DOMAIN ms, NEW d, Added(ms, n - 1, d),
         NEW e, e = AddMessage(d, ms, n), IsSystem(ms[n])
  PROVE  Added(ms, n, e)
<1>1. n \in Nat /\ n \in 1 .. n
  OBVIOUS
<1>2. e = d
  BY DEF AddMessage, IsSystem
<1>3. ms[n].role \in {"system", "developer"}
  BY DEF IsSystem
<1>4. \A j \in 1 .. n : ~Unanswered(ms, n, j)
  <2>. SUFFICES ASSUME NEW j \in 1 .. n, Unanswered(ms, n, j) PROVE FALSE
    OBVIOUS
  <2>1. ms[j].role = "assistant" /\ \A k \in j + 1 .. n : ms[k].role = "tool"
    BY DEF Unanswered
  <2>2. j # n
    BY <1>3, <2>1
  <2>3. n \in j + 1 .. n
    BY <1>1, <2>2
  <2>. QED  BY <1>3, <2>1, <2>3
<1>5. \A i \in 1 .. n : ~IsSystem(ms[i]) => Says(ms[i]) \subseteq Blocks(d)
  BY <1>1 DEF Added
<1>. QED  BY <1>2, <1>4, <1>5 DEF Added

\* Whose answer is awaited before the n-th message and after it.
LEMMA UnansweredBefore ==
  ASSUME NEW ms \in Seq(OpenAIMessages), NEW n \in DOMAIN ms, NEW j \in 1 .. n, Unanswered(ms, n, j)
  PROVE  j # n => ms[n].role = "tool" /\ j \in 1 .. n - 1 /\ Unanswered(ms, n - 1, j)
<1>. SUFFICES ASSUME j # n
              PROVE  ms[n].role = "tool" /\ j \in 1 .. n - 1 /\ Unanswered(ms, n - 1, j)
  OBVIOUS
<1>1. n \in Nat /\ j \in 1 .. n - 1 /\ n \in j + 1 .. n /\ \A k \in j + 1 .. n - 1 : k \in j + 1 .. n
  OBVIOUS
<1>. QED  BY <1>1 DEF Unanswered

\* A message that is added.
LEMMA AddsAnother ==
  ASSUME NEW ms \in Seq(OpenAIMessages), NEW n \in DOMAIN ms, NEW d, Added(ms, n - 1, d),
         NEW y \in Postable, NEW e, e = Append(d, y), LegalAnthropic(e), Says(ms[n]) \subseteq ToSet(y.blocks),
         \A j \in 1 .. n : Unanswered(ms, n, j) =>
            IF j = n THEN y.role = "assistant" /\ ToSet(ms[n].calls) \subseteq UsesOf(y)
            ELSE d # <<>> /\ Met(d, Len(d), ms[j])
  PROVE  Added(ms, n, e)
<1>1. n \in Nat /\ d \in Seq(Postable)
  BY DEF Added
<1>2. /\ e \in Seq(Postable) /\ Len(d) \in Nat /\ Len(e) = Len(d) + 1 /\ e[Len(e)] = y /\ e # <<>>
      /\ d # <<>> => Len(d) >= 1 /\ e[Len(e) - 1] = d[Len(d)]
  BY <1>1
<1>3. ASSUME NEW j \in 1 .. n, Unanswered(ms, n, j)
      PROVE  IF j = n THEN e # <<>> /\ Met(e, Len(e), ms[j])
             ELSE Len(e) >= 2 /\ Met(e, Len(e) - 1, ms[j])
  <2>1. CASE j = n
    BY <1>2, <1>3, <2>1 DEF Met
  <2>2. CASE j # n
    <3>1. d # <<>> /\ Met(d, Len(d), ms[j])
      BY <1>3, <2>2
    <3>2. Len(e) >= 2
      BY <1>2, <3>1
    <3>. QED  BY <1>2, <2>2, <3>1, <3>2 DEF Met
  <2>. QED  BY <2>1, <2>2
<1>4. Blocks(e) = Blocks(d) \cup ToSet(y.blocks)
  BY <1>1, BlocksAppend
<1>5. \A i \in 1 .. n : ~IsSystem(ms[i]) => Says(ms[i]) \subseteq Blocks(e)
  <2>. SUFFICES ASSUME NEW i \in 1 .. n, ~IsSystem(ms[i]) PROVE Says(ms[i]) \subseteq Blocks(e)
    OBVIOUS
  <2>1. CASE i = n
    BY <1>4, <2>1
  <2>2. CASE i # n
    <3>1. i \in 1 .. n - 1
      BY <1>1, <2>2
    <3>2. Says(ms[i]) \subseteq Blocks(d)
      BY <3>1 DEF Added
    <3>. QED  BY <1>4, <3>2
  <2>. QED  BY <2>1, <2>2
<1>. QED  BY <1>2, <1>3, <1>5 DEF Added

\* What the user or the assistant says.
LEMMA AddsTurn ==
  ASSUME NEW ms \in Seq(OpenAIMessages), NEW n \in DOMAIN ms, NEW d, Added(ms, n - 1, d),
         NEW e, e = AddMessage(d, ms, n), ms[n].role \in {"user", "assistant"}
  PROVE  Added(ms, n, e)
<1>1. ms[n] \in OpenAIMessages /\ n \in Nat
  OBVIOUS
<1>2. PICK y : y = FromOpenAIMessage(ms[n])
  OBVIOUS
<1>3. Turns(ms[n], y)
  BY <1>1, <1>2, TurnsUser, TurnsAssistant
<1>4. e = Append(d, y)
  BY <1>2 DEF AddMessage, IsSystem
<1>5. y \in Postable /\ ResultsOf(y) = {} /\ Says(ms[n]) \subseteq ToSet(y.blocks)
      /\ (ms[n].role = "assistant" => y.role = "assistant" /\ ToSet(ms[n].calls) \subseteq UsesOf(y))
  BY <1>3 DEF Turns
<1>6. LegalAnthropic(e)
  BY <1>4, <1>5, LegalMore DEF Added
<1>7. ASSUME NEW j \in 1 .. n, Unanswered(ms, n, j)
      PROVE  j = n /\ ms[n].role = "assistant"
  <2>1. j = n
    BY <1>7, UnansweredBefore
  <2>. QED  BY <1>7, <2>1 DEF Unanswered
<1>. QED  BY <1>4, <1>5, <1>6, <1>7, AddsAnother

\* The first result after a message.
LEMMA AddsFirst ==
  ASSUME NEW ms \in Seq(OpenAIMessages), LegalOpenAI(ms), NEW n \in DOMAIN ms, NEW d, Added(ms, n - 1, d),
         NEW e, e = AddMessage(d, ms, n), ms[n].role = "tool", ~(n > 1 /\ ms[n - 1].role = "tool")
  PROVE  Added(ms, n, e)
<1>1. ms[n] \in OpenAIMessages /\ n \in Nat /\ n >= 1
  OBVIOUS
<1>2. PICK p : p = ToolResult(ms[n])
  OBVIOUS
<1>3. p \in Part /\ p.type = "tool_result" /\ p.val = ms[n].answers /\ Says(ms[n]) = {p}
  BY <1>1, <1>2, ResultIs
<1>4. PICK y : y = [role |-> "user", plain |-> FALSE, blocks |-> <<p>>]
  OBVIOUS
<1>5. e = Append(d, y)
  BY <1>2, <1>4 DEF AddMessage, IsSystem
<1>6. y \in Postable /\ y.blocks = <<p>> /\ ToSet(y.blocks) = {p}
  <2>1. "user" \in Roles /\ <<p>> \in Seq(Part) /\ ToSet(<<p>>) = {p}
    BY <1>3 DEF Roles, ToSet
  <2>. QED  BY <1>4, <2>1 DEF Postable
<1>7. ResultsOf(y) = {ms[n].answers}
  BY <1>3, <1>6, UsesIs
<1>8. \A j \in 1 .. n - 1 : Unanswered(ms, n - 1, j) => d # <<>> /\ Met(d, Len(d), ms[j])
  <2>. SUFFICES ASSUME NEW j \in 1 .. n - 1, Unanswered(ms, n - 1, j)
                PROVE  d # <<>> /\ Met(d, Len(d), ms[j])
    OBVIOUS
  <2>1. n > 1
    BY <1>1
  <2>2. j = n - 1
    <3>1. SUFFICES ASSUME j # n - 1 PROVE FALSE
      OBVIOUS
    <3>2. n - 1 \in j + 1 .. n - 1
      BY <1>1, <3>1
    <3>. QED  BY <2>1, <3>2 DEF Unanswered
  <2>. QED  BY <2>2 DEF Added
<1>9. d # <<>> /\ d[Len(d)].role = "assistant" /\ ms[n].answers \in UsesOf(d[Len(d)])
  <2>1. PICK j \in 1 .. n - 1 : Unanswered(ms, n - 1, j) /\ ms[n].answers \in ToSet(ms[j].calls)
    BY AnswersCall
  <2>. QED  BY <1>8, <2>1 DEF Met
<1>10. LegalAnthropic(e)
  BY <1>5, <1>6, <1>7, <1>9, LegalMore DEF Added
<1>11. \A j \in 1 .. n : Unanswered(ms, n, j) =>
          IF j = n THEN y.role = "assistant" /\ ToSet(ms[n].calls) \subseteq UsesOf(y)
          ELSE d # <<>> /\ Met(d, Len(d), ms[j])
  <2>. SUFFICES ASSUME NEW j \in 1 .. n, Unanswered(ms, n, j)
                PROVE  j # n /\ d # <<>> /\ Met(d, Len(d), ms[j])
    OBVIOUS
  <2>1. j # n
    BY DEF Unanswered
  <2>2. j \in 1 .. n - 1 /\ Unanswered(ms, n - 1, j)
    BY <2>1, UnansweredBefore
  <2>. QED  BY <1>8, <2>1, <2>2
<1>12. Says(ms[n]) \subseteq ToSet(y.blocks)
  BY <1>3, <1>6
<1>. QED  BY <1>5, <1>6, <1>10, <1>11, <1>12, AddsAnother

\* A result after another.
LEMMA AddsNext ==
  ASSUME NEW ms \in Seq(OpenAIMessages), LegalOpenAI(ms), NEW n \in DOMAIN ms, NEW d, Added(ms, n - 1, d),
         NEW e, e = AddMessage(d, ms, n), ms[n].role = "tool", n > 1, ms[n - 1].role = "tool"
  PROVE  Added(ms, n, e)
<1>1. ms[n] \in OpenAIMessages /\ n \in Nat /\ n > 1 /\ d \in Seq(Postable) /\ LegalAnthropic(d)
  BY DEF Added
<1>2. PICK p : p = ToolResult(ms[n])
  OBVIOUS
<1>3. p \in Part /\ p.type = "tool_result" /\ p.val = ms[n].answers /\ Says(ms[n]) = {p}
  BY <1>1, <1>2, ResultIs
<1>4. PICK l : l = Len(d)
  OBVIOUS
<1>5. e = [d EXCEPT ![l].blocks = Append(@, p)]
  BY <1>2, <1>4 DEF AddMessage, IsSystem
<1>6. \A j \in 1 .. n - 1 : Unanswered(ms, n - 1, j) => l >= 2 /\ Met(d, l - 1, ms[j])
  <2>. SUFFICES ASSUME NEW j \in 1 .. n - 1, Unanswered(ms, n - 1, j)
                PROVE  l >= 2 /\ Met(d, l - 1, ms[j])
    OBVIOUS
  <2>1. j # n - 1
    BY DEF Unanswered
  <2>. QED  BY <1>4, <2>1 DEF Added
<1>7. l >= 2 /\ d[l - 1].role = "assistant" /\ ms[n].answers \in UsesOf(d[l - 1])
  <2>1. PICK j \in 1 .. n - 1 : Unanswered(ms, n - 1, j) /\ ms[n].answers \in ToSet(ms[j].calls)
    BY AnswersCall
  <2>. QED  BY <1>6, <2>1 DEF Met
<1>8. /\ l \in Nat /\ DOMAIN d = 1 .. l /\ DOMAIN e = 1 .. l /\ Len(e) = l /\ \A i \in 1 .. l - 1 : e[i] = d[i]
      /\ d[l] \in Postable
  BY <1>1, <1>4, <1>5, <1>7
<1>9. PICK m : m = d[l]
  OBVIOUS
<1>10. PICK z : z = [m EXCEPT !.blocks = Append(m.blocks, p)]
  OBVIOUS
<1>11. z \in Postable /\ z.blocks = Append(m.blocks, p) /\ m.blocks \in Seq(Part)
  <2>1. m \in Postable
    BY <1>8, <1>9
  <2>2. /\ m.role \in Roles /\ m.plain \in BOOLEAN /\ m.blocks \in Seq(Part)
        /\ m = [role |-> m.role, plain |-> m.plain, blocks |-> m.blocks]
    BY <2>1 DEF Postable
  <2>3. PICK b : b = Append(m.blocks, p)
    OBVIOUS
  <2>4. b \in Seq(Part)
    BY <1>3, <2>2, <2>3
  <2>5. z = [role |-> m.role, plain |-> m.plain, blocks |-> b]
    BY <1>10, <2>2, <2>3
  <2>. QED  BY <2>2, <2>3, <2>4, <2>5 DEF Postable
<1>12. ToSet(z.blocks) = ToSet(d[l].blocks) \cup {p}
  BY <1>3, <1>9, <1>11, AppendRange
<1>13. e[l] = z /\ e \in Seq(Postable)
  <2>1. l \in DOMAIN d
    BY <1>7, <1>8
  <2>2. e = [d EXCEPT ![l] = z]
    BY <1>5, <1>9, <1>10, <2>1, Zenon
  <2>. QED  BY <1>1, <1>11, <2>1, <2>2
<1>14. ResultsOf(z) = ResultsOf(d[l]) \cup {ms[n].answers}
  BY <1>3, <1>12, UsesIs
<1>15. LegalAnthropic(e)
  <2>1. ResultsOf(e[l]) \subseteq ResultsOf(d[l]) \cup UsesOf(d[l - 1])
    BY <1>7, <1>13, <1>14
  <2>2. DOMAIN e = DOMAIN d
    BY <1>8
  <2>. QED  BY <1>1, <1>4, <1>7, <1>8, <2>1, <2>2, LegalLonger
<1>16. p \in Blocks(e) /\ Blocks(d) \subseteq Blocks(e)
  <2>1. l \in DOMAIN e /\ DOMAIN e = DOMAIN d
    BY <1>7, <1>8
  <2>2. ToSet(e[l].blocks) = ToSet(d[l].blocks) \cup {p}
    BY <1>12, <1>13
  <2>3. \A i \in DOMAIN d : ToSet(d[i].blocks) \subseteq ToSet(e[i].blocks)
    <3>. SUFFICES ASSUME NEW i \in DOMAIN d PROVE ToSet(d[i].blocks) \subseteq ToSet(e[i].blocks)
      OBVIOUS
    <3>1. CASE i = l
      BY <2>2, <3>1
    <3>2. CASE i # l
      <4>1. i \in 1 .. l - 1
        BY <1>8, <3>2
      <4>. QED  BY <1>8, <4>1
    <3>. QED  BY <3>1, <3>2
  <2>4. \A q : (\E i \in DOMAIN d : q \in ToSet(d[i].blocks)) => \E i \in DOMAIN e : q \in ToSet(e[i].blocks)
    BY <2>1, <2>3
  <2>. QED  BY <2>1, <2>2, <2>4, Zenon DEF Blocks
<1>17. ASSUME NEW j \in 1 .. n, Unanswered(ms, n, j)
       PROVE  IF j = n THEN e # <<>> /\ Met(e, Len(e), ms[j])
              ELSE Len(e) >= 2 /\ Met(e, Len(e) - 1, ms[j])
  <2>1. j # n
    BY <1>17 DEF Unanswered
  <2>2. j \in 1 .. n - 1 /\ Unanswered(ms, n - 1, j)
    BY <1>17, <2>1, UnansweredBefore
  <2>3. l >= 2 /\ Met(d, l - 1, ms[j])
    BY <1>6, <2>2
  <2>4. e[l - 1] = d[l - 1]
    BY <1>8, <2>3
  <2>. QED  BY <1>8, <2>1, <2>3, <2>4 DEF Met
<1>18. \A i \in 1 .. n : ~IsSystem(ms[i]) => Says(ms[i]) \subseteq Blocks(e)
  <2>. SUFFICES ASSUME NEW i \in 1 .. n, ~IsSystem(ms[i]) PROVE Says(ms[i]) \subseteq Blocks(e)
    OBVIOUS
  <2>1. CASE i = n
    BY <1>3, <1>16, <2>1
  <2>2. CASE i # n
    <3>1. i \in 1 .. n - 1
      BY <1>1, <2>2
    <3>2. Says(ms[i]) \subseteq Blocks(d)
      BY <3>1 DEF Added
    <3>. QED  BY <1>16, <3>2
  <2>. QED  BY <2>1, <2>2
<1>. QED  BY <1>13, <1>15, <1>17, <1>18 DEF Added

\* One message more.
LEMMA AddsOne ==
  ASSUME NEW ms \in Seq(OpenAIMessages), LegalOpenAI(ms), NEW n \in DOMAIN ms, NEW d, Added(ms, n - 1, d)
  PROVE  Added(ms, n, AddMessage(d, ms, n))
<1>1. ms[n].role \in {"system", "developer", "user", "assistant", "tool"}
  <2>1. ms[n] \in OpenAIMessages
    OBVIOUS
  <2>. QED  BY <2>1, OpenAIIs
<1>2. PICK e : e = AddMessage(d, ms, n)
  OBVIOUS
<1>3. CASE IsSystem(ms[n])
  BY <1>2, <1>3, AddsNotice
<1>4. CASE ms[n].role \in {"user", "assistant"}
  BY <1>2, <1>4, AddsTurn
<1>5. CASE ms[n].role = "tool" /\ n > 1 /\ ms[n - 1].role = "tool"
  BY <1>2, <1>5, AddsNext
<1>6. CASE ms[n].role = "tool" /\ ~(n > 1 /\ ms[n - 1].role = "tool")
  BY <1>2, <1>6, AddsFirst
<1>7. IsSystem(ms[n]) <=> ms[n].role \in {"system", "developer"}
  BY DEF IsSystem
<1>. QED  BY <1>1, <1>3, <1>4, <1>5, <1>6, <1>7

\* All messages.
LEMMA AddsAll ==
  ASSUME NEW ms \in Seq(OpenAIMessages), LegalOpenAI(ms)
  PROVE  Added(ms, Len(ms), AddMessages(ms))
<1>1. PICK l \in Nat : l = Len(ms) /\ DOMAIN ms = 1 .. l
  OBVIOUS
<1>2. PICK f : Adds(f, ms) /\ AddMessages(ms) = f[l]
  BY <1>1, AddMessagesFold
<1>. DEFINE G == {n \in 0 .. l : Added(ms, n, f[n])}
<1>3. 0 \in G
  <2>1. PICK d : d = f[0]
    OBVIOUS
  <2>2. d = <<>> /\ d \in Seq(Postable) /\ DOMAIN d = {} /\ 0 \in 0 .. l /\ 1 .. 0 = {}
    BY <1>1, <1>2, <2>1 DEF Adds
  <2>3. LegalAnthropic(d)
    BY <2>2 DEF LegalAnthropic
  <2>4. Added(ms, 0, d)
    BY <2>2, <2>3 DEF Added
  <2>. QED  BY <2>1, <2>2, <2>4
<1>4. \A n \in 0 .. l - 1 : n \in G => n + 1 \in G
  <2>. SUFFICES ASSUME NEW n \in 0 .. l - 1, Added(ms, n, f[n]) PROVE n + 1 \in G
    OBVIOUS
  <2>1. PICK m : m = n + 1
    OBVIOUS
  <2>2. m \in DOMAIN ms /\ m \in 0 .. l /\ m \in 1 .. Len(ms) /\ m - 1 = n
    BY <1>1, <2>1
  <2>3. f[m] = AddMessage(f[n], ms, m)
    BY <1>2, <2>2 DEF Adds
  <2>4. Added(ms, m, f[m])
    BY <2>2, <2>3, AddsOne
  <2>. QED  BY <2>1, <2>2, <2>4
<1>. HIDE DEF G
<1>5. l \in G
  <2>1. \A n \in 0 .. l : n \in G
    BY <1>1, <1>3, <1>4, UpTo, Zenon
  <2>. QED  BY <1>1, <2>1
<1>. QED  BY <1>1, <1>2, <1>5 DEF G

\* A request of a client of the OpenAI protocol.
LEMMA SentToAnthropic ==
  ASSUME NEW r \in OpenAIRequests, NEW c, c = OpenAIToAnthropic(r)
  PROVE  /\ LegalAnthropic(c.messages)
         /\ \A i \in DOMAIN r.messages :
               Says(r.messages[i]) \subseteq PartsOf(c.messages, "blocks") \cup ToSet(c.system)
<1>1. PICK ms \in Seq(OpenAIMessages) : ms = r.messages
  BY RequestsAssumption
<1>2. LegalOpenAI(ms)
  BY <1>1, RequestsAssumption
<1>3. PICK d : d = AddMessages(ms)
  OBVIOUS
<1>. DEFINE I == {i \in DOMAIN ms : IsSystem(ms[i])}
<1>4. PICK system : system = Pick(ms, I)
  OBVIOUS
<1>5. PICK texts : texts = [i \in DOMAIN system |-> Texts(system[i].content)]
  OBVIOUS
<1>6. c.messages = d /\ c.system = FlattenSeq(texts)
  <2>1. Those(ms, IsSystem) = system
    BY <1>4, Zenon DEF Those
  <2>2. c = [ok |-> d # <<>>, system |-> FlattenSeq(texts), messages |-> d]
    BY <1>1, <1>3, <1>5, <2>1, Zenon DEF OpenAIToAnthropic
  <2>. QED  BY <2>2
<1>7. /\ LegalAnthropic(d)
      /\ \A i \in 1 .. Len(ms) : ~IsSystem(ms[i]) => Says(ms[i]) \subseteq Blocks(d)
  BY <1>2, <1>3, AddsAll DEF Added
<1>8. PartsOf(d, "blocks") = Blocks(d)
  BY DEF PartsOf, Blocks
<1>9. system \in Seq(OpenAIMessages) /\ ToSet(system) = {m \in ToSet(ms) : IsSystem(m)}
  <2>1. {ms[i] : i \in {j \in DOMAIN ms : j \in I}} = {m \in ToSet(ms) : IsSystem(m)}
    BY DEF ToSet
  <2>. HIDE DEF I
  <2>. QED  BY <1>4, <2>1, PickType, PickRange
<1>10. \A m \in OpenAIMessages : Texts(m.content) \in Seq(Part)
                                /\ ToSet(Texts(m.content)) = {p \in ToSet(m.content) : p.type = "text"}
  <2>. SUFFICES ASSUME NEW m \in OpenAIMessages
                PROVE  Texts(m.content) \in Seq(Part)
                       /\ ToSet(Texts(m.content)) = {p \in ToSet(m.content) : p.type = "text"}
    OBVIOUS
  <2>1. m.content \in Seq(Part)
    BY OpenAIIs
  <2>. QED  BY <2>1, OfTypeRange DEF Texts
<1>11. texts \in Seq(Seq(Part)) /\ DOMAIN texts = DOMAIN system
  <2>. DEFINE T == Seq(Part)
  <2>1. \A m \in OpenAIMessages : Texts(m.content) \in T
    BY <1>10
  <2>. HIDE DEF T
  <2>2. DOMAIN system = 1 .. Len(system) /\ Len(system) \in Nat /\ \A i \in 1 .. Len(system) : system[i] \in OpenAIMessages
    BY <1>9
  <2>3. texts \in Seq(T)
    BY <1>5, <2>1, <2>2
  <2>. QED  BY <1>5, <2>2, <2>3 DEF T
<1>12. ToSet(FlattenSeq(texts)) = UNION {ToSet(texts[i]) : i \in DOMAIN texts}
  BY <1>11, FlattenRange
<1>13. ASSUME NEW i \in DOMAIN ms
       PROVE  Says(ms[i]) \subseteq Blocks(d) \cup ToSet(FlattenSeq(texts))
  <2>1. CASE ~IsSystem(ms[i])
    <3>1. i \in 1 .. Len(ms)
      OBVIOUS
    <3>. QED  BY <1>7, <2>1, <3>1
  <2>2. CASE IsSystem(ms[i])
    <3>1. ms[i] \in OpenAIMessages /\ ms[i] \in ToSet(system)
      BY <1>9, <2>2 DEF ToSet
    <3>2. PICK m : m = ms[i]
      OBVIOUS
    <3>3. m.role \in {"system", "developer"}
      BY <2>2, <3>2 DEF IsSystem
    <3>4. m.calls = <<>> /\ m.answers = None /\ \A p \in ToSet(m.content) : p.type = "text"
      BY <3>1, <3>2, <3>3, OpenAIIs
    <3>5. Says(m) \subseteq ToSet(Texts(m.content))
      BY <1>10, <3>1, <3>2, <3>4, SaysContent
    <3>6. PICK k \in DOMAIN system : m = system[k]
      BY <3>1, <3>2 DEF ToSet
    <3>7. k \in DOMAIN texts /\ texts[k] = Texts(m.content)
      BY <1>5, <1>11, <3>6
    <3>. QED  BY <1>12, <3>2, <3>5, <3>7
  <2>. QED  BY <2>1, <2>2
<1>. HIDE DEF I
<1>. QED  BY <1>1, <1>6, <1>7, <1>8, <1>13

-----------------------------------------------------------------------------
(***************************************************************************)
(* The conversion of the request.                                          *)
(***************************************************************************)
RequestInv ==
    /\ phase \in {"asked", "sent"} =>
          /\ pipe = "to_anthropic" => request \in AnthropicRequests
          /\ pipe = "to_openai" => request \in OpenAIRequests
    /\ phase = "sent" =>
          /\ pipe = "to_anthropic" => converted = AnthropicToOpenAI(request)
          /\ pipe = "to_openai" => converted = OpenAIToAnthropic(request)

\* A request is converted once, and kept until the upstream answers.
LEMMA RequestAlways == Spec => []RequestInv
<1>1. Init => RequestInv
  BY DEF Init, RequestInv
<1>2. RequestInv /\ [Next]_vars => RequestInv'
  <2>. SUFFICES ASSUME RequestInv, [Next]_vars PROVE RequestInv'
    OBVIOUS
  <2>1. CASE Send
    BY <2>1 DEF Send, RequestInv
  <2>2. CASE UNCHANGED <<pipe, phase, request, converted>>
    BY <2>2 DEF RequestInv
  <2>3. CASE phase' \in {"streaming", "done", "broken"}
    BY <2>3 DEF RequestInv
  <2>. QED  BY <2>1, <2>2, <2>3
            DEF Next, vars, Open, ClientReads, EndOfStream, ReadFails, Reads, pipeOpenAIStream,
                pipeOpenAIStreamToAnthropic, pipeAnthropicStream, pipeAnthropicStreamToOpenAI, pipeResponsesStream
<1>. QED  BY <1>1, <1>2, PTL DEF Spec

\* A conversation stays legal when it is converted, and an OpenAI upstream
\* finds a system message at the head only.
THEOREM ConversationLegal == Spec => []ConversationStaysLegal
<1>1. RequestInv => ConversationStaysLegal
  <2>. SUFFICES ASSUME RequestInv, phase = "sent"
                PROVE  /\ pipe = "to_anthropic" =>
                             /\ LegalOpenAI(converted)
                             /\ \A i \in DOMAIN converted : converted[i].role = "system" => i = 1
                       /\ pipe = "to_openai" => LegalAnthropic(converted.messages)
    BY DEF ConversationStaysLegal
  <2>1. CASE pipe = "to_anthropic"
    <3>1. request \in AnthropicRequests /\ converted = AnthropicToOpenAI(request)
      BY <2>1 DEF RequestInv
    <3>. QED  BY <2>1, <3>1, SentToOpenAI
  <2>2. CASE pipe = "to_openai"
    <3>1. request \in OpenAIRequests /\ converted = OpenAIToAnthropic(request)
      BY <2>2 DEF RequestInv
    <3>. QED  BY <2>2, <3>1, SentToAnthropic
  <2>. QED  BY <2>1, <2>2
<1>. QED  BY <1>1, RequestAlways, PTL

\* Nothing that was said is lost in the conversion of a conversation but what
\* the other protocol cannot carry.
THEOREM NothingLost == Spec => []NothingIsLost
<1>1. RequestInv => NothingIsLost
  <2>. SUFFICES ASSUME RequestInv, phase = "sent" PROVE NothingIsLost
    BY DEF NothingIsLost
  <2>1. CASE pipe = "to_anthropic"
    <3>1. request \in AnthropicRequests /\ converted = AnthropicToOpenAI(request)
      BY <2>1 DEF RequestInv
    <3>2. {p \in PartsOf(request.messages, "blocks") : p.type \notin {"thinking", "image_http"}} \cup ToSet(request.system)
             = CarriedAll(converted)
      BY <3>1, SentToOpenAI
    <3>3. CarriedAll(converted) = UNION {CarriedBy(converted[i]) : i \in DOMAIN converted}
      BY DEF CarriedAll, ToSet
    <3>4. pipe # "to_openai"
      BY <2>1
    <3>. QED  BY <3>2, <3>3, <3>4, Zenon DEF NothingIsLost
  <2>2. CASE pipe = "to_openai"
    <3>1. request \in OpenAIRequests /\ converted = OpenAIToAnthropic(request)
      BY <2>2 DEF RequestInv
    <3>2. PICK sent : sent = PartsOf(converted.messages, "blocks") \cup ToSet(converted.system)
      OBVIOUS
    <3>3. ASSUME NEW i \in DOMAIN request.messages, NEW m, m = request.messages[i]
          PROVE  /\ {p \in ToSet(m.content) : p.type # "image_other"} \subseteq sent
                 /\ \A c \in ToSet(m.calls) : [type |-> "tool_use", val |-> c] \in sent
                 /\ m.answers # None => [type |-> "tool_result", val |-> m.answers] \in sent
      <4>1. Says(m) \subseteq sent
        BY <3>1, <3>2, <3>3, SentToAnthropic
      <4>2. \A p \in CarriedBy(m) : p.type # "image_other" => p \in sent
        BY <4>1 DEF Says
      <4>3. {p \in ToSet(m.content) : p.type # "image_other"} \subseteq sent
        BY <4>2 DEF CarriedBy
      <4>4. ASSUME NEW c \in ToSet(m.calls) PROVE [type |-> "tool_use", val |-> c] \in sent
        BY <4>2 DEF CarriedBy
      <4>5. m.answers # None => [type |-> "tool_result", val |-> m.answers] \in sent
        BY <4>2 DEF CarriedBy
      <4>. QED  BY <4>3, <4>4, <4>5
    <3>4. pipe # "to_anthropic"
      BY <2>2
    <3>. QED  BY <3>2, <3>3, <3>4 DEF NothingIsLost
  <2>3. CASE pipe \notin {"to_anthropic", "to_openai"}
    BY <2>3 DEF NothingIsLost
  <2>. QED  BY <2>1, <2>2, <2>3
<1>. QED  BY <1>1, RequestAlways, PTL

=============================================================================
