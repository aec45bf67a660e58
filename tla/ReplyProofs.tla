---------------------------- MODULE ReplyProofs ----------------------------
(***************************************************************************)
(* Proofs about replies that are converted while they stream               *)
(* (StreamAgreesWithResponse), for streams of any length: what the client  *)
(* has at the end is the conversion of the whole reply.                    *)
(***************************************************************************)
EXTENDS StreamAdapterProofs

-----------------------------------------------------------------------------
(***************************************************************************)
(* What a reader has at the end: increasing sequences of indices, and what *)
(* is picked along them.                                                   *)
(***************************************************************************)
Increasing(a) == \A i, j \in DOMAIN a : i < j => a[i] < a[j]

\* The last number of an increasing sequence is greater than the others, which increase.
LEMMA IncreasingAppend ==
  ASSUME NEW a \in Seq(Nat), NEW e \in Nat
  PROVE  Increasing(Append(a, e)) <=> Increasing(a) /\ \A x \in ToSet(a) : x < e
<1>1. /\ DOMAIN a = 1 .. Len(a) /\ DOMAIN Append(a, e) = 1 .. Len(a) + 1 /\ Len(a) \in Nat
      /\ Append(a, e)[Len(a) + 1] = e /\ \A i \in 1 .. Len(a) : Append(a, e)[i] = a[i] /\ a[i] \in Nat
  OBVIOUS
<1>2. ToSet(a) = {a[i] : i \in 1 .. Len(a)}
  BY <1>1 DEF ToSet
<1>. DEFINE b == Append(a, e)
<1>. HIDE DEF b
<1>3. ASSUME Increasing(b) PROVE Increasing(a) /\ \A i \in 1 .. Len(a) : a[i] < e
  BY <1>1, <1>3 DEF Increasing, b
<1>4. ASSUME Increasing(a), \A i \in 1 .. Len(a) : a[i] < e PROVE Increasing(b)
  BY <1>1, <1>4 DEF Increasing, b
<1>. QED  BY <1>2, <1>3, <1>4 DEF b

\* An increasing sequence is told by its elements.
LEMMA IncreasingUnique ==
  \A a \in Seq(Nat) : \A b \in Seq(Nat) : Increasing(a) /\ Increasing(b) /\ ToSet(a) = ToSet(b) => a = b
<1>. DEFINE G == {a \in Seq(Nat) : \A b \in Seq(Nat) : Increasing(a) /\ Increasing(b) /\ ToSet(a) = ToSet(b) => a = b}
<1>1. <<>> \in G
  <2>1. ToSet(<<>>) = {}
    BY DEF ToSet
  <2>2. \A b \in Seq(Nat) : ToSet(b) = {} => b = <<>>
    BY DEF ToSet
  <2>3. <<>> \in Seq(Nat)
    OBVIOUS
  <2>. QED  BY <2>1, <2>2, <2>3
<1>2. \A a \in Seq(Nat), e \in Nat : a \in G => Append(a, e) \in G
  <2>. SUFFICES ASSUME NEW a \in Seq(Nat), NEW e \in Nat, a \in G PROVE Append(a, e) \in G
    OBVIOUS
  <2>1. ASSUME NEW b \in Seq(Nat), Increasing(Append(a, e)), Increasing(b), ToSet(Append(a, e)) = ToSet(b)
        PROVE  Append(a, e) = b
    <3>1. ToSet(Append(a, e)) = ToSet(a) \cup {e}
      BY AppendRange
    <3>2. b # <<>>
      <4>1. ToSet(<<>>) = {}
        BY DEF ToSet
      <4>. QED  BY <2>1, <3>1, <4>1
    <3>. DEFINE f == SubSeq(b, 1, Len(b) - 1)
                x == b[Len(b)]
    <3>3. f \in Seq(Nat) /\ x \in Nat /\ b = Append(f, x)
      BY <3>2
    <3>. HIDE DEF f, x
    <3>4. ToSet(b) = ToSet(f) \cup {x}
      BY <3>3, AppendRange
    <3>5. Increasing(a) /\ (\A y \in ToSet(a) : y < e) /\ Increasing(f) /\ \A y \in ToSet(f) : y < x
      BY <2>1, <3>3, IncreasingAppend
    <3>6. (\A y \in ToSet(a) : y \in Nat) /\ \A y \in ToSet(f) : y \in Nat
      BY <3>3 DEF ToSet
    <3>7. ToSet(a) \cup {e} = ToSet(f) \cup {x}
      BY <2>1, <3>1, <3>4
    <3>8. e = x
      <4>1. e = x \/ e < x
        BY <3>5, <3>7
      <4>2. e = x \/ x < e
        BY <3>5, <3>7
      <4>. QED  BY <3>3, <4>1, <4>2
    <3>9. e \notin ToSet(a) /\ x \notin ToSet(f)
      BY <3>3, <3>5
    <3>10. ToSet(a) = ToSet(f)
      <4>1. \A y : y \in ToSet(a) <=> y \in ToSet(f)
        BY <3>7, <3>8, <3>9
      <4>. QED  BY <4>1
    <3>11. a = f
      BY <3>3, <3>5, <3>10
    <3>. QED  BY <3>3, <3>8, <3>11
  <2>. QED  BY <2>1
<1>. HIDE DEF G
<1>3. \A a \in Seq(Nat) : a \in G
  BY <1>1, <1>2, SeqInduction, Zenon
<1>. QED  BY <1>3 DEF G

\* What is picked of an increasing sequence increases.
LEMMA IncreasingPick ==
  ASSUME NEW I
  PROVE  \A a \in Seq(Nat) : Increasing(a) => Increasing(Pick(a, I))
<1>. DEFINE G == {a \in Seq(Nat) : Increasing(a) => Increasing(Pick(a, I))}
<1>1. <<>> \in G
  BY PickEmpty
<1>2. \A a \in Seq(Nat), e \in Nat : a \in G => Append(a, e) \in G
  <2>. SUFFICES ASSUME NEW a \in Seq(Nat), NEW e \in Nat, a \in G PROVE Append(a, e) \in G
    OBVIOUS
  <2>1. ASSUME Increasing(Append(a, e)) PROVE Increasing(Pick(Append(a, e), I))
    <3>1. Increasing(a) /\ \A x \in ToSet(a) : x < e
      BY <2>1, IncreasingAppend
    <3>2. Increasing(Pick(a, I)) /\ Pick(a, I) \in Seq(Nat)
      BY <3>1, PickType
    <3>3. \A x \in ToSet(Pick(a, I)) : x \in ToSet(a)
      <4>1. ToSet(Pick(a, I)) = {a[i] : i \in {j \in DOMAIN a : j \in I}}
        BY PickRange
      <4>. QED  BY <4>1 DEF ToSet
    <3>4. Increasing(Append(Pick(a, I), e))
      BY <3>1, <3>2, <3>3, IncreasingAppend
    <3>5. Pick(Append(a, e), I) = IF Len(a) + 1 \in I THEN Append(Pick(a, I), e) ELSE Pick(a, I)
      BY PickAppend
    <3>. QED  BY <3>2, <3>4, <3>5
  <2>. QED  BY <2>1
<1>. HIDE DEF G
<1>3. \A a \in Seq(Nat) : a \in G
  BY <1>1, <1>2, SeqInduction, Zenon
<1>. QED  BY <1>3 DEF G

\* What stands at some places of a sequence that maps another stands at those places of the other.
LEMMA PickMap ==
  ASSUME NEW S, NEW f, NEW I
  PROVE  \A s \in Seq(S) : Pick([i \in DOMAIN s |-> f[s[i]]], I) = [n \in DOMAIN Pick(s, I) |-> f[Pick(s, I)[n]]]
<1>. DEFINE M(s) == [i \in DOMAIN s |-> f[s[i]]]
            V == {f[x] : x \in S}
            G == {s \in Seq(S) : Pick(M(s), I) = M(Pick(s, I))}
<1>0. \A s \in Seq(S) : M(s) \in Seq(V)
  OBVIOUS
<1>1. <<>> \in G
  <2>1. M(<<>>) = <<>>
    OBVIOUS
  <2>2. Pick(M(<<>>), I) = M(Pick(<<>>, I))
    BY <2>1, PickEmpty, Zenon
  <2>3. <<>> \in Seq(S)
    OBVIOUS
  <2>. HIDE DEF M
  <2>. QED  BY <2>2, <2>3
<1>2. \A s \in Seq(S), e \in S : M(Append(s, e)) = Append(M(s), f[e])
  OBVIOUS
<1>3. \A s \in Seq(S), e \in S : s \in G => Append(s, e) \in G
  <2>. HIDE DEF M
  <2>. SUFFICES ASSUME NEW s \in Seq(S), NEW e \in S, s \in G PROVE Append(s, e) \in G
    OBVIOUS
  <2>1. M(Append(s, e)) = Append(M(s), f[e]) /\ M(s) \in Seq(V) /\ f[e] \in V
    BY <1>0, <1>2
  <2>2. Len(M(s)) = Len(s)
    BY DEF M
  <2>3. Pick(M(Append(s, e)), I) = IF Len(s) + 1 \in I THEN Append(Pick(M(s), I), f[e]) ELSE Pick(M(s), I)
    <3>. DEFINE ms == M(s)
                fe == f[e]
    <3>1. ms \in Seq(V) /\ fe \in V /\ Len(ms) = Len(s)
      BY <2>1, <2>2
    <3>. HIDE DEF V, ms, fe
    <3>2. Pick(Append(ms, fe), I) = IF Len(ms) + 1 \in I THEN Append(Pick(ms, I), fe) ELSE Pick(ms, I)
      BY <3>1, PickAppend
    <3>. QED  BY <2>1, <3>1, <3>2 DEF ms, fe
  <2>4. Pick(Append(s, e), I) = IF Len(s) + 1 \in I THEN Append(Pick(s, I), e) ELSE Pick(s, I)
    BY PickAppend
  <2>5. Pick(s, I) \in Seq(S)
    BY PickType
  <2>6. M(Append(Pick(s, I), e)) = Append(M(Pick(s, I)), f[e])
    BY <1>2, <2>5
  <2>7. Append(s, e) \in Seq(S)
    OBVIOUS
  <2>8. Pick(M(s), I) = M(Pick(s, I))
    OBVIOUS
  <2>. QED  BY <2>3, <2>4, <2>6, <2>7, <2>8
<1>. HIDE DEF G
<1>4. \A s \in Seq(S) : s \in G
  BY <1>1, <1>3, SeqInduction, Zenon
<1>. QED  BY <1>4, Zenon DEF G

\* A sequence over a set is one over a larger set.
LEMMA SeqOfMore ==
  ASSUME NEW S, NEW T, S \subseteq T, NEW s \in Seq(S)
  PROVE  s \in Seq(T)
OBVIOUS

\* A greatest number comes last.
LEMMA AscendingLast ==
  ASSUME NEW S, S \subseteq Nat, IsFiniteSet(S), NEW x \in Nat, \A y \in S : y < x
  PROVE  Ascending(S \cup {x}) = Append(Ascending(S), x)
<1>. DEFINE T == S \cup {x}
<1>1. T \subseteq Nat /\ IsFiniteSet(T)
  BY FS_AddElement
<1>. HIDE DEF T
<1>2. Ascending(S) \in Seq(S) /\ ToSet(Ascending(S)) = S /\ Increasing(Ascending(S))
  BY AscendingIs DEF Increasing
<1>3. Ascending(T) \in Seq(T) /\ ToSet(Ascending(T)) = T /\ Increasing(Ascending(T))
  BY <1>1, AscendingIs DEF Increasing
<1>4. Ascending(S) \in Seq(Nat) /\ Ascending(T) \in Seq(Nat)
  BY <1>1, <1>2, <1>3, SeqOfMore
<1>5. Append(Ascending(S), x) \in Seq(Nat) /\ ToSet(Append(Ascending(S), x)) = T
  BY <1>2, <1>4, AppendRange DEF T
<1>6. Increasing(Append(Ascending(S), x))
  BY <1>2, <1>4, IncreasingAppend
<1>. QED  BY <1>3, <1>4, <1>5, <1>6, IncreasingUnique DEF T

\* The first numbers.
LEMMA AscendingFirst ==
  ASSUME NEW k \in Nat
  PROVE  Ascending(0 .. k - 1) = [n \in 1 .. k |-> n - 1]
<1>. DEFINE a == [n \in 1 .. k |-> n - 1]
            S == 0 .. k - 1
<1>1. a \in Seq(Nat) /\ Increasing(a)
  BY DEF Increasing
<1>2. ToSet(a) = S
  <2>1. \A i \in 1 .. k : a[i] \in S
    OBVIOUS
  <2>2. \A x \in S : x + 1 \in 1 .. k /\ a[x + 1] = x
    OBVIOUS
  <2>3. DOMAIN a = 1 .. k
    OBVIOUS
  <2>. HIDE DEF a, S
  <2>. QED  BY <2>1, <2>2, <2>3 DEF ToSet
<1>3. S \subseteq Nat /\ IsFiniteSet(S)
  BY FS_Interval
<1>. HIDE DEF a, S
<1>4. Ascending(S) \in Seq(S) /\ ToSet(Ascending(S)) = S /\ Increasing(Ascending(S))
  BY <1>3, AscendingIs DEF Increasing
<1>5. Ascending(S) \in Seq(Nat)
  BY <1>3, <1>4, SeqOfMore
<1>6. Ascending(S) = a
  BY <1>1, <1>2, <1>4, <1>5, IncreasingUnique
<1>. QED  BY <1>6 DEF a, S

(* What AssembleChunks makes of the items of an OpenAI stream, part by     *)
(* part.                                                                   *)
Items == ChunkItem \cup {Done}
ChunksOf(w) == Pick(w, {i \in DOMAIN w : w[i].type = "chunk"})
ToolsOf(chunks) == [i \in DOMAIN chunks |-> chunks[i].tools]
TextOrNone(chunks) == [i \in DOMAIN chunks |-> chunks[i].text]
FinishOrNone(chunks) == [i \in DOMAIN chunks |-> chunks[i].finish]
ThosePresent(s) == Pick(s, {i \in DOMAIN s : s[i] # None})
DeltasSent(w) == FlattenSeq(ToolsOf(ChunksOf(w)))
TextsSent(w) == ThosePresent(TextOrNone(ChunksOf(w)))
FinishSent(w) == LastPresent(FinishOrNone(ChunksOf(w)))
Own(D, t) == Pick(D, {i \in DOMAIN D : D[i].index = t})
Ids(own) == [i \in DOMAIN own |-> own[i].id]
Names(own) == [i \in DOMAIN own |-> own[i].name]
ArgsOrNone(own) == [i \in DOMAIN own |-> own[i].args]
ArgsSent(D, t) == ThosePresent(ArgsOrNone(Own(D, t)))
CallSent(D, t) == [id |-> LastPresent(Ids(Own(D, t))), name |-> LastPresent(Names(Own(D, t))), args |-> ArgsSent(D, t)]
IndicesSent(D) == {D[i].index : i \in DOMAIN D}

\* The parts are those of AssembleChunks.
LEMMA AssembledIs ==
  ASSUME NEW w, NEW D, D = DeltasSent(w), NEW T, T = Ascending(IndicesSent(D))
  PROVE  AssembleChunks(w) = [text |-> TextsSent(w), calls |-> [n \in DOMAIN T |-> CallSent(D, T[n])],
                              stop |-> FinishSent(w)]
<1>1. AssembleChunks(w) =
        [text |-> TextsSent(w),
         calls |-> [n \in DOMAIN Ascending(IndicesSent(DeltasSent(w))) |->
                       CallSent(DeltasSent(w), Ascending(IndicesSent(DeltasSent(w)))[n])],
         stop |-> FinishSent(w)]
  BY Zenon DEF AssembleChunks, Those, Present, ThosePresent, ChunksOf, DeltasSent, ToolsOf, Own, CallSent, Ids,
     Names, ArgsSent, ArgsOrNone, IndicesSent, TextsSent, TextOrNone, FinishSent, FinishOrNone
<1>. QED  BY <1>1

\* The pick of a longer sequence, at places that agree.
LEMMA PickGrows ==
  ASSUME NEW S, NEW s \in Seq(S), NEW e \in S, NEW I, NEW J, \A i \in DOMAIN s : i \in I <=> i \in J
  PROVE  Pick(Append(s, e), J) = IF Len(s) + 1 \in J THEN Append(Pick(s, I), e) ELSE Pick(s, I)
<1>1. Pick(Append(s, e), J) = IF Len(s) + 1 \in J THEN Append(Pick(s, J), e) ELSE Pick(s, J)
  BY PickAppend
<1>2. Pick(s, I) = Pick(s, J)
  BY PickSame
<1>. QED  BY <1>1, <1>2

\* One value more.
LEMMA PresentAppend ==
  ASSUME NEW S, NEW s \in Seq(S), NEW e \in S
  PROVE  /\ ThosePresent(Append(s, e)) = IF e # None THEN Append(ThosePresent(s), e) ELSE ThosePresent(s)
         /\ ThosePresent(s) \in Seq(S \ {None})
<1>. DEFINE t == Append(s, e)
            I == {i \in DOMAIN s : s[i] # None}
            J == {i \in DOMAIN t : t[i] # None}
<1>1. /\ DOMAIN s = 1 .. Len(s) /\ DOMAIN t = 1 .. Len(s) + 1 /\ Len(s) \in Nat
      /\ t[Len(s) + 1] = e /\ \A i \in 1 .. Len(s) : t[i] = s[i]
  OBVIOUS
<1>2. Len(s) + 1 \in J <=> e # None
  BY <1>1
<1>3. \A i \in DOMAIN s : i \in I <=> i \in J
  BY <1>1
<1>4. ThosePresent(s) = Pick(s, I) /\ ThosePresent(t) = Pick(t, J)
  BY Zenon DEF ThosePresent
<1>5. {s[i] : i \in {j \in DOMAIN s : j \in I}} \subseteq S \ {None}
  BY <1>1
<1>. HIDE DEF I, J
<1>6. Pick(t, J) = IF Len(s) + 1 \in J THEN Append(Pick(s, I), e) ELSE Pick(s, I)
  BY <1>3, PickGrows
<1>7. Pick(s, I) \in Seq(S) /\ ToSet(Pick(s, I)) \subseteq S \ {None}
  BY <1>5, PickType, PickRange
<1>8. Pick(s, I) \in Seq(S \ {None})
  <2>. DEFINE p == Pick(s, I)
  <2>1. p \in Seq(S) /\ \A i \in DOMAIN p : p[i] \in S \ {None}
    BY <1>7 DEF ToSet
  <2>. HIDE DEF p
  <2>2. p \in Seq(S \ {None})
    BY <2>1
  <2>. QED  BY <2>2 DEF p
<1>. QED  BY <1>2, <1>4, <1>6, <1>8

\* Where only one value occurs, it is the last one.
LEMMA LastPresentIs ==
  ASSUME NEW S, NEW v \in Seq(S), NEW x, \A i \in DOMAIN v : v[i] \in {None, x}
  PROVE  LastPresent(v) = IF \E i \in DOMAIN v : v[i] # None THEN x ELSE None
<1>. DEFINE I == {i \in 1 .. Len(v) : v[i] # None}
<1>1. SelectLastInSeq(v, Present) = IF I # {} THEN Max(I) ELSE 0
  BY Zenon DEF SelectLastInSeq, Present
<1>2. DOMAIN v = 1 .. Len(v) /\ Len(v) \in Nat
  OBVIOUS
<1>3. LastPresent(v) = LET i == SelectLastInSeq(v, Present) IN IF i = 0 THEN None ELSE v[i]
  BY Zenon DEF LastPresent
<1>4. CASE I = {}
  BY <1>1, <1>2, <1>3, <1>4
<1>5. CASE I # {}
  <2>1. I \subseteq Nat /\ IsFiniteSet(I)
    <3>1. IsFiniteSet(1 .. Len(v)) /\ I \subseteq 1 .. Len(v)
      BY <1>2, FS_Interval
    <3>. QED  BY <1>2, <3>1, FS_Subset
  <2>2. Max(I) \in I
    BY <1>5, <2>1, MaxOf
  <2>3. Max(I) # 0 /\ v[Max(I)] # None /\ Max(I) \in DOMAIN v
    BY <1>2, <2>2
  <2>4. LastPresent(v) = v[Max(I)]
    BY <1>1, <1>3, <1>5, <2>3
  <2>. QED  BY <2>3, <2>4
<1>. QED  BY <1>4, <1>5

\* The items of a stream are its chunks, and the end.
LEMMA ItemIs ==
  ASSUME NEW c \in Items
  PROVE  (c.type = "chunk" <=> c \in ChunkItem) /\ (c.type # "chunk" <=> c = Done)
<1>1. Done.type = "done" /\ \A x \in ChunkItem : x.type = "chunk"
  BY DEF Done, ChunkItem
<1>. QED  BY <1>1 DEF Items

\* One item more, among the chunks.
LEMMA ChunksAppend ==
  ASSUME NEW w \in Seq(Items), NEW c \in Items
  PROVE  /\ ChunksOf(w) \in Seq(ChunkItem)
         /\ ToSet(ChunksOf(w)) = {x \in ToSet(w) : x.type = "chunk"}
         /\ ChunksOf(Append(w, c)) = IF c.type = "chunk" THEN Append(ChunksOf(w), c) ELSE ChunksOf(w)
<1>. DEFINE t == Append(w, c)
            I == {i \in DOMAIN w : w[i].type = "chunk"}
            J == {i \in DOMAIN t : t[i].type = "chunk"}
<1>1. /\ DOMAIN w = 1 .. Len(w) /\ DOMAIN t = 1 .. Len(w) + 1 /\ Len(w) \in Nat
      /\ t[Len(w) + 1] = c /\ \A i \in 1 .. Len(w) : t[i] = w[i]
  OBVIOUS
<1>2. Len(w) + 1 \in J <=> c.type = "chunk"
  BY <1>1
<1>3. \A i \in DOMAIN w : i \in I <=> i \in J
  BY <1>1
<1>4. ChunksOf(w) = Pick(w, I) /\ ChunksOf(t) = Pick(t, J)
  BY Zenon DEF ChunksOf
<1>5. {w[i] : i \in {j \in DOMAIN w : j \in I}} = {x \in ToSet(w) : x.type = "chunk"}
  BY DEF ToSet
<1>. HIDE DEF I, J
<1>6. Pick(t, J) = IF Len(w) + 1 \in J THEN Append(Pick(w, I), c) ELSE Pick(w, I)
  BY <1>3, PickGrows
<1>7. Pick(w, I) \in Seq(Items) /\ ToSet(Pick(w, I)) = {x \in ToSet(w) : x.type = "chunk"}
  BY <1>5, PickType, PickRange
<1>8. ChunksOf(w) \in Seq(ChunkItem)
  <2>. DEFINE p == Pick(w, I)
  <2>1. p \in Seq(Items) /\ \A i \in DOMAIN p : p[i] \in Items /\ p[i].type = "chunk"
    BY <1>7 DEF ToSet
  <2>. HIDE DEF p
  <2>2. \A i \in DOMAIN p : p[i] \in ChunkItem
    BY <2>1, ItemIs
  <2>3. p \in Seq(ChunkItem)
    BY <2>1, <2>2
  <2>. QED  BY <1>4, <2>3 DEF p
<1>. QED  BY <1>2, <1>4, <1>6, <1>7, <1>8

\* One chunk more, part by part.
LEMMA SentMore ==
  ASSUME NEW w \in Seq(Items), NEW c \in ChunkItem, NEW v, v = Append(w, c)
  PROVE  /\ DeltasSent(w) \in Seq(ToolDeltas) /\ DeltasSent(v) = DeltasSent(w) \o c.tools
         /\ TextsSent(w) \in Seq(Nat)
         /\ TextsSent(v) = IF c.text # None THEN Append(TextsSent(w), c.text) ELSE TextsSent(w)
<1>. DEFINE k == ChunksOf(w)
<1>1. c \in Items /\ c.type = "chunk"
  BY DEF Items, ChunkItem
<1>2. k \in Seq(ChunkItem) /\ ChunksOf(v) = Append(k, c)
  BY <1>1, ChunksAppend
<1>. HIDE DEF k
<1>3. c.tools \in Seq(ToolDeltas) /\ c.text \in Nat \cup {None}
  BY DEF ChunkItem
<1>4. \A i \in DOMAIN k : k[i].tools \in Seq(ToolDeltas) /\ k[i].text \in Nat \cup {None}
  <2>1. \A i \in DOMAIN k : k[i] \in ChunkItem
    BY <1>2
  <2>2. \A x \in ChunkItem : x.tools \in Seq(ToolDeltas) /\ x.text \in Nat \cup {None}
    BY DEF ChunkItem
  <2>. QED  BY <2>1, <2>2
<1>5. ToolsOf(k) \in Seq(Seq(ToolDeltas))
  <2>. DEFINE T == Seq(ToolDeltas)
  <2>1. \A i \in DOMAIN k : k[i].tools \in T
    BY <1>4
  <2>. HIDE DEF T
  <2>2. ToolsOf(k) \in Seq(T)
    BY <1>2, <2>1 DEF ToolsOf
  <2>. QED  BY <2>2 DEF T
<1>6. TextOrNone(k) \in Seq(Nat \cup {None})
  <2>. DEFINE T == Nat \cup {None}
  <2>1. \A i \in DOMAIN k : k[i].text \in T
    BY <1>4
  <2>. HIDE DEF T
  <2>2. TextOrNone(k) \in Seq(T)
    BY <1>2, <2>1 DEF TextOrNone
  <2>. QED  BY <2>2 DEF T
<1>7. ToolsOf(Append(k, c)) = Append(ToolsOf(k), c.tools)
  BY <1>2 DEF ToolsOf
<1>8. TextOrNone(Append(k, c)) = Append(TextOrNone(k), c.text)
  BY <1>2 DEF TextOrNone
<1>9. DeltasSent(w) = FlattenSeq(ToolsOf(k)) /\ DeltasSent(v) = FlattenSeq(ToolsOf(Append(k, c)))
  BY <1>2 DEF DeltasSent, k
<1>10. TextsSent(w) = ThosePresent(TextOrNone(k)) /\ TextsSent(v) = ThosePresent(TextOrNone(Append(k, c)))
  BY <1>2 DEF TextsSent, k
<1>11. DeltasSent(w) \in Seq(ToolDeltas) /\ DeltasSent(v) = DeltasSent(w) \o c.tools
  BY <1>3, <1>5, <1>7, <1>9, FlattenType, FlattenAppend
<1>12. /\ TextsSent(w) \in Seq((Nat \cup {None}) \ {None})
       /\ TextsSent(v) = IF c.text # None THEN Append(TextsSent(w), c.text) ELSE TextsSent(w)
  BY <1>3, <1>6, <1>8, <1>10, PresentAppend
<1>13. TextsSent(w) \in Seq(Nat)
  <2>1. (Nat \cup {None}) \ {None} \subseteq Nat
    OBVIOUS
  <2>. QED  BY <1>12, <2>1, SeqOfMore
<1>. QED  BY <1>11, <1>12, <1>13

\* Nothing is said by the end of a stream ...
LEMMA SentDone ==
  ASSUME NEW w \in Seq(Items), NEW v, v = Append(w, Done)
  PROVE  DeltasSent(v) = DeltasSent(w) /\ TextsSent(v) = TextsSent(w) /\ FinishSent(v) = FinishSent(w)
<1>1. Done \in Items /\ Done.type # "chunk"
  BY DEF Items, Done
<1>2. ChunksOf(v) = ChunksOf(w)
  BY <1>1, ChunksAppend
<1>. QED  BY <1>2 DEF DeltasSent, TextsSent, FinishSent

\* ... and before its first item.
LEMMA SentNothing ==
  DeltasSent(<<>>) = <<>> /\ TextsSent(<<>>) = <<>> /\ FinishSent(<<>>) = None
<1>1. ChunksOf(<<>>) = <<>>
  BY PickEmpty DEF ChunksOf
<1>2. ToolsOf(<<>>) = <<>> /\ TextOrNone(<<>>) = <<>> /\ FinishOrNone(<<>>) = <<>>
  BY DEF ToolsOf, TextOrNone, FinishOrNone
<1>3. ThosePresent(<<>>) = <<>>
  BY PickEmpty DEF ThosePresent
<1>4. LastPresent(<<>>) = None
  <2>1. <<>> \in Seq({None}) /\ \A i \in DOMAIN <<>> : (<<>>)[i] \in {None, None}
    OBVIOUS
  <2>. QED  BY <2>1, LastPresentIs
<1>. QED  BY <1>1, <1>2, <1>3, <1>4, FlattenEmpty DEF DeltasSent, TextsSent, FinishSent

\* The finish reason that was sent.
LEMMA FinishIs ==
  ASSUME NEW w \in Seq(Items), NEW x, \A c \in ToSet(w) : c.type = "chunk" => c.finish \in {None, x}
  PROVE  FinishSent(w) = IF \E c \in ToSet(w) : c.type = "chunk" /\ c.finish # None THEN x ELSE None
<1>. DEFINE k == ChunksOf(w)
            f == FinishOrNone(k)
            T == {None, x}
<1>1. k \in Seq(ChunkItem) /\ ToSet(k) = {c \in ToSet(w) : c.type = "chunk"}
  <2>1. Done \in Items
    BY DEF Items
  <2>. QED  BY <2>1, ChunksAppend
<1>. HIDE DEF k
<1>2. \A i \in DOMAIN k : k[i].finish \in T
  BY <1>1 DEF ToSet
<1>3. f \in Seq(T) /\ DOMAIN f = DOMAIN k /\ \A i \in DOMAIN k : f[i] = k[i].finish
  <2>. HIDE DEF T
  <2>. QED  BY <1>1, <1>2 DEF FinishOrNone
<1>4. \A i \in DOMAIN f : f[i] \in {None, x}
  BY <1>2, <1>3
<1>5. FinishSent(w) = LastPresent(f)
  BY DEF FinishSent, k
<1>. HIDE DEF f, T
<1>6. FinishSent(w) = IF \E i \in DOMAIN f : f[i] # None THEN x ELSE None
  BY <1>3, <1>4, <1>5, LastPresentIs
<1>7. (\E i \in DOMAIN f : f[i] # None) <=> \E c \in ToSet(w) : c.type = "chunk" /\ c.finish # None
  <2>1. (\E i \in DOMAIN f : f[i] # None) <=> \E i \in DOMAIN k : k[i].finish # None
    BY <1>3
  <2>2. (\E i \in DOMAIN k : k[i].finish # None) <=> \E c \in ToSet(k) : c.finish # None
    BY DEF ToSet
  <2>. QED  BY <1>1, <2>1, <2>2
<1>. QED  BY <1>6, <1>7

\* The deltas of a tool.
LEMMA OwnIs ==
  ASSUME NEW D \in Seq(ToolDeltas), NEW t
  PROVE  /\ Own(D, t) \in Seq(ToolDeltas)
         /\ ToSet(Own(D, t)) = {tc \in ToSet(D) : tc.index = t}
         /\ \A tc \in ToolDeltas :
               Own(Append(D, tc), t) = IF tc.index = t THEN Append(Own(D, t), tc) ELSE Own(D, t)
<1>. DEFINE I == {i \in DOMAIN D : D[i].index = t}
<1>1. DOMAIN D = 1 .. Len(D) /\ Len(D) \in Nat
  OBVIOUS
<1>2. Own(D, t) = Pick(D, I)
  BY Zenon DEF Own
<1>3. {D[i] : i \in {j \in DOMAIN D : j \in I}} = {tc \in ToSet(D) : tc.index = t}
  BY DEF ToSet
<1>4. Own(D, t) \in Seq(ToolDeltas) /\ ToSet(Own(D, t)) = {tc \in ToSet(D) : tc.index = t}
  <2>. HIDE DEF I
  <2>. QED  BY <1>2, <1>3, PickType, PickRange
<1>5. ASSUME NEW tc \in ToolDeltas
      PROVE  Own(Append(D, tc), t) = IF tc.index = t THEN Append(Own(D, t), tc) ELSE Own(D, t)
  <2>. DEFINE E == Append(D, tc)
              J == {i \in DOMAIN E : E[i].index = t}
  <2>1. /\ DOMAIN E = 1 .. Len(D) + 1 /\ E[Len(D) + 1] = tc /\ \A i \in 1 .. Len(D) : E[i] = D[i]
    OBVIOUS
  <2>2. Len(D) + 1 \in J <=> tc.index = t
    BY <1>1, <2>1
  <2>3. \A i \in DOMAIN D : i \in I <=> i \in J
    BY <1>1, <2>1
  <2>4. Own(E, t) = Pick(E, J)
    BY Zenon DEF Own
  <2>. HIDE DEF I, J
  <2>5. Pick(E, J) = IF Len(D) + 1 \in J THEN Append(Pick(D, I), tc) ELSE Pick(D, I)
    BY <2>3, PickGrows
  <2>. QED  BY <1>2, <2>2, <2>4, <2>5
<1>. QED  BY <1>4, <1>5

\* The arguments of a tool, one delta after the other.
LEMMA ArgsMore ==
  ASSUME NEW D \in Seq(ToolDeltas), NEW tc \in ToolDeltas, NEW E, E = Append(D, tc), NEW t
  PROVE  /\ ArgsSent(D, t) \in Seq(Nat)
         /\ ArgsSent(E, t) = IF tc.index = t /\ tc.args # None THEN Append(ArgsSent(D, t), tc.args)
                             ELSE ArgsSent(D, t)
<1>. DEFINE k == Own(D, t)
            T == Nat \cup {None}
<1>1. k \in Seq(ToolDeltas) /\ Own(E, t) = IF tc.index = t THEN Append(k, tc) ELSE k
  BY OwnIs
<1>. HIDE DEF k
<1>2. \A x \in ToolDeltas : x.args \in T
  BY DEF ToolDeltas
<1>3. \A i \in DOMAIN k : k[i] \in ToolDeltas
  BY <1>1
<1>. HIDE DEF T
<1>4. ArgsOrNone(k) \in Seq(T) /\ tc.args \in T
  BY <1>1, <1>2, <1>3 DEF ArgsOrNone
<1>5. ArgsOrNone(Append(k, tc)) = Append(ArgsOrNone(k), tc.args)
  BY <1>1 DEF ArgsOrNone
<1>6. ArgsSent(D, t) = ThosePresent(ArgsOrNone(k)) /\ ArgsSent(E, t) = ThosePresent(ArgsOrNone(Own(E, t)))
  BY DEF ArgsSent, k
<1>7. /\ ArgsSent(D, t) \in Seq(T \ {None})
      /\ ThosePresent(ArgsOrNone(Append(k, tc))) =
            IF tc.args # None THEN Append(ArgsSent(D, t), tc.args) ELSE ArgsSent(D, t)
  <2>. DEFINE a == ArgsOrNone(k)
              e == tc.args
  <2>1. a \in Seq(T) /\ e \in T
    BY <1>4
  <2>. HIDE DEF a, e
  <2>2. /\ ThosePresent(Append(a, e)) = IF e # None THEN Append(ThosePresent(a), e) ELSE ThosePresent(a)
        /\ ThosePresent(a) \in Seq(T \ {None})
    BY <2>1, PresentAppend
  <2>. QED  BY <1>5, <1>6, <2>2 DEF a, e
<1>8. ArgsSent(D, t) \in Seq(Nat)
  <2>1. T \ {None} \subseteq Nat
    BY DEF T
  <2>. QED  BY <1>7, <2>1, SeqOfMore
<1>. QED  BY <1>1, <1>6, <1>7, <1>8

\* A tool that nothing was sent of has no arguments.
LEMMA ArgsNone ==
  ASSUME NEW D \in Seq(ToolDeltas), NEW t, t \notin IndicesSent(D)
  PROVE  ArgsSent(D, t) = <<>>
<1>1. Own(D, t) \in Seq(ToolDeltas) /\ ToSet(Own(D, t)) = {}
  <2>1. {tc \in ToSet(D) : tc.index = t} = {}
    BY DEF IndicesSent, ToSet
  <2>. QED  BY <2>1, OwnIs
<1>2. Own(D, t) = <<>>
  <2>. DEFINE k == Own(D, t)
  <2>1. k \in Seq(ToolDeltas) /\ ToSet(k) = {}
    BY <1>1
  <2>. HIDE DEF k
  <2>2. DOMAIN k = {}
    BY <2>1 DEF ToSet
  <2>3. k = <<>>
    BY <2>1, <2>2
  <2>. QED  BY <2>3 DEF k
<1>3. ArgsOrNone(<<>>) = <<>> /\ ThosePresent(<<>>) = <<>>
  BY PickEmpty DEF ArgsOrNone, ThosePresent
<1>. QED  BY <1>2, <1>3 DEF ArgsSent

\* The indices of the tools, one delta after the other.
LEMMA IndicesMore ==
  ASSUME NEW D \in Seq(ToolDeltas), NEW tc \in ToolDeltas
  PROVE  /\ IndicesSent(D) = {x.index : x \in ToSet(D)} /\ IndicesSent(D) \subseteq Nat
         /\ IndicesSent(Append(D, tc)) = IndicesSent(D) \cup {tc.index}
         /\ ToSet(Append(D, tc)) = ToSet(D) \cup {tc}
<1>1. \A E : IndicesSent(E) = {x.index : x \in ToSet(E)}
  BY DEF IndicesSent, ToSet
<1>2. ToSet(Append(D, tc)) = ToSet(D) \cup {tc}
  BY AppendRange
<1>3. \A x \in ToSet(D) : x.index \in Nat
  <2>1. \A x \in ToSet(D) : x \in ToolDeltas
    BY DEF ToSet
  <2>. QED  BY <2>1 DEF ToolDeltas
<1>4. IndicesSent(Append(D, tc)) = IndicesSent(D) \cup {tc.index}
  BY <1>1, <1>2
<1>5. IndicesSent(D) = {x.index : x \in ToSet(D)}
  BY <1>1
<1>6. IndicesSent(D) \subseteq Nat
  BY <1>3, <1>5
<1>. QED  BY <1>2, <1>4, <1>5, <1>6

\* The identifier and the name of a call, when no other is sent for its index.
LEMMA CallSentIs ==
  ASSUME NEW D \in Seq(ToolDeltas), NEW t, NEW x, NEW y,
         \A tc \in ToSet(D) : tc.index = t => tc.id \in {None, x} /\ tc.name \in {None, y}
  PROVE  CallSent(D, t) =
            [id |-> IF \E tc \in ToSet(D) : tc.index = t /\ tc.id # None THEN x ELSE None,
             name |-> IF \E tc \in ToSet(D) : tc.index = t /\ tc.name # None THEN y ELSE None,
             args |-> ArgsSent(D, t)]
<1>. DEFINE k == Own(D, t)
            a == Ids(k)
            b == Names(k)
            T == {None, x}
            U == {None, y}
<1>1. k \in Seq(ToolDeltas) /\ ToSet(k) = {tc \in ToSet(D) : tc.index = t}
  BY OwnIs
<1>. HIDE DEF k
<1>2. \A i \in DOMAIN k : k[i].id \in T /\ k[i].name \in U
  BY <1>1 DEF ToSet
<1>. HIDE DEF T, U
<1>3. a \in Seq(T) /\ DOMAIN a = DOMAIN k /\ \A i \in DOMAIN k : a[i] = k[i].id
  BY <1>1, <1>2 DEF Ids
<1>4. b \in Seq(U) /\ DOMAIN b = DOMAIN k /\ \A i \in DOMAIN k : b[i] = k[i].name
  BY <1>1, <1>2 DEF Names
<1>5. CallSent(D, t) = [id |-> LastPresent(a), name |-> LastPresent(b), args |-> ArgsSent(D, t)]
  BY DEF CallSent, k
<1>6. \A i \in DOMAIN a : a[i] \in {None, x}
  BY <1>2, <1>3 DEF T
<1>7. \A i \in DOMAIN b : b[i] \in {None, y}
  BY <1>2, <1>4 DEF U
<1>. HIDE DEF a, b
<1>8. LastPresent(a) = IF \E i \in DOMAIN a : a[i] # None THEN x ELSE None
  BY <1>3, <1>6, LastPresentIs
<1>9. LastPresent(b) = IF \E i \in DOMAIN b : b[i] # None THEN y ELSE None
  BY <1>4, <1>7, LastPresentIs
<1>10. (\E i \in DOMAIN a : a[i] # None) <=> \E tc \in ToSet(D) : tc.index = t /\ tc.id # None
  <2>1. (\E i \in DOMAIN a : a[i] # None) <=> \E tc \in ToSet(k) : tc.id # None
    BY <1>3 DEF ToSet
  <2>. QED  BY <1>1, <2>1
<1>11. (\E i \in DOMAIN b : b[i] # None) <=> \E tc \in ToSet(D) : tc.index = t /\ tc.name # None
  <2>1. (\E i \in DOMAIN b : b[i] # None) <=> \E tc \in ToSet(k) : tc.name # None
    BY <1>4 DEF ToSet
  <2>. QED  BY <1>1, <2>1
<1>. QED  BY <1>5, <1>8, <1>9, <1>10, <1>11

(* What a message says and calls: its texts, one after the other, and its  *)
(* calls, in the order of their indices.                                   *)
KindAt(m, kind) == {i \in DOMAIN m.blocks : m.blocks[i].kind = kind}
ContentsAt(m, L) == [n \in DOMAIN L |-> m.blocks[L[n]].content]
CallOf(b) == [id |-> b.val.id, name |-> b.val.name, args |-> b.content]
Spoken(m) == FlattenSeq(ContentsAt(m, Ascending(KindAt(m, "text"))))
Called(m) == LET L == Ascending(KindAt(m, "tool_use")) IN [n \in DOMAIN L |-> CallOf(m.blocks[L[n]])]
Parted(b) == [type |-> b.kind,
              val |-> IF b.kind = "tool_use" THEN [id |-> b.val.id, name |-> b.val.name, args |-> b.content]
                      ELSE b.content]

\* What is picked of the ascending numbers are the ascending numbers that are picked.
LEMMA AscendingPick ==
  ASSUME NEW S, S \subseteq Nat, IsFiniteSet(S), NEW T, T \subseteq S, NEW a, a = Ascending(S)
  PROVE  Pick(a, {n \in DOMAIN a : a[n] \in T}) = Ascending(T)
<1>. DEFINE I == {n \in DOMAIN a : a[n] \in T}
<1>1. a \in Seq(S) /\ ToSet(a) = S /\ Increasing(a)
  BY AscendingIs DEF Increasing
<1>2. T \subseteq Nat /\ IsFiniteSet(T)
  BY FS_Subset
<1>3. Ascending(T) \in Seq(T) /\ ToSet(Ascending(T)) = T /\ Increasing(Ascending(T))
  BY <1>2, AscendingIs DEF Increasing
<1>4. Ascending(T) \in Seq(Nat) /\ a \in Seq(Nat)
  BY <1>1, <1>2, <1>3, SeqOfMore
<1>5. {a[n] : n \in {j \in DOMAIN a : j \in I}} = T
  BY <1>1 DEF ToSet
<1>. HIDE DEF I
<1>6. Pick(a, I) \in Seq(Nat) /\ ToSet(Pick(a, I)) = T
  <2>1. Pick(a, I) \in Seq(Nat)
    BY <1>4, PickType
  <2>2. ToSet(Pick(a, I)) = {a[n] : n \in {j \in DOMAIN a : j \in I}}
    BY <1>4, PickRange
  <2>. QED  BY <1>5, <2>1, <2>2
<1>7. Increasing(Pick(a, I))
  BY <1>1, <1>4, IncreasingPick
<1>8. Pick(a, I) = Ascending(T)
  BY <1>3, <1>4, <1>6, <1>7, IncreasingUnique
<1>. QED  BY <1>8 DEF I

\* The parts of a response that are blocks of a kind, along the indices of these blocks.
LEMMA ReplyParts ==
  ASSUME NEW m, DOMAIN m.blocks \subseteq Nat, IsFiniteSet(DOMAIN m.blocks), NEW kind,
         NEW L, L = Ascending(KindAt(m, kind))
  PROVE  OfType(Reply(m).content, kind) = [n \in DOMAIN L |-> Parted(m.blocks[L[n]])]
<1>. DEFINE B == DOMAIN m.blocks
            ids == Ascending(B)
            f == [i \in B |-> Parted(m.blocks[i])]
            R == [n \in DOMAIN ids |-> f[ids[n]]]
            T == KindAt(m, kind)
            I == {n \in DOMAIN ids : ids[n] \in T}
            J == {n \in DOMAIN R : R[n].type = kind}
<1>1. ids \in Seq(B) /\ \A n \in DOMAIN ids : ids[n] \in B
  <2>1. ids \in Seq(B)
    BY AscendingIs
  <2>. HIDE DEF ids, B
  <2>. QED  BY <2>1
<1>2. Reply(m).content = R
  <2>1. Reply(m).content = [n \in DOMAIN ids |-> Parted(m.blocks[ids[n]])]
    BY DEF Reply, Parted
  <2>2. \A n \in DOMAIN ids : f[ids[n]] = Parted(m.blocks[ids[n]])
    <3>. HIDE DEF ids
    <3>. QED  BY <1>1
  <2>. HIDE DEF ids, f
  <2>. QED  BY <2>1, <2>2
<1>3. \A i \in B : f[i].type = m.blocks[i].kind
  BY DEF Parted
<1>4. T \subseteq B /\ \A i \in B : i \in T <=> m.blocks[i].kind = kind
  BY DEF KindAt
<1>. HIDE DEF f, ids, B, T
<1>5. \A n \in DOMAIN R : n \in I <=> n \in J
  BY <1>1, <1>3, <1>4
<1>6. R \in Seq({f[i] : i \in B})
  BY <1>1
<1>7. OfType(R, kind) = Pick(R, J)
  BY Zenon DEF OfType, Those
<1>8. Pick(R, J) = Pick(R, I)
  <2>. HIDE DEF R, I, J
  <2>. QED  BY <1>5, PickSame
<1>9. Pick(R, I) = [n \in DOMAIN Pick(ids, I) |-> f[Pick(ids, I)[n]]]
  <2>. HIDE DEF I
  <2>. QED  BY <1>1, PickMap
<1>10. Pick(ids, I) = L
  BY <1>4, AscendingPick DEF ids, B, T
<1>11. \A n \in DOMAIN L : L[n] \in B
  <2>1. T \subseteq Nat /\ IsFiniteSet(T)
    BY <1>4, FS_Subset DEF B
  <2>2. L \in Seq(T)
    BY <2>1, AscendingIs DEF T
  <2>. QED  BY <1>4, <2>2
<1>12. [n \in DOMAIN L |-> f[L[n]]] = [n \in DOMAIN L |-> Parted(m.blocks[L[n]])]
  BY <1>11 DEF f
<1>. HIDE DEF R, I, J
<1>. QED  BY <1>2, <1>7, <1>8, <1>9, <1>10, <1>12

\* What a whole response says and calls.
LEMMA ReplyIs ==
  ASSUME NEW m, DOMAIN m.blocks \subseteq Nat, IsFiniteSet(DOMAIN m.blocks), NEW r, r = Reply(m)
  PROVE  /\ FlattenSeq(Vals(Texts(r.content))) = Spoken(m)
         /\ Vals(OfType(r.content, "tool_use")) = Called(m)
         /\ r.stop = m.stop
<1>. DEFINE J == Ascending(KindAt(m, "text"))
            K == Ascending(KindAt(m, "tool_use"))
<1>1. Texts(r.content) = [n \in DOMAIN J |-> Parted(m.blocks[J[n]])]
  BY ReplyParts DEF Texts
<1>2. OfType(r.content, "tool_use") = [n \in DOMAIN K |-> Parted(m.blocks[K[n]])]
  BY ReplyParts
<1>3. r.stop = m.stop
  BY DEF Reply
<1>4. ToSet(J) = KindAt(m, "text") /\ ToSet(K) = KindAt(m, "tool_use")
  <2>1. \A k : KindAt(m, k) \subseteq DOMAIN m.blocks
    BY DEF KindAt
  <2>2. \A k : KindAt(m, k) \subseteq Nat /\ IsFiniteSet(KindAt(m, k))
    BY <2>1, FS_Subset
  <2>. QED  BY <2>2, AscendingIs
<1>5. \A n \in DOMAIN J : m.blocks[J[n]].kind = "text"
  <2>. HIDE DEF J
  <2>. QED  BY <1>4 DEF ToSet, KindAt
<1>6. \A n \in DOMAIN K : m.blocks[K[n]].kind = "tool_use"
  <2>. HIDE DEF K
  <2>. QED  BY <1>4 DEF ToSet, KindAt
<1>. HIDE DEF J, K
<1>7. Vals([n \in DOMAIN J |-> Parted(m.blocks[J[n]])]) = ContentsAt(m, J)
  BY <1>5 DEF Vals, Parted, ContentsAt
<1>8. Vals([n \in DOMAIN K |-> Parted(m.blocks[K[n]])]) = [n \in DOMAIN K |-> CallOf(m.blocks[K[n]])]
  BY <1>6 DEF Vals, Parted, CallOf
<1>9. FlattenSeq(Vals(Texts(r.content))) = Spoken(m)
  BY <1>1, <1>7 DEF Spoken, J
<1>10. Vals(OfType(r.content, "tool_use")) = Called(m)
  BY <1>2, <1>8 DEF Called, K
<1>. QED  BY <1>3, <1>9, <1>10

(* A text and what follows it.                                             *)
Joined(s, t) == s \o t
Single(a) == <<a>>

\* What a message says depends on its texts only ...
LEMMA SpokenSame ==
  ASSUME NEW m, NEW n, NEW T, T \subseteq Nat, IsFiniteSet(T), KindAt(m, "text") = T, KindAt(n, "text") = T,
         \A i \in T : n.blocks[i].content = m.blocks[i].content
  PROVE  Spoken(n) = Spoken(m)
<1>. DEFINE L == Ascending(T)
<1>1. L \in Seq(T)
  BY AscendingIs
<1>. HIDE DEF L
<1>2. \A k \in DOMAIN L : n.blocks[L[k]].content = m.blocks[L[k]].content
  <2>1. \A k \in DOMAIN L : L[k] \in T
    BY <1>1
  <2>. QED  BY <2>1
<1>3. ContentsAt(n, L) = ContentsAt(m, L)
  BY <1>2 DEF ContentsAt
<1>. QED  BY <1>3 DEF Spoken, L

\* The contents of a message along some indices.
LEMMA ContentsAppend ==
  ASSUME NEW m, NEW T, \A i \in T : m.blocks[i].content \in Seq(Nat), NEW L \in Seq(T)
  PROVE  /\ ContentsAt(m, L) \in Seq(Seq(Nat))
         /\ \A i : ContentsAt(m, Append(L, i)) = Append(ContentsAt(m, L), m.blocks[i].content)
<1>1. ContentsAt(m, L) \in Seq(Seq(Nat))
  <2>. DEFINE N == Seq(Nat)
  <2>1. \A k \in DOMAIN L : m.blocks[L[k]].content \in N
    OBVIOUS
  <2>. HIDE DEF N
  <2>2. ContentsAt(m, L) \in Seq(N)
    BY <2>1 DEF ContentsAt
  <2>. QED  BY <2>2 DEF N
<1>2. ASSUME NEW i PROVE ContentsAt(m, Append(L, i)) = Append(ContentsAt(m, L), m.blocks[i].content)
  BY DEF ContentsAt
<1>. QED  BY <1>1, <1>2

\* ... a text that begins says nothing yet ...
LEMMA SpokenStart ==
  ASSUME NEW m, NEW n, NEW T, T \subseteq Nat, IsFiniteSet(T), NEW i \in Nat, \A j \in T : j < i,
         KindAt(m, "text") = T, KindAt(n, "text") = T \cup {i},
         \A j \in T : m.blocks[j].content \in Seq(Nat) /\ n.blocks[j].content = m.blocks[j].content,
         n.blocks[i].content = <<>>
  PROVE  Spoken(n) = Spoken(m)
<1>. DEFINE L == Ascending(T)
            c == ContentsAt(n, L)
<1>1. L \in Seq(T) /\ Ascending(T \cup {i}) = Append(L, i)
  BY AscendingIs, AscendingLast
<1>. HIDE DEF L
<1>2. \A j \in T : n.blocks[j].content \in Seq(Nat)
  OBVIOUS
<1>3. c \in Seq(Seq(Nat)) /\ ContentsAt(n, Append(L, i)) = Append(c, <<>>)
  <2>1. ContentsAt(n, L) \in Seq(Seq(Nat)) /\ \A x : ContentsAt(n, Append(L, x)) = Append(ContentsAt(n, L), n.blocks[x].content)
    BY <1>1, <1>2, ContentsAppend
  <2>. QED  BY <2>1
<1>4. c = ContentsAt(m, L)
  <2>1. \A k \in DOMAIN L : L[k] \in T
    BY <1>1
  <2>2. \A k \in DOMAIN L : n.blocks[L[k]].content = m.blocks[L[k]].content
    BY <2>1
  <2>. QED  BY <2>2 DEF ContentsAt
<1>. HIDE DEF c
<1>5. <<>> \in Seq(Nat)
  OBVIOUS
<1>6. FlattenSeq(Append(c, <<>>)) = FlattenSeq(c) \o <<>> /\ FlattenSeq(c) \in Seq(Nat)
  BY <1>3, <1>5, FlattenAppend, FlattenType
<1>7. FlattenSeq(Append(c, <<>>)) = FlattenSeq(c)
  BY <1>6
<1>. QED  BY <1>1, <1>3, <1>4, <1>7 DEF Spoken, L

\* ... and what is added to the last text is said last.
LEMMA SpokenFill ==
  ASSUME NEW m, NEW n, NEW T, T \subseteq Nat, IsFiniteSet(T), NEW i \in T, \A j \in T : j <= i,
         KindAt(m, "text") = T, KindAt(n, "text") = T, NEW f \in Seq(Nat),
         \A j \in T : m.blocks[j].content \in Seq(Nat),
         \A j \in T \ {i} : n.blocks[j].content = m.blocks[j].content,
         n.blocks[i].content = Joined(m.blocks[i].content, f)
  PROVE  Spoken(n) = Joined(Spoken(m), f) /\ Spoken(m) \in Seq(Nat)
<1>. DEFINE S == T \ {i}
            L == Ascending(S)
            c == ContentsAt(m, L)
            x == m.blocks[i].content
<1>1. S \subseteq Nat /\ IsFiniteSet(S) /\ S \cup {i} = T /\ i \in Nat /\ \A j \in S : j < i
  BY FS_Subset
<1>2. /\ \A j \in S : m.blocks[j].content \in Seq(Nat) /\ n.blocks[j].content = m.blocks[j].content
      /\ x \in Seq(Nat) /\ n.blocks[i].content = x \o f
  BY DEF Joined
<1>. HIDE DEF S, x
<1>3. L \in Seq(S) /\ Ascending(S \cup {i}) = Append(L, i)
  BY <1>1, AscendingIs, AscendingLast
<1>. HIDE DEF L
<1>4. \A j \in S : n.blocks[j].content \in Seq(Nat)
  BY <1>2
<1>5. c \in Seq(Seq(Nat)) /\ ContentsAt(m, Append(L, i)) = Append(c, x)
  <2>1. ContentsAt(m, L) \in Seq(Seq(Nat)) /\ \A y : ContentsAt(m, Append(L, y)) = Append(ContentsAt(m, L), m.blocks[y].content)
    BY <1>2, <1>3, ContentsAppend
  <2>. QED  BY <2>1 DEF x
<1>6. ContentsAt(n, L) = c
  BY <1>2, <1>3 DEF ContentsAt
<1>7. ContentsAt(n, Append(L, i)) = Append(c, x \o f)
  <2>1. \A y : ContentsAt(n, Append(L, y)) = Append(ContentsAt(n, L), n.blocks[y].content)
    BY <1>3, <1>4, ContentsAppend
  <2>. QED  BY <1>2, <1>6, <2>1
<1>. HIDE DEF c
<1>8. FlattenSeq(Append(c, x)) = FlattenSeq(c) \o x /\ FlattenSeq(c) \in Seq(Nat)
  BY <1>2, <1>5, FlattenAppend, FlattenType
<1>9. x \o f \in Seq(Nat)
  BY <1>2
<1>10. FlattenSeq(Append(c, x \o f)) = FlattenSeq(c) \o (x \o f)
  BY <1>5, <1>9, FlattenAppend
<1>. DEFINE z == FlattenSeq(c)
<1>11. z \in Seq(Nat)
  BY <1>8
<1>12. Spoken(m) = z \o x /\ Spoken(n) = z \o (x \o f)
  BY <1>1, <1>3, <1>5, <1>7, <1>8, <1>10 DEF Spoken, L
<1>. HIDE DEF z
<1>13. Spoken(n) = Spoken(m) \o f /\ Spoken(m) \in Seq(Nat)
  <2>1. z \o (x \o f) = (z \o x) \o f /\ z \o x \in Seq(Nat)
    BY <1>2, <1>11
  <2>. QED  BY <1>12, <2>1
<1>. QED  BY <1>13, Zenon DEF Joined

-----------------------------------------------------------------------------
(***************************************************************************)
(* A reply of an Anthropic upstream, relayed to a client of the OpenAI     *)
(* protocol: the client has been told what the upstream has said.          *)
(***************************************************************************)
Spoke == {"text", "tool_use", "thinking"}
CallVal == [id : Nat, name : Nat]
UpBlock == [kind : Spoke, val : {None} \cup CallVal, content : Seq(Nat), open : BOOLEAN]
UpStops == {"end_turn", "tool_use"}
SaidSoFar == Assemble(received)

\* What reading an event of the upstream does: a block starts ...
LEMMA HearsBlock ==
  ASSUME NEW m, Sane(m), NEW i, NEW k, NEW v, NEW e, e = BlockStart(i, k, v), NEW n, n = Read(m, e)
  PROVE  /\ Sane(n) /\ n.stage = m.stage /\ n.stop = m.stop
         /\ DOMAIN n.blocks = DOMAIN m.blocks \cup {i}
         /\ n.blocks[i] = [kind |-> k, val |-> v, content |-> <<>>, open |-> TRUE]
         /\ \A j \in DOMAIN m.blocks \ {i} : n.blocks[j] = m.blocks[j]
<1>. DEFINE b == [kind |-> k, val |-> v, content |-> <<>>, open |-> TRUE]
            bs == [j \in DOMAIN m.blocks \cup {i} |-> IF j = i THEN b ELSE m.blocks[j]]
<1>1. e.type = "block_start" /\ e.index = i /\ e.kind = k /\ e.val = v
  BY DEF BlockStart
<1>2. n = [m EXCEPT !.blocks = bs]
  BY <1>1 DEF Read
<1>3. /\ DOMAIN bs = DOMAIN m.blocks \cup {i} /\ bs[i] = b
      /\ \A j \in DOMAIN m.blocks \ {i} : bs[j] = m.blocks[j]
  BY DEF b
<1>. HIDE DEF bs, b
<1>4. n.blocks = bs /\ Sane(n) /\ n.stage = m.stage /\ n.stop = m.stop
  BY <1>2 DEF Sane
<1>. QED  BY <1>3, <1>4 DEF b

\* ... or has more content ...
LEMMA HearsDelta ==
  ASSUME NEW m, Sane(m), NEW i \in DOMAIN m.blocks, m.blocks[i] \in UpBlock, NEW k, NEW f \in Seq(Nat),
         NEW e, e = Delta(i, k, f), NEW n, n = Read(m, e)
  PROVE  /\ Sane(n) /\ n.stage = m.stage /\ n.stop = m.stop /\ DOMAIN n.blocks = DOMAIN m.blocks
         /\ n.blocks[i] \in UpBlock /\ n.blocks[i].content = Joined(m.blocks[i].content, f)
         /\ n.blocks[i].kind = m.blocks[i].kind /\ n.blocks[i].val = m.blocks[i].val
         /\ n.blocks[i].open = m.blocks[i].open
         /\ \A j \in DOMAIN m.blocks \ {i} : n.blocks[j] = m.blocks[j]
<1>. DEFINE c == m.blocks[i].content \o f
            b == [m.blocks[i] EXCEPT !.content = c]
            bs == [m.blocks EXCEPT ![i] = b]
<1>1. e.type = "block_delta" /\ e.index = i /\ e.val = f
  BY DEF Delta
<1>2. n = [m EXCEPT !.blocks = bs]
  BY <1>1 DEF Read
<1>3. c \in Seq(Nat)
  <2>1. m.blocks[i].content \in Seq(Nat)
    BY DEF UpBlock
  <2>. QED  BY <2>1, ConcatProperties
<1>. HIDE DEF c
<1>4. /\ b \in UpBlock /\ b.content = c /\ b.kind = m.blocks[i].kind /\ b.val = m.blocks[i].val
      /\ b.open = m.blocks[i].open
  BY <1>3 DEF UpBlock
<1>. HIDE DEF b
<1>5. /\ DOMAIN bs = DOMAIN m.blocks /\ bs[i] = b
      /\ \A j \in DOMAIN m.blocks \ {i} : bs[j] = m.blocks[j]
  OBVIOUS
<1>. HIDE DEF bs
<1>6. n.blocks = bs /\ Sane(n) /\ n.stage = m.stage /\ n.stop = m.stop
  BY <1>2 DEF Sane
<1>. QED  BY <1>4, <1>5, <1>6 DEF c, Joined

\* ... or stops ...
LEMMA HearsStop ==
  ASSUME NEW m, Sane(m), NEW i \in DOMAIN m.blocks, m.blocks[i] \in UpBlock,
         NEW e, e = BlockStop(i), NEW n, n = Read(m, e)
  PROVE  /\ Sane(n) /\ n.stage = m.stage /\ n.stop = m.stop /\ DOMAIN n.blocks = DOMAIN m.blocks
         /\ n.blocks[i] \in UpBlock /\ n.blocks[i].content = m.blocks[i].content
         /\ n.blocks[i].kind = m.blocks[i].kind /\ n.blocks[i].val = m.blocks[i].val
         /\ ~n.blocks[i].open
         /\ \A j \in DOMAIN m.blocks \ {i} : n.blocks[j] = m.blocks[j]
<1>. DEFINE b == [m.blocks[i] EXCEPT !.open = FALSE]
            bs == [m.blocks EXCEPT ![i] = b]
<1>1. e.type = "block_stop" /\ e.index = i
  BY DEF BlockStop
<1>2. n = [m EXCEPT !.blocks = bs]
  BY <1>1 DEF Read
<1>3. /\ b \in UpBlock /\ b.content = m.blocks[i].content /\ b.kind = m.blocks[i].kind
      /\ b.val = m.blocks[i].val /\ ~b.open
  BY DEF UpBlock
<1>. HIDE DEF b
<1>4. /\ DOMAIN bs = DOMAIN m.blocks /\ bs[i] = b
      /\ \A j \in DOMAIN m.blocks \ {i} : bs[j] = m.blocks[j]
  OBVIOUS
<1>. HIDE DEF bs
<1>5. n.blocks = bs /\ Sane(n) /\ n.stage = m.stage /\ n.stop = m.stop
  BY <1>2 DEF Sane
<1>. QED  BY <1>3, <1>4, <1>5

\* ... and the message starts, ends and stops.
LEMMA HearsEnds ==
  ASSUME NEW m, Sane(m)
  PROVE  /\ \A u, n : n = Read(m, MessageStart(u)) =>
               Sane(n) /\ n.stage = "content" /\ n.stop = m.stop /\ n.blocks = m.blocks
         /\ \A x, u, n : n = Read(m, MessageDelta(x, u)) =>
               Sane(n) /\ n.stage = "ended" /\ n.stop = x /\ n.blocks = m.blocks
         /\ \A n : n = Read(m, MessageStop) =>
               Sane(n) /\ n.stage = "stopped" /\ n.stop = m.stop /\ n.blocks = m.blocks
<1>1. ASSUME NEW u, NEW e, e = MessageStart(u), NEW n, n = Read(m, e)
      PROVE  Sane(n) /\ n.stage = "content" /\ n.stop = m.stop /\ n.blocks = m.blocks
  <2>1. e.type = "message_start"
    BY <1>1 DEF MessageStart
  <2>2. n = [m EXCEPT !.stage = "content"]
    BY <1>1, <2>1 DEF Read
  <2>. QED  BY <2>2 DEF Sane
<1>2. ASSUME NEW x, NEW u, NEW e, e = MessageDelta(x, u), NEW n, n = Read(m, e)
      PROVE  Sane(n) /\ n.stage = "ended" /\ n.stop = x /\ n.blocks = m.blocks
  <2>1. e.type = "message_delta" /\ e.stop = x
    BY <1>2 DEF MessageDelta
  <2>2. n = [m EXCEPT !.stage = "ended", !.stop = x]
    BY <1>2, <2>1 DEF Read
  <2>. QED  BY <2>2 DEF Sane
<1>3. ASSUME NEW e, e = MessageStop, NEW n, n = Read(m, e)
      PROVE  Sane(n) /\ n.stage = "stopped" /\ n.stop = m.stop /\ n.blocks = m.blocks
  <2>1. e.type = "message_stop"
    BY <1>3 DEF MessageStop
  <2>2. n = [m EXCEPT !.stage = "stopped"]
    BY <1>3, <2>1 DEF Read
  <2>. QED  BY <2>2 DEF Sane
<1>. QED  BY <1>1, <1>2, <1>3

\* The events that an upstream may send after a message of k blocks.
LEMMA SentForms ==
  ASSUME Sane(SaidSoFar), NEW k \in Nat, DOMAIN SaidSoFar.blocks = 0 .. k - 1, NEW e \in SentEvents
  PROVE  \/ SaidSoFar.stage = "idle" /\ \E u : e = MessageStart(u)
         \/ \E i \in DOMAIN SaidSoFar.blocks :
               /\ SaidSoFar.stage = "content" /\ SaidSoFar.blocks[i].open
               /\ e = BlockStop(i) \/ e = Delta(i, SaidSoFar.blocks[i].kind, <<Atom>>)
         \/ /\ SaidSoFar.stage = "content" /\ \A i \in DOMAIN SaidSoFar.blocks : ~SaidSoFar.blocks[i].open
            /\ \/ \E x \in UpStops : e = MessageDelta(x, OutputReport(Atom))
               \/ \E kind \in {"text", "thinking"} : e = BlockStart(k, kind, None)
               \/ e = BlockStart(k, "tool_use", [id |-> k, name |-> k])
         \/ SaidSoFar.stage = "ended" /\ e = MessageStop
<1>. DEFINE next == Cardinality(DOMAIN SaidSoFar.blocks)
            open == {i \in DOMAIN SaidSoFar.blocks : SaidSoFar.blocks[i].open}
            call == [id |-> next, name |-> next]
            room == Atom <= MaxEvents
            starts == {MessageStart(IF u = None THEN None
                             ELSE [input |-> u.input, output |-> 1, creation |-> u.creation, read |-> u.read])
                       : u \in InputReports}
            within == UNION {{BlockStop(i)} \cup {Delta(i, SaidSoFar.blocks[i].kind, <<a>>) : a \in {Atom} \cap 1 .. MaxEvents}
                             : i \in open}
            ends == {MessageDelta(stop, OutputReport(Atom)) : stop \in {"end_turn", "tool_use"}}
            blocks == {BlockStart(next, kind, IF kind = "tool_use" THEN call ELSE None) :
                          kind \in IF room /\ next < MaxBlocks THEN {"text", "tool_use", "thinking"} ELSE {}}
<1>1. /\ SaidSoFar.stage = "idle" => SentEvents = starts
      /\ SaidSoFar.stage = "content" /\ open # {} => SentEvents = within
      /\ SaidSoFar.stage = "content" /\ open = {} => SentEvents = ends \cup blocks
      /\ SaidSoFar.stage = "ended" => SentEvents = {MessageStop}
      /\ SaidSoFar.stage = "stopped" => SentEvents = {}
  <2>. DEFINE st == SaidSoFar.stage
  <2>1. SentEvents = CASE st = "idle" -> starts
                       [] st = "content" /\ open # {} -> within
                       [] st = "content" /\ open = {} -> ends \cup blocks
                       [] st = "ended" -> {MessageStop}
                       [] st = "stopped" -> {}
    BY Zenon DEF SentEvents, SaidSoFar
  <2>. HIDE DEF starts, within, ends, blocks, open, st
  <2>2. st = SaidSoFar.stage
    BY DEF st
  <2>. QED  BY <2>1, <2>2
<1>2. next = k
  BY FS_Interval
<1>3. ASSUME e \in starts PROVE \E u : e = MessageStart(u)
  BY <1>3, Zenon
<1>4. ASSUME e \in within
      PROVE  \E i \in open : e = BlockStop(i) \/ e = Delta(i, SaidSoFar.blocks[i].kind, <<Atom>>)
  <2>. HIDE DEF open
  <2>. QED  BY <1>4
<1>5. ASSUME e \in ends PROVE \E x \in UpStops : e = MessageDelta(x, OutputReport(Atom))
  BY <1>5 DEF UpStops
<1>6. ASSUME e \in blocks
      PROVE  \/ \E kind \in {"text", "thinking"} : e = BlockStart(k, kind, None)
             \/ e = BlockStart(k, "tool_use", [id |-> k, name |-> k])
  <2>1. PICK kind \in {"text", "tool_use", "thinking"} : e = BlockStart(next, kind, IF kind = "tool_use" THEN call ELSE None)
    <3>. HIDE DEF next, call, room
    <3>. QED  BY <1>6
  <2>2. CASE kind = "tool_use"
    BY <1>2, <2>1, <2>2
  <2>3. CASE kind \in {"text", "thinking"}
    <3>1. e = BlockStart(k, kind, None)
      <4>. HIDE DEF next, call
      <4>. QED  BY <1>2, <2>1, <2>3
    <3>. QED  BY <2>3, <3>1
  <2>. QED  BY <2>1, <2>2, <2>3
<1>7. SaidSoFar.stage \in {"idle", "content", "ended", "stopped"}
  BY DEF Sane
<1>. HIDE DEF starts, within, ends, blocks
<1>8. \A i \in open : i \in DOMAIN SaidSoFar.blocks /\ SaidSoFar.blocks[i].open
  OBVIOUS
<1>9. open = {} => \A i \in DOMAIN SaidSoFar.blocks : ~SaidSoFar.blocks[i].open
  OBVIOUS
<1>. HIDE DEF open
<1>. QED  BY <1>1, <1>3, <1>4, <1>5, <1>6, <1>7, <1>8, <1>9

(* The chunks that the conversion makes of events.                         *)
TextChunk(f) == [EmptyChunk EXCEPT !.text = f]
ToolChunk(t, id, name, args) ==
    [EmptyChunk EXCEPT !.tools = <<[index |-> t, id |-> id, name |-> name, args |-> args]>>]
EndChunk(x, u) == [EmptyChunk EXCEPT !.finish = mapAnthropicStopReasonToOpenAI(x), !.usage = ToUsage(u)]

\* What an event gives, and what it leaves in the state of the conversion.
LEMMA RelayOut ==
  ASSUME NEW s, DOMAIN s = {"block", "tool", "out"}, NEW e, NEW o, o = AnthropicEventToOpenAIChunk(e, s)
  PROVE  /\ \A u : e = MessageStart(u) =>
               DOMAIN o = DOMAIN s /\ o.block = s.block /\ o.tool = s.tool /\ o.out = <<EmptyChunk>>
         /\ \A i, k, v : e = BlockStart(i, k, v) =>
               /\ DOMAIN o = DOMAIN s /\ o.block = k /\ o.tool = s.tool
               /\ k = "tool_use" => o.out = <<ToolChunk(s.tool, v.id, v.name, None)>>
               /\ k # "tool_use" => o.out = <<>>
         /\ \A i, k, a : e = Delta(i, k, <<a>>) =>
               /\ DOMAIN o = DOMAIN s /\ o.block = s.block /\ o.tool = s.tool
               /\ k = "text" => o.out = <<TextChunk(a)>>
               /\ k = "tool_use" => o.out = <<ToolChunk(s.tool, None, None, a)>>
               /\ k \notin {"text", "tool_use"} => o.out = <<>>
         /\ \A i : e = BlockStop(i) =>
               /\ DOMAIN o = DOMAIN s /\ o.out = <<>>
               /\ o.tool = IF s.block = "tool_use" THEN s.tool + 1 ELSE s.tool
         /\ \A x, u : e = MessageDelta(x, u) /\ u # None =>
               /\ DOMAIN o = DOMAIN s /\ o.block = s.block /\ o.tool = s.tool
               /\ o.out = IF x = None THEN <<>> ELSE <<EndChunk(x, u)>>
         /\ e = MessageStop => DOMAIN o = DOMAIN s /\ o.block = s.block /\ o.tool = s.tool /\ o.out = <<Done>>
<1>. DEFINE Tool(id, name, args) == ToolChunk(s.tool, id, name, args)
<1>0. o = CASE e.type = "message_start" -> [s EXCEPT !.out = <<EmptyChunk>>]
         [] e.type = "block_start" ->
                [[s EXCEPT !.block = e.kind] EXCEPT !.out =
                    IF e.kind = "tool_use" THEN <<Tool(e.val.id, e.val.name, None)>> ELSE <<>>]
         [] e.type = "block_delta" ->
                [s EXCEPT !.out = CASE e.kind = "text" -> <<TextChunk(Head(e.val))>>
                         [] e.kind = "tool_use" -> <<Tool(None, None, Head(e.val))>>
                         [] OTHER -> <<>>]
         [] e.type = "block_stop" ->
                [[s EXCEPT !.block = None,
                              !.tool = IF s.block = "tool_use" THEN s.tool + 1 ELSE s.tool] EXCEPT !.out = <<>>]
         [] e.type = "message_delta" ->
                [s EXCEPT !.out = IF e.stop = None THEN <<>>
                       ELSE <<[EmptyChunk EXCEPT !.finish = mapAnthropicStopReasonToOpenAI(e.stop),
                                                 !.usage = IF e.usage = None THEN None
                                                           ELSE ToUsage(e.usage)]>>]
         [] e.type = "message_stop" -> [s EXCEPT !.out = <<Done>>]
  BY Zenon DEF AnthropicEventToOpenAIChunk, TextChunk, ToolChunk
<1>. HIDE DEF Tool
<1>1. ASSUME NEW u, e = MessageStart(u)
      PROVE  DOMAIN o = DOMAIN s /\ o.block = s.block /\ o.tool = s.tool /\ o.out = <<EmptyChunk>>
  <2>1. e.type = "message_start"
    BY <1>1 DEF MessageStart
  <2>2. o = [s EXCEPT !.out = <<EmptyChunk>>]
    BY <1>0, <2>1
  <2>. QED  BY <2>2
<1>2. ASSUME NEW i, NEW k, NEW v, e = BlockStart(i, k, v)
      PROVE  /\ DOMAIN o = DOMAIN s /\ o.block = k /\ o.tool = s.tool
             /\ k = "tool_use" => o.out = <<ToolChunk(s.tool, v.id, v.name, None)>>
             /\ k # "tool_use" => o.out = <<>>
  <2>1. e.type = "block_start" /\ e.kind = k /\ e.val = v
    BY <1>2 DEF BlockStart
  <2>. DEFINE x == IF k = "tool_use" THEN <<Tool(v.id, v.name, None)>> ELSE <<>>
  <2>2. o = [[s EXCEPT !.block = k] EXCEPT !.out = x]
    BY <1>0, <2>1
  <2>3. (k = "tool_use" => x = <<Tool(v.id, v.name, None)>>) /\ (k # "tool_use" => x = <<>>)
    OBVIOUS
  <2>. HIDE DEF x
  <2>4. DOMAIN o = DOMAIN s /\ o.block = k /\ o.tool = s.tool /\ o.out = x
    BY <2>2
  <2>. QED  BY <2>3, <2>4 DEF Tool
<1>3. ASSUME NEW i, NEW k, NEW a, e = Delta(i, k, <<a>>)
      PROVE  /\ DOMAIN o = DOMAIN s /\ o.block = s.block /\ o.tool = s.tool
             /\ k = "text" => o.out = <<TextChunk(a)>>
             /\ k = "tool_use" => o.out = <<ToolChunk(s.tool, None, None, a)>>
             /\ k \notin {"text", "tool_use"} => o.out = <<>>
  <2>1. e.type = "block_delta" /\ e.kind = k /\ Head(e.val) = a
    BY <1>3 DEF Delta
  <2>. DEFINE x == CASE k = "text" -> <<TextChunk(a)>>
                     [] k = "tool_use" -> <<Tool(None, None, a)>>
                     [] OTHER -> <<>>
  <2>2. o = [s EXCEPT !.out = x]
    BY <1>0, <2>1
  <2>3. /\ k = "text" => x = <<TextChunk(a)>>
        /\ k = "tool_use" => x = <<Tool(None, None, a)>>
        /\ k \notin {"text", "tool_use"} => x = <<>>
    OBVIOUS
  <2>. HIDE DEF x
  <2>4. DOMAIN o = DOMAIN s /\ o.block = s.block /\ o.tool = s.tool /\ o.out = x
    BY <2>2
  <2>. QED  BY <2>3, <2>4 DEF Tool
<1>4. ASSUME NEW i, e = BlockStop(i)
      PROVE  /\ DOMAIN o = DOMAIN s /\ o.out = <<>>
             /\ o.tool = IF s.block = "tool_use" THEN s.tool + 1 ELSE s.tool
  <2>1. e.type = "block_stop"
    BY <1>4 DEF BlockStop
  <2>. DEFINE x == IF s.block = "tool_use" THEN s.tool + 1 ELSE s.tool
  <2>2. o = [[s EXCEPT !.block = None, !.tool = x] EXCEPT !.out = <<>>]
    BY <1>0, <2>1
  <2>. HIDE DEF x
  <2>3. DOMAIN o = DOMAIN s /\ o.out = <<>> /\ o.tool = x
    BY <2>2
  <2>. QED  BY <2>3 DEF x
<1>5. ASSUME NEW x, NEW u, e = MessageDelta(x, u), u # None
      PROVE  /\ DOMAIN o = DOMAIN s /\ o.block = s.block /\ o.tool = s.tool
             /\ o.out = IF x = None THEN <<>> ELSE <<EndChunk(x, u)>>
  <2>1. e.type = "message_delta" /\ e.stop = x /\ e.usage = u
    BY <1>5 DEF MessageDelta
  <2>2. o = [s EXCEPT !.out = IF x = None THEN <<>> ELSE <<EndChunk(x, u)>>]
    BY <1>0, <1>5, <2>1 DEF EndChunk
  <2>. QED  BY <2>2
<1>6. ASSUME e = MessageStop
      PROVE  DOMAIN o = DOMAIN s /\ o.block = s.block /\ o.tool = s.tool /\ o.out = <<Done>>
  <2>1. e.type = "message_stop"
    BY <1>6 DEF MessageStop
  <2>2. o = [s EXCEPT !.out = <<Done>>]
    BY <1>0, <2>1
  <2>. QED  BY <2>2
<1>. QED  BY <1>1, <1>2, <1>3, <1>4, <1>5, <1>6

\* They are chunks.
LEMMA RelayedChunks ==
  /\ EmptyChunk \in ChunkItem /\ EmptyChunk.tools = <<>> /\ EmptyChunk.text = None /\ EmptyChunk.finish = None
  /\ \A f \in Nat : /\ TextChunk(f) \in ChunkItem /\ TextChunk(f).tools = <<>>
                    /\ TextChunk(f).text = f /\ TextChunk(f).finish = None
  /\ \A t, x, y \in Nat, z \in {None} : /\ ToolChunk(t, x, y, z) \in ChunkItem /\ ToolChunk(t, x, y, z).text = None
                    /\ ToolChunk(t, x, y, z).finish = None
                    /\ ToolChunk(t, x, y, z).tools = <<[index |-> t, id |-> x, name |-> y, args |-> z]>>
  /\ \A t, z \in Nat : /\ ToolChunk(t, None, None, z) \in ChunkItem /\ ToolChunk(t, None, None, z).text = None
                    /\ ToolChunk(t, None, None, z).finish = None
                    /\ ToolChunk(t, None, None, z).tools = <<[index |-> t, id |-> None, name |-> None, args |-> z]>>
  /\ \A x : \A u \in Counts : /\ EndChunk(x, u) \in ChunkItem /\ EndChunk(x, u).tools = <<>>
                    /\ EndChunk(x, u).text = None
                    /\ EndChunk(x, u).finish = mapAnthropicStopReasonToOpenAI(x)
                    /\ EndChunk(x, u).finish # None
<1>0. PICK yes \in BOOLEAN : yes = TRUE
  OBVIOUS
<1>. DEFINE Chk(t, T, f, u) == [type |-> "chunk", choice |-> yes, text |-> t, tools |-> T, finish |-> f, usage |-> u]
<1>1. EmptyChunk = Chk(None, <<>>, None, None)
  BY <1>0 DEF EmptyChunk
<1>2. ASSUME NEW t \in Nat \cup {None}, NEW T \in Seq(ToolDeltas), NEW f \in Finishes \cup {None}, NEW u \in Usage \cup {None}
      PROVE  Chk(t, T, f, u) \in ChunkItem
  BY DEF ChunkItem
<1>3. /\ \A f : TextChunk(f) = Chk(f, <<>>, None, None)
      /\ \A t, x, y, z : ToolChunk(t, x, y, z) = Chk(None, <<[index |-> t, id |-> x, name |-> y, args |-> z]>>, None, None)
      /\ \A x, u : EndChunk(x, u) = Chk(None, <<>>, mapAnthropicStopReasonToOpenAI(x), ToUsage(u))
  <2>1. ASSUME NEW f PROVE TextChunk(f) = Chk(f, <<>>, None, None)
    BY <1>1 DEF TextChunk
  <2>2. ASSUME NEW T PROVE [EmptyChunk EXCEPT !.tools = T] = Chk(None, T, None, None)
    BY <1>1
  <2>3. ASSUME NEW f, NEW u PROVE [EmptyChunk EXCEPT !.finish = f, !.usage = u] = Chk(None, <<>>, f, u)
    <3>. DEFINE g == [EmptyChunk EXCEPT !.finish = f]
    <3>1. g = Chk(None, <<>>, f, None)
      BY <1>1
    <3>2. [EmptyChunk EXCEPT !.finish = f, !.usage = u] = [g EXCEPT !.usage = u]
      OBVIOUS
    <3>. HIDE DEF g
    <3>3. [g EXCEPT !.usage = u] = Chk(None, <<>>, f, u)
      BY <3>1
    <3>. QED  BY <3>2, <3>3
  <2>. HIDE DEF Chk
  <2>4. \A t, x, y, z : ToolChunk(t, x, y, z) = Chk(None, <<[index |-> t, id |-> x, name |-> y, args |-> z]>>, None, None)
    BY <2>2 DEF ToolChunk
  <2>5. \A x, u : EndChunk(x, u) = Chk(None, <<>>, mapAnthropicStopReasonToOpenAI(x), ToUsage(u))
    BY <2>3 DEF EndChunk
  <2>. QED  BY <2>1, <2>4, <2>5
<1>4. /\ \A t, x, y \in Nat : <<[index |-> t, id |-> x, name |-> y, args |-> None]>> \in Seq(ToolDeltas)
      /\ \A t, z \in Nat : <<[index |-> t, id |-> None, name |-> None, args |-> z]>> \in Seq(ToolDeltas)
  <2>1. ASSUME NEW t \in Nat, NEW x \in Nat, NEW y \in Nat
        PROVE  [index |-> t, id |-> x, name |-> y, args |-> None] \in ToolDeltas
    BY ReportsAssumption DEF ToolDeltas
  <2>2. ASSUME NEW t \in Nat, NEW z \in Nat
        PROVE  [index |-> t, id |-> None, name |-> None, args |-> z] \in ToolDeltas
    BY ReportsAssumption DEF ToolDeltas
  <2>. HIDE DEF Chk
  <2>. QED  BY <2>1, <2>2
<1>5. \A x : mapAnthropicStopReasonToOpenAI(x) \in Finishes /\ mapAnthropicStopReasonToOpenAI(x) # None
  <2>1. \A x : mapAnthropicStopReasonToOpenAI(x) \in {"length", "tool_calls", "stop"}
    BY DEF mapAnthropicStopReasonToOpenAI
  <2>. QED  BY <2>1, ShapesAssumption DEF Finishes
<1>6. \A u \in Counts : ToUsage(u) \in Usage
  BY DEF ToUsage, Counts, Usage
<1>7. <<>> \in Seq(ToolDeltas)
  OBVIOUS
<1>8. \A t, T, f, u : /\ Chk(t, T, f, u).tools = T /\ Chk(t, T, f, u).text = t /\ Chk(t, T, f, u).finish = f
  OBVIOUS
<1>. HIDE DEF Chk
<1>9. \A f \in Nat : TextChunk(f) \in ChunkItem
  BY <1>2, <1>3, <1>7
<1>10. EmptyChunk \in ChunkItem
  BY <1>1, <1>2, <1>7
<1>11. \A t, x, y \in Nat : ToolChunk(t, x, y, None) \in ChunkItem
  BY <1>2, <1>3, <1>4
<1>12. \A t, z \in Nat : ToolChunk(t, None, None, z) \in ChunkItem
  BY <1>2, <1>3, <1>4
<1>13. \A x : \A u \in Counts : EndChunk(x, u) \in ChunkItem
  BY <1>2, <1>3, <1>5, <1>6, <1>7
<1>14. \A x : \A u \in Counts : /\ EndChunk(x, u).tools = <<>> /\ EndChunk(x, u).text = None
                    /\ EndChunk(x, u).finish = mapAnthropicStopReasonToOpenAI(x)
                    /\ EndChunk(x, u).finish # None
  BY <1>3, <1>5, <1>8
<1>15. /\ EmptyChunk.tools = <<>> /\ EmptyChunk.text = None /\ EmptyChunk.finish = None
       /\ \A f \in Nat : TextChunk(f).tools = <<>> /\ TextChunk(f).text = f /\ TextChunk(f).finish = None
  BY <1>1, <1>3, <1>8
<1>16. \A t, x, y, z : /\ ToolChunk(t, x, y, z).text = None /\ ToolChunk(t, x, y, z).finish = None
                       /\ ToolChunk(t, x, y, z).tools = <<[index |-> t, id |-> x, name |-> y, args |-> z]>>
  <2>. SUFFICES ASSUME NEW t, NEW x, NEW y, NEW z
                PROVE  /\ ToolChunk(t, x, y, z).text = None /\ ToolChunk(t, x, y, z).finish = None
                       /\ ToolChunk(t, x, y, z).tools = <<[index |-> t, id |-> x, name |-> y, args |-> z]>>
    BY Zenon
  <2>. DEFINE T == <<[index |-> t, id |-> x, name |-> y, args |-> z]>>
  <2>1. ToolChunk(t, x, y, z) = Chk(None, T, None, None)
    BY <1>3
  <2>. HIDE DEF T
  <2>2. ToolChunk(t, x, y, z).text = None /\ ToolChunk(t, x, y, z).finish = None /\ ToolChunk(t, x, y, z).tools = T
    BY <1>8, <2>1
  <2>. QED  BY <2>2 DEF T
<1>. QED  BY <1>9, <1>10, <1>11, <1>12, <1>13, <1>14, <1>15, <1>16

(* What is relayed: the calls under their places among the calls, the      *)
(* texts in their order, the stop reason once.                             *)
Relayed(stop) == IF stop = None THEN None ELSE mapAnthropicStopReasonToOpenAI(stop)
UpBlocks(m, k) ==
    /\ Sane(m) /\ DOMAIN m.blocks = 0 .. k - 1
    /\ m.stage \in {"idle", "content"} => m.stop = None
    /\ \A i \in 0 .. k - 1 : /\ m.blocks[i] \in UpBlock
                             /\ m.blocks[i].kind = "tool_use" => m.blocks[i].val \in CallVal
                             /\ m.blocks[i].open => i = k - 1
ToolsAt(m) == Ascending(KindAt(m, "tool_use"))
OpenTool(m) == \E i \in KindAt(m, "tool_use") : m.blocks[i].open
CallRelayed(D, t, b) ==
    /\ \A tc \in ToSet(D) : tc.index = t => tc.id \in {None, b.val.id} /\ tc.name \in {None, b.val.name}
    /\ \E tc \in ToSet(D) : tc.index = t /\ tc.id # None
    /\ \E tc \in ToSet(D) : tc.index = t /\ tc.name # None
    /\ ArgsSent(D, t) = b.content
ToolsRelayed(m, tool, D) ==
    /\ tool = IF OpenTool(m) THEN Len(ToolsAt(m)) - 1 ELSE Len(ToolsAt(m))
    /\ IndicesSent(D) = 0 .. Len(ToolsAt(m)) - 1
    /\ \A n \in DOMAIN ToolsAt(m) : CallRelayed(D, n - 1, m.blocks[ToolsAt(m)[n]])
StopRelayed(m, w) ==
    /\ \A c \in ToSet(w) : c.type = "chunk" => c.finish \in {None, Relayed(m.stop)}
    /\ m.stop # None => \E c \in ToSet(w) : c.type = "chunk" /\ c.finish # None
Relays(m, s, w) ==
    /\ \E k \in Nat : UpBlocks(m, k)
    /\ DOMAIN s = {"block", "tool", "out"}
    /\ \A i \in DOMAIN m.blocks : m.blocks[i].open => s.block = m.blocks[i].kind
    /\ w \in Seq(Items)
    /\ TextsSent(w) = Spoken(m)
    /\ ToolsRelayed(m, s.tool, DeltasSent(w))
    /\ StopRelayed(m, w)

\* Nothing is relayed at first.
LEMMA RelaysNothing == Relays(Unread, FreshToOpenAI, <<>>)
<1>1. Unread.blocks = <<>> /\ DOMAIN Unread.blocks = {} /\ Unread.stop = None /\ Unread.stage = "idle"
  BY DEF Unread
<1>2. UpBlocks(Unread, 0)
  <2>1. Sane(Unread)
    BY DEF Sane, Unread
  <2>2. 0 .. 0 - 1 = {}
    OBVIOUS
  <2>. QED  BY <1>1, <2>1, <2>2 DEF UpBlocks
<1>3. \A k : KindAt(Unread, k) = {}
  BY <1>1 DEF KindAt
<1>4. Ascending({}) = <<>>
  <2>1. 0 .. 0 - 1 = {} /\ [n \in 1 .. 0 |-> n - 1] = <<>>
    OBVIOUS
  <2>. QED  BY <2>1, AscendingFirst
<1>5. Spoken(Unread) = <<>>
  <2>1. ContentsAt(Unread, <<>>) = <<>>
    BY DEF ContentsAt
  <2>. QED  BY <1>3, <1>4, <2>1, FlattenEmpty DEF Spoken
<1>6. ToolsRelayed(Unread, 0, <<>>)
  <2>1. ToolsAt(Unread) = <<>> /\ ~OpenTool(Unread)
    BY <1>3, <1>4 DEF ToolsAt, OpenTool
  <2>2. IndicesSent(<<>>) = {}
    BY DEF IndicesSent
  <2>. QED  BY <2>1, <2>2 DEF ToolsRelayed
<1>7. StopRelayed(Unread, <<>>)
  BY <1>1 DEF StopRelayed, ToSet
<1>8. DOMAIN FreshToOpenAI = {"block", "tool", "out"} /\ FreshToOpenAI.tool = 0
  BY DEF FreshToOpenAI
<1>9. <<>> \in Seq(Items)
  OBVIOUS
<1>. QED  BY <1>1, <1>2, <1>5, <1>6, <1>7, <1>8, <1>9, SentNothing DEF Relays

\* The blocks of a message, as sets of numbers.
LEMMA UpKinds ==
  ASSUME NEW m, NEW k \in Nat, UpBlocks(m, k), NEW kind
  PROVE  /\ KindAt(m, kind) \subseteq 0 .. k - 1 /\ KindAt(m, kind) \subseteq Nat /\ IsFiniteSet(KindAt(m, kind))
         /\ \A i \in KindAt(m, kind) : i \in DOMAIN m.blocks /\ m.blocks[i].content \in Seq(Nat)
<1>1. KindAt(m, kind) \subseteq 0 .. k - 1
  BY DEF KindAt, UpBlocks
<1>2. IsFiniteSet(0 .. k - 1)
  BY FS_Interval
<1>3. IsFiniteSet(KindAt(m, kind))
  BY <1>1, <1>2, FS_Subset
<1>4. \A i \in 0 .. k - 1 : i \in DOMAIN m.blocks /\ m.blocks[i].content \in Seq(Nat)
  BY DEF UpBlocks, UpBlock
<1>. QED  BY <1>1, <1>3, <1>4

\* The places of the calls.
LEMMA ToolsAtIs ==
  ASSUME NEW m, NEW k \in Nat, UpBlocks(m, k)
  PROVE  /\ ToolsAt(m) \in Seq(Nat) /\ ToSet(ToolsAt(m)) = KindAt(m, "tool_use")
         /\ \A n \in DOMAIN ToolsAt(m) : ToolsAt(m)[n] \in KindAt(m, "tool_use")
         /\ \A i, j \in DOMAIN ToolsAt(m) : i < j => ToolsAt(m)[i] < ToolsAt(m)[j]
<1>. DEFINE T == KindAt(m, "tool_use")
<1>1. T \subseteq Nat /\ IsFiniteSet(T)
  BY UpKinds
<1>. HIDE DEF T
<1>2. ToolsAt(m) \in Seq(T) /\ ToSet(ToolsAt(m)) = T
      /\ \A i, j \in DOMAIN ToolsAt(m) : i < j => ToolsAt(m)[i] < ToolsAt(m)[j]
  BY <1>1, AscendingIs DEF ToolsAt, T
<1>3. ToolsAt(m) \in Seq(Nat)
  BY <1>1, <1>2, SeqOfMore
<1>4. \A n \in DOMAIN ToolsAt(m) : ToolsAt(m)[n] \in T
  BY <1>2
<1>. QED  BY <1>2, <1>3, <1>4 DEF T

\* The calls are relayed as before when the blocks that make them are as before.
LEMMA ToolsKept ==
  ASSUME NEW m, NEW k \in Nat, UpBlocks(m, k), NEW tool, NEW D, ToolsRelayed(m, tool, D),
         NEW n, KindAt(n, "tool_use") = KindAt(m, "tool_use"),
         \A i \in KindAt(m, "tool_use") :
            n.blocks[i].val = m.blocks[i].val /\ n.blocks[i].content = m.blocks[i].content,
         NEW u, u = IF OpenTool(n) THEN Len(ToolsAt(m)) - 1 ELSE Len(ToolsAt(m))
  PROVE  ToolsRelayed(n, u, D)
<1>1. ToolsAt(n) = ToolsAt(m)
  BY DEF ToolsAt
<1>2. \A j \in DOMAIN ToolsAt(m) : ToolsAt(m)[j] \in KindAt(m, "tool_use")
  BY ToolsAtIs
<1>3. \A j \in DOMAIN ToolsAt(m) : CallRelayed(D, j - 1, n.blocks[ToolsAt(m)[j]])
  <2>. SUFFICES ASSUME NEW j \in DOMAIN ToolsAt(m) PROVE CallRelayed(D, j - 1, n.blocks[ToolsAt(m)[j]])
    OBVIOUS
  <2>. DEFINE b == m.blocks[ToolsAt(m)[j]]
              c == n.blocks[ToolsAt(m)[j]]
  <2>1. CallRelayed(D, j - 1, b)
    BY DEF ToolsRelayed
  <2>2. c.val = b.val /\ c.content = b.content
    BY <1>2
  <2>. HIDE DEF b, c
  <2>3. CallRelayed(D, j - 1, c)
    BY <2>1, <2>2 DEF CallRelayed
  <2>. QED  BY <2>3 DEF c
<1>. QED  BY <1>1, <1>3 DEF ToolsRelayed

\* The stop reason is relayed as before when no other is sent.
LEMMA StopKept ==
  ASSUME NEW m, NEW w \in Seq(Items), StopRelayed(m, w), NEW n, n.stop = m.stop,
         NEW c \in Items, c.type = "chunk" => c.finish = None
  PROVE  StopRelayed(n, w) /\ StopRelayed(n, Append(w, c))
<1>1. ToSet(Append(w, c)) = ToSet(w) \cup {c}
  BY AppendRange
<1>. QED  BY <1>1 DEF StopRelayed

\* A message says and calls the same when its blocks are the same.
LEMMA BlocksSame ==
  ASSUME NEW m, NEW n, n.blocks = m.blocks
  PROVE  /\ Spoken(n) = Spoken(m) /\ \A kind : KindAt(n, kind) = KindAt(m, kind)
         /\ OpenTool(n) <=> OpenTool(m)
<1>1. \A kind : KindAt(n, kind) = KindAt(m, kind)
  BY Zenon DEF KindAt
<1>2. \A L : ContentsAt(n, L) = ContentsAt(m, L)
  BY Zenon DEF ContentsAt
<1>3. Spoken(n) = Spoken(m)
  BY <1>1, <1>2, Zenon DEF Spoken
<1>4. OpenTool(n) <=> OpenTool(m)
  BY <1>1, Zenon DEF OpenTool
<1>. QED  BY <1>1, <1>3, <1>4

\* Nothing is added but a chunk that says nothing.
LEMMA SentSilent ==
  ASSUME NEW w \in Seq(Items), NEW c \in ChunkItem, c.tools = <<>>, c.text = None, NEW v, v = Append(w, c)
  PROVE  DeltasSent(v) = DeltasSent(w) /\ TextsSent(v) = TextsSent(w) /\ v \in Seq(Items)
<1>1. DeltasSent(w) \in Seq(ToolDeltas) /\ DeltasSent(v) = DeltasSent(w) \o <<>> /\ TextsSent(v) = TextsSent(w)
  BY SentMore
<1>2. DeltasSent(w) \o <<>> = DeltasSent(w)
  BY <1>1, ConcatEmptySeq
<1>3. c \in Items
  BY DEF Items
<1>. QED  BY <1>1, <1>2, <1>3

\* An event at an edge of the message: its start ...
LEMMA RelaysStart ==
  ASSUME NEW m, NEW s, NEW w, Relays(m, s, w), m.stage = "idle", NEW x, NEW e, e = MessageStart(x),
         NEW n, n = Read(m, e), NEW o, o = AnthropicEventToOpenAIChunk(e, s), NEW v, v = w \o o.out
  PROVE  Relays(n, o, v)
<1>1. PICK k \in Nat : UpBlocks(m, k)
  BY DEF Relays
<1>2. w \in Seq(Items) /\ DOMAIN s = {"block", "tool", "out"} /\ ToolsRelayed(m, s.tool, DeltasSent(w))
      /\ StopRelayed(m, w) /\ TextsSent(w) = Spoken(m)
  BY DEF Relays
<1>3. Sane(n) /\ n.stage = "content" /\ n.stop = m.stop /\ n.blocks = m.blocks
  <2>1. Sane(m)
    BY <1>1 DEF UpBlocks
  <2>2. \A z : z = Read(m, MessageStart(x)) => Sane(z) /\ z.stage = "content" /\ z.stop = m.stop /\ z.blocks = m.blocks
    BY <2>1, HearsEnds
  <2>. QED  BY <2>2
<1>4. DOMAIN o = DOMAIN s /\ o.block = s.block /\ o.tool = s.tool /\ o.out = <<EmptyChunk>>
  BY <1>2, RelayOut
<1>5. EmptyChunk \in ChunkItem /\ EmptyChunk.tools = <<>> /\ EmptyChunk.text = None /\ EmptyChunk.finish = None
  BY RelayedChunks
<1>6. EmptyChunk \in Items
  BY <1>5 DEF Items
<1>7. v = Append(w, EmptyChunk)
  BY <1>2, <1>4, <1>6
<1>8. DeltasSent(v) = DeltasSent(w) /\ TextsSent(v) = TextsSent(w) /\ v \in Seq(Items)
  BY <1>2, <1>5, <1>7, SentSilent
<1>9. StopRelayed(n, v)
  BY <1>2, <1>3, <1>5, <1>6, <1>7, StopKept
<1>10. UpBlocks(n, k)
  BY <1>1, <1>3 DEF UpBlocks
<1>11. Spoken(n) = Spoken(m) /\ KindAt(n, "tool_use") = KindAt(m, "tool_use") /\ (OpenTool(n) <=> OpenTool(m))
  BY <1>3, BlocksSame
<1>12. ToolsRelayed(n, o.tool, DeltasSent(v))
  <2>1. o.tool = IF OpenTool(n) THEN Len(ToolsAt(m)) - 1 ELSE Len(ToolsAt(m))
    BY <1>2, <1>4, <1>11 DEF ToolsRelayed
  <2>. QED  BY <1>1, <1>2, <1>3, <1>8, <1>11, <2>1, ToolsKept
<1>13. \A i \in DOMAIN n.blocks : n.blocks[i].open => o.block = n.blocks[i].kind
  BY <1>3, <1>4 DEF Relays
<1>. QED  BY <1>2, <1>4, <1>8, <1>9, <1>10, <1>11, <1>12, <1>13 DEF Relays

\* ... its end, with the stop reason ...
LEMMA RelaysEnd ==
  ASSUME NEW m, NEW s, NEW w, Relays(m, s, w), m.stage = "content", NEW x, NEW u \in Counts,
         NEW e, e = MessageDelta(x, u),
         NEW n, n = Read(m, e), NEW o, o = AnthropicEventToOpenAIChunk(e, s), NEW v, v = w \o o.out
  PROVE  Relays(n, o, v)
<1>1. PICK k \in Nat : UpBlocks(m, k)
  BY DEF Relays
<1>2. w \in Seq(Items) /\ DOMAIN s = {"block", "tool", "out"} /\ ToolsRelayed(m, s.tool, DeltasSent(w))
      /\ StopRelayed(m, w) /\ TextsSent(w) = Spoken(m)
  BY DEF Relays
<1>3. Sane(n) /\ n.stage = "ended" /\ n.stop = x /\ n.blocks = m.blocks
  <2>1. Sane(m)
    BY <1>1 DEF UpBlocks
  <2>2. \A z : z = Read(m, MessageDelta(x, u)) => Sane(z) /\ z.stage = "ended" /\ z.stop = x /\ z.blocks = m.blocks
    BY <2>1, HearsEnds
  <2>. QED  BY <2>2
<1>4. u # None
  BY ReportsAssumption DEF Counts
<1>5. /\ DOMAIN o = DOMAIN s /\ o.block = s.block /\ o.tool = s.tool
      /\ o.out = IF x = None THEN <<>> ELSE <<EndChunk(x, u)>>
  BY <1>2, <1>4, RelayOut
<1>6. m.stop = None
  BY <1>1 DEF UpBlocks
<1>7. /\ v \in Seq(Items) /\ DeltasSent(v) = DeltasSent(w) /\ TextsSent(v) = TextsSent(w)
      /\ StopRelayed(n, v)
  <2>1. CASE x = None
    <3>1. o.out = <<>> /\ n.stop = m.stop
      BY <1>3, <1>5, <1>6, <2>1
    <3>2. v = w
      BY <1>2, <3>1, ConcatEmptySeq
    <3>3. StopRelayed(n, w)
      BY <1>2, <3>1 DEF StopRelayed
    <3>. QED  BY <1>2, <3>2, <3>3
  <2>2. CASE x # None
    <3>. DEFINE c == EndChunk(x, u)
    <3>1. c \in ChunkItem /\ c.tools = <<>> /\ c.text = None /\ c.finish = mapAnthropicStopReasonToOpenAI(x)
          /\ c.finish # None
      BY RelayedChunks
    <3>2. o.out = <<c>>
      BY <1>5, <2>2
    <3>. HIDE DEF c
    <3>3. c \in Items /\ c.type = "chunk"
      BY <3>1 DEF Items, ChunkItem
    <3>4. v = Append(w, c)
      BY <1>2, <3>2, <3>3
    <3>5. DeltasSent(v) = DeltasSent(w) /\ TextsSent(v) = TextsSent(w) /\ v \in Seq(Items)
      BY <1>2, <3>1, <3>4, SentSilent
    <3>6. ToSet(v) = ToSet(w) \cup {c}
      BY <1>2, <3>3, <3>4, AppendRange
    <3>7. Relayed(m.stop) = None /\ Relayed(n.stop) = c.finish
      BY <1>3, <1>6, <2>2, <3>1 DEF Relayed
    <3>8. \A d \in ToSet(w) : d.type = "chunk" => d.finish = None
      BY <1>2, <3>7 DEF StopRelayed
    <3>9. StopRelayed(n, v)
      BY <3>1, <3>3, <3>6, <3>7, <3>8 DEF StopRelayed
    <3>. QED  BY <3>5, <3>9
  <2>. QED  BY <2>1, <2>2
<1>8. UpBlocks(n, k)
  BY <1>1, <1>3 DEF UpBlocks
<1>9. Spoken(n) = Spoken(m) /\ KindAt(n, "tool_use") = KindAt(m, "tool_use") /\ (OpenTool(n) <=> OpenTool(m))
  BY <1>3, BlocksSame
<1>10. ToolsRelayed(n, o.tool, DeltasSent(v))
  <2>1. o.tool = IF OpenTool(n) THEN Len(ToolsAt(m)) - 1 ELSE Len(ToolsAt(m))
    BY <1>2, <1>5, <1>9 DEF ToolsRelayed
  <2>. QED  BY <1>1, <1>2, <1>3, <1>7, <1>9, <2>1, ToolsKept
<1>11. \A i \in DOMAIN n.blocks : n.blocks[i].open => o.block = n.blocks[i].kind
  BY <1>3, <1>5 DEF Relays
<1>. QED  BY <1>2, <1>5, <1>7, <1>8, <1>9, <1>10, <1>11 DEF Relays

\* ... and its stop.
LEMMA RelaysLast ==
  ASSUME NEW m, NEW s, NEW w, Relays(m, s, w), NEW e, e = MessageStop, m.stage = "ended",
         NEW n, n = Read(m, e), NEW o, o = AnthropicEventToOpenAIChunk(e, s), NEW v, v = w \o o.out
  PROVE  Relays(n, o, v)
<1>1. PICK k \in Nat : UpBlocks(m, k)
  BY DEF Relays
<1>2. w \in Seq(Items) /\ DOMAIN s = {"block", "tool", "out"} /\ ToolsRelayed(m, s.tool, DeltasSent(w))
      /\ StopRelayed(m, w) /\ TextsSent(w) = Spoken(m)
  BY DEF Relays
<1>3. Sane(n) /\ n.stage = "stopped" /\ n.stop = m.stop /\ n.blocks = m.blocks
  BY <1>1, HearsEnds DEF UpBlocks
<1>4. DOMAIN o = DOMAIN s /\ o.block = s.block /\ o.tool = s.tool /\ o.out = <<Done>>
  BY <1>2, RelayOut
<1>5. Done \in Items /\ Done.type # "chunk"
  BY DEF Items, Done
<1>6. v = Append(w, Done) /\ v \in Seq(Items)
  BY <1>2, <1>4, <1>5
<1>7. DeltasSent(v) = DeltasSent(w) /\ TextsSent(v) = TextsSent(w)
  BY <1>2, <1>6, SentDone
<1>8. StopRelayed(n, v)
  BY <1>2, <1>3, <1>5, <1>6, StopKept
<1>9. UpBlocks(n, k)
  BY <1>1, <1>3 DEF UpBlocks
<1>10. Spoken(n) = Spoken(m) /\ KindAt(n, "tool_use") = KindAt(m, "tool_use") /\ (OpenTool(n) <=> OpenTool(m))
  BY <1>3, BlocksSame
<1>11. ToolsRelayed(n, o.tool, DeltasSent(v))
  <2>1. o.tool = IF OpenTool(n) THEN Len(ToolsAt(m)) - 1 ELSE Len(ToolsAt(m))
    BY <1>2, <1>4, <1>10 DEF ToolsRelayed
  <2>. QED  BY <1>1, <1>2, <1>3, <1>7, <1>10, <2>1, ToolsKept
<1>12. \A i \in DOMAIN n.blocks : n.blocks[i].open => o.block = n.blocks[i].kind
  BY <1>3, <1>4 DEF Relays
<1>. QED  BY <1>2, <1>4, <1>6, <1>7, <1>8, <1>9, <1>10, <1>11, <1>12 DEF Relays

\* A block starts when the others are closed: it is the last of its kind, and says nothing yet.
LEMMA HearsStart ==
  ASSUME NEW m, NEW k \in Nat, UpBlocks(m, k), m.stage = "content", \A i \in DOMAIN m.blocks : ~m.blocks[i].open,
         NEW kind \in Spoke, NEW val \in {None} \cup CallVal, kind = "tool_use" => val \in CallVal,
         NEW e, e = BlockStart(k, kind, val), NEW n, n = Read(m, e)
  PROVE  /\ UpBlocks(n, k + 1) /\ n.stop = m.stop /\ Spoken(n) = Spoken(m)
         /\ n.blocks[k].kind = kind /\ n.blocks[k].val = val /\ n.blocks[k].content = <<>> /\ n.blocks[k].open
         /\ \A i \in DOMAIN m.blocks : i # k /\ n.blocks[i] = m.blocks[i]
         /\ DOMAIN n.blocks = DOMAIN m.blocks \cup {k}
         /\ KindAt(n, kind) = KindAt(m, kind) \cup {k} /\ \A z : z # kind => KindAt(n, z) = KindAt(m, z)
<1>0. PICK yes \in BOOLEAN : yes = TRUE
  OBVIOUS
<1>. DEFINE b == [kind |-> kind, val |-> val, content |-> <<>>, open |-> yes]
<1>1. Sane(m) /\ DOMAIN m.blocks = 0 .. k - 1
  BY DEF UpBlocks
<1>2. /\ Sane(n) /\ n.stage = m.stage /\ n.stop = m.stop /\ DOMAIN n.blocks = DOMAIN m.blocks \cup {k}
      /\ n.blocks[k] = b /\ \A j \in DOMAIN m.blocks \ {k} : n.blocks[j] = m.blocks[j]
  BY <1>0, <1>1, HearsBlock
<1>3. k \notin DOMAIN m.blocks /\ DOMAIN n.blocks = 0 .. (k + 1) - 1
  BY <1>1, <1>2
<1>4. b \in UpBlock
  <2>1. <<>> \in Seq(Nat)
    OBVIOUS
  <2>. QED  BY <2>1 DEF UpBlock
<1>5. \A i \in DOMAIN m.blocks : i # k /\ n.blocks[i] = m.blocks[i]
  BY <1>2, <1>3
<1>6. b.kind = kind /\ b.val = val /\ b.content = <<>> /\ b.open = yes
  OBVIOUS
<1>. HIDE DEF b
<1>7. UpBlocks(n, k + 1)
  <2>1. \A i \in 0 .. k - 1 : /\ m.blocks[i] \in UpBlock
                              /\ m.blocks[i].kind = "tool_use" => m.blocks[i].val \in CallVal
    BY DEF UpBlocks
  <2>2. \A i \in 0 .. (k + 1) - 1 : i = k \/ i \in 0 .. k - 1
    OBVIOUS
  <2>3. \A i \in 0 .. k - 1 : n.blocks[i] = m.blocks[i] /\ ~m.blocks[i].open
    BY <1>1, <1>5
  <2>4. ASSUME NEW i \in 0 .. (k + 1) - 1
        PROVE  /\ n.blocks[i] \in UpBlock
               /\ n.blocks[i].kind = "tool_use" => n.blocks[i].val \in CallVal
               /\ n.blocks[i].open => i = (k + 1) - 1
    <3>1. CASE i = k
      BY <1>2, <1>4, <1>6, <3>1
    <3>2. CASE i \in 0 .. k - 1
      BY <2>1, <2>3, <3>2
    <3>. QED  BY <2>2, <3>1, <3>2
  <2>5. n.stop = None
    BY <1>2 DEF UpBlocks
  <2>6. \A i \in 0 .. (k + 1) - 1 : /\ n.blocks[i] \in UpBlock
                                    /\ n.blocks[i].kind = "tool_use" => n.blocks[i].val \in CallVal
                                    /\ n.blocks[i].open => i = (k + 1) - 1
    BY <2>4
  <2>. QED  BY <1>2, <1>3, <2>5, <2>6, Zenon DEF UpBlocks
<1>8. KindAt(n, kind) = KindAt(m, kind) \cup {k}
  BY <1>2, <1>3, <1>5, <1>6 DEF KindAt
<1>9. ASSUME NEW z, z # kind PROVE KindAt(n, z) = KindAt(m, z)
  BY <1>2, <1>3, <1>5, <1>6, <1>9 DEF KindAt
<1>10. n.blocks[k].open
  <2>1. n.blocks[k].open = yes
    BY <1>2, <1>6
  <2>. QED  BY <1>0, <2>1
<1>11. n.blocks[k].kind = kind /\ n.blocks[k].val = val /\ n.blocks[k].content = <<>>
  BY <1>2, <1>6
<1>12. Spoken(n) = Spoken(m)
  <2>. DEFINE T == KindAt(m, "text")
  <2>1. T \subseteq 0 .. k - 1 /\ T \subseteq Nat /\ IsFiniteSet(T)
        /\ \A i \in T : i \in DOMAIN m.blocks /\ m.blocks[i].content \in Seq(Nat)
    BY UpKinds
  <2>2. \A i \in T : i < k /\ m.blocks[i].content \in Seq(Nat) /\ n.blocks[i].content = m.blocks[i].content
    BY <1>5, <2>1
  <2>3. KindAt(m, "text") = T /\ (kind = "text" => KindAt(n, "text") = T \cup {k}) /\ (kind # "text" => KindAt(n, "text") = T)
    BY <1>8, <1>9
  <2>. HIDE DEF T
  <2>4. CASE kind = "text"
    BY <1>11, <2>1, <2>2, <2>3, <2>4, SpokenStart
  <2>5. CASE kind # "text"
    BY <2>1, <2>2, <2>3, <2>5, SpokenSame
  <2>. QED  BY <2>4, <2>5
<1>. QED  BY <1>2, <1>5, <1>7, <1>8, <1>9, <1>10, <1>11, <1>12

\* A block of text or of thinking starts: nothing is sent.
LEMMA RelaysBlock ==
  ASSUME NEW m, NEW s, NEW w, Relays(m, s, w), NEW k \in Nat, DOMAIN m.blocks = 0 .. k - 1, m.stage = "content",
         \A i \in DOMAIN m.blocks : ~m.blocks[i].open,
         NEW kind \in {"text", "thinking"}, NEW e, e = BlockStart(k, kind, None),
         NEW n, n = Read(m, e), NEW o, o = AnthropicEventToOpenAIChunk(e, s), NEW v, v = w \o o.out
  PROVE  Relays(n, o, v)
<1>1. UpBlocks(m, k)
  <2>1. PICK l \in Nat : UpBlocks(m, l)
    BY DEF Relays
  <2>2. 0 .. l - 1 = 0 .. k - 1
    BY <2>1 DEF UpBlocks
  <2>3. l = k
    BY <2>2
  <2>. QED  BY <2>1, <2>3
<1>2. w \in Seq(Items) /\ DOMAIN s = {"block", "tool", "out"} /\ ToolsRelayed(m, s.tool, DeltasSent(w))
      /\ StopRelayed(m, w) /\ TextsSent(w) = Spoken(m)
  BY DEF Relays
<1>3. kind \in Spoke /\ kind # "tool_use" /\ None \in {None} \cup CallVal
  BY DEF Spoke
<1>4. /\ UpBlocks(n, k + 1) /\ n.stop = m.stop /\ Spoken(n) = Spoken(m)
      /\ n.blocks[k].kind = kind /\ n.blocks[k].content = <<>> /\ n.blocks[k].open
      /\ \A i \in DOMAIN m.blocks : i # k /\ n.blocks[i] = m.blocks[i]
      /\ DOMAIN n.blocks = DOMAIN m.blocks \cup {k}
      /\ KindAt(n, kind) = KindAt(m, kind) \cup {k} /\ \A z : z # kind => KindAt(n, z) = KindAt(m, z)
  BY <1>1, <1>3, HearsStart
<1>5. DOMAIN o = DOMAIN s /\ o.block = kind /\ o.tool = s.tool /\ o.out = <<>>
  BY <1>2, <1>3, RelayOut
<1>6. v = w
  BY <1>2, <1>5, ConcatEmptySeq
<1>8. KindAt(n, "tool_use") = KindAt(m, "tool_use") /\ KindAt(m, "tool_use") \subseteq DOMAIN m.blocks
  BY <1>3, <1>4 DEF KindAt
<1>9. ~OpenTool(m) /\ ~OpenTool(n)
  BY <1>4, <1>8 DEF OpenTool
<1>10. ToolsRelayed(n, o.tool, DeltasSent(v))
  <2>1. o.tool = IF OpenTool(n) THEN Len(ToolsAt(m)) - 1 ELSE Len(ToolsAt(m))
    BY <1>2, <1>5, <1>9 DEF ToolsRelayed
  <2>2. \A i \in KindAt(m, "tool_use") :
            n.blocks[i].val = m.blocks[i].val /\ n.blocks[i].content = m.blocks[i].content
    BY <1>4, <1>8
  <2>. QED  BY <1>1, <1>2, <1>6, <1>8, <2>1, <2>2, ToolsKept
<1>11. \A i \in DOMAIN n.blocks : n.blocks[i].open => o.block = n.blocks[i].kind
  BY <1>4, <1>5
<1>12. StopRelayed(n, v)
  BY <1>2, <1>4, <1>6 DEF StopRelayed
<1>. QED  BY <1>2, <1>4, <1>5, <1>6, <1>10, <1>11, <1>12 DEF Relays

\* A sequence of one, at the end.
LEMMA ConcatOne ==
  ASSUME NEW S, NEW w \in Seq(S), NEW c \in S
  PROVE  w \o <<c>> = Append(w, c) /\ Append(w, c) \in Seq(S)
OBVIOUS

\* The number of blocks is what the set of their places says.
LEMMA RelaysUp ==
  ASSUME NEW m, NEW s, NEW w, Relays(m, s, w), NEW k \in Nat, DOMAIN m.blocks = 0 .. k - 1
  PROVE  UpBlocks(m, k)
<1>1. PICK l \in Nat : UpBlocks(m, l)
  BY DEF Relays
<1>2. 0 .. l - 1 = 0 .. k - 1
  BY <1>1 DEF UpBlocks
<1>3. l = k
  BY <1>2
<1>. QED  BY <1>1, <1>3

\* The calls of others are relayed as before.
LEMMA OthersRelayed ==
  ASSUME NEW D \in Seq(ToolDeltas), NEW d \in ToolDeltas, NEW E, E = Append(D, d), NEW t, t # d.index,
         NEW b, CallRelayed(D, t, b)
  PROVE  CallRelayed(E, t, b)
<1>1. ToSet(E) = ToSet(D) \cup {d}
  BY IndicesMore
<1>2. ArgsSent(E, t) = IF d.index = t /\ d.args # None THEN Append(ArgsSent(D, t), d.args) ELSE ArgsSent(D, t)
  BY ArgsMore
<1>3. ArgsSent(E, t) = ArgsSent(D, t)
  BY <1>2
<1>. QED  BY <1>1, <1>3 DEF CallRelayed

\* A call is relayed: its identifier and its name.
LEMMA CallOpens ==
  ASSUME NEW D \in Seq(ToolDeltas), NEW d \in ToolDeltas, NEW E, E = Append(D, d), d.index \notin IndicesSent(D),
         NEW b, d.id = b.val.id, d.name = b.val.name, d.id # None, d.name # None, d.args = None, b.content = <<>>
  PROVE  CallRelayed(E, d.index, b)
<1>1. ToSet(E) = ToSet(D) \cup {d} /\ IndicesSent(D) = {x.index : x \in ToSet(D)}
  BY IndicesMore
<1>2. ArgsSent(E, d.index) = <<>>
  <2>1. ArgsSent(D, d.index) = <<>>
    BY ArgsNone
  <2>2. ArgsSent(E, d.index) = IF d.index = d.index /\ d.args # None THEN Append(ArgsSent(D, d.index), d.args)
                               ELSE ArgsSent(D, d.index)
    BY ArgsMore
  <2>. QED  BY <2>1, <2>2
<1>3. \A tc \in ToSet(E) : tc.index = d.index => tc = d
  BY <1>1
<1>. QED  BY <1>1, <1>2, <1>3 DEF CallRelayed

\* A block of a call starts: its identifier and its name are sent.
LEMMA RelaysTool ==
  ASSUME NEW m, NEW s, NEW w, Relays(m, s, w), NEW k \in Nat, DOMAIN m.blocks = 0 .. k - 1, m.stage = "content",
         \A i \in DOMAIN m.blocks : ~m.blocks[i].open,
         NEW val \in CallVal, NEW e, e = BlockStart(k, "tool_use", val),
         NEW n, n = Read(m, e), NEW o, o = AnthropicEventToOpenAIChunk(e, s), NEW v, v = w \o o.out
  PROVE  Relays(n, o, v)
<1>. DEFINE L == ToolsAt(m)
            t == Len(L)
            c == ToolChunk(t, val.id, val.name, None)
            d == [index |-> t, id |-> val.id, name |-> val.name, args |-> None]
            D == DeltasSent(w)
<1>1. UpBlocks(m, k)
  BY RelaysUp
<1>2. w \in Seq(Items) /\ DOMAIN s = {"block", "tool", "out"} /\ ToolsRelayed(m, s.tool, D)
      /\ StopRelayed(m, w) /\ TextsSent(w) = Spoken(m)
  BY DEF Relays
<1>3. "tool_use" \in Spoke
  BY DEF Spoke
<1>4. /\ UpBlocks(n, k + 1) /\ n.stop = m.stop /\ Spoken(n) = Spoken(m)
      /\ n.blocks[k].kind = "tool_use" /\ n.blocks[k].val = val /\ n.blocks[k].content = <<>> /\ n.blocks[k].open
      /\ \A i \in DOMAIN m.blocks : i # k /\ n.blocks[i] = m.blocks[i]
      /\ DOMAIN n.blocks = DOMAIN m.blocks \cup {k}
      /\ KindAt(n, "tool_use") = KindAt(m, "tool_use") \cup {k}
  BY <1>1, <1>3, HearsStart
<1>5. /\ KindAt(m, "tool_use") \subseteq Nat /\ IsFiniteSet(KindAt(m, "tool_use"))
      /\ KindAt(m, "tool_use") \subseteq 0 .. k - 1
  BY <1>1, UpKinds
<1>6. ~OpenTool(m) /\ OpenTool(n)
  BY <1>1, <1>4 DEF OpenTool, KindAt
<1>7. L \in Seq(Nat) /\ ToSet(L) = KindAt(m, "tool_use") /\ \A j \in DOMAIN L : L[j] \in KindAt(m, "tool_use")
  BY <1>1, ToolsAtIs
<1>8. s.tool = t /\ IndicesSent(D) = 0 .. t - 1 /\ \A j \in DOMAIN L : CallRelayed(D, j - 1, m.blocks[L[j]])
  BY <1>2, <1>6 DEF ToolsRelayed
<1>9. ToolsAt(n) = Append(L, k)
  <2>. DEFINE T == KindAt(m, "tool_use")
  <2>1. T \subseteq Nat /\ IsFiniteSet(T) /\ \A y \in T : y < k
    BY <1>5
  <2>. HIDE DEF T
  <2>2. Ascending(T \cup {k}) = Append(Ascending(T), k)
    BY <2>1, AscendingLast
  <2>. QED  BY <1>4, <2>2 DEF ToolsAt, T
<1>10. DOMAIN o = DOMAIN s /\ o.block = "tool_use" /\ o.tool = s.tool /\ o.out = <<ToolChunk(s.tool, val.id, val.name, None)>>
  BY <1>2, RelayOut
<1>11. t \in Nat /\ DOMAIN L = 1 .. t
  BY <1>7
<1>12. val.id \in Nat /\ val.name \in Nat /\ None \notin Nat
  BY ReportsAssumption DEF CallVal
<1>13. c \in ChunkItem /\ c.text = None /\ c.finish = None /\ c.tools = <<d>>
  BY <1>11, <1>12, RelayedChunks
<1>14. d \in ToolDeltas
  BY <1>11, <1>12 DEF ToolDeltas
<1>15. o.out = <<c>>
  BY <1>8, <1>10
<1>. HIDE DEF c
<1>16. c \in Items
  BY <1>13 DEF Items
<1>17. v = Append(w, c) /\ v \in Seq(Items)
  <2>1. w \in Seq(Items) /\ v = w \o <<c>>
    BY <1>2, <1>15
  <2>2. w \o <<c>> = Append(w, c) /\ Append(w, c) \in Seq(Items)
    BY <1>16, <2>1, ConcatOne
  <2>. QED  BY <2>1, <2>2
<1>18. D \in Seq(ToolDeltas) /\ DeltasSent(v) = D \o c.tools /\ TextsSent(v) = TextsSent(w)
  <2>1. w \in Seq(Items) /\ c \in ChunkItem /\ c.text = None /\ v = Append(w, c)
    BY <1>2, <1>13, <1>17
  <2>. QED  BY <2>1, SentMore
<1>19. d.index = t /\ d.id = val.id /\ d.name = val.name /\ d.args = None
  OBVIOUS
<1>. HIDE DEF d, D, L
<1>20. DeltasSent(v) = Append(D, d)
  BY <1>13, <1>14, <1>18
<1>. DEFINE E == DeltasSent(v)
<1>21. ToolsRelayed(n, o.tool, E)
  <2>1. Len(ToolsAt(n)) = t + 1 /\ DOMAIN ToolsAt(n) = 1 .. t + 1 /\ ToolsAt(n)[t + 1] = k
        /\ \A j \in 1 .. t : ToolsAt(n)[j] = L[j]
    BY <1>7, <1>9, <1>11
  <2>2. o.tool = Len(ToolsAt(n)) - 1
    BY <1>8, <1>10, <1>11, <2>1
  <2>3. IndicesSent(E) = 0 .. t
    <3>1. IndicesSent(Append(D, d)) = IndicesSent(D) \cup {d.index}
      BY <1>14, <1>18, IndicesMore
    <3>2. (0 .. t - 1) \cup {t} = 0 .. t
      BY <1>11
    <3>. QED  BY <1>8, <1>19, <1>20, <3>1, <3>2
  <2>4. ASSUME NEW j \in 1 .. t PROVE CallRelayed(E, j - 1, n.blocks[ToolsAt(n)[j]])
    <3>1. L[j] \in DOMAIN m.blocks
      BY <1>5, <1>7, <1>11
    <3>2. n.blocks[ToolsAt(n)[j]] = m.blocks[L[j]]
      BY <1>4, <2>1, <3>1
    <3>3. CallRelayed(D, j - 1, m.blocks[L[j]])
      BY <1>8, <1>11
    <3>4. j - 1 # d.index
      BY <1>11, <1>19
    <3>. DEFINE b == m.blocks[L[j]]
                u == j - 1
    <3>5. CallRelayed(D, u, b) /\ u # d.index
      BY <3>3, <3>4
    <3>. HIDE DEF b, u
    <3>6. CallRelayed(E, u, b)
      BY <1>14, <1>18, <1>20, <3>5, OthersRelayed
    <3>. QED  BY <3>2, <3>6 DEF b, u
  <2>5. CallRelayed(E, t, n.blocks[k])
    <3>1. d.index \notin IndicesSent(D)
      BY <1>8, <1>11, <1>19
    <3>. DEFINE b == n.blocks[k]
    <3>2. d.id = b.val.id /\ d.name = b.val.name /\ d.id # None /\ d.name # None /\ d.args = None /\ b.content = <<>>
      BY <1>4, <1>12, <1>19
    <3>. HIDE DEF b
    <3>3. CallRelayed(E, d.index, b)
      BY <1>14, <1>18, <1>20, <3>1, <3>2, CallOpens
    <3>. QED  BY <1>19, <3>3 DEF b
  <2>6. \A j \in DOMAIN ToolsAt(n) : CallRelayed(E, j - 1, n.blocks[ToolsAt(n)[j]])
    <3>1. \A j \in 1 .. t + 1 : j \in 1 .. t \/ j = t + 1
      BY <1>11
    <3>2. (t + 1) - 1 = t
      BY <1>11
    <3>3. CallRelayed(E, (t + 1) - 1, n.blocks[ToolsAt(n)[t + 1]])
      BY <2>1, <2>5, <3>2
    <3>. QED  BY <2>1, <2>4, <3>1, <3>3
  <2>7. Len(ToolsAt(n)) - 1 = t
    BY <1>11, <2>1
  <2>. QED  BY <1>6, <2>2, <2>3, <2>6, <2>7 DEF ToolsRelayed
<1>22. StopRelayed(n, v)
  <2>1. w \in Seq(Items) /\ StopRelayed(m, w) /\ n.stop = m.stop
    BY <1>2, <1>4
  <2>2. c.type = "chunk" => c.finish = None
    BY <1>13
  <2>. QED  BY <1>16, <1>17, <2>1, <2>2, StopKept
<1>23. \A i \in DOMAIN n.blocks : n.blocks[i].open => o.block = n.blocks[i].kind
  BY <1>4, <1>10
<1>. QED  BY <1>2, <1>4, <1>10, <1>17, <1>18, <1>21, <1>22, <1>23 DEF Relays

\* A delta fills the block that is open, the last one, and leaves the others.
LEMMA HearsFill ==
  ASSUME NEW m, NEW k \in Nat, UpBlocks(m, k), NEW i \in DOMAIN m.blocks, m.blocks[i].open, NEW f \in Seq(Nat),
         NEW kind, NEW e, e = Delta(i, kind, f), NEW n, n = Read(m, e)
  PROVE  /\ UpBlocks(n, k) /\ i = k - 1 /\ n.stop = m.stop /\ DOMAIN n.blocks = DOMAIN m.blocks
         /\ n.blocks[i].content = Joined(m.blocks[i].content, f)
         /\ \A j \in DOMAIN m.blocks :
               /\ n.blocks[j].kind = m.blocks[j].kind /\ n.blocks[j].val = m.blocks[j].val
               /\ n.blocks[j].open = m.blocks[j].open
               /\ j # i => n.blocks[j] = m.blocks[j]
         /\ \A z : KindAt(n, z) = KindAt(m, z)
<1>0. DOMAIN m.blocks = 0 .. k - 1 /\ i = k - 1
  BY DEF UpBlocks
<1>1. Sane(m) /\ m.blocks[i] \in UpBlock
  BY DEF UpBlocks
<1>3. /\ Sane(n) /\ n.stage = m.stage /\ n.stop = m.stop /\ DOMAIN n.blocks = DOMAIN m.blocks
      /\ n.blocks[i] \in UpBlock /\ n.blocks[i].content = Joined(m.blocks[i].content, f)
      /\ n.blocks[i].kind = m.blocks[i].kind /\ n.blocks[i].val = m.blocks[i].val
      /\ n.blocks[i].open = m.blocks[i].open
      /\ \A j \in DOMAIN m.blocks \ {i} : n.blocks[j] = m.blocks[j]
  <2>1. Sane(n) /\ n.stage = m.stage /\ n.stop = m.stop /\ DOMAIN n.blocks = DOMAIN m.blocks
    BY <1>1, HearsDelta
  <2>2. n.blocks[i] \in UpBlock /\ n.blocks[i].content = Joined(m.blocks[i].content, f)
    BY <1>1, HearsDelta
  <2>3. n.blocks[i].kind = m.blocks[i].kind /\ n.blocks[i].val = m.blocks[i].val
    BY <1>1, HearsDelta
  <2>4. n.blocks[i].open = m.blocks[i].open
    BY <1>1, HearsDelta
  <2>5. \A j \in DOMAIN m.blocks \ {i} : n.blocks[j] = m.blocks[j]
    BY <1>1, HearsDelta
  <2>. QED  BY <2>1, <2>2, <2>3, <2>4, <2>5, Zenon
<1>4. ASSUME NEW j \in DOMAIN m.blocks
      PROVE  /\ n.blocks[j].kind = m.blocks[j].kind /\ n.blocks[j].val = m.blocks[j].val
             /\ n.blocks[j].open = m.blocks[j].open
             /\ n.blocks[j] \in UpBlock
             /\ j # i => n.blocks[j] = m.blocks[j]
  <2>1. CASE j = i
    BY <1>3, <2>1
  <2>2. CASE j # i
    BY <1>0, <1>1, <1>3, <2>2 DEF UpBlocks
  <2>. QED  BY <2>1, <2>2
<1>5. \A z : KindAt(n, z) = KindAt(m, z)
  BY <1>3, <1>4 DEF KindAt
<1>6. UpBlocks(n, k)
  <2>1. \A j \in 0 .. k - 1 : /\ n.blocks[j] \in UpBlock
                              /\ n.blocks[j].kind = "tool_use" => n.blocks[j].val \in CallVal
                              /\ n.blocks[j].open => j = k - 1
    BY <1>0, <1>1, <1>4 DEF UpBlocks
  <2>2. n.stage \in {"idle", "content"} => n.stop = None
    BY <1>3 DEF UpBlocks
  <2>. QED  BY <1>0, <1>1, <1>3, <2>1, <2>2 DEF UpBlocks
<1>. QED  BY <1>0, <1>3, <1>4, <1>5, <1>6

\* What is said grows by what fills the last text.
LEMMA FillSpeaks ==
  ASSUME NEW m, NEW k \in Nat, UpBlocks(m, k), NEW n, NEW i \in KindAt(m, "text"), \A j \in KindAt(m, "text") : j <= i, NEW f \in Seq(Nat),
         KindAt(n, "text") = KindAt(m, "text"),
         \A j \in KindAt(m, "text") \ {i} : n.blocks[j].content = m.blocks[j].content,
         n.blocks[i].content = Joined(m.blocks[i].content, f)
  PROVE  Spoken(n) = Joined(Spoken(m), f) /\ Spoken(m) \in Seq(Nat)
<1>. DEFINE T == KindAt(m, "text")
<1>1. T \subseteq 0 .. k - 1 /\ T \subseteq Nat /\ IsFiniteSet(T)
      /\ \A j \in T : j \in DOMAIN m.blocks /\ m.blocks[j].content \in Seq(Nat)
  BY UpKinds
<1>2. i \in T /\ KindAt(m, "text") = T /\ KindAt(n, "text") = T
  OBVIOUS
<1>3. \A j \in T : j <= i
  BY <1>1
<1>4. \A j \in T \ {i} : n.blocks[j].content = m.blocks[j].content
  BY <1>1
<1>5. \A j \in T : m.blocks[j].content \in Seq(Nat)
  BY <1>1
<1>6. T \subseteq Nat /\ IsFiniteSet(T)
  BY <1>1
<1>. HIDE DEF T
<1>. QED  BY <1>2, <1>3, <1>4, <1>5, <1>6, SpokenFill

\* Text that is heard is said.
LEMMA TextGrows ==
  ASSUME NEW m, NEW k \in Nat, UpBlocks(m, k), NEW i \in DOMAIN m.blocks, m.blocks[i].open, NEW f \in Seq(Nat),
         m.blocks[i].kind = "text", NEW kind, NEW e, e = Delta(i, kind, f), NEW n, n = Read(m, e)
  PROVE  Spoken(n) = Joined(Spoken(m), f) /\ Spoken(m) \in Seq(Nat)
<1>1. i = k - 1 /\ n.blocks[i].content = Joined(m.blocks[i].content, f)
  BY HearsFill
<1>2. \A j \in DOMAIN m.blocks : j # i => n.blocks[j] = m.blocks[j]
  BY HearsFill
<1>3. KindAt(n, "text") = KindAt(m, "text")
  BY HearsFill
<1>4. i \in KindAt(m, "text")
  BY DEF KindAt
<1>5. KindAt(m, "text") \subseteq 0 .. k - 1 /\ KindAt(m, "text") \subseteq DOMAIN m.blocks
  BY UpKinds
<1>6. \A j \in KindAt(m, "text") : j <= i
  BY <1>1, <1>5
<1>7. \A j \in KindAt(m, "text") \ {i} : n.blocks[j].content = m.blocks[j].content
  BY <1>2, <1>5
<1>8. n.blocks[i].content = Joined(m.blocks[i].content, f)
  BY <1>1
<1>. QED  BY <1>3, <1>4, <1>6, <1>7, <1>8, FillSpeaks

\* Text is sent as it is heard.
LEMMA RelaysText ==
  ASSUME NEW m, NEW s, NEW w, Relays(m, s, w), NEW i \in DOMAIN m.blocks, m.blocks[i].open, NEW a \in Nat,
         m.blocks[i].kind = "text", NEW f, f = Single(a), NEW e, e = Delta(i, "text", f),
         NEW n, n = Read(m, e), NEW o, o = AnthropicEventToOpenAIChunk(e, s), NEW v, v = w \o o.out
  PROVE  Relays(n, o, v)
<1>. DEFINE c == TextChunk(a)
<1>1. PICK k \in Nat : UpBlocks(m, k)
  BY DEF Relays
<1>2. w \in Seq(Items) /\ DOMAIN s = {"block", "tool", "out"} /\ ToolsRelayed(m, s.tool, DeltasSent(w))
      /\ StopRelayed(m, w) /\ TextsSent(w) = Spoken(m) /\ s.block = "text"
  BY DEF Relays
<1>0. f \in Seq(Nat) /\ e = Delta(i, "text", <<a>>)
  BY DEF Single
<1>0a. f \in Seq(Nat)
  BY <1>0
<1>3. /\ UpBlocks(n, k) /\ i = k - 1 /\ n.stop = m.stop /\ DOMAIN n.blocks = DOMAIN m.blocks
      /\ n.blocks[i].content = Joined(m.blocks[i].content, f)
      /\ \A j \in DOMAIN m.blocks :
            /\ n.blocks[j].kind = m.blocks[j].kind /\ n.blocks[j].val = m.blocks[j].val
            /\ n.blocks[j].open = m.blocks[j].open
            /\ j # i => n.blocks[j] = m.blocks[j]
      /\ \A z : KindAt(n, z) = KindAt(m, z)
  <2>1. UpBlocks(n, k) /\ i = k - 1 /\ n.stop = m.stop /\ DOMAIN n.blocks = DOMAIN m.blocks
    BY <1>0a, <1>1, HearsFill
  <2>2. n.blocks[i].content = Joined(m.blocks[i].content, f)
    BY <1>0a, <1>1, HearsFill
  <2>3. \A j \in DOMAIN m.blocks :
            /\ n.blocks[j].kind = m.blocks[j].kind /\ n.blocks[j].val = m.blocks[j].val
            /\ n.blocks[j].open = m.blocks[j].open
            /\ j # i => n.blocks[j] = m.blocks[j]
    BY <1>0a, <1>1, HearsFill
  <2>4. \A z : KindAt(n, z) = KindAt(m, z)
    BY <1>0a, <1>1, HearsFill
  <2>. QED  BY <2>1, <2>2, <2>3, <2>4, Zenon
<1>4. DOMAIN o = DOMAIN s /\ o.block = s.block /\ o.tool = s.tool /\ o.out = <<c>>
  BY <1>0, <1>2, RelayOut
<1>5. c \in ChunkItem /\ c.tools = <<>> /\ c.text = a /\ c.finish = None
  BY RelayedChunks
<1>. HIDE DEF c
<1>6. c \in Items
  BY <1>5 DEF Items
<1>7. v = Append(w, c) /\ v \in Seq(Items)
  <2>1. w \in Seq(Items) /\ v = w \o <<c>>
    BY <1>2, <1>4
  <2>2. w \o <<c>> = Append(w, c) /\ Append(w, c) \in Seq(Items)
    BY <1>6, <2>1, ConcatOne
  <2>. QED  BY <2>1, <2>2
<1>8. a # None
  BY ReportsAssumption
<1>9. DeltasSent(v) = DeltasSent(w) /\ TextsSent(v) = Append(TextsSent(w), a) /\ TextsSent(w) \in Seq(Nat)
  <2>1. /\ DeltasSent(w) \in Seq(ToolDeltas) /\ DeltasSent(v) = DeltasSent(w) \o c.tools
        /\ TextsSent(w) \in Seq(Nat)
        /\ TextsSent(v) = IF c.text # None THEN Append(TextsSent(w), c.text) ELSE TextsSent(w)
    BY <1>2, <1>5, <1>7, SentMore
  <2>2. DeltasSent(w) \o <<>> = DeltasSent(w)
    BY <2>1, ConcatEmptySeq
  <2>. QED  BY <1>5, <1>8, <2>1, <2>2
<1>10. TextsSent(v) = Spoken(n)
  <2>6. Spoken(n) = Joined(Spoken(m), f) /\ Spoken(m) \in Seq(Nat)
    BY <1>0a, <1>1, TextGrows
  <2>7. Spoken(m) \o f = Append(Spoken(m), a)
    BY <2>6, ConcatOne DEF Single
  <2>. QED  BY <1>2, <1>9, <2>6, <2>7 DEF Joined, Single
<1>11. \A j \in DOMAIN m.blocks : n.blocks[j].open <=> m.blocks[j].open
  BY <1>3
<1>12. ToolsRelayed(n, o.tool, DeltasSent(v))
  <2>1. KindAt(n, "tool_use") = KindAt(m, "tool_use") /\ KindAt(m, "tool_use") \subseteq DOMAIN m.blocks
        /\ i \notin KindAt(m, "tool_use")
    BY <1>3 DEF KindAt
  <2>2. OpenTool(n) <=> OpenTool(m)
    BY <1>11, <2>1 DEF OpenTool
  <2>3. o.tool = IF OpenTool(n) THEN Len(ToolsAt(m)) - 1 ELSE Len(ToolsAt(m))
    BY <1>2, <1>4, <2>2 DEF ToolsRelayed
  <2>4. \A j \in KindAt(m, "tool_use") :
            n.blocks[j].val = m.blocks[j].val /\ n.blocks[j].content = m.blocks[j].content
    BY <1>0, <1>3, <2>1
  <2>5. ToolsRelayed(m, s.tool, DeltasSent(w)) /\ DeltasSent(v) = DeltasSent(w)
    BY <1>2, <1>9
  <2>. QED  BY <1>1, <2>1, <2>3, <2>4, <2>5, ToolsKept
<1>13. StopRelayed(n, v)
  <2>1. w \in Seq(Items) /\ StopRelayed(m, w) /\ n.stop = m.stop
    BY <1>2, <1>3
  <2>2. c.type = "chunk" => c.finish = None
    BY <1>5
  <2>. QED  BY <1>6, <1>7, <2>1, <2>2, StopKept
<1>14. \A j \in DOMAIN n.blocks : n.blocks[j].open => o.block = n.blocks[j].kind
  <2>1. \A j \in DOMAIN m.blocks : m.blocks[j].open => s.block = m.blocks[j].kind
    BY DEF Relays
  <2>. QED  BY <1>3, <1>4, <1>11, <2>1
<1>. QED  BY <1>2, <1>3, <1>4, <1>7, <1>10, <1>12, <1>13, <1>14 DEF Relays

\* What is said stays as it is when another block than a text is filled.
LEMMA OtherKeeps ==
  ASSUME NEW m, NEW k \in Nat, UpBlocks(m, k), NEW i \in DOMAIN m.blocks, m.blocks[i].open, NEW f \in Seq(Nat),
         m.blocks[i].kind # "text", NEW kind, NEW e, e = Delta(i, kind, f), NEW n, n = Read(m, e)
  PROVE  Spoken(n) = Spoken(m)
<1>. DEFINE T == KindAt(m, "text")
<1>1. \A j \in DOMAIN m.blocks : j # i => n.blocks[j] = m.blocks[j]
  BY HearsFill
<1>2. KindAt(n, "text") = T
  BY HearsFill
<1>3. i \notin T
  BY DEF KindAt
<1>4. T \subseteq DOMAIN m.blocks /\ T \subseteq Nat /\ IsFiniteSet(T)
  BY UpKinds
<1>5. \A j \in T : n.blocks[j].content = m.blocks[j].content
  BY <1>1, <1>3, <1>4
<1>6. KindAt(m, "text") = T
  OBVIOUS
<1>. HIDE DEF T
<1>. QED  BY <1>2, <1>4, <1>5, <1>6, SpokenSame

\* The arguments of a call are sent as they are heard.
LEMMA RelaysArgs ==
  ASSUME NEW m, NEW s, NEW w, Relays(m, s, w), NEW i \in DOMAIN m.blocks, m.blocks[i].open, NEW a \in Nat,
         m.blocks[i].kind = "tool_use", NEW f, f = Single(a), NEW e, e = Delta(i, "tool_use", f),
         NEW n, n = Read(m, e), NEW o, o = AnthropicEventToOpenAIChunk(e, s), NEW v, v = w \o o.out
  PROVE  Relays(n, o, v)
<1>. DEFINE L == ToolsAt(m)
            t == Len(L) - 1
            c == ToolChunk(t, None, None, a)
            d == [index |-> t, id |-> None, name |-> None, args |-> a]
            D == DeltasSent(w)
<1>1. PICK k \in Nat : UpBlocks(m, k)
  BY DEF Relays
<1>2. w \in Seq(Items) /\ DOMAIN s = {"block", "tool", "out"} /\ ToolsRelayed(m, s.tool, DeltasSent(w))
      /\ StopRelayed(m, w) /\ TextsSent(w) = Spoken(m) 
  BY DEF Relays
<1>0. f \in Seq(Nat) /\ e = Delta(i, "tool_use", <<a>>)
  BY DEF Single
<1>0a. f \in Seq(Nat)
  BY <1>0
<1>3. /\ UpBlocks(n, k) /\ i = k - 1 /\ n.stop = m.stop /\ DOMAIN n.blocks = DOMAIN m.blocks
      /\ n.blocks[i].content = Joined(m.blocks[i].content, f)
      /\ \A j \in DOMAIN m.blocks :
            /\ n.blocks[j].kind = m.blocks[j].kind /\ n.blocks[j].val = m.blocks[j].val
            /\ n.blocks[j].open = m.blocks[j].open
            /\ j # i => n.blocks[j] = m.blocks[j]
      /\ \A z : KindAt(n, z) = KindAt(m, z)
  <2>1. UpBlocks(n, k) /\ i = k - 1 /\ n.stop = m.stop /\ DOMAIN n.blocks = DOMAIN m.blocks
    BY <1>0a, <1>1, HearsFill
  <2>2. n.blocks[i].content = Joined(m.blocks[i].content, f)
    BY <1>0a, <1>1, HearsFill
  <2>3. \A j \in DOMAIN m.blocks :
            /\ n.blocks[j].kind = m.blocks[j].kind /\ n.blocks[j].val = m.blocks[j].val
            /\ n.blocks[j].open = m.blocks[j].open
            /\ j # i => n.blocks[j] = m.blocks[j]
    BY <1>0a, <1>1, HearsFill
  <2>4. \A z : KindAt(n, z) = KindAt(m, z)
    BY <1>0a, <1>1, HearsFill
  <2>. QED  BY <2>1, <2>2, <2>3, <2>4, Zenon
<1>4. L \in Seq(Nat) /\ ToSet(L) = KindAt(m, "tool_use") /\ (\A j \in DOMAIN L : L[j] \in KindAt(m, "tool_use"))
      /\ \A j, l \in DOMAIN L : j < l => L[j] < L[l]
  BY <1>1, ToolsAtIs
<1>5. i \in KindAt(m, "tool_use") /\ OpenTool(m)
  BY DEF KindAt, OpenTool
<1>6. s.tool = t /\ IndicesSent(D) = 0 .. t /\ \A j \in DOMAIN L : CallRelayed(D, j - 1, m.blocks[L[j]])
  BY <1>2, <1>5 DEF ToolsRelayed
<1>7. DOMAIN L = 1 .. Len(L) /\ Len(L) \in Nat
  BY <1>4
<1>8. Len(L) # 0 /\ L[Len(L)] = i /\ \A j \in 1 .. t : L[j] # i
  <2>1. PICK j \in DOMAIN L : L[j] = i
    BY <1>4, <1>5 DEF ToSet
  <2>2. Len(L) \in DOMAIN L
    BY <1>7, <2>1
  <2>3. KindAt(m, "tool_use") \subseteq 0 .. k - 1
    BY <1>1, UpKinds
  <2>4. L[Len(L)] \in 0 .. k - 1 /\ i = k - 1
    BY <1>3, <1>4, <2>2, <2>3
  <2>5. L[Len(L)] <= i
    BY <2>4
  <2>6. j = Len(L)
    <3>1. ASSUME j # Len(L) PROVE FALSE
      <4>1. j < Len(L)
        BY <1>7, <2>1, <3>1
      <4>2. L[j] < L[Len(L)]
        BY <1>4, <2>2, <4>1
      <4>. QED  BY <2>1, <2>4, <4>2
    <3>. QED  BY <3>1
  <2>7. \A l \in 1 .. t : l \in DOMAIN L /\ l < Len(L)
    BY <1>7
  <2>8. \A l \in 1 .. t : L[l] < L[Len(L)] /\ L[l] \in Nat
    BY <1>4, <2>2, <2>7
  <2>9. L[Len(L)] = i /\ i \in Nat
    BY <2>1, <2>4, <2>6
  <2>. QED  BY <1>7, <2>2, <2>8, <2>9
<1>9. t \in Nat /\ DOMAIN L = 1 .. t + 1 /\ Len(L) = t + 1
  BY <1>7, <1>8
<1>10. DOMAIN o = DOMAIN s /\ o.block = s.block /\ o.tool = s.tool /\ o.out = <<ToolChunk(s.tool, None, None, a)>>
  BY <1>0, <1>2, RelayOut
<1>11. c \in ChunkItem /\ c.text = None /\ c.finish = None /\ c.tools = <<d>>
  BY <1>9, RelayedChunks
<1>12. d \in ToolDeltas
  <2>1. \A x, y \in Nat : [index |-> x, id |-> None, name |-> None, args |-> y] \in ToolDeltas
    BY ReportsAssumption DEF ToolDeltas
  <2>. HIDE DEF t
  <2>. QED  BY <1>9, <2>1
<1>13. d.index = t /\ d.id = None /\ d.name = None /\ d.args = a
  OBVIOUS
<1>14. o.out = <<c>>
  BY <1>6, <1>10
<1>. HIDE DEF c, d, D, L
<1>15. c \in Items
  BY <1>11 DEF Items
<1>16. v = Append(w, c) /\ v \in Seq(Items)
  <2>1. w \in Seq(Items) /\ v = w \o <<c>>
    BY <1>2, <1>14
  <2>2. w \o <<c>> = Append(w, c) /\ Append(w, c) \in Seq(Items)
    BY <1>15, <2>1, ConcatOne
  <2>. QED  BY <2>1, <2>2
<1>17. D \in Seq(ToolDeltas) /\ DeltasSent(v) = D \o <<d>> /\ TextsSent(v) = TextsSent(w)
  <2>1. w \in Seq(Items) /\ c \in ChunkItem /\ c.text = None /\ v = Append(w, c)
    BY <1>2, <1>11, <1>16
  <2>2. D \in Seq(ToolDeltas) /\ DeltasSent(v) = D \o c.tools /\ TextsSent(v) = TextsSent(w)
    BY <2>1, SentMore DEF D
  <2>. QED  BY <1>11, <2>2
<1>. DEFINE E == DeltasSent(v)
<1>18. E = Append(D, d)
  BY <1>12, <1>17, ConcatOne
<1>. HIDE DEF E
<1>19. TextsSent(v) = Spoken(n)
  <2>1. m.blocks[i].kind # "text"
    OBVIOUS
  <2>2. Spoken(n) = Spoken(m)
    BY <1>0a, <1>1, <2>1, OtherKeeps
  <2>. QED  BY <1>2, <1>17, <2>2
<1>20. \A j \in DOMAIN m.blocks : n.blocks[j].open <=> m.blocks[j].open
  BY <1>3
<1>21. ToolsAt(n) = L
  BY <1>3 DEF ToolsAt, L
<1>22. \A j \in DOMAIN L : CallRelayed(E, j - 1, n.blocks[L[j]])
  <2>1. ASSUME NEW j \in 1 .. t PROVE CallRelayed(E, j - 1, n.blocks[L[j]])
    <3>. DEFINE b == m.blocks[L[j]]
                u == j - 1
    <3>1. n.blocks[L[j]] = b
      <4>1. j \in DOMAIN L /\ L[j] # i
        BY <1>8, <1>9
      <4>2. L[j] \in KindAt(m, "tool_use")
        BY <1>4, <4>1
      <4>3. L[j] \in DOMAIN m.blocks
        BY <4>2 DEF KindAt
      <4>. QED  BY <1>3, <4>1, <4>3
    <3>2. CallRelayed(D, u, b) /\ u # d.index
      <4>1. j \in DOMAIN L /\ j - 1 # t
        <5>1. \A x \in Nat : \A y \in 1 .. x : y \in 1 .. x + 1 /\ y - 1 # x
          OBVIOUS
        <5>. HIDE DEF t
        <5>. QED  BY <1>9, <5>1
      <4>2. CallRelayed(D, j - 1, m.blocks[L[j]])
        BY <1>6, <4>1
      <4>. QED  BY <1>13, <4>1, <4>2
    <3>. HIDE DEF b, u
    <3>3. CallRelayed(E, u, b)
      BY <1>12, <1>17, <1>18, <3>2, OthersRelayed
    <3>. QED  BY <3>1, <3>3 DEF u
  <2>2. CallRelayed(E, t, n.blocks[i])
    <3>. DEFINE b == m.blocks[i]
                z == n.blocks[i]
    <3>1. CallRelayed(D, t, b)
      <4>1. (t + 1) - 1 = t /\ t + 1 \in DOMAIN L /\ L[t + 1] = i
        BY <1>8, <1>9
      <4>2. CallRelayed(D, (t + 1) - 1, m.blocks[L[t + 1]])
        BY <1>6, <4>1
      <4>. QED  BY <4>1, <4>2
    <3>2. z.val = b.val /\ z.content = Joined(b.content, f)
      BY <1>3
    <3>. HIDE DEF b, z
    <3>3. CallRelayed(E, t, z)
      <4>1. ToSet(E) = ToSet(D) \cup {d}
        BY <1>12, <1>17, <1>18, IndicesMore
      <4>2. ArgsSent(D, t) \in Seq(Nat)
            /\ ArgsSent(E, t) = IF d.index = t /\ d.args # None THEN Append(ArgsSent(D, t), d.args) ELSE ArgsSent(D, t)
        BY <1>12, <1>17, <1>18, ArgsMore
      <4>3. d.args # None
        BY <1>13, ReportsAssumption
      <4>4. ArgsSent(E, t) = Append(ArgsSent(D, t), a)
        BY <1>13, <4>2, <4>3
      <4>5. ArgsSent(D, t) = b.content
        BY <3>1 DEF CallRelayed
      <4>6. ArgsSent(E, t) = z.content
        BY <3>2, <4>2, <4>4, <4>5, ConcatOne DEF Joined, Single
      <4>7. \A tc \in ToSet(D) : tc.index = t => tc.id \in {None, z.val.id} /\ tc.name \in {None, z.val.name}
        BY <3>1, <3>2 DEF CallRelayed
      <4>8. (\E tc \in ToSet(D) : tc.index = t /\ tc.id # None) /\ (\E tc \in ToSet(D) : tc.index = t /\ tc.name # None)
        BY <3>1 DEF CallRelayed
      <4>9. \A tc \in ToSet(E) : tc.index = t => tc.id \in {None, z.val.id} /\ tc.name \in {None, z.val.name}
        BY <1>13, <4>1, <4>7
      <4>10. (\E tc \in ToSet(E) : tc.index = t /\ tc.id # None) /\ (\E tc \in ToSet(E) : tc.index = t /\ tc.name # None)
        BY <4>1, <4>8
      <4>. QED  BY <4>6, <4>9, <4>10 DEF CallRelayed
    <3>. QED  BY <3>3 DEF z
  <2>3. \A j \in DOMAIN L : j \in 1 .. t \/ j = t + 1
    BY <1>9
  <2>4. (t + 1) - 1 = t /\ L[t + 1] = i
    BY <1>8, <1>9
  <2>5. CallRelayed(E, (t + 1) - 1, n.blocks[L[t + 1]])
    BY <2>2, <2>4
  <2>. QED  BY <2>1, <2>3, <2>5
<1>23. ToolsRelayed(n, o.tool, E)
  <2>1. OpenTool(n)
    BY <1>3, <1>5, <1>20 DEF OpenTool, KindAt
  <2>2. o.tool = Len(ToolsAt(n)) - 1
    BY <1>6, <1>9, <1>10, <1>21
  <2>3. IndicesSent(E) = 0 .. t
    <3>1. IndicesSent(E) = IndicesSent(D) \cup {d.index}
      BY <1>12, <1>17, <1>18, IndicesMore
    <3>2. (0 .. t) \cup {t} = 0 .. t
      BY <1>9
    <3>. QED  BY <1>6, <1>13, <3>1, <3>2
  <2>4. Len(ToolsAt(n)) - 1 = t
    BY <1>9, <1>21
  <2>. QED  BY <1>21, <1>22, <2>1, <2>2, <2>3, <2>4 DEF ToolsRelayed
<1>24. StopRelayed(n, v)
  <2>1. w \in Seq(Items) /\ StopRelayed(m, w) /\ n.stop = m.stop
    BY <1>2, <1>3
  <2>2. c.type = "chunk" => c.finish = None
    BY <1>11
  <2>. QED  BY <1>15, <1>16, <2>1, <2>2, StopKept
<1>25. \A j \in DOMAIN n.blocks : n.blocks[j].open => o.block = n.blocks[j].kind
  <2>1. \A j \in DOMAIN m.blocks : m.blocks[j].open => s.block = m.blocks[j].kind
    BY DEF Relays
  <2>. QED  BY <1>3, <1>10, <1>20, <2>1
<1>. QED  BY <1>2, <1>3, <1>10, <1>16, <1>19, <1>23, <1>24, <1>25 DEF Relays, E

\* Thoughts are not sent.
LEMMA RelaysThought ==
  ASSUME NEW m, NEW s, NEW w, Relays(m, s, w), NEW i \in DOMAIN m.blocks, m.blocks[i].open, NEW a \in Nat,
         m.blocks[i].kind = "thinking", NEW f, f = Single(a), NEW e, e = Delta(i, "thinking", f),
         NEW n, n = Read(m, e), NEW o, o = AnthropicEventToOpenAIChunk(e, s), NEW v, v = w \o o.out
  PROVE  Relays(n, o, v)
<1>1. PICK k \in Nat : UpBlocks(m, k)
  BY DEF Relays
<1>2. w \in Seq(Items) /\ DOMAIN s = {"block", "tool", "out"} /\ ToolsRelayed(m, s.tool, DeltasSent(w))
      /\ StopRelayed(m, w) /\ TextsSent(w) = Spoken(m)
  BY DEF Relays
<1>0. f \in Seq(Nat) /\ e = Delta(i, "thinking", <<a>>)
  BY DEF Single
<1>0a. f \in Seq(Nat)
  BY <1>0
<1>3. /\ UpBlocks(n, k) /\ n.stop = m.stop /\ DOMAIN n.blocks = DOMAIN m.blocks
      /\ \A j \in DOMAIN m.blocks :
            /\ n.blocks[j].kind = m.blocks[j].kind /\ n.blocks[j].val = m.blocks[j].val
            /\ n.blocks[j].open = m.blocks[j].open
            /\ j # i => n.blocks[j] = m.blocks[j]
      /\ \A z : KindAt(n, z) = KindAt(m, z)
  <2>1. UpBlocks(n, k) /\ n.stop = m.stop /\ DOMAIN n.blocks = DOMAIN m.blocks
    BY <1>0a, <1>1, HearsFill
  <2>3. \A j \in DOMAIN m.blocks :
            /\ n.blocks[j].kind = m.blocks[j].kind /\ n.blocks[j].val = m.blocks[j].val
            /\ n.blocks[j].open = m.blocks[j].open
            /\ j # i => n.blocks[j] = m.blocks[j]
    BY <1>0a, <1>1, HearsFill
  <2>4. \A z : KindAt(n, z) = KindAt(m, z)
    BY <1>0a, <1>1, HearsFill
  <2>. QED  BY <2>1, <2>3, <2>4, Zenon
<1>4. DOMAIN o = DOMAIN s /\ o.block = s.block /\ o.tool = s.tool /\ o.out = <<>>
  BY <1>0, <1>2, RelayOut
<1>5. v = w
  BY <1>2, <1>4, ConcatEmptySeq
<1>6. Spoken(n) = Spoken(m)
  <2>1. m.blocks[i].kind # "text"
    OBVIOUS
  <2>. QED  BY <1>0a, <1>1, <2>1, OtherKeeps
<1>7. \A j \in DOMAIN m.blocks : n.blocks[j].open <=> m.blocks[j].open
  BY <1>3
<1>8. ToolsRelayed(n, o.tool, DeltasSent(v))
  <2>1. KindAt(n, "tool_use") = KindAt(m, "tool_use") /\ KindAt(m, "tool_use") \subseteq DOMAIN m.blocks
        /\ i \notin KindAt(m, "tool_use")
    BY <1>3 DEF KindAt
  <2>2. OpenTool(n) <=> OpenTool(m)
    BY <1>7, <2>1 DEF OpenTool
  <2>3. o.tool = IF OpenTool(n) THEN Len(ToolsAt(m)) - 1 ELSE Len(ToolsAt(m))
    BY <1>2, <1>4, <2>2 DEF ToolsRelayed
  <2>4. \A j \in KindAt(m, "tool_use") :
            n.blocks[j].val = m.blocks[j].val /\ n.blocks[j].content = m.blocks[j].content
    BY <1>3, <2>1
  <2>5. ToolsRelayed(m, s.tool, DeltasSent(w)) /\ DeltasSent(v) = DeltasSent(w)
    BY <1>2, <1>5
  <2>. QED  BY <1>1, <2>1, <2>3, <2>4, <2>5, ToolsKept
<1>9. StopRelayed(n, v)
  BY <1>2, <1>3, <1>5 DEF StopRelayed
<1>10. \A j \in DOMAIN n.blocks : n.blocks[j].open => o.block = n.blocks[j].kind
  <2>1. \A j \in DOMAIN m.blocks : m.blocks[j].open => s.block = m.blocks[j].kind
    BY DEF Relays
  <2>. QED  BY <1>3, <1>4, <1>7, <2>1
<1>. QED  BY <1>2, <1>3, <1>4, <1>5, <1>6, <1>8, <1>9, <1>10 DEF Relays

\* A block stops, the call with it.
LEMMA RelaysStop ==
  ASSUME NEW m, NEW s, NEW w, Relays(m, s, w), NEW i \in DOMAIN m.blocks, m.blocks[i].open,
         NEW e, e = BlockStop(i),
         NEW n, n = Read(m, e), NEW o, o = AnthropicEventToOpenAIChunk(e, s), NEW v, v = w \o o.out
  PROVE  Relays(n, o, v)
<1>1. PICK k \in Nat : UpBlocks(m, k)
  BY DEF Relays
<1>2. w \in Seq(Items) /\ DOMAIN s = {"block", "tool", "out"} /\ ToolsRelayed(m, s.tool, DeltasSent(w))
      /\ StopRelayed(m, w) /\ TextsSent(w) = Spoken(m) /\ s.block = m.blocks[i].kind
  BY DEF Relays
<1>3. DOMAIN m.blocks = 0 .. k - 1 /\ \A j \in DOMAIN m.blocks : m.blocks[j].open => j = k - 1
  BY <1>1 DEF UpBlocks
<1>4. Sane(m) /\ m.blocks[i] \in UpBlock
  BY <1>1 DEF UpBlocks
<1>5. Sane(n) /\ n.stage = m.stage /\ n.stop = m.stop /\ DOMAIN n.blocks = DOMAIN m.blocks
  BY <1>4, HearsStop
<1>6. n.blocks[i] \in UpBlock /\ n.blocks[i].content = m.blocks[i].content
      /\ n.blocks[i].kind = m.blocks[i].kind /\ n.blocks[i].val = m.blocks[i].val
  BY <1>4, HearsStop
<1>7. ~n.blocks[i].open
  BY <1>4, HearsStop
<1>8. \A j \in DOMAIN m.blocks \ {i} : n.blocks[j] = m.blocks[j]
  BY <1>4, HearsStop
<1>9. ASSUME NEW j \in DOMAIN m.blocks
      PROVE  /\ n.blocks[j].kind = m.blocks[j].kind /\ n.blocks[j].val = m.blocks[j].val
             /\ n.blocks[j].content = m.blocks[j].content /\ n.blocks[j] \in UpBlock
             /\ ~n.blocks[j].open
  <2>1. CASE j = i
    BY <1>6, <1>7, <2>1
  <2>2. CASE j # i
    <3>1. n.blocks[j] = m.blocks[j]
      BY <1>8, <2>2
    <3>2. m.blocks[j] \in UpBlock
      BY <1>1, <1>3 DEF UpBlocks
    <3>3. ~m.blocks[j].open
      BY <1>3, <2>2
    <3>. QED  BY <3>1, <3>2, <3>3
  <2>. QED  BY <2>1, <2>2
<1>10. \A z : KindAt(n, z) = KindAt(m, z)
  BY <1>5, <1>9 DEF KindAt
<1>11. UpBlocks(n, k)
  <2>1. \A j \in 0 .. k - 1 : /\ n.blocks[j] \in UpBlock
                              /\ n.blocks[j].kind = "tool_use" => n.blocks[j].val \in CallVal
                              /\ n.blocks[j].open => j = k - 1
    <3>1. \A j \in 0 .. k - 1 : m.blocks[j].kind = "tool_use" => m.blocks[j].val \in CallVal
      BY <1>1 DEF UpBlocks
    <3>. QED  BY <1>3, <1>9, <3>1
  <2>2. n.stage \in {"idle", "content"} => n.stop = None
    BY <1>1, <1>5 DEF UpBlocks
  <2>. QED  BY <1>3, <1>5, <2>1, <2>2 DEF UpBlocks
<1>12. DOMAIN o = DOMAIN s /\ o.out = <<>> /\ o.tool = IF s.block = "tool_use" THEN s.tool + 1 ELSE s.tool
  BY <1>2, RelayOut
<1>13. v = w
  BY <1>2, <1>12, ConcatEmptySeq
<1>14. Spoken(n) = Spoken(m)
  <2>. DEFINE T == KindAt(m, "text")
  <2>1. T \subseteq DOMAIN m.blocks /\ T \subseteq Nat /\ IsFiniteSet(T)
    BY <1>1, UpKinds
  <2>2. KindAt(m, "text") = T /\ KindAt(n, "text") = T
    BY <1>10
  <2>3. \A j \in T : n.blocks[j].content = m.blocks[j].content
    BY <1>9, <2>1
  <2>. HIDE DEF T
  <2>. QED  BY <2>1, <2>2, <2>3, SpokenSame
<1>15. ~OpenTool(n)
  BY <1>5, <1>9 DEF OpenTool, KindAt
<1>16. OpenTool(m) <=> m.blocks[i].kind = "tool_use"
  <2>1. \A j \in DOMAIN m.blocks : m.blocks[j].open => j = i
    BY <1>3
  <2>2. \A j \in KindAt(m, "tool_use") : j \in DOMAIN m.blocks /\ m.blocks[j].kind = "tool_use"
    BY DEF KindAt
  <2>3. m.blocks[i].kind = "tool_use" => i \in KindAt(m, "tool_use")
    BY DEF KindAt
  <2>. QED  BY <2>1, <2>2, <2>3 DEF OpenTool
<1>17. ToolsRelayed(n, o.tool, DeltasSent(v))
  <2>1. KindAt(n, "tool_use") = KindAt(m, "tool_use") /\ KindAt(m, "tool_use") \subseteq DOMAIN m.blocks
    BY <1>10 DEF KindAt
  <2>2. Len(ToolsAt(m)) \in Nat
    <3>1. ToolsAt(m) \in Seq(Nat)
      BY <1>1, ToolsAtIs
    <3>. QED  BY <3>1
  <2>3. s.tool = IF OpenTool(m) THEN Len(ToolsAt(m)) - 1 ELSE Len(ToolsAt(m))
    BY <1>2 DEF ToolsRelayed
  <2>4. o.tool = Len(ToolsAt(m))
    BY <1>2, <1>12, <1>16, <2>2, <2>3
  <2>5. o.tool = IF OpenTool(n) THEN Len(ToolsAt(m)) - 1 ELSE Len(ToolsAt(m))
    BY <1>15, <2>4
  <2>6. \A j \in KindAt(m, "tool_use") :
            n.blocks[j].val = m.blocks[j].val /\ n.blocks[j].content = m.blocks[j].content
    BY <1>9, <2>1
  <2>7. ToolsRelayed(m, s.tool, DeltasSent(w)) /\ DeltasSent(v) = DeltasSent(w)
    BY <1>2, <1>13
  <2>. QED  BY <1>1, <2>1, <2>5, <2>6, <2>7, ToolsKept
<1>18. StopRelayed(n, v)
  BY <1>2, <1>5, <1>13 DEF StopRelayed
<1>19. \A j \in DOMAIN n.blocks : n.blocks[j].open => o.block = n.blocks[j].kind
  BY <1>5, <1>9
<1>. QED  BY <1>2, <1>11, <1>12, <1>13, <1>14, <1>17, <1>18, <1>19 DEF Relays

\* The stop reason of what was relayed.
LEMMA RelayedFinish ==
  ASSUME NEW m, NEW w \in Seq(Items), StopRelayed(m, w)
  PROVE  FinishSent(w) = Relayed(m.stop)
<1>. DEFINE x == Relayed(m.stop)
<1>1. \A c \in ToSet(w) : c.type = "chunk" => c.finish \in {None, x}
  BY DEF StopRelayed
<1>2. m.stop # None => \E c \in ToSet(w) : c.type = "chunk" /\ c.finish # None
  BY DEF StopRelayed
<1>3. m.stop = None => x = None
  BY DEF Relayed
<1>. HIDE DEF x
<1>4. FinishSent(w) = IF \E c \in ToSet(w) : c.type = "chunk" /\ c.finish # None THEN x ELSE None
  BY <1>1, FinishIs
<1>. QED  BY <1>2, <1>3, <1>4 DEF x

\* A call as it was relayed is the call.
LEMMA RelayedCall ==
  ASSUME NEW D \in Seq(ToolDeltas), NEW t, NEW b, CallRelayed(D, t, b)
  PROVE  CallSent(D, t) = CallOf(b)
<1>. DEFINE x == b.val.id
            y == b.val.name
<1>1. \A tc \in ToSet(D) : tc.index = t => tc.id \in {None, x} /\ tc.name \in {None, y}
  BY DEF CallRelayed
<1>2. ArgsSent(D, t) = b.content /\ CallOf(b) = [id |-> x, name |-> y, args |-> b.content]
  BY DEF CallRelayed, CallOf
<1>3. (\E tc \in ToSet(D) : tc.index = t /\ tc.id # None) /\ \E tc \in ToSet(D) : tc.index = t /\ tc.name # None
  BY DEF CallRelayed
<1>. HIDE DEF x, y
<1>4. CallSent(D, t) =
         [id |-> IF \E tc \in ToSet(D) : tc.index = t /\ tc.id # None THEN x ELSE None,
          name |-> IF \E tc \in ToSet(D) : tc.index = t /\ tc.name # None THEN y ELSE None,
          args |-> ArgsSent(D, t)]
  BY <1>1, CallSentIs
<1>5. CallSent(D, t) = [id |-> x, name |-> y, args |-> ArgsSent(D, t)]
  BY <1>3, <1>4
<1>. QED  BY <1>2, <1>5

\* What was relayed is the message.
LEMMA RelayedWhole ==
  ASSUME NEW m, NEW s, NEW w, Relays(m, s, w), NEW v, v = Append(w, Done)
  PROVE  AssembleChunks(v) = AnthropicResponseToOpenAI(Reply(m))
<1>. DEFINE L == ToolsAt(m)
            D == DeltasSent(w)
            T == Ascending(IndicesSent(D))
<1>1. PICK k \in Nat : UpBlocks(m, k)
  BY DEF Relays
<1>2. w \in Seq(Items) /\ ToolsRelayed(m, s.tool, D) /\ StopRelayed(m, w) /\ TextsSent(w) = Spoken(m)
  BY DEF Relays
<1>3. DeltasSent(v) = D /\ TextsSent(v) = TextsSent(w) /\ FinishSent(v) = FinishSent(w)
  BY <1>2, SentDone
<1>4. D \in Seq(ToolDeltas)
  <2>1. EmptyChunk \in ChunkItem
    BY RelayedChunks
  <2>. QED  BY <1>2, <2>1, SentMore
<1>5. L \in Seq(Nat) /\ Len(L) \in Nat /\ DOMAIN L = 1 .. Len(L)
  BY <1>1, ToolsAtIs
<1>6. IndicesSent(D) = 0 .. Len(L) - 1 /\ \A n \in DOMAIN L : CallRelayed(D, n - 1, m.blocks[L[n]])
  BY <1>2 DEF ToolsRelayed
<1>. HIDE DEF D, L
<1>7. T = [n \in 1 .. Len(L) |-> n - 1]
  BY <1>5, <1>6, AscendingFirst
<1>8. DOMAIN T = DOMAIN L /\ \A n \in DOMAIN L : T[n] = n - 1
  BY <1>5, <1>7
<1>. HIDE DEF T
<1>9. ASSUME NEW n \in DOMAIN L PROVE CallSent(D, T[n]) = CallOf(m.blocks[L[n]])
  <2>. DEFINE t == n - 1
              b == m.blocks[L[n]]
  <2>1. CallRelayed(D, t, b) /\ T[n] = t
    BY <1>6, <1>8
  <2>. HIDE DEF t, b
  <2>2. CallSent(D, t) = CallOf(b)
    BY <1>4, <2>1, RelayedCall
  <2>. QED  BY <2>1, <2>2 DEF b
<1>10. [n \in DOMAIN T |-> CallSent(D, T[n])] = [n \in DOMAIN L |-> CallOf(m.blocks[L[n]])]
  BY <1>8, <1>9
<1>11. Called(m) = [n \in DOMAIN L |-> CallOf(m.blocks[L[n]])]
  BY Zenon DEF Called, L, ToolsAt
<1>12. FinishSent(w) = Relayed(m.stop)
  BY <1>2, RelayedFinish
<1>13. AssembleChunks(v) = [text |-> TextsSent(v), calls |-> [n \in DOMAIN T |-> CallSent(D, T[n])], stop |-> FinishSent(v)]
  BY <1>3, AssembledIs DEF T
<1>14. AssembleChunks(v) = [text |-> Spoken(m), calls |-> Called(m), stop |-> Relayed(m.stop)]
  BY <1>2, <1>3, <1>10, <1>11, <1>12, <1>13, Zenon
<1>. DEFINE r == Reply(m)
<1>15. DOMAIN m.blocks \subseteq Nat /\ IsFiniteSet(DOMAIN m.blocks)
  <2>1. DOMAIN m.blocks = 0 .. k - 1
    BY <1>1 DEF UpBlocks
  <2>2. IsFiniteSet(0 .. k - 1)
    BY FS_Interval
  <2>. QED  BY <2>1, <2>2
<1>. HIDE DEF r
<1>16. /\ FlattenSeq(Vals(Texts(r.content))) = Spoken(m)
       /\ Vals(OfType(r.content, "tool_use")) = Called(m)
       /\ r.stop = m.stop
  BY <1>15, ReplyIs DEF r
<1>17. AnthropicResponseToOpenAI(r) = [text |-> Spoken(m), calls |-> Called(m), stop |-> Relayed(m.stop)]
  BY <1>16 DEF AnthropicResponseToOpenAI, Relayed
<1>. QED  BY <1>14, <1>17 DEF r

\* The state that is kept is the one that was made but for what was written.
LEMMA RelaysOut ==
  ASSUME NEW m, NEW s, NEW w, Relays(m, s, w), NEW z, z = [s EXCEPT !.out = <<>>]
  PROVE  Relays(m, z, w)
<1>1. DOMAIN s = {"block", "tool", "out"}
  BY DEF Relays
<1>2. DOMAIN z = DOMAIN s /\ z.block = s.block /\ z.tool = s.tool
  BY <1>1
<1>. QED  BY <1>2 DEF Relays

\* Whatever the upstream sends next is relayed.
LEMMA RelaysSent ==
  ASSUME Relays(SaidSoFar, conv, written), NEW e \in SentEvents, Atom \in Nat,
         NEW n, n = Read(SaidSoFar, e), NEW o, o = AnthropicEventToOpenAIChunk(e, conv),
         NEW v, v = written \o o.out
  PROVE  Relays(n, o, v)
<1>. DEFINE m == SaidSoFar
<1>1. PICK k \in Nat : UpBlocks(m, k)
  BY DEF Relays
<1>2. Sane(m) /\ DOMAIN m.blocks = 0 .. k - 1
  BY <1>1 DEF UpBlocks
<1>3. \A i \in DOMAIN m.blocks : m.blocks[i].kind \in Spoke
  BY <1>1 DEF UpBlocks, UpBlock
<1>4. \/ m.stage = "idle" /\ \E u : e = MessageStart(u)
      \/ \E i \in DOMAIN m.blocks :
            /\ m.stage = "content" /\ m.blocks[i].open
            /\ e = BlockStop(i) \/ e = Delta(i, m.blocks[i].kind, <<Atom>>)
      \/ /\ m.stage = "content" /\ \A i \in DOMAIN m.blocks : ~m.blocks[i].open
         /\ \/ \E x \in UpStops : e = MessageDelta(x, OutputReport(Atom))
            \/ \E kind \in {"text", "thinking"} : e = BlockStart(k, kind, None)
            \/ e = BlockStart(k, "tool_use", [id |-> k, name |-> k])
      \/ m.stage = "ended" /\ e = MessageStop
  BY <1>2, SentForms
<1>5. Relays(m, conv, written) /\ n = Read(m, e)
  OBVIOUS
<1>6. OutputReport(Atom) \in Counts
  BY DEF OutputReport, Counts
<1>. DEFINE a == Atom
<1>7. a \in Nat
  OBVIOUS
<1>. HIDE DEF m, a
<1>8. ASSUME m.stage = "idle", NEW u, e = MessageStart(u) PROVE Relays(n, o, v)
  BY <1>5, <1>8, RelaysStart
<1>9. ASSUME NEW i \in DOMAIN m.blocks, m.blocks[i].open, e = BlockStop(i) PROVE Relays(n, o, v)
  BY <1>5, <1>9, RelaysStop
<1>10. ASSUME NEW i \in DOMAIN m.blocks, m.blocks[i].open, e = Delta(i, m.blocks[i].kind, <<a>>) PROVE Relays(n, o, v)
  <2>. DEFINE f == Single(a)
  <2>1. f = Single(a) /\ e = Delta(i, m.blocks[i].kind, f)
    BY <1>10 DEF Single
  <2>. HIDE DEF f
  <2>2. CASE m.blocks[i].kind = "text"
    <3>1. e = Delta(i, "text", f)
      BY <2>1, <2>2
    <3>. QED  BY <1>5, <1>7, <1>10, <2>1, <2>2, <3>1, RelaysText
  <2>3. CASE m.blocks[i].kind = "tool_use"
    <3>1. e = Delta(i, "tool_use", f)
      BY <2>1, <2>3
    <3>. QED  BY <1>5, <1>7, <1>10, <2>1, <2>3, <3>1, RelaysArgs
  <2>4. CASE m.blocks[i].kind = "thinking"
    <3>1. e = Delta(i, "thinking", f)
      BY <2>1, <2>4
    <3>. QED  BY <1>5, <1>7, <1>10, <2>1, <2>4, <3>1, RelaysThought
  <2>. QED  BY <1>3, <2>2, <2>3, <2>4 DEF Spoke, m
<1>11. ASSUME m.stage = "content", NEW x, NEW u \in Counts, e = MessageDelta(x, u) PROVE Relays(n, o, v)
  BY <1>5, <1>11, RelaysEnd
<1>12. ASSUME m.stage = "content", \A i \in DOMAIN m.blocks : ~m.blocks[i].open,
              NEW kind \in {"text", "thinking"}, e = BlockStart(k, kind, None) PROVE Relays(n, o, v)
  BY <1>2, <1>5, <1>12, RelaysBlock DEF m
<1>13. ASSUME m.stage = "content", \A i \in DOMAIN m.blocks : ~m.blocks[i].open,
              e = BlockStart(k, "tool_use", [id |-> k, name |-> k]) PROVE Relays(n, o, v)
  <2>. DEFINE val == [id |-> k, name |-> k]
  <2>1. val \in CallVal /\ e = BlockStart(k, "tool_use", val)
    BY <1>13 DEF CallVal
  <2>2. DOMAIN m.blocks = 0 .. k - 1
    BY <1>2 DEF m
  <2>. HIDE DEF val
  <2>. QED  BY <1>5, <1>13, <2>1, <2>2, RelaysTool
<1>14. ASSUME m.stage = "ended", e = MessageStop PROVE Relays(n, o, v)
  BY <1>5, <1>14, RelaysLast
<1>15. \/ m.stage = "idle" /\ \E u : e = MessageStart(u)
       \/ \E i \in DOMAIN m.blocks : m.blocks[i].open /\ (e = BlockStop(i) \/ e = Delta(i, m.blocks[i].kind, <<a>>))
       \/ m.stage = "content" /\ \E x : \E u \in Counts : e = MessageDelta(x, u)
       \/ /\ m.stage = "content" /\ \A i \in DOMAIN m.blocks : ~m.blocks[i].open
          /\ \/ \E kind \in {"text", "thinking"} : e = BlockStart(k, kind, None)
             \/ e = BlockStart(k, "tool_use", [id |-> k, name |-> k])
       \/ m.stage = "ended" /\ e = MessageStop
  BY <1>4, <1>6 DEF m, a
<1>. QED  BY <1>8, <1>9, <1>10, <1>11, <1>12, <1>13, <1>14, <1>15

(* A call whose client speaks the OpenAI protocol and whose upstream the   *)
(* Anthropic one: what was read is relayed, and [DONE] is written last.    *)
RelayInv ==
    pipe = "to_openai" =>
        /\ \E S : received \in Seq(S)
        /\ phase \in {"asked", "sent"} => received = <<>> /\ written = <<>>
        /\ phase \in {"streaming", "broken"} => Relays(SaidSoFar, conv, written)
        /\ phase = "done" => \E w : Relays(SaidSoFar, conv, w) /\ written = Append(w, Done)
RelayedReply ==
    pipe = "to_openai" /\ phase = "done" =>
        AssembleChunks(written) = AnthropicResponseToOpenAI(Reply(Assemble(received)))

\* A stream of nothing says nothing.
LEMMA SaysNothing ==
  ASSUME received = <<>>
  PROVE  SaidSoFar = Unread
<1>1. \E f : Assembles(f, received) /\ Assemble(received) = f[Len(received)]
  BY AssembleFold
<1>2. Len(received) = 0
  OBVIOUS
<1>. QED  BY <1>1, <1>2 DEF Assembles, SaidSoFar

\* An item of the upstream is relayed.
LEMMA RelayNext ==
  ASSUME RelayInv, pipeAnthropicStreamToOpenAI
  PROVE  RelayInv'
<1>1. PICK e \in SentEvents :
         /\ Reads(e)
         /\ written' = written \o AnthropicEventToOpenAIChunk(e, conv).out
         /\ conv' = [AnthropicEventToOpenAIChunk(e, conv) EXCEPT !.out = <<>>]
  BY Zenon DEF pipeAnthropicStreamToOpenAI
<1>2. pipe = "to_openai" /\ phase = "streaming" /\ pipe' = pipe /\ phase' = phase /\ received' = Append(received, e)
  BY <1>1, Zenon DEF pipeAnthropicStreamToOpenAI, Reads
<1>3. PICK S : received \in Seq(S)
  BY <1>2 DEF RelayInv
<1>4. Relays(SaidSoFar, conv, written)
  BY <1>2 DEF RelayInv
<1>5. Atom \in Nat
  BY <1>3 DEF Atom
<1>. DEFINE n == Read(SaidSoFar, e)
            o == AnthropicEventToOpenAIChunk(e, conv)
            v == written \o o.out
            z == [o EXCEPT !.out = <<>>]
<1>6. Relays(n, o, v)
  BY <1>4, <1>5, RelaysSent
<1>7. SaidSoFar' = n
  <2>1. Assemble(Append(received, e)) = Read(Assemble(received), e)
    BY <1>3, AssembleAppend
  <2>. QED  BY <1>2, <2>1 DEF SaidSoFar
<1>8. conv' = z /\ written' = v
  BY <1>1
<1>9. \E T : received' \in Seq(T)
  <2>1. received \in Seq(S \cup {e}) /\ e \in S \cup {e}
    BY <1>3, SeqOfMore
  <2>2. Append(received, e) \in Seq(S \cup {e})
    BY <2>1
  <2>. QED  BY <1>2, <2>2
<1>. HIDE DEF n, o, v
<1>10. Relays(n, z, v)
  BY <1>6, RelaysOut
<1>. HIDE DEF z
<1>11. Relays(SaidSoFar', conv', written')
  BY <1>7, <1>8, <1>10
<1>. QED  BY <1>2, <1>9, <1>11 DEF RelayInv

\* A reply that is converted to chunks while it streams is the whole reply.
LEMMA RelayAlways == Spec => []RelayedReply
<1>1. Init => RelayInv
  <2>. SUFFICES ASSUME Init PROVE RelayInv
    OBVIOUS
  <2>1. received = <<>> /\ written = <<>> /\ phase = "asked"
    BY DEF Init
  <2>2. received \in Seq({})
    BY <2>1
  <2>. QED  BY <2>1, <2>2 DEF RelayInv
<1>2. RelayInv /\ [Next]_vars => RelayInv'
  <2>. SUFFICES ASSUME RelayInv, [Next]_vars PROVE RelayInv'
    OBVIOUS
  <2>. DEFINE Same == received' = received => SaidSoFar' = SaidSoFar
  <2>0. received' = received => SaidSoFar' = SaidSoFar
    BY DEF SaidSoFar
  <2>1. CASE Send
    <3>1. phase = "asked" /\ pipe' = pipe /\ received' = received /\ written' = written
          /\ phase' \in {"sent", "refused"}
      BY <2>1, Zenon DEF Send
    <3>. QED  BY <3>1 DEF RelayInv
  <2>2. CASE Open
    <3>1. phase = "sent" /\ phase' = "streaming" /\ pipe' = pipe /\ received' = received /\ written' = written
      BY <2>2, Zenon DEF Open
    <3>2. pipe = "to_openai" => conv' = FreshToOpenAI
      BY <2>2 DEF Open
    <3>3. ASSUME pipe = "to_openai" PROVE Relays(SaidSoFar', conv', written')
      <4>1. received = <<>> /\ written = <<>>
        BY <3>1, <3>3 DEF RelayInv
      <4>2. SaidSoFar' = Unread
        BY <2>0, <3>1, <4>1, SaysNothing
      <4>. QED  BY <3>1, <3>2, <3>3, <4>1, <4>2, RelaysNothing
    <3>. QED  BY <3>1, <3>3 DEF RelayInv
  <2>3. CASE ClientReads
    <3>1. pipe' = pipe /\ phase' = phase /\ received' = received /\ conv' = conv /\ written' = written
      BY <2>3, Zenon DEF ClientReads
    <3>. QED  BY <2>0, <3>1 DEF RelayInv
  <2>4. CASE EndOfStream
    <3>1. phase = "streaming" /\ phase' = "done" /\ pipe' = pipe /\ received' = received
      BY <2>4, Zenon DEF EndOfStream
    <3>2. pipe = "to_openai" => written' = Append(written, Done) /\ conv' = conv
      BY <2>4 DEF EndOfStream
    <3>3. ASSUME pipe = "to_openai"
          PROVE  \E w : Relays(SaidSoFar', conv', w) /\ written' = Append(w, Done)
      <4>1. Relays(SaidSoFar, conv, written)
        BY <3>1, <3>3 DEF RelayInv
      <4>2. SaidSoFar' = SaidSoFar /\ conv' = conv
        BY <2>0, <3>1, <3>2, <3>3
      <4>. QED  BY <3>2, <3>3, <4>1, <4>2
    <3>. QED  BY <3>1, <3>3 DEF RelayInv
  <2>5. CASE ReadFails
    <3>1. phase = "streaming" /\ phase' = "broken" /\ pipe' = pipe /\ received' = received
          /\ conv' = conv /\ written' = written
      BY <2>5, Zenon DEF ReadFails
    <3>. QED  BY <2>0, <3>1 DEF RelayInv
  <2>6. CASE pipeAnthropicStreamToOpenAI
    BY <2>6, RelayNext
  <2>7. CASE pipeOpenAIStream \/ pipeOpenAIStreamToAnthropic \/ pipeAnthropicStream \/ pipeResponsesStream
    <3>1. pipe # "to_openai"
      BY <2>7 DEF pipeOpenAIStream, pipeOpenAIStreamToAnthropic, pipeAnthropicStream, pipeResponsesStream
    <3>2. pipe' = pipe
      BY <2>7, Zenon DEF pipeOpenAIStream, pipeOpenAIStreamToAnthropic, pipeAnthropicStream, pipeResponsesStream, Reads
    <3>. QED  BY <3>1, <3>2 DEF RelayInv
  <2>8. CASE UNCHANGED vars
    <3>1. pipe' = pipe /\ phase' = phase /\ received' = received /\ conv' = conv /\ written' = written
      BY <2>8 DEF vars
    <3>. QED  BY <2>0, <3>1 DEF RelayInv
  <2>. QED  BY <2>1, <2>2, <2>3, <2>4, <2>5, <2>6, <2>7, <2>8, Zenon DEF Next
<1>3. RelayInv => RelayedReply
  <2>. SUFFICES ASSUME RelayInv, pipe = "to_openai", phase = "done"
       PROVE  AssembleChunks(written) = AnthropicResponseToOpenAI(Reply(Assemble(received)))
    BY DEF RelayedReply
  <2>1. PICK w : Relays(SaidSoFar, conv, w) /\ written = Append(w, Done)
    BY DEF RelayInv
  <2>2. AssembleChunks(written) = AnthropicResponseToOpenAI(Reply(SaidSoFar))
    BY <2>1, RelayedWhole
  <2>. QED  BY <2>2 DEF SaidSoFar
<1>. QED  BY <1>1, <1>2, <1>3, PTL DEF Spec

(* A reply that is converted to chunks while it streams is, at its end,    *)
(* the conversion of the whole reply, for streams of any length: the half  *)
(* of StreamAgreesWithResponse that is about AnthropicEventToOpenAIChunk.  *)
THEOREM RelaysWholeResponse == Spec => [](pipe = "to_openai" => StreamAgreesWithResponse)
<1>1. RelayedReply => (pipe = "to_openai" => StreamAgreesWithResponse)
  <2>. SUFFICES ASSUME RelayedReply, pipe = "to_openai"
       PROVE  StreamAgreesWithResponse
    OBVIOUS
  <2>1. pipe # "to_anthropic"
    OBVIOUS
  <2>2. phase = "done" => AssembleChunks(written) = AnthropicResponseToOpenAI(Reply(Assemble(received)))
    BY DEF RelayedReply
  <2>. QED  BY <2>1, <2>2, Zenon DEF StreamAgreesWithResponse
<1>. QED  BY <1>1, RelayAlways, PTL

=============================================================================
