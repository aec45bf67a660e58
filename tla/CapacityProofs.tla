-------------------------- MODULE CapacityProofs --------------------------
(***************************************************************************)
(* Proofs about the counters that bound the load: a user's concurrency     *)
(* slots (ConcurrencySlots), the connections of a backend (LoadBalancer    *)
(* with BackendAdmin) and the tokens of a quota (QuotaCycle), for every    *)
(* set of handlers, callers, backends, models, administrators and calls,   *)
(* every limit, length of a cycle and timing.                              *)
(***************************************************************************)
EXTENDS BackendAdmin, ConcurrencySlots, QuotaCycle, FiniteSetTheorems, TLAPS

(***************************************************************************)
(* The slots of a user                                                     *)
(***************************************************************************)
\* While handlers are shorter than the TTL, the key outlives every handler that is counted.
KeyOutlivesHandlers ==
  maxHold < SlotTTL => \A r \in Counted : ttl # Persistent /\ ttl + age[r] >= SlotTTL

\* ... and so no release ever sees a negative counter.
NoClamp == maxHold < SlotTTL => \A r \in Handler : phase[r] # "clamp"

AbsentIsZero == ttl = 0 => count <= 0

SlotInv ==
  /\ TypeOK
  /\ KeyOutlivesHandlers
  /\ NoClamp
  /\ CountCoversHandlers
  /\ AbsentIsZero
  /\ RefusingCounterExpires

-----------------------------------------------------------------------------
\* The handlers that are counted, or held, are finitely many.
LEMMA CountedFinite ==
  /\ IsFiniteSet(Counted) /\ Cardinality(Counted) \in Nat
  /\ IsFiniteSet(Held) /\ Cardinality(Held) \in Nat
  /\ Cardinality(Held) <= Cardinality(Counted)
<1>1. IsFiniteSet(Counted) /\ Cardinality(Counted) \in Nat
  <2>1. Counted \in SUBSET Handler
    BY DEF Counted
  <2>. QED  BY <2>1, SlotAssumption, FS_Subset, FS_CardinalityType
<1>2. Held \in SUBSET Counted
  BY DEF Held, Counted
<1>. QED  BY <1>1, <1>2, FS_Subset, FS_CardinalityType

\* A handler that runs the script joins the counted ones.
LEMMA CountedGains ==
  ASSUME NEW r \in Handler, NEW w \in {"over", "held"}, TypeOK,
         r \notin Counted, phase' = [phase EXCEPT ![r] = w]
  PROVE  /\ Counted' = Counted \cup {r}
         /\ Cardinality(Counted') = Cardinality(Counted) + 1
<1>1. Counted' = Counted \cup {r}
  BY DEF Counted, TypeOK
<1>. QED  BY <1>1, CountedFinite, FS_AddElement

\* A handler that leaves, leaves the counted ones.
LEMMA CountedLoses ==
  ASSUME NEW r \in Handler, NEW w \in {"idle", "clamp"}, TypeOK,
         r \in Counted, phase' = [phase EXCEPT ![r] = w]
  PROVE  /\ Counted' = Counted \ {r}
         /\ Cardinality(Counted') = Cardinality(Counted) - 1
         /\ Cardinality(Counted) >= 1
<1>1. Counted' = Counted \ {r}
  BY DEF Counted, TypeOK
<1>2. Cardinality(Counted) # 0
  BY CountedFinite, FS_EmptySet
<1>3. Cardinality(Counted \ {r}) = Cardinality(Counted) - 1
  BY CountedFinite, FS_RemoveElement
<1>4. Cardinality(Counted) >= 1
  BY <1>2, CountedFinite
<1>. QED  BY <1>1, <1>3, <1>4

\* A step of a handler outside the counted ones leaves them alone.
LEMMA CountedSame ==
  ASSUME NEW r \in Handler, NEW w \in {"idle", "limited"}, TypeOK,
         r \notin Counted, phase' = [phase EXCEPT ![r] = w]
  PROVE  Counted' = Counted
BY DEF Counted, TypeOK

-----------------------------------------------------------------------------
\* The invariant holds before the first request: no key, no handler.
LEMMA SlotInitInv == Init => SlotInv
<1>. SUFFICES ASSUME Init PROVE SlotInv
  OBVIOUS
<1>1. TypeOK
  BY SlotAssumption DEF Init, TypeOK, AllLimits
<1>2. Counted = {}
  BY DEF Init, Counted
<1>3. Cardinality(Counted) = 0
  BY <1>2, FS_EmptySet
<1>. QED
  BY <1>1, <1>2, <1>3 DEF Init, SlotInv, KeyOutlivesHandlers, NoClamp, CountCoversHandlers,
     AbsentIsZero, RefusingCounterExpires

\* TypeOK is preserved by every step.
LEMMA SlotTypeStep ==
  ASSUME TypeOK, [Next]_slotVars
  PROVE  TypeOK'
<1>. USE SlotAssumption DEF TypeOK, AllLimits, Persistent
<1>1. CASE \E l \in Limits : SetLimit(l)
  BY <1>1 DEF SetLimit
<1>2. ASSUME NEW r \in Handler, ReadLimits(r) PROVE TypeOK'
  BY <1>2 DEF ReadLimits, Goto
<1>3. ASSUME NEW r \in Handler, ReadLimitsFails(r) PROVE TypeOK'
  BY <1>3 DEF ReadLimitsFails, Goto, Fault
<1>4. ASSUME NEW r \in Handler, RunScript(r) PROVE TypeOK'
  BY <1>4 DEF RunScript, Goto
<1>5. ASSUME NEW r \in Handler, RunScriptFails(r) PROVE TypeOK'
  BY <1>5 DEF RunScriptFails, Goto, Fault
<1>6. ASSUME NEW r \in Handler, TakeBack(r) PROVE TypeOK'
  BY <1>6 DEF TakeBack, Goto, Decrement
<1>7. ASSUME NEW r \in Handler, ReleaseConcurrency(r) PROVE TypeOK'
  BY <1>7 DEF ReleaseConcurrency, Goto, Decrement
<1>8. ASSUME NEW r \in Handler, Clamp(r) PROVE TypeOK'
  BY <1>8, CountedFinite DEF Clamp, Goto
<1>9. ASSUME NEW r \in Handler, DecrementFails(r) PROVE TypeOK'
  BY <1>9 DEF DecrementFails, Goto, Decrement, Fault
<1>10. ASSUME NEW r \in Handler, ClampFails(r) PROVE TypeOK'
  BY <1>10 DEF ClampFails, Goto, Fault
<1>11. CASE Crash
  BY <1>11 DEF Crash, Fault
<1>12. CASE Tick
  BY <1>12, CountedFinite DEF Tick, Counted
<1>13. CASE UNCHANGED slotVars
  BY <1>13 DEF slotVars
<1>. QED
  BY <1>1, <1>2, <1>3, <1>4, <1>5, <1>6, <1>7, <1>8, <1>9, <1>10, <1>11, <1>12, <1>13
  DEF Next, Acquire, Finish

\* The rest of the invariant, action by action.
LEMMA SlotInvStep ==
  ASSUME SlotInv, [Next]_slotVars
  PROVE  SlotInv'
<1>0. TypeOK /\ TypeOK'
  BY SlotTypeStep DEF SlotInv
<1>. USE SlotAssumption, <1>0
<1>a. DEFINE Rest == /\ KeyOutlivesHandlers /\ NoClamp /\ CountCoversHandlers
                     /\ AbsentIsZero /\ RefusingCounterExpires
<1>b. Rest
  BY DEF SlotInv
<1>c. SUFFICES Rest'
  BY DEF SlotInv
<1>d. IsFiniteSet(Counted) /\ Cardinality(Counted) \in Nat
  BY CountedFinite
<1>1. CASE \E l \in Limits : SetLimit(l)
  <2>1. UNCHANGED <<count, ttl, phase, age, maxHold, forgotten>>
    BY <1>1 DEF SetLimit
  <2>. QED
    BY <1>b, <2>1 DEF Counted, KeyOutlivesHandlers, NoClamp, CountCoversHandlers,
       AbsentIsZero, RefusingCounterExpires
<1>2. ASSUME NEW r \in Handler, ReadLimits(r) \/ ReadLimitsFails(r) PROVE Rest'
  <2>1. /\ phase' = [phase EXCEPT ![r] = "limited"] /\ age' = [age EXCEPT ![r] = 0]
        /\ r \notin Counted /\ UNCHANGED <<count, ttl, maxHold, forgotten>>
    BY <1>2 DEF ReadLimits, ReadLimitsFails, Goto, Counted
  <2>2. Counted' = Counted
    BY <2>1, CountedSame
  <2>. QED
    BY <1>b, <2>1, <2>2 DEF TypeOK, KeyOutlivesHandlers, NoClamp, CountCoversHandlers,
       AbsentIsZero, RefusingCounterExpires
<1>3. ASSUME NEW r \in Handler, RunScript(r) PROVE Rest'
  <2>1. PICK w \in {"over", "held"} : phase' = [phase EXCEPT ![r] = w]
    BY <1>3 DEF RunScript, Goto
  <2>2. /\ count' = count + 1 /\ ttl' = SlotTTL /\ UNCHANGED <<maxHold, forgotten>>
        /\ age' = [age EXCEPT ![r] = 0] /\ r \notin Counted
    BY <1>3 DEF RunScript, Goto, Counted
  <2>3. Counted' = Counted \cup {r} /\ Cardinality(Counted') = Cardinality(Counted) + 1
    BY <2>1, <2>2, CountedGains
  <2>4. KeyOutlivesHandlers'
    <3>1. \A x \in Counted' : age'[x] \in Nat
      BY DEF Counted, TypeOK
    <3>. QED  BY <2>2, <3>1 DEF KeyOutlivesHandlers, Persistent
  <2>5. NoClamp'
    BY <1>b, <2>1, <2>2 DEF TypeOK, NoClamp
  <2>6. CountCoversHandlers'
    BY <1>b, <1>d, <2>2, <2>3 DEF TypeOK, CountCoversHandlers
  <2>. QED
    BY <2>2, <2>4, <2>5, <2>6 DEF AbsentIsZero, RefusingCounterExpires, Persistent
<1>4. ASSUME NEW r \in Handler, RunScriptFails(r) PROVE Rest'
  <2>1. /\ phase' = [phase EXCEPT ![r] = "idle"] /\ age' = [age EXCEPT ![r] = 0]
        /\ r \notin Counted /\ UNCHANGED <<maxHold, forgotten>>
        /\ \/ UNCHANGED <<count, ttl>>
           \/ count' = count + 1 /\ ttl' = SlotTTL
    BY <1>4 DEF RunScriptFails, Goto, Counted
  <2>2. Counted' = Counted
    BY <2>1, CountedSame
  <2>3. \A x \in Counted : age'[x] = age[x] /\ age[x] \in Nat /\ x # r
    BY <2>1 DEF Counted, TypeOK
  <2>4. KeyOutlivesHandlers'
    BY <1>b, <2>1, <2>2, <2>3 DEF KeyOutlivesHandlers, Persistent
  <2>5. NoClamp'
    BY <1>b, <2>1 DEF NoClamp, TypeOK
  <2>6. CountCoversHandlers'
    BY <1>b, <1>d, <2>1, <2>2 DEF CountCoversHandlers, TypeOK
  <2>7. AbsentIsZero' /\ RefusingCounterExpires'
    BY <1>b, <2>1 DEF AbsentIsZero, RefusingCounterExpires, TypeOK, Persistent
  <2>. QED  BY <2>4, <2>5, <2>6, <2>7
<1>5. ASSUME NEW r \in Handler, r \in Counted, NEW w \in {"idle", "clamp"},
             phase' = [phase EXCEPT ![r] = w], age' = [age EXCEPT ![r] = 0], UNCHANGED <<maxHold, forgotten>>,
             Decrement \/ UNCHANGED <<count, ttl>>,
             w = "clamp" => count - 1 < 0
      PROVE  Rest'
  <2>1. /\ Counted' = Counted \ {r}
        /\ Cardinality(Counted') = Cardinality(Counted) - 1
        /\ Cardinality(Counted) >= 1
    BY <1>5, CountedLoses
  <2>2. /\ count' \in {count, count - 1}
        /\ ttl' = ttl \/ (ttl = 0 /\ ttl' = Persistent /\ count' = count - 1)
    BY <1>5 DEF Decrement
  <2>3. CountCoversHandlers'
    BY <1>b, <1>d, <1>5, <2>1, <2>2 DEF TypeOK, CountCoversHandlers
  <2>4. maxHold < SlotTTL => ttl \in 1..SlotTTL
    BY <1>b, <1>5 DEF KeyOutlivesHandlers, Counted, TypeOK, Persistent
  <2>5. KeyOutlivesHandlers'
    BY <1>b, <1>5, <2>1, <2>2, <2>4 DEF KeyOutlivesHandlers, TypeOK, Persistent
  <2>6. maxHold < SlotTTL => w # "clamp"
    BY <1>b, <1>d, <1>5, <2>1 DEF CountCoversHandlers, TypeOK
  <2>7. NoClamp'
    BY <1>b, <1>5, <2>6 DEF NoClamp, TypeOK
  <2>8. AbsentIsZero' /\ RefusingCounterExpires'
    BY <1>b, <2>2 DEF AbsentIsZero, RefusingCounterExpires, TypeOK, Persistent
  <2>. QED  BY <2>3, <2>5, <2>7, <2>8
<1>6. ASSUME NEW r \in Handler, TakeBack(r) PROVE Rest'
  BY <1>5, <1>6 DEF TakeBack, Goto, Counted
<1>7. ASSUME NEW r \in Handler, ReleaseConcurrency(r) PROVE Rest'
  BY <1>5, <1>7 DEF ReleaseConcurrency, Goto, Counted
<1>8. ASSUME NEW r \in Handler, DecrementFails(r) PROVE Rest'
  BY <1>5, <1>8 DEF DecrementFails, Goto, Counted
<1>9. ASSUME NEW r \in Handler, Clamp(r) \/ ClampFails(r) PROVE Rest'
  <2>1. /\ phase[r] = "clamp" /\ phase' = [phase EXCEPT ![r] = "idle"]
        /\ r \notin Counted /\ maxHold' = maxHold
        /\ \/ UNCHANGED <<count, ttl, forgotten>>
           \/ count' = 0 /\ ttl' = SlotTTL /\ forgotten' = Cardinality(Counted)
    BY <1>9 DEF Clamp, ClampFails, Goto, Counted
  <2>2. ~(maxHold < SlotTTL)
    BY <1>b, <2>1 DEF NoClamp
  <2>3. Counted' = Counted
    BY <2>1, CountedSame
  <2>4. CountCoversHandlers'
    BY <1>b, <1>d, <2>1, <2>2, <2>3 DEF CountCoversHandlers, TypeOK
  <2>. QED
    BY <1>b, <2>1, <2>2, <2>4 DEF KeyOutlivesHandlers, NoClamp,
       AbsentIsZero, RefusingCounterExpires, Persistent
<1>10. CASE Crash
  <2>1. Counted' = {} /\ UNCHANGED <<count, ttl, maxHold, forgotten>>
    BY <1>10 DEF Crash, Counted
  <2>2. Cardinality(Counted') = 0
    BY <2>1, FS_EmptySet
  <2>3. NoClamp'
    BY <1>10 DEF Crash, NoClamp
  <2>4. CountCoversHandlers'
    BY <1>b, <1>d, <2>1, <2>2 DEF CountCoversHandlers, TypeOK
  <2>. QED
    BY <1>b, <2>1, <2>3, <2>4 DEF KeyOutlivesHandlers, AbsentIsZero, RefusingCounterExpires
<1>11. CASE Tick
  <2>1. /\ UNCHANGED <<phase, maxHold>>
        /\ \A r \in Counted : age[r] < maxHold /\ age'[r] = age[r] + 1
        /\ ttl' = IF ttl > 0 THEN ttl - 1 ELSE ttl
        /\ count' = IF ttl = 1 THEN 0 ELSE count
        /\ forgotten' = IF ttl = 1 THEN Cardinality(Counted) ELSE forgotten
    BY <1>11 DEF Tick, Counted
  <2>2. Counted' = Counted
    BY <2>1 DEF Counted
  <2>3. \A r \in Counted : age[r] \in Nat
    BY DEF Counted, TypeOK
  <2>4. KeyOutlivesHandlers'
    BY <1>b, <2>1, <2>2, <2>3 DEF KeyOutlivesHandlers, TypeOK, Persistent
  <2>5. maxHold < SlotTTL /\ ttl = 1 => Cardinality(Counted) = 0
    <3>1. maxHold < SlotTTL /\ ttl = 1 => Counted = {}
      BY <1>b, <2>1, <2>3 DEF KeyOutlivesHandlers, TypeOK
    <3>. QED  BY <3>1, FS_EmptySet
  <2>6. CountCoversHandlers'
    BY <1>b, <1>d, <2>1, <2>2, <2>5 DEF CountCoversHandlers, TypeOK
  <2>7. NoClamp'
    BY <1>b, <2>1 DEF NoClamp
  <2>8. AbsentIsZero' /\ RefusingCounterExpires'
    BY <1>b, <2>1 DEF AbsentIsZero, RefusingCounterExpires, TypeOK, Persistent
  <2>. QED  BY <2>4, <2>6, <2>7, <2>8
<1>12. CASE UNCHANGED slotVars
  BY <1>b, <1>12 DEF slotVars, Counted, KeyOutlivesHandlers, NoClamp, CountCoversHandlers,
     AbsentIsZero, RefusingCounterExpires
<1>. QED
  BY <1>1, <1>2, <1>3, <1>4, <1>6, <1>7, <1>8, <1>9, <1>10, <1>11, <1>12
  DEF Next, Acquire, Finish

-----------------------------------------------------------------------------
\* The inductive invariant holds in every reachable state.
THEOREM SlotInvariant == Spec => []SlotInv
BY SlotInitInv, SlotInvStep, PTL DEF Spec

\* Type correctness: every variable of the slot counter keeps its range.
THEOREM SlotTypes == Spec => []TypeOK
<1>1. SlotInv => TypeOK
  BY DEF SlotInv
<1>. QED  BY <1>1, SlotInvariant, PTL

\* Faults never create room: AcquireConcurrency's counter covers every handler counted since it
\* was last set to 0 under those it has forgotten, and it forgets none that end before the TTL.
THEOREM SlotCountCovers == Spec => []CountCoversHandlers
<1>1. SlotInv => CountCoversHandlers
  BY DEF SlotInv
<1>. QED  BY <1>1, SlotInvariant, PTL

\* A counter that refuses requests carries an expiry (the script sets it with the INCR).
THEOREM SlotRefusalsExpire == Spec => []RefusingCounterExpires
<1>1. SlotInv => RefusingCounterExpires
  BY DEF SlotInv
<1>. QED  BY <1>1, SlotInvariant, PTL

\* Every admission of AcquireConcurrency, under any timeout, exceeds the limit it was judged by
\* at most by the handlers that the counter has forgotten.
THEOREM SlotAdmission == Spec => AdmissionRespectsLimit
<1>. DEFINE Ok ==
       \A r \in Handler : r \in Held' \ Held => Cardinality(Held') <= seen[r] + forgotten
<1>1. ASSUME SlotInv, SlotInv', Next PROVE Ok
  <2>0. IsFiniteSet(Counted') /\ IsFiniteSet(Held') /\ Held' \subseteq Counted'
    <3>1. Counted' \in SUBSET Handler /\ Held' \in SUBSET Handler
      BY DEF Counted, Held
    <3>. QED  BY <3>1, SlotAssumption, FS_Subset DEF Counted, Held
  <2>. SUFFICES ASSUME NEW r \in Handler, r \in Held' \ Held
                PROVE  Cardinality(Held') <= seen[r] + forgotten
    OBVIOUS
  <2>1. phase' # phase /\ phase'[r] = "held" /\ phase[r] # "held"
    BY DEF Held
  <2>2. RunScript(r)
    <3>1. ASSUME NEW q \in Handler, NEW w \in {"idle", "limited", "over", "clamp"},
                 phase' = [phase EXCEPT ![q] = w]
          PROVE  FALSE
      BY <1>1, <2>1, <3>1 DEF SlotInv, TypeOK
    <3>2. ASSUME NEW q \in Handler, RunScript(q) PROVE q = r
      BY <1>1, <2>1, <3>2 DEF SlotInv, TypeOK, RunScript, Goto
    <3>3. ~Crash /\ ~Tick /\ ~(\E l \in Limits : SetLimit(l))
      BY <2>1 DEF Crash, Tick, SetLimit
    <3>4. PICK q \in Handler : ReadLimits(q) \/ ReadLimitsFails(q) \/ Acquire(q)
                                \/ Finish(q) \/ DecrementFails(q) \/ ClampFails(q)
      BY <1>1, <3>3 DEF Next
    <3>5. ~ReadLimits(q) /\ ~ReadLimitsFails(q) /\ ~RunScriptFails(q) /\ ~TakeBack(q)
          /\ ~ReleaseConcurrency(q) /\ ~Clamp(q) /\ ~DecrementFails(q) /\ ~ClampFails(q)
      BY <3>1 DEF ReadLimits, ReadLimitsFails, RunScriptFails, TakeBack, ReleaseConcurrency, Clamp,
         DecrementFails, ClampFails, Goto
    <3>. QED  BY <3>2, <3>4, <3>5 DEF Acquire, Finish
  <2>3. count' <= seen[r] /\ forgotten' = forgotten
    <3>1. seen[r] \in Nat /\ count \in Int /\ DOMAIN phase = Handler
      BY <1>1, SlotAssumption DEF SlotInv, TypeOK, AllLimits
    <3>2. phase' = [phase EXCEPT ![r] = IF count + 1 > seen[r] THEN "over" ELSE "held"]
          /\ count' = count + 1 /\ forgotten' = forgotten
      BY <2>2 DEF RunScript, Goto
    <3>3. phase'[r] = IF count + 1 > seen[r] THEN "over" ELSE "held"
      BY <3>1, <3>2
    <3>. QED  BY <2>1, <3>1, <3>2, <3>3
  <2>4. Cardinality(Counted') <= count' + forgotten'
    BY <1>1, <2>3 DEF SlotInv, CountCoversHandlers
  <2>5. Cardinality(Held') \in Nat /\ Cardinality(Counted') \in Nat
        /\ Cardinality(Held') <= Cardinality(Counted')
    BY <2>0, FS_Subset, FS_CardinalityType
  <2>6. seen[r] \in Nat /\ count' \in Int /\ forgotten' \in Nat
    BY <1>1, SlotAssumption DEF SlotInv, TypeOK, AllLimits
  <2>. QED  BY <2>3, <2>4, <2>5, <2>6
<1>2. SlotInv /\ SlotInv' /\ [Next]_slotVars => [Ok]_slotVars
  BY <1>1
<1>. QED  BY <1>2, SlotInvariant, PTL DEF Spec, AdmissionRespectsLimit

-----------------------------------------------------------------------------
(***************************************************************************)
(* The connections of the backends                                         *)
(***************************************************************************)
\* A caller that has picked holds a node in its wrapper.
HoldersHaveNode ==
  \A r \in Request : pc[r] \in {"picked", "calling", "streaming"} => chosen[r] \in Node

LBInv ==
  /\ LBTypeOK
  /\ HoldersHaveNode
  /\ ActiveCountsCalls
  /\ OverloadIsBounded

-----------------------------------------------------------------------------
\* Every set of callers is finite.
LEMMA CallersFinite ==
  ASSUME NEW S \in SUBSET Request
  PROVE  IsFiniteSet(S) /\ Cardinality(S) \in Nat
BY LBAssumption, FS_Subset, FS_CardinalityType

\* One caller more, or one fewer, in a set of callers.
LEMMA CallersCount ==
  ASSUME NEW S \in SUBSET Request, NEW r \in Request
  PROVE  /\ r \notin S => Cardinality(S \cup {r}) = Cardinality(S) + 1
         /\ r \in S => Cardinality(S \ {r}) = Cardinality(S) - 1
         /\ r \in S => Cardinality(S) >= 1
<1>1. IsFiniteSet(S) /\ Cardinality(S) \in Nat
  BY CallersFinite
<1>2. r \notin S => Cardinality(S \cup {r}) = Cardinality(S) + 1
  BY <1>1, FS_AddElement
<1>3. r \in S => Cardinality(S \ {r}) = Cardinality(S) - 1
  BY <1>1, FS_RemoveElement
<1>4. r \in S => Cardinality(S) # 0
  BY <1>1, FS_EmptySet
<1>. QED  BY <1>1, <1>2, <1>3, <1>4

\* A smaller set of callers has no more of them.
LEMMA CallersSubset ==
  ASSUME NEW S \in SUBSET Request, NEW T \in SUBSET S
  PROVE  Cardinality(T) <= Cardinality(S)
BY LBAssumption, FS_Subset, FS_CardinalityType

-----------------------------------------------------------------------------
\* The invariant holds when the server starts: nobody calls, nobody selects.
LEMMA LBInitInv == LBInit => LBInv
<1>. SUFFICES ASSUME LBInit PROVE LBInv
  OBVIOUS
<1>1. LBTypeOK
  BY LBAssumption DEF LBInit, LBTypeOK, Node, Phases
<1>2. HoldersHaveNode
  BY DEF LBInit, HoldersHaveNode
<1>3. \A n \in Node : OnNode(n) = {} /\ Heading(n) = {}
  BY DEF LBInit, OnNode, Heading
<1>4. ActiveCountsCalls
  BY <1>3, FS_EmptySet DEF LBInit, ActiveCountsCalls
<1>5. OverloadIsBounded
  <2>1. \A n \in Node : Cardinality(Heading(n)) = 0 /\ active[n] = 0
    BY <1>3, FS_EmptySet DEF LBInit
  <2>2. \A n \in Node : MaxConn[n.id] \in Nat /\ MaxConn[n.id] > 0
    BY LBAssumption DEF Node
  <2>3. MaxSelecting \in Nat
    BY LBAssumption
  <2>. QED  BY <2>1, <2>2, <2>3 DEF OverloadIsBounded
<1>. QED  BY <1>1, <1>2, <1>4, <1>5 DEF LBInv

\* Types, and that callers hold nodes, are preserved by every step.
LEMMA LBTypeStep ==
  ASSUME LBTypeOK, HoldersHaveNode, [LBNext]_lbVars
  PROVE  LBTypeOK' /\ HoldersHaveNode'
<1>. USE LBAssumption DEF LBTypeOK, HoldersHaveNode, Phases
<1>1. ASSUME NEW ids \in SUBSET Backend, UpdateNodes(ids)
      PROVE  LBTypeOK' /\ HoldersHaveNode'
  BY <1>1 DEF UpdateNodes, Node
<1>2. ASSUME NEW r \in Request, NEW m \in Model, Filter(r, m)
      PROVE  LBTypeOK' /\ HoldersHaveNode'
  BY <1>2 DEF Filter, FilterByModel
<1>3. ASSUME NEW r \in Request, PickAffinity(r)
      PROVE  LBTypeOK' /\ HoldersHaveNode'
  BY <1>3 DEF PickAffinity, Pick, AffinityNodes
<1>4. ASSUME NEW r \in Request, NEW missed, NEW lost, PickWeighted(r, missed, lost)
      PROVE  LBTypeOK' /\ HoldersHaveNode'
  BY <1>4 DEF PickWeighted, Pick, Node
<1>5. ASSUME NEW r \in Request, CountIn(r) PROVE LBTypeOK' /\ HoldersHaveNode'
  BY <1>5 DEF CountIn
<1>6. ASSUME NEW r \in Request, UnaryReturns(r) \/ StreamFails(r)
      PROVE  LBTypeOK' /\ HoldersHaveNode'
  BY <1>6 DEF UnaryReturns, StreamFails, Release, End
<1>7. ASSUME NEW r \in Request, StreamOpens(r) PROVE LBTypeOK' /\ HoldersHaveNode'
  BY <1>7 DEF StreamOpens
<1>8. ASSUME NEW r \in Request, Close(r) PROVE LBTypeOK' /\ HoldersHaveNode'
  BY <1>8 DEF Close, Release
<1>9. ASSUME NEW r \in Request, StreamDone(r) PROVE LBTypeOK' /\ HoldersHaveNode'
  BY <1>9 DEF StreamDone, End
<1>10. ASSUME NEW u \in User, AffinityExpires(u) PROVE LBTypeOK' /\ HoldersHaveNode'
  BY <1>10 DEF AffinityExpires
<1>11. CASE UNCHANGED lbVars
  BY <1>11 DEF lbVars
<1>. QED
  BY <1>1, <1>2, <1>3, <1>4, <1>5, <1>6, <1>7, <1>8, <1>9, <1>10, <1>11
  DEF LBNext, Call

\* A step gives a node one more call in flight, one fewer, or as many, exactly as its
\* counter does.
LEMMA ActiveStep ==
  ASSUME LBInv, [LBNext]_lbVars
  PROVE  ActiveCountsCalls'
<1>. SUFFICES ASSUME NEW n \in Node
              PROVE  active'[n] = Cardinality(OnNode(n)')
  BY DEF ActiveCountsCalls
<1>. USE LBAssumption DEF LBInv, LBTypeOK, HoldersHaveNode, Phases
<1>0. /\ active[n] = Cardinality(OnNode(n))
      /\ OnNode(n) \in SUBSET Request
      /\ Cardinality(OnNode(n)) \in Nat
  BY CallersFinite DEF ActiveCountsCalls, OnNode
<1>1. ASSUME NEW r \in Request, Release(r), OnNode(n)' = OnNode(n) \ {r},
             pc[r] \in {"calling", "streaming"}
      PROVE  active'[n] = Cardinality(OnNode(n)')
  <2>1. CASE chosen[r] = n
    <3>1. r \in OnNode(n)
      BY <1>1, <2>1 DEF OnNode
    <3>2. Cardinality(OnNode(n) \ {r}) = active[n] - 1 /\ active[n] >= 1
      BY <3>1, <1>0, CallersCount
    <3>. QED  BY <3>2, <1>0, <1>1, <2>1 DEF Release
  <2>2. CASE chosen[r] # n
    <3>1. OnNode(n) \ {r} = OnNode(n)
      BY <2>2 DEF OnNode
    <3>. QED  BY <3>1, <1>0, <1>1, <2>2 DEF Release
  <2>. QED  BY <2>1, <2>2
<1>2. ASSUME NEW r \in Request, CountIn(r)
      PROVE  active'[n] = Cardinality(OnNode(n)')
  <2>1. r \notin OnNode(n)
    BY <1>2 DEF CountIn, OnNode
  <2>2. CASE chosen[r] = n
    <3>1. OnNode(n)' = OnNode(n) \cup {r}
      BY <1>2, <2>2 DEF CountIn, OnNode
    <3>. QED  BY <3>1, <2>1, <2>2, <1>0, <1>2, CallersCount DEF CountIn
  <2>3. CASE chosen[r] # n
    <3>1. OnNode(n)' = OnNode(n)
      BY <1>2, <2>3 DEF CountIn, OnNode
    <3>. QED  BY <3>1, <2>3, <1>0, <1>2 DEF CountIn
  <2>. QED  BY <2>2, <2>3
<1>3. ASSUME NEW r \in Request, UnaryReturns(r) \/ StreamFails(r)
      PROVE  active'[n] = Cardinality(OnNode(n)')
  <2>1. OnNode(n)' = OnNode(n) \ {r}
    BY <1>3 DEF UnaryReturns, StreamFails, End, OnNode
  <2>. QED  BY <2>1, <1>1, <1>3 DEF UnaryReturns, StreamFails
<1>4. ASSUME NEW r \in Request, Close(r)
      PROVE  active'[n] = Cardinality(OnNode(n)')
  <2>1. CASE pc[r] = "closed"
    <3>1. OnNode(n)' = OnNode(n)
      BY <1>4, <2>1 DEF Close, OnNode
    <3>. QED  BY <3>1, <2>1, <1>0, <1>4 DEF Close
  <2>2. CASE pc[r] = "streaming"
    <3>1. OnNode(n)' = OnNode(n) \ {r}
      BY <1>4, <2>2 DEF Close, OnNode
    <3>. QED  BY <3>1, <2>2, <1>1, <1>4 DEF Close
  <2>. QED  BY <2>1, <2>2, <1>4 DEF Close
<1>5. ASSUME OnNode(n)' = OnNode(n), active' = active
      PROVE  active'[n] = Cardinality(OnNode(n)')
  BY <1>5, <1>0
<1>6. ASSUME NEW ids \in SUBSET Backend, UpdateNodes(ids)
      PROVE  OnNode(n)' = OnNode(n) /\ active' = active
  BY <1>6 DEF UpdateNodes, OnNode
<1>7. ASSUME NEW r \in Request, NEW m \in Model, Filter(r, m)
      PROVE  OnNode(n)' = OnNode(n) /\ active' = active
  BY <1>7 DEF Filter, OnNode
<1>8. ASSUME NEW r \in Request, PickAffinity(r)
      PROVE  OnNode(n)' = OnNode(n) /\ active' = active
  BY <1>8 DEF PickAffinity, Pick, OnNode
<1>9. ASSUME NEW r \in Request, NEW missed, NEW lost, PickWeighted(r, missed, lost)
      PROVE  OnNode(n)' = OnNode(n) /\ active' = active
  BY <1>9 DEF PickWeighted, Pick, OnNode
<1>10. ASSUME NEW r \in Request, StreamOpens(r)
       PROVE  OnNode(n)' = OnNode(n) /\ active' = active
  BY <1>10 DEF StreamOpens, OnNode
<1>11. ASSUME NEW r \in Request, StreamDone(r)
       PROVE  OnNode(n)' = OnNode(n) /\ active' = active
  BY <1>11 DEF StreamDone, End, OnNode
<1>12. ASSUME NEW u \in User, AffinityExpires(u)
       PROVE  OnNode(n)' = OnNode(n) /\ active' = active
  BY <1>12 DEF AffinityExpires, OnNode
<1>13. CASE UNCHANGED lbVars
  BY <1>13, <1>5 DEF lbVars, OnNode
<1>. QED
  BY <1>2, <1>3, <1>4, <1>5, <1>6, <1>7, <1>8, <1>9, <1>10, <1>11, <1>12, <1>13
  DEF LBNext, Call

\* The calls counted on a node together with those that may still join it grow only when a
\* caller filters the node in, below its limit and among at most MaxSelecting callers.
LEMMA OverloadStep ==
  ASSUME LBInv, [LBNext]_lbVars
  PROVE  OverloadIsBounded'
<1>. SUFFICES ASSUME NEW n \in Node
              PROVE  active'[n] + Cardinality(Heading(n)') < MaxConn[n.id] + MaxSelecting
  BY DEF OverloadIsBounded
<1>. USE LBAssumption DEF LBInv, LBTypeOK, HoldersHaveNode, Phases
<1>0. /\ active[n] + Cardinality(Heading(n)) < MaxConn[n.id] + MaxSelecting
      /\ active[n] \in Nat /\ MaxConn[n.id] \in Nat
      /\ Heading(n) \in SUBSET Request /\ Selecting \in SUBSET Request
      /\ Cardinality(Heading(n)) \in Nat /\ Cardinality(Selecting) \in Nat
      /\ Heading(n)' \in SUBSET Request /\ Cardinality(Heading(n)') \in Nat
  BY CallersFinite DEF OverloadIsBounded, Heading, Selecting, Node
<1>1. ASSUME NEW r \in Request, NEW m \in Model, Filter(r, m)
      PROVE  active'[n] + Cardinality(Heading(n)') < MaxConn[n.id] + MaxSelecting
  <2>1. CASE n \in FilterByModel(m)
    <3>1. active[n] < MaxConn[n.id]
      BY <2>1 DEF FilterByModel
    <3>2. Heading(n)' \in SUBSET (Selecting \cup {r})
      BY <1>1 DEF Filter, Heading, Selecting
    <3>3. r \notin Selecting
      BY <1>1 DEF Filter, Selecting
    <3>4. Cardinality(Selecting \cup {r}) = Cardinality(Selecting) + 1
      BY <3>3, <1>0, CallersCount
    <3>5. Cardinality(Heading(n)') <= Cardinality(Selecting \cup {r})
      BY <3>2, <1>0, CallersSubset
    <3>6. Cardinality(Selecting) < MaxSelecting /\ active' = active
      BY <1>1 DEF Filter
    <3>. QED  BY <3>1, <3>4, <3>5, <3>6, <1>0
  <2>2. CASE n \notin FilterByModel(m)
    <3>1. Heading(n)' = Heading(n)
      BY <1>1, <2>2 DEF Filter, Heading
    <3>. QED  BY <3>1, <1>0, <1>1 DEF Filter
  <2>. QED  BY <2>1, <2>2
<1>2. ASSUME NEW r \in Request, CountIn(r)
      PROVE  active'[n] + Cardinality(Heading(n)') < MaxConn[n.id] + MaxSelecting
  <2>1. Heading(n)' = Heading(n) \ {r}
    BY <1>2 DEF CountIn, Heading
  <2>2. CASE chosen[r] = n
    <3>1. r \in Heading(n)
      BY <1>2, <2>2 DEF CountIn, Heading
    <3>2. Cardinality(Heading(n)') = Cardinality(Heading(n)) - 1
      BY <2>1, <3>1, <1>0, CallersCount
    <3>. QED  BY <3>2, <2>2, <1>0, <1>2 DEF CountIn
  <2>3. CASE chosen[r] # n
    <3>1. r \notin Heading(n)
      BY <1>2, <2>3 DEF CountIn, Heading
    <3>2. Heading(n)' = Heading(n)
      BY <2>1, <3>1
    <3>. QED  BY <3>2, <2>3, <1>0, <1>2 DEF CountIn
  <2>. QED  BY <2>2, <2>3
<1>3. ASSUME active'[n] <= active[n], active'[n] \in Nat, Heading(n)' \in SUBSET Heading(n)
      PROVE  active'[n] + Cardinality(Heading(n)') < MaxConn[n.id] + MaxSelecting
  <2>1. Cardinality(Heading(n)') <= Cardinality(Heading(n))
    BY <1>3, <1>0, CallersSubset
  <2>. QED  BY <2>1, <1>3, <1>0
<1>4. ASSUME NEW r \in Request, Release(r)
      PROVE  active'[n] <= active[n] /\ active'[n] \in Nat
  BY <1>4 DEF Release
<1>5. ASSUME NEW ids \in SUBSET Backend, UpdateNodes(ids)
      PROVE  active' = active /\ Heading(n)' \in SUBSET Heading(n)
  BY <1>5 DEF UpdateNodes, Heading
<1>6. ASSUME NEW r \in Request, NEW c \in cand[r], pc[r] = "filtered", Pick(r, c)
      PROVE  Heading(n)' \in SUBSET Heading(n)
  BY <1>6 DEF Pick, Heading
<1>7. ASSUME NEW r \in Request, PickAffinity(r)
      PROVE  active' = active /\ Heading(n)' \in SUBSET Heading(n)
  BY <1>6, <1>7 DEF PickAffinity, AffinityNodes
<1>8. ASSUME NEW r \in Request, NEW missed, NEW lost, PickWeighted(r, missed, lost)
      PROVE  active' = active /\ Heading(n)' \in SUBSET Heading(n)
  BY <1>6, <1>8 DEF PickWeighted
<1>9. ASSUME NEW r \in Request, UnaryReturns(r) \/ StreamFails(r)
      PROVE  /\ active'[n] <= active[n] /\ active'[n] \in Nat
             /\ Heading(n)' \in SUBSET Heading(n)
  BY <1>4, <1>9 DEF UnaryReturns, StreamFails, End, Heading
<1>10. ASSUME NEW r \in Request, StreamOpens(r)
       PROVE  active' = active /\ Heading(n)' \in SUBSET Heading(n)
  BY <1>10 DEF StreamOpens, Heading
<1>11. ASSUME NEW r \in Request, Close(r)
       PROVE  /\ active'[n] <= active[n] /\ active'[n] \in Nat
              /\ Heading(n)' \in SUBSET Heading(n)
  BY <1>4, <1>0, <1>11 DEF Close, Heading
<1>12. ASSUME NEW r \in Request, StreamDone(r)
       PROVE  active' = active /\ Heading(n)' \in SUBSET Heading(n)
  BY <1>12 DEF StreamDone, End, Heading
<1>13. ASSUME NEW u \in User, AffinityExpires(u)
       PROVE  active' = active /\ Heading(n)' \in SUBSET Heading(n)
  BY <1>13 DEF AffinityExpires, Heading
<1>14. CASE UNCHANGED lbVars
  BY <1>14, <1>0 DEF lbVars, Heading
<1>15. ASSUME active' = active, Heading(n)' \in SUBSET Heading(n)
       PROVE  active'[n] + Cardinality(Heading(n)') < MaxConn[n.id] + MaxSelecting
  BY <1>15, <1>3, <1>0
<1>. QED
  BY <1>1, <1>2, <1>3, <1>5, <1>7, <1>8, <1>9, <1>10, <1>11, <1>12, <1>13, <1>14, <1>15
  DEF LBNext, Call

-----------------------------------------------------------------------------
\* The load balancer keeps its invariant, however calls and list replacements interleave.
THEOREM LBInvariant == LBSpec => []LBInv
<1>1. LBInit => LBInv
  BY LBInitInv
<1>2. LBInv /\ [LBNext]_lbVars => LBInv'
  BY LBTypeStep, ActiveStep, OverloadStep DEF LBInv
<1>. QED  BY <1>1, <1>2, PTL DEF LBSpec

\* Whatever an administrator does is, to the balancer, an UpdateNodes or nothing.
LEMMA AdminStep ==
  ASSUME AdmTypeOK, [AdmNext]_vars
  PROVE  [LBNext]_lbVars
<1>1. ASSUME NEW a \in Admin, Administer(a) PROVE [LBNext]_lbVars
  <2>1. CASE Install(a)
    <3>1. UpdateNodes(snap[a]) /\ snap[a] \in SUBSET Backend
      BY <2>1 DEF Install, AdmTypeOK
    <3>. QED  BY <3>1 DEF LBNext
  <2>2. CASE ~Install(a)
    BY <1>1, <2>2 DEF Administer, BeginCreate, BeginUpdate, BeginDelete, Begin, Write,
       WriteFails, ListEnabled, ListEnabledFails
  <2>. QED  BY <2>1, <2>2
<1>2. CASE UNCHANGED vars
  BY <1>2 DEF vars
<1>. QED  BY <1>1, <1>2 DEF AdmNext, LBNext

\* The types of the rows and of the administrators' requests are preserved.
LEMMA AdmTypeStep ==
  ASSUME AdmTypeOK, HoldersHaveNode, [AdmNext]_vars
  PROVE  AdmTypeOK' /\ HoldersHaveNode'
<1>1. LBTypeOK' /\ HoldersHaveNode'
  BY AdminStep, LBTypeStep DEF AdmTypeOK
<1>. USE DEF AdmTypeOK, Row, MoveTo
<1>2. ASSUME NEW a \in Admin, NEW b \in Backend, NEW value \in Row, NEW named \in BOOLEAN,
             Begin(a, b, value, named)
      PROVE  AdmTypeOK'
  BY <1>1, <1>2 DEF Begin
<1>3. ASSUME NEW a \in Admin, NEW b \in Backend,
             BeginCreate(a, b) \/ BeginUpdate(a, b) \/ BeginDelete(a, b)
      PROVE  AdmTypeOK'
  <2>1. \E value \in Row, named \in BOOLEAN : Begin(a, b, value, named)
    BY <1>3 DEF BeginCreate, BeginUpdate, BeginDelete
  <2>. QED  BY <2>1, <1>2
<1>4. ASSUME NEW a \in Admin, Write(a) PROVE AdmTypeOK'
  <2>1. at[a] = "found" /\ target[a] \in Backend /\ edit[a] \in Row
    BY <1>4 DEF Write
  <2>2. row' \in [Backend -> Row] /\ wanted' \in [Backend -> Row]
    BY <1>4, <2>1 DEF Write, Remember
  <2>3. news' \in [Admin -> SUBSET Backend]
    <3>1. news' = [c \in Admin |-> IF c = a THEN {}
                                  ELSE IF Outdated(c, target[a]) THEN news[c] \cup {target[a]}
                                  ELSE news[c]]
      BY <1>4 DEF Write, Remember
    <3>. QED  BY <2>1, <3>1
  <2>4. /\ at' \in [Admin -> {"idle", "found", "written", "listed"}]
        /\ edit' \in [Admin -> Row] /\ target' \in [Admin -> Backend \cup {None}]
        /\ names' \subseteq Admin
        /\ snap' = snap /\ stale' = stale /\ unread' = unread
        /\ \A c \in Admin : at'[c] = "found" => target'[c] \in Backend
    BY <1>4 DEF Write, Forget
  <2>. HIDE DEF Row
  <2>. QED  BY <1>1, <2>2, <2>3, <2>4
<1>5. ASSUME NEW a \in Admin, WriteFails(a) PROVE AdmTypeOK'
  BY <1>1, <1>5 DEF WriteFails, Forget
<1>6. ASSUME NEW a \in Admin, ListEnabled(a) \/ ListEnabledFails(a) PROVE AdmTypeOK'
  BY <1>1, <1>6 DEF ListEnabled, ListEnabledFails, Enabled, readVars, newsVars
<1>7. ASSUME NEW a \in Admin, Install(a) PROVE AdmTypeOK'
  <2>1. /\ at' = [at EXCEPT ![a] = "idle"] /\ snap' = [snap EXCEPT ![a] = {}]
        /\ stale' = FALSE /\ unread' = news[a] /\ news' = [news EXCEPT ![a] = {}]
        /\ UNCHANGED <<row, edit, target, names, wanted>>
    BY <1>7 DEF Install
  <2>. QED  BY <1>1, <2>1
<1>8. CASE UNCHANGED admVars
  BY <1>1, <1>8 DEF admVars, readVars, newsVars
<1>. QED
  BY <1>1, <1>3, <1>4, <1>5, <1>6, <1>7, <1>8 DEF AdmNext, Administer, vars

\* Rows, requests, node lists, counters and callers keep their types.
THEOREM AdminTypes == AdmSpec => []AdmTypeOK
<1>1. AdmInit => AdmTypeOK /\ HoldersHaveNode
  <2>. SUFFICES ASSUME AdmInit PROVE AdmTypeOK /\ HoldersHaveNode
    OBVIOUS
  <2>1. LBTypeOK /\ HoldersHaveNode
    BY LBInitInv DEF AdmInit, LBInv
  <2>2. row \in [Backend -> Row] /\ wanted \in [Backend -> Row]
    BY DEF AdmInit, Row
  <2>3. /\ at \in [Admin -> {"idle", "found", "written", "listed"}]
        /\ \A a \in Admin : at[a] # "found"
        /\ edit \in [Admin -> Row] /\ target \in [Admin -> Backend \cup {None}]
        /\ snap \in [Admin -> SUBSET Backend] /\ news \in [Admin -> SUBSET Backend]
        /\ stale \in BOOLEAN /\ names \subseteq Admin /\ unread \subseteq Backend
    BY DEF AdmInit, Row
  <2>. QED  BY <2>1, <2>2, <2>3 DEF AdmTypeOK
<1>2. (AdmTypeOK /\ HoldersHaveNode) /\ [AdmNext]_vars => (AdmTypeOK /\ HoldersHaveNode)'
  BY AdmTypeStep
<1>. QED  BY <1>1, <1>2, PTL DEF AdmSpec

\* Administration does to the balancer only what UpdateNodes does: the composition is a
\* load balancer.
THEOREM AdminUsesBalancer == AdmSpec => LBSpec
<1>1. AdmInit => LBInit
  BY DEF AdmInit
<1>2. AdmTypeOK /\ [AdmNext]_vars => [LBNext]_lbVars
  BY AdminStep
<1>. QED  BY <1>1, <1>2, AdminTypes, PTL DEF AdmSpec, LBSpec

\* Every node object, listed or retired, counts exactly the calls in flight on it.
THEOREM BalancerCountsCalls == AdmSpec => []ActiveCountsCalls
<1>1. LBInv => ActiveCountsCalls
  BY DEF LBInv
<1>. QED  BY <1>1, LBInvariant, AdminUsesBalancer, PTL

\* A node goes over max_concurrency by less than the callers that select at once.
THEOREM BalancerOverload == AdmSpec => []OverloadIsBounded
<1>1. LBInv => OverloadIsBounded
  BY DEF LBInv
<1>. QED  BY <1>1, LBInvariant, AdminUsesBalancer, PTL

-----------------------------------------------------------------------------
\* A list that waits to be installed is right, but for the rows written since it was read.
ListsInHand ==
  \A a \in Admin : at[a] = "listed" =>
    \A b \in Backend \ news[a] : b \in snap[a] <=> row[b] = "on"

\* So is the installed list, unless a refresh is still to come.
ListFollows ==
  ~stale => \/ \E a \in Admin : at[a] \in {"written", "listed"}
            \/ \A b \in Backend \ unread : b \in Listed <=> row[b] = "on"

\* The copy in hand of an Update that names no status has the status of its row, but for a
\* row written since it was read.
CopiesInHand ==
  \A a \in Admin :
    at[a] = "found" => /\ target[a] \in Backend
                       /\ a \notin names /\ target[a] \notin news[a] => edit[a] = row[target[a]]

\* So no row loses the status asked for last.
RowsAreWanted == \A b \in Backend : row[b] = wanted[b]

FollowInv == ListsInHand /\ ListFollows /\ CopiesInHand /\ RowsAreWanted

\* Only the refresh of an administrator replaces the list.
LEMMA CallsKeepList ==
  ASSUME (\E r \in Request : Call(r)) \/ (\E u \in User : AffinityExpires(u))
  PROVE  nodes' = nodes
BY DEF Call, Filter, PickAffinity, PickWeighted, CountIn, UnaryReturns, StreamFails,
   StreamOpens, Close, StreamDone, AffinityExpires

\* A request starts: it knows the row it read.
LEMMA BeginFollows ==
  ASSUME AdmTypeOK, FollowInv, NEW a \in Admin, NEW b \in Backend,
         BeginCreate(a, b) \/ BeginUpdate(a, b) \/ BeginDelete(a, b)
  PROVE  FollowInv'
<1>. USE DEF AdmTypeOK, FollowInv
<1>1. /\ at[a] = "idle" /\ at' = [at EXCEPT ![a] = "found"]
      /\ target' = [target EXCEPT ![a] = b]
      /\ UNCHANGED <<row, snap, stale, wanted, news, unread, nodes>>
  BY DEF BeginCreate, BeginUpdate, BeginDelete, Begin, MoveTo, lbVars
<1>2. \/ a \in names' /\ \A c \in Admin \ {a} : c \in names' <=> c \in names
      \/ names' = names /\ edit' = [edit EXCEPT ![a] = row[b]]
  BY DEF BeginCreate, BeginUpdate, BeginDelete, Begin
<1>3. \A c \in Admin \ {a} : edit'[c] = edit[c]
  BY DEF BeginCreate, BeginUpdate, BeginDelete, Begin
<1>4. ListsInHand'
  BY <1>1 DEF ListsInHand
<1>5. ListFollows'
  <2>1. ASSUME NEW c \in Admin, at[c] \in {"written", "listed"}
        PROVE  at'[c] \in {"written", "listed"}
    BY <1>1, <2>1
  <2>. QED  BY <1>1, <2>1 DEF ListFollows, Listed
<1>6. CopiesInHand'
  BY <1>1, <1>2, <1>3 DEF CopiesInHand
<1>7. RowsAreWanted'
  BY <1>1 DEF RowsAreWanted
<1>. QED  BY <1>4, <1>5, <1>6, <1>7

\* A row is written: the lists and the copies that others hold of it are marked.
LEMMA WriteFollows ==
  ASSUME AdmTypeOK, FollowInv, NEW a \in Admin, Write(a)
  PROVE  FollowInv'
<1>. DEFINE b == target[a]
<1>. USE DEF AdmTypeOK, FollowInv
<1>1. /\ at[a] = "found" /\ at' = [at EXCEPT ![a] = "written"]
      /\ row' = [row EXCEPT ![b] = edit[a]]
      /\ names' = names \ {a}
      /\ UNCHANGED <<snap, stale, unread, nodes>>
      /\ \A c \in Admin \ {a} : edit'[c] = edit[c] /\ target'[c] = target[c]
  BY DEF Write, MoveTo, Forget, lbVars
<1>2. b \in Backend
  BY <1>1 DEF CopiesInHand
<1>3. /\ \A c \in Admin : news[c] \subseteq news'[c] \/ c = a
      /\ \A c \in Admin \ {a} : Outdated(c, b) => b \in news'[c]
  BY DEF Write, Remember
<1>4. ListsInHand'
  <2>. SUFFICES ASSUME NEW c \in Admin, at'[c] = "listed", NEW d \in Backend \ news'[c]
                PROVE  d \in snap'[c] <=> row'[d] = "on"
    BY DEF ListsInHand
  <2>1. c # a /\ at[c] = "listed"
    BY <1>1
  <2>2. d # b /\ d \notin news[c]
    BY <1>3, <2>1 DEF Outdated
  <2>. QED  BY <1>1, <2>1, <2>2 DEF ListsInHand
<1>5. ListFollows'
  BY <1>1 DEF ListFollows
<1>6. CopiesInHand'
  <2>. SUFFICES ASSUME NEW c \in Admin, at'[c] = "found"
                PROVE  /\ target'[c] \in Backend
                       /\ c \notin names' /\ target'[c] \notin news'[c]
                            => edit'[c] = row'[target'[c]]
    BY DEF CopiesInHand
  <2>1. c # a /\ at[c] = "found" /\ target'[c] = target[c] /\ edit'[c] = edit[c]
    BY <1>1
  <2>2. target[c] \in Backend
    BY <2>1 DEF CopiesInHand
  <2>3. ASSUME c \notin names', target[c] \notin news'[c] PROVE edit[c] = row'[target[c]]
    <3>1. c \notin names /\ target[c] \notin news[c] /\ target[c] # b
      BY <1>1, <1>3, <2>1, <2>3 DEF Outdated
    <3>. QED  BY <1>1, <2>1, <2>2, <3>1 DEF CopiesInHand
  <2>. QED  BY <2>1, <2>2, <2>3
<1>7. RowsAreWanted'
  <2>1. CASE a \in names \/ b \in news[a]
    <3>1. wanted' = [wanted EXCEPT ![b] = edit[a]]
      BY <2>1 DEF Write, Remember
    <3>. QED  BY <1>1, <1>2, <3>1 DEF RowsAreWanted
  <2>2. CASE ~(a \in names \/ b \in news[a])
    <3>1. wanted' = wanted
      BY <2>2 DEF Write, Remember
    <3>2. edit[a] = row[b]
      BY <1>1, <2>2 DEF CopiesInHand
    <3>. QED  BY <1>1, <1>2, <3>1, <3>2 DEF RowsAreWanted
  <2>. QED  BY <2>1, <2>2
<1>. QED  BY <1>4, <1>5, <1>6, <1>7

\* The enabled rows are read, or not; what a failing request held is forgotten.
LEMMA ReadFollows ==
  ASSUME AdmTypeOK, FollowInv, NEW a \in Admin,
         WriteFails(a) \/ ListEnabled(a) \/ ListEnabledFails(a)
  PROVE  FollowInv'
<1>. USE DEF AdmTypeOK, FollowInv
<1>1. CASE WriteFails(a)
  <2>1. /\ at[a] = "found" /\ at' = [at EXCEPT ![a] = "idle"] /\ names' = names \ {a}
        /\ UNCHANGED <<row, snap, stale, wanted, unread, nodes>>
        /\ \A c \in Admin \ {a} : /\ edit'[c] = edit[c] /\ target'[c] = target[c]
                                  /\ news'[c] = news[c]
    BY <1>1 DEF WriteFails, MoveTo, Forget, lbVars
  <2>2. ListFollows'
    <3>1. ASSUME NEW c \in Admin, at[c] \in {"written", "listed"}
          PROVE  at'[c] \in {"written", "listed"}
      BY <2>1, <3>1
    <3>. QED  BY <2>1, <3>1 DEF ListFollows, Listed
  <2>. QED  BY <2>1, <2>2 DEF ListsInHand, CopiesInHand, RowsAreWanted
<1>2. CASE ListEnabled(a)
  <2>1. /\ at[a] = "written" /\ at' = [at EXCEPT ![a] = "listed"]
        /\ snap' = [snap EXCEPT ![a] = Enabled]
        /\ UNCHANGED <<row, edit, target, names, wanted, news>>
    BY <1>2 DEF ListEnabled, MoveTo, newsVars
  <2>2. ListFollows'
    BY <2>1 DEF ListFollows
  <2>. QED  BY <2>1, <2>2 DEF ListsInHand, CopiesInHand, RowsAreWanted, Enabled
<1>3. CASE ListEnabledFails(a)
  <2>1. /\ at[a] = "written" /\ at' = [at EXCEPT ![a] = "idle"] /\ stale'
        /\ UNCHANGED <<row, edit, target, snap, names, wanted, news>>
    BY <1>3 DEF ListEnabledFails, MoveTo, newsVars, readVars
  <2>. QED  BY <2>1 DEF ListsInHand, ListFollows, CopiesInHand, RowsAreWanted
<1>. QED  BY <1>1, <1>2, <1>3

\* A list is installed: wrong in it is what was written while it waited.
LEMMA InstallFollows ==
  ASSUME AdmTypeOK, FollowInv, NEW a \in Admin, Install(a)
  PROVE  FollowInv'
<1>. USE DEF AdmTypeOK, FollowInv
<1>1. /\ at[a] = "listed" /\ at' = [at EXCEPT ![a] = "idle"]
      /\ unread' = news[a] /\ news' = [news EXCEPT ![a] = {}]
      /\ snap' = [snap EXCEPT ![a] = {}]
      /\ UNCHANGED <<row, edit, target, names, wanted>>
      /\ nodes' = {[id |-> b, gen |-> gen + 1] : b \in snap[a]}
  BY DEF Install, MoveTo, UpdateNodes
<1>2. ASSUME NEW b \in Backend \ news[a] PROVE b \in Listed' <=> row[b] = "on"
  <2>1. ASSUME b \in snap[a] PROVE b \in Listed'
    <3>1. [id |-> b, gen |-> gen + 1] \in nodes'
      BY <1>1, <2>1
    <3>. QED  BY <3>1 DEF Listed
  <2>2. ASSUME b \in Listed' PROVE b \in snap[a]
    BY <1>1, <2>2 DEF Listed
  <2>. QED  BY <1>1, <2>1, <2>2 DEF ListsInHand
<1>3. ListFollows'
  BY <1>1, <1>2 DEF ListFollows
<1>. QED  BY <1>1, <1>3 DEF ListsInHand, CopiesInHand, RowsAreWanted

\* However many administrators there are and however their requests overlap, the balancer
\* routes to exactly the enabled backends whenever none is running and the last refresh
\* succeeded, but for the rows written while its list waited to be installed; and no row
\* loses the status asked for last, but to an older copy (refreshLoadBalancer after every
\* write).
THEOREM BalancerFollows == AdmSpec => []BalancerFollowsRows
<1>1. AdmInit => FollowInv
  BY DEF AdmInit, FollowInv, ListsInHand, ListFollows, CopiesInHand, RowsAreWanted, Enabled
<1>2. AdmTypeOK /\ FollowInv /\ [AdmNext]_vars => FollowInv'
  <2>. SUFFICES ASSUME AdmTypeOK, FollowInv, [AdmNext]_vars PROVE FollowInv'
    OBVIOUS
  <2>1. ASSUME UNCHANGED admVars, nodes' = nodes PROVE FollowInv'
    BY <2>1 DEF admVars, readVars, newsVars, FollowInv, ListsInHand, ListFollows,
       CopiesInHand, RowsAreWanted, Listed
  <2>2. CASE UNCHANGED vars
    BY <2>1, <2>2 DEF vars, lbVars
  <2>3. ASSUME NEW a \in Admin, Administer(a) PROVE FollowInv'
    BY <2>3, BeginFollows, WriteFollows, ReadFollows, InstallFollows DEF Administer
  <2>. QED  BY <2>1, <2>2, <2>3, CallsKeepList DEF AdmNext
<1>3. FollowInv => BalancerFollowsRows
  BY DEF FollowInv, ListFollows, RowsAreWanted, BalancerFollowsRows, Quiet
<1>. QED  BY <1>1, <1>2, <1>3, AdminTypes, PTL DEF AdmSpec

-----------------------------------------------------------------------------
(***************************************************************************)
(* The tokens of a quota                                                   *)
(***************************************************************************)
\* A running cycle's start is an earlier recording, and its key expires within one TTL.
StartIsRecorded ==
  /\ lastUse <= now
  /\ start # NoKey => /\ lastUse # NoKey /\ start <= lastUse
                      /\ now < startExp /\ startExp <= now + Period + Grace

\* What a check compares with the end of the cycle is the time of an earlier recording.
CheckedIsRecorded ==
  \A r \in TokenCall : stage[r] = "checking" =>
    stamp[r] # NoKey /\ lastUse # NoKey /\ stamp[r] <= lastUse

\* While a cycle begins, its beginner alone is at the keys.
BeginnerIsAlone ==
  \A r \in TokenCall : stage[r] = "starting" => Busy = {r} /\ spent = tok[r]

\* Once it has begun, whoever is at the keys has read its start ...
ReadersKnowStart ==
  start # NoKey =>
    \A r \in TokenCall : stage[r] \in {"checking", "recording"} => stamp[r] = start

\* ... and its usage is exact, under a key that lives at least as long as the start.
BegunIsExact ==
  start # NoKey /\ (\A r \in TokenCall : stage[r] # "starting") =>
    usage = spent /\ usageExp \notin {NoKey, NoExpiry} /\ startExp <= usageExp

CleanCycle == BeginnerIsAlone /\ ReadersKnowStart /\ BegunIsExact

UncontendedIsClean == ~contended => CleanCycle

\* What these calls may use, at most.
Use(S) == MaxCall * Cardinality(S)

\* Without faults, what is spent and what may still be leaves room for one call.
OwedIsBounded ==
  ~contended /\ failures = 0 /\ start # NoKey =>
    spent + Use(Owing) < MaxTokens + Use(TokenCall)

QuotaInv ==
  /\ QuotaTypeOK
  /\ StartIsRecorded
  /\ CheckedIsRecorded
  /\ UncontendedIsClean
  /\ OwedIsBounded

-----------------------------------------------------------------------------
\* The invariant holds before the first call: there is no cycle and nobody is at the keys.
LEMMA QuotaInvInit == QuotaInit => QuotaInv
<1>. SUFFICES ASSUME QuotaInit PROVE QuotaInv
  OBVIOUS
<1>1. QuotaTypeOK
  <2>1. contended \in BOOLEAN
    BY Zenon DEF QuotaInit
  <2>2. 0 \in Time /\ NoKey \notin Expiry /\ NoExpiry # NoKey
    BY QuotaAssumption DEF Time, Expiry, NoKey, NoExpiry
  <2>. QED  BY <2>1, <2>2, QuotaAssumption DEF QuotaInit, QuotaTypeOK, CallPhases
<1>2. StartIsRecorded /\ CheckedIsRecorded
  BY DEF QuotaInit, NoKey, StartIsRecorded, CheckedIsRecorded
<1>3. UncontendedIsClean
  BY DEF QuotaInit, UncontendedIsClean, CleanCycle, BeginnerIsAlone, ReadersKnowStart, BegunIsExact
<1>4. OwedIsBounded
  BY DEF QuotaInit, OwedIsBounded
<1>. QED  BY <1>1, <1>2, <1>3, <1>4 DEF QuotaInv

\* Types are preserved by every step.
LEMMA QuotaTypeStep ==
  ASSUME QuotaTypeOK, [QuotaNext]_quotaVars
  PROVE  QuotaTypeOK'
<1>. USE QuotaAssumption DEF QuotaTypeOK, Time, Expiry, NoKey, NoExpiry, CallPhases, Costs, Moves,
         redisVars, historyVars
<1>1. ASSUME NEW r \in TokenCall, NEW failed \in BOOLEAN, CheckStart(r, failed) PROVE QuotaTypeOK'
  <2>1. contended' \in BOOLEAN
    BY <1>1 DEF CheckStart, ReadStart
  <2>2. /\ UNCHANGED <<now, start, startExp, usage, usageExp, tok, spent, lastUse>>
        /\ failures' \in 0..MaxFailures /\ stage' \in [TokenCall -> CallPhases]
        /\ stamp' = stamp \/ stamp' = [stamp EXCEPT ![r] = start]
    BY <1>1 DEF CheckStart, ReadStart
  <2>. QED  BY <2>1, <2>2
<1>2. ASSUME NEW r \in TokenCall, NEW failed \in BOOLEAN, DropCycle(r, failed) PROVE QuotaTypeOK'
  BY <1>2 DEF DropCycle, Drop
<1>3. ASSUME NEW r \in TokenCall, NEW failed \in BOOLEAN, CheckUsage(r, failed) PROVE QuotaTypeOK'
  BY <1>3 DEF CheckUsage, Drop
<1>4. ASSUME NEW r \in TokenCall, NEW failed \in BOOLEAN, NEW t \in 1..MaxCall,
             RecordStart(r, t, failed)
      PROVE  QuotaTypeOK'
  <2>1. contended' \in BOOLEAN
    BY <1>4 DEF RecordStart, ReadStart
  <2>2. /\ UNCHANGED <<now, start, startExp, usage, usageExp, spent, lastUse>>
        /\ failures' \in 0..MaxFailures /\ stage' \in [TokenCall -> CallPhases]
        /\ stamp' = stamp \/ stamp' = [stamp EXCEPT ![r] = start]
        /\ tok' = tok \/ tok' = [tok EXCEPT ![r] = t]
    BY <1>4 DEF RecordStart, ReadStart
  <2>. QED  BY <2>1, <2>2
<1>5. ASSUME NEW r \in TokenCall, NEW failed \in BOOLEAN, BeginCycle(r, failed) PROVE QuotaTypeOK'
  BY <1>5 DEF BeginCycle
<1>6. ASSUME NEW r \in TokenCall, NEW failed \in BOOLEAN, SetUsage(r, failed) PROVE QuotaTypeOK'
  BY <1>6 DEF SetUsage, Drop
<1>7. ASSUME NEW r \in TokenCall, NEW failed \in BOOLEAN, AddUsage(r, failed) PROVE QuotaTypeOK'
  BY <1>7 DEF AddUsage, Drop
<1>8. ASSUME NEW r \in TokenCall, CallFails(r) PROVE QuotaTypeOK'
  BY <1>8 DEF CallFails
<1>9. CASE ProcessStops
  BY <1>9 DEF ProcessStops
<1>10. CASE ClockTicks
  BY <1>10 DEF ClockTicks
<1>11. CASE UNCHANGED quotaVars
  BY <1>11 DEF quotaVars
<1>. QED
  BY <1>1, <1>2, <1>3, <1>4, <1>5, <1>6, <1>7, <1>8, <1>9, <1>10, <1>11 DEF QuotaNext, Step

\* Starts and stamps stay times of recordings: only BeginCycle writes a start, together
\* with the history, and reads copy it.
LEMMA TimesStep ==
  ASSUME QuotaTypeOK, QuotaTypeOK', StartIsRecorded, CheckedIsRecorded, [QuotaNext]_quotaVars
  PROVE  StartIsRecorded' /\ CheckedIsRecorded'
<1>. DEFINE Times == StartIsRecorded /\ CheckedIsRecorded
<1>. USE QuotaAssumption
         DEF QuotaTypeOK, Time, Expiry, NoKey, NoExpiry, StartIsRecorded, CheckedIsRecorded,
             Moves, redisVars, historyVars
<1>1. ASSUME NEW r \in TokenCall, NEW failed \in BOOLEAN, CheckStart(r, failed) PROVE Times'
  <2>1. UNCHANGED <<now, start, startExp, lastUse>>
    BY <1>1 DEF CheckStart
  <2>2. \/ stage' = [stage EXCEPT ![r] = "calling"] /\ stamp' = stamp
        \/ /\ stage' = [stage EXCEPT ![r] = "checking"] /\ stamp' = [stamp EXCEPT ![r] = start]
           /\ start # NoKey
    BY <1>1 DEF CheckStart, ReadStart
  <2>. QED  BY <2>1, <2>2
<1>2. ASSUME NEW r \in TokenCall, NEW failed \in BOOLEAN, DropCycle(r, failed) PROVE Times'
  BY <1>2 DEF DropCycle, Drop
<1>3. ASSUME NEW r \in TokenCall, NEW failed \in BOOLEAN, CheckUsage(r, failed) PROVE Times'
  BY <1>3 DEF CheckUsage, Drop
<1>4. ASSUME NEW r \in TokenCall, NEW failed \in BOOLEAN, NEW t \in 1..MaxCall,
             RecordStart(r, t, failed)
      PROVE  Times'
  <2>1. UNCHANGED <<now, start, startExp, lastUse>>
    BY <1>4 DEF RecordStart
  <2>2. /\ \E p \in {"idle", "recording"} : stage' = [stage EXCEPT ![r] = p]
        /\ stamp' = stamp \/ stamp' = [stamp EXCEPT ![r] = start]
    BY <1>4 DEF RecordStart, ReadStart
  <2>3. stage[r] = "calling"
    BY <1>4 DEF RecordStart
  <2>. QED  BY <2>1, <2>2, <2>3
<1>5. ASSUME NEW r \in TokenCall, NEW failed \in BOOLEAN, BeginCycle(r, failed) PROVE Times'
  <2>1. UNCHANGED <<now, stamp>> /\ lastUse' = now /\ stage' = [stage EXCEPT ![r] = "starting"]
    BY <1>5 DEF BeginCycle
  <2>2. \/ UNCHANGED <<start, startExp>>
        \/ start' = now /\ startExp' = now + Period + Grace
    BY <1>5 DEF BeginCycle
  <2>. QED  BY <2>1, <2>2
<1>6. ASSUME NEW r \in TokenCall, NEW failed \in BOOLEAN, SetUsage(r, failed) PROVE Times'
  BY <1>6 DEF SetUsage, Drop
<1>7. ASSUME NEW r \in TokenCall, NEW failed \in BOOLEAN, AddUsage(r, failed) PROVE Times'
  <2>1. /\ UNCHANGED <<now, start, startExp>> /\ lastUse' = now
        /\ stage' = [stage EXCEPT ![r] = "idle"] /\ stamp' = [stamp EXCEPT ![r] = NoKey]
    BY <1>7 DEF AddUsage, Drop
  <2>. QED  BY <2>1
<1>8. ASSUME NEW r \in TokenCall, CallFails(r) PROVE Times'
  BY <1>8 DEF CallFails
<1>9. CASE ProcessStops
  BY <1>9 DEF ProcessStops
<1>10. CASE ClockTicks
  <2>1. now' = now + 1 /\ UNCHANGED <<stage, stamp, lastUse>>
    BY <1>10 DEF ClockTicks
  <2>2. \/ start' = NoKey
        \/ startExp # now' /\ UNCHANGED <<start, startExp>>
    BY <1>10 DEF ClockTicks
  <2>3. CheckedIsRecorded'
    BY <2>1
  <2>4. StartIsRecorded'
    BY <2>1, <2>2
  <2>. QED  BY <2>3, <2>4
<1>11. CASE UNCHANGED quotaVars
  BY <1>11 DEF quotaVars
<1>. HIDE DEF QuotaTypeOK, StartIsRecorded, CheckedIsRecorded, Moves, redisVars, historyVars
<1>. QED
  BY <1>1, <1>2, <1>3, <1>4, <1>5, <1>6, <1>7, <1>8, <1>9, <1>10, <1>11 DEF QuotaNext, Step

\* A cycle that nothing overlaps stays clean.
LEMMA CleanStep ==
  ASSUME QuotaTypeOK, QuotaTypeOK', StartIsRecorded, UncontendedIsClean, [QuotaNext]_quotaVars, ~contended'
  PROVE  CleanCycle'
<1>. USE QuotaAssumption DEF UncontendedIsClean
<1>. USE DEF Moves, redisVars, historyVars, BeginnerIsAlone, ReadersKnowStart, BegunIsExact,
             CleanCycle, Busy, QuotaTypeOK, CallPhases, NoKey, NoExpiry, Time, Expiry
<1>1. ASSUME NEW r \in TokenCall, NEW failed \in BOOLEAN, CheckStart(r, failed) PROVE CleanCycle'
  <2>1. ~contended /\ UNCHANGED <<redisVars, tok, spent>> /\ stage[r] = "idle"
    BY <1>1 DEF CheckStart, ReadStart
  <2>2. \/ stage' = [stage EXCEPT ![r] = "calling"] /\ stamp' = stamp
        \/ /\ stage' = [stage EXCEPT ![r] = "checking"] /\ stamp' = [stamp EXCEPT ![r] = start]
           /\ \A q \in TokenCall \ {r} : stage[q] # "starting"
    BY <1>1 DEF CheckStart, ReadStart
  <2>3. CleanCycle
    BY <2>1
  <2>. QED  BY <2>1, <2>2, <2>3
<1>2. ASSUME NEW r \in TokenCall, NEW failed \in BOOLEAN, DropCycle(r, failed) PROVE CleanCycle'
  <2>1. /\ ~contended /\ UNCHANGED spent
        /\ stage[r] = "checking" /\ stage' = [stage EXCEPT ![r] = "calling"]
        /\ stamp' = [stamp EXCEPT ![r] = NoKey] /\ tok' = [tok EXCEPT ![r] = 0]
        /\ UNCHANGED redisVars \/ start' = NoKey
    BY <1>2 DEF DropCycle, Drop
  <2>2. CleanCycle
    BY <2>1
  <2>. QED  BY <2>1, <2>2
<1>3. ASSUME NEW r \in TokenCall, NEW failed \in BOOLEAN, CheckUsage(r, failed) PROVE CleanCycle'
  <2>1. /\ ~contended /\ UNCHANGED <<redisVars, spent>>
        /\ stage[r] = "checking" /\ \E p \in {"calling", "idle"} : stage' = [stage EXCEPT ![r] = p]
        /\ stamp' = [stamp EXCEPT ![r] = NoKey] /\ tok' = [tok EXCEPT ![r] = 0]
    BY <1>3 DEF CheckUsage, Drop
  <2>2. CleanCycle
    BY <2>1
  <2>. QED  BY <2>1, <2>2
<1>4. ASSUME NEW r \in TokenCall, NEW failed \in BOOLEAN, NEW t \in 1..MaxCall,
             RecordStart(r, t, failed)
      PROVE  CleanCycle'
  <2>1. ~contended /\ UNCHANGED <<redisVars, spent>> /\ stage[r] = "calling"
    BY <1>4 DEF RecordStart, ReadStart
  <2>2. \/ stage' = [stage EXCEPT ![r] = "idle"] /\ stamp' = stamp /\ tok' = tok
        \/ /\ stage' = [stage EXCEPT ![r] = "recording"] /\ stamp' = [stamp EXCEPT ![r] = start]
           /\ tok' = [tok EXCEPT ![r] = t]
           /\ \A q \in TokenCall \ {r} : stage[q] # "starting"
    BY <1>4 DEF RecordStart, ReadStart
  <2>3. CleanCycle
    BY <2>1
  <2>. QED  BY <2>1, <2>2, <2>3
<1>5. ASSUME NEW r \in TokenCall, NEW failed \in BOOLEAN, BeginCycle(r, failed) PROVE CleanCycle'
  <2>1. Busy = {r} /\ spent' = tok[r] /\ stage' = [stage EXCEPT ![r] = "starting"]
        /\ UNCHANGED <<tok, stamp>>
    BY <1>5 DEF BeginCycle
  <2>. QED  BY <2>1
<1>6. ASSUME NEW r \in TokenCall, NEW failed \in BOOLEAN, SetUsage(r, failed) PROVE CleanCycle'
  <2>1. /\ ~contended /\ UNCHANGED <<now, start, startExp, spent>>
        /\ stage[r] = "starting" /\ stage' = [stage EXCEPT ![r] = "idle"]
        /\ stamp' = [stamp EXCEPT ![r] = NoKey] /\ tok' = [tok EXCEPT ![r] = 0]
        /\ usage' = tok[r] /\ usageExp' = now + Period + Grace
    BY <1>6 DEF SetUsage, Drop
  <2>2. CleanCycle
    BY <2>1
  <2>3. start # NoKey => startExp <= usageExp' /\ usageExp' \notin {NoKey, NoExpiry}
    BY <2>1 DEF StartIsRecorded
  <2>. QED  BY <2>1, <2>2, <2>3
<1>7. ASSUME NEW r \in TokenCall, NEW failed \in BOOLEAN, AddUsage(r, failed) PROVE CleanCycle'
  <2>1. /\ ~contended /\ UNCHANGED <<now, start, startExp>>
        /\ stage[r] = "recording" /\ stage' = [stage EXCEPT ![r] = "idle"]
        /\ stamp' = [stamp EXCEPT ![r] = NoKey] /\ tok' = [tok EXCEPT ![r] = 0]
        /\ usage' = usage + tok[r] /\ spent' = spent + tok[r]
        /\ usageExp # NoKey => usageExp' = usageExp
    BY <1>7 DEF AddUsage, Drop
  <2>2. CleanCycle
    BY <2>1
  <2>. QED  BY <2>1, <2>2
<1>8. ASSUME NEW r \in TokenCall, CallFails(r) PROVE CleanCycle'
  <2>1. /\ ~contended /\ UNCHANGED <<redisVars, stamp, tok, spent>>
        /\ stage[r] = "calling" /\ stage' = [stage EXCEPT ![r] = "idle"]
    BY <1>8 DEF CallFails
  <2>2. CleanCycle
    BY <2>1
  <2>. QED  BY <2>1, <2>2
<1>9. CASE ProcessStops
  <2>1. /\ ~contended /\ Busy = {} /\ UNCHANGED <<redisVars, spent>>
        /\ stage' = [q \in TokenCall |-> "idle"]
    BY <1>9 DEF ProcessStops
  <2>2. CleanCycle
    BY <2>1
  <2>. QED  BY <2>1, <2>2
<1>10. CASE ClockTicks
  <2>1. ~contended /\ UNCHANGED <<stage, stamp, tok, spent>> /\ now' = now + 1
    BY <1>10 DEF ClockTicks
  <2>2. CleanCycle
    BY <2>1
  <2>3. \/ start' = NoKey
        \/ startExp # now' /\ UNCHANGED <<start, startExp>>
    BY <1>10 DEF ClockTicks
  <2>4. usageExp # now' => UNCHANGED <<usage, usageExp>>
    BY <1>10 DEF ClockTicks
  <2>. QED  BY <2>1, <2>2, <2>3, <2>4 DEF StartIsRecorded
<1>11. CASE UNCHANGED quotaVars
  <2>1. ~contended /\ UNCHANGED <<redisVars, stage, stamp, tok, spent>>
    BY <1>11 DEF quotaVars
  <2>2. CleanCycle
    BY <2>1
  <2>. QED  BY <2>1, <2>2
<1>. HIDE DEF CleanCycle, UncontendedIsClean, QuotaTypeOK, BeginnerIsAlone, ReadersKnowStart,
              BegunIsExact, Moves, redisVars, historyVars, Busy
<1>. QED
  BY <1>1, <1>2, <1>3, <1>4, <1>5, <1>6, <1>7, <1>8, <1>9, <1>10, <1>11 DEF QuotaNext, Step

-----------------------------------------------------------------------------
\* Sets of calls are finite, and one call more counts one more.
LEMMA CallsCount ==
  ASSUME NEW S \in SUBSET TokenCall
  PROVE  /\ Cardinality(S) \in Nat
         /\ Cardinality(S) <= Cardinality(TokenCall) /\ Cardinality(TokenCall) \in Nat
         /\ \A r \in S : Cardinality(S \ {r}) = Cardinality(S) - 1
         /\ \A r \in TokenCall \ S : Cardinality(S) + 1 <= Cardinality(TokenCall)
         /\ \A T \in SUBSET S : Cardinality(T) \in Nat /\ Cardinality(T) <= Cardinality(S)
<1>1. IsFiniteSet(TokenCall) /\ IsFiniteSet(S)
  BY QuotaAssumption, FS_Subset
<1>2. \A T \in SUBSET S : Cardinality(T) \in Nat /\ Cardinality(T) <= Cardinality(S)
  BY <1>1, FS_Subset, FS_CardinalityType
<1>3. /\ Cardinality(S) \in Nat /\ Cardinality(TokenCall) \in Nat
      /\ Cardinality(S) <= Cardinality(TokenCall)
  BY <1>1, FS_Subset, FS_CardinalityType
<1>4. \A r \in S : Cardinality(S \ {r}) = Cardinality(S) - 1
  BY <1>1, FS_RemoveElement
<1>5. ASSUME NEW r \in TokenCall \ S PROVE Cardinality(S) + 1 <= Cardinality(TokenCall)
  <2>1. Cardinality(S \cup {r}) = Cardinality(S) + 1
    BY <1>1, FS_AddElement
  <2>2. S \cup {r} \in SUBSET TokenCall
    OBVIOUS
  <2>3. Cardinality(S \cup {r}) <= Cardinality(TokenCall)
    BY <1>1, <2>2, FS_Subset
  <2>. QED  BY <2>1, <2>3
<1>. QED  BY <1>2, <1>3, <1>4, <1>5

\* What k calls may use at most, and what one call fewer.
LEMMA CallsUse ==
  ASSUME NEW k \in Nat, NEW l \in Nat
  PROVE  /\ MaxCall * k \in Nat
         /\ MaxCall * (k - 1) = MaxCall * k - MaxCall
         /\ k <= l => MaxCall * k <= MaxCall * l
         /\ k + 1 <= l => MaxCall * k + MaxCall <= MaxCall * l
<1>1. MaxCall \in Nat
  BY QuotaAssumption
<1>2. ASSUME k <= l PROVE MaxCall * k <= MaxCall * l
  <2>1. PICK d \in Nat : l = k + d
    BY <1>2
  <2>2. MaxCall * l = MaxCall * k + MaxCall * d /\ MaxCall * d \in Nat
    BY <1>1, <2>1
  <2>. QED  BY <1>1, <2>2
<1>3. ASSUME k + 1 <= l PROVE MaxCall * k + MaxCall <= MaxCall * l
  <2>1. PICK d \in Nat : l = k + 1 + d
    BY <1>3
  <2>2. MaxCall * l = MaxCall * k + MaxCall + MaxCall * d /\ MaxCall * d \in Nat
    BY <1>1, <2>1
  <2>. QED  BY <1>1, <2>2
<1>4. MaxCall * k \in Nat /\ MaxCall * (k - 1) = MaxCall * k - MaxCall
  BY <1>1
<1>. QED  BY <1>2, <1>3, <1>4

\* The same for sets of calls.
LEMMA UseCounts ==
  ASSUME NEW S \in SUBSET TokenCall
  PROVE  /\ Use(S) \in Nat /\ Use(TokenCall) \in Nat /\ Use(S) <= Use(TokenCall)
         /\ \A r \in S : Use(S \ {r}) = Use(S) - MaxCall
         /\ \A r \in TokenCall \ S : Use(S) + MaxCall <= Use(TokenCall)
         /\ \A T \in SUBSET S : Use(T) \in Nat /\ Use(T) <= Use(S)
<1>1. Use(S) \in Nat /\ Use(TokenCall) \in Nat /\ Use(S) <= Use(TokenCall)
  BY CallsCount, CallsUse DEF Use
<1>2. \A r \in S : Use(S \ {r}) = Use(S) - MaxCall
  BY CallsCount, CallsUse DEF Use
<1>3. \A r \in TokenCall \ S : Use(S) + MaxCall <= Use(TokenCall)
  BY CallsCount, CallsUse DEF Use
<1>4. \A T \in SUBSET S : Use(T) \in Nat /\ Use(T) <= Use(S)
  BY CallsCount, CallsUse DEF Use
<1>. QED  BY <1>1, <1>2, <1>3, <1>4

\* The room for one call stays: a call is let in below the limit, and what it uses is
\* counted when it no longer owes.
LEMMA OwedStep ==
  ASSUME QuotaTypeOK, QuotaTypeOK', UncontendedIsClean, OwedIsBounded, [QuotaNext]_quotaVars
  PROVE  OwedIsBounded'
<1>. SUFFICES ASSUME ~contended', failures' = 0, start' # NoKey
              PROVE  spent' + Use(Owing') < MaxTokens + Use(TokenCall)
  BY DEF OwedIsBounded, Use
<1>. DEFINE Room == spent' + Use(Owing') < MaxTokens + Use(TokenCall)
<1>a. /\ MaxTokens \in Nat \ {0} /\ MaxCall \in Nat \ {0}
      /\ failures \in Nat /\ spent \in Nat /\ spent' \in Nat /\ usage \in Nat
      /\ stage \in [TokenCall -> CallPhases] /\ tok \in [TokenCall -> 0..MaxCall]
  BY QuotaAssumption DEF QuotaTypeOK
<1>b. Owing \in SUBSET TokenCall /\ Owing' \in SUBSET TokenCall
  BY DEF Owing
<1>c. /\ Use(Owing) \in Nat /\ Use(Owing') \in Nat /\ Use(TokenCall) \in Nat
      /\ Use(Owing') <= Use(TokenCall)
  BY <1>b, UseCounts
<1>d. ~contended /\ failures = 0 /\ start # NoKey => spent + Use(Owing) < MaxTokens + Use(TokenCall)
  BY DEF OwedIsBounded
<1>e. ASSUME NEW failed \in BOOLEAN, Costs(failed) PROVE ~failed /\ failures = 0
  BY <1>a, <1>e DEF Costs
<1>1. ASSUME NEW r \in TokenCall, NEW failed \in BOOLEAN, CheckStart(r, failed) PROVE Room
  <2>1. /\ ~failed /\ failures = 0 /\ ~contended /\ start # NoKey /\ spent' = spent
        /\ stage[r] = "idle" /\ stage' = [stage EXCEPT ![r] = "checking"]
    BY <1>1, <1>e DEF CheckStart, ReadStart, Moves, redisVars
  <2>2. Owing' = Owing
    BY <2>1, <1>a DEF Owing
  <2>. QED  BY <2>1, <2>2, <1>d
<1>2. ASSUME NEW r \in TokenCall, NEW failed \in BOOLEAN, DropCycle(r, failed) PROVE Room
  BY <1>2, <1>e DEF DropCycle
<1>3. ASSUME NEW r \in TokenCall, NEW failed \in BOOLEAN, CheckUsage(r, failed) PROVE Room
  <2>1. /\ ~failed /\ failures = 0 /\ ~contended /\ start # NoKey /\ spent' = spent
        /\ stage[r] = "checking"
        /\ stage' = [stage EXCEPT ![r] = IF usage < MaxTokens THEN "calling" ELSE "idle"]
    BY <1>3, <1>e DEF CheckUsage, Moves, redisVars, historyVars
  <2>2. usage = spent
    <3>1. \A q \in TokenCall : stage[q] # "starting"
      BY <2>1 DEF UncontendedIsClean, CleanCycle, BeginnerIsAlone, Busy
    <3>. QED  BY <2>1, <3>1 DEF UncontendedIsClean, CleanCycle, BegunIsExact
  <2>3. CASE usage < MaxTokens
    BY <2>1, <2>2, <2>3, <1>a, <1>c
  <2>4. CASE ~(usage < MaxTokens)
    <3>1. Owing' = Owing
      BY <2>1, <2>4, <1>a DEF Owing
    <3>. QED  BY <2>1, <3>1, <1>d
  <2>. QED  BY <2>3, <2>4
<1>4. ASSUME NEW r \in TokenCall, NEW failed \in BOOLEAN, NEW t \in 1..MaxCall,
             RecordStart(r, t, failed)
      PROVE  Room
  <2>1. /\ ~failed /\ failures = 0 /\ ~contended /\ start # NoKey /\ spent' = spent
        /\ stage[r] = "calling" /\ stage' = [stage EXCEPT ![r] = "recording"]
    BY <1>4, <1>e DEF RecordStart, ReadStart, Moves, redisVars
  <2>2. Owing' = Owing
    BY <2>1, <1>a DEF Owing
  <2>. QED  BY <2>1, <2>2, <1>d
<1>5. ASSUME NEW r \in TokenCall, NEW failed \in BOOLEAN, BeginCycle(r, failed) PROVE Room
  <2>1. spent' = tok[r] /\ stage' = [stage EXCEPT ![r] = "starting"]
    BY <1>5 DEF BeginCycle, Moves
  <2>2. r \in TokenCall \ Owing'
    BY <2>1, <1>a DEF Owing
  <2>3. Use(Owing') + MaxCall <= Use(TokenCall)
    BY <2>2, <1>b, UseCounts
  <2>4. tok[r] \in 0..MaxCall
    BY <1>a
  <2>. QED  BY <2>1, <2>3, <2>4, <1>a, <1>c
<1>6. ASSUME NEW r \in TokenCall, NEW failed \in BOOLEAN, SetUsage(r, failed) PROVE Room
  <2>1. /\ ~failed /\ failures = 0 /\ ~contended /\ start # NoKey /\ spent' = spent
        /\ stage[r] = "starting" /\ stage' = [stage EXCEPT ![r] = "idle"]
    BY <1>6, <1>e DEF SetUsage, Moves
  <2>2. Owing' = Owing
    BY <2>1, <1>a DEF Owing
  <2>. QED  BY <2>1, <2>2, <1>d
<1>7. ASSUME NEW r \in TokenCall, NEW failed \in BOOLEAN, AddUsage(r, failed) PROVE Room
  <2>1. /\ ~failed /\ failures = 0 /\ ~contended /\ start # NoKey /\ spent' = spent + tok[r]
        /\ stage[r] = "recording" /\ stage' = [stage EXCEPT ![r] = "idle"]
    BY <1>7, <1>e DEF AddUsage, Moves
  <2>2. r \in Owing /\ Owing' = Owing \ {r}
    BY <2>1, <1>a DEF Owing
  <2>3. Use(Owing') = Use(Owing) - MaxCall
    BY <2>2, <1>b, UseCounts
  <2>4. tok[r] \in 0..MaxCall
    BY <1>a
  <2>. QED  BY <2>1, <2>3, <2>4, <1>a, <1>c, <1>d
<1>8. ASSUME NEW r \in TokenCall, CallFails(r) PROVE Room
  <2>1. /\ failures = 0 /\ ~contended /\ start # NoKey /\ spent' = spent
        /\ stage' = [stage EXCEPT ![r] = "idle"]
    BY <1>8 DEF CallFails, Moves, redisVars, historyVars
  <2>2. Owing' \in SUBSET Owing
    BY <2>1, <1>a DEF Owing
  <2>3. Use(Owing') <= Use(Owing)
    BY <2>2, <1>b, UseCounts
  <2>. QED  BY <2>1, <2>3, <1>a, <1>c, <1>d
<1>9. CASE ProcessStops
  BY <1>9, <1>e DEF ProcessStops
<1>10. CASE ClockTicks
  <2>1. failures = 0 /\ ~contended /\ start # NoKey /\ spent' = spent /\ stage' = stage
    BY <1>10 DEF ClockTicks, historyVars
  <2>2. Owing' = Owing
    BY <2>1 DEF Owing
  <2>. QED  BY <2>1, <2>2, <1>d
<1>11. CASE UNCHANGED quotaVars
  <2>1. failures = 0 /\ ~contended /\ start # NoKey /\ spent' = spent /\ stage' = stage
    BY <1>11 DEF quotaVars, redisVars, historyVars
  <2>2. Owing' = Owing
    BY <2>1 DEF Owing
  <2>. QED  BY <2>1, <2>2, <1>d
<1>. QED
  BY <1>1, <1>2, <1>3, <1>4, <1>5, <1>6, <1>7, <1>8, <1>9, <1>10, <1>11 DEF QuotaNext, Step

-----------------------------------------------------------------------------
\* The inductive invariant of the quota cycle.
THEOREM QuotaInvariant == QuotaSpec => []QuotaInv
<1>1. QuotaInit => QuotaInv
  BY QuotaInvInit
<1>2. QuotaInv /\ [QuotaNext]_quotaVars => QuotaInv'
  <2>. SUFFICES ASSUME QuotaInv, [QuotaNext]_quotaVars PROVE QuotaInv'
    OBVIOUS
  <2>1. QuotaTypeOK /\ QuotaTypeOK'
    BY QuotaTypeStep DEF QuotaInv
  <2>2. StartIsRecorded' /\ CheckedIsRecorded'
    BY <2>1, TimesStep DEF QuotaInv
  <2>3. UncontendedIsClean'
    BY <2>1, CleanStep DEF QuotaInv, UncontendedIsClean
  <2>4. OwedIsBounded'
    BY <2>1, OwedStep DEF QuotaInv
  <2>. QED  BY <2>1, <2>2, <2>3, <2>4 DEF QuotaInv
<1>. QED  BY <1>1, <1>2, PTL DEF QuotaSpec

\* Keys, times and calls keep their types, and a missing key reads as no usage.
THEOREM QuotaTypes == QuotaSpec => []QuotaTypeOK
<1>1. QuotaInv => QuotaTypeOK
  BY DEF QuotaInv
<1>. QED  BY <1>1, QuotaInvariant, PTL

\* A cycle whose start nothing overlapped counts every token of isRuleExceeded's user.
THEOREM QuotaIsExact == QuotaSpec => []UncontendedCycleIsExact
<1>1. QuotaInv => UncontendedCycleIsExact
  BY DEF QuotaInv, UncontendedIsClean, CleanCycle, BegunIsExact, UncontendedCycleIsExact,
     Running
<1>. QED  BY <1>1, QuotaInvariant, PTL

\* In such a cycle, and without faults, the limit is overrun by less than what the calls
\* between CheckTokenQuota and RecordCycleUsage use.
THEOREM QuotaOvershoot == QuotaSpec => []OvershootIsBounded
<1>1. QuotaInv => OvershootIsBounded
  BY DEF QuotaInv, OwedIsBounded, OvershootIsBounded, Running, Use
<1>. QED  BY <1>1, QuotaInvariant, PTL

\* isRuleExceeded refuses nobody who recorded nothing for a whole period.
THEOREM QuotaIdle == QuotaSpec => IdleUserAdmitted
<1>. DEFINE Ok == \A r \in TokenCall :
                    stage[r] = "checking" /\ stage'[r] = "idle" /\ failures' = failures
                      => lastUse # NoKey /\ now <= lastUse + Period
<1>1. ASSUME QuotaInv, QuotaNext, NEW r \in TokenCall,
             stage[r] = "checking", stage'[r] = "idle", failures' = failures
      PROVE  lastUse # NoKey /\ now <= lastUse + Period
  <2>0. /\ stage \in [TokenCall -> CallPhases] /\ failures \in Nat
        /\ lastUse # NoKey /\ stamp[r] # NoKey /\ stamp[r] <= lastUse
    BY <1>1, QuotaAssumption DEF QuotaInv, QuotaTypeOK, CheckedIsRecorded
  <2>1. ASSUME NEW q \in TokenCall, NEW p \in CallPhases, stage' = [stage EXCEPT ![q] = p],
               p # "idle" \/ stage[q] # "checking"
        PROVE  FALSE
    BY <1>1, <2>0, <2>1
  <2>2. ~ProcessStops /\ ~ClockTicks
    BY <1>1, <2>0 DEF ProcessStops, ClockTicks, Costs
  <2>3. PICK q \in TokenCall, failed \in BOOLEAN : Step(q, failed) \/ CallFails(q)
    BY <1>1, <2>2, Zenon DEF QuotaNext
  <2>4. ~CheckStart(q, failed) /\ ~DropCycle(q, failed) /\ ~BeginCycle(q, failed)
        /\ ~SetUsage(q, failed) /\ ~AddUsage(q, failed) /\ ~CallFails(q)
        /\ ~(\E t \in 1..MaxCall : RecordStart(q, t, failed))
    BY <2>0, <2>1 DEF CheckStart, DropCycle, BeginCycle, SetUsage, AddUsage, CallFails,
       RecordStart, Moves, CallPhases
  <2>5. CheckUsage(q, failed)
    BY <2>3, <2>4 DEF Step
  <2>6. q = r
    BY <1>1, <2>0, <2>5 DEF CheckUsage, Moves
  <2>7. ~(now > stamp[r] + Period)
    BY <2>5, <2>6 DEF CheckUsage, Over
  <2>8. now \in Int /\ stamp[r] \in Int /\ lastUse \in Int /\ Period \in Int
    BY <1>1, QuotaAssumption DEF QuotaInv, QuotaTypeOK, Time, NoKey
  <2>. QED  BY <2>0, <2>7, <2>8
<1>2. QuotaInv /\ [QuotaNext]_quotaVars => [Ok]_quotaVars
  BY <1>1
<1>. QED  BY <1>2, QuotaInvariant, PTL DEF QuotaSpec, IdleUserAdmitted
=============================================================================
