-------------------------- MODULE MCPProxyProofs --------------------------
(***************************************************************************)
(* Proofs about MCPProxy, for any requests, ids, connections and capacity  *)
(* of the event channel.                                                   *)
(***************************************************************************)
EXTENDS MCPProxy, TLAPS

Connecting == {"dialing", "greeting", "notifying"}
Pending    == {"posted", "waiting"}

\* Who connects holds the lock, makes the only entry, and gives the lock back only after
\* the handshake was posted.
MutexInv ==
  /\ \A r \in Request : pc[r] \in Connecting <=> lock = r
  /\ \A r \in Request : pc[r] = "dialing" => current = 0 /\ made < MaxConn
  /\ \A r \in Request : pc[r] \in {"greeting", "notifying"} => on[r] = current /\ current # 0
  /\ \A r \in Request : pc[r] = "notifying" => current \in greeted
  /\ lock = NoOne /\ current # 0 => current \in greeted

\* No sequence holds the answer to one request twice.
Once(s) == \A i, j \in DOMAIN s : s[i] = s[j] /\ s[i] \in Request => i = j

\* An answer is where its request looks for it: once, and not before the request was posted.
PlaceInv ==
  /\ \A r \in Request, c \in Conn :
       (r \in owed[c] \/ r \in Elements(chan[c])) /\ pc[r] # "done" =>
         pc[r] \in Pending /\ on[r] = c
  /\ \A r \in dropped : pc[r] \in Pending \cup {"done"}
  /\ \A r \in Request, c \in Conn : ~(r \in owed[c] /\ r \in Elements(chan[c]))
  /\ \A c \in Conn : Once(chan[c])

MCPInv ==
  /\ TypeOK
  /\ MutexInv
  /\ UsesGreeted
  /\ PlaceInv
  /\ AnswerIsSomewhere
  /\ AnswersAreOwn

-----------------------------------------------------------------------------
\* What an event added at the end of the channel does to what is in it ...
LEMMA AppendEvent ==
  ASSUME NEW s \in Seq(Event), NEW e \in Event
  PROVE  /\ Append(s, e) \in Seq(Event) /\ Len(Append(s, e)) = Len(s) + 1
         /\ Elements(Append(s, e)) = Elements(s) \cup {e}
         /\ Once(s) /\ e \notin Elements(s) => Once(Append(s, e))
         /\ Once(s) /\ e \notin Request => Once(Append(s, e))
<1>1. /\ Append(s, e) \in Seq(Event) /\ Len(Append(s, e)) = Len(s) + 1
      /\ DOMAIN s = 1..Len(s) /\ DOMAIN Append(s, e) = 1..(Len(s) + 1) /\ Len(s) \in Nat
      /\ \A i \in 1..Len(s) : Append(s, e)[i] = s[i]
      /\ Append(s, e)[Len(s) + 1] = e
  OBVIOUS
<1>2. Elements(Append(s, e)) \subseteq Elements(s) \cup {e}
  BY <1>1 DEF Elements
<1>3. Elements(s) \cup {e} \subseteq Elements(Append(s, e))
  BY <1>1 DEF Elements
<1>4. Once(s) /\ e \notin Elements(s) => Once(Append(s, e))
  BY <1>1 DEF Elements, Once
<1>5. Once(s) /\ e \notin Request => Once(Append(s, e))
  BY <1>1 DEF Once
<1>. QED  BY <1>1, <1>2, <1>3, <1>4, <1>5

\* ... and what taking the first one does.
LEMMA TakeEvent ==
  ASSUME NEW s \in Seq(Event), s # <<>>
  PROVE  /\ Head(s) \in Event /\ Tail(s) \in Seq(Event) /\ Len(Tail(s)) = Len(s) - 1
         /\ Elements(s) = {Head(s)} \cup Elements(Tail(s))
         /\ Once(s) => Once(Tail(s))
         /\ Once(s) /\ Head(s) \in Request => Head(s) \notin Elements(Tail(s))
<1>1. /\ Head(s) = s[1] /\ Tail(s) \in Seq(Event) /\ Len(Tail(s)) = Len(s) - 1
      /\ DOMAIN s = 1..Len(s) /\ Len(s) \in Nat \ {0}
      /\ DOMAIN Tail(s) = 1..(Len(s) - 1)
      /\ \A i \in 1..(Len(s) - 1) : Tail(s)[i] = s[i + 1]
  OBVIOUS
<1>2. \A i \in DOMAIN s : i = 1 \/ (i - 1 \in DOMAIN Tail(s) /\ Tail(s)[i - 1] = s[i])
  BY <1>1
<1>3. \A i \in DOMAIN Tail(s) : i + 1 \in DOMAIN s /\ Tail(s)[i] = s[i + 1] /\ i + 1 # 1
  BY <1>1
<1>4. 1 \in DOMAIN s /\ s[1] \in Event
  BY <1>1
<1>5. Elements(s) \subseteq {Head(s)} \cup Elements(Tail(s))
  BY <1>1, <1>2 DEF Elements
<1>6. {Head(s)} \cup Elements(Tail(s)) \subseteq Elements(s)
  BY <1>1, <1>3, <1>4 DEF Elements
<1>7. ASSUME Once(s) PROVE Once(Tail(s))
  <2>. SUFFICES ASSUME NEW i \in DOMAIN Tail(s), NEW j \in DOMAIN Tail(s),
                       Tail(s)[i] = Tail(s)[j], Tail(s)[i] \in Request
                PROVE  i = j
    BY DEF Once
  <2>1. i + 1 = j + 1
    BY <1>3, <1>7 DEF Once
  <2>. QED  BY <2>1, <1>1
<1>8. ASSUME Once(s), Head(s) \in Request PROVE Head(s) \notin Elements(Tail(s))
  BY <1>1, <1>3, <1>4, <1>8 DEF Elements, Once
<1>. QED  BY <1>1, <1>4, <1>5, <1>6, <1>7, <1>8

-----------------------------------------------------------------------------
\* A function with one value changed within its range.
LEMMA Changed ==
  ASSUME NEW D, NEW R, NEW f \in [D -> R], NEW d \in D, NEW v \in R
  PROVE  [f EXCEPT ![d] = v] \in [D -> R]
OBVIOUS

\* No step leaves the types.
LEMMA MCPTypeStep ==
  ASSUME TypeOK, MutexInv, UsesGreeted, [Next]_vars
  PROVE  TypeOK'
<1>. USE MCPAssumption DEF TypeOK, Conn, Phases, mutex, caller, streams, Goto, Finish, Fault
<1>0. /\ Request \subseteq Event /\ Init1 \in Event /\ Note \in Event /\ NoOne \notin Request
      /\ 0 \in 0..made /\ 1..made \subseteq Conn
  BY DEF Event, Request
<1>t. /\ pc \in [Request -> Phases] /\ on \in [Request -> 0..made]
      /\ owed \in [Conn -> SUBSET Event] /\ got \in [Request -> Event \cup {None}]
      /\ current \in 0..made /\ "done" \in Phases /\ dropped \subseteq Request
  OBVIOUS
<1>1. ASSUME NEW s \in Syncer, IsConnected(s) \/ Lock(s) PROVE TypeOK'
  BY <1>1 DEF IsConnected, Lock, Request
<1>2. ASSUME NEW s \in Syncer, Dial(s) PROVE TypeOK'
  <2>1. s \in Request /\ pc[s] = "dialing" /\ made < MaxConn
    BY <1>2 DEF Dial, Request, MutexInv
  <2>2. made' = made + 1 /\ made' \in 0..MaxConn /\ 0..made \subseteq 0..made'
        /\ 1..made \subseteq 1..made' /\ made' \in 1..made'
    BY <1>2, <2>1 DEF Dial
  <2>3. /\ current' \in 0..made' /\ on' \in [Request -> 0..made'] /\ live' \subseteq 1..made'
        /\ pc' \in [Request -> Phases] /\ greeted' \subseteq 1..made'
    BY <1>2, <2>1, <2>2 DEF Dial
  <2>. QED  BY <1>2, <2>2, <2>3 DEF Dial
<1>3. ASSUME NEW s \in Syncer, DialFails(s) PROVE TypeOK'
  BY <1>3 DEF DialFails, Request
<1>4. ASSUME NEW s \in Syncer, Greet(s) \/ GreetFails(s) PROVE TypeOK'
  <2>1. s \in Request /\ on[s] \in 1..made
    BY <1>4 DEF Greet, GreetFails, Request, MutexInv
  <2>2. owed' \in [Conn -> SUBSET Event]
    <3>1. owed' = owed \/ owed' = [owed EXCEPT ![on[s]] = @ \cup {Init1}]
      BY <1>4 DEF Greet, GreetFails, Owes
    <3>2. on[s] \in Conn /\ owed[on[s]] \cup {Init1} \in SUBSET Event
      BY <1>0, <2>1
    <3>. HIDE DEF TypeOK, Conn, Phases, MCPAssumption
    <3>. QED  BY <1>t, <3>1, <3>2, Changed
  <2>3. greeted' \subseteq 1..made
    BY <1>4, <2>1 DEF Greet, GreetFails
  <2>4. pc' \in [Request -> Phases]
    BY <1>4, <2>1 DEF Greet, GreetFails
  <2>5. on' \in [Request -> 0..made] /\ lock' \in Request \cup {NoOne}
    BY <1>0, <1>4, <2>1 DEF Greet, GreetFails
  <2>6. UNCHANGED <<current, made, got, chan, live, dropped, notes>> /\ faults' \in 0..MaxFaults
    BY <1>4 DEF Greet, GreetFails
  <2>. QED  BY <2>2, <2>3, <2>4, <2>5, <2>6
<1>5. ASSUME NEW s \in Syncer, Notify(s) PROVE TypeOK'
  BY <1>5 DEF Notify, Request
<1>6. ASSUME NEW r \in Request, Route(r) PROVE TypeOK'
  <2>1. pc' \in [Request -> Phases]
    BY <1>6 DEF Route
  <2>2. on' \in [Request -> 0..made]
    <3>1. on' = on \/ on' = [on EXCEPT ![r] = current]
      BY <1>6 DEF Route
    <3>. HIDE DEF TypeOK, Conn, Phases, MCPAssumption
    <3>. QED  BY <1>t, <3>1, Changed
  <2>. QED  BY <1>6, <2>1, <2>2 DEF Route
<1>7. ASSUME NEW r \in Request, PostReturns(r) PROVE TypeOK'
  BY <1>7 DEF PostReturns
<1>15. ASSUME NEW r \in Request, AnswerInline(r) \/ PostFails(r) \/ GiveUp(r) PROVE TypeOK'
  <2>1. pc' \in [Request -> Phases] /\ on' \in [Request -> 0..made]
    <3>1. pc' = [pc EXCEPT ![r] = "done"] /\ on' = [on EXCEPT ![r] = 0]
      BY <1>15 DEF AnswerInline, PostFails, GiveUp
    <3>. HIDE DEF TypeOK, Conn, Phases, MCPAssumption
    <3>. QED  BY <1>t, <1>0, <3>1, Changed
  <2>2. got' \in [Request -> Event \cup {None}]
    BY <1>0, <1>15 DEF AnswerInline, PostFails, GiveUp
  <2>3. UNCHANGED <<mutex, streams>> /\ faults' \in 0..MaxFaults
    BY <1>15 DEF AnswerInline, PostFails, GiveUp
  <2>. QED  BY <2>1, <2>2, <2>3
<1>8. ASSUME NEW r \in Request, Post(r) PROVE TypeOK'
  <2>1. owed' \in [Conn -> SUBSET Event]
    BY <1>0, <1>8 DEF Post, Owes
  <2>. QED  BY <1>8, <2>1 DEF Post
<1>9. ASSUME NEW r \in Request, Take(r) PROVE TypeOK'
  <2>1. on[r] \in Conn /\ chan[on[r]] # <<>> /\ chan[on[r]] \in Seq(Event)
    <3>1. on[r] \in 1..made /\ chan[on[r]] # <<>>
      BY <1>9 DEF Take, UsesGreeted
    <3>. QED  BY <1>0, <3>1
  <2>2. /\ Head(chan[on[r]]) \in Event /\ Tail(chan[on[r]]) \in Seq(Event)
        /\ Len(Tail(chan[on[r]])) <= ChanCap
    BY <2>1, TakeEvent
  <2>3. chan' \in [Conn -> Seq(Event)] /\ \A c \in Conn : Len(chan'[c]) <= ChanCap
    BY <1>9, <2>1, <2>2 DEF Take
  <2>4. /\ UNCHANGED caller \/ (Finish(r) /\ got' = [got EXCEPT ![r] = Head(chan[on[r]])])
        /\ dropped' = dropped \/ (Head(chan[on[r]]) \in Request
                                   /\ dropped' = dropped \cup {Head(chan[on[r]])})
        /\ UNCHANGED <<mutex, owed, live, notes, faults>>
    BY <1>9 DEF Take
  <2>5. pc' \in [Request -> Phases] /\ on' \in [Request -> 0..made]
    <3>1. \/ pc' = pc /\ on' = on
          \/ pc' = [pc EXCEPT ![r] = "done"] /\ on' = [on EXCEPT ![r] = 0]
      BY <2>4
    <3>. HIDE DEF TypeOK, Conn, Phases, MCPAssumption
    <3>. QED  BY <1>t, <1>0, <3>1, Changed
  <2>6. got' \in [Request -> Event \cup {None}] /\ dropped' \subseteq Request
    <3>1. got' = got \/ got' = [got EXCEPT ![r] = Head(chan[on[r]])]
      BY <2>4
    <3>2. got' \in [Request -> Event \cup {None}]
      <4>. HIDE DEF TypeOK, Conn, Phases, MCPAssumption
      <4>. QED  BY <1>t, <2>2, <3>1, Changed
    <3>3. dropped' \subseteq Request
      <4>. HIDE DEF TypeOK, Conn, Phases, MCPAssumption, Finish
      <4>. QED  BY <1>t, <2>4
    <3>. QED  BY <3>2, <3>3
  <2>. QED  BY <2>3, <2>4, <2>5, <2>6
<1>10. ASSUME NEW c \in Conn, ReadEvent(c) PROVE TypeOK'
  <2>1. PICK e \in owed[c] : /\ chan' = [chan EXCEPT ![c] = Append(@, e)]
                             /\ owed' = [owed EXCEPT ![c] = @ \ {e}]
    BY <1>10 DEF ReadEvent
  <2>2. Append(chan[c], e) \in Seq(Event) /\ Len(Append(chan[c], e)) <= ChanCap
    BY <1>10, AppendEvent DEF ReadEvent
  <2>. QED  BY <1>10, <2>1, <2>2 DEF ReadEvent
<1>11. ASSUME NEW c \in Conn, StreamEnds(c) PROVE TypeOK'
  BY <1>11 DEF StreamEnds
<1>12. ASSUME NEW c \in Conn, ServiceNotifies(c) PROVE TypeOK'
  BY <1>0, <1>12 DEF ServiceNotifies, Owes
<1>13. CASE Disconnect
  BY <1>13 DEF Disconnect
<1>14. CASE UNCHANGED vars
  BY <1>14 DEF vars
<1>. QED
  BY <1>1, <1>2, <1>3, <1>4, <1>5, <1>6, <1>7, <1>8, <1>9, <1>10, <1>11, <1>12, <1>13, <1>14,
     <1>15 DEF Next, Wait

\* What a step does to the request that makes it and leaves to the others.
LEMMA CallerSteps ==
  ASSUME TypeOK, NEW r \in Request,
         \/ Route(r) \/ AnswerInline(r) \/ PostFails(r) \/ Post(r) \/ PostReturns(r) \/ Wait(r)
  PROVE  /\ UNCHANGED mutex
         /\ pc[r] \notin Connecting /\ pc'[r] \notin Connecting
         /\ \A q \in Request \ {r} : pc'[q] = pc[q] /\ on'[q] = on[q] /\ got'[q] = got[q]
         /\ pc'[r] \in {"sending", "posted", "waiting"} =>
              \/ on'[r] = on[r] /\ pc[r] \in {"sending", "posted", "waiting"}
              \/ on'[r] = current /\ current # 0 /\ lock = NoOne /\ pc'[r] = "sending"
<1>. USE DEF TypeOK, Connecting, mutex, Goto, Finish
<1>1. CASE Route(r)
  BY <1>1 DEF Route
<1>2. CASE AnswerInline(r)
  BY <1>2 DEF AnswerInline
<1>3. CASE PostFails(r)
  BY <1>3 DEF PostFails
<1>4. CASE Post(r)
  BY <1>4 DEF Post
<1>5. CASE PostReturns(r)
  BY <1>5 DEF PostReturns
<1>6. CASE Take(r)
  <2>1. /\ UNCHANGED mutex /\ pc[r] = "waiting"
        /\ \/ UNCHANGED caller
           \/ /\ pc' = [pc EXCEPT ![r] = "done"] /\ on' = [on EXCEPT ![r] = 0]
              /\ got' = [got EXCEPT ![r] = Head(chan[on[r]])]
    BY <1>6 DEF Take
  <2>. QED  BY <2>1 DEF caller
<1>7. CASE GiveUp(r)
  BY <1>7 DEF GiveUp
<1>. QED  BY <1>1, <1>2, <1>3, <1>4, <1>5, <1>6, <1>7 DEF Wait

\* The lock, the map and the handshake stay in step.
LEMMA MutexStep ==
  ASSUME TypeOK, MutexInv, [Next]_vars
  PROVE  MutexInv'
<1>. USE DEF TypeOK, MutexInv, Connecting, mutex, Goto
<1>0. Syncer \subseteq Request /\ NoOne \notin Request
  BY MCPAssumption DEF Request
<1>1. ASSUME NEW s \in Syncer, IsConnected(s) PROVE MutexInv'
  BY <1>0, <1>1 DEF IsConnected
<1>2. ASSUME NEW s \in Syncer, Lock(s) PROVE MutexInv'
  BY <1>0, <1>2 DEF Lock
<1>3. ASSUME NEW s \in Syncer, Dial(s) PROVE MutexInv'
  <2>1. /\ pc[s] = "dialing" /\ lock = s /\ made' # 0 /\ current' = made'
        /\ lock' = lock /\ greeted' = greeted
        /\ pc' = [pc EXCEPT ![s] = "greeting"] /\ on' = [on EXCEPT ![s] = current']
    BY <1>0, <1>3 DEF Dial
  <2>2. \A q \in Request \ {s} : pc'[q] = pc[q] /\ pc[q] \notin Connecting
    BY <1>0, <2>1
  <2>3. pc'[s] = "greeting" /\ on'[s] = current'
    BY <1>0, <2>1
  <2>. QED  BY <1>0, <2>1, <2>2, <2>3
<1>4. ASSUME NEW s \in Syncer, DialFails(s) PROVE MutexInv'
  BY <1>0, <1>4 DEF DialFails
<1>5. ASSUME NEW s \in Syncer, Greet(s) PROVE MutexInv'
  BY <1>0, <1>5 DEF Greet
<1>6. ASSUME NEW s \in Syncer, GreetFails(s) PROVE MutexInv'
  BY <1>0, <1>6 DEF GreetFails
<1>7. ASSUME NEW s \in Syncer, Notify(s) PROVE MutexInv'
  BY <1>0, <1>7 DEF Notify
<1>8. ASSUME NEW r \in Request,
             \/ Route(r) \/ AnswerInline(r) \/ PostFails(r) \/ Post(r) \/ PostReturns(r)
             \/ Wait(r)
      PROVE  MutexInv'
  <2>1. /\ UNCHANGED mutex
        /\ pc[r] \notin Connecting /\ pc'[r] \notin Connecting
        /\ \A q \in Request \ {r} : pc'[q] = pc[q] /\ on'[q] = on[q]
    BY <1>8, CallerSteps
  <2>. QED  BY <2>1
<1>9. ASSUME NEW c \in Conn, ReadEvent(c) \/ StreamEnds(c) \/ ServiceNotifies(c) PROVE MutexInv'
  BY <1>9 DEF ReadEvent, StreamEnds, ServiceNotifies, caller
<1>10. CASE Disconnect
  BY <1>0, <1>10 DEF Disconnect, caller
<1>11. CASE UNCHANGED vars
  BY <1>11 DEF vars, caller
<1>. QED
  BY <1>1, <1>2, <1>3, <1>4, <1>5, <1>6, <1>7, <1>8, <1>9, <1>10, <1>11 DEF Next

\* A connection that a request found in the map has had its handshake posted.
LEMMA GreetedStep ==
  ASSUME TypeOK, MutexInv, UsesGreeted, [Next]_vars
  PROVE  UsesGreeted'
<1>. USE DEF UsesGreeted, TypeOK, mutex, Goto
<1>0. Syncer \subseteq Request
  BY DEF Request
<1>1. ASSUME NEW s \in Syncer,
             IsConnected(s) \/ Lock(s) \/ Dial(s) \/ DialFails(s) \/ Greet(s) \/ GreetFails(s)
               \/ Notify(s)
      PROVE  UsesGreeted'
  <2>1. /\ \A q \in Request \ {s} : pc'[q] = pc[q] /\ on'[q] = on[q]
        /\ greeted \subseteq greeted'
        /\ pc'[s] \notin {"sending", "posted", "waiting"}
    BY <1>0, <1>1 DEF IsConnected, Lock, Dial, DialFails, Greet, GreetFails, Notify
  <2>. QED  BY <2>1
<1>2. ASSUME NEW r \in Request,
             \/ Route(r) \/ AnswerInline(r) \/ PostFails(r) \/ Post(r) \/ PostReturns(r)
             \/ Wait(r)
      PROVE  UsesGreeted'
  <2>1. /\ greeted' = greeted
        /\ \A q \in Request \ {r} : pc'[q] = pc[q] /\ on'[q] = on[q]
        /\ pc'[r] \in {"sending", "posted", "waiting"} =>
              \/ on'[r] = on[r] /\ pc[r] \in {"sending", "posted", "waiting"}
              \/ on'[r] = current /\ current # 0 /\ lock = NoOne
    BY <1>2, CallerSteps
  <2>2. current # 0 /\ lock = NoOne => current \in greeted
    BY DEF MutexInv
  <2>. QED  BY <2>1, <2>2
<1>3. ASSUME UNCHANGED <<pc, on, greeted>> PROVE UsesGreeted'
  BY <1>3
<1>4. ASSUME NEW c \in Conn, ReadEvent(c) \/ StreamEnds(c) \/ ServiceNotifies(c)
      PROVE  UNCHANGED <<pc, on, greeted>>
  BY <1>4 DEF ReadEvent, StreamEnds, ServiceNotifies, caller
<1>5. Disconnect \/ UNCHANGED vars => UNCHANGED <<pc, on, greeted>>
  BY DEF Disconnect, vars, caller
<1>. QED  BY <1>1, <1>2, <1>3, <1>4, <1>5 DEF Next

\* How a step may move requests on without touching an answer.
NoAnswerMoves ==
  /\ chan' = chan /\ dropped' = dropped
  /\ \A q \in Request, c \in Conn : q \in owed'[c] <=> q \in owed[c]
  /\ \A c \in 1..made : c \in live' <=> c \in live
  /\ \A q \in Request :
       \/ on'[q] = on[q] /\ (pc'[q] = pc[q] \/ (pc[q] \in Pending /\ pc'[q] \in Pending))
       \/ pc'[q] = "done"
       \/ pc[q] \notin Pending \cup {"done"} /\ pc'[q] \notin Pending

\* The steps that move an answer are those of a post, of a wait and of the stream.
LEMMA AnswerSteps ==
  ASSUME TypeOK, MutexInv, [Next]_vars
  PROVE  \/ \E r \in Request : Post(r) \/ Take(r)
         \/ \E c \in Conn : ReadEvent(c) \/ StreamEnds(c)
         \/ NoAnswerMoves
<1>. USE DEF TypeOK, mutex, caller, streams, Goto, Finish, Pending
<1>0. /\ Syncer \subseteq Request /\ Init1 \notin Request /\ Note \notin Request
      /\ 1..made \subseteq Conn
  BY MCPAssumption DEF Request, Conn
<1>1. ASSUME NEW s \in Syncer, IsConnected(s) \/ Lock(s) PROVE NoAnswerMoves
  <2>1. UNCHANGED <<on, streams>> /\ \E p \in Phases \ Pending : pc' = [pc EXCEPT ![s] = p]
    BY <1>1 DEF IsConnected, Lock, Phases
  <2>2. pc[s] \notin Pending \cup {"done"}
    BY <1>1 DEF IsConnected, Lock
  <2>. QED  BY <1>0, <2>1, <2>2 DEF NoAnswerMoves
<1>2. ASSUME NEW s \in Syncer, Dial(s) PROVE NoAnswerMoves
  <2>1. /\ UNCHANGED <<owed, chan, dropped>> /\ live' = live \cup {made + 1}
        /\ pc[s] = "dialing" /\ pc' = [pc EXCEPT ![s] = "greeting"]
        /\ \A q \in Request \ {s} : on'[q] = on[q]
    BY <1>2 DEF Dial
  <2>2. \A c \in 1..made : c # made + 1
    OBVIOUS
  <2>. QED  BY <1>0, <2>1, <2>2 DEF NoAnswerMoves
<1>3. ASSUME NEW s \in Syncer, DialFails(s) \/ GreetFails(s) \/ Notify(s) PROVE NoAnswerMoves
  <2>1. /\ UNCHANGED streams /\ pc[s] \notin Pending \cup {"done"}
        /\ \E p \in {"done", "routing"} : pc' = [pc EXCEPT ![s] = p]
        /\ \A q \in Request \ {s} : on'[q] = on[q]
    BY <1>3 DEF DialFails, GreetFails, Notify
  <2>. QED  BY <1>0, <2>1 DEF NoAnswerMoves
<1>4. ASSUME NEW s \in Syncer, Greet(s) PROVE NoAnswerMoves
  <2>1. /\ UNCHANGED <<on, chan, live, dropped>>
        /\ pc[s] = "greeting" /\ pc' = [pc EXCEPT ![s] = "notifying"]
        /\ owed' = owed \/ owed' = [owed EXCEPT ![on[s]] = @ \cup {Init1}]
    BY <1>4 DEF Greet, Owes
  <2>2. \A q \in Request, c \in Conn : q \in owed'[c] <=> q \in owed[c]
    <3>1. DOMAIN owed = Conn
      OBVIOUS
    <3>. HIDE DEF TypeOK
    <3>. QED  BY <1>0, <2>1, <3>1
  <2>. QED  BY <1>0, <2>1, <2>2 DEF NoAnswerMoves
<1>5. ASSUME NEW r \in Request, Route(r) \/ AnswerInline(r) \/ PostFails(r) PROVE NoAnswerMoves
  <2>1. /\ UNCHANGED streams /\ pc[r] \notin Pending \cup {"done"}
        /\ \E p \in {"done", "sending"} : pc' = [pc EXCEPT ![r] = p]
        /\ \A q \in Request \ {r} : on'[q] = on[q]
    BY <1>5 DEF Route, AnswerInline, PostFails
  <2>. QED  BY <2>1 DEF NoAnswerMoves
<1>6. ASSUME NEW r \in Request, PostReturns(r) PROVE NoAnswerMoves
  BY <1>6 DEF PostReturns, NoAnswerMoves
<1>7. ASSUME NEW r \in Request, GiveUp(r) PROVE NoAnswerMoves
  BY <1>7 DEF GiveUp, NoAnswerMoves
<1>8. ASSUME NEW c \in Conn, ServiceNotifies(c) PROVE NoAnswerMoves
  <2>1. /\ UNCHANGED <<pc, on, chan, live, dropped>>
        /\ owed' = owed \/ owed' = [owed EXCEPT ![c] = @ \cup {Note}]
    BY <1>8 DEF ServiceNotifies, Owes
  <2>2. \A q \in Request, d \in Conn : q \in owed'[d] <=> q \in owed[d]
    <3>1. DOMAIN owed = Conn
      OBVIOUS
    <3>. HIDE DEF TypeOK
    <3>. QED  BY <1>0, <2>1, <3>1
  <2>. QED  BY <2>1, <2>2 DEF NoAnswerMoves
<1>9. ASSUME Disconnect \/ UNCHANGED vars PROVE NoAnswerMoves
  BY <1>9 DEF Disconnect, vars, NoAnswerMoves
<1>. QED  BY <1>1, <1>2, <1>3, <1>4, <1>5, <1>6, <1>7, <1>8, <1>9 DEF Next, Wait

\* Each answer stays in at most one place, that of its own request's connection.
LEMMA AnswerPlaceStep ==
  ASSUME TypeOK, MutexInv, UsesGreeted, PlaceInv, AnswerIsSomewhere, [Next]_vars
  PROVE  PlaceInv' /\ AnswerIsSomewhere'
<1>. DEFINE Good == PlaceInv /\ AnswerIsSomewhere
<1>. USE DEF Pending
<1>0. /\ \A r \in Request : pc[r] \in {"sending", "posted", "waiting"} => on[r] \in Conn /\ on[r] \in 1..made
      /\ Request \subseteq Event /\ dropped \subseteq Request
  BY MCPAssumption DEF TypeOK, UsesGreeted, Conn, Event
<1>1. ASSUME NoAnswerMoves PROVE Good'
  <2>1. PlaceInv'
    BY <1>0, <1>1 DEF PlaceInv, NoAnswerMoves
  <2>2. AnswerIsSomewhere'
    BY <1>0, <1>1 DEF PlaceInv, AnswerIsSomewhere, NoAnswerMoves
  <2>. QED  BY <2>1, <2>2
<1>2. ASSUME NEW r \in Request, Post(r) PROVE Good'
  <2>. DEFINE c == on[r]
  <2>1. /\ c \in Conn /\ pc[r] = "sending" /\ pc'[r] = "posted"
        /\ UNCHANGED <<on, chan, dropped, live>>
        /\ \A q \in Request \ {r} : pc'[q] = pc[q]
    BY <1>0, <1>2 DEF Post, Goto, TypeOK
  <2>2. /\ \A q \in Request, d \in Conn :
             q \in owed'[d] <=> (q \in owed[d] \/ (c \in live /\ q = r /\ d = c))
    BY <1>2, <2>1 DEF Post, Owes, TypeOK
  <2>3. \A d \in Conn : r \notin owed[d] /\ r \notin Elements(chan[d])
    BY <2>1 DEF PlaceInv
  <2>4. r \notin dropped
    BY <2>1 DEF PlaceInv
  <2>5. PlaceInv'
    BY <1>0, <2>1, <2>2, <2>3, <2>4 DEF PlaceInv
  <2>6. AnswerIsSomewhere'
    BY <1>0, <2>1, <2>2, <2>3, <2>4 DEF AnswerIsSomewhere
  <2>. QED  BY <2>5, <2>6
<1>3. ASSUME NEW r \in Request, Take(r) PROVE Good'
  <2>. DEFINE c == on[r]
              e == Head(chan[c])
  <2>1. /\ c \in Conn /\ pc[r] = "waiting" /\ UNCHANGED <<owed, live>>
        /\ chan[c] \in Seq(Event) /\ chan[c] # <<>>
        /\ \A d \in Conn : chan'[d] = IF d = c THEN Tail(chan[c]) ELSE chan[d]
    BY <1>0, <1>3 DEF Take, TypeOK
  <2>2. /\ \A q \in Request \ {r} : pc'[q] = pc[q] /\ on'[q] = on[q]
        /\ \/ pc'[r] = "done"
           \/ pc'[r] = pc[r] /\ on'[r] = on[r] /\ e # r
    BY <1>3 DEF Take, TypeOK, caller, Finish, Goto
  <2>3. \A q \in Request : q \in dropped' <=> q \in dropped \/ (q = e /\ q # r)
    BY <1>3 DEF Take
  <2>4. \A q \in Request, d \in Conn :
          q \in Elements(chan'[d]) <=> q \in Elements(chan[d]) /\ ~(d = c /\ q = e)
    BY <2>1, TakeEvent DEF PlaceInv
  <2>5. \A d \in Conn : Once(chan'[d])
    BY <2>1, TakeEvent DEF PlaceInv
  <2>6. e \in Elements(chan[c])
    BY <2>1, TakeEvent
  <2>7. PlaceInv'
    <3>1. \A q \in dropped' : q \in Request /\ pc'[q] \in Pending \cup {"done"}
      <4>1. dropped' \subseteq Request
        BY <1>0, <1>3 DEF Take
      <4>2. ASSUME NEW q \in dropped PROVE pc'[q] \in Pending \cup {"done"}
        BY <1>0, <2>1, <2>2 DEF PlaceInv
      <4>3. ASSUME e \in Request, e # r PROVE pc'[e] \in Pending \cup {"done"}
        BY <2>1, <2>2, <2>6, <4>3 DEF PlaceInv
      <4>. QED  BY <2>3, <4>1, <4>2, <4>3
    <3>2. \A q \in Request, d \in Conn :
            (q \in owed'[d] \/ q \in Elements(chan'[d])) /\ pc'[q] # "done" =>
              pc'[q] \in Pending /\ on'[q] = d
      BY <2>1, <2>2, <2>4 DEF PlaceInv
    <3>3. \A q \in Request, d \in Conn : ~(q \in owed'[d] /\ q \in Elements(chan'[d]))
      BY <2>1, <2>4 DEF PlaceInv
    <3>. QED  BY <2>5, <3>1, <3>2, <3>3 DEF PlaceInv
  <2>8. AnswerIsSomewhere'
    BY <1>0, <2>1, <2>2, <2>3, <2>4, <2>6 DEF AnswerIsSomewhere, PlaceInv
  <2>. QED  BY <2>7, <2>8
<1>4. ASSUME NEW c \in Conn, ReadEvent(c) PROVE Good'
  <2>1. PICK e \in owed[c] : /\ chan' = [chan EXCEPT ![c] = Append(@, e)]
                             /\ owed' = [owed EXCEPT ![c] = @ \ {e}]
    BY <1>4 DEF ReadEvent
  <2>2. UNCHANGED <<pc, on, live, dropped>> /\ chan[c] \in Seq(Event) /\ e \in Event
    BY <1>4, <2>1 DEF ReadEvent, caller, TypeOK
  <2>3. \A q \in Request, d \in Conn :
          /\ q \in owed'[d] <=> q \in owed[d] /\ ~(d = c /\ q = e)
          /\ q \in Elements(chan'[d]) <=> q \in Elements(chan[d]) \/ (d = c /\ q = e)
    BY <2>1, <2>2, AppendEvent DEF TypeOK
  <2>4. \A d \in Conn : Once(chan'[d])
    <3>1. e \notin Request \/ e \notin Elements(chan[c])
      BY <2>1 DEF PlaceInv
    <3>2. Once(chan[c])
      BY DEF PlaceInv
    <3>3. Once(Append(chan[c], e))
      BY <2>2, <3>1, <3>2, AppendEvent
    <3>. QED  BY <2>1, <3>3 DEF PlaceInv, TypeOK
  <2>5. PlaceInv'
    BY <1>0, <2>1, <2>2, <2>3, <2>4 DEF PlaceInv
  <2>6. AnswerIsSomewhere'
    BY <1>0, <2>1, <2>2, <2>3 DEF AnswerIsSomewhere
  <2>. QED  BY <2>5, <2>6
<1>5. ASSUME NEW c \in Conn, StreamEnds(c) PROVE Good'
  <2>1. /\ UNCHANGED <<pc, on, chan, dropped>> /\ live' = live \ {c}
        /\ \A q \in Request, d \in Conn : q \in owed'[d] <=> q \in owed[d] /\ d # c
    BY <1>5 DEF StreamEnds, caller, TypeOK
  <2>2. PlaceInv'
    BY <2>1 DEF PlaceInv
  <2>3. AnswerIsSomewhere'
    BY <1>0, <2>1 DEF AnswerIsSomewhere
  <2>. QED  BY <2>2, <2>3
<1>6. Good'
  <2>. HIDE DEF Good
  <2>. QED  BY <1>1, <1>2, <1>3, <1>4, <1>5, AnswerSteps
<1>. QED  BY <1>6

\* A request takes what answers it at once, or an event with its id.
LEMMA OwnStep ==
  ASSUME TypeOK, UsesGreeted, AnswersAreOwn, [Next]_vars
  PROVE  AnswersAreOwn'
<1>. DEFINE Own(r) == (\A e \in Event \ {r} : IdOf[e] # IdOf[r]) => got'[r] \in {None, r}
<1>1. \A r \in Request : (\A e \in Event \ {r} : IdOf[e] # IdOf[r]) => got[r] \in {None, r}
  BY DEF AnswersAreOwn
<1>2. ASSUME UNCHANGED got PROVE \A q \in Request : Own(q)
  BY <1>1, <1>2
<1>3. ASSUME NEW r \in Request, AnswerInline(r) PROVE \A q \in Request : Own(q)
  BY <1>1, <1>3 DEF AnswerInline, TypeOK
<1>4. ASSUME NEW r \in Request, Take(r) PROVE \A q \in Request : Own(q)
  <2>. DEFINE e == Head(chan[on[r]])
  <2>1. chan[on[r]] \in Seq(Event) /\ chan[on[r]] # <<>>
    <3>1. pc[r] = "waiting" /\ chan[on[r]] # <<>>
      BY <1>4 DEF Take
    <3>2. on[r] \in Conn
      BY <3>1, MCPAssumption DEF TypeOK, UsesGreeted, Conn
    <3>. QED  BY <3>1, <3>2 DEF TypeOK
  <2>2. e \in Event
    BY <2>1, TakeEvent
  <2>3. got' = got \/ (got' = [got EXCEPT ![r] = e] /\ IdOf[e] = IdOf[r])
    BY <1>4 DEF Take, caller
  <2>4. got \in [Request -> Event \cup {None}]
    BY DEF TypeOK
  <2>. HIDE DEF e
  <2>. QED  BY <1>1, <2>2, <2>3, <2>4
<1>5. ASSUME NEW r \in Request, Route(r) \/ PostFails(r) \/ Post(r) \/ PostReturns(r) \/ GiveUp(r)
      PROVE  got' = got
  BY <1>5 DEF Route, PostFails, Post, PostReturns, GiveUp
<1>6. ASSUME NEW s \in Syncer,
             IsConnected(s) \/ Lock(s) \/ Dial(s) \/ DialFails(s) \/ Greet(s) \/ GreetFails(s)
               \/ Notify(s)
      PROVE  got' = got
  BY <1>6 DEF IsConnected, Lock, Dial, DialFails, Greet, GreetFails, Notify
<1>7. ASSUME NEW c \in Conn, ReadEvent(c) \/ StreamEnds(c) \/ ServiceNotifies(c)
      PROVE  got' = got
  BY <1>7 DEF ReadEvent, StreamEnds, ServiceNotifies, caller
<1>8. Disconnect \/ UNCHANGED vars => got' = got
  BY DEF Disconnect, vars, caller
<1>9. \A q \in Request : Own(q)
  <2>. HIDE DEF Own
  <2>. QED  BY <1>2, <1>3, <1>4, <1>5, <1>6, <1>7, <1>8 DEF Next, Wait
<1>. QED  BY <1>9 DEF AnswersAreOwn

LEMMA MCPInit == Init => MCPInv
<1>. SUFFICES ASSUME Init PROVE MCPInv
  OBVIOUS
<1>0. NoOne \notin Request /\ ChanCap \in Nat /\ MaxConn \in Nat /\ MaxNotes \in Nat
      /\ MaxFaults \in Nat
  BY MCPAssumption
<1>1. /\ lock = NoOne /\ current = 0 /\ made = 0 /\ greeted = {} /\ live = {} /\ dropped = {}
      /\ notes = 0 /\ faults = 0
      /\ \A r \in Request : pc[r] = "idle" /\ on[r] = 0 /\ got[r] = None
      /\ \A c \in Conn : owed[c] = {} /\ chan[c] = <<>>
  BY DEF Init
<1>2. TypeOK
  <2>1. lock \in Request \cup {NoOne} /\ current \in 0..made /\ made \in 0..MaxConn
        /\ notes \in 0..MaxNotes /\ faults \in 0..MaxFaults
        /\ live \subseteq 1..made /\ greeted \subseteq 1..made /\ dropped \subseteq Request
    BY <1>0, <1>1
  <2>2. pc \in [Request -> Phases] /\ on \in [Request -> 0..made]
        /\ got \in [Request -> Event \cup {None}]
    BY DEF Init, Phases
  <2>3. owed \in [Conn -> SUBSET Event] /\ chan \in [Conn -> Seq(Event)]
    BY DEF Init
  <2>4. \A c \in Conn : Len(chan[c]) <= ChanCap
    BY <1>0, <1>1
  <2>. QED  BY <2>1, <2>2, <2>3, <2>4 DEF TypeOK
<1>3. MutexInv
  BY <1>0, <1>1 DEF MutexInv, Connecting
<1>4. UsesGreeted /\ AnswerIsSomewhere /\ AnswersAreOwn
  BY <1>1 DEF UsesGreeted, AnswerIsSomewhere, AnswersAreOwn
<1>5. PlaceInv
  <2>1. Elements(<<>>) = {} /\ Once(<<>>)
    BY DEF Elements, Once
  <2>. QED  BY <1>1, <2>1 DEF PlaceInv
<1>. QED  BY <1>2, <1>3, <1>4, <1>5 DEF MCPInv

\* The inductive invariant.  MutexInv says what holding Proxy.mu from the dial to the end of
\* the handshake keeps in step, PlaceInv that an answer is only where its request looks.
THEOREM MCPInvariant == Spec => []MCPInv
<1>1. Init => MCPInv
  BY MCPInit
<1>2. MCPInv /\ [Next]_vars => MCPInv'
  <2>. SUFFICES ASSUME MCPInv, [Next]_vars PROVE MCPInv'
    OBVIOUS
  <2>1. TypeOK /\ MutexInv /\ UsesGreeted /\ PlaceInv /\ AnswerIsSomewhere /\ AnswersAreOwn
    BY DEF MCPInv
  <2>2. TypeOK'
    BY <2>1, MCPTypeStep
  <2>3. MutexInv'
    BY <2>1, MutexStep
  <2>4. UsesGreeted'
    BY <2>1, GreetedStep
  <2>5. PlaceInv' /\ AnswerIsSomewhere'
    BY <2>1, AnswerPlaceStep
  <2>6. AnswersAreOwn'
    BY <2>1, OwnStep
  <2>. QED  BY <2>2, <2>3, <2>4, <2>5, <2>6 DEF MCPInv
<1>. QED  BY <1>1, <1>2, PTL DEF Spec

\* Type correctness: among others, the event channel never holds more than its capacity.
THEOREM MCPTypes == Spec => []TypeOK
<1>1. MCPInv => TypeOK
  BY DEF MCPInv
<1>. QED  BY <1>1, MCPInvariant, PTL

\* ForwardRequest returns to a request whose id nothing else has its own answer or an error,
\* for any number of requests that read one channel.
THEOREM MCPOwnAnswers == Spec => []AnswersAreOwn
<1>1. MCPInv => AnswersAreOwn
  BY DEF MCPInv
<1>. QED  BY <1>1, MCPInvariant, PTL

\* The answer to a waiting request is owed, in its channel or thrown away by another request
\* while the stream is open (waitForResponse, readEvents), in one of these places only.
THEOREM MCPAnswerPlace == Spec => []AnswerIsSomewhere
<1>1. MCPInv => AnswerIsSomewhere
  BY DEF MCPInv
<1>. QED  BY <1>1, MCPInvariant, PTL

\* ForwardRequest never uses a connection whose handshake ConnectService has not posted.
THEOREM MCPGreeted == Spec => []UsesGreeted
<1>1. MCPInv => UsesGreeted
  BY DEF MCPInv
<1>. QED  BY <1>1, MCPInvariant, PTL

\* ConnectService replaces no connection, for any number of concurrent calls.
THEOREM MCPNoReplacement == Spec => NoConnectionReplaced
<1>1. MCPInv /\ [Next]_vars => [current' = current \/ current = 0 \/ current' = 0]_vars
  <2>. SUFFICES ASSUME MCPInv, [Next]_vars
                PROVE  current' = current \/ current = 0 \/ current' = 0
    OBVIOUS
  <2>0. Syncer \subseteq Request
    BY DEF Request
  <2>1. ASSUME NEW s \in Syncer, Dial(s) PROVE current = 0
    BY <2>0, <2>1 DEF Dial, MCPInv, MutexInv
  <2>2. ASSUME NEW s \in Syncer,
               IsConnected(s) \/ Lock(s) \/ DialFails(s) \/ Greet(s) \/ GreetFails(s) \/ Notify(s)
        PROVE  current' = current
    BY <2>2 DEF IsConnected, Lock, DialFails, Greet, GreetFails, Notify, mutex
  <2>3. ASSUME NEW r \in Request,
               \/ Route(r) \/ AnswerInline(r) \/ PostFails(r) \/ Post(r) \/ PostReturns(r)
               \/ Wait(r)
        PROVE  current' = current
    <3>1. UNCHANGED mutex
      BY <2>3, CallerSteps DEF MCPInv
    <3>. QED  BY <3>1 DEF mutex
  <2>4. ASSUME NEW c \in Conn, ReadEvent(c) \/ StreamEnds(c) \/ ServiceNotifies(c)
        PROVE  current' = current
    BY <2>4 DEF ReadEvent, StreamEnds, ServiceNotifies, mutex
  <2>5. Disconnect => current' = 0
    BY DEF Disconnect
  <2>6. UNCHANGED vars => current' = current
    BY DEF vars, mutex
  <2>. QED  BY <2>1, <2>2, <2>3, <2>4, <2>5, <2>6 DEF Next
<1>. QED  BY <1>1, MCPInvariant, PTL DEF Spec, NoConnectionReplaced
=============================================================================
