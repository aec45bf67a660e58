----------------------------- MODULE MCPProxy -----------------------------
(***************************************************************************)
(* The MCP gateway's connection to one upstream service (pkg/mcp/proxy.go, *)
(* pkg/mcp/transport.go, SyncTools and DeleteService of service/mcp.go).   *)
(*                                                                         *)
(* Requests of clients and of SyncTools look the connection up under a     *)
(* lock, post their request without it, and read the answer from an event  *)
(* channel that all of them share: an answer that is not one's own is      *)
(* thrown away.  SyncTools connects first, with the lock held from the     *)
(* dial to the end of the handshake.  What the upstream service does is    *)
(* external.                                                               *)
(***************************************************************************)
EXTENDS Integers, FiniteSets, Sequences

CONSTANTS Client,     \* forwarded requests of clients
          Syncer,     \* calls of SyncTools
          Init1,      \* the answer to the handshake's initialize request
          Note,       \* a message of the service that answers nothing
          NoOne, None,
          IdOf,       \* id of a request or message, as fmt formats it
          ChanCap,    \* capacity of the event channel
          MaxConn,    \* bound: connections made
          MaxNotes,   \* bound: messages of the service
          MaxFaults   \* bound: failing dials and posts

Request == Client \cup Syncer
Event   == Request \cup {Init1, Note}
Conn    == 1..MaxConn

ASSUME MCPAssumption ==
  /\ Client \cap Syncer = {} /\ Init1 \notin Request /\ Note \notin Request \cup {Init1}
  /\ NoOne \notin Request /\ None \notin Event
  /\ DOMAIN IdOf = Event
  /\ ChanCap \in Nat \ {0} /\ MaxConn \in Nat /\ MaxNotes \in Nat /\ MaxFaults \in Nat

VARIABLES
  lock,    \* who holds Proxy.mu for writing
  current, \* Proxy.connections[name], 0 when there is none
  made,    \* connections made so far
  pc,      \* where each request stands
  on,      \* the connection it has, a copy of current; 0 when none
  got,     \* the answer it returned
  owed,    \* messages the service still has to send on a connection
  chan,    \* ServiceConnection.Events
  live,    \* connections whose stream is open
  greeted, \* history: connections on which the handshake was posted
  dropped, \* history: requests whose answer another request threw away
  notes, faults

mutex   == <<lock, current, made, greeted>>
caller  == <<pc, on, got>>
streams == <<owed, chan, live, dropped, notes>>
vars == <<mutex, caller, streams, faults>>

Phases == {"idle", "connecting", "dialing", "greeting", "notifying", "routing", "sending",
           "posted", "waiting", "done"}

TypeOK ==
  /\ lock \in Request \cup {NoOne}
  /\ current \in 0..made
  /\ made \in 0..MaxConn
  /\ pc \in [Request -> Phases]
  /\ on \in [Request -> 0..made]
  /\ got \in [Request -> Event \cup {None}]
  /\ owed \in [Conn -> SUBSET Event]
  /\ chan \in [Conn -> Seq(Event)] /\ \A c \in Conn : Len(chan[c]) <= ChanCap
  /\ live \subseteq 1..made
  /\ greeted \subseteq 1..made
  /\ dropped \subseteq Request
  /\ notes \in 0..MaxNotes /\ faults \in 0..MaxFaults

Init ==
  /\ lock = NoOne /\ current = 0 /\ made = 0 /\ greeted = {}
  /\ pc = [r \in Request |-> "idle"]
  /\ on = [r \in Request |-> 0] /\ got = [r \in Request |-> None]
  /\ owed = [c \in Conn |-> {}] /\ chan = [c \in Conn |-> <<>>] /\ live = {}
  /\ dropped = {} /\ notes = 0 /\ faults = 0

Goto(r, p) == pc' = [pc EXCEPT ![r] = p]

\* The request returns; its copy of the connection goes.
Finish(r) == Goto(r, "done") /\ on' = [on EXCEPT ![r] = 0]

\* The service takes a message to send, which comes to nothing when the stream is closed.
Owes(c, e) == owed' = IF c \in live THEN [owed EXCEPT ![c] = @ \cup {e}] ELSE owed

Fault == faults < MaxFaults /\ faults' = faults + 1

-----------------------------------------------------------------------------
(***************************************************************************)
(* SyncTools, ConnectService                                               *)
(***************************************************************************)
\* IsConnected, under the read lock.
IsConnected(s) ==
  /\ pc[s] = "idle" /\ lock = NoOne
  /\ Goto(s, IF current # 0 THEN "routing" ELSE "connecting")
  /\ UNCHANGED <<mutex, on, got, streams, faults>>

\* Seeded fault: ConnectService does not look again under its lock.
LockBlind(s) ==
  /\ pc[s] = "connecting" /\ lock = NoOne
  /\ made < MaxConn /\ lock' = s /\ Goto(s, "dialing")
  /\ UNCHANGED <<current, made, greeted, on, got, streams, faults>>

\* ConnectService takes the lock and looks again: another one may have connected.
Lock(s) ==
  /\ pc[s] = "connecting" /\ lock = NoOne
  /\ IF current # 0
       THEN lock' = lock /\ Goto(s, "routing")
       ELSE made < MaxConn /\ lock' = s /\ Goto(s, "dialing")
  /\ UNCHANGED <<current, made, greeted, on, got, streams, faults>>

\* Seeded fault: the lock is given back before the handshake.
DialUnlocks(s) ==
  /\ pc[s] = "dialing"
  /\ made' = made + 1 /\ current' = made' /\ lock' = NoOne
  /\ on' = [on EXCEPT ![s] = made'] /\ live' = live \cup {made'}
  /\ Goto(s, "greeting")
  /\ UNCHANGED <<greeted, got, owed, chan, dropped, notes, faults>>

\* Connect returns with the endpoint, and the connection is in the map.
Dial(s) ==
  /\ pc[s] = "dialing"
  /\ made' = made + 1 /\ current' = made'
  /\ on' = [on EXCEPT ![s] = made'] /\ live' = live \cup {made'}
  /\ Goto(s, "greeting")
  /\ UNCHANGED <<lock, greeted, got, owed, chan, dropped, notes, faults>>

\* No stream, or no endpoint as its first event within the timeout.
DialFails(s) ==
  /\ pc[s] = "dialing"
  /\ lock' = NoOne /\ Goto(s, "done")
  /\ Fault
  /\ UNCHANGED <<current, made, greeted, on, got, streams>>

\* initializeService posts the initialize request, whose answer the service returns at
\* once or owes on the stream, where nobody waits for it.
Greet(s) ==
  /\ pc[s] = "greeting"
  /\ greeted' = greeted \cup {on[s]}
  /\ owed' = owed \/ Owes(on[s], Init1)
  /\ Goto(s, "notifying")
  /\ UNCHANGED <<lock, current, made, on, got, chan, live, dropped, notes, faults>>

\* ... its failure is only logged, and the second post is left out ...
GreetFails(s) ==
  /\ pc[s] = "greeting"
  /\ greeted' = greeted \cup {on[s]} /\ lock' = NoOne
  /\ Goto(s, "routing") /\ on' = [on EXCEPT ![s] = 0]
  /\ Fault
  /\ UNCHANGED <<current, made, got, streams>>

\* ... and so is that of the second, which has no answer.
Notify(s) ==
  /\ pc[s] = "notifying"
  /\ lock' = NoOne
  /\ Goto(s, "routing") /\ on' = [on EXCEPT ![s] = 0]
  /\ UNCHANGED <<current, made, greeted, got, streams, faults>>

\* DeleteService, DisconnectService: the entry goes, the stream and its users stay.
Disconnect ==
  /\ lock = NoOne /\ current # 0
  /\ current' = 0
  /\ UNCHANGED <<lock, made, greeted, caller, streams, faults>>

-----------------------------------------------------------------------------
(***************************************************************************)
(* ForwardRequest                                                          *)
(***************************************************************************)
\* The connection is read under the read lock and used without it.
Route(r) ==
  /\ pc[r] = IF r \in Client THEN "idle" ELSE "routing"
  /\ lock = NoOne
  /\ IF current = 0
       THEN on' = on /\ Goto(r, "done")
       ELSE on' = [on EXCEPT ![r] = current] /\ Goto(r, "sending")
  /\ UNCHANGED <<mutex, got, streams, faults>>

\* SendMessage: the service answers in the response,
AnswerInline(r) ==
  /\ pc[r] = "sending"
  /\ got' = [got EXCEPT ![r] = r] /\ Finish(r)
  /\ UNCHANGED <<mutex, streams, faults>>

\* ... refuses or cannot be reached,
PostFails(r) ==
  /\ pc[r] = "sending"
  /\ Finish(r)
  /\ Fault
  /\ UNCHANGED <<mutex, got, streams>>

\* ... or takes the request and owes the answer on the stream; the post returns later.
Post(r) ==
  /\ pc[r] = "sending"
  /\ Owes(on[r], r)
  /\ Goto(r, "posted")
  /\ UNCHANGED <<mutex, on, got, chan, live, dropped, notes, faults>>

PostReturns(r) ==
  /\ pc[r] = "posted"
  /\ Goto(r, "waiting")
  /\ UNCHANGED <<mutex, on, got, streams, faults>>

\* Seeded fault: the first answer is taken for one's own.
TakeAny(r) ==
  /\ pc[r] = "waiting" /\ chan[on[r]] # <<>>
  /\ chan' = [chan EXCEPT ![on[r]] = Tail(@)]
  /\ got' = [got EXCEPT ![r] = Head(chan[on[r]])] /\ Finish(r)
  /\ UNCHANGED <<mutex, owed, live, dropped, notes, faults>>

\* waitForResponse: the next event is returned if its id is the request's, else dropped.
Take(r) ==
  /\ pc[r] = "waiting" /\ chan[on[r]] # <<>>
  /\ LET e == Head(chan[on[r]])
     IN  IF IdOf[e] = IdOf[r]
           THEN /\ got' = [got EXCEPT ![r] = e] /\ Finish(r)
                /\ dropped' = IF e \in Request \ {r} THEN dropped \cup {e} ELSE dropped
           ELSE /\ dropped' = IF e \in Request THEN dropped \cup {e} ELSE dropped
                /\ UNCHANGED caller
  /\ chan' = [chan EXCEPT ![on[r]] = Tail(@)]
  /\ UNCHANGED <<mutex, owed, live, notes, faults>>

\* Seeded fault: the end of the channel is not looked at.
GiveUpNever(r) ==
  /\ pc[r] = "waiting" /\ chan[on[r]] = <<>> /\ on[r] \notin live
  /\ UNCHANGED vars

\* The channel is closed and empty: the error that speaks of a timeout.
GiveUp(r) ==
  /\ pc[r] = "waiting" /\ chan[on[r]] = <<>> /\ on[r] \notin live
  /\ Finish(r)
  /\ UNCHANGED <<mutex, got, streams, faults>>

-----------------------------------------------------------------------------
(***************************************************************************)
(* The stream                                                              *)
(***************************************************************************)
\* Seeded fault: what does not fit the channel is dropped.
ReadEventDrops(c) ==
  /\ c \in live
  /\ \E e \in owed[c] : /\ chan' = IF Len(chan[c]) < ChanCap
                                   THEN [chan EXCEPT ![c] = Append(@, e)] ELSE chan
                        /\ owed' = [owed EXCEPT ![c] = @ \ {e}]
  /\ UNCHANGED <<mutex, caller, live, dropped, notes, faults>>

\* readEvents: the next message, in the order the service likes; a full channel blocks.
ReadEvent(c) ==
  /\ c \in live /\ Len(chan[c]) < ChanCap
  /\ \E e \in owed[c] : /\ chan' = [chan EXCEPT ![c] = Append(@, e)]
                        /\ owed' = [owed EXCEPT ![c] = @ \ {e}]
  /\ UNCHANGED <<mutex, caller, live, dropped, notes, faults>>

\* The stream ends, and the channel is closed; the map keeps the connection.
StreamEnds(c) ==
  /\ c \in live
  /\ live' = live \ {c}
  /\ owed' = [owed EXCEPT ![c] = {}]
  /\ UNCHANGED <<mutex, caller, chan, dropped, notes, faults>>

\* The service sends a message of its own.
ServiceNotifies(c) ==
  /\ c \in live /\ notes < MaxNotes
  /\ notes' = notes + 1
  /\ Owes(c, Note)
  /\ UNCHANGED <<mutex, caller, chan, live, dropped, faults>>

Wait(r) == Take(r) \/ GiveUp(r)

Next ==
  \/ \E s \in Syncer : \/ IsConnected(s) \/ Lock(s) \/ Dial(s) \/ DialFails(s)
                       \/ Greet(s) \/ GreetFails(s) \/ Notify(s)
  \/ \E r \in Request : \/ Route(r) \/ AnswerInline(r) \/ PostFails(r) \/ Post(r)
                        \/ PostReturns(r) \/ Wait(r)
  \/ \E c \in Conn : ReadEvent(c) \/ StreamEnds(c) \/ ServiceNotifies(c)
  \/ Disconnect

Spec == Init /\ [][Next]_vars

\* The waiters and the reader go on, and the service sends what it owes while the stream is
\* open.  Nothing is assumed of dials, posts, disconnects and stream ends.
Fairness ==
  /\ \A r \in Request : WF_vars(Wait(r))
  /\ \A c \in Conn : WF_vars(ReadEvent(c))

FairSpec == Spec /\ Fairness

-----------------------------------------------------------------------------
(***************************************************************************)
(* Properties                                                              *)
(***************************************************************************)
Elements(s) == {s[i] : i \in DOMAIN s}

\* A request whose id nothing else on the stream has returns its own answer or an error,
\* although all requests read one channel.  (An id that the handshake or another client
\* uses too may return the wrong answer.)
AnswersAreOwn ==
  \A r \in Request :
    (\A e \in Event \ {r} : IdOf[e] # IdOf[r]) => got[r] \in {None, r}

\* The answer to a request that waits is still to come, in the channel of the request's own
\* connection, or was thrown away by another request, unless the stream has ended: in at
\* most one of these places, whatever is connected and disconnected meanwhile.
AnswerIsSomewhere ==
  \A r \in Request : pc[r] \in {"posted", "waiting"} =>
    LET c == on[r]
        due == r \in owed[c]
        come == r \in Elements(chan[c])
        gone == r \in dropped
    IN  /\ due \/ come \/ gone \/ c \notin live
        /\ ~(due /\ come) /\ ~(due /\ gone) /\ ~(come /\ gone)

\* No request uses a connection before its handshake was posted: the lock is held until then.
UsesGreeted ==
  \A r \in Request : pc[r] \in {"sending", "posted", "waiting"} => on[r] \in greeted

\* A connection in the map is never replaced by another one: two SyncTools that both find
\* no connection make one.
NoConnectionReplaced == [][current' = current \/ current = 0 \/ current' = 0]_vars

\* The wait has no timeout; it ends nevertheless, with a full channel too, unless another
\* request threw the answer away.
UnansweredIsDropped ==
  \A r \in Request : pc[r] = "waiting" ~> (pc[r] = "done" \/ r \in dropped)
=============================================================================
