--------------------------- MODULE LoadBalancer ---------------------------
(***************************************************************************)
(* The load balancer of pkg/llm/balancer.go: SelectProvider picks a node   *)
(* for a call, first by the user's affinity and then by weight, and the    *)
(* lbProviderWrapper it returns gives the connection back when the call is *)
(* over.  UpdateNodes replaces the node list by fresh node objects while   *)
(* calls are in flight on the old ones, so a node is a backend together    *)
(* with the generation of the list it was created for.                     *)
(***************************************************************************)
EXTENDS Integers, FiniteSets

CONSTANTS Request,      \* callers, each making one call at a time
          Backend,      \* ids of the configured backends
          User,         \* users (the key of the affinity entry)
          Model,        \* model names requested
          MaxConn,      \* max_concurrency of each backend
          Serves,       \* models each backend's patterns match
          Owner,        \* the user behind each caller
          MaxSelecting, \* bound: callers that are between filter and count at once
          MaxGen        \* bound: replacements of the node list

ASSUME LBAssumption ==
  /\ IsFiniteSet(Request)
  /\ MaxConn \in [Backend -> Nat \ {0}]
  /\ Serves \in [Backend -> SUBSET Model]
  /\ Owner \in [Request -> User]
  /\ MaxSelecting \in Nat \ {0}
  /\ MaxGen \in Nat

VARIABLES
  nodes,    \* lb.nodes: the node objects of the current list
  gen,      \* how often the list was replaced
  active,   \* LBNode.active of every node object, retired ones included
  affinity, \* codemind:lb:affinity:{user} in Redis
  pc,       \* where each call stands
  cand,     \* candidates a caller filtered
  chosen    \* node object a caller holds in its wrapper

lbVars == <<nodes, gen, active, affinity, pc, cand, chosen>>

Node == [id : Backend, gen : 0..MaxGen]
None == [id |-> "none", gen |-> 0]

\* "closed": a stream whose releaseOnCloseReader.once has fired.
Phases == {"idle", "filtered", "picked", "calling", "streaming", "closed"}

Selecting == {r \in Request : pc[r] \in {"filtered", "picked"}}

\* Callers whose connection on n is counted: from active.Add(1) to the release.
OnNode(n) == {r \in Request : pc[r] \in {"calling", "streaming"} /\ chosen[r] = n}

\* Callers that may still add themselves to n.
Heading(n) == {r \in Request : \/ pc[r] = "filtered" /\ n \in cand[r]
                               \/ pc[r] = "picked" /\ chosen[r] = n}

LBTypeOK ==
  /\ nodes \in SUBSET Node
  /\ gen \in 0..MaxGen
  /\ active \in [Node -> Nat]
  /\ affinity \in [User -> Backend \cup {None}]
  /\ pc \in [Request -> Phases]
  /\ cand \in [Request -> SUBSET Node]
  /\ chosen \in [Request -> Node \cup {None}]

LBInit ==
  /\ gen = 0
  /\ \E ids \in SUBSET Backend : nodes = {[id |-> b, gen |-> 0] : b \in ids}
  /\ active = [n \in Node |-> 0]
  /\ affinity = [u \in User |-> None]
  /\ pc = [r \in Request |-> "idle"]
  /\ cand = [r \in Request |-> {}]
  /\ chosen = [r \in Request |-> None]

-----------------------------------------------------------------------------
\* UpdateNodes: the list becomes fresh objects, healthy and with no active call.
UpdateNodes(ids) ==
  /\ gen < MaxGen
  /\ gen' = gen + 1
  /\ nodes' = {[id |-> b, gen |-> gen + 1] : b \in ids}
  /\ UNCHANGED <<active, affinity, pc, cand, chosen>>

\* Seeded fault: the limit itself is still let in.
FilterByModelOffByOne(m) ==
  {n \in nodes : active[n] <= MaxConn[n.id] /\ m \in Serves[n.id]}

\* filterByModel: current nodes below their limit that match the model.
FilterByModel(m) ==
  {n \in nodes : active[n] < MaxConn[n.id] /\ m \in Serves[n.id]}

\* SelectProvider, under the read lock.  A call that finds no candidate is routed
\* statically, on a provider that is no node: it changes nothing here.
Filter(r, m) ==
  /\ pc[r] = "idle"
  /\ Cardinality(Selecting) < MaxSelecting
  /\ FilterByModel(m) # {}
  /\ cand' = [cand EXCEPT ![r] = FilterByModel(m)]
  /\ pc' = [pc EXCEPT ![r] = "filtered"]
  /\ UNCHANGED <<nodes, gen, active, affinity, chosen>>

\* getAffinityNode: the remembered backend, if a candidate of it still has room.
AffinityNodes(r) ==
  {n \in cand[r] : n.id = affinity[Owner[r]] /\ active[n] < MaxConn[n.id]}

Pick(r, n) ==
  /\ chosen' = [chosen EXCEPT ![r] = n]
  /\ pc' = [pc EXCEPT ![r] = "picked"]
  /\ cand' = [cand EXCEPT ![r] = {}]

PickAffinity(r) ==
  /\ pc[r] = "filtered"
  /\ \E n \in AffinityNodes(r) : Pick(r, n)
  /\ UNCHANGED <<nodes, gen, active, affinity>>

\* Otherwise, or when the GET of the affinity fails (missed): weightedSelect may return any
\* candidate, every weight being at least 1, and setAffinity remembers it unless the SET
\* is lost.
PickWeighted(r, missed, lost) ==
  /\ pc[r] = "filtered"
  /\ missed \/ AffinityNodes(r) = {}
  /\ \E n \in cand[r] :
       /\ Pick(r, n)
       /\ affinity' = IF lost THEN affinity ELSE [affinity EXCEPT ![Owner[r]] = n.id]
  /\ UNCHANGED <<nodes, gen, active>>

\* The affinity entry expires.
AffinityExpires(u) ==
  /\ affinity[u] # None
  /\ affinity' = [affinity EXCEPT ![u] = None]
  /\ UNCHANGED <<nodes, gen, active, pc, cand, chosen>>

\* node.active.Add(1), outside any lock, and the wrapper goes to the handler.
CountIn(r) ==
  /\ pc[r] = "picked"
  /\ active' = [active EXCEPT ![chosen[r]] = @ + 1]
  /\ pc' = [pc EXCEPT ![r] = "calling"]
  /\ UNCHANGED <<nodes, gen, affinity, cand, chosen>>

\* Seeded fault: ReleaseConnection by id, on whatever list is current.
ReleaseById(r) ==
  active' = [n \in Node |->
               IF n \in nodes /\ n.id = chosen[r].id
                 THEN IF active[n] - 1 < 0 THEN 0 ELSE active[n] - 1
                 ELSE active[n]]

\* lbProviderWrapper.release: Add(-1), a negative result is reset to 0.
Release(r) ==
  active' = [active EXCEPT ![chosen[r]] = IF @ - 1 < 0 THEN 0 ELSE @ - 1]

End(r) ==
  /\ pc' = [pc EXCEPT ![r] = "idle"]
  /\ chosen' = [chosen EXCEPT ![r] = None]

\* A unary method returns, with or without an error: its deferred release runs.
UnaryReturns(r) ==
  /\ pc[r] = "calling"
  /\ Release(r)
  /\ End(r)
  /\ UNCHANGED <<nodes, gen, affinity, cand>>

\* Seeded fault: an error return of a stream method that forgets the release.
StreamFailsKeeps(r) ==
  /\ pc[r] = "calling"
  /\ End(r)
  /\ UNCHANGED <<nodes, gen, affinity, cand, active>>

\* A stream method fails to open: released at once.
StreamFails(r) ==
  /\ pc[r] = "calling"
  /\ Release(r)
  /\ End(r)
  /\ UNCHANGED <<nodes, gen, affinity, cand>>

\* A stream opens: the release is left to the reader's Close.
StreamOpens(r) ==
  /\ pc[r] = "calling"
  /\ pc' = [pc EXCEPT ![r] = "streaming"]
  /\ UNCHANGED <<nodes, gen, active, affinity, cand, chosen>>

\* Seeded fault: releaseOnCloseReader without its sync.Once.
CloseNoOnce(r) ==
  /\ pc[r] \in {"streaming", "closed"}
  /\ Release(r)
  /\ pc' = [pc EXCEPT ![r] = "closed"]
  /\ UNCHANGED <<nodes, gen, affinity, cand, chosen>>

\* releaseOnCloseReader.Close: handlers may call it twice, by two defers on one body.
Close(r) ==
  /\ pc[r] \in {"streaming", "closed"}
  /\ IF pc[r] = "closed" THEN UNCHANGED active ELSE Release(r)
  /\ pc' = [pc EXCEPT ![r] = "closed"]
  /\ UNCHANGED <<nodes, gen, affinity, cand, chosen>>

\* The handler that read the stream returns, after at least one Close.
StreamDone(r) ==
  /\ pc[r] = "closed"
  /\ End(r)
  /\ UNCHANGED <<nodes, gen, active, affinity, cand>>

Call(r) ==
  \/ \E m \in Model : Filter(r, m)
  \/ PickAffinity(r)
  \/ \E missed, lost \in BOOLEAN : PickWeighted(r, missed, lost)
  \/ CountIn(r)
  \/ UnaryReturns(r) \/ StreamFails(r) \/ StreamOpens(r)
  \/ Close(r) \/ StreamDone(r)

LBNext ==
  \/ \E ids \in SUBSET Backend : UpdateNodes(ids)
  \/ \E r \in Request : Call(r)
  \/ \E u \in User : AffinityExpires(u)

LBSpec == LBInit /\ [][LBNext]_lbVars

-----------------------------------------------------------------------------
(***************************************************************************)
(* Properties                                                              *)
(***************************************************************************)

\* Every node object counts exactly the calls in flight on it, whatever list is current
\* and however often handlers close a stream: nothing is released twice, on another
\* object, or never.
ActiveCountsCalls == \A n \in Node : active[n] = Cardinality(OnNode(n))

\* The check in filterByModel and the Add in SelectProvider are not atomic, so a node can
\* go over its max_concurrency, but by no more than the callers that select at once, and
\* not at all when they select one at a time.
OverloadIsBounded ==
  \A n \in Node : active[n] + Cardinality(Heading(n)) < MaxConn[n.id] + MaxSelecting
=============================================================================
