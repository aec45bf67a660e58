----------------------- MODULE ThirdPartyRoutesProofs -----------------------
(***************************************************************************)
(* Proofs about ThirdPartyRoutes, for every set of requests, console       *)
(* requests, providers and models, every TTL and stall: answers are        *)
(* timely, models exclusive and the hash right but for the races that the  *)
(* properties name, and cached routes are usable.                          *)
(***************************************************************************)
EXTENDS ThirdPartyRoutes, TLAPS

CacheTypes ==
  /\ watched.model \in Model
  /\ hash \in RouteMap
  /\ ttl \in {NoHash, Persistent} \cup 1..CacheTTL
  /\ ttl = NoHash => hash = Empty
  /\ pc \in [Request -> {"idle", "missed", "absent", "loaded", "filled", "answered"}]
  /\ asks \in [Request -> Model]
  /\ routes \in [Request -> RouteMap]
  /\ stall \in [Request -> 0..MaxStall]
  /\ age \in 0..Staleness
  /\ unbounded \in BOOLEAN /\ faults \in Nat

\* The history knows what the rows say now.
HistoryIsCurrent == watched.route \in RightAnswers(watched.model) => age = 0

\* What a request read from the rows is as old as its stall, at most.
Holds(r) == pc[r] \in {"loaded", "filled"} /\ routes[r][watched.model] = watched.route
LoadedIsFresh == \A r \in Request : Holds(r) => age <= stall[r]

\* A hash without expiry has a request that is about to set one.
ExpiryFollows == ttl = Persistent /\ ~unbounded => \E r \in Request : pc[r] = "filled"

\* Who is filling the hash saw none when it began, so whatever the hash holds was written
\* since, by a request that stalled no longer than MaxStall.  With an expiry, what the hash
\* holds is as old as those two stalls and the time it has been kept, at most.
Cached == ttl # NoHash /\ hash[watched.model] = watched.route /\ ~unbounded
HashIsFresh ==
  Cached =>
    /\ \A r \in Request : Filling(r) => age <= MaxStall + stall[r]
    /\ ttl # Persistent => age <= Staleness - ttl

RoutesInv == CacheTypes /\ HistoryIsCurrent /\ LoadedIsFresh /\ ExpiryFollows /\ HashIsFresh

-----------------------------------------------------------------------------
LEMMA StalenessIsNat == Staleness \in Nat /\ CacheTTL + MaxStall + MaxStall = Staleness
BY RoutesAssumption DEF Staleness

LEMMA EmptyIsMap == Empty \in RouteMap /\ \A m \in Model : Empty[m] = NoRoute
BY DEF Empty, RouteMap

\* The invariant holds at the start: there is no hash, and nothing was read.
LEMMA RoutesInit == Init => RoutesInv
<1>. SUFFICES ASSUME Init PROVE RoutesInv
  OBVIOUS
<1>1. age \in 0..Staleness /\ HistoryIsCurrent
  <2>1. age = IF watched.route \in RightAnswers(watched.model) THEN 0 ELSE Staleness
    BY DEF Init
  <2>. QED  BY <2>1, StalenessIsNat DEF HistoryIsCurrent
<1>2. CacheTypes
  <2>1. watched.model \in Model
    BY DEF Init
  <2>2. hash = Empty /\ ttl = NoHash /\ unbounded = FALSE /\ faults = 0
    BY DEF Init
  <2>3. routes \in [Request -> RouteMap] /\ hash \in RouteMap
    BY EmptyIsMap DEF Init
  <2>4. stall \in [Request -> 0..MaxStall]
    BY RoutesAssumption DEF Init
  <2>5. pc \in [Request -> {"idle", "missed", "absent", "loaded", "filled", "answered"}]
    BY DEF Init
  <2>6. asks \in [Request -> Model]
    BY <2>1 DEF Init, AnyModel
  <2>. QED  BY <1>1, <2>1, <2>2, <2>3, <2>4, <2>5, <2>6 DEF CacheTypes
<1>3. LoadedIsFresh /\ ExpiryFollows /\ HashIsFresh
  BY DEF Init, LoadedIsFresh, Holds, ExpiryFollows, HashIsFresh, Cached, NoHash, Persistent
<1>. QED  BY <1>1, <1>2, <1>3 DEF RoutesInv

-----------------------------------------------------------------------------
(***************************************************************************)
(* What the steps do to the cache and the history                          *)
(***************************************************************************)
\* While no time passes, the watched answer stays and its age stays or restarts from 0.
HistoryStays == UNCHANGED watched /\ (UNCHANGED <<rows, age>> \/ Remember(age))

LEMMA HistoryShrinks ==
  ASSUME CacheTypes, HistoryStays
  PROVE  UNCHANGED watched /\ age' \in 0..Staleness /\ age' <= age
BY StalenessIsNat DEF CacheTypes, HistoryStays, Remember

LEMMA HistoryStep ==
  ASSUME HistoryIsCurrent, HistoryStays \/ Remember(Aged(age))
  PROVE  HistoryIsCurrent'
<1>1. CASE UNCHANGED <<rows, age, watched>>
  BY <1>1 DEF HistoryIsCurrent, RightAnswers, Offers, RouteOf, ActiveProviders
<1>2. ASSUME NEW n, Remember(n)
      PROVE  HistoryIsCurrent'
  BY <1>2 DEF Remember, HistoryIsCurrent
<1>. QED  BY <1>1, <1>2 DEF HistoryStays

\* A console request leaves the LLM requests alone and at most deletes the hash.
ConsoleStep ==
  /\ HistoryStays
  /\ UNCHANGED <<requestVars, unbounded>> /\ faults' \in {faults, faults + 1}
  /\ UNCHANGED cacheVars \/ (hash' = Empty /\ ttl' = NoHash)

LEMMA ManageSteps == ASSUME NEW c \in Console, Manage(c) PROVE ConsoleStep
BY DEF Manage, CreateProvider, UpdateProvider, UpdateProviderStatus, DeleteProvider, Begin,
   Check, Write, WriteFails, invalidateRouteCache, ConsoleStep, HistoryStays, historyVars, Remember, Fault

LEMMA ConsoleKeepsInv ==
  ASSUME RoutesInv, ConsoleStep \/ UNCHANGED vars
  PROVE  RoutesInv'
<1>. USE DEF RoutesInv
<1>1. ConsoleStep
  BY DEF ConsoleStep, vars, historyVars, HistoryStays
<1>2. /\ UNCHANGED <<watched, pc, asks, routes, stall, unbounded>>
      /\ age' \in 0..Staleness /\ age' <= age
  BY <1>1, HistoryShrinks DEF ConsoleStep, requestVars
<1>3. CacheTypes'
  BY <1>1, <1>2, EmptyIsMap DEF CacheTypes, ConsoleStep, cacheVars, RouteMap, Route, Empty
<1>4. HistoryIsCurrent'
  BY <1>1, HistoryStep DEF ConsoleStep
<1>5. LoadedIsFresh'
  <2>. SUFFICES ASSUME NEW r \in Request, Holds(r)' PROVE age' <= stall[r]
    BY <1>2 DEF LoadedIsFresh
  <2>1. Holds(r) /\ age \in Int /\ stall[r] \in Int
    BY <1>2, StalenessIsNat, RoutesAssumption DEF Holds, CacheTypes
  <2>. QED  BY <1>2, <2>1, StalenessIsNat DEF LoadedIsFresh
<1>6. ExpiryFollows'
  BY <1>1, <1>2 DEF ExpiryFollows, ConsoleStep, cacheVars, NoHash, Persistent
<1>7. HashIsFresh'
  <2>. SUFFICES ASSUME Cached' PROVE HashIsFresh'
    BY DEF HashIsFresh
  <2>1. UNCHANGED <<hash, ttl>> /\ Cached
    BY <1>1, <1>2 DEF Cached, ConsoleStep, cacheVars
  <2>2. age \in Int /\ ttl \in Int /\ \A r \in Request : stall[r] \in Int
    BY StalenessIsNat, RoutesAssumption DEF CacheTypes, NoHash, Persistent
  <2>3. \A r \in Request : Filling(r)' => age' <= MaxStall + stall'[r]
    BY <1>2, <2>1, <2>2, StalenessIsNat, RoutesAssumption DEF HashIsFresh, Filling
  <2>4. ttl' # Persistent => age' <= Staleness - ttl'
    BY <1>2, <2>1, <2>2, StalenessIsNat DEF HashIsFresh
  <2>. QED  BY <2>3, <2>4 DEF HashIsFresh
<1>. QED  BY <1>3, <1>4, <1>5, <1>6, <1>7

-----------------------------------------------------------------------------
(***************************************************************************)
(* The steps of an LLM request                                             *)
(***************************************************************************)
RequestTypes ==
  /\ pc \in [Request -> {"idle", "missed", "absent", "loaded", "filled", "answered"}]
  /\ asks \in [Request -> Model]
  /\ routes \in [Request -> RouteMap]
  /\ stall \in [Request -> 0..MaxStall]

LEMMA AnswerTypes ==
  ASSUME RequestTypes, NEW r \in Request, NEW m, NEW route \in Route \cup {NoRoute}, Answer(r, m, route),
         asks' \in [Request -> Model]
  PROVE  RequestTypes' /\ ~Filling(r)' /\ ~Holds(r)'
<1>1. [Empty EXCEPT ![m] = route] \in RouteMap
  BY DEF Empty, RouteMap
<1>2. pc' = [pc EXCEPT ![r] = "answered"] /\ stall' = [stall EXCEPT ![r] = 0]
      /\ routes' = [routes EXCEPT ![r] = [Empty EXCEPT ![m] = route]]
  BY DEF Answer, Goto
<1>3. pc'[r] = "answered"
  BY <1>2 DEF RequestTypes
<1>4. RequestTypes'
  BY <1>1, <1>2, RoutesAssumption DEF RequestTypes
<1>. QED
  BY <1>3, <1>4 DEF Filling, Holds

\* A request that is not the one that moves.
Rests(q) == UNCHANGED <<pc[q], routes[q], stall[q]>>

LEMMA OthersRest ==
  ASSUME RequestTypes, NEW r \in Request, NEW q \in Request, q # r, Resolve(r)
  PROVE  Rests(q)
BY DEF RequestTypes, Resolve, HGet, Exists, Query, HSet, Expire, Leave, Answer, Goto, Rests

LEMMA ResolveHistory ==
  ASSUME NEW r \in Request, Resolve(r)
  PROVE  UNCHANGED <<rows, watched, age>>
BY DEF Resolve, HGet, Exists, Query, HSet, Expire, Leave, historyVars
\* What the query builds from the rows are routes, with a right answer for every model.
LEMMA QueryBuilds ==
  ASSUME NEW f \in RouteMaps
  PROVE  f \in RouteMap /\ \A m \in Model : f[m] \in RightAnswers(m)
BY DEF RouteMaps

LEMMA ResolveTypes ==
  ASSUME CacheTypes, NEW r \in Request, Resolve(r)
  PROVE  CacheTypes'
<1>. USE DEF CacheTypes
<1>1. RequestTypes /\ UNCHANGED <<watched, age>>
  BY ResolveHistory DEF RequestTypes
<1>13. faults' \in {faults, faults + 1}
  BY DEF Resolve, HGet, Exists, Query, HSet, Expire, Leave, Fault
<1>14. faults' \in Nat /\ watched'.model \in Model /\ age' \in 0..Staleness
  BY <1>1, <1>13
<1>2. SUFFICES /\ RequestTypes' /\ hash' \in RouteMap /\ unbounded' \in BOOLEAN
               /\ ttl' \in {NoHash, Persistent} \cup 1..CacheTTL
               /\ ttl' = NoHash => hash' = Empty
  BY <1>14 DEF RequestTypes
<1>12. AnyModel \in Model
  BY DEF AnyModel
<1>3. \A m \in Model : \A f \in RouteMap : f[m] \in Route \cup {NoRoute}
  BY DEF RouteMap
<1>4. ASSUME NEW m \in Model, NEW failed \in BOOLEAN, HGet(r, m, failed)
      PROVE  RequestTypes' /\ UNCHANGED <<cacheVars, unbounded>>
  <2>1. CASE Answer(r, m, hash[m])
    BY <1>1, <1>3, <1>4, <2>1, AnswerTypes DEF HGet, historyVars, RequestTypes
  <2>2. CASE Goto(r, "missed") /\ UNCHANGED <<routes, stall>>
    BY <1>1, <1>4, <2>2 DEF HGet, Goto, RequestTypes, historyVars
  <2>. QED  BY <1>4, <2>1, <2>2 DEF HGet
<1>5. ASSUME NEW failed \in BOOLEAN, Exists(r, failed)
      PROVE  RequestTypes' /\ UNCHANGED cacheVars /\ unbounded' \in BOOLEAN
  <2>1. CASE Answer(r, asks[r], NoRoute)
    BY <1>1, <1>5, <2>1, AnswerTypes DEF Exists, RequestTypes
  <2>2. CASE Goto(r, "absent") /\ UNCHANGED <<routes, stall>>
    BY <1>1, <1>5, <2>2 DEF Exists, Goto, RequestTypes
  <2>. QED  BY <1>5, <2>1, <2>2 DEF Exists
<1>6. ASSUME NEW failed \in BOOLEAN, Query(r, failed)
      PROVE  RequestTypes' /\ UNCHANGED <<cacheVars, unbounded>>
  <2>1. CASE Answer(r, asks[r], NoRoute)
    BY <1>1, <1>6, <2>1, AnswerTypes DEF Query, historyVars, RequestTypes
  <2>2. ASSUME NEW f \in RouteMaps, routes' = [routes EXCEPT ![r] = f],
               Goto(r, "loaded") /\ UNCHANGED <<stall, asks>>
        PROVE  RequestTypes'
    BY <1>1, <2>2, QueryBuilds DEF Goto, RequestTypes
  <2>. QED  BY <1>6, <2>1, <2>2 DEF Query, historyVars
<1>7. ASSUME NEW failed \in BOOLEAN, HSet(r, failed)
      PROVE  /\ RequestTypes' /\ hash' \in RouteMap /\ UNCHANGED unbounded
             /\ ttl' \in {NoHash, Persistent} \cup 1..CacheTTL
             /\ ttl' = NoHash => hash' = Empty
  <2>1. RequestTypes' /\ UNCHANGED unbounded
    BY <1>1, <1>7 DEF HSet, Goto, RequestTypes
  <2>2. CASE UNCHANGED cacheVars
    BY <2>1, <2>2 DEF cacheVars
  <2>3. CASE /\ hash' = [m \in Model |-> IF routes[r][m] = NoRoute THEN hash[m] ELSE routes[r][m]]
             /\ ttl' = IF ttl = NoHash THEN Persistent ELSE ttl
    <3>1. hash' \in RouteMap
      BY <2>3 DEF RouteMap
    <3>. QED  BY <2>1, <2>3, <3>1 DEF NoHash, Persistent
  <2>. QED  BY <1>7, <2>2, <2>3 DEF HSet
<1>8. ASSUME NEW failed \in BOOLEAN, Expire(r, failed)
      PROVE  /\ RequestTypes' /\ hash' = hash /\ unbounded' \in BOOLEAN
             /\ ttl' = ttl \/ (ttl # NoHash /\ ttl' = CacheTTL)
  <2>1. routes[r][asks[r]] \in Route \cup {NoRoute}
    BY <1>1, <1>3 DEF RequestTypes
  <2>. QED  BY <1>1, <1>8, <2>1, AnswerTypes DEF Expire, RequestTypes
<1>9. ASSUME Leave(r)
      PROVE  RequestTypes' /\ UNCHANGED <<cacheVars, unbounded>>
  BY <1>1, <1>9, <1>12, EmptyIsMap DEF Leave, Goto, RequestTypes, historyVars
<1>10. CASE RequestTypes' /\ UNCHANGED cacheVars /\ unbounded' \in BOOLEAN
  BY <1>10 DEF cacheVars
<1>11. CASE \E failed \in BOOLEAN : Expire(r, failed)
  <2>1. CacheTTL \in 1..CacheTTL /\ CacheTTL # NoHash
    BY RoutesAssumption DEF NoHash
  <2>. QED  BY <1>8, <1>11, <2>1
<1>. QED  BY <1>4, <1>5, <1>6, <1>7, <1>9, <1>10, <1>11 DEF Resolve

LEMMA ResolveLoaded ==
  ASSUME RoutesInv, NEW r \in Request, Resolve(r)
  PROVE  LoadedIsFresh'
<1>. USE DEF RoutesInv
<1>1. RequestTypes /\ UNCHANGED <<rows, watched, age>> /\ watched.model \in Model
  BY ResolveHistory DEF CacheTypes, RequestTypes
<1>. SUFFICES ASSUME NEW q \in Request, Holds(q)' PROVE age' <= stall'[q]
  BY DEF LoadedIsFresh
<1>2. CASE Rests(q)
  BY <1>1, <1>2 DEF Rests, Holds, LoadedIsFresh
<1>3. CASE \E failed \in BOOLEAN : Query(r, failed) /\ q = r
  <2>. PICK failed \in BOOLEAN : Query(r, failed) /\ q = r
    BY <1>3
  <2>1. PICK f \in RouteMaps : routes' = [routes EXCEPT ![r] = f]
    BY <1>1 DEF Query, Answer, Goto, Holds, RequestTypes
  <2>2. pc'[r] = "loaded" /\ stall' = stall
    BY <1>1 DEF Query, Answer, Goto, Holds, RequestTypes
  <2>3. watched.route = f[watched.model]
    BY <1>1, <2>1 DEF Holds, RequestTypes
  <2>4. age = 0
    BY <1>1, <2>3, QueryBuilds DEF HistoryIsCurrent
  <2>. QED  BY <1>1, <2>2, <2>4, RoutesAssumption DEF RequestTypes
<1>4. CASE \E failed \in BOOLEAN : HSet(r, failed) /\ q = r
  BY <1>1, <1>4 DEF HSet, Goto, Holds, LoadedIsFresh, RequestTypes
<1>5. q = r => \E failed \in BOOLEAN : Query(r, failed) \/ HSet(r, failed)
  BY <1>1 DEF Resolve, HGet, Exists, Expire, Leave, Answer, Goto, Holds, RequestTypes
<1>. QED  BY <1>1, <1>2, <1>3, <1>4, <1>5, OthersRest
LEMMA ResolveExpiry ==
  ASSUME RoutesInv, NEW r \in Request, Resolve(r)
  PROVE  ExpiryFollows'
<1>. USE DEF RoutesInv
<1>1. RequestTypes
  BY DEF CacheTypes, RequestTypes
<1>2. ASSUME NEW failed \in BOOLEAN, HSet(r, failed)
      PROVE  ExpiryFollows'
  BY <1>1, <1>2 DEF HSet, Goto, ExpiryFollows, RequestTypes
<1>3. ASSUME NEW failed \in BOOLEAN, Expire(r, failed)
      PROVE  ExpiryFollows'
  <2>1. ttl = NoHash \/ failed \/ ttl' = CacheTTL
    BY <1>3 DEF Expire
  <2>2. failed => unbounded'
    BY <1>3 DEF Expire
  <2>3. ttl = NoHash => ttl' # Persistent
    BY <1>3, RoutesAssumption DEF Expire, NoHash, Persistent
  <2>. QED  BY <2>1, <2>2, <2>3, RoutesAssumption DEF ExpiryFollows, Persistent
<1>4. CASE /\ ttl' = ttl /\ (unbounded => unbounded') /\ pc[r] # "filled"
           /\ \A q \in Request : q # r => pc'[q] = pc[q]
  BY <1>4 DEF ExpiryFollows
<1>5. (\E failed \in BOOLEAN : HSet(r, failed) \/ Expire(r, failed))
      \/ (ttl' = ttl /\ (unbounded => unbounded') /\ pc[r] # "filled")
  BY DEF Resolve, HGet, Exists, Query, Leave, cacheVars, historyVars
<1>6. \A q \in Request : q # r => pc'[q] = pc[q]
  BY <1>1, OthersRest DEF Rests
<1>. QED  BY <1>2, <1>3, <1>4, <1>5, <1>6

\* A request that is there while the hash is begun to be filled: its EXISTS found none.
LEMMA ResolveFilling ==
  ASSUME RoutesInv, NEW r \in Request, Resolve(r), NEW q \in Request, Filling(q)'
  PROVE  \/ Filling(q) /\ stall'[q] = stall[q]
         \/ ttl' = NoHash
         \/ unbounded'
<1>. USE DEF RoutesInv
<1>1. RequestTypes
  BY DEF CacheTypes, RequestTypes
<1>2. CASE Rests(q)
  BY <1>2 DEF Rests, Filling
<1>3. CASE q = r
  BY <1>1, <1>3 DEF Resolve, HGet, Exists, Query, HSet, Expire, Leave, Answer, Goto, Filling,
     RequestTypes, cacheVars
<1>. QED  BY <1>1, <1>2, <1>3, OthersRest

LEMMA ResolveFresh ==
  ASSUME RoutesInv, NEW r \in Request, Resolve(r)
  PROVE  HashIsFresh'
<1>. USE DEF RoutesInv
<1>. SUFFICES ASSUME Cached' PROVE HashIsFresh'
  BY DEF HashIsFresh
<1>1. /\ UNCHANGED <<rows, watched, age>> /\ watched.model \in Model
      /\ age \in Nat /\ \A q \in Request : stall[q] \in 0..MaxStall
  BY ResolveHistory, StalenessIsNat DEF CacheTypes
<1>2. \A q \in Request : Filling(q)' => Filling(q) /\ stall'[q] = stall[q]
  BY ResolveFilling DEF Cached
<1>3. ~unbounded
  BY DEF Cached, Resolve, HGet, Exists, Query, HSet, Expire, Leave, historyVars
<1>4. CASE UNCHANGED cacheVars
  <2>1. Cached
    BY <1>1, <1>3, <1>4 DEF Cached, cacheVars
  <2>. QED  BY <1>1, <1>2, <1>4, <2>1 DEF HashIsFresh, cacheVars
<1>5. ASSUME NEW failed \in BOOLEAN, HSet(r, failed), ~failed
      PROVE  HashIsFresh'
  <2>1. ttl' = (IF ttl = NoHash THEN Persistent ELSE ttl) /\ pc[r] = "loaded"
    BY <1>5 DEF HSet
  <2>2. hash'[watched.model] = IF routes[r][watched.model] = NoRoute THEN hash[watched.model]
                               ELSE routes[r][watched.model]
    BY <1>1, <1>5 DEF HSet
  <2>3. CASE Holds(r)
    <3>1. age <= MaxStall
      BY <1>1, <2>3, RoutesAssumption DEF LoadedIsFresh
    <3>2. \A q \in Request : Filling(q)' => age' <= MaxStall + stall'[q]
      BY <1>1, <1>2, <3>1, RoutesAssumption
    <3>3. ttl' # Persistent => ttl' \in 1..CacheTTL
      BY <2>1 DEF CacheTypes
    <3>4. ttl' # Persistent => age' <= Staleness - ttl'
      BY <1>1, <3>1, <3>3, RoutesAssumption DEF Staleness
    <3>. QED  BY <3>2, <3>4 DEF HashIsFresh
  <2>4. CASE ~Holds(r)
    <3>1. routes[r][watched.model] = NoRoute /\ hash[watched.model] = watched.route
      BY <1>1, <2>1, <2>2, <2>4 DEF Cached, Holds
    <3>2. ttl # NoHash
      BY <1>1, <2>1, <2>4, <3>1, EmptyIsMap DEF Holds, CacheTypes
    <3>3. Cached
      BY <1>3, <3>1, <3>2 DEF Cached
    <3>. QED  BY <1>1, <1>2, <2>1, <3>2, <3>3 DEF HashIsFresh
  <2>. QED  BY <2>3, <2>4
<1>6. ASSUME NEW failed \in BOOLEAN, Expire(r, failed), ttl # NoHash, ~failed
      PROVE  HashIsFresh'
  <2>1. ttl' = CacheTTL /\ hash' = hash /\ Filling(r)
    BY <1>6 DEF Expire, Filling
  <2>2. Cached
    BY <1>1, <1>3, <1>6, <2>1 DEF Cached
  <2>3. age <= MaxStall + stall[r] /\ \A q \in Request : Filling(q) => age <= MaxStall + stall[q]
    BY <2>1, <2>2 DEF HashIsFresh
  <2>4. age' <= Staleness - ttl'
    BY <1>1, <2>1, <2>3, RoutesAssumption DEF Staleness
  <2>. QED  BY <1>1, <1>2, <2>3, <2>4 DEF HashIsFresh
<1>7. ~UNCHANGED cacheVars =>
        \E failed \in BOOLEAN : ~failed /\ (HSet(r, failed) \/ (Expire(r, failed) /\ ttl # NoHash))
  BY DEF Resolve, HGet, Exists, Query, HSet, Expire, Leave, cacheVars
<1>. QED  BY <1>4, <1>5, <1>6, <1>7

-----------------------------------------------------------------------------
\* Time passes: stalls, ages and TTL go together.
LEMMA TickKeepsInv ==
  ASSUME RoutesInv, Tick
  PROVE  RoutesInv'
<1>. USE DEF RoutesInv
<1>1. /\ UNCHANGED <<watched, rows, pc, asks, routes, unbounded, faults>>
      /\ age \in 0..Staleness /\ age' \in 0..Staleness /\ age' <= age + 1
  BY StalenessIsNat DEF Tick, Remember, Aged, CacheTypes
<1>2. stall' \in [Request -> 0..MaxStall]
      /\ \A q \in Request : Filling(q) => stall'[q] = stall[q] + 1
  BY RoutesAssumption DEF Tick, CacheTypes
<1>3. ttl' \in {NoHash, Persistent} \cup 1..CacheTTL /\ (ttl' = Persistent <=> ttl = Persistent)
      /\ (ttl' # NoHash => ttl # NoHash /\ hash' = hash)
      /\ (ttl' \notin {NoHash, Persistent} => ttl' = ttl - 1 /\ ttl \in 1..CacheTTL)
      /\ (ttl' = NoHash => hash' = Empty)
  BY RoutesAssumption DEF Tick, CacheTypes, NoHash, Persistent
<1>4. hash' \in RouteMap
  BY <1>3, EmptyIsMap DEF Tick, CacheTypes
<1>5. CacheTypes'
  BY <1>1, <1>2, <1>3, <1>4 DEF CacheTypes, RouteMap, Route, Empty
<1>6. HistoryIsCurrent'
  BY HistoryStep DEF Tick
<1>7. LoadedIsFresh'
  <2>. SUFFICES ASSUME NEW r \in Request, Holds(r)' PROVE age' <= stall'[r]
    BY DEF LoadedIsFresh
  <2>1. Holds(r) /\ Filling(r) /\ stall[r] \in 0..MaxStall
    BY <1>1 DEF Holds, Filling, CacheTypes
  <2>. QED  BY <1>1, <1>2, <2>1, RoutesAssumption, StalenessIsNat DEF LoadedIsFresh
<1>8. ExpiryFollows'
  BY <1>1, <1>3 DEF ExpiryFollows
<1>9. HashIsFresh'
  <2>. SUFFICES ASSUME Cached' PROVE HashIsFresh'
    BY DEF HashIsFresh
  <2>1. Cached /\ ttl' # NoHash
    BY <1>1, <1>3 DEF Cached
  <2>2. ASSUME NEW r \in Request, Filling(r)' PROVE age' <= MaxStall + stall'[r]
    <3>1. Filling(r) /\ stall[r] \in 0..MaxStall
      BY <1>1, <2>2 DEF Filling, CacheTypes
    <3>2. age <= MaxStall + stall[r]
      BY <2>1, <3>1 DEF HashIsFresh
    <3>. QED  BY <1>1, <1>2, <3>1, <3>2, RoutesAssumption, StalenessIsNat
  <2>3. ASSUME ttl' # Persistent PROVE age' <= Staleness - ttl'
    <3>1. ttl' = ttl - 1 /\ ttl \in 1..CacheTTL /\ ttl # Persistent
      BY <1>3, <2>1, <2>3
    <3>2. age <= Staleness - ttl
      BY <2>1, <3>1 DEF HashIsFresh
    <3>. QED  BY <1>1, <3>1, <3>2, StalenessIsNat, RoutesAssumption
  <2>. QED  BY <2>2, <2>3 DEF HashIsFresh
<1>. QED  BY <1>5, <1>6, <1>7, <1>8, <1>9

-----------------------------------------------------------------------------
\* The inductive invariant of the routes: how old a hash and what a request read may be.
THEOREM RoutesInvariant == Spec => []RoutesInv
<1>1. RoutesInv /\ [Next]_vars => RoutesInv'
  <2>. SUFFICES ASSUME RoutesInv, [Next]_vars PROVE RoutesInv'
    OBVIOUS
  <2>1. ASSUME NEW r \in Request, Resolve(r) PROVE RoutesInv'
    <3>1. HistoryIsCurrent'
      BY <2>1, ResolveHistory, HistoryStep DEF HistoryStays, RoutesInv
    <3>. QED  BY <2>1, <3>1, ResolveTypes, ResolveLoaded, ResolveExpiry, ResolveFresh DEF RoutesInv
  <2>2. ASSUME NEW c \in Console, Manage(c) PROVE RoutesInv'
    BY <2>2, ManageSteps, ConsoleKeepsInv
  <2>3. CASE UNCHANGED vars
    BY <2>3, ConsoleKeepsInv
  <2>. QED  BY <2>1, <2>2, <2>3, TickKeepsInv DEF Next
<1>. QED  BY <1>1, RoutesInit, PTL DEF Spec

\* What a request leaves with comes from the hash, or from what it read itself.
Timely(r) ==
  Answered(r) /\ asks'[r] = watched.model /\ Outcome(r) = watched.route
    /\ (Outcome(r) = NoRoute => faults' = faults /\ hash[asks'[r]] = NoRoute)
  => unbounded' \/ age < Staleness

LEMMA CachedIsTimely ==
  ASSUME RoutesInv, Cached
  PROVE  age < Staleness
<1>. USE DEF RoutesInv
<1>1. age \in Nat /\ \A r \in Request : stall[r] \in 0..MaxStall
  BY StalenessIsNat DEF CacheTypes
<1>2. CASE ttl = Persistent
  <2>1. PICK r \in Request : pc[r] = "filled"
    BY <1>2 DEF ExpiryFollows, Cached
  <2>2. age <= MaxStall + stall[r]
    BY <2>1 DEF HashIsFresh, Filling
  <2>. QED  BY <1>1, <2>2, RoutesAssumption DEF Staleness
<1>3. CASE ttl # Persistent
  <2>1. ttl \in 1..CacheTTL
    BY <1>3 DEF Cached, CacheTypes
  <2>. QED  BY <1>1, <1>3, <2>1, StalenessIsNat, RoutesAssumption DEF HashIsFresh
<1>. QED  BY <1>2, <1>3

LEMMA AnswersStep ==
  ASSUME RoutesInv, [Next]_vars, NEW r \in Request
  PROVE  Timely(r)
<1>. USE DEF RoutesInv
<1>. SUFFICES ASSUME Answered(r), asks'[r] = watched.model, Outcome(r) = watched.route, ~unbounded',
                     Outcome(r) = NoRoute => faults' = faults /\ hash[asks'[r]] = NoRoute
              PROVE  age < Staleness
  BY DEF Timely
<1>1. RequestTypes /\ watched.model \in Model /\ age \in Nat
  BY StalenessIsNat DEF CacheTypes, RequestTypes
<1>2. Resolve(r)
  <2>1. ASSUME NEW q \in Request, Resolve(q) PROVE q = r
    BY <1>1, <2>1, OthersRest DEF Answered, Rests
  <2>2. ASSUME NEW c \in Console, Manage(c) PROVE FALSE
    BY <2>2, ManageSteps DEF Answered, ConsoleStep, requestVars
  <2>3. ~Tick /\ ~UNCHANGED vars
    BY DEF Answered, Tick, vars, requestVars
  <2>. QED  BY <2>1, <2>2, <2>3 DEF Next
<1>3. \A m, route : Answer(r, m, route) /\ m = watched.model => Outcome(r) = route
  BY <1>1 DEF Answer, Outcome, Empty, RequestTypes
<1>4. ASSUME Cached PROVE age < Staleness
  BY <1>4, CachedIsTimely
<1>5. ASSUME NEW m \in Model, NEW failed \in BOOLEAN, HGet(r, m, failed)
      PROVE  Cached
  <2>1. asks' = [asks EXCEPT ![r] = m] /\ Answer(r, m, hash[m]) /\ hash[m] # NoRoute
    BY <1>1, <1>5 DEF HGet, Goto, Answered, RequestTypes
  <2>2. m = watched.model /\ hash[m] = watched.route
    BY <1>1, <1>3, <2>1 DEF RequestTypes
  <2>3. ttl # NoHash /\ ~unbounded
    BY <1>1, <1>5, <2>1, <2>2, EmptyIsMap DEF HGet, historyVars, CacheTypes
  <2>. QED  BY <2>2, <2>3 DEF Cached
<1>6. ASSUME NEW failed \in BOOLEAN, Exists(r, failed)
      PROVE  Cached
  <2>1. asks' = asks /\ Answer(r, asks[r], NoRoute) /\ ttl # NoHash /\ ~unbounded
    BY <1>1, <1>6 DEF Exists, Goto, Answered, RequestTypes
  <2>2. Outcome(r) = NoRoute
    BY <1>3, <2>1
  <2>. QED  BY <2>1, <2>2 DEF Cached
<1>7. ASSUME NEW failed \in BOOLEAN, Query(r, failed)
      PROVE  FALSE
  <2>1. failed /\ asks' = asks /\ Answer(r, asks[r], NoRoute)
    BY <1>1, <1>7 DEF Query, Goto, Answered, RequestTypes
  <2>2. Outcome(r) = NoRoute /\ faults' = faults
    BY <1>3, <2>1
  <2>. QED  BY <1>7, <2>1, <2>2 DEF Query, Fault, CacheTypes
<1>8. ASSUME NEW failed \in BOOLEAN, Expire(r, failed)
      PROVE  age < Staleness
  <2>1. Answer(r, asks[r], routes[r][asks[r]]) /\ asks' = asks /\ pc[r] = "filled"
    BY <1>8 DEF Expire
  <2>2. Holds(r)
    BY <1>3, <2>1 DEF Holds
  <2>. QED  BY <1>1, <2>2, RoutesAssumption DEF LoadedIsFresh, RequestTypes, Staleness
<1>9. ~Leave(r) /\ \A failed \in BOOLEAN : ~HSet(r, failed)
  BY <1>1 DEF Leave, HSet, Goto, Answered, RequestTypes
<1>. QED  BY <1>2, <1>4, <1>5, <1>6, <1>7, <1>8, <1>9 DEF Resolve

\* Nobody leaves with an answer that was last right Staleness ticks ago or earlier.
THEOREM RouteAnswers == Spec => AnswersAreTimely
<1>1. RoutesInv /\ [Next]_vars => [\A r \in Request : Timely(r)]_vars
  BY AnswersStep
<1>2. [\A r \in Request : Timely(r)]_vars =>
        [\A r \in Request :
           /\ Answered(r) /\ asks'[r] = watched.model /\ Outcome(r) = watched.route
           /\ Outcome(r) = NoRoute => faults' = faults /\ hash[asks'[r]] = NoRoute
           => unbounded' \/ age < Staleness]_vars
  BY DEF Timely
<1>. QED  BY <1>1, <1>2, RoutesInvariant, PTL DEF Spec, AnswersAreTimely

-----------------------------------------------------------------------------
(***************************************************************************)
(* The rows, and what the console requests are about to write              *)
(***************************************************************************)
RowFields == {"state", "active", "models", "config"}

\* A live row's format has its base URLs.
RowOk(row) == DOMAIN row = RowFields /\ (row.state = "live" => validateBaseURLsByFormat(row.config))

\* A request that is on its way to its write.
DraftOk(c) ==
  LET d == draft[c] IN
  at[c] \in {"checking", "writing"} =>
    /\ d.id \in Provider /\ d.op \in {"insert", "save", "status", "delete"} /\ RowOk(d.row)
    /\ d.op \in {"insert", "save"} => d.row.state = "live"
    /\ d.op = "delete" => d.row = DeletedRow
    /\ d.op \in {"status", "delete"} => ~d.checked
    /\ d.op = "insert" => d.checked
    /\ d.checked \in BOOLEAN /\ (at[c] = "checking" => d.checked)

\* If no other request has written since it began, the check it made holds, and a row whose
\* models were not given has the models that it will write.
ReadIsCurrent(c) ==
  LET d == draft[c] IN
  at[c] = "writing" /\ c \notin overlapped =>
    /\ d.checked => ~checkModelConflict(d.row.models, d.id)
    /\ ~d.checked /\ d.op = "save" => rows[d.id].state = "live" /\ rows[d.id].models = d.row.models

RowsInv ==
  /\ DOMAIN rows = Provider /\ \A p \in Provider : RowOk(rows[p])
  /\ DOMAIN at = Console /\ DOMAIN draft = Console
  /\ \A c \in Console : DraftOk(c) /\ ReadIsCurrent(c)
  /\ ModelsAreExclusive

LEMMA RowsInit == Init => RowsInv
<1>. SUFFICES ASSUME Init PROVE RowsInv
  OBVIOUS
<1>1. DOMAIN rows = Provider /\ \A p \in Provider : RowOk(rows[p])
  <2>1. rows \in [Provider -> CreatedRow \cup {FreeRow}]
    BY InitialAssumption DEF Init
  <2>2. RowOk(FreeRow) /\ \A row \in CreatedRow : RowOk(row)
    BY DEF FreeRow, CreatedRow, Row, RowOk, RowFields
  <2>. QED  BY <2>1, <2>2
<1>2. ModelsAreExclusive
  BY DEF Init, ModelsAreExclusive
<1>. QED  BY <1>1, <1>2 DEF Init, RowsInv, DraftOk, ReadIsCurrent

\* Steps that neither write rows nor move console requests.
LEMMA RowsRest ==
  ASSUME RowsInv, UNCHANGED <<rows, consoleVars>>
  PROVE  RowsInv'
<1>1. UNCHANGED <<rows, at, draft, overlapped, contested>>
  BY DEF consoleVars
<1>. QED
  BY <1>1 DEF RowsInv, DraftOk, ReadIsCurrent, checkModelConflict, ModelsAreExclusive, Conflict,
         ActiveProviders

\* A console request moves on while the rows stay.
LEMMA RowsMove ==
  ASSUME RowsInv, NEW c \in Console, UNCHANGED <<rows, contested>>,
         DOMAIN at' = Console /\ DOMAIN draft' = Console,
         \A other \in Console \ {c} : at'[other] = at[other] /\ draft'[other] = draft[other]
                                      /\ (other \in overlapped => other \in overlapped'),
         DraftOk(c)' /\ ReadIsCurrent(c)'
  PROVE  RowsInv'
<1>1. ASSUME NEW other \in Console \ {c}
      PROVE  DraftOk(other)' /\ ReadIsCurrent(other)'
  <2>1. DraftOk(other) /\ ReadIsCurrent(other)
    BY DEF RowsInv
  <2>. QED  BY <2>1 DEF DraftOk, ReadIsCurrent, checkModelConflict, ActiveProviders
<1>. QED
  BY <1>1 DEF RowsInv, ModelsAreExclusive, Conflict, ActiveProviders

LEMMA EndRows ==
  ASSUME RowsInv, NEW c \in Console, End(c), UNCHANGED <<rows, contested>>
  PROVE  RowsInv'
<1>1. at'[c] = "idle"
  BY DEF End, Move, RowsInv
<1>2. DraftOk(c)' /\ ReadIsCurrent(c)'
  BY <1>1 DEF DraftOk, ReadIsCurrent
<1>. QED
  BY <1>2, RowsMove DEF End, Move, RowsInv

LEMMA BeginRows ==
  ASSUME RowsInv, NEW c \in Console, NEW op \in {"insert", "save", "status", "delete"}, NEW p \in Provider,
         NEW row, NEW check \in BOOLEAN, Begin(c, op, p, row, check), RowOk(row),
         op \in {"insert", "save"} => row.state = "live",
         op = "delete" => row = DeletedRow,
         op \in {"status", "delete"} => ~check,
         op = "insert" => check,
         op = "save" /\ ~check => rows[p].state = "live" /\ rows[p].models = row.models
  PROVE  RowsInv'
<1>1. /\ at'[c] = IF check THEN "checking" ELSE "writing"
      /\ draft'[c] = [op |-> op, id |-> p, row |-> row, checked |-> check]
      /\ UNCHANGED <<rows, contested>>
  BY DEF Begin, Move, RowsInv
<1>2. DraftOk(c)' /\ ReadIsCurrent(c)'
  BY <1>1 DEF DraftOk, ReadIsCurrent, RowOk
<1>. QED
  BY <1>1, <1>2, RowsMove DEF Begin, Move, RowsInv

LEMMA CreateRows ==
  ASSUME RowsInv, NEW c \in Console, NEW p \in Provider, NEW models \in SUBSET Model, NEW config \in Config,
         CreateProvider(c, p, models, config)
  PROVE  RowsInv'
<1>. DEFINE row == [state |-> "live", active |-> TRUE, models |-> models, config |-> config]
<1>1. RowOk(row) /\ row.state = "live" /\ Begin(c, "insert", p, row, TRUE)
  BY DEF CreateProvider, RowOk, RowFields
<1>. HIDE DEF row
<1>. QED  BY <1>1, BeginRows

LEMMA UpdateRows ==
  ASSUME RowsInv, NEW c \in Console, NEW p \in Provider, NEW patch \in Patch,
         UpdateProvider(c, p, patch)
  PROVE  RowsInv'
<1>. DEFINE row == Patched(rows[p], patch)  check == (patch.models # {})
<1>1. /\ RowOk(row) /\ row.state = "live" /\ Begin(c, "save", p, row, check)
      /\ ~check => rows[p].state = "live" /\ rows[p].models = row.models
  BY DEF UpdateProvider, Patched, Given, RowOk, RowFields
<1>2. check \in BOOLEAN
  OBVIOUS
<1>. HIDE DEF row, check
<1>. QED  BY <1>1, <1>2, BeginRows

LEMMA StatusRows ==
  ASSUME RowsInv, NEW c \in Console, NEW p \in Provider, NEW active \in BOOLEAN,
         UpdateProviderStatus(c, p, active) \/ DeleteProvider(c, p)
  PROVE  RowsInv'
<1>1. RowOk([FreeRow EXCEPT !.active = active]) /\ RowOk(DeletedRow)
  BY DEF FreeRow, DeletedRow, RowOk, RowFields
<1>2. CASE UpdateProviderStatus(c, p, active)
  <2>. DEFINE row == [FreeRow EXCEPT !.active = active]
  <2>1. RowOk(row) /\ Begin(c, "status", p, row, FALSE)
    BY <1>1, <1>2 DEF UpdateProviderStatus
  <2>. HIDE DEF row
  <2>. QED  BY <2>1, BeginRows
<1>3. CASE DeleteProvider(c, p)
  <2>1. RowOk(DeletedRow) /\ Begin(c, "delete", p, DeletedRow, FALSE)
    BY <1>1, <1>3 DEF DeleteProvider
  <2>. QED  BY <2>1, BeginRows
<1>. QED  BY <1>2, <1>3

LEMMA CheckRows ==
  ASSUME RowsInv, NEW c \in Console, NEW failed \in BOOLEAN, Check(c, failed)
  PROVE  RowsInv'
<1>1. CASE End(c)
  BY <1>1, EndRows DEF Check
<1>2. CASE ~End(c)
  <2>1. /\ at[c] = "checking" /\ at' = [at EXCEPT ![c] = "writing"]
        /\ UNCHANGED <<rows, draft, overlapped, contested>>
        /\ ~checkModelConflict(draft[c].row.models, draft[c].id)
    BY <1>2 DEF Check, Move
  <2>2. DraftOk(c)
    BY DEF RowsInv
  <2>3. at'[c] = "writing" /\ DraftOk(c)'
    BY <2>1, <2>2 DEF RowsInv, DraftOk
  <2>4. draft[c].checked
    BY <2>1, <2>2 DEF DraftOk
  <2>. QED  BY <2>1, <2>3, <2>4, RowsMove DEF RowsInv, ReadIsCurrent, checkModelConflict, ActiveProviders
<1>. QED  BY <1>1, <1>2

\* The row that is written: whole, and apart from the other active ones unless it, or the
\* other one, is contested.
LEMMA WrittenRow ==
  ASSUME RowsInv, NEW c \in Console, at[c] = "writing"
  PROVE  /\ draft[c].id \in Provider /\ RowOk(Written(draft[c]))
         /\ \/ draft[c].id \in Contests(c)
            \/ (Written(draft[c]).state = "live" /\ Written(draft[c]).active =>
                  \A p \in ActiveProviders \ {draft[c].id} :
                     p \in contested \/ rows[p].models \cap Written(draft[c]).models = {})
<1>. DEFINE d == draft[c]  w == Written(d)  id == d.id
            Apart == \A p \in ActiveProviders \ {id} :
                       p \in contested \/ rows[p].models \cap w.models = {}
<1>1. /\ id \in Provider /\ RowOk(d.row) /\ RowOk(rows[id])
      /\ d.op \in {"insert", "save", "status", "delete"} /\ d.checked \in BOOLEAN
      /\ d.op = "insert" => d.checked
      /\ d.op = "delete" => d.row = DeletedRow
      /\ d.op \in {"status", "delete"} => ~d.checked
      /\ d.op \in {"insert", "save"} => d.row.state = "live"
  BY DEF RowsInv, DraftOk
<1>2. /\ ModelsAreExclusive
      /\ c \notin overlapped /\ d.checked => ~checkModelConflict(d.row.models, id)
      /\ c \notin overlapped /\ ~d.checked /\ d.op = "save"
           => rows[id].state = "live" /\ rows[id].models = d.row.models
  BY DEF RowsInv, ReadIsCurrent
<1>3. ASSUME id \notin Contests(c)
      PROVE  /\ ~EnablesUnchecked(d) /\ ~(c \in overlapped /\ d.op \in {"insert", "save"})
             /\ d.checked \/ id \notin contested
  <2>. DEFINE Races == EnablesUnchecked(d) \/ (c \in overlapped /\ d.op \in {"insert", "save"})
  <2>1. ~Races
    <3>1. Races => Contests(c) = contested \cup {id}
      BY DEF Contests
    <3>. QED  BY <1>3, <3>1
  <2>2. ASSUME ~d.checked PROVE id \notin contested
    <3>1. Contests(c) = contested
      BY <2>1, <2>2 DEF Contests
    <3>. QED  BY <1>3, <3>1
  <2>. QED  BY <2>1, <2>2
<1>4. ASSUME id \in ActiveProviders, rows[id].models = w.models, id \notin contested
      PROVE  Apart
  <2>. SUFFICES ASSUME NEW p \in ActiveProviders \ {id}, p \notin contested
                PROVE  rows[p].models \cap w.models = {}
    OBVIOUS
  <2>1. p \in Provider /\ id \in Provider /\ {p, id} \subseteq ActiveProviders /\ p # id
    BY <1>1, <1>4 DEF ActiveProviders
  <2>2. ~Conflict(p, id)
    BY <1>2, <1>4, <2>1 DEF ModelsAreExclusive
  <2>. QED  BY <1>4, <2>1, <2>2 DEF Conflict
<1>5. CASE d.op \in {"insert", "save"}
  <2>1. w = d.row
    BY <1>5 DEF Written
  <2>2. ASSUME id \notin Contests(c), d.checked PROVE Apart
    BY <1>2, <1>3, <1>5, <2>1, <2>2 DEF checkModelConflict
  <2>3. ASSUME id \notin Contests(c), ~d.checked, w.state = "live", w.active PROVE Apart
    <3>1. id \in ActiveProviders /\ rows[id].models = w.models
      BY <1>1, <1>2, <1>3, <1>5, <2>1, <2>3 DEF EnablesUnchecked, ActiveProviders
    <3>. QED  BY <1>3, <1>4, <2>3, <3>1
  <2>. QED  BY <1>1, <2>1, <2>2, <2>3
<1>6. CASE d.op = "status" /\ rows[id].state = "live"
  <2>1. w = [rows[id] EXCEPT !.active = d.row.active]
    BY <1>6 DEF Written
  <2>2. RowOk(w) /\ w.models = rows[id].models
    BY <1>1, <2>1 DEF RowOk, RowFields
  <2>3. ASSUME id \notin Contests(c), w.active PROVE Apart
    <3>1. id \in ActiveProviders
      BY <1>1, <1>3, <1>6, <2>3 DEF EnablesUnchecked, ActiveProviders
    <3>. QED  BY <1>1, <1>3, <1>4, <1>6, <2>2, <2>3, <3>1
  <2>. QED  BY <1>1, <2>2, <2>3
<1>7. CASE d.op = "status" /\ rows[id].state # "live"
  <2>1. w = rows[id]
    BY <1>7 DEF Written
  <2>. QED  BY <1>1, <1>7, <2>1
<1>8. CASE d.op = "delete"
  <2>1. w = DeletedRow
    BY <1>1, <1>8 DEF Written
  <2>2. RowOk(w) /\ w.state = "deleted"
    BY <1>1, <1>8, <2>1 DEF DeletedRow, FreeRow
  <2>. QED  BY <1>1, <2>2
<1>. QED  BY <1>1, <1>5, <1>6, <1>7, <1>8

LEMMA WriteRows ==
  ASSUME RowsInv, NEW c \in Console, Write(c)
  PROVE  RowsInv'
<1>. DEFINE d == draft[c]  w == Written(d)
<1>. PICK id : id = d.id
  OBVIOUS
<1>1. /\ at[c] = "writing" /\ rows' = [rows EXCEPT ![id] = w] /\ at' = [at EXCEPT ![c] = "invalidating"]
      /\ overlapped' = (overlapped \ {c})
           \cup {other \in Console \ {c} : at[other] \in {"checking", "writing"}}
      /\ contested' = Contests(c) /\ draft' = [draft EXCEPT ![c] = NoDraft]
  BY DEF Write, Move
<1>2. /\ id \in Provider /\ RowOk(w)
      /\ \/ id \in Contests(c)
         \/ (w.state = "live" /\ w.active =>
               \A p \in ActiveProviders \ {id} : p \in contested \/ rows[p].models \cap w.models = {})
  BY <1>1, WrittenRow
<1>7. contested \ {id} \subseteq contested'
  BY <1>1 DEF Contests
<1>. HIDE DEF w
<1>3. /\ DOMAIN rows' = Provider /\ rows'[id] = w /\ \A p \in Provider \ {id} : rows'[p] = rows[p]
      /\ DOMAIN at' = Console /\ at'[c] = "invalidating" /\ \A other \in Console \ {c} : at'[other] = at[other]
      /\ DOMAIN draft' = Console /\ \A other \in Console \ {c} : draft'[other] = draft[other]
  BY <1>1, <1>2 DEF RowsInv
<1>4. \A p \in Provider : RowOk(rows'[p])
  BY <1>2, <1>3 DEF RowsInv
<1>5. ASSUME NEW other \in Console
      PROVE  DraftOk(other)' /\ ReadIsCurrent(other)'
  <2>1. CASE other = c
    BY <1>3, <2>1 DEF DraftOk, ReadIsCurrent
  <2>2. CASE other # c
    <3>1. DraftOk(other)
      BY DEF RowsInv
    <3>. QED  BY <1>1, <1>3, <2>2, <3>1 DEF DraftOk, ReadIsCurrent
  <2>. QED  BY <2>1, <2>2
<1>6. ModelsAreExclusive'
  <2>1. \A p \in Provider \ {id} : p \in ActiveProviders' <=> p \in ActiveProviders
    BY <1>3 DEF ActiveProviders
  <2>2. ASSUME NEW p \in Provider \ {id}, Conflict(p, id)' \/ Conflict(id, p)'
        PROVE  {p, id} \cap contested' # {}
    <3>1. p \in ActiveProviders /\ w.state = "live" /\ w.active
          /\ rows[p].models \cap w.models # {}
      <4>1. /\ {p, id} \subseteq ActiveProviders'
            /\ rows'[p].models \cap rows'[id].models # {}
        BY <2>2 DEF Conflict
      <4>2. rows'[p] = rows[p] /\ rows'[id] = w
        BY <1>3
      <4>3. w.state = "live" /\ w.active
        BY <4>1, <4>2 DEF ActiveProviders
      <4>. QED  BY <2>1, <4>1, <4>2, <4>3
    <3>. QED  BY <1>1, <1>2, <1>7, <3>1
  <2>3. ASSUME NEW p \in Provider \ {id}, NEW q \in Provider \ {id}, Conflict(p, q)'
        PROVE  {p, q} \cap contested' # {}
    <3>1. Conflict(p, q)
      BY <1>3, <2>1, <2>3 DEF Conflict
    <3>2. {p, q} \cap contested # {}
      BY <3>1 DEF RowsInv, ModelsAreExclusive
    <3>. QED  BY <1>7, <3>2
  <2>4. ~Conflict(id, id)'
    BY DEF Conflict
  <2>. SUFFICES ASSUME NEW p \in Provider, NEW q \in Provider, Conflict(p, q)'
                PROVE  {p, q} \cap contested' # {}
    BY DEF ModelsAreExclusive
  <2>5. CASE p = id
    <3>1. q \in Provider \ {id}
      BY <2>4, <2>5
    <3>2. {q, id} \cap contested' # {}
      BY <2>2, <2>5, <3>1
    <3>. QED  BY <2>5, <3>2
  <2>6. CASE q = id
    <3>1. p \in Provider \ {id}
      BY <2>4, <2>6
    <3>2. {p, id} \cap contested' # {}
      BY <2>2, <2>6, <3>1
    <3>. QED  BY <2>6, <3>2
  <2>7. CASE p # id /\ q # id
    BY <2>3, <2>7
  <2>. QED  BY <2>5, <2>6, <2>7
<1>. QED  BY <1>3, <1>4, <1>5, <1>6 DEF RowsInv

LEMMA RowsStep ==
  ASSUME RowsInv, [Next]_vars
  PROVE  RowsInv'
<1>1. ASSUME NEW c \in Console, Manage(c)
      PROVE  RowsInv'
  <2>1. CASE WriteFails(c) \/ \E failed \in BOOLEAN : invalidateRouteCache(c, failed)
    BY <2>1, EndRows DEF WriteFails, invalidateRouteCache
  <2>2. ASSUME NEW p \in Provider, NEW models \in SUBSET Model, NEW config \in Config,
               CreateProvider(c, p, models, config)
        PROVE  RowsInv'
    BY <2>2, CreateRows
  <2>5. ASSUME NEW p \in Provider, NEW patch \in Patch, UpdateProvider(c, p, patch)
        PROVE  RowsInv'
    BY <2>5, UpdateRows
  <2>3. ASSUME NEW p \in Provider, NEW active \in BOOLEAN, UpdateProviderStatus(c, p, active)
        PROVE  RowsInv'
    BY <2>3, StatusRows
  <2>4. ASSUME NEW p \in Provider, DeleteProvider(c, p)
        PROVE  RowsInv'
    BY <2>4, StatusRows
  <2>. QED  BY <1>1, <2>1, <2>2, <2>3, <2>4, <2>5, CheckRows, WriteRows DEF Manage
<1>2. (\E r \in Request : Resolve(r)) \/ Tick \/ UNCHANGED vars => UNCHANGED <<rows, consoleVars>>
  BY DEF Resolve, HGet, Exists, Query, HSet, Expire, Leave, Tick, vars
<1>. QED  BY <1>1, <1>2, RowsRest DEF Next

\* The rows and the requests that are changing them keep the invariant.
THEOREM RowsInvariant == Spec => []RowsInv
<1>1. RowsInv /\ [Next]_vars => RowsInv'
  BY RowsStep
<1>. QED  BY <1>1, RowsInit, PTL DEF Spec

\* Only rows saved in a race, or enabled again unchecked, may conflict with others, until the
\* next edit that gives their models (checkModelConflict, third_party_provider.go:242).
THEOREM ModelsStayExclusive == Spec => []ModelsAreExclusive
<1>1. RowsInv => ModelsAreExclusive
  BY DEF RowsInv, ModelsAreExclusive
<1>. QED  BY <1>1, RowsInvariant, PTL

-----------------------------------------------------------------------------
(***************************************************************************)
(* The routes that are made of the rows                                    *)
(***************************************************************************)
Usable(route) == route = NoRoute \/ validateBaseURLsByFormat(route.config)

UsableInv ==
  /\ DOMAIN hash = Model /\ \A m \in Model : Usable(hash[m])
  /\ DOMAIN routes = Request /\ \A r \in Request, m \in Model : Usable(routes[r][m])

LEMMA EmptyIsUsable == DOMAIN Empty = Model /\ \A m \in Model : Usable(Empty[m])
BY DEF Empty, Usable

LEMMA RowsAreUsable ==
  ASSUME RowsInv, NEW f \in RouteMaps, NEW m \in Model
  PROVE  Usable(f[m])
<1>1. f[m] \in RightAnswers(m)
  BY QueryBuilds
<1>2. CASE f[m] # NoRoute
  <2>1. PICK p \in ActiveProviders : f[m] = RouteOf(p)
    BY <1>1, <1>2 DEF RightAnswers, Offers
  <2>2. RowOk(rows[p]) /\ rows[p].state = "live"
    BY DEF ActiveProviders, RowsInv
  <2>3. f[m].config = rows[p].config
    BY <2>1 DEF RouteOf
  <2>. QED  BY <2>2, <2>3 DEF RowOk, Usable
<1>. QED  BY <1>2 DEF Usable

LEMMA UsableStep ==
  ASSUME RoutesInv, RowsInv, UsableInv, [Next]_vars
  PROVE  UsableInv'
<1>1. ASSUME UNCHANGED requestVars, UNCHANGED cacheVars \/ hash' = Empty \/ UNCHANGED hash
      PROVE  UsableInv'
  BY <1>1, EmptyIsUsable DEF UsableInv, requestVars, cacheVars, Usable
<1>2. ASSUME NEW c \in Console, Manage(c)
      PROVE  UsableInv'
  BY <1>1, <1>2, ManageSteps DEF ConsoleStep
<1>3. CASE Tick
  BY <1>3, EmptyIsUsable DEF Tick, UsableInv
<1>4. ASSUME NEW r \in Request, Resolve(r)
      PROVE  UsableInv'
  <2>1. ASSUME NEW m \in Model, NEW route, Usable(route), Answer(r, m, route), UNCHANGED hash
        PROVE  UsableInv'
    <3>1. routes' = [routes EXCEPT ![r] = [Empty EXCEPT ![m] = route]]
      BY <2>1 DEF Answer
    <3>2. \A n \in Model : Usable([Empty EXCEPT ![m] = route][n])
      BY <2>1, EmptyIsUsable
    <3>. QED  BY <2>1, <3>1, <3>2 DEF UsableInv
  <2>2. Usable(NoRoute) /\ asks[r] \in Model
    BY DEF Usable, RoutesInv, CacheTypes
  <2>3. ASSUME NEW m \in Model, NEW failed \in BOOLEAN, HGet(r, m, failed)
        PROVE  UsableInv'
    BY <2>1, <2>3 DEF HGet, cacheVars, UsableInv
  <2>4. ASSUME NEW failed \in BOOLEAN, Exists(r, failed)
        PROVE  UsableInv'
    BY <2>1, <2>2, <2>4 DEF Exists, cacheVars, UsableInv
  <2>5. ASSUME NEW failed \in BOOLEAN, Query(r, failed)
        PROVE  UsableInv'
    <3>1. CASE Answer(r, asks[r], NoRoute)
      BY <2>1, <2>2, <2>5, <3>1 DEF Query, cacheVars
    <3>2. ASSUME NEW f \in RouteMaps, routes' = [routes EXCEPT ![r] = f]
          PROVE  UsableInv'
      BY <2>5, <3>2, RowsAreUsable DEF Query, cacheVars, UsableInv
    <3>. QED  BY <2>5, <3>1, <3>2 DEF Query
  <2>6. ASSUME NEW failed \in BOOLEAN, HSet(r, failed)
        PROVE  UsableInv'
    <3>1. /\ UNCHANGED routes
          /\ \/ UNCHANGED hash
             \/ hash' = [m \in Model |-> IF routes[r][m] = NoRoute THEN hash[m] ELSE routes[r][m]]
      BY <2>6 DEF HSet, cacheVars
    <3>. QED  BY <3>1 DEF UsableInv
  <2>7. ASSUME NEW failed \in BOOLEAN, Expire(r, failed)
        PROVE  UsableInv'
    BY <2>1, <2>2, <2>7 DEF Expire, UsableInv
  <2>8. CASE Leave(r)
    BY <2>8, EmptyIsUsable DEF Leave, cacheVars, UsableInv
  <2>. QED  BY <1>4, <2>3, <2>4, <2>5, <2>6, <2>7, <2>8 DEF Resolve
<1>5. CASE UNCHANGED vars
  BY <1>1, <1>5 DEF vars
<1>. QED  BY <1>2, <1>3, <1>4, <1>5 DEF Next

LEMMA UsableInit == Init => UsableInv
BY EmptyIsUsable DEF Init, UsableInv

\* Whatever console requests changed format and URLs, and in whatever order, a route in the
\* hash has a base URL for every format that it accepts.
THEOREM RoutesStayUsable == Spec => []RoutesAreUsable
<1>1. RoutesInv /\ RowsInv /\ UsableInv /\ [Next]_vars => UsableInv'
  BY UsableStep
<1>2. UsableInv => RoutesAreUsable
  BY DEF UsableInv, Usable, RoutesAreUsable, Format, validateBaseURLsByFormat, IsFormatCompatible,
     BaseURLForFormat
<1>. QED  BY <1>1, <1>2, UsableInit, RoutesInvariant, RowsInvariant, PTL DEF Spec

-----------------------------------------------------------------------------
(***************************************************************************)
(* The hash after a change                                                 *)
(***************************************************************************)
Right(f) == \A m \in Model : f[m] \in RightAnswers(m)

\* What a request is about to write is right, unless a row was written meanwhile.
LoadedIsRight == \A r \in Request : pc[r] = "loaded" /\ r \notin overtaken => Right(routes[r])

Settled == faults = 0 /\ \A c \in Console : at[c] # "invalidating"

FollowInv == LoadedIsRight /\ (ttl # NoHash /\ Settled => tainted \/ Right(hash))

LEMMA SameRight == UNCHANGED rows => \A m \in Model : RightAnswers(m)' = RightAnswers(m)
BY DEF RightAnswers, Offers, RouteOf, ActiveProviders

\* No row is written, the hash at most goes, and no request loads routes.
FollowRests ==
  /\ UNCHANGED <<rows, routes, overtaken>> /\ \A r \in Request : pc'[r] = "loaded" => pc[r] = "loaded"
  /\ ttl' # NoHash /\ Settled' => ttl # NoHash /\ Settled /\ UNCHANGED hash /\ (tainted => tainted')

LEMMA FollowsStill ==
  ASSUME FollowInv, FollowRests
  PROVE  FollowInv'
BY SameRight DEF FollowInv, FollowRests, LoadedIsRight, Right

LEMMA ManageFollows ==
  ASSUME RoutesInv, RowsInv, FollowInv, NEW c \in Console, Manage(c)
  PROVE  FollowInv'
<1>1. faults \in Nat
  BY DEF RoutesInv, CacheTypes
<1>2. ASSUME NEW op, NEW p, NEW row, NEW check, Begin(c, op, p, row, check)
      PROVE  FollowInv'
  <2>1. FollowRests
    BY <1>2 DEF Begin, Move, FollowRests, Settled, cacheVars, requestVars, historyVars, RowsInv
  <2>. QED  BY <2>1, FollowsStill
<1>3. ASSUME NEW failed \in BOOLEAN, Check(c, failed)
      PROVE  FollowInv'
  <2>1. \A d \in Console : at[d] = "invalidating" => at'[d] = "invalidating"
    BY <1>3 DEF Check, End, Move, RowsInv
  <2>2. FollowRests
    BY <1>1, <1>3, <2>1 DEF Check, Fault, FollowRests, Settled, cacheVars, requestVars, historyVars
  <2>. QED  BY <2>2, FollowsStill
<1>4. CASE WriteFails(c)
  <2>1. faults' # 0
    BY <1>1, <1>4 DEF WriteFails, Fault
  <2>2. FollowRests
    BY <1>4, <2>1 DEF WriteFails, FollowRests, Settled, requestVars, historyVars
  <2>. QED  BY <2>2, FollowsStill
<1>5. CASE Write(c)
  <2>1. at'[c] = "invalidating"
    BY <1>5 DEF Write, Move, RowsInv
  <2>2. \A r \in Request : pc'[r] = "loaded" => r \in overtaken'
    BY <1>5 DEF Write, requestVars
  <2>. QED  BY <2>1, <2>2 DEF FollowInv, LoadedIsRight, Settled
<1>6. ASSUME NEW failed \in BOOLEAN, invalidateRouteCache(c, failed)
      PROVE  FollowInv'
  <2>1. failed => faults' # 0
    BY <1>1, <1>6 DEF invalidateRouteCache, Fault
  <2>2. FollowRests
    BY <1>6, <2>1 DEF invalidateRouteCache, FollowRests, Settled, requestVars
  <2>. QED  BY <2>2, FollowsStill
<1>7. ASSUME NEW p \in Provider, NEW models, NEW config, NEW active, NEW patch,
             \/ CreateProvider(c, p, models, config) \/ UpdateProvider(c, p, patch)
             \/ UpdateProviderStatus(c, p, active) \/ DeleteProvider(c, p)
      PROVE  \E op, row, checked : Begin(c, op, p, row, checked)
  BY <1>7 DEF CreateProvider, UpdateProvider, UpdateProviderStatus, DeleteProvider
<1>8. (\E op, p, row, check : Begin(c, op, p, row, check)) => FollowInv'
  BY <1>2
<1>9. \/ \E op, p, row, check : Begin(c, op, p, row, check)
      \/ Write(c) \/ WriteFails(c)
      \/ \E failed \in BOOLEAN : Check(c, failed) \/ invalidateRouteCache(c, failed)
  BY <1>7 DEF Manage
<1>. QED  BY <1>3, <1>4, <1>5, <1>6, <1>8, <1>9

LEMMA HSetFollows ==
  ASSUME RoutesInv, FollowInv, NEW r \in Request, NEW failed \in BOOLEAN, HSet(r, failed)
  PROVE  FollowInv'
<1>1. /\ faults \in Nat /\ hash \in RouteMap /\ (ttl = NoHash => hash = Empty)
      /\ pc \in [Request -> {"idle", "missed", "absent", "loaded", "filled", "answered"}]
  BY DEF RoutesInv, CacheTypes
<1>2. /\ pc[r] = "loaded" /\ pc' = [pc EXCEPT ![r] = "filled"]
      /\ UNCHANGED <<rows, routes, at>>
      /\ tainted' = (tainted \/ r \in overtaken) /\ overtaken' = overtaken \ {r}
      /\ faults' = IF failed THEN faults + 1 ELSE faults
  BY DEF HSet, Fault, Goto, consoleVars
<1>3. LoadedIsRight'
  BY <1>1, <1>2, SameRight DEF FollowInv, LoadedIsRight, Right
<1>4. ASSUME Settled', ~tainted'
      PROVE  Right(hash)'
  <2>1. ~failed /\ Settled /\ ~tainted /\ r \notin overtaken
    <3>1. ~tainted /\ r \notin overtaken
      BY <1>2, <1>4, Zenon
    <3>2. faults' = 0 /\ \A c \in Console : at[c] # "invalidating"
      BY <1>2, <1>4 DEF Settled
    <3>3. faults = 0 /\ ~failed
      BY <1>1, <1>2, <3>2
    <3>. QED  BY <3>1, <3>2, <3>3 DEF Settled
  <2>2. hash' = [m \in Model |-> IF routes[r][m] = NoRoute THEN hash[m] ELSE routes[r][m]]
    BY <2>1 DEF HSet
  <2>3. Right(routes[r])
    BY <1>2, <2>1 DEF FollowInv, LoadedIsRight
  <2>4. ASSUME NEW m \in Model
        PROVE  hash'[m] \in RightAnswers(m)
    <3>1. routes[r][m] \in RightAnswers(m)
      BY <2>3 DEF Right
    <3>2. CASE routes[r][m] # NoRoute
      BY <2>2, <3>1, <3>2
    <3>3. CASE routes[r][m] = NoRoute /\ ttl # NoHash
      <4>1. hash[m] \in RightAnswers(m)
        BY <2>1, <3>3 DEF FollowInv, Right
      <4>. QED  BY <2>2, <3>3, <4>1
    <3>4. CASE routes[r][m] = NoRoute /\ ttl = NoHash
      <4>1. hash[m] = NoRoute
        BY <1>1, <3>4, EmptyIsMap
      <4>. QED  BY <2>2, <3>1, <3>4, <4>1
    <3>. QED  BY <3>2, <3>3, <3>4
  <2>. QED  BY <1>2, <2>4, SameRight DEF Right
<1>. QED  BY <1>3, <1>4 DEF FollowInv

LEMMA ResolveFollows ==
  ASSUME RoutesInv, FollowInv, NEW r \in Request, Resolve(r)
  PROVE  FollowInv'
<1>1. /\ faults \in Nat
      /\ pc \in [Request -> {"idle", "missed", "absent", "loaded", "filled", "answered"}]
      /\ DOMAIN routes = Request
  BY DEF RoutesInv, CacheTypes
<1>2. ASSUME UNCHANGED <<rows, at, hash, tainted, overtaken>>, ttl' = NoHash \/ ttl # NoHash,
             faults' \in {faults, faults + 1},
             \A q \in Request : pc'[q] = "loaded" => Right(routes'[q]) \/ UNCHANGED <<pc[q], routes[q]>>
      PROVE  FollowInv'
  <2>1. Settled' => Settled
    BY <1>1, <1>2 DEF Settled
  <2>2. LoadedIsRight'
    BY <1>2, SameRight DEF FollowInv, LoadedIsRight, Right
  <2>. QED  BY <1>2, <2>1, <2>2, SameRight DEF FollowInv, Right
<1>3. ASSUME NEW q \in Request, q # r
      PROVE  UNCHANGED <<pc[q], routes[q]>>
  BY <1>3, OthersRest DEF Rests, RequestTypes, RoutesInv, CacheTypes
<1>4. faults' \in {faults, faults + 1}
  BY DEF Resolve, HGet, Exists, Query, HSet, Expire, Leave, Fault
<1>5. ASSUME NEW failed \in BOOLEAN, HSet(r, failed)
      PROVE  FollowInv'
  BY <1>5, HSetFollows
<1>6. ASSUME NEW failed \in BOOLEAN, Query(r, failed)
      PROVE  FollowInv'
  <2>1. pc'[r] = "loaded" => Right(routes'[r])
    <3>1. ASSUME pc'[r] = "loaded"
          PROVE  \E f \in RouteMaps : routes' = [routes EXCEPT ![r] = f]
      BY <1>1, <1>6, <3>1 DEF Query, Answer, Goto
    <3>. QED  BY <1>1, <3>1, QueryBuilds DEF Right
  <2>2. UNCHANGED <<rows, at, hash, tainted, overtaken, ttl>>
    BY <1>6 DEF Query, cacheVars, consoleVars, historyVars
  <2>. QED  BY <1>2, <1>3, <1>4, <2>1, <2>2
<1>7. ASSUME \/ \E m \in Model, failed \in BOOLEAN : HGet(r, m, failed)
             \/ \E failed \in BOOLEAN : Exists(r, failed) \/ Expire(r, failed)
             \/ Leave(r)
      PROVE  FollowInv'
  <2>1. pc'[r] # "loaded"
    BY <1>1, <1>7 DEF HGet, Exists, Expire, Leave, Answer, Goto
  <2>2. UNCHANGED <<rows, at, hash, tainted, overtaken>> /\ (ttl' = NoHash \/ ttl # NoHash)
    BY <1>7 DEF HGet, Exists, Expire, Leave, cacheVars, consoleVars, historyVars
  <2>. QED  BY <1>2, <1>3, <1>4, <2>1, <2>2
<1>. QED  BY <1>5, <1>6, <1>7 DEF Resolve

LEMMA FollowStep ==
  ASSUME RoutesInv, RowsInv, FollowInv, [Next]_vars
  PROVE  FollowInv'
<1>1. CASE Tick
  <2>1. FollowRests
    BY <1>1 DEF Tick, FollowRests, Settled, consoleVars
  <2>. QED  BY <2>1, FollowsStill
<1>2. CASE UNCHANGED vars
  <2>1. FollowRests
    BY <1>2 DEF vars, cacheVars, requestVars, consoleVars, historyVars, FollowRests, Settled
  <2>. QED  BY <2>1, FollowsStill
<1>. QED  BY <1>1, <1>2, ManageFollows, ResolveFollows DEF Next

LEMMA FollowInit == Init => FollowInv
BY DEF Init, FollowInv, LoadedIsRight

\* Once the DEL that follows a change has come through, what is in the hash was built from
\* the rows as they are, unless an overtaken request has written it
\* (third_party_provider.go:361).
THEOREM HashFollows == Spec => []HashFollowsRows
<1>1. RoutesInv /\ RowsInv /\ FollowInv /\ [Next]_vars => FollowInv'
  BY FollowStep
<1>2. FollowInv => HashFollowsRows
  BY DEF FollowInv, Settled, Right, HashFollowsRows
<1>. QED  BY <1>1, <1>2, FollowInit, RoutesInvariant, RowsInvariant, PTL DEF Spec
=============================================================================
