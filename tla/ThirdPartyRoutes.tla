-------------------------- MODULE ThirdPartyRoutes --------------------------
(***************************************************************************)
(* Third-party providers of one user (internal/service/                    *)
(* third_party_provider.go): the rows that the user's console requests     *)
(* manage, and the Redis hash from which LLM requests learn which of them  *)
(* serves a model.  A request that misses the hash fills it with HSET and  *)
(* EXPIRE after reading the rows, each a step of its own; a console        *)
(* request checks, writes and deletes the hash in separate steps.          *)
(***************************************************************************)
EXTENDS Integers, FiniteSets

CONSTANTS Request,   \* LLM requests of the user
          Console,   \* console requests of the same user
          Provider,  \* ids of provider rows, also of those not created yet
          Model,
          Formats,   \* formats that console requests ask for
          CacheTTL,  \* thirdPartyRouteCacheTTL, in ticks
          MaxStall,  \* bound: ticks from a request's EXISTS to its EXPIRE
          MaxFaults, \* bound: failing commands and queries
          MaxEdits,  \* bound: console requests that begin
  MaxGiven,  \* bound: fields that an update gives
  MaxLoad,   \* bound: LLM requests under way, a console request counting as two of them
  Initial,   \* rows that the user may begin with
  Watched    \* routes, or none, of which the history may follow one

ASSUME RoutesAssumption ==
  /\ Formats \subseteq {"openai", "anthropic", "all"} /\ Formats # {}
  /\ CacheTTL \in Nat \ {0}
  /\ {MaxStall, MaxFaults, MaxEdits, MaxGiven, MaxLoad} \subseteq Nat

VARIABLES
  rows,       \* user_third_party_providers
  hash,       \* codemind:tp_route:{user}: per model a route, NoRoute for a missing field
  ttl,        \* ticks until the hash expires; NoHash when absent, Persistent without expiry
  pc,         \* where each LLM request stands
  asks,       \* the model it asks for
  routes,     \* routes it built from the rows; the answer in asks[r] once answered
  stall,      \* ticks since its EXISTS
  at,         \* where each console request stands
  draft,      \* the provider, the row it will write, and how
  faults, edits, \* so far
  watched,    \* history: a model and an answer for it, any fixed choice
  age,        \* history: ticks since that was last the right answer
  overtaken,  \* history: requests that hold routes built before a later write of a row
  tainted,    \* history: one of those wrote fields of this hash
  unbounded,  \* history: an EXISTS or EXPIRE was lost, so entries may outlive the bound
  overlapped, \* history: console requests that saw another one's write since they began
  contested   \* history: rows that one of those wrote last, or that were enabled unchecked

cacheVars   == <<hash, ttl>>
requestVars == <<pc, asks, routes, stall>>
consoleVars == <<at, draft, edits, overlapped, contested>>
historyVars == <<watched, age, overtaken, tainted, unbounded>>
vars == <<rows, cacheVars, requestVars, consoleVars, faults, historyVars>>

NoHash     == 0
Persistent == -1

\* IsFormatCompatible and BaseURLForFormat of the route; a base URL is there or "".
IsFormatCompatible(config, requestFormat) == config.format \in {"all", requestFormat}

BaseURLForFormat(config, requestFormat) ==
  IF requestFormat = "anthropic" THEN config.anthropicBaseURL ELSE config.openAIBaseURL

Format  == {"openai", "anthropic"}
BaseURL == {"", "url"}

Config == [format : Formats, openAIBaseURL : BaseURL, anthropicBaseURL : BaseURL]

validateBaseURLsByFormat(config) ==
  /\ config.format \in {"openai", "all"} => config.openAIBaseURL # ""
  /\ config.format \in {"anthropic", "all"} => config.anthropicBaseURL # ""

\* A row; "free" while the id is not used, "deleted" for a soft-deleted one.
Row == [state  : {"free", "live", "deleted"}, active : BOOLEAN,
        models : SUBSET Model, config : Config]

\* The fields that an update gives: each the set of its new value, or empty.
Option(S) == {{}} \cup {{value} : value \in S}
Patches   == [format : Option(Formats), openAIBaseURL : Option(BaseURL),
              anthropicBaseURL : Option(BaseURL),
              models : Option(SUBSET Model), active : Option(BOOLEAN)]
Patch     == {patch \in Patches :
                Cardinality({field \in DOMAIN patch : patch[field] # {}}) <= MaxGiven}

Given(option, old) == IF option = {} THEN old ELSE CHOOSE value \in option : TRUE

\* A row with the given fields applied to it.
Patched(row, patch) ==
  [state |-> row.state, active |-> Given(patch.active, row.active),
   models |-> Given(patch.models, row.models),
   config |-> [format |-> Given(patch.format, row.config.format),
               openAIBaseURL |-> Given(patch.openAIBaseURL, row.config.openAIBaseURL),
               anthropicBaseURL |-> Given(patch.anthropicBaseURL, row.config.anthropicBaseURL)]]

Route    == [provider : Provider, config : Config]
NoRoute  == [provider |-> "none",
             config |-> [format |-> "none", openAIBaseURL |-> "", anthropicBaseURL |-> ""]]
Empty    == [m \in Model |-> NoRoute]
RouteMap == [Model -> Route \cup {NoRoute}]

RouteOf(p) == [provider |-> p, config |-> rows[p].config]

\* ListActiveProvidersByUserID: enabled and not deleted.
ActiveProviders == {p \in Provider : rows[p].state = "live" /\ rows[p].active}

Offers(m) == {RouteOf(p) : p \in {q \in ActiveProviders : m \in rows[q].models}}

\* What the rows say of a model; NoRoute stands for nil.  When two rows list it, it goes to
\* the one that the query, which has no ORDER BY, returns last.
RightAnswers(m) == IF Offers(m) = {} THEN {NoRoute} ELSE Offers(m)

\* routeMap of ResolveThirdPartyModel.
RouteMaps == {f \in RouteMap : \A m \in Model : f[m] \in RightAnswers(m)}

-----------------------------------------------------------------------------
\* The longest that an entry can outlive the rows it was read from: it may be written
\* MaxStall after the EXISTS that preceded the query, and its life may be extended once
\* more by a request whose EXISTS found no hash before that.
Staleness == CacheTTL + 2 * MaxStall

TypeOK ==
  /\ rows \in [Provider -> Row]
  /\ hash \in RouteMap
  /\ ttl \in {NoHash, Persistent} \cup 1..CacheTTL
  /\ ttl = NoHash => hash = Empty
  /\ pc \in [Request -> {"idle", "missed", "absent", "loaded", "filled", "answered"}]
  /\ asks \in [Request -> Model]
  /\ routes \in [Request -> RouteMap]
  /\ stall \in [Request -> 0..MaxStall]
  /\ at \in [Console -> {"idle", "checking", "writing", "invalidating"}]
  /\ draft \in [Console -> [op : {"insert", "save", "status", "delete"},
                            id : Provider \cup {"none"}, row : Row, checked : BOOLEAN]]
  /\ faults \in 0..MaxFaults /\ edits \in 0..MaxEdits
  /\ watched \in [model : Model, route : Watched]
  /\ age \in 0..Staleness
  /\ unbounded \in BOOLEAN /\ contested \subseteq Provider /\ tainted \in BOOLEAN
  /\ overlapped \subseteq Console /\ overtaken \subseteq Request

FreeRow  == [state |-> "free", active |-> FALSE, models |-> {},
             config |-> CHOOSE c \in Config : TRUE]
\* Nothing more of a deleted row is ever read.
DeletedRow == [FreeRow EXCEPT !.state = "deleted"]
\* What a console request holds while there is none.
NoDraft  == [op |-> "status", id |-> "none", row |-> FreeRow,
             checked |-> FALSE]
AnyModel == CHOOSE m \in Model : TRUE

\* Two active providers of one model.
Conflict(p, q) ==
  {p, q} \subseteq ActiveProviders /\ p # q /\ rows[p].models \cap rows[q].models # {}

\* A provider that an earlier request has created.
CreatedRow == {row \in Row : /\ row.state = "live" /\ row.active /\ row.models # {}
                             /\ validateBaseURLsByFormat(row.config)}

ASSUME InitialAssumption == Initial \subseteq [Provider -> CreatedRow \cup {FreeRow}]

Init ==
  /\ rows \in Initial
  /\ \A p, q \in Provider : ~Conflict(p, q)
  /\ hash = Empty /\ ttl = NoHash
  /\ pc = [r \in Request |-> "idle"]
  /\ asks = [r \in Request |-> AnyModel]
  /\ routes = [r \in Request |-> Empty]
  /\ stall = [r \in Request |-> 0]
  /\ at = [c \in Console |-> "idle"]
  /\ draft = [c \in Console |-> NoDraft]
  /\ faults = 0 /\ edits = 0
  /\ watched \in [model : Model, route : Watched]
  /\ age = IF watched.route \in RightAnswers(watched.model) THEN 0 ELSE Staleness
  /\ unbounded = FALSE /\ contested = {} /\ overlapped = {}
  /\ overtaken = {} /\ tainted = FALSE

-----------------------------------------------------------------------------
(***************************************************************************)
(* LLM requests: ResolveThirdPartyModel                                    *)
(***************************************************************************)
Load == Cardinality({r \in Request : pc[r] # "idle"})
        + 2 * Cardinality({c \in Console : at[c] # "idle"})

Goto(r, p) == pc' = [pc EXCEPT ![r] = p]

\* A command that fails costs a fault.
Fault(failed) ==
  /\ failed => faults < MaxFaults
  /\ faults' = IF failed THEN faults + 1 ELSE faults

\* The request leaves with route for its model m, NoRoute standing for nil.
Answer(r, m, route) ==
  /\ Goto(r, "answered")
  /\ routes' = [routes EXCEPT ![r] = [Empty EXCEPT ![m] = route]]
  /\ stall' = [stall EXCEPT ![r] = 0]

\* Seeded fault: a field that answers is kept for another CacheTTL.
HGetSlides(r, m, failed) ==
  /\ pc[r] = "idle" /\ Load < MaxLoad
  /\ Fault(failed)
  /\ asks' = [asks EXCEPT ![r] = m]
  /\ IF ~failed /\ hash[m] # NoRoute
       THEN Answer(r, m, hash[m]) /\ ttl' = CacheTTL
       ELSE Goto(r, "missed") /\ UNCHANGED <<routes, stall, ttl>>
  /\ UNCHANGED <<rows, hash, consoleVars, historyVars>>

\* HGET: a field answers; a missing one, or an error, goes on.
HGet(r, m, failed) ==
  /\ pc[r] = "idle" /\ Load < MaxLoad
  /\ Fault(failed)
  /\ asks' = [asks EXCEPT ![r] = m]
  /\ IF ~failed /\ hash[m] # NoRoute
       THEN Answer(r, m, hash[m])
       ELSE Goto(r, "missed") /\ UNCHANGED <<routes, stall>>
  /\ UNCHANGED <<rows, cacheVars, consoleVars, historyVars>>

\* EXISTS: a hash that is there means that the model is not third-party.  A failed EXISTS
\* counts as none.
Exists(r, failed) ==
  /\ pc[r] = "missed"
  /\ Fault(failed)
  /\ IF ~failed /\ ttl # NoHash
       THEN Answer(r, asks[r], NoRoute)
       ELSE Goto(r, "absent") /\ UNCHANGED <<routes, stall>>
  /\ unbounded' = (unbounded \/ failed)
  /\ UNCHANGED <<rows, cacheVars, asks, consoleVars, watched, age, overtaken, tainted>>

\* ListActiveProvidersByUserID and the map of routes; a failed query answers nil.
Query(r, failed) ==
  /\ pc[r] = "absent"
  /\ Fault(failed)
  /\ IF failed
       THEN Answer(r, asks[r], NoRoute)
       ELSE /\ \E f \in RouteMaps : routes' = [routes EXCEPT ![r] = f]
            /\ Goto(r, "loaded") /\ UNCHANGED stall
  /\ UNCHANGED <<rows, cacheVars, asks, consoleVars, historyVars>>

\* HSET adds the fields to whatever the hash holds by now ("__loaded__" when there are
\* none) and leaves its TTL; a new hash has none.
HSet(r, failed) ==
  /\ pc[r] = "loaded"
  /\ Fault(failed)
  /\ IF failed THEN UNCHANGED cacheVars
     ELSE /\ hash' = [m \in Model |-> IF routes[r][m] = NoRoute THEN hash[m] ELSE routes[r][m]]
          /\ ttl' = IF ttl = NoHash THEN Persistent ELSE ttl
  /\ Goto(r, "filled")
  /\ tainted' = (tainted \/ r \in overtaken)
  /\ overtaken' = overtaken \ {r}
  /\ UNCHANGED <<rows, asks, routes, stall, consoleVars, watched, age, unbounded>>

\* EXPIRE of the hash, if there is one, whoever wrote it; then the answer from the rows.
Expire(r, failed) ==
  /\ pc[r] = "filled"
  /\ Fault(failed)
  /\ ttl' = IF failed \/ ttl = NoHash THEN ttl ELSE CacheTTL
  /\ unbounded' = (unbounded \/ failed)
  /\ Answer(r, asks[r], routes[r][asks[r]])
  /\ UNCHANGED <<rows, hash, asks, consoleVars, watched, age, overtaken, tainted>>

Leave(r) ==
  /\ pc[r] = "answered"
  /\ Goto(r, "idle")
  /\ asks' = [asks EXCEPT ![r] = AnyModel]
  /\ routes' = [routes EXCEPT ![r] = Empty]
  /\ UNCHANGED <<rows, cacheVars, stall, consoleVars, faults, historyVars>>

Resolve(r) ==
  \/ \E m \in Model, failed \in BOOLEAN : HGet(r, m, failed)
  \/ \E failed \in BOOLEAN : Exists(r, failed) \/ Query(r, failed) \/ HSet(r, failed)
                             \/ Expire(r, failed)
  \/ Leave(r)

-----------------------------------------------------------------------------
(***************************************************************************)
(* Console requests                                                        *)
(***************************************************************************)
Move(c, p) == at' = [at EXCEPT ![c] = p]

\* Seeded fault: the condition on the excluded provider is inverted.
checkModelConflictInverted(models, id) ==
  \E p \in ActiveProviders \cap {id} : rows[p].models \cap models # {}

\* Conflicts of models with the active providers other than id.
checkModelConflict(models, id) ==
  \E p \in ActiveProviders \ {id} : rows[p].models \cap models # {}

\* A request begins with the row it read, and works on a copy.
Begin(c, op, p, row, check) ==
  /\ at[c] = "idle" /\ edits < MaxEdits /\ Load + 2 <= MaxLoad
  /\ edits' = edits + 1
  /\ draft' = [draft EXCEPT ![c] = [op |-> op, id |-> p, row |-> row, checked |-> check]]
  /\ Move(c, IF check THEN "checking" ELSE "writing")
  /\ overlapped' = overlapped \ {c}
  /\ UNCHANGED <<rows, cacheVars, requestVars, faults, contested, historyVars>>

\* CreateProvider: the column default enables the row.
CreateProvider(c, p, models, config) ==
  /\ rows[p].state = "free"
  /\ \A d \in Console : at[d] # "idle" => draft[d].id # p
  /\ models # {} /\ validateBaseURLsByFormat(config)
  /\ Begin(c, "insert", p,
           [state |-> "live", active |-> TRUE, models |-> models, config |-> config], TRUE)

\* Seeded fault: the base URLs are validated before the given fields are applied.
UpdateProviderValidatesOld(c, p, patch) ==
  /\ rows[p].state = "live"
  /\ validateBaseURLsByFormat(rows[p].config)
  /\ Begin(c, "save", p, Patched(rows[p], patch), patch.models # {})

\* UpdateProvider: the given fields are applied to the row read.  Only models that are given
\* are checked for conflicts, not a status; the base URLs are validated on the result.
UpdateProvider(c, p, patch) ==
  /\ rows[p].state = "live"
  /\ validateBaseURLsByFormat(Patched(rows[p], patch).config)
  /\ Begin(c, "save", p, Patched(rows[p], patch), patch.models # {})

UpdateProviderStatus(c, p, active) ==
  /\ rows[p].state = "live"
  /\ Begin(c, "status", p, [FreeRow EXCEPT !.active = active], FALSE)

DeleteProvider(c, p) ==
  /\ rows[p].state = "live"
  /\ Begin(c, "delete", p, DeletedRow, FALSE)

\* The request ends, refused or done.
End(c) ==
  /\ Move(c, "idle")
  /\ draft' = [draft EXCEPT ![c] = NoDraft]
  /\ overlapped' = overlapped \ {c}

Check(c, failed) ==
  /\ at[c] = "checking"
  /\ Fault(failed)
  /\ IF failed \/ checkModelConflict(draft[c].row.models, draft[c].id)
       THEN End(c)
       ELSE Move(c, "writing") /\ UNCHANGED <<draft, overlapped>>
  /\ UNCHANGED <<rows, cacheVars, requestVars, edits, contested, historyVars>>

\* What the write makes of the row: Save inserts a row again that was deleted meanwhile,
\* UPDATE of the status leaves it alone.
Written(d) ==
  IF d.op = "status"
    THEN IF rows[d.id].state = "live"
           THEN [rows[d.id] EXCEPT !.active = d.row.active] ELSE rows[d.id]
    ELSE d.row

\* What a step means to the history, which is n unless the watched answer is right.
Remember(n) ==
  LET m == watched.model IN
  /\ UNCHANGED watched
  /\ age' = IF watched.route \in RightAnswers(m) \cup RightAnswers(m)' THEN 0 ELSE n

\* A status that enables a row is not checked for conflicts, whatever wrote it.
EnablesUnchecked(d) ==
  ~d.checked /\ Written(d).active /\ ~rows[d.id].active

\* A row written over another request's write, or enabled unchecked, may conflict with
\* others; written after a check that still holds, it does not.
Contests(c) ==
  LET d == draft[c] IN
  IF EnablesUnchecked(d) \/ (c \in overlapped /\ d.op \in {"insert", "save"})
    THEN contested \cup {d.id}
    ELSE IF d.checked THEN contested \ {d.id} ELSE contested

WriteFails(c) ==
  /\ at[c] = "writing"
  /\ Fault(TRUE)
  /\ End(c)
  /\ UNCHANGED <<rows, cacheVars, requestVars, edits, contested, historyVars>>

Write(c) ==
  LET d == draft[c] IN
  /\ at[c] = "writing"
  /\ rows' = [rows EXCEPT ![d.id] = Written(d)]
  /\ Move(c, "invalidating")
  /\ draft' = [draft EXCEPT ![c] = NoDraft]
  /\ overlapped' = (overlapped \ {c})
       \cup {other \in Console \ {c} : at[other] \in {"checking", "writing"}}
  /\ contested' = Contests(c)
  /\ overtaken' = overtaken \cup {r \in Request : pc[r] = "loaded"}
  /\ Remember(age)
  /\ UNCHANGED <<cacheVars, requestVars, edits, faults, tainted, unbounded>>

\* Seeded fault: the routes that are cached are kept.
invalidateRouteCacheNot(c, failed) ==
  /\ at[c] = "invalidating"
  /\ Fault(failed)
  /\ UNCHANGED cacheVars
  /\ End(c)
  /\ UNCHANGED <<rows, requestVars, edits, contested, historyVars>>

\* DEL of the hash, whose failure nobody notices.
invalidateRouteCache(c, failed) ==
  /\ at[c] = "invalidating"
  /\ Fault(failed)
  /\ IF failed THEN UNCHANGED <<cacheVars, tainted>>
     ELSE hash' = Empty /\ ttl' = NoHash /\ tainted' = FALSE
  /\ End(c)
  /\ UNCHANGED <<rows, requestVars, edits, contested, watched, age, overtaken, unbounded>>

Manage(c) ==
  \/ \E p \in Provider :
       \/ \E models \in SUBSET Model, config \in Config : CreateProvider(c, p, models, config)
       \/ \E patch \in Patch : UpdateProvider(c, p, patch)
       \/ \E active \in BOOLEAN : UpdateProviderStatus(c, p, active)
       \/ DeleteProvider(c, p)
  \/ Write(c) \/ WriteFails(c)
  \/ \E failed \in BOOLEAN : Check(c, failed) \/ invalidateRouteCache(c, failed)

-----------------------------------------------------------------------------
Aged(n) == IF n < Staleness THEN n + 1 ELSE n

\* A request that is filling the hash, or will.
Filling(r) == pc[r] \in {"absent", "loaded", "filled"}

\* Time passes: the hash ages, and no request stalls beyond the bound.
Tick ==
  /\ \A r \in Request : Filling(r) => stall[r] < MaxStall
  /\ stall' = [r \in Request |-> IF Filling(r) THEN stall[r] + 1 ELSE stall[r]]
  /\ ttl' = IF ttl \in {NoHash, Persistent} THEN ttl ELSE ttl - 1
  /\ hash' = IF ttl' = NoHash THEN Empty ELSE hash
  /\ tainted' = (tainted /\ ttl' # NoHash)
  /\ UNCHANGED <<rows, pc, asks, routes, consoleVars, faults, overtaken, unbounded>>
  /\ Remember(Aged(age))

Next ==
  \/ \E r \in Request : Resolve(r)
  \/ \E c \in Console : Manage(c)
  \/ Tick

Spec == Init /\ [][Next]_vars

-----------------------------------------------------------------------------
(***************************************************************************)
(* Properties                                                              *)
(***************************************************************************)

Answered(r) == pc[r] # "answered" /\ pc'[r] = "answered"
Outcome(r)  == routes'[r][asks'[r]]

\* However requests fill the hash while it is invalidated, a request leaves with a route
\* (and the API key in it) only if an enabled provider offered exactly that less than
\* Staleness ago, and with nil, when the hash has no route for it, only if no provider
\* offered the model so recently; unless an EXISTS or EXPIRE was lost, which defeats the
\* bound, or the query failed.
AnswersAreTimely ==
  [][\A r \in Request :
       /\ Answered(r) /\ asks'[r] = watched.model /\ Outcome(r) = watched.route
       /\ Outcome(r) = NoRoute => faults' = faults /\ hash[asks'[r]] = NoRoute
       => unbounded' \/ age < Staleness]_vars

\* Over any sequence of console requests, two active providers offer one model only if one
\* of them was last saved by a request that another one's write overlapped, or was enabled
\* again unchecked (UpdateProvider and UpdateProviderStatus do not call checkModelConflict
\* then); and an edit of that one that gives its models, and nothing overlaps, ends it.
ModelsAreExclusive ==
  \A p, q \in Provider : Conflict(p, q) => {p, q} \cap contested # {}

\* A change in the console takes effect at once: without faults and once the hash has been
\* deleted, the hash agrees with the rows, unless a request that had read older rows wrote it.
HashFollowsRows ==
  ttl # NoHash /\ faults = 0 /\ (\A c \in Console : at[c] # "invalidating")
    => tainted \/ \A m \in Model : hash[m] \in RightAnswers(m)

\* A cached route that is compatible with a request's format has a base URL for it, also
\* when one console request changes the format and another one removes a URL, each of them
\* validated on the row that it read: the row is saved whole, so that the last one wins.
RoutesAreUsable ==
  \A m \in Model, f \in Format :
    hash[m] # NoRoute /\ IsFormatCompatible(hash[m].config, f)
      => BaseURLForFormat(hash[m].config, f) # ""
=============================================================================
