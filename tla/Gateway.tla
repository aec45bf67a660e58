------------------------------- MODULE Gateway -------------------------------
(***************************************************************************)
(* One call to an LLM endpoint from its body to its records                *)
(* (internal/handler/llm_proxy.go, third_party_proxy.go,                   *)
(* internal/service/llm_proxy.go): the third-party route, else quota, slot *)
(* and provider; the upstream; and the goroutines that record the call     *)
(* after the handler has answered.  What the parts do inside is in         *)
(* ThirdPartyRoutes, QuotaCycle, ConcurrencySlots, LoadBalancer,           *)
(* StreamAdapter and TrainingPipeline; here they answer in any way they    *)
(* can, and the module is about what the handler makes of the answers.     *)
(***************************************************************************)
EXTENDS UsageLedger

CONSTANTS Request,        \* calls
          UserOf,         \* who makes each of them
          Served,         \* endpoints that each of them may use
          MaxConcurrency, \* slots of a user
          Usages,         \* bound: tokens one call can use
          MaxCalls,       \* bound: requests that arrive
          MaxFaults       \* bound: failing writes and crashes

VARIABLES
  phase,    \* where each handler stands
  endpoint, \* what it serves
  slots,    \* slots of each user that are taken
  route,    \* "platform" or "third_party" once that is known
  answer,   \* status of the answer, None before
  used,     \* tokens the upstream reported, None if it reported none
  tasks,    \* goroutines that record: what, of which call, for which date
  faults

vars == <<today, tables, phase, endpoint, slots, route, answer, used, tasks, faults>>

\* The endpoints: format of requests and errors, and type in the records.
ChatCompletions   == [format |-> "openai", type |-> "chat_completion"]
Completions       == [format |-> "openai", type |-> "completion"]
Embeddings        == [format |-> "openai", type |-> "embedding"]
Responses         == [format |-> "openai", type |-> "responses"]
AnthropicMessages == [format |-> "anthropic", type |-> "anthropic_messages"]

Endpoints == {ChatCompletions, Completions, Embeddings, Responses, AnthropicMessages}

ASSUME GatewayAssumption ==
  /\ IsFiniteSet(Request)
  /\ Served \in [Request -> SUBSET Endpoints]
  /\ UserOf \in [Request -> User]
  /\ MaxConcurrency \in Nat \ {0} /\ Usages \subseteq Nat
  /\ MaxCalls \in Nat /\ MaxFaults \in Nat
  /\ None \notin Nat \cup {"platform", "third_party"} \cup Endpoints

\* The platform's part of a handler, and the proxy's to a third-party service.
PlatformPhases   == {"checking", "admitted", "holding", "calling", "recording", "leaving"}
ThirdPartyPhases == {"proxying", "piping"}

Holds(r) == phase[r] \in {"holding", "calling", "recording", "leaving"}

\* Goroutines of one call.  RecordUsage goes on to its writes, with the date it read.
TaskKinds == {"RecordUsage", "Writes", "RecordRequestLog", "Metrics", "MetricsLog"}
Task(r, kind) == [call |-> r, kind |-> kind, day |-> 0]

\* The tables that RecordUsage writes, in parallel.
Writes == {"CreateUsage", "UpsertDaily", "UpsertDailyKey", "RecordCycleUsage"}

TypeOK ==
  /\ phase \in [Request -> {"new", "received", "done"} \cup PlatformPhases \cup ThirdPartyPhases]
  /\ endpoint \in [Request -> Endpoints \cup {None}]
  /\ slots \in [User -> 0..MaxConcurrency]
  /\ route \in [Request -> {"platform", "third_party", None}]
  /\ answer \in [Request -> {200, 400, 429, 500, 502} \cup {None}]
  /\ used \in [Request -> Usages \cup {None}]
  /\ tasks \subseteq [call : Request, kind : TaskKinds, day : 0..MaxDay]
  /\ faults \in 0..MaxFaults

Init ==
  /\ LedgerInit
  /\ phase = [r \in Request |-> "new"]
  /\ endpoint = [r \in Request |-> None]
  /\ slots = [u \in User |-> 0]
  /\ route = [r \in Request |-> None]
  /\ answer = [r \in Request |-> None]
  /\ used = [r \in Request |-> None]
  /\ tasks = {} /\ faults = 0

-----------------------------------------------------------------------------
(***************************************************************************)
(* Handlers                                                                *)
(***************************************************************************)
Goto(r, p) == phase' = [phase EXCEPT ![r] = p]

\* The handler answers and starts goroutines; the platform's release their slot on the way
\* out, where a deferred ReleaseConcurrency runs.
Reply(r, status, started) ==
  /\ answer' = [answer EXCEPT ![r] = status]
  /\ tasks' = tasks \cup started
  /\ Goto(r, IF Holds(r) THEN "leaving" ELSE "done")

\* A request arrives; an error, in the endpoint's format, for a body that cannot be read or
\* parsed.  Whether it asks for a stream matters only where an answer is piped or sent on, and
\* is chosen there.
Receive(r, e, readable) ==
  /\ phase[r] = "new"
  /\ Cardinality({q \in Request : phase[q] # "new"}) < MaxCalls
  /\ endpoint' = [endpoint EXCEPT ![r] = e]
  /\ IF readable
       THEN Goto(r, "received") /\ UNCHANGED <<answer, tasks>>
       ELSE Reply(r, 400, {})
  /\ UNCHANGED <<today, tables, slots, route, used, faults>>

\* checkAndHandleThirdParty: no route (None), or one of the format "openai", "anthropic" or
\* "all".  A route that does not fit the request is an error and never falls back.
checkAndHandleThirdParty(r, format) ==
  /\ phase[r] = "received"
  /\ route' = [route EXCEPT ![r] = IF format = None THEN "platform" ELSE "third_party"]
  /\ IF format \in {"openai", "anthropic"} \ {endpoint[r].format}
       THEN Reply(r, 400, {})
       ELSE /\ Goto(r, IF format = None THEN "checking" ELSE "proxying")
            /\ UNCHANGED <<answer, tasks>>
  /\ UNCHANGED <<today, tables, endpoint, slots, used, faults>>

\* handleThirdPartyProxy: the key cannot be decrypted, the service cannot be reached, it
\* answers with an error (pipeThirdPartyErrorResponse), or it answers.
handleThirdPartyProxy(r, outcome) ==
  /\ phase[r] = "proxying"
  /\ CASE outcome = "no key"      -> Reply(r, 500, {})
       [] outcome = "unreachable" -> Reply(r, 502, {Task(r, "RecordRequestLog")})
       [] outcome = "error"       -> Reply(r, 502, {Task(r, "RecordRequestLog")})
       [] outcome = "answer"      -> Goto(r, "piping") /\ UNCHANGED <<answer, tasks>>
  /\ UNCHANGED <<today, tables, endpoint, slots, route, used, faults>>

\* pipeThirdPartyNonStreamResponse: a body that cannot be read is answered with 502 and
\* leaves no record.
pipeThirdPartyNonStreamResponse(r, readable, tokens) ==
  /\ phase[r] = "piping"
  /\ IF readable
       THEN Reply(r, 200, {Task(r, "Metrics")}) /\ used' = [used EXCEPT ![r] = tokens]
       ELSE Reply(r, 502, {}) /\ UNCHANGED used
  /\ UNCHANGED <<today, tables, endpoint, slots, route, faults>>

\* pipeThirdPartyStreamResponse: however the stream ends, what came of it is recorded.
pipeThirdPartyStreamResponse(r, tokens) ==
  /\ phase[r] = "piping"
  /\ used' = [used EXCEPT ![r] = tokens]
  /\ Reply(r, 200, {Task(r, "Metrics")})
  /\ UNCHANGED <<today, tables, endpoint, slots, route, faults>>

\* CheckTokenQuota; errors of its store admit the call.
CheckTokenQuota(r, allowed) ==
  /\ phase[r] = "checking"
  /\ IF allowed THEN Goto(r, "admitted") /\ UNCHANGED <<answer, tasks>> ELSE Reply(r, 429, {})
  /\ UNCHANGED <<today, tables, endpoint, slots, route, used, faults>>

\* AcquireConcurrency: an error, or no free slot, refuses the call.
AcquireConcurrency(r) ==
  LET u == UserOf[r] IN
  /\ phase[r] = "admitted"
  /\ \/ /\ slots[u] < MaxConcurrency
        /\ slots' = [slots EXCEPT ![u] = @ + 1]
        /\ Goto(r, "holding") /\ UNCHANGED <<answer, tasks>>
     \/ /\ Reply(r, 429, {}) /\ UNCHANGED slots
  /\ UNCHANGED <<today, tables, endpoint, route, used, faults>>

\* Seeded fault: the release is deferred only after the provider is known.
GetProviderForModelDefersLate(r, found) ==
  /\ phase[r] = "holding"
  /\ IF found THEN Goto(r, "calling") /\ UNCHANGED answer
     ELSE Goto(r, "done") /\ answer' = [answer EXCEPT ![r] = 400]
  /\ UNCHANGED <<today, tables, endpoint, slots, route, used, tasks, faults>>

\* GetProviderForModel: the balancer's, else the static route's, else an error.
GetProviderForModel(r, found) ==
  /\ phase[r] = "holding"
  /\ IF found THEN Goto(r, "calling") /\ UNCHANGED <<answer, tasks>> ELSE Reply(r, 400, {})
  /\ UNCHANGED <<today, tables, endpoint, slots, route, used, faults>>

\* Seeded fault: the error is answered and not logged.
handleLLMErrorSilent(r) ==
  /\ phase[r] = "calling"
  /\ Reply(r, 502, {})
  /\ UNCHANGED <<today, tables, endpoint, slots, route, used, faults>>

\* handleLLMError and its siblings: the call that fails is logged.  502 stands for the
\* status that the error carries.
handleLLMError(r) ==
  /\ phase[r] = "calling"
  /\ Reply(r, 502, {Task(r, "RecordRequestLog")})
  /\ UNCHANGED <<today, tables, endpoint, slots, route, used, faults>>

\* What the five handlers do with an answer: a goroutine each for usage, which returns at
\* once when there is none, log and training data (RecordTrainingData of TrainingPipeline,
\* which touches nothing here).
Answered(r, e, tokens) ==
  /\ phase[r] = "calling" /\ endpoint[r] = e
  /\ used' = [used EXCEPT ![r] = tokens]
  /\ Reply(r, 200, {Task(r, "RecordUsage"), Task(r, "RecordRequestLog")})
  /\ UNCHANGED <<today, tables, endpoint, slots, route, faults>>

handleNonStreamChatRaw(r, tokens)       == Answered(r, ChatCompletions, tokens)
handleNonStreamCompletionRaw(r, tokens) == Answered(r, Completions, tokens)
handleNonStreamResponses(r, tokens)     == Answered(r, Responses, tokens)
handleAnthropicNonStream(r, tokens)     == Answered(r, AnthropicMessages, tokens)

\* A stream that breaks off is recorded like one that ends.
handleStreamChatRaw(r, tokens)       == Answered(r, ChatCompletions, tokens)
handleStreamCompletionRaw(r, tokens) == Answered(r, Completions, tokens)
handleStreamResponses(r, tokens)     == Answered(r, Responses, tokens)
handleAnthropicStream(r, tokens)     == Answered(r, AnthropicMessages, tokens)

\* Embeddings are never streamed by the platform, whatever the request asks for.
handleEmbeddingRaw(r, tokens) == Answered(r, Embeddings, tokens)

\* The deferred ReleaseConcurrency.
ReleaseConcurrency(r) ==
  /\ phase[r] = "leaving"
  /\ slots' = [slots EXCEPT ![UserOf[r]] = @ - 1]
  /\ Goto(r, "done")
  /\ UNCHANGED <<today, tables, endpoint, route, answer, used, tasks, faults>>

Handle(r) ==
  \/ \E e \in Served[r], readable \in BOOLEAN : Receive(r, e, readable)
  \/ \E f \in {None, "openai", "anthropic", "all"} : checkAndHandleThirdParty(r, f)
  \/ \E o \in {"no key", "unreachable", "error", "answer"} : handleThirdPartyProxy(r, o)
  \/ \E allowed \in BOOLEAN : CheckTokenQuota(r, allowed)
  \/ AcquireConcurrency(r)
  \/ \E found \in BOOLEAN : GetProviderForModel(r, found)
  \/ handleLLMError(r)
  \/ \E tokens \in Usages \cup {None} :
       \/ \E readable \in BOOLEAN : pipeThirdPartyNonStreamResponse(r, readable, tokens)
       \/ pipeThirdPartyStreamResponse(r, tokens)
       \/ handleNonStreamChatRaw(r, tokens) \/ handleStreamChatRaw(r, tokens)
       \/ handleNonStreamCompletionRaw(r, tokens) \/ handleStreamCompletionRaw(r, tokens)
       \/ handleEmbeddingRaw(r, tokens)
       \/ handleNonStreamResponses(r, tokens) \/ handleStreamResponses(r, tokens)
       \/ handleAnthropicNonStream(r, tokens) \/ handleAnthropicStream(r, tokens)
  \/ ReleaseConcurrency(r)

-----------------------------------------------------------------------------
(***************************************************************************)
(* Goroutines                                                              *)
(***************************************************************************)
Fault(failed) ==
  /\ failed => faults < MaxFaults
  /\ faults' = IF failed THEN faults + 1 ELSE faults

Tokens(r) == IF used[r] = None THEN 0 ELSE used[r]

\* A goroutine's step: it goes on to next, and unless the write fails it does it.
Run(t, kind, next) == t.kind = kind /\ tasks' = (tasks \ {t}) \cup next

\* RecordUsage reads the date and starts its writes.
RecordUsage(t) ==
  /\ Run(t, "RecordUsage", IF used[t.call] = None THEN {}
                           ELSE {[call |-> t.call, kind |-> "Writes", day |-> today]})
  /\ UNCHANGED <<tables, faults>>

Written(t, lost) ==
  LET u == UserOf[t.call]  n == used[t.call] IN
  /\ IF "CreateUsage" \in lost THEN UNCHANGED tokenUsage ELSE CreateUsage(u, n)
  /\ IF "UpsertDaily" \in lost THEN UNCHANGED daily ELSE UpsertDaily(u, t.day, n)
  /\ IF "UpsertDailyKey" \in lost THEN UNCHANGED dailyKey
     ELSE UpsertDailyKey(KeyOf[u], t.day, n)
  /\ IF "RecordCycleUsage" \in lost THEN UNCHANGED cycle ELSE RecordCycleUsage(u, n)
  /\ UNCHANGED <<live, thirdParty, logs>>

\* Seeded fault: when a write fails all are done again.
RecordUsageWritesAgain(t, lost) ==
  /\ t.kind = "Writes"
  /\ tasks' = IF lost = {} THEN tasks \ {t} ELSE tasks
  /\ Fault(lost # {})
  /\ Written(t, lost)

\* The writes have no common transaction: any of them can fail, or be lost when the process
\* ends among them, and none is tried again.
RecordUsageWrites(t, lost) ==
  /\ Run(t, "Writes", {})
  /\ Fault(lost # {})
  /\ Written(t, lost)

RecordRequestLog(t, failed) ==
  /\ Run(t, "RecordRequestLog", {})
  /\ Fault(failed)
  /\ IF failed THEN UNCHANGED tables
     ELSE CreateRequestLog(t.call,
            IF route[t.call] = "third_party" THEN "chat_completion" ELSE endpoint[t.call].type,
            answer[t.call])

\* recordThirdPartyMetrics: usage, log and training data one after the other.
recordThirdPartyMetrics(t, failed) ==
  LET r == t.call IN
  /\ Fault(failed)
  /\ \/ /\ Run(t, "Metrics", {Task(r, "MetricsLog")})
        /\ IF failed THEN UNCHANGED tables ELSE RecordThirdPartyUsage(UserOf[r], Tokens(r))
     \/ /\ Run(t, "MetricsLog", {})
        /\ IF failed THEN UNCHANGED tables
           ELSE CreateRequestLog(r, "chat_completion", 200)

Record(t) ==
  /\ \/ RecordUsage(t)
     \/ \E lost \in SUBSET Writes : RecordUsageWrites(t, lost)
     \/ \E failed \in BOOLEAN : RecordRequestLog(t, failed) \/ recordThirdPartyMetrics(t, failed)
  /\ UNCHANGED <<today, phase, endpoint, slots, route, answer, used>>

\* The server stops: goroutines that record are not waited for, and after a crash neither
\* are handlers, whose slots stay in Redis until they expire.
Stop ==
  /\ faults < MaxFaults /\ faults' = faults + 1
  /\ phase' = [r \in Request |-> IF phase[r] = "new" THEN "new" ELSE "done"]
  /\ tasks' = {}
  /\ UNCHANGED <<today, tables, endpoint, slots, route, answer, used>>

Calm == UNCHANGED <<phase, endpoint, slots, route, answer, used, tasks, faults>>

Next ==
  \/ \E r \in Request : Handle(r)
  \/ \E t \in tasks : Record(t)
  \/ Midnight /\ Calm
  \/ \E u \in User : DeleteUser(u) /\ Calm
  \/ cleanup /\ Calm
  \/ Stop

Spec == Init /\ [][Next]_vars

-----------------------------------------------------------------------------
(***************************************************************************)
(* Properties                                                              *)
(***************************************************************************)
Quiet == tasks = {} /\ \A r \in Request : phase[r] \in {"new", "done"}

\* What the calls of user u that were answered over a route have used.
Calls(u, via) ==
  {r \in Request : UserOf[r] = u /\ route[r] = via /\ answer[r] = 200}
CallUsage == [r \in Request |-> [tokens |-> Tokens(r), requests |-> 1]]
Used(u, via) ==
  SumOf(CallUsage, {r \in Calls(u, via) : via = "third_party" \/ used[r] # None})

\* What a report says over all its dates, and the report of a user that names every date.
Platform(report)   == Total([date \in DOMAIN report |-> report[date].platform])
ThirdParty(report) == Total([date \in DOMAIN report |-> report[date].thirdParty])
Exported(rows)     == Total([row \in rows |-> row.usage])
Full(period, u)    == GetUsageStats(period, "user", u, FirstDay, MaxDay)

\* Once the goroutines have ended and none failed, the reports of a user's usage have every
\* call exactly once when they are asked for every date: the statistics by day, week and
\* month, the summary of its key, and the export until the user is deleted; midnights, the
\* cleaner, deletions and the days between answer and record take nothing away
\* (llm_proxy.go RecordUsage, stats.go, data_retention.go cleanup).
AccountsBalance ==
  Quiet /\ faults = 0 =>
    \A u \in User :
      LET platform == Used(u, "platform")  other == Used(u, "third_party") IN
      /\ \A p \in Period : Platform(Full(p, u)) = platform /\ ThirdParty(Full(p, u)) = other
      /\ GetKeyUsageSummary("user", u, FirstDay, MaxDay)[KeyOf[u]] = Plus(platform, other)
      /\ Exported(ExportUsageStats("daily", "user", u, FirstDay, MaxDay))
           = IF u \in live THEN platform ELSE Zero

AtMost(a, b) == a.tokens <= b.tokens /\ a.requests <= b.requests

\* Whatever fails, crashes or is still running, nobody's account ever shows more than the
\* calls that were answered: no call is counted twice, for another user, or over both routes
\* (llm_proxy.go RecordUsage, third_party_proxy.go recordThirdPartyMetrics).
RecordsNeverExceedCalls ==
  \A u \in User :
    /\ AtMost(Platform(Full("daily", u)), Used(u, "platform"))
    /\ AtMost(ThirdParty(Full("daily", u)), Used(u, "third_party"))
    /\ cycle[u] <= Used(u, "platform").tokens
    /\ AtMost(GetKeyUsageSummary("user", u, FirstDay, MaxDay)[KeyOf[u]],
              Plus(Used(u, "platform"), Used(u, "third_party")))

\* What the statistics that the console shows by default say of the current period.
Current(period, role, u) ==
  LET report == GetUsageStats(period, role, u, None, None)
      now    == Trunc(period, today)
  IN  IF now \in DOMAIN report THEN report[now] ELSE [platform |-> Zero, thirdParty |-> Zero]

\* The rankings of the current day, week and month, whose first day the service computes,
\* say of each user and department that the limit leaves in them what the statistics, which
\* the database truncates, say for that period; a ranking that the limit does not cut adds up
\* to them, but for deleted users, whom only the statistics of all users still count.  The
\* overview's today and month agree too.  Each report is several queries, so no writer is
\* running (stats.go getPeriodRange, parseDateRange and GetOverview, usage.go DATE_TRUNC,
\* LIMIT and deleted_at).
ReportsAgree ==
  tasks = {} =>
    /\ \A p \in Period :
         LET own     == [u \in User |-> Current(p, "user", u).platform]
             managed == [u \in User |-> Current(p, "dept_manager", u).platform]
             uncut   == Cardinality(User)
         IN
         /\ \A limit \in 1..uncut :
              /\ \A department \in Department \cup {NoDepartment} :
                   \A ranking \in GetUserRanking(p, department, limit) :
                     \A u \in DOMAIN ranking : ranking[u] = own[u]
              /\ \A ranking \in GetDeptRanking(p, limit), u \in User :
                   DepartmentOf[u] \in DOMAIN ranking => ranking[DepartmentOf[u]] = managed[u]
         /\ \A u \in User : DepartmentOf[u] # NoDepartment =>
              \A ranking \in GetUserRanking(p, DepartmentOf[u], uncut) : Total(ranking) = managed[u]
         /\ \A u \in User, ranking \in GetUserRanking(p, NoDepartment, uncut) :
              Current(p, "super_admin", u).platform = Plus(Total(ranking), SumOf(own, User \ live))
    /\ \A role \in {"user", "super_admin"}, u \in User :
         /\ GetOverview(role, u).today     = Current("daily", role, u)
         /\ GetOverview(role, u).thisMonth = Current("monthly", role, u)

\* Once the goroutines have ended and none failed, a call that reached an upstream has left
\* one log, with its status and, from the platform, its type, unless the log is old enough for
\* the cleaner or the answer was a third party's that could not be read; a call that was
\* refused before has left none (llm_proxy.go handlers, third_party_proxy.go).
CallsAreLogged ==
  Quiet /\ faults = 0 =>
    \A r \in Request : phase[r] = "done" =>
      LET own == {row \in DOMAIN logs : row.call = r} IN
      /\ answer[r] \in {400, 429, 500} => own = {}
      /\ \A row \in own : /\ own = {row} /\ logs[row] = 1
                          /\ row.status = answer[r]
                          /\ route[r] = "platform" => row.type = endpoint[r].type
      /\ today < FirstDay + RetentionDays =>
           (answer[r] = 200 \/ (answer[r] = 502 /\ route[r] = "platform") => own # {})

\* A slot is taken while a handler that took it runs, on every way out of the handler: an
\* early return, an error, a stream (llm_proxy.go, the deferred ReleaseConcurrency).
SlotsFollowHandlers ==
  faults = 0 =>
    \A u \in User : slots[u] = Cardinality({r \in Request : UserOf[r] = u /\ Holds(r)})
=============================================================================
