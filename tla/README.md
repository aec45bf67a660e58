# Verification of the CodeMind gateway

CodeMind is a gateway between the developers of an organisation and its LLM
services: a Go server (`backend/`) that authenticates requests by API key,
enforces quotas and concurrency limits, spreads calls over backend nodes, and
records usage and training data; and a React console (`frontend/`). This
directory holds TLA+ modules of its core, the TLC configurations that check
them, and proofs that TLAPS checks.

Paths below are relative to `backend/` unless they start with another top directory.

## 1. The system

One call to an LLM endpoint passes these parts, in this order
(`internal/handler/llm_proxy.go`):

    APIKeyAuth -> third-party route? -> CheckTokenQuota -> AcquireConcurrency
      -> GetProviderForModel (load balancer, else static route) -> upstream call
      -> [deferred] ReleaseConcurrency      -> go RecordUsage, go RecordTrainingData

The server keeps almost no state of its own: what calls share is in Redis
(slots, quota cycles, affinity, key cache, route cache, dedup marks), in
PostgreSQL (rows) and in the balancer's node list. Every handler is a
goroutine, several servers may share one Redis, and every operation that takes
more than one Redis command or SQL statement interleaves with all others.

| Part | State | Operations | Hard behaviour | Correct when |
|---|---|---|---|---|
| API key authentication (`middleware/apikey.go`) | Redis entry per key, 5 min | look up, fill the cache | entry written from an old read; expiry and user status cached or not | decisions rest on recent rows |
| API key administration (`service/apikey.go`) | `api_keys` | create, copy, status, delete, invalidate | DEL after the write may fail or come before a stale SET | a change takes effect |
| Users, departments (`service/user.go`, `department.go`) | rows | CRUD, import, unlock | nothing invalidates caches; count-then-write checks; parent cycles; purges of deleted rows | no orphan, no live row purged |
| Login (`service/auth.go`, `pkg/jwt`) | failure counter, lock time, token blacklist | login, lock, logout, change of password | checks on rows read earlier; entries that expire | guesses are bounded, a revoked token stays out |
| Token quotas (`service/limit.go`) | two Redis keys per user and rule | check, record, reset | several commands, no transaction; asynchronous recording | tokens are counted, cycles reset |
| Concurrency slots (`service/llm_proxy.go`) | Redis counter per user | acquire, refuse, release, repair | lost DECR, expiry under running calls, crash | never above the limit, no slot lost for ever |
| Load balancer (`pkg/llm/balancer.go`) | node list, counter per node, affinity in Redis | select, release, replace the list | check-then-add; list replaced under calls; Close twice | counters exact |
| Backend administration (`service/llm_backend.go`) | `llm_backends` | create, update, delete, refresh | list-then-install; failed refresh; whole-row save | list follows the rows |
| Static routing (`pkg/llm/manager.go`) | route map | register, route | recursive read lock | the most specific route |
| Third-party providers (`service/third_party_provider.go`) | rows, route hash in Redis, 2 min | CRUD, resolve, forward | cache filled while it is invalidated, by HSET and EXPIRE | a stale route is short-lived |
| Usage, logs, retention (`repository/usage.go`, `service/stats.go`, `data_retention.go`) | six tables | record, report, clean up | five parallel writers per call, midnight, two definitions of a week | every account of a call agrees |
| Training pipeline (`service/training_*.go`) | channel, batch, dedup marks, archives | add, flush, close, archive | drop when full, add after close, partial deletion | recorded once, not lost silently |
| MCP gateway (`pkg/mcp`, `service/mcp.go`) | sessions, connections, event channels | connect, forward, wait | answers taken by another waiter; endless wait | every request gets its own answer |
| Monitoring (`service/monitor.go`) | rolling statistics | record, collect, reset | counters reset while counted | sums agree |
| Protocol adapter (`pkg/llm/adapter.go`, `stream.go`) | per stream: open blocks, held-back tool arguments, usage so far | convert requests, responses, streams | order of stream events, several tools at once, usage in two styles | legal streams, nothing lost in conversion |
| Console, deployment, configuration | - | - | - | not modelled |

`PROJECT.json` lists every part with its status, and the hazards of each with the
line where they bite and the properties that would catch them.

## 2. Plan

Done are the modules of section 3: first those that every LLM call runs through (slots,
balancer, quota, key cache), then what runs beside them (training data, MCP), the protocol
adapter, the third-party routes, the composition of one call up to its records (`Gateway`
over `UsageLedger`), and the console's users, departments, keys and sessions (`Accounts`
over `Directory`). To come, most important first:

1. A proof of the other half of `StreamAgreesWithResponse`, the one safety property that no theorem states
   in full (`RelaysWholeResponse` states it of the streams of an Anthropic upstream).
2. The choice of the effective limits (user over department over global,
   `GetAllEffectiveLimits`), as an operator against a reference definition.
3. System monitoring: its rolling counters are reset while calls are counted.
4. A lock model of `pkg/llm/manager.go`, whose `RouteByModel` takes the read lock again;
   its writers run before the server listens, so this matters only to a change of that.

Abstract specifications: `MessageStream` says what a client of the Anthropic protocol may
read, and what the adapter writes implements it (`WritesMessageStream`); `LoadBalancer` is
the abstraction that `BackendAdmin` refines (theorem `AdminUsesBalancer`).
Next: a counting semaphore for the slots under the assumption that handlers are shorter than
the TTL, and a single atomic quota counter for uncontended cycles.

## 3. Modules

| Module | Models | Composition |
|---|---|---|
| `ConcurrencySlots` | slot counter of one user | |
| `LoadBalancer` | selection, wrappers, node list | |
| `BackendAdmin` | administration of nodes with the balancer they feed | extends `LoadBalancer` |
| `CapacityProofs` | theorems of slots, balancer and quota | extends `ConcurrencySlots`, `BackendAdmin`, `QuotaCycle` |
| `QuotaCycle` | one quota rule of one user | |
| `KeyCache` | one API key, its row, its user, its cache entry | |
| `TrainingPipeline` | recording of training data, from the answered call to the archive file | |
| `TrainingPipelineProofs` | its theorems | extends `TrainingPipeline` |
| `MCPProxy` | the MCP gateway's connection to one upstream service | |
| `MCPProxyProofs` | its theorems | extends `MCPProxy` |
| `MessageStream` | what a client may read from a message stream (abstract) | |
| `Adapter` | conversions of requests, responses and usage, as operators | |
| `StreamConversion` | conversions of stream items, as operators | extends `Adapter` |
| `StreamAdapter` | one call through the pipes, from request to recorded result | extends `StreamConversion`, implements `MessageStream` |
| `StreamAdapterProofs` | its theorems, and those about the conversions | extends `StreamAdapter` |
| `ReplyProofs` | its theorems about whole replies | extends `StreamAdapterProofs` |
| `ThirdPartyRoutes` | one user's third-party providers and the route hash | |
| `ThirdPartyRoutesProofs` | its theorems | extends `ThirdPartyRoutes` |
| `UsageLedger` | usage tables, reports, retention | |
| `Gateway` | one call from its body to its records | extends `UsageLedger` |
| `GatewayProofs` | its theorems, and those about sums and periods | extends `Gateway` |
| `Directory` | users, departments and keys, statement by statement | |
| `Accounts` | login, lock, tokens | extends `Directory` |
| `IdentityProofs` | theorems of accounts and keys | extends `Accounts`, `KeyCache` |
| `MCBackendAdmin`, `MCConcurrencySlots`, ... | instances for TLC: symmetry, constant functions | extend the module they name |

Operators whose comment begins with *Seeded fault* are not part of any
specification: each is a wrong version of the definition after it, and
`PROJECT.json` ("mutants") names the property that detects it.

### ConcurrencySlots

`count` and `ttl` are the Redis key `codemind:concurrency:{user}`; a missing key
is `count = 0, ttl = 0`, a key without expiry is `Persistent`. `phase` follows a
handler: `ReadLimits` is the query of `AcquireConcurrency` (default 5 when it
fails or finds nothing), `RunScript` the Lua script with its comparison,
`TakeBack` the DECR of a refused request, `ReleaseConcurrency` and `Clamp` the two
commands of the release. The `...Fails` actions are failing calls, before or
after Redis applied them; they also stand for the deferred release that runs on
a cancelled request context. `Crash` stops every handler and keeps Redis. `Tick`
lets time pass, up to the configured upstream timeout of each running handler
(`maxHold`), and lets the key expire. `forgotten` is a history: how many handlers
were counted when the key last expired or was set to 0 by the repair.

Counters of different users use different keys, so one user is enough. The
limit is a value that an administrator changes; how it is computed from the
rules (`GetAllEffectiveLimits`) is not in this module.

### LoadBalancer and BackendAdmin

A node is a backend id together with the generation of the list it was made
for, because `UpdateNodes` replaces the node *objects* and calls keep pointers
to the old ones. `SelectProvider` is four steps: `Filter` (under the read lock),
`PickAffinity` or `PickWeighted` (Redis), `CountIn` (`active.Add(1)`). The
random weighted choice is any candidate: every weight counts as at least 1.
`UnaryReturns`, `StreamFails`, `StreamOpens` and `Close` are the methods of
`lbProviderWrapper` and its `releaseOnCloseReader`, whose `Once` is the phase
`closed`. `BackendAdmin` adds the rows and administrators: `Begin...` is FindByID
with the copy of the row, `Write` the INSERT, `Save` or DELETE, `ListEnabled` and
`Install` the two halves of `refreshLoadBalancer`, whose failure leaves the list; two
administrators take these steps in any order. `wanted`, `news` and `unread` are histories: the
status asked for last, and what was written while another request held a copy of the row or a list.

Left out: `ReleaseConnection` and `SetNodeHealth`, which nothing calls (so nodes
are always healthy), and changes of a row's limit or patterns, which need no
other step than a status change and would make `MaxConn` and `Serves` variables.
A negative counter is never reached (theorem `BalancerCountsCalls`), so the
two steps that would repair it (`Add`, then `Store(0)`) are one.

### QuotaCycle

`start` and `usage` are the two keys of a rule, with the times at which they
expire. A check is GET start, then DEL of both keys or GET usage; a recording is
GET start, then SET start and SET usage, or INCRBY. Every command is a step and
may fail: the code admits a call whose check fails and ignores failed writes.
Recordings run on their own goroutine: `Owing` are the calls that were admitted
and have not recorded. `spent`, `lastUse` and `contended` are history variables
that no action reads: tokens of the cycle, time of the last recording, and
whether any operation overlapped the start of the cycle. One rule of one user
is enough because rules and users do not share keys.

### KeyCache

`key`, `user` and `expired` are the rows, `entry` and `ttl` the cache entry. A
request that misses queries the rows and writes the entry as separate steps
(`Query`, `CacheSet`); administration is FindByID, write, DEL. `ChangeUser` writes
the user's row and nothing else, as `service/user.go` does. A lookup that finds
no row is no error for `Scan`: it is cached as a disabled key (`RowInfo`).
`notValid` and `notInvalid` are histories: for how long the rows have refused or
allowed the key.

### TrainingPipeline

A call's recording (`pc`) is `Check` (EXISTS of the content's mark), `Mark` (SET)
and `Add`; it runs on a goroutine of its own, may pause between any two, and never
starts where the training switch is off. `chan` and `batch` are the two places of
the buffer, `cpc` is the consumer with its drain and its two kinds of write;
`log` is every row ever inserted, whose position is its id, and `table` the ids
still in `llm_training_data`. The archiver (`apc`) counts, finds the boundary id,
exports page by page, compresses, and deletes page by page; any of these may
fail and ends the archive. `phase` is main, which closes the buffer, waits, closes
the archiver, and returns. `Crash` ends the process anywhere, and `Restart` begins
a new one with an empty buffer. `dropped`, `lost`, `early`, `archived` and `cut` are
histories. `cut` records that a deferred `Close` of an archive's writers failed,
whose error the code discards: the rows are then deleted although the file is
incomplete, which is the exception that `DeletedIsArchived` states.

Left out: what the record contains (sanitizer, score, conversation id); a
row that `json.Marshal` refuses, which the export skips and the delete removes;
the exclusion flag that an administrator sets on rows; a second server on the same table;
`CheckAndMark`, which nothing calls. A failed batch INSERT stores nothing, since
GORM runs it in a transaction.

### MCPProxy

`current` is the entry of one service in `Proxy.connections`, `lock` who holds
`Proxy.mu` for writing. A call of `SyncTools` is `IsConnected`, `Lock` (with the
second look), `Dial`, then the two posts of `initializeService` (`Greet`, `Notify`), all
under the lock, and then a request like that of a client: `Route` copies the
connection under the read lock, `Post` sends the request, and `Take` receives from the
channel until an event has its id. `on` is that copy, so a request may wait on a
connection that `Disconnect` has taken out of the map. `owed` are the messages that
the service has still to send, or `readEvents` to read; the order is the
service's. `StreamEnds` is the end of the stream as the reader sees it: the channel is
closed, and since nothing takes the entry out of the map, later requests still post on
that connection and fail. What the service does (`Owes`, `ServiceNotifies`, the outcome of
a post) is external.

Ids are compared as formatted strings. The handshake's id is `1` and `SyncTools` always
uses `sync-tools`, so requests may share an id, and one may then return another's
answer; `AnswersAreOwn` speaks of those that do not. The waits have no timeout, and
an answer that another request threw away never comes: `UnansweredIsDropped` says
that this is the only way not to end.

Left out: the client's side of the gateway (sessions and their event streams), access
rules, readers that a failed dial leaves running, a change of the service's
address (which reconnects nothing), and more than one service: services share
only the lock, for which a dial of another one is a delay.

### MessageStream, Adapter, StreamConversion, StreamAdapter

`Adapter` has `OpenAIToAnthropic`, `AnthropicToOpenAI`, the two response conversions, the
stop reasons and the usage conversions of `pkg/llm/adapter.go` and `types.go`, on messages whose
texts, images and calls are atoms. What is picked from a sequence is written with `Pick` (the
elements at some places) and what is folded with recursive functions (`AddMessages`, `Assemble`,
`processOpenAIToolCallDeltas`, `lateStartPendingToolBlocks`, a step of each being an operator of its
own), since the library's `SelectSeq` is a RECURSIVE operator. `StreamConversion` has `OpenAIChunkToAnthropicEvents` with
`OpenAIStreamFinalize` and `AnthropicEventToOpenAIChunk` as operators on the state that the
code keeps between two items (`conv`): the open text block, and per tool its block, whether it
was started, and the arguments held back until its id and name are known. `StreamAdapter` runs one
call: `Send` converts the request, `Open` is the upstream's answer, and then one action per
pipe of `internal/handler/llm_proxy.go` reads an item, writes what becomes of it and
collects `result`, the content, finish reason and usage that are recorded. `EndOfStream` is the
end of the body or `[DONE]`, `ReadFails` a broken one, and `ClientReads` takes one written
event at a time into `seen`. What the upstream sends (`SentChunks`, `SentEvents`, `SentResponses`)
is external: items in the order its protocol allows, up to a bound. The client is external, too:
`AnthropicRequests` and `OpenAIRequests` are any sets of *legal* conversations (`RequestsAssumption`),
whose messages have the parts that their protocol has for the role, and in which a result follows its call
(`LegalAnthropic`, `LegalOpenAI`); the code relies on this where it merges tool messages.

`MessageStream` is independent of the adapter: blocks are started under fresh indices,
filled and stopped while open, and a message ends with every block stopped and no index
left out. `WritesMessageStream` maps `seen` to its state.

Excluded, with what the code does in those cases: an upstream that ends before its first item
(the adapter then writes `message_delta` without a `message_start`); tool arguments after the
finish reason; a system message inside `messages` whose content is an array of blocks
(it becomes a user message, adapter.go:237-241); lines that do not parse and pings. A body
that ends without a finish reason is finalised as `end_turn` or `[DONE]`, which a client cannot
tell from a complete answer. Anthropic to Anthropic, the prompt tokens of `message_start` are
not recorded unless `message_delta` repeats them, the exception in `TokensAreKept`; Anthropic to
OpenAI, `[DONE]` is written twice.

### ThirdPartyRoutes

`hash` and `ttl` are `codemind:tp_route:{user}`. `ResolveThirdPartyModel` is `HGet`, `Exists`, the
query, HSET and EXPIRE, each a step that another request, a console request (check, write,
DEL) or `Tick` may come before. An update gives some fields (`Patch`), which are applied to the row
it read and validated there; `Save` then writes the whole row. A missing field of an existing hash answers nil: the model is
taken for one of the platform. Failing commands count towards `MaxFaults`. `watched` and `age`
are histories: for how long a fixed answer has not been the right one.

What the model shows beyond its properties, and they exclude by name: a lost
EXISTS or EXPIRE lets an old hash live on, or for ever (`unbounded`); a status change enables a provider without the
conflict check, and two overlapping console requests both pass it (`contested`); two HSETs merge,
so fields of older rows stay beside newer ones (`tainted`); gorm's `Save` inserts a provider
that was deleted since it was read. Left out: names, templates and encryption, whose failures
refuse a console request before it begins, and requests of other users, which use other rows and another hash.

### UsageLedger and Gateway

`UsageLedger` has the tables as bags of rows and summaries by user, key and date; every
total of a report is `SumOf` a function over a finite set, which stands for SQL's SUM. It has one
operator per statement, the reports as operators over them (`GetUsageStats`, rankings,
overview, key usage, export, with the role's scope, the range of dates that `parseDateRange` fills in,
the rankings' LIMIT with any order of ties, and the joins that leave out deleted users), and the cleaner.
`RecordCycleUsage` is only what a recording may leave of the user's count: what was there and its tokens,
or its tokens alone, since `QuotaCycle` has its commands and what they lose. `Gateway` adds the calls: the five
endpoints are records that differ in format and type (whether an answer is streamed is
chosen where it is piped), and a handler goes through
third-party route or else `CheckTokenQuota`, `AcquireConcurrency`, `GetProviderForModel`, the
upstream and its answer, with an error path at every point. `tasks` are the goroutines it
leaves behind: `RecordUsage`, which reads the date and then writes in parallel, `RecordRequestLog`,
and the metrics of a third-party call. Quota, slot and route answer in any way they can, since their
own modules say which; slots are counted exactly, so Redis failures are not repeated here. `Midnight`
passes and users are deleted between any two steps, `Stop` ends the process and its goroutines.

What follows the code although one might expect otherwise: a third-party body that cannot be read
leaves no record (third_party_proxy.go:103); third-party logs always say `chat_completion`;
`GetOverview` ignores the department it is asked for (stats.go:44, against
docs/development-plan.md:123), so `ReportsAgree` compares the overview of a user and of a super
admin only; a department manager without a department sees everything; token_usage is deleted by age while reports read
the summaries, which are not. Left out: `UpdateLastUsed`, training records (`TrainingPipeline`),
paging and model filters, costs.

### Directory and Accounts

`users`, `departments` and `keys` are the rows, with the unique indexes and foreign keys as the
migrations leave them (017 included). `task` is what each handler does: the operation, the
claims of its token, the row it read, and its next statement. `users[a].state` tells
a soft-deleted row, which keeps its name, from a purged one. `recorded` are the users to whom
`token_usage` refers: their rows cannot be purged, so the name of a deleted user with recorded
usage stays taken, where the comment at user.go:58 expects it to be released. A key with usage can be deleted
since migration 017 (the usage keeps its user and forgets the key). Other tables refer to users, too
(announcements, training data), so a purge may be refused at any time. `Accounts` adds `Login` (row, password, failure
count, read back, lock), the tokens with what is left of their lives, the blacklist, and
`Tick`. Every statement may fail (`Fault`) and then has no effect; an operation ends where the code
returns and goes on where it ignores the error. `guesses` and `revoked` are histories.

What the model shows and no property forbids: two updates that are legal each make a cycle of
departments (department.go:112), which the tree then loses; a successful login clears
a lock that concurrent failures have set, and a later, shorter lock may overwrite a longer one; a failed statement in `Login`'s
failure path lets the attempt go uncounted (hence `faults` in the bound); the other tokens of
a user survive a change of password, and all survive disabling and deletion until they expire;
`ChangePassword` only logs a failed blacklisting (auth.go:318); a creation refused for its
email or scope has purged the deleted row of the name already; the comment of `Delete` says
super admin only (user.go:231), the route admits department managers (router.go:154). Left out:
password hashing, validation of fields, plain fields, a department's manager (looked up, stored, and
read by nothing), audit rows, eviction of keys by Redis; an import is a sequence of creations.

## 4. Runs

| Run | Instance | Question and result |
|---|---|---|
| `slots` | 3 handlers, limits 1 and 2, TTL 2, handlers of at most 1 or 3 ticks, 1 fault | The counter hides, and admissions exceed the limit by, at most the handlers that an expiry or a repair forgot, none with handlers shorter than the TTL; leaks heal once the user is quiet. Holds. |
| `balancer` | 3 callers, 1 backend of one connection, 2 administrators, 2 node lists, 2 selecting at once | Exact counters over replaced lists, bounded overload, full nodes recover; the list follows the rows, but for rows written while another request held it. Holds. |
| `quota` | 3 calls of up to 2 tokens, limit 2, period 2, 5 ticks, 1 fault | Uncontended cycles are exact, overshoot bounded by the calls in flight, idle users admitted. Holds. |
| `quota_lost` | 2 calls of 1 token, limit 2, no fault | Does the check see recorded usage? **Violated**: an INCRBY between the two SETs of a new cycle. |
| `key_cache` | 2 requests, 2 administrators, TTL 2, stall 1, failures | Revocation and restoration are late by less than TTL plus stall. Holds. |
| `key_cache_race` | 1 request, 1 administrator, no failure | Does a status change take effect at once? **Violated**: SET after DEL. |
| `training` | 3 calls, two of one content and one without a hash; channel of 1, batch of 2, threshold 2, pages of 1, 1 fault | Recorded once, deleted only when archived, orderly stop leaves nothing accepted before it, everything accepted is settled. Holds. |
| `mcp` | a client and 2 calls of SyncTools with one id, channel of 1, 2 connections, 1 message of the service, 1 fault | Answers are one's own and accounted for, no use before the handshake, no entry replaced, a wait ends unless its answer was thrown away. Holds. |
| `streams` | conversations of up to 4 messages, streams of up to 4 chunks or 7 events, 2 tools, 2 blocks | What is written is a legal message stream and the reply that the unstreamed conversion gives; tokens are those reported; conversations stay legal and whole. Holds. |
| `routes` | 2 requests, 2 console requests, 2 providers, 1 model, 2 formats, 1 field per update, TTL 2, stall 1, 1 fault | A route is late by less than TTL plus two stalls; without races models are exclusive and the hash follows the rows; cached routes are usable. Holds. |
| `gateway` | 2 of 3 calls, of one user or of two, a midnight that ends a week and a month, 1 slot, retention of 1 day, 1 deleted user, 1 fault | Reports have every call once and never more, rankings (of any limit), overview and default statistics agree, calls are logged once, slots follow handlers. Holds. |
| `accounts` | 2 handlers, 4 requests, 4 users, 3 departments, 1 key per user, lock after 2 failures, 2 ticks, 1 fault; four workloads | Guesses and keys overshoot by at most the overlap, revoked tokens stay out, live users are not purged, only racers are orphaned. Holds. |

The violations are disagreements between the code and what its documentation,
comments or console say; `PROJECT.json` ("findings") quotes both sides. Others, found by
checking the same models against stronger statements, are:

- A stream (600 s) outlives the slot counter (300 s after the last attempt), so a user may run
  more requests at once than the limit (README.md:47 promises to "limit simultaneous requests");
  `AdmissionRespectsLimit` says by how many.
- Two recordings that both find no quota cycle each SET its usage, and the later one erases the
  earlier one's tokens: the other way to lose what `quota_lost` shows lost.
- Refused attempts renew the EXPIRE, so a slot leaked by a failed DECR is not given back while a
  client keeps retrying (docs/development-plan.md:409 expects the TTL to prevent leaks).
- With two administrators, an older snapshot of the rows may be installed last: a deleted node
  stays in the balancer (zh-CN.ts:732 promises its immediate removal); and an Update saves the row
  it read over another's change. `BalancerFollowsRows` says that nothing else goes wrong.
- A recording goroutine that outlives the server's shutdown adds to the training buffer after the drain
  (main.go:225: "Flush buffers to ensure all training data is persisted").
- An Anthropic report with cache creation and no cache read is recorded with its creation as a read, too:
  `ToUsage` (anthropic_types.go:119) sets `cached_tokens` to creation plus read, and `CacheReadTokens`
  (types.go:252, "tokens read from the cache") falls back to it when the read is 0.
- Between two requests' commands the hash may appear or expire, and a third-party model
  then looks like one of the platform for one request (third_party_provider.go:325), as `AnswersAreTimely`
  admits for a hash without the field.

**Bounds.** `MaxFaults` (one failing command or crash is enough to leak or lose;
the two-fault cases are covered by the proofs where there are any), `MaxSelecting`
(two is the least that overloads a node), `MaxGen` (how often the list is replaced;
an operation starts only while a list is left for every one that runs, so that it can be installed:
one replacement puts calls on a retired node, and two let an older list be installed last), `MaxNow` with `Period = 2` and `Grace = 1` (a cycle ends by its
period, by its check, and by the expiry of its keys, and a second one begins),
`MaxFaults` of `training` also counts crashes (one is enough to lose records or to
repeat an archive; a channel of one is full after one record, a batch of two is
written both full and by the timer, and an archive of two rows in pages of one
has a first, a next and a last, empty page),
`MaxCall` (a call may reach the limit alone), `MaxStall` (how long a request may
pause between query and SET; the code has no bound, which is why the guarantee
is stated relative to it), `HoldBounds` (timeouts below and above the TTL),
`ListMayFail` and `MayFail`, `MaxConn` (two connections are needed for a
request to wait on one that was replaced), `MaxNotes`, and a `ChanCap` of one, which one
message that answers nobody fills. Three callers on nodes with one connection, and three
calls with a limit that one call reaches, make the races of two actors happen
while a third observes. `streams`: `MaxItems`, `MaxEvents` and `MaxBlocks` let two tool
calls interleave with text, arguments precede id or name, and a report come before and
after the finish reason. `routes`: `MaxEdits` (a provider is created, or changed, while another
request fills the hash), `MaxFaults` one, `MaxGiven` one (each of two updates changes a field, one the format and
one a URL), `MaxLoad` (a console request counts as two requests: two of them, or one and both requests, or both
requests), `Initial` (one provider whose format and URLs can both change) and `Watched` (the routes
that the history may follow). `gateway`: `MaxCalls` (of the three calls, two run), `Usages`, `Leaving` (one of the
users is deleted, before or after its calls), one fault, and the days 4 and 5: with weeks of 2 days and months of 4 the one
midnight ends a week and a month (other lengths are left to the proof of `Agree`). `accounts`: `MaxRequests`,
`MaxTicks`, `MaxFaults`; every behaviour draws its requests from one of four workloads
(guessing, sessions, registration, departments), because their state spaces would multiply,
while what one workload does to rows of another is either the same statement or none.

**Deadlock.** It is checked except in `balancer`, where an instance
rightly stops when every list has been used and no backend is enabled; in `mcp`,
where an upstream service may never answer a post and ended requests do not start again; and in
`streams`, `gateway` and `accounts`, where a call ends, or the bounds on
requests, days and ticks are used up, and nothing is left to do.

**Fairness.** `ConcurrencySlots!Fairness` lets time pass and handlers end: each
upstream call has a client timeout (300 s, 600 s for streams, set in
`cmd/server/main.go` and `service/llm_backend.go`), and the release is deferred.
`AdmFairSpec` lets every call that picked a node go on: counting in is the next
statement, upstream calls end by the same timeouts, and every stream handler
defers the Close. `TrainingPipeline!Fairness` lets the consumer, the archiver and the
end of main go on: timer and ticker fire for ever, statements return, and main waits
for nothing but the two goroutines. `MCPProxy!Fairness` lets the waiting requests and the
reader of a stream go on, which reads what the service owes while the stream is open: a
service that never answers is outside the promise, since the code waits for it without
end. Nothing is assumed of administrators, of new requests, or of
failing commands. `StreamAdapter`, `ThirdPartyRoutes`, `Gateway` and `Accounts` state safety
only: nothing in them waits for anything but an upstream with a timeout.

## 5. Proofs

All theorems hold for every value of the constants that satisfies the module's
assumption: finitely many requests or handlers, positive limits and periods, for `Accounts`
what the rows and tokens that are there at first look like (whole rows, no failure counted
yet, no more keys than the limit), for `UsageLedger` finitely many users who each call
with a key of their own and default windows that are no shorter than their periods, and for `StreamAdapter` what the two protocols promise: legal requests, a report whose
cached tokens are among its prompt tokens, a chunk without a choice that is a report only. No other assumption is used.

*ConcurrencySlots.* After an expiry the counter is 0 while handlers run, which `forgotten` measures. That the counter and
it cover the counted handlers (`CountCoversHandlers`) is kept by every step; that nothing is forgotten with handlers
shorter than the TTL is not inductive. `SlotInv` adds that the key then outlives every counted handler
(`ttl + age >= SlotTTL`, because the script renews the TTL at least as late as
the handler was counted), that no release then sees a negative counter, and
that a missing key counts at most 0. `SlotInvariant` proves it; `SlotTypes`,
`SlotCountCovers`, `SlotRefusalsExpire` and `SlotAdmission` follow. Both bounds hold with the shipped
timeouts, which exceed the TTL.

*LoadBalancer, BackendAdmin.* `LBInv` joins the types, that holders have a node,
`ActiveCountsCalls` and `OverloadIsBounded`. The counting argument is about the
two sets `OnNode(n)` and `OnNode(n)` with `Heading(n)`: a step adds or removes one
caller exactly when it changes the counter (`ActiveStep`), and the second sum
grows only in `Filter`, which sees the counter below its limit while fewer than
`MaxSelecting` callers select (`OverloadStep`). `AdminStep` shows that what an
administrator does is an `UpdateNodes` or a stutter, so `AdmSpec => LBSpec`
(`AdminUsesBalancer`) and the balancer's theorems hold in the composition.
`BalancerFollows` is about any number of administrators, however their requests overlap. `FollowInv` says of a
list in hand that it is right but for the rows written since it was read (`ListsInHand`), of the installed one the same
unless a refresh is still to come (`ListFollows`), and of the copy in the hands of an Update that it has its
row's status unless the row was written since (`CopiesInHand`).

*QuotaCycle.* `UncontendedCycleIsExact` says nothing of the steps between the two
SETs of a cycle, so `QuotaInv` adds what holds while a clean cycle begins: the
call that begins it is alone at the keys, whoever reads the start later has read
the present one, and the usage key outlives the start key (it is written later,
with the same TTL), so no increment creates a key of its own. `OwedIsBounded`
carries the overshoot: tokens spent and what admitted calls may still use stay
below `MaxTokens + MaxCall * Cardinality(TokenCall)`, because a check of a clean
cycle sees the exact usage. `StartIsRecorded` and `CheckedIsRecorded` make every
start that is stored or read the time of some recording, from which
`QuotaIdle` follows without any assumption on faults or overlaps.

*KeyCache.* `FreshInv` says how old information may be: what a request read is
at most as old as its stall, and an entry at most `Staleness - ttl`. A hit does not
change the TTL, a SET restarts it from a read that is at most `MaxStall` old. From
it follow `KeyRevocation` and `KeyRestoration`.

*TrainingPipeline.* `TrainingInv` strengthens the properties with `OnePlace` (a
record is in the channel, the batch or the log, once, and only when its call has
finished), `ConsumerState` (a write has something to write, the consumer stops
only when told to, and main goes on only when it has), `EarlyIsKept` (where the
records accepted before the stop are while the consumer finishes) and
`RangeIsExported` (the exported rows are a prefix of the range, no later row
enters it because its boundary is at most the last id, and during the delete all
that is left of it is in the archive). Every step moves records between the places
as `ReceiveMoves` and `WriteMoves` say, or not at all.

*MCPProxy.* `MCPInv` strengthens the properties with `MutexInv` (who connects holds the lock,
its connection is the entry, and with the lock free the entry has had its handshake) and
`PlaceInv` (the answer to a request that has not returned is owed or in a channel
only if it was posted, and only on its own connection; no channel holds it twice).
`AnswerSteps` reduces a step to the four that move an answer, or none; `AppendEvent` and
`TakeEvent` say what those do to a channel. `MCPNoReplacement` follows from `MutexInv`: a
dial is under a lock that was taken when the map had no entry.

*ThirdPartyRoutes.* `RoutesInv` follows the age of the answer that `watched` picked. What a
request has read from the rows is at most as old as its stall (`LoadedIsFresh`). A hash without
expiry has a request that is about to set one, unless an EXPIRE was lost (`ExpiryFollows`). Who
fills the hash saw none when it began, so what the hash holds was written since, by requests
that stalled no longer than `MaxStall`: while somebody fills it, it is at most `MaxStall`
plus that one's stall old, and with an expiry at most `Staleness - ttl`
(`HashIsFresh`). `RouteAnswers` follows for each of the two places that a route is given out from.
`RowsInv` is about console requests: what is stored or about to be stored has the URLs of its format
(`DraftOk`), and while no other request has written since a request began, what it checked and
read is still so (`ReadIsCurrent`); hence a write keeps the models apart unless it is
`contested` (`WrittenRow`). Routes are usable because they are only ever made of such rows. `FollowInv` adds to
`HashFollowsRows` that what a request holds between query and HSET is right unless it was `overtaken`; an
HSET over a right hash then leaves a right one, since a field it does not write is one that no row offers.

*Accounts.* `AccountsInv` has three parts. `TaskInv`: an operation that is no login carries a token that
was issued, and only operations on one user reach the final UPDATE. `UsersInv`: every row has its columns.
`TokensInv`: the entry of a revoked token is at least as long as what is left of the token, which is set
equal by the SET and then shrinks with it, and a token's id is never issued again. `ManageMoves` reduces
what the console's operations do to tasks to three moves, and `ManageUsers` goes through them
for what they do to rows. `RevokedStaysOut` follows since `ParseToken` wants time left and no
entry; `LiveAreNotPurged` since the purge takes only rows deleted softly.

Three more invariants build on it. `GuessInv` compares the guesses with where the logins of a user stand:
for a live user they are at most the failures in the row, the logins that have still to count theirs,
and the faults; and at most `MaxFailCount - 1`, the logins past a failed comparison and before the
lock, and the faults: the increment that reaches the limit is followed by its lock in the same login. A user that is not live gets
no new logins, an unborn one has none; the rest is that one handler is in one place
(`OneMoves`, `SetSteps`). `KeysInv` adds to the keys of a user those that handlers
have found room for (`Inserting`): the two together exceed the limit by less than the number of handlers,
because a check adds a handler only while the keys are below the limit, and an INSERT takes one away.
`DeptsInv` says that a deletion past a count has been told of all that is in the department now;
`OthersKeepUp` shows that every step that puts a row there tells it, `CountsNone` that the count
itself finds none. `TaskSteps` reduces a step of the specification to what these two need.

*Gateway, UsageLedger.* `GatewayInv` has four parts. `CallsInv` says how far each call is: one
that has not answered has neither answer nor usage nor goroutines; a goroutine belongs to an
answer that it fits; a call never has two goroutines that would write the same
record (`TasksAreSingle`, without which no account is bounded). `SlotsCoverHandlers` keeps
for behaviours with faults that handlers hold at most what is taken, since a crash leaks slots but
never frees one. `LogsInv` says that a row is that of its call's answer and
excludes a goroutine that is still to write it, and that without
faults a call that is to be logged has its row or its goroutine. `LedgerBalanced` is what the two
properties on accounts become while goroutines still run: each account of a user is the sum over the calls
*whose writes are done* (`Accounted`, `Metered`), at most that after faults. `HandlerEffect` and
`RecordEffect` reduce the many operations to what they do to their call (`Moves`, `Answers`, `Leaves`) and to the
tables (`Dates`, `Accounts`, `LogsCall`, `Meters`), so that each part is proved over these.
The user's quota count is bounded only (`NeverExceed`), as recordings can lose it. `SlotsFollow`, `CallsLogged`,
`NeverExceed` and `Balance` follow, the last two with the
lemmas on reports: what a report groups by date adds up to what it was made from (`PlatformTotal`,
`ThirdPartyTotal`, `MergedTotals`, `ExportTotal`, `KeyTotal`).

Sums are folds, of which the provers know nothing. `SumRec` derives from the definition
that a function with the fold's recursion exists, and the lemmas after it what is needed: the order of terms
does not matter (`SumTerms`), one term grows and the sum with it (`SumGrows`), zeros can
be left out (`SumSubset`), terms can be renamed and grouped (`SumRenamed`, `SumGrouped`). The library's
induction theorems take a predicate, which no installed prover can instantiate;
`SubsetInduction` states the same for a *set* of good subsets, and so the induction is
first-order. For that reason sums in `UsageLedger` are written as `SumOf` a function.

`Agree` has two parts. The arithmetic: `RemainderIsUnique` gives `PeriodSince` (the days of today's period up to today
are those from its first day on, for a period of any length) and `LastWeekday` (Go's Sunday as
the last weekday is the remainder of the day before), from which `PeriodRange` says that
`getPeriodRange` and `DATE_TRUNC` cut the same days. The reports: `CurrentItem` is what the statistics say of the current
period, whose first day the default window reaches, as a sum over users and days (`PlatformItem`, `ThirdPartyItem`); it splits by user (`UserByUser`) and by whether a user is deleted (`SumSplit`);
`LimitedRows` says that what a LIMIT leaves are rows of the ranking and, without a cut, all of them, from which `UserRanking` and
`DepartmentRanking` follow.

*StreamAdapter.* Four arguments. *The stream* (`WritesLegalStream`, the refinement of `MessageStream`): nothing
can be said of what the client has read without what it is still going to read, so `StreamInv`
says that from `seen` the rest of `written` reads, one legal event after the other (`Ahead`),
as a message `m` that fits the converter's state (`Fits`): the indices up to `next` are those of `m` and of
tools not yet started (`Places`), a block is open exactly if the state has it open as its text or a tool
(`OpenBlocks`), and no two tools share an index (`ToolPlaces`). One lemma per operator of
`StreamConversion` shows that what it puts out is a legal path (`Path`) to a message that fits its new state;
`lateStartPendingToolBlocks` is what fills the places, so that no index is left out when the message
ends, except of a tool of which nothing at all was sent; `ShapesAssumption` excludes such deltas.
*The tokens* (`TokensKept`): `TokensInv` has a part per pipe. With chunks, `result.usage` is the last report (`Collected`)
and the converter carries its translation (`Carried`), and since the cached tokens are among the prompt's
and reports keep to one style, merging and translating back gives the same sums (`Settled`). With events,
the sum of `message_start`'s prompt and `message_delta`'s output, the latter counted once (`BothTokens`).
*The request* (`ConversationLegal`, `NothingLost`): `RequestInv` is that `converted` is the conversion of `request`.
The rest is about the conversions: `Becomes` is what one Anthropic message turns into, and
`ConvertedLegal` goes through the conversation with the calls that wait for an answer (`AwaitsUse`, `Awaits`);
`Collapsed` adds the system messages. In the other direction `Added` is the invariant of the loop of
`OpenAIToAnthropic`: a call that the next tool message may answer is in the last message,
or in the one before while results are collected.
*The reply* (`RelaysWholeResponse`, the half of `StreamAgreesWithResponse` about `AnthropicEventToOpenAIChunk`):
`Relays` relates what a reader has assembled of the events received to what one has of the chunks written:
the texts are those of the text blocks in the order of their indices, the tool deltas number the tool blocks
from 0 (`ToolsRelayed`), each with its identifier and name once and its arguments so far (`CallRelayed`), and
since an upstream has one block open at a time, what is added to a block is added at the end
(`UpBlocks`). One lemma per event shows that it is kept, and `RelayedWhole` that both replies
are then the same.

A recursive function is a CHOOSE, of which the provers know nothing either: `AssembleFold`, `AddMessagesFold` and two
more derive that a function with the recursion exists. Inductions are over a *set* of good numbers or sequences
(`UpTo`, `SeqInduction`), for the same reason as above.

**Proved but not run.** The type invariants, `RefusingCounterExpires` and `MarkedIsKept` are
parts of the proofs above and no longer properties of a run.

**Only model-checked.** The liveness properties `LeaksHealWhenQuiet`, `NodesRecover`,
`AcceptedIsSettled` and `UnansweredIsDropped` (liveness is out of the
prover's reach here), and of `StreamAgreesWithResponse` the half about `OpenAIChunkToAnthropicEvents`: what
the client has assembled from the events and what the whole response converts to are both folds over the same chunks,
grouped differently (by block, and by tool, whose blocks may all be open), so its proof needs an invariant
about every atom of every tool's arguments, written or held back.

**Not modelled.** The parts marked so in `PROJECT.json`: those of the plan above, and
for good the web console, deployment, configuration loading, schema as such, static
pattern routing, announcements, documents and file uploads, which are input and output or
single statements without shared state. Requests, tokens and credentials are abstract values; logging,
audit records and message texts are left out.
