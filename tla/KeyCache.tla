----------------------------- MODULE KeyCache -----------------------------
(***************************************************************************)
(* Authentication by API key (internal/middleware/apikey.go) against its   *)
(* administration (internal/service/apikey.go, user.go): one key, its row, *)
(* the row of the user who owns it, and the Redis entry that caches what   *)
(* requests need of both.  A request that misses the cache reads the rows  *)
(* and writes the entry in separate steps, while administrators change the *)
(* rows and delete the entry in separate steps; nothing deletes it when    *)
(* the user changes.                                                       *)
(***************************************************************************)
EXTENDS Integers

CONSTANTS Request,  \* requests that carry the key
          Admin,    \* requests of administrators and owners that manage the key
          CacheTTL, \* TTL of the cache entry, in ticks (5 minutes)
          MaxStall, \* bound: ticks between a request's query and its SET
          MayFail   \* whether commands to Redis and the database may fail

ASSUME KeyCacheAssumption ==
  /\ CacheTTL \in Nat \ {0}
  /\ MaxStall \in Nat
  /\ MayFail \in BOOLEAN

VARIABLES
  key,       \* api_keys row: "on", "off", or "gone" once deleted
  user,      \* users row of the owner, likewise
  expired,   \* whether expires_at has passed
  entry,     \* value of codemind:apikey:{hash}, NoEntry when absent
  ttl,       \* ticks until the entry expires
  pc,        \* where each request stands
  info,      \* what each request read
  stall,     \* ticks since each request's query
  at,        \* where each administration request stands
  want,      \* the status it writes
  notValid,  \* history: ticks since the rows last allowed the key
  notInvalid \* history: ticks since the rows last refused the key

rowVars == <<key, user, expired>>
reqVars == <<pc, info, stall>>
admVars == <<at, want>>
historyVars == <<notValid, notInvalid>>
cacheVars == <<rowVars, entry, ttl, reqVars, admVars, historyVars>>

Status == {"on", "off", "gone"}

\* APIKeyInfo: whether key_status and user_status are 1.
Info    == [key : {"on", "off"}, user : {"on", "off"}]
NoEntry == [key |-> "none", user |-> "none"]

Valid == key = "on" /\ user = "on" /\ ~expired

\* The longest that an entry can outlive the rows it was read from.
Staleness == CacheTTL + MaxStall

TypeOK ==
  /\ key \in Status /\ user \in Status /\ expired \in BOOLEAN
  /\ entry \in Info \cup {NoEntry}
  /\ ttl \in 0..CacheTTL
  /\ (entry = NoEntry) <=> (ttl = 0)
  /\ pc \in [Request -> {"idle", "missed", "loaded", "admitted", "refused"}]
  /\ info \in [Request -> Info \cup {NoEntry}]
  /\ stall \in [Request -> 0..MaxStall]
  /\ at \in [Admin -> {"idle", "found", "written"}]
  /\ want \in [Admin -> Status]
  /\ notValid \in 0..Staleness /\ notInvalid \in 0..Staleness

CacheInit ==
  /\ key = "on" /\ user \in {"on", "off"} /\ expired = FALSE
  /\ entry = NoEntry /\ ttl = 0
  /\ pc = [r \in Request |-> "idle"]
  /\ info = [r \in Request |-> NoEntry]
  /\ stall = [r \in Request |-> 0]
  /\ at = [a \in Admin |-> "idle"]
  /\ want = [a \in Admin |-> "on"]
  /\ notValid = IF user = "on" THEN 0 ELSE Staleness
  /\ notInvalid = IF user = "on" THEN Staleness ELSE 0

-----------------------------------------------------------------------------
\* APIKeyAuth decides from the info alone.
Allows(i) == i.key = "on" /\ i.user = "on"

Decide(r, i) ==
  /\ pc' = [pc EXCEPT ![r] = IF Allows(i) THEN "admitted" ELSE "refused"]
  /\ info' = [info EXCEPT ![r] = NoEntry]
  /\ stall' = [stall EXCEPT ![r] = 0]

\* Seeded fault: a hit extends the life of the entry.
CacheHitSlides(r) ==
  /\ pc[r] = "idle" /\ entry # NoEntry
  /\ Decide(r, entry)
  /\ ttl' = CacheTTL
  /\ UNCHANGED <<rowVars, entry, admVars, historyVars>>

\* getAPIKeyInfo: GET hits, and the entry decides ...
CacheHit(r) ==
  /\ pc[r] = "idle" /\ entry # NoEntry
  /\ Decide(r, entry)
  /\ UNCHANGED <<rowVars, entry, ttl, admVars, historyVars>>

\* ... or it misses, or fails.
CacheMiss(r) ==
  /\ pc[r] = "idle"
  /\ entry = NoEntry \/ MayFail
  /\ pc' = [pc EXCEPT ![r] = "missed"]
  /\ UNCHANGED <<rowVars, entry, ttl, info, stall, admVars, historyVars>>

\* The row joined with its user; a Scan that finds none leaves zeros and is no error.
RowInfo ==
  IF key = "gone" \/ user = "gone"
    THEN [key |-> "off", user |-> "off"]
    ELSE [key |-> key, user |-> user]

Query(r) ==
  /\ pc[r] = "missed"
  /\ IF expired /\ key # "gone" /\ user # "gone"
       THEN /\ pc' = [pc EXCEPT ![r] = "refused"]
            /\ UNCHANGED info
       ELSE /\ pc' = [pc EXCEPT ![r] = "loaded"]
            /\ info' = [info EXCEPT ![r] = RowInfo]
  /\ UNCHANGED <<rowVars, entry, ttl, stall, admVars, historyVars>>

\* The query fails: an error answer that decides nothing about the key.
QueryFails(r) ==
  /\ pc[r] = "missed" /\ MayFail
  /\ pc' = [pc EXCEPT ![r] = "idle"]
  /\ UNCHANGED <<rowVars, entry, ttl, info, stall, admVars, historyVars>>

\* Seeded fault: an entry that is there keeps its TTL as if it were read again now, and
\* only the missing one is written.
CacheSetKeeps(r, lost) ==
  /\ pc[r] = "loaded"
  /\ lost => MayFail
  /\ IF lost THEN UNCHANGED <<entry, ttl>>
     ELSE /\ entry' = IF entry = NoEntry THEN info[r] ELSE entry
          /\ ttl' = CacheTTL
  /\ Decide(r, info[r])
  /\ UNCHANGED <<rowVars, admVars, historyVars>>

\* SET with its TTL, whatever the entry is by now; then the info decides.
CacheSet(r, lost) ==
  /\ pc[r] = "loaded"
  /\ lost => MayFail
  /\ IF lost THEN UNCHANGED <<entry, ttl>> ELSE entry' = info[r] /\ ttl' = CacheTTL
  /\ Decide(r, info[r])
  /\ UNCHANGED <<rowVars, admVars, historyVars>>

Leave(r) ==
  /\ pc[r] \in {"admitted", "refused"}
  /\ pc' = [pc EXCEPT ![r] = "idle"]
  /\ UNCHANGED <<rowVars, entry, ttl, info, stall, admVars, historyVars>>

-----------------------------------------------------------------------------
\* What a change of the rows means to the histories.
Remember ==
  /\ notValid' = IF Valid \/ Valid' THEN 0 ELSE notValid
  /\ notInvalid' = IF ~Valid \/ ~Valid' THEN 0 ELSE notInvalid

\* APIKeyService.UpdateStatus ("on", "off") and Delete ("gone"): FindByID,
FindKey(a, s) ==
  /\ at[a] = "idle" /\ key # "gone"
  /\ at' = [at EXCEPT ![a] = "found"]
  /\ want' = [want EXCEPT ![a] = s]
  /\ UNCHANGED <<rowVars, entry, ttl, reqVars, historyVars>>

\* the write, which changes nothing when the row is gone,
WriteKey(a) ==
  /\ at[a] = "found"
  /\ key' = IF key = "gone" THEN key ELSE want[a]
  /\ at' = [at EXCEPT ![a] = "written"]
  /\ UNCHANGED <<user, expired, entry, ttl, reqVars, want>>
  /\ Remember

\* or its failure, which ends the request,
WriteKeyFails(a) ==
  /\ at[a] = "found" /\ MayFail
  /\ at' = [at EXCEPT ![a] = "idle"]
  /\ want' = [want EXCEPT ![a] = "on"]
  /\ UNCHANGED <<rowVars, entry, ttl, reqVars, historyVars>>

\* and invalidateKeyCache, whose failure is only logged.
InvalidateKeyCache(a, lost) ==
  /\ at[a] = "written"
  /\ lost => MayFail
  /\ IF lost THEN UNCHANGED <<entry, ttl>> ELSE entry' = NoEntry /\ ttl' = 0
  /\ at' = [at EXCEPT ![a] = "idle"]
  /\ want' = [want EXCEPT ![a] = "on"]
  /\ UNCHANGED <<rowVars, reqVars, historyVars>>

\* UserService.UpdateStatus, Update and Delete write the user's row, and nothing else.
ChangeUser(s) ==
  /\ user # "gone" /\ user # s
  /\ user' = s
  /\ UNCHANGED <<key, expired, entry, ttl, reqVars, admVars>>
  /\ Remember

-----------------------------------------------------------------------------
Aged(n) == IF n < Staleness THEN n + 1 ELSE n

\* Time passes: the entry ages, expires_at may pass, and no request stalls beyond the bound.
CacheTick ==
  /\ \A r \in Request : pc[r] = "loaded" => stall[r] < MaxStall
  /\ stall' = [r \in Request |-> IF pc[r] = "loaded" THEN stall[r] + 1 ELSE stall[r]]
  /\ ttl' = IF ttl = 0 THEN 0 ELSE ttl - 1
  /\ entry' = IF ttl' = 0 THEN NoEntry ELSE entry
  /\ expired' \in {expired, TRUE}
  /\ UNCHANGED <<key, user, pc, info, admVars>>
  /\ notValid' = IF Valid \/ Valid' THEN 0 ELSE Aged(notValid)
  /\ notInvalid' = IF ~Valid \/ ~Valid' THEN 0 ELSE Aged(notInvalid)

AuthenticateKey(r) ==
  \/ CacheHit(r) \/ CacheMiss(r) \/ Query(r) \/ QueryFails(r)
  \/ \E lost \in BOOLEAN : CacheSet(r, lost)
  \/ Leave(r)

ManageKey(a) ==
  \/ \E s \in Status : FindKey(a, s)
  \/ WriteKey(a) \/ WriteKeyFails(a)
  \/ \E lost \in BOOLEAN : InvalidateKeyCache(a, lost)

CacheNext ==
  \/ \E r \in Request : AuthenticateKey(r)
  \/ \E a \in Admin : ManageKey(a)
  \/ \E s \in Status : ChangeUser(s)
  \/ CacheTick

CacheSpec == CacheInit /\ [][CacheNext]_cacheVars

-----------------------------------------------------------------------------
(***************************************************************************)
(* Properties                                                              *)
(***************************************************************************)

\* Revocation is late by less than Staleness, whatever fails and however requests and
\* administrators interleave: a request is admitted only if the key, enabled and not
\* expired, of an enabled user, was there so recently (also after expires_at and after a
\* change of the user, which delete no entry).
RevocationIsTimely ==
  [][\A r \in Request :
       pc[r] # "admitted" /\ pc'[r] = "admitted" => notValid < Staleness]_cacheVars

\* Restoration is late by no more: a request is refused only if the rows refused the key
\* so recently, so a cached refusal does not outlive its cause by more than that.
RestorationIsTimely ==
  [][\A r \in Request :
       pc[r] # "refused" /\ pc'[r] = "refused" => notInvalid < Staleness]_cacheVars

\* "Invalidate cache to ensure status change takes effect immediately" (apikey.go:174):
\* when no status change is under way, no entry shows a disabled key as enabled.
StatusChangeIsImmediate ==
  (\A a \in Admin : at[a] = "idle") /\ key = "off" /\ entry # NoEntry => entry.key = "off"
=============================================================================
