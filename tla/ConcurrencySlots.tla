------------------------- MODULE ConcurrencySlots -------------------------
(***************************************************************************)
(* The per-user concurrency slots of the LLM proxy: the Redis counter      *)
(* codemind:concurrency:{user}, taken by AcquireConcurrency and given back *)
(* by the deferred ReleaseConcurrency (internal/service/llm_proxy.go).     *)
(* Counters of different users never meet, so one user is modelled.  Time  *)
(* is counted in ticks; the configured upstream timeout bounds how long a  *)
(* handler runs.                                                           *)
(***************************************************************************)
EXTENDS Integers, FiniteSets

CONSTANTS Handler,      \* connections of the user, each running one handler at a time
          Limits,       \* values the effective max_concurrency may take
          DefaultLimit, \* the value used when no limit can be read (5)
          SlotTTL,      \* EXPIRE argument of the script, in ticks (300 s)
          HoldBounds,   \* upstream timeouts that may be configured, in ticks (300 s, 600 s)
          MaxFaults     \* bound: failed Redis calls and process crashes

ASSUME SlotAssumption ==
  /\ IsFiniteSet(Handler)
  /\ Limits # {} /\ Limits \subseteq Nat \ {0}
  /\ DefaultLimit \in Nat \ {0}
  /\ SlotTTL \in Nat \ {0}
  /\ HoldBounds # {} /\ HoldBounds \subseteq Nat
  /\ MaxFaults \in Nat

VARIABLES
  count,   \* value of the counter; an absent key reads as 0
  ttl,     \* ticks until the key expires, 0 when absent, Persistent without a TTL
  limit,   \* effective limit configured now (administrators change it)
  phase,   \* where each handler stands
  seen,    \* the limit each handler read before running the script
  age,     \* ticks since each handler's INCR
  maxHold, \* the timeout in force: the longest a handler may run
  faults,  \* failed calls and crashes so far
  forgotten \* history: handlers that were counted when the counter was last set to 0

slotVars == <<count, ttl, limit, phase, seen, age, maxHold, faults, forgotten>>

Persistent == -1
AllLimits  == Limits \cup {DefaultLimit}

\* Handlers whose INCR is counted and not yet taken back.
Counted == {r \in Handler : phase[r] \in {"over", "held"}}
Held    == {r \in Handler : phase[r] = "held"}

TypeOK ==
  /\ count \in Int
  /\ ttl \in {Persistent} \cup 0..SlotTTL
  /\ limit \in Limits
  /\ phase \in [Handler -> {"idle", "limited", "over", "held", "clamp"}]
  /\ seen \in [Handler -> AllLimits]
  /\ age \in [Handler -> 0..maxHold]
  /\ maxHold \in HoldBounds
  /\ faults \in 0..MaxFaults
  /\ forgotten \in Nat

Init ==
  /\ count = 0 /\ ttl = 0
  /\ limit \in Limits
  /\ phase = [r \in Handler |-> "idle"]
  /\ seen = [r \in Handler |-> DefaultLimit]
  /\ age = [r \in Handler |-> 0]
  /\ maxHold \in HoldBounds
  /\ faults = 0 /\ forgotten = 0

-----------------------------------------------------------------------------
\* A failed call or a crash; the bound keeps the instance finite.
Fault == faults < MaxFaults /\ faults' = faults + 1

Goto(r, where) ==
  /\ phase' = [phase EXCEPT ![r] = where]
  /\ age' = [age EXCEPT ![r] = 0]

\* DECR; on an absent key Redis creates it at -1 without a TTL.
Decrement ==
  /\ count' = count - 1
  /\ ttl' = IF ttl = 0 THEN Persistent ELSE ttl

\* An administrator changes a rate limit that applies to the user.
SetLimit(l) ==
  /\ l # limit
  /\ limit' = l
  /\ UNCHANGED <<count, ttl, phase, seen, age, faults, maxHold, forgotten>>

\* AcquireConcurrency: read the effective limits; the default when none can be read.
ReadLimits(r) ==
  /\ phase[r] = "idle"
  /\ seen' = [seen EXCEPT ![r] = limit]
  /\ Goto(r, "limited")
  /\ UNCHANGED <<count, ttl, limit, faults, maxHold, forgotten>>

ReadLimitsFails(r) ==
  /\ phase[r] = "idle"
  /\ Fault
  /\ seen' = [seen EXCEPT ![r] = DefaultLimit]
  /\ Goto(r, "limited")
  /\ UNCHANGED <<count, ttl, limit, maxHold, forgotten>>

\* Seeded fault: the value before the INCR is compared with the limit.
RunScriptComparesOld(r) ==
  /\ phase[r] = "limited"
  /\ count' = count + 1
  /\ ttl' = SlotTTL
  /\ Goto(r, IF count > seen[r] THEN "over" ELSE "held")
  /\ UNCHANGED <<limit, seen, faults, maxHold, forgotten>>

\* Seeded fault: INCR without the EXPIRE.
RunScriptNoExpire(r) ==
  /\ phase[r] = "limited"
  /\ count' = count + 1
  /\ ttl' = IF ttl = 0 THEN Persistent ELSE ttl
  /\ Goto(r, IF count + 1 > seen[r] THEN "over" ELSE "held")
  /\ UNCHANGED <<limit, seen, faults, maxHold, forgotten>>

\* The script: INCR and EXPIRE in one step, then the comparison with the limit read before.
RunScript(r) ==
  /\ phase[r] = "limited"
  /\ count' = count + 1
  /\ ttl' = SlotTTL
  /\ Goto(r, IF count + 1 > seen[r] THEN "over" ELSE "held")
  /\ UNCHANGED <<limit, seen, faults, maxHold, forgotten>>

\* The script call returns an error, whether or not Redis ran it: the request is refused.
RunScriptFails(r) ==
  /\ phase[r] = "limited"
  /\ Fault
  /\ \/ UNCHANGED <<count, ttl>>
     \/ count' = count + 1 /\ ttl' = SlotTTL
  /\ Goto(r, "idle")
  /\ UNCHANGED <<limit, seen, maxHold, forgotten>>

\* Seeded fault: the handler defers the release before it looks at the answer.
TakeBackTwice(r) ==
  /\ phase[r] = "over"
  /\ count' = count - 2
  /\ ttl' = IF ttl = 0 THEN Persistent ELSE ttl
  /\ Goto(r, "idle")
  /\ UNCHANGED <<limit, seen, faults, maxHold, forgotten>>

\* A refused request takes its INCR back; the result of this DECR is ignored.
TakeBack(r) ==
  /\ phase[r] = "over"
  /\ Decrement
  /\ Goto(r, "idle")
  /\ UNCHANGED <<limit, seen, faults, maxHold, forgotten>>

\* Deferred by the handler: DECR, then repair a negative result.
ReleaseConcurrency(r) ==
  /\ phase[r] = "held"
  /\ Decrement
  /\ Goto(r, IF count - 1 < 0 THEN "clamp" ELSE "idle")
  /\ UNCHANGED <<limit, seen, faults, maxHold, forgotten>>

\* Either DECR fails (the request context is already cancelled when the client has gone,
\* or Redis is away), lost before or after Redis applied it; the slot is not retried.
DecrementFails(r) ==
  /\ phase[r] \in {"over", "held"}
  /\ Fault
  /\ \/ UNCHANGED <<count, ttl>>
     \/ Decrement
  /\ Goto(r, "idle")
  /\ UNCHANGED <<limit, seen, maxHold, forgotten>>

\* The second command of ReleaseConcurrency: SET 0 with a TTL, whatever happened since the DECR.
Clamp(r) ==
  /\ phase[r] = "clamp"
  /\ count' = 0 /\ ttl' = SlotTTL
  /\ forgotten' = Cardinality(Counted)
  /\ Goto(r, "idle")
  /\ UNCHANGED <<limit, seen, faults, maxHold>>

ClampFails(r) ==
  /\ phase[r] = "clamp"
  /\ Fault
  /\ Goto(r, "idle")
  /\ UNCHANGED <<count, ttl, limit, seen, maxHold, forgotten>>

\* The server process dies and restarts: every handler is gone, Redis keeps the counter.
Crash ==
  /\ Fault
  /\ \E r \in Handler : phase[r] # "idle"
  /\ phase' = [r \in Handler |-> "idle"]
  /\ age' = [r \in Handler |-> 0]
  /\ UNCHANGED <<count, ttl, limit, seen, maxHold, forgotten>>

\* One tick: handlers grow older, the key comes closer to its expiry and then vanishes.
Tick ==
  /\ ttl > 0 \/ Counted # {}
  /\ \A r \in Counted : age[r] < maxHold
  /\ age' = [r \in Handler |-> IF r \in Counted THEN age[r] + 1 ELSE age[r]]
  /\ ttl' = IF ttl > 0 THEN ttl - 1 ELSE ttl
  /\ count' = IF ttl = 1 THEN 0 ELSE count
  /\ forgotten' = IF ttl = 1 THEN Cardinality(Counted) ELSE forgotten
  /\ UNCHANGED <<limit, phase, seen, faults, maxHold>>

Acquire(r) == RunScript(r) \/ RunScriptFails(r)

Finish(r) == TakeBack(r) \/ ReleaseConcurrency(r) \/ Clamp(r)

Next ==
  \/ \E l \in Limits : SetLimit(l)
  \/ \E r \in Handler : ReadLimits(r) \/ ReadLimitsFails(r) \/ Acquire(r)
                        \/ Finish(r) \/ DecrementFails(r) \/ ClampFails(r)
  \/ Crash
  \/ Tick

Spec == Init /\ [][Next]_slotVars

\* Time passes, and the upstream timeouts end every handler, so every release runs.
Fairness ==
  /\ WF_slotVars(Tick)
  /\ \A r \in Handler : WF_slotVars(Finish(r))

FairSpec == Spec /\ Fairness

-----------------------------------------------------------------------------
(***************************************************************************)
(* Properties                                                              *)
(***************************************************************************)

\* Whatever calls fail and whenever the process crashes, the counter falls below the number
\* of handlers that incremented it by no more than were counted when it was last set to 0, by
\* the expiry of the key under them (a stream of 600 s, a TTL of 300 s) or by the repair in
\* ReleaseConcurrency; with timeouts below the TTL neither ever meets one.
CountCoversHandlers ==
  /\ Cardinality(Counted) <= count + forgotten
  /\ maxHold < SlotTTL => forgotten = 0

\* A request is let through only if, with it, no more requests run than the limit it was
\* judged by (the promise of AcquireConcurrency) and those that the counter has forgotten,
\* of which there are none unless a handler outlives the TTL; also when the limit changes.
AdmissionRespectsLimit ==
  [][\A r \in Handler : r \in Held' \ Held =>
       Cardinality(Held') <= seen[r] + forgotten]_slotVars

\* A counter that can refuse requests always carries an expiry, so what leaked is not
\* refused for ever: only the script makes the counter grow, and it sets the TTL with it.
RefusingCounterExpires == count > 0 => ttl # Persistent

\* Once the user stops sending requests, every slot leaked by failed releases and crashes
\* is reclaimed by the expiry.
LeaksHealWhenQuiet ==
  <>[][~ \E r \in Handler : Acquire(r)]_slotVars => <>[](count <= 0)
=============================================================================
