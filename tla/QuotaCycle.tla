---------------------------- MODULE QuotaCycle ----------------------------
(***************************************************************************)
(* Token quotas (internal/service/limit.go): one rule of one user.         *)
(*                                                                         *)
(* The usage of a rule is two Redis keys, the start of the current cycle   *)
(* and the tokens used in it.  A request checks them before the upstream   *)
(* call and a goroutine that nobody waits for adds its tokens after it;    *)
(* each is several Redis commands, and calls of the same user interleave   *)
(* between any two of them.  Rules do not share keys.                      *)
(***************************************************************************)
EXTENDS Integers, FiniteSets

CONSTANTS TokenCall,   \* calls of the user, each with its recording goroutine
          MaxTokens,   \* max_tokens of the rule
          MaxCall,     \* bound: tokens one call can use
          Period,      \* length of a cycle (EffectiveHours)
          Grace,       \* what the TTL of both keys adds to it (one hour)
          MaxNow,      \* bound: ticks of the clock
          MaxFailures  \* bound: failing Redis commands and crashes

ASSUME QuotaAssumption ==
  /\ IsFiniteSet(TokenCall)
  /\ MaxTokens \in Nat \ {0} /\ MaxCall \in Nat \ {0}
  /\ Period \in Nat \ {0} /\ Grace \in Nat \ {0}
  /\ MaxNow \in Nat /\ MaxFailures \in Nat

VARIABLES
  now,      \* the clock
  start,    \* value of codemind:cycle:{user}:{rule}:start
  startExp, \* when that key expires
  usage,    \* value of codemind:cycle:{user}:{rule}:usage
  usageExp, \* when that key expires
  stage,    \* where each call stands
  stamp,    \* cycle start that a call read
  tok,      \* tokens a call used
  failures, \* faults so far
  spent,    \* history: tokens whose recording was attempted since the cycle began
  lastUse,  \* history: when tokens were last recorded
  contended \* history: the start of this cycle overlapped other operations on its keys

redisVars   == <<start, startExp, usage, usageExp>>
historyVars == <<spent, lastUse, contended>>
quotaVars   == <<now, redisVars, stage, stamp, tok, failures, historyVars>>

NoKey    == -2 \* what Redis answers for the expiry of a missing key ...
NoExpiry == -1 \* ... and of a key without one

Time   == 0..MaxNow
Expiry == 0..(MaxNow + Period + Grace)

CallPhases == {"idle", "checking", "calling", "recording", "starting"}

\* Calls that have read the start and have not yet finished with the keys.
Busy == {r \in TokenCall : stage[r] \in {"checking", "recording", "starting"}}

\* Calls that were admitted and have not recorded their tokens.
Owing == {r \in TokenCall : stage[r] \in {"calling", "recording"}}

Over(s) == now > s + Period

QuotaTypeOK ==
  /\ now \in Time
  /\ start \in Time \cup {NoKey}
  /\ startExp \in Expiry \cup {NoKey}
  /\ start = NoKey <=> startExp = NoKey
  /\ usage \in Nat
  /\ usageExp \in Expiry \cup {NoKey, NoExpiry}
  /\ usageExp = NoKey => usage = 0
  /\ stage \in [TokenCall -> CallPhases]
  /\ stamp \in [TokenCall -> Time \cup {NoKey}]
  /\ tok \in [TokenCall -> 0..MaxCall]
  /\ failures \in 0..MaxFailures
  /\ spent \in Nat
  /\ lastUse \in Time \cup {NoKey}
  /\ contended \in BOOLEAN

QuotaInit ==
  /\ now = 0
  /\ start = NoKey /\ startExp = NoKey
  /\ usage = 0 /\ usageExp = NoKey
  /\ stage = [r \in TokenCall |-> "idle"]
  /\ stamp = [r \in TokenCall |-> NoKey]
  /\ tok = [r \in TokenCall |-> 0]
  /\ failures = 0
  /\ spent = 0 /\ lastUse = NoKey /\ contended = FALSE

-----------------------------------------------------------------------------
Moves(r, p) == stage' = [stage EXCEPT ![r] = p]

\* A command that fails costs a fault; one that succeeds costs none.
Costs(failed) ==
  /\ failed => failures < MaxFailures
  /\ failures' = IF failed THEN failures + 1 ELSE failures

\* A read of the start while another call is between its two SETs sees half a cycle.
ReadStart(r) ==
  /\ stamp' = [stamp EXCEPT ![r] = start]
  /\ contended' = (contended \/ \E other \in TokenCall \ {r} : stage[other] = "starting")

Drop(r) ==
  /\ stamp' = [stamp EXCEPT ![r] = NoKey]
  /\ tok' = [tok EXCEPT ![r] = 0]

\* isRuleExceeded: GET start.  No cycle, or a failed read, admits the call.
CheckStart(r, failed) ==
  /\ stage[r] = "idle"
  /\ Costs(failed)
  /\ IF failed \/ start = NoKey
       THEN Moves(r, "calling") /\ UNCHANGED <<stamp, contended>>
       ELSE Moves(r, "checking") /\ ReadStart(r)
  /\ UNCHANGED <<now, redisVars, tok, spent, lastUse>>

\* The cycle that was read is over: DEL of both keys, and the call is admitted.
DropCycle(r, failed) ==
  /\ stage[r] = "checking" /\ Over(stamp[r])
  /\ Costs(failed)
  /\ IF failed
       THEN UNCHANGED redisVars
       ELSE start' = NoKey /\ startExp' = NoKey /\ usage' = 0 /\ usageExp' = NoKey
  /\ Moves(r, "calling")
  /\ Drop(r)
  /\ UNCHANGED <<now, historyVars>>

\* Seeded fault: the end of the cycle is left to the TTL of the keys.
CheckUsageNoPeriod(r, failed) ==
  /\ stage[r] = "checking"
  /\ Costs(failed)
  /\ Moves(r, IF failed \/ usage < MaxTokens THEN "calling" ELSE "idle")
  /\ Drop(r)
  /\ UNCHANGED <<now, redisVars, historyVars>>

\* Seeded fault: used > max_tokens.
CheckUsageOffByOne(r, failed) ==
  /\ stage[r] = "checking" /\ ~Over(stamp[r])
  /\ Costs(failed)
  /\ Moves(r, IF failed \/ usage <= MaxTokens THEN "calling" ELSE "idle")
  /\ Drop(r)
  /\ UNCHANGED <<now, redisVars, historyVars>>

\* Otherwise GET usage (a missing key is 0): used >= max_tokens refuses the call, and a
\* failed read admits it.
CheckUsage(r, failed) ==
  /\ stage[r] = "checking" /\ ~Over(stamp[r])
  /\ Costs(failed)
  /\ Moves(r, IF failed \/ usage < MaxTokens THEN "calling" ELSE "idle")
  /\ Drop(r)
  /\ UNCHANGED <<now, redisVars, historyVars>>

\* The upstream call fails, or its response carries no usage: nothing is recorded.
CallFails(r) ==
  /\ stage[r] = "calling"
  /\ Moves(r, "idle")
  /\ UNCHANGED <<now, redisVars, stamp, tok, failures, historyVars>>

\* recordRuleUsage of t tokens: GET start.  A failed read loses the tokens.
RecordStart(r, t, failed) ==
  /\ stage[r] = "calling"
  /\ Costs(failed)
  /\ IF failed
       THEN Moves(r, "idle") /\ UNCHANGED <<stamp, tok, contended>>
       ELSE /\ Moves(r, "recording")
            /\ ReadStart(r)
            /\ tok' = [tok EXCEPT ![r] = t]
  /\ UNCHANGED <<now, redisVars, spent, lastUse>>

\* No cycle, or one that is over: SET start.
BeginCycle(r, failed) ==
  /\ stage[r] = "recording"
  /\ stamp[r] = NoKey \/ Over(stamp[r])
  /\ Costs(failed)
  /\ IF failed
       THEN UNCHANGED <<start, startExp>>
       ELSE start' = now /\ startExp' = now + Period + Grace
  /\ spent' = tok[r]
  /\ lastUse' = now
  /\ contended' = (failed \/ Busy # {r})
  /\ Moves(r, "starting")
  /\ UNCHANGED <<now, usage, usageExp, stamp, tok>>

\* Seeded fault: the new cycle goes on counting from the old usage.
SetUsageAdds(r, failed) ==
  /\ stage[r] = "starting"
  /\ Costs(failed)
  /\ IF failed
       THEN UNCHANGED <<usage, usageExp>>
       ELSE usage' = usage + tok[r] /\ usageExp' = now + Period + Grace
  /\ contended' = (contended \/ failed)
  /\ Moves(r, "idle")
  /\ Drop(r)
  /\ UNCHANGED <<now, start, startExp, spent, lastUse>>

\* ... and SET usage to the tokens of this call.
SetUsage(r, failed) ==
  /\ stage[r] = "starting"
  /\ Costs(failed)
  /\ IF failed
       THEN UNCHANGED <<usage, usageExp>>
       ELSE usage' = tok[r] /\ usageExp' = now + Period + Grace
  /\ contended' = (contended \/ failed)
  /\ Moves(r, "idle")
  /\ Drop(r)
  /\ UNCHANGED <<now, start, startExp, spent, lastUse>>

\* A cycle that runs: INCRBY usage, which keeps the expiry of the key and creates a
\* missing one without any.
AddUsage(r, failed) ==
  /\ stage[r] = "recording" /\ stamp[r] # NoKey /\ ~Over(stamp[r])
  /\ Costs(failed)
  /\ IF failed
       THEN UNCHANGED <<usage, usageExp>>
       ELSE /\ usage' = usage + tok[r]
            /\ usageExp' = IF usageExp = NoKey THEN NoExpiry ELSE usageExp
  /\ spent' = spent + tok[r]
  /\ lastUse' = now
  /\ contended' = (contended \/ failed)
  /\ Moves(r, "idle")
  /\ Drop(r)
  /\ UNCHANGED <<now, start, startExp>>

\* The process stops: calls end, and goroutines with tokens to record are not waited for.
ProcessStops ==
  /\ Costs(TRUE)
  /\ stage' = [r \in TokenCall |-> "idle"]
  /\ stamp' = [r \in TokenCall |-> NoKey]
  /\ tok' = [r \in TokenCall |-> 0]
  /\ contended' = (contended \/ Busy # {})
  /\ UNCHANGED <<now, redisVars, spent, lastUse>>

\* Time passes and keys expire.
ClockTicks ==
  /\ now < MaxNow
  /\ now' = now + 1
  /\ IF startExp = now'
       THEN start' = NoKey /\ startExp' = NoKey
       ELSE UNCHANGED <<start, startExp>>
  /\ IF usageExp = now'
       THEN usage' = 0 /\ usageExp' = NoKey
       ELSE UNCHANGED <<usage, usageExp>>
  /\ UNCHANGED <<stage, stamp, tok, failures, historyVars>>

Step(r, failed) ==
  \/ CheckStart(r, failed) \/ DropCycle(r, failed) \/ CheckUsage(r, failed)
  \/ \E t \in 1..MaxCall : RecordStart(r, t, failed)
  \/ BeginCycle(r, failed) \/ SetUsage(r, failed) \/ AddUsage(r, failed)

QuotaNext ==
  \/ \E r \in TokenCall, failed \in BOOLEAN : Step(r, failed)
  \/ \E r \in TokenCall : CallFails(r)
  \/ ProcessStops
  \/ ClockTicks

QuotaSpec == QuotaInit /\ [][QuotaNext]_quotaVars

-----------------------------------------------------------------------------
(***************************************************************************)
(* Properties                                                              *)
(***************************************************************************)

\* A cycle that runs, with both of its keys written.
Running == /\ start # NoKey /\ ~Over(start)
           /\ \A r \in TokenCall : stage[r] # "starting"

\* A cycle whose start no other check or recording overlapped counts every token: it
\* starts from nothing and loses nothing, whatever its calls do afterwards.
UncontendedCycleIsExact == Running /\ ~contended => usage = spent

\* In such a cycle the user goes over max_tokens by less than one call of each request
\* that is between its check and its recording (also after its slot was released).
OvershootIsBounded ==
  Running /\ ~contended /\ failures = 0 =>
    spent + MaxCall * Cardinality(Owing) < MaxTokens + MaxCall * Cardinality(TokenCall)

\* A user who recorded nothing for a whole period is not refused, whatever was lost or
\* left behind in the keys.
IdleUserAdmitted ==
  [][\A r \in TokenCall :
       stage[r] = "checking" /\ stage'[r] = "idle" /\ failures' = failures
         => lastUse # NoKey /\ now <= lastUse + Period]_quotaVars

\* What the tests expect of one caller ("Record usage that exceeds limit ... Should be
\* exceeded", service_test.go:1756): when recordings have finished without a fault and
\* their tokens reach the limit, a check in the same cycle sees them.
RecordedUsageCounts ==
  Running /\ Busy = {} /\ failures = 0 /\ spent >= MaxTokens => usage >= MaxTokens
=============================================================================
