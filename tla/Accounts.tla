------------------------------ MODULE Accounts ------------------------------
(***************************************************************************)
(* Login with its lock, and the tokens that requests carry                 *)
(* (internal/service/auth.go, pkg/jwt/jwt.go, middleware/auth.go), beside  *)
(* the operations of Directory that those tokens admit.  Times are counted *)
(* in ticks: a lock, a token and a blacklist entry by what is left of it.  *)
(***************************************************************************)
EXTENDS Directory

CONSTANTS Token,        \* ids of tokens (jti); each is issued once
          MaxFailCount, InitialLockTime, MaxLockTime, \* LoginLockConfig
          TokenLife,    \* expireHours
          Workloads,    \* sets of requests; those of one of them arrive
          InitialUsers, InitialDepartments, InitialKeys, InitialTokens,
          MaxRequests, MaxTicks, MaxFaults \* bounds

ASSUME AccountsAssumption ==
  /\ MaxFailCount \in Nat \ {0}
  /\ InitialLockTime \in Nat \ {0} /\ MaxLockTime \in Nat \ {0}
  /\ TokenLife \in Nat \ {0}
  /\ DOMAIN InitialUsers = Account
  /\ \A a \in Account : DOMAIN InitialUsers[a] = UserFields /\ InitialUsers[a].fails = 0
  /\ DOMAIN InitialDepartments = Dept
  /\ \A d \in Dept : DOMAIN InitialDepartments[d] = DeptFields
  /\ DOMAIN InitialKeys = Key
  /\ \A a \in Account : Cardinality({k \in Key : InitialKeys[k] = a}) <= MaxKeys
  /\ DOMAIN InitialTokens \subseteq Token
  /\ \A t \in DOMAIN InitialTokens :
       DOMAIN InitialTokens[t] = {"account", "role", "dept", "left"} /\ InitialTokens[t].left \in Nat
  /\ MaxRequests \in Nat /\ MaxTicks \in Nat /\ MaxFaults \in Nat

VARIABLES
  tokens,    \* the claims of each token that was issued, and what is left of its life
  blacklist, \* what is left of each token's entry codemind:jwt:blacklist:<jti>, 0 without one
  revoked,   \* history: the tokens whose revocation has been stored
  guesses,   \* history: wrong passwords tried for each user since it was last locked or cleared
  workload, requests, ticks, faults \* the requests that may arrive, and the bounds' counters

sessions == <<tokens, blacklist, revoked>>
bounds   == <<workload, requests, ticks, faults>>
vars     == <<directory, task, sessions, guesses, bounds>>

Init ==
  /\ users = InitialUsers /\ departments = InitialDepartments /\ keys = InitialKeys
  /\ recorded = {} /\ task = [h \in Handler |-> Idle]
  /\ tokens = InitialTokens /\ blacklist = [t \in Token |-> 0] /\ revoked = {}
  /\ guesses = [a \in Account |-> 0]
  /\ workload \in Workloads /\ requests = 0 /\ ticks = 0 /\ faults = 0

Issued(t) == t \in DOMAIN tokens

-----------------------------------------------------------------------------
(***************************************************************************)
(* Login: the row, the lock and the password, then either the failure is   *)
(* counted, read back and the account locked, or the count is cleared and  *)
(* a token issued.                                                         *)
(***************************************************************************)
\* FindByUsername and IsLocked; the row and its id are kept.
Login(h) ==
  LET op == task[h].op
      found == {a \in Account : Live(a) /\ users[a].name = op.name}
  IN /\ At(h, "begin") /\ op.kind = "Login"
     /\ IF \E a \in found : users[a].locked = 0
          THEN LET a == CHOOSE b \in found : TRUE
               IN task' = [task EXCEPT ![h].at = "compare", ![h].row = users[a],
                    ![h].op = [kind |-> "Login", id |-> a, password |-> op.password]]
          ELSE Answer(h)
     /\ UNCHANGED <<directory, sessions, guesses>>

\* CheckPassword and IsActive, on the row read.
CheckPassword(h) ==
  LET row == task[h].row IN
  /\ At(h, "compare")
  /\ IF task[h].op.password # row.password
       THEN Goto(h, "increment") /\ guesses' = [guesses EXCEPT ![task[h].op.id] = @ + 1]
       ELSE /\ IF row.status # "enabled" THEN Answer(h)
               ELSE Goto(h, IF row.fails > 0 THEN "clear" ELSE "issue")
            /\ UNCHANGED guesses
  /\ UNCHANGED <<directory, sessions>>

\* UPDATE users SET ... WHERE id: a row that is no longer live is left alone.
SetUser(a, row) ==
  /\ users' = IF Live(a) THEN [users EXCEPT ![a] = row] ELSE users
  /\ UNCHANGED <<departments, keys, recorded>>

\* IncrementLoginFailCount, whose second statement reads the row back.
IncrementLoginFailCount(h) ==
  LET a == task[h].op.id IN
  /\ At(h, "increment")
  /\ SetUser(a, [users[a] EXCEPT !.fails = @ + 1])
  /\ Goto(h, "readBack")
  /\ UNCHANGED <<sessions, guesses>>

\* Seeded fault: one attempt more before the lock.
handleLoginFailureLate(h) ==
  LET a == task[h].op.id IN
  /\ At(h, "readBack")
  /\ IF Live(a) /\ users[a].fails > MaxFailCount
       THEN task' = [task EXCEPT ![h].at = "lock", ![h].row = users[a]] ELSE Answer(h)
  /\ UNCHANGED <<directory, sessions, guesses>>

\* handleLoginFailure, on the row read back.
handleLoginFailure(h) ==
  LET a == task[h].op.id IN
  /\ At(h, "readBack")
  /\ IF Live(a) /\ users[a].fails >= MaxFailCount
       THEN task' = [task EXCEPT ![h].at = "lock", ![h].row = users[a]] ELSE Answer(h)
  /\ UNCHANGED <<directory, sessions, guesses>>

\* Doubled for each failure in excess, up to the maximum.
calculateLockDuration(failCount) ==
  LET double[n \in Nat] ==
        IF n = 0 THEN InitialLockTime
        ELSE IF 2 * double[n - 1] > MaxLockTime THEN MaxLockTime ELSE 2 * double[n - 1]
  IN double[failCount - MaxFailCount]

\* LockAccount overwrites the lock of an attempt that was counted before or after.
LockAccount(h) ==
  LET a == task[h].op.id IN
  /\ At(h, "lock")
  /\ SetUser(a, [users[a] EXCEPT !.locked = calculateLockDuration(task[h].row.fails)])
  /\ guesses' = [guesses EXCEPT ![a] = 0]
  /\ Answer(h)
  /\ UNCHANGED sessions

\* A login that was right clears the count, and the lock that others may have set meanwhile.
ClearFails(h) ==
  LET a == task[h].op.id IN
  /\ At(h, "clear")
  /\ SetUser(a, ClearLoginFailCount(users[a]))
  /\ guesses' = [guesses EXCEPT ![a] = 0]
  /\ Goto(h, "issue")
  /\ UNCHANGED sessions

\* GenerateToken: the claims are those of the row read.
GenerateToken(h) ==
  /\ At(h, "issue")
  /\ \E t \in Token :
       /\ ~Issued(t)
       /\ tokens' = [u \in DOMAIN tokens \cup {t} |->
            IF u = t THEN [account |-> task[h].op.id, role |-> task[h].row.role,
                           dept |-> task[h].row.dept, left |-> TokenLife]
                     ELSE tokens[u]]
  /\ Answer(h)
  /\ UNCHANGED <<directory, blacklist, revoked, guesses>>

-----------------------------------------------------------------------------
(***************************************************************************)
(* Tokens                                                                  *)
(***************************************************************************)
\* ParseToken: unexpired and not blacklisted; an error of Redis refuses it.
ParseToken(t) == Issued(t) /\ tokens[t].left > 0 /\ blacklist[t] = 0

\* JWTAuth and RequireRole: a request of some token, for what its role may ask.
JWTAuth(h, op, t) ==
  /\ task[h] = Idle
  /\ ParseToken(t)
  /\ op.kind \in {"Logout", "ChangePassword", "CreateKey", "DeleteKey"} \/ tokens[t].role # "user"
  /\ task' = [task EXCEPT ![h] = Begun(op, [account |-> tokens[t].account, role |-> tokens[t].role,
                                            dept |-> tokens[t].dept, token |-> t])]

\* Seeded fault: the entry lives as long as the token has lived.
BlacklistAged(t) == IF tokens[t].left <= 0 THEN 0 ELSE TokenLife - tokens[t].left

\* Blacklist: the entry lives as long as the token; none for a token that has expired.
Blacklist(t) == tokens[t].left

\* The SET of the entry, which ends both operations.
Revoke(h) ==
  LET t == task[h].by.token IN
  /\ blacklist' = [blacklist EXCEPT ![t] = IF Blacklist(t) > 0 THEN Blacklist(t) ELSE @]
  /\ revoked' = revoked \cup {t}
  /\ Answer(h)
  /\ UNCHANGED <<directory, tokens, guesses>>

Logout(h) == At(h, "begin") /\ task[h].op.kind = "Logout" /\ Revoke(h)

\* ChangePassword: the row, the old password, the new one; then the token is blacklisted.
ChangePassword(h) ==
  LET a == task[h].by.account IN
  /\ At(h, "begin") /\ task[h].op.kind = "ChangePassword"
  /\ IF Live(a) /\ users[a].password = task[h].op.old THEN Goto(h, "password") ELSE Answer(h)
  /\ UNCHANGED <<directory, sessions, guesses>>

WritePassword(h) ==
  LET a == task[h].by.account IN
  /\ At(h, "password")
  /\ SetUser(a, [users[a] EXCEPT !.password = task[h].op.password])
  /\ Goto(h, "revoke")
  /\ UNCHANGED <<sessions, guesses>>

RevokeOwn(h) == At(h, "revoke") /\ Revoke(h)

-----------------------------------------------------------------------------
\* A request arrives: a login, or one with a token.
Receive(h) ==
  /\ task[h] = Idle /\ requests < MaxRequests
  /\ requests' = requests + 1
  /\ \E op \in workload :
       IF op.kind = "Login"
         THEN task' = [task EXCEPT ![h] = Begun(op, None)]
         ELSE \E t \in Token : JWTAuth(h, op, t)
  /\ UNCHANGED <<directory, sessions, guesses, workload, ticks, faults>>

Authenticate(h) ==
  \/ Login(h) \/ CheckPassword(h) \/ IncrementLoginFailCount(h) \/ handleLoginFailure(h)
  \/ LockAccount(h) \/ ClearFails(h) \/ GenerateToken(h)
  \/ Logout(h) \/ ChangePassword(h) \/ WritePassword(h) \/ RevokeOwn(h)

\* An operation of the console; UnlockUser clears the count.
Administer(h) ==
  /\ Manage(h)
  /\ guesses' = [a \in Account |-> IF users[a].fails > 0 /\ users'[a].fails = 0 THEN 0 ELSE guesses[a]]
  /\ UNCHANGED sessions

\* A statement or a command fails.  A login goes on when the count is not cleared.
Fault(h) ==
  /\ faults < MaxFaults /\ faults' = faults + 1
  /\ ~At(h, "compare")
  /\ IF At(h, "clear") THEN Goto(h, "issue") /\ UNCHANGED directory ELSE Fail(h)
  /\ UNCHANGED <<sessions, guesses, workload, requests, ticks>>

Less(n) == IF n > 0 THEN n - 1 ELSE 0

Tick ==
  /\ ticks < MaxTicks /\ ticks' = ticks + 1
  /\ users' = [a \in Account |-> [users[a] EXCEPT !.locked = Less(@)]]
  /\ tokens' = [t \in DOMAIN tokens |-> [tokens[t] EXCEPT !.left = Less(@)]]
  /\ blacklist' = [t \in Token |-> Less(blacklist[t])]
  /\ UNCHANGED <<departments, keys, recorded, task, revoked, guesses, workload, requests, faults>>

Next ==
  \/ \E h \in Handler : Receive(h) \/ Fault(h)
  \/ \E h \in Handler : (Authenticate(h) \/ Administer(h)) /\ UNCHANGED bounds
  \/ \E k \in Key : UseKey(k) /\ UNCHANGED <<sessions, guesses, bounds>>
  \/ Tick

Spec == Init /\ [][Next]_vars

-----------------------------------------------------------------------------
(***************************************************************************)
(* Properties                                                              *)
(***************************************************************************)
\* The lock (auth.go:77, repository/user.go:211): however attempts overlap, a user is locked
\* before more passwords have been tried than the limit and one for each handler, faults
\* apart.
GuessesAreBounded ==
  \A a \in Account : guesses[a] <= MaxFailCount - 1 + Cardinality(Handler) + faults

\* A token whose revocation has been stored is never accepted again: its entry outlives it
\* (jwt.go:99), unless Redis evicts it, as the shipped allkeys-lru lets it when its memory is
\* full (docker-compose.prod.yml); eviction is not modelled.
LoggedOutStaysOut ==
  [][\A h \in Handler, t \in revoked :
       ~(task[h] = Idle /\ task'[h] # Idle /\ task'[h].by # None /\ task'[h].by.token = t)]_vars

\* Only rows that were deleted before are purged, with their keys, to release a name or an
\* email (user.go:68): a live user is at most deleted softly.
LiveUsersStay == [][\A a \in Account : Live(a) => Stored(a)']_vars

\* The check before the INSERT of a key (apikey.go:47) is passed by each handler at most
\* once more than the limit allows.
KeysOvershootIsBounded ==
  \A a \in Account : Cardinality(KeysOf(a)) <= MaxKeys + Cardinality(Handler) - 1

\* A department that is deleted leaves no user and no department behind but those that came
\* to it after its deletion had counted them (department.go:158).
OnlyRacersAreOrphaned ==
  [][\A d \in Dept : Open(d) /\ departments'[d].state = "gone" =>
       \E h \in Handler : /\ Deleting(h, d)
                          /\ Members(d) \cup Children(d) \subseteq task[h].joined]_vars
=============================================================================
