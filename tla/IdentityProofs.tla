--------------------------- MODULE IdentityProofs ---------------------------
(***************************************************************************)
(* Proofs about who may call: the accounts and their sessions (Accounts)   *)
(* and the cached API keys (KeyCache).                                     *)
(*                                                                         *)
(* Accounts, for any handlers, requests, faults and lengths of lives and   *)
(* locks: a live user is never purged, a revoked token is not accepted     *)
(* again, the lock bounds the guesses, and checks made before a write are  *)
(* overtaken only as far as the properties say.  KeyCache, for every set   *)
(* of requests and administrators, every TTL and every stall.              *)
(***************************************************************************)
EXTENDS Accounts, KeyCache, FiniteSetTheorems, TLAPS

TaskFields == {"at", "op", "by", "row", "joined"}

\* The steps of a login after its row was read.
LoginSteps == {"compare", "increment", "readBack", "lock", "clear", "issue"}
LoggingIn(h) == (At(h, "begin") /\ task[h].op.kind = "Login") \/ task[h].at \in LoginSteps

\* The operations on one user that end with UpdateFields.
UserOps == {"UpdateUser", "DeleteUser", "UpdateStatus", "ResetPassword", "UnlockUser"}

\* An operation that is not a login was admitted with a token that had been issued.
TaskOk(h) ==
  /\ DOMAIN task[h] = TaskFields
  /\ LoggingIn(h) \/ Issued(task[h].by.token)
  /\ At(h, "write") => task[h].op.kind \in UserOps

TaskInv ==
  /\ DOMAIN task = Handler
  /\ \A h \in Handler : task[h] # Idle => TaskOk(h)

UsersInv ==
  /\ DOMAIN users = Account
  /\ \A a \in Account : DOMAIN users[a] = UserFields

\* The entry of a revoked token is there for as long as the token could be used.
TokensInv ==
  /\ DOMAIN tokens \subseteq Token
  /\ \A t \in DOMAIN tokens :
       DOMAIN tokens[t] = {"account", "role", "dept", "left"} /\ tokens[t].left \in Nat
  /\ blacklist \in [Token -> Nat]
  /\ \A t \in revoked : t \in DOMAIN tokens /\ tokens[t].left <= blacklist[t]

AccountsInv == TaskInv /\ UsersInv /\ TokensInv

-----------------------------------------------------------------------------
(***************************************************************************)
(* What an operation of the console makes of its task                      *)
(***************************************************************************)
Goes(h, s) ==
  /\ Goto(h, s)
  /\ s \notin LoginSteps
  /\ s = "write" => task[h].op.kind \in UserOps
  /\ s = "insertKey" => CreateKey(h)
  /\ s = "children" => CountByDepartment(h)
  /\ s = "delete" => HasChildren(h)
Moves(h) ==
  \/ Answer(h)
  \/ \E s : Goes(h, s)
  \/ \E row, d : AnswerJoin(h, row, d)

LEMMA MovesKeepTasks ==
  ASSUME NEW h \in Handler, TaskInv, Moves(h), task[h] # Idle, ~LoggingIn(h),
         DOMAIN tokens \subseteq (DOMAIN tokens)'
  PROVE  TaskInv'
<1>1. TaskOk(h)
  BY DEF TaskInv
<1>2. CASE Answer(h)
  BY <1>2 DEF TaskInv, TaskOk, Answer, At, Issued, LoggingIn
<1>3. ASSUME NEW s, Goes(h, s)
      PROVE  TaskInv'
  <2>1. task' = [task EXCEPT ![h].at = s]
    BY <1>3 DEF Goes, Goto
  <2>2. DOMAIN task' = Handler
    BY <2>1 DEF TaskInv
  <2>3. DOMAIN task'[h] = TaskFields /\ task'[h].at = s
        /\ task'[h].by = task[h].by /\ task'[h].op = task[h].op
    BY <1>1, <2>1 DEF TaskInv, TaskOk, TaskFields
  <2>4. TaskOk(h)'
    BY <1>1, <1>3, <2>3 DEF TaskOk, Goes, At, Issued
  <2>5. \A i \in Handler \ {h} : task'[i] = task[i]
    BY <2>1 DEF TaskInv
  <2>6. QED
    BY <2>2, <2>4, <2>5 DEF TaskInv, TaskOk, At, Issued, LoggingIn
<1>4. ASSUME NEW row, NEW d, AnswerJoin(h, row, d)
      PROVE  TaskInv'
  <2>1. DOMAIN task' = Handler /\ task'[h] = Idle
    BY <1>4 DEF AnswerJoin
  <2>2. ASSUME NEW i \in Handler, i # h, task'[i] # Idle
        PROVE  TaskOk(i)'
    <3>1. CASE task'[i] = task[i]
      BY <2>2, <3>1 DEF TaskInv, TaskOk, At, Issued, LoggingIn
    <3>2. CASE Deleting(i, d) /\ task'[i] = [task[i] EXCEPT !.joined = @ \cup {row}]
      <4>1. task[i] # Idle
        BY <3>2 DEF Deleting, At, Idle
      <4>2. TaskOk(i)
        BY <4>1 DEF TaskInv
      <4>3. DOMAIN task'[i] = TaskFields /\ task'[i].at = task[i].at
            /\ task'[i].by = task[i].by /\ task'[i].op = task[i].op
        BY <3>2, <4>2 DEF TaskOk, TaskFields
      <4>4. QED
        BY <4>2, <4>3 DEF TaskOk, At, Issued, LoggingIn
    <3>3. QED
      BY <1>4, <2>2, <3>1, <3>2 DEF AnswerJoin
  <2>3. QED
    BY <2>1, <2>2 DEF TaskInv
<1>5. QED
  BY <1>2, <1>3, <1>4 DEF Moves
LEMMA ManageMoves ==
  ASSUME NEW h \in Handler, TaskInv, Manage(h)
  PROVE  Moves(h) /\ task[h] # Idle /\ ~LoggingIn(h)
<1> USE DEF At, Goes, Moves, LoggingIn, LoginSteps, Idle
<1>1. ASSUME NEW f \in {"name", "email"}
      PROVE  AfterUnique(h, f) => Moves(h)
  BY DEF AfterUnique
<1>2. ASSUME NEW f \in {"name", "email"}, Exists(h, f)
      PROVE  Moves(h) /\ task[h] # Idle /\ ~LoggingIn(h)
  BY <1>2 DEF Exists, Deleted
<1>3. ASSUME NEW f \in {"name", "email"}, ExistsIncludingDeleted(h, f)
      PROVE  Moves(h) /\ task[h] # Idle /\ ~LoggingIn(h)
  BY <1>1, <1>3 DEF ExistsIncludingDeleted, Deleted, Purging
<1>4. ASSUME NEW f \in {"name", "email"}, HardDeleteSoftDeletedUser(h, f)
      PROVE  Moves(h) /\ task[h] # Idle /\ ~LoggingIn(h)
  BY <1>1, <1>4 DEF HardDeleteSoftDeletedUser, Purge, Purging
<1>5. CASE CreateUser(h)
  BY <1>5 DEF CreateUser
<1>6. ASSUME NEW kind, NEW admitted, NEW next, Find(h, kind, admitted, next),
             kind # "Login", next \notin LoginSteps \cup {"insertKey", "children", "delete"}, next = "write" => kind \in UserOps
      PROVE  Moves(h) /\ task[h] # Idle /\ ~LoggingIn(h)
  BY <1>6 DEF Find
<1>7. CASE UpdateUser(h)
  BY <1>6, <1>7 DEF UpdateUser, UserOps
<1>8. CASE ExistsEmail(h)
  BY <1>8 DEF ExistsEmail, UserOps
<1>9. CASE DeleteUser(h) \/ UpdateStatus(h) \/ ResetPassword(h) \/ UnlockUser(h)
  BY <1>6, <1>9 DEF DeleteUser, UpdateStatus, ResetPassword, UnlockUser, UserOps
<1>10. CASE UpdateFields(h)
  BY <1>10 DEF UpdateFields
<1>11. CASE FindDept(h)
  BY <1>11 DEF FindDept, UserOps
<1>12. CASE CreateDepartment(h) \/ UpdateDepartment(h) \/ DeleteDepartment(h) \/ CreateKey(h) \/ DeleteKey(h)
  BY <1>12 DEF CreateDepartment, UpdateDepartment, DeleteDepartment, CreateKey, DeleteKey
<1>13. CASE InsertDepartment(h) \/ WriteDepartment(h)
  BY <1>13 DEF InsertDepartment, WriteDepartment
<1>14. CASE ExistsName(h) \/ CountByDepartment(h) \/ HasChildren(h)
  BY <1>14 DEF ExistsName, CountByDepartment, HasChildren
<1>15. CASE DropDepartment(h) \/ InsertKey(h) \/ DropKey(h)
  <2>1. Answer(h)
    BY <1>15 DEF DropDepartment, InsertKey, DropKey
  <2>2. task[h].at \in {"delete", "insertKey", "deleteKey"}
    BY <1>15 DEF DropDepartment, InsertKey, DropKey
  <2>3. QED
    BY <2>1, <2>2
<1> HIDE DEF At, Goes, Moves, LoggingIn, LoginSteps, Idle
<1>16. QED
  BY <1>2, <1>3, <1>4, <1>5, <1>7, <1>8, <1>9, <1>10, <1>11, <1>12, <1>13, <1>14, <1>15 DEF Manage

-----------------------------------------------------------------------------
(***************************************************************************)
(* What an operation of the console makes of the rows of users             *)
(***************************************************************************)
RowsStay == \A a \in Account : Live(a) => Stored(a)'

LEMMA OneRow ==
  ASSUME UsersInv, NEW a, NEW row,
         a \in Account => DOMAIN row = UserFields /\ (Live(a) => row.state \in {"live", "deleted"}),
         users' = [users EXCEPT ![a] = row]
  PROVE  UsersInv' /\ RowsStay
BY DEF UsersInv, RowsStay, Live, Stored

LEMMA SameRows ==
  ASSUME UsersInv, users' = users
  PROVE  UsersInv' /\ RowsStay
BY DEF UsersInv, RowsStay, Live, Stored

LEMMA ManageUsers ==
  ASSUME NEW h \in Handler, TaskInv, UsersInv, Manage(h)
  PROVE  UsersInv' /\ RowsStay
<1>1. ASSUME NEW f \in {"name", "email"}, HardDeleteSoftDeletedUser(h, f)
      PROVE  UsersInv' /\ RowsStay
  <2> DEFINE rows == {a \in Account : users[a].state = "deleted" /\ users[a][f] = task[h].op[f]}
  <2>1. CASE users' = users
    BY <2>1, SameRows
  <2>2. CASE users' = [a \in Account |-> IF a \in rows THEN [users[a] EXCEPT !.state = "purged"] ELSE users[a]]
    BY <2>2 DEF UsersInv, RowsStay, Live, Stored, UserFields
  <2>3. QED
    BY <1>1, <2>1, <2>2 DEF HardDeleteSoftDeletedUser, Purge
<1>2. CASE CreateUser(h)
  <2> DEFINE op  == task[h].op
             row == [state |-> "live", name |-> op.name, email |-> op.email, dept |-> op.dept, role |-> op.role,
                     status |-> "enabled", password |-> op.password, fails |-> 0, locked |-> 0]
  <2>1. users' = users \/ \E a \in Account : users[a].state = "unborn" /\ users' = [users EXCEPT ![a] = row]
    BY <1>2 DEF CreateUser
  <2>2. DOMAIN row = UserFields /\ row.state = "live"
    BY DEF UserFields
  <2> HIDE DEF row
  <2>3. QED
    BY <2>1, <2>2, OneRow, SameRows
<1>3. CASE UpdateFields(h)
  <2> DEFINE a   == task[h].op.id
             row == Edited(task[h].op, task[h].by, users[a])
  <2>1. users' = users \/ users' = [users EXCEPT ![a] = row]
    BY <1>3 DEF UpdateFields
  <2>2. task[h].op.kind \in UserOps
    BY <1>3 DEF UpdateFields, TaskInv, TaskOk, At, Idle
  <2>3. ASSUME a \in Account
        PROVE  DOMAIN row = UserFields /\ row.state \in {users[a].state, "deleted"}
    <3>1. DOMAIN users[a] = UserFields
      BY <2>3 DEF UsersInv
    <3>2. CASE task[h].op.kind = "UpdateUser"
      BY <3>1, <3>2 DEF Edited, Overlay, UserFields
    <3>3. CASE task[h].op.kind # "UpdateUser"
      BY <2>2, <3>1, <3>3 DEF Edited, ClearLoginFailCount, UserFields, UserOps
    <3>4. QED
      BY <3>2, <3>3
  <2> HIDE DEF row
  <2>4. QED
    BY <2>1, <2>3, OneRow, SameRows DEF Live
<1>4. CASE DropDepartment(h)
  BY <1>4 DEF DropDepartment, UsersInv, RowsStay, Live, Stored, UserFields
<1>5. CASE UNCHANGED users
  BY <1>5, SameRows
<1>6. QED
  BY <1>1, <1>2, <1>3, <1>4, <1>5 DEF Manage, Exists, ExistsIncludingDeleted, UpdateUser, ExistsEmail,
     DeleteUser, UpdateStatus, ResetPassword, UnlockUser, Find, FindDept, CreateDepartment, InsertDepartment,
     UpdateDepartment, ExistsName, WriteDepartment, DeleteDepartment, CountByDepartment, HasChildren,
     CreateKey, InsertKey, DeleteKey, DropKey, directory

-----------------------------------------------------------------------------
(***************************************************************************)
(* Logins, revocations and faults                                          *)
(***************************************************************************)
\* What a task may become.
Fit(v) ==
  /\ DOMAIN v = TaskFields
  /\ \/ v.at = "begin" /\ v.op.kind = "Login"
     \/ v.at \in LoginSteps
     \/ v.by.token \in (DOMAIN tokens)'
  /\ v.at = "write" => v.op.kind \in UserOps

Alone(h) == \A i \in Handler \ {h} : task'[i] = task[i]

LEMMA OwnTask ==
  ASSUME NEW h \in Handler, TaskInv, DOMAIN tokens \subseteq (DOMAIN tokens)',
         NEW v, v = Idle \/ Fit(v), task' = [task EXCEPT ![h] = v]
  PROVE  TaskInv' /\ Alone(h)
BY DEF TaskInv, TaskOk, Fit, Alone, LoggingIn, At, Issued

LEMMA AnswerOwn ==
  ASSUME NEW h \in Handler, TaskInv, DOMAIN tokens \subseteq (DOMAIN tokens)', Answer(h)
  PROVE  TaskInv' /\ Alone(h)
BY OwnTask DEF Answer

LEMMA GotoOwn ==
  ASSUME NEW h \in Handler, TaskInv, task[h] # Idle, DOMAIN tokens \subseteq (DOMAIN tokens)',
         NEW s, Goto(h, s), s # "write", s \in LoginSteps \/ Issued(task[h].by.token)
  PROVE  TaskInv' /\ Alone(h)
<1> DEFINE v == [task[h] EXCEPT !.at = s]
<1>1. TaskOk(h) /\ task' = [task EXCEPT ![h] = v]
  BY DEF TaskInv, Goto
<1>2. DOMAIN v = TaskFields /\ v.at = s /\ v.by = task[h].by
  BY <1>1 DEF TaskOk, TaskFields
<1>3. Fit(v)
  BY <1>1, <1>2 DEF Fit, Issued
<1> HIDE DEF v
<1>4. QED
  BY <1>1, <1>3, OwnTask

\* A step with the row that was read, and perhaps its id.
LEMMA RowOwn ==
  ASSUME NEW h \in Handler, TaskInv, task[h] # Idle, DOMAIN tokens \subseteq (DOMAIN tokens)',
         NEW s \in LoginSteps, NEW op, NEW row,
         task' = [task EXCEPT ![h].at = s, ![h].row = row, ![h].op = op]
  PROVE  TaskInv' /\ Alone(h)
<1> DEFINE v == [task[h] EXCEPT !.at = s, !.row = row, !.op = op]
<1>1. TaskOk(h) /\ task' = [task EXCEPT ![h] = v]
  BY DEF TaskInv
<1>2. DOMAIN v = TaskFields /\ v.at = s
  BY <1>1 DEF TaskOk, TaskFields
<1>3. Fit(v)
  BY <1>2 DEF Fit, LoginSteps
<1> HIDE DEF v
<1>4. QED
  BY <1>1, <1>3, OwnTask

\* A login goes on with a live user's row and id.
Found(h, a) ==
  /\ Live(a)
  /\ task' = [task EXCEPT ![h].at = "compare", ![h].row = users[a],
               ![h].op = [kind |-> "Login", id |-> a, password |-> task[h].op.password]]

LEMMA LoginFinds ==
  ASSUME NEW h, Login(h), ~Answer(h)
  PROVE  \E a \in Account : Found(h, a)
<1> DEFINE found == {a \in Account : Live(a) /\ users[a].name = task[h].op.name}
           a == CHOOSE b \in found : TRUE
<1>1. /\ \E b \in found : users[b].locked = 0
      /\ task' = [task EXCEPT ![h].at = "compare", ![h].row = users[a],
                   ![h].op = [kind |-> "Login", id |-> a, password |-> task[h].op.password]]
  BY Zenon DEF Login
<1>2. a \in found
  BY <1>1
<1>3. QED
  BY <1>1, <1>2 DEF Found

LEMMA AuthenticateTasks ==
  ASSUME NEW h \in Handler, TaskInv, Authenticate(h)
  PROVE  task[h] # Idle /\ TaskInv' /\ Alone(h) /\ DOMAIN tokens \subseteq (DOMAIN tokens)'
<1>1. CASE Login(h)
  <2>1. task[h] # Idle /\ UNCHANGED tokens
    <3>1. At(h, "begin") /\ UNCHANGED sessions
      BY <1>1, Zenon DEF Login
    <3>2. QED
      BY <3>1 DEF At, Idle, sessions
  <2>2. CASE Answer(h)
    BY <2>1, <2>2, AnswerOwn
  <2>3. CASE ~Answer(h)
    <3>1. PICK a \in Account : Found(h, a)
      BY <1>1, <2>3, LoginFinds
    <3>2. QED
      BY <2>1, <3>1, RowOwn DEF Found, LoginSteps
  <2>4. QED
    BY <2>2, <2>3
<1>2. CASE CheckPassword(h)
  <2>1. task[h] # Idle /\ UNCHANGED tokens
    BY <1>2 DEF CheckPassword, At, Idle, sessions
  <2>2. Answer(h) \/ \E s \in LoginSteps : Goto(h, s)
    BY <1>2 DEF CheckPassword, LoginSteps
  <2>3. QED
    BY <2>1, <2>2, AnswerOwn, GotoOwn DEF LoginSteps
<1>3. CASE IncrementLoginFailCount(h) \/ ClearFails(h)
  <2>1. task[h] # Idle /\ UNCHANGED tokens
    BY <1>3 DEF IncrementLoginFailCount, ClearFails, At, Idle, sessions
  <2>2. \E s \in LoginSteps : Goto(h, s)
    BY <1>3 DEF IncrementLoginFailCount, ClearFails, LoginSteps
  <2>3. QED
    BY <2>1, <2>2, GotoOwn DEF LoginSteps
<1>4. CASE handleLoginFailure(h)
  <2>1. task[h] # Idle /\ UNCHANGED tokens
    BY <1>4 DEF handleLoginFailure, At, Idle, sessions
  <2>2. CASE Answer(h)
    BY <2>1, <2>2, AnswerOwn
  <2>3. ASSUME NEW row, task' = [task EXCEPT ![h].at = "lock", ![h].row = row]
        PROVE  TaskInv' /\ Alone(h)
    <3>1. task' = [task EXCEPT ![h].at = "lock", ![h].row = row, ![h].op = task[h].op]
      BY <2>1, <2>3 DEF TaskInv, TaskOk, TaskFields
    <3>2. QED
      BY <2>1, <3>1, RowOwn DEF LoginSteps
  <2>4. QED
    BY <1>4, <2>1, <2>2, <2>3 DEF handleLoginFailure
<1>5. CASE LockAccount(h)
  BY <1>5, AnswerOwn DEF LockAccount, At, Idle, sessions
<1>6. CASE GenerateToken(h)
  <2>1. task[h] # Idle /\ Answer(h) /\ DOMAIN tokens \subseteq (DOMAIN tokens)'
    BY <1>6 DEF GenerateToken, At, Idle
  <2>2. QED
    BY <2>1, AnswerOwn
<1>7. CASE Logout(h) \/ RevokeOwn(h)
  BY <1>7, AnswerOwn DEF Logout, RevokeOwn, Revoke, At, Idle
<1>8. CASE ChangePassword(h) \/ WritePassword(h)
  <2>1. task[h] # Idle /\ UNCHANGED tokens /\ ~LoggingIn(h)
    BY <1>8 DEF ChangePassword, WritePassword, At, Idle, sessions, LoggingIn, LoginSteps
  <2>2. Issued(task[h].by.token)
    BY <2>1 DEF TaskInv, TaskOk
  <2>3. Answer(h) \/ Goto(h, "password") \/ Goto(h, "revoke")
    BY <1>8 DEF ChangePassword, WritePassword
  <2>4. QED
    BY <2>1, <2>2, <2>3, AnswerOwn, GotoOwn
<1>9. QED
  BY <1>1, <1>2, <1>3, <1>4, <1>5, <1>6, <1>7, <1>8 DEF Authenticate

LEMMA AuthenticateUsers ==
  ASSUME NEW h \in Handler, UsersInv, Authenticate(h)
  PROVE  UsersInv' /\ RowsStay
<1>1. ASSUME NEW a, NEW row, SetUser(a, row),
             a \in Account => DOMAIN row = UserFields /\ row.state = users[a].state
      PROVE  UsersInv' /\ RowsStay
  BY <1>1, OneRow, SameRows DEF SetUser, Live
<1>2. CASE IncrementLoginFailCount(h)
  <2> DEFINE a == task[h].op.id  row == [users[a] EXCEPT !.fails = @ + 1]
  <2>1. a \in Account => DOMAIN row = UserFields /\ row.state = users[a].state
    BY DEF UsersInv, UserFields
  <2>2. QED
    BY <1>1, <1>2, <2>1 DEF IncrementLoginFailCount
<1>3. CASE LockAccount(h)
  <2> DEFINE a == task[h].op.id
             row == [users[a] EXCEPT !.locked = calculateLockDuration(task[h].row.fails)]
  <2>1. a \in Account => DOMAIN row = UserFields /\ row.state = users[a].state
    BY DEF UsersInv, UserFields
  <2>2. QED
    BY <1>1, <1>3, <2>1 DEF LockAccount
<1>4. CASE ClearFails(h)
  <2> DEFINE a == task[h].op.id  row == ClearLoginFailCount(users[a])
  <2>1. a \in Account => DOMAIN row = UserFields /\ row.state = users[a].state
    BY DEF UsersInv, UserFields, ClearLoginFailCount
  <2>2. QED
    BY <1>1, <1>4, <2>1 DEF ClearFails
<1>5. CASE WritePassword(h)
  <2> DEFINE a == task[h].by.account  row == [users[a] EXCEPT !.password = task[h].op.password]
  <2>1. a \in Account => DOMAIN row = UserFields /\ row.state = users[a].state
    BY DEF UsersInv, UserFields
  <2>2. QED
    BY <1>1, <1>5, <2>1 DEF WritePassword
<1>6. CASE UNCHANGED directory
  BY <1>6, SameRows DEF directory
<1>7. QED
  BY <1>2, <1>3, <1>4, <1>5, <1>6 DEF Authenticate, Login, CheckPassword, handleLoginFailure, GenerateToken,
     Logout, ChangePassword, RevokeOwn, Revoke

LEMMA AuthenticateTokens ==
  ASSUME NEW h \in Handler, TaskInv, TokensInv, Authenticate(h)
  PROVE  TokensInv'
<1>1. CASE Revoke(h) /\ task[h] # Idle /\ ~LoggingIn(h)
  <2> DEFINE t == task[h].by.token
  <2>1. t \in DOMAIN tokens /\ tokens[t].left \in Nat /\ t \in Token
    BY <1>1 DEF TaskInv, TaskOk, TokensInv, Issued
  <2>2. /\ tokens' = tokens /\ revoked' = revoked \cup {t}
        /\ blacklist' = [blacklist EXCEPT ![t] = IF tokens[t].left > 0 THEN tokens[t].left ELSE @]
    BY <1>1 DEF Revoke, Blacklist
  <2> HIDE DEF t
  <2>3. QED
    BY <2>1, <2>2 DEF TokensInv
<1>2. CASE GenerateToken(h)
  <2>1. PICK t \in Token :
          /\ t \notin DOMAIN tokens
          /\ tokens' = [u \in DOMAIN tokens \cup {t} |->
               IF u = t THEN [account |-> task[h].op.id, role |-> task[h].row.role,
                              dept |-> task[h].row.dept, left |-> TokenLife]
                        ELSE tokens[u]]
    BY <1>2 DEF GenerateToken, Issued
  <2>2. UNCHANGED <<blacklist, revoked>> /\ TokenLife \in Nat
    BY <1>2, AccountsAssumption DEF GenerateToken
  <2>3. QED
    BY <2>1, <2>2 DEF TokensInv
<1>3. CASE UNCHANGED sessions
  BY <1>3 DEF sessions, TokensInv
<1>4. (Logout(h) \/ RevokeOwn(h)) => Revoke(h) /\ task[h] # Idle /\ ~LoggingIn(h)
  BY DEF Logout, RevokeOwn, LoggingIn, LoginSteps, At, Idle
<1>5. QED
  BY <1>1, <1>2, <1>3, <1>4 DEF Authenticate, Login, CheckPassword, IncrementLoginFailCount,
     handleLoginFailure, LockAccount, ClearFails, ChangePassword, WritePassword

-----------------------------------------------------------------------------
(***************************************************************************)
(* The other steps                                                         *)
(***************************************************************************)
LEMMA ReceiveStep ==
  ASSUME NEW h \in Handler, AccountsInv, Receive(h)
  PROVE  /\ AccountsInv'
         /\ RowsStay
         /\ \A t \in revoked : ~(task'[h].by # None /\ task'[h].by.token = t)
         /\ Alone(h)
<1>1. UNCHANGED <<users, tokens, blacklist, revoked>> /\ UsersInv' /\ RowsStay /\ TokensInv'
  BY SameRows DEF AccountsInv, Receive, directory, sessions, TokensInv
<1>2. PICK op \in workload :
        \/ op.kind = "Login" /\ task' = [task EXCEPT ![h] = Begun(op, None)]
        \/ op.kind # "Login" /\ \E t \in Token : JWTAuth(h, op, t)
  BY DEF Receive
<1>3. CASE op.kind = "Login" /\ task' = [task EXCEPT ![h] = Begun(op, None)]
  <2>1. Fit(Begun(op, None)) /\ Begun(op, None).by = None
    BY <1>3 DEF Fit, Begun, TaskFields
  <2>2. QED
    BY <1>1, <1>3, <2>1, OwnTask DEF AccountsInv, TaskInv
<1>4. ASSUME NEW t \in Token, JWTAuth(h, op, t)
      PROVE  TaskInv' /\ Alone(h) /\ \A u \in revoked : ~(task'[h].by # None /\ task'[h].by.token = u)
  <2> DEFINE by == [account |-> tokens[t].account, role |-> tokens[t].role,
                    dept |-> tokens[t].dept, token |-> t]
  <2>1. /\ t \in DOMAIN tokens /\ tokens[t].left > 0 /\ blacklist[t] = 0
        /\ task' = [task EXCEPT ![h] = Begun(op, by)]
    BY <1>4 DEF JWTAuth, ParseToken, Issued
  <2>2. DOMAIN Begun(op, by) = TaskFields /\ Begun(op, by).by.token = t /\ Begun(op, by).at # "write"
    BY DEF Begun, TaskFields
  <2>3. t \notin revoked
    BY <2>1 DEF AccountsInv, TokensInv
  <2>4. Fit(Begun(op, by))
    BY <1>1, <2>1, <2>2 DEF Fit
  <2> HIDE DEF by
  <2>5. QED
    BY <1>1, <2>1, <2>2, <2>3, <2>4, OwnTask DEF AccountsInv, TaskInv
<1>5. QED
  BY <1>1, <1>2, <1>3, <1>4 DEF AccountsInv

LEMMA FaultStep ==
  ASSUME NEW h \in Handler, AccountsInv, Fault(h)
  PROVE  AccountsInv' /\ RowsStay /\ task[h] # Idle /\ Alone(h)
<1>1. UNCHANGED <<users, tokens, blacklist, revoked>> /\ UsersInv' /\ RowsStay /\ TokensInv'
  BY SameRows DEF AccountsInv, Fault, Fail, directory, sessions, TokensInv
<1>2. task[h] # Idle
  BY DEF Fault, Fail, At, Idle
<1>3. CASE Answer(h)
  BY <1>1, <1>2, <1>3, AnswerOwn DEF AccountsInv
<1>4. CASE At(h, "clear") /\ Goto(h, "issue")
  BY <1>1, <1>2, <1>4, GotoOwn DEF AccountsInv, LoginSteps
<1>5. CASE At(h, "email") /\ task[h].op.kind = "UpdateUser"
           /\ Goto(h, IF task[h].op.set.dept # None THEN "findDept" ELSE "write")
  <2>1. Moves(h) /\ ~LoggingIn(h) /\ DOMAIN tokens \subseteq (DOMAIN tokens)'
    BY <1>1, <1>5 DEF Moves, Goes, LoggingIn, LoginSteps, At, UserOps
  <2>2. TaskInv'
    BY <1>2, <2>1, MovesKeepTasks DEF AccountsInv
  <2>3. QED
    BY <1>1, <1>2, <1>5, <2>2 DEF AccountsInv, Alone, Goto, TaskInv
<1>6. CASE At(h, "name") /\ Goto(h, "writeDept")
  <2>1. Moves(h) /\ ~LoggingIn(h) /\ DOMAIN tokens \subseteq (DOMAIN tokens)'
    BY <1>1, <1>6 DEF Moves, Goes, LoggingIn, LoginSteps, At
  <2>2. TaskInv'
    BY <1>2, <2>1, MovesKeepTasks DEF AccountsInv
  <2>3. QED
    BY <1>1, <1>2, <1>6, <2>2 DEF AccountsInv, Alone, Goto, TaskInv
<1>7. QED
  BY <1>3, <1>4, <1>5, <1>6 DEF Fault, Fail

LEMMA TickStep ==
  ASSUME AccountsInv, Tick
  PROVE  AccountsInv' /\ RowsStay /\ UNCHANGED task
<1>1. /\ UNCHANGED <<task, revoked>>
      /\ users' = [a \in Account |-> [users[a] EXCEPT !.locked = Less(@)]]
      /\ tokens' = [t \in DOMAIN tokens |-> [tokens[t] EXCEPT !.left = Less(@)]]
      /\ blacklist' = [t \in Token |-> Less(blacklist[t])]
  BY DEF Tick
<1>2. UsersInv' /\ RowsStay
  BY <1>1 DEF AccountsInv, UsersInv, UserFields, RowsStay, Live, Stored
<1>3. DOMAIN tokens' = DOMAIN tokens /\ blacklist' \in [Token -> Nat]
  BY <1>1 DEF AccountsInv, TokensInv, Less
<1>4. ASSUME NEW t \in DOMAIN tokens
      PROVE  /\ DOMAIN tokens'[t] = {"account", "role", "dept", "left"}
             /\ tokens'[t].left = Less(tokens[t].left)
  BY <1>1, <1>4 DEF AccountsInv, TokensInv
<1>5. TokensInv'
  BY <1>1, <1>3, <1>4 DEF AccountsInv, TokensInv, Less
<1>6. TaskInv'
  BY <1>1, <1>3 DEF AccountsInv, TaskInv, TaskOk, At, Issued, LoggingIn
<1>7. QED
  BY <1>1, <1>2, <1>5, <1>6 DEF AccountsInv

LEMMA ManageStep ==
  ASSUME NEW h \in Handler, AccountsInv, Administer(h)
  PROVE  AccountsInv' /\ RowsStay /\ \A i \in Handler : task[i] = Idle => task'[i] = Idle
<1>1. Manage(h) /\ UNCHANGED sessions
  BY DEF Administer
<1>2. UNCHANGED <<tokens, blacklist, revoked>> /\ TokensInv'
  BY <1>1 DEF AccountsInv, TokensInv, sessions
<1>3. UsersInv' /\ RowsStay
  BY <1>1, ManageUsers DEF AccountsInv
<1>4. Moves(h) /\ task[h] # Idle /\ ~LoggingIn(h)
  BY <1>1, ManageMoves DEF AccountsInv
<1>5. TaskInv'
  BY <1>2, <1>4, MovesKeepTasks DEF AccountsInv
<1>6. ASSUME NEW i \in Handler, task[i] = Idle
      PROVE  task'[i] = Idle
  BY <1>4, <1>6 DEF Moves, Goes, Answer, Goto, AnswerJoin, Deleting, At, Idle, AccountsInv, TaskInv
<1>7. QED
  BY <1>2, <1>3, <1>5, <1>6 DEF AccountsInv

\* A revoked token admits nobody in this step.
NoneAdmitted ==
  \A h \in Handler, t \in revoked :
    ~(task[h] = Idle /\ task'[h] # Idle /\ task'[h].by # None /\ task'[h].by.token = t)

LEMMA AccountsStep ==
  ASSUME AccountsInv, [Next]_vars
  PROVE  AccountsInv' /\ RowsStay /\ NoneAdmitted
<1>1. ASSUME NEW h \in Handler, Receive(h)
      PROVE  AccountsInv' /\ RowsStay /\ NoneAdmitted
  BY <1>1, ReceiveStep DEF NoneAdmitted, Alone
<1>2. ASSUME NEW h \in Handler, Fault(h)
      PROVE  AccountsInv' /\ RowsStay /\ NoneAdmitted
  BY <1>2, FaultStep DEF NoneAdmitted, Alone
<1>3. ASSUME NEW h \in Handler, Authenticate(h)
      PROVE  AccountsInv' /\ RowsStay /\ NoneAdmitted
  BY <1>3, AuthenticateTasks, AuthenticateUsers, AuthenticateTokens DEF AccountsInv, NoneAdmitted, Alone
<1>4. ASSUME NEW h \in Handler, Administer(h)
      PROVE  AccountsInv' /\ RowsStay /\ NoneAdmitted
  BY <1>4, ManageStep DEF NoneAdmitted
<1>5. CASE Tick
  BY <1>5, TickStep DEF NoneAdmitted
<1>6. CASE UNCHANGED <<users, task, sessions>>
  <2>1. UNCHANGED <<users, task, tokens, blacklist, revoked>>
    BY <1>6 DEF sessions
  <2>2. AccountsInv'
    BY <2>1 DEF AccountsInv, TaskInv, TaskOk, UsersInv, TokensInv, LoggingIn, At, Issued
  <2>3. QED
    BY <2>1, <2>2, SameRows DEF AccountsInv, NoneAdmitted
<1>7. (\E k \in Key : UseKey(k) /\ UNCHANGED <<sessions, guesses, bounds>>) \/ UNCHANGED vars
        => UNCHANGED <<users, task, sessions>>
  BY DEF UseKey, vars, directory
<1>8. QED
  BY <1>1, <1>2, <1>3, <1>4, <1>5, <1>6, <1>7 DEF Next

LEMMA AccountsInit == Init => AccountsInv
<1> SUFFICES ASSUME Init PROVE AccountsInv
  OBVIOUS
<1>1. UsersInv
  BY AccountsAssumption DEF Init, UsersInv
<1>2. TokensInv
  BY AccountsAssumption DEF Init, TokensInv
<1>3. TaskInv
  BY DEF Init, TaskInv
<1>4. QED
  BY <1>1, <1>2, <1>3 DEF AccountsInv

-----------------------------------------------------------------------------
(***************************************************************************)
(* Theorems                                                                *)
(***************************************************************************)
\* Tasks, rows and tokens are related as the code's reads before its writes suppose.
THEOREM AccountsInvariant == Spec => []AccountsInv
<1>1. AccountsInv /\ [Next]_vars => AccountsInv'
  BY AccountsStep
<1>2. QED
  BY <1>1, AccountsInit, PTL DEF Spec

\* A revoked token stays out (jwt.go:99): its entry in the blacklist outlives it.
THEOREM RevokedStaysOut == Spec => LoggedOutStaysOut
<1>1. AccountsInv /\ [Next]_vars => [NoneAdmitted]_vars
  BY AccountsStep
<1>2. NoneAdmitted =>
        \A h \in Handler, t \in revoked :
          ~(task[h] = Idle /\ task'[h] # Idle /\ task'[h].by # None /\ task'[h].by.token = t)
  BY DEF NoneAdmitted
<1>3. QED
  BY <1>1, <1>2, AccountsInvariant, PTL DEF Spec, LoggedOutStaysOut

\* Nobody purges a live user (user.go:68).
THEOREM LiveAreNotPurged == Spec => LiveUsersStay
<1>1. AccountsInv /\ [Next]_vars => [RowsStay]_vars
  BY AccountsStep
<1>2. RowsStay => \A a \in Account : Live(a) => Stored(a)'
  BY DEF RowsStay
<1>3. QED
  BY <1>1, <1>2, AccountsInvariant, PTL DEF Spec, LiveUsersStay

-----------------------------------------------------------------------------
(***************************************************************************)
(* How many passwords are tried before a lock.  Logins of user a are       *)
(* counted by where they stand: before the comparison, before the          *)
(* increment, or past a failed comparison and before the lock.             *)
(***************************************************************************)
Stands(i, a, s) == task[i].at = s /\ task[i].op.id = a

Trying(a)   == {i \in Handler : Stands(i, a, "compare")}
Counting(a) == {i \in Handler : Stands(i, a, "increment")}
Failed(a)   == {i \in Handler : Stands(i, a, "increment") \/ Stands(i, a, "readBack") \/ Stands(i, a, "lock")}

\* A live user's guesses have been counted in the row, are about to be, or were lost to a
\* fault; and past the limit each has a login on its way to the lock.  A user that is not
\* live has no new logins.
Bounded(a) ==
  /\ guesses[a] \in Nat /\ users[a].fails \in Nat
  /\ Live(a) =>
       /\ guesses[a] <= users[a].fails + Cardinality(Counting(a)) + faults
       /\ guesses[a] <= MaxFailCount - 1 + Cardinality(Failed(a)) + faults
  /\ ~Live(a) =>
       guesses[a] + Cardinality(Trying(a)) <= MaxFailCount - 1 + Cardinality(Handler) + faults
  /\ users[a].state = "unborn" => guesses[a] = 0 /\ Trying(a) = {} /\ Failed(a) = {}

GuessInv ==
  /\ AccountsInv
  /\ DOMAIN guesses = Account /\ faults \in Nat
  /\ \A a \in Account : Bounded(a)

LEMMA Sets ==
  ASSUME NEW a
  PROVE  /\ Cardinality(Trying(a)) \in Nat /\ Cardinality(Counting(a)) \in Nat
         /\ Cardinality(Failed(a)) \in Nat /\ Cardinality(Handler) \in Nat
         /\ Cardinality(Counting(a)) <= Cardinality(Failed(a))
         /\ Cardinality(Trying(a)) + Cardinality(Failed(a)) <= Cardinality(Handler)
<1>1. /\ Trying(a) \subseteq Handler /\ Failed(a) \subseteq Handler
      /\ Counting(a) \subseteq Failed(a) /\ Trying(a) \cap Failed(a) = {}
  BY DEF Trying, Counting, Failed, Stands
<1>2. IsFiniteSet(Trying(a)) /\ IsFiniteSet(Failed(a)) /\ IsFiniteSet(Counting(a)) /\ IsFiniteSet(Handler)
  BY <1>1, DirectoryAssumption, FS_Subset
<1>3. Cardinality(Counting(a)) <= Cardinality(Failed(a))
  BY <1>1, <1>2, FS_Subset
<1>4. Cardinality(Trying(a) \cup Failed(a)) = Cardinality(Trying(a)) + Cardinality(Failed(a))
  <2>1. Cardinality({}) = 0
    BY FS_EmptySet
  <2>2. Cardinality(Trying(a)) \in Nat /\ Cardinality(Failed(a)) \in Nat
    BY <1>2, FS_CardinalityType
  <2>3. Cardinality(Trying(a) \cup Failed(a))
          = Cardinality(Trying(a)) + Cardinality(Failed(a)) - Cardinality(Trying(a) \cap Failed(a))
    BY <1>2, FS_Union
  <2>4. Cardinality(Trying(a) \cap Failed(a)) = 0
    BY <1>1, <2>1
  <2>5. QED
    BY <2>2, <2>3, <2>4
<1>5. Cardinality(Trying(a) \cup Failed(a)) <= Cardinality(Handler)
  <2>1. Trying(a) \cup Failed(a) \subseteq Handler
    BY <1>1
  <2>2. QED
    BY <1>2, <2>1, FS_Subset
<1>6. QED
  BY <1>2, <1>3, <1>4, <1>5, FS_CardinalityType

\* One handler moves between two sets of handlers.
LEMMA OneMoves ==
  ASSUME NEW X \in SUBSET Handler, NEW Y \in SUBSET Handler, NEW h \in Handler, X \ {h} = Y \ {h}
  PROVE  /\ Cardinality(X) \in Nat /\ Cardinality(Y) \in Nat
         /\ Cardinality(Y) = IF h \in X /\ h \notin Y THEN Cardinality(X) - 1
                             ELSE IF h \in Y /\ h \notin X THEN Cardinality(X) + 1
                             ELSE Cardinality(X)
<1>1. IsFiniteSet(X) /\ IsFiniteSet(Y)
  BY DirectoryAssumption, FS_Subset
<1>2. Cardinality(X) \in Nat /\ Cardinality(Y) \in Nat
  BY <1>1, FS_CardinalityType
<1>3. CASE h \in X /\ h \notin Y
  <2>1. Y = X \ {h}
    BY <1>3
  <2>2. QED
    BY <1>1, <1>2, <1>3, <2>1, FS_RemoveElement
<1>4. CASE h \in Y /\ h \notin X
  <2>1. Y = X \cup {h}
    BY <1>4
  <2>2. QED
    BY <1>1, <1>2, <1>4, <2>1, FS_AddElement
<1>5. CASE (h \in X) = (h \in Y)
  <2>1. X = Y
    BY <1>5
  <2>2. QED
    BY <1>2, <1>5, <2>1
<1>6. QED
  BY <1>3, <1>4, <1>5

\* Where h stood and stands is all that a step of h changes in the sets.
Others(h) ==
  \A i \in Handler \ {h} : \A a \in Account : \A s \in LoginSteps : Stands(i, a, s)' = Stands(i, a, s)

Change(was, is) == IF was /\ ~is THEN -1 ELSE IF is /\ ~was THEN 1 ELSE 0

LEMMA SetSteps ==
  ASSUME NEW h \in Handler, Others(h), NEW a \in Account
  PROVE  /\ Cardinality(Trying(a))' \in Nat /\ Cardinality(Counting(a))' \in Nat
         /\ Cardinality(Failed(a))' \in Nat
         /\ Cardinality(Trying(a))' = Cardinality(Trying(a)) + Change(h \in Trying(a), h \in Trying(a)')
         /\ Cardinality(Counting(a))' = Cardinality(Counting(a)) + Change(h \in Counting(a), h \in Counting(a)')
         /\ Cardinality(Failed(a))' = Cardinality(Failed(a)) + Change(h \in Failed(a), h \in Failed(a)')
<1>1. /\ Trying(a) \ {h} = Trying(a)' \ {h}
      /\ Counting(a) \ {h} = Counting(a)' \ {h}
      /\ Failed(a) \ {h} = Failed(a)' \ {h}
  BY DEF Others, Trying, Counting, Failed, LoginSteps
<1>2. /\ Trying(a) \in SUBSET Handler /\ Trying(a)' \in SUBSET Handler
      /\ Counting(a) \in SUBSET Handler /\ Counting(a)' \in SUBSET Handler
      /\ Failed(a) \in SUBSET Handler /\ Failed(a)' \in SUBSET Handler
  BY DEF Trying, Counting, Failed
<1>3. ASSUME NEW X \in SUBSET Handler, NEW Y \in SUBSET Handler, X \ {h} = Y \ {h}
      PROVE  Cardinality(Y) \in Nat /\ Cardinality(Y) = Cardinality(X) + Change(h \in X, h \in Y)
  BY <1>3, OneMoves DEF Change
<1>4. QED
  BY <1>1, <1>2, <1>3
LEMMA AfterAnswer ==
  ASSUME NEW h \in Handler, TaskInv, Answer(h)
  PROVE  Others(h) /\ task'[h].at = "idle"
BY DEF TaskInv, Answer, Idle, Others, Stands

LEMMA AfterGoto ==
  ASSUME NEW h \in Handler, TaskInv, task[h] # Idle, NEW s, Goto(h, s)
  PROVE  Others(h) /\ task'[h].at = s /\ task'[h].op = task[h].op
<1>1. TaskOk(h)
  BY DEF TaskInv
<1>2. QED
  BY <1>1 DEF TaskInv, TaskOk, TaskFields, Goto, Others, Stands

RowKept(a) == users'[a].state = users[a].state /\ users'[a].fails = users[a].fails

\* What concerns neither the logins of user a nor its row.
SetsKept(a) == UNCHANGED <<Trying(a), Counting(a), Failed(a)>>

LEMMA Elsewhere ==
  ASSUME NEW a \in Account, Bounded(a), faults \in Nat, faults' \in {faults, faults + 1},
         SetsKept(a), RowKept(a), guesses'[a] = guesses[a]
  PROVE  Bounded(a)'
<1>1. /\ Cardinality(Trying(a))' = Cardinality(Trying(a))
      /\ Cardinality(Counting(a))' = Cardinality(Counting(a))
      /\ Cardinality(Failed(a))' = Cardinality(Failed(a))
  BY DEF SetsKept
<1>2. QED
  BY <1>1, Sets, AccountsAssumption DEF Bounded, Live, RowKept, SetsKept

LEMMA KeptSets ==
  ASSUME NEW h \in Handler, Others(h), NEW a \in Account,
         \A s \in {"compare", "increment", "readBack", "lock"} : Stands(h, a, s)' = Stands(h, a, s)
  PROVE  SetsKept(a)
BY DEF Others, SetsKept, Trying, Counting, Failed, LoginSteps

\* A step of h whose login is of another user.
LEMMA OtherUser ==
  ASSUME NEW h \in Handler, Others(h), NEW a \in Account,
         task[h].op.id # a \/ task[h].at \notin LoginSteps,
         task'[h].op.id # a \/ task'[h].at \notin LoginSteps
  PROVE  SetsKept(a)
BY KeptSets DEF Stands, LoginSteps

-----------------------------------------------------------------------------
LEMMA LoginGuess ==
  ASSUME GuessInv, NEW h \in Handler, Login(h), faults' = faults, NEW a \in Account
  PROVE  Bounded(a)'
<1>1. At(h, "begin") /\ UNCHANGED <<directory, guesses>>
  BY Zenon DEF Login
<1>2. RowKept(a) /\ guesses'[a] = guesses[a] /\ Bounded(a) /\ task[h] # Idle /\ TaskInv
  BY <1>1 DEF directory, RowKept, GuessInv, AccountsInv, At, Idle
<1>3. CASE Answer(h)
  <2>1. SetsKept(a)
    BY <1>1, <1>2, <1>3, AfterAnswer, OtherUser DEF At, LoginSteps
  <2>2. QED
    BY <1>2, <2>1, Elsewhere DEF GuessInv
<1>4. ASSUME NEW b \in Account, Found(h, b)
      PROVE  Bounded(a)'
  <2>1. TaskOk(h)
    BY <1>2 DEF TaskInv
  <2>2. Others(h) /\ task'[h].at = "compare" /\ task'[h].op.id = b
    BY <1>2, <1>4, <2>1 DEF Found, TaskInv, TaskOk, TaskFields, Others, Stands
  <2>3. CASE a # b
    <3>1. SetsKept(a)
      BY <1>1, <2>2, <2>3, OtherUser DEF At, LoginSteps
    <3>2. QED
      BY <1>2, <3>1, Elsewhere DEF GuessInv
  <2>4. CASE a = b
    <3>1. Live(a) /\ Live(a)'
      BY <1>2, <1>4, <2>4 DEF Found, Live, RowKept
    <3>2. /\ h \notin Counting(a) /\ h \notin Counting(a)'
          /\ h \notin Failed(a) /\ h \notin Failed(a)'
      BY <1>1, <2>2 DEF Counting, Failed, Stands, At
    <3>3. Cardinality(Counting(a))' = Cardinality(Counting(a)) /\ Cardinality(Failed(a))' = Cardinality(Failed(a))
      BY <2>2, <3>2, SetSteps, Sets DEF Change
    <3>4. QED
      BY <1>2, <3>1, <3>3 DEF Bounded, Live, RowKept
  <2>5. QED
    BY <2>3, <2>4
<1>5. QED
  BY <1>3, <1>4, LoginFinds
\* What the lemmas below say of a step of h: the users and guesses of its login, and its place.
LEMMA StepFacts ==
  ASSUME GuessInv, NEW h \in Handler, task[h].at # "idle", NEW a \in Account
  PROVE  /\ task[h] # Idle /\ TaskInv /\ Bounded(a) /\ faults \in Nat /\ DOMAIN guesses = Account
         /\ DOMAIN users = Account /\ DOMAIN users[a] = UserFields
         /\ (h \in Trying(a) <=> At(h, "compare") /\ task[h].op.id = a)
         /\ (h \in Counting(a) <=> At(h, "increment") /\ task[h].op.id = a)
         /\ (h \in Failed(a) <=> (At(h, "increment") \/ At(h, "readBack") \/ At(h, "lock")) /\ task[h].op.id = a)
BY DEF GuessInv, AccountsInv, UsersInv, Idle, Trying, Counting, Failed, Stands, At

\* Where h is after a step that keeps its login.
LEMMA PlaceAfter ==
  ASSUME NEW h \in Handler, NEW a, task'[h].op = task[h].op \/ task'[h].at = "idle"
  PROVE  /\ h \in Trying(a)' <=> task'[h].at = "compare" /\ task[h].op.id = a
         /\ h \in Counting(a)' <=> task'[h].at = "increment" /\ task[h].op.id = a
         /\ h \in Failed(a)' <=> task'[h].at \in {"increment", "readBack", "lock"} /\ task[h].op.id = a
BY DEF Trying, Counting, Failed, Stands

LEMMA CompareGuess ==
  ASSUME GuessInv, NEW h \in Handler, CheckPassword(h), faults' = faults, NEW a \in Account
  PROVE  Bounded(a)'
<1> DEFINE b == task[h].op.id
<1>1. At(h, "compare") /\ task[h].at # "idle" /\ users' = users
  BY DEF CheckPassword, At, directory
<1>2. \/ Goto(h, "increment") /\ guesses' = [guesses EXCEPT ![b] = @ + 1]
      \/ (Answer(h) \/ Goto(h, "clear") \/ Goto(h, "issue")) /\ guesses' = guesses
  BY DEF CheckPassword
<1>3. Others(h) /\ (task'[h].op = task[h].op \/ task'[h].at = "idle")
      /\ task'[h].at \in {"increment", "clear", "issue", "idle"}
      /\ (task'[h].at = "increment" <=> Goto(h, "increment"))
  <2>1. CASE Answer(h)
    <3>1. task'[h].at = "idle" /\ Others(h)
      BY <1>1, <2>1, StepFacts, AfterAnswer
    <3>2. ~Goto(h, "increment")
      BY <1>1, <3>1, StepFacts, AfterGoto
    <3>3. QED
      BY <3>1, <3>2
  <2>2. ASSUME NEW s \in {"increment", "clear", "issue"}, Goto(h, s)
        PROVE  Others(h) /\ task'[h].at = s /\ task'[h].op = task[h].op
    BY <1>1, <2>2, StepFacts, AfterGoto
  <2>3. QED
    BY <1>2, <2>1, <2>2
<1>4. CASE a # b
  <2>1. SetsKept(a)
    BY <1>3, <1>4, OtherUser DEF LoginSteps
  <2>2. guesses'[a] = guesses[a] /\ RowKept(a)
    BY <1>1, <1>2, <1>4, StepFacts DEF RowKept
  <2>3. QED
    BY <1>1, <2>1, <2>2, StepFacts, Elsewhere
<1>5. CASE a = b
  <2>1. Bounded(a) /\ users[a].state # "unborn"
    BY <1>1, <1>5, StepFacts DEF Bounded
  <2>2. h \in Trying(a) /\ h \notin Counting(a) /\ h \notin Failed(a)
    BY <1>1, <1>5, StepFacts DEF At
  <2>3. CASE Goto(h, "increment")
    <3>1. h \notin Trying(a)' /\ h \in Counting(a)' /\ h \in Failed(a)'
      BY <1>3, <1>5, <2>3, PlaceAfter
    <3>2. /\ Cardinality(Trying(a))' = Cardinality(Trying(a)) - 1
          /\ Cardinality(Counting(a))' = Cardinality(Counting(a)) + 1
          /\ Cardinality(Failed(a))' = Cardinality(Failed(a)) + 1
      BY <1>3, <2>2, <3>1, SetSteps DEF Change
    <3>3. guesses'[a] = guesses[a] + 1 \/ guesses'[a] = guesses[a]
      BY <1>1, <1>2, <1>5, StepFacts
    <3>4. QED
      BY <1>1, <2>1, <3>2, <3>3, Sets, StepFacts, AccountsAssumption DEF Bounded, Live
  <2>4. CASE ~Goto(h, "increment")
    <3>1. h \notin Trying(a)' /\ h \notin Counting(a)' /\ h \notin Failed(a)'
      BY <1>3, <2>4, PlaceAfter
    <3>2. /\ Cardinality(Trying(a))' = Cardinality(Trying(a)) - 1
          /\ Cardinality(Counting(a))' = Cardinality(Counting(a))
          /\ Cardinality(Failed(a))' = Cardinality(Failed(a))
      BY <1>3, <2>2, <3>1, SetSteps, Sets DEF Change
    <3>3. guesses' = guesses
      BY <1>2, <2>4
    <3>4. QED
      BY <1>1, <2>1, <3>2, <3>3, Sets, StepFacts, AccountsAssumption DEF Bounded, Live
  <2>5. QED
    BY <2>3, <2>4
<1>6. QED
  BY <1>4, <1>5

LEMMA IncrementGuess ==
  ASSUME GuessInv, NEW h \in Handler, IncrementLoginFailCount(h), faults' = faults, NEW a \in Account
  PROVE  Bounded(a)'
<1> DEFINE b == task[h].op.id
<1>1. /\ At(h, "increment") /\ task[h].at # "idle" /\ guesses' = guesses /\ Goto(h, "readBack")
      /\ users' = IF Live(b) THEN [users EXCEPT ![b] = [users[b] EXCEPT !.fails = @ + 1]] ELSE users
  BY DEF IncrementLoginFailCount, At, SetUser
<1>2. Others(h) /\ task'[h].op = task[h].op /\ task'[h].at = "readBack"
  BY <1>1, StepFacts, AfterGoto
<1>3. CASE a # b
  <2>1. SetsKept(a)
    BY <1>2, <1>3, OtherUser
  <2>2. RowKept(a)
    BY <1>1, <1>3, StepFacts DEF RowKept
  <2>3. QED
    BY <1>1, <2>1, <2>2, StepFacts, Elsewhere
<1>4. CASE a = b
  <2>1. h \notin Trying(a) /\ h \in Counting(a) /\ h \in Failed(a)
    BY <1>1, <1>4, StepFacts DEF At
  <2>2. h \notin Trying(a)' /\ h \notin Counting(a)' /\ h \in Failed(a)'
    BY <1>2, <1>4, PlaceAfter
  <2>3. /\ Cardinality(Trying(a))' = Cardinality(Trying(a))
        /\ Cardinality(Counting(a))' = Cardinality(Counting(a)) - 1
        /\ Cardinality(Failed(a))' = Cardinality(Failed(a))
    BY <1>2, <2>1, <2>2, SetSteps, Sets DEF Change
  <2>4. Bounded(a) /\ users[a].state # "unborn" /\ faults \in Nat
    BY <1>1, <2>1, StepFacts DEF Bounded
  <2>5. CASE Live(a)
    <3>1. users'[a].state = users[a].state /\ users'[a].fails = users[a].fails + 1
      BY <1>1, <1>4, <2>5, StepFacts DEF UserFields
    <3>2. QED
      BY <1>1, <2>3, <2>4, <2>5, <3>1, Sets DEF Bounded, Live
  <2>6. CASE ~Live(a)
    BY <1>1, <1>4, <2>3, <2>4, <2>6, Sets DEF Bounded, Live
  <2>7. QED
    BY <2>5, <2>6
<1>5. QED
  BY <1>3, <1>4

LEMMA FailureGuess ==
  ASSUME GuessInv, NEW h \in Handler, handleLoginFailure(h), faults' = faults, NEW a \in Account
  PROVE  Bounded(a)'
<1> DEFINE b == task[h].op.id
<1>1. At(h, "readBack") /\ task[h].at # "idle" /\ guesses' = guesses /\ users' = users
  BY DEF handleLoginFailure, At, directory
<1>2. RowKept(a) /\ Bounded(a) /\ TaskInv /\ task[h] # Idle
  BY <1>1, StepFacts DEF RowKept
<1>3. CASE ~Answer(h)
  <2>1. PICK row : task' = [task EXCEPT ![h].at = "lock", ![h].row = row]
    BY <1>3 DEF handleLoginFailure
  <2>2. TaskOk(h)
    BY <1>2 DEF TaskInv
  <2>3. Others(h) /\ task'[h].at = "lock" /\ task'[h].op = task[h].op
    BY <1>2, <2>1, <2>2 DEF TaskInv, TaskOk, TaskFields, Others, Stands
  <2>4. SetsKept(a)
    <3>1. /\ Trying(a) \ {h} = Trying(a)' \ {h}
          /\ Counting(a) \ {h} = Counting(a)' \ {h}
          /\ Failed(a) \ {h} = Failed(a)' \ {h}
      BY <2>3 DEF Others, Trying, Counting, Failed, LoginSteps
    <3>2. h \notin Trying(a) /\ h \notin Counting(a) /\ (h \in Failed(a) <=> b = a)
      BY <1>1, StepFacts DEF At
    <3>3. h \notin Trying(a)' /\ h \notin Counting(a)' /\ (h \in Failed(a)' <=> b = a)
      BY <2>3, PlaceAfter
    <3>4. QED
      BY <3>1, <3>2, <3>3 DEF SetsKept
  <2>5. QED
    BY <1>1, <1>2, <2>4, Elsewhere DEF GuessInv
<1>4. CASE Answer(h) /\ a # b
  <2>1. SetsKept(a)
    BY <1>2, <1>4, AfterAnswer, OtherUser DEF LoginSteps
  <2>2. QED
    BY <1>1, <1>2, <2>1, Elsewhere DEF GuessInv
<1>5. CASE Answer(h) /\ a = b
  <2>1. Others(h) /\ task'[h].at = "idle"
    BY <1>2, <1>5, AfterAnswer
  <2>2. h \notin Trying(a) /\ h \notin Counting(a) /\ h \in Failed(a)
    BY <1>1, <1>5, StepFacts DEF At
  <2>3. h \notin Trying(a)' /\ h \notin Counting(a)' /\ h \notin Failed(a)'
    BY <2>1, PlaceAfter
  <2>4. /\ Cardinality(Trying(a))' = Cardinality(Trying(a))
        /\ Cardinality(Counting(a))' = Cardinality(Counting(a))
        /\ Cardinality(Failed(a))' = Cardinality(Failed(a)) - 1
    BY <2>1, <2>2, <2>3, SetSteps, Sets DEF Change
  <2>5. Cardinality(Counting(a)) < Cardinality(Failed(a))
    <3>1. Counting(a) \subseteq Failed(a) \ {h} /\ Failed(a) \subseteq Handler
      BY <2>2 DEF Counting, Failed
    <3>2. IsFiniteSet(Failed(a)) /\ IsFiniteSet(Failed(a) \ {h})
      BY <3>1, DirectoryAssumption, FS_Subset, FS_RemoveElement
    <3>3. Cardinality(Failed(a) \ {h}) = Cardinality(Failed(a)) - 1
      BY <2>2, <3>2, FS_RemoveElement
    <3>4. Cardinality(Counting(a)) <= Cardinality(Failed(a) \ {h})
      BY <3>1, <3>2, FS_Subset
    <3>5. QED
      BY <3>3, <3>4, Sets
  <2>6. Live(a) => users[a].fails < MaxFailCount
    <3>1. task' # [task EXCEPT ![h].at = "lock", ![h].row = users[b]]
      <4>1. [task EXCEPT ![h].at = "lock", ![h].row = users[b]][h].at = "lock"
        BY <1>2 DEF TaskInv, TaskOk, TaskFields
      <4>2. QED
        BY <2>1, <4>1
    <3>2. ~(Live(b) /\ users[b].fails >= MaxFailCount)
      BY <3>1 DEF handleLoginFailure
    <3>3. users[a].fails \in Nat /\ MaxFailCount \in Nat
      BY <1>2, AccountsAssumption DEF Bounded
    <3>4. QED
      BY <1>5, <3>2, <3>3
  <2>7. users[a].state # "unborn"
    BY <1>2, <2>2 DEF Bounded
  <2>8. QED
    BY <1>1, <1>2, <2>4, <2>5, <2>6, <2>7, Sets, StepFacts, AccountsAssumption DEF Bounded, Live, RowKept
<1>6. QED
  BY <1>3, <1>4, <1>5
\* A lock or a login that was right: the guesses start again from 0.
LEMMA GuessesRestart ==
  ASSUME NEW a \in Account, Bounded(a), faults \in Nat, faults' = faults,
         Cardinality(Trying(a))' = Cardinality(Trying(a)), Trying(a)' = Trying(a),
         Cardinality(Counting(a))' \in Nat, Cardinality(Failed(a))' \in Nat, Failed(a)' \subseteq Failed(a),
         users'[a].state = users[a].state, users'[a].fails \in Nat, guesses'[a] = 0
  PROVE  Bounded(a)'
BY Sets, AccountsAssumption DEF Bounded, Live

LEMMA LockGuess ==
  ASSUME GuessInv, NEW h \in Handler, LockAccount(h), faults' = faults, NEW a \in Account
  PROVE  Bounded(a)'
<1> DEFINE b == task[h].op.id
<1>1. PICK n : users' = IF Live(b) THEN [users EXCEPT ![b] = [users[b] EXCEPT !.locked = n]] ELSE users
  BY DEF LockAccount, SetUser
<1>2. At(h, "lock") /\ task[h].at # "idle" /\ guesses' = [guesses EXCEPT ![b] = 0] /\ Answer(h)
  BY DEF LockAccount, At
<1>3. Others(h) /\ task'[h].at = "idle" /\ Bounded(a)
  BY <1>2, StepFacts, AfterAnswer
<1>4. RowKept(a)
  BY <1>1, <1>2, StepFacts DEF RowKept, UserFields
<1>5. CASE a # b
  <2>1. SetsKept(a) /\ guesses'[a] = guesses[a]
    BY <1>2, <1>3, <1>5, OtherUser, StepFacts DEF LoginSteps
  <2>2. QED
    BY <1>3, <1>4, <2>1, Elsewhere DEF GuessInv
<1>6. CASE a = b
  <2>1. h \notin Trying(a) /\ h \notin Trying(a)' /\ h \notin Failed(a)'
    BY <1>2, <1>3, StepFacts, PlaceAfter DEF At
  <2>2. Trying(a)' = Trying(a) /\ Failed(a)' \subseteq Failed(a)
    BY <1>3, <2>1 DEF Others, Trying, Failed, LoginSteps
  <2>3. Cardinality(Counting(a))' \in Nat /\ Cardinality(Failed(a))' \in Nat
    BY <1>3, SetSteps
  <2>4. guesses'[a] = 0 /\ users'[a].state = users[a].state /\ users'[a].fails \in Nat
    BY <1>2, <1>3, <1>4, <1>6, StepFacts DEF RowKept, Bounded
  <2>5. QED
    BY <1>3, <2>2, <2>3, <2>4, GuessesRestart DEF GuessInv
<1>7. QED
  BY <1>5, <1>6

LEMMA ClearGuess ==
  ASSUME GuessInv, NEW h \in Handler, ClearFails(h), faults' = faults, NEW a \in Account
  PROVE  Bounded(a)'
<1> DEFINE b == task[h].op.id
<1>1. /\ At(h, "clear") /\ task[h].at # "idle" /\ guesses' = [guesses EXCEPT ![b] = 0] /\ Goto(h, "issue")
      /\ users' = IF Live(b) THEN [users EXCEPT ![b] = ClearLoginFailCount(users[b])] ELSE users
  BY DEF ClearFails, SetUser, At
<1>2. Others(h) /\ task'[h].op = task[h].op /\ task'[h].at = "issue" /\ Bounded(a)
  BY <1>1, StepFacts, AfterGoto
<1>3. SetsKept(a)
  BY <1>1, <1>2, KeptSets DEF Stands, At
<1>4. CASE a # b
  BY <1>1, <1>2, <1>3, <1>4, StepFacts, Elsewhere DEF RowKept
<1>5. CASE a = b
  <2>1. users'[a].state = users[a].state /\ users'[a].fails \in Nat
    BY <1>1, <1>2, <1>5, StepFacts DEF ClearLoginFailCount, UserFields, Bounded
  <2>2. Cardinality(Counting(a))' \in Nat /\ Cardinality(Failed(a))' \in Nat
    BY <1>2, SetSteps
  <2>3. QED
    BY <1>1, <1>2, <1>3, <1>5, <2>1, <2>2, StepFacts, GuessesRestart DEF SetsKept
<1>6. QED
  BY <1>4, <1>5

\* The steps that move no login between the comparison and the lock.
LEMMA OtherGuess ==
  ASSUME GuessInv, NEW h \in Handler, faults' = faults, NEW a \in Account,
         GenerateToken(h) \/ Logout(h) \/ ChangePassword(h) \/ WritePassword(h) \/ RevokeOwn(h)
  PROVE  Bounded(a)'
<1>1. /\ task[h].at \in {"issue", "begin", "password", "revoke"} /\ guesses' = guesses
      /\ Answer(h) \/ Goto(h, "password") \/ Goto(h, "revoke")
  BY DEF GenerateToken, Logout, ChangePassword, WritePassword, RevokeOwn, Revoke, At
<1>2. Bounded(a) /\ task[h] # Idle /\ TaskInv
  BY <1>1, StepFacts
<1>3. Others(h) /\ task'[h].at \in {"idle", "password", "revoke"}
  BY <1>1, <1>2, AfterAnswer, AfterGoto
<1>4. SetsKept(a)
  BY <1>1, <1>3, KeptSets DEF Stands
<1>5. RowKept(a)
  <2>1. CASE users' = users
    BY <2>1 DEF RowKept
  <2>2. ASSUME NEW b, NEW p, users' = [users EXCEPT ![b] = [users[b] EXCEPT !.password = p]]
        PROVE  RowKept(a)
    BY <1>1, <2>2, StepFacts DEF RowKept, UserFields
  <2>3. QED
    BY <2>1, <2>2 DEF GenerateToken, Logout, ChangePassword, WritePassword, RevokeOwn, Revoke, SetUser, directory
<1>6. QED
  BY <1>1, <1>2, <1>4, <1>5, Elsewhere DEF GuessInv

\* What a user's row becomes in an operation of the console.
RowMoves(a) ==
  \/ RowKept(a)
  \/ Live(a) /\ Live(a)' /\ users'[a].fails = 0
  \/ Live(a) /\ users'[a].state = "deleted" /\ users'[a].fails = users[a].fails
  \/ users[a].state = "unborn" /\ Live(a)' /\ users'[a].fails = 0
  \/ users[a].state = "deleted" /\ users'[a].state = "purged" /\ users'[a].fails = users[a].fails

LEMMA ManageRows ==
  ASSUME NEW h \in Handler, TaskInv, UsersInv, Manage(h), NEW a \in Account
  PROVE  RowMoves(a)
<1> USE DEF UsersInv, RowMoves, RowKept, Live
<1>1. ASSUME NEW f \in {"name", "email"}, HardDeleteSoftDeletedUser(h, f)
      PROVE  RowMoves(a)
  <2> DEFINE rows == {b \in Account : users[b].state = "deleted" /\ users[b][f] = task[h].op[f]}
  <2>1. \/ users' = users
        \/ users' = [b \in Account |-> IF b \in rows THEN [users[b] EXCEPT !.state = "purged"] ELSE users[b]]
    BY <1>1 DEF HardDeleteSoftDeletedUser, Purge
  <2>2. QED
    BY <2>1 DEF UserFields
<1>2. CASE CreateUser(h)
  <2> DEFINE op  == task[h].op
             row == [state |-> "live", name |-> op.name, email |-> op.email, dept |-> op.dept, role |-> op.role,
                     status |-> "enabled", password |-> op.password, fails |-> 0, locked |-> 0]
  <2>1. users' = users \/ \E b \in Account : users[b].state = "unborn" /\ users' = [users EXCEPT ![b] = row]
    BY <1>2 DEF CreateUser
  <2>2. row.fails = 0 /\ row.state = "live"
    OBVIOUS
  <2> HIDE DEF row
  <2>3. QED
    BY <2>1, <2>2
<1>3. CASE UpdateFields(h)
  <2> DEFINE b   == task[h].op.id
             row == Edited(task[h].op, task[h].by, users[b])
  <2>1. users' = users \/ (Live(b) /\ users' = [users EXCEPT ![b] = row])
    BY <1>3 DEF UpdateFields
  <2>2. task[h].op.kind \in UserOps
    BY <1>3 DEF UpdateFields, TaskInv, TaskOk, At, Idle
  <2>3. ASSUME b = a
        PROVE  /\ row.state \in {users[a].state, "deleted"}
               /\ row.fails = users[a].fails \/ (row.fails = 0 /\ row.state = users[a].state)
    <3>1. DOMAIN users[b] = UserFields
      BY <2>3
    <3>2. CASE task[h].op.kind = "UpdateUser"
      BY <2>3, <3>1, <3>2 DEF Edited, Overlay, UserFields
    <3>3. CASE task[h].op.kind # "UpdateUser"
      BY <2>2, <2>3, <3>1, <3>3 DEF Edited, ClearLoginFailCount, UserFields, UserOps
    <3>4. QED
      BY <3>2, <3>3
  <2> HIDE DEF row
  <2>4. QED
    BY <2>1, <2>3
<1>4. CASE DropDepartment(h)
  BY <1>4 DEF DropDepartment, UserFields
<1>5. CASE UNCHANGED users
  BY <1>5
<1>6. QED
  BY <1>1, <1>2, <1>3, <1>4, <1>5 DEF Manage, Exists, ExistsIncludingDeleted, UpdateUser, ExistsEmail,
     DeleteUser, UpdateStatus, ResetPassword, UnlockUser, Find, FindDept, CreateDepartment, InsertDepartment,
     UpdateDepartment, ExistsName, WriteDepartment, DeleteDepartment, CountByDepartment, HasChildren,
     CreateKey, InsertKey, DeleteKey, DropKey, directory

LEMMA AdministerGuess ==
  ASSUME GuessInv, NEW h \in Handler, Administer(h), faults' = faults, NEW a \in Account
  PROVE  Bounded(a)'
<1>1. /\ Manage(h) /\ TaskInv /\ UsersInv /\ Bounded(a) /\ faults \in Nat
      /\ guesses'[a] = IF users[a].fails > 0 /\ users'[a].fails = 0 THEN 0 ELSE guesses[a]
  BY DEF Administer, GuessInv, AccountsInv
<1>2. RowMoves(a)
  BY <1>1, ManageRows
<1>3. SetsKept(a)
  <2>1. Moves(h) /\ task[h] # Idle /\ ~LoggingIn(h)
    BY <1>1, ManageMoves
  <2>2. CASE Answer(h)
    BY <1>1, <2>1, <2>2, AfterAnswer, OtherUser DEF LoggingIn, LoginSteps
  <2>3. ASSUME NEW s, Goes(h, s)
        PROVE  SetsKept(a)
    BY <1>1, <2>1, <2>3, AfterGoto, OtherUser DEF LoggingIn, Goes
  <2>4. ASSUME NEW row, NEW d, AnswerJoin(h, row, d)
        PROVE  SetsKept(a)
    <3>1. task'[h] = Idle
      BY <2>4 DEF AnswerJoin
    <3>2. ASSUME NEW i \in Handler \ {h}
          PROVE  task'[i].at = task[i].at /\ task'[i].op = task[i].op
      <4>1. CASE task'[i] = task[i]
        BY <4>1
      <4>2. CASE Deleting(i, d) /\ task'[i] = [task[i] EXCEPT !.joined = @ \cup {row}]
        <5>1. TaskOk(i)
          BY <1>1, <4>2 DEF Deleting, At, Idle, TaskInv
        <5>2. QED
          BY <4>2, <5>1 DEF TaskOk, TaskFields
      <4>3. QED
        BY <2>4, <4>1, <4>2 DEF AnswerJoin
    <3>3. Others(h)
      BY <3>2 DEF Others, Stands
    <3>4. QED
      BY <2>1, <3>1, <3>3, OtherUser DEF LoggingIn, LoginSteps, Idle
  <2>5. QED
    BY <2>1, <2>2, <2>3, <2>4 DEF Moves
<1>4. CASE RowKept(a)
  BY <1>1, <1>3, <1>4, Elsewhere DEF RowKept, Bounded
<1>5. /\ Cardinality(Trying(a))' = Cardinality(Trying(a))
      /\ Cardinality(Counting(a))' = Cardinality(Counting(a))
      /\ Cardinality(Failed(a))' = Cardinality(Failed(a))
  BY <1>3 DEF SetsKept
<1>6. CASE Live(a) /\ Live(a)' /\ users'[a].fails = 0
  BY <1>1, <1>5, <1>6, Sets, AccountsAssumption DEF Bounded, Live
<1>7. CASE Live(a) /\ users'[a].state = "deleted" /\ users'[a].fails = users[a].fails
  BY <1>1, <1>5, <1>7, Sets, AccountsAssumption DEF Bounded, Live
<1>8. CASE users[a].state = "unborn" /\ Live(a)' /\ users'[a].fails = 0
  BY <1>1, <1>5, <1>8, Sets, AccountsAssumption DEF Bounded, Live
<1>9. CASE users[a].state = "deleted" /\ users'[a].state = "purged" /\ users'[a].fails = users[a].fails
  BY <1>1, <1>5, <1>9, Sets, AccountsAssumption DEF Bounded, Live
<1>10. QED
  BY <1>2, <1>4, <1>6, <1>7, <1>8, <1>9 DEF RowMoves
\* A login that fails is not counted, which the fault pays for.
LEMMA FaultGuess ==
  ASSUME GuessInv, NEW h \in Handler, Fault(h), NEW a \in Account
  PROVE  Bounded(a)' /\ faults' = faults + 1
<1>1. /\ ~At(h, "compare") /\ task[h] # Idle /\ UNCHANGED <<users, guesses>> /\ faults' = faults + 1
      /\ Answer(h) \/ (At(h, "clear") /\ Goto(h, "issue")) \/ (At(h, "name") /\ Goto(h, "writeDept"))
         \/ (At(h, "email") /\ \E s \in {"findDept", "write"} : Goto(h, s))
  BY DEF Fault, Fail, At, Idle, directory
<1>2. Bounded(a) /\ TaskInv /\ RowKept(a) /\ faults \in Nat
  BY <1>1 DEF RowKept, GuessInv, AccountsInv
<1>3. CASE ~Answer(h)
  <2>1. PICK s \in {"issue", "writeDept", "findDept", "write"} : Goto(h, s)
    BY <1>1, <1>3
  <2>2. Others(h) /\ task'[h].at = s /\ task[h].at \in {"clear", "name", "email"}
    BY <1>1, <1>2, <1>3, <2>1, AfterGoto DEF At
  <2>3. SetsKept(a)
    BY <2>2, KeptSets DEF Stands
  <2>4. QED
    BY <1>1, <1>2, <2>3, Elsewhere
<1>4. CASE Answer(h)
  <2>1. Others(h) /\ task'[h].at = "idle"
    BY <1>2, <1>4, AfterAnswer
  <2>2. h \notin Trying(a) /\ h \notin Trying(a)' /\ h \notin Counting(a)' /\ h \notin Failed(a)'
    BY <1>1, <2>1, PlaceAfter DEF Trying, Stands, At
  <2>3. /\ Cardinality(Trying(a))' = Cardinality(Trying(a))
        /\ Cardinality(Counting(a))' \in {Cardinality(Counting(a)) - 1, Cardinality(Counting(a))}
        /\ Cardinality(Failed(a))' \in {Cardinality(Failed(a)) - 1, Cardinality(Failed(a))}
    BY <2>1, <2>2, SetSteps, Sets DEF Change
  <2>4. users[a].state = "unborn" => Trying(a)' = {} /\ Failed(a)' = {}
    BY <1>2, <2>1, <2>2 DEF Bounded, Others, Trying, Failed, LoginSteps
  <2>5. QED
    BY <1>1, <1>2, <2>3, <2>4, Sets, AccountsAssumption DEF Bounded, Live, RowKept
<1>5. QED
  BY <1>1, <1>3, <1>4

LEMMA ReceiveGuess ==
  ASSUME GuessInv, NEW h \in Handler, Receive(h), NEW a \in Account
  PROVE  Bounded(a)'
<1>1. /\ task[h] = Idle /\ UNCHANGED <<users, guesses, faults>>
      /\ Bounded(a) /\ faults \in Nat /\ TaskInv /\ RowKept(a)
  BY DEF Receive, directory, GuessInv, AccountsInv, RowKept
<1>2. \E op, by : task' = [task EXCEPT ![h] = Begun(op, by)]
  BY DEF Receive, JWTAuth
<1>3. Others(h) /\ task'[h].at \in {"name", "begin"}
  BY <1>1, <1>2 DEF TaskInv, Begun, Others, Stands
<1>4. SetsKept(a)
  BY <1>1, <1>3, KeptSets DEF Stands, Idle
<1>5. QED
  BY <1>1, <1>4, Elsewhere

LEMMA TickGuess ==
  ASSUME GuessInv, Tick, NEW a \in Account
  PROVE  Bounded(a)'
<1>1. UNCHANGED <<task, guesses, faults>> /\ Bounded(a) /\ faults \in Nat /\ UsersInv
  BY DEF Tick, GuessInv, AccountsInv
<1>2. RowKept(a)
  BY <1>1 DEF Tick, RowKept, UsersInv, UserFields
<1>3. SetsKept(a)
  BY <1>1 DEF SetsKept, Trying, Counting, Failed, Stands
<1>4. QED
  BY <1>1, <1>2, <1>3, Elsewhere

LEMMA GuessStep ==
  ASSUME GuessInv, [Next]_vars
  PROVE  GuessInv'
<1>1. AccountsInv'
  BY AccountsStep DEF GuessInv
<1>2. DOMAIN guesses' = Account /\ faults' \in Nat
  <2>1. DOMAIN guesses = Account /\ faults \in Nat
    BY DEF GuessInv
  <2>2. ASSUME NEW h \in Handler, Authenticate(h) PROVE DOMAIN guesses' = DOMAIN guesses
    <3>1. Login(h) => UNCHANGED guesses
      BY Zenon DEF Login
    <3>2. QED
      BY <2>2, <3>1 DEF Authenticate, CheckPassword, IncrementLoginFailCount, handleLoginFailure, LockAccount,
         ClearFails, GenerateToken, Logout, ChangePassword, WritePassword, RevokeOwn, Revoke
  <2>3. QED
    BY <2>1, <2>2 DEF Next, Receive, Fault, Administer, UseKey, Tick, bounds, vars
<1>3. ASSUME NEW a \in Account
      PROVE  Bounded(a)'
  <2>1. ASSUME NEW h \in Handler, Authenticate(h), UNCHANGED bounds
        PROVE  Bounded(a)'
    <3>1. faults' = faults
      BY <2>1 DEF bounds
    <3>2. QED
      BY <2>1, <3>1, LoginGuess, CompareGuess, IncrementGuess, FailureGuess, LockGuess, ClearGuess, OtherGuess
      DEF Authenticate
  <2>2. ASSUME NEW h \in Handler, Administer(h), UNCHANGED bounds
        PROVE  Bounded(a)'
    BY <2>2, AdministerGuess DEF bounds
  <2>3. ASSUME UNCHANGED <<users, task, guesses, faults>>
        PROVE  Bounded(a)'
    <3>1. RowKept(a) /\ SetsKept(a)
      BY <2>3 DEF RowKept, SetsKept, Trying, Counting, Failed, Stands
    <3>2. QED
      BY <2>3, <3>1, Elsewhere DEF GuessInv
  <2>4. (\E k \in Key : UseKey(k) /\ UNCHANGED <<sessions, guesses, bounds>>) \/ UNCHANGED vars
          => UNCHANGED <<users, task, guesses, faults>>
    BY DEF UseKey, vars, directory, bounds
  <2>5. QED
    BY <2>1, <2>2, <2>3, <2>4, ReceiveGuess, FaultGuess, TickGuess DEF Next
<1>4. QED
  BY <1>1, <1>2, <1>3 DEF GuessInv

LEMMA GuessInit == Init => GuessInv
<1> SUFFICES ASSUME Init PROVE GuessInv
  OBVIOUS
<1>1. ASSUME NEW a \in Account
      PROVE  Bounded(a)
  <2>1. guesses[a] = 0 /\ users[a].fails = 0 /\ faults = 0
    BY AccountsAssumption DEF Init
  <2>2. Trying(a) = {} /\ Failed(a) = {}
    BY DEF Init, Idle, Trying, Failed, Stands
  <2>3. MaxFailCount - 1 \in Nat
    BY AccountsAssumption
  <2>4. /\ Cardinality(Trying(a)) \in Nat /\ Cardinality(Counting(a)) \in Nat /\ Cardinality(Failed(a)) \in Nat
        /\ Cardinality(Handler) \in Nat /\ Cardinality(Trying(a)) <= Cardinality(Handler)
    BY Sets
  <2>5. QED
    BY <2>1, <2>2, <2>3, <2>4 DEF Bounded
<1>2. QED
  BY <1>1, AccountsInit DEF Init, GuessInv

\* The lock bounds how often a password is guessed (auth.go:77, repository/user.go:211): at
\* most one guess for each handler comes after those that the limit allows.
THEOREM LockBoundsGuesses == Spec => []GuessesAreBounded
<1>1. GuessInv /\ [Next]_vars => GuessInv'
  BY GuessStep
<1>2. GuessInv => GuessesAreBounded
  <2> SUFFICES ASSUME GuessInv, NEW a \in Account
               PROVE  guesses[a] <= MaxFailCount - 1 + Cardinality(Handler) + faults
    BY DEF GuessesAreBounded
  <2>1. Bounded(a) /\ faults \in Nat
    BY DEF GuessInv
  <2>2. QED
    BY <2>1, Sets, AccountsAssumption DEF Bounded
<1>3. QED
  BY <1>1, <1>2, GuessInit, PTL DEF Spec
-----------------------------------------------------------------------------
(***************************************************************************)
(* What a step of one handler leaves of the others, and where it goes      *)
(***************************************************************************)
Stays(i) ==
  /\ task'[i].at = task[i].at /\ task'[i].op = task[i].op /\ task'[i].by = task[i].by
  /\ task[i].joined \subseteq task'[i].joined
OthersStay(h) == \A i \in Handler \ {h} : Stays(i)

LEMMA AloneStay == ASSUME NEW h, Alone(h) PROVE OthersStay(h)
BY DEF Alone, OthersStay, Stays

LEMMA JoinStay ==
  ASSUME NEW h \in Handler, TaskInv, NEW row, NEW d, AnswerJoin(h, row, d)
  PROVE  /\ OthersStay(h) /\ task'[h] = Idle
         /\ \A i \in Handler \ {h} : Deleting(i, d) => row \in task'[i].joined
<1>1. ASSUME NEW i \in Handler \ {h}, Deleting(i, d)
      PROVE  Stays(i) /\ row \in task'[i].joined
  <2>1. TaskOk(i)
    BY <1>1 DEF Deleting, At, Idle, TaskInv
  <2>2. QED
    BY <1>1, <2>1 DEF AnswerJoin, Stays, TaskOk, TaskFields
<1>2. ASSUME NEW i \in Handler \ {h}, ~Deleting(i, d)
      PROVE  Stays(i)
  BY <1>2 DEF AnswerJoin, Stays
<1>3. QED
  BY <1>1, <1>2 DEF AnswerJoin, OthersStay

LEMMA MovesStay ==
  ASSUME NEW h \in Handler, TaskInv, Moves(h), task[h] # Idle
  PROVE  /\ OthersStay(h)
         /\ \/ task'[h] = Idle
            \/ Goes(h, task'[h].at) /\ task'[h].op = task[h].op /\ task'[h].by = task[h].by
               /\ task'[h].joined = task[h].joined
<1>1. CASE Answer(h)
  BY <1>1 DEF Answer, TaskInv, OthersStay, Stays
<1>2. ASSUME NEW s, Goes(h, s)
      PROVE  /\ OthersStay(h) /\ Goes(h, task'[h].at) /\ task'[h].op = task[h].op
             /\ task'[h].by = task[h].by /\ task'[h].joined = task[h].joined
  <2>1. TaskOk(h) /\ task' = [task EXCEPT ![h].at = s]
    BY <1>2 DEF TaskInv, Goes, Goto
  <2>2. /\ task'[h].at = s /\ task'[h].op = task[h].op /\ task'[h].by = task[h].by
        /\ task'[h].joined = task[h].joined
    BY <2>1 DEF TaskInv, TaskOk, TaskFields
  <2>3. OthersStay(h)
    BY <2>1 DEF TaskInv, OthersStay, Stays
  <2>4. QED
    BY <1>2, <2>2, <2>3
<1>3. QED
  BY <1>1, <1>2, JoinStay DEF Moves

\* Where a step of a login or with a token goes.
LEMMA AuthenticatePlace ==
  ASSUME NEW h \in Handler, TaskInv, Authenticate(h)
  PROVE  task'[h].at \in LoginSteps \cup {"idle", "password", "revoke"}
<1>1. task[h] # Idle
  BY AuthenticateTasks
<1>2. ASSUME Answer(h)
      PROVE  task'[h].at = "idle"
  BY <1>2, AfterAnswer
<1>3. ASSUME NEW s \in LoginSteps \cup {"password", "revoke"}, Goto(h, s)
      PROVE  task'[h].at = s
  BY <1>1, <1>3, AfterGoto
<1>5. CASE Login(h)
  <2>1. ASSUME NEW a \in Account, Found(h, a)
        PROVE  task'[h].at = "compare"
    BY <1>1, <2>1 DEF Found, TaskInv, TaskOk, TaskFields
  <2>2. QED
    BY <1>2, <1>5, <2>1, LoginFinds DEF LoginSteps
<1>6. CASE handleLoginFailure(h)
  <2>1. Answer(h) \/ \E row : task' = [task EXCEPT ![h].at = "lock", ![h].row = row]
    BY <1>6 DEF handleLoginFailure
  <2>2. ASSUME NEW row, task' = [task EXCEPT ![h].at = "lock", ![h].row = row]
        PROVE  task'[h].at = "lock"
    BY <1>1, <2>2 DEF TaskInv, TaskOk, TaskFields
  <2>3. QED
    BY <1>2, <2>1, <2>2 DEF LoginSteps
<1>7. CASE CheckPassword(h) \/ IncrementLoginFailCount(h) \/ LockAccount(h) \/ ClearFails(h)
  <2>1. Answer(h) \/ \E s \in LoginSteps : Goto(h, s)
    BY <1>7 DEF CheckPassword, IncrementLoginFailCount, LockAccount, ClearFails, LoginSteps
  <2>2. QED
    BY <1>2, <1>3, <2>1
<1>8. CASE GenerateToken(h) \/ Logout(h) \/ ChangePassword(h) \/ WritePassword(h) \/ RevokeOwn(h)
  <2>1. Answer(h) \/ \E s \in {"password", "revoke"} : Goto(h, s)
    BY <1>8 DEF GenerateToken, Logout, ChangePassword, WritePassword, RevokeOwn, Revoke
  <2>2. QED
    BY <1>2, <1>3, <2>1
<1>9. QED
  BY <1>5, <1>6, <1>7, <1>8 DEF Authenticate

LEMMA FaultPlace ==
  ASSUME NEW h \in Handler, TaskInv, Fault(h)
  PROVE  /\ OthersStay(h)
         /\ task'[h].at \in {"idle", "issue", "writeDept", "findDept", "write"}
<1>1. /\ task[h] # Idle
      /\ Answer(h) \/ \E s \in {"issue", "writeDept", "findDept", "write"} : Goto(h, s)
  BY DEF Fault, Fail, At, Idle
<1>2. CASE Answer(h)
  BY <1>2, AfterAnswer DEF Answer, TaskInv, OthersStay, Stays
<1>3. ASSUME NEW s \in {"issue", "writeDept", "findDept", "write"}, Goto(h, s)
      PROVE  OthersStay(h) /\ task'[h].at = s
  BY <1>1, <1>3, AfterGoto DEF Goto, TaskInv, OthersStay, Stays
<1>4. QED
  BY <1>1, <1>2, <1>3

\* A step that does not create keys, delete a department or put anything into one.
DeptsStay == \A a \in Account : users'[a].dept = users[a].dept /\ users'[a].state = users[a].state
Quiet(h) ==
  /\ UNCHANGED <<departments, keys>> /\ DeptsStay
  /\ task'[h].at \notin {"insertKey", "children", "delete"}

LEMMA AuthenticateQuiet ==
  ASSUME NEW h \in Handler, TaskInv, UsersInv, Authenticate(h)
  PROVE  Quiet(h)
<1>1. ASSUME NEW a, NEW row, SetUser(a, row),
             a \in Account => row.state = users[a].state /\ row.dept = users[a].dept
      PROVE  UNCHANGED <<departments, keys>> /\ DeptsStay
  BY <1>1 DEF SetUser, DeptsStay, UsersInv
<1>2. ASSUME IncrementLoginFailCount(h)
      PROVE  UNCHANGED <<departments, keys>> /\ DeptsStay
  <2> DEFINE a == task[h].op.id  row == [users[a] EXCEPT !.fails = @ + 1]
  <2>1. a \in Account => row.state = users[a].state /\ row.dept = users[a].dept
    BY DEF UsersInv, UserFields
  <2>2. SetUser(a, row)
    BY <1>2 DEF IncrementLoginFailCount
  <2> HIDE DEF a, row
  <2>3. QED
    BY <1>1, <2>1, <2>2
<1>3. ASSUME LockAccount(h)
      PROVE  UNCHANGED <<departments, keys>> /\ DeptsStay
  <2> DEFINE a == task[h].op.id
             row == [users[a] EXCEPT !.locked = calculateLockDuration(task[h].row.fails)]
  <2>1. a \in Account => row.state = users[a].state /\ row.dept = users[a].dept
    BY DEF UsersInv, UserFields
  <2>2. SetUser(a, row)
    BY <1>3 DEF LockAccount
  <2> HIDE DEF a, row
  <2>3. QED
    BY <1>1, <2>1, <2>2
<1>4. ASSUME ClearFails(h)
      PROVE  UNCHANGED <<departments, keys>> /\ DeptsStay
  <2> DEFINE a == task[h].op.id  row == ClearLoginFailCount(users[a])
  <2>1. a \in Account => row.state = users[a].state /\ row.dept = users[a].dept
    BY DEF UsersInv, UserFields, ClearLoginFailCount
  <2>2. SetUser(a, row)
    BY <1>4 DEF ClearFails
  <2> HIDE DEF a, row
  <2>3. QED
    BY <1>1, <2>1, <2>2
<1>5. ASSUME WritePassword(h)
      PROVE  UNCHANGED <<departments, keys>> /\ DeptsStay
  <2> DEFINE a == task[h].by.account  row == [users[a] EXCEPT !.password = task[h].op.password]
  <2>1. a \in Account => row.state = users[a].state /\ row.dept = users[a].dept
    BY DEF UsersInv, UserFields
  <2>2. SetUser(a, row)
    BY <1>5 DEF WritePassword
  <2> HIDE DEF a, row
  <2>3. QED
    BY <1>1, <2>1, <2>2
<1>6. UNCHANGED directory => UNCHANGED <<departments, keys>> /\ DeptsStay
  BY DEF directory, DeptsStay
<1>7. Login(h) => UNCHANGED directory
  BY Zenon DEF Login
<1>8. UNCHANGED <<departments, keys>> /\ DeptsStay
  <2>1. IncrementLoginFailCount(h) \/ LockAccount(h) \/ ClearFails(h) \/ WritePassword(h) \/ UNCHANGED directory
    BY <1>7 DEF Authenticate, CheckPassword, handleLoginFailure, GenerateToken,
       Logout, ChangePassword, RevokeOwn, Revoke
  <2>2. QED
    BY <1>2, <1>3, <1>4, <1>5, <1>6, <2>1
<1>9. QED
  BY <1>8, AuthenticatePlace DEF Quiet, LoginSteps

LEMMA ReceiveQuiet ==
  ASSUME NEW h \in Handler, AccountsInv, Receive(h)
  PROVE  Quiet(h)
<1>1. UNCHANGED <<departments, keys>> /\ DeptsStay
  BY DEF Receive, directory, DeptsStay
<1>2. \E op, by : task' = [task EXCEPT ![h] = Begun(op, by)]
  BY DEF Receive, JWTAuth
<1>3. task'[h].at \in {"name", "begin"}
  BY <1>2 DEF AccountsInv, TaskInv, Begun
<1>4. QED
  BY <1>1, <1>3 DEF Quiet

\* What a step of the specification does to tasks, departments and keys.
LEMMA TaskSteps ==
  ASSUME AccountsInv, [Next]_vars
  PROVE  \/ \E h \in Handler : OthersStay(h) /\ (Quiet(h) \/ Manage(h))
         \/ UNCHANGED <<task, departments, keys>> /\ DeptsStay
<1>1. ASSUME NEW h \in Handler, Receive(h)
      PROVE  OthersStay(h) /\ Quiet(h)
  BY <1>1, ReceiveStep, ReceiveQuiet, AloneStay
<1>2. ASSUME NEW h \in Handler, Fault(h)
      PROVE  OthersStay(h) /\ Quiet(h)
  <2>1. UNCHANGED directory
    BY <1>2 DEF Fault, Fail
  <2>2. QED
    BY <1>2, <2>1, FaultPlace DEF Quiet, DeptsStay, directory, AccountsInv
<1>3. ASSUME NEW h \in Handler, Authenticate(h)
      PROVE  OthersStay(h) /\ Quiet(h)
  BY <1>3, AuthenticateTasks, AuthenticateQuiet, AloneStay DEF AccountsInv
<1>4. ASSUME NEW h \in Handler, Administer(h)
      PROVE  OthersStay(h) /\ Manage(h)
  BY <1>4, ManageMoves, MovesStay DEF Administer, AccountsInv
<1>5. CASE Tick
  BY <1>5 DEF Tick, DeptsStay, AccountsInv, UsersInv, UserFields
<1>6. (\E k \in Key : UseKey(k)) \/ UNCHANGED vars => UNCHANGED <<task, departments, keys>> /\ DeptsStay
  BY DEF UseKey, vars, directory, DeptsStay
<1>7. QED
  BY <1>1, <1>2, <1>3, <1>4, <1>5, <1>6 DEF Next

-----------------------------------------------------------------------------
(***************************************************************************)
(* How many keys a user gets: those it has, and those that handlers have   *)
(* found room for.                                                         *)
(***************************************************************************)
Inserting(a) == {i \in Handler : At(i, "insertKey") /\ task[i].by.account = a}

KeysBounded(a) == Cardinality(KeysOf(a)) + Cardinality(Inserting(a)) <= MaxKeys - 1 + Cardinality(Handler)

KeysInv == AccountsInv /\ DOMAIN keys = Key /\ \A a \in Account : KeysBounded(a)

LEMMA KeySets ==
  ASSUME NEW a
  PROVE  /\ IsFiniteSet(KeysOf(a)) /\ IsFiniteSet(Inserting(a))
         /\ Cardinality(KeysOf(a)) \in Nat /\ Cardinality(Inserting(a)) \in Nat /\ Cardinality(Handler) \in Nat
         /\ Cardinality(Inserting(a)) <= Cardinality(Handler)
<1>1. KeysOf(a) \subseteq Key /\ Inserting(a) \subseteq Handler
  BY DEF KeysOf, Inserting
<1>2. IsFiniteSet(KeysOf(a)) /\ IsFiniteSet(Inserting(a))
  BY <1>1, DirectoryAssumption, FS_Subset
<1>3. QED
  BY <1>1, <1>2, DirectoryAssumption, FS_Subset, FS_CardinalityType

LEMMA KeysShrink ==
  ASSUME NEW a, KeysBounded(a), KeysOf(a)' \subseteq KeysOf(a), Inserting(a)' \subseteq Inserting(a)
  PROVE  KeysBounded(a)'
<1>1. /\ Cardinality(KeysOf(a)') <= Cardinality(KeysOf(a)) /\ Cardinality(KeysOf(a)') \in Nat
      /\ Cardinality(Inserting(a)') <= Cardinality(Inserting(a)) /\ Cardinality(Inserting(a)') \in Nat
  <2>1. IsFiniteSet(KeysOf(a)) /\ IsFiniteSet(Inserting(a))
    BY KeySets
  <2>2. QED
    BY <2>1, FS_Subset, FS_CardinalityType
<1>2. QED
  BY <1>1, KeySets, DirectoryAssumption DEF KeysBounded

\* The count was below the limit, and each handler inserts at most one key.
LEMMA KeysCounted ==
  ASSUME NEW a, Cardinality(KeysOf(a)) < MaxKeys, KeysOf(a)' = KeysOf(a)
  PROVE  KeysBounded(a)'
<1>1. Inserting(a)' \subseteq Handler /\ IsFiniteSet(Handler)
  BY DirectoryAssumption DEF Inserting
<1>2. Cardinality(Inserting(a)') <= Cardinality(Handler) /\ Cardinality(Inserting(a)') \in Nat
  BY <1>1, FS_Subset, FS_CardinalityType
<1>3. Cardinality(KeysOf(a)') = Cardinality(KeysOf(a))
  OBVIOUS
<1>4. QED
  BY <1>2, <1>3, KeySets, DirectoryAssumption DEF KeysBounded

LEMMA KeyInserted ==
  ASSUME NEW a, KeysBounded(a), NEW h \in Inserting(a), NEW k,
         Inserting(a)' \subseteq Inserting(a) \ {h}, KeysOf(a)' \subseteq KeysOf(a) \cup {k}
  PROVE  KeysBounded(a)'
<1>1. IsFiniteSet(KeysOf(a)) /\ IsFiniteSet(Inserting(a))
  BY KeySets
<1>2. /\ IsFiniteSet(Inserting(a) \ {h})
      /\ Cardinality(Inserting(a) \ {h}) = Cardinality(Inserting(a)) - 1
  BY <1>1, FS_RemoveElement
<1>3. /\ IsFiniteSet(KeysOf(a) \cup {k})
      /\ Cardinality(KeysOf(a) \cup {k}) <= Cardinality(KeysOf(a)) + 1
  <2>1. Cardinality(KeysOf(a) \cup {k}) \in {Cardinality(KeysOf(a)), Cardinality(KeysOf(a)) + 1}
    BY <1>1, FS_AddElement
  <2>2. QED
    BY <1>1, <2>1, FS_AddElement, KeySets
<1>4. /\ Cardinality(Inserting(a)') <= Cardinality(Inserting(a)) - 1 /\ Cardinality(Inserting(a)') \in Nat
      /\ Cardinality(KeysOf(a)') <= Cardinality(KeysOf(a) \cup {k}) /\ Cardinality(KeysOf(a)') \in Nat
      /\ Cardinality(KeysOf(a) \cup {k}) \in Nat
  BY <1>2, <1>3, FS_Subset, FS_CardinalityType
<1>5. QED
  BY <1>3, <1>4, KeySets, DirectoryAssumption DEF KeysBounded

\* The other handlers insert what they were about to.
LEMMA InsertingOthers ==
  ASSUME NEW h \in Handler, OthersStay(h), NEW a
  PROVE  Inserting(a)' \ {h} \subseteq Inserting(a)
BY DEF OthersStay, Stays, Inserting, At

LEMMA ManageKeys ==
  ASSUME KeysInv, NEW h \in Handler, Manage(h)
  PROVE  /\ DOMAIN keys' = Key
         /\ \A a \in Account : KeysOf(a)' \subseteq KeysOf(a) \/ InsertKey(h)
<1>1. ASSUME NEW f \in {"name", "email"}, HardDeleteSoftDeletedUser(h, f)
      PROVE  DOMAIN keys' = Key /\ \A a \in Account : KeysOf(a)' \subseteq KeysOf(a)
  <2> DEFINE rows == {a \in Account : users[a].state = "deleted" /\ users[a][f] = task[h].op[f]}
  <2>1. keys' = keys \/ keys' = [k \in Key |-> IF keys[k] \in rows THEN Gone ELSE keys[k]]
    BY <1>1 DEF HardDeleteSoftDeletedUser, Purge
  <2> HIDE DEF rows
  <2>2. QED
    BY <2>1, DirectoryAssumption DEF KeysInv, KeysOf
<1>2. CASE DropKey(h)
  BY <1>2, DirectoryAssumption DEF DropKey, KeysInv, KeysOf
<1>3. CASE InsertKey(h)
  BY <1>3 DEF InsertKey, KeysInv
<1>4. CASE UNCHANGED keys
  BY <1>4 DEF KeysInv, KeysOf
<1>5. QED
  BY <1>1, <1>2, <1>3, <1>4 DEF Manage, Exists, ExistsIncludingDeleted, CreateUser, UpdateUser, ExistsEmail,
     DeleteUser, UpdateStatus, ResetPassword, UnlockUser, Find, UpdateFields, FindDept, CreateDepartment,
     InsertDepartment, UpdateDepartment, ExistsName, WriteDepartment, DeleteDepartment, CountByDepartment,
     HasChildren, DropDepartment, CreateKey, DeleteKey, directory

LEMMA KeysStep ==
  ASSUME KeysInv, [Next]_vars
  PROVE  KeysInv'
<1>1. AccountsInv /\ AccountsInv'
  BY AccountsStep DEF KeysInv
<1>2. ASSUME NEW h \in Handler, OthersStay(h), Quiet(h)
      PROVE  KeysInv'
  <2>1. ASSUME NEW a \in Account
        PROVE  KeysOf(a)' \subseteq KeysOf(a) /\ Inserting(a)' \subseteq Inserting(a)
    <3>1. h \notin Inserting(a)'
      BY <1>2 DEF Quiet, Inserting, At
    <3>2. QED
      BY <1>2, <3>1, InsertingOthers DEF Quiet, KeysOf
  <2>2. QED
    BY <1>1, <1>2, <2>1, KeysShrink DEF KeysInv, Quiet
<1>3. ASSUME NEW h \in Handler, OthersStay(h), Manage(h)
      PROVE  KeysInv'
  <2>1. /\ Moves(h) /\ task[h] # Idle
        /\ task'[h] = Idle \/ (Goes(h, task'[h].at) /\ task'[h].by = task[h].by)
    <3>1. Moves(h) /\ task[h] # Idle /\ TaskInv
      BY <1>1, <1>3, ManageMoves DEF AccountsInv
    <3>2. QED
      BY <3>1, MovesStay
  <2>2. ASSUME NEW a \in Account, InsertKey(h)
        PROVE  KeysBounded(a)'
    <3>1. PICK k \in Key : keys' = keys \/ keys' = [keys EXCEPT ![k] = task[h].by.account]
      BY <2>2 DEF InsertKey
    <3>2. At(h, "insertKey") /\ h \notin Inserting(a)'
      BY <1>1, <2>2 DEF InsertKey, Answer, AccountsInv, TaskInv, Idle, Inserting, At
    <3>3. Inserting(a)' \subseteq Inserting(a) \ {h}
      BY <1>3, <3>2, InsertingOthers
    <3>4. KeysBounded(a)
      BY DEF KeysInv
    <3>5. CASE task[h].by.account = a
      <4>1. h \in Inserting(a) /\ KeysOf(a)' \subseteq KeysOf(a) \cup {k}
        BY <3>1, <3>2, <3>5 DEF Inserting, KeysOf, KeysInv
      <4>2. QED
        BY <3>3, <3>4, <4>1, KeyInserted
    <3>6. CASE task[h].by.account # a
      <4>1. KeysOf(a)' \subseteq KeysOf(a)
        BY <3>1, <3>6 DEF KeysOf, KeysInv
      <4>2. QED
        BY <3>3, <3>4, <4>1, KeysShrink
    <3>7. QED
      BY <3>5, <3>6
  <2>3. ASSUME NEW a \in Account, ~InsertKey(h)
        PROVE  KeysBounded(a)'
    <3>1. KeysOf(a)' \subseteq KeysOf(a) /\ KeysBounded(a)
      BY <1>3, <2>3, ManageKeys DEF KeysInv
    <3>2. CASE h \notin Inserting(a)'
      BY <1>3, <3>1, <3>2, InsertingOthers, KeysShrink
    <3>3. CASE h \in Inserting(a)'
      <4>1. task'[h].at = "insertKey" /\ task'[h].by.account = a
        BY <3>3 DEF Inserting, At
      <4>2. CreateKey(h) /\ task[h].by.account = a
        BY <2>1, <4>1 DEF Goes, Idle
      <4>3. ~Answer(h)
        BY <1>1, <4>1 DEF Answer, AccountsInv, TaskInv, Idle
      <4>4. ~(Cardinality(KeysOf(a)) >= MaxKeys) /\ keys' = keys
        BY <4>2, <4>3 DEF CreateKey, directory
      <4>5. Cardinality(KeysOf(a)) < MaxKeys
        BY <4>4, KeySets, DirectoryAssumption
      <4>6. KeysOf(a)' = KeysOf(a)
        BY <4>4 DEF KeysOf
      <4>7. QED
        BY <4>5, <4>6, KeysCounted
    <3>4. QED
      BY <3>2, <3>3
  <2>4. DOMAIN keys' = Key
    BY <1>3, ManageKeys
  <2>5. QED
    BY <1>1, <2>2, <2>3, <2>4 DEF KeysInv
<1>4. CASE UNCHANGED <<task, departments, keys>>
  <2>1. ASSUME NEW a \in Account
        PROVE  KeysBounded(a)'
    <3>1. KeysOf(a)' = KeysOf(a) /\ Inserting(a)' = Inserting(a)
      BY <1>4 DEF KeysOf, Inserting, At
    <3>2. QED
      BY <3>1, KeysShrink DEF KeysInv
  <2>2. QED
    BY <1>1, <1>4, <2>1 DEF KeysInv
<1>5. QED
  BY <1>1, <1>2, <1>3, <1>4, TaskSteps

LEMMA KeysInit == Init => KeysInv
<1> SUFFICES ASSUME Init PROVE KeysInv
  OBVIOUS
<1>1. Cardinality(Handler) \in Nat /\ Cardinality(Handler) # 0
  BY DirectoryAssumption, FS_CardinalityType, FS_EmptySet
<1>2. ASSUME NEW a \in Account
      PROVE  KeysBounded(a)
  <2>1. Inserting(a) = {}
    BY DEF Init, Idle, Inserting, At
  <2>2. Cardinality(Inserting(a)) = 0
    BY <2>1, FS_EmptySet
  <2>3. Cardinality(KeysOf(a)) <= MaxKeys
    BY AccountsAssumption DEF Init, KeysOf
  <2>4. QED
    BY <1>1, <2>2, <2>3, KeySets, DirectoryAssumption DEF KeysBounded
<1>3. QED
  BY <1>2, AccountsInit, AccountsAssumption DEF Init, KeysInv

\* The check before the INSERT of a key (apikey.go:47) lets a user have at most one key more
\* than the limit for each handler but one.
THEOREM OvershootIsBounded == Spec => []KeysOvershootIsBounded
<1>1. KeysInv /\ [Next]_vars => KeysInv'
  BY KeysStep
<1>2. KeysInv => KeysOvershootIsBounded
  BY KeySets, DirectoryAssumption DEF KeysInv, KeysBounded, KeysOvershootIsBounded
<1>3. QED
  BY <1>1, <1>2, KeysInit, PTL DEF Spec

-----------------------------------------------------------------------------
(***************************************************************************)
(* What a deletion leaves behind: all that is in the department when its   *)
(* row goes came after the deletion had counted it.                        *)
(***************************************************************************)
DeptsInv ==
  /\ AccountsInv
  /\ DOMAIN departments = Dept
  /\ \A d \in Dept : DOMAIN departments[d] = DeptFields
  /\ \A i \in Handler, d \in Dept :
       task[i].at \in {"children", "delete"} /\ task[i].op.id = d =>
         /\ Members(d) \subseteq task[i].joined
         /\ At(i, "delete") => Children(d) \subseteq task[i].joined

\* A step puts nothing into a department, or one row, which its deletions are told of.
Shrinks == \A d \in Dept : Members(d)' \subseteq Members(d) /\ Children(d)' \subseteq Children(d)
GrowsBy(h, row, e) ==
  /\ AnswerJoin(h, row, e)
  /\ \A d \in Dept :
       /\ Members(d)' \subseteq Members(d) \cup {row} /\ Children(d)' \subseteq Children(d) \cup {row}
       /\ d # e => Members(d)' \subseteq Members(d) /\ Children(d)' \subseteq Children(d)

\* Rows stay whole, and only DropDepartment removes one.
DeptRows(h) ==
  /\ DOMAIN departments' = Dept
  /\ \A d \in Dept :
       /\ DOMAIN departments'[d] = DeptFields
       /\ Open(d) /\ departments'[d].state = "gone" => DropDepartment(h) /\ task[h].op.id = d

LEMMA SameDepts ==
  ASSUME NEW h, DeptsInv, UNCHANGED departments
  PROVE  DeptRows(h) /\ \A d \in Dept : Children(d)' = Children(d)
BY DEF DeptsInv, DeptRows, Open, Children

LEMMA OneDept ==
  ASSUME NEW h, DeptsInv, NEW e \in Dept, NEW row, DOMAIN row = DeptFields, row.state # "gone",
         departments' = [departments EXCEPT ![e] = row]
  PROVE  /\ DeptRows(h)
         /\ \A d \in Dept : Children(d)' \subseteq Children(d) \cup {e}
         /\ \A d \in Dept : row.parent # d => Children(d)' \subseteq Children(d)
         /\ \A d \in Dept : row.parent = departments[e].parent /\ Open(e) => Children(d)' \subseteq Children(d)
BY DEF DeptsInv, DeptRows, Open, Children

LEMMA OneMember ==
  ASSUME UsersInv, NEW a \in Account, NEW row, users' = [users EXCEPT ![a] = row]
  PROVE  /\ \A d \in Dept : Members(d)' \subseteq Members(d) \cup {a}
         /\ \A d \in Dept : row.dept # d => Members(d)' \subseteq Members(d)
         /\ \A d \in Dept : row.dept = users[a].dept /\ Live(a) => Members(d)' \subseteq Members(d)
BY DEF UsersInv, Live, Members

LEMMA SameMembers == UNCHANGED users => \A d \in Dept : Members(d)' = Members(d)
BY DEF Members, Live

LEMMA CreateUserGrows ==
  ASSUME DeptsInv, NEW h \in Handler, CreateUser(h)
  PROVE  DeptRows(h) /\ (Shrinks \/ \E row, e : GrowsBy(h, row, e))
<1> DEFINE op  == task[h].op
           row == [state |-> "live", name |-> op.name, email |-> op.email, dept |-> op.dept, role |-> op.role,
                   status |-> "enabled", password |-> op.password, fails |-> 0, locked |-> 0]
<1>1. UNCHANGED departments /\ UsersInv
  BY DEF CreateUser, DeptsInv, AccountsInv
<1>2. CASE UNCHANGED users
  BY <1>1, <1>2, SameDepts, SameMembers DEF Shrinks
<1>3. CASE users' # users
  <2>1. PICK a \in Account : users' = [users EXCEPT ![a] = row] /\ AnswerJoin(h, a, op.dept)
    BY <1>3 DEF CreateUser
  <2>2. row.dept = op.dept
    OBVIOUS
  <2> HIDE DEF row
  <2>3. GrowsBy(h, a, op.dept)
    BY <1>1, <2>1, <2>2, SameDepts, OneMember DEF GrowsBy
  <2>4. QED
    BY <1>1, <2>3, SameDepts
<1>4. QED
  BY <1>2, <1>3

LEMMA UpdateFieldsGrows ==
  ASSUME DeptsInv, NEW h \in Handler, UpdateFields(h)
  PROVE  DeptRows(h) /\ (Shrinks \/ \E row, e : GrowsBy(h, row, e))
<1> DEFINE a   == task[h].op.id
           row == Edited(task[h].op, task[h].by, users[a])
<1>1. UNCHANGED departments /\ UsersInv /\ (users' = users \/ (Live(a) /\ users' = [users EXCEPT ![a] = row]))
  BY DEF UpdateFields, DeptsInv, AccountsInv
<1>2. CASE UNCHANGED users
  BY <1>1, <1>2, SameDepts, SameMembers DEF Shrinks
<1>3. CASE a \notin Account /\ users' # users
  <2>1. \A b \in Account : users'[b] = users[b]
    BY <1>1, <1>3 DEF UsersInv
  <2>2. Shrinks
    BY <1>1, <2>1, SameDepts DEF Shrinks, Members, Live
  <2>3. QED
    BY <1>1, <2>2, SameDepts
<1>4. CASE a \in Account /\ users' # users
  <2>1. Live(a) /\ users' = [users EXCEPT ![a] = row] /\ users'[a] = row
    BY <1>1, <1>4 DEF UsersInv
  <2>2. row.dept = users[a].dept \/ AnswerJoin(h, a, row.dept)
    BY <2>1 DEF UpdateFields
  <2> HIDE DEF row, a
  <2>3. CASE row.dept = users[a].dept
    <3>1. Shrinks
      BY <1>1, <1>4, <2>1, <2>3, SameDepts, OneMember DEF Shrinks
    <3>2. QED
      BY <1>1, <3>1, SameDepts
  <2>4. CASE AnswerJoin(h, a, row.dept)
    <3>1. GrowsBy(h, a, row.dept)
      BY <1>1, <1>4, <2>1, <2>4, SameDepts, OneMember DEF GrowsBy
    <3>2. QED
      BY <1>1, <3>1, SameDepts
  <2>5. QED
    BY <2>2, <2>3, <2>4
<1>5. QED
  BY <1>2, <1>3, <1>4

LEMMA InsertDepartmentGrows ==
  ASSUME DeptsInv, NEW h \in Handler, InsertDepartment(h)
  PROVE  DeptRows(h) /\ (Shrinks \/ \E row, e : GrowsBy(h, row, e))
<1> DEFINE op  == task[h].op
           row == [state |-> "live", name |-> op.name, parent |-> op.parent]
<1>1. UNCHANGED users
  BY DEF InsertDepartment
<1>2. CASE UNCHANGED departments
  BY <1>1, <1>2, SameDepts, SameMembers DEF Shrinks
<1>3. CASE departments' # departments
  <2>1. PICK e \in Dept : departments' = [departments EXCEPT ![e] = row] /\ AnswerJoin(h, e, op.parent)
    BY <1>3 DEF InsertDepartment
  <2>2. row.parent = op.parent /\ row.state # "gone" /\ DOMAIN row = DeptFields
    BY DEF DeptFields
  <2> HIDE DEF row
  <2>3. DeptRows(h) /\ GrowsBy(h, e, op.parent)
    BY <1>1, <2>1, <2>2, SameMembers, OneDept DEF GrowsBy
  <2>4. QED
    BY <2>3
<1>4. QED
  BY <1>2, <1>3

LEMMA WriteDepartmentGrows ==
  ASSUME DeptsInv, NEW h \in Handler, WriteDepartment(h)
  PROVE  DeptRows(h) /\ (Shrinks \/ \E row, e : GrowsBy(h, row, e))
<1> DEFINE op  == task[h].op
           d   == op.id
           row == [departments[d] EXCEPT !.name = IF op.name = None THEN @ ELSE op.name,
                                         !.parent = IF op.parent = None THEN @ ELSE op.parent]
<1>1. /\ UNCHANGED users
      /\ departments' = departments \/ (Open(d) /\ departments' = [departments EXCEPT ![d] = row])
  BY DEF WriteDepartment
<1>2. CASE UNCHANGED departments
  BY <1>1, <1>2, SameDepts, SameMembers DEF Shrinks
<1>3. CASE d \notin Dept /\ departments' # departments
  <2>1. DOMAIN departments' = Dept /\ \A e \in Dept : departments'[e] = departments[e]
    BY <1>1, <1>3 DEF DeptsInv
  <2>2. DeptRows(h)
    BY <2>1 DEF DeptsInv, DeptRows, Open
  <2>3. Shrinks
    BY <1>1, <2>1, SameMembers DEF Shrinks, Children, Open
  <2>4. QED
    BY <2>2, <2>3
<1>4. CASE d \in Dept /\ departments' # departments
  <2>1. Open(d) /\ departments' = [departments EXCEPT ![d] = row] /\ departments'[d] = row
    BY <1>1, <1>4 DEF DeptsInv
  <2>2. row.parent = departments[d].parent \/ AnswerJoin(h, d, row.parent)
    BY <2>1 DEF WriteDepartment
  <2>3. DOMAIN row = DeptFields /\ row.state = departments[d].state
    BY <1>4 DEF DeptsInv, DeptFields
  <2>4. row.state # "gone"
    BY <2>1, <2>3 DEF Open
  <2> HIDE DEF row, d
  <2>5. CASE row.parent = departments[d].parent
    BY <1>1, <1>4, <2>1, <2>3, <2>4, <2>5, SameMembers, OneDept DEF Shrinks
  <2>6. CASE AnswerJoin(h, d, row.parent)
    <3>1. DeptRows(h) /\ GrowsBy(h, d, row.parent)
      BY <1>1, <1>4, <2>1, <2>3, <2>4, <2>6, SameMembers, OneDept DEF GrowsBy
    <3>2. QED
      BY <3>1
  <2>7. QED
    BY <2>2, <2>5, <2>6
<1>5. QED
  BY <1>2, <1>3, <1>4

LEMMA DropDepartmentShrinks ==
  ASSUME DeptsInv, NEW h \in Handler, DropDepartment(h)
  PROVE  DeptRows(h) /\ Shrinks
<1> DEFINE d == task[h].op.id
<1>1. /\ users' = [a \in Account |-> IF users[a].dept = d THEN [users[a] EXCEPT !.dept = None] ELSE users[a]]
      /\ departments' = [e \in Dept |->
           IF e = d THEN [departments[e] EXCEPT !.state = "gone", !.parent = None]
           ELSE IF departments[e].parent = d THEN [departments[e] EXCEPT !.parent = None] ELSE departments[e]]
  BY DEF DropDepartment
<1>2. ASSUME NEW a \in Account
      PROVE  users'[a].state = users[a].state /\ users'[a].dept \in {users[a].dept, None}
  BY <1>1 DEF DeptsInv, AccountsInv, UsersInv, UserFields
<1>3. ASSUME NEW e \in Dept
      PROVE  /\ DOMAIN departments'[e] = DeptFields /\ departments'[e].parent \in {departments[e].parent, None}
             /\ departments'[e].state = IF e = d THEN "gone" ELSE departments[e].state
  BY <1>1 DEF DeptsInv, DeptFields
<1>4. Shrinks
  BY <1>2, <1>3, DirectoryAssumption DEF Shrinks, Members, Children, Live, Open
<1>5. DeptRows(h)
  <2>1. DOMAIN departments' = Dept
    BY <1>1
  <2>2. QED
    BY <1>3, <2>1 DEF DeptRows, Open
<1>6. QED
  BY <1>4, <1>5

LEMMA ManageDepts ==
  ASSUME DeptsInv, NEW h \in Handler, Manage(h)
  PROVE  DeptRows(h) /\ (Shrinks \/ \E row, e : GrowsBy(h, row, e))
<1>1. ASSUME NEW f \in {"name", "email"}, HardDeleteSoftDeletedUser(h, f)
      PROVE  DeptRows(h) /\ Shrinks
  <2> DEFINE rows == {a \in Account : users[a].state = "deleted" /\ users[a][f] = task[h].op[f]}
  <2>1. /\ UNCHANGED departments
        /\ \/ users' = users
           \/ users' = [a \in Account |-> IF a \in rows THEN [users[a] EXCEPT !.state = "purged"] ELSE users[a]]
    BY <1>1 DEF HardDeleteSoftDeletedUser, Purge
  <2> HIDE DEF rows
  <2>2. \A d \in Dept : Members(d)' \subseteq Members(d)
    BY <2>1 DEF DeptsInv, AccountsInv, UsersInv, UserFields, Members, Live
  <2>3. QED
    BY <2>1, <2>2, SameDepts DEF Shrinks
<1>2. CASE UNCHANGED <<users, departments>>
  BY <1>2, SameDepts, SameMembers DEF Shrinks
<1>3. \/ \E f \in {"name", "email"} : HardDeleteSoftDeletedUser(h, f)
      \/ CreateUser(h) \/ UpdateFields(h) \/ InsertDepartment(h) \/ WriteDepartment(h) \/ DropDepartment(h)
      \/ UNCHANGED <<users, departments>>
  BY DEF Manage, Exists, ExistsIncludingDeleted, UpdateUser, ExistsEmail, DeleteUser, UpdateStatus,
     ResetPassword, UnlockUser, Find, FindDept, CreateDepartment, UpdateDepartment, ExistsName,
     DeleteDepartment, CountByDepartment, HasChildren, CreateKey, InsertKey, DeleteKey, DropKey, directory
<1>4. QED
  BY <1>1, <1>2, <1>3, CreateUserGrows, UpdateFieldsGrows, InsertDepartmentGrows, WriteDepartmentGrows,
     DropDepartmentShrinks

\* The handlers that are past their counts keep up with what the step adds.
LEMMA OthersKeepUp ==
  ASSUME DeptsInv, NEW h \in Handler, OthersStay(h), Shrinks \/ \E row, e : GrowsBy(h, row, e),
         NEW i \in Handler \ {h}, NEW d \in Dept, task'[i].at \in {"children", "delete"}, task'[i].op.id = d
  PROVE  /\ Members(d)' \subseteq task'[i].joined
         /\ At(i, "delete")' => Children(d)' \subseteq task'[i].joined
<1>1. /\ task'[i].at = task[i].at /\ task'[i].op = task[i].op /\ task[i].joined \subseteq task'[i].joined
      /\ Deleting(i, d)
  BY DEF OthersStay, Stays, Deleting, At
<1>2. /\ Members(d) \subseteq task'[i].joined
      /\ At(i, "delete")' => Children(d) \subseteq task'[i].joined
  BY <1>1 DEF DeptsInv, At
<1>3. CASE Shrinks
  BY <1>2, <1>3 DEF Shrinks
<1>4. ASSUME NEW row, NEW e, GrowsBy(h, row, e)
      PROVE  /\ Members(d)' \subseteq task'[i].joined
             /\ At(i, "delete")' => Children(d)' \subseteq task'[i].joined
  <2>1. CASE d # e
    BY <1>2, <1>4, <2>1 DEF GrowsBy
  <2>2. CASE d = e
    <3>1. row \in task'[i].joined
      BY <1>1, <1>4, <2>2, JoinStay DEF GrowsBy, DeptsInv, AccountsInv
    <3>2. QED
      BY <1>2, <1>4, <3>1 DEF GrowsBy
  <2>3. QED
    BY <2>1, <2>2
<1>5. QED
  BY <1>3, <1>4

\* The handler itself has just counted none.
LEMMA CountsNone ==
  ASSUME DeptsInv, NEW h \in Handler, Manage(h),
         NEW d \in Dept, task'[h].at \in {"children", "delete"}, task'[h].op.id = d
  PROVE  /\ Members(d)' \subseteq task'[h].joined
         /\ At(h, "delete")' => Children(d)' \subseteq task'[h].joined
<1>1. AccountsInv /\ TaskInv
  BY DEF DeptsInv, AccountsInv
<1>2. Moves(h) /\ task[h] # Idle
  BY <1>1, ManageMoves
<1>3. task'[h] # Idle /\ ~Answer(h)
  BY <1>1 DEF Answer, TaskInv, Idle
<1>4. Goes(h, task'[h].at) /\ task'[h].op = task[h].op /\ task'[h].joined = task[h].joined
  BY <1>1, <1>2, <1>3, MovesStay
<1>5. CASE task'[h].at = "children"
  <2>1. Members(task[h].op.id) = {} /\ UNCHANGED users
    BY <1>3, <1>4, <1>5 DEF Goes, CountByDepartment, directory
  <2>2. Members(d)' = {}
    BY <1>4, <2>1, SameMembers
  <2>3. QED
    BY <1>5, <2>2 DEF At
<1>6. CASE task'[h].at = "delete"
  <2>1. /\ At(h, "children") /\ Children(task[h].op.id) = {}
        /\ UNCHANGED <<users, departments>>
    BY <1>3, <1>4, <1>6 DEF Goes, HasChildren, directory
  <2>2. Members(d) \subseteq task[h].joined
    BY <1>4, <2>1 DEF DeptsInv, At
  <2>3. Members(d)' = Members(d) /\ Children(d)' = {}
    BY <1>4, <2>1, SameMembers DEF Children, Open
  <2>4. QED
    BY <1>4, <2>2, <2>3
<1>7. QED
  BY <1>5, <1>6

LEMMA DeptsStep ==
  ASSUME DeptsInv, [Next]_vars
  PROVE  /\ DeptsInv'
         /\ \A d \in Dept : Open(d) /\ departments'[d].state = "gone" =>
              \E h \in Handler : DropDepartment(h) /\ task[h].op.id = d
<1>1. AccountsInv /\ AccountsInv'
  BY AccountsStep DEF DeptsInv
<1>2. UNCHANGED departments /\ DeptsStay => \A d \in Dept : Members(d)' = Members(d) /\ Children(d)' = Children(d)
  BY DEF DeptsStay, Members, Children, Live, Open
<1>3. ASSUME NEW h \in Handler, OthersStay(h), Quiet(h)
      PROVE  DeptsInv' /\ DeptRows(h)
  <2>1. DeptRows(h) /\ Shrinks
    BY <1>2, <1>3, SameDepts DEF Quiet, Shrinks
  <2>2. task'[h].at \notin {"children", "delete"}
    BY <1>3 DEF Quiet
  <2>3. QED
    BY <1>1, <1>3, <2>1, <2>2, OthersKeepUp DEF DeptsInv, DeptRows
<1>4. ASSUME NEW h \in Handler, OthersStay(h), Manage(h)
      PROVE  DeptsInv' /\ DeptRows(h)
  <2>1. DeptRows(h) /\ (Shrinks \/ \E row, e : GrowsBy(h, row, e))
    BY <1>4, ManageDepts
  <2>2. ASSUME NEW i \in Handler, NEW d \in Dept, task'[i].at \in {"children", "delete"}, task'[i].op.id = d
        PROVE  /\ Members(d)' \subseteq task'[i].joined
               /\ At(i, "delete")' => Children(d)' \subseteq task'[i].joined
    BY <1>4, <2>1, <2>2, OthersKeepUp, CountsNone
  <2>3. QED
    BY <1>1, <2>1, <2>2 DEF DeptsInv, DeptRows
<1>5. CASE UNCHANGED <<task, departments, keys>> /\ DeptsStay
  <2>1. DeptsInv'
    BY <1>1, <1>2, <1>5 DEF DeptsInv, At
  <2>2. QED
    BY <1>5, <2>1 DEF Open
<1>6. QED
  BY <1>1, <1>3, <1>4, <1>5, TaskSteps DEF DeptRows

LEMMA DeptsInit == Init => DeptsInv
<1> SUFFICES ASSUME Init PROVE DeptsInv
  OBVIOUS
<1>1. \A i \in Handler : task[i].at = "idle"
  BY DEF Init, Idle
<1>2. QED
  BY <1>1, AccountsInit, AccountsAssumption DEF Init, DeptsInv

\* A deleted department leaves behind only what came to it after its deletion had counted
\* (department.go:158).
THEOREM RacersOnly == Spec => OnlyRacersAreOrphaned
<1> DEFINE Orphans ==
      \A d \in Dept : Open(d) /\ departments'[d].state = "gone" =>
        \E h \in Handler : /\ Deleting(h, d)
                           /\ Members(d) \cup Children(d) \subseteq task[h].joined
<1>1. DeptsInv /\ [Next]_vars => DeptsInv'
  BY DeptsStep
<1>2. DeptsInv /\ [Next]_vars => [Orphans]_vars
  <2> SUFFICES ASSUME DeptsInv, [Next]_vars, NEW d \in Dept, Open(d), departments'[d].state = "gone"
               PROVE  \E h \in Handler : /\ Deleting(h, d)
                                         /\ Members(d) \cup Children(d) \subseteq task[h].joined
    OBVIOUS
  <2>1. PICK h \in Handler : DropDepartment(h) /\ task[h].op.id = d
    BY DeptsStep
  <2>2. At(h, "delete") /\ Deleting(h, d)
    BY <2>1 DEF DropDepartment, Deleting
  <2>3. Members(d) \cup Children(d) \subseteq task[h].joined
    BY <2>1, <2>2 DEF DeptsInv, At
  <2>4. QED
    BY <2>2, <2>3
<1>3. QED
  BY <1>1, <1>2, DeptsInit, PTL DEF Spec, OnlyRacersAreOrphaned

-----------------------------------------------------------------------------
(***************************************************************************)
(* The cached API keys.                                                    *)
(***************************************************************************)
\* The histories know what the rows say now.
HistoryIsCurrent ==
  /\ Valid => notValid = 0
  /\ ~Valid => notInvalid = 0

\* What a request read and has not used yet is as old as its stall, at most.
LoadedIsFresh ==
  \A r \in Request : pc[r] = "loaded" =>
    /\ info[r] \in Info
    /\ Allows(info[r]) => notValid <= stall[r]
    /\ ~Allows(info[r]) => notInvalid <= stall[r]

\* What is cached is as old as the stall of its writer and the time it has been cached.
EntryIsFresh ==
  entry # NoEntry =>
    /\ Allows(entry) => notValid <= Staleness - ttl
    /\ ~Allows(entry) => notInvalid <= Staleness - ttl

FreshInv == TypeOK /\ HistoryIsCurrent /\ LoadedIsFresh /\ EntryIsFresh

-----------------------------------------------------------------------------
\* The invariant holds at the start: nothing is cached, nothing was read.
LEMMA FreshInit == CacheInit => FreshInv
<1>. SUFFICES ASSUME CacheInit PROVE FreshInv
  OBVIOUS
<1>1. Staleness \in Nat /\ 0 \in 0..Staleness /\ Staleness \in 0..Staleness
  BY KeyCacheAssumption DEF Staleness
<1>2. TypeOK
  <2>1. notValid \in 0..Staleness /\ notInvalid \in 0..Staleness
    BY <1>1 DEF CacheInit
  <2>2. ttl \in 0..CacheTTL /\ stall \in [Request -> 0..MaxStall]
    BY KeyCacheAssumption DEF CacheInit
  <2>3. entry = NoEntry /\ ttl = 0
    BY DEF CacheInit
  <2>. QED  BY <2>1, <2>2, <2>3 DEF CacheInit, TypeOK, Status
<1>3. HistoryIsCurrent
  BY DEF CacheInit, HistoryIsCurrent, Valid
<1>4. LoadedIsFresh /\ EntryIsFresh
  BY DEF CacheInit, LoadedIsFresh, EntryIsFresh
<1>. QED  BY <1>2, <1>3, <1>4 DEF FreshInv

\* Types are preserved by every step.
LEMMA KeyTypeStep ==
  ASSUME FreshInv, [CacheNext]_cacheVars
  PROVE  TypeOK'
<1>. USE KeyCacheAssumption DEF FreshInv, TypeOK, rowVars, reqVars, admVars, historyVars
<1>1. ASSUME NEW r \in Request, CacheHit(r) PROVE TypeOK'
  BY <1>1 DEF CacheHit, Decide
<1>2. ASSUME NEW r \in Request, CacheMiss(r) PROVE TypeOK'
  BY <1>2 DEF CacheMiss
<1>3. ASSUME NEW r \in Request, Query(r) PROVE TypeOK'
  <2>1. RowInfo \in Info
    BY DEF RowInfo, Info, Status
  <2>. QED  BY <1>3, <2>1 DEF Query
<1>4. ASSUME NEW r \in Request, QueryFails(r) PROVE TypeOK'
  BY <1>4 DEF QueryFails
<1>5. ASSUME NEW r \in Request, NEW lost \in BOOLEAN, CacheSet(r, lost) PROVE TypeOK'
  <2>1. info[r] \in Info /\ info[r] # NoEntry
    BY <1>5 DEF CacheSet, LoadedIsFresh, Info, NoEntry
  <2>. QED  BY <1>5, <2>1 DEF CacheSet, Decide
<1>6. ASSUME NEW r \in Request, Leave(r) PROVE TypeOK'
  BY <1>6 DEF Leave
<1>7. ASSUME NEW a \in Admin, NEW s \in Status, FindKey(a, s) PROVE TypeOK'
  BY <1>7 DEF FindKey
<1>8. ASSUME NEW a \in Admin, WriteKey(a) PROVE TypeOK'
  BY <1>8 DEF WriteKey, Remember, Staleness
<1>9. ASSUME NEW a \in Admin, WriteKeyFails(a) PROVE TypeOK'
  BY <1>9 DEF WriteKeyFails, Status
<1>10. ASSUME NEW a \in Admin, NEW lost \in BOOLEAN, InvalidateKeyCache(a, lost)
       PROVE  TypeOK'
  BY <1>10 DEF InvalidateKeyCache, Status
<1>11. ASSUME NEW s \in Status, ChangeUser(s) PROVE TypeOK'
  BY <1>11 DEF ChangeUser, Remember, Staleness
<1>12. CASE CacheTick
  <2>1. Staleness \in Nat
    BY DEF Staleness
  <2>2. Aged(notValid) \in 0..Staleness /\ Aged(notInvalid) \in 0..Staleness
    BY <2>1 DEF Aged
  <2>3. notValid' \in 0..Staleness /\ notInvalid' \in 0..Staleness
    BY <1>12, <2>1, <2>2 DEF CacheTick
  <2>4. /\ ttl' \in 0..CacheTTL
        /\ entry' \in Info \cup {NoEntry}
        /\ (entry' = NoEntry) <=> (ttl' = 0)
    BY <1>12 DEF CacheTick
  <2>5. stall' \in [Request -> 0..MaxStall]
    BY <1>12 DEF CacheTick
  <2>. QED  BY <1>12, <2>3, <2>4, <2>5 DEF CacheTick
<1>13. CASE UNCHANGED cacheVars
  BY <1>13 DEF cacheVars
<1>. QED
  BY <1>1, <1>2, <1>3, <1>4, <1>5, <1>6, <1>7, <1>8, <1>9, <1>10, <1>11, <1>12, <1>13
  DEF CacheNext, AuthenticateKey, ManageKey

\* The histories follow every change of the rows.
LEMMA HistoryStep ==
  ASSUME FreshInv, [CacheNext]_cacheVars
  PROVE  HistoryIsCurrent'
<1>. USE DEF FreshInv, HistoryIsCurrent, rowVars, historyVars
<1>1. CASE UNCHANGED <<rowVars, historyVars>>
  BY <1>1 DEF Valid
<1>2. CASE Remember
  BY <1>2 DEF Remember
<1>3. CASE CacheTick
  BY <1>3 DEF CacheTick
<1>4. UNCHANGED <<rowVars, historyVars>> \/ Remember \/ CacheTick
  BY DEF CacheNext, AuthenticateKey, ManageKey, CacheHit, CacheMiss, Query, QueryFails, CacheSet, Leave,
     FindKey, WriteKey, WriteKeyFails, InvalidateKeyCache, ChangeUser, cacheVars
<1>. QED  BY <1>1, <1>2, <1>3, <1>4

\* While no time passes, the histories stay or restart from 0.
LEMMA HistoryShrinks ==
  ASSUME FreshInv, UNCHANGED historyVars \/ Remember
  PROVE  notValid' <= notValid /\ notInvalid' <= notInvalid
BY KeyCacheAssumption DEF FreshInv, TypeOK, historyVars, Remember, Staleness

\* A request's own read stays fresh.
LEMMA LoadedStep ==
  ASSUME FreshInv, TypeOK', [CacheNext]_cacheVars
  PROVE  LoadedIsFresh'
<1>. SUFFICES ASSUME NEW q \in Request, pc'[q] = "loaded"
              PROVE  /\ info'[q] \in Info
                     /\ Allows(info'[q]) => notValid' <= stall'[q]
                     /\ ~Allows(info'[q]) => notInvalid' <= stall'[q]
  BY DEF LoadedIsFresh, Allows
<1>. USE KeyCacheAssumption DEF FreshInv, TypeOK, LoadedIsFresh
<1>1. CASE /\ pc[q] = "loaded" /\ info'[q] = info[q] /\ stall'[q] = stall[q]
           /\ UNCHANGED historyVars \/ Remember
  <2>1. notValid' <= notValid /\ notInvalid' <= notInvalid
    BY <1>1, HistoryShrinks
  <2>2. /\ info[q] \in Info
        /\ Allows(info[q]) => notValid <= stall[q]
        /\ ~Allows(info[q]) => notInvalid <= stall[q]
    BY <1>1
  <2>. QED  BY <1>1, <2>1, <2>2 DEF Staleness
<1>2. ASSUME NEW r \in Request,
             CacheHit(r) \/ CacheMiss(r) \/ QueryFails(r) \/ Leave(r)
             \/ \E lost \in BOOLEAN : CacheSet(r, lost)
      PROVE  /\ pc[q] = "loaded" /\ info'[q] = info[q] /\ stall'[q] = stall[q]
             /\ UNCHANGED historyVars \/ Remember
  BY <1>2 DEF CacheHit, CacheMiss, QueryFails, Leave, CacheSet, Decide, historyVars
<1>3. ASSUME NEW r \in Request, Query(r)
      PROVE  /\ info'[q] \in Info
             /\ Allows(info'[q]) => notValid' <= stall'[q]
             /\ ~Allows(info'[q]) => notInvalid' <= stall'[q]
  <2>1. CASE r = q
    <3>1. /\ info'[q] = RowInfo /\ stall' = stall /\ UNCHANGED historyVars
          /\ ~(expired /\ key # "gone" /\ user # "gone")
      BY <1>3, <2>1 DEF Query
    <3>2. RowInfo \in Info /\ (Allows(RowInfo) <=> Valid)
      BY <3>1 DEF RowInfo, Info, Status, Allows, Valid
    <3>3. stall[q] \in Nat
      OBVIOUS
    <3>. QED  BY <3>1, <3>2, <3>3 DEF HistoryIsCurrent, historyVars
  <2>2. CASE r # q
    BY <1>1, <1>3, <2>2 DEF Query, historyVars
  <2>. QED  BY <2>1, <2>2
<1>4. ASSUME NEW a \in Admin, ManageKey(a)
      PROVE  /\ pc[q] = "loaded" /\ info'[q] = info[q] /\ stall'[q] = stall[q]
             /\ UNCHANGED historyVars \/ Remember
  BY <1>4 DEF ManageKey, FindKey, WriteKey, WriteKeyFails, InvalidateKeyCache, reqVars, historyVars
<1>5. ASSUME NEW s \in Status, ChangeUser(s)
      PROVE  /\ pc[q] = "loaded" /\ info'[q] = info[q] /\ stall'[q] = stall[q]
             /\ UNCHANGED historyVars \/ Remember
  BY <1>5 DEF ChangeUser, reqVars
<1>6. CASE CacheTick
  <2>1. pc[q] = "loaded" /\ info'[q] = info[q] /\ stall'[q] = stall[q] + 1
    BY <1>6 DEF CacheTick
  <2>2. notValid' <= notValid + 1 /\ notInvalid' <= notInvalid + 1
    BY <1>6 DEF CacheTick, Aged, Staleness
  <2>3. /\ info[q] \in Info
        /\ Allows(info[q]) => notValid <= stall[q]
        /\ ~Allows(info[q]) => notInvalid <= stall[q]
    BY <2>1
  <2>. QED  BY <2>1, <2>2, <2>3 DEF Staleness
<1>7. CASE UNCHANGED cacheVars
  BY <1>1, <1>7 DEF cacheVars, reqVars, historyVars
<1>. QED
  BY <1>1, <1>2, <1>3, <1>4, <1>5, <1>6, <1>7 DEF CacheNext, AuthenticateKey

\* An entry is as fresh as the read it was written from, and its age is in its TTL.
LEMMA EntryStep ==
  ASSUME FreshInv, TypeOK', [CacheNext]_cacheVars
  PROVE  EntryIsFresh'
<1>. SUFFICES ASSUME entry' # NoEntry
              PROVE  /\ Allows(entry') => notValid' <= Staleness - ttl'
                     /\ ~Allows(entry') => notInvalid' <= Staleness - ttl'
  BY DEF EntryIsFresh, Allows, NoEntry
<1>. USE KeyCacheAssumption DEF FreshInv, TypeOK, EntryIsFresh
<1>1. CASE UNCHANGED <<entry, ttl>> /\ (UNCHANGED historyVars \/ Remember)
  <2>1. notValid' <= notValid /\ notInvalid' <= notInvalid
    BY <1>1, HistoryShrinks
  <2>2. notValid' \in Nat /\ notInvalid' \in Nat /\ Staleness \in Nat
    BY DEF Staleness
  <2>3. entry' = entry /\ ttl' = ttl /\ ttl \in Nat /\ entry # NoEntry
    BY <1>1
  <2>4. /\ Allows(entry) => notValid <= Staleness - ttl
        /\ ~Allows(entry) => notInvalid <= Staleness - ttl
    BY <2>3
  <2>5. Allows(entry') <=> Allows(entry)
    BY <2>3
  <2>6. notValid \in Nat /\ notInvalid \in Nat
    BY DEF Staleness
  <2>. QED  BY <2>1, <2>2, <2>3, <2>4, <2>5, <2>6
<1>2. ASSUME NEW r \in Request,
             CacheHit(r) \/ CacheMiss(r) \/ Query(r) \/ QueryFails(r) \/ Leave(r)
      PROVE  UNCHANGED <<entry, ttl>> /\ UNCHANGED historyVars
  BY <1>2 DEF CacheHit, CacheMiss, Query, QueryFails, Leave, historyVars
<1>3. ASSUME NEW r \in Request, NEW lost \in BOOLEAN, CacheSet(r, lost)
      PROVE  /\ Allows(entry') => notValid' <= Staleness - ttl'
             /\ ~Allows(entry') => notInvalid' <= Staleness - ttl'
  <2>1. CASE lost
    BY <1>1, <1>3, <2>1 DEF CacheSet, historyVars
  <2>2. CASE ~lost
    <3>1. entry' = info[r] /\ ttl' = CacheTTL /\ UNCHANGED historyVars
      BY <1>3, <2>2 DEF CacheSet
    <3>2. /\ Allows(info[r]) => notValid <= stall[r]
          /\ ~Allows(info[r]) => notInvalid <= stall[r]
      BY <1>3 DEF CacheSet, LoadedIsFresh
    <3>3. stall[r] \in Nat /\ stall[r] <= MaxStall
      OBVIOUS
    <3>. QED  BY <3>1, <3>2, <3>3 DEF Staleness, historyVars
  <2>. QED  BY <2>1, <2>2
<1>4. ASSUME NEW a \in Admin, ManageKey(a)
      PROVE  UNCHANGED <<entry, ttl>> /\ (UNCHANGED historyVars \/ Remember)
  BY <1>4 DEF ManageKey, FindKey, WriteKey, WriteKeyFails, InvalidateKeyCache, historyVars
<1>5. ASSUME NEW s \in Status, ChangeUser(s)
      PROVE  UNCHANGED <<entry, ttl>> /\ (UNCHANGED historyVars \/ Remember)
  BY <1>5 DEF ChangeUser
<1>6. CASE CacheTick
  <2>1. entry' = entry /\ ttl > 0 /\ ttl' = ttl - 1
    BY <1>6 DEF CacheTick
  <2>2. notValid' <= notValid + 1 /\ notInvalid' <= notInvalid + 1
    BY <1>6 DEF CacheTick, Aged, Staleness
  <2>3. /\ Allows(entry) => notValid <= Staleness - ttl
        /\ ~Allows(entry) => notInvalid <= Staleness - ttl
    BY <2>1
  <2>4. notValid \in Nat /\ notInvalid \in Nat /\ ttl \in Nat /\ Staleness \in Nat
        /\ notValid' \in Nat /\ notInvalid' \in Nat
    BY DEF Staleness
  <2>5. Allows(entry') <=> Allows(entry)
    BY <2>1
  <2>. QED  BY <2>1, <2>2, <2>3, <2>4, <2>5
<1>7. CASE UNCHANGED cacheVars
  BY <1>1, <1>7 DEF cacheVars, historyVars
<1>. QED
  BY <1>1, <1>2, <1>3, <1>4, <1>5, <1>6, <1>7 DEF CacheNext, AuthenticateKey

-----------------------------------------------------------------------------
\* The inductive invariant of the key cache.
THEOREM KeyCacheInvariant == CacheSpec => []FreshInv
<1>1. CacheInit => FreshInv
  BY FreshInit
<1>2. FreshInv /\ [CacheNext]_cacheVars => FreshInv'
  BY KeyTypeStep, HistoryStep, LoadedStep, EntryStep DEF FreshInv
<1>. QED  BY <1>1, <1>2, PTL DEF CacheSpec

\* Rows, entry, requests and administrators keep their types.
THEOREM KeyCacheTypes == CacheSpec => []TypeOK
<1>1. FreshInv => TypeOK
  BY DEF FreshInv
<1>. QED  BY <1>1, KeyCacheInvariant, PTL

\* A decision is taken on a hit, after a SET, or by the query that finds the key expired.
LEMMA DecisionIsFresh ==
  ASSUME FreshInv, [CacheNext]_cacheVars, NEW r \in Request
  PROVE  /\ pc[r] # "admitted" /\ pc'[r] = "admitted" => notValid < Staleness
         /\ pc[r] # "refused" /\ pc'[r] = "refused" => notInvalid < Staleness
<1>. USE KeyCacheAssumption DEF FreshInv, TypeOK
<1>1. ASSUME NEW q \in Request, CacheHit(q)
      PROVE  /\ pc[r] # "admitted" /\ pc'[r] = "admitted" => notValid < Staleness
             /\ pc[r] # "refused" /\ pc'[r] = "refused" => notInvalid < Staleness
  <2>1. entry # NoEntry /\ ttl > 0 /\ Staleness \in Nat
    BY <1>1 DEF CacheHit, Staleness
  <2>2. /\ Allows(entry) => notValid < Staleness
        /\ ~Allows(entry) => notInvalid < Staleness
    BY <2>1 DEF EntryIsFresh
  <2>3. /\ pc[r] # "admitted" /\ pc'[r] = "admitted" => Allows(entry)
        /\ pc[r] # "refused" /\ pc'[r] = "refused" => ~Allows(entry)
    BY <1>1 DEF CacheHit, Decide
  <2>. QED  BY <2>2, <2>3
<1>2. ASSUME NEW q \in Request, NEW lost \in BOOLEAN, CacheSet(q, lost)
      PROVE  /\ pc[r] # "admitted" /\ pc'[r] = "admitted" => notValid < Staleness
             /\ pc[r] # "refused" /\ pc'[r] = "refused" => notInvalid < Staleness
  <2>1. /\ Allows(info[q]) => notValid <= stall[q]
        /\ ~Allows(info[q]) => notInvalid <= stall[q]
    BY <1>2 DEF CacheSet, LoadedIsFresh
  <2>2. /\ stall[q] \in Nat /\ stall[q] < Staleness
        /\ Staleness \in Nat /\ notValid \in Nat /\ notInvalid \in Nat
    BY DEF Staleness
  <2>3. /\ pc[r] # "admitted" /\ pc'[r] = "admitted" => Allows(info[q])
        /\ pc[r] # "refused" /\ pc'[r] = "refused" => ~Allows(info[q])
    BY <1>2 DEF CacheSet, Decide
  <2>. QED  BY <2>1, <2>2, <2>3
<1>3. ASSUME NEW q \in Request, Query(q)
      PROVE  /\ pc[r] # "admitted" /\ pc'[r] = "admitted" => notValid < Staleness
             /\ pc[r] # "refused" /\ pc'[r] = "refused" => notInvalid < Staleness
  <2>1. ~(pc[r] # "admitted" /\ pc'[r] = "admitted")
    BY <1>3 DEF Query
  <2>2. pc[r] # "refused" /\ pc'[r] = "refused" => ~Valid
    BY <1>3 DEF Query, Valid
  <2>3. Staleness > 0
    BY DEF Staleness
  <2>. QED  BY <2>1, <2>2, <2>3 DEF HistoryIsCurrent
<1>4. ASSUME NEW q \in Request, CacheMiss(q) \/ QueryFails(q) \/ Leave(q)
      PROVE  /\ ~(pc[r] # "admitted" /\ pc'[r] = "admitted")
             /\ ~(pc[r] # "refused" /\ pc'[r] = "refused")
  BY <1>4 DEF CacheMiss, QueryFails, Leave
<1>5. CASE pc' = pc
  BY <1>5
<1>6. (\E a \in Admin : ManageKey(a)) \/ (\E s \in Status : ChangeUser(s)) \/ CacheTick
      \/ UNCHANGED cacheVars => pc' = pc
  BY DEF ManageKey, FindKey, WriteKey, WriteKeyFails, InvalidateKeyCache, ChangeUser, CacheTick,
     reqVars, cacheVars
<1>. QED
  BY <1>1, <1>2, <1>3, <1>4, <1>5, <1>6 DEF CacheNext, AuthenticateKey

\* Nobody is admitted on rows that last allowed the key Staleness ticks ago or earlier.
THEOREM KeyRevocation == CacheSpec => RevocationIsTimely
<1>1. FreshInv /\ [CacheNext]_cacheVars =>
        [\A r \in Request :
           pc[r] # "admitted" /\ pc'[r] = "admitted" => notValid < Staleness]_cacheVars
  BY DecisionIsFresh
<1>. QED  BY <1>1, KeyCacheInvariant, PTL DEF CacheSpec, RevocationIsTimely

\* Nobody is refused on rows that last refused the key Staleness ticks ago or earlier.
THEOREM KeyRestoration == CacheSpec => RestorationIsTimely
<1>1. FreshInv /\ [CacheNext]_cacheVars =>
        [\A r \in Request :
           pc[r] # "refused" /\ pc'[r] = "refused" => notInvalid < Staleness]_cacheVars
  BY DecisionIsFresh
<1>. QED  BY <1>1, KeyCacheInvariant, PTL DEF CacheSpec, RestorationIsTimely
=============================================================================
