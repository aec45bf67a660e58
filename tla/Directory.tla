------------------------------ MODULE Directory ------------------------------
(***************************************************************************)
(* Users, departments and api keys as the console changes them             *)
(* (internal/service/user.go, department.go and apikey.go with their       *)
(* repositories).  A handler sends its statements one by one, without a    *)
(* transaction: between any two, another handler's statements take effect. *)
(* Only the constraints of the tables hold at every statement.             *)
(***************************************************************************)
EXTENDS Integers, FiniteSets

CONSTANTS Handler,
          Account,      \* ids of users; each is given once
          Dept,         \* ids of departments
          Key,          \* ids of api keys
          None,         \* NULL, nil
          Gone,         \* marks an id whose row has been deleted
          MaxKeys       \* cfg.System.MaxKeysPerUser

ASSUME DirectoryAssumption ==
  /\ MaxKeys \in Nat \ {0}
  /\ IsFiniteSet(Handler) /\ Handler # {} /\ IsFiniteSet(Key)
  /\ {None, Gone} \cap Account = {} /\ None \notin Dept

VARIABLES
  users,       \* rows by id: state "unborn", "live", "deleted" (soft) or "purged"
  departments, \* rows by id: state "unborn", "live" or "gone"
  keys,        \* the owner of each key, None before its creation, Gone afterwards
  recorded,    \* users that token_usage refers to
  task         \* each handler's operation, its claims, and the step it is at

directory == <<users, departments, keys, recorded>>

\* The columns of users, and of departments, that matter here.
UserFields == {"state", "name", "email", "dept", "role", "status", "password", "fails", "locked"}
DeptFields == {"state", "name", "parent"}

Idle == [at |-> "idle"]

Live(a)   == users[a].state = "live"
Stored(a) == users[a].state \in {"live", "deleted"}
Open(d)   == departments[d].state = "live"

KeysOf(a) == {k \in Key : keys[k] = a}

At(h, step)   == task[h].at = step
Goto(h, step) == task' = [task EXCEPT ![h].at = step]
Answer(h)     == task' = [task EXCEPT ![h] = Idle]

\* The row that the operation read, and what came to the department it deletes, are noted.
Begun(op, by) ==
  [at |-> IF op.kind = "CreateUser" THEN "name" ELSE "begin",
   op |-> op, by |-> by, row |-> None, joined |-> {}]

\* Department d is past the count of what belongs to it.
Deleting(i, d) == (At(i, "children") \/ At(i, "delete")) /\ task[i].op.id = d

\* Answer of an operation that has put a row under department d.
AnswerJoin(h, row, d) ==
  task' = [i \in Handler |->
    IF i = h THEN Idle
    ELSE IF Deleting(i, d) THEN [task[i] EXCEPT !.joined = @ \cup {row}] ELSE task[i]]

-----------------------------------------------------------------------------
(***************************************************************************)
(* Users.  A department manager acts on the users of the department that   *)
(* the token names.                                                        *)
(***************************************************************************)
InScope(by, row) == by.role = "dept_manager" => by.dept # None /\ row.dept = by.dept

\* The unique indexes and the foreign key of users.
Allowed(a, row) ==
  /\ row.dept = None \/ Open(row.dept)
  /\ \A b \in Account \ {a} : Stored(b) =>
       /\ users[b].name # row.name
       /\ row.email = None \/ users[b].email # row.email

\* The steps of a creation for its name or email (f).
Deleted(f) == IF f = "name" THEN "deletedName" ELSE "deletedEmail"
Purging(f) == IF f = "name" THEN "purgeName" ELSE "purgeEmail"

\* ExistsUsername and ExistsEmail see live rows only, the variants IncludingDeleted all.
\* A name or an email (f) in use ends the creation.
Exists(h, f) ==
  /\ At(h, f) /\ task[h].op.kind = "CreateUser"
  /\ IF \E a \in Account : Live(a) /\ users[a][f] = task[h].op[f]
       THEN Answer(h) ELSE Goto(h, Deleted(f))
  /\ UNCHANGED directory

\* What follows the name is the email, if there is one, then the scope and the department.
AfterUnique(h, f) ==
  LET op == task[h].op by == task[h].by IN
  IF f = "name" /\ op.email # None THEN Goto(h, "email")
  ELSE IF by.role = "dept_manager" /\ (op.dept = None \/ by.dept \notin {None, op.dept} \/ op.role # "user")
         THEN Answer(h)
         ELSE Goto(h, IF op.dept = None THEN "insert" ELSE "findDept")

ExistsIncludingDeleted(h, f) ==
  /\ At(h, Deleted(f))
  /\ IF \E a \in Account : Stored(a) /\ users[a][f] = task[h].op[f]
       THEN Goto(h, Purging(f)) ELSE AfterUnique(h, f)
  /\ UNCHANGED directory

\* DELETE of rows: their keys go with them, but usage that was recorded forbids it, and so
\* may announcements and training data that refer to a row, which are not followed here.
Purge(h, f, rows) ==
  \/ /\ rows # {}
     /\ Answer(h) /\ UNCHANGED <<users, keys>>
  \/ /\ rows \cap recorded = {}
     /\ users' = [a \in Account |-> IF a \in rows THEN [users[a] EXCEPT !.state = "purged"] ELSE users[a]]
     /\ keys' = [k \in Key |-> IF keys[k] \in rows THEN Gone ELSE keys[k]]
     /\ AfterUnique(h, f)

\* Seeded fault: every row of the name is deleted.
HardDeleteSoftDeletedUserAny(h, f) ==
  /\ At(h, Purging(f))
  /\ Purge(h, f, {a \in Account : Stored(a) /\ users[a][f] = task[h].op[f]})
  /\ UNCHANGED <<departments, recorded>>

\* HardDeleteSoftDeletedUser, and ...ByEmail.
HardDeleteSoftDeletedUser(h, f) ==
  /\ At(h, Purging(f))
  /\ Purge(h, f, {a \in Account : users[a].state = "deleted" /\ users[a][f] = task[h].op[f]})
  /\ UNCHANGED <<departments, recorded>>

CreateUser(h) ==
  LET op  == task[h].op
      row == [state |-> "live", name |-> op.name, email |-> op.email, dept |-> op.dept, role |-> op.role,
              status |-> "enabled", password |-> op.password, fails |-> 0, locked |-> 0]
  IN /\ At(h, "insert") /\ op.kind = "CreateUser"
     /\ \E a \in Account :
          /\ users[a].state = "unborn"
          /\ users' = IF Allowed(a, row) THEN [users EXCEPT ![a] = row] ELSE users
          /\ IF Allowed(a, row) THEN AnswerJoin(h, a, op.dept) ELSE Answer(h)
     /\ UNCHANGED <<departments, keys, recorded>>

\* The first step of the operations on one user: FindByID, which sees live rows only, then
\* the operation's conditions on the row.
Find(h, kind, admitted, next) ==
  /\ At(h, "begin") /\ task[h].op.kind = kind
  /\ IF Live(task[h].op.id) /\ admitted THEN Goto(h, next) ELSE Answer(h)
  /\ UNCHANGED directory

Managed(h) == InScope(task[h].by, users[task[h].op.id])

\* Update: an email that another live user has, or a missing department, ends it.
UpdateUser(h) ==
  LET set == task[h].op.set IN
  Find(h, "UpdateUser", Managed(h),
       IF set.email # None THEN "email" ELSE IF set.dept # None THEN "findDept" ELSE "write")

ExistsEmail(h) ==
  LET set == task[h].op.set IN
  /\ At(h, "email") /\ task[h].op.kind = "UpdateUser"
  /\ IF \E a \in Account \ {task[h].op.id} : Live(a) /\ users[a].email = set.email
       THEN Answer(h) ELSE Goto(h, IF set.dept # None THEN "findDept" ELSE "write")
  /\ UNCHANGED directory

DeleteUser(h)    == Find(h, "DeleteUser", task[h].op.id # task[h].by.account, "write")
UpdateStatus(h)  == Find(h, "UpdateStatus", Managed(h), "write")
ResetPassword(h) == Find(h, "ResetPassword", Managed(h), "write")
UnlockUser(h)    ==
  LET row == users[task[h].op.id] IN
  Find(h, "UnlockUser", (row.locked > 0 \/ row.fails > 0) /\ Managed(h), "write")

\* fields: what the request sets; a role only if a super admin sets it.
Overlay(row, set, by) ==
  [row EXCEPT !.email = IF set.email = None THEN @ ELSE set.email,
              !.dept  = IF set.dept = None THEN @ ELSE set.dept,
              !.role  = IF set.role = None \/ by.role # "super_admin" THEN @ ELSE set.role,
              !.status = IF set.status = None THEN @ ELSE set.status]

ClearLoginFailCount(row) == [row EXCEPT !.fails = 0, !.locked = 0]

\* The row that the operation's last statement leaves.
Edited(op, by, row) ==
  CASE op.kind = "UpdateUser"    -> Overlay(row, op.set, by)
    [] op.kind = "DeleteUser"    -> [row EXCEPT !.state = "deleted"]
    [] op.kind = "UpdateStatus"  -> [row EXCEPT !.status = op.status]
    [] op.kind = "ResetPassword" -> [row EXCEPT !.password = op.password]
    [] op.kind = "UnlockUser"    -> ClearLoginFailCount(row)

\* The last statement: UPDATE of a live row, whatever became of it since it was read.
UpdateFields(h) ==
  LET op  == task[h].op
      a   == op.id
      row == Edited(op, task[h].by, users[a])
  IN /\ At(h, "write")
     /\ users' = IF Live(a) /\ Allowed(a, row) THEN [users EXCEPT ![a] = row] ELSE users
     /\ IF users'[a].dept # users[a].dept THEN AnswerJoin(h, a, row.dept) ELSE Answer(h)
     /\ UNCHANGED <<departments, keys, recorded>>

-----------------------------------------------------------------------------
(***************************************************************************)
(* Departments.  Names are unique, parent_id refers to a row.              *)
(***************************************************************************)
DeptAllowed(d, row) ==
  /\ row.parent = None \/ Open(row.parent)
  /\ \A e \in Dept \ {d} : Open(e) => departments[e].name # row.name

\* The department that a user, or a department as its parent, is to belong to.
FindDept(h) ==
  LET op == task[h].op
      d  == CASE op.kind = "CreateUser" -> op.dept
              [] op.kind = "UpdateUser" -> op.set.dept
              [] op.kind = "CreateDepartment" -> op.parent
  IN /\ At(h, "findDept")
     /\ IF Open(d) THEN Goto(h, IF op.kind = "UpdateUser" THEN "write" ELSE "insert") ELSE Answer(h)
     /\ UNCHANGED directory

\* Create: ExistsName, then the parent.  That the manager, if one is named, exists is checked
\* too, here and in Update; nothing else reads it, and it is left out.
CreateDepartment(h) ==
  LET op == task[h].op IN
  /\ At(h, "begin") /\ op.kind = "CreateDepartment"
  /\ IF \E d \in Dept : Open(d) /\ departments[d].name = op.name THEN Answer(h)
     ELSE Goto(h, IF op.parent # None THEN "findDept" ELSE "insert")
  /\ UNCHANGED directory

InsertDepartment(h) ==
  LET op  == task[h].op
      row == [state |-> "live", name |-> op.name, parent |-> op.parent]
  IN /\ At(h, "insert") /\ op.kind = "CreateDepartment"
     /\ \E d \in Dept :
          /\ departments[d].state = "unborn"
          /\ departments' = IF DeptAllowed(d, row) THEN [departments EXCEPT ![d] = row] ELSE departments
          /\ IF DeptAllowed(d, row) THEN AnswerJoin(h, d, op.parent) ELSE Answer(h)
     /\ UNCHANGED <<users, keys, recorded>>

\* Update: FindByID; a department is not its own parent, but may be put below its child.
UpdateDepartment(h) ==
  LET op == task[h].op IN
  /\ At(h, "begin") /\ op.kind = "UpdateDepartment"
  /\ IF Open(op.id) /\ (op.name # None \/ op.parent \notin {None, op.id})
       THEN Goto(h, IF op.name # None THEN "name" ELSE "writeDept") ELSE Answer(h)
  /\ UNCHANGED directory

ExistsName(h) ==
  LET op == task[h].op IN
  /\ At(h, "name") /\ op.kind = "UpdateDepartment"
  /\ IF (\E d \in Dept \ {op.id} : Open(d) /\ departments[d].name = op.name) \/ op.parent = op.id
       THEN Answer(h) ELSE Goto(h, "writeDept")
  /\ UNCHANGED directory

WriteDepartment(h) ==
  LET op  == task[h].op
      d   == op.id
      row == [departments[d] EXCEPT !.name = IF op.name = None THEN @ ELSE op.name,
                                    !.parent = IF op.parent = None THEN @ ELSE op.parent]
  IN /\ At(h, "writeDept")
     /\ departments' = IF Open(d) /\ DeptAllowed(d, row) THEN [departments EXCEPT ![d] = row] ELSE departments
     /\ IF departments'[d].parent # departments[d].parent THEN AnswerJoin(h, d, row.parent) ELSE Answer(h)
     /\ UNCHANGED <<users, keys, recorded>>

Members(d)  == {a \in Account : Live(a) /\ users[a].dept = d}
Children(d) == {e \in Dept : Open(e) /\ departments[e].parent = d}

\* Delete: FindByID, CountByDepartment, HasChildren, DELETE.
DeleteDepartment(h) ==
  /\ At(h, "begin") /\ task[h].op.kind = "DeleteDepartment"
  /\ IF Open(task[h].op.id) THEN Goto(h, "members") ELSE Answer(h)
  /\ UNCHANGED directory

CountByDepartment(h) ==
  /\ At(h, "members")
  /\ IF Members(task[h].op.id) = {} THEN Goto(h, "children") ELSE Answer(h)
  /\ UNCHANGED directory

\* Seeded fault: the department is deleted whatever is below it.
HasChildrenIgnored(h) ==
  /\ At(h, "children")
  /\ Goto(h, "delete")
  /\ UNCHANGED directory

HasChildren(h) ==
  /\ At(h, "children")
  /\ IF Children(task[h].op.id) = {} THEN Goto(h, "delete") ELSE Answer(h)
  /\ UNCHANGED directory

\* The row goes; the foreign keys set what refers to it to NULL.
DropDepartment(h) ==
  LET d == task[h].op.id IN
  /\ At(h, "delete")
  /\ users' = [a \in Account |-> IF users[a].dept = d THEN [users[a] EXCEPT !.dept = None] ELSE users[a]]
  /\ departments' = [e \in Dept |->
       IF e = d THEN [departments[e] EXCEPT !.state = "gone", !.parent = None]
       ELSE IF departments[e].parent = d THEN [departments[e] EXCEPT !.parent = None] ELSE departments[e]]
  /\ Answer(h)
  /\ UNCHANGED <<keys, recorded>>

-----------------------------------------------------------------------------
(***************************************************************************)
(* Api keys; KeyCache has what authenticates with them.                    *)
(***************************************************************************)
\* Seeded fault: the limit is compared with > instead of >=.
CreateKeyAbove(h) ==
  /\ At(h, "begin") /\ task[h].op.kind = "CreateKey"
  /\ IF Cardinality(KeysOf(task[h].by.account)) > MaxKeys THEN Answer(h) ELSE Goto(h, "insertKey")
  /\ UNCHANGED directory

\* Create: CountByUserID, then the limit.
CreateKey(h) ==
  /\ At(h, "begin") /\ task[h].op.kind = "CreateKey"
  /\ IF Cardinality(KeysOf(task[h].by.account)) >= MaxKeys THEN Answer(h) ELSE Goto(h, "insertKey")
  /\ UNCHANGED directory

\* The owner may be deleted by now: only a row that is purged refuses the key.
InsertKey(h) ==
  LET a == task[h].by.account IN
  /\ At(h, "insertKey")
  /\ \E k \in Key :
       /\ keys[k] = None
       /\ keys' = IF Stored(a) THEN [keys EXCEPT ![k] = a] ELSE keys
  /\ Answer(h)
  /\ UNCHANGED <<users, departments, recorded>>

\* Delete: FindByID; a regular user's own keys only.
DeleteKey(h) ==
  LET k == task[h].op.id by == task[h].by IN
  /\ At(h, "begin") /\ task[h].op.kind = "DeleteKey"
  /\ IF keys[k] \in Account /\ (by.role = "user" => keys[k] = by.account) THEN Goto(h, "deleteKey") ELSE Answer(h)
  /\ UNCHANGED directory

\* token_usage forgets the key and keeps the user.
DropKey(h) ==
  /\ At(h, "deleteKey")
  /\ keys' = [keys EXCEPT ![task[h].op.id] = Gone]
  /\ Answer(h)
  /\ UNCHANGED <<users, departments, recorded>>

\* A call with the key is recorded (UsageLedger).
UseKey(k) ==
  /\ keys[k] \in Account
  /\ recorded' = recorded \cup {keys[k]}
  /\ UNCHANGED <<users, departments, keys, task>>

\* A statement fails: the operation ends with an error, but for the two existence checks of
\* the updates, whose error is ignored.
Fail(h) ==
  LET op == task[h].op IN
  /\ task[h] # Idle
  /\ CASE At(h, "email") /\ op.kind = "UpdateUser" -> Goto(h, IF op.set.dept # None THEN "findDept" ELSE "write")
       [] At(h, "name") /\ op.kind = "UpdateDepartment" /\ op.parent # op.id -> Goto(h, "writeDept")
       [] OTHER -> Answer(h)
  /\ UNCHANGED directory

Manage(h) ==
  \/ \E f \in {"name", "email"} :
       Exists(h, f) \/ ExistsIncludingDeleted(h, f) \/ HardDeleteSoftDeletedUser(h, f)
  \/ CreateUser(h) \/ UpdateUser(h) \/ ExistsEmail(h) \/ DeleteUser(h) \/ UpdateStatus(h)
  \/ ResetPassword(h) \/ UnlockUser(h) \/ UpdateFields(h)
  \/ FindDept(h) \/ CreateDepartment(h) \/ InsertDepartment(h) \/ UpdateDepartment(h)
  \/ ExistsName(h) \/ WriteDepartment(h) \/ DeleteDepartment(h) \/ CountByDepartment(h)
  \/ HasChildren(h) \/ DropDepartment(h)
  \/ CreateKey(h) \/ InsertKey(h) \/ DeleteKey(h) \/ DropKey(h)
=============================================================================
