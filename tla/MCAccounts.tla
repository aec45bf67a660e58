----------------------------- MODULE MCAccounts -----------------------------
(* A super admin a0 and a department manager a1, each with a token, and a deleted user a2. *)
EXTENDS Accounts, TLC

CONSTANTS a0, a1, a2, a3, d1, d2, d3, k1, k2, k3, t0, t1, t2

User(state, name, role, dept) ==
  [state |-> state, name |-> name, email |-> None, dept |-> dept, role |-> role,
   status |-> "enabled", password |-> "p1", fails |-> 0, locked |-> 0]
MCUsers == (a0 :> User("live", "n0", "super_admin", None)) @@ (a1 :> User("live", "n1", "dept_manager", d1))
        @@ (a2 :> [User("deleted", "n2", "user", None) EXCEPT !.email = "e2"])
        @@ (a3 :> User("unborn", None, None, None))

Department(state, name) == [state |-> state, name |-> name, parent |-> None]
MCDepartments == (d1 :> Department("live", "m1")) @@ (d2 :> Department("live", "m2"))
              @@ (d3 :> Department("unborn", None))
MCKeys == (k1 :> None) @@ (k2 :> None) @@ (k3 :> None)

Claims(a, role, dept) == [account |-> a, role |-> role, dept |-> dept, left |-> TokenLife]
MCTokens == (t0 :> Claims(a0, "super_admin", None)) @@ (t1 :> Claims(a1, "dept_manager", d1))

Logins == {[kind |-> "Login", name |-> "n1", password |-> p] : p \in {"p1", "p2"}}

Guessing == Logins \cup {[kind |-> "UnlockUser", id |-> a1]}

Sessions == Logins \cup
  {[kind |-> "Logout"], [kind |-> "ChangePassword", old |-> "p1", password |-> "p2"],
   [kind |-> "UpdateStatus", id |-> a1, status |-> "disabled"],
   [kind |-> "ResetPassword", id |-> a1, password |-> "p2"]}

Registration ==
  {[kind |-> "CreateUser", name |-> "n2", email |-> e, dept |-> None, role |-> "user", password |-> "p1"]
     : e \in {None, "e2"}} \cup
  {[kind |-> "DeleteUser", id |-> a] : a \in {a1, a3}} \cup
  {[kind |-> "UpdateUser", id |-> a1, set |-> [email |-> "e2", dept |-> None, role |-> "user", status |-> None]],
   [kind |-> "CreateKey"], [kind |-> "DeleteKey", id |-> k1]}

Departments ==
  {[kind |-> "CreateUser", name |-> "n3", email |-> None, dept |-> d1, role |-> "user", password |-> "p1"],
   [kind |-> "UpdateUser", id |-> a1, set |-> [email |-> None, dept |-> d2, role |-> None, status |-> None]],
   [kind |-> "UpdateUser", id |-> a0, set |-> [email |-> None, dept |-> d1, role |-> None, status |-> None]],
   [kind |-> "CreateDepartment", name |-> "m3", parent |-> d1],
   [kind |-> "UpdateDepartment", id |-> d2, name |-> "m3", parent |-> d1],
   [kind |-> "UpdateDepartment", id |-> d1, name |-> None, parent |-> d2],
   [kind |-> "DeleteDepartment", id |-> d1]}

Symmetry == Permutations(Handler)

MCWorkloads == {Guessing, Sessions, Registration, Departments}
=============================================================================
