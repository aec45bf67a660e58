-------------------------- MODULE MCBackendAdmin --------------------------
(* Small instances of BackendAdmin for TLC: every backend takes one         *)
(* connection and serves the one model, every caller is the one user.       *)
EXTENDS BackendAdmin

OneConn  == [b \in Backend |-> 1]
ServeAll == [b \in Backend |-> Model]
OneUser  == [r \in Request |-> CHOOSE u \in User : TRUE]
=============================================================================
