---------------------------- MODULE MCMCPProxy ----------------------------
(***************************************************************************)
(* Instance of MCPProxy: a client and two calls of SyncTools with one id.  *)
(***************************************************************************)
EXTENDS MCPProxy

CONSTANTS c1, s1, s2

MCIdOf == [e \in Event |-> CASE e = Init1 -> "1"
                             [] e = Note -> "<nil>"
                             [] e = c1 -> "2"
                             [] OTHER -> "sync-tools"]
=============================================================================
