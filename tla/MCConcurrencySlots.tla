------------------------ MODULE MCConcurrencySlots ------------------------
(* Small instances of ConcurrencySlots for TLC.  Liveness is checked, so    *)
(* the handlers are not declared symmetric.                                 *)
EXTENDS ConcurrencySlots
=============================================================================
