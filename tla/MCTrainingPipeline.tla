------------------------ MODULE MCTrainingPipeline ------------------------
(***************************************************************************)
(* Instance of TrainingPipeline: two calls with the same content and one   *)
(* without a hash.                                                         *)
(***************************************************************************)
EXTENDS TrainingPipeline

CONSTANTS r1, r2, r3, text

MCContentOf == [r \in Call |-> IF r = r3 THEN NoHash ELSE text]
=============================================================================
