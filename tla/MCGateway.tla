----------------------------- MODULE MCGateway -----------------------------
(* Two calls of one user, the second to embeddings, or one of two users each. *)
EXTENDS Gateway, TLC

CONSTANTS r1, r2, r3, u1, u2, d1, k1, k2

MCUserOf       == (r1 :> u1) @@ (r2 :> u1) @@ (r3 :> u2)
MCKeyOf        == (u1 :> k1) @@ (u2 :> k2)
MCDepartmentOf == [u \in User |-> d1]
MCServed       == (r1 :> {ChatCompletions, Responses, AnthropicMessages}) @@ (r2 :> {Embeddings})
                    @@ (r3 :> {Completions})
MCWindow       == ("daily" :> 0) @@ ("weekly" :> 1) @@ ("monthly" :> 3)
=============================================================================
