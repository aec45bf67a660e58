--------------------------- MODULE MCQuotaCycle ---------------------------
(* Small instances of QuotaCycle for TLC: calls are interchangeable.        *)
EXTENDS QuotaCycle, TLC

Calls == Permutations(TokenCall)
=============================================================================
