------------------------ MODULE MCThirdPartyRoutes ------------------------
(* Small instances of ThirdPartyRoutes for TLC.                             *)
EXTENDS ThirdPartyRoutes, TLC

\* A configuration from which both the format and a URL can change: the user has one such
\* provider, and the history follows its route, or none.
BothURLs == [format |-> "openai", openAIBaseURL |-> "url", anthropicBaseURL |-> "url"]

OneProvider ==
  {[q \in Provider |-> IF q # p THEN FreeRow
                       ELSE [state |-> "live", active |-> TRUE, models |-> Model,
                             config |-> BothURLs]] : p \in Provider}

SomeRoutes == {NoRoute} \cup [provider : Provider, config : {BothURLs}]

Actors == Permutations(Request) \cup Permutations(Console) \cup Permutations(Provider)
=============================================================================
