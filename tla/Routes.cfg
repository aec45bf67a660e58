SPECIFICATION Spec
CONSTANTS
  Request = {r1, r2}
  Console = {c1, c2}
  Provider = {p1, p2}
  Model = {m1}
  Formats = {"openai", "all"}
  CacheTTL = 2
  MaxStall = 1
  MaxFaults = 1
  MaxEdits = 2
  MaxGiven = 1
  MaxLoad = 4
  Initial <- OneProvider
  Watched <- SomeRoutes
SYMMETRY Actors
INVARIANTS ModelsAreExclusive HashFollowsRows RoutesAreUsable
PROPERTY AnswersAreTimely
