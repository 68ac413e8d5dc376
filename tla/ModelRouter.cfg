\* Two calls of any role over a minute and a half, with adapters that answer or fail.
SPECIFICATION FairSpec
CONSTANTS
  ModelIds <- MCModelIds
  Minute = 2
  MaxRate = 2
  MaxClock = 3
  Watched <- MCWatched
  Manifests <- MCManifests
  Adapters = {"anthropic", "openai"}
  Asked <- MCAsked
  MaxCalls = 2
  StackDepth = 3
INVARIANTS RTypeOK WithinRate AnswersAreAllowed NobodyLeftToAsk OverflowsOnlyInCircles
PROPERTY EveryCallReturns
CHECK_DEADLOCK FALSE
