\* A verifier's call is answered by the coding agent's model.
SPECIFICATION Spec
CONSTANTS
  ModelIds <- MCModelIds
  Minute = 2
  MaxRate = 2
  MaxClock = 0
  Watched <- MCWatched
  Manifests <- MCManifests
  Adapters = {"anthropic", "openai"}
  Asked <- MCAsked
  MaxCalls = 1
  StackDepth = 3
INVARIANT VerifierIndependent
CHECK_DEADLOCK FALSE
