\* Two calls that share the token and one with a static token, over five timeouts and a tick.
SPECIFICATION FairSpec
CONSTANTS
  c1 = c1  c2 = c2  c3 = c3
  Callers = {c1, c2, c3}
  Manager = Manager
  Auth <- Fallback
  UpstreamOf <- StaticCalls
  Discovery = TRUE
  Lifetimes = {0, 4}
  Timeout = 1
  Margin = 2
  LoopMargin = 3
  Period = 3
  DefaultLife = 6
  None = None
  Horizon = 5
INVARIANTS
  TypeOK
  FetchesAreNeeded
PROPERTIES
  CachedTokenIsGood
  TokensAdvance
  NobodyHangs
CHECK_DEADLOCK FALSE
