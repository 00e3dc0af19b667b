\* Two upstreams with OIDC clients of their own.
SPECIFICATION Spec
CONSTANTS
  c1 = c1  c2 = c2  c3 = c3
  Callers = {c1, c2, c3}
  Manager = Manager
  Auth <- TwoClients
  UpstreamOf <- StaticCalls
  Discovery = FALSE
  Lifetimes = {0, 4}
  Timeout = 1
  Margin = 2
  LoopMargin = 3
  Period = 3
  DefaultLife = 6
  None = None
  Horizon = 7
INVARIANTS
  NamedCredentialIsOwn
CHECK_DEADLOCK FALSE
