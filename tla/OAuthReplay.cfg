\* One call that learns its scope by a challenge, and the comment of Do.
SPECIFICATION Spec
CONSTANTS
  c1 = c1  c2 = c2  x = x  y = y  as = as  other = other
  Calls = {c1}
  Scopes = {x, y}
  Asked <- OneAsks
  Required <- EachNeeds
  Issuers = {as, other}
  Issuer = as
  IssuerParameterSupported = TRUE
  Lifetimes = {1}
  FlowLifetime = 1
  MaxTime = 1
  None = None
CHECK_DEADLOCK FALSE
INVARIANTS
  AtMostOneReplay
