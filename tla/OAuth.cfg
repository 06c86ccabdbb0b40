\* Two concurrent calls with different scopes; calls end and stay ended.
SPECIFICATION FairSpec
CONSTANTS
  c1 = c1  c2 = c2  x = x  y = y  as = as  other = other
  Calls = {c1, c2}
  Scopes = {x, y}
  Asked <- OneAsks
  Required <- EachNeeds
  Issuers = {as, other}
  Issuer = as
  IssuerParameterSupported = TRUE
  Lifetimes = {1}
  FlowLifetime = 1
  MaxTime = 1
  None = None
CHECK_DEADLOCK FALSE
INVARIANTS
  FailuresHaveACause
  FlowsAreSound
PROPERTIES
  CallsEnd
  ImplementsCalls
