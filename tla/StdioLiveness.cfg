\* A client that does not reuse the ID of a cancelled call too early.
SPECIFICATION LiveSpec
CONSTANTS
  RequestIds = {i1}
  Calls = {c1}
  Subs = {s1}
  None = None
  MaxConcurrent = 1
  MaxActiveIDs = 2
  InputClosable = TRUE
  ReuseStaleIDs = FALSE
PROPERTIES
  ServeReturns
  CallsConclude
  CompletedSubscriptionsEnd
