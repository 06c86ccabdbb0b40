\* A client that reuses the ID of a cancelled call at once, then closes the input.
SPECIFICATION FairSpec
CONSTANTS
  RequestIds = {i1}
  Calls = {c1}
  Subs = {s1, s2}
  None = None
  MaxConcurrent = 1
  MaxActiveIDs = 2
  InputClosable = TRUE
  ReuseStaleIDs = TRUE
PROPERTY ServeReturns
