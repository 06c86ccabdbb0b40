\* A client that reuses request IDs at will, on an input that cannot be closed.
SPECIFICATION Spec
CONSTANTS
  RequestIds = {i1}
  Calls = {c1, c2, c3}
  Subs = {s1}
  None = None
  MaxConcurrent = 2
  MaxActiveIDs = 1
  InputClosable = FALSE
  ReuseStaleIDs = TRUE
SYMMETRY Symmetry
INVARIANTS
  TablesAgree
  WriteErrorReported
PROPERTY ImplementsOutcomes
