\* A client that does not reuse the ID of a cancelled call too early.
SPECIFICATION Spec
CONSTANTS
  RequestIds = {i1, i2, i3}
  Calls = {c1, c2}
  Subs = {s1}
  None = None
  MaxConcurrent = 2
  MaxActiveIDs = 2
  InputClosable = TRUE
  ReuseStaleIDs = FALSE
SYMMETRY Symmetry
INVARIANTS
  RequestsBounded
  OneHolderPerID
  NoOrphans
  SilentAfterReturn
PROPERTY ImplementsOutcomes
