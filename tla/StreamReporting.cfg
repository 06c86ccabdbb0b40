\* Two goroutines of the tool on a channel of two.
\* The request ends and its notifications are bounded, so the system stops.
SPECIFICATION FairSpec
CONSTANTS
  p1 = p1  p2 = p2
  Producers = {p1, p2}
  None = None
  Log = Log
  Capacity = 2
  MaxProgress = 1
  MaxEmitted = 4
CHECK_DEADLOCK FALSE
PROPERTIES
  ProducersReleased
  HandlerEnds
  RequestConcludes
  ImplementsStream
