\* Two principals, two tasks with and without a TTL, a clock that may be set back.
\* The clock is bounded and the task IDs are finite, so the system stops.
SPECIFICATION FairPollSpec
CONSTANTS
  alice = alice  bob = bob  t1 = t1  t2 = t2
  TaskIds = {t1, t2}
  Owners = {alice, bob}
  Poller = alice
  None = None
  TTLs = {1, None}
  MaxTime = 2
  ClockStepsBack = TRUE
CHECK_DEADLOCK FALSE
INVARIANTS
  AcknowledgedOnce
  ExpiryIsFinal
  RecordsAreComplete
  ReportsTheOutcome
PROPERTIES
  ImplementsLifecycle
  WaitEnds
