\* Listeners that ask for one topic each, two concurrent publishers.
\* The catalogs and tasks change a bounded number of times: the system stops.
SPECIFICATION Spec
CONSTANTS
  k1 = k1  k2 = k2  t1 = t1  t2 = t2  s1 = s1  s2 = s2  alice = alice  bob = bob
  Kinds = {k1}
  Tasks = {t1, t2}
  Streams = {s1}
  Publishers = {p1, p2}
  None = None
  StreamOwner <- AliceOnly
  TaskOwner <- AliceAndBob
  Filters <- OneTopic
  Attentive = {s1}
  MaxChanges = 2
CHECK_DEADLOCK FALSE
INVARIANTS
  NothingMissed
