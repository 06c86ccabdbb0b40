\* A listener that asks for two of its tasks on one stream.
SPECIFICATION Spec
CONSTANTS
  k1 = k1  k2 = k2  t1 = t1  t2 = t2  s1 = s1  s2 = s2  alice = alice  bob = bob
  Kinds = {}
  Tasks = {t1, t2}
  Streams = {s1}
  Publishers = {p1}
  None = None
  StreamOwner <- AliceOnly
  TaskOwner <- AliceOwns
  Filters <- AllTopics
  Attentive = {s1}
  MaxChanges = 1
CHECK_DEADLOCK FALSE
INVARIANT EveryChangeDelivered
