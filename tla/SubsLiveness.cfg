\* Two listeners of one topic each; the client of s2 may stop reading.
SPECIFICATION FairSpec
CONSTANTS
  k1 = k1  k2 = k2  t1 = t1  t2 = t2  s1 = s1  s2 = s2  alice = alice  bob = bob
  Kinds = {k1}
  Tasks = {}
  Streams = {s1, s2}
  Publishers = {p1}
  None = None
  StreamOwner <- AliceOnly
  TaskOwner <- AliceAndBob
  Filters <- OneTopic
  Attentive = {s1}
  MaxChanges = 2
CHECK_DEADLOCK FALSE
PROPERTIES
  PublishingEnds
  HangUpForgotten
  ClosingCompletes
  ChangesLearned
