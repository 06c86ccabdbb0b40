-------------------------- MODULE MCSubscriptions --------------------------
(***************************************************************************)
(* Instances of Subscriptions for TLC.                                     *)
(***************************************************************************)
EXTENDS Subscriptions, TLC

CONSTANTS k1, k2, t1, t2, s1, s2, alice, bob

\* alice listens on both streams, t2 is bob's.
AliceOnly == [s \in Streams |-> alice]
AliceAndBob == [t \in Tasks |-> IF t = t2 THEN bob ELSE alice]

AliceOwns == [t \in Tasks |-> alice]

\* Listeners of a single topic, and of all topics at once.
OneTopic == {{t} : t \in Topics}
AllTopics == {Topics}

=============================================================================
