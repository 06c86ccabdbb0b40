------------------------ MODULE SubscriptionsProofs ------------------------
(***************************************************************************)
(* A listener of one topic misses nothing: proofs about Subscriptions.     *)
(*                                                                         *)
(* HubInv says where a subscription and an event can be found; with it,    *)
(* AllOwed is preserved by every step: the only step that loses an event,  *)
(* Notify on a full channel, finds there an event of a topic the           *)
(* subscription has agreed to, and that is the only one.  AllOwed is       *)
(* NothingMissed from the registration of a catalog's listener on: nothing *)
(* is read at its acknowledgement that could make up for a change before.  *)
(***************************************************************************)
EXTENDS Subscriptions, TLAPS

\* Streams that publishers can find are registered and alive, their channels
\* and the publishers' snapshots hold only topics they have agreed to; a
\* listener reads nothing before it is acknowledged.
HubInv ==
  /\ \A s \in Streams : s \in registered <=> streamAt[s] \in {"registered", "streaming"}
  /\ \A s \in Streams : events[s] # None => events[s] \in agreed[s] /\ streamAt[s] # "idle"
  /\ \A s \in Streams : streamAt[s] \in {"idle", "checked", "registered"} => stale[s] = {}
  /\ \A s \in Streams, t \in Tasks : t \in agreed[s] => StreamOwner[s] = TaskOwner[t]
  /\ \A p \in Publishers : pubAt[p] # "idle" => pubTopic[p] \in Topics
  /\ \A p \in Publishers : \A s \in targets[p] :
       pubAt[p] = "notifying" /\ pubTopic[p] \in agreed[s] /\ streamAt[s] # "idle"

\* Since when a listener is owed the changes of its topic: a catalog's since it
\* was registered, a task's since it was acknowledged (and reads the state).
Listening(s, t) ==
  /\ agreed[s] = {t}
  /\ streamAt[s] = "streaming" \/ (streamAt[s] = "registered" /\ t \in Kinds)

AllOwed == \A s \in Streams, t \in Topics : Listening(s, t) => UpToDateOrOwed(s, t)

----------------------------------------------------------------------------
\* The state starts well-typed and every step keeps it so (all actions).
LEMMA TypeOKInit == Init => TypeOK
  BY TopicsAssumption, BoundAssumption DEF Init, TypeOK, StreamPoints, PubPoints, Limit

\* Every step of a handler, a publisher, a client or the shutdown is well typed.
LEMMA TypeOKStep == TypeOK /\ [Next]_vars => TypeOK'
<1> SUFFICES ASSUME TypeOK, [Next]_vars PROVE TypeOK'
  OBVIOUS
<1> USE DEF TypeOK, StreamPoints, PubPoints
<1>1. ASSUME NEW s \in Streams, NEW filter \in Filters, Listen(s, filter) PROVE TypeOK'
  BY FiltersAssumption, TopicsAssumption, BoundAssumption, <1>1 DEF Listen, serverVars, streamVars, pubVars, listenerVars, Agreeable
<1>2. ASSUME NEW s \in Streams, Register(s) PROVE TypeOK'
  BY FiltersAssumption, TopicsAssumption, BoundAssumption, <1>2 DEF Register, serverVars, streamVars, pubVars, listenerVars
<1>3. ASSUME NEW s \in Streams, Acknowledge(s) PROVE TypeOK'
  BY FiltersAssumption, TopicsAssumption, BoundAssumption, <1>3 DEF Acknowledge, serverVars, streamVars, pubVars, listenerVars, FirstRead
<1>4. ASSUME NEW s \in Streams, Disconnected(s) PROVE TypeOK'
  BY FiltersAssumption, TopicsAssumption, BoundAssumption, <1>4 DEF Disconnected, serverVars, streamVars, pubVars, listenerVars, EndStream
<1>5. ASSUME NEW s \in Streams, WriteEvent(s) PROVE TypeOK'
  BY FiltersAssumption, TopicsAssumption, BoundAssumption, <1>5 DEF WriteEvent, serverVars, streamVars, pubVars, listenerVars
<1>6. ASSUME NEW s \in Streams, WriteCompletion(s) PROVE TypeOK'
  BY FiltersAssumption, TopicsAssumption, BoundAssumption, <1>6 DEF WriteCompletion, serverVars, streamVars, pubVars, listenerVars, EndStream
<1>7. ASSUME NEW s \in Streams, Complete(s) PROVE TypeOK'
  BY FiltersAssumption, TopicsAssumption, BoundAssumption, <1>7 DEF Complete, serverVars, streamVars, pubVars, listenerVars
<1>8. ASSUME NEW s \in Streams, HangUp(s) PROVE TypeOK'
  BY FiltersAssumption, TopicsAssumption, BoundAssumption, <1>8 DEF HangUp, serverVars, streamVars, pubVars, listenerVars
<1>9. ASSUME NEW p \in Publishers, Snapshot(p) PROVE TypeOK'
  BY FiltersAssumption, TopicsAssumption, BoundAssumption, <1>9 DEF Snapshot, serverVars, streamVars, pubVars, listenerVars, Interested
<1>10. ASSUME NEW p \in Publishers, NEW s \in Streams, Notify(p, s) PROVE TypeOK'
  BY FiltersAssumption, TopicsAssumption, BoundAssumption, <1>10 DEF Notify, serverVars, streamVars, pubVars, listenerVars, MayNotify, Topics
<1>11. ASSUME NEW p \in Publishers, Published(p) PROVE TypeOK'
  BY FiltersAssumption, TopicsAssumption, BoundAssumption, <1>11 DEF Published, serverVars, streamVars, pubVars, listenerVars
<1>12. ASSUME NEW p \in Publishers, NEW t \in Topics, Change(p, t) PROVE TypeOK'
  BY FiltersAssumption, TopicsAssumption, BoundAssumption, <1>12 DEF Change, serverVars, streamVars, pubVars, listenerVars, Changeable, Limit
<1>13. ASSUME NEW s \in Streams, NEW t \in Topics, Read(s, t) PROVE TypeOK'
  BY FiltersAssumption, TopicsAssumption, BoundAssumption, <1>13 DEF Read, serverVars, streamVars, pubVars, listenerVars
<1>14. ASSUME NEW t \in Topics, Expire(t) PROVE TypeOK'
  BY FiltersAssumption, TopicsAssumption, BoundAssumption, <1>14 DEF Expire, serverVars, streamVars, pubVars, listenerVars
<1>15. CASE StartClosing
  BY FiltersAssumption, TopicsAssumption, BoundAssumption, <1>15 DEF StartClosing, serverVars, streamVars, pubVars, listenerVars
<1>16. CASE UNCHANGED vars
  BY FiltersAssumption, TopicsAssumption, BoundAssumption, <1>16 DEF vars, serverVars, streamVars, pubVars, listenerVars
<1>17. QED
  BY <1>1, <1>2, <1>3, <1>4, <1>5, <1>6, <1>7, <1>8, <1>9, <1>10, <1>11, <1>12, <1>13, <1>14, <1>15, <1>16 DEF Next, StreamStep, PublisherStep

\* Every variable keeps to its type, the events' channels and the change
\* counters included.
THEOREM TypeCorrect == Spec => []TypeOK
<1>1. QED
  BY TypeOKInit, TypeOKStep, PTL DEF Spec

----------------------------------------------------------------------------
\* The hub's bookkeeping (subscribe, unsubscribe, notify, the publishers).
LEMMA HubInvInit == Init => HubInv
  BY DEF Init, HubInv

\* Every step keeps that bookkeeping: registration, events, snapshots, the shutdown.
LEMMA HubInvStep == TypeOK /\ HubInv /\ [Next]_vars => HubInv'
<1> SUFFICES ASSUME TypeOK, HubInv, [Next]_vars PROVE HubInv'
  OBVIOUS
<1> USE DEF TypeOK, HubInv
<1>1. ASSUME NEW s \in Streams, NEW filter \in Filters, Listen(s, filter) PROVE HubInv'
  BY FiltersAssumption, TopicsAssumption, <1>1 DEF Listen, serverVars, streamVars, pubVars, listenerVars, Agreeable
<1>2. ASSUME NEW s \in Streams, Register(s) PROVE HubInv'
  BY FiltersAssumption, TopicsAssumption, <1>2 DEF Register, serverVars, streamVars, pubVars, listenerVars, StreamPoints
<1>3. ASSUME NEW s \in Streams, Acknowledge(s) PROVE HubInv'
  BY FiltersAssumption, TopicsAssumption, <1>3 DEF Acknowledge, serverVars, streamVars, pubVars, listenerVars
<1>4. ASSUME NEW s \in Streams, Disconnected(s) PROVE HubInv'
  BY FiltersAssumption, TopicsAssumption, <1>4 DEF Disconnected, serverVars, streamVars, pubVars, listenerVars, EndStream
<1>5. ASSUME NEW s \in Streams, WriteEvent(s) PROVE HubInv'
  BY FiltersAssumption, TopicsAssumption, <1>5 DEF WriteEvent, serverVars, streamVars, pubVars, listenerVars
<1>6. ASSUME NEW s \in Streams, WriteCompletion(s) PROVE HubInv'
  BY FiltersAssumption, TopicsAssumption, <1>6 DEF WriteCompletion, serverVars, streamVars, pubVars, listenerVars, EndStream
<1>7. ASSUME NEW s \in Streams, Complete(s) PROVE HubInv'
  BY FiltersAssumption, TopicsAssumption, <1>7 DEF Complete, serverVars, streamVars, pubVars, listenerVars
<1>8. ASSUME NEW s \in Streams, HangUp(s) PROVE HubInv'
  BY FiltersAssumption, TopicsAssumption, <1>8 DEF HangUp, serverVars, streamVars, pubVars, listenerVars
<1>9. ASSUME NEW p \in Publishers, Snapshot(p) PROVE HubInv'
  BY FiltersAssumption, TopicsAssumption, <1>9 DEF Snapshot, serverVars, streamVars, pubVars, listenerVars, Interested
<1>10. ASSUME NEW p \in Publishers, NEW s \in Streams, Notify(p, s) PROVE HubInv'
  BY FiltersAssumption, TopicsAssumption, <1>10 DEF Notify, serverVars, streamVars, pubVars, listenerVars, MayNotify
<1>11. ASSUME NEW p \in Publishers, Published(p) PROVE HubInv'
  BY FiltersAssumption, TopicsAssumption, <1>11 DEF Published, serverVars, streamVars, pubVars, listenerVars
<1>12. ASSUME NEW p \in Publishers, NEW t \in Topics, Change(p, t) PROVE HubInv'
  BY FiltersAssumption, TopicsAssumption, <1>12 DEF Change, serverVars, streamVars, pubVars, listenerVars
<1>13. ASSUME NEW s \in Streams, NEW t \in Topics, Read(s, t) PROVE HubInv'
  BY FiltersAssumption, TopicsAssumption, <1>13 DEF Read, serverVars, streamVars, pubVars, listenerVars
<1>14. ASSUME NEW t \in Topics, Expire(t) PROVE HubInv'
  BY FiltersAssumption, TopicsAssumption, <1>14 DEF Expire, serverVars, streamVars, pubVars, listenerVars
<1>15. CASE StartClosing
  BY FiltersAssumption, TopicsAssumption, <1>15 DEF StartClosing, serverVars, streamVars, pubVars, listenerVars
<1>16. CASE UNCHANGED vars
  BY FiltersAssumption, TopicsAssumption, <1>16 DEF vars, serverVars, streamVars, pubVars, listenerVars
<1>17. QED
  BY <1>1, <1>2, <1>3, <1>4, <1>5, <1>6, <1>7, <1>8, <1>9, <1>10, <1>11, <1>12, <1>13, <1>14, <1>15, <1>16 DEF Next, StreamStep, PublisherStep

\* The counters, the channel and the publishers keep an outstanding change owed
\* to the listener of a single topic (Notify, Acknowledge, Change, Snapshot).
LEMMA AllOwedInit == Init => AllOwed
  BY DEF Init, AllOwed, Listening

\* A change is owed by its publisher, in the channel, or already read by the client.
LEMMA AllOwedStep ==
  TypeOK /\ HubInv /\ AllOwed /\ [Next]_vars => AllOwed'
<1> SUFFICES ASSUME TypeOK, HubInv, AllOwed, [Next]_vars PROVE AllOwed'
  OBVIOUS
<1> USE DEF TypeOK, HubInv
<1> SUFFICES ASSUME NEW r \in Streams, NEW u \in Topics,
                    Listening(r, u)'
             PROVE UpToDateOrOwed(r, u)'
  BY DEF AllOwed
<1> DEFINE Goal == UpToDateOrOwed(r, u)'
<1>0. Listening(r, u) => UpToDateOrOwed(r, u)
  BY DEF AllOwed
<1> USE DEF UpToDateOrOwed, WillNotify, Current, Listening
<1>1. ASSUME NEW s \in Streams, NEW filter \in Filters, Listen(s, filter) PROVE Goal
  BY TopicsAssumption, <1>0, <1>1 DEF Listen, serverVars, streamVars, pubVars, listenerVars
<1>2. ASSUME NEW s \in Streams, Register(s) PROVE Goal
  BY TopicsAssumption, <1>0, <1>2 DEF Register, serverVars, streamVars, pubVars, listenerVars
<1>3. ASSUME NEW s \in Streams, Acknowledge(s) PROVE Goal
  <2> USE DEF Acknowledge, serverVars, pubVars
  <2>1. CASE Listening(r, u)
    <3>1. u \in stale[r] => u \in stale'[r]
      BY <1>3
    <3>2. QED
      BY <1>0, <1>3, <2>1, <3>1
  <2>2. CASE ~Listening(r, u)
    <3>1. r = s /\ u \in Tasks /\ agreed[r] = {u}
      BY <1>3, <2>2 DEF Topics
    <3>2. QED
      BY <1>3, <3>1 DEF FirstRead
  <2>3. QED
    BY <2>1, <2>2
<1>4. ASSUME NEW s \in Streams, Disconnected(s) PROVE Goal
  BY TopicsAssumption, <1>0, <1>4 DEF Disconnected, serverVars, streamVars, pubVars, listenerVars, EndStream
<1>5. ASSUME NEW s \in Streams, WriteEvent(s) PROVE Goal
  BY TopicsAssumption, <1>0, <1>5 DEF WriteEvent, serverVars, streamVars, pubVars, listenerVars
<1>6. ASSUME NEW s \in Streams, WriteCompletion(s) PROVE Goal
  BY TopicsAssumption, <1>0, <1>6 DEF WriteCompletion, serverVars, streamVars, pubVars, listenerVars, EndStream
<1>7. ASSUME NEW s \in Streams, Complete(s) PROVE Goal
  BY TopicsAssumption, <1>0, <1>7 DEF Complete, serverVars, streamVars, pubVars, listenerVars
<1>8. ASSUME NEW s \in Streams, HangUp(s) PROVE Goal
  BY TopicsAssumption, <1>0, <1>8 DEF HangUp, serverVars, streamVars, pubVars, listenerVars
<1>9. ASSUME NEW p \in Publishers, Snapshot(p) PROVE Goal
  <2>1. u = pubTopic[p] => r \in targets'[p]
    BY <1>9, TopicsAssumption DEF Interested, Snapshot, streamVars, Topics
  <2>2. \A q \in Publishers : WillNotify(q, r, u) => WillNotify(q, r, u)'
    BY <1>9, <2>1 DEF Snapshot
  <2>3. QED
    BY <1>0, <1>9, <2>2 DEF Snapshot, serverVars, streamVars, listenerVars
<1>10. ASSUME NEW p \in Publishers, NEW s \in Streams, Notify(p, s) PROVE Goal
  <2>1. \A q \in Publishers : WillNotify(q, r, u) => WillNotify(q, r, u)' \/ (q = p /\ r = s)
    BY <1>10 DEF Notify
  <2>2. r = s => events'[r] = u
    BY <1>10, TopicsAssumption DEF Notify
  <2>3. r # s => events'[r] = events[r]
    BY <1>10 DEF Notify
  <2>4. QED
    BY <1>0, <1>10, <2>1, <2>2, <2>3 DEF Notify, serverVars, listenerVars
<1>11. ASSUME NEW p \in Publishers, Published(p) PROVE Goal
  BY TopicsAssumption, <1>0, <1>11 DEF Published, serverVars, streamVars, pubVars, listenerVars
<1>12. ASSUME NEW p \in Publishers, NEW t \in Topics, Change(p, t) PROVE Goal
  <2>1. \A q \in Publishers : WillNotify(q, r, u) => WillNotify(q, r, u)'
    BY <1>12 DEF Change
  <2>2. CASE t = u
    BY <1>12, <2>2 DEF Change
  <2>3. CASE t # u
    BY <1>0, <1>12, <2>1, <2>3 DEF Change, streamVars, listenerVars
  <2>4. QED
    BY <2>2, <2>3
<1>13. ASSUME NEW s \in Streams, NEW t \in Topics, Read(s, t) PROVE Goal
  <2>1. \A q \in Publishers : WillNotify(q, r, u) => WillNotify(q, r, u)'
    BY <1>13 DEF Read, pubVars
  <2>2. CASE r = s /\ u = t
    BY <1>13, <2>2 DEF Read, serverVars
  <2>3. CASE ~(r = s /\ u = t)
    <3>1. known'[r][u] = known[r][u] /\ (u \in stale[r] => u \in stale'[r])
      BY <1>13, <2>3 DEF Read
    <3>2. QED
      BY <1>0, <1>13, <2>1, <3>1 DEF Read, serverVars, streamVars
  <2>4. QED
    BY <2>2, <2>3
<1>14. ASSUME NEW t \in Topics, Expire(t) PROVE Goal
  BY TopicsAssumption, <1>0, <1>14 DEF Expire, serverVars, streamVars, pubVars, listenerVars
<1>15. CASE StartClosing
  BY TopicsAssumption, <1>0, <1>15 DEF StartClosing, serverVars, streamVars, pubVars, listenerVars
<1>16. CASE UNCHANGED vars
  BY TopicsAssumption, <1>0, <1>16 DEF vars, serverVars, streamVars, pubVars, listenerVars
<1>17. QED
  BY <1>1, <1>2, <1>3, <1>4, <1>5, <1>6, <1>7, <1>8, <1>9, <1>10, <1>11, <1>12, <1>13,
     <1>14, <1>15, <1>16 DEF Next, StreamStep, PublisherStep

\* What the hub keeps, in every behaviour.
LEMMA HubInvariant == Spec => [](TypeOK /\ HubInv /\ NothingMissed)
<1>1. Init => TypeOK /\ HubInv /\ AllOwed
  BY TypeOKInit, HubInvInit, AllOwedInit
<1>2. TypeOK /\ HubInv /\ AllOwed /\ [Next]_vars => (TypeOK /\ HubInv /\ AllOwed)'
  BY TypeOKStep, HubInvStep, AllOwedStep
<1>3. AllOwed => NothingMissed
  BY DEF AllOwed, NothingMissed, Listening
<1>4. QED
  BY <1>1, <1>2, <1>3, PTL DEF Spec

\* For every set of catalogs, tasks, streams and publishers: the listener of
\* one task misses no change of it, and the listener of one catalog none since
\* its registration, however events are dropped.
THEOREM SingleTopicListenersMissNothing == Spec => []NothingMissed
<1>1. QED
  BY HubInvariant, PTL

----------------------------------------------------------------------------
(***************************************************************************)
(* Liveness.  NobodyWaits is what the provers cannot see of ENABLED; that  *)
(* the steps fairness then brings about lead to the goal is proved here.   *)
(***************************************************************************)

\* What CloseSubscriptions completes has been registered.
ClosingInv ==
  \A s \in closing \cup complete : streamAt[s] \in {"registered", "streaming", "ended"}

\* Where a step can take a subscription: hung up, completed and ended are for good.
LEMMA StreamMoves ==
  ASSUME TypeOK, [Next]_vars, NEW s \in Streams
  PROVE  /\ s \in hungUp => s \in hungUp'
         /\ s \in complete => s \in complete'
         /\ s \in closing => s \in closing' \/ s \in complete'
         /\ streamAt[s] = "registered" => streamAt'[s] \in {"registered", "streaming", "ended"}
         /\ streamAt[s] = "streaming" => streamAt'[s] \in {"streaming", "ended"}
         /\ streamAt[s] = "ended" => streamAt'[s] = "ended"
         /\ streamAt[s] = "streaming" => agreed'[s] = agreed[s]
         /\ streamAt[s] = "streaming" /\ streamAt'[s] = "ended" => s \in complete \cup hungUp
<1> USE DEF TypeOK, serverVars, streamVars, pubVars, listenerVars
<1> DEFINE Goal ==
         /\ s \in hungUp => s \in hungUp'
         /\ s \in complete => s \in complete'
         /\ s \in closing => s \in closing' \/ s \in complete'
         /\ streamAt[s] = "registered" => streamAt'[s] \in {"registered", "streaming", "ended"}
         /\ streamAt[s] = "streaming" => streamAt'[s] \in {"streaming", "ended"}
         /\ streamAt[s] = "ended" => streamAt'[s] = "ended"
         /\ streamAt[s] = "streaming" => agreed'[s] = agreed[s]
         /\ streamAt[s] = "streaming" /\ streamAt'[s] = "ended" => s \in complete \cup hungUp
<1>1. ASSUME NEW r \in Streams, NEW filter \in Filters, Listen(r, filter) PROVE Goal
  BY <1>1 DEF Listen
<1>2. ASSUME NEW r \in Streams, StreamStep(r) PROVE Goal
  BY <1>2 DEF StreamStep, Register, Acknowledge, Disconnected, EndStream
<1>3. ASSUME NEW r \in Streams, WriteEvent(r) \/ WriteCompletion(r) PROVE Goal
  BY <1>3 DEF WriteEvent, WriteCompletion, EndStream
<1>4. ASSUME NEW r \in Streams, Complete(r) \/ HangUp(r) PROVE Goal
  BY <1>4 DEF Complete, HangUp
<1>5. ASSUME NEW p \in Publishers, PublisherStep(p) PROVE Goal
  BY <1>5 DEF PublisherStep, Snapshot, Published, Notify
<1>6. ASSUME NEW p \in Publishers, NEW t \in Topics, Change(p, t) PROVE Goal
  BY <1>6 DEF Change
<1>7. ASSUME NEW r \in Streams, NEW t \in Topics, Read(r, t) PROVE Goal
  BY <1>7 DEF Read
<1>8. ASSUME NEW t \in Topics, Expire(t) PROVE Goal
  BY <1>8 DEF Expire
<1>9. CASE StartClosing
  BY <1>9 DEF StartClosing
<1>10. CASE UNCHANGED vars
  BY <1>10 DEF vars
<1>11. QED
  BY <1>1, <1>2, <1>3, <1>4, <1>5, <1>6, <1>7, <1>8, <1>9, <1>10 DEF Next

\* Only CloseSubscriptions adds to the subscriptions it completes.
LEMMA ClosingInvStep == TypeOK /\ HubInv /\ ClosingInv /\ [Next]_vars => ClosingInv'
<1> SUFFICES ASSUME TypeOK, HubInv, ClosingInv, [Next]_vars,
                    NEW s \in closing' \cup complete'
             PROVE  streamAt'[s] \in {"registered", "streaming", "ended"}
  BY DEF ClosingInv
<1>1. s \in Streams /\ s \in closing \cup complete \cup registered
  <2> USE DEF TypeOK, serverVars, streamVars, pubVars, listenerVars
  <2> DEFINE Goal == s \in closing \cup complete \cup registered
  <2>1. ASSUME NEW r \in Streams, NEW filter \in Filters, Listen(r, filter) PROVE Goal
    BY <2>1 DEF Listen
  <2>2. ASSUME NEW r \in Streams, StreamStep(r) \/ WriteEvent(r) \/ WriteCompletion(r) PROVE Goal
    BY <2>2 DEF StreamStep, Register, Acknowledge, Disconnected, EndStream, WriteEvent, WriteCompletion
  <2>3. ASSUME NEW r \in Streams, Complete(r) \/ HangUp(r) PROVE Goal
    BY <2>3 DEF Complete, HangUp
  <2>4. ASSUME NEW p \in Publishers, PublisherStep(p) PROVE Goal
    BY <2>4 DEF PublisherStep, Snapshot, Published, Notify
  <2>5. ASSUME NEW p \in Publishers, NEW t \in Topics, Change(p, t) PROVE Goal
    BY <2>5 DEF Change
  <2>6. ASSUME NEW r \in Streams, NEW t \in Topics, Read(r, t) PROVE Goal
    BY <2>6 DEF Read
  <2>7. ASSUME NEW t \in Topics, Expire(t) PROVE Goal
    BY <2>7 DEF Expire
  <2>8. CASE StartClosing
    BY <2>8 DEF StartClosing
  <2>9. CASE UNCHANGED vars
    BY <2>9 DEF vars
  <2>10. QED
    BY <2>1, <2>2, <2>3, <2>4, <2>5, <2>6, <2>7, <2>8, <2>9 DEF Next
<1>2. streamAt[s] \in {"registered", "streaming", "ended"}
  BY <1>1 DEF ClosingInv, HubInv
<1>3. QED
  BY <1>1, <1>2, StreamMoves

\* The same in every behaviour.
LEMMA ClosingInvariant == Spec => []ClosingInv
<1>1. Init => ClosingInv
  BY DEF Init, ClosingInv
<1>2. QED
  BY <1>1, ClosingInvStep, HubInvariant, PTL DEF Spec

----------------------------------------------------------------------------
\* What fairness says of an attentive stream, and what is possible for it.
LEMMA StreamFair ==
  ASSUME NEW s \in Attentive
  PROVE  /\ s \in Streams
         /\ FairSpec => Spec /\ HandlerRuns(s) /\ ClosingRuns(s)
         /\ NobodyWaits => (s \in closing => CanComplete(s))
         /\ NobodyWaits => (s \in registered /\ (streamAt[s] = "registered" \/ s \in hungUp) => CanAdvance(s))
         /\ NobodyWaits => (s \in registered /\ streamAt[s] = "streaming" /\ s \in complete => CanWriteCompletion(s))
<1>1. s \in Streams
  BY AttentiveAssumption
<1>2. FairSpec => Spec /\ HandlerRuns(s) /\ ClosingRuns(s)
  BY <1>1 DEF FairSpec
<1>3. QED
  BY <1>1, <1>2 DEF NobodyWaits

\* What the handler's own step does to a registered stream.
LEMMA StreamAdvances ==
  ASSUME TypeOK, NEW s \in Streams, StreamStep(s)
  PROVE  /\ streamAt[s] = "registered" => streamAt'[s] \in {"streaming", "ended"}
         /\ streamAt[s] = "streaming" => streamAt'[s] = "ended"
  BY DEF StreamStep, Register, Acknowledge, Disconnected, EndStream, TypeOK, StreamPoints

\* The server forgets every stream whose client hangs up while it still reads:
\* acknowledging a hung-up client does not save its subscription.
THEOREM DisconnectsAreNoticed == FairSpec /\ []NobodyWaits => HangUpForgotten
<1>1. ASSUME NEW s \in Attentive
      PROVE  FairSpec /\ []NobodyWaits => (s \in hungUp ~> s \notin registered)
  <2> DEFINE Gone == s \notin registered
             Hung == s \in hungUp
             Known == streamAt[s] = "registered"
             Told == streamAt[s] = "streaming"
             Inv == TypeOK /\ HubInv
  <2>0. s \in Streams
    BY StreamFair
  <2>1. Inv => Gone \/ Known \/ Told
    BY <2>0 DEF HubInv
  <2>2. Inv => (Known \/ Told <=> ~Gone)
    BY <2>0 DEF HubInv
  <2>3. Inv /\ Inv' /\ [Next]_vars => /\ Hung => Hung'
                                      /\ Known => Known' \/ Told' \/ Gone'
                                      /\ Told => Told' \/ Gone'
    <3> SUFFICES ASSUME Inv, Inv', [Next]_vars
                 PROVE  /\ Hung => Hung'
                        /\ Known => Known' \/ Told' \/ Gone'
                        /\ Told => Told' \/ Gone'
      OBVIOUS
    <3>1. QED
      BY <2>0, StreamMoves DEF HubInv
  <2>4. Inv /\ Inv' /\ <<StreamStep(s)>>_vars => (Known => Told' \/ Gone') /\ (Told => Gone')
    <3> SUFFICES ASSUME Inv, Inv', StreamStep(s)
                 PROVE  (Known => Told' \/ Gone') /\ (Told => Gone')
      OBVIOUS
    <3>1. QED
      BY <2>0, StreamAdvances DEF HubInv
  <2>5. NobodyWaits => (~Gone /\ Hung => CanAdvance(s))
    BY StreamFair
  <2>6. FairSpec => Spec /\ HandlerRuns(s)
    BY StreamFair
  <2>7. Spec => []Inv
    BY HubInvariant, PTL
  <2> HIDE DEF Gone, Hung, Known, Told, Inv
  <2>8. FairSpec /\ []NobodyWaits => (Hung ~> Gone)
    BY <2>1, <2>2, <2>3, <2>4, <2>5, <2>6, <2>7, PTL DEF Spec, HandlerRuns, CanAdvance
  <2>9. QED
    BY <2>8 DEF Hung, Gone
<1>2. QED
  BY <1>1 DEF HangUpForgotten

\* CloseSubscriptions ends every stream it has found, although it completes them
\* one by one and a stream may be acknowledged, or hang up, in between.
THEOREM ClosingEndsStreams == FairSpec /\ []NobodyWaits => ClosingCompletes
<1>1. ASSUME NEW s \in Attentive
      PROVE  FairSpec /\ []NobodyWaits => (s \in closing ~> streamAt[s] = "ended")
  <2> DEFINE Closing == s \in closing
             Completed == s \in complete
             Known == streamAt[s] = "registered"
             Told == streamAt[s] = "streaming"
             Ended == streamAt[s] = "ended"
             Inv == TypeOK /\ HubInv /\ ClosingInv
  <2>0. s \in Streams
    BY StreamFair
  <2>1. Inv => (Closing \/ Completed => Known \/ Told \/ Ended)
    BY DEF ClosingInv
  <2>2. Inv => (Known \/ Told => s \in registered)
    BY <2>0 DEF HubInv
  <2>3. Inv /\ [Next]_vars => /\ Closing => Closing' \/ Completed'
                              /\ Completed => Completed'
                              /\ Known => Known' \/ Told' \/ Ended'
                              /\ Told => Told' \/ Ended'
    <3> SUFFICES ASSUME Inv, [Next]_vars
                 PROVE  /\ Closing => Closing' \/ Completed'
                        /\ Completed => Completed'
                        /\ Known => Known' \/ Told' \/ Ended'
                        /\ Told => Told' \/ Ended'
      OBVIOUS
    <3>1. QED
      BY <2>0, StreamMoves
  <2>4. Inv /\ <<StreamStep(s)>>_vars => (Known => Told' \/ Ended')
    <3> SUFFICES ASSUME Inv, StreamStep(s) PROVE Known => Told' \/ Ended'
      OBVIOUS
    <3>1. QED
      BY <2>0, StreamAdvances
  <2>5. <<Complete(s)>>_vars => Completed'
    BY DEF Complete
  <2>6. Inv /\ <<WriteCompletion(s)>>_vars => Ended'
    BY <2>0 DEF WriteCompletion, EndStream, TypeOK
  <2>7. Inv /\ NobodyWaits => /\ Closing => CanComplete(s)
                              /\ Known => CanAdvance(s)
                              /\ Told /\ Completed => CanWriteCompletion(s)
    BY <2>2, StreamFair
  <2>8. FairSpec => Spec /\ HandlerRuns(s) /\ ClosingRuns(s)
    BY StreamFair
  <2>9. Spec => []Inv
    BY HubInvariant, ClosingInvariant, PTL
  <2> HIDE DEF Closing, Completed, Known, Told, Ended, Inv
  <2>10. FairSpec /\ []NobodyWaits => (Closing ~> Ended)
    BY <2>1, <2>3, <2>4, <2>5, <2>6, <2>7, <2>8, <2>9, PTL
       DEF Spec, HandlerRuns, ClosingRuns, CanComplete, CanAdvance, CanWriteCompletion
  <2>11. QED
    BY <2>10 DEF Closing, Ended
<1>2. QED
  BY <1>1 DEF ClosingCompletes

----------------------------------------------------------------------------
\* How the news of a change of t comes to the listener of t alone: from the
\* publisher to its snapshot, into the channel, to the listener.

\* The publisher p has changed t, or has yet to tell s of it.
HasChanged(p, t) == pubAt[p] = "changed" /\ pubTopic[p] = t
HasToTell(p, s, t) == pubAt[p] = "notifying" /\ pubTopic[p] = t /\ s \in targets[p]

\* No step loses the news (the stages of UpToDateOrOwed, each with its successor).
LEMMA NewsMoves ==
  ASSUME TypeOK, HubInv, [Next]_vars, NEW s \in Streams, NEW t \in Topics,
         streamAt[s] = "streaming", agreed[s] = {t}
  PROVE  /\ t \in stale[s] => t \in stale'[s] \/ Current(s, t)'
         /\ events[s] = t => events'[s] = t \/ t \in stale'[s]
         /\ \A p \in Publishers : HasChanged(p, t) => HasChanged(p, t)' \/ HasToTell(p, s, t)'
         /\ \A p \in Publishers : HasToTell(p, s, t) => HasToTell(p, s, t)' \/ events'[s] = t
<1> USE DEF TypeOK, HubInv, HasChanged, HasToTell, Current, serverVars, streamVars, pubVars, listenerVars
<1> DEFINE Goal ==
         /\ t \in stale[s] => t \in stale'[s] \/ Current(s, t)'
         /\ events[s] = t => events'[s] = t \/ t \in stale'[s]
         /\ \A p \in Publishers : HasChanged(p, t) => HasChanged(p, t)' \/ HasToTell(p, s, t)'
         /\ \A p \in Publishers : HasToTell(p, s, t) => HasToTell(p, s, t)' \/ events'[s] = t
<1>1. ASSUME NEW r \in Streams, NEW filter \in Filters, Listen(r, filter) PROVE Goal
  BY <1>1 DEF Listen
<1>2. ASSUME NEW r \in Streams, StreamStep(r) PROVE Goal
  BY <1>2 DEF StreamStep, Register, Acknowledge, Disconnected, EndStream
<1>3. ASSUME NEW r \in Streams, WriteEvent(r) \/ WriteCompletion(r) PROVE Goal
  <2>1. CASE WriteCompletion(r)
    BY <2>1 DEF WriteCompletion, EndStream
  <2>2. CASE WriteEvent(r)
    BY <2>2 DEF WriteEvent
  <2>3. QED
    BY <1>3, <2>1, <2>2
<1>4. ASSUME NEW r \in Streams, Complete(r) \/ HangUp(r) PROVE Goal
  BY <1>4 DEF Complete, HangUp
<1>5. ASSUME NEW p \in Publishers, Snapshot(p) PROVE Goal
  <2>1. pubTopic[p] = t => s \in targets'[p]
    BY <1>5, TopicsAssumption DEF Interested, Snapshot, Topics
  <2>2. QED
    BY <1>5, <2>1 DEF Snapshot
<1>6. ASSUME NEW p \in Publishers, NEW r \in Streams, Notify(p, r) PROVE Goal
  <2>1. r = s => events'[s] = t
    BY <1>6, TopicsAssumption DEF Notify
  <2>2. r # s => events'[s] = events[s]
    BY <1>6 DEF Notify
  <2>3. QED
    BY <1>6, <2>1, <2>2 DEF Notify
<1>7. ASSUME NEW p \in Publishers, Published(p) PROVE Goal
  BY <1>7 DEF Published
<1>8. ASSUME NEW p \in Publishers, NEW u \in Topics, Change(p, u) PROVE Goal
  BY <1>8 DEF Change
<1>9. ASSUME NEW r \in Streams, NEW u \in Topics, Read(r, u) PROVE Goal
  BY <1>9 DEF Read
<1>10. ASSUME NEW u \in Topics, Expire(u) PROVE Goal
  BY <1>10 DEF Expire
<1>11. CASE StartClosing
  BY <1>11 DEF StartClosing
<1>12. CASE UNCHANGED vars
  BY <1>12 DEF vars
<1>13. QED
  BY <1>1, <1>2, <1>3, <1>4, <1>5, <1>6, <1>7, <1>8, <1>9, <1>10, <1>11, <1>12 DEF Next, PublisherStep

\* The listener of one topic learns every change of it (of a catalog, since its
\* registration) unless it hangs up or is completed, whatever number of
\* publishers and streams there is and however many events are dropped.
THEOREM EveryChangeIsLearned == FairSpec /\ []NobodyWaits => ChangesLearned
<1>1. ASSUME NEW s \in Attentive, NEW t \in Topics
      PROVE  FairSpec /\ []NobodyWaits =>
               (streamAt[s] = "streaming" /\ agreed[s] = {t} /\ ~Current(s, t)
                  ~> Current(s, t) \/ s \in complete \/ s \in hungUp)
  <2> DEFINE Following == streamAt[s] = "streaming" /\ agreed[s] = {t}
             Behind == streamAt[s] = "streaming" /\ agreed[s] = {t} /\ ~Current(s, t)
             Done == Current(s, t) \/ s \in complete \/ s \in hungUp
             Stale == t \in stale[s]
             Event == events[s] = t
             Inv == TypeOK /\ HubInv /\ NothingMissed
             Changed(p) == HasChanged(p, t)
             ToTell(p) == HasToTell(p, s, t)
             \* what becomes of a listener that is told by p
             Told(p) == Following /\ (Changed(p) \/ ToTell(p)) => <>(Done \/ (Following /\ Event))
  <2>0. s \in Streams
    BY StreamFair
  <2>1. Inv => (Following => Done \/ Stale \/ Event \/ \E p \in Publishers : Changed(p) \/ ToTell(p))
    BY <2>0 DEF NothingMissed, UpToDateOrOwed, WillNotify, HasChanged, HasToTell
  <2>2. Inv /\ [Next]_vars => (Following => Following' \/ Done')
    <3> SUFFICES ASSUME Inv, [Next]_vars, Following PROVE Following' \/ Done'
      OBVIOUS
    <3>1. QED
      BY <2>0, StreamMoves
  <2>3. Inv /\ [Next]_vars => (Following => (Stale => Stale' \/ Done') /\ (Event => Event' \/ Stale'))
    <3> SUFFICES ASSUME Inv, [Next]_vars, Following
                 PROVE  (Stale => Stale' \/ Done') /\ (Event => Event' \/ Stale')
      OBVIOUS
    <3>1. QED
      BY <2>0, NewsMoves
  <2>4. ASSUME NEW p \in Publishers
        PROVE  Inv /\ [Next]_vars =>
                 (Following => /\ Changed(p) => Changed(p)' \/ ToTell(p)'
                               /\ ToTell(p) => ToTell(p)' \/ Event')
    <3> SUFFICES ASSUME Inv, [Next]_vars, Following
                 PROVE  (Changed(p) => Changed(p)' \/ ToTell(p)') /\ (ToTell(p) => ToTell(p)' \/ Event')
      OBVIOUS
    <3>1. QED
      BY <2>0, NewsMoves
  <2>5. Inv /\ <<Read(s, t)>>_vars => Done'
    BY <2>0 DEF Read, serverVars, TypeOK, Current
  <2>6. Inv /\ <<WriteEvent(s)>>_vars => (Event => Stale')
    BY <2>0 DEF WriteEvent, TypeOK
  <2>7. ASSUME NEW p \in Publishers
        PROVE  /\ Inv /\ <<Snapshot(p) \/ Published(p)>>_vars => ~Changed(p)'
               /\ Inv /\ <<Notify(p, s)>>_vars => ~ToTell(p)'
    <3>1. Inv /\ <<Snapshot(p) \/ Published(p)>>_vars => ~Changed(p)'
      BY DEF Snapshot, Published, TypeOK, HasChanged
    <3>2. Inv /\ <<Notify(p, s)>>_vars => ~ToTell(p)'
      BY DEF Notify, TypeOK, HasToTell
    <3>3. QED
      BY <3>1, <3>2
  <2>8. Inv /\ NobodyWaits => /\ Stale /\ ~Done => CanRead(s, t)
                              /\ Following /\ Event => CanWriteEvent(s)
    BY <2>0, TopicsAssumption DEF NobodyWaits, HubInv
  <2>9. ASSUME NEW p \in Publishers
        PROVE  NobodyWaits => (Changed(p) => CanSnapshot(p)) /\ (ToTell(p) => CanTell(p, s))
    BY DEF NobodyWaits, HasChanged, HasToTell
  <2>10. FairSpec => Spec /\ HandlerRuns(s) /\ ListenerReads(s, t)
    BY DEF FairSpec
  <2>11. ASSUME NEW p \in Publishers
         PROVE  FairSpec => Spec /\ PublisherRuns(p) /\ TellsEach(p, s)
    BY <2>0 DEF FairSpec
  <2>12. Spec => []Inv
    BY HubInvariant, PTL
  <2>13. Behind => Following
    OBVIOUS
  <2> HIDE DEF Following, Behind, Done, Stale, Event, Inv, Changed, ToTell
  <2>14. ASSUME NEW p \in Publishers
         PROVE  FairSpec /\ []NobodyWaits => []Told(p)
    BY <2>2, <2>4, <2>7, <2>9, <2>11, <2>12, PTL
       DEF Spec, PublisherRuns, TellsEach, CanSnapshot, CanTell
  <2>15. FairSpec /\ []NobodyWaits => [](\A p \in Publishers : Told(p))
    <3>1. FairSpec /\ []NobodyWaits => \A p \in Publishers : []Told(p)
      BY <2>14
    <3>2. (\A p \in Publishers : []Told(p)) => [](\A p \in Publishers : Told(p))
      OBVIOUS
    <3>3. QED
      BY <3>1, <3>2, PTL
  <2>16. (\A p \in Publishers : Told(p)) =>
           (Following /\ (\E p \in Publishers : Changed(p) \/ ToTell(p)) => <>(Done \/ (Following /\ Event)))
    OBVIOUS
  <2>17. FairSpec /\ []NobodyWaits => (Behind ~> Done)
    BY <2>1, <2>2, <2>3, <2>5, <2>6, <2>8, <2>10, <2>12, <2>13, <2>15, <2>16, PTL
       DEF Spec, HandlerRuns, ListenerReads, CanRead, CanWriteEvent
  <2>18. QED
    BY <2>17 DEF Behind, Done
<1>2. QED
  BY <1>1 DEF ChangesLearned

=============================================================================
