----------------------- MODULE StdioConnectionProofs -----------------------
(***************************************************************************)
(* Proofs about StdioConnection, for any number of request IDs, handler    *)
(* goroutines and subscriptions.                                           *)
(***************************************************************************)
EXTENDS StdioConnection, FiniteSetTheorems, TLAPS

\* The reader holds an ID, a call or a subscription exactly while it needs it.
ReaderOK ==
  /\ readerID # None <=>
       readerAt \in {"callRegistered", "listenRegistered", "listenSubscribed",
                     "listenStored", "cancelMarked"}
  /\ readerCall # None <=> readerAt = "callRegistered"
  /\ readerSub # None <=> readerAt \in {"listenSubscribed", "listenStored", "cancelRemoved"}

TypeInv == TypeOK /\ ReaderOK

\* What the point a handler goroutine is at says about its call object.
CallInv ==
  /\ \A c \in Calls : c \in executionSlots <=> callAt[c] # "free"
  /\ \A c \in Calls : callAt[c] = "free" =>
       callID[c] = None /\ c \notin cancelled /\ c \notin answered
  /\ \A c \in Calls : c \in answered => callAt[c] \in {"finished", "removed"} /\ c \notin cancelled
  /\ \A c \in Calls : callAt[c] = "accepted" <=> readerCall = c
  /\ readerCall # None => callID[readerCall] = readerID

SlotInv == IsFiniteSet(executionSlots) /\ Cardinality(executionSlots) <= MaxConcurrent

\* The tables name live objects under their own ID.
TableInv ==
  /\ \A id \in RequestIds : activeCalls[id] # None =>
       /\ callID[activeCalls[id]] = id
       /\ callAt[activeCalls[id]] \in {"handling", "returned", "failed", "finished"}
  /\ \A c \in activeNotifications :
       callID[c] = None /\ callAt[c] \in {"handling", "returned", "failed", "finished"}
  /\ \A id \in RequestIds : activeSubscriptions[id] # None =>
       /\ subID[activeSubscriptions[id]] = id
       /\ subAt[activeSubscriptions[id]] \in {"subscribed", "streaming", "stopping"}
  /\ \A s \in Subs : subAt[s] = "subscribed" <=>
       readerAt \in {"listenSubscribed", "listenStored"} /\ readerSub = s
  /\ readerAt \in {"listenSubscribed", "listenStored"} => subID[readerSub] = readerID
  /\ \A s \in Subs : s \in registered => subAt[s] # "free"
  /\ readerAt = "returned" => \A s \in Subs : subAt[s] = "free"

\* With a client that does not reuse stale IDs: an ID being registered is in
\* activeIDs and in no table, and everything that can still be answered or
\* served is in a table, in the reader's hands or in the shutdown's snapshot.
HolderInv ==
  /\ readerAt \in {"callRegistered", "listenRegistered", "listenSubscribed", "listenStored"} =>
       readerID \in activeIDs /\ activeCalls[readerID] = None
  /\ readerAt \in {"callRegistered", "listenRegistered", "listenSubscribed"} =>
       activeSubscriptions[readerID] = None
  /\ readerAt = "listenStored" => activeSubscriptions[readerID] = readerSub
  /\ \A id \in RequestIds : activeSubscriptions[id] # None =>
       id \in activeIDs /\ activeCalls[id] = None
  /\ \A c \in Calls : callAt[c] \in {"handling", "returned"} /\ c \notin cancelled =>
       \/ Reading /\ callID[c] # None /\ activeCalls[callID[c]] = c
       \/ Reading /\ callID[c] = None /\ c \in activeNotifications
       \/ readerAt \in {"grace", "cancelling"} /\ c \in leaving
  /\ \A s \in Subs : subAt[s] = "streaming" /\ s \notin done =>
       \/ subID[s] # None /\ activeSubscriptions[subID[s]] = s
       \/ readerAt = "cancelRemoved" /\ readerSub = s
       \/ readerAt = "unsubscribing" /\ s \in leaving

\* With a client that does not reuse stale IDs: the ID of everything that can be
\* answered or served counts against the limit, or has been given back by the
\* cancellation in progress.
HeldInv ==
  /\ \A c \in Calls : CanAnswer(c) /\ callID[c] # None => callID[c] \in activeIDs
  /\ \A s \in Subs : Serving(s) =>
       subID[s] \in activeIDs \/ (readerAt = "cancelRemoved" /\ readerSub = s)
  /\ readerAt = "cancelMarked" => \A c \in Calls : CanAnswer(c) => callID[c] # readerID
  /\ \A id \in RequestIds, c \in Calls :
       activeSubscriptions[id] # None /\ CanAnswer(c) => callID[c] # id
  /\ ~Reading => \A id \in RequestIds : activeCalls[id] = None
  /\ readerAt \in {"unsubscribing", "returned"} =>
       \A id \in RequestIds : activeSubscriptions[id] = None

\* The limit on active IDs, with the one a cancellation has just given back.
LimitInv ==
  Cardinality(activeIDs) + (IF readerAt = "cancelRemoved" THEN 1 ELSE 0) <= MaxActiveIDs

\* Where the news of a failed write is until Serve's result holds it.
ErrorInv ==
  /\ readerAt \notin {"ended", "grace", "cancelling", "draining", "unsubscribing", "returned"} => ~serveErr
  /\ writeFailed =>
       \/ serveErr \/ requestErrors
       \/ \E c \in Calls : callAt[c] = "failed"
       \/ readerAt = "returned" /\ deadlineExpired
  /\ readerAt \in {"unsubscribing", "returned"} => executionSlots = {} \/ deadlineExpired
  /\ readerAt = "returned" /\ requestErrors => serveErr \/ deadlineExpired

----------------------------------------------------------------------------
\* The initial state is well typed and its reader idle.
LEMMA TypeInvInit == Init => TypeInv
BY ObjectsAssumption DEF TypeInv, TypeOK, ReaderOK, CallPoints, SubPoints, ReaderPoints, Init

\* Every step keeps the state well typed and the reader's request in progress
\* consistent with where the reader is.
LEMMA TypeInvStep == TypeInv /\ [Next]_vars => TypeInv'
<1> SUFFICES ASSUME TypeInv, [Next]_vars PROVE TypeInv'
  OBVIOUS
<1> USE ObjectsAssumption DEF TypeInv, TypeOK, ReaderOK, CallPoints, SubPoints, ReaderPoints, vars, tableVars, callVars, subVars, readerVars, shutdownVars, wireVars
<1>1. ASSUME NEW id \in RequestIds, ReadCall(id) PROVE TypeInv'
  BY <1>1 DEF ReadCall, HasLine, ClientMayUse, SlotFree, Registrable
<1>2. ASSUME NEW id \in RequestIds, ReadCancel(id) PROVE TypeInv'
  BY <1>2 DEF ReadCancel, HasLine, Finished
<1>3. ASSUME NEW id \in RequestIds, ReadListen(id) PROVE TypeInv'
  BY <1>3 DEF ReadListen, HasLine, ClientMayUse, Registrable
<1>4. CASE InlineReplyFails
  BY <1>4 DEF InlineReplyFails, HasLine, LeaveLoop
<1>5. CASE StartCall
  BY <1>5 DEF StartCall, BackToScan
<1>6. CASE ReadNotification
  BY <1>6 DEF ReadNotification, HasLine, SlotFree
<1>7. CASE CancelRemove
  BY <1>7 DEF CancelRemove, RemoveSubscription, FoundSubscription
<1>8. CASE CancelUnsubscribe
  BY <1>8 DEF CancelUnsubscribe, Unsubscribe, BackToScan
<1>9. CASE ListenRefused
  BY <1>9 DEF ListenRefused, BackToScan, LeaveLoop, ReleaseID
<1>10. CASE Subscribe
  BY <1>10 DEF Subscribe
<1>11. CASE StoreSubscription
  BY <1>11 DEF StoreSubscription
<1>12. CASE Acknowledge
  BY <1>12 DEF Acknowledge, BackToScan
<1>13. CASE AcknowledgeFails
  BY <1>13 DEF AcknowledgeFails, Unsubscribe, RemoveSubscription, Discard, LeaveLoop
<1>14. CASE ContextEndsLoop
  BY <1>14 DEF ContextEndsLoop, LeaveLoop
<1>15. CASE InputEndsLoop
  BY <1>15 DEF InputEndsLoop, LeaveLoop
<1>16. CASE SnapshotCalls
  BY <1>16 DEF SnapshotCalls, Stored
<1>17. CASE Deadline
  BY <1>17 DEF Deadline
<1>18. CASE EndGrace
  BY <1>18 DEF EndGrace, Drained
<1>19. CASE AllCancelled
  BY <1>19 DEF AllCancelled
<1>20. CASE SnapshotSubscriptions
  BY <1>20 DEF SnapshotSubscriptions, Stored, Drained
<1>21. CASE Return
  BY <1>21 DEF Return, WritersDone
<1>22. ASSUME NEW s \in Subs, CloseSubscription(s) PROVE TypeInv'
  BY <1>22 DEF CloseSubscription
<1>23. CASE EndInput
  BY <1>23 DEF EndInput
<1>24. CASE BreakOutput
  BY <1>24 DEF BreakOutput
<1>25. CASE CancelContext
  BY <1>25 DEF CancelContext
<1>26. ASSUME NEW c \in Calls, CancelLeaving(c) PROVE TypeInv'
  BY <1>26 DEF CancelLeaving, Finished
<1>27. ASSUME NEW c \in Calls, HandleReturns(c) PROVE TypeInv'
  BY <1>27 DEF HandleReturns
<1>28. ASSUME NEW c \in Calls, FinishSilently(c) PROVE TypeInv'
  BY <1>28 DEF FinishSilently, MustNotAnswer
<1>29. ASSUME NEW c \in Calls, Respond(c) PROVE TypeInv'
  BY <1>29 DEF Respond, MustNotAnswer
<1>30. ASSUME NEW c \in Calls, RespondFails(c) PROVE TypeInv'
  BY <1>30 DEF RespondFails, MustNotAnswer
<1>31. ASSUME NEW c \in Calls, ReportResponseError(c) PROVE TypeInv'
  BY <1>31 DEF ReportResponseError, ReportAsyncError
<1>32. ASSUME NEW c \in Calls, RemoveCall(c) PROVE TypeInv'
  BY <1>32 DEF RemoveCall
<1>33. ASSUME NEW c \in Calls, ReleaseSlot(c) PROVE TypeInv'
  BY <1>33 DEF ReleaseSlot
<1>34. ASSUME NEW s \in Subs, UnsubscribeLeaving(s) PROVE TypeInv'
  BY <1>34 DEF UnsubscribeLeaving, Unsubscribe
<1>35. ASSUME NEW s \in Subs, WriterStops(s) PROVE TypeInv'
  BY <1>35 DEF WriterStops
<1>36. ASSUME NEW s \in Subs, WriterCompletes(s) PROVE TypeInv'
  BY <1>36, ZenonT(60) DEF WriterCompletes, WriterFails, ReportAsyncError
<1>37. ASSUME NEW s \in Subs, WriterForwards(s) PROVE TypeInv'
  BY <1>37, ZenonT(60) DEF WriterForwards, WriterFails, ReportAsyncError
<1>38. ASSUME NEW s \in Subs, WriterRemoves(s) PROVE TypeInv'
  BY <1>38 DEF WriterRemoves, RemoveSubscription
<1>39. ASSUME NEW s \in Subs, WriterExits(s) PROVE TypeInv'
  BY <1>39 DEF WriterExits, Unsubscribe, Discard
<1>40. ASSUME NEW s \in Subs, Notify(s) PROVE TypeInv'
  BY <1>40 DEF Notify
<1>41. CASE UNCHANGED vars
  BY <1>41
<1>42. QED
  BY <1>1, <1>2, <1>3, <1>4, <1>5, <1>6, <1>7, <1>8, <1>9, <1>10, <1>11, <1>12, <1>13, <1>14, <1>15, <1>16, <1>17, <1>18, <1>19, <1>20,
     <1>21, <1>22, <1>23, <1>24, <1>25, <1>26, <1>27, <1>28, <1>29, <1>30, <1>31, <1>32, <1>33, <1>34, <1>35, <1>36, <1>37, <1>38, <1>39, <1>40, <1>41
  DEF Next, ReadRequest, ReaderStep, Shutdown, CallStep, WriterStep, Environment, Terminated

\* Type correctness: every variable keeps the type its Go declaration gives it.
THEOREM TypeCorrect == Spec => []TypeOK
<1>1. TypeInv => TypeOK
  BY DEF TypeInv
<1>2. QED
  BY <1>1, TypeInvInit, TypeInvStep, PTL DEF Spec

----------------------------------------------------------------------------
\* No call object is in use initially.
LEMMA CallInvInit == Init => CallInv
BY ObjectsAssumption DEF TypeInv, TypeOK, ReaderOK, CallPoints, SubPoints, ReaderPoints, CallInv, Init

\* Every step keeps a call object's sets in line with where its goroutine is.
\* The readers and writers of cancelled and answered exclude each other through
\* call.mu: marking tests finished, answering tests cancelled.
LEMMA CallInvStep == TypeInv /\ CallInv /\ [Next]_vars => CallInv'
<1> SUFFICES ASSUME TypeInv, CallInv, [Next]_vars PROVE CallInv'
  OBVIOUS
<1> USE ObjectsAssumption DEF TypeInv, TypeOK, ReaderOK, CallPoints, SubPoints, ReaderPoints, CallInv, vars, tableVars, callVars, subVars, readerVars, shutdownVars, wireVars
<1>1. ASSUME NEW id \in RequestIds, ReadCall(id) PROVE CallInv'
  BY <1>1 DEF ReadCall, HasLine, ClientMayUse, SlotFree, Registrable
<1>2. ASSUME NEW id \in RequestIds, ReadCancel(id) PROVE CallInv'
  BY <1>2 DEF ReadCancel, HasLine, Finished
<1>3. ASSUME NEW id \in RequestIds, ReadListen(id) PROVE CallInv'
  BY <1>3 DEF ReadListen, HasLine, ClientMayUse, Registrable
<1>4. CASE InlineReplyFails
  BY <1>4 DEF InlineReplyFails, HasLine, LeaveLoop
<1>5. CASE StartCall
  BY <1>5 DEF StartCall, BackToScan
<1>6. CASE ReadNotification
  BY <1>6 DEF ReadNotification, HasLine, SlotFree
<1>7. CASE CancelRemove
  BY <1>7 DEF CancelRemove, RemoveSubscription, FoundSubscription
<1>8. CASE CancelUnsubscribe
  BY <1>8 DEF CancelUnsubscribe, Unsubscribe, BackToScan
<1>9. CASE ListenRefused
  BY <1>9 DEF ListenRefused, BackToScan, LeaveLoop, ReleaseID
<1>10. CASE Subscribe
  BY <1>10 DEF Subscribe
<1>11. CASE StoreSubscription
  BY <1>11 DEF StoreSubscription
<1>12. CASE Acknowledge
  BY <1>12 DEF Acknowledge, BackToScan
<1>13. CASE AcknowledgeFails
  BY <1>13 DEF AcknowledgeFails, Unsubscribe, RemoveSubscription, Discard, LeaveLoop
<1>14. CASE ContextEndsLoop
  BY <1>14 DEF ContextEndsLoop, LeaveLoop
<1>15. CASE InputEndsLoop
  BY <1>15 DEF InputEndsLoop, LeaveLoop
<1>16. CASE SnapshotCalls
  BY <1>16 DEF SnapshotCalls, Stored
<1>17. CASE Deadline
  BY <1>17 DEF Deadline
<1>18. CASE EndGrace
  BY <1>18 DEF EndGrace, Drained
<1>19. CASE AllCancelled
  BY <1>19 DEF AllCancelled
<1>20. CASE SnapshotSubscriptions
  BY <1>20 DEF SnapshotSubscriptions, Stored, Drained
<1>21. CASE Return
  BY <1>21 DEF Return, WritersDone
<1>22. ASSUME NEW s \in Subs, CloseSubscription(s) PROVE CallInv'
  BY <1>22 DEF CloseSubscription
<1>23. CASE EndInput
  BY <1>23 DEF EndInput
<1>24. CASE BreakOutput
  BY <1>24 DEF BreakOutput
<1>25. CASE CancelContext
  BY <1>25 DEF CancelContext
<1>26. ASSUME NEW c \in Calls, CancelLeaving(c) PROVE CallInv'
  BY <1>26 DEF CancelLeaving, Finished
<1>27. ASSUME NEW c \in Calls, HandleReturns(c) PROVE CallInv'
  BY <1>27 DEF HandleReturns
<1>28. ASSUME NEW c \in Calls, FinishSilently(c) PROVE CallInv'
  BY <1>28 DEF FinishSilently, MustNotAnswer
<1>29. ASSUME NEW c \in Calls, Respond(c) PROVE CallInv'
  BY <1>29 DEF Respond, MustNotAnswer
<1>30. ASSUME NEW c \in Calls, RespondFails(c) PROVE CallInv'
  BY <1>30 DEF RespondFails, MustNotAnswer
<1>31. ASSUME NEW c \in Calls, ReportResponseError(c) PROVE CallInv'
  BY <1>31 DEF ReportResponseError, ReportAsyncError
<1>32. ASSUME NEW c \in Calls, RemoveCall(c) PROVE CallInv'
  BY <1>32 DEF RemoveCall
<1>33. ASSUME NEW c \in Calls, ReleaseSlot(c) PROVE CallInv'
  BY <1>33 DEF ReleaseSlot
<1>34. ASSUME NEW s \in Subs, UnsubscribeLeaving(s) PROVE CallInv'
  BY <1>34 DEF UnsubscribeLeaving, Unsubscribe
<1>35. ASSUME NEW s \in Subs, WriterStops(s) PROVE CallInv'
  BY <1>35 DEF WriterStops
<1>36. ASSUME NEW s \in Subs, WriterCompletes(s) PROVE CallInv'
  BY <1>36 DEF WriterCompletes, WriterFails, ReportAsyncError
<1>37. ASSUME NEW s \in Subs, WriterForwards(s) PROVE CallInv'
  BY <1>37 DEF WriterForwards, WriterFails, ReportAsyncError
<1>38. ASSUME NEW s \in Subs, WriterRemoves(s) PROVE CallInv'
  BY <1>38 DEF WriterRemoves, RemoveSubscription
<1>39. ASSUME NEW s \in Subs, WriterExits(s) PROVE CallInv'
  BY <1>39 DEF WriterExits, Unsubscribe, Discard
<1>40. ASSUME NEW s \in Subs, Notify(s) PROVE CallInv'
  BY <1>40 DEF Notify
<1>41. CASE UNCHANGED vars
  BY <1>41
<1>42. QED
  BY <1>1, <1>2, <1>3, <1>4, <1>5, <1>6, <1>7, <1>8, <1>9, <1>10, <1>11, <1>12, <1>13, <1>14, <1>15, <1>16, <1>17, <1>18, <1>19, <1>20,
     <1>21, <1>22, <1>23, <1>24, <1>25, <1>26, <1>27, <1>28, <1>29, <1>30, <1>31, <1>32, <1>33, <1>34, <1>35, <1>36, <1>37, <1>38, <1>39, <1>40, <1>41
  DEF Next, ReadRequest, ReaderStep, Shutdown, CallStep, WriterStep, Environment, Terminated

\* CallInv holds throughout.
LEMMA CallInvariant == Spec => [](TypeInv /\ CallInv)
BY TypeInvInit, TypeInvStep, CallInvInit, CallInvStep, PTL DEF Spec

\* A call whose cancellation has been recorded has no final response on the
\* wire, and an answered call is never marked cancelled.
THEOREM CancelledNeverAnswered == Spec => []CancelledNotAnswered
<1>1. TypeInv /\ CallInv => CancelledNotAnswered
  BY DEF TypeInv, TypeOK, CallInv, CancelledNotAnswered
<1>2. QED
  BY <1>1, CallInvariant, PTL

----------------------------------------------------------------------------
\* Initially no slot is taken.
LEMMA SlotInvInit == Init => SlotInv
BY LimitsAssumption, FS_EmptySet DEF Init, SlotInv

\* A step takes at most one slot, and only when one is left.
LEMMA SlotInvStep == TypeInv /\ SlotInv /\ [Next]_vars => SlotInv'
<1> SUFFICES ASSUME TypeInv, SlotInv, [Next]_vars PROVE SlotInv'
  OBVIOUS
<1> USE DEF SlotInv
<1>1. ASSUME NEW c \in Calls, executionSlots' = executionSlots \cup {c},
             Cardinality(executionSlots) < MaxConcurrent
      PROVE  SlotInv'
  <2>1. /\ IsFiniteSet(executionSlots')
        /\ Cardinality(executionSlots') \in {Cardinality(executionSlots),
                                            Cardinality(executionSlots) + 1}
    BY <1>1, FS_AddElement
  <2>2. Cardinality(executionSlots) \in Nat
    BY FS_CardinalityType
  <2>3. QED
    BY <1>1, <2>1, <2>2, LimitsAssumption
<1>2. ASSUME NEW c \in Calls, executionSlots' = executionSlots \ {c} PROVE SlotInv'
  <2>1. /\ IsFiniteSet(executionSlots')
        /\ Cardinality(executionSlots') \in {Cardinality(executionSlots),
                                            Cardinality(executionSlots) - 1}
    BY <1>2, FS_RemoveElement
  <2>2. Cardinality(executionSlots) \in Nat
    BY FS_CardinalityType
  <2>3. QED
    BY <2>1, <2>2, LimitsAssumption
<1>3. CASE UNCHANGED executionSlots
  BY <1>3
<1>4. ASSUME NEW id \in RequestIds, ReadCall(id) PROVE SlotInv'
  BY <1>1, <1>4 DEF ReadCall, SlotFree
<1>5. CASE ReadNotification
  BY <1>1, <1>5 DEF ReadNotification, SlotFree
<1>6. ASSUME NEW c \in Calls, ReleaseSlot(c) PROVE SlotInv'
  BY <1>2, <1>6 DEF ReleaseSlot
<1>7. QED
  <2>1. \/ \E id \in RequestIds : ReadCall(id)
        \/ ReadNotification
        \/ \E c \in Calls : ReleaseSlot(c)
        \/ UNCHANGED executionSlots
    BY DEF Next, ReadRequest, ReaderStep, Shutdown, CallStep, WriterStep, Environment, Terminated,
        vars, callVars,
        ReadCancel, ReadListen, InlineReplyFails, StartCall, CancelRemove,
        CancelUnsubscribe, ListenRefused, Subscribe, StoreSubscription, Acknowledge,
        AcknowledgeFails, ContextEndsLoop, InputEndsLoop, SnapshotCalls, Deadline,
        EndGrace, AllCancelled, SnapshotSubscriptions, Return, CloseSubscription,
        EndInput, BreakOutput, CancelContext, CancelLeaving, HandleReturns,
        FinishSilently, Respond, RespondFails, ReportResponseError, RemoveCall,
        UnsubscribeLeaving, WriterStops, WriterCompletes, WriterForwards,
        WriterRemoves, WriterExits, Notify
  <2>2. QED
    BY <1>3, <1>4, <1>5, <1>6, <2>1

\* At most maxConcurrentStdioRequests handler goroutines exist at any time: a
\* goroutine holds its slot from before it starts until it ends.
THEOREM BoundedHandlers == Spec => []HandlersBounded
<1>1. TypeInv /\ CallInv /\ SlotInv => HandlersBounded
  <2> SUFFICES ASSUME TypeInv, CallInv, SlotInv PROVE HandlersBounded
    OBVIOUS
  <2>1. {c \in Calls : callAt[c] # "free"} = executionSlots
    BY DEF TypeInv, TypeOK, CallInv
  <2>2. QED
    BY <2>1 DEF SlotInv, HandlersBounded
<1>2. QED
  BY <1>1, CallInvariant, TypeInvInit, TypeInvStep, SlotInvInit, SlotInvStep, PTL DEF Spec

----------------------------------------------------------------------------
\* The tables are empty initially.
LEMMA TableInvInit == Init => TableInv
BY ObjectsAssumption DEF TypeInv, TypeOK, ReaderOK, CallPoints, SubPoints, ReaderPoints, CallInv, TableInv, Init

\* Every step keeps the tables' entries live: an entry is dropped in the same
\* step in which its object leaves the phases in which it may be named.
LEMMA TableInvStep == TypeInv /\ CallInv /\ TableInv /\ [Next]_vars => TableInv'
<1> SUFFICES ASSUME TypeInv, CallInv, TableInv, [Next]_vars PROVE TableInv'
  OBVIOUS
<1> USE ObjectsAssumption DEF TypeInv, TypeOK, ReaderOK, CallPoints, SubPoints, ReaderPoints, CallInv, TableInv, vars, tableVars, callVars, subVars, readerVars, shutdownVars, wireVars
<1>1. ASSUME NEW id \in RequestIds, ReadCall(id) PROVE TableInv'
  BY <1>1 DEF ReadCall, HasLine, ClientMayUse, SlotFree, Registrable
<1>2. ASSUME NEW id \in RequestIds, ReadCancel(id) PROVE TableInv'
  BY <1>2 DEF ReadCancel, HasLine, Finished
<1>3. ASSUME NEW id \in RequestIds, ReadListen(id) PROVE TableInv'
  BY <1>3 DEF ReadListen, HasLine, ClientMayUse, Registrable
<1>4. CASE InlineReplyFails
  BY <1>4 DEF InlineReplyFails, HasLine, LeaveLoop
<1>5. CASE StartCall
  BY <1>5 DEF StartCall, BackToScan
<1>6. CASE ReadNotification
  BY <1>6 DEF ReadNotification, HasLine, SlotFree
<1>7. CASE CancelRemove
  BY <1>7 DEF CancelRemove, RemoveSubscription, FoundSubscription
<1>8. CASE CancelUnsubscribe
  BY <1>8 DEF CancelUnsubscribe, Unsubscribe, BackToScan
<1>9. CASE ListenRefused
  BY <1>9 DEF ListenRefused, BackToScan, LeaveLoop, ReleaseID
<1>10. CASE Subscribe
  BY <1>10 DEF Subscribe
<1>11. CASE StoreSubscription
  BY <1>11 DEF StoreSubscription
<1>12. CASE Acknowledge
  BY <1>12 DEF Acknowledge, BackToScan
<1>13. CASE AcknowledgeFails
  BY <1>13 DEF AcknowledgeFails, Unsubscribe, RemoveSubscription, Discard, LeaveLoop
<1>14. CASE ContextEndsLoop
  BY <1>14 DEF ContextEndsLoop, LeaveLoop
<1>15. CASE InputEndsLoop
  BY <1>15 DEF InputEndsLoop, LeaveLoop
<1>16. CASE SnapshotCalls
  BY <1>16 DEF SnapshotCalls, Stored
<1>17. CASE Deadline
  BY <1>17 DEF Deadline
<1>18. CASE EndGrace
  BY <1>18 DEF EndGrace, Drained
<1>19. CASE AllCancelled
  BY <1>19 DEF AllCancelled
<1>20. CASE SnapshotSubscriptions
  BY <1>20 DEF SnapshotSubscriptions, Stored, Drained
<1>21. CASE Return
  BY <1>21 DEF Return, WritersDone
<1>22. ASSUME NEW s \in Subs, CloseSubscription(s) PROVE TableInv'
  BY <1>22 DEF CloseSubscription
<1>23. CASE EndInput
  BY <1>23 DEF EndInput
<1>24. CASE BreakOutput
  BY <1>24 DEF BreakOutput
<1>25. CASE CancelContext
  BY <1>25 DEF CancelContext
<1>26. ASSUME NEW c \in Calls, CancelLeaving(c) PROVE TableInv'
  BY <1>26 DEF CancelLeaving, Finished
<1>27. ASSUME NEW c \in Calls, HandleReturns(c) PROVE TableInv'
  BY <1>27 DEF HandleReturns
<1>28. ASSUME NEW c \in Calls, FinishSilently(c) PROVE TableInv'
  BY <1>28 DEF FinishSilently, MustNotAnswer
<1>29. ASSUME NEW c \in Calls, Respond(c) PROVE TableInv'
  BY <1>29 DEF Respond, MustNotAnswer
<1>30. ASSUME NEW c \in Calls, RespondFails(c) PROVE TableInv'
  BY <1>30 DEF RespondFails, MustNotAnswer
<1>31. ASSUME NEW c \in Calls, ReportResponseError(c) PROVE TableInv'
  BY <1>31 DEF ReportResponseError, ReportAsyncError
<1>32. ASSUME NEW c \in Calls, RemoveCall(c) PROVE TableInv'
  BY <1>32 DEF RemoveCall
<1>33. ASSUME NEW c \in Calls, ReleaseSlot(c) PROVE TableInv'
  BY <1>33 DEF ReleaseSlot
<1>34. ASSUME NEW s \in Subs, UnsubscribeLeaving(s) PROVE TableInv'
  BY <1>34 DEF UnsubscribeLeaving, Unsubscribe
<1>35. ASSUME NEW s \in Subs, WriterStops(s) PROVE TableInv'
  BY <1>35 DEF WriterStops
<1>36. ASSUME NEW s \in Subs, WriterCompletes(s) PROVE TableInv'
  BY <1>36 DEF WriterCompletes, WriterFails, ReportAsyncError
<1>37. ASSUME NEW s \in Subs, WriterForwards(s) PROVE TableInv'
  BY <1>37 DEF WriterForwards, WriterFails, ReportAsyncError
<1>38. ASSUME NEW s \in Subs, WriterRemoves(s) PROVE TableInv'
  BY <1>38 DEF WriterRemoves, RemoveSubscription
<1>39. ASSUME NEW s \in Subs, WriterExits(s) PROVE TableInv'
  BY <1>39 DEF WriterExits, Unsubscribe, Discard
<1>40. ASSUME NEW s \in Subs, Notify(s) PROVE TableInv'
  BY <1>40 DEF Notify
<1>41. CASE UNCHANGED vars
  BY <1>41
<1>42. QED
  BY <1>1, <1>2, <1>3, <1>4, <1>5, <1>6, <1>7, <1>8, <1>9, <1>10, <1>11, <1>12, <1>13, <1>14, <1>15, <1>16, <1>17, <1>18, <1>19, <1>20,
     <1>21, <1>22, <1>23, <1>24, <1>25, <1>26, <1>27, <1>28, <1>29, <1>30, <1>31, <1>32, <1>33, <1>34, <1>35, <1>36, <1>37, <1>38, <1>39, <1>40, <1>41
  DEF Next, ReadRequest, ReaderStep, Shutdown, CallStep, WriterStep, Environment, Terminated

\* Every entry of activeCalls and activeSubscriptions is a live object of that ID.
THEOREM LiveEntries == Spec => []EntriesAreLive
<1>1. TypeInv /\ TableInv => EntriesAreLive
  BY ObjectsAssumption DEF TypeInv, TypeOK, TableInv, EntriesAreLive
<1>2. QED
  BY <1>1, TypeInvInit, TypeInvStep, CallInvInit, CallInvStep,
     TableInvInit, TableInvStep, PTL DEF Spec

----------------------------------------------------------------------------
\* No ID is active initially.
LEMMA LeakInvInit == Init => NoLeakedID
BY ObjectsAssumption DEF TypeInv, TypeOK, ReaderOK, CallPoints, SubPoints, ReaderPoints, NoLeakedID, Reading, Init

\* An entry never leaves a table without its ID leaving activeIDs, and an ID
\* that enters activeIDs is the reader's until an entry is stored.
LEMMA LeakInvStep == TypeInv /\ NoLeakedID /\ [Next]_vars => NoLeakedID'
<1> SUFFICES ASSUME TypeInv, NoLeakedID, [Next]_vars PROVE NoLeakedID'
  OBVIOUS
<1> USE ObjectsAssumption DEF TypeInv, TypeOK, ReaderOK, CallPoints, SubPoints, ReaderPoints, NoLeakedID, Reading, vars, tableVars, callVars, subVars, readerVars, shutdownVars, wireVars
<1>1. ASSUME NEW id \in RequestIds, ReadCall(id) PROVE NoLeakedID'
  BY <1>1 DEF ReadCall, HasLine, ClientMayUse, SlotFree, Registrable
<1>2. ASSUME NEW id \in RequestIds, ReadCancel(id) PROVE NoLeakedID'
  BY <1>2 DEF ReadCancel, HasLine, Finished
<1>3. ASSUME NEW id \in RequestIds, ReadListen(id) PROVE NoLeakedID'
  BY <1>3 DEF ReadListen, HasLine, ClientMayUse, Registrable
<1>4. CASE InlineReplyFails
  BY <1>4 DEF InlineReplyFails, HasLine, LeaveLoop
<1>5. CASE StartCall
  BY <1>5 DEF StartCall, BackToScan
<1>6. CASE ReadNotification
  BY <1>6 DEF ReadNotification, HasLine, SlotFree
<1>7. CASE CancelRemove
  BY <1>7 DEF CancelRemove, RemoveSubscription, FoundSubscription
<1>8. CASE CancelUnsubscribe
  BY <1>8 DEF CancelUnsubscribe, Unsubscribe, BackToScan
<1>9. CASE ListenRefused
  BY <1>9 DEF ListenRefused, BackToScan, LeaveLoop, ReleaseID
<1>10. CASE Subscribe
  BY <1>10 DEF Subscribe
<1>11. CASE StoreSubscription
  BY <1>11 DEF StoreSubscription
<1>12. CASE Acknowledge
  BY <1>12 DEF Acknowledge, BackToScan
<1>13. CASE AcknowledgeFails
  BY <1>13 DEF AcknowledgeFails, Unsubscribe, RemoveSubscription, Discard, LeaveLoop
<1>14. CASE ContextEndsLoop
  BY <1>14 DEF ContextEndsLoop, LeaveLoop
<1>15. CASE InputEndsLoop
  BY <1>15 DEF InputEndsLoop, LeaveLoop
<1>16. CASE SnapshotCalls
  BY <1>16 DEF SnapshotCalls, Stored
<1>17. CASE Deadline
  BY <1>17 DEF Deadline
<1>18. CASE EndGrace
  BY <1>18 DEF EndGrace, Drained
<1>19. CASE AllCancelled
  BY <1>19 DEF AllCancelled
<1>20. CASE SnapshotSubscriptions
  BY <1>20 DEF SnapshotSubscriptions, Stored, Drained
<1>21. CASE Return
  BY <1>21 DEF Return, WritersDone
<1>22. ASSUME NEW s \in Subs, CloseSubscription(s) PROVE NoLeakedID'
  BY <1>22 DEF CloseSubscription
<1>23. CASE EndInput
  BY <1>23 DEF EndInput
<1>24. CASE BreakOutput
  BY <1>24 DEF BreakOutput
<1>25. CASE CancelContext
  BY <1>25 DEF CancelContext
<1>26. ASSUME NEW c \in Calls, CancelLeaving(c) PROVE NoLeakedID'
  BY <1>26 DEF CancelLeaving, Finished
<1>27. ASSUME NEW c \in Calls, HandleReturns(c) PROVE NoLeakedID'
  BY <1>27 DEF HandleReturns
<1>28. ASSUME NEW c \in Calls, FinishSilently(c) PROVE NoLeakedID'
  BY <1>28 DEF FinishSilently, MustNotAnswer
<1>29. ASSUME NEW c \in Calls, Respond(c) PROVE NoLeakedID'
  BY <1>29 DEF Respond, MustNotAnswer
<1>30. ASSUME NEW c \in Calls, RespondFails(c) PROVE NoLeakedID'
  BY <1>30 DEF RespondFails, MustNotAnswer
<1>31. ASSUME NEW c \in Calls, ReportResponseError(c) PROVE NoLeakedID'
  BY <1>31 DEF ReportResponseError, ReportAsyncError
<1>32. ASSUME NEW c \in Calls, RemoveCall(c) PROVE NoLeakedID'
  BY <1>32 DEF RemoveCall
<1>33. ASSUME NEW c \in Calls, ReleaseSlot(c) PROVE NoLeakedID'
  BY <1>33 DEF ReleaseSlot
<1>34. ASSUME NEW s \in Subs, UnsubscribeLeaving(s) PROVE NoLeakedID'
  BY <1>34 DEF UnsubscribeLeaving, Unsubscribe
<1>35. ASSUME NEW s \in Subs, WriterStops(s) PROVE NoLeakedID'
  BY <1>35 DEF WriterStops
<1>36. ASSUME NEW s \in Subs, WriterCompletes(s) PROVE NoLeakedID'
  BY <1>36 DEF WriterCompletes, WriterFails, ReportAsyncError
<1>37. ASSUME NEW s \in Subs, WriterForwards(s) PROVE NoLeakedID'
  BY <1>37 DEF WriterForwards, WriterFails, ReportAsyncError
<1>38. ASSUME NEW s \in Subs, WriterRemoves(s) PROVE NoLeakedID'
  BY <1>38 DEF WriterRemoves, RemoveSubscription
<1>39. ASSUME NEW s \in Subs, WriterExits(s) PROVE NoLeakedID'
  BY <1>39 DEF WriterExits, Unsubscribe, Discard
<1>40. ASSUME NEW s \in Subs, Notify(s) PROVE NoLeakedID'
  BY <1>40 DEF Notify
<1>41. CASE UNCHANGED vars
  BY <1>41
<1>42. QED
  BY <1>1, <1>2, <1>3, <1>4, <1>5, <1>6, <1>7, <1>8, <1>9, <1>10, <1>11, <1>12, <1>13, <1>14, <1>15, <1>16, <1>17, <1>18, <1>19, <1>20,
     <1>21, <1>22, <1>23, <1>24, <1>25, <1>26, <1>27, <1>28, <1>29, <1>30, <1>31, <1>32, <1>33, <1>34, <1>35, <1>36, <1>37, <1>38, <1>39, <1>40, <1>41
  DEF Next, ReadRequest, ReaderStep, Shutdown, CallStep, WriterStep, Environment, Terminated

\* While requests are read, no ID is held by nothing: it can be used again.
THEOREM IDsNeverLeak == Spec => []NoLeakedID
BY TypeInvInit, TypeInvStep, LeakInvInit, LeakInvStep, PTL DEF Spec

\* The tables under activeMu agree with each other and with the live requests,
\* although each is changed in critical sections of its own by the reader, the
\* handlers, the writers and the shutdown.
THEOREM TablesAlwaysAgree == Spec => []TablesAgree
BY LiveEntries, IDsNeverLeak, PTL DEF TablesAgree

----------------------------------------------------------------------------
\* No write has failed initially.
LEMMA ErrorInvInit == Init => ErrorInv
BY ObjectsAssumption DEF TypeInv, TypeOK, ReaderOK, CallPoints, SubPoints, ReaderPoints, CallInv, TableInv, ErrorInv, Init

\* Every step keeps the news of a failed write: with the handler that failed,
\* in requestErrors, or in Serve's result.
LEMMA ErrorInvStep == TypeInv /\ CallInv /\ TableInv /\ ErrorInv /\ [Next]_vars => ErrorInv'
<1> SUFFICES ASSUME TypeInv, CallInv, TableInv, ErrorInv, [Next]_vars PROVE ErrorInv'
  OBVIOUS
<1> USE ObjectsAssumption DEF TypeInv, TypeOK, ReaderOK, CallPoints, SubPoints, ReaderPoints, CallInv, TableInv, ErrorInv, vars, tableVars, callVars, subVars, readerVars, shutdownVars, wireVars
<1>1. ASSUME NEW id \in RequestIds, ReadCall(id) PROVE ErrorInv'
  BY <1>1 DEF ReadCall, HasLine, ClientMayUse, SlotFree, Registrable
<1>2. ASSUME NEW id \in RequestIds, ReadCancel(id) PROVE ErrorInv'
  BY <1>2 DEF ReadCancel, HasLine, Finished
<1>3. ASSUME NEW id \in RequestIds, ReadListen(id) PROVE ErrorInv'
  BY <1>3 DEF ReadListen, HasLine, ClientMayUse, Registrable
<1>4. CASE InlineReplyFails
  BY <1>4 DEF InlineReplyFails, HasLine, LeaveLoop
<1>5. CASE StartCall
  BY <1>5 DEF StartCall, BackToScan
<1>6. CASE ReadNotification
  BY <1>6 DEF ReadNotification, HasLine, SlotFree
<1>7. CASE CancelRemove
  BY <1>7 DEF CancelRemove, RemoveSubscription, FoundSubscription
<1>8. CASE CancelUnsubscribe
  BY <1>8 DEF CancelUnsubscribe, Unsubscribe, BackToScan
<1>9. CASE ListenRefused
  BY <1>9 DEF ListenRefused, BackToScan, LeaveLoop, ReleaseID
<1>10. CASE Subscribe
  BY <1>10 DEF Subscribe
<1>11. CASE StoreSubscription
  BY <1>11 DEF StoreSubscription
<1>12. CASE Acknowledge
  BY <1>12 DEF Acknowledge, BackToScan
<1>13. CASE AcknowledgeFails
  BY <1>13 DEF AcknowledgeFails, Unsubscribe, RemoveSubscription, Discard, LeaveLoop
<1>14. CASE ContextEndsLoop
  BY <1>14 DEF ContextEndsLoop, LeaveLoop
<1>15. CASE InputEndsLoop
  BY <1>15 DEF InputEndsLoop, LeaveLoop
<1>16. CASE SnapshotCalls
  BY <1>16 DEF SnapshotCalls, Stored
<1>17. CASE Deadline
  BY <1>17 DEF Deadline
<1>18. CASE EndGrace
  BY <1>18 DEF EndGrace, Drained
<1>19. CASE AllCancelled
  BY <1>19 DEF AllCancelled
<1>20. CASE SnapshotSubscriptions
  BY <1>20 DEF SnapshotSubscriptions, Stored, Drained
<1>21. CASE Return
  BY <1>21 DEF Return, WritersDone
<1>22. ASSUME NEW s \in Subs, CloseSubscription(s) PROVE ErrorInv'
  BY <1>22 DEF CloseSubscription
<1>23. CASE EndInput
  BY <1>23 DEF EndInput
<1>24. CASE BreakOutput
  BY <1>24 DEF BreakOutput
<1>25. CASE CancelContext
  BY <1>25 DEF CancelContext
<1>26. ASSUME NEW c \in Calls, CancelLeaving(c) PROVE ErrorInv'
  BY <1>26 DEF CancelLeaving, Finished
<1>27. ASSUME NEW c \in Calls, HandleReturns(c) PROVE ErrorInv'
  BY <1>27 DEF HandleReturns
<1>28. ASSUME NEW c \in Calls, FinishSilently(c) PROVE ErrorInv'
  BY <1>28 DEF FinishSilently, MustNotAnswer
<1>29. ASSUME NEW c \in Calls, Respond(c) PROVE ErrorInv'
  BY <1>29 DEF Respond, MustNotAnswer
<1>30. ASSUME NEW c \in Calls, RespondFails(c) PROVE ErrorInv'
  BY <1>30 DEF RespondFails, MustNotAnswer
<1>31. ASSUME NEW c \in Calls, ReportResponseError(c) PROVE ErrorInv'
  BY <1>31 DEF ReportResponseError, ReportAsyncError
<1>32. ASSUME NEW c \in Calls, RemoveCall(c) PROVE ErrorInv'
  BY <1>32 DEF RemoveCall
<1>33. ASSUME NEW c \in Calls, ReleaseSlot(c) PROVE ErrorInv'
  BY <1>33 DEF ReleaseSlot
<1>34. ASSUME NEW s \in Subs, UnsubscribeLeaving(s) PROVE ErrorInv'
  BY <1>34 DEF UnsubscribeLeaving, Unsubscribe
<1>35. ASSUME NEW s \in Subs, WriterStops(s) PROVE ErrorInv'
  BY <1>35 DEF WriterStops
<1>36. ASSUME NEW s \in Subs, WriterCompletes(s) PROVE ErrorInv'
  BY <1>36 DEF WriterCompletes, WriterFails, ReportAsyncError
<1>37. ASSUME NEW s \in Subs, WriterForwards(s) PROVE ErrorInv'
  BY <1>37 DEF WriterForwards, WriterFails, ReportAsyncError
<1>38. ASSUME NEW s \in Subs, WriterRemoves(s) PROVE ErrorInv'
  BY <1>38 DEF WriterRemoves, RemoveSubscription
<1>39. ASSUME NEW s \in Subs, WriterExits(s) PROVE ErrorInv'
  BY <1>39 DEF WriterExits, Unsubscribe, Discard
<1>40. ASSUME NEW s \in Subs, Notify(s) PROVE ErrorInv'
  BY <1>40 DEF Notify
<1>41. CASE UNCHANGED vars
  BY <1>41
<1>42. QED
  BY <1>1, <1>2, <1>3, <1>4, <1>5, <1>6, <1>7, <1>8, <1>9, <1>10, <1>11, <1>12, <1>13, <1>14, <1>15, <1>16, <1>17, <1>18, <1>19, <1>20,
     <1>21, <1>22, <1>23, <1>24, <1>25, <1>26, <1>27, <1>28, <1>29, <1>30, <1>31, <1>32, <1>33, <1>34, <1>35, <1>36, <1>37, <1>38, <1>39, <1>40, <1>41
  DEF Next, ReadRequest, ReaderStep, Shutdown, CallStep, WriterStep, Environment, Terminated

\* Serve reports a failed write of any goroutine it waited for.
THEOREM WriteErrorsSurface == Spec => []WriteErrorReported
<1>1. TypeInv /\ CallInv /\ ErrorInv => WriteErrorReported
  BY DEF TypeInv, TypeOK, CallInv, ErrorInv, WriteErrorReported
<1>2. QED
  BY <1>1, TypeInvInit, TypeInvStep, CallInvInit, CallInvStep, TableInvInit, TableInvStep,
     ErrorInvInit, ErrorInvStep, PTL DEF Spec

----------------------------------------------------------------------------
\* Nothing is held initially.
LEMMA HolderInvInit == Init => HolderInv
BY ObjectsAssumption DEF TypeInv, TypeOK, ReaderOK, CallPoints, SubPoints, ReaderPoints, CallInv, TableInv, HolderInv, Reading, Init

\* With a client that does not reuse stale IDs every step keeps what can still
\* be answered or served within reach.
LEMMA HolderInvStep == ReuseStaleIDs = FALSE /\ TypeInv /\ CallInv /\ TableInv /\ HolderInv /\ [Next]_vars => HolderInv'
<1> SUFFICES ASSUME ReuseStaleIDs = FALSE, TypeInv, CallInv, TableInv, HolderInv, [Next]_vars PROVE HolderInv'
  OBVIOUS
<1> USE ObjectsAssumption DEF TypeInv, TypeOK, ReaderOK, CallPoints, SubPoints, ReaderPoints, CallInv, TableInv, HolderInv, Reading, vars, tableVars, callVars, subVars, readerVars, shutdownVars, wireVars
<1>1. ASSUME NEW id \in RequestIds, ReadCall(id) PROVE HolderInv'
  BY <1>1 DEF ReadCall, HasLine, ClientMayUse, SlotFree, Registrable
<1>2. ASSUME NEW id \in RequestIds, ReadCancel(id) PROVE HolderInv'
  BY <1>2 DEF ReadCancel, HasLine, Finished
<1>3. ASSUME NEW id \in RequestIds, ReadListen(id) PROVE HolderInv'
  BY <1>3 DEF ReadListen, HasLine, ClientMayUse, Registrable
<1>4. CASE InlineReplyFails
  BY <1>4 DEF InlineReplyFails, HasLine, LeaveLoop
<1>5. CASE StartCall
  BY <1>5 DEF StartCall, BackToScan
<1>6. CASE ReadNotification
  BY <1>6 DEF ReadNotification, HasLine, SlotFree
<1>7. CASE CancelRemove
  BY <1>7 DEF CancelRemove, RemoveSubscription, FoundSubscription
<1>8. CASE CancelUnsubscribe
  BY <1>8 DEF CancelUnsubscribe, Unsubscribe, BackToScan
<1>9. CASE ListenRefused
  BY <1>9 DEF ListenRefused, BackToScan, LeaveLoop, ReleaseID
<1>10. CASE Subscribe
  BY <1>10 DEF Subscribe
<1>11. CASE StoreSubscription
  BY <1>11 DEF StoreSubscription
<1>12. CASE Acknowledge
  BY <1>12 DEF Acknowledge, BackToScan
<1>13. CASE AcknowledgeFails
  BY <1>13 DEF AcknowledgeFails, Unsubscribe, RemoveSubscription, Discard, LeaveLoop
<1>14. CASE ContextEndsLoop
  BY <1>14 DEF ContextEndsLoop, LeaveLoop
<1>15. CASE InputEndsLoop
  BY <1>15 DEF InputEndsLoop, LeaveLoop
<1>16. CASE SnapshotCalls
  BY <1>16 DEF SnapshotCalls, Stored
<1>17. CASE Deadline
  BY <1>17 DEF Deadline
<1>18. CASE EndGrace
  BY <1>18 DEF EndGrace, Drained
<1>19. CASE AllCancelled
  BY <1>19 DEF AllCancelled
<1>20. CASE SnapshotSubscriptions
  BY <1>20 DEF SnapshotSubscriptions, Stored, Drained
<1>21. CASE Return
  BY <1>21 DEF Return, WritersDone
<1>22. ASSUME NEW s \in Subs, CloseSubscription(s) PROVE HolderInv'
  BY <1>22 DEF CloseSubscription
<1>23. CASE EndInput
  BY <1>23 DEF EndInput
<1>24. CASE BreakOutput
  BY <1>24 DEF BreakOutput
<1>25. CASE CancelContext
  BY <1>25 DEF CancelContext
<1>26. ASSUME NEW c \in Calls, CancelLeaving(c) PROVE HolderInv'
  BY <1>26 DEF CancelLeaving, Finished
<1>27. ASSUME NEW c \in Calls, HandleReturns(c) PROVE HolderInv'
  BY <1>27 DEF HandleReturns
<1>28. ASSUME NEW c \in Calls, FinishSilently(c) PROVE HolderInv'
  BY <1>28 DEF FinishSilently, MustNotAnswer
<1>29. ASSUME NEW c \in Calls, Respond(c) PROVE HolderInv'
  BY <1>29 DEF Respond, MustNotAnswer
<1>30. ASSUME NEW c \in Calls, RespondFails(c) PROVE HolderInv'
  BY <1>30 DEF RespondFails, MustNotAnswer
<1>31. ASSUME NEW c \in Calls, ReportResponseError(c) PROVE HolderInv'
  BY <1>31 DEF ReportResponseError, ReportAsyncError
<1>32. ASSUME NEW c \in Calls, RemoveCall(c) PROVE HolderInv'
  BY <1>32 DEF RemoveCall
<1>33. ASSUME NEW c \in Calls, ReleaseSlot(c) PROVE HolderInv'
  BY <1>33 DEF ReleaseSlot
<1>34. ASSUME NEW s \in Subs, UnsubscribeLeaving(s) PROVE HolderInv'
  BY <1>34 DEF UnsubscribeLeaving, Unsubscribe
<1>35. ASSUME NEW s \in Subs, WriterStops(s) PROVE HolderInv'
  BY <1>35 DEF WriterStops
<1>36. ASSUME NEW s \in Subs, WriterCompletes(s) PROVE HolderInv'
  BY <1>36 DEF WriterCompletes, WriterFails, ReportAsyncError
<1>37. ASSUME NEW s \in Subs, WriterForwards(s) PROVE HolderInv'
  BY <1>37 DEF WriterForwards, WriterFails, ReportAsyncError
<1>38. ASSUME NEW s \in Subs, WriterRemoves(s) PROVE HolderInv'
  BY <1>38 DEF WriterRemoves, RemoveSubscription
<1>39. ASSUME NEW s \in Subs, WriterExits(s) PROVE HolderInv'
  BY <1>39 DEF WriterExits, Unsubscribe, Discard
<1>40. ASSUME NEW s \in Subs, Notify(s) PROVE HolderInv'
  BY <1>40 DEF Notify
<1>41. CASE UNCHANGED vars
  BY <1>41
<1>42. QED
  BY <1>1, <1>2, <1>3, <1>4, <1>5, <1>6, <1>7, <1>8, <1>9, <1>10, <1>11, <1>12, <1>13, <1>14, <1>15, <1>16, <1>17, <1>18, <1>19, <1>20,
     <1>21, <1>22, <1>23, <1>24, <1>25, <1>26, <1>27, <1>28, <1>29, <1>30, <1>31, <1>32, <1>33, <1>34, <1>35, <1>36, <1>37, <1>38, <1>39, <1>40, <1>41
  DEF Next, ReadRequest, ReaderStep, Shutdown, CallStep, WriterStep, Environment, Terminated

\* Nothing bears an ID initially.
LEMMA OneHolderInvInit == Init => OneHolderPerID
BY ObjectsAssumption DEF TypeInv, TypeOK, ReaderOK, CallPoints, SubPoints, ReaderPoints, CallInv, TableInv, HolderInv, Reading, OneHolderPerID, CanAnswer, Serving, Init

\* Such a client never gets a second request accepted under an ID in use.
LEMMA OneHolderInvStep == ReuseStaleIDs = FALSE /\ TypeInv /\ CallInv /\ TableInv /\ HolderInv /\ OneHolderPerID /\ [Next]_vars => OneHolderPerID'
<1> SUFFICES ASSUME ReuseStaleIDs = FALSE, TypeInv, CallInv, TableInv, HolderInv, OneHolderPerID, [Next]_vars PROVE OneHolderPerID'
  OBVIOUS
<1> USE ObjectsAssumption DEF TypeInv, TypeOK, ReaderOK, CallPoints, SubPoints, ReaderPoints, CallInv, TableInv, HolderInv, Reading, OneHolderPerID, CanAnswer, Serving, vars, tableVars, callVars, subVars, readerVars, shutdownVars, wireVars
<1>1. ASSUME NEW id \in RequestIds, ReadCall(id) PROVE OneHolderPerID'
  BY <1>1 DEF ReadCall, HasLine, ClientMayUse, SlotFree, Registrable
<1>2. ASSUME NEW id \in RequestIds, ReadCancel(id) PROVE OneHolderPerID'
  BY <1>2 DEF ReadCancel, HasLine, Finished
<1>3. ASSUME NEW id \in RequestIds, ReadListen(id) PROVE OneHolderPerID'
  BY <1>3 DEF ReadListen, HasLine, ClientMayUse, Registrable
<1>4. CASE InlineReplyFails
  BY <1>4 DEF InlineReplyFails, HasLine, LeaveLoop
<1>5. CASE StartCall
  BY <1>5 DEF StartCall, BackToScan
<1>6. CASE ReadNotification
  BY <1>6 DEF ReadNotification, HasLine, SlotFree
<1>7. CASE CancelRemove
  BY <1>7 DEF CancelRemove, RemoveSubscription, FoundSubscription
<1>8. CASE CancelUnsubscribe
  BY <1>8 DEF CancelUnsubscribe, Unsubscribe, BackToScan
<1>9. CASE ListenRefused
  BY <1>9 DEF ListenRefused, BackToScan, LeaveLoop, ReleaseID
<1>10. CASE Subscribe
  BY <1>10 DEF Subscribe
<1>11. CASE StoreSubscription
  BY <1>11 DEF StoreSubscription
<1>12. CASE Acknowledge
  BY <1>12 DEF Acknowledge, BackToScan
<1>13. CASE AcknowledgeFails
  BY <1>13 DEF AcknowledgeFails, Unsubscribe, RemoveSubscription, Discard, LeaveLoop
<1>14. CASE ContextEndsLoop
  BY <1>14 DEF ContextEndsLoop, LeaveLoop
<1>15. CASE InputEndsLoop
  BY <1>15 DEF InputEndsLoop, LeaveLoop
<1>16. CASE SnapshotCalls
  BY <1>16 DEF SnapshotCalls, Stored
<1>17. CASE Deadline
  BY <1>17 DEF Deadline
<1>18. CASE EndGrace
  BY <1>18 DEF EndGrace, Drained
<1>19. CASE AllCancelled
  BY <1>19 DEF AllCancelled
<1>20. CASE SnapshotSubscriptions
  BY <1>20 DEF SnapshotSubscriptions, Stored, Drained
<1>21. CASE Return
  BY <1>21 DEF Return, WritersDone
<1>22. ASSUME NEW s \in Subs, CloseSubscription(s) PROVE OneHolderPerID'
  BY <1>22 DEF CloseSubscription
<1>23. CASE EndInput
  BY <1>23 DEF EndInput
<1>24. CASE BreakOutput
  BY <1>24 DEF BreakOutput
<1>25. CASE CancelContext
  BY <1>25 DEF CancelContext
<1>26. ASSUME NEW c \in Calls, CancelLeaving(c) PROVE OneHolderPerID'
  BY <1>26 DEF CancelLeaving, Finished
<1>27. ASSUME NEW c \in Calls, HandleReturns(c) PROVE OneHolderPerID'
  BY <1>27 DEF HandleReturns
<1>28. ASSUME NEW c \in Calls, FinishSilently(c) PROVE OneHolderPerID'
  BY <1>28 DEF FinishSilently, MustNotAnswer
<1>29. ASSUME NEW c \in Calls, Respond(c) PROVE OneHolderPerID'
  BY <1>29 DEF Respond, MustNotAnswer
<1>30. ASSUME NEW c \in Calls, RespondFails(c) PROVE OneHolderPerID'
  BY <1>30 DEF RespondFails, MustNotAnswer
<1>31. ASSUME NEW c \in Calls, ReportResponseError(c) PROVE OneHolderPerID'
  BY <1>31 DEF ReportResponseError, ReportAsyncError
<1>32. ASSUME NEW c \in Calls, RemoveCall(c) PROVE OneHolderPerID'
  BY <1>32 DEF RemoveCall
<1>33. ASSUME NEW c \in Calls, ReleaseSlot(c) PROVE OneHolderPerID'
  BY <1>33 DEF ReleaseSlot
<1>34. ASSUME NEW s \in Subs, UnsubscribeLeaving(s) PROVE OneHolderPerID'
  BY <1>34 DEF UnsubscribeLeaving, Unsubscribe
<1>35. ASSUME NEW s \in Subs, WriterStops(s) PROVE OneHolderPerID'
  BY <1>35 DEF WriterStops
<1>36. ASSUME NEW s \in Subs, WriterCompletes(s) PROVE OneHolderPerID'
  BY <1>36 DEF WriterCompletes, WriterFails, ReportAsyncError
<1>37. ASSUME NEW s \in Subs, WriterForwards(s) PROVE OneHolderPerID'
  BY <1>37 DEF WriterForwards, WriterFails, ReportAsyncError
<1>38. ASSUME NEW s \in Subs, WriterRemoves(s) PROVE OneHolderPerID'
  BY <1>38 DEF WriterRemoves, RemoveSubscription
<1>39. ASSUME NEW s \in Subs, WriterExits(s) PROVE OneHolderPerID'
  BY <1>39 DEF WriterExits, Unsubscribe, Discard
<1>40. ASSUME NEW s \in Subs, Notify(s) PROVE OneHolderPerID'
  BY <1>40 DEF Notify
<1>41. CASE UNCHANGED vars
  BY <1>41
<1>42. QED
  BY <1>1, <1>2, <1>3, <1>4, <1>5, <1>6, <1>7, <1>8, <1>9, <1>10, <1>11, <1>12, <1>13, <1>14, <1>15, <1>16, <1>17, <1>18, <1>19, <1>20,
     <1>21, <1>22, <1>23, <1>24, <1>25, <1>26, <1>27, <1>28, <1>29, <1>30, <1>31, <1>32, <1>33, <1>34, <1>35, <1>36, <1>37, <1>38, <1>39, <1>40, <1>41
  DEF Next, ReadRequest, ReaderStep, Shutdown, CallStep, WriterStep, Environment, Terminated

\* The four invariants hold throughout for such a client.
LEMMA HolderInvariant ==
  ASSUME ReuseStaleIDs = FALSE
  PROVE  Spec => [](TypeInv /\ CallInv /\ TableInv /\ HolderInv)
BY TypeInvInit, TypeInvStep, CallInvInit, CallInvStep, TableInvInit, TableInvStep,
   HolderInvInit, HolderInvStep, PTL DEF Spec

\* With a client that does not reuse the ID of a cancelled call too early, at
\* most one request that can be answered or served bears any ID.
THEOREM UniqueHolders ==
  ASSUME ReuseStaleIDs = FALSE
  PROVE  Spec => []OneHolderPerID
BY HolderInvariant, OneHolderInvInit, OneHolderInvStep, PTL DEF Spec

\* With such a client everything that can still be answered or served can be
\* cancelled and is found by the shutdown.
THEOREM NothingOrphaned ==
  ASSUME ReuseStaleIDs = FALSE
  PROVE  Spec => []NoOrphans
<1>1. TypeInv /\ CallInv /\ TableInv /\ HolderInv => NoOrphans
  BY ObjectsAssumption DEF TypeInv, TypeOK, ReaderOK, CallInv, TableInv, HolderInv, NoOrphans,
     CanAnswer, Serving, Stored
<1>2. QED
  BY <1>1, HolderInvariant, PTL

\* With such a client a connection whose Serve has returned is silent for ever.
THEOREM SilentReturn ==
  ASSUME ReuseStaleIDs = FALSE
  PROVE  Spec => []SilentAfterReturn
<1>1. TypeInv /\ CallInv /\ TableInv /\ HolderInv => SilentAfterReturn
  BY ObjectsAssumption DEF TypeInv, TypeOK, ReaderOK, CallInv, TableInv, HolderInv,
     SilentAfterReturn, CanAnswer, Reading
<1>2. QED
  BY <1>1, HolderInvariant, PTL

----------------------------------------------------------------------------
\* Nothing holds an ID initially.
LEMMA HeldInvInit == Init => HeldInv
BY ObjectsAssumption DEF HeldInv, Reading, CanAnswer, Serving, Init

\* An ID is given back only when what bears it has ended or is cancelled.
LEMMA HeldInvStep ==
  ReuseStaleIDs = FALSE /\ TypeInv /\ CallInv /\ TableInv /\ HolderInv /\ HeldInv /\ [Next]_vars => HeldInv'
<1> SUFFICES ASSUME ReuseStaleIDs = FALSE, TypeInv, CallInv, TableInv, HolderInv, HeldInv, [Next]_vars PROVE HeldInv'
  OBVIOUS
<1> USE ObjectsAssumption DEF TypeInv, TypeOK, ReaderOK, CallPoints, SubPoints, ReaderPoints, CallInv, TableInv, HolderInv, Reading, HeldInv, CanAnswer, Serving, vars, tableVars, callVars, subVars, readerVars, shutdownVars, wireVars
<1>1. ASSUME NEW id \in RequestIds, ReadCall(id) PROVE HeldInv'
  BY <1>1 DEF ReadCall, HasLine, ClientMayUse, SlotFree, Registrable
<1>2. ASSUME NEW id \in RequestIds, ReadCancel(id) PROVE HeldInv'
  BY <1>2 DEF ReadCancel, HasLine, Finished
<1>3. ASSUME NEW id \in RequestIds, ReadListen(id) PROVE HeldInv'
  BY <1>3 DEF ReadListen, HasLine, ClientMayUse, Registrable
<1>4. CASE InlineReplyFails
  BY <1>4 DEF InlineReplyFails, HasLine, LeaveLoop
<1>5. CASE StartCall
  BY <1>5 DEF StartCall, BackToScan
<1>6. CASE ReadNotification
  BY <1>6 DEF ReadNotification, HasLine, SlotFree
<1>7. CASE CancelRemove
  BY <1>7 DEF CancelRemove, RemoveSubscription, FoundSubscription
<1>8. CASE CancelUnsubscribe
  BY <1>8 DEF CancelUnsubscribe, Unsubscribe, BackToScan
<1>9. CASE ListenRefused
  BY <1>9 DEF ListenRefused, BackToScan, LeaveLoop, ReleaseID
<1>10. CASE Subscribe
  BY <1>10 DEF Subscribe
<1>11. CASE StoreSubscription
  BY <1>11 DEF StoreSubscription
<1>12. CASE Acknowledge
  BY <1>12 DEF Acknowledge, BackToScan
<1>13. CASE AcknowledgeFails
  BY <1>13 DEF AcknowledgeFails, Unsubscribe, RemoveSubscription, Discard, LeaveLoop
<1>14. CASE ContextEndsLoop
  BY <1>14 DEF ContextEndsLoop, LeaveLoop
<1>15. CASE InputEndsLoop
  BY <1>15 DEF InputEndsLoop, LeaveLoop
<1>16. CASE SnapshotCalls
  BY <1>16 DEF SnapshotCalls, Stored
<1>17. CASE Deadline
  BY <1>17 DEF Deadline
<1>18. CASE EndGrace
  BY <1>18 DEF EndGrace, Drained
<1>19. CASE AllCancelled
  BY <1>19 DEF AllCancelled
<1>20. CASE SnapshotSubscriptions
  BY <1>20 DEF SnapshotSubscriptions, Stored, Drained
<1>21. CASE Return
  BY <1>21 DEF Return, WritersDone
<1>22. ASSUME NEW s \in Subs, CloseSubscription(s) PROVE HeldInv'
  BY <1>22 DEF CloseSubscription
<1>23. CASE EndInput
  BY <1>23 DEF EndInput
<1>24. CASE BreakOutput
  BY <1>24 DEF BreakOutput
<1>25. CASE CancelContext
  BY <1>25 DEF CancelContext
<1>26. ASSUME NEW c \in Calls, CancelLeaving(c) PROVE HeldInv'
  BY <1>26 DEF CancelLeaving, Finished
<1>27. ASSUME NEW c \in Calls, HandleReturns(c) PROVE HeldInv'
  BY <1>27 DEF HandleReturns
<1>28. ASSUME NEW c \in Calls, FinishSilently(c) PROVE HeldInv'
  BY <1>28 DEF FinishSilently, MustNotAnswer
<1>29. ASSUME NEW c \in Calls, Respond(c) PROVE HeldInv'
  BY <1>29 DEF Respond, MustNotAnswer
<1>30. ASSUME NEW c \in Calls, RespondFails(c) PROVE HeldInv'
  BY <1>30 DEF RespondFails, MustNotAnswer
<1>31. ASSUME NEW c \in Calls, ReportResponseError(c) PROVE HeldInv'
  BY <1>31 DEF ReportResponseError, ReportAsyncError
<1>32. ASSUME NEW c \in Calls, RemoveCall(c) PROVE HeldInv'
  BY <1>32 DEF RemoveCall
<1>33. ASSUME NEW c \in Calls, ReleaseSlot(c) PROVE HeldInv'
  BY <1>33 DEF ReleaseSlot
<1>34. ASSUME NEW s \in Subs, UnsubscribeLeaving(s) PROVE HeldInv'
  BY <1>34 DEF UnsubscribeLeaving, Unsubscribe
<1>35. ASSUME NEW s \in Subs, WriterStops(s) PROVE HeldInv'
  BY <1>35 DEF WriterStops
<1>36. ASSUME NEW s \in Subs, WriterCompletes(s) PROVE HeldInv'
  BY <1>36 DEF WriterCompletes, WriterFails, ReportAsyncError
<1>37. ASSUME NEW s \in Subs, WriterForwards(s) PROVE HeldInv'
  BY <1>37 DEF WriterForwards, WriterFails, ReportAsyncError
<1>38. ASSUME NEW s \in Subs, WriterRemoves(s) PROVE HeldInv'
  BY <1>38 DEF WriterRemoves, RemoveSubscription
<1>39. ASSUME NEW s \in Subs, WriterExits(s) PROVE HeldInv'
  BY <1>39 DEF WriterExits, Unsubscribe, Discard
<1>40. ASSUME NEW s \in Subs, Notify(s) PROVE HeldInv'
  BY <1>40 DEF Notify
<1>41. CASE UNCHANGED vars
  BY <1>41
<1>42. QED
  BY <1>1, <1>2, <1>3, <1>4, <1>5, <1>6, <1>7, <1>8, <1>9, <1>10, <1>11, <1>12, <1>13, <1>14, <1>15, <1>16, <1>17, <1>18, <1>19, <1>20,
     <1>21, <1>22, <1>23, <1>24, <1>25, <1>26, <1>27, <1>28, <1>29, <1>30, <1>31, <1>32, <1>33, <1>34, <1>35, <1>36, <1>37, <1>38, <1>39, <1>40, <1>41
  DEF Next, ReadRequest, ReaderStep, Shutdown, CallStep, WriterStep, Environment, Terminated

\* An ID is registered only below the limit.
LEMMA LimitInvInit == Init => LimitInv
BY LimitsAssumption, FS_EmptySet DEF LimitInv, Init

LEMMA LimitInvStep == TypeInv /\ TableInv /\ HolderInv /\ LimitInv /\ [Next]_vars => LimitInv'
<1> SUFFICES ASSUME TypeInv, TableInv, HolderInv, LimitInv, [Next]_vars PROVE LimitInv'
  OBVIOUS
<1> DEFINE n == Cardinality(activeIDs)
<1>1. /\ IsFiniteSet(activeIDs) /\ n \in Nat /\ MaxActiveIDs \in Nat /\ n <= MaxActiveIDs
      /\ \A id : Cardinality(activeIDs \ {id}) \in Nat /\ Cardinality(activeIDs \ {id}) <= n
      /\ \A id \in activeIDs : Cardinality(activeIDs \ {id}) = n - 1
      /\ \A id : id \notin activeIDs => Cardinality(activeIDs \cup {id}) = n + 1
  <2>1. IsFiniteSet(activeIDs) /\ MaxActiveIDs \in Nat
    BY ObjectsAssumption, LimitsAssumption, FS_Subset DEF TypeInv, TypeOK
  <2>2. n \in Nat
    BY <2>1, FS_CardinalityType
  <2>3. \A id : IsFiniteSet(activeIDs \ {id}) /\ Cardinality(activeIDs \ {id}) <= n
    BY <2>1, FS_Subset
  <2>4. QED
    BY <2>1, <2>2, <2>3, FS_CardinalityType, FS_RemoveElement, FS_AddElement DEF LimitInv
<1>2. ASSUME readerAt' # "cancelRemoved", NEW id, activeIDs' = activeIDs \cup {id}, Registrable(id)
      PROVE  LimitInv'
  BY <1>1, <1>2 DEF LimitInv, Registrable
<1>3. ASSUME NEW id, activeIDs' \in {activeIDs, activeIDs \ {id}},
             readerAt' = readerAt \/ readerAt' # "cancelRemoved"
      PROVE  LimitInv'
  BY <1>1, <1>3 DEF LimitInv
<1>4. CASE CancelRemove
  <2>1. readerID \in RequestIds
    BY <1>4 DEF CancelRemove, TypeInv, TypeOK, ReaderOK
  <2>2. FoundSubscription(readerID) => readerID \in activeIDs
    BY <2>1 DEF FoundSubscription, HolderInv
  <2>3. activeIDs' = activeIDs \ {readerID}
    BY <1>4 DEF CancelRemove, RemoveSubscription
  <2>4. CASE FoundSubscription(readerID)
    BY <1>1, <1>4, <2>2, <2>3, <2>4 DEF CancelRemove, LimitInv
  <2>5. CASE ~FoundSubscription(readerID)
    BY <1>3, <1>4, <2>3, <2>5 DEF CancelRemove
  <2>6. QED
    BY <2>4, <2>5
<1>5. CASE \E id \in RequestIds : ReadRequest(id)
  BY <1>2, <1>3, <1>5 DEF ReadRequest, ReadCall, ReadListen, ReadCancel, tableVars
<1>6. CASE InlineReplyFails \/ ReadNotification \/ ContextEndsLoop \/ (ReaderStep /\ ~CancelRemove)
  BY <1>3, <1>6
     DEF InlineReplyFails, ReadNotification, ContextEndsLoop, ReaderStep, StartCall,
         CancelUnsubscribe, ListenRefused, Subscribe, StoreSubscription, Acknowledge,
         AcknowledgeFails, InputEndsLoop, BackToScan, LeaveLoop, ReleaseID, RemoveSubscription,
         tableVars, readerVars
<1>7. CASE Shutdown
  BY <1>3, <1>7
     DEF Shutdown, SnapshotCalls, Deadline, EndGrace, AllCancelled, SnapshotSubscriptions, Return,
         CancelLeaving, UnsubscribeLeaving, tableVars, readerVars
<1>8. ASSUME NEW c \in Calls, HandleReturns(c) \/ CallStep(c) PROVE LimitInv'
  BY <1>3, <1>8
     DEF HandleReturns, CallStep, FinishSilently, Respond, RespondFails, ReportResponseError,
         RemoveCall, ReleaseSlot, tableVars, readerVars
<1>9. ASSUME NEW s \in Subs, WriterStep(s) PROVE LimitInv'
  BY <1>3, <1>9
     DEF WriterStep, WriterStops, WriterCompletes, WriterForwards, WriterRemoves, WriterExits,
         RemoveSubscription, tableVars, readerVars
<1>10. CASE Environment \/ UNCHANGED vars
  BY <1>3, <1>10
     DEF Environment, EndInput, BreakOutput, CancelContext, Notify, CloseSubscription, vars,
         tableVars, readerVars
<1>11. QED
  BY <1>4, <1>5, <1>6, <1>7, <1>8, <1>9, <1>10 DEF Next, Terminated

\* Holders that bear distinct IDs are as few as the IDs they bear.
LEMMA CountByID ==
  ASSUME NEW S, NEW I, IsFiniteSet(I), NEW f \in [S -> I], \A x, y \in S : f[x] = f[y] => x = y
  PROVE  /\ IsFiniteSet(S) /\ Cardinality(S) \in Nat
         /\ Cardinality(S) <= Cardinality({f[x] : x \in S})
<1> DEFINE R == {f[x] : x \in S}
           g == [i \in R |-> CHOOSE x \in S : f[x] = i]
<1>1. R \in SUBSET I
  OBVIOUS
<1>2. IsFiniteSet(R)
  BY <1>1, FS_Subset
<1>3. g \in [R -> S] /\ \A x \in S : f[x] \in R /\ g[f[x]] = x
  OBVIOUS
<1>4. g \in Surjection(R, S)
  <2> HIDE DEF R, g
  <2>1. QED
    BY <1>3 DEF Surjection
<1>5. IsFiniteSet(S) /\ Cardinality(S) <= Cardinality(R)
  BY <1>2, <1>4, FS_Surjection
<1>6. QED
  BY <1>5, FS_CardinalityType

LEMMA HoldersWithinLimit ==
  ASSUME TypeInv, CallInv, TableInv, HolderInv, OneHolderPerID, HeldInv, LimitInv
  PROVE  RequestsBounded
<1> DEFINE calls == {c \in Calls : CanAnswer(c) /\ callID[c] # None}
           subs == {s \in Subs : Serving(s)}
           leftover == IF readerAt = "cancelRemoved" THEN {readerSub} ELSE {}
           kept == subs \ leftover
           callIDs == {callID[c] : c \in calls}
           subIDs == {subID[s] : s \in kept}
<1>1. IsFiniteSet(activeIDs) /\ Cardinality(activeIDs) \in Nat /\ MaxActiveIDs \in Nat
  <2>1. IsFiniteSet(activeIDs)
    BY ObjectsAssumption, FS_Subset DEF TypeInv, TypeOK
  <2>2. QED
    BY <2>1, LimitsAssumption, FS_CardinalityType
<1>0. callIDs \in SUBSET activeIDs
  BY DEF HeldInv
<1>2. IsFiniteSet(calls) /\ Cardinality(calls) \in Nat /\ Cardinality(calls) <= Cardinality(callIDs)
      /\ callIDs \in SUBSET activeIDs
  <2> DEFINE f == [c \in calls |-> callID[c]]
  <2>1. f \in [calls -> activeIDs] /\ \A x, y \in calls : f[x] = f[y] => x = y
    BY DEF HeldInv, OneHolderPerID
  <2>2. {f[c] : c \in calls} = callIDs
    OBVIOUS
  <2> HIDE DEF f, calls
  <2>3. IsFiniteSet(calls) /\ Cardinality(calls) \in Nat
        /\ Cardinality(calls) <= Cardinality({f[c] : c \in calls})
    BY <1>1, <2>1, CountByID
  <2>4. QED
    BY <1>0, <2>2, <2>3
<1>3. IsFiniteSet(kept) /\ Cardinality(kept) \in Nat /\ Cardinality(kept) <= Cardinality(subIDs)
      /\ subIDs \in SUBSET activeIDs
  <2> DEFINE f == [s \in kept |-> subID[s]]
  <2>1. \A s \in kept : subID[s] \in activeIDs
    BY DEF HeldInv
  <2>2. f \in [kept -> activeIDs] /\ \A x, y \in kept : f[x] = f[y] => x = y
    BY <2>1 DEF OneHolderPerID
  <2>3. {f[s] : s \in kept} = subIDs
    OBVIOUS
  <2> HIDE DEF f, kept
  <2>4. IsFiniteSet(kept) /\ Cardinality(kept) \in Nat
        /\ Cardinality(kept) <= Cardinality({f[s] : s \in kept})
    BY <1>1, <2>2, CountByID
  <2>5. QED
    BY <2>1, <2>3, <2>4
<1>4. callIDs \cap subIDs = {}
  BY DEF OneHolderPerID
<1>5. Cardinality(callIDs) + Cardinality(subIDs) <= Cardinality(activeIDs)
  <2> HIDE DEF callIDs, subIDs
  <2>1. IsFiniteSet(callIDs) /\ IsFiniteSet(subIDs)
    BY <1>1, <1>2, <1>3, FS_Subset
  <2>2. Cardinality(callIDs) \in Nat /\ Cardinality(subIDs) \in Nat
    BY <2>1, FS_CardinalityType
  <2>3. Cardinality(callIDs \cup subIDs) = Cardinality(callIDs) + Cardinality(subIDs)
    BY <1>4, <2>1, <2>2, FS_Union, FS_EmptySet
  <2>4. callIDs \cup subIDs \in SUBSET activeIDs
    BY <1>2, <1>3
  <2>5. Cardinality(callIDs \cup subIDs) <= Cardinality(activeIDs)
    BY <1>1, <2>4, FS_Subset
  <2>6. QED
    BY <2>3, <2>5
<1>6. Cardinality(subs) \in Nat
      /\ Cardinality(subs) <= Cardinality(kept) + (IF readerAt = "cancelRemoved" THEN 1 ELSE 0)
  <2>1. CASE leftover \cap subs = {}
    <3>1. kept = subs
      BY <2>1
    <3> HIDE DEF kept, subs
    <3>2. QED
      BY <1>3, <3>1
  <2>2. CASE leftover \cap subs # {}
    <3>1. readerAt = "cancelRemoved" /\ subs = kept \cup {readerSub} /\ readerSub \notin kept
      BY <2>2
    <3> HIDE DEF kept, subs
    <3>2. Cardinality(subs) = Cardinality(kept) + 1
      BY <1>3, <3>1, FS_AddElement
    <3>3. Cardinality(kept) + 1 \in Nat
      BY <1>3
    <3>4. QED
      BY <3>1, <3>2, <3>3
  <2>3. QED
    BY <2>1, <2>2
<1>7. Cardinality(callIDs) \in Nat /\ Cardinality(subIDs) \in Nat
  <2> HIDE DEF callIDs, subIDs
  <2>1. QED
    BY <1>1, <1>2, <1>3, FS_Subset, FS_CardinalityType
<1>8. Cardinality(calls) + Cardinality(subs) <= MaxActiveIDs
  <2> HIDE DEF calls, subs, kept, callIDs, subIDs
  <2>1. QED
    BY <1>1, <1>2, <1>3, <1>5, <1>6, <1>7 DEF LimitInv
<1>9. QED
  BY <1>8 DEF RequestsBounded

\* With a client that does not reuse stale IDs the limit of active IDs bounds the
\* requests that are answered or served, for any limit and any number of IDs.
THEOREM BoundedRequests ==
  ASSUME ReuseStaleIDs = FALSE
  PROVE  Spec => []RequestsBounded
<1>1. Spec => []OneHolderPerID
  BY UniqueHolders
<1>2. Spec => []HeldInv
  BY HolderInvariant, HeldInvInit, HeldInvStep, PTL DEF Spec
<1>3. Spec => []LimitInv
  BY HolderInvariant, LimitInvInit, LimitInvStep, PTL DEF Spec
<1>4. TypeInv /\ CallInv /\ TableInv /\ HolderInv /\ OneHolderPerID /\ HeldInv /\ LimitInv
        => RequestsBounded
  BY HoldersWithinLimit
<1>5. QED
  BY <1>1, <1>2, <1>3, <1>4, HolderInvariant, PTL

----------------------------------------------------------------------------
(***************************************************************************)
(* Liveness.  NobodyHeldUp is what the provers cannot see of ENABLED; the  *)
(* paths along which fairness takes a call and a subscription to their end *)
(* are proved.                                                             *)
(***************************************************************************)

\* What a step can make of a call that is being handled, or has been.
LEMMA CallMoves ==
  ASSUME TypeInv, CallInv, TableInv, [Next]_vars, NEW c \in Calls
  PROVE  /\ callAt[c] = "handling" =>
              callID'[c] = callID[c] /\ callAt'[c] \in {"handling", "returned"}
         /\ callAt[c] = "returned" /\ callID[c] # None =>
              \/ callID'[c] = callID[c] /\ callAt'[c] = "returned"
              \/ c \in answered' \cup cancelled' \/ writeFailed'
         /\ callAt[c] = "returned" => callAt'[c] \in {"returned", "failed", "finished"}
         /\ callAt[c] = "failed" => callAt'[c] \in {"failed", "finished"}
         /\ callAt[c] = "finished" => callAt'[c] \in {"finished", "removed"}
         /\ callAt[c] = "removed" => callAt'[c] \in {"removed", "free"}
<1> USE ObjectsAssumption DEF TypeInv, TypeOK, ReaderOK, CallInv, TableInv,
      vars, tableVars, callVars, subVars, readerVars, shutdownVars, wireVars
<1> DEFINE Goal ==
         /\ callAt[c] = "handling" =>
              callID'[c] = callID[c] /\ callAt'[c] \in {"handling", "returned"}
         /\ callAt[c] = "returned" /\ callID[c] # None =>
              \/ callID'[c] = callID[c] /\ callAt'[c] = "returned"
              \/ c \in answered' \cup cancelled' \/ writeFailed'
         /\ callAt[c] = "returned" => callAt'[c] \in {"returned", "failed", "finished"}
         /\ callAt[c] = "failed" => callAt'[c] \in {"failed", "finished"}
         /\ callAt[c] = "finished" => callAt'[c] \in {"finished", "removed"}
         /\ callAt[c] = "removed" => callAt'[c] \in {"removed", "free"}
<1>1. ASSUME NEW id \in RequestIds, ReadRequest(id) PROVE Goal
  <2>1. CASE ReadCall(id)
    <3>1. PICK d \in Calls : /\ callAt[d] = "free"
                             /\ callAt' = [callAt EXCEPT ![d] = "accepted"]
                             /\ callID' = [callID EXCEPT ![d] = id]
      BY <2>1 DEF ReadCall
    <3>2. QED
      BY <3>1
  <2>2. CASE ReadCancel(id) \/ ReadListen(id)
    BY <2>2 DEF ReadCancel, ReadListen
  <2>3. QED
    BY <1>1, <2>1, <2>2 DEF ReadRequest
<1>2. CASE InlineReplyFails \/ ReadNotification \/ ContextEndsLoop
  <2>1. CASE ReadNotification
    <3>1. PICK d \in Calls : callAt[d] = "free" /\ callAt' = [callAt EXCEPT ![d] = "handling"]
      BY <2>1 DEF ReadNotification
    <3>2. callID' = callID
      BY <2>1 DEF ReadNotification
    <3>3. QED
      BY <3>1, <3>2
  <2>2. CASE InlineReplyFails \/ ContextEndsLoop
    BY <2>2 DEF InlineReplyFails, ContextEndsLoop
  <2>3. QED
    BY <1>2, <2>1, <2>2
<1>3. CASE ReaderStep
  <2>1. CASE StartCall
    <3>1. callAt[readerCall] = "accepted" /\ callAt' = [callAt EXCEPT ![readerCall] = "handling"]
      BY <2>1 DEF StartCall
    <3>2. callID' = callID
      BY <2>1 DEF StartCall
    <3>3. QED
      BY <3>1, <3>2
  <2>2. CASE CancelRemove \/ CancelUnsubscribe \/ ListenRefused \/ Subscribe \/ StoreSubscription
    BY <2>2 DEF CancelRemove, CancelUnsubscribe, ListenRefused, Subscribe, StoreSubscription
  <2>3. CASE Acknowledge \/ AcknowledgeFails \/ InputEndsLoop
    BY <2>3 DEF Acknowledge, AcknowledgeFails, InputEndsLoop
  <2>4. QED
    BY <1>3, <2>1, <2>2, <2>3 DEF ReaderStep
<1>4. CASE Shutdown
  BY <1>4 DEF Shutdown, SnapshotCalls, Deadline, EndGrace, AllCancelled, SnapshotSubscriptions,
              Return, CancelLeaving, UnsubscribeLeaving
<1>5. ASSUME NEW d \in Calls, HandleReturns(d) PROVE Goal
  BY <1>5 DEF HandleReturns
<1>6. ASSUME NEW d \in Calls, FinishSilently(d) PROVE Goal
  BY <1>6 DEF FinishSilently, MustNotAnswer
<1>7. ASSUME NEW d \in Calls, Respond(d) PROVE Goal
  BY <1>7 DEF Respond
<1>8. ASSUME NEW d \in Calls, RespondFails(d) PROVE Goal
  BY <1>8 DEF RespondFails
<1>9. ASSUME NEW d \in Calls, ReportResponseError(d) \/ RemoveCall(d) \/ ReleaseSlot(d) PROVE Goal
  BY <1>9 DEF ReportResponseError, RemoveCall, ReleaseSlot
<1>10. ASSUME NEW s \in Subs, WriterStep(s) PROVE Goal
  BY <1>10 DEF WriterStep, WriterStops, WriterCompletes, WriterForwards, WriterRemoves, WriterExits
<1>11. CASE Environment
  BY <1>11 DEF Environment, EndInput, BreakOutput, CancelContext, Notify, CloseSubscription
<1>12. CASE Terminated \/ UNCHANGED vars
  BY <1>12 DEF Terminated
<1>13. QED
  BY <1>1, <1>2, <1>3, <1>4, <1>5, <1>6, <1>7, <1>8, <1>9, <1>10, <1>11, <1>12 DEF Next, CallStep

\* For any number of handlers: every call is answered, or cancelled, or its
\* answer could not be written, and its goroutine ends, whatever the reader and
\* the shutdown do meanwhile.
THEOREM CallsAreConcluded == LiveSpec /\ []NobodyHeldUp => CallsConclude
<1> DEFINE Inv == TypeInv /\ CallInv /\ TableInv
<1>1. Spec => []Inv
  BY TypeInvInit, TypeInvStep, CallInvInit, CallInvStep, TableInvInit, TableInvStep, PTL DEF Spec
<1>2. ASSUME NEW c \in Calls
      PROVE  LiveSpec /\ []NobodyHeldUp =>
               (callAt[c] = "handling" /\ callID[c] # None ~> c \in answered \cup cancelled \/ writeFailed)
  <2> DEFINE Handling == callAt[c] = "handling" /\ callID[c] # None
             Returned == callAt[c] = "returned" /\ callID[c] # None
             Concluded == c \in answered \cup cancelled \/ writeFailed
  <2>1. Inv /\ [Next]_vars => /\ Handling => Handling' \/ Returned'
                              /\ Returned => Returned' \/ Concluded'
    <3> SUFFICES ASSUME Inv, [Next]_vars
                 PROVE  (Handling => Handling' \/ Returned') /\ (Returned => Returned' \/ Concluded')
      OBVIOUS
    <3>1. QED
      BY CallMoves
  <2>2. Inv /\ <<HandleReturns(c)>>_vars => ~Handling'
    BY DEF HandleReturns, TypeInv, TypeOK
  <2>3. Inv /\ <<CallStep(c)>>_vars => (Returned => ~Returned')
    BY DEF CallStep, FinishSilently, Respond, RespondFails, ReportResponseError, RemoveCall,
           ReleaseSlot, TypeInv, TypeOK
  <2>4. NobodyHeldUp => (Handling => CanReturn(c)) /\ (Returned => CanGoOn(c))
    BY DEF NobodyHeldUp
  <2>5. LiveSpec => Spec /\ CallRuns(c) /\ HandlerEnds(c)
    BY DEF LiveSpec, FairSpec
  <2> HIDE DEF Handling, Returned, Concluded, Inv
  <2>6. LiveSpec /\ []NobodyHeldUp => (Handling ~> Concluded)
    BY <1>1, <2>1, <2>2, <2>3, <2>4, <2>5, PTL DEF Spec, CallRuns, HandlerEnds, CanReturn, CanGoOn
  <2>7. QED
    BY <2>6 DEF Handling, Concluded
<1>3. ASSUME NEW c \in Calls
      PROVE  LiveSpec /\ []NobodyHeldUp => (callAt[c] = "handling" ~> callAt[c] = "free")
  <2> DEFINE Handling == callAt[c] = "handling"
             Returned == callAt[c] = "returned"
             Failed == callAt[c] = "failed"
             FinishedNow == callAt[c] = "finished"
             Removed == callAt[c] = "removed"
             Free == callAt[c] = "free"
  <2>1. Inv /\ [Next]_vars => /\ Handling => Handling' \/ Returned'
                              /\ Returned => Returned' \/ Failed' \/ FinishedNow'
                              /\ Failed => Failed' \/ FinishedNow'
                              /\ FinishedNow => FinishedNow' \/ Removed'
                              /\ Removed => Removed' \/ Free'
    <3> SUFFICES ASSUME Inv, [Next]_vars
                 PROVE  /\ Handling => Handling' \/ Returned'
                        /\ Returned => Returned' \/ Failed' \/ FinishedNow'
                        /\ Failed => Failed' \/ FinishedNow'
                        /\ FinishedNow => FinishedNow' \/ Removed'
                        /\ Removed => Removed' \/ Free'
      OBVIOUS
    <3>1. QED
      BY CallMoves
  <2>2. Inv /\ <<HandleReturns(c)>>_vars => ~Handling'
    BY DEF HandleReturns, TypeInv, TypeOK
  <2>3. Inv /\ <<CallStep(c)>>_vars => /\ Returned => ~Returned'
                                       /\ Failed => ~Failed'
                                       /\ FinishedNow => ~FinishedNow'
                                       /\ Removed => ~Removed'
    BY DEF CallStep, FinishSilently, Respond, RespondFails, ReportResponseError, RemoveCall,
           ReleaseSlot, TypeInv, TypeOK
  <2>4. NobodyHeldUp => /\ Handling => CanReturn(c)
                        /\ Returned \/ Failed \/ FinishedNow \/ Removed => CanGoOn(c)
    BY DEF NobodyHeldUp
  <2>5. LiveSpec => Spec /\ CallRuns(c) /\ HandlerEnds(c)
    BY DEF LiveSpec, FairSpec
  <2> HIDE DEF Handling, Returned, Failed, FinishedNow, Removed, Free, Inv
  <2>6. LiveSpec /\ []NobodyHeldUp => (Handling ~> Returned)
    BY <1>1, <2>1, <2>2, <2>4, <2>5, PTL DEF Spec, HandlerEnds, CanReturn
  <2>7. LiveSpec /\ []NobodyHeldUp => (Returned ~> Free)
    BY <1>1, <2>1, <2>3, <2>4, <2>5, PTL DEF Spec, CallRuns, CanGoOn
  <2>8. LiveSpec /\ []NobodyHeldUp => (Handling ~> Free)
    BY <2>6, <2>7, PTL
  <2>9. QED
    BY <2>8 DEF Handling, Free
<1>4. QED
  BY <1>2, <1>3 DEF CallsConclude

\* What a step can make of a subscription whose writer goroutine runs.
LEMMA WriterMoves ==
  ASSUME TypeInv, CallInv, TableInv, [Next]_vars, NEW s \in Subs
  PROVE  /\ subAt[s] = "streaming" /\ s \in complete =>
              s \in complete' /\ subAt'[s] \in {"streaming", "stopping"}
         /\ subAt[s] = "stopping" => subAt'[s] \in {"stopping", "removed"}
         /\ subAt[s] = "removed" => subAt'[s] \in {"removed", "free"}
<1> USE ObjectsAssumption DEF TypeInv, TypeOK, ReaderOK, CallInv, TableInv,
      vars, tableVars, callVars, subVars, readerVars, shutdownVars, wireVars
<1> DEFINE Goal ==
         /\ subAt[s] = "streaming" /\ s \in complete =>
              s \in complete' /\ subAt'[s] \in {"streaming", "stopping"}
         /\ subAt[s] = "stopping" => subAt'[s] \in {"stopping", "removed"}
         /\ subAt[s] = "removed" => subAt'[s] \in {"removed", "free"}
<1>1. ASSUME NEW id \in RequestIds, ReadRequest(id) PROVE Goal
  BY <1>1 DEF ReadRequest, ReadCall, ReadCancel, ReadListen
<1>2. CASE InlineReplyFails \/ ReadNotification \/ ContextEndsLoop
  BY <1>2 DEF InlineReplyFails, ReadNotification, ContextEndsLoop
<1>3. CASE StartCall \/ CancelRemove \/ CancelUnsubscribe \/ ListenRefused \/ InputEndsLoop
  BY <1>3 DEF StartCall, CancelRemove, CancelUnsubscribe, ListenRefused, InputEndsLoop, Unsubscribe
<1>4. CASE Subscribe \/ StoreSubscription \/ Acknowledge
  BY <1>4 DEF Subscribe, StoreSubscription, Acknowledge
<1>5. CASE AcknowledgeFails
  BY <1>5 DEF AcknowledgeFails, Discard
<1>6. CASE Shutdown
  BY <1>6 DEF Shutdown, SnapshotCalls, Deadline, EndGrace, AllCancelled, SnapshotSubscriptions,
              Return, CancelLeaving, UnsubscribeLeaving
<1>7. ASSUME NEW c \in Calls, HandleReturns(c) \/ CallStep(c) PROVE Goal
  BY <1>7 DEF HandleReturns, CallStep, FinishSilently, Respond, RespondFails, ReportResponseError,
              RemoveCall, ReleaseSlot
<1>8. ASSUME NEW r \in Subs, WriterStops(r) \/ WriterRemoves(r) PROVE Goal
  BY <1>8 DEF WriterStops, WriterRemoves
<1>9. ASSUME NEW r \in Subs, WriterCompletes(r) \/ WriterForwards(r) PROVE Goal
  <2>1. /\ complete' = complete /\ \A q \in Subs \ {r} : subAt'[q] = subAt[q]
        /\ subAt[r] = "streaming" /\ subAt'[r] \in {"streaming", "stopping"}
    BY <1>9 DEF WriterCompletes, WriterForwards, WriterFails
  <2>2. QED
    BY <2>1
<1>10. ASSUME NEW r \in Subs, WriterExits(r) PROVE Goal
  BY <1>10 DEF WriterExits, Discard
<1>11. CASE Environment
  BY <1>11 DEF Environment, EndInput, BreakOutput, CancelContext, Notify, CloseSubscription
<1>12. CASE Terminated \/ UNCHANGED vars
  BY <1>12 DEF Terminated
<1>13. QED
  BY <1>1, <1>2, <1>3, <1>4, <1>5, <1>6, <1>7, <1>8, <1>9, <1>10, <1>11, <1>12
  DEF Next, ReaderStep, WriterStep

\* For any number of subscriptions: the one that CloseSubscriptions completes
\* ends, although its writer may pick an event instead time and again.
THEOREM CompletedOnesEnd == FairSpec /\ []NobodyHeldUp => CompletedSubscriptionsEnd
<1>1. ASSUME NEW s \in Subs
      PROVE  FairSpec /\ []NobodyHeldUp =>
               (s \in complete /\ subAt[s] = "streaming" ~> subAt[s] = "free")
  <2> DEFINE Completed == s \in complete /\ subAt[s] = "streaming"
             Stopping == subAt[s] = "stopping"
             Removed == subAt[s] = "removed"
             Free == subAt[s] = "free"
             Inv == TypeInv /\ CallInv /\ TableInv
  <2>1. Inv /\ [Next]_vars => /\ Completed => Completed' \/ Stopping'
                              /\ Stopping => Stopping' \/ Removed'
                              /\ Removed => Removed' \/ Free'
    <3> SUFFICES ASSUME Inv, [Next]_vars
                 PROVE  /\ Completed => Completed' \/ Stopping'
                        /\ Stopping => Stopping' \/ Removed'
                        /\ Removed => Removed' \/ Free'
      OBVIOUS
    <3>1. QED
      BY WriterMoves
  <2>2. Inv /\ <<WriterCompletes(s)>>_vars => ~Completed'
    BY DEF WriterCompletes, WriterFails, TypeInv, TypeOK
  <2>3. Inv /\ <<WriterRemoves(s)>>_vars => ~Stopping'
    BY DEF WriterRemoves, TypeInv, TypeOK
  <2>4. Inv /\ <<WriterExits(s)>>_vars => Free'
    BY DEF WriterExits, Discard, TypeInv, TypeOK
  <2>5. NobodyHeldUp => /\ Completed => CanComplete(s)
                        /\ Stopping => CanRemove(s)
                        /\ Removed => CanExit(s)
    BY DEF NobodyHeldUp
  <2>6. FairSpec => Spec /\ WriterRuns(s)
    BY DEF FairSpec
  <2>7. Spec => []Inv
    BY TypeInvInit, TypeInvStep, CallInvInit, CallInvStep, TableInvInit, TableInvStep, PTL DEF Spec
  <2> HIDE DEF Completed, Stopping, Removed, Free, Inv
  <2>8. FairSpec /\ []NobodyHeldUp => (Completed ~> Free)
    BY <2>1, <2>2, <2>3, <2>4, <2>5, <2>6, <2>7, PTL
       DEF Spec, WriterRuns, CanComplete, CanRemove, CanExit
  <2>9. QED
    BY <2>8 DEF Completed, Free
<1>2. QED
  BY <1>1 DEF CompletedSubscriptionsEnd

----------------------------------------------------------------------------
\* The promises of RequestOutcomes: what they speak of, in terms of the connection.
Taken == {c \in Calls : callAt[c] # "free"}
Due == {c \in Calls : callID[c] # None}

\* Facts about a state that the steps below start from.
Silent == ReuseStaleIDs = FALSE => SilentAfterReturn
Keeping == TypeInv /\ CallInv /\ SlotInv /\ Silent

LEMMA Unnoticed ==
  ASSUME Taken' = Taken, Due' = Due, Unwritten' = Unwritten,
         UNCHANGED <<answered, cancelled, writeFailed>>, Closed' = Closed
  PROVE  UNCHANGED Outcomes!promised
BY DEF Outcomes!promised, Taken, Due, Closed

\* What leaves the handlers, their outcomes and the result of Serve alone is none
\* of the promises' concern; what only records a failed write is LoseOther.
LEMMA OthersUnnoticed ==
  ASSUME UNCHANGED <<callAt, callID, cancelled, answered>>, Closed' = Closed,
         writeFailed' = writeFailed \/ writeFailed' = TRUE
  PROVE  [Outcomes!Next]_Outcomes!promised
<1>1. Taken' = Taken /\ Due' = Due /\ Unwritten' = Unwritten
  BY DEF Taken, Due, Unwritten
<1>2. CASE UNCHANGED writeFailed
  BY <1>1, <1>2, Unnoticed
<1>3. CASE writeFailed' = TRUE
  BY <1>1, <1>3 DEF Outcomes!Next, Outcomes!LoseOther, Taken, Due, Closed
<1>4. QED
  BY <1>2, <1>3

\* A request enters with a slot.
LEMMA Enters ==
  ASSUME NEW c \in Calls, c \notin Taken, Cardinality(Taken) < MaxConcurrent, ~Closed, ~Closed',
         Taken' = Taken \cup {c}, Due' \in {Due, Due \cup {c}}, Unwritten' = Unwritten,
         UNCHANGED <<answered, cancelled, writeFailed>>
  PROVE  Outcomes!Next
<1>1. c \notin {d \in Calls : callAt[d] # "free"} /\ Cardinality({d \in Calls : callAt[d] # "free"}) < MaxConcurrent
  BY Zenon DEF Taken
<1>2. /\ {d \in Calls : callAt[d] # "free"}' = {d \in Calls : callAt[d] # "free"} \cup {c}
      /\ {d \in Calls : callID[d] # None}' \in {{d \in Calls : callID[d] # None}, {d \in Calls : callID[d] # None} \cup {c}}
  BY Zenon DEF Taken, Due
<1>3. Outcomes!Cardinality(Taken) = Cardinality(Taken)
  BY DEF Outcomes!Cardinality, Cardinality
<1>4. Outcomes!Accept(c)
  BY <1>1, <1>2, <1>3 DEF Outcomes!Accept, Closed, Taken
<1>5. QED
  BY <1>4 DEF Outcomes!Next

\* A request enters with a slot, and marking one cancelled settles it.
LEMMA ReadingKeepsPromises ==
  ASSUME Keeping, (\E id \in RequestIds : ReadRequest(id)) \/ ReadNotification
  PROVE  [Outcomes!Next]_Outcomes!promised
<1> USE ObjectsAssumption DEF Keeping, TypeInv, TypeOK, CallInv
<1>1. readerAt = "scan" /\ readerAt' \in {"scan", "callRegistered", "listenRegistered", "cancelMarked"}
  BY DEF ReadRequest, ReadCall, ReadCancel, ReadListen, ReadNotification, HasLine, readerVars
<1>2. ~Closed /\ ~Closed'
  BY <1>1 DEF Closed
<1>3. executionSlots = Taken
  BY DEF Taken
<1>5. ASSUME NEW id \in RequestIds, ReadCall(id) PROVE Outcomes!Next
  <2>1. PICK c \in Calls :
          /\ callAt[c] = "free" /\ callAt' = [callAt EXCEPT ![c] = "accepted"]
          /\ callID' = [callID EXCEPT ![c] = id]
    BY <1>5 DEF ReadCall
  <2>2. Taken' = Taken \cup {c} /\ Due' = Due \cup {c}
    BY <2>1 DEF Taken, Due
  <2>3. Unwritten' = Unwritten
    BY <1>5, <2>1 DEF ReadCall, Unwritten
  <2>4. QED
    BY <1>2, <1>3, <1>5, <2>1, <2>2, <2>3, Enters DEF ReadCall, SlotFree, Taken, wireVars
<1>6. CASE ReadNotification
  <2>1. PICK c \in Calls : callAt[c] = "free" /\ callAt' = [callAt EXCEPT ![c] = "handling"]
    BY <1>6 DEF ReadNotification
  <2>2. Taken' = Taken \cup {c} /\ Due' = Due
    BY <1>6, <2>1 DEF ReadNotification, Taken, Due
  <2>3. Unwritten' = Unwritten
    BY <1>6, <2>1 DEF ReadNotification, Unwritten
  <2>4. QED
    BY <1>2, <1>3, <1>6, <2>1, <2>2, <2>3, Enters DEF ReadNotification, SlotFree, Taken, wireVars
<1>7. ASSUME NEW id \in RequestIds, ReadCancel(id)
      PROVE  [Outcomes!Next]_Outcomes!promised
  <2>1. UNCHANGED <<callAt, callID, answered, writeFailed>> /\ Taken' = Taken /\ Due' = Due
    BY <1>7 DEF ReadCancel, wireVars, Taken, Due
  <2>2. CASE cancelled' = cancelled
    BY <1>2, <2>1, <2>2, OthersUnnoticed DEF Closed
  <2>3. CASE cancelled' # cancelled
    <3>1. PICK c \in Calls : ~Finished(c) /\ c \notin cancelled /\ cancelled' = cancelled \cup {c}
      BY <1>7, <2>3 DEF ReadCancel
    <3>2. c \in Taken \ (answered \cup cancelled \cup Unwritten) /\ Unwritten' = Unwritten
      BY <2>1, <3>1 DEF Finished, Taken, Unwritten
    <3>3. Outcomes!Cancel(c)
      BY <1>2, <2>1, <3>1, <3>2 DEF Outcomes!Cancel, Outcomes!Settled, Taken, Due, Closed
    <3>4. QED
      BY <3>3 DEF Outcomes!Next
  <2>4. QED
    BY <2>2, <2>3
<1>8. ASSUME NEW id \in RequestIds, ReadListen(id)
      PROVE  [Outcomes!Next]_Outcomes!promised
  <2>1. UNCHANGED <<callAt, callID, answered, cancelled, writeFailed>>
    BY <1>8 DEF ReadListen, callVars, wireVars
  <2>2. QED
    BY <1>2, <2>1, OthersUnnoticed DEF Closed
<1>9. QED
  BY <1>5, <1>6, <1>7, <1>8 DEF ReadRequest

\* The shutdown settles what it finds, and returns when nothing is left.
LEMMA ShutdownKeepsPromises ==
  ASSUME Keeping, Silent', Shutdown
  PROVE  [Outcomes!Next]_Outcomes!promised
<1> USE ObjectsAssumption DEF Keeping, TypeInv, TypeOK, CallInv
<1>1. ~Closed
  BY DEF Shutdown, SnapshotCalls, Deadline, EndGrace, AllCancelled, SnapshotSubscriptions, Return,
         CancelLeaving, UnsubscribeLeaving, Closed
<1>2. CASE Return
  <2>1. UNCHANGED <<callAt, callID, cancelled, answered, writeFailed>> /\ readerAt' = "returned"
    BY <1>2 DEF Return, callVars
  <2>2. Taken' = Taken /\ Due' = Due /\ Unwritten' = Unwritten
    BY <2>1 DEF Taken, Due, Unwritten
  <2>3. CASE ReuseStaleIDs = TRUE
    BY <1>1, <2>1, <2>3, OthersUnnoticed DEF Closed
  <2>4. CASE ReuseStaleIDs = FALSE
    <3>1. Due \subseteq answered \cup cancelled \cup Unwritten
      <4> SUFFICES ASSUME NEW c \in Calls, callID[c] # None, c \notin answered \cup cancelled
                   PROVE  callAt[c] \in {"failed", "finished", "removed"}
        BY DEF Due, Unwritten
      <4>1. callAt'[c] \notin {"accepted", "handling", "returned"}
        BY <2>1, <2>4 DEF Silent, SilentAfterReturn, CanAnswer
      <4>2. QED
        BY <2>1, <4>1 DEF CallPoints
    <3>2. Outcomes!Close
      BY <1>1, <2>1, <2>2, <2>4, <3>1 DEF Outcomes!Close, Outcomes!Settled, Taken, Due, Closed
    <3>3. QED
      BY <3>2 DEF Outcomes!Next
  <2>5. QED
    BY <2>3, <2>4, FlagsAssumption
<1>3. ASSUME NEW c \in Calls, CancelLeaving(c) PROVE [Outcomes!Next]_Outcomes!promised
  <2>1. UNCHANGED <<callAt, callID, answered, writeFailed>> /\ ~Closed'
        /\ Taken' = Taken /\ Due' = Due
    BY <1>1, <1>3 DEF CancelLeaving, readerVars, wireVars, Taken, Due, Closed
  <2>2. CASE cancelled' = cancelled
    BY <1>1, <2>1, <2>2, OthersUnnoticed DEF Closed
  <2>3. CASE cancelled' # cancelled
    <3>1. ~Finished(c) /\ c \notin cancelled /\ cancelled' = cancelled \cup {c}
      BY <1>3, <2>3 DEF CancelLeaving
    <3>2. c \in Taken \ (answered \cup cancelled \cup Unwritten) /\ Unwritten' = Unwritten
      BY <2>1, <3>1 DEF Finished, Taken, Unwritten
    <3>3. Outcomes!Cancel(c)
      BY <1>1, <2>1, <3>1, <3>2 DEF Outcomes!Cancel, Outcomes!Settled, Taken, Due, Closed
    <3>4. QED
      BY <3>3 DEF Outcomes!Next
  <2>4. QED
    BY <2>2, <2>3
<1>4. CASE SnapshotCalls \/ Deadline \/ EndGrace \/ AllCancelled \/ SnapshotSubscriptions
           \/ \E s \in Subs : UnsubscribeLeaving(s)
  <2>1. UNCHANGED <<callAt, callID, cancelled, answered, writeFailed>> /\ ~Closed'
    BY <1>1, <1>4 DEF SnapshotCalls, Deadline, EndGrace, AllCancelled, SnapshotSubscriptions,
       UnsubscribeLeaving, callVars, readerVars, wireVars, Closed
  <2>2. QED
    BY <1>1, <2>1, OthersUnnoticed DEF Closed
<1>5. QED
  BY <1>2, <1>3, <1>4 DEF Shutdown

\* A handler answers what is neither cancelled nor answered, and goes only when
\* its request is settled.
LEMMA HandlersKeepPromises ==
  ASSUME Keeping, NEW c \in Calls, HandleReturns(c) \/ CallStep(c)
  PROVE  [Outcomes!Next]_Outcomes!promised
<1> USE ObjectsAssumption DEF Keeping, TypeInv, TypeOK, CallInv
<1>1. Closed' = Closed
  BY DEF HandleReturns, CallStep, FinishSilently, Respond, RespondFails, ReportResponseError,
         RemoveCall, ReleaseSlot, readerVars, Closed
<1>2. CASE HandleReturns(c) \/ FinishSilently(c) \/ ReportResponseError(c) \/ RemoveCall(c)
  <2>1. UNCHANGED <<callID, cancelled, answered, writeFailed>>
    BY <1>2 DEF HandleReturns, FinishSilently, ReportResponseError, RemoveCall, wireVars
  <2>2. PICK p \in CallPoints \ {"free"} : callAt[c] # "free" /\ callAt' = [callAt EXCEPT ![c] = p]
    BY <1>2 DEF HandleReturns, FinishSilently, ReportResponseError, RemoveCall, CallPoints
  <2>3. Taken' = Taken /\ Due' = Due
    BY <2>1, <2>2 DEF Taken, Due
  <2>4. Unwritten' = Unwritten
    BY <1>2, <2>1 DEF HandleReturns, FinishSilently, MustNotAnswer, ReportResponseError, RemoveCall, Unwritten
  <2>5. QED
    BY <1>1, <2>1, <2>3, <2>4, Unnoticed
<1>3. ASSUME callAt[c] = "returned", ~MustNotAnswer(c)
      PROVE  c \in Due \ (answered \cup cancelled \cup Unwritten) /\ ~Closed
  <2>1. c \in Due /\ c \notin answered \cup cancelled \cup Unwritten
    BY <1>3 DEF MustNotAnswer, Due, Unwritten
  <2>2. ~Closed
    BY <1>3, <2>1 DEF MustNotAnswer, Silent, SilentAfterReturn, CanAnswer, Closed
  <2>3. QED
    BY <2>1, <2>2
<1>4. CASE Respond(c)
  <2>1. /\ UNCHANGED <<callID, cancelled, writeFailed>> /\ answered' = answered \cup {c}
        /\ Taken' = Taken /\ Due' = Due
    BY <1>4 DEF Respond, wireVars, Taken, Due
  <2>2. Unwritten' = Unwritten
    BY <1>4 DEF Respond, Unwritten
  <2>3. Outcomes!Answer(c)
    BY <1>1, <1>3, <1>4, <2>1, <2>2 DEF Respond, Outcomes!Answer, Outcomes!Settled, Taken, Due, Closed
  <2>4. QED
    BY <2>3 DEF Outcomes!Next
<1>5. CASE RespondFails(c)
  <2>1. /\ UNCHANGED <<callID, cancelled, answered>> /\ writeFailed' = TRUE
        /\ Taken' = Taken /\ Due' = Due
    BY <1>5 DEF RespondFails, Taken, Due
  <2>2. Unwritten' = Unwritten \cup {c}
    BY <1>3, <1>5 DEF RespondFails, MustNotAnswer, Unwritten
  <2>3. Outcomes!Lose(c)
    BY <1>1, <1>3, <1>5, <2>1, <2>2 DEF RespondFails, Outcomes!Lose, Outcomes!Settled, Taken, Due, Closed
  <2>4. QED
    BY <2>3 DEF Outcomes!Next
<1>6. CASE ReleaseSlot(c)
  <2>1. /\ c \in Taken /\ writeFailed' = writeFailed
        /\ Taken' = Taken \ {c} /\ Due' = Due \ {c}
        /\ answered' = answered \ {c} /\ cancelled' = cancelled \ {c}
    BY <1>6 DEF ReleaseSlot, wireVars, Taken, Due
  <2>2. Unwritten' = Unwritten \ {c}
    BY <1>6 DEF ReleaseSlot, Unwritten
  <2>3. c \in Due => c \in answered \cup cancelled \cup Unwritten
    BY <1>6 DEF ReleaseSlot, Due, Unwritten
  <2>4. Outcomes!Retire(c)
    BY <1>1, <2>1, <2>2, <2>3 DEF Outcomes!Retire, Outcomes!Settled, Taken, Due, Closed
  <2>5. QED
    BY <2>4 DEF Outcomes!Next
<1>7. QED
  BY <1>2, <1>4, <1>5, <1>6 DEF CallStep

\* The reader's other steps, the writers and the environment change no outcome.
LEMMA OthersKeepPromises ==
  ASSUME Keeping,
         InlineReplyFails \/ ContextEndsLoop \/ ReaderStep \/ (\E s \in Subs : WriterStep(s)) \/ Environment
  PROVE  [Outcomes!Next]_Outcomes!promised
<1> USE ObjectsAssumption DEF Keeping, TypeInv, TypeOK, CallInv
<1>1. Closed' = Closed
  BY DEF InlineReplyFails, ContextEndsLoop, HasLine, LeaveLoop, BackToScan, ReaderStep, StartCall, CancelRemove,
     CancelUnsubscribe, ListenRefused, Subscribe, StoreSubscription, Acknowledge, AcknowledgeFails, InputEndsLoop,
     WriterStep, WriterStops, WriterCompletes, WriterForwards, WriterFails, WriterRemoves, WriterExits,
     Environment, EndInput, BreakOutput, CancelContext, Notify, CloseSubscription, readerVars, Closed
<1>2. CASE StartCall
  <2>1. UNCHANGED <<callID, cancelled, answered, writeFailed>> /\ Taken' = Taken /\ Due' = Due
    BY <1>2 DEF StartCall, wireVars, Taken, Due, ReaderOK
  <2>2. Unwritten' = Unwritten
    BY <1>2 DEF StartCall, Unwritten, ReaderOK
  <2>3. QED
    BY <1>1, <2>1, <2>2, Unnoticed
<1>3. CASE ~StartCall
  <2>1. /\ UNCHANGED <<callAt, callID, cancelled, answered>>
        /\ writeFailed' = writeFailed \/ writeFailed' = TRUE
    BY <1>3 DEF InlineReplyFails, ContextEndsLoop, LeaveLoop, ReaderStep, CancelRemove,
       CancelUnsubscribe, ListenRefused, Subscribe, StoreSubscription, Acknowledge, AcknowledgeFails, InputEndsLoop,
       WriterStep, WriterStops, WriterCompletes, WriterForwards, WriterFails, WriterRemoves, WriterExits,
       Environment, EndInput, BreakOutput, CancelContext, Notify, CloseSubscription, ReportAsyncError, callVars, wireVars
  <2>2. QED
    BY <1>1, <2>1, OthersUnnoticed
<1>4. QED
  BY <1>2, <1>3

\* The connection implements RequestOutcomes, for any limits and any number of
\* requests: each request it accepts has exactly one outcome before it is forgotten,
\* whatever IDs the client uses, and with a client that does not reuse the ID of a
\* cancelled call too early all outcomes are settled before Serve returns.
THEOREM PromisesKept == Spec => ImplementsOutcomes
<1>1. Init => Outcomes!Init
  BY ObjectsAssumption DEF Init, Outcomes!Init, Unwritten, Closed
<1>2. Keeping /\ Silent' /\ [Next]_vars => [Outcomes!Next]_Outcomes!promised
  <2> SUFFICES ASSUME Keeping, Silent', [Next]_vars
               PROVE  [Outcomes!Next]_Outcomes!promised
    OBVIOUS
  <2>1. CASE UNCHANGED vars
    BY <2>1, OthersUnnoticed DEF vars, callVars, readerVars, wireVars, Closed
  <2>2. CASE Terminated
    BY <2>1, <2>2 DEF Terminated
  <2>3. QED
    BY <2>1, <2>2, ReadingKeepsPromises, ShutdownKeepsPromises, HandlersKeepPromises, OthersKeepPromises DEF Next
<1>3. Spec => []Silent
  <2>1. CASE ReuseStaleIDs = FALSE
    <3>1. SilentAfterReturn => Silent
      BY DEF Silent
    <3>2. Spec => []SilentAfterReturn
      BY <2>1, SilentReturn
    <3>3. QED
      BY <3>1, <3>2, PTL
  <2>2. CASE ReuseStaleIDs = TRUE
    <3>1. Silent
      BY <2>2 DEF Silent
    <3>2. QED
      BY <3>1, PTL
  <2>3. QED
    BY <2>1, <2>2, FlagsAssumption
<1>4. Spec => []Keeping
  BY CallInvariant, TypeInvInit, TypeInvStep, SlotInvInit, SlotInvStep, <1>3, PTL DEF Spec, Keeping
<1>5. QED
  BY <1>1, <1>2, <1>4, PTL DEF Spec, Keeping, ImplementsOutcomes, Outcomes!Spec

\* What the promises come to, from RequestOutcomes alone: the exclusive outcomes, the
\* write errors that show and the return of Serve hold of whatever keeps the promises.
LEMMA PromisesFulfilled == Outcomes!Spec => []Outcomes!Fulfilled
<1>1. Outcomes!Init => Outcomes!Fulfilled
  BY DEF Outcomes!Init, Outcomes!Fulfilled, Outcomes!Settled
<1>2. Outcomes!Fulfilled /\ [Outcomes!Next]_Outcomes!promised => Outcomes!Fulfilled'
  <2> SUFFICES ASSUME Outcomes!Fulfilled, [Outcomes!Next]_Outcomes!promised
               PROVE  Outcomes!Fulfilled'
    OBVIOUS
  <2> USE DEF Outcomes!Fulfilled, Outcomes!Settled
  <2>1. ASSUME NEW c \in Calls, Outcomes!Accept(c) PROVE Outcomes!Fulfilled'
    BY <2>1 DEF Outcomes!Accept
  <2>2. ASSUME NEW c \in Calls, Outcomes!Answer(c) PROVE Outcomes!Fulfilled'
    BY <2>2 DEF Outcomes!Answer
  <2>3. ASSUME NEW c \in Calls, Outcomes!Cancel(c) PROVE Outcomes!Fulfilled'
    BY <2>3 DEF Outcomes!Cancel
  <2>4. ASSUME NEW c \in Calls, Outcomes!Lose(c) PROVE Outcomes!Fulfilled'
    BY <2>4 DEF Outcomes!Lose
  <2>5. ASSUME NEW c \in Calls, Outcomes!Retire(c) PROVE Outcomes!Fulfilled'
    BY <2>5 DEF Outcomes!Retire
  <2>6. CASE Outcomes!LoseOther \/ Outcomes!Close
    BY <2>6 DEF Outcomes!LoseOther, Outcomes!Close
  <2>7. CASE UNCHANGED Outcomes!promised
    BY <2>7 DEF Outcomes!promised
  <2>8. QED
    BY <2>1, <2>2, <2>3, <2>4, <2>5, <2>6, <2>7 DEF Outcomes!Next
<1>3. QED
  BY <1>1, <1>2, PTL DEF Outcomes!Spec

\* So they hold of the connection: no request has two outcomes, no lost response is kept
\* quiet, and nobody waits for a response of a Serve that has returned.
THEOREM EveryRequestSettled == Spec => []Outcomes!Fulfilled
BY PromisesKept, PromisesFulfilled DEF ImplementsOutcomes

=============================================================================
