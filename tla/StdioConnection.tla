-------------------------- MODULE StdioConnection --------------------------
(***************************************************************************)
(* One stdio connection of the MCP server (internal/mcpserver/stdio.go).   *)
(*                                                                         *)
(* A single reader goroutine scans request lines.  It answers the trivial  *)
(* ones itself and starts a goroutine for every call, every notification   *)
(* and every acknowledged subscriptions/listen.  Those goroutines and the  *)
(* reader share, under activeMu, the set of active request IDs and the     *)
(* tables of active calls and subscriptions; when the reader loop ends a   *)
(* deferred function cancels what is left and waits for the subscription   *)
(* writers.  One action is one critical section (or one channel operation) *)
(* of one goroutine.                                                       *)
(*                                                                         *)
(* A goroutine that has exited leaves its element of Calls or Subs free    *)
(* for a later request: the models run forever with finitely many objects. *)
(***************************************************************************)
EXTENDS FiniteSets, Integers

CONSTANTS
  RequestIds,     \* JSON-RPC request IDs the client uses
  Calls,          \* activeCall objects, one per handler goroutine
  Subs,           \* subscription objects, one per writer goroutine
  None,           \* no object, no ID (nil)
  MaxConcurrent,  \* maxConcurrentStdioRequests
  MaxActiveIDs,   \* maxActiveStdioRequestIDs
  InputClosable,  \* the input implements io.Closer (a pipe, not a reader)
  ReuseStaleIDs   \* the client may reuse the ID of a call it has cancelled
                  \* before that call's goroutine has ended

ASSUME ObjectsAssumption ==
  /\ None \notin RequestIds \cup Calls \cup Subs
  /\ IsFiniteSet(RequestIds) /\ IsFiniteSet(Calls)

ASSUME LimitsAssumption ==
  /\ MaxConcurrent \in Nat \ {0}
  /\ MaxActiveIDs \in Nat \ {0}

ASSUME FlagsAssumption == InputClosable \in BOOLEAN /\ ReuseStaleIDs \in BOOLEAN

VARIABLES
  \* tables shared under activeMu
  activeIDs,            \* IDs in use by a call or a subscription
  activeCalls,          \* request ID -> call object or None
  activeNotifications,  \* calls of requests without an ID
  activeSubscriptions,  \* request ID -> subscription object or None
  \* handler goroutines
  callAt,               \* where each handler goroutine is
  callID,               \* the request ID it serves, None for a notification
  cancelled,            \* calls with activeCall.cancelled set
  answered,             \* calls whose final response is on the wire
  executionSlots,       \* calls holding one of the execution slots
  \* subscriptions and their writer goroutines
  subAt,                \* where each subscription and its writer are
  subID,                \* the listen request's ID
  registered,           \* subscriptions in Server.subscriptions
  done, complete,       \* subscriptions whose channel of that name is closed
  events,               \* subscriptions whose one-element channel is full
  \* the reader goroutine and its deferred shutdown
  readerAt,             \* where the reader is
  readerID, readerCall, readerSub,  \* its request in progress
  leaving,              \* snapshot the shutdown is working through
  deadlineExpired,      \* the 100 ms shutdown deadline has fired
  \* the transport
  input,                \* "open" or "ended"
  broken,               \* every further write to the output fails
  ctxDone,              \* the context passed to Serve is cancelled
  requestErrors,        \* the one-element error channel is full
  writeFailed,          \* history: some goroutine's write has failed
  serveErr              \* Serve's result is an error

tableVars == <<activeIDs, activeCalls, activeNotifications, activeSubscriptions>>
callVars  == <<callAt, callID, cancelled, answered, executionSlots>>
subVars   == <<subAt, subID, registered, done, complete, events>>
readerVars == <<readerAt, readerID, readerCall, readerSub>>
shutdownVars == <<leaving, deadlineExpired>>
wireVars  == <<input, broken, ctxDone, requestErrors, writeFailed, serveErr>>
vars == <<tableVars, callVars, subVars, readerVars, shutdownVars, wireVars>>

----------------------------------------------------------------------------
\* A handler goroutine: running Handle, returned from it, final response
\* failed to be written, call.mu released with finished set, removed from the
\* tables; then it frees its slot and exits.
CallPoints == {"free", "accepted", "handling", "returned", "failed", "finished", "removed"}

\* A subscription: known to the server only, with its writer goroutine
\* running, the writer out of its loop, removed from the tables.
SubPoints == {"free", "subscribed", "streaming", "stopping", "removed"}

ReaderPoints == {"scan", "callRegistered", "listenRegistered", "listenSubscribed",
                 "listenStored", "cancelMarked", "cancelRemoved", "ended", "grace",
                 "cancelling", "draining", "unsubscribing", "returned"}

Stored(table) == {table[id] : id \in RequestIds} \ {None}

\* The client reuses the ID of a cancelled call only if it is that careless.
ClientMayUse(id) == ReuseStaleIDs \/ id \in activeIDs \/ activeCalls[id] = None

Init ==
  /\ activeIDs = {} /\ activeNotifications = {}
  /\ activeCalls = [id \in RequestIds |-> None]
  /\ activeSubscriptions = [id \in RequestIds |-> None]
  /\ callAt = [c \in Calls |-> "free"] /\ callID = [c \in Calls |-> None]
  /\ cancelled = {} /\ answered = {} /\ executionSlots = {}
  /\ subAt = [s \in Subs |-> "free"] /\ subID = [s \in Subs |-> None]
  /\ registered = {} /\ done = {} /\ complete = {} /\ events = {}
  /\ readerAt = "scan" /\ readerID = None /\ readerCall = None /\ readerSub = None
  /\ leaving = {} /\ deadlineExpired = FALSE
  /\ input = "open" /\ broken = FALSE /\ ctxDone = FALSE
  /\ requestErrors = FALSE /\ writeFailed = FALSE /\ serveErr = FALSE

----------------------------------------------------------------------------
\* Faulty variants of the operators below.  No specification uses them: the
\* model checker substitutes them to confirm that the properties notice.

\* cancelCall that does not look at call.finished.
NeverFinished(c) == FALSE
\* registerID without the test for a duplicate, and with an off-by-one limit.
RegistrableTwice(id) == Cardinality(activeIDs) < MaxActiveIDs
RegistrableOneMore(id) == id \notin activeIDs /\ Cardinality(activeIDs) <= MaxActiveIDs
\* An execution-slot channel with one element too many.
OneMoreSlot == Cardinality(executionSlots) <= MaxConcurrent
\* A failed subscribe that keeps its ID.
KeepID(id) == activeIDs' = activeIDs
\* unsubscribe without closing done.
UnsubscribeQuietly(s) == registered' = registered \ {s} /\ UNCHANGED done
\* A shutdown that does not wait for the handlers, or for the writers.
DrainedAtOnce == TRUE
WritersIgnored == TRUE
\* A handler that takes a cancelled Serve context for a cancelled call.
SilentOnContext(c) == callID[c] = None \/ c \in cancelled \/ ctxDone
\* A writer that goes on after the final response.
WriterKeepsCompleting(s) == subAt[s] = "streaming" /\ s \in complete /\ UNCHANGED vars

----------------------------------------------------------------------------
\* The reader goroutine.

\* activeCall.finished: set under call.mu when the response is out or given up.
Finished(c) == callAt[c] \notin {"accepted", "handling", "returned"}

\* A slot of the executionSlots channel can be taken without waiting.
SlotFree == Cardinality(executionSlots) < MaxConcurrent

\* registerID accepts the ID; releaseID gives it back.
Registrable(id) == id \notin activeIDs /\ Cardinality(activeIDs) < MaxActiveIDs
ReleaseID(id) == activeIDs' = activeIDs \ {id}

\* removeSubscription found one to unsubscribe.
FoundSubscription(id) == activeSubscriptions[id] # None

\* A line has been scanned and the context is still alive.
HasLine == readerAt = "scan" /\ input = "open" /\ ~ctxDone

\* The reader is back at the top of its loop.
BackToScan == /\ readerAt' = "scan" /\ readerID' = None
              /\ readerCall' = None /\ readerSub' = None

\* The reader leaves its loop, its deferred shutdown comes next.
LeaveLoop(failed) == /\ readerAt' = "ended" /\ serveErr' = failed
                     /\ readerID' = None /\ readerCall' = None /\ readerSub' = None

\* removeSubscription for the subscription s, or for whatever is stored (None).
RemoveSubscription(id, s) ==
  IF s # None /\ activeSubscriptions[id] # s
  THEN UNCHANGED <<activeIDs, activeSubscriptions>>
  ELSE /\ activeIDs' = activeIDs \ {id}
       /\ activeSubscriptions' = [activeSubscriptions EXCEPT ![id] = None]

\* Nothing refers to the subscription any more: its fields are garbage.
Discard(s) == /\ subAt' = [subAt EXCEPT ![s] = "free"]
              /\ subID' = [subID EXCEPT ![s] = None]
              /\ complete' = complete \ {s} /\ events' = events \ {s}

\* unsubscribe: out of the server's set, done closed.
Unsubscribe(s) == registered' = registered \ {s} /\ done' = done \cup {s}

\* Everything the reader answers itself (parse error, invalid request, legacy
\* lifecycle, malformed metadata, duplicate ID, overload): on a working output
\* that leaves no trace in the connection, on a broken one Serve returns.
InlineReplyFails ==
  /\ HasLine /\ broken
  /\ LeaveLoop(TRUE)
  /\ UNCHANGED <<tableVars, callVars, subVars, shutdownVars,
                 input, broken, ctxDone, requestErrors, writeFailed>>

\* A call gets an execution slot and its ID is registered, in this order;
\* when either is refused the reader replies inline.
ReadCall(id) ==
  /\ HasLine /\ ClientMayUse(id)
  /\ SlotFree /\ Registrable(id)
  /\ \E c \in Calls :
       /\ callAt[c] = "free"
       /\ callAt' = [callAt EXCEPT ![c] = "accepted"]
       /\ callID' = [callID EXCEPT ![c] = id]
       /\ executionSlots' = executionSlots \cup {c}
       /\ readerCall' = c
  /\ activeIDs' = activeIDs \cup {id}
  /\ readerAt' = "callRegistered" /\ readerID' = id
  /\ UNCHANGED <<activeCalls, activeNotifications, activeSubscriptions, cancelled,
                 answered, subVars, readerSub, shutdownVars, wireVars>>

\* In a second critical section the call is stored, then its goroutine starts.
StartCall ==
  /\ readerAt = "callRegistered"
  /\ activeCalls' = [activeCalls EXCEPT ![readerID] = readerCall]
  /\ callAt' = [callAt EXCEPT ![readerCall] = "handling"]
  /\ BackToScan
  /\ UNCHANGED <<activeIDs, activeNotifications, activeSubscriptions, callID,
                 cancelled, answered, executionSlots, subVars, shutdownVars, wireVars>>

\* A request without an ID: no registration, silently dropped when no slot is free.
ReadNotification ==
  /\ HasLine /\ SlotFree
  /\ \E c \in Calls :
       /\ callAt[c] = "free"
       /\ callAt' = [callAt EXCEPT ![c] = "handling"]
       /\ executionSlots' = executionSlots \cup {c}
       /\ activeNotifications' = activeNotifications \cup {c}
  /\ UNCHANGED <<activeIDs, activeCalls, activeSubscriptions, callID, cancelled,
                 answered, subVars, readerVars, shutdownVars, wireVars>>

\* notifications/cancelled, first part: cancelCall under call.mu.
ReadCancel(id) ==
  /\ HasLine
  /\ cancelled' = cancelled \cup {c \in {activeCalls[id]} \ {None} : ~Finished(c)}
  /\ readerAt' = "cancelMarked" /\ readerID' = id
  /\ UNCHANGED <<tableVars, callAt, callID, answered, executionSlots, subVars,
                 readerCall, readerSub, shutdownVars, wireVars>>

\* Second part: whatever the ID stands for, it is dropped from activeIDs.
CancelRemove ==
  /\ readerAt = "cancelMarked"
  /\ RemoveSubscription(readerID, None)
  /\ readerAt' = IF FoundSubscription(readerID) THEN "cancelRemoved" ELSE "scan"
  /\ readerID' = None /\ readerSub' = activeSubscriptions[readerID]
  /\ UNCHANGED <<activeCalls, activeNotifications, callVars, subVars, readerCall,
                 shutdownVars, wireVars>>

\* Third part, when there was a subscription: unsubscribe it.
CancelUnsubscribe ==
  /\ readerAt = "cancelRemoved"
  /\ Unsubscribe(readerSub)
  /\ BackToScan
  /\ UNCHANGED <<tableVars, callVars, subAt, subID, complete, events, shutdownVars, wireVars>>

\* subscriptions/listen registers its ID ...
ReadListen(id) ==
  /\ HasLine /\ ClientMayUse(id) /\ Registrable(id)
  /\ activeIDs' = activeIDs \cup {id}
  /\ readerAt' = "listenRegistered" /\ readerID' = id
  /\ UNCHANGED <<activeCalls, activeNotifications, activeSubscriptions, callVars,
                 subVars, readerCall, readerSub, shutdownVars, wireVars>>

\* ... and is refused by subscribe, which releases the ID and replies ...
ListenRefused ==
  /\ readerAt = "listenRegistered"
  /\ ReleaseID(readerID)
  /\ \/ ~broken /\ BackToScan /\ UNCHANGED serveErr
     \/ broken /\ LeaveLoop(TRUE)
  /\ UNCHANGED <<activeCalls, activeNotifications, activeSubscriptions, callVars, subVars,
                 shutdownVars, input, broken, ctxDone, requestErrors, writeFailed>>

\* ... or adds a fresh subscription to the server's set, ...
Subscribe ==
  /\ readerAt = "listenRegistered"
  /\ \E s \in Subs :
       /\ subAt[s] = "free"
       /\ subAt' = [subAt EXCEPT ![s] = "subscribed"]
       /\ subID' = [subID EXCEPT ![s] = readerID]
       /\ registered' = registered \cup {s}
       /\ done' = done \ {s}
       /\ readerSub' = s
  /\ readerAt' = "listenSubscribed"
  /\ UNCHANGED <<tableVars, callVars, complete, events, readerID, readerCall,
                 shutdownVars, wireVars>>

\* ... which is then stored under its ID ...
StoreSubscription ==
  /\ readerAt = "listenSubscribed"
  /\ activeSubscriptions' = [activeSubscriptions EXCEPT ![readerID] = readerSub]
  /\ readerAt' = "listenStored"
  /\ UNCHANGED <<activeIDs, activeCalls, activeNotifications, callVars, subVars,
                 readerID, readerCall, readerSub, shutdownVars, wireVars>>

\* ... and acknowledged before its writer goroutine starts.
Acknowledge ==
  /\ readerAt = "listenStored" /\ ~broken
  /\ subAt' = [subAt EXCEPT ![readerSub] = "streaming"]
  /\ BackToScan
  /\ UNCHANGED <<tableVars, callVars, subID, registered, done, complete, events,
                 shutdownVars, wireVars>>

\* The acknowledgement cannot be written: undo the subscription and return.
\* No writer exists yet, so the two critical sections of the undo are one step.
AcknowledgeFails ==
  /\ readerAt = "listenStored" /\ broken
  /\ Unsubscribe(readerSub)
  /\ RemoveSubscription(readerID, readerSub)
  /\ Discard(readerSub)
  /\ LeaveLoop(TRUE)
  /\ UNCHANGED <<activeCalls, activeNotifications, callVars, shutdownVars,
                 input, broken, ctxDone, requestErrors, writeFailed>>

\* A line arrives after the context was cancelled.
ContextEndsLoop ==
  /\ readerAt = "scan" /\ input = "open" /\ ctxDone
  /\ LeaveLoop(TRUE)
  /\ UNCHANGED <<tableVars, callVars, subVars, shutdownVars,
                 input, broken, ctxDone, requestErrors, writeFailed>>

\* The scanner stops, at the end of the input or at a read error.  An error
\* already reported by another goroutine takes precedence over both.
InputEndsLoop ==
  /\ readerAt = "scan" /\ input = "ended"
  /\ \E readFailed \in BOOLEAN : LeaveLoop(requestErrors \/ readFailed)
  /\ requestErrors' = FALSE
  /\ UNCHANGED <<tableVars, callVars, subVars, shutdownVars,
                 input, broken, ctxDone, writeFailed>>

----------------------------------------------------------------------------
\* The deferred shutdown of the reader goroutine.

\* Take over all the calls in the tables; a finite reader grants them a grace period.
SnapshotCalls ==
  /\ readerAt = "ended"
  /\ leaving' = Stored(activeCalls) \cup activeNotifications
  /\ activeCalls' = [id \in RequestIds |-> None] /\ activeNotifications' = {}
  /\ readerAt' = IF ~InputClosable /\ leaving' # {} THEN "grace" ELSE "cancelling"
  /\ UNCHANGED <<activeIDs, activeSubscriptions, callVars, subVars, readerID,
                 readerCall, readerSub, deadlineExpired, wireVars>>

\* One 100 ms timer bounds both waits for the execution slots.
Deadline ==
  /\ readerAt \in {"grace", "draining"} /\ executionSlots # {} /\ ~deadlineExpired
  /\ deadlineExpired' = TRUE
  /\ UNCHANGED <<tableVars, callVars, subVars, readerVars, leaving, wireVars>>

Drained == executionSlots = {} \/ deadlineExpired

EndGrace ==
  /\ readerAt = "grace" /\ Drained
  /\ readerAt' = "cancelling"
  /\ UNCHANGED <<tableVars, callVars, subVars, readerID, readerCall, readerSub,
                 shutdownVars, wireVars>>

\* Cancel the calls of the snapshot one by one, each under its call.mu.
CancelLeaving(c) ==
  /\ readerAt = "cancelling" /\ c \in leaving
  /\ leaving' = leaving \ {c}
  /\ cancelled' = IF Finished(c) THEN cancelled ELSE cancelled \cup {c}
  /\ UNCHANGED <<tableVars, callAt, callID, answered, executionSlots, subVars,
                 readerVars, deadlineExpired, wireVars>>

AllCancelled ==
  /\ readerAt = "cancelling" /\ leaving = {}
  /\ readerAt' = "draining"
  /\ UNCHANGED <<tableVars, callVars, subVars, readerID, readerCall, readerSub,
                 shutdownVars, wireVars>>

\* Take over all the subscriptions in the table.
SnapshotSubscriptions ==
  /\ readerAt = "draining" /\ Drained
  /\ leaving' = Stored(activeSubscriptions)
  /\ activeSubscriptions' = [id \in RequestIds |-> None]
  /\ readerAt' = "unsubscribing"
  /\ UNCHANGED <<activeIDs, activeCalls, activeNotifications, callVars, subVars,
                 readerID, readerCall, readerSub, deadlineExpired, wireVars>>

UnsubscribeLeaving(s) ==
  /\ readerAt = "unsubscribing" /\ s \in leaving
  /\ leaving' = leaving \ {s}
  /\ Unsubscribe(s)
  /\ UNCHANGED <<tableVars, callVars, subAt, subID, complete, events, readerVars,
                 deadlineExpired, wireVars>>

\* subscriptionWriters.Wait returns.
WritersDone == \A s \in Subs : subAt[s] = "free"

\* Serve returns, after the last look at requestErrors.
Return ==
  /\ readerAt = "unsubscribing" /\ leaving = {}
  /\ WritersDone
  /\ readerAt' = "returned"
  /\ serveErr' = (serveErr \/ requestErrors)
  /\ requestErrors' = (requestErrors /\ serveErr)
  /\ UNCHANGED <<tableVars, callVars, subVars, readerID, readerCall, readerSub,
                 shutdownVars, input, broken, ctxDone, writeFailed>>

----------------------------------------------------------------------------
\* A handler goroutine.

\* Handle returns and finishRequestRuntime silences the request's runtime.
HandleReturns(c) ==
  /\ callAt[c] = "handling"
  /\ callAt' = [callAt EXCEPT ![c] = "returned"]
  /\ UNCHANGED <<tableVars, callID, cancelled, answered, executionSlots, subVars,
                 readerVars, shutdownVars, wireVars>>

MustNotAnswer(c) == callID[c] = None \/ c \in cancelled

\* Under call.mu: a notification or a cancelled call finishes silently ...
FinishSilently(c) ==
  /\ callAt[c] = "returned" /\ MustNotAnswer(c)
  /\ callAt' = [callAt EXCEPT ![c] = "finished"]
  /\ UNCHANGED <<tableVars, callID, cancelled, answered, executionSlots, subVars,
                 readerVars, shutdownVars, wireVars>>

\* ... any other call writes its response ...
Respond(c) ==
  /\ callAt[c] = "returned" /\ ~MustNotAnswer(c) /\ ~broken
  /\ answered' = answered \cup {c}
  /\ callAt' = [callAt EXCEPT ![c] = "finished"]
  /\ UNCHANGED <<tableVars, callID, cancelled, executionSlots, subVars, readerVars,
                 shutdownVars, wireVars>>

\* ... or fails to, and reports that once it has released call.mu.
RespondFails(c) ==
  /\ callAt[c] = "returned" /\ ~MustNotAnswer(c) /\ broken
  /\ callAt' = [callAt EXCEPT ![c] = "failed"]
  /\ writeFailed' = TRUE
  /\ UNCHANGED <<tableVars, callID, cancelled, answered, executionSlots, subVars,
                 readerVars, shutdownVars, input, broken, ctxDone, requestErrors, serveErr>>

\* reportAsyncError: a full channel keeps the older error; closing the input
\* makes the reader's next Scan fail.
ReportAsyncError ==
  /\ requestErrors' = TRUE
  /\ input' = IF InputClosable THEN "ended" ELSE input

ReportResponseError(c) ==
  /\ callAt[c] = "failed"
  /\ callAt' = [callAt EXCEPT ![c] = "finished"]
  /\ ReportAsyncError
  /\ UNCHANGED <<tableVars, callID, cancelled, answered, executionSlots, subVars,
                 readerVars, shutdownVars, broken, ctxDone, writeFailed, serveErr>>

\* Deferred removeCall, which leaves the tables alone when the ID's entry is
\* another call's, or removeNotification.
RemoveCall(c) ==
  /\ callAt[c] = "finished"
  /\ callAt' = [callAt EXCEPT ![c] = "removed"]
  /\ \/ /\ callID[c] = None
        /\ activeNotifications' = activeNotifications \ {c}
        /\ UNCHANGED <<activeIDs, activeCalls>>
     \/ /\ callID[c] # None /\ activeCalls[callID[c]] = c
        /\ activeCalls' = [activeCalls EXCEPT ![callID[c]] = None]
        /\ activeIDs' = activeIDs \ {callID[c]}
        /\ UNCHANGED activeNotifications
     \/ /\ callID[c] # None /\ activeCalls[callID[c]] # c
        /\ UNCHANGED <<activeIDs, activeCalls, activeNotifications>>
  /\ UNCHANGED <<activeSubscriptions, callID, cancelled, answered, executionSlots,
                 subVars, readerVars, shutdownVars, wireVars>>

\* The deferred cancel and the release of the slot end the goroutine.
ReleaseSlot(c) ==
  /\ callAt[c] = "removed"
  /\ callAt' = [callAt EXCEPT ![c] = "free"]
  /\ callID' = [callID EXCEPT ![c] = None]
  /\ executionSlots' = executionSlots \ {c}
  /\ cancelled' = cancelled \ {c} /\ answered' = answered \ {c}
  /\ UNCHANGED <<tableVars, subVars, readerVars, shutdownVars, wireVars>>

----------------------------------------------------------------------------
\* A subscription's writer goroutine: its select picks any ready case.

WriterStops(s) ==
  /\ subAt[s] = "streaming" /\ (ctxDone \/ s \in done)
  /\ subAt' = [subAt EXCEPT ![s] = "stopping"]
  /\ UNCHANGED <<tableVars, callVars, subID, registered, done, complete, events,
                 readerVars, shutdownVars, wireVars>>

\* A write of the writer goroutine fails: it reports the error and stops.
WriterFails(s) ==
  /\ broken
  /\ subAt' = [subAt EXCEPT ![s] = "stopping"]
  /\ writeFailed' = TRUE
  /\ ReportAsyncError
  /\ UNCHANGED <<broken, ctxDone, serveErr>>

\* The complete channel is closed: the listen request gets its final response.
WriterCompletes(s) ==
  /\ subAt[s] = "streaming" /\ s \in complete
  /\ \/ /\ ~broken
        /\ subAt' = [subAt EXCEPT ![s] = "stopping"]
        /\ UNCHANGED wireVars
     \/ WriterFails(s)
  /\ UNCHANGED <<tableVars, callVars, subID, registered, done, complete, events,
                 readerVars, shutdownVars>>

WriterForwards(s) ==
  /\ subAt[s] = "streaming" /\ s \in events
  /\ events' = events \ {s}
  /\ \/ ~broken /\ UNCHANGED <<subAt, wireVars>>
     \/ WriterFails(s)
  /\ UNCHANGED <<tableVars, callVars, subID, registered, done, complete,
                 readerVars, shutdownVars>>

\* Deferred: removeSubscription for this very subscription ...
WriterRemoves(s) ==
  /\ subAt[s] = "stopping"
  /\ RemoveSubscription(subID[s], s)
  /\ subAt' = [subAt EXCEPT ![s] = "removed"]
  /\ UNCHANGED <<activeCalls, activeNotifications, callVars, subID, registered, done,
                 complete, events, readerVars, shutdownVars, wireVars>>

\* ... and unsubscribe; then the WaitGroup is told.
WriterExits(s) ==
  /\ subAt[s] = "removed"
  /\ Unsubscribe(s)
  /\ Discard(s)
  /\ UNCHANGED <<tableVars, callVars, readerVars, shutdownVars, wireVars>>

----------------------------------------------------------------------------
\* The rest of the server and the world.

\* A publisher's notify, for a subscription it found in the server's set some
\* time ago: a full channel drops the event.
Notify(s) ==
  /\ subAt[s] # "free" /\ s \notin events
  /\ events' = events \cup {s}
  /\ UNCHANGED <<tableVars, callVars, subAt, subID, registered, done, complete,
                 readerVars, shutdownVars, wireVars>>

\* CloseSubscriptions closes the complete channels one by one, of subscriptions
\* it found in the server's set when it started.
CloseSubscription(s) ==
  /\ subAt[s] # "free" /\ s \notin complete
  /\ complete' = complete \cup {s}
  /\ UNCHANGED <<tableVars, callVars, subAt, subID, registered, done, events,
                 readerVars, shutdownVars, wireVars>>

\* The client closes its end of the input, or the transport does.
EndInput ==
  /\ input = "open" /\ input' = "ended"
  /\ UNCHANGED <<tableVars, callVars, subVars, readerVars, shutdownVars,
                 broken, ctxDone, requestErrors, writeFailed, serveErr>>

BreakOutput ==
  /\ ~broken /\ broken' = TRUE
  /\ UNCHANGED <<tableVars, callVars, subVars, readerVars, shutdownVars,
                 input, ctxDone, requestErrors, writeFailed, serveErr>>

CancelContext ==
  /\ ~ctxDone /\ ctxDone' = TRUE
  /\ UNCHANGED <<tableVars, callVars, subVars, readerVars, shutdownVars,
                 input, broken, requestErrors, writeFailed, serveErr>>

----------------------------------------------------------------------------
ReadRequest(id) == ReadCall(id) \/ ReadCancel(id) \/ ReadListen(id)

\* What the reader does on its own once it has a line or the input has ended.
ReaderStep ==
  \/ StartCall \/ CancelRemove \/ CancelUnsubscribe \/ ListenRefused \/ Subscribe
  \/ StoreSubscription \/ Acknowledge \/ AcknowledgeFails \/ InputEndsLoop

Shutdown ==
  \/ SnapshotCalls \/ Deadline \/ EndGrace \/ AllCancelled
  \/ SnapshotSubscriptions \/ Return
  \/ \E c \in Calls : CancelLeaving(c)
  \/ \E s \in Subs : UnsubscribeLeaving(s)

\* After Handle the goroutine runs to its end.
CallStep(c) == FinishSilently(c) \/ Respond(c) \/ RespondFails(c)
               \/ ReportResponseError(c) \/ RemoveCall(c) \/ ReleaseSlot(c)

WriterStep(s) == WriterStops(s) \/ WriterCompletes(s) \/ WriterForwards(s)
                 \/ WriterRemoves(s) \/ WriterExits(s)

Environment ==
  \/ EndInput \/ BreakOutput \/ CancelContext
  \/ \E s \in Subs : Notify(s) \/ CloseSubscription(s)

\* Serve has returned and every goroutine it started has ended.
Terminated ==
  /\ readerAt = "returned" /\ input = "ended" /\ broken /\ ctxDone
  /\ \A c \in Calls : callAt[c] = "free"
  /\ UNCHANGED vars

Next ==
  \/ \E id \in RequestIds : ReadRequest(id)
  \/ InlineReplyFails \/ ReadNotification \/ ContextEndsLoop
  \/ ReaderStep \/ Shutdown
  \/ \E c \in Calls : HandleReturns(c) \/ CallStep(c)
  \/ \E s \in Subs : WriterStep(s)
  \/ Environment \/ Terminated

Spec == Init /\ [][Next]_vars

\* The Go scheduler runs every ready goroutine, select picks at random among
\* its ready cases, and the deadline is a timer.
ReaderRuns == WF_vars(ReaderStep) /\ WF_vars(Shutdown)
CallRuns(c) == WF_vars(CallStep(c))
WriterRuns(s) ==
  /\ WF_vars(WriterStops(s)) /\ WF_vars(WriterCompletes(s)) /\ WF_vars(WriterForwards(s))
  /\ WF_vars(WriterRemoves(s)) /\ WF_vars(WriterExits(s))

FairSpec ==
  /\ Spec /\ ReaderRuns
  /\ \A c \in Calls : CallRuns(c)
  /\ \A s \in Subs : WriterRuns(s)

\* Moreover every handler returns: the server's tools are bounded or watch their context.
HandlerEnds(c) == WF_vars(HandleReturns(c))

LiveSpec == FairSpec /\ \A c \in Calls : HandlerEnds(c)

----------------------------------------------------------------------------
\* Every variable ranges over the values the code's own types allow.
TypeOK ==
  /\ activeIDs \subseteq RequestIds /\ activeNotifications \subseteq Calls
  /\ activeCalls \in [RequestIds -> Calls \cup {None}]
  /\ activeSubscriptions \in [RequestIds -> Subs \cup {None}]
  /\ callAt \in [Calls -> CallPoints] /\ callID \in [Calls -> RequestIds \cup {None}]
  /\ cancelled \subseteq Calls /\ answered \subseteq Calls /\ executionSlots \subseteq Calls
  /\ subAt \in [Subs -> SubPoints] /\ subID \in [Subs -> RequestIds \cup {None}]
  /\ registered \subseteq Subs /\ done \subseteq Subs
  /\ complete \subseteq Subs /\ events \subseteq Subs
  /\ readerAt \in ReaderPoints /\ readerID \in RequestIds \cup {None}
  /\ readerCall \in Calls \cup {None} /\ readerSub \in Subs \cup {None}
  /\ leaving \subseteq Calls \cup Subs /\ deadlineExpired \in BOOLEAN
  /\ input \in {"open", "ended"}
  /\ {broken, ctxDone, requestErrors, writeFailed, serveErr} \subseteq BOOLEAN

\* A call whose response can still be written, a subscription still being served.
CanAnswer(c) == callAt[c] \in {"accepted", "handling", "returned"} /\ c \notin cancelled
Serving(s) == subAt[s] \in {"subscribed", "streaming"} /\ s \notin done

\* The reader has not yet handed the tables over to the shutdown.
Reading == readerAt \notin {"grace", "cancelling", "draining", "unsubscribing", "returned"}

\* Cancelling and answering exclude each other: whatever the order in which
\* the reader and the handler goroutine get call.mu, a call that was marked
\* cancelled has no final response on the wire, and an answered one is never
\* marked cancelled afterwards (stdio.go cancelCall, the shutdown, the handler).
CancelledNotAnswered == cancelled \cap answered = {}

\* No ID leaks: while requests are read, an ID in activeIDs is one the reader
\* is registering right now or one that a stored call or subscription will
\* release.  A leaked ID would count against maxActiveStdioRequestIDs for ever.
NoLeakedID ==
  Reading => \A id \in activeIDs :
    \/ readerAt \in {"callRegistered", "listenRegistered", "listenSubscribed"} /\ readerID = id
    \/ activeCalls[id] # None
    \/ activeSubscriptions[id] # None

\* At most maxConcurrentStdioRequests handlers run at any time, the shutdown
\* and late goroutines of a returned Serve included.
HandlersBounded == Cardinality({c \in Calls : callAt[c] # "free"}) <= MaxConcurrent

\* At most maxActiveStdioRequestIDs requests that bear an ID are being answered
\* or served: the limit counts requests, not only the entries of activeIDs.
RequestsBounded ==
  Cardinality({c \in Calls : CanAnswer(c) /\ callID[c] # None})
    + Cardinality({s \in Subs : Serving(s)}) <= MaxActiveIDs

\* A table entry is a live object of that very ID: a call's entry goes when
\* its goroutine removes it, a subscription's when its writer does, the client
\* cancels it or the connection shuts down, so cancelling an ID never hits a
\* request that has ended or that bears another ID.
EntriesAreLive ==
  \A id \in RequestIds :
    /\ activeCalls[id] # None =>
         callID[activeCalls[id]] = id /\ callAt[activeCalls[id]] \notin {"free", "accepted", "removed"}
    /\ activeSubscriptions[id] # None =>
         subID[activeSubscriptions[id]] = id /\ subAt[activeSubscriptions[id]] \notin {"free", "removed"}

\* The three tables under activeMu agree with each other and with what they
\* refer to: no ID without an entry to come, no entry without a live request.
TablesAgree == NoLeakedID /\ EntriesAreLive

\* At most one request that can still be answered or served bears an ID: a
\* response or an event that carries the ID belongs to one request only.
OneHolderPerID ==
  /\ \A c, d \in Calls : CanAnswer(c) /\ CanAnswer(d) /\ callID[c] = callID[d] /\ c # d => callID[c] = None
  /\ \A s, r \in Subs : Serving(s) /\ Serving(r) /\ subID[s] = subID[r] => s = r
  /\ \A c \in Calls, s \in Subs : CanAnswer(c) /\ Serving(s) => callID[c] # subID[s]

\* Whatever can still be answered or served can be found: by the client's
\* cancellation through the tables, or by the shutdown's snapshot.  An orphan
\* could neither be cancelled nor be waited for.
NoOrphans ==
  /\ \A c \in Calls : CanAnswer(c) =>
       c \in {readerCall} \cup Stored(activeCalls) \cup activeNotifications \cup leaving
  /\ \A s \in Subs : Serving(s) =>
       s \in {readerSub} \cup Stored(activeSubscriptions) \cup leaving

\* Once Serve has returned no response, event or completion of the connection
\* can still be written to the output: every remaining handler is cancelled (or past its
\* answer), every writer has ended and the server has forgotten its subscription.
SilentAfterReturn ==
  readerAt = "returned" =>
    /\ \A c \in Calls : callID[c] # None => ~CanAnswer(c)
    /\ \A s \in Subs : subAt[s] = "free" /\ s \notin registered

\* A response, event or completion that could not be written makes Serve fail,
\* unless the handler that failed to write outlived the shutdown deadline.
WriteErrorReported ==
  readerAt = "returned" /\ writeFailed /\ ~deadlineExpired => serveErr

\* The calls whose response could not be written.
Unwritten == {c \in Calls : /\ callID[c] # None /\ c \notin answered \cup cancelled
                            /\ callAt[c] \in {"failed", "finished", "removed"}}

\* Serve has returned to a client whose calls its shutdown was bound to find: of
\* one that reuses IDs at will, a late goroutine may still answer.
Closed == readerAt = "returned" /\ ~ReuseStaleIDs

\* What RequestOutcomes speaks of, in terms of this connection.
Outcomes == INSTANCE RequestOutcomes WITH
  accepted <- {c \in Calls : callAt[c] # "free"},
  due <- {c \in Calls : callID[c] # None},
  unwritten <- Unwritten, lost <- writeFailed, closed <- Closed

\* Every request whose client waits for a response has exactly one outcome, none is
\* forgotten without one, and no more are worked on than there are slots, whatever
\* becomes of the tables; to a client that does not reuse the ID of a cancelled call
\* too early, all outcomes are settled before Serve returns (RequestOutcomes).  That
\* a cancelled call gets no response is what the handler goroutine and its test say
\* (stdio_test.go:316); docs/plans/2026-08-12-complete-mcp-roadmap.md:68 has it get
\* "one deterministic terminal response".
ImplementsOutcomes == Outcomes!Spec

\* A goroutine that has a step to take is held up by nobody: a handler past its
\* start runs to its end whatever the reader, the shutdown and the output are
\* doing, and so does a writer that has been completed or has left its loop.  The
\* liveness theorems have this as their hypothesis, since it is about ENABLED.
CanReturn(c) == ENABLED <<HandleReturns(c)>>_vars
CanGoOn(c) == ENABLED <<CallStep(c)>>_vars
CanComplete(s) == ENABLED <<WriterCompletes(s)>>_vars
CanRemove(s) == ENABLED <<WriterRemoves(s)>>_vars
CanExit(s) == ENABLED <<WriterExits(s)>>_vars

NobodyHeldUp ==
  /\ \A c \in Calls :
       /\ callAt[c] = "handling" => CanReturn(c)
       /\ callAt[c] \in {"returned", "failed", "finished", "removed"} => CanGoOn(c)
  /\ \A s \in Subs :
       /\ subAt[s] = "streaming" /\ s \in complete => CanComplete(s)
       /\ subAt[s] = "stopping" => CanRemove(s)
       /\ subAt[s] = "removed" => CanExit(s)

\* When the input has ended, Serve returns: no handler and no subscription
\* writer can hold the connection open.
ServeReturns == input = "ended" ~> readerAt = "returned"

\* Every call that starts is answered, or cancelled, or its answer could not be
\* written; and every handler that starts ends, past the removal from the tables
\* and the release of its slot, which come after the response is on the wire.
CallsConclude ==
  \A c \in Calls :
    /\ callAt[c] = "handling" /\ callID[c] # None
         ~> c \in answered \cup cancelled \/ writeFailed
    /\ callAt[c] = "handling" ~> callAt[c] = "free"

\* CloseSubscriptions ends every subscription it completed, however many
\* events keep arriving.
CompletedSubscriptionsEnd ==
  \A s \in Subs : s \in complete /\ subAt[s] = "streaming" ~> subAt[s] = "free"

=============================================================================
