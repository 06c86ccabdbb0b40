--------------------------- MODULE RequestStream ---------------------------
(***************************************************************************)
(* One request with a progress token over HTTP: the request's runtime      *)
(* (internal/mcpserver/runtime.go) and the SSE stream that carries its     *)
(* notifications and its response (http.go serveHTTPRequestScoped).        *)
(*                                                                         *)
(* The tool and the goroutines it starts report progress and log messages  *)
(* under runtime.mu, into a bounded channel; the goroutine of the handler  *)
(* marks the runtime done and hands over the response; the goroutine of    *)
(* the HTTP request writes what arrives.  The channel is represented by    *)
(* everything that was ever put into it and the number taken out.          *)
(***************************************************************************)
EXTENDS FiniteSets, Integers, Sequences

CONSTANTS
  Producers,   \* goroutines of the tool
  None,        \* nobody
  Log,         \* a notification that is no progress report
  Capacity,    \* of the events channel
  MaxProgress, \* bound on the progress values
  MaxEmitted   \* bound on the notifications of the request

ASSUME StreamAssumption ==
  /\ None \notin Producers /\ Log \notin Nat
  /\ Capacity \in Nat \ {0} /\ MaxProgress \in Nat /\ MaxEmitted \in Nat

VARIABLES
  producerAt, want,  \* where each producer is, the notification it reports
  mu,                \* the producer that holds runtime.mu, or None
  last,              \* runtime.last; -1 stands for minus infinity
  done,              \* runtime.done
  emitted, sent,     \* the notifications put into the channel, the number taken
  handlerAt,         \* the goroutine that runs Handle
  streamAt,          \* the goroutine of the HTTP request
  hungUp,            \* the client has disconnected
  ctxDone            \* the request's context is cancelled

producerVars == <<producerAt, want>>
runtimeVars == <<mu, last, done>>
channelVars == <<emitted, sent>>
vars == <<producerVars, runtimeVars, channelVars, handlerAt, streamAt, hungUp, ctxDone>>

Messages == (0..MaxProgress) \cup {Log}
ProducerPoints == {"idle", "calling", "emitting"}
HandlerPoints == {"running", "returned", "finished", "ended"}
StreamPoints == {"serving", "draining", "blocked", "responded", "closed"}

Init ==
  /\ producerAt = [p \in Producers |-> "idle"] /\ want = [p \in Producers |-> Log]
  /\ mu = None /\ last = -1 /\ done = FALSE
  /\ emitted = << >> /\ sent = 0
  /\ handlerAt = "running" /\ streamAt = "serving"
  /\ hungUp = FALSE /\ ctxDone = FALSE

----------------------------------------------------------------------------
\* Faulty variants of the operators below.  No specification uses them: the
\* model checker substitutes them to confirm that the properties notice.

\* A report that is not compared with the last one, or only before the lock is taken.
AcceptedAnyway(m) == ~done /\ ~ctxDone
\* A stream that answers without emptying the channel first.
AnsweredAtOnce == TRUE
\* A drain loop without a default case: it waits for one more notification.
NeverDrained == FALSE
\* An emit that waits for room only, whatever becomes of the client.
RoomOnly == FALSE
\* A result channel without room: the handler waits for the stream to take it.
HandOverInPerson == streamAt = "serving"
\* A runtime that remembers whatever number it is given.
Remember(m) == m

----------------------------------------------------------------------------
\* ReportProgress and EmitNotification.

Buffered == Len(emitted) - sent

\* The checks before the lock: the token and the value are fine, the context
\* is alive.  (The bound counts the notifications under way.)
Report(p, m) ==
  /\ producerAt[p] = "idle" /\ ~ctxDone
  /\ Len(emitted) + Cardinality({q \in Producers : producerAt[q] # "idle"}) < MaxEmitted
  /\ producerAt' = [producerAt EXCEPT ![p] = "calling"]
  /\ want' = [want EXCEPT ![p] = m]
  /\ UNCHANGED <<runtimeVars, channelVars, handlerAt, streamAt, hungUp, ctxDone>>

\* The checks under the lock.
Acceptable(m) == ~done /\ ~ctxDone /\ (m # Log => m >= last)

Lock(p) ==
  /\ producerAt[p] = "calling" /\ mu = None /\ Acceptable(want[p])
  /\ producerAt' = [producerAt EXCEPT ![p] = "emitting"] /\ mu' = p
  /\ UNCHANGED <<want, last, done, channelVars, handlerAt, streamAt, hungUp, ctxDone>>

\* The call returns false, having taken the lock and let it go again.
Suppressed(p) ==
  /\ producerAt[p] = "calling" /\ mu = None /\ ~Acceptable(want[p])
  /\ producerAt' = [producerAt EXCEPT ![p] = "idle"]
  /\ UNCHANGED <<want, runtimeVars, channelVars, handlerAt, streamAt, hungUp, ctxDone>>

\* What runtime.last becomes.
NewLast(m) == IF m = Log THEN last ELSE m

\* emit's select, under the lock: into the channel when there is room ...
Emit(p) ==
  /\ producerAt[p] = "emitting" /\ Buffered < Capacity
  /\ emitted' = Append(emitted, want[p])
  /\ last' = NewLast(want[p])
  /\ producerAt' = [producerAt EXCEPT ![p] = "idle"] /\ mu' = None
  /\ UNCHANGED <<want, done, sent, handlerAt, streamAt, hungUp, ctxDone>>

\* ... or not at all once the context is cancelled.
Abandoned == ctxDone

EmitFails(p) ==
  /\ producerAt[p] = "emitting" /\ Abandoned
  /\ producerAt' = [producerAt EXCEPT ![p] = "idle"] /\ mu' = None
  /\ UNCHANGED <<want, last, done, channelVars, handlerAt, streamAt, hungUp, ctxDone>>

----------------------------------------------------------------------------
\* The goroutine of the handler.

HandleReturns ==
  /\ handlerAt = "running" /\ handlerAt' = "returned"
  /\ UNCHANGED <<producerVars, runtimeVars, channelVars, streamAt, hungUp, ctxDone>>

\* finishRequestRuntime.
FinishRuntime ==
  /\ handlerAt = "returned" /\ mu = None
  /\ done' = TRUE /\ handlerAt' = "finished"
  /\ UNCHANGED <<producerVars, mu, last, channelVars, streamAt, hungUp, ctxDone>>

\* The result channel has room for the only response.
CanHandOver == TRUE

HandOver ==
  /\ handlerAt = "finished" /\ CanHandOver
  /\ handlerAt' = "ended"
  /\ UNCHANGED <<producerVars, runtimeVars, channelVars, streamAt, hungUp, ctxDone>>

----------------------------------------------------------------------------
\* The goroutine of the HTTP request; its context ends with it.

Leave(point) == streamAt' = point /\ ctxDone' = TRUE

\* What may become of a write: it ends the request when the client has
\* disconnected, or does not return because the client has stopped reading.
WriteFails ==
  \/ hungUp /\ Leave("closed")
  \/ streamAt' = "blocked" /\ UNCHANGED ctxDone

\* The select takes a notification, or the drain loop does, and writes it.
Forward ==
  /\ streamAt \in {"serving", "draining"} /\ Buffered > 0
  /\ sent' = sent + 1
  /\ UNCHANGED <<streamAt, ctxDone>> \/ WriteFails
  /\ UNCHANGED <<producerVars, runtimeVars, emitted, handlerAt, hungUp>>

\* The select takes the result: it may do so with notifications in the channel.
TakeResult ==
  /\ streamAt = "serving" /\ handlerAt = "ended"
  /\ streamAt' = "draining"
  /\ UNCHANGED <<producerVars, runtimeVars, channelVars, handlerAt, hungUp, ctxDone>>

DrainedAll == Buffered = 0

WriteResponse ==
  /\ streamAt = "draining" /\ DrainedAll
  /\ Leave("responded") \/ WriteFails
  /\ UNCHANGED <<producerVars, runtimeVars, channelVars, handlerAt, hungUp>>

StreamNoticesContext ==
  /\ streamAt = "serving" /\ ctxDone
  /\ Leave("closed")
  /\ UNCHANGED <<producerVars, runtimeVars, channelVars, handlerAt, hungUp>>

\* A blocked write fails once the client has disconnected.
BlockedWriteFails ==
  /\ streamAt = "blocked" /\ hungUp
  /\ Leave("closed")
  /\ UNCHANGED <<producerVars, runtimeVars, channelVars, handlerAt, hungUp>>

----------------------------------------------------------------------------
\* The client disconnects; the HTTP server cancels the request's context.
HangUp ==
  /\ ~hungUp /\ hungUp' = TRUE
  /\ UNCHANGED <<producerVars, runtimeVars, channelVars, handlerAt, streamAt, ctxDone>>

CancelContext ==
  /\ hungUp /\ ~ctxDone /\ ctxDone' = TRUE
  /\ UNCHANGED <<producerVars, runtimeVars, channelVars, handlerAt, streamAt, hungUp>>

----------------------------------------------------------------------------
ProducerStep(p) == Lock(p) \/ Suppressed(p) \/ Emit(p) \/ EmitFails(p)
HandlerStep == FinishRuntime \/ HandOver
StreamStep == Forward \/ TakeResult \/ WriteResponse \/ StreamNoticesContext

Next ==
  \/ \E p \in Producers : ProducerStep(p)
  \/ \E p \in Producers, m \in Messages : Report(p, m)
  \/ HandleReturns \/ HandlerStep \/ StreamStep \/ BlockedWriteFails \/ HangUp \/ CancelContext

Spec == Init /\ [][Next]_vars

\* Goroutines run and the tool returns; the HTTP server cancels the context of
\* a client that has disconnected.  A producer waiting for the mutex gets it in
\* the end, although others come and go (Go's mutexes do not starve a waiter).
\* A blocked write may stay blocked.
EmitEnds(p) == WF_vars(Emit(p) \/ EmitFails(p))
LockServed(p) == SF_vars(Lock(p) \/ Suppressed(p))
HandlerRuns == WF_vars(HandleReturns) /\ SF_vars(FinishRuntime) /\ WF_vars(HandOver)
StreamRuns == WF_vars(StreamStep)
ServerCancels == WF_vars(CancelContext)

FairSpec ==
  /\ Spec
  /\ \A p \in Producers : EmitEnds(p) /\ LockServed(p)
  /\ HandlerRuns /\ StreamRuns /\ ServerCancels

----------------------------------------------------------------------------
\* Every variable ranges over the values the code's own types allow, and the
\* channel holds no more than its capacity.
TypeOK ==
  /\ producerAt \in [Producers -> ProducerPoints] /\ want \in [Producers -> Messages]
  /\ mu \in Producers \cup {None} /\ last \in Int /\ done \in BOOLEAN
  /\ emitted \in Seq(Messages) /\ sent \in Nat /\ Buffered \in 0..Capacity
  /\ handlerAt \in HandlerPoints /\ streamAt \in StreamPoints
  /\ hungUp \in BOOLEAN /\ ctxDone \in BOOLEAN

\* Progress never goes back on the wire, however many goroutines report it at
\* the same time (ReportProgress "values are monotonic per request").
ProgressIsMonotone ==
  \A i, j \in 1..Len(emitted) :
    i < j /\ emitted[i] # Log /\ emitted[j] # Log => emitted[i] <= emitted[j]

\* The response is the last message, and every notification whose producer was
\* told it was accepted has been written before it (http.go: "progress after
\* the final response cannot enter the event channel").
ResponseComesLast == streamAt = "responded" => Buffered = 0

\* What ResponseStream speaks of, in terms of the goroutines of the request.
StreamEnd ==
  CASE streamAt \in {"serving", "draining"} -> "open"
    [] streamAt = "blocked" -> "stalled"
    [] streamAt = "responded" -> "answered"
    [] OTHER -> "closed"

Promise == INSTANCE ResponseStream WITH
  accepted <- emitted, taken <- sent, sealed <- done, stream <- StreamEnd, gone <- hungUp

\* The request keeps the promises of ResponseStream: its client gets everything that
\* was accepted, in order, and the response after it; nothing is accepted once the
\* response may be on its way; and a request is never given up while its client is
\* there (http.go: "progress after the final response cannot enter the event channel").
ImplementsStream == Promise!Spec

\* Once the context is cancelled nobody waits for anybody but the holder of
\* runtime.mu: whoever holds it can go on, be the channel full or not, and
\* whoever finds it free can take it.  This is where fairness has a step to speak
\* of, and the hypothesis of the liveness theorems, since it is about ENABLED.
CanEmit(p) == ENABLED <<Emit(p) \/ EmitFails(p)>>_vars
CanLock(p) == ENABLED <<Lock(p) \/ Suppressed(p)>>_vars

NobodyStuck ==
  /\ hungUp /\ ~ctxDone => ENABLED <<CancelContext>>_vars
  /\ \A p \in Producers : producerAt[p] = "emitting" /\ ctxDone => CanEmit(p)
  /\ \A p \in Producers : producerAt[p] = "calling" /\ mu = None => CanLock(p)
  /\ handlerAt = "returned" /\ mu = None => ENABLED <<FinishRuntime>>_vars
  /\ handlerAt = "finished" => ENABLED <<HandOver>>_vars

\* After a disconnect every producer that reports is let go, even if the
\* stream's goroutine is blocked in a write: cancellation reaches through a
\* full channel to a producer and past it to those that wait for its lock.
ProducersReleased ==
  \A p \in Producers : hungUp /\ producerAt[p] # "idle" ~> producerAt[p] = "idle"

\* The handler's goroutine ends once the client has left and the tool has
\* returned, even if nobody takes the response (no goroutine leak).
HandlerEnds == hungUp /\ handlerAt = "returned" ~> handlerAt = "ended"

\* Every request comes to its end: it is answered, given up with its client,
\* or its client does not read the answer.
RequestConcludes ==
  <>(streamAt \in {"responded", "blocked"} \/ (streamAt = "closed" /\ hungUp))

=============================================================================
