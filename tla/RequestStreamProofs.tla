------------------------ MODULE RequestStreamProofs ------------------------
(***************************************************************************)
(* Proofs about RequestStream: progress is monotone and the response comes *)
(* last, for any number of producers and any capacity.                     *)
(*                                                                         *)
(* RuntimeInv says what runtime.mu protects: its holder is the only        *)
(* producer past the checks, so the checks still hold when it emits; and   *)
(* nobody can be past them once the handler has marked the runtime done.   *)
(***************************************************************************)
EXTENDS RequestStream, TLAPS

\* What is protected by runtime.mu, and what follows from the order in which
\* the handler finishes and the stream answers.
RuntimeInv ==
  /\ \A p \in Producers : mu = p <=> producerAt[p] = "emitting"
  /\ \A p \in Producers : producerAt[p] = "emitting" /\ want[p] # Log => want[p] >= last
  /\ \A i \in 1..Len(emitted) : emitted[i] # Log => emitted[i] <= last
  /\ done <=> handlerAt \in {"finished", "ended"}
  /\ done => mu = None
  /\ streamAt \in {"draining", "responded"} => handlerAt = "ended"

StreamInv == TypeOK /\ RuntimeInv /\ ProgressIsMonotone /\ ResponseComesLast

----------------------------------------------------------------------------
\* The start of the request.
LEMMA StreamInvInit == Init => StreamInv
<1> SUFFICES ASSUME Init PROVE StreamInv
  OBVIOUS
<1> USE StreamAssumption DEF Init
<1>1. emitted \in Seq(Messages) /\ Len(emitted) = 0 /\ Buffered = 0 /\ Log \in Messages
  BY DEF Buffered, Messages
<1>2. TypeOK
  <2>1. producerAt \in [Producers -> ProducerPoints] /\ want \in [Producers -> Messages]
    BY <1>1 DEF ProducerPoints
  <2>2. handlerAt \in HandlerPoints /\ streamAt \in StreamPoints
    BY DEF HandlerPoints, StreamPoints
  <2>3. Buffered \in 0..Capacity /\ sent \in Nat /\ last \in Int
    BY <1>1
  <2>4. QED
    BY <1>1, <2>1, <2>2, <2>3 DEF TypeOK
<1>3. RuntimeInv
  BY <1>1 DEF RuntimeInv
<1>4. ProgressIsMonotone /\ ResponseComesLast
  BY <1>1 DEF ProgressIsMonotone, ResponseComesLast
<1>5. QED
  BY <1>2, <1>3, <1>4 DEF StreamInv

\* One more notification in the channel (emit).
LEMMA EmitStep ==
  ASSUME StreamInv, NEW p \in Producers, Emit(p)
  PROVE  StreamInv'
<1> USE StreamAssumption DEF StreamInv, Messages
<1>1. /\ want[p] \in Messages /\ want[p] # Log => want[p] >= last /\ want[p] \in Nat
      /\ emitted' = Append(emitted, want[p]) /\ Len(emitted') = Len(emitted) + 1
      /\ emitted'[Len(emitted) + 1] = want[p]
      /\ \A i \in 1..Len(emitted) : emitted'[i] = emitted[i]
      /\ emitted' \in Seq(Messages)
  BY DEF Emit, TypeOK, RuntimeInv
<1>2. last' \in Int /\ last' >= last /\ (want[p] # Log => last' = want[p])
  BY <1>1 DEF Emit, NewLast, TypeOK
<1>3. \A i \in 1..Len(emitted) : emitted[i] # Log => emitted[i] \in Nat /\ emitted[i] <= last
  BY DEF TypeOK, RuntimeInv
<1>4. ~done /\ streamAt \notin {"draining", "responded"}
  BY DEF Emit, RuntimeInv, TypeOK
<1>5. TypeOK'
  BY <1>1, <1>2 DEF Emit, TypeOK, Buffered, ProducerPoints
<1>6. RuntimeInv'
  <2>1. \A i \in 1..Len(emitted') : emitted'[i] # Log => emitted'[i] <= last'
    <3> SUFFICES ASSUME NEW i \in 1..Len(emitted'), emitted'[i] # Log
                 PROVE  emitted'[i] <= last'
      OBVIOUS
    <3>1. CASE i = Len(emitted) + 1
      BY <1>1, <1>2, <3>1
    <3>2. CASE i # Len(emitted) + 1
      <4>1. i \in 1..Len(emitted)
        BY <1>1, <3>2 DEF TypeOK
      <4>2. QED
        BY <1>1, <1>2, <1>3, <4>1 DEF TypeOK
    <3>3. QED
      BY <3>1, <3>2
  <2>2. \A q \in Producers : producerAt'[q] = "emitting" => FALSE
    BY DEF Emit, RuntimeInv, TypeOK
  <2>3. QED
    BY <1>4, <2>1, <2>2 DEF Emit, RuntimeInv, TypeOK
<1>7. ProgressIsMonotone'
  <2> SUFFICES ASSUME NEW i \in 1..Len(emitted'), NEW j \in 1..Len(emitted'),
                      i < j, emitted'[i] # Log, emitted'[j] # Log
               PROVE  emitted'[i] <= emitted'[j]
    BY DEF ProgressIsMonotone
  <2>1. i \in 1..Len(emitted) /\ emitted'[i] = emitted[i]
    BY <1>1 DEF TypeOK
  <2>2. CASE j = Len(emitted) + 1
    BY <1>1, <1>3, <2>1, <2>2 DEF TypeOK
  <2>3. CASE j # Len(emitted) + 1
    <3>1. j \in 1..Len(emitted) /\ emitted'[j] = emitted[j]
      BY <1>1, <2>3 DEF TypeOK
    <3>2. QED
      BY <2>1, <3>1 DEF ProgressIsMonotone
  <2>4. QED
    BY <2>2, <2>3
<1>8. ResponseComesLast'
  BY <1>4 DEF Emit, ResponseComesLast
<1>9. QED
  BY <1>5, <1>6, <1>7, <1>8

\* Every other step leaves the channel's history alone.
LEMMA StreamInvStep == StreamInv /\ [Next]_vars => StreamInv'
<1> SUFFICES ASSUME StreamInv, [Next]_vars PROVE StreamInv'
  OBVIOUS
<1> USE StreamAssumption
    DEF StreamInv, TypeOK, RuntimeInv, ProgressIsMonotone, ResponseComesLast, Buffered,
        ProducerPoints, HandlerPoints, StreamPoints, producerVars, runtimeVars, channelVars
<1>1. ASSUME NEW p \in Producers, NEW m \in Messages, Report(p, m) PROVE StreamInv'
  BY <1>1 DEF Report
<1>2. ASSUME NEW p \in Producers, Lock(p) PROVE StreamInv'
  BY <1>2 DEF Lock, Acceptable
<1>3. ASSUME NEW p \in Producers, Suppressed(p) PROVE StreamInv'
  BY <1>3 DEF Suppressed
<1>4. ASSUME NEW p \in Producers, EmitFails(p) PROVE StreamInv'
  BY <1>4 DEF EmitFails
<1>5. CASE HandleReturns
  BY <1>5 DEF HandleReturns
<1>6. CASE FinishRuntime
  BY <1>6 DEF FinishRuntime
<1>7. CASE HandOver
  BY <1>7 DEF HandOver
<1>8. CASE Forward
  <2>1. sent' = sent + 1 /\ Buffered > 0 /\ streamAt # "responded"
    BY <1>8 DEF Forward
  <2>2. ctxDone' \in BOOLEAN /\ (streamAt' = streamAt \/ streamAt' \in {"blocked", "closed"})
    <3>1. CASE UNCHANGED <<streamAt, ctxDone>>
      BY <3>1
    <3>2. CASE WriteFails
      BY <3>2 DEF WriteFails, Leave
    <3>3. QED
      BY <1>8, <3>1, <3>2 DEF Forward
  <2>3. UNCHANGED <<producerAt, want, mu, last, done, emitted, handlerAt, hungUp>>
    BY <1>8 DEF Forward
  <2>4. TypeOK'
    <3>1. sent' \in Nat /\ Buffered' \in 0..Capacity /\ streamAt' \in StreamPoints
      BY <2>1, <2>2, <2>3
    <3>2. QED
      BY <2>2, <2>3, <3>1
  <2>5. RuntimeInv'
    BY <2>2, <2>3
  <2>6. ProgressIsMonotone' /\ ResponseComesLast'
    BY <2>1, <2>2, <2>3
  <2>7. QED
    BY <2>4, <2>5, <2>6
<1>9. CASE TakeResult
  BY <1>9 DEF TakeResult
<1>10. CASE WriteResponse
  <2>1. streamAt = "draining" /\ Buffered = 0
    BY <1>10 DEF WriteResponse, DrainedAll
  <2>2. ctxDone' \in BOOLEAN /\ streamAt' \in {"responded", "blocked", "closed"}
    <3>1. CASE Leave("responded")
      BY <3>1 DEF Leave
    <3>2. CASE WriteFails
      BY <3>2 DEF WriteFails, Leave
    <3>3. QED
      BY <1>10, <3>1, <3>2 DEF WriteResponse
  <2>3. UNCHANGED <<producerAt, want, mu, last, done, emitted, sent, handlerAt, hungUp>>
    BY <1>10 DEF WriteResponse
  <2>4. TypeOK'
    BY <2>2, <2>3
  <2>5. RuntimeInv'
    BY <2>1, <2>2, <2>3
  <2>6. ProgressIsMonotone' /\ ResponseComesLast'
    BY <2>1, <2>3
  <2>7. QED
    BY <2>4, <2>5, <2>6
<1>11. CASE StreamNoticesContext
  BY <1>11 DEF StreamNoticesContext, Leave
<1>12. CASE HangUp \/ CancelContext
  <2>1. hungUp' \in BOOLEAN /\ ctxDone' \in BOOLEAN
    BY <1>12 DEF HangUp, CancelContext
  <2>2. UNCHANGED <<producerAt, want, mu, last, done, emitted, sent, handlerAt, streamAt>>
    BY <1>12 DEF HangUp, CancelContext
  <2>3. TypeOK'
    BY <2>1, <2>2
  <2>4. RuntimeInv'
    BY <2>2
  <2>5. QED
    BY <2>2, <2>3, <2>4
<1>13. CASE BlockedWriteFails
  BY <1>13 DEF BlockedWriteFails, Leave
<1>14. CASE UNCHANGED vars
  BY <1>14 DEF vars
<1>15. QED
  BY <1>1, <1>2, <1>3, <1>4, <1>5, <1>6, <1>7, <1>8, <1>9, <1>10, <1>11, <1>12, <1>13, <1>14, EmitStep
     DEF Next, ProducerStep, HandlerStep, StreamStep

\* The invariant holds of every behaviour.
THEOREM StreamInvariant == Spec => []StreamInv
<1>1. QED
  BY StreamInvInit, StreamInvStep, PTL DEF Spec

\* The channel never exceeds its capacity, nor any variable its type.
THEOREM TypeCorrect == Spec => []TypeOK
<1>1. StreamInv => TypeOK
  BY DEF StreamInv
<1>2. QED
  BY <1>1, StreamInvariant, PTL

\* Progress is monotone for any number of concurrent producers.
THEOREM MonotoneProgress == Spec => []ProgressIsMonotone
<1>1. StreamInv => ProgressIsMonotone
  BY DEF StreamInv
<1>2. QED
  BY <1>1, StreamInvariant, PTL

\* Nothing that was accepted is left behind the response, or follows it.
THEOREM NothingAfterTheResponse == Spec => []ResponseComesLast
<1>1. StreamInv => ResponseComesLast
  BY DEF StreamInv
<1>2. QED
  BY <1>1, StreamInvariant, PTL

----------------------------------------------------------------------------
\* The refinement of ResponseStream needs one fact more: a context is cancelled only
\* for a client that has left, as long as the stream has not come to its end.
ContextInv == ctxDone => hungUp \/ streamAt \in {"responded", "closed"}

LEMMA ContextInvStep == StreamInv /\ ContextInv /\ [Next]_vars => ContextInv'
<1> SUFFICES ASSUME StreamInv, ContextInv, [Next]_vars PROVE ContextInv'
  OBVIOUS
<1> USE DEF ContextInv
<1>1. ASSUME NEW p \in Producers, NEW m \in Messages, Report(p, m) PROVE ContextInv'
  BY <1>1 DEF Report
<1>2. ASSUME NEW p \in Producers, ProducerStep(p) PROVE ContextInv'
  BY <1>2 DEF ProducerStep, Lock, Suppressed, Emit, EmitFails
<1>3. CASE HandleReturns \/ HandlerStep
  BY <1>3 DEF HandleReturns, HandlerStep, FinishRuntime, HandOver
<1>4. CASE StreamStep \/ BlockedWriteFails
  BY <1>4 DEF StreamStep, BlockedWriteFails, Forward, TakeResult, WriteResponse, StreamNoticesContext,
              WriteFails, Leave
<1>5. CASE HangUp \/ CancelContext
  BY <1>5 DEF HangUp, CancelContext
<1>6. CASE UNCHANGED vars
  BY <1>6 DEF vars
<1>7. QED
  BY <1>1, <1>2, <1>3, <1>4, <1>5, <1>6 DEF Next

\* What only moves the goroutines is no step of the stream.
LEMMA NoStepOfTheStream ==
  ASSUME UNCHANGED <<channelVars, done, hungUp>>, StreamEnd' = StreamEnd
  PROVE  UNCHANGED Promise!promised
BY DEF Promise!promised, channelVars

\* An accepted notification is no step back from any accepted before it, and is
\* accepted before the handler has marked the runtime done.
LEMMA EmitKeepsPromise ==
  ASSUME StreamInv, NEW p \in Producers, Emit(p)
  PROVE  Promise!Next
<1> USE StreamAssumption DEF StreamInv
<1>1. want[p] \in Messages /\ ~done /\ (want[p] # Log => want[p] >= last /\ want[p] \in Nat)
  BY DEF Emit, TypeOK, RuntimeInv, Messages
<1>2. \A i \in 1..Len(emitted) : emitted[i] # Log => emitted[i] \in Nat /\ emitted[i] <= last
  BY DEF TypeOK, RuntimeInv, Messages
<1>3. want[p] # Log => Promise!Ahead(want[p])
  BY <1>1, <1>2 DEF Promise!Ahead, TypeOK
<1>4. StreamEnd' = StreamEnd
  BY DEF Emit, StreamEnd
<1>5. Promise!Accept(want[p])
  BY <1>1, <1>3, <1>4 DEF Emit, Buffered, Promise!Accept
<1>6. QED
  BY <1>1, <1>5 DEF Promise!Next

\* The stream writes notifications while there are any, and the response when all
\* are written and the handler's goroutine has ended.
LEMMA StreamKeepsPromise ==
  ASSUME StreamInv, ContextInv, StreamStep \/ BlockedWriteFails
  PROVE  [Promise!Next]_Promise!promised
<1> USE DEF StreamInv, TypeOK, StreamPoints
<1>1. CASE Forward
  <2>1. StreamEnd = "open" /\ sent < Len(emitted) /\ sent' = sent + 1 /\ UNCHANGED <<emitted, done, hungUp>>
    BY <1>1 DEF Forward, Buffered, StreamEnd, runtimeVars
  <2>2. Promise!Write("open")
    <3>1. CASE UNCHANGED streamAt
      BY <2>1, <3>1 DEF Promise!Write, StreamEnd
    <3>2. CASE WriteFails
      BY <3>2 DEF WriteFails, Leave, Promise!Write, StreamEnd
    <3>3. QED
      BY <1>1, <3>1, <3>2 DEF Forward
  <2>3. Promise!Take
    BY <2>1, <2>2 DEF Promise!Take
  <2>4. QED
    BY <2>3 DEF Promise!Next
<1>2. CASE TakeResult
  BY <1>2, NoStepOfTheStream DEF TakeResult, StreamEnd, runtimeVars
<1>3. CASE WriteResponse
  <2>1. StreamEnd = "open" /\ done /\ sent = Len(emitted) /\ UNCHANGED <<emitted, sent, done, hungUp>>
    BY <1>3 DEF WriteResponse, DrainedAll, Buffered, StreamEnd, RuntimeInv, runtimeVars, channelVars
  <2>2. Promise!Write("answered")
    <3>1. CASE Leave("responded")
      BY <3>1 DEF Leave, Promise!Write, StreamEnd
    <3>2. CASE WriteFails
      BY <3>2 DEF WriteFails, Leave, Promise!Write, StreamEnd
    <3>3. QED
      BY <1>3, <3>1, <3>2 DEF WriteResponse
  <2>3. Promise!Answer
    BY <2>1, <2>2 DEF Promise!Answer
  <2>4. QED
    BY <2>3 DEF Promise!Next
<1>4. CASE StreamNoticesContext \/ BlockedWriteFails
  <2>1. /\ StreamEnd \in {"open", "stalled"} /\ hungUp /\ streamAt' = "closed"
        /\ UNCHANGED <<emitted, sent, done, hungUp>>
    BY <1>4 DEF StreamNoticesContext, BlockedWriteFails, Leave, ContextInv, StreamEnd, runtimeVars, channelVars
  <2>2. Promise!GiveUp
    BY <2>1 DEF Promise!GiveUp, StreamEnd
  <2>3. QED
    BY <2>2 DEF Promise!Next
<1>5. QED
  BY <1>1, <1>2, <1>3, <1>4 DEF StreamStep

\* For any number of producers and any capacity the request implements ResponseStream:
\* everything accepted reaches the client in order and before the response, nothing
\* is accepted after it, and no request is given up while its client is there.
THEOREM StreamKeepsItsPromise == Spec => ImplementsStream
<1>1. Init => Promise!Init
  BY DEF Init, Promise!Init, StreamEnd
<1>2. StreamInv /\ ContextInv /\ [Next]_vars => [Promise!Next]_Promise!promised
  <2> SUFFICES ASSUME StreamInv, ContextInv, [Next]_vars
               PROVE  [Promise!Next]_Promise!promised
    OBVIOUS
  <2> USE DEF StreamEnd, runtimeVars, channelVars
  <2>1. ASSUME NEW p \in Producers, NEW m \in Messages, Report(p, m)
        PROVE  UNCHANGED Promise!promised
    BY <2>1, NoStepOfTheStream DEF Report
  <2>2. ASSUME NEW p \in Producers, Lock(p) \/ Suppressed(p) \/ EmitFails(p)
        PROVE  UNCHANGED Promise!promised
    BY <2>2, NoStepOfTheStream DEF Lock, Suppressed, EmitFails
  <2>3. CASE HandleReturns \/ HandOver
    BY <2>3, NoStepOfTheStream DEF HandleReturns, HandOver
  <2>4. CASE FinishRuntime
    <3>1. Promise!Seal
      BY <2>4 DEF FinishRuntime, Promise!Seal, StreamInv, RuntimeInv
    <3>2. QED
      BY <3>1 DEF Promise!Next
  <2>5. CASE HangUp
    <3>1. Promise!Disconnect
      BY <2>5 DEF HangUp, Promise!Disconnect
    <3>2. QED
      BY <3>1 DEF Promise!Next
  <2>6. CASE CancelContext
    BY <2>6, NoStepOfTheStream DEF CancelContext
  <2>7. CASE UNCHANGED vars
    BY <2>7, NoStepOfTheStream DEF vars
  <2>8. QED
    BY <2>1, <2>2, <2>3, <2>4, <2>5, <2>6, <2>7, EmitKeepsPromise, StreamKeepsPromise
       DEF Next, ProducerStep, HandlerStep
<1>3. Init => ContextInv
  BY DEF Init, ContextInv
<1>4. QED
  BY <1>1, <1>2, <1>3, ContextInvStep, StreamInvariant, PTL DEF Spec, ImplementsStream, Promise!Spec

----------------------------------------------------------------------------
(***************************************************************************)
(* Liveness.  NobodyStuck is what the provers cannot see of ENABLED; the   *)
(* rest of the argument is proved: with the context cancelled the holder   *)
(* of runtime.mu lets go of it whatever the stream does, so that the mutex *)
(* is free again and again, and strong fairness gives it to each waiter.   *)
(***************************************************************************)

\* What no step takes back: the client has left, the context is cancelled, the
\* handler has got so far.
LEMMA RequestStep ==
  ASSUME StreamInv, [Next]_vars
  PROVE  /\ hungUp => hungUp'
         /\ ctxDone => ctxDone'
         /\ handlerAt = "returned" => handlerAt' \in {"returned", "finished"}
         /\ handlerAt = "finished" => handlerAt' \in {"finished", "ended"}
<1> USE DEF producerVars, runtimeVars, channelVars
<1> DEFINE Goal ==
         /\ hungUp => hungUp'
         /\ ctxDone => ctxDone'
         /\ handlerAt = "returned" => handlerAt' \in {"returned", "finished"}
         /\ handlerAt = "finished" => handlerAt' \in {"finished", "ended"}
<1>1. ASSUME NEW q \in Producers, NEW m \in Messages, Report(q, m) PROVE Goal
  BY <1>1 DEF Report
<1>2. ASSUME NEW q \in Producers, ProducerStep(q) PROVE Goal
  BY <1>2 DEF ProducerStep, Lock, Suppressed, Emit, EmitFails
<1>3. CASE HandleReturns \/ HandlerStep
  BY <1>3 DEF HandleReturns, HandlerStep, FinishRuntime, HandOver
<1>4. CASE StreamStep \/ BlockedWriteFails
  BY <1>4 DEF StreamStep, BlockedWriteFails, Forward, TakeResult, WriteResponse, StreamNoticesContext,
              WriteFails, Leave
<1>5. CASE HangUp \/ CancelContext
  BY <1>5 DEF HangUp, CancelContext
<1>6. CASE UNCHANGED vars
  BY <1>6 DEF vars
<1>7. QED
  BY <1>1, <1>2, <1>3, <1>4, <1>5, <1>6 DEF Next

\* Where a producer gets to: once the context is cancelled nobody starts to
\* report, and what is reported is suppressed; the mutex goes from hand to hand
\* only by way of being free.
LEMMA ProducerMoves ==
  ASSUME StreamInv, [Next]_vars, NEW p \in Producers
  PROVE  /\ ctxDone /\ producerAt[p] = "idle" => producerAt'[p] = "idle"
         /\ ctxDone /\ producerAt[p] = "calling" => producerAt'[p] \in {"calling", "idle"}
         /\ producerAt[p] = "emitting" => producerAt'[p] \in {"emitting", "idle"}
         /\ mu = p => mu' \in {p, None}
<1> USE DEF StreamInv, TypeOK, RuntimeInv, producerVars, runtimeVars, channelVars
<1> DEFINE Goal ==
         /\ ctxDone /\ producerAt[p] = "idle" => producerAt'[p] = "idle"
         /\ ctxDone /\ producerAt[p] = "calling" => producerAt'[p] \in {"calling", "idle"}
         /\ producerAt[p] = "emitting" => producerAt'[p] \in {"emitting", "idle"}
         /\ mu = p => mu' \in {p, None}
<1>1. ASSUME NEW q \in Producers, NEW m \in Messages, Report(q, m) PROVE Goal
  BY <1>1 DEF Report
<1>2. ASSUME NEW q \in Producers, Lock(q) PROVE Goal
  BY <1>2, StreamAssumption DEF Lock, Acceptable
<1>3. ASSUME NEW q \in Producers, Suppressed(q) PROVE Goal
  BY <1>3 DEF Suppressed
<1>4. ASSUME NEW q \in Producers, Emit(q) PROVE Goal
  BY <1>4 DEF Emit
<1>5. ASSUME NEW q \in Producers, EmitFails(q) PROVE Goal
  BY <1>5 DEF EmitFails
<1>6. CASE HandleReturns \/ HandlerStep
  BY <1>6 DEF HandleReturns, HandlerStep, FinishRuntime, HandOver
<1>7. CASE StreamStep \/ BlockedWriteFails
  BY <1>7 DEF StreamStep, BlockedWriteFails, Forward, TakeResult, WriteResponse, StreamNoticesContext
<1>8. CASE HangUp \/ CancelContext
  BY <1>8 DEF HangUp, CancelContext
<1>9. CASE UNCHANGED vars
  BY <1>9 DEF vars
<1>10. QED
  BY <1>1, <1>2, <1>3, <1>4, <1>5, <1>6, <1>7, <1>8, <1>9 DEF Next, ProducerStep

\* What fairness says of the producer p, and what is possible for it.
LEMMA ProducerFair ==
  ASSUME NEW p \in Producers
  PROVE  /\ FairSpec => EmitEnds(p) /\ LockServed(p)
         /\ NobodyStuck => (producerAt[p] = "emitting" /\ ctxDone => CanEmit(p))
         /\ NobodyStuck => (producerAt[p] = "calling" /\ mu = None => CanLock(p))
<1>1. FairSpec => EmitEnds(p) /\ LockServed(p)
  BY DEF FairSpec
<1>2. NobodyStuck => (producerAt[p] = "emitting" /\ ctxDone => CanEmit(p))
  BY DEF NobodyStuck
<1>3. NobodyStuck => (producerAt[p] = "calling" /\ mu = None => CanLock(p))
  BY DEF NobodyStuck
<1>4. QED
  BY <1>1, <1>2, <1>3

\* The server cancels the context of a client that has left, for good.
LEMMA ContextEnds == FairSpec /\ []NobodyStuck => [](hungUp => <>[]ctxDone)
<1>1. StreamInv /\ [Next]_vars => (hungUp => hungUp') /\ (ctxDone => ctxDone')
  BY RequestStep
<1>2. <<CancelContext>>_vars => ctxDone'
  BY DEF CancelContext
<1>3. NobodyStuck => (hungUp /\ ~ctxDone => ENABLED <<CancelContext>>_vars)
  BY DEF NobodyStuck
<1>4. FairSpec => Spec /\ ServerCancels
  BY DEF FairSpec
<1>5. QED
  BY <1>1, <1>2, <1>3, <1>4, StreamInvariant, PTL DEF Spec, ServerCancels

\* With the context cancelled the holder lets go of runtime.mu, and reports no more.
LEMMA HolderLetsGo ==
  ASSUME NEW p \in Producers
  PROVE  FairSpec /\ []NobodyStuck =>
           [](ctxDone /\ producerAt[p] = "emitting" => <>(producerAt[p] = "idle" /\ mu = None))
<1> DEFINE Emitting == producerAt[p] = "emitting"
           Freed == producerAt[p] = "idle" /\ mu = None
<1>1. StreamInv /\ Emitting /\ [Next]_vars => Emitting' \/ Freed'
  <2> SUFFICES ASSUME StreamInv, Emitting, [Next]_vars PROVE Emitting' \/ Freed'
    OBVIOUS
  <2>1. mu = p
    BY DEF StreamInv, RuntimeInv
  <2>2. mu' \in {p, None} /\ (Emitting' \/ producerAt'[p] = "idle")
    BY <2>1, ProducerMoves
  <2>3. mu' = p => Emitting'
    BY StreamInvStep DEF StreamInv, RuntimeInv
  <2>4. QED
    BY <2>2, <2>3
<1>2. StreamInv /\ [Next]_vars => (ctxDone => ctxDone')
  BY RequestStep
<1>3. StreamInv /\ Emitting /\ <<Emit(p) \/ EmitFails(p)>>_vars => Freed'
  BY DEF Emit, EmitFails, StreamInv, TypeOK
<1>4. NobodyStuck => (Emitting /\ ctxDone => CanEmit(p))
  BY ProducerFair
<1>5. FairSpec => Spec /\ EmitEnds(p)
  BY ProducerFair DEF FairSpec
<1> HIDE DEF Emitting, Freed
<1>6. FairSpec /\ []NobodyStuck => [](ctxDone /\ Emitting => <>Freed)
  BY <1>1, <1>2, <1>3, <1>4, <1>5, StreamInvariant, PTL DEF Spec, EmitEnds, CanEmit
<1>7. QED
  BY <1>6 DEF Emitting, Freed

\* Whoever holds the mutex, it is free again and again.
LEMMA MutexFree == FairSpec /\ []NobodyStuck => [](ctxDone => <>(mu = None))
<1> DEFINE Free == mu = None
           Held(p) == ctxDone /\ mu = p => <>Free
<1>1. ASSUME NEW p \in Producers
      PROVE  FairSpec /\ []NobodyStuck => []Held(p)
  <2>1. StreamInv => (mu = p => producerAt[p] = "emitting")
    BY DEF StreamInv, RuntimeInv
  <2>2. FairSpec => Spec
    BY DEF FairSpec
  <2>3. QED
    BY <2>1, <2>2, HolderLetsGo, StreamInvariant, PTL
<1>2. FairSpec /\ []NobodyStuck => \A p \in Producers : []Held(p)
  BY <1>1
<1>3. (\A p \in Producers : []Held(p)) => [](\A p \in Producers : Held(p))
  OBVIOUS
<1>4. (\A p \in Producers : Held(p)) => (ctxDone /\ (\E p \in Producers : mu = p) => <>Free)
  OBVIOUS
<1>5. StreamInv => Free \/ \E p \in Producers : mu = p
  BY DEF StreamInv, TypeOK
<1>6. FairSpec => Spec
  BY DEF FairSpec
<1>7. QED
  BY <1>2, <1>3, <1>4, <1>5, <1>6, StreamInvariant, PTL

\* For any number of producers and any capacity: after a disconnect everyone who
\* reports is let go, even if the stream is blocked in a write for ever.
THEOREM EveryoneIsReleased == FairSpec /\ []NobodyStuck => ProducersReleased
<1>1. ASSUME NEW p \in Producers
      PROVE  FairSpec /\ []NobodyStuck => (hungUp /\ producerAt[p] # "idle" ~> producerAt[p] = "idle")
  <2> DEFINE Idle == producerAt[p] = "idle"
             Busy == producerAt[p] # "idle"
             Calling == producerAt[p] = "calling"
             Emitting == producerAt[p] = "emitting"
             Freed == Idle /\ mu = None
             Free == mu = None
  <2>1. StreamInv => Idle \/ Calling \/ Emitting
    BY DEF StreamInv, TypeOK, ProducerPoints
  <2>2. StreamInv /\ [Next]_vars => (ctxDone /\ Calling => Calling' \/ Idle')
    BY ProducerMoves
  <2>3. StreamInv /\ ctxDone /\ Calling /\ <<Lock(p) \/ Suppressed(p)>>_vars => Idle'
    BY DEF Lock, Suppressed, Acceptable, StreamInv, TypeOK
  <2>4. NobodyStuck => (Calling /\ Free => CanLock(p))
    BY ProducerFair
  <2>5. FairSpec => Spec /\ LockServed(p)
    BY ProducerFair DEF FairSpec
  <2>6. FairSpec /\ []NobodyStuck => [](ctxDone /\ Emitting => <>Freed)
    BY HolderLetsGo
  <2>7. FairSpec /\ []NobodyStuck => [](ctxDone => <>Free)
    BY MutexFree
  <2>8. Freed => Idle
    OBVIOUS
  <2> HIDE DEF Idle, Busy, Calling, Emitting, Freed, Free
  <2>9. FairSpec /\ []NobodyStuck => (hungUp /\ Busy ~> Idle)
    BY <2>1, <2>2, <2>3, <2>4, <2>5, <2>6, <2>7, <2>8, ContextEnds, StreamInvariant, PTL
       DEF Spec, LockServed, CanLock
  <2>10. QED
    BY <2>9 DEF Idle, Busy
<1>2. QED
  BY <1>1 DEF ProducersReleased

\* The handler's goroutine ends although nobody may take its response any more:
\* no waiter keeps runtime.mu from it for ever, and the result channel has room.
THEOREM TheHandlerEnds == FairSpec /\ []NobodyStuck => HandlerEnds
<1> DEFINE Returned == handlerAt = "returned"
           Finished == handlerAt = "finished"
           Ended == handlerAt = "ended"
           Free == mu = None
<1>1. StreamInv /\ [Next]_vars => (Returned => Returned' \/ Finished') /\ (Finished => Finished' \/ Ended')
  BY RequestStep
<1>2. <<FinishRuntime>>_vars => Finished'
  BY DEF FinishRuntime
<1>3. <<HandOver>>_vars => Ended'
  BY DEF HandOver
<1>4. NobodyStuck => (Returned /\ Free => ENABLED <<FinishRuntime>>_vars)
                     /\ (Finished => ENABLED <<HandOver>>_vars)
  BY DEF NobodyStuck
<1>5. FairSpec => Spec /\ HandlerRuns
  BY DEF FairSpec
<1>6. FairSpec /\ []NobodyStuck => [](ctxDone => <>Free)
  BY MutexFree
<1> HIDE DEF Returned, Finished, Ended, Free
<1>7. FairSpec /\ []NobodyStuck => (hungUp /\ Returned ~> Ended)
  BY <1>1, <1>2, <1>3, <1>4, <1>5, <1>6, ContextEnds, StreamInvariant, PTL DEF Spec, HandlerRuns
<1>8. QED
  BY <1>7 DEF HandlerEnds, Returned, Ended

=============================================================================
