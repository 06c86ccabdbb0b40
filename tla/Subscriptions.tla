--------------------------- MODULE Subscriptions ---------------------------
(***************************************************************************)
(* The subscription hub of the MCP server and its HTTP listen streams      *)
(* (internal/mcpserver/subscriptions.go, http.go serveHTTPSubscription),   *)
(* with the listeners of internal/host at the other end.                   *)
(*                                                                         *)
(* A topic is a catalog (tools, resources, prompts) or a task.  Whoever    *)
(* changes one publishes the change afterwards, outside the lock of the    *)
(* registry or repository: it takes a snapshot of the interested           *)
(* subscriptions and offers each an event, which a subscription whose      *)
(* one-element channel is full loses.  A listener reads a topic's current  *)
(* state for every event; the one of a task reads it once before, when its *)
(* subscription is acknowledged, the one of a catalog does not.            *)
(* The question is what a listener may miss.                               *)
(***************************************************************************)
EXTENDS Integers

CONSTANTS
  Kinds,        \* the catalogs
  Tasks,        \* task IDs
  Streams,      \* subscription objects, each with its HTTP request and listener
  Publishers,   \* goroutines that register entries or change tasks
  None,         \* no topic
  StreamOwner,  \* the principal of each stream
  TaskOwner,    \* the principal of each task
  Filters,      \* the sets of topics a listener may ask for
  Attentive,    \* the streams whose client keeps reading
  MaxChanges    \* bound on the number of changes to a catalog

Topics == Kinds \cup Tasks

ASSUME TopicsAssumption == None \notin Topics /\ Kinds \cap Tasks = {}
ASSUME FiltersAssumption == Filters \subseteq SUBSET Topics
ASSUME AttentiveAssumption == Attentive \subseteq Streams
ASSUME BoundAssumption == MaxChanges \in Nat

VARIABLES
  changes,     \* how often each topic has changed
  expired,     \* tasks past their TTL
  streamAt,    \* where each stream's handler is
  agreed,      \* the filter the server has agreed to
  registered,  \* streams in Server.subscriptions
  events,      \* each subscription's one-element channel, None when empty
  complete,    \* subscriptions whose complete channel is closed
  hungUp,      \* streams whose client has disconnected
  pubAt,       \* where each publisher is
  pubTopic,    \* the topic it has changed
  targets,     \* the subscriptions it has yet to notify
  closing,     \* the subscriptions CloseSubscriptions has yet to complete
  stale,       \* topics each listener has yet to read
  known,       \* the change of each topic the listener has read last
  since        \* history: the changes before each subscription was registered

serverVars == <<changes, expired, registered, closing>>
streamVars == <<streamAt, agreed, events, complete, hungUp>>
pubVars == <<pubAt, pubTopic, targets>>
listenerVars == <<stale, known, since>>
vars == <<serverVars, streamVars, pubVars, listenerVars>>

StreamPoints == {"idle", "checked", "registered", "streaming", "ended"}
PubPoints == {"idle", "changed", "notifying"}

\* A task leaves input_required once, for good; a catalog grows up to the bound.
Limit(t) == IF t \in Tasks THEN 1 ELSE MaxChanges

Init ==
  /\ changes = [t \in Topics |-> 0] /\ expired = {}
  /\ streamAt = [s \in Streams |-> "idle"] /\ agreed = [s \in Streams |-> {}]
  /\ registered = {} /\ events = [s \in Streams |-> None]
  /\ complete = {} /\ hungUp = {}
  /\ pubAt = [p \in Publishers |-> "idle"] /\ pubTopic = [p \in Publishers |-> None]
  /\ targets = [p \in Publishers |-> {}] /\ closing = {}
  /\ stale = [s \in Streams |-> {}]
  /\ known = [s \in Streams |-> [t \in Topics |-> 0]] /\ since = known

----------------------------------------------------------------------------
\* Faulty variants of the operators below.  No specification uses them: the
\* model checker substitutes them to confirm that the properties notice.

\* tasks/update and tasks/cancel without the test for a terminal status.
ChangesAlways(t) == changes[t] <= Limit(t)
\* The listener of a task that does not read its state when it is acknowledged.
NoFirstRead(s) == {}
\* A notify that waits for room in the channel.
RoomOnly(s) == streamAt[s] = "ended" \/ events[s] = None
\* A handler that returns without unsubscribing.
StayRegistered(s) ==
  streamAt' = [streamAt EXCEPT ![s] = "ended"] /\ UNCHANGED registered
\* A select that drops the event it takes, and one that goes on after the completion.
DropEvent(s) ==
  /\ streamAt[s] = "streaming" /\ events[s] # None
  /\ events' = [events EXCEPT ![s] = None]
  /\ UNCHANGED <<serverVars, streamAt, agreed, complete, hungUp, pubVars, listenerVars>>
ContinueAfterCompletion(s) ==
  streamAt[s] = "streaming" /\ s \in complete /\ UNCHANGED vars

----------------------------------------------------------------------------
\* subscribe and serveHTTPSubscription.

\* The part of a filter the server agrees to: every catalog, and the tasks the
\* repository knows for this owner.
Agreeable(s, filter) ==
  {t \in filter : t \in Tasks => TaskOwner[t] = StreamOwner[s] /\ t \notin expired}

\* The tasks of the filter are looked up ...
Listen(s, filter) ==
  /\ streamAt[s] = "idle"
  /\ streamAt' = [streamAt EXCEPT ![s] = "checked"]
  /\ agreed' = [agreed EXCEPT ![s] = Agreeable(s, filter)]
  /\ UNCHANGED <<serverVars, events, complete, hungUp, pubVars, listenerVars>>

\* ... before the subscription enters the server's set, ...
Register(s) ==
  /\ streamAt[s] = "checked"
  /\ streamAt' = [streamAt EXCEPT ![s] = "registered"]
  /\ registered' = registered \cup {s}
  /\ since' = [since EXCEPT ![s] = changes]
  /\ UNCHANGED <<changes, expired, closing, agreed, events, complete, hungUp,
                 pubVars, stale, known>>

\* What a listener reads when it is acknowledged: the state of its tasks, and
\* nothing of a catalog.
FirstRead(s) == agreed[s] \cap Tasks

\* ... and is acknowledged.
Acknowledge(s) ==
  /\ streamAt[s] = "registered"
  /\ streamAt' = [streamAt EXCEPT ![s] = "streaming"]
  /\ stale' = [stale EXCEPT ![s] = FirstRead(s)]
  /\ UNCHANGED <<serverVars, agreed, events, complete, hungUp, pubVars, known, since>>

\* The handler returns: the deferred unsubscribe removes the subscription.
EndStream(s) ==
  /\ streamAt' = [streamAt EXCEPT ![s] = "ended"]
  /\ registered' = registered \ {s}

\* A write fails, or the select notices that the client has disconnected.
Disconnected(s) ==
  /\ streamAt[s] \in {"registered", "streaming"} /\ s \in hungUp
  /\ EndStream(s)
  /\ UNCHANGED <<changes, expired, closing, agreed, events, complete, hungUp,
                 pubVars, listenerVars>>

\* The select takes the event; a disconnected client may still be written to.
WriteEvent(s) ==
  /\ streamAt[s] = "streaming" /\ events[s] # None
  /\ stale' = [stale EXCEPT ![s] = @ \cup {events[s]}]
  /\ events' = [events EXCEPT ![s] = None]
  /\ UNCHANGED <<serverVars, streamAt, agreed, complete, hungUp, pubVars, known, since>>

\* The select takes the completion, even when an event is pending.
WriteCompletion(s) ==
  /\ streamAt[s] = "streaming" /\ s \in complete
  /\ EndStream(s)
  /\ UNCHANGED <<changes, expired, closing, agreed, events, complete, hungUp,
                 pubVars, listenerVars>>

----------------------------------------------------------------------------
\* Publishers: RegisterTool, RegisterResource, RegisterPrompt, updateTask, cancelTask.

\* There is something left to change: a terminal or expired task refuses.
Changeable(t) == changes[t] < Limit(t)

Change(p, t) ==
  /\ pubAt[p] = "idle" /\ Changeable(t) /\ t \notin expired
  /\ changes' = [changes EXCEPT ![t] = @ + 1]
  /\ pubAt' = [pubAt EXCEPT ![p] = "changed"]
  /\ pubTopic' = [pubTopic EXCEPT ![p] = t]
  /\ UNCHANGED <<expired, registered, closing, streamVars, targets, listenerVars>>

\* The subscriptions publishListChanged or publishTaskChanged selects.
Interested(t) ==
  {s \in registered : t \in agreed[s] /\ (t \in Tasks => StreamOwner[s] = TaskOwner[t])}

Snapshot(p) ==
  /\ pubAt[p] = "changed"
  /\ targets' = [targets EXCEPT ![p] = Interested(pubTopic[p])]
  /\ pubAt' = [pubAt EXCEPT ![p] = "notifying"]
  /\ UNCHANGED <<serverVars, streamVars, pubTopic, listenerVars>>

\* notify never waits.
MayNotify(s) == TRUE

\* notify: the event goes into an empty channel and is lost on a full one.
Notify(p, s) ==
  /\ pubAt[p] = "notifying" /\ s \in targets[p] /\ MayNotify(s)
  /\ targets' = [targets EXCEPT ![p] = @ \ {s}]
  /\ events' = [events EXCEPT ![s] = IF @ = None THEN pubTopic[p] ELSE @]
  /\ UNCHANGED <<serverVars, streamAt, agreed, complete, hungUp, pubAt, pubTopic, listenerVars>>

\* The caller of the registration or of the task method gets its result.
Published(p) ==
  /\ pubAt[p] = "notifying" /\ targets[p] = {}
  /\ pubAt' = [pubAt EXCEPT ![p] = "idle"]
  /\ pubTopic' = [pubTopic EXCEPT ![p] = None]
  /\ UNCHANGED <<serverVars, streamVars, targets, listenerVars>>

----------------------------------------------------------------------------
\* CloseSubscriptions.

\* Take a snapshot of the server's set, then complete its elements one by one.
StartClosing ==
  /\ closing = {} /\ closing' = registered \ complete /\ closing' # {}
  /\ UNCHANGED <<changes, expired, registered, streamVars, pubVars, listenerVars>>

Complete(s) ==
  /\ s \in closing
  /\ closing' = closing \ {s}
  /\ complete' = complete \cup {s}
  /\ UNCHANGED <<changes, expired, registered, streamAt, agreed, events, hungUp,
                 pubVars, listenerVars>>

----------------------------------------------------------------------------
\* The listeners and the world.

\* tools/list, tasks/get and the like: the current state, or that it is gone.
Read(s, t) ==
  /\ t \in stale[s] /\ s \notin hungUp
  /\ stale' = [stale EXCEPT ![s] = @ \ {t}]
  /\ known' = [known EXCEPT ![s][t] = changes[t]]
  /\ UNCHANGED <<serverVars, streamVars, pubVars, since>>

HangUp(s) ==
  /\ streamAt[s] \notin {"idle", "ended"} /\ s \notin hungUp
  /\ hungUp' = hungUp \cup {s}
  /\ UNCHANGED <<serverVars, streamAt, agreed, events, complete, pubVars, listenerVars>>

Expire(t) ==
  /\ t \in Tasks \ expired
  /\ expired' = expired \cup {t}
  /\ UNCHANGED <<changes, registered, closing, streamVars, pubVars, listenerVars>>

----------------------------------------------------------------------------
StreamStep(s) == Register(s) \/ Acknowledge(s) \/ Disconnected(s)

PublisherStep(p) == Snapshot(p) \/ Published(p) \/ \E s \in Streams : Notify(p, s)

Next ==
  \/ \E s \in Streams, filter \in Filters : Listen(s, filter)
  \/ \E s \in Streams : StreamStep(s) \/ WriteEvent(s) \/ WriteCompletion(s)
                        \/ Complete(s) \/ HangUp(s)
  \/ \E p \in Publishers : PublisherStep(p)
  \/ \E p \in Publishers, t \in Topics : Change(p, t)
  \/ \E s \in Streams, t \in Topics : Read(s, t)
  \/ \E t \in Topics : Expire(t)
  \/ StartClosing

Spec == Init /\ [][Next]_vars

\* Publishers and CloseSubscriptions run; a publisher works through its whole
\* snapshot.  So do the handlers of the streams whose clients read, select picks
\* every ready case in the end, and their listeners follow what they are told;
\* the others may be stuck in a write.
PublisherRuns(p) == WF_vars(Snapshot(p) \/ Published(p))
TellsEach(p, s) == WF_vars(Notify(p, s))
ClosingRuns(s) == WF_vars(Complete(s))
HandlerRuns(s) ==
  WF_vars(StreamStep(s)) /\ WF_vars(WriteEvent(s)) /\ WF_vars(WriteCompletion(s))
ListenerReads(s, t) == WF_vars(Read(s, t))

FairSpec ==
  /\ Spec
  /\ \A p \in Publishers : PublisherRuns(p) /\ \A s \in Streams : TellsEach(p, s)
  /\ \A s \in Streams : ClosingRuns(s)
  /\ \A s \in Attentive : HandlerRuns(s) /\ \A t \in Topics : ListenerReads(s, t)

----------------------------------------------------------------------------
\* Every variable ranges over the values the code's own types allow; a
\* topic never changes beyond its limit.
TypeOK ==
  /\ changes \in [Topics -> Nat] /\ \A t \in Topics : changes[t] <= Limit(t)
  /\ expired \subseteq Tasks
  /\ streamAt \in [Streams -> StreamPoints] /\ agreed \in [Streams -> SUBSET Topics]
  /\ registered \subseteq Streams /\ events \in [Streams -> Topics \cup {None}]
  /\ complete \subseteq Streams /\ hungUp \subseteq Streams /\ closing \subseteq Streams
  /\ pubAt \in [Publishers -> PubPoints] /\ pubTopic \in [Publishers -> Topics \cup {None}]
  /\ targets \in [Publishers -> SUBSET Streams]
  /\ stale \in [Streams -> SUBSET Topics]
  /\ known \in [Streams -> [Topics -> Nat]] /\ since \in [Streams -> [Topics -> Nat]]

\* A publisher that has changed t has yet to tell s.
WillNotify(p, s, t) ==
  /\ pubTopic[p] = t
  /\ pubAt[p] = "changed" \/ (pubAt[p] = "notifying" /\ s \in targets[p])

\* The listener has read t's last change; a change to a catalog from before the
\* subscription was registered is no business of its listener.
Current(s, t) ==
  known[s][t] = changes[t] \/ (t \in Kinds /\ since[s][t] = changes[t])

\* Whatever the interleaving, the listener's state of t is current or something
\* is under way that will make it read t again.
UpToDateOrOwed(s, t) ==
  \/ Current(s, t) \/ t \in stale[s] \/ events[s] = t
  \/ \E p \in Publishers : WillNotify(p, s, t)

\* A listener that asked for one topic only misses no change of it, although
\* events are dropped, changes race with subscribe's lookup and publishers
\* with each other: a dropped event always finds one for the same topic ahead.
\* The listener of a catalog is promised the changes after its registration,
\* the listener of a task also those that raced with it.
NothingMissed ==
  \A s \in Streams, t \in Topics :
    streamAt[s] = "streaming" /\ agreed[s] = {t} => UpToDateOrOwed(s, t)

\* The same of any agreed filter: what an acknowledged subscription covers is
\* delivered to its listener (plan R10 "subscription-delivered task changes").
EveryChangeDelivered ==
  \A s \in Streams : streamAt[s] = "streaming" =>
    \A t \in agreed[s] : UpToDateOrOwed(s, t)

\* Nobody in the hub waits for anybody else: a publisher can take its snapshot
\* and tell each target whatever its handler is doing (README "a slow listener
\* cannot block registry updates"), CloseSubscriptions can complete each stream,
\* and a handler that has something to do can do it.  A hypothesis of the
\* liveness theorems: the guards of the actions say it, but tlapm has no ENABLED.
CanSnapshot(p) == ENABLED <<Snapshot(p) \/ Published(p)>>_vars
CanTell(p, s) == ENABLED <<Notify(p, s)>>_vars
CanComplete(s) == ENABLED <<Complete(s)>>_vars
CanAdvance(s) == ENABLED <<StreamStep(s)>>_vars
CanWriteEvent(s) == ENABLED <<WriteEvent(s)>>_vars
CanWriteCompletion(s) == ENABLED <<WriteCompletion(s)>>_vars
CanRead(s, t) == ENABLED <<Read(s, t)>>_vars

NobodyWaits ==
  /\ \A p \in Publishers : pubAt[p] = "changed" => CanSnapshot(p)
  /\ \A p \in Publishers : \A s \in targets[p] : CanTell(p, s)
  /\ \A s \in closing : CanComplete(s)
  /\ \A s \in registered : streamAt[s] = "registered" \/ s \in hungUp => CanAdvance(s)
  /\ \A s \in registered : streamAt[s] = "streaming" /\ events[s] # None => CanWriteEvent(s)
  /\ \A s \in registered : streamAt[s] = "streaming" /\ s \in complete => CanWriteCompletion(s)
  /\ \A s \in Streams \ hungUp : \A t \in stale[s] : CanRead(s, t)

\* A registration or task update never waits for a slow listener: its
\* publication ends even if some streams are stuck for ever in a write to a
\* client that does not read (README "a slow listener cannot block registry
\* updates").
PublishingEnds == \A p \in Publishers : pubAt[p] = "notifying" ~> pubAt[p] = "idle"

\* A disconnected stream is forgotten by the server, unless it is stuck.
HangUpForgotten == \A s \in Attentive : s \in hungUp ~> s \notin registered

\* CloseSubscriptions ends every stream that was registered when it started,
\* whatever becomes of the streams that are stuck.
ClosingCompletes == \A s \in Attentive : s \in closing ~> streamAt[s] = "ended"

\* The listener of one topic comes to know every change of it (of a catalog,
\* every change after its registration), unless its client hangs up or
\* CloseSubscriptions completes its stream.
ChangesLearned ==
  \A s \in Attentive, t \in Topics :
    streamAt[s] = "streaming" /\ agreed[s] = {t} /\ ~Current(s, t)
      ~> Current(s, t) \/ s \in complete \/ s \in hungUp

=============================================================================
