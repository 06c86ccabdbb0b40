--------------------------- MODULE TaskRepository ---------------------------
(***************************************************************************)
(* The in-memory task repository and the task methods of the server        *)
(* (internal/mcpserver/tasks.go).  Every repository operation is one       *)
(* critical section under its mutex; what happens between the operations   *)
(* of concurrent requests is left open, and so is the clock, which the     *)
(* repository reads anew for every operation.  Deletion is lazy: an        *)
(* expired task stays in the map until its owner asks for it.              *)
(*                                                                         *)
(* The texts of a task are left out; of its input request and its result   *)
(* only the presence is kept.                                              *)
(***************************************************************************)
EXTENDS Integers, Sequences

CONSTANTS
  TaskIds,         \* the random task IDs, in the order they are drawn
  Owners,          \* the principals of the requests
  None,            \* no record, nothing under way, no TTL
  TTLs,            \* the TTLs tasks are created with
  MaxTime,         \* bound on the clock
  ClockStepsBack   \* the wall clock may be set back between two operations

VARIABLES
  tasks,     \* task ID -> TaskRecord or None
  now,       \* the repository's clock
  creating,  \* owner -> the CreatedAt of the task being created, or None
  drawn,     \* history: the IDs newTaskID has returned
  buried,    \* history: the tasks some request was told are expired
  acks       \* history: the statuses acknowledged by update and cancel, per task

vars == <<tasks, now, creating, drawn, buried, acks>>

Terminal == {"completed", "failed", "cancelled"}
Open == {"working", "input_required"}

Record == [owner : Owners, status : Open \cup Terminal, created : Nat,
           ttl : Nat \cup {None}, asks : BOOLEAN, result : BOOLEAN]

ASSUME RepositoryAssumption ==
  /\ None \notin Nat /\ None \notin Record /\ TTLs \subseteq Nat \cup {None}
  /\ MaxTime \in Nat /\ ClockStepsBack \in BOOLEAN

\* The tasks in the repository's map.
Known == {t \in TaskIds : tasks[t] # None}

Init ==
  /\ tasks = [t \in TaskIds |-> None] /\ now = 0
  /\ creating = [o \in Owners |-> None]
  /\ drawn = {} /\ buried = {} /\ acks = [t \in TaskIds |-> << >>]

----------------------------------------------------------------------------
\* Faulty variants of the operators below.  No specification uses them: the
\* model checker substitutes them to confirm that the properties notice.

\* Cancel without the test for a terminal status, and one that leaves the
\* input request in place or puts the task back to work.
CancellableAlways(r) == TRUE
StillAsking(r) == [r EXCEPT !.status = "cancelled"]
Resumed(r) == [r EXCEPT !.status = "working", !.asks = FALSE]
\* A completion with a status the protocol does not have.
Finalized(r) == [r EXCEPT !.status = "done", !.asks = FALSE, !.result = TRUE]
\* A lookup that ignores the TTL, or refuses an expired task without deleting it.
NeverExpires(r) == FALSE
KeepExpired(t) == UNCHANGED tasks

----------------------------------------------------------------------------
\* lookupLocked: present, of this owner, not past its TTL.
Expired(r) == r.ttl # None /\ now >= r.created + r.ttl

Accessible(o, t) == tasks[t] # None /\ tasks[t].owner = o

Live(o, t) == Accessible(o, t) /\ ~Expired(tasks[t])

\* What lookupLocked does with an expired task.
Delete(t) == tasks' = [tasks EXCEPT ![t] = None]

\* Any operation on an expired task of the caller's own deletes it and fails.
FindExpired(o, t) ==
  /\ Accessible(o, t) /\ Expired(tasks[t])
  /\ Delete(t)
  /\ buried' = buried \cup {t}
  /\ UNCHANGED <<now, creating, drawn, acks>>

\* callDeferredEchoTask reads the clock ...
Prepare(o) ==
  /\ creating[o] = None
  /\ creating' = [creating EXCEPT ![o] = now]
  /\ UNCHANGED <<tasks, now, drawn, buried, acks>>

\* ... and persists the task under a fresh ID before it answers.  Other users
\* of the repository create tasks at work, or without a TTL.  MaxTime leaves
\* room for the TTL of every task.
Create(o, t, status, ttl) ==
  /\ creating[o] # None /\ t \notin drawn
  /\ ttl # None => creating[o] + ttl <= MaxTime
  /\ tasks' = [tasks EXCEPT ![t] =
       [owner |-> o, status |-> status, created |-> creating[o], ttl |-> ttl,
        asks |-> status = "input_required", result |-> FALSE]]
  /\ creating' = [creating EXCEPT ![o] = None]
  /\ drawn' = drawn \cup {t}
  /\ UNCHANGED <<now, buried, acks>>

\* The request fails before it creates anything, or the repository refuses.
CreateFails(o) ==
  /\ creating[o] # None
  /\ creating' = [creating EXCEPT ![o] = None]
  /\ UNCHANGED <<tasks, now, drawn, buried, acks>>

\* Update is for tasks awaiting input, and for an approval that was asked for.
AwaitsInput(r) == r.status = "input_required" /\ r.asks

Completed(r) == [r EXCEPT !.status = "completed", !.asks = FALSE, !.result = TRUE]

Update(o, t) ==
  /\ Live(o, t) /\ AwaitsInput(tasks[t])
  /\ tasks' = [tasks EXCEPT ![t] = Completed(@)]
  /\ acks' = [acks EXCEPT ![t] = Append(@, "completed")]
  /\ UNCHANGED <<now, creating, drawn, buried>>

Cancellable(r) == r.status \notin Terminal

Cancelled(r) == [r EXCEPT !.status = "cancelled", !.asks = FALSE]

Cancel(o, t) ==
  /\ Live(o, t) /\ Cancellable(tasks[t])
  /\ tasks' = [tasks EXCEPT ![t] = Cancelled(@)]
  /\ acks' = [acks EXCEPT ![t] = Append(@, "cancelled")]
  /\ UNCHANGED <<now, creating, drawn, buried>>

Tick ==
  /\ now < MaxTime /\ now' = now + 1
  /\ UNCHANGED <<tasks, creating, drawn, buried, acks>>

\* The wall clock is adjusted: CreatedAt has lost the monotonic reading.
StepBack ==
  /\ ClockStepsBack /\ now > 0 /\ now' = now - 1
  /\ UNCHANGED <<tasks, creating, drawn, buried, acks>>

----------------------------------------------------------------------------
Request(o, t) ==
  \/ FindExpired(o, t) \/ Update(o, t) \/ Cancel(o, t)
  \/ \E status \in Open, ttl \in TTLs : Create(o, t, status, ttl)

Next ==
  \/ \E o \in Owners, t \in TaskIds : Request(o, t)
  \/ \E o \in Owners : Prepare(o) \/ CreateFails(o)
  \/ Tick \/ StepBack

Spec == Init /\ [][Next]_vars

----------------------------------------------------------------------------
\* Every variable ranges over the values the code's own types allow.
TypeOK ==
  /\ tasks \in [TaskIds -> Record \cup {None}] /\ now \in Nat
  /\ creating \in [Owners -> Nat \cup {None}]
  /\ drawn \subseteq TaskIds /\ buried \subseteq TaskIds
  /\ acks \in [TaskIds -> Seq(Terminal)]

\* Of all the updates and cancellations of a task, by any number of concurrent
\* requests, at most one is acknowledged, and the task keeps the status that
\* one announced for as long as it exists.
AcknowledgedOnce ==
  \A t \in TaskIds :
    /\ Len(acks[t]) <= 1
    /\ t \in Known => acks[t] = IF tasks[t].status \in Terminal THEN <<tasks[t].status>> ELSE << >>

\* A task one request was told is expired is never seen again, even if the
\* clock is set back to before its expiry.
ExpiryIsFinal == buried \cap Known = {}

\* A reader of the record is told what to do next, or what came out of it: an
\* open task that asks for nothing is at work, a completed one has a result.
RecordsAreComplete ==
  \A t \in Known : /\ tasks[t].asks <=> tasks[t].status = "input_required"
                   /\ tasks[t].result <=> tasks[t].status = "completed"

\* The repository implements the status machine of the protocol package.
Phase(t) == IF t \in Known THEN tasks[t].status
            ELSE IF t \in drawn THEN "gone" ELSE "none"

Lifecycle == INSTANCE TaskLifecycle WITH status <- [t \in TaskIds |-> Phase(t)]

ImplementsLifecycle == Lifecycle!Spec

=============================================================================
