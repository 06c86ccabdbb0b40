---------------------------- MODULE TaskPolling ----------------------------
(***************************************************************************)
(* A host that waits for a task by polling (internal/host/tasks.go         *)
(* WaitForHTTPTask), together with the repository it polls: each poll is a *)
(* tasks/get request of the host's principal, then the host sleeps.        *)
(***************************************************************************)
EXTENDS TaskRepository

CONSTANT Poller  \* the host's principal

ASSUME PollerAssumption == Poller \in Owners

VARIABLES
  pollAt,    \* where WaitForHTTPTask is
  awaited,   \* the task it waits for
  reported   \* the terminal status it returned

pollVars == <<pollAt, awaited, reported>>
allVars == <<vars, pollVars>>

PollPoints == {"idle", "asking", "sleeping", "done", "failed"}

PollInit == Init /\ pollAt = "idle" /\ awaited = None /\ reported = None

\* A faulty variant, which no specification uses: a host that takes any answer
\* for the last.
AnyStatusEnds(st) == TRUE

----------------------------------------------------------------------------
\* The host knows the ID of some task that has been created.
StartWaiting(t) ==
  /\ pollAt = "idle" /\ t \in drawn
  /\ pollAt' = "asking" /\ awaited' = t
  /\ UNCHANGED <<vars, reported>>

EndsWait(st) == st \in Terminal

\* tasks/get shows a terminal task ...
PollSucceeds ==
  /\ pollAt = "asking" /\ Live(Poller, awaited) /\ EndsWait(tasks[awaited].status)
  /\ pollAt' = "done" /\ reported' = tasks[awaited].status
  /\ UNCHANGED <<vars, awaited>>

\* ... or an open one ...
PollAgain ==
  /\ pollAt = "asking" /\ Live(Poller, awaited) /\ ~EndsWait(tasks[awaited].status)
  /\ pollAt' = "sleeping"
  /\ UNCHANGED <<vars, awaited, reported>>

\* ... or fails, deleting the task if it has expired.
PollFails ==
  /\ pollAt = "asking" /\ ~Live(Poller, awaited)
  /\ pollAt' = "failed"
  /\ FindExpired(Poller, awaited) \/ (~Accessible(Poller, awaited) /\ UNCHANGED vars)
  /\ UNCHANGED <<awaited, reported>>

\* The poll interval has passed.
Wake ==
  /\ pollAt = "sleeping"
  /\ pollAt' = "asking"
  /\ UNCHANGED <<vars, awaited, reported>>

\* The context is cancelled, or the transport fails.
GiveUp ==
  /\ pollAt \in {"asking", "sleeping"}
  /\ pollAt' = "failed"
  /\ UNCHANGED <<vars, awaited, reported>>

\* The caller may wait for another task.
WaitOver ==
  /\ pollAt \in {"done", "failed"}
  /\ pollAt' = "idle" /\ awaited' = None /\ reported' = None
  /\ UNCHANGED vars

PollStep == PollSucceeds \/ PollAgain \/ PollFails \/ Wake

PollNext ==
  \/ Next /\ UNCHANGED pollVars
  \/ \E t \in TaskIds : StartWaiting(t)
  \/ PollStep \/ GiveUp \/ WaitOver

PollSpec == PollInit /\ [][PollNext]_allVars

\* Time passes, the clock is set back only so often, and the host's goroutine runs.
FairPollSpec ==
  /\ PollSpec
  /\ WF_allVars(Tick /\ UNCHANGED pollVars) /\ <>[][~StepBack]_allVars
  /\ WF_allVars(PollStep)

----------------------------------------------------------------------------
\* The host's variables keep to their types; it only ever returns a terminal status.
PollTypeOK ==
  /\ pollAt \in PollPoints /\ awaited \in TaskIds \cup {None}
  /\ reported \in Terminal \cup {None}

\* What the host returns is the outcome somebody was told of: it is that of
\* the one update or cancellation that was acknowledged.
ReportsTheOutcome == pollAt = "done" => acks[awaited] = <<reported>>

\* Waiting for a task with a TTL ends although nobody ever finishes the task,
\* cancels the host's context or asks for the task but the host itself.
WaitEnds ==
  pollAt \in {"asking", "sleeping"} /\ (awaited \in Known => tasks[awaited].ttl # None)
    ~> pollAt \in {"done", "failed"}

=============================================================================
