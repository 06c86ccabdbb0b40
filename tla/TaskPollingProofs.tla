------------------------- MODULE TaskPollingProofs -------------------------
(***************************************************************************)
(* Proofs about TaskPolling: a polling host returns the one outcome of the *)
(* task that was acknowledged to whoever updated or cancelled it.          *)
(*                                                                         *)
(* A poll that succeeds reads the outcome from the record; what keeps it   *)
(* true afterwards is that an acknowledged task is never acknowledged      *)
(* again, be it in the repository or already forgotten.                    *)
(***************************************************************************)
EXTENDS TaskPolling, TaskRepositoryProofs

\* What is known of the awaited task while the host waits and afterwards.
PollInv ==
  /\ RepositoryInv /\ PollTypeOK /\ ReportsTheOutcome
  /\ pollAt # "idle" => awaited \in TaskIds

----------------------------------------------------------------------------
\* Before anything is created or awaited.
LEMMA PollInvInit == PollInit => PollInv
<1> SUFFICES ASSUME PollInit PROVE PollInv
  OBVIOUS
<1>1. RepositoryInv
  BY RepositoryInvInit DEF PollInit
<1>2. QED
  BY <1>1 DEF PollInit, PollInv, PollTypeOK, ReportsTheOutcome, PollPoints

\* A step of the repository leaves an acknowledged task's outcome alone.
LEMMA OutcomeStands ==
  ASSUME RepositoryInv, Next, NEW t \in TaskIds, acks[t] # << >>
  PROVE  acks'[t] = acks[t]
<1> USE RepositoryAssumption DEF RepositoryInv, TypeOK
<1>1. ASSUME NEW o \in Owners, NEW u \in TaskIds, Update(o, u) PROVE acks'[t] = acks[t]
  <2>1. acks[u] = << >>
    BY <1>1 DEF Update, Live, Accessible, AwaitsInput, AcknowledgedOnce, Known, Terminal
  <2>2. QED
    BY <1>1, <2>1 DEF Update
<1>2. ASSUME NEW o \in Owners, NEW u \in TaskIds, Cancel(o, u) PROVE acks'[t] = acks[t]
  <2>1. acks[u] = << >>
    BY <1>2 DEF Cancel, Live, Accessible, Cancellable, AcknowledgedOnce, Known
  <2>2. QED
    BY <1>2, <2>1 DEF Cancel
<1>3. QED
  BY <1>1, <1>2 DEF Next, Request, FindExpired, Create, Prepare, CreateFails, Tick, StepBack

\* Every step of the host and of the repository.
LEMMA PollInvStep == PollInv /\ [PollNext]_allVars => PollInv'
<1> SUFFICES ASSUME PollInv, [PollNext]_allVars PROVE PollInv'
  OBVIOUS
<1> USE DEF PollInv
<1>1. RepositoryInv'
  <2>1. CASE PollFails
    <3>1. FindExpired(Poller, awaited) => Next
      BY <2>1, PollerAssumption DEF PollFails, Next, Request
    <3>2. QED
      BY <2>1, <3>1, RepositoryInvStep DEF PollFails
  <2>2. CASE ~PollFails
    <3>1. Next \/ UNCHANGED vars
      BY <2>2 DEF PollNext, PollStep, StartWaiting, PollSucceeds, PollAgain, Wake, GiveUp,
                  WaitOver, allVars
    <3>2. QED
      BY <3>1, RepositoryInvStep
  <2>3. QED
    BY <2>1, <2>2
<1>2. CASE Next /\ UNCHANGED pollVars
  <2>1. pollAt = "done" => acks'[awaited] = acks[awaited]
    <3>1. pollAt = "done" => awaited \in TaskIds /\ acks[awaited] # << >>
      BY DEF ReportsTheOutcome
    <3>2. QED
      BY <1>2, <3>1, OutcomeStands
  <2>2. QED
    BY <1>1, <1>2, <2>1 DEF pollVars, PollTypeOK, ReportsTheOutcome
<1>3. ASSUME NEW t \in TaskIds, StartWaiting(t) PROVE PollInv'
  BY <1>1, <1>3 DEF StartWaiting, PollTypeOK, ReportsTheOutcome, PollPoints
<1>4. CASE PollSucceeds
  <2>1. awaited \in Known /\ tasks[awaited].status \in Terminal
    BY <1>4, RepositoryAssumption DEF PollSucceeds, Live, Accessible, EndsWait, Known
  <2>2. acks[awaited] = <<tasks[awaited].status>>
    BY <2>1 DEF RepositoryInv, AcknowledgedOnce, Known
  <2>3. QED
    BY <1>1, <1>4, <2>1, <2>2 DEF PollSucceeds, PollTypeOK, ReportsTheOutcome, PollPoints, vars
<1>5. CASE PollAgain
  BY <1>1, <1>5 DEF PollAgain, PollTypeOK, ReportsTheOutcome, PollPoints
<1>6. CASE PollFails
  BY <1>1, <1>6 DEF PollFails, PollTypeOK, ReportsTheOutcome, PollPoints
<1>7. CASE Wake
  BY <1>1, <1>7 DEF Wake, PollTypeOK, ReportsTheOutcome, PollPoints
<1>8. CASE GiveUp
  BY <1>1, <1>8 DEF GiveUp, PollTypeOK, ReportsTheOutcome, PollPoints
<1>9. CASE WaitOver
  BY <1>1, <1>9 DEF WaitOver, PollTypeOK, ReportsTheOutcome, PollPoints
<1>10. CASE UNCHANGED allVars
  BY <1>1, <1>10 DEF allVars, vars, pollVars, PollTypeOK, ReportsTheOutcome
<1>11. QED
  BY <1>2, <1>3, <1>4, <1>5, <1>6, <1>7, <1>8, <1>9, <1>10 DEF PollNext, PollStep

\* The host and the repository keep their invariants.
THEOREM PollInvariant == PollSpec => []PollInv
<1>1. QED
  BY PollInvInit, PollInvStep, PTL DEF PollSpec

\* Whatever WaitForHTTPTask returns is a terminal status.
THEOREM PollTypeCorrect == PollSpec => []PollTypeOK
<1>1. PollInv => PollTypeOK
  BY DEF PollInv
<1>2. QED
  BY <1>1, PollInvariant, PTL

\* The host's answer is the acknowledged outcome, for any number of tasks,
\* owners and competing requests, and even after the task has been forgotten.
THEOREM HostsReportTheOutcome == PollSpec => []ReportsTheOutcome
<1>1. PollInv => ReportsTheOutcome
  BY DEF PollInv
<1>2. QED
  BY <1>1, PollInvariant, PTL

=============================================================================
