------------------------ MODULE TaskRepositoryProofs ------------------------
(***************************************************************************)
(* Proofs about TaskRepository: one outcome per task, expiry for good, and *)
(* the refinement of TaskLifecycle.                                        *)
(*                                                                         *)
(* The invariants support each other: a record is replaced only by one     *)
(* with the matching fields, an acknowledgement comes only with the step   *)
(* to a terminal status, and an ID that has not been drawn has no history. *)
(***************************************************************************)
EXTENDS TaskRepository, TLAPS

\* An ID has no record and no history before it is drawn.
FreshIDs == \A t \in TaskIds \ drawn : t \notin Known /\ t \notin buried /\ acks[t] = << >>

RepositoryInv ==
  TypeOK /\ AcknowledgedOnce /\ ExpiryIsFinal /\ RecordsAreComplete /\ FreshIDs

----------------------------------------------------------------------------
\* The empty repository.
LEMMA RepositoryInvInit == Init => RepositoryInv
  BY RepositoryAssumption
     DEF Init, RepositoryInv, TypeOK, AcknowledgedOnce, ExpiryIsFinal, RecordsAreComplete,
         FreshIDs, Known

\* Every operation of the repository, one by one.
LEMMA RepositoryInvStep == RepositoryInv /\ [Next]_vars => RepositoryInv'
<1> SUFFICES ASSUME RepositoryInv, [Next]_vars PROVE RepositoryInv'
  OBVIOUS
<1> USE RepositoryAssumption
    DEF RepositoryInv, TypeOK, AcknowledgedOnce, ExpiryIsFinal, RecordsAreComplete,
        FreshIDs, Known, Terminal, Open
<1>1. ASSUME NEW o \in Owners, NEW t \in TaskIds, FindExpired(o, t) PROVE RepositoryInv'
  BY <1>1 DEF FindExpired, Delete, Accessible
<1>2. ASSUME NEW o \in Owners, NEW t \in TaskIds, Update(o, t) PROVE RepositoryInv'
  <2>1. tasks[t] \in Record /\ tasks[t].status = "input_required"
    BY <1>2 DEF Update, Live, Accessible, AwaitsInput
  <2>2. /\ tasks'[t] = Completed(tasks[t]) /\ Completed(tasks[t]) \in Record
        /\ Completed(tasks[t]).status = "completed" /\ Completed(tasks[t]).result = TRUE
        /\ Completed(tasks[t]).asks = FALSE
    BY <1>2, <2>1 DEF Update, Completed, Record
  <2>3. acks[t] = << >> /\ acks'[t] = <<"completed">>
    <3>1. t \in Known /\ tasks[t].status \notin Terminal
      BY <2>1
    <3>2. acks[t] = << >>
      BY <3>1
    <3>3. acks'[t] = Append(acks[t], "completed")
      BY <1>2 DEF Update
    <3>4. QED
      BY <3>2, <3>3
  <2>4. \A u \in TaskIds \ {t} : tasks'[u] = tasks[u] /\ acks'[u] = acks[u]
    BY <1>2 DEF Update
  <2>5. tasks' \in [TaskIds -> Record \cup {None}] /\ acks' \in [TaskIds -> Seq(Terminal)]
    BY <1>2, <2>2, <2>3 DEF Update
  <2>6. TypeOK'
    BY <1>2, <2>5 DEF Update
  <2>7. AcknowledgedOnce'
    <3>1. Len(acks'[t]) <= 1 /\ acks'[t] = <<tasks'[t].status>>
      BY <2>2, <2>3
    <3>2. QED
      BY <2>2, <2>4, <3>1, ZenonT(60)
  <2>8. RecordsAreComplete'
    BY <2>1, <2>2, <2>4
  <2>9. ExpiryIsFinal' /\ FreshIDs'
    BY <1>2, <2>1, <2>4 DEF Update
  <2>10. QED
    BY <2>6, <2>7, <2>8, <2>9
<1>3. ASSUME NEW o \in Owners, NEW t \in TaskIds, Cancel(o, t) PROVE RepositoryInv'
  <2>1. tasks[t] \in Record /\ tasks[t].status \in Open
    BY <1>3 DEF Cancel, Live, Accessible, Cancellable, Record
  <2>2. /\ tasks'[t] = Cancelled(tasks[t]) /\ Cancelled(tasks[t]) \in Record
        /\ Cancelled(tasks[t]).status = "cancelled" /\ Cancelled(tasks[t]).asks = FALSE
        /\ Cancelled(tasks[t]).result = tasks[t].result
    BY <1>3, <2>1 DEF Cancel, Cancelled, Record
  <2>3. acks[t] = << >> /\ acks'[t] = <<"cancelled">>
    <3>1. t \in Known /\ tasks[t].status \notin Terminal
      BY <2>1
    <3>2. acks[t] = << >>
      BY <3>1
    <3>3. acks'[t] = Append(acks[t], "cancelled")
      BY <1>3 DEF Cancel
    <3>4. QED
      BY <3>2, <3>3
  <2>4. \A u \in TaskIds \ {t} : tasks'[u] = tasks[u] /\ acks'[u] = acks[u]
    BY <1>3 DEF Cancel
  <2>5. tasks' \in [TaskIds -> Record \cup {None}] /\ acks' \in [TaskIds -> Seq(Terminal)]
    BY <1>3, <2>2, <2>3 DEF Cancel
  <2>6. TypeOK'
    BY <1>3, <2>5 DEF Cancel
  <2>7. AcknowledgedOnce'
    <3>1. Len(acks'[t]) <= 1 /\ acks'[t] = <<tasks'[t].status>>
      BY <2>2, <2>3
    <3>2. QED
      BY <2>2, <2>4, <3>1
  <2>8. RecordsAreComplete'
    BY <2>1, <2>2, <2>4
  <2>9. ExpiryIsFinal' /\ FreshIDs'
    BY <1>3, <2>1, <2>4 DEF Cancel
  <2>10. QED
    BY <2>6, <2>7, <2>8, <2>9
<1>4. ASSUME NEW o \in Owners, NEW t \in TaskIds, NEW status \in Open, NEW ttl \in TTLs,
             Create(o, t, status, ttl)
      PROVE RepositoryInv'
  <2> DEFINE r == [owner |-> o, status |-> status, created |-> creating[o], ttl |-> ttl,
                   asks |-> status = "input_required", result |-> FALSE]
  <2>1. r \in Record /\ tasks'[t] = r
    BY <1>4 DEF Create, Record
  <2>2. \A u \in TaskIds \ {t} : tasks'[u] = tasks[u]
    BY <1>4 DEF Create
  <2>3. tasks' \in [TaskIds -> Record \cup {None}]
    BY <1>4, <2>1 DEF Create
  <2>4. TypeOK'
    BY <1>4, <2>3 DEF Create
  <2>5. t \notin Known /\ acks[t] = << >> /\ t \notin buried /\ acks' = acks
    BY <1>4 DEF Create
  <2>6. r.status \notin Terminal /\ r.result = FALSE /\ (r.asks <=> r.status = "input_required")
    OBVIOUS
  <2>7. AcknowledgedOnce'
    BY <2>1, <2>2, <2>5, <2>6
  <2>8. RecordsAreComplete'
    BY <2>1, <2>2, <2>6
  <2>9. ExpiryIsFinal' /\ FreshIDs'
    BY <1>4, <2>2, <2>5 DEF Create
  <2>10. QED
    BY <2>4, <2>7, <2>8, <2>9
<1>5. ASSUME NEW o \in Owners, Prepare(o) PROVE RepositoryInv'
  BY <1>5 DEF Prepare
<1>6. ASSUME NEW o \in Owners, CreateFails(o) PROVE RepositoryInv'
  BY <1>6 DEF CreateFails
<1>7. CASE Tick
  BY <1>7 DEF Tick
<1>8. CASE StepBack
  BY <1>8 DEF StepBack
<1>9. CASE UNCHANGED vars
  BY <1>9 DEF vars
<1>10. QED
  BY <1>1, <1>2, <1>3, <1>4, <1>5, <1>6, <1>7, <1>8, <1>9 DEF Next, Request

\* The invariant holds of every behaviour.
THEOREM RepositoryInvariant == Spec => []RepositoryInv
<1>1. QED
  BY RepositoryInvInit, RepositoryInvStep, PTL DEF Spec

\* The fields of every record fit its status.
THEOREM CompleteRecords == Spec => []RecordsAreComplete
<1>1. RepositoryInv => RecordsAreComplete
  BY DEF RepositoryInv
<1>2. QED
  BY <1>1, RepositoryInvariant, PTL

\* Every variable keeps to its type.
THEOREM TypeCorrect == Spec => []TypeOK
<1>1. RepositoryInv => TypeOK
  BY DEF RepositoryInv
<1>2. QED
  BY <1>1, RepositoryInvariant, PTL

\* Concurrent updates and cancellations have one winner, whose outcome stands.
THEOREM OneOutcomePerTask == Spec => []AcknowledgedOnce
<1>1. RepositoryInv => AcknowledgedOnce
  BY DEF RepositoryInv
<1>2. QED
  BY <1>1, RepositoryInvariant, PTL

\* A task found expired stays away, whatever the clock does.
THEOREM ExpiredForGood == Spec => []ExpiryIsFinal
<1>1. RepositoryInv => ExpiryIsFinal
  BY DEF RepositoryInv
<1>2. QED
  BY <1>1, RepositoryInvariant, PTL

----------------------------------------------------------------------------
\* The refinement mapping: one record changes, so does one status.
LEMMA MoveOne ==
  ASSUME NEW t \in TaskIds, \A u \in TaskIds \ {t} : Phase(u)' = Phase(u),
         Phase(t)' \in Lifecycle!Successors(Phase(t))
  PROVE  Lifecycle!Next
<1> DEFINE st == [u \in TaskIds |-> Phase(u)]
<1>1. st' = [st EXCEPT ![t] = Phase(t)']
  OBVIOUS
<1>2. Lifecycle!Move(t)
  BY <1>1 DEF Lifecycle!Move
<1>3. QED
  BY <1>2 DEF Lifecycle!Next

\* A step that touches no record is a stutter of the status machine.
LEMMA StutterOnPhases ==
  ASSUME UNCHANGED <<tasks, drawn>>
  PROVE  UNCHANGED [t \in TaskIds |-> Phase(t)]
  BY DEF Phase, Known

\* Every step of the repository is one of the protocol's status machine.
THEOREM RefinesLifecycle == Spec => ImplementsLifecycle
<1>1. Init => Lifecycle!Init
  BY DEF Init, Lifecycle!Init, Phase, Known
<1>2. RepositoryInv /\ [Next]_vars => [Lifecycle!Next]_[t \in TaskIds |-> Phase(t)]
  <2> SUFFICES ASSUME RepositoryInv, [Next]_vars
               PROVE  Lifecycle!Next \/ UNCHANGED [t \in TaskIds |-> Phase(t)]
    OBVIOUS
  <2> USE RepositoryAssumption
      DEF RepositoryInv, TypeOK, FreshIDs, Known, Terminal, Open, Phase,
          Lifecycle!Successors, Lifecycle!Terminal, Lifecycle!Open
  <2>1. ASSUME NEW o \in Owners, NEW t \in TaskIds, FindExpired(o, t) PROVE Lifecycle!Next
    <3>1. Phase(t)' = "gone" /\ Phase(t) \in Open \cup Terminal
      BY <2>1 DEF FindExpired, Delete, Accessible, Record
    <3>2. \A u \in TaskIds \ {t} : Phase(u)' = Phase(u)
      BY <2>1 DEF FindExpired, Delete
    <3>3. QED
      BY <3>1, <3>2, MoveOne
  <2>2. ASSUME NEW o \in Owners, NEW t \in TaskIds, Update(o, t) PROVE Lifecycle!Next
    <3>1. Phase(t) = "input_required" /\ Phase(t)' = "completed"
      BY <2>2, ZenonT(60) DEF Update, Live, Accessible, AwaitsInput, Completed, Record
    <3>2. \A u \in TaskIds \ {t} : Phase(u)' = Phase(u)
      BY <2>2 DEF Update
    <3>3. QED
      BY <3>1, <3>2, MoveOne
  <2>3. ASSUME NEW o \in Owners, NEW t \in TaskIds, Cancel(o, t) PROVE Lifecycle!Next
    <3>1. Phase(t) \in Open /\ Phase(t)' = "cancelled"
      BY <2>3 DEF Cancel, Live, Accessible, Cancellable, Cancelled, Record
    <3>2. \A u \in TaskIds \ {t} : Phase(u)' = Phase(u)
      BY <2>3 DEF Cancel
    <3>3. QED
      BY <3>1, <3>2, MoveOne
  <2>4. ASSUME NEW o \in Owners, NEW t \in TaskIds, NEW status \in Open, NEW ttl \in TTLs,
               Create(o, t, status, ttl)
        PROVE Lifecycle!Next
    <3> DEFINE r == [owner |-> o, status |-> status, created |-> creating[o], ttl |-> ttl,
                     asks |-> status = "input_required", result |-> FALSE]
    <3>1. r \in Record /\ tasks'[t] = r
      BY <2>4 DEF Create, Record
    <3>2. Phase(t) = "none" /\ Phase(t)' = status
      BY <2>4, <3>1 DEF Create
    <3>3. \A u \in TaskIds \ {t} : Phase(u)' = Phase(u)
      BY <2>4 DEF Create
    <3>4. QED
      BY <3>2, <3>3, MoveOne
  <2>5. CASE (\E o \in Owners : Prepare(o) \/ CreateFails(o)) \/ Tick \/ StepBack
             \/ UNCHANGED vars
    BY <2>5, StutterOnPhases DEF Prepare, CreateFails, Tick, StepBack, vars
  <2>6. QED
    BY <2>1, <2>2, <2>3, <2>4, <2>5 DEF Next, Request
<1>3. QED
  BY <1>1, <1>2, RepositoryInvariant, PTL DEF Spec, ImplementsLifecycle, Lifecycle!Spec

=============================================================================
