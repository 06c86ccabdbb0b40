--------------------------- MODULE TaskLifecycle ---------------------------
(***************************************************************************)
(* What the Tasks extension promises about the status of a task            *)
(* (internal/protocol/tasks.go): a task may move from working to           *)
(* input_required or a terminal status, and input_required may move to     *)
(* completed, failed, or cancelled.  A task may be forgotten at any time,  *)
(* and is then gone for good.                                              *)
(***************************************************************************)
CONSTANT TaskIds

VARIABLE status

Terminal == {"completed", "failed", "cancelled"}
Open == {"working", "input_required"}

Successors(st) ==
  CASE st = "none" -> Open
    [] st = "working" -> {"input_required", "gone"} \cup Terminal
    [] st = "input_required" -> {"gone"} \cup Terminal
    [] st \in Terminal -> {"gone"}
    [] OTHER -> {}

Init == status = [t \in TaskIds |-> "none"]

Move(t) == \E st \in Successors(status[t]) : status' = [status EXCEPT ![t] = st]

Next == \E t \in TaskIds : Move(t)

Spec == Init /\ [][Next]_status

=============================================================================
