--------------------------- MODULE ResponseStream ---------------------------
(***************************************************************************)
(* What the response stream of one request promises to its client and to   *)
(* its tool (internal/mcpserver/http.go, runtime.go).  The client gets the *)
(* notifications in the order in which they were accepted, with progress   *)
(* that never goes back, and then the response as the last message, once   *)
(* nothing more is accepted and everything accepted has been written.  A   *)
(* slow client holds the tool back after Capacity notifications; the       *)
(* stream ends without the response only if the client stops reading or    *)
(* disconnects.                                                            *)
(*                                                                         *)
(* The goroutines of the tool, the lock they share, the hand-over of the   *)
(* response and the cancellation of the request are left open.             *)
(***************************************************************************)
EXTENDS Integers, Sequences

CONSTANTS Messages, Log, Capacity

VARIABLES
  accepted, taken,  \* the notifications accepted, the number taken to be written
  sealed,           \* no more of them are accepted
  stream,           \* "open", "answered", "stalled" by the client or "closed"
  gone              \* the client has disconnected

promised == <<accepted, taken, sealed, stream, gone>>

Init ==
  /\ accepted = << >> /\ taken = 0 /\ sealed = FALSE
  /\ stream = "open" /\ gone = FALSE

Ahead(m) == \A i \in 1..Len(accepted) : accepted[i] # Log => accepted[i] <= m

Accept(m) ==
  /\ ~sealed
  /\ Len(accepted) - taken < Capacity
  /\ m # Log => Ahead(m)
  /\ accepted' = Append(accepted, m)
  /\ UNCHANGED <<taken, sealed, stream, gone>>

Seal ==
  /\ ~sealed /\ sealed' = TRUE
  /\ UNCHANGED <<accepted, taken, stream, gone>>

\* A message is written to a client that may not read it, or be gone.
Write(next) == stream' \in {next, "stalled"} \/ (gone /\ stream' = "closed")

Take ==
  /\ stream = "open" /\ taken < Len(accepted)
  /\ taken' = taken + 1
  /\ Write("open")
  /\ UNCHANGED <<accepted, sealed, gone>>

Answer ==
  /\ stream = "open" /\ sealed /\ taken = Len(accepted)
  /\ Write("answered")
  /\ UNCHANGED <<accepted, taken, sealed, gone>>

GiveUp ==
  /\ stream \in {"open", "stalled"} /\ gone
  /\ stream' = "closed"
  /\ UNCHANGED <<accepted, taken, sealed, gone>>

Disconnect ==
  /\ ~gone /\ gone' = TRUE
  /\ UNCHANGED <<accepted, taken, sealed, stream>>

Next ==
  \/ \E m \in Messages : Accept(m)
  \/ Seal \/ Take \/ Answer \/ GiveUp \/ Disconnect

Spec == Init /\ [][Next]_promised

=============================================================================
