-------------------------- MODULE RequestOutcomes --------------------------
(***************************************************************************)
(* What a stdio connection promises about the requests it accepts          *)
(* (internal/mcpserver/stdio.go): their number is limited, each one whose  *)
(* client waits for a response gets exactly one outcome, and Serve returns *)
(* only when all of them have got theirs.  A request is answered, or it is *)
(* cancelled, or its response could not be written, which is never kept    *)
(* quiet; it is never forgotten without one of these.  A cancelled request *)
(* gets no response, as the handler goroutine (stdio.go 376-380) and       *)
(* TestServe_CancelledRequestIsIdempotentAndDoesNotReturnFinal have it; a  *)
(* plan of the repository (docs/plans/2026-08-12-complete-mcp-roadmap.md   *)
(* 68, AE4) has cancellation emit a terminal response, which it does not.  *)
(*                                                                         *)
(* How a request is found, by whom it is cancelled and what the connection *)
(* does in between is left open.                                           *)
(***************************************************************************)
EXTENDS Naturals, FiniteSets

CONSTANTS Calls, MaxConcurrent

VARIABLES
  accepted,   \* the requests being worked on
  due,        \* those of them whose client waits for a response
  answered, cancelled, unwritten,  \* their outcomes
  lost,       \* some write has failed
  closed      \* Serve has returned

promised == <<accepted, due, answered, cancelled, unwritten, lost, closed>>

Settled == answered \cup cancelled \cup unwritten

Init ==
  /\ accepted = {} /\ due = {}
  /\ answered = {} /\ cancelled = {} /\ unwritten = {}
  /\ lost = FALSE /\ closed = FALSE

Accept(c) ==
  /\ ~closed
  /\ c \notin accepted /\ Cardinality(accepted) < MaxConcurrent
  /\ accepted' = accepted \cup {c}
  /\ due' \in {due, due \cup {c}}
  /\ UNCHANGED <<answered, cancelled, unwritten, lost, closed>>

Answer(c) ==
  /\ ~closed
  /\ c \in due \ Settled
  /\ answered' = answered \cup {c}
  /\ UNCHANGED <<accepted, due, cancelled, unwritten, lost, closed>>

Cancel(c) ==
  /\ ~closed
  /\ c \in accepted \ Settled
  /\ cancelled' = cancelled \cup {c}
  /\ UNCHANGED <<accepted, due, answered, unwritten, lost, closed>>

Lose(c) ==
  /\ ~closed
  /\ c \in due \ Settled
  /\ unwritten' = unwritten \cup {c}
  /\ lost' = TRUE
  /\ UNCHANGED <<accepted, due, answered, cancelled, closed>>

\* The end of a request, which may be after that of Serve.
Retire(c) ==
  /\ c \in accepted
  /\ c \in due => c \in Settled
  /\ accepted' = accepted \ {c} /\ due' = due \ {c}
  /\ answered' = answered \ {c} /\ cancelled' = cancelled \ {c} /\ unwritten' = unwritten \ {c}
  /\ UNCHANGED <<lost, closed>>

\* Something else could not be written.
LoseOther ==
  /\ lost' = TRUE
  /\ UNCHANGED <<accepted, due, answered, cancelled, unwritten, closed>>

Close ==
  /\ ~closed
  /\ due \subseteq Settled
  /\ closed' = TRUE
  /\ UNCHANGED <<accepted, due, answered, cancelled, unwritten, lost>>

Next ==
  \/ \E c \in Calls : Accept(c) \/ Answer(c) \/ Cancel(c) \/ Lose(c) \/ Retire(c)
  \/ LoseOther \/ Close

Spec == Init /\ [][Next]_promised

----------------------------------------------------------------------------
\* What it comes to: no request has two outcomes, only one whose client waits for a
\* response is answered or found unwritable, a response that is lost is not kept
\* quiet, and when Serve has returned nobody waits for a response any more.
Fulfilled ==
  /\ answered \cap cancelled = {} /\ unwritten \cap (answered \cup cancelled) = {}
  /\ Settled \subseteq accepted /\ answered \cup unwritten \subseteq due /\ due \subseteq accepted
  /\ unwritten # {} => lost
  /\ closed => due \subseteq Settled

=============================================================================
