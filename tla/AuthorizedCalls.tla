-------------------------- MODULE AuthorizedCalls --------------------------
(***************************************************************************)
(* What OAuthHost.Do promises to each of its callers                       *)
(* (internal/host/oauth.go), as if there were no others: its request is    *)
(* sent at most three times; each replay bears a token for all the scopes  *)
(* the call knows of by then; it is served only with the scopes that the   *)
(* server demands; and Do fails only with an excuse, that is, after        *)
(* something outside the host went wrong for this call.                    *)
(*                                                                         *)
(* The store, where a token comes from and what the other calls put into   *)
(* the store meanwhile, clients, flows, codes and clocks are left open.    *)
(***************************************************************************)
EXTENDS Integers

CONSTANTS Calls, Scopes, Asked, Required, MaxReplays

VARIABLES
  phase,    \* "requesting", "authorizing", "served" or "failed"
  replays,  \* how often the request has been sent again
  known,    \* the scopes the call has come to know of
  held,     \* those of the token it sends
  excused   \* the calls for which something outside the host went wrong

promised == <<phase, replays, known, held, excused>>

Init ==
  /\ phase = [c \in Calls |-> "requesting"] /\ replays = [c \in Calls |-> 0]
  /\ known = Asked /\ held = [c \in Calls |-> {}]
  /\ excused = {}

Move(c, from, to) == phase[c] \in from /\ phase' = [phase EXCEPT ![c] = to]

Serve(c) ==
  /\ Move(c, {"requesting"}, "served")
  /\ Required[c] \subseteq held[c]
  /\ UNCHANGED <<replays, known, held, excused>>

\* The server may tell what it demands.  A refusal may be an excuse.
Refuse(c) ==
  /\ Move(c, {"requesting"}, "authorizing")
  /\ replays[c] < MaxReplays
  /\ known' \in {known, [known EXCEPT ![c] = @ \cup Required[c]]}
  /\ excused' \in {excused, excused \cup {c}}
  /\ UNCHANGED <<replays, held>>

Replay(c, scopes) ==
  /\ Move(c, {"authorizing"}, "requesting")
  /\ c \notin excused => known[c] \subseteq scopes
  /\ replays' = [replays EXCEPT ![c] = @ + 1]
  /\ held' = [held EXCEPT ![c] = scopes]
  /\ UNCHANGED <<known, excused>>

Fail(c) ==
  /\ Move(c, {"requesting", "authorizing"}, "failed")
  /\ excused' = excused \cup {c}
  /\ UNCHANGED <<replays, known, held>>

\* A callback or a grant is not what was asked for.
Excuse(c) ==
  /\ phase[c] = "authorizing" /\ excused' = excused \cup {c}
  /\ UNCHANGED <<phase, replays, known, held>>

Next ==
  \E c \in Calls :
    \/ Serve(c) \/ Refuse(c) \/ Fail(c) \/ Excuse(c)
    \/ \E scopes \in SUBSET Scopes : Replay(c, scopes)

Spec == Init /\ [][Next]_promised

=============================================================================
