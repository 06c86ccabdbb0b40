--------------------------- MODULE EraLifecycle ---------------------------
(***************************************************************************)
(* The era of a stdio connection (internal/mcpserver/legacy.go).  The      *)
(* first request decides whether a connection of Server.Serve is modern or *)
(* legacy; one of Server.ServeLegacy is legacy from the start.  A legacy   *)
(* connection has the historical lifecycle: initialize once, then business *)
(* requests, which are rewritten as modern ones, handled, and stripped of  *)
(* the modern result envelope, the result type included.                   *)
(*                                                                         *)
(* The reader of the connection classifies and, in the legacy era, answers *)
(* one request after the other, so that one request is one step.           *)
(* subscriptions/listen and notifications/cancelled of a modern connection *)
(* are the subject of module StdioConnection.                              *)
(***************************************************************************)
EXTENDS Dispatch

VARIABLES
  conn,      \* stdioCompatibilityState, with the history of the connection
  asked,     \* history: the previews for which the server has handed out a state
  confirmed  \* history: the previews it has confirmed

eraVars == <<conn, asked, confirmed>>

Eras == {"unknown", "modern", "legacy"}

\* Results sent: in which form, of what kind before the envelope is stripped,
\* whether before a handshake, and whether to an ordinary request.
ResultSent == [form : {"modern", "legacy"}, kind : {"complete", "inputRequired", "task"},
               early : BOOLEAN, ordinary : BOOLEAN]

Connection ==
  [era : Eras, initialized : BOOLEAN, handshakes : Nat, results : SUBSET ResultSent]

NewConnection(era) ==
  [era |-> era, initialized |-> FALSE, handshakes |-> 0, results |-> {}]

----------------------------------------------------------------------------
\* Only the key _meta itself counts here ...
HasModernMetadata(r) == r.meta # "none" /\ r.exact

\* ... while the metadata of a misspelled key are read all the same.
Misspelled(r) == r.meta # "none" /\ ~r.exact

\* An initialize request that carries modern metadata is a mistake of a modern client.
Classify(r) ==
  IF r.method = "initialize" /\ ~HasModernMetadata(r) THEN "legacy" ELSE "modern"

\* A faulty variant, which no specification uses: each request decides anew.
EraOfEachRequest(c, r) == Classify(r)

EraOf(c, r) == IF c.era = "unknown" THEN Classify(r) ELSE c.era

ModernResponses(r) ==
  IF r.method = "initialize" THEN {Error("methodNotFound")} ELSE Handle(r, None)

\* A faulty variant, which no specification uses: the client keeps its capabilities.
KeepCapabilities(r) == [r EXCEPT !.meta = "modern"]

\* What a client says of itself under _meta is replaced: it has no capabilities.
\* Under a misspelled key it stays in the object, before _meta, and is decoded into
\* the same structure: only the version is replaced, and what follows with it.
AsModern(r) ==
  IF Misspelled(r)
  THEN [r EXCEPT !.meta = IF @ = "invalid" THEN @ ELSE "modern"]
  ELSE [r EXCEPT !.meta = "modern", !.caps = {}, !.client = None]

LegacyBusiness == (ListMethods \cup {"tools/call", "resources/read", "prompts/get"})

\* handleLegacyBusiness: as a modern request of a client without an identity.
LegacyAnswers(r) == Handle(AsModern(r), None)

Handshake(c, r) == r.method = "initialize" /\ ~c.initialized

LegacyResponses(c, r) ==
  IF r.method = "server/discover" THEN {Error("methodNotFound")}
  ELSE IF Handshake(c, r) \/ (r.method = "notifications/initialized" /\ c.initialized) THEN {Complete}
  ELSE IF r.method = "initialize" \/ ~c.initialized THEN {Error("invalidRequest")}
  ELSE IF r.method \in LegacyBusiness THEN LegacyAnswers(r)
  ELSE {Error("methodNotFound")}

\* A request that keeps to the key _meta and, if it calls a tool, to one of this
\* repository.
OwnTools(r) == r.method = "tools/call" => r.names["name"] \in {Echo, ConfirmPreview, DeferredEcho}
Ordinary(r) == ~Misspelled(r) /\ OwnTools(r)

LineResponses(c, r) ==
  IF EraOf(c, r) = "legacy" THEN LegacyResponses(c, r) ELSE ModernResponses(r)

\* The connection after request r has been answered with x; a notification is
\* handled, but its response is not sent.
AfterRequest(c, r, x) ==
  LET era == EraOf(c, r)
      shaken == era = "legacy" /\ Handshake(c, r)
  IN [era         |-> era,
      initialized |-> c.initialized \/ shaken,
      handshakes  |-> c.handshakes + (IF shaken THEN 1 ELSE 0),
      results     |-> c.results \cup
                        (IF r.id /\ x.kind # "error"
                         THEN {[form |-> era, kind |-> x.kind,
                                early |-> era = "legacy" /\ ~c.initialized /\ ~shaken,
                                ordinary |-> Ordinary(r)]}
                         ELSE {})]

\* What has been asked and confirmed, wherever the request came from.  A question
\* of another tool hands out no state of confirm_preview.
RoundTrip(x) ==
  /\ asked' = asked \cup (IF x.kind = "inputRequired" THEN {x.preview} \ {None} ELSE {})
  /\ confirmed' = confirmed \cup (IF x.kind = "complete" /\ x.preview # None THEN {x.preview} ELSE {})

\* A request on the connection is answered with x.
AnswerOnLine(r, x) ==
  /\ r.method # "subscriptions/listen"
  /\ x \in LineResponses(conn, r)
  /\ conn' = AfterRequest(conn, r, x)
  /\ RoundTrip(x)

=============================================================================
