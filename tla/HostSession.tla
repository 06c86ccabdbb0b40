---------------------------- MODULE HostSession ----------------------------
(***************************************************************************)
(* A session of the host with the server: RunDemo over stdio, with the     *)
(* detection of the era of the server (internal/host/demo.go,              *)
(* compatibility.go), and RunHTTPDemo and RunHTTPModelDemo over HTTP       *)
(* (demo.go, model.go), composed with the server's catalogs, dispatch, era *)
(* lifecycle and endpoint.                                                 *)
(*                                                                         *)
(* A process of the server serves one transport.  On stdio its only peer   *)
(* is this host or another client; over HTTP other clients send requests   *)
(* between any two of the host's.  A call of the host waits for its        *)
(* answer, and Handle keeps no state: one call is one step.  The           *)
(* application registers entries at any time.  A "foreign" server is any   *)
(* other program, which answers as it likes.                               *)
(***************************************************************************)
EXTENDS Endpoint, Sequences

CONSTANTS
  OfferLists,    \* supportedVersions of the detection, the preferred version first
  Requests,      \* what another client may send over stdio
  Publishable,   \* the entries that the application registers in each list
  HostName,      \* clientInfo.name of the host
  HostPreview    \* what the host asks to confirm

Versions == {"modern", "newer"}

ASSUME HostAssumption ==
  /\ OfferLists \subseteq Seq(Versions) \ {<<>>}
  /\ \A o \in OfferLists : \E i \in DOMAIN o : o[i] = "modern"
  /\ Requests \subseteq Request /\ Publishable \in [Lists -> SUBSET Entries]
  /\ HostName \in Clients /\ HostPreview \in Previews
  /\ {Echo, ConfirmPreview} \subseteq Defaults["tools"]

VARIABLE host

vars == <<catalogVars, eraVars, endpointVars, host>>

Positions ==
  {"discovering", "retrying", "initializing", "notifying", "listingLegacy", "listing", "deciding",
   "calling", "asking", "confirming", "answering", "left", "done", "failed"}

\* flow "none": another client is at the line.  version: the protocol version of
\* the requests; tool: the decision of the model; required: the requestState to
\* return.  History: excused says that a party other than these two has failed.
Host ==
  [flow : {"stdio", "http", "model", "none"}, server : {"dual", "legacy", "foreign"},
   offers : Seq(Versions) \ {<<>>}, version : Versions, verdict : {"none"} \cup Versions \cup {"legacy"},
   at : Positions, tool : Entries \cup {None}, required : Previews \cup {None},
   excused : BOOLEAN]

NewHost(flow, server, offers) ==
  [flow |-> flow, server |-> server, offers |-> IF flow = "stdio" THEN offers ELSE <<"modern">>,
   version |-> IF flow = "stdio" THEN offers[1] ELSE "modern", verdict |-> "none",
   at |-> IF flow = "none" THEN "left" ELSE "discovering",
   tool |-> None, required |-> None, excused |-> FALSE]

Over == {"left", "done", "failed"}

----------------------------------------------------------------------------
\* The requests of the host, with the metadata of clientRequestMeta.
HostCapabilities == {"form", "tasks"}

HostRequest(method, tool) ==
  [method |-> method, id |-> TRUE, meta |-> host.version, exact |-> TRUE, caps |-> HostCapabilities,
   client |-> HostName, names |-> [m \in Members |-> IF m = "name" THEN tool ELSE None],
   cursor |-> 0, fits |-> TRUE, preview |-> HostPreview, answer |-> "absent", state |-> None]

LegacyRequest(method, id) ==
  [HostRequest(method, None) EXCEPT !.meta = "none", !.caps = {}, !.client = None, !.id = id]

\* A faulty variant, which no specification uses: the state is not returned.
ConfirmWithoutState == [HostRequest("tools/call", ConfirmPreview) EXCEPT !.answer = "accept"]

ConfirmRequest ==
  [HostRequest("tools/call", ConfirmPreview) EXCEPT !.answer = "accept", !.state = host.required]

\* The third reading of the name of an operation, for the header of the request.
RequestName(r) ==
  IF r.method \notin NamedMethods THEN None
  ELSE IF r.method = "resources/read" THEN r.names["uri"]
  ELSE IF r.method \in TaskMethods THEN r.names["taskId"] ELSE r.names["name"]

HostPost(r) ==
  [rpc |-> r, faults |-> {}, hVersion |-> "modern", hMethod |-> r.method,
   hName |-> RequestName(r), token |-> None]

\* The demos send no token, so that a protected endpoint refuses them.
HostAnswers(r) ==
  IF host.flow = "stdio" THEN LineResponses(conn, r)
  ELSE IF protected THEN {Error("transport")}
  ELSE IF ~Dispatchable(HostPost(r)) THEN {Error("headerMismatch")}
  ELSE Handle(r, None)

\* The effects at the server of a call that is answered with x.
HostCall(r, x) ==
  /\ x \in HostAnswers(r)
  /\ conn' = IF host.flow = "stdio" THEN AfterRequest(conn, r, x) ELSE conn
  /\ RoundTrip(x)
  /\ UNCHANGED endpointVars

\* decodeCompleteResult: the next position of a host that needs a complete result.
Onward(x, next) == IF x.kind = "complete" THEN next ELSE "failed"

\* decodeInputRequiredResult, for the one answer that has to be a question.
Asks(x) == x.kind = "inputRequired"

----------------------------------------------------------------------------
\* What a discovery tells the host: a modern result and the versions it lists, a
\* legacy result, or an error, of which two codes matter.
Reply ==
  [kind : {"modern", "legacy", "methodNotFound", "unsupported", "other"},
   advertised : SUBSET Versions]

ReplyOf(x) ==
  [kind |-> IF x.kind = "complete" THEN "modern"
            ELSE IF x.code = "methodNotFound" THEN "methodNotFound"
            ELSE IF x.code = "unsupportedVersion" THEN "unsupported" ELSE "other",
   advertised |-> {"modern"}]

\* advertisedCommonVersion: the first other offer that the server advertises.
Alternatives(reply) ==
  {i \in DOMAIN host.offers : host.offers[i] \in reply.advertised \ {host.version}}

RetryVersion(reply) ==
  host.offers[CHOOSE i \in Alternatives(reply) : \A j \in Alternatives(reply) : i <= j]

\* A faulty variant, which no specification uses: every unsupported version leads
\* to another attempt.
AfterEachDiscovery(reply) ==
  IF reply.kind = "modern" /\ host.version \in reply.advertised
  THEN [host EXCEPT !.at = "listing", !.verdict = host.version]
  ELSE IF reply.kind \in {"legacy", "methodNotFound"}
  THEN [host EXCEPT !.at = "initializing"]
  ELSE IF reply.kind = "unsupported" /\ Alternatives(reply) # {}
  THEN [host EXCEPT !.at = "retrying", !.version = RetryVersion(reply)]
  ELSE [host EXCEPT !.at = "failed"]

\* detectServerEra.  HTTP has no fallback.
AfterDiscovery(reply) ==
  LET first == host.flow = "stdio" /\ host.at = "discovering" IN
  IF reply.kind = "modern" /\ host.version \in reply.advertised
  THEN [host EXCEPT !.at = "listing", !.verdict = host.version]
  ELSE IF first /\ reply.kind \in {"legacy", "methodNotFound"}
  THEN [host EXCEPT !.at = "initializing"]
  ELSE IF first /\ reply.kind = "unsupported" /\ Alternatives(reply) # {}
  THEN [host EXCEPT !.at = "retrying", !.version = RetryVersion(reply)]
  ELSE [host EXCEPT !.at = "failed"]

AtServer == host.server # "foreign"

Discover ==
  LET r == HostRequest("server/discover", None) IN
  /\ AtServer /\ host.at \in {"discovering", "retrying"}
  /\ \E x \in HostAnswers(r) : HostCall(r, x) /\ host' = AfterDiscovery(ReplyOf(x))
  /\ UNCHANGED catalogVars

\* Once its era is known, the session with a foreign server is not followed.
ForeignDiscovery ==
  /\ ~AtServer /\ host.at \in {"discovering", "retrying"}
  /\ \E reply \in Reply :
       host' = [AfterDiscovery(reply) EXCEPT !.excused = TRUE, !.at = IF @ = "listing" THEN "left" ELSE @]
  /\ UNCHANGED <<catalogVars, eraVars, endpointVars>>

ForeignInitialize ==
  /\ ~AtServer /\ host.at = "initializing"
  /\ \/ host' = [host EXCEPT !.at = "left", !.verdict = "legacy"]
     \/ host' = [host EXCEPT !.at = "failed"]
  /\ UNCHANGED <<catalogVars, eraVars, endpointVars>>

Initialize ==
  LET r == LegacyRequest("initialize", TRUE) IN
  /\ AtServer /\ host.at = "initializing"
  /\ \E x \in HostAnswers(r) : HostCall(r, x) /\ host' = [host EXCEPT !.at = Onward(x, "notifying")]
  /\ UNCHANGED catalogVars

\* A notification has no answer.
Notify ==
  LET r == LegacyRequest("notifications/initialized", FALSE) IN
  /\ host.at = "notifying"
  /\ \E x \in HostAnswers(r) : HostCall(r, x)
  /\ host' = [host EXCEPT !.at = "listingLegacy", !.verdict = "legacy"]
  /\ UNCHANGED catalogVars

\* One page is enough for a host of the legacy era.
ListLegacy ==
  LET r == LegacyRequest("tools/list", TRUE) IN
  /\ host.at = "listingLegacy"
  /\ \E x \in HostAnswers(r) : HostCall(r, x) /\ host' = [host EXCEPT !.at = Onward(x, "done")]
  /\ UNCHANGED catalogVars

\* listAllTools, page by page.
ListTools ==
  LET r == [HostRequest("tools/list", None) EXCEPT !.cursor = listing.offset] IN
  /\ host.at = "listing"
  /\ ListPage
  /\ \E x \in HostAnswers(r) :
       /\ HostCall(r, x)
       /\ host' = [host EXCEPT !.at = IF listing'.at = "failed" THEN "failed"
                                      ELSE Onward(x, IF listing'.at = "listed" THEN "deciding" ELSE "listing")]

----------------------------------------------------------------------------
\* The fake model of the demo takes echo.  A real one takes any tool of the
\* listing, or fails the host: no answer, a malformed one, a tool that is not listed.
Decisions == IF host.flow = "model" THEN listing.listed ELSE listing.listed \cap {Echo}

ModelFailed == [host EXCEPT !.at = "failed", !.excused = TRUE]

Decide ==
  /\ host.at = "deciding"
  /\ \E tool \in Decisions : host' = [host EXCEPT !.at = "calling", !.tool = tool]
  /\ UNCHANGED <<catalogVars, eraVars, endpointVars>>

NoDecision ==
  /\ host.at = "deciding"
  /\ host.flow # "model" => Decisions = {}
  /\ host' = IF host.flow = "model" THEN ModelFailed ELSE [host EXCEPT !.at = "failed"]
  /\ UNCHANGED <<catalogVars, eraVars, endpointVars>>

\* The model has error answers for its own; an answer that is neither final nor
\* an error ends the session.  Its arguments may not fit the schema.
AfterModelCall(x) ==
  IF x.kind \in {"inputRequired", "task"} THEN ModelFailed
  ELSE [host EXCEPT !.at = IF x.code = "transport" THEN "failed" ELSE "answering"]

CallTool ==
  /\ host.at = "calling"
  /\ \E fits \in IF host.flow = "model" THEN BOOLEAN ELSE {TRUE} :
       LET r == [HostRequest("tools/call", host.tool) EXCEPT !.fits = fits] IN
       \E x \in HostAnswers(r) :
         /\ HostCall(r, x)
         /\ host' = IF host.flow = "model" THEN AfterModelCall(x)
                    ELSE [host EXCEPT !.at = Onward(x, "asking")]
  /\ UNCHANGED catalogVars

FinalTurn ==
  /\ host.at = "answering"
  /\ \/ host' = [host EXCEPT !.at = "done"]
     \/ host' = ModelFailed
  /\ UNCHANGED <<catalogVars, eraVars, endpointVars>>

AskToConfirm ==
  LET r == HostRequest("tools/call", ConfirmPreview) IN
  /\ host.at = "asking"
  /\ \E x \in HostAnswers(r) :
       /\ HostCall(r, x)
       /\ host' = IF Asks(x)
                  THEN [host EXCEPT !.at = "confirming", !.required = x.preview]
                  ELSE [host EXCEPT !.at = "failed"]
  /\ UNCHANGED catalogVars

Confirm ==
  /\ host.at = "confirming"
  /\ \E x \in HostAnswers(ConfirmRequest) :
       HostCall(ConfirmRequest, x) /\ host' = [host EXCEPT !.at = Onward(x, "done")]
  /\ UNCHANGED catalogVars

\* The context ends, the process dies or the transport breaks.
TransportFails ==
  /\ host.at \notin Over
  /\ host' = [host EXCEPT !.at = "failed", !.excused = TRUE]
  /\ UNCHANGED <<catalogVars, eraVars, endpointVars>>

HostStep ==
  \/ Discover \/ ForeignDiscovery \/ Initialize \/ ForeignInitialize \/ Notify \/ ListLegacy
  \/ ListTools \/ Decide \/ NoDecision \/ CallTool \/ FinalTurn \/ AskToConfirm \/ Confirm

----------------------------------------------------------------------------
Init ==
  /\ CatalogInit
  /\ EndpointInit
  /\ asked = {} /\ confirmed = {}
  /\ \E flow \in {"stdio", "http", "model", "none"}, server \in {"dual", "legacy", "foreign"},
        offers \in OfferLists :
       /\ flow \in {"http", "model"} => server = "dual"
       /\ flow = "none" => server # "foreign"
       /\ flow \in {"stdio", "none"} => ~protected
       /\ host = NewHost(flow, server, offers)
       /\ conn = NewConnection(IF server = "legacy" THEN "legacy" ELSE "unknown")

OtherOnLine ==
  /\ host.flow = "none"
  /\ \E r \in Requests : HonestState(r) /\ \E x \in LineResponses(conn, r) : AnswerOnLine(r, x)
  /\ UNCHANGED <<catalogVars, endpointVars, host>>

OtherOverHTTP ==
  /\ host.flow \in {"http", "model"}
  /\ EndpointStep
  /\ UNCHANGED <<catalogVars, conn, host>>

Publish ==
  /\ \E k \in Lists : \E e \in Publishable[k] : Register(k, e)
  /\ UNCHANGED <<eraVars, endpointVars, host>>

Next == HostStep \/ TransportFails \/ OtherOnLine \/ OtherOverHTTP \/ Publish

Spec == Init /\ [][Next]_vars

\* The host takes its next step: its calls are answered (modules StdioConnection
\* and RequestStream) and so are the model and the foreign server, or the
\* context of the session ends.
FairSpec == Spec /\ WF_vars(HostStep)

----------------------------------------------------------------------------
TypeOK ==
  /\ CatalogTypeOK
  /\ conn \in Connection /\ asked \in SUBSET Previews /\ confirmed \in SUBSET Previews
  /\ protected \in BOOLEAN /\ valid \in SUBSET Tokens
  /\ post \in Posts \cup {None} /\ ran \in Operation \cup {None}
  /\ host \in Host

\* The two ends of a stdio connection agree: what the host takes the server for,
\* the connection has become, by one handshake if it is legacy; and a connection
\* has only one era, whatever is sent, and no legacy result before the handshake.
ErasAgree ==
  /\ AtServer /\ host.flow = "stdio" =>
       /\ host.verdict \in Versions => conn.era = "modern"
       /\ host.verdict = "legacy" => conn.era = "legacy" /\ conn.initialized
  /\ conn.handshakes <= 1
  /\ \A a, b \in conn.results : a.form = b.form /\ ~a.early

\* A legacy result has lost its result type, and a legacy client takes it for
\* final: no question and no task is sent in that form by the tools of this
\* repository, whatever capabilities the client claims under _meta.  It is not so
\* for capabilities under another spelling of that key, which legacy.go:206 leaves
\* in place, nor for another tool, whose result type nobody checks (server.go:267).
LegacyResultsAreFinal ==
  \A x \in conn.results : x.form = "legacy" /\ x.ordinary => x.kind = "complete"

\* What runs behind the resource server had the scopes demanded of what was run,
\* with a token for this resource, for the principal of that token, although the
\* two parties read the request independently.
RanAsAuthorised ==
  protected /\ ran # None =>
    /\ RequiredScopes(ran.method, ran.name) \subseteq TokenScopes[ran.token]
    /\ TokenForUs[ran.token]
    /\ ran.owner = TokenSubject[ran.token]

\* Nothing is reported as confirmed that the server has not asked to confirm.
ConfirmedAsAsked == confirmed \subseteq asked

\* A session with this server fails only through another party, whatever is
\* registered and requested meanwhile, or because a model has taken a tool that
\* asks for input or creates a task; a demo that succeeds with a modern server has
\* its preview confirmed.
SessionsSucceed ==
  /\ host.at = "failed" => host.excused \/ protected
  /\ host.at = "done" /\ host.flow # "model" /\ host.verdict # "legacy" => HostPreview \in confirmed

\* Every session comes to an end.
SessionsEnd == <>(host.at \in Over)

=============================================================================
