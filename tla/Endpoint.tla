------------------------------ MODULE Endpoint ------------------------------
(***************************************************************************)
(* The HTTP endpoint (internal/mcpserver/http.go serveHTTP), alone or      *)
(* behind the OAuth resource server (internal/mcpserver/oauth.go           *)
(* serveProtected).                                                        *)
(*                                                                         *)
(* A protected request passes through two parties that read it             *)
(* independently.  The resource server checks the token, reads method and  *)
(* name from the body and demands the scopes the policy has for them; the  *)
(* endpoint then validates transport headers, body and MCP headers and     *)
(* hands the request to Server.Handle, which decodes the name once more.   *)
(* Tokens expire or are revoked at any time, between the two steps too.    *)
(***************************************************************************)
EXTENDS EraLifecycle

CONSTANTS
  Scopes,
  Tokens,         \* the bearer tokens that exist
  TokenScopes,    \* the scopes of each
  TokenSubject,   \* issuer and subject of each: the principal of its requests
  TokenForUs,     \* is its issuer trusted and its audience this resource?
  Policy,         \* MethodScopes: <<method, name>>, or <<method, None>> for any name
  Posts           \* the requests clients send

\* Every way in which a request can be refused before its content counts.
Faults == {"verb", "origin", "contentType", "accept", "trailing", "broken", "oversized",
           "envelope", "mistyped"}

Post ==
  [rpc : Request, faults : SUBSET Faults, hVersion : {"none", "modern", "newer"},
   hMethod : Methods \cup {None}, hName : Entries \cup {None}, token : Tokens \cup {None}]

NamedMethods == TaskMethods \cup {"tools/call", "resources/read", "prompts/get"}

ASSUME EndpointAssumption ==
  /\ TokenScopes \in [Tokens -> SUBSET Scopes] /\ TokenSubject \in [Tokens -> Clients]
  /\ TokenForUs \in [Tokens -> BOOLEAN] /\ None \notin Tokens /\ None \notin Methods
  /\ DOMAIN Policy \subseteq (NamedMethods \X Entries) \cup (Methods \X {None})
  /\ \A k \in DOMAIN Policy : Policy[k] \subseteq Scopes
  /\ Posts \subseteq Post

VARIABLES
  protected,  \* is the endpoint behind the resource server?
  valid,      \* the tokens that are active and have not expired
  post,       \* the request in progress, or None
  ran         \* history: what has last run behind the resource server, until the next
              \* request: the method, the name it acted on, its token and its principal

endpointVars == <<protected, valid, post, ran>>

Operation == [method : Methods, name : Entries \cup {None}, token : Tokens, owner : Clients]

----------------------------------------------------------------------------
MemberNaming(m) ==
  IF m = "resources/read" THEN "uri" ELSE IF m \in TaskMethods THEN "taskId" ELSE "name"

\* A faulty variant, which no specification uses: every name is taken from the
\* same member.
OperationByName(p) ==
  IF p.faults \cap {"trailing", "broken"} # {} THEN <<None, None>>
  ELSE <<p.rpc.method, p.rpc.names["name"]>>

\* The operation as the resource server reads it: a body that is not one JSON
\* value has none, and a member of another type than string reads as absent.
ProtectedOperation(p) ==
  IF p.faults \cap {"trailing", "broken"} # {} THEN <<None, None>>
  ELSE <<p.rpc.method, IF "mistyped" \in p.faults THEN None ELSE p.rpc.names[MemberNaming(p.rpc.method)]>>

\* The name in the header as the endpoint demands it.
HeaderName(r) ==
  IF r.method \in NamedMethods THEN r.names[MemberNaming(r.method)] ELSE None

\* The scopes for an operation: those of the name, else those of the method.
RequiredScopes(m, n) ==
  IF <<m, n>> \in DOMAIN Policy THEN Policy[<<m, n>>]
  ELSE IF <<m, None>> \in DOMAIN Policy THEN Policy[<<m, None>>] ELSE {}

\* The token is presented once, in the header; its claims bind it to this resource.
ValidClaims(p) == p.token \in valid /\ TokenForUs[p.token]

Authorised(p) ==
  /\ "oversized" \notin p.faults
  /\ LET operation == ProtectedOperation(p)
     IN RequiredScopes(operation[1], operation[2]) \subseteq TokenScopes[p.token]

\* The transport headers and the body, then the MCP headers against the body.
WellFormed(p) == p.faults \subseteq {"oversized"}

HeadersMatch(p) ==
  /\ p.hVersion = "modern" /\ p.rpc.meta \in {"modern", "invalid"}
  /\ p.hMethod = p.rpc.method
  /\ p.rpc.method \in NamedMethods => p.hName # None /\ p.hName = HeaderName(p.rpc)

Dispatchable(p) ==
  /\ WellFormed(p) /\ HeadersMatch(p)
  /\ p.rpc.method = "subscriptions/listen" => p.rpc.id

\* The name that Handle acts on.
ActsOn(r) ==
  IF r.method = "resources/read" THEN r.names["uri"]
  ELSE IF r.method \in TaskMethods THEN r.names["taskId"]
  ELSE IF r.method \in {"tools/call", "prompts/get"} THEN r.names["name"] ELSE None

----------------------------------------------------------------------------
EndpointInit == protected \in BOOLEAN /\ valid = Tokens /\ post = None /\ ran = None

\* A client that has a state has it from the server.
HonestState(r) == r.state # None => r.state \in asked

\* A request arrives; one without a good token is refused at a protected endpoint.
Receive(p) ==
  /\ post = None /\ HonestState(p.rpc)
  /\ protected => ValidClaims(p)
  /\ post' = p
  /\ ran' = None
  /\ UNCHANGED <<protected, valid, asked, confirmed>>

\* The request is refused: missing scopes, or one of the checks of the endpoint.
Refuse ==
  /\ post # None
  /\ (protected /\ ~Authorised(post)) \/ ~Dispatchable(post)
  /\ post' = None
  /\ UNCHANGED <<protected, valid, ran, asked, confirmed>>

\* What the stream of a subscription answers is the subject of module
\* Subscriptions; every other request is given to Handle, those that are answered
\* by a stream (module RequestStream) included.
Served(r, principal) ==
  IF r.method = "subscriptions/listen" THEN {Complete, Error("invalidParams")} ELSE Handle(r, principal)

\* The request is dispatched and answered.
Run ==
  LET principal == IF protected THEN TokenSubject[post.token] ELSE None IN
  /\ post # None
  /\ protected => Authorised(post)
  /\ Dispatchable(post)
  /\ \E x \in Served(post.rpc, principal) : RoundTrip(x)
  /\ ran' = IF protected
            THEN [method |-> post.rpc.method, name |-> ActsOn(post.rpc), token |-> post.token,
                  owner |-> TaskOwner(post.rpc, principal)]
            ELSE None
  /\ post' = None
  /\ UNCHANGED <<protected, valid>>

Invalidate(t) ==
  /\ protected /\ t \in valid
  /\ valid' = valid \ {t}
  /\ UNCHANGED <<protected, post, ran, asked, confirmed>>

EndpointStep ==
  \/ \E p \in Posts : Receive(p)
  \/ Refuse
  \/ Run
  \/ \E t \in Tokens : Invalidate(t)

=============================================================================
