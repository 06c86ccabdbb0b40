------------------------------- MODULE OAuth -------------------------------
(***************************************************************************)
(* An OAuth host (internal/host/oauth.go) whose concurrent calls share one *)
(* token store, and the resource server (internal/mcpserver/oauth.go) that *)
(* answers them.                                                           *)
(*                                                                         *)
(* OAuthHost.Do sends its request up to three times; after a 401 or a 403  *)
(* it looks for a stored token that covers the scopes it knows of, or runs *)
(* an authorization: find or register a client, save the flow, open the    *)
(* browser, check the callback, exchange the code, save the token.  The    *)
(* store is keyed by issuer and resource; one host has one resource, which *)
(* names one authorization server, so one key is modelled.  The state and  *)
(* the token of a flow are the pair of its call and attempt, for they are  *)
(* drawn at random.                                                        *)
(***************************************************************************)
EXTENDS Integers, FiniteSets

CONSTANTS
  Calls,                     \* the calls of OAuthHost.Do
  Scopes,
  Asked,                     \* the scopes each caller asks for
  Required,                  \* the scopes the server's policy demands of each request
  Issuers,                   \* who may sign a callback
  Issuer,                    \* the authorization server of the resource
  IssuerParameterSupported,  \* does it announce that it names itself in callbacks?
  Lifetimes,                 \* the expires_in it may choose
  FlowLifetime,              \* for how long a pending flow is accepted
  MaxTime,                   \* bound of the clock
  None

MaxAttempts == 3
Attempts == 0..MaxAttempts - 1
Flows == Calls \X Attempts
Times == 0..MaxTime
Expiries == Nat

\* A token, as the host stores it and as the validator knows it; id is the flow
\* it was issued for.
HostToken == [id : Flows, scopes : SUBSET Scopes, expires : Expiries]
Claims == [scopes : SUBSET Scopes, expires : Expiries, lifetime : Lifetimes, active : BOOLEAN]

ASSUME OAuthAssumption ==
  /\ Asked \in [Calls -> SUBSET Scopes] /\ Required \in [Calls -> SUBSET Scopes]
  /\ Issuer \in Issuers /\ None \notin Issuers /\ None \notin Flows /\ None \notin Calls
  /\ None \notin Nat /\ None \notin Claims /\ None \notin HostToken
  /\ IssuerParameterSupported \in BOOLEAN
  /\ Lifetimes \subseteq Nat \ {0} /\ FlowLifetime \in Nat \ {0} /\ MaxTime \in Nat

VARIABLES
  now,        \* the clock of host and servers
  at,         \* where each call is
  attempt,    \* the loop variable of Do
  wanted,     \* the scopes it has come to know of
  bearer,     \* the token of its next request: a flow or None
  clientID,   \* the client ID of its authorization
  pending,    \* MemoryOAuthStore.flows: when the flow of a call expires, or None
  token,      \* MemoryOAuthStore.tokens
  client,     \* MemoryOAuthStore.clients
  code,       \* the client that the code in a call's hands was issued to
  issued,     \* what the validator knows of the token of each flow
  redeemed,   \* history: the codes that were sent to the token endpoint
  spoiled     \* history: the calls that met a failure which is not the host's

callVars == <<at, attempt, wanted, bearer, clientID, code>>
storeVars == <<pending, token, client>>
vars == <<now, callVars, storeVars, issued, redeemed, spoiled>>

Points == {"sending", "discovering", "resolving", "enrolling", "browsing", "exchanging",
           "receiving", "served", "failed"}

Callbacks == [state : Flows, issuer : Issuers \cup {None}, own : BOOLEAN]

Init ==
  /\ now = 0 /\ at = [c \in Calls |-> "sending"] /\ attempt = [c \in Calls |-> 0]
  /\ wanted = Asked /\ bearer = [c \in Calls |-> None]
  /\ clientID = [c \in Calls |-> None] /\ code = [c \in Calls |-> None]
  /\ pending = [c \in Calls |-> None] /\ token = None /\ client = None
  /\ issued = [f \in Flows |-> None] /\ redeemed = {}
  /\ spoiled = {}

\* Faulty variants, which no specification uses: a host that sends twice or four times, that
\* does not count an attempt with a stored token, that keeps the flow of an
\* authorization that failed, that takes the client ID from the store when it
\* exchanges the code, or any token from the store, whatever its scopes.
LastOfTwo(c) == attempt[c] = 1
LastOfFour(c) == attempt[c] = 3
CountPrompts(c, stored) == IF stored THEN attempt[c] ELSE attempt[c] + 1
KeepFlow(c) == pending
StoredClient(c) == client
AnyScopes(c) == IF token = None THEN FALSE ELSE token.expires > now

----------------------------------------------------------------------------
Flow(c) == <<c, attempt[c]>>
Goto(c, point) == at' = [at EXCEPT ![c] = point]
Spoil(c, bad) == spoiled' = IF bad THEN spoiled \cup {c} ELSE spoiled

\* Do returns an error for a reason outside the host; authorize's deferred
\* takeFlow removes the flow whatever happens.
Drop(c) == [pending EXCEPT ![c] = None]
Fail(c) ==
  /\ Goto(c, "failed") /\ pending' = Drop(c)
  /\ Spoil(c, TRUE)

----------------------------------------------------------------------------
\* The resource server.  Unauthorized stands for every 401: no bearer token, or
\* one that is unknown, inactive or expired.
ValidClaims(t) == issued[t] # None /\ issued[t].active /\ issued[t].expires > now

Unauthorized(c) == IF bearer[c] = None THEN TRUE ELSE ~ValidClaims(bearer[c])
Forbidden(c) == ~Unauthorized(c) /\ ~(Required[c] \subseteq issued[bearer[c]].scopes)
Challenged(c) == IF Forbidden(c) THEN Required[c] ELSE {}

----------------------------------------------------------------------------
\* OAuthHost.Do
Last(c) == attempt[c] = MaxAttempts - 1
NextAttempt(c, stored) == attempt[c] + 1

Served(c) ==
  /\ at[c] = "sending" /\ ~Unauthorized(c) /\ ~Forbidden(c)
  /\ Goto(c, "served")
  /\ UNCHANGED <<now, attempt, wanted, bearer, clientID, code, storeVars, issued, redeemed, spoiled>>

\* A 401 or a 403: give up after the last attempt, or authorize with the scopes
\* asked for and challenged.  A token that was issued and is refused spoils the call.
Refused(c) ==
  /\ at[c] = "sending" /\ (Unauthorized(c) \/ Forbidden(c))
  /\ IF Last(c) THEN Goto(c, "failed") /\ UNCHANGED wanted
                ELSE Goto(c, "discovering") /\ wanted' = [wanted EXCEPT ![c] = @ \cup Challenged(c)]
  /\ Spoil(c, Unauthorized(c) /\ bearer[c] # None)
  /\ UNCHANGED <<now, attempt, bearer, clientID, code, storeVars, issued, redeemed>>

\* A request or one of its answers is lost, metadata are missing or do not fit,
\* no client can be registered, the browser fails, the token endpoint refuses.
StepFails(c) ==
  /\ at[c] \in Points \ {"served", "failed"}
  /\ Fail(c)
  /\ UNCHANGED <<now, attempt, wanted, bearer, clientID, code, token, client, issued, redeemed>>

\* OAuthHost.authorize: a stored token that has not expired and covers the scopes ...
Usable(c) == IF token = None THEN FALSE ELSE token.expires > now /\ wanted[c] \subseteq token.scopes

UseStoredToken(c) ==
  /\ at[c] = "discovering" /\ Usable(c)
  /\ Goto(c, "sending") /\ bearer' = [bearer EXCEPT ![c] = token.id]
  /\ attempt' = [attempt EXCEPT ![c] = NextAttempt(c, TRUE)]
  /\ UNCHANGED <<now, wanted, clientID, code, storeVars, issued, redeemed, spoiled>>

\* ... or a flow of its own ...
StartFlow(c) ==
  /\ at[c] = "discovering" /\ ~Usable(c)
  /\ Goto(c, "resolving")
  /\ UNCHANGED <<now, attempt, wanted, bearer, clientID, code, storeVars, issued, redeemed, spoiled>>

\* ... for a client ...
OpenBrowser(c, id) ==
  /\ Goto(c, "browsing") /\ clientID' = [clientID EXCEPT ![c] = id]
  /\ pending' = [pending EXCEPT ![c] = now + FlowLifetime]
  /\ UNCHANGED <<now, attempt, wanted, bearer, token, code, issued, redeemed, spoiled>>

\* ... that the store knows ...
FindClient(c) ==
  /\ at[c] = "resolving"
  /\ IF client # None
       THEN OpenBrowser(c, client) /\ UNCHANGED client
       ELSE Goto(c, "enrolling")
            /\ UNCHANGED <<now, attempt, wanted, bearer, clientID, code, storeVars, issued, redeemed, spoiled>>

\* ... or that is configured, described by a document, or registered now.  Two
\* calls may register at once: each goes on with its own ID, the store keeps the last.
Enroll(c) ==
  /\ at[c] = "enrolling"
  /\ client' = c
  /\ OpenBrowser(c, c)

\* The browser comes back.  A callback may belong to another flow, name another
\* issuer or none, or carry a code that is not this flow's.
Acceptable(c, cb) ==
  /\ pending[c] > now /\ cb.state = Flow(c)
  /\ (cb.issuer = None => ~IssuerParameterSupported)
  /\ (cb.issuer # None => cb.issuer = Issuer)

Honest(c, cb) ==
  /\ cb.state = Flow(c) /\ cb.own
  /\ cb.issuer = IF IssuerParameterSupported THEN Issuer ELSE None

Callback(c, cb) ==
  /\ at[c] = "browsing" /\ Acceptable(c, cb)
  /\ Goto(c, "exchanging") /\ pending' = Drop(c)
  /\ code' = [code EXCEPT ![c] = IF cb.own THEN clientID[c] ELSE None]
  /\ redeemed' = redeemed \cup {[flow |-> Flow(c), state |-> cb.state, issuer |-> cb.issuer]}
  /\ Spoil(c, ~Honest(c, cb))
  /\ UNCHANGED <<now, attempt, wanted, bearer, clientID, token, client, issued>>

CallbackRejected(c, cb) ==
  /\ at[c] = "browsing" /\ ~Acceptable(c, cb)
  /\ Fail(c)
  /\ UNCHANGED <<now, attempt, wanted, bearer, clientID, code, token, client, issued, redeemed>>

\* The token endpoint checks that the code was issued to the client that redeems
\* it and for the flow whose verifier is shown; it may grant less than was asked.
FormClient(c) == clientID[c]

Grant(c, granted, lifetime) ==
  /\ at[c] = "exchanging" /\ code[c] # None /\ code[c] = FormClient(c)
  /\ Goto(c, "receiving")
  /\ issued' = [issued EXCEPT ![Flow(c)] = 
                 [scopes |-> granted, expires |-> now + lifetime, lifetime |-> lifetime, active |-> TRUE]]
  /\ Spoil(c, granted # wanted[c])
  /\ UNCHANGED <<now, attempt, wanted, bearer, clientID, code, storeVars, redeemed>>

Deny(c) ==
  /\ at[c] = "exchanging" /\ code[c] # FormClient(c)
  /\ Goto(c, "failed")
  /\ UNCHANGED <<now, attempt, wanted, bearer, clientID, code, storeVars, issued, redeemed, spoiled>>

\* The host counts the lifetime from the moment it has the answer.
Receive(c) ==
  /\ at[c] = "receiving"
  /\ token' = [id |-> Flow(c), scopes |-> issued[Flow(c)].scopes,
               expires |-> now + issued[Flow(c)].lifetime]
  /\ Goto(c, "sending") /\ bearer' = [bearer EXCEPT ![c] = Flow(c)]
  /\ attempt' = [attempt EXCEPT ![c] = NextAttempt(c, FALSE)]
  /\ UNCHANGED <<now, wanted, clientID, code, pending, client, issued, redeemed, spoiled>>

----------------------------------------------------------------------------
\* Time passes, and the authorization server may revoke a token.
Tick ==
  /\ now < MaxTime /\ now' = now + 1
  /\ UNCHANGED <<callVars, storeVars, issued, redeemed, spoiled>>

Revoke(f) ==
  /\ issued[f] # None /\ issued[f].active
  /\ issued' = [issued EXCEPT ![f].active = FALSE]
  /\ UNCHANGED <<now, callVars, storeVars, redeemed, spoiled>>

Step(c) ==
  \/ Served(c) \/ Refused(c) \/ UseStoredToken(c) \/ StartFlow(c) \/ FindClient(c)
  \/ Enroll(c) \/ Deny(c) \/ Receive(c) \/ StepFails(c)
  \/ \E cb \in Callbacks : Callback(c, cb) \/ CallbackRejected(c, cb)
  \/ \E granted \in SUBSET wanted[c], lifetime \in Lifetimes : Grant(c, granted, lifetime)

Next == Tick \/ (\E c \in Calls : Step(c)) \/ (\E f \in Flows : Revoke(f))

Spec == Init /\ [][Next]_vars

\* Every step of a call is a computation of the host or a request or a browser
\* that comes back, be it with an error: OpenAuthorization blocks as long as the
\* user does, and Do has no other timeout than its context.
CallRuns(c) == WF_vars(Step(c))

FairSpec == Spec /\ \A c \in Calls : CallRuns(c)

----------------------------------------------------------------------------
TypeOK ==
  /\ now \in Times
  /\ at \in [Calls -> Points] /\ attempt \in [Calls -> Attempts]
  /\ wanted \in [Calls -> SUBSET Scopes] /\ bearer \in [Calls -> Flows \cup {None}]
  /\ clientID \in [Calls -> Calls \cup {None}] /\ code \in [Calls -> Calls \cup {None}]
  /\ pending \in [Calls -> Expiries \cup {None}]
  /\ token \in HostToken \cup {None} /\ client \in Calls \cup {None}
  /\ issued \in [Flows -> Claims \cup {None}]
  /\ redeemed \subseteq [flow : Flows, state : Flows, issuer : Issuers \cup {None}]
  /\ spoiled \subseteq Calls

\* Three attempts are enough: a call fails only if something outside the host
\* failed it - a request, the browser, a callback that does not fit, a grant that
\* is narrower than asked, a token that was revoked or expired before its use.
\* Whatever the other calls put into the store meanwhile, be it a token with
\* other scopes or another client ID, a call without such bad luck is served.
FailuresHaveACause == \A c \in Calls : at[c] = "failed" => c \in spoiled

\* What AuthorizedCalls speaks of, in terms of the loop and the tokens issued.
PhaseAt(point) ==
  CASE point = "sending" -> "requesting"
    [] point \in {"served", "failed"} -> point
    [] OTHER -> "authorizing"

Phases == [c \in Calls |-> PhaseAt(at[c])]
HeldScopes == [c \in Calls |-> IF bearer[c] = None THEN {} ELSE issued[bearer[c]].scopes]

Promise == INSTANCE AuthorizedCalls WITH
  MaxReplays <- MaxAttempts - 1,
  phase <- Phases, replays <- attempt, known <- wanted, held <- HeldScopes, excused <- spoiled

\* However many calls share the store, each is as good as alone: its replays bear
\* tokens for all it knows of, whether they come from the store or were just granted,
\* it is served only with what the server demands, and it does not fail without an
\* excuse of its own (the contract of OAuthHost.Do with each caller).
ImplementsCalls == Promise!Spec

\* A code goes to the token endpoint only out of a callback with the state of the
\* very flow that waits and, if it names an issuer or has to, with its issuer.
CodesStayInTheirFlow ==
  \A r \in redeemed :
    /\ r.state = r.flow
    /\ r.issuer = Issuer \/ (r.issuer = None /\ ~IssuerParameterSupported)

\* The store keeps a flow only while its browser is open, on every error path.
NoFlowLeft == \A c \in Calls : pending[c] # None => at[c] = "browsing"

\* Both: a flow is answered by its own callback only, and is then forgotten.
FlowsAreSound == CodesStayInTheirFlow /\ NoFlowLeft

\* A call that has not ended can go on, if only to fail (StepFails): nothing that
\* the other calls or the servers do takes its next step from it.
CanGoOn(c) == ENABLED <<Step(c)>>_vars

NoCallStuck == \A c \in Calls : at[c] \notin {"served", "failed"} => CanGoOn(c)

\* Every call ends, even if a stored token is refused again and again: the store
\* does not forget a token that the server has refused.
CallsEnd == \A c \in Calls : <>(at[c] \in {"served", "failed"})


\* What the comment of Do says: at most one authorization or scope-upgrade replay.
\* The k-th attempt is the k-th replay of the request.  The code does not keep to
\* it: an authorization can be followed by a scope upgrade.
AtMostOneReplay == \A c \in Calls : attempt[c] <= 1

=============================================================================
