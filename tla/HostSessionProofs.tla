------------------------- MODULE HostSessionProofs -------------------------
(***************************************************************************)
(* Proofs about HostSession.                                               *)
(*                                                                         *)
(* What a response can be is settled first, request by request; the other  *)
(* parties (connection, endpoint) then keep their own invariants whatever  *)
(* is sent, and the host is followed position by position: at each of them *)
(* the server's next answer is the one the host needs.                     *)
(***************************************************************************)
EXTENDS HostSession, CatalogProofs

\* An initialized connection is legacy, by one handshake; results have its form.
ConnInv ==
  /\ conn.handshakes = IF conn.initialized THEN 1 ELSE 0
  /\ conn.initialized => conn.era = "legacy"
  /\ \A a \in conn.results : a.form = conn.era /\ ~a.early
  /\ LegacyResultsAreFinal

\* The request in progress has been received with a good token and an honest state.
EndpointInv ==
  /\ post # None => HonestState(post.rpc)
  /\ protected /\ post # None => post.token \in Tokens /\ TokenForUs[post.token]
  /\ RanAsAuthorised

Safe ==
  /\ TypeOK /\ ConnInv /\ EndpointInv /\ ConfirmedAsAsked
  /\ host.required # None => host.required \in asked

----------------------------------------------------------------------------
\* What is said of every response to a request: its type, and what it may carry.
Sound(r, x) ==
  /\ x \in Response
  /\ x.kind = "complete" /\ x.preview # None => x.preview = r.state
  /\ x.kind = "inputRequired" => x.preview \in Previews \cup {None}
  /\ r.caps = {} /\ OwnTools(r) => x.kind \in {"complete", "error"}
  /\ x.code # "transport"

LEMMA SoundErrors ==
  ASSUME NEW r \in Request,
         NEW c \in {"none", "invalidParams", "invalidRequest", "methodNotFound", "unsupportedVersion",
                    "missingCapability", "missingTaskCapability", "internalError", "headerMismatch"}
  PROVE  Sound(r, Error(c))
BY DEF Sound, Error, Response

LEMMA SoundComplete == ASSUME NEW r \in Request PROVE Sound(r, Complete)
BY DEF Sound, Complete, Response

LEMMA SoundConfirmation == ASSUME NEW r \in Request PROVE Sound(r, Confirmation(r))
<1>1. r.preview \in Previews /\ r.preview # None /\ r.caps \in SUBSET {"form", "tasks"}
  BY DispatchAssumption DEF Request
<1>2. "form" \in r.caps => Sound(r, InputRequired(r.preview))
  BY <1>1 DEF Sound, InputRequired, Response
<1>3. r.state = r.preview => Sound(r, Confirmed(r.preview))
  BY <1>1 DEF Sound, Confirmed, Response
<1>4. QED
  BY <1>2, <1>3, SoundErrors, SoundComplete DEF Confirmation, FormCapable

LEMMA SoundTool ==
  ASSUME NEW r \in Request, r.method = "tools/call", NEW p, NEW x \in ToolResponses(r, p)
  PROVE  Sound(r, x)
<1>1. "tasks" \in r.caps => Sound(r, TaskCreated)
  BY DEF Sound, TaskCreated, Response
<1>2. ASSUME x \in DeferredTask(r, p) PROVE Sound(r, x)
  BY <1>1, <1>2, SoundErrors DEF DeferredTask, TaskCapable
<1>3. r.method = "tools/call" /\ r.names["name"] \notin {Echo, ConfirmPreview, DeferredEcho}
        => Sound(r, InputRequired(None)) /\ Sound(r, TaskCreated)
  BY DEF Sound, InputRequired, TaskCreated, Response, OwnTools
<1>4. CASE r.names["name"] \in {Echo, ConfirmPreview, DeferredEcho}
  BY <1>2, <1>4, SoundErrors, SoundComplete, SoundConfirmation DEF ToolResponses
<1>5. CASE r.names["name"] \notin {Echo, ConfirmPreview, DeferredEcho}
  BY <1>3, <1>5, SoundErrors, SoundComplete DEF ToolResponses
<1>6. QED
  BY <1>4, <1>5

\* Handle confirms what the state says, and asks only clients that can answer,
\* unless the application has registered a tool that does otherwise.
LEMMA SoundHandle ==
  ASSUME NEW r \in Request, NEW p, NEW x \in Handle(r, p)
  PROVE  Sound(r, x)
<1>1. x \in ListResponses(r) \cup ReadResponses(r) \cup PromptResponses(r) \cup TaskResponses(r)
        => Sound(r, x)
  BY SoundErrors, SoundComplete DEF ListResponses, ReadResponses, PromptResponses, TaskResponses
<1>2. QED
  BY <1>1, SoundErrors, SoundComplete, SoundTool DEF Handle, MetadataFault

LEMMA SoundServed ==
  ASSUME NEW r \in Request, NEW p, NEW x \in Served(r, p)
  PROVE  Sound(r, x)
BY SoundErrors, SoundComplete, SoundHandle DEF Served

LEMMA SoundLine ==
  ASSUME NEW c \in Connection, NEW r \in Request, NEW x \in LineResponses(c, r)
  PROVE  /\ Sound(r, x)
         /\ EraOf(c, r) = "legacy" /\ Ordinary(r) => x.kind \in {"complete", "error"}
         /\ EraOf(c, r) = "legacy" /\ ~c.initialized /\ ~Handshake(c, r) => x.kind = "error"
<1>1. CASE EraOf(c, r) # "legacy"
  BY <1>1, SoundErrors, SoundHandle DEF LineResponses, ModernResponses
<1>2. CASE EraOf(c, r) = "legacy"
  <2>1. /\ AsModern(r) \in Request /\ AsModern(r).state = r.state
        /\ AsModern(r).caps \in {{}, r.caps} /\ (Ordinary(r) => AsModern(r).caps = {})
        /\ AsModern(r).method = r.method /\ AsModern(r).names = r.names
    BY DEF AsModern, Request, Ordinary
  <2>2. ASSUME x \in Handle(AsModern(r), None)
        PROVE  Sound(r, x) /\ (Ordinary(r) => x.kind \in {"complete", "error"})
    BY <2>1, <2>2, SoundHandle DEF Sound, OwnTools, Ordinary
  <2>3. Complete.kind = "complete" /\ \A e : Error(e).kind = "error"
    BY DEF Complete, Error
  <2>4. x \in LegacyResponses(c, r)
    BY <1>2 DEF LineResponses
  <2>5. QED
    BY <1>2, <2>2, <2>3, <2>4, SoundErrors, SoundComplete DEF LegacyResponses, LegacyAnswers, Handshake
<1>3. QED
  BY <1>1, <1>2

LEMMA SoundHost ==
  ASSUME TypeOK, NEW r \in Request, NEW x \in HostAnswers(r)
  PROVE  x \in Response /\ (x.kind = "complete" /\ x.preview # None => x.preview = r.state)
         /\ (x.kind = "inputRequired" => x.preview \in Previews \cup {None})
<1>1. CASE x \in {Error("transport"), Error("headerMismatch")}
  BY <1>1 DEF Error, Response
<1>2. CASE x \in LineResponses(conn, r)
  BY <1>2, SoundLine DEF Sound, TypeOK
<1>3. CASE x \in Handle(r, None)
  BY <1>3, SoundHandle DEF Sound
<1>4. QED
  BY <1>1, <1>2, <1>3 DEF HostAnswers

----------------------------------------------------------------------------
\* A state that was handed out is confirmed at most for its own preview.
LEMMA RoundTripSafe ==
  ASSUME TypeOK, ConfirmedAsAsked, NEW r \in Request, HonestState(r), NEW x \in Response, RoundTrip(x),
         x.kind = "complete" /\ x.preview # None => x.preview = r.state,
         x.kind = "inputRequired" => x.preview \in Previews \cup {None}
  PROVE  /\ asked' \in SUBSET Previews /\ confirmed' \in SUBSET Previews
         /\ ConfirmedAsAsked' /\ asked \subseteq asked'
BY DEF TypeOK, ConfirmedAsAsked, HonestState, RoundTrip, Response

\* The connection, whatever is sent on it.
LEMMA ConnStep ==
  ASSUME TypeOK, ConnInv, NEW r \in Request, NEW x \in LineResponses(conn, r),
         conn' = AfterRequest(conn, r, x)
  PROVE  conn' \in Connection /\ ConnInv'
<1>1. /\ conn \in Connection /\ x \in Response /\ r.id \in BOOLEAN
      /\ EraOf(conn, r) = "legacy" /\ Ordinary(r) => x.kind \in {"complete", "error"}
      /\ EraOf(conn, r) = "legacy" /\ ~conn.initialized /\ ~Handshake(conn, r) => x.kind = "error"
  BY SoundLine DEF TypeOK, Sound, Request
<1>2. /\ EraOf(conn, r) \in {"modern", "legacy"}
      /\ conn.era # "unknown" => EraOf(conn, r) = conn.era
  BY <1>1 DEF EraOf, Classify, Connection, Eras
<1> DEFINE era == EraOf(conn, r)
           shaken == era = "legacy" /\ Handshake(conn, r)
           sent == [form |-> era, kind |-> x.kind, early |-> era = "legacy" /\ ~conn.initialized /\ ~shaken,
                    ordinary |-> Ordinary(r)]
<1>3. /\ conn'.era = era /\ conn'.initialized = (conn.initialized \/ shaken)
      /\ conn'.handshakes = conn.handshakes + (IF shaken THEN 1 ELSE 0)
      /\ conn'.results = conn.results \cup (IF r.id /\ x.kind # "error" THEN {sent} ELSE {})
  BY DEF AfterRequest
<1>4. x.kind # "error" => /\ sent \in ResultSent /\ ~sent.early
                          /\ era = "legacy" /\ sent.ordinary => sent.kind = "complete"
  <2>1. Ordinary(r) \in BOOLEAN
    BY DEF Ordinary, Misspelled, OwnTools
  <2>2. QED
    BY <1>1, <1>2, <2>1 DEF Response, ResultSent
<1>5. conn' \in Connection
  BY <1>1, <1>2, <1>4 DEF AfterRequest, Connection, Eras
<1>6. \A a \in conn.results : a.form # "unknown"
  BY <1>1 DEF Connection, ResultSent
<1>7. \A a \in conn'.results : /\ a.form = era /\ ~a.early
                               /\ a.form = "legacy" /\ a.ordinary => a.kind = "complete"
  BY <1>2, <1>3, <1>4, <1>6 DEF ConnInv, LegacyResultsAreFinal
<1>8. conn'.handshakes = (IF conn'.initialized THEN 1 ELSE 0) /\ (conn'.initialized => era = "legacy")
  <2>1. conn.initialized \in BOOLEAN /\ conn.handshakes \in Nat /\ (shaken => ~conn.initialized)
    BY <1>1 DEF Connection, Handshake
  <2>2. conn.initialized => era = "legacy"
    BY <1>2 DEF ConnInv
  <2>3. CASE shaken
    <3>1. conn'.initialized /\ conn'.handshakes = conn.handshakes + 1 /\ conn.handshakes = 0
      BY <1>3, <2>1, <2>3 DEF ConnInv
    <3>2. QED
      BY <2>3, <3>1
  <2>4. CASE ~shaken
    <3>1. conn'.initialized = conn.initialized /\ conn'.handshakes = conn.handshakes
      BY <1>3, <2>1, <2>4
    <3>2. QED
      BY <2>2, <3>1 DEF ConnInv
  <2>5. QED
    BY <2>3, <2>4
<1>9. QED
  BY <1>3, <1>5, <1>7, <1>8 DEF ConnInv, LegacyResultsAreFinal

----------------------------------------------------------------------------
\* The resource server demands the scopes of the operation that is then run.
LEMMA OneReading ==
  ASSUME NEW p \in Post, WellFormed(p)
  PROVE  RequiredScopes(ProtectedOperation(p)[1], ProtectedOperation(p)[2])
           = RequiredScopes(p.rpc.method, ActsOn(p.rpc))
<1> DEFINE m == p.rpc.method
           n == p.rpc.names[MemberNaming(m)]
<1>1. ProtectedOperation(p)[1] = m /\ ProtectedOperation(p)[2] = n
  BY DEF WellFormed, ProtectedOperation
<1>2. m \in Methods /\ n \in Entries \cup {None}
  BY DEF Post, Request, MemberNaming, Members
<1>3. CASE m \in NamedMethods
  BY <1>1, <1>3 DEF NamedMethods, TaskMethods, ActsOn, MemberNaming
<1>4. CASE m \notin NamedMethods
  <2>1. ActsOn(p.rpc) = None
    BY <1>4 DEF NamedMethods, ActsOn
  <2>2. n # None => <<m, n>> \notin DOMAIN Policy
    BY <1>2, <1>4, EndpointAssumption
  <2>3. <<m, n>> \in DOMAIN Policy => n = None
    BY <2>2
  <2>4. RequiredScopes(m, n) = RequiredScopes(m, None)
    BY <2>3 DEF RequiredScopes
  <2>5. QED
    BY <1>1, <2>1, <2>4
<1>5. QED
  BY <1>3, <1>4

\* The endpoint, whatever is posted to it.
LEMMA EndpointSafe ==
  ASSUME Safe, EndpointStep
  PROVE  /\ EndpointInv' /\ ConfirmedAsAsked' /\ asked \subseteq asked'
         /\ asked' \in SUBSET Previews /\ confirmed' \in SUBSET Previews
         /\ protected' = protected /\ valid' \in SUBSET Tokens
         /\ post' \in Posts \cup {None} /\ ran' \in Operation \cup {None}
<1> USE DEF Safe, EndpointInv
<1>2. \A q \in Posts : q \in Post /\ q.rpc \in Request
  BY EndpointAssumption DEF Post
<1>3. ASSUME NEW p \in Posts, Receive(p)
      PROVE  EndpointInv' /\ post' \in Posts /\ ran' = None
  <2>1. protected => p.token \in Tokens /\ TokenForUs[p.token]
    BY <1>3 DEF Receive, ValidClaims, TypeOK
  <2>2. QED
    BY <1>3, <2>1 DEF Receive, HonestState, RanAsAuthorised
<1>4. CASE \E p \in Posts : Receive(p)
  BY <1>3, <1>4 DEF Receive, TypeOK, ConfirmedAsAsked
<1>5. CASE Refuse
  BY <1>5 DEF Refuse, TypeOK, ConfirmedAsAsked, RanAsAuthorised
<1>6. CASE Run
  <2> DEFINE principal == IF protected THEN TokenSubject[post.token] ELSE None
  <2>1. post \in Post /\ post.rpc \in Request /\ HonestState(post.rpc) /\ WellFormed(post)
    BY <1>2, <1>6 DEF Run, TypeOK, Dispatchable
  <2>2. PICK x \in Served(post.rpc, principal) : RoundTrip(x)
    BY <1>6 DEF Run
  <2>3. /\ asked' \in SUBSET Previews /\ confirmed' \in SUBSET Previews
        /\ ConfirmedAsAsked' /\ asked \subseteq asked'
    BY <2>1, <2>2, SoundServed, RoundTripSafe DEF Sound
  <2>4. CASE protected
    <3>1. /\ post.token \in Tokens /\ TokenForUs[post.token] /\ principal \in Clients
          /\ principal = TokenSubject[post.token] /\ principal # None
      BY <1>6, <2>4, EndpointAssumption, DispatchAssumption DEF Run
    <3>2. TaskOwner(post.rpc, principal) = TokenSubject[post.token]
      BY <3>1 DEF TaskOwner
    <3>3. ran' = [method |-> post.rpc.method, name |-> ActsOn(post.rpc), token |-> post.token,
                  owner |-> TokenSubject[post.token]]
      BY <1>6, <2>4, <3>2 DEF Run
    <3>4. RequiredScopes(post.rpc.method, ActsOn(post.rpc)) \subseteq TokenScopes[post.token]
      BY <1>6, <2>1, <2>4, OneReading DEF Run, Authorised
    <3>5. ran' \in Operation
      BY <2>1, <3>1, <3>3 DEF Operation, Post, Request, ActsOn, Members, TaskMethods
    <3>6. post' = None /\ protected' = protected /\ valid' = valid
      BY <1>6 DEF Run
    <3>7. QED
      BY <2>3, <3>1, <3>3, <3>4, <3>5, <3>6 DEF RanAsAuthorised, TypeOK
  <2>5. CASE ~protected
    BY <1>6, <2>3, <2>5 DEF Run, RanAsAuthorised, TypeOK
  <2>6. QED
    BY <2>4, <2>5
<1>7. CASE \E t \in Tokens : Invalidate(t)
  BY <1>7 DEF Invalidate, TypeOK, ConfirmedAsAsked, RanAsAuthorised, HonestState
<1>8. QED
  BY <1>4, <1>5, <1>6, <1>7 DEF EndpointStep

----------------------------------------------------------------------------
\* The requests of the host are requests, with a state the server has given it.
LEMMA HostRequests ==
  ASSUME Safe
  PROVE  /\ \A m \in Methods, t \in Entries \cup {None} :
              HostRequest(m, t) \in Request /\ HonestState(HostRequest(m, t))
         /\ \A m \in Methods, i \in BOOLEAN :
              LegacyRequest(m, i) \in Request /\ HonestState(LegacyRequest(m, i))
         /\ ConfirmRequest \in Request /\ HonestState(ConfirmRequest)
<1>1. \A m \in Methods, t \in Entries \cup {None} : HostRequest(m, t) \in Request
  BY HostAssumption
     DEF Safe, TypeOK, Host, Versions, HostRequest, HostCapabilities, Request, Members
<1>2. \A m, t : HostRequest(m, t).state = None
  BY DEF HostRequest
<1>3. \A m \in Methods, i \in BOOLEAN : LegacyRequest(m, i) \in Request
  <2> SUFFICES ASSUME NEW m \in Methods, NEW i \in BOOLEAN PROVE LegacyRequest(m, i) \in Request
    OBVIOUS
  <2>1. HostRequest(m, None) \in Request
    BY <1>1
  <2>2. QED
    BY <2>1 DEF LegacyRequest, Request
<1>4. \A m, i : LegacyRequest(m, i).state = None
  BY <1>2 DEF LegacyRequest, HostRequest
<1>5. ConfirmPreview \in Entries /\ "tools/call" \in Methods
  BY DispatchAssumption DEF Methods
<1>6. ConfirmRequest \in Request /\ ConfirmRequest.state = host.required
  BY <1>1, <1>5 DEF ConfirmRequest, HostRequest, Request, Safe, TypeOK, Host
<1>7. QED
  BY <1>1, <1>2, <1>3, <1>4, <1>6 DEF Safe, HonestState

\* Whatever a call of the host is answered, the parties keep their invariants.
LEMMA HostCallSafe ==
  ASSUME Safe, NEW r \in Request, HonestState(r), NEW x, HostCall(r, x)
  PROVE  /\ conn' \in Connection /\ ConnInv' /\ EndpointInv' /\ ConfirmedAsAsked'
         /\ asked' \in SUBSET Previews /\ confirmed' \in SUBSET Previews /\ asked \subseteq asked'
         /\ protected' = protected /\ valid' = valid /\ post' = post /\ ran' = ran
         /\ x \in Response
         /\ x.kind = "inputRequired" => x.preview \in Previews \cup {None} /\ x.preview \in asked' \cup {None}
<1>1. x \in HostAnswers(r) /\ RoundTrip(x) /\ UNCHANGED <<protected, valid, post, ran>>
  BY DEF HostCall, endpointVars
<1>2. /\ x \in Response /\ (x.kind = "complete" /\ x.preview # None => x.preview = r.state)
      /\ (x.kind = "inputRequired" => x.preview \in Previews \cup {None})
  BY <1>1, SoundHost DEF Safe
<1>3. /\ asked' \in SUBSET Previews /\ confirmed' \in SUBSET Previews
      /\ ConfirmedAsAsked' /\ asked \subseteq asked'
  BY <1>1, <1>2, RoundTripSafe DEF Safe
<1>4. conn' \in Connection /\ ConnInv'
  <2>1. CASE host.flow = "stdio"
    BY <1>1, <2>1, ConnStep DEF Safe, HostCall, HostAnswers
  <2>2. CASE host.flow # "stdio"
    BY <2>2 DEF Safe, HostCall, TypeOK, ConnInv, LegacyResultsAreFinal
  <2>3. QED
    BY <2>1, <2>2
<1>5. EndpointInv'
  BY <1>1, <1>3 DEF Safe, EndpointInv, HonestState, RanAsAuthorised
<1>6. x.kind = "inputRequired" => x.preview \in asked' \cup {None}
  BY <1>1 DEF RoundTrip
<1>7. QED
  BY <1>1, <1>2, <1>3, <1>4, <1>5, <1>6

\* Steps of the host with and without a call; most keep its requestState.
LEMMA CallMoves ==
  ASSUME Safe, CatalogTypeOK', NEW r \in Request, HonestState(r), NEW x, HostCall(r, x),
         host' \in Host,
         host'.required = host.required \/ (x.kind = "inputRequired" /\ host'.required = x.preview)
  PROVE  Safe'
<1>1. host'.required # None => host'.required \in asked'
  BY HostCallSafe DEF Safe
<1>2. QED
  BY <1>1, HostCallSafe DEF Safe, TypeOK

LEMMA QuietMoves ==
  ASSUME Safe, UNCHANGED <<catalogVars, eraVars, endpointVars>>, host' \in Host,
         host'.required = host.required
  PROVE  Safe'
BY DEF Safe, TypeOK, catalogVars, CatalogTypeOK, eraVars, endpointVars, ConnInv,
       LegacyResultsAreFinal, EndpointInv, RanAsAuthorised, HonestState, ConfirmedAsAsked

\* The position is all that most steps change.
LEMMA HostAt ==
  ASSUME Safe, NEW a \in Positions, NEW v \in {"none"} \cup Versions \cup {"legacy"}, NEW e \in BOOLEAN
  PROVE  /\ [host EXCEPT !.at = a] \in Host
         /\ [host EXCEPT !.at = a, !.verdict = v] \in Host
         /\ [host EXCEPT !.at = a, !.excused = e] \in Host
BY DEF Safe, TypeOK, Host

\* A finite set of numbers has a least one: the number of smaller ones is a
\* bijection, so that it is 0 for some element.
LEMMA LeastElement ==
  ASSUME NEW S \in SUBSET Nat, IsFiniteSet(S), S # {}
  PROVE  \E i \in S : \A j \in S : i <= j
<1> DEFINE below(i) == {j \in S : j < i}
           n == Cardinality(S)
           f == [i \in S |-> Cardinality(below(i))]
<1>1. n \in Nat /\ n # 0
  BY FS_CardinalityType, FS_EmptySet
<1>2. \A i \in S : /\ IsFiniteSet(below(i)) /\ Cardinality(below(i)) \in Nat
                   /\ Cardinality(below(i)) <= n /\ (Cardinality(below(i)) = n => below(i) = S)
  BY FS_Subset, FS_CardinalityType
<1>3. \A i \in S : i \notin below(i)
  OBVIOUS
<1>4. f \in [S -> 0 .. n - 1]
  <2>1. \A i \in S : Cardinality(below(i)) \in 0 .. n - 1
    BY <1>1, <1>2, <1>3
  <2>2. QED
    BY <2>1
<1>5. \A i, j \in S : i < j => Cardinality(below(i)) < Cardinality(below(j))
  <2> SUFFICES ASSUME NEW i \in S, NEW j \in S, i < j
               PROVE  Cardinality(below(i)) < Cardinality(below(j))
    OBVIOUS
  <2>1. below(i) \in SUBSET below(j)
    <3>1. \A k \in S : k \in Nat /\ (k < i => k < j)
      OBVIOUS
    <3>2. QED
      BY <3>1
  <2>2. i \in below(j) /\ i \notin below(i)
    OBVIOUS
  <2>3. below(i) # below(j)
    BY <2>2
  <2>4. /\ Cardinality(below(i)) <= Cardinality(below(j))
        /\ Cardinality(below(j)) = Cardinality(below(i)) => below(j) = below(i)
    BY <1>2, <2>1, FS_Subset
  <2>5. QED
    BY <1>2, <2>3, <2>4
<1>6. f \in Injection(S, 0 .. n - 1)
  <2>1. \A i, j \in S : f[i] = f[j] => i = j
    BY <1>2, <1>5
  <2>2. QED
    BY <1>4, <2>1 DEF Injection, IsInjective
<1>7. f \in Surjection(S, 0 .. n - 1)
  <2>1. IsFiniteSet(0 .. n - 1) /\ Cardinality(0 .. n - 1) = n
    BY <1>1, FS_Interval
  <2>2. QED
    BY <1>6, <2>1, FS_Injection
<1>8. PICK i \in S : f[i] = 0
  <2>1. 0 \in 0 .. n - 1
    BY <1>1
  <2> HIDE DEF f, n
  <2>2. QED
    BY <1>7, <2>1 DEF Surjection
<1>9. below(i) = {}
  BY <1>2, <1>8, FS_EmptySet
<1>10. QED
  BY <1>9

LEMMA DiscoveryType ==
  ASSUME Safe, NEW reply \in Reply
  PROVE  AfterDiscovery(reply) \in Host /\ AfterDiscovery(reply).required = host.required
<1>1. \A i \in DOMAIN host.offers : host.offers[i] \in Versions
  BY DEF Safe, TypeOK, Host
<1>2. Alternatives(reply) # {} => RetryVersion(reply) \in Versions
  <2> SUFFICES ASSUME Alternatives(reply) # {} PROVE RetryVersion(reply) \in Versions
    OBVIOUS
  <2>1. DOMAIN host.offers = 1 .. Len(host.offers) /\ Len(host.offers) \in Nat
    BY DEF Safe, TypeOK, Host
  <2>2. \E i \in Alternatives(reply) : \A j \in Alternatives(reply) : i <= j
    <3>1. Alternatives(reply) \in SUBSET (1 .. Len(host.offers))
      BY <2>1 DEF Alternatives
    <3>2. IsFiniteSet(Alternatives(reply)) /\ Alternatives(reply) \in SUBSET Nat
      <4>1. IsFiniteSet(1 .. Len(host.offers)) /\ 1 .. Len(host.offers) \subseteq Nat
        BY <2>1, FS_Interval
      <4>2. QED
        BY <3>1, <4>1, FS_Subset
    <3>3. QED
      BY <3>2, LeastElement
  <2>3. QED
    BY <1>1, <2>2 DEF RetryVersion, Alternatives
<1>3. ASSUME NEW v \in Versions PROVE [host EXCEPT !.at = "retrying", !.version = v] \in Host
  BY DEF Safe, TypeOK, Host, Positions
<1>4. host.version \in Versions /\ {"listing", "initializing", "failed"} \subseteq Positions
  BY DEF Safe, TypeOK, Host, Positions
<1>5. AfterDiscovery(reply) \in Host
  BY <1>2, <1>3, <1>4, HostAt DEF AfterDiscovery
<1>6. AfterDiscovery(reply).required = host.required
  BY DEF AfterDiscovery, Safe, TypeOK, Host
<1>7. QED
  BY <1>5, <1>6

----------------------------------------------------------------------------
\* A host that only moves on keeps its requestState.
LEMMA KeepsState ==
  ASSUME Safe
  PROVE  /\ \A a : [host EXCEPT !.at = a].required = host.required
         /\ \A a, v : [host EXCEPT !.at = a, !.verdict = v].required = host.required
         /\ \A a, e : [host EXCEPT !.at = a, !.excused = e].required = host.required
         /\ \A a, t : [host EXCEPT !.at = a, !.tool = t].required = host.required
BY DEF Safe, TypeOK, Host

LEMMA OnwardType == ASSUME NEW x, NEW a \in Positions PROVE Onward(x, a) \in Positions
BY DEF Onward, Positions

LEMMA AllPositions ==
  {"discovering", "retrying", "initializing", "notifying", "listingLegacy", "listing", "deciding",
   "calling", "asking", "confirming", "answering", "left", "done", "failed"} \subseteq Positions
BY DEF Positions

LEMMA DetectionSafe ==
  ASSUME Safe, CatalogTypeOK',
         Discover \/ ForeignDiscovery \/ Initialize \/ ForeignInitialize \/ Notify \/ ListLegacy
  PROVE  Safe'
<1> USE AllPositions
<1>1. CASE Discover
  <2> DEFINE r == HostRequest("server/discover", None)
  <2>1. PICK x \in HostAnswers(r) : HostCall(r, x) /\ host' = AfterDiscovery(ReplyOf(x))
    BY <1>1 DEF Discover
  <2>2. r \in Request /\ HonestState(r)
    BY HostRequests DEF Methods
  <2>3. ReplyOf(x) \in Reply
    BY DEF ReplyOf, Reply, Versions
  <2>4. QED
    BY <2>1, <2>2, <2>3, DiscoveryType, CallMoves
<1>2. CASE ForeignDiscovery
  <2>1. PICK reply \in Reply :
          host' = [AfterDiscovery(reply) EXCEPT !.excused = TRUE,
                                                !.at = IF @ = "listing" THEN "left" ELSE @]
    BY <1>2 DEF ForeignDiscovery
  <2>2. AfterDiscovery(reply) \in Host /\ AfterDiscovery(reply).required = host.required
    BY DiscoveryType
  <2>3. host' \in Host /\ host'.required = host.required
    BY <2>1, <2>2 DEF Host
  <2>4. QED
    BY <1>2, <2>3, QuietMoves DEF ForeignDiscovery
<1>3. CASE Initialize
  <2> DEFINE r == LegacyRequest("initialize", TRUE)
  <2>1. PICK x \in HostAnswers(r) : HostCall(r, x) /\ host' = [host EXCEPT !.at = Onward(x, "notifying")]
    BY <1>3 DEF Initialize
  <2>2. r \in Request /\ HonestState(r)
    BY HostRequests DEF Methods
  <2>3. QED
    BY <2>1, <2>2, OnwardType, HostAt, KeepsState, CallMoves
<1>4. CASE ForeignInitialize
  <2>1. host' \in Host /\ host'.required = host.required
    <3>1. CASE host' = [host EXCEPT !.at = "left", !.verdict = "legacy"]
      BY <3>1, HostAt, KeepsState
    <3>2. CASE host' = [host EXCEPT !.at = "failed"]
      BY <3>2, HostAt, KeepsState
    <3>3. QED
      BY <1>4, <3>1, <3>2 DEF ForeignInitialize
  <2>2. QED
    BY <1>4, <2>1, QuietMoves DEF ForeignInitialize
<1>5. CASE Notify
  <2> DEFINE r == LegacyRequest("notifications/initialized", FALSE)
  <2>1. PICK x \in HostAnswers(r) : HostCall(r, x)
    BY <1>5 DEF Notify
  <2>2. r \in Request /\ HonestState(r)
    BY HostRequests DEF Methods
  <2>3. host' \in Host /\ host'.required = host.required
    BY <1>5, HostAt, KeepsState DEF Notify
  <2>4. QED
    BY <2>1, <2>2, <2>3, CallMoves
<1>6. CASE ListLegacy
  <2> DEFINE r == LegacyRequest("tools/list", TRUE)
  <2>1. PICK x \in HostAnswers(r) : HostCall(r, x) /\ host' = [host EXCEPT !.at = Onward(x, "done")]
    BY <1>6 DEF ListLegacy
  <2>2. r \in Request /\ HonestState(r)
    BY HostRequests DEF Methods, ListMethods
  <2>3. QED
    BY <2>1, <2>2, OnwardType, HostAt, KeepsState, CallMoves
<1>7. QED
  BY <1>1, <1>2, <1>3, <1>4, <1>5, <1>6

LEMMA SessionSafe ==
  ASSUME Safe, CatalogTypeOK',
         ListTools \/ Decide \/ NoDecision \/ CallTool \/ FinalTurn \/ AskToConfirm \/ Confirm
  PROVE  Safe'
<1> USE AllPositions
<1>1. CASE ListTools
  <2> DEFINE r == [HostRequest("tools/list", None) EXCEPT !.cursor = listing.offset]
  <2>1. PICK x \in HostAnswers(r), a \in Positions : HostCall(r, x) /\ host' = [host EXCEPT !.at = a]
    BY <1>1, OnwardType DEF ListTools
  <2>2. HostRequest("tools/list", None) \in Request
    BY HostRequests DEF Methods, ListMethods
  <2>3. r \in Request /\ r.state = None
    BY <2>2 DEF Safe, TypeOK, CatalogTypeOK, Listing, Request, HostRequest
  <2>4. QED
    BY <2>1, <2>3, HostAt, KeepsState, CallMoves DEF HonestState
<1>2. CASE Decide
  <2>1. PICK t \in listing.listed : host' = [host EXCEPT !.at = "calling", !.tool = t]
    BY <1>2 DEF Decide, Decisions
  <2>2. t \in Entries
    BY DEF Safe, TypeOK, CatalogTypeOK, Listing
  <2>3. host' \in Host
    BY <2>1, <2>2 DEF Safe, TypeOK, Host
  <2>4. host'.required = host.required
    BY <2>1, KeepsState
  <2>5. UNCHANGED <<catalogVars, eraVars, endpointVars>>
    BY <1>2 DEF Decide
  <2>6. QED
    BY <2>3, <2>4, <2>5, QuietMoves
<1>3. CASE NoDecision
  <2>1. host' \in {ModelFailed, [host EXCEPT !.at = "failed"]}
    BY <1>3 DEF NoDecision
  <2>2. host' \in Host /\ host'.required = host.required
    BY <2>1, HostAt, KeepsState DEF ModelFailed
  <2>3. QED
    BY <1>3, <2>2, QuietMoves DEF NoDecision
<1>4. CASE CallTool
  <2>1. PICK fits \in BOOLEAN :
          LET r == [HostRequest("tools/call", host.tool) EXCEPT !.fits = fits] IN
          \E x \in HostAnswers(r) :
            /\ HostCall(r, x)
            /\ host' = IF host.flow = "model" THEN AfterModelCall(x)
                       ELSE [host EXCEPT !.at = Onward(x, "asking")]
    BY <1>4 DEF CallTool
  <2> DEFINE r == [HostRequest("tools/call", host.tool) EXCEPT !.fits = fits]
  <2>2. PICK x \in HostAnswers(r) :
          /\ HostCall(r, x)
          /\ host' = IF host.flow = "model" THEN AfterModelCall(x)
                     ELSE [host EXCEPT !.at = Onward(x, "asking")]
    BY <2>1
  <2>3. HostRequest("tools/call", host.tool) \in Request
    BY HostRequests DEF Methods, Safe, TypeOK, Host
  <2>4. r \in Request /\ r.state = None
    BY <2>3 DEF Request, HostRequest
  <2>5. host' \in Host /\ host'.required = host.required
    BY <2>2, OnwardType, HostAt, KeepsState DEF AfterModelCall, ModelFailed
  <2>6. QED
    BY <2>2, <2>4, <2>5, CallMoves DEF HonestState
<1>5. CASE FinalTurn
  <2>1. host' \in Host /\ host'.required = host.required
    <3>1. CASE host' = [host EXCEPT !.at = "done"]
      BY <3>1, HostAt, KeepsState
    <3>2. CASE host' = ModelFailed
      BY <3>2, HostAt, KeepsState DEF ModelFailed
    <3>3. QED
      BY <1>5, <3>1, <3>2 DEF FinalTurn
  <2>2. QED
    BY <1>5, <2>1, QuietMoves DEF FinalTurn
<1>6. CASE AskToConfirm
  <2> DEFINE r == HostRequest("tools/call", ConfirmPreview)
  <2>1. PICK x \in HostAnswers(r) :
          /\ HostCall(r, x)
          /\ host' = IF Asks(x)
                     THEN [host EXCEPT !.at = "confirming", !.required = x.preview]
                     ELSE [host EXCEPT !.at = "failed"]
    BY <1>6 DEF AskToConfirm
  <2>2. r \in Request /\ HonestState(r)
    BY HostRequests, DispatchAssumption DEF Methods
  <2>3. x.kind = "inputRequired" => x.preview \in Previews \cup {None}
    BY <2>1, <2>2, HostCallSafe
  <2>4. CASE x.kind = "inputRequired"
    <3>1. host' \in Host /\ host'.required = x.preview
      BY <2>1, <2>3, <2>4 DEF Asks, Safe, TypeOK, Host
    <3>2. QED
      BY <2>1, <2>2, <2>4, <3>1, CallMoves, HostCallSafe
  <2>5. CASE x.kind # "inputRequired"
    BY <2>1, <2>2, <2>5, HostAt, KeepsState, CallMoves DEF Asks
  <2>6. QED
    BY <2>4, <2>5
<1>7. CASE Confirm
  <2>1. PICK x \in HostAnswers(ConfirmRequest) :
          HostCall(ConfirmRequest, x) /\ host' = [host EXCEPT !.at = Onward(x, "done")]
    BY <1>7 DEF Confirm
  <2>2. QED
    BY <2>1, HostRequests, OnwardType, HostAt, KeepsState, CallMoves
<1>8. QED
  BY <1>1, <1>2, <1>3, <1>4, <1>5, <1>6, <1>7

\* Every step of every party.
LEMMA SafeStep ==
  ASSUME Safe, CatalogTypeOK', [Next]_vars
  PROVE  Safe'
<1>1. CASE HostStep
  BY <1>1, DetectionSafe, SessionSafe DEF HostStep
<1>2. CASE TransportFails
  <2>1. host' \in Host /\ host'.required = host.required
    BY <1>2, HostAt, KeepsState, AllPositions DEF TransportFails
  <2>2. QED
    BY <1>2, <2>1, QuietMoves DEF TransportFails
<1>3. CASE OtherOnLine
  <2>1. PICK r \in Requests : HonestState(r) /\ \E x \in LineResponses(conn, r) : AnswerOnLine(r, x)
    BY <1>3 DEF OtherOnLine
  <2>2. PICK x \in LineResponses(conn, r) : AnswerOnLine(r, x)
    BY <2>1
  <2>3. r \in Request /\ Sound(r, x)
    BY <2>2, HostAssumption, SoundLine DEF Safe, TypeOK
  <2>4. conn' \in Connection /\ ConnInv'
    BY <2>2, <2>3, ConnStep DEF Safe, AnswerOnLine
  <2>5. /\ asked' \in SUBSET Previews /\ confirmed' \in SUBSET Previews
        /\ ConfirmedAsAsked' /\ asked \subseteq asked'
    BY <2>1, <2>2, <2>3, RoundTripSafe DEF Safe, Sound, AnswerOnLine
  <2>6. UNCHANGED <<protected, valid, post, ran, host>>
    BY <1>3 DEF OtherOnLine, endpointVars
  <2>7. EndpointInv'
    BY <2>5, <2>6 DEF Safe, EndpointInv, HonestState, RanAsAuthorised
  <2>8. QED
    BY <2>4, <2>5, <2>6, <2>7 DEF Safe, TypeOK
<1>4. CASE OtherOverHTTP
  <2>1. UNCHANGED <<conn, host>>
    BY <1>4 DEF OtherOverHTTP
  <2>2. QED
    BY <1>4, <2>1, EndpointSafe DEF OtherOverHTTP, Safe, TypeOK, ConnInv, LegacyResultsAreFinal
<1>5. CASE Publish
  BY <1>5 DEF Publish, eraVars, endpointVars, Safe, TypeOK, ConnInv, LegacyResultsAreFinal,
              EndpointInv, RanAsAuthorised, HonestState, ConfirmedAsAsked
<1>6. CASE UNCHANGED vars
  BY <1>6, QuietMoves DEF vars, Safe, TypeOK
<1>7. QED
  BY <1>1, <1>2, <1>3, <1>4, <1>5, <1>6 DEF Next

----------------------------------------------------------------------------
\* The catalogs of a session are a run of module Catalog.
LEMMA CatalogSteps == [Next]_vars => [CatalogNext]_catalogVars
<1> SUFFICES ASSUME [Next]_vars PROVE [CatalogNext]_catalogVars
  OBVIOUS
<1>1. CASE HostStep
  BY <1>1 DEF HostStep, Discover, ForeignDiscovery, Initialize, ForeignInitialize, Notify,
              ListLegacy, ListTools, Decide, NoDecision, CallTool, FinalTurn, AskToConfirm, Confirm,
              CatalogNext, catalogVars
<1>2. CASE TransportFails \/ OtherOnLine \/ OtherOverHTTP \/ UNCHANGED vars
  BY <1>2 DEF TransportFails, OtherOnLine, OtherOverHTTP, vars
<1>3. CASE Publish
  BY <1>3, HostAssumption DEF Publish, CatalogNext
<1>4. QED
  BY <1>1, <1>2, <1>3 DEF Next

LEMMA SessionInit == Init => CatalogInit /\ Safe
<1> SUFFICES ASSUME Init PROVE CatalogInit /\ Safe
  OBVIOUS
<1>1. CatalogInit /\ CatalogTypeOK
  BY CatalogInvInit DEF Init, CatalogInv
<1>2. PICK flow \in {"stdio", "http", "model", "none"}, server \in {"dual", "legacy", "foreign"},
           offers \in OfferLists :
        /\ host = NewHost(flow, server, offers)
        /\ conn = NewConnection(IF server = "legacy" THEN "legacy" ELSE "unknown")
  BY DEF Init
<1>3. conn \in Connection /\ ConnInv
  BY <1>2 DEF NewConnection, Connection, Eras, ConnInv, LegacyResultsAreFinal
<1>4. offers \in Seq(Versions) \ {<<>>} /\ <<"modern">> \in Seq(Versions) \ {<<>>}
      /\ offers[1] \in Versions
  BY HostAssumption DEF Versions
<1>5. host \in Host /\ host.required = None
  BY <1>2, <1>4, AllPositions DEF NewHost, Host, Versions
<1>6. QED
  BY <1>1, <1>3, <1>5 DEF Init, EndpointInit, Safe, TypeOK, EndpointInv, ConfirmedAsAsked, RanAsAuthorised

\* A listing of a session is the listing of module Catalog: complete, whatever is
\* registered while the host, or anyone else, does anything else.
THEOREM SessionImplementsCatalog == Spec => CatalogSpec
BY SessionInit, CatalogSteps, PTL DEF Spec, CatalogSpec

THEOREM SessionListingFaithful == Spec => []ListingFaithful
BY SessionImplementsCatalog, ListingIsFaithful, PTL

LEMMA SessionSafeAlways == Spec => [](Safe /\ CatalogInv)
<1>1. Init => Safe /\ CatalogInv
  BY SessionInit, CatalogInvInit
<1>2. Safe /\ CatalogInv /\ [Next]_vars => (Safe /\ CatalogInv)'
  <2> SUFFICES ASSUME Safe, CatalogInv, [Next]_vars PROVE Safe' /\ CatalogInv'
    OBVIOUS
  <2>1. CatalogInv'
    BY CatalogSteps, CatalogInvStep
  <2>2. QED
    BY <2>1, SafeStep DEF CatalogInv
<1>3. QED
  BY <1>1, <1>2, PTL DEF Spec

\* Every variable keeps its type.
THEOREM SessionTypeCorrect == Spec => []TypeOK
<1>1. Safe => TypeOK
  BY DEF Safe
<1>2. QED
  BY <1>1, SessionSafeAlways, PTL

\* Behind the resource server nothing runs beyond the scopes of its token.
THEOREM RunsAreAuthorised == Spec => []RanAsAuthorised
<1>1. Safe => RanAsAuthorised
  BY DEF Safe, EndpointInv
<1>2. QED
  BY <1>1, SessionSafeAlways, PTL

\* Only what the server has asked to confirm is ever reported as confirmed.
THEOREM ConfirmationsWereAsked == Spec => []ConfirmedAsAsked
<1>1. Safe => ConfirmedAsAsked
  BY DEF Safe
<1>2. QED
  BY <1>1, SessionSafeAlways, PTL

\* No tool of this repository sends a question or a task to a legacy client, which
\* would take it for final, whatever capabilities the client claims under _meta.
THEOREM LegacyResultsFinal == Spec => []LegacyResultsAreFinal
<1>1. Safe => LegacyResultsAreFinal
  BY DEF Safe, ConnInv
<1>2. QED
  BY <1>1, SessionSafeAlways, PTL

----------------------------------------------------------------------------
\* The positions of a host that has found a modern server.
Underway == {"listing", "deciding", "calling", "asking", "confirming", "answering"}

\* The flow decides about the positions; a foreign server is left early.
OnCourse ==
  /\ host.at = "failed" => host.excused \/ protected
  /\ host.flow \in {"http", "model"} => AtServer /\ host.version = "modern"
  /\ host.at \in {"retrying", "initializing", "notifying", "listingLegacy"} => host.flow = "stdio"
  /\ host.flow = "none" => host.at \in Over /\ host.verdict = "none"
  /\ ~AtServer => host.at \in {"discovering", "retrying", "initializing", "left", "failed"}
  /\ ~AtServer /\ host.at # "discovering" => host.excused
  /\ protected => host.at \in {"discovering", "failed"} /\ host.flow \in {"http", "model"}

\* The other end of the line, position by position of the detection.
LineFollows ==
  AtServer /\ host.flow = "stdio" =>
    /\ host.at = "discovering" =>
         ~conn.initialized /\ conn.era = (IF host.server = "legacy" THEN "legacy" ELSE "unknown")
    /\ host.at = "retrying" => conn.era = "modern" /\ host.version = "modern"
    /\ host.at = "initializing" => conn.era = "legacy" /\ ~conn.initialized
    /\ host.at = "notifying" => conn.era = "legacy" /\ conn.initialized
    /\ host.verdict \in Versions => conn.era = "modern"
    /\ host.verdict = "legacy" => conn.era = "legacy" /\ conn.initialized

\* What the host has learned when it is at a position.
Learned ==
  /\ \E i \in DOMAIN host.offers : host.offers[i] = "modern"
  /\ host.at = "listingLegacy" => host.verdict = "legacy"
  /\ host.at \in Underway => host.version = "modern" /\ host.verdict = "modern"
  /\ host.at = "deciding" => listing.at = "listed"
  /\ host.at = "calling" => host.tool \in Entries /\ (host.flow # "model" => host.tool = Echo)
  /\ host.at \in {"asking", "confirming"} => host.flow # "model"
  /\ host.at = "answering" => host.flow = "model"
  /\ host.at = "confirming" => host.required = HostPreview
  /\ host.at = "done" /\ host.flow # "model" /\ host.verdict # "legacy" => HostPreview \in confirmed

\* The tools of this repository are never unregistered.
ToolsStay ==
  /\ Defaults["tools"] \subseteq published["tools"]
  /\ listing.at # "idle" => Defaults["tools"] \subseteq listing.start

Followed == OnCourse /\ LineFollows /\ Learned /\ ToolsStay

----------------------------------------------------------------------------
\* Registration adds tools and a listing starts from what is there.
LEMMA ToolsStep == ASSUME CatalogTypeOK, ToolsStay, [CatalogNext]_catalogVars PROVE ToolsStay'
<1>1. CASE ListPage
  BY <1>1 DEF ListPage, ToolsStay
<1>2. CASE \E k \in Lists, e \in Entries : Register(k, e)
  BY <1>2 DEF Register, ToolsStay, CatalogTypeOK, Lists
<1>3. CASE UNCHANGED catalogVars
  BY <1>3 DEF catalogVars, ToolsStay
<1>4. QED
  BY <1>1, <1>2, <1>3 DEF CatalogNext

\* A connection that has an era keeps it, and a handshake is not undone.
LEMMA EraStays ==
  ASSUME Safe, NEW r, NEW x, HostCall(r, x)
  PROVE  /\ host.flow # "stdio" => conn' = conn
         /\ host.flow = "stdio" => conn'.era = EraOf(conn, r)
         /\ host.flow = "stdio" =>
              (conn'.initialized <=> conn.initialized \/ (EraOf(conn, r) = "legacy" /\ Handshake(conn, r)))
         /\ conn.era # "unknown" => EraOf(conn, r) = conn.era /\ conn'.era = conn.era
         /\ protected' = protected
BY DEF HostCall, AfterRequest, EraOf, endpointVars

\* Over HTTP the header of every request of the host repeats its body.
LEMMA HeadersFit ==
  ASSUME NEW r, r.meta = "modern", r.method \in Methods \ {"subscriptions/listen"},
         r.method \in NamedMethods => RequestName(r) # None
  PROVE  Dispatchable(HostPost(r))
<1>1. WellFormed(HostPost(r))
  BY DEF WellFormed, HostPost
<1>2. r.method \in NamedMethods => RequestName(r) = HeaderName(r)
  BY DEF RequestName, HeaderName, MemberNaming, NamedMethods
<1>3. HeadersMatch(HostPost(r))
  BY <1>2 DEF HeadersMatch, HostPost
<1>4. QED
  BY <1>1, <1>3 DEF Dispatchable, HostPost

\* Once a modern server is found, Handle answers the host, on either transport.
LEMMA Understood ==
  ASSUME Safe, Followed, host.at \in Underway,
         NEW r, r.meta = "modern", r.method \in Methods \ {"initialize", "subscriptions/listen"},
         r.method \in NamedMethods => RequestName(r) # None
  PROVE  HostAnswers(r) = Handle(r, None)
<1>1. AtServer /\ ~protected /\ host.verdict = "modern"
  BY DEF Followed, OnCourse, Learned, Underway
<1>2. CASE host.flow = "stdio"
  <2>1. EraOf(conn, r) = "modern"
    BY <1>1, <1>2 DEF Followed, LineFollows, Versions, EraOf
  <2>2. QED
    BY <1>2, <2>1 DEF HostAnswers, LineResponses, ModernResponses
<1>3. CASE host.flow # "stdio"
  BY <1>1, <1>3, HeadersFit DEF HostAnswers
<1>4. QED
  BY <1>2, <1>3

\* A step of a host that is underway, with or without a call.
LEMMA UnderwayStep ==
  ASSUME Safe, Followed, host.at \in Underway, ToolsStay', Learned',
         protected' = protected,
         host'.flow = host.flow, host'.server = host.server,
         host'.version = host.version, host'.verdict = host.verdict,
         host'.at \in Underway \cup {"done", "failed"},
         host'.at = "failed" => host'.excused,
         conn.era # "unknown" => conn'.era = conn.era
  PROVE  Followed'
<1>1. AtServer /\ ~protected /\ host.verdict = "modern" /\ host.flow # "none"
  BY DEF Followed, OnCourse, Learned, Underway, Over
<1>2. OnCourse'
  BY <1>1 DEF Followed, OnCourse, Underway, AtServer
<1>3. LineFollows'
  BY <1>1 DEF Followed, LineFollows, Underway, AtServer, Versions
<1>4. QED
  BY <1>2, <1>3 DEF Followed

\* The same host at another position.
LEMMA Moves ==
  ASSUME Safe, NEW a, host' = [host EXCEPT !.at = a]
  PROVE  /\ host'.at = a /\ host'.flow = host.flow /\ host'.server = host.server
         /\ host'.offers = host.offers /\ host'.version = host.version
         /\ host'.verdict = host.verdict /\ host'.tool = host.tool
         /\ host'.required = host.required /\ host'.excused = host.excused
BY DEF Safe, TypeOK, Host

LEMMA Fails ==
  ASSUME Safe, NEW a, host' = [host EXCEPT !.at = a, !.excused = TRUE]
  PROVE  /\ host'.at = a /\ host'.flow = host.flow /\ host'.server = host.server
         /\ host'.offers = host.offers /\ host'.version = host.version
         /\ host'.verdict = host.verdict /\ host'.excused
BY DEF Safe, TypeOK, Host

----------------------------------------------------------------------------
\* The pages of a listing are answered, so that the host gets to its decision.
LEMMA ListToolsFollows ==
  ASSUME Safe, Followed, CatalogInv, ToolsStay', CatalogInv', ListTools
  PROVE  Followed'
<1> DEFINE r == [HostRequest("tools/list", None) EXCEPT !.cursor = listing.offset]
<1>1. PICK x \in HostAnswers(r) :
        /\ HostCall(r, x)
        /\ host' = [host EXCEPT !.at = IF listing'.at = "failed" THEN "failed"
                                       ELSE Onward(x, IF listing'.at = "listed" THEN "deciding" ELSE "listing")]
  BY DEF ListTools
<1>2. host.at \in Underway /\ host.version = "modern" /\ host.verdict = "modern" /\ host.at = "listing"
  BY DEF ListTools, Underway, Followed, Learned
<1>3. r.meta = "modern" /\ r.method = "tools/list" /\ r.cursor = listing.offset
  BY <1>2 DEF HostRequest
<1>4. HostAnswers(r) = ListResponses(r)
  <2>1. HostAnswers(r) = Handle(r, None)
    BY <1>2, <1>3, Understood DEF Methods, ListMethods, NamedMethods, TaskMethods
  <2>2. QED
    BY <1>3, <2>1 DEF Handle, MetadataFault, ListMethods
<1>5. ListOf[r.method] = "tools"
  BY <1>3 DEF ListOf, ListMethods
<1>6. CursorGood(published["tools"], r.cursor)
  <2>1. listing.offset \in Nat /\ listing.offset <= Cardinality(published["tools"])
    <3>1. listing.offset \in Nat /\ published["tools"] \in SUBSET Entries
      BY DEF CatalogInv, CatalogTypeOK, Listing, Lists
    <3>2. Cardinality(published["tools"]) \in Nat
      BY <3>1, CatalogFinite
    <3>3. listing.at \in {"idle", "paging"}
      BY DEF ListTools, ListPage
    <3>4. listing.at = "idle" => listing.offset = 0
      BY DEF CatalogInv, Untouched
    <3>5. listing.at = "paging" => listing.offset <= Cardinality(published["tools"])
      BY DEF CatalogInv, CursorInside
    <3>6. QED
      BY <3>1, <3>2, <3>3, <3>4, <3>5
  <2>2. r.cursor # None
    BY <1>3, <2>1, DispatchAssumption
  <2>3. QED
    BY <1>3, <2>1, <2>2, CatalogFinite DEF CursorGood, OutsideList, CatalogInv, CatalogTypeOK, Lists
<1>7. x = Complete
  BY <1>1, <1>4, <1>5, <1>6 DEF ListResponses
<1>8. listing'.at # "failed"
  BY DEF CatalogInv, ListingFaithful, CursorsAreGood
<1>9. host' = [host EXCEPT !.at = IF listing'.at = "listed" THEN "deciding" ELSE "listing"]
  BY <1>1, <1>7, <1>8 DEF Onward, Complete
<1> DEFINE a == IF listing'.at = "listed" THEN "deciding" ELSE "listing"
<1>10. host'.at \in {"deciding", "listing"} /\ (host'.at = "deciding" => listing'.at = "listed")
  BY <1>9, Moves
<1>11. Learned'
  BY <1>2, <1>9, <1>10, Moves DEF Followed, Learned, Underway
<1>12. QED
  BY <1>1, <1>2, <1>9, <1>10, <1>11, Moves, EraStays, UnderwayStep DEF Underway

\* Echo is listed, so that every host but one with a model finds its tool.
LEMMA DecisionFollows ==
  ASSUME Safe, Followed, CatalogInv, ToolsStay', Decide \/ NoDecision
  PROVE  Followed'
<1>1. /\ host.at = "deciding" /\ host.at \in Underway /\ host.version = "modern"
      /\ host.verdict = "modern" /\ UNCHANGED <<catalogVars, eraVars, endpointVars>>
  BY DEF Decide, NoDecision, Underway, Followed, Learned
<1>2. Echo \in listing.listed
  <2>1. listing.at = "listed" /\ Defaults["tools"] \subseteq listing.start
    BY <1>1 DEF Followed, Learned, ToolsStay
  <2>2. listing.start \subseteq listing.listed
    BY <2>1 DEF CatalogInv, ListingFaithful, ListingComplete
  <2>3. QED
    BY <2>1, <2>2, HostAssumption
<1>3. CASE Decide
  <2>1. PICK t \in Decisions : host' = [host EXCEPT !.at = "calling", !.tool = t]
    BY <1>3 DEF Decide
  <2>2. t \in Entries /\ (host.flow # "model" => t = Echo)
    BY DEF Decisions, CatalogInv, CatalogTypeOK, Listing
  <2>3. /\ host'.at = "calling" /\ host'.tool = t /\ host'.flow = host.flow
        /\ host'.server = host.server /\ host'.offers = host.offers
        /\ host'.version = host.version /\ host'.verdict = host.verdict
    BY <2>1 DEF Safe, TypeOK, Host
  <2>4. Learned'
    BY <1>1, <2>2, <2>3 DEF Followed, Learned, Underway
  <2>5. QED
    BY <1>1, <2>3, <2>4, UnderwayStep DEF Underway, eraVars, endpointVars
<1>4. CASE NoDecision
  <2>1. host' = ModelFailed
    BY <1>2, <1>4 DEF NoDecision, Decisions
  <2>2. /\ host'.at = "failed" /\ host'.excused /\ host'.flow = host.flow
        /\ host'.server = host.server /\ host'.offers = host.offers
        /\ host'.version = host.version /\ host'.verdict = host.verdict
    BY <2>1, Fails DEF ModelFailed
  <2>3. Learned'
    BY <1>1, <2>2 DEF Followed, Learned, Underway
  <2>4. QED
    BY <1>1, <2>2, <2>3, UnderwayStep DEF Underway, eraVars, endpointVars
<1>5. QED
  BY <1>3, <1>4

\* What a tool call of the host is answered, underway: what the tool says.
LEMMA ToolAnswers ==
  ASSUME Safe, Followed, host.at \in Underway, NEW r, r.method = "tools/call", r.meta = "modern",
         r.names["name"] \in Entries
  PROVE  HostAnswers(r) = ToolResponses(r, None)
<1>1. RequestName(r) # None
  BY DispatchAssumption DEF RequestName, NamedMethods, TaskMethods
<1>2. HostAnswers(r) = Handle(r, None)
  BY <1>1, Understood DEF Methods
<1>3. QED
  BY <1>2 DEF Handle, MetadataFault, ListMethods, TaskMethods

LEMMA CallToolFollows ==
  ASSUME Safe, Followed, ToolsStay', CallTool
  PROVE  Followed'
<1>1. /\ host.at = "calling" /\ host.at \in Underway /\ host.version = "modern"
      /\ host.verdict = "modern" /\ host.tool \in Entries /\ (host.flow # "model" => host.tool = Echo)
  BY DEF CallTool, Underway, Followed, Learned
<1>2. PICK fits \in IF host.flow = "model" THEN BOOLEAN ELSE {TRUE} :
        LET r == [HostRequest("tools/call", host.tool) EXCEPT !.fits = fits] IN
        \E x \in HostAnswers(r) :
          /\ HostCall(r, x)
          /\ host' = IF host.flow = "model" THEN AfterModelCall(x)
                     ELSE [host EXCEPT !.at = Onward(x, "asking")]
  BY DEF CallTool
<1> DEFINE r == [HostRequest("tools/call", host.tool) EXCEPT !.fits = fits]
<1>3. PICK x \in HostAnswers(r) :
        /\ HostCall(r, x)
        /\ host' = IF host.flow = "model" THEN AfterModelCall(x)
                   ELSE [host EXCEPT !.at = Onward(x, "asking")]
  BY <1>2
<1>4. /\ r.method = "tools/call" /\ r.meta = "modern" /\ r.fits = fits /\ r.caps = HostCapabilities
      /\ r.names["name"] = host.tool
  BY <1>1 DEF HostRequest, Members
<1>5. HostAnswers(r) = ToolResponses(r, None)
  BY <1>1, <1>4, ToolAnswers
<1>6. CASE host.flow = "model"
  <2>1. x.code # "transport"
    <3>1. HostRequest("tools/call", host.tool) \in Request
      BY <1>1, HostRequests DEF Methods
    <3>2. fits \in BOOLEAN
      BY <1>2
    <3>3. r \in Request
      BY <3>1, <3>2 DEF Request
    <3>4. x \in ToolResponses(r, None) /\ r.method = "tools/call"
      BY <1>4, <1>5
    <3> HIDE DEF r
    <3>5. Sound(r, x)
      BY <3>3, <3>4, SoundTool
    <3>6. QED
      BY <3>5 DEF Sound
  <2>2. host' \in {ModelFailed, [host EXCEPT !.at = "answering"]}
    BY <1>3, <1>6, <2>1 DEF AfterModelCall
  <2>3. /\ host'.at \in {"answering", "failed"} /\ (host'.at = "failed" => host'.excused)
        /\ host'.flow = host.flow /\ host'.server = host.server /\ host'.offers = host.offers
        /\ host'.version = host.version /\ host'.verdict = host.verdict
    BY <2>2, Fails, Moves DEF ModelFailed
  <2>4. Learned'
    BY <1>1, <1>6, <2>3 DEF Followed, Learned, Underway
  <2>5. QED
    BY <1>1, <1>3, <2>3, <2>4, EraStays, UnderwayStep DEF Underway
<1>7. CASE host.flow # "model"
  <2>1. Echo \in published["tools"] /\ host.tool = Echo /\ fits = TRUE
    BY <1>1, <1>2, <1>7, HostAssumption DEF Followed, ToolsStay
  <2>2. x = Complete
    BY <1>4, <1>5, <2>1, DispatchAssumption DEF ToolResponses
  <2>3. host' = [host EXCEPT !.at = "asking"]
    BY <1>3, <1>7, <2>2 DEF Onward, Complete
  <2>4. Learned'
    BY <1>1, <1>7, <2>3, Moves DEF Followed, Learned, Underway
  <2>5. QED
    BY <1>1, <1>3, <2>3, <2>4, Moves, EraStays, UnderwayStep DEF Underway
<1>8. QED
  BY <1>6, <1>7

LEMMA FinalTurnFollows ==
  ASSUME Safe, Followed, ToolsStay', FinalTurn
  PROVE  Followed'
<1>1. /\ host.at = "answering" /\ host.at \in Underway /\ host.version = "modern"
      /\ host.verdict = "modern" /\ host.flow = "model"
      /\ UNCHANGED <<catalogVars, eraVars, endpointVars>>
  BY DEF FinalTurn, Underway, Followed, Learned
<1>2. host' \in {ModelFailed, [host EXCEPT !.at = "done"]}
  BY DEF FinalTurn
<1>3. /\ host'.at \in {"done", "failed"} /\ (host'.at = "failed" => host'.excused)
      /\ host'.flow = host.flow /\ host'.server = host.server /\ host'.offers = host.offers
      /\ host'.version = host.version /\ host'.verdict = host.verdict
  <2>1. CASE host' = ModelFailed
    BY <2>1, Fails DEF ModelFailed
  <2>2. CASE host' = [host EXCEPT !.at = "done"]
    BY <2>2, Moves
  <2>3. QED
    BY <1>2, <2>1, <2>2
<1>4. Learned'
  BY <1>1, <1>3 DEF Followed, Learned, Underway
<1>5. QED
  BY <1>1, <1>3, <1>4, UnderwayStep DEF eraVars, endpointVars

\* The host's first call of confirm_preview is a question, its second the answer.
LEMMA ConfirmationFollows ==
  ASSUME Safe, Followed, ToolsStay', AskToConfirm \/ Confirm
  PROVE  Followed'
<1>1. /\ host.at \in Underway /\ host.version = "modern" /\ host.verdict = "modern"
      /\ host.flow # "model" /\ host.at \in {"asking", "confirming"}
  BY DEF AskToConfirm, Confirm, Underway, Followed, Learned
<1>2. ConfirmPreview \in published["tools"] /\ ConfirmPreview \in Entries
      /\ HostPreview # None
  BY HostAssumption, DispatchAssumption DEF Followed, ToolsStay
<1>3. CASE AskToConfirm
  <2> DEFINE r == HostRequest("tools/call", ConfirmPreview)
  <2>1. PICK x \in HostAnswers(r) :
          /\ HostCall(r, x)
          /\ host' = IF Asks(x) THEN [host EXCEPT !.at = "confirming", !.required = x.preview]
                     ELSE [host EXCEPT !.at = "failed"]
    BY <1>3 DEF AskToConfirm
  <2>2. /\ r.method = "tools/call" /\ r.meta = "modern" /\ r.fits = TRUE /\ "form" \in r.caps
        /\ r.names["name"] = ConfirmPreview /\ r.answer = "absent" /\ r.state = None
        /\ r.preview = HostPreview
    BY <1>1 DEF HostRequest, Members, HostCapabilities
  <2>3. HostAnswers(r) = ToolResponses(r, None)
    BY <1>1, <1>2, <2>2, ToolAnswers
  <2>4. x = InputRequired(HostPreview)
    BY <1>2, <2>1, <2>2, <2>3, DispatchAssumption DEF ToolResponses, Confirmation, FormCapable
  <2>5. host' = [host EXCEPT !.at = "confirming", !.required = HostPreview]
    BY <2>1, <2>4 DEF Asks, InputRequired
  <2>6. /\ host'.at = "confirming" /\ host'.required = HostPreview /\ host'.flow = host.flow
        /\ host'.server = host.server /\ host'.offers = host.offers
        /\ host'.version = host.version /\ host'.verdict = host.verdict
    BY <2>5 DEF Safe, TypeOK, Host
  <2>7. Learned'
    BY <1>1, <2>6 DEF Followed, Learned, Underway
  <2>8. QED
    BY <1>1, <2>1, <2>6, <2>7, EraStays, UnderwayStep DEF Underway
<1>4. CASE Confirm
  <2> DEFINE r == ConfirmRequest
  <2>1. PICK x \in HostAnswers(r) : HostCall(r, x) /\ host' = [host EXCEPT !.at = Onward(x, "done")]
    BY <1>4 DEF Confirm
  <2>2. host.required = HostPreview
    BY <1>4 DEF Confirm, Followed, Learned
  <2>3. /\ r.method = "tools/call" /\ r.meta = "modern" /\ r.fits = TRUE /\ "form" \in r.caps
        /\ r.names["name"] = ConfirmPreview /\ r.answer = "accept" /\ r.state = HostPreview
        /\ r.preview = HostPreview
    BY <1>1, <2>2 DEF ConfirmRequest, HostRequest, Members, HostCapabilities
  <2>4. HostAnswers(r) = ToolResponses(r, None)
    BY <1>1, <1>2, <2>3, ToolAnswers
  <2>5. x = Confirmed(HostPreview)
    BY <1>2, <2>1, <2>3, <2>4, DispatchAssumption DEF ToolResponses, Confirmation, FormCapable
  <2>6. host' = [host EXCEPT !.at = "done"]
    BY <2>1, <2>5 DEF Onward, Confirmed
  <2>7. HostPreview \in confirmed'
    BY <1>2, <2>1, <2>5 DEF HostCall, RoundTrip, Confirmed
  <2>8. Learned'
    BY <1>1, <2>6, <2>7, Moves DEF Followed, Learned, Underway
  <2>9. QED
    BY <1>1, <2>1, <2>6, <2>8, Moves, EraStays, UnderwayStep DEF Underway
<1>5. QED
  BY <1>3, <1>4

----------------------------------------------------------------------------
\* The version that is tried next is the modern one, which every host offers.
LEMMA Retry ==
  ASSUME Safe, Followed, NEW reply, reply.advertised = {"modern"}, host.version # "modern"
  PROVE  Alternatives(reply) # {} /\ RetryVersion(reply) = "modern"
<1>1. PICK k \in DOMAIN host.offers : host.offers[k] = "modern"
  BY DEF Followed, Learned
<1>2. k \in Alternatives(reply) /\ \A i \in Alternatives(reply) : host.offers[i] = "modern"
  BY <1>1 DEF Alternatives
<1>3. \E i \in Alternatives(reply) : \A j \in Alternatives(reply) : i <= j
  <2>1. DOMAIN host.offers = 1 .. Len(host.offers) /\ Len(host.offers) \in Nat
    BY DEF Safe, TypeOK, Host
  <2>2. IsFiniteSet(1 .. Len(host.offers)) /\ 1 .. Len(host.offers) \subseteq Nat
    BY <2>1, FS_Interval
  <2>3. Alternatives(reply) \in SUBSET (1 .. Len(host.offers))
    BY <2>1 DEF Alternatives
  <2>4. IsFiniteSet(Alternatives(reply)) /\ Alternatives(reply) \in SUBSET Nat
    BY <2>2, <2>3, FS_Subset
  <2>5. QED
    BY <1>2, <2>4, LeastElement
<1>4. QED
  BY <1>2, <1>3 DEF RetryVersion

\* The two ways a discovery of this server can go on without failing.
LEMMA FoundModern ==
  ASSUME Safe, Followed, Discover, ToolsStay', NEW r, NEW x, HostCall(r, x), x = Complete,
         host' = AfterDiscovery(ReplyOf(x)), host.version = "modern", ~protected,
         host.flow = "stdio" => EraOf(conn, r) = "modern"
  PROVE  Followed'
<1>1. host' = [host EXCEPT !.at = "listing", !.verdict = "modern"]
  BY DEF AfterDiscovery, ReplyOf, Complete
<1>2. /\ host'.at = "listing" /\ host'.verdict = "modern" /\ host'.flow = host.flow
      /\ host'.server = host.server /\ host'.offers = host.offers /\ host'.version = "modern"
  BY <1>1 DEF Safe, TypeOK, Host
<1>3. AtServer /\ host.at \in {"discovering", "retrying"} /\ host.flow # "none"
  BY DEF Discover, Followed, OnCourse, Over
<1>4. protected' = protected /\ (host.flow = "stdio" => conn'.era = "modern")
  BY EraStays
<1>5. OnCourse'
  BY <1>2, <1>3, <1>4 DEF OnCourse, AtServer, Over
<1>6. LineFollows'
  BY <1>2, <1>3, <1>4 DEF LineFollows, AtServer, Versions
<1>7. Learned'
  BY <1>2 DEF Followed, Learned, Underway
<1>8. QED
  BY <1>5, <1>6, <1>7 DEF Followed

LEMMA DiscoverFollows ==
  ASSUME Safe, Followed, Discover, ToolsStay'
  PROVE  Followed'
<1> DEFINE r == HostRequest("server/discover", None)
<1>1. PICK x \in HostAnswers(r) : HostCall(r, x) /\ host' = AfterDiscovery(ReplyOf(x))
  BY DEF Discover
<1>2. /\ AtServer /\ host.at \in {"discovering", "retrying"} /\ host.flow # "none"
      /\ host.version \in Versions /\ host.verdict \in {"none"} \cup Versions \cup {"legacy"}
  BY DEF Discover, Followed, OnCourse, Over, Safe, TypeOK, Host
<1>3. r.method = "server/discover" /\ r.meta = host.version
  BY DEF HostRequest
<1>4. Handle(r, None) = {IF host.version = "newer" THEN Error("unsupportedVersion") ELSE Complete}
  BY <1>2, <1>3 DEF Handle, MetadataFault, Versions
<1>5. CASE host.flow # "stdio"
  <2>1. host.version = "modern"
    BY <1>2, <1>5 DEF Safe, TypeOK, Host, Followed, OnCourse
  <2>2. CASE protected
    <3>1. host' = [host EXCEPT !.at = "failed"]
      BY <1>1, <1>2, <1>5, <2>2 DEF HostAnswers, AfterDiscovery, ReplyOf, Error
    <3>2. protected' = protected /\ conn' = conn
      BY <1>1, <1>5, EraStays
    <3>3. Learned'
      BY <3>1, Moves DEF Followed, Learned, Underway
    <3>4. OnCourse' /\ LineFollows'
      BY <1>2, <1>5, <2>2, <3>1, <3>2, Moves DEF Followed, OnCourse, LineFollows, AtServer, Over
    <3>5. QED
      BY <3>3, <3>4 DEF Followed
  <2>3. CASE ~protected
    <3>1. Dispatchable(HostPost(r))
      BY <1>3, <2>1, HeadersFit DEF Methods, NamedMethods, TaskMethods
    <3>2. HostAnswers(r) = Handle(r, None)
      BY <1>5, <2>3, <3>1 DEF HostAnswers
    <3>3. x = Complete
      BY <1>1, <1>4, <2>1, <3>2
    <3>4. QED
      BY <1>1, <1>5, <2>1, <2>3, <3>3, FoundModern
  <2>4. QED
    BY <2>2, <2>3
<1>6. CASE host.flow = "stdio"
  <2>1. ~protected
    BY <1>6, <1>2 DEF Followed, OnCourse
  <2>2. protected' = protected /\ conn'.era = EraOf(conn, r)
        /\ conn'.initialized = conn.initialized
    <3>1. ~Handshake(conn, r) /\ conn.initialized \in BOOLEAN /\ conn'.initialized \in BOOLEAN
      BY <1>1, <1>3, HostCallSafe, HostRequests DEF Handshake, Safe, TypeOK, Connection, Methods
    <3>2. QED
      BY <1>1, <1>6, <3>1, EraStays
  <2>3. CASE host.at = "discovering" /\ host.server = "legacy"
    <3>1. EraOf(conn, r) = "legacy" /\ ~conn.initialized
      BY <1>2, <1>6, <2>3 DEF EraOf, Followed, LineFollows
    <3>2. x = Error("methodNotFound")
      BY <1>1, <1>3, <1>6, <3>1 DEF HostAnswers, LineResponses, LegacyResponses
    <3>3. host' = [host EXCEPT !.at = "initializing"]
      BY <1>1, <1>6, <2>3, <3>2 DEF AfterDiscovery, ReplyOf, Error
    <3>4. Learned'
      BY <3>3, Moves DEF Followed, Learned, Underway
    <3>5. host.verdict \notin Versions /\ host.verdict # "legacy"
      BY <1>2, <1>6, <2>3, <3>1 DEF Followed, LineFollows
    <3>6. OnCourse' /\ LineFollows'
      BY <1>2, <1>6, <2>1, <2>2, <3>1, <3>3, <3>5, Moves DEF OnCourse, LineFollows, AtServer, Over
    <3>7. QED
      BY <3>4, <3>6 DEF Followed
  <2>4. CASE ~(host.at = "discovering" /\ host.server = "legacy")
    <3>1. EraOf(conn, r) = "modern"
      BY <1>2, <1>3, <1>6, <2>4
         DEF EraOf, Followed, LineFollows, AtServer, Classify, HasModernMetadata, Versions
    <3>2. x \in Handle(r, None)
      BY <1>1, <1>3, <1>6, <3>1 DEF HostAnswers, LineResponses, ModernResponses
    <3>3. CASE host.version = "modern"
      <4>1. x = Complete
        BY <1>4, <3>2, <3>3
      <4>2. QED
        BY <1>1, <2>1, <3>1, <3>3, <4>1, FoundModern
    <3>4. CASE host.version = "newer"
      <4>1. x = Error("unsupportedVersion") /\ host.at = "discovering"
        BY <1>2, <1>4, <1>6, <3>2, <3>4 DEF Followed, LineFollows
      <4>2. ReplyOf(x).kind = "unsupported" /\ ReplyOf(x).advertised = {"modern"}
        BY <4>1 DEF ReplyOf, Error
      <4>3. host' = [host EXCEPT !.at = "retrying", !.version = "modern"]
        BY <1>1, <1>6, <3>4, <4>1, <4>2, Retry DEF AfterDiscovery
      <4>4. /\ host'.at = "retrying" /\ host'.version = "modern" /\ host'.flow = host.flow
            /\ host'.server = host.server /\ host'.offers = host.offers
            /\ host'.verdict = host.verdict
        BY <4>3 DEF Safe, TypeOK, Host
      <4>5. Learned'
        BY <4>4 DEF Followed, Learned, Underway
      <4>6. host.verdict # "legacy"
        BY <1>2, <1>6, <4>1 DEF Followed, LineFollows
      <4>7. OnCourse' /\ LineFollows'
        BY <1>2, <1>6, <2>1, <2>2, <3>1, <4>4, <4>6 DEF OnCourse, LineFollows, AtServer, Over
      <4>8. QED
        BY <4>5, <4>7 DEF Followed
    <3>5. QED
      BY <1>2, <3>3, <3>4 DEF Versions
  <2>5. QED
    BY <2>3, <2>4
<1>7. QED
  BY <1>5, <1>6

\* A foreign server is left when its era is known, and excuses every failure.
LEMMA ForeignFollows ==
  ASSUME Safe, Followed, ToolsStay', ForeignDiscovery \/ ForeignInitialize
  PROVE  Followed'
<1>1. /\ ~AtServer /\ host.at \in {"discovering", "retrying", "initializing"}
      /\ UNCHANGED <<catalogVars, eraVars, endpointVars>>
      /\ host.at = "initializing" => host.excused /\ host.flow = "stdio"
  BY DEF ForeignDiscovery, ForeignInitialize, Followed, OnCourse
<1>2. ~protected /\ host.flow = "stdio"
  BY <1>1 DEF Followed, OnCourse, Over, Safe, TypeOK, Host
<1>3. /\ host'.flow = host.flow /\ host'.server = host.server /\ host'.offers = host.offers
      /\ host'.excused /\ host'.at \in {"retrying", "initializing", "left", "failed"}
  <2>1. CASE ForeignDiscovery
    <3>1. PICK reply \in Reply :
            host' = [AfterDiscovery(reply) EXCEPT !.excused = TRUE,
                                                  !.at = IF @ = "listing" THEN "left" ELSE @]
      BY <2>1 DEF ForeignDiscovery
    <3>2. /\ AfterDiscovery(reply).flow = host.flow /\ AfterDiscovery(reply).server = host.server
          /\ AfterDiscovery(reply).offers = host.offers
          /\ AfterDiscovery(reply).at \in {"listing", "initializing", "retrying", "failed"}
      BY DEF AfterDiscovery, Safe, TypeOK, Host
    <3>3. AfterDiscovery(reply) \in Host
      BY DiscoveryType
    <3>4. QED
      BY <3>1, <3>2, <3>3 DEF Host
  <2>2. CASE ForeignInitialize
    <3>1. host.excused
      BY <1>1, <2>2 DEF ForeignInitialize
    <3>2. CASE host' = [host EXCEPT !.at = "left", !.verdict = "legacy"]
      BY <3>1, <3>2 DEF Safe, TypeOK, Host
    <3>3. CASE host' = [host EXCEPT !.at = "failed"]
      BY <3>1, <3>3, Moves
    <3>4. QED
      BY <2>2, <3>2, <3>3 DEF ForeignInitialize
  <2>3. QED
    BY <2>1, <2>2
<1>4. OnCourse' /\ LineFollows' /\ Learned'
  BY <1>1, <1>2, <1>3
     DEF Followed, OnCourse, LineFollows, Learned, AtServer, Underway, endpointVars
<1>5. QED
  BY <1>4 DEF Followed

\* The handshake of a host with a legacy server: each request is accepted.
LEMMA HandshakeFollows ==
  ASSUME Safe, Followed, CatalogInv, ToolsStay', Initialize \/ Notify \/ ListLegacy
  PROVE  Followed'
<1>1. /\ host.at \in {"initializing", "notifying", "listingLegacy"} /\ host.flow = "stdio"
      /\ AtServer /\ ~protected
      /\ conn.era = "legacy" /\ (host.at # "initializing" => conn.initialized)
      /\ host.at = "initializing" => ~conn.initialized
      /\ host.at = "listingLegacy" => host.verdict = "legacy"
      /\ host.verdict \notin Versions
  BY DEF Initialize, Notify, ListLegacy, Followed, OnCourse, LineFollows, Learned, Versions
<1>2. \A m, i : LegacyRequest(m, i).method = m /\ LegacyRequest(m, i).cursor = 0
  BY DEF LegacyRequest, HostRequest
<1>3. \A r : HostAnswers(r) = LegacyResponses(conn, r)
  BY <1>1 DEF HostAnswers, LineResponses, EraOf
<1>4. CASE Initialize
  <2> DEFINE r == LegacyRequest("initialize", TRUE)
  <2>1. PICK x \in HostAnswers(r) : HostCall(r, x) /\ host' = [host EXCEPT !.at = Onward(x, "notifying")]
    BY <1>4 DEF Initialize
  <2>2. ~conn.initialized /\ Handshake(conn, r)
    BY <1>1, <1>2, <1>4 DEF Initialize, Handshake
  <2>3. x = Complete
    <3>1. x \in LegacyResponses(conn, r) /\ r.method = "initialize"
      BY <1>2, <1>3, <2>1
    <3>2. QED
      BY <2>2, <3>1 DEF LegacyResponses
  <2>4. host' = [host EXCEPT !.at = "notifying"]
    BY <2>1, <2>3 DEF Onward, Complete
  <2>5. conn'.era = "legacy" /\ conn'.initialized /\ protected' = protected
    BY <1>1, <2>1, <2>2, EraStays DEF EraOf
  <2>6. OnCourse' /\ LineFollows' /\ Learned'
    BY <1>1, <2>4, <2>5, Moves DEF Followed, OnCourse, LineFollows, Learned, AtServer, Underway, Over
  <2>7. QED
    BY <2>6 DEF Followed
<1>5. CASE Notify
  <2> DEFINE r == LegacyRequest("notifications/initialized", FALSE)
  <2>1. PICK x \in HostAnswers(r) : HostCall(r, x)
    BY <1>5 DEF Notify
  <2>2. host' = [host EXCEPT !.at = "listingLegacy", !.verdict = "legacy"]
    BY <1>5 DEF Notify
  <2>3. /\ host'.at = "listingLegacy" /\ host'.verdict = "legacy" /\ host'.flow = host.flow
        /\ host'.server = host.server /\ host'.offers = host.offers
    BY <2>2 DEF Safe, TypeOK, Host
  <2>4. conn'.era = "legacy" /\ conn'.initialized /\ protected' = protected
    BY <1>1, <1>5, <2>1, EraStays DEF EraOf, Notify
  <2>5. OnCourse' /\ LineFollows' /\ Learned'
    BY <1>1, <2>3, <2>4 DEF Followed, OnCourse, LineFollows, Learned, AtServer, Underway, Over, Versions
  <2>6. QED
    BY <2>5 DEF Followed
<1>6. CASE ListLegacy
  <2> DEFINE r == LegacyRequest("tools/list", TRUE)
  <2>1. PICK x \in HostAnswers(r) : HostCall(r, x) /\ host' = [host EXCEPT !.at = Onward(x, "done")]
    BY <1>6 DEF ListLegacy
  <2>2. r.method = "tools/list" /\ r.cursor = 0 /\ conn.initialized /\ host.verdict = "legacy"
    BY <1>1, <1>2, <1>6 DEF ListLegacy
  <2>3. AsModern(r).meta = "modern" /\ AsModern(r).method = "tools/list" /\ AsModern(r).cursor = 0
    BY <2>2 DEF AsModern, LegacyRequest, HostRequest
  <2>4. HostAnswers(r) = Handle(AsModern(r), None)
    BY <1>3, <2>2 DEF LegacyResponses, Handshake, LegacyBusiness, ListMethods, LegacyAnswers
  <2>5. HostAnswers(r) = ListResponses(AsModern(r))
    BY <2>3, <2>4 DEF Handle, MetadataFault, ListMethods
  <2>6. CursorGood(published["tools"], 0)
    <3>1. Cardinality(published["tools"]) \in Nat
      BY CatalogFinite DEF CatalogInv, CatalogTypeOK, Lists
    <3>2. QED
      BY <3>1, DispatchAssumption DEF CursorGood, OutsideList
  <2>7. x = Complete
    BY <2>1, <2>3, <2>5, <2>6 DEF ListResponses, ListOf, ListMethods
  <2>8. host' = [host EXCEPT !.at = "done"]
    BY <2>1, <2>7 DEF Onward, Complete
  <2>9. conn'.era = "legacy" /\ conn'.initialized /\ protected' = protected
    BY <1>1, <2>1, <2>2, EraStays DEF EraOf
  <2>10. OnCourse' /\ LineFollows' /\ Learned'
    BY <1>1, <2>2, <2>8, <2>9, Moves DEF Followed, OnCourse, LineFollows, Learned, AtServer, Underway, Over
  <2>11. QED
    BY <2>10 DEF Followed
<1>7. QED
  BY <1>4, <1>5, <1>6

\* What happens beside a call of the host does not touch its course.
LEMMA OthersFollow ==
  ASSUME Safe, Followed, ToolsStay',
         TransportFails \/ OtherOnLine \/ OtherOverHTTP \/ Publish \/ UNCHANGED vars
  PROVE  Followed'
<1>1. CASE TransportFails
  <2>1. /\ host.at \notin Over /\ host' = [host EXCEPT !.at = "failed", !.excused = TRUE]
        /\ UNCHANGED <<catalogVars, eraVars, endpointVars>>
    BY <1>1 DEF TransportFails
  <2>2. /\ host'.at = "failed" /\ host'.flow = host.flow /\ host'.server = host.server
        /\ host'.offers = host.offers /\ host'.version = host.version
        /\ host'.verdict = host.verdict /\ host'.excused
        /\ conn' = conn /\ protected' = protected
    BY <2>1, Fails DEF eraVars, endpointVars
  <2>3. OnCourse'
    BY <2>1, <2>2 DEF Followed, OnCourse, AtServer, Over
  <2>4. LineFollows' /\ Learned'
    BY <2>2 DEF Followed, LineFollows, Learned, AtServer, Underway
  <2>5. QED
    BY <2>3, <2>4 DEF Followed
<1>2. CASE OtherOnLine
  <2>1. /\ host.flow = "none" /\ host' = host /\ listing' = listing /\ protected' = protected
        /\ confirmed \subseteq confirmed'
    BY <1>2 DEF OtherOnLine, AnswerOnLine, RoundTrip, catalogVars, endpointVars
  <2>2. OnCourse' /\ LineFollows' /\ Learned'
    BY <2>1 DEF Followed, OnCourse, LineFollows, Learned, AtServer, Underway
  <2>3. QED
    BY <2>2 DEF Followed
<1>3. CASE OtherOverHTTP
  <2>1. /\ host' = host /\ conn' = conn /\ UNCHANGED catalogVars
        /\ protected' = protected
    BY <1>3, EndpointSafe DEF OtherOverHTTP
  <2>2. confirmed \subseteq confirmed'
    BY <1>3 DEF OtherOverHTTP, EndpointStep, Receive, Refuse, Run, Invalidate, RoundTrip
  <2>3. OnCourse' /\ LineFollows' /\ Learned'
    BY <2>1, <2>2 DEF Followed, OnCourse, LineFollows, Learned, AtServer, Underway, catalogVars
  <2>4. QED
    BY <2>3 DEF Followed
<1>4. CASE Publish
  <2>1. host' = host /\ UNCHANGED <<eraVars, endpointVars>> /\ listing' = listing
    BY <1>4 DEF Publish, Register
  <2>2. OnCourse' /\ LineFollows' /\ Learned'
    BY <2>1 DEF Followed, OnCourse, LineFollows, Learned, AtServer, Underway, eraVars, endpointVars
  <2>3. QED
    BY <2>2 DEF Followed
<1>5. CASE UNCHANGED vars
  <2>1. OnCourse' /\ LineFollows' /\ Learned'
    BY <1>5 DEF vars, Followed, OnCourse, LineFollows, Learned, AtServer, Underway, catalogVars, eraVars, endpointVars
  <2>2. QED
    BY <2>1 DEF Followed
<1>6. QED
  BY <1>1, <1>2, <1>3, <1>4, <1>5

LEMMA FollowedInit == Init => Followed
<1> SUFFICES ASSUME Init PROVE Followed
  OBVIOUS
<1>1. PICK flow \in {"stdio", "http", "model", "none"}, server \in {"dual", "legacy", "foreign"},
           offers \in OfferLists :
        /\ flow \in {"http", "model"} => server = "dual"
        /\ flow = "none" => server # "foreign"
        /\ flow \in {"stdio", "none"} => ~protected
        /\ host = NewHost(flow, server, offers)
        /\ conn = NewConnection(IF server = "legacy" THEN "legacy" ELSE "unknown")
  BY DEF Init
<1>2. \E i \in DOMAIN host.offers : host.offers[i] = "modern"
  BY <1>1, HostAssumption DEF NewHost
<1>3. /\ host.flow = flow /\ host.server = server /\ host.verdict = "none" /\ host.excused = FALSE
      /\ host.at = (IF flow = "none" THEN "left" ELSE "discovering")
      /\ flow # "stdio" => host.version = "modern"
      /\ ~conn.initialized /\ conn.era = (IF server = "legacy" THEN "legacy" ELSE "unknown")
  BY <1>1 DEF NewHost, NewConnection
<1>4. ToolsStay
  BY DEF Init, CatalogInit, ToolsStay
<1>5. OnCourse /\ LineFollows /\ Learned
  BY <1>1, <1>2, <1>3 DEF OnCourse, LineFollows, Learned, AtServer, Underway, Over, Versions
<1>6. QED
  BY <1>4, <1>5 DEF Followed

LEMMA FollowedStep ==
  ASSUME Safe, CatalogInv, CatalogInv', Followed, [Next]_vars
  PROVE  Followed'
<1>1. ToolsStay'
  BY CatalogSteps, ToolsStep DEF Followed, CatalogInv
<1>2. CASE HostStep
  BY <1>1, <1>2, DiscoverFollows, ForeignFollows, HandshakeFollows, ListToolsFollows,
     DecisionFollows, CallToolFollows, FinalTurnFollows, ConfirmationFollows DEF HostStep
<1>3. CASE ~HostStep
  BY <1>1, <1>3, OthersFollow DEF Next
<1>4. QED
  BY <1>2, <1>3

LEMMA FollowedAlways == Spec => [](Safe /\ CatalogInv /\ Followed)
<1>1. Init => Followed
  BY FollowedInit
<1>2. Safe /\ CatalogInv /\ (Safe /\ CatalogInv)' /\ Followed /\ [Next]_vars => Followed'
  BY FollowedStep
<1>3. QED
  BY <1>1, <1>2, SessionSafeAlways, PTL DEF Spec

\* Host and server agree about the era of a connection, which has only one, for
\* every list of offers, whatever other clients send.
THEOREM ErasAlwaysAgree == Spec => []ErasAgree
<1>1. Safe /\ Followed => ErasAgree
  <2> SUFFICES ASSUME Safe, Followed PROVE ErasAgree
    OBVIOUS
  <2>1. conn.handshakes <= 1
    BY DEF Safe, ConnInv
  <2>2. QED
    BY <2>1 DEF Safe, ConnInv, Followed, LineFollows, ErasAgree
<1>2. QED
  BY <1>1, FollowedAlways, PTL

\* A host that meets this server fails only through a third party, and what it
\* has reported as done is confirmed, whatever is registered and requested meanwhile.
THEOREM SessionsAlwaysSucceed == Spec => []SessionsSucceed
<1>1. Followed => SessionsSucceed
  BY DEF Followed, OnCourse, Learned, SessionsSucceed
<1>2. QED
  BY <1>1, FollowedAlways, PTL

----------------------------------------------------------------------------
\* How far a session has come.  The stages are those of its host's code, in order.
Stage(a) ==
  CASE a = "discovering" -> 0
    [] a = "retrying" -> 1
    [] a = "initializing" -> 2
    [] a = "notifying" -> 3
    [] a = "listingLegacy" -> 4
    [] a = "listing" -> 5
    [] a = "deciding" -> 6
    [] a = "calling" -> 7
    [] a \in {"asking", "answering"} -> 8
    [] a = "confirming" -> 9
    [] OTHER -> 10

\* The next page of a listing that goes on begins further back, and inside the catalog.
NextPage ==
  /\ host.at = "listing" /\ host'.at = "listing"
  /\ listing.offset < listing'.offset /\ listing'.offset < Cardinality(Entries)

Advances == Stage(host.at) < Stage(host'.at) \/ NextPage

LEMMA NewPosition ==
  ASSUME Safe
  PROVE  /\ \A a : [host EXCEPT !.at = a].at = a
         /\ \A a, v : [host EXCEPT !.at = a, !.verdict = v].at = a
         /\ \A a, v : [host EXCEPT !.at = a, !.version = v].at = a
BY DEF Safe, TypeOK, Host

\* The era is detected in at most two discoveries: only the first leads to another.
LEMMA DetectionAdvances ==
  ASSUME Safe, NEW reply, host.at \in {"discovering", "retrying"}
  PROVE  Stage(host.at) < Stage(AfterDiscovery(reply).at)
<1>1. AfterDiscovery(reply).at \in {"listing", "failed", "initializing", "retrying"}
  BY NewPosition DEF AfterDiscovery
<1>2. host.at = "retrying" => AfterDiscovery(reply).at # "retrying" /\ AfterDiscovery(reply).at # "initializing"
  BY NewPosition DEF AfterDiscovery
<1>3. QED
  BY <1>1, <1>2 DEF Stage

\* The cursor of another page is behind the last one, and inside the catalog.
LEMMA PageAdvances ==
  ASSUME CatalogInv, ListPage, listing'.at = "paging"
  PROVE  listing.offset < listing'.offset /\ listing'.offset < Cardinality(Entries)
<1>1. /\ listing.offset \in Nat /\ PageSize \in Nat \ {0}
      /\ listing'.offset = listing.offset + PageSize
      /\ ~LastPage(published["tools"], listing.offset)
  BY CatalogAssumption DEF CatalogInv, CatalogTypeOK, Listing, ListPage, NextOffset
<1>2. /\ Cardinality(published["tools"]) \in Nat /\ Cardinality(Entries) \in Nat
      /\ Cardinality(published["tools"]) <= Cardinality(Entries)
  BY CatalogAssumption, FS_Subset, FS_CardinalityType DEF CatalogInv, CatalogTypeOK, Lists
<1>3. QED
  BY <1>1, <1>2 DEF LastPage

LEMMA HostAdvances ==
  ASSUME Safe, CatalogInv, HostStep
  PROVE  Advances
<1>0. host \in Host
  BY DEF Safe, TypeOK
<1>1. CASE Discover
  BY <1>1, DetectionAdvances DEF Discover, Advances
<1>2. CASE ForeignDiscovery
  <2>1. PICK reply \in Reply :
          host' = [AfterDiscovery(reply) EXCEPT !.excused = TRUE, !.at = IF @ = "listing" THEN "left" ELSE @]
    BY <1>2 DEF ForeignDiscovery
  <2>2. host'.at = IF AfterDiscovery(reply).at = "listing" THEN "left" ELSE AfterDiscovery(reply).at
    <3>1. AfterDiscovery(reply) \in Host
      BY DiscoveryType
    <3>2. QED
      BY <2>1, <3>1 DEF Host
  <2>3. Stage(host.at) < Stage(AfterDiscovery(reply).at) /\ Stage("listing") < Stage("left")
    BY <1>2, DetectionAdvances DEF ForeignDiscovery, Stage
  <2>4. QED
    BY <1>2, <2>2, <2>3 DEF ForeignDiscovery, Stage, Advances
<1>3. CASE Initialize \/ ForeignInitialize
  <2>1. host.at = "initializing" /\ host'.at \in {"failed", "notifying", "left"}
    BY <1>0, <1>3 DEF Initialize, ForeignInitialize, Onward, Host
  <2>2. QED
    BY <2>1 DEF Stage, Advances
<1>4. CASE Notify \/ ListLegacy
  <2>1. \/ host.at = "notifying" /\ host'.at = "listingLegacy"
        \/ host.at = "listingLegacy" /\ host'.at \in {"failed", "done"}
    BY <1>0, <1>4 DEF Notify, ListLegacy, Onward, Host
  <2>2. QED
    BY <2>1 DEF Stage, Advances
<1>5. CASE ListTools
  <2>1. host.at = "listing" /\ ListPage /\ listing'.at \in {"failed", "listed", "paging"}
    BY <1>5 DEF ListTools, ListPage
  <2>2. \/ host'.at \in {"failed", "deciding"}
        \/ host'.at = "listing" /\ listing'.at = "paging"
    BY <1>0, <1>5, <2>1 DEF ListTools, Onward, Host
  <2>3. QED
    BY <2>1, <2>2, PageAdvances DEF Stage, Advances, NextPage
<1>6. CASE Decide \/ NoDecision
  <2>1. host.at = "deciding" /\ host'.at \in {"failed", "calling"}
    BY <1>0, <1>6 DEF Decide, NoDecision, ModelFailed, Host
  <2>2. QED
    BY <2>1 DEF Stage, Advances
<1>7. CASE CallTool
  <2>1. host.at = "calling" /\ host'.at \in {"failed", "answering", "asking"}
    BY <1>0, <1>7 DEF CallTool, AfterModelCall, ModelFailed, Onward, Host
  <2>2. QED
    BY <2>1 DEF Stage, Advances
<1>8. CASE FinalTurn
  <2>1. host.at = "answering" /\ host'.at \in {"failed", "done"}
    BY <1>0, <1>8 DEF FinalTurn, ModelFailed, Host
  <2>2. QED
    BY <2>1 DEF Stage, Advances
<1>9. CASE AskToConfirm \/ Confirm
  <2>1. \/ host.at = "asking" /\ host'.at \in {"failed", "confirming"}
        \/ host.at = "confirming" /\ host'.at \in {"failed", "done"}
    BY <1>0, <1>9 DEF AskToConfirm, Confirm, Onward, Host
  <2>2. QED
    BY <2>1 DEF Stage, Advances
<1>10. QED
  BY <1>1, <1>2, <1>3, <1>4, <1>5, <1>6, <1>7, <1>8, <1>9 DEF HostStep

\* No step takes a session back, and none of its host leaves it where it is: it
\* goes to a later stage of its code or to a page further back in the catalog, so
\* that a session has at most one step for each stage and each page, whatever the
\* server, a model or other clients do and whatever is registered meanwhile.
THEOREM HostsAdvance == Spec => [][HostStep \/ host' # host => Advances]_vars
<1>1. Safe /\ CatalogInv /\ [Next]_vars => [HostStep \/ host' # host => Advances]_vars
  <2> SUFFICES ASSUME Safe, CatalogInv, Next, HostStep \/ host' # host PROVE Advances
    OBVIOUS
  <2>1. CASE HostStep
    BY <2>1, HostAdvances
  <2>2. CASE TransportFails
    <3>1. host.at \in Positions \ Over /\ host'.at = "failed"
      BY <2>2 DEF TransportFails, Safe, TypeOK, Host
    <3>2. QED
      BY <3>1 DEF Positions, Over, Stage, Advances
  <2>3. QED
    BY <2>1, <2>2 DEF Next, OtherOnLine, OtherOverHTTP, Publish
<1>2. QED
  BY <1>1, SessionSafeAlways, PTL DEF Spec

=============================================================================
