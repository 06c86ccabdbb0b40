---------------------------- MODULE OAuthProofs ----------------------------
(***************************************************************************)
(* Proofs about OAuth, for any number of concurrent calls, any scopes and  *)
(* any policy.                                                             *)
(*                                                                         *)
(* That three attempts are enough rests on what an unspoiled call knows:   *)
(* its second request carries a token for all it has asked for, so it can  *)
(* only be refused for scopes it did not know, and then it knows them all; *)
(* its third carries a token for those.  Other calls cannot disturb this,  *)
(* for a call sends the token it was given, not the one the store holds by *)
(* then, and the store always tells the scopes of a token truly.           *)
(***************************************************************************)
EXTENDS OAuth, TLAPS

Ended == {"served", "failed"}
Authorizing == {"discovering", "resolving", "enrolling", "browsing", "exchanging", "receiving"}

\* A call that is authorizing has an attempt left.
AttemptLeft == \A c \in Calls : at[c] \in Authorizing => attempt[c] < 2

\* A flow is granted a token once, at the end of its authorization.
GrantedInOrder ==
  \A c \in Calls, a \in Attempts :
    issued[<<c, a>>] # None =>
      a < attempt[c] \/ (a = attempt[c] /\ at[c] \in {"receiving"} \cup Ended)

\* Tokens in the store and in the hands of a call were issued.
TokensAreIssued ==
  /\ token # None => issued[token.id] # None /\ issued[token.id].scopes = token.scopes
  /\ \A c \in Calls : at[c] = "receiving" => issued[Flow(c)] # None
  /\ \A c \in Calls : bearer[c] # None => issued[bearer[c]] # None
  /\ \A c \in Calls : attempt[c] > 0 => bearer[c] # None

\* What an unspoiled call has and knows.
Unspoiled(c) ==
  /\ at[c] = "exchanging" => code[c] = clientID[c]
  /\ at[c] = "receiving" => issued[Flow(c)].scopes = wanted[c]
  /\ at[c] = "sending" /\ attempt[c] > 0 => wanted[c] \subseteq issued[bearer[c]].scopes
  /\ at[c] \in Authorizing /\ attempt[c] = 1 => Required[c] \subseteq wanted[c]
  /\ at[c] = "sending" /\ attempt[c] = 2 => Required[c] \subseteq wanted[c]

ClientKnown == \A c \in Calls : at[c] \in {"browsing", "exchanging"} => clientID[c] \in Calls

OAuthInv ==
  /\ TypeOK /\ AttemptLeft /\ GrantedInOrder /\ TokensAreIssued /\ ClientKnown
  /\ \A c \in Calls : c \notin spoiled => Unspoiled(c)
  /\ FailuresHaveACause

----------------------------------------------------------------------------
\* The calls start without a token.
LEMMA OAuthInvInit == Init => OAuthInv
<1> SUFFICES ASSUME Init PROVE OAuthInv
  OBVIOUS
<1> USE OAuthAssumption DEF Init, Attempts, MaxAttempts
<1>1. TypeOK
  BY DEF TypeOK, Times, Points, HostToken, Expiries
<1>2. AttemptLeft /\ GrantedInOrder /\ TokensAreIssued /\ ClientKnown /\ FailuresHaveACause
  BY DEF AttemptLeft, GrantedInOrder, TokensAreIssued, ClientKnown, FailuresHaveACause,
         Authorizing, Flows
<1>3. \A c \in Calls : c \notin spoiled => Unspoiled(c)
  BY DEF Unspoiled, Authorizing
<1>4. QED
  BY <1>1, <1>2, <1>3 DEF OAuthInv

----------------------------------------------------------------------------
\* Types, one action at a time.
LEMMA TypeStep == ASSUME OAuthInv, [Next]_vars PROVE TypeOK'
<1> USE OAuthAssumption DEF OAuthInv, TypeOK, Goto, Spoil, callVars, storeVars, Attempts, MaxAttempts, Times, Expiries
<1>1. ASSUME NEW c \in Calls, Served(c) PROVE TypeOK'
  BY <1>1 DEF Served, Points, AttemptLeft, Authorizing
<1>2. ASSUME NEW c \in Calls, Refused(c) PROVE TypeOK'
  BY <1>2 DEF Refused, Points, AttemptLeft, Authorizing, Last, Challenged
<1>3. ASSUME NEW c \in Calls, UseStoredToken(c) PROVE TypeOK'
  BY <1>3 DEF UseStoredToken, Points, AttemptLeft, Authorizing, Usable, NextAttempt, HostToken
<1>4. ASSUME NEW c \in Calls, StartFlow(c) PROVE TypeOK'
  BY <1>4 DEF StartFlow, Points, AttemptLeft, Authorizing, Usable
<1>5. ASSUME NEW c \in Calls, FindClient(c) PROVE TypeOK'
  BY <1>5 DEF FindClient, Points, AttemptLeft, Authorizing, OpenBrowser
<1>6. ASSUME NEW c \in Calls, Enroll(c) PROVE TypeOK'
  BY <1>6 DEF Enroll, Points, AttemptLeft, Authorizing, OpenBrowser
<1>7. ASSUME NEW c \in Calls, Deny(c) PROVE TypeOK'
  BY <1>7 DEF Deny, Points, AttemptLeft, Authorizing, FormClient
<1>8. ASSUME NEW c \in Calls, Receive(c) PROVE TypeOK'
  <2>1. Flow(c) \in Flows /\ issued[Flow(c)] \in Claims /\ attempt[c] + 1 \in Attempts
    BY <1>8 DEF Receive, Flow, Flows, TokensAreIssued, AttemptLeft, Authorizing
  <2>2. issued[Flow(c)].scopes \in SUBSET Scopes /\ issued[Flow(c)].lifetime \in Nat
    BY <2>1 DEF Claims
  <2>3. now + issued[Flow(c)].lifetime \in Nat
    BY <2>2
  <2>4. token' \in HostToken
    BY <1>8, <2>1, <2>2, <2>3 DEF Receive, HostToken
  <2>5. QED
    BY <1>8, <2>1, <2>4 DEF Receive, Points, NextAttempt
<1>9. ASSUME NEW c \in Calls, StepFails(c) PROVE TypeOK'
  BY <1>9 DEF StepFails, Points, AttemptLeft, Authorizing, Fail, Drop
<1>10. ASSUME NEW c \in Calls, NEW cb \in Callbacks, Callback(c, cb) PROVE TypeOK'
  BY <1>10 DEF Callback, Callbacks, Drop, Flow, Flows, Points
<1>11. ASSUME NEW c \in Calls, NEW cb \in Callbacks, CallbackRejected(c, cb) PROVE TypeOK'
  BY <1>11 DEF CallbackRejected, Fail, Drop, Points
<1>12. ASSUME NEW c \in Calls, NEW granted \in SUBSET wanted[c], NEW lifetime \in Lifetimes,
              Grant(c, granted, lifetime)
       PROVE  TypeOK'
  BY <1>12 DEF Grant, Claims, Flow, Flows, Points
<1>13. CASE Tick
  BY <1>13 DEF Tick
<1>14. ASSUME NEW f \in Flows, Revoke(f) PROVE TypeOK'
  <2>1. issued[f] \in Claims
    BY <1>14 DEF Revoke
  <2>2. [issued[f] EXCEPT !.active = FALSE] \in Claims
    BY <2>1 DEF Claims
  <2>3. issued' \in [Flows -> Claims \cup {None}]
    BY <1>14, <2>2 DEF Revoke
  <2>4. QED
    BY <1>14, <2>3 DEF Revoke
<1>15. CASE UNCHANGED vars
  BY <1>15 DEF vars
<1> HIDE DEF OAuthInv, TypeOK, Goto, Spoil, callVars, storeVars, Attempts, MaxAttempts, Times, Expiries
<1>16. QED
  BY <1>1, <1>2, <1>3, <1>4, <1>5, <1>6, <1>7, <1>8, <1>9, <1>10, <1>11, <1>12, <1>13, <1>14, <1>15
     DEF Next, Step

----------------------------------------------------------------------------
\* No token was granted for the flow whose code is being exchanged.
LEMMA NotYetGranted ==
  ASSUME OAuthInv, NEW c \in Calls, at[c] = "exchanging"
  PROVE  Flow(c) \in Flows /\ issued[Flow(c)] = None
<1>1. attempt[c] \in Attempts
  BY DEF OAuthInv, TypeOK
<1>2. ~(attempt[c] < attempt[c])
  BY <1>1 DEF Attempts, MaxAttempts
<1>3. QED
  BY <1>1, <1>2 DEF OAuthInv, GrantedInOrder, Flow, Flows, Ended

\* The rest of the invariant, but for the calls that end in failure.
Rest ==
  /\ AttemptLeft /\ GrantedInOrder /\ TokensAreIssued /\ ClientKnown
  /\ \A c \in Calls : c \notin spoiled => Unspoiled(c)
  /\ FailuresHaveACause

LEMMA RestStep == ASSUME OAuthInv, [Next]_vars PROVE Rest'
<1>0. TypeOK /\ TypeOK'
  BY TypeStep DEF OAuthInv
<1> USE OAuthAssumption, <1>0 DEF OAuthInv, TypeOK, Rest, Goto, Spoil, callVars, storeVars, Attempts,
        MaxAttempts, AttemptLeft, GrantedInOrder, TokensAreIssued, ClientKnown, Unspoiled,
        FailuresHaveACause, Authorizing, Ended, Flow, Flows
<1>1. ASSUME NEW c \in Calls, Served(c) PROVE Rest'
  BY <1>1 DEF Served
<1>2. ASSUME NEW c \in Calls, Refused(c) PROVE Rest'
  <2>1. AttemptLeft'
    BY <1>2 DEF Refused, Last, Challenged, Forbidden, Unauthorized
  <2>2. GrantedInOrder'
    <3>1. ASSUME NEW d \in Calls, NEW a \in Attempts, issued[<<d, a>>] # None
          PROVE  a < attempt'[d] \/ (a = attempt'[d] /\ at'[d] \in {"receiving"} \cup Ended)
      <4>1. a < attempt[d] \/ (a = attempt[d] /\ at[d] \in {"receiving"} \cup Ended)
        BY <3>1
      <4>2. QED
        BY <1>2, <4>1 DEF Refused
    <3>2. issued' = issued
      BY <1>2 DEF Refused
    <3>3. QED
      BY <3>1, <3>2
  <2>3. TokensAreIssued'
    BY <1>2 DEF Refused, Last, Challenged, Forbidden, Unauthorized
  <2>4. ClientKnown'
    BY <1>2 DEF Refused, Last, Challenged, Forbidden, Unauthorized
  <2>5. FailuresHaveACause'
    <3>1. ASSUME c \notin spoiled', Last(c) PROVE FALSE
      <4>1. attempt[c] = 2 /\ bearer[c] # None
        BY <3>1 DEF Last
      <4>2. c \notin spoiled /\ ~Unauthorized(c)
        BY <1>2, <3>1, <4>1 DEF Refused
      <4>3. Unspoiled(c) /\ at[c] = "sending"
        BY <1>2, <4>2 DEF Refused
      <4>4. QED
        BY <1>2, <4>1, <4>2, <4>3 DEF Refused, Forbidden
    <3>2. QED
      BY <1>2, <3>1 DEF Refused
  <2>6. \A d \in Calls : d \notin spoiled' => Unspoiled(d)'
    BY <1>2 DEF Refused, Last, Challenged, Forbidden, Unauthorized
  <2>7. QED
    BY <2>1, <2>2, <2>3, <2>4, <2>5, <2>6
<1>3. ASSUME NEW c \in Calls, UseStoredToken(c) PROVE Rest'
  BY <1>3 DEF UseStoredToken, Usable, NextAttempt, HostToken
<1>4. ASSUME NEW c \in Calls, StartFlow(c) PROVE Rest'
  BY <1>4 DEF StartFlow
<1>5. ASSUME NEW c \in Calls, FindClient(c) PROVE Rest'
  <2>1. AttemptLeft'
    BY <1>5 DEF FindClient, OpenBrowser
  <2>2. GrantedInOrder'
    <3>1. ASSUME NEW d \in Calls, NEW a \in Attempts, issued[<<d, a>>] # None
          PROVE  a < attempt'[d] \/ (a = attempt'[d] /\ at'[d] \in {"receiving"} \cup Ended)
      <4>1. a < attempt[d] \/ (a = attempt[d] /\ at[d] \in {"receiving"} \cup Ended)
        BY <3>1
      <4>2. QED
        BY <1>5, <4>1 DEF FindClient, OpenBrowser
    <3>2. issued' = issued
      BY <1>5 DEF FindClient, OpenBrowser
    <3>3. QED
      BY <3>1, <3>2
  <2>3. TokensAreIssued'
    BY <1>5 DEF FindClient, OpenBrowser
  <2>4. ClientKnown'
    BY <1>5 DEF FindClient, OpenBrowser
  <2>5. FailuresHaveACause'
    BY <1>5 DEF FindClient, OpenBrowser
  <2>6. \A d \in Calls : d \notin spoiled' => Unspoiled(d)'
    BY <1>5 DEF FindClient, OpenBrowser
  <2>7. QED
    BY <2>1, <2>2, <2>3, <2>4, <2>5, <2>6
<1>6. ASSUME NEW c \in Calls, Enroll(c) PROVE Rest'
  BY <1>6 DEF Enroll, OpenBrowser
<1>7. ASSUME NEW c \in Calls, Deny(c) PROVE Rest'
  <2>1. AttemptLeft'
    BY <1>7 DEF Deny, FormClient
  <2>2. GrantedInOrder'
    BY <1>7 DEF Deny, FormClient
  <2>3. TokensAreIssued'
    BY <1>7 DEF Deny, FormClient
  <2>4. ClientKnown'
    BY <1>7 DEF Deny, FormClient
  <2>5. FailuresHaveACause'
    BY <1>7 DEF Deny, FormClient
  <2>6. \A d \in Calls : d \notin spoiled' => Unspoiled(d)'
    BY <1>7 DEF Deny, FormClient
  <2>7. QED
    BY <2>1, <2>2, <2>3, <2>4, <2>5, <2>6
<1>8. ASSUME NEW c \in Calls, Receive(c) PROVE Rest'
  <2>1. AttemptLeft'
    BY <1>8 DEF Receive, NextAttempt, HostToken, Claims
  <2>2. GrantedInOrder'
    <3>1. ASSUME NEW d \in Calls, NEW a \in Attempts, issued[<<d, a>>] # None
          PROVE  a < attempt'[d] \/ (a = attempt'[d] /\ at'[d] \in {"receiving"} \cup Ended)
      <4>1. a < attempt[d] \/ (a = attempt[d] /\ at[d] \in {"receiving"} \cup Ended)
        BY <3>1
      <4>2. QED
        BY <1>8, <4>1 DEF Receive, NextAttempt
    <3>2. issued' = issued
      BY <1>8 DEF Receive, NextAttempt
    <3>3. QED
      BY <3>1, <3>2
  <2>3. TokensAreIssued'
    BY <1>8 DEF Receive, NextAttempt, HostToken, Claims
  <2>4. ClientKnown'
    BY <1>8 DEF Receive, NextAttempt, HostToken, Claims
  <2>5. FailuresHaveACause'
    BY <1>8 DEF Receive, NextAttempt, HostToken, Claims
  <2>6. \A d \in Calls : d \notin spoiled' => Unspoiled(d)'
    BY <1>8, SMTT(60) DEF Receive, NextAttempt, HostToken, Claims
  <2>7. QED
    BY <2>1, <2>2, <2>3, <2>4, <2>5, <2>6
<1>9. ASSUME NEW c \in Calls, StepFails(c) PROVE Rest'
  BY <1>9 DEF StepFails, Fail, Drop
<1>10. ASSUME NEW c \in Calls, NEW cb \in Callbacks, Callback(c, cb) PROVE Rest'
  BY <1>10 DEF Callback, Callbacks, Drop, Honest
<1>11. ASSUME NEW c \in Calls, NEW cb \in Callbacks, CallbackRejected(c, cb) PROVE Rest'
  BY <1>11 DEF CallbackRejected, Fail, Drop
<1>12. ASSUME NEW c \in Calls, NEW granted \in SUBSET wanted[c], NEW lifetime \in Lifetimes,
              Grant(c, granted, lifetime)
       PROVE  Rest'
  <2>1. AttemptLeft'
    BY <1>12 DEF Grant, Claims
  <2>2. GrantedInOrder'
    <3>1. \A g \in Flows : g # Flow(c) => issued'[g] = issued[g]
      BY <1>12 DEF Grant
    <3>2. at'[c] = "receiving" /\ attempt' = attempt /\ \A d \in Calls \ {c} : at'[d] = at[d]
      BY <1>12 DEF Grant
    <3>3. SUFFICES ASSUME NEW d \in Calls, NEW a \in Attempts, issued'[<<d, a>>] # None
                   PROVE  a < attempt[d] \/ (a = attempt[d] /\ at'[d] \in {"receiving"} \cup Ended)
      BY <3>2 DEF GrantedInOrder
    <3>4. CASE <<d, a>> = Flow(c)
      BY <3>2, <3>4 DEF Flow
    <3>5. CASE <<d, a>> # Flow(c)
      <4>1. issued[<<d, a>>] # None
        BY <3>1, <3>3, <3>5 DEF Flows
      <4>2. a < attempt[d] \/ (a = attempt[d] /\ at[d] \in {"receiving"} \cup Ended)
        BY <4>1 DEF GrantedInOrder
      <4>3. QED
        BY <3>2, <4>2
    <3>6. QED
      BY <3>4, <3>5
  <2>3. TokensAreIssued'
    <3>1. Flow(c) \in Flows /\ issued[Flow(c)] = None
      <4>1. at[c] = "exchanging"
        BY <1>12 DEF Grant
      <4>2. QED
        BY <4>1, NotYetGranted
    <3>2. \A g \in Flows : issued[g] # None => issued'[g] = issued[g]
      BY <1>12, <3>1 DEF Grant
    <3>3. issued'[Flow(c)] # None
      <4>1. now + lifetime \in Nat
        BY OAuthAssumption DEF Times
      <4>2. [scopes |-> granted, expires |-> now + lifetime, lifetime |-> lifetime, active |-> TRUE] \in Claims
        BY <4>1 DEF Claims, Expiries
      <4>3. QED
        BY <1>12, <3>1, <4>2 DEF Grant
    <3>4. QED
      BY <1>12, <3>2, <3>3 DEF Grant, HostToken
  <2>4. ClientKnown'
    BY <1>12 DEF Grant, Claims
  <2>5. FailuresHaveACause'
    BY <1>12 DEF Grant, Claims
  <2>6. \A d \in Calls : d \notin spoiled' => Unspoiled(d)'
    <3>1. Flow(c) \in Flows /\ issued[Flow(c)] = None
      <4>1. at[c] = "exchanging"
        BY <1>12 DEF Grant
      <4>2. QED
        BY <4>1, NotYetGranted
    <3>2. \A g \in Flows : issued[g] # None => issued'[g] = issued[g]
      BY <1>12, <3>1 DEF Grant
    <3>3. issued'[Flow(c)].scopes = granted
      BY <1>12, <3>1 DEF Grant
    <3>4. ASSUME NEW d \in Calls, d # c, d \notin spoiled' PROVE Unspoiled(d)'
      <4>1. Unspoiled(d)
        BY <1>12, <3>4 DEF Grant
      <4>2. at[d] = "receiving" => issued'[Flow(d)] = issued[Flow(d)]
        BY <3>2
      <4>3. bearer[d] # None => issued'[bearer[d]] = issued[bearer[d]]
        BY <3>2
      <4>4. QED
        BY <1>12, <3>4, <4>1, <4>2, <4>3 DEF Grant
    <3>5. c \notin spoiled' => Unspoiled(c)'
      BY <1>12, <3>3 DEF Grant
    <3>6. QED
      BY <3>4, <3>5, ZenonT(60)
  <2>7. QED
    BY <2>1, <2>2, <2>3, <2>4, <2>5, <2>6
<1>13. CASE Tick
  BY <1>13 DEF Tick
<1>14. ASSUME NEW f \in Flows, Revoke(f) PROVE Rest'
  <2>1. AttemptLeft'
    BY <1>14 DEF Revoke, Claims
  <2>2. GrantedInOrder'
    <3>1. \A g \in Flows : issued'[g] # None => issued[g] # None
      BY <1>14 DEF Revoke
    <3>2. attempt' = attempt /\ at' = at
      BY <1>14 DEF Revoke
    <3>3. QED
      BY <3>1, <3>2, ZenonT(60)
  <2>3. TokensAreIssued'
    <3>1. \A g \in Flows : issued[g] # None => issued'[g] # None /\ issued'[g].scopes = issued[g].scopes
      <4>1. issued[f] \in Claims
        BY <1>14 DEF Revoke
      <4>2. [issued[f] EXCEPT !.active = FALSE] \in Claims
        BY <4>1 DEF Claims
      <4>3. issued'[f] \in Claims
        BY <1>14, <4>2 DEF Revoke
      <4>4. issued'[f] # None
        BY <4>3
      <4>5. issued'[f].scopes = issued[f].scopes
        BY <1>14, <4>1 DEF Revoke, Claims
      <4>6. QED
        BY <1>14, <4>4, <4>5 DEF Revoke
    <3>2. QED
      BY <1>14, <3>1 DEF Revoke, HostToken
  <2>4. ClientKnown'
    BY <1>14 DEF Revoke, Claims
  <2>5. FailuresHaveACause'
    BY <1>14 DEF Revoke, Claims
  <2>6. \A d \in Calls : d \notin spoiled' => Unspoiled(d)'
    BY <1>14 DEF Revoke, Claims
  <2>7. QED
    BY <2>1, <2>2, <2>3, <2>4, <2>5, <2>6
<1>15. CASE UNCHANGED vars
  BY <1>15 DEF vars
<1> HIDE DEF OAuthInv, TypeOK, Rest, Goto, Spoil, callVars, storeVars, Attempts, MaxAttempts
<1>16. QED
  BY <1>1, <1>2, <1>3, <1>4, <1>5, <1>6, <1>7, <1>8, <1>9, <1>10, <1>11, <1>12, <1>13, <1>14, <1>15
     DEF Next, Step

----------------------------------------------------------------------------
\* The invariant holds throughout.
THEOREM OAuthInvariant == Spec => []OAuthInv
<1>1. OAuthInv /\ [Next]_vars => OAuthInv'
  BY TypeStep, RestStep DEF OAuthInv, Rest
<1>2. QED
  BY OAuthInvInit, <1>1, PTL DEF Spec

\* Types; a call never makes a fourth attempt.
THEOREM TypeCorrect == Spec => []TypeOK
<1>1. OAuthInv => TypeOK
  BY DEF OAuthInv
<1>2. QED
  BY <1>1, OAuthInvariant, PTL

\* OAuthHost.Do fails for reasons outside the host only, for any number of
\* concurrent calls with any scopes.
THEOREM ThreeAttemptsSuffice == Spec => []FailuresHaveACause
<1>1. OAuthInv => FailuresHaveACause
  BY DEF OAuthInv
<1>2. QED
  BY <1>1, OAuthInvariant, PTL

----------------------------------------------------------------------------
\* Callbacks are checked before their code goes out.
THEOREM CodesAreBound == Spec => []CodesStayInTheirFlow
<1>1. Init => CodesStayInTheirFlow
  BY DEF Init, CodesStayInTheirFlow
<1>2. CodesStayInTheirFlow /\ [Next]_vars => CodesStayInTheirFlow'
  <2> SUFFICES ASSUME CodesStayInTheirFlow, [Next]_vars PROVE CodesStayInTheirFlow'
    OBVIOUS
  <2>1. ASSUME NEW c \in Calls, NEW cb \in Callbacks, Callback(c, cb) PROVE CodesStayInTheirFlow'
    BY <2>1 DEF Callback, Acceptable, CodesStayInTheirFlow, Callbacks
  <2>2. CASE redeemed' = redeemed
    BY <2>2 DEF CodesStayInTheirFlow
  <2>3. (\E c \in Calls, cb \in Callbacks : Callback(c, cb)) \/ redeemed' = redeemed
    BY DEF Next, Step, vars, Served, Refused, UseStoredToken, StartFlow, FindClient, Enroll, OpenBrowser,
           Deny, Receive, StepFails, CallbackRejected, Grant, Tick, Revoke
  <2>4. QED
    BY <2>1, <2>2, <2>3
<1>3. QED
  BY <1>1, <1>2, PTL DEF Spec

\* No flow outlives its authorization in the store.
THEOREM NoFlowIsLeft == Spec => []NoFlowLeft
<1> DEFINE FlowInv == pending \in [Calls -> Nat \cup {None}] /\ at \in [Calls -> Points] /\ NoFlowLeft
<1>1. Init => FlowInv
  BY DEF Init, NoFlowLeft, Points
<1>2. OAuthInv /\ OAuthInv' /\ FlowInv /\ [Next]_vars => FlowInv'
  <2> SUFFICES ASSUME OAuthInv, OAuthInv', FlowInv, [Next]_vars PROVE NoFlowLeft'
    BY DEF OAuthInv, TypeOK, Expiries
  <2> USE DEF NoFlowLeft, Goto
  <2>1. ASSUME NEW c \in Calls, Step(c) PROVE NoFlowLeft'
    <3>1. CASE \E id \in Calls \cup {None} : OpenBrowser(c, id)
      BY <3>1 DEF OpenBrowser
    <3>2. CASE pending' = Drop(c)
      <4>1. \A d \in Calls : d # c => at'[d] = at[d]
        BY <2>1, <3>2 DEF Step, Served, Refused, UseStoredToken, StartFlow, FindClient, Enroll,
                          OpenBrowser, Deny, Receive, StepFails, Fail, Callback, CallbackRejected, Grant
      <4>2. QED
        BY <3>2, <4>1 DEF Drop
    <3>3. CASE pending' = pending /\ at[c] # "browsing"
      <4>1. \A d \in Calls : d # c => at'[d] = at[d]
        BY <2>1 DEF Step, Served, Refused, UseStoredToken, StartFlow, FindClient, Enroll,
                          OpenBrowser, Deny, Receive, StepFails, Fail, Callback, CallbackRejected, Grant
      <4>2. QED
        BY <3>3, <4>1
    <3>4. QED
      BY <2>1, <3>1, <3>2, <3>3
         DEF Step, Served, Refused, UseStoredToken, StartFlow, FindClient, Enroll, Deny, Receive,
             StepFails, Fail, Callback, CallbackRejected, Grant, storeVars, OAuthInv, TypeOK
  <2>2. CASE Tick \/ (\E f \in Flows : Revoke(f)) \/ UNCHANGED vars
    BY <2>2 DEF Tick, Revoke, vars, storeVars, callVars
  <2>3. QED
    BY <2>1, <2>2 DEF Next
<1>3. QED
  <2>1. FlowInv => NoFlowLeft
    OBVIOUS
  <2>2. QED
    BY <1>1, <1>2, <2>1, OAuthInvariant, PTL DEF Spec

\* Whatever the callbacks are and however an authorization ends.
THEOREM SoundFlows == Spec => []FlowsAreSound
<1>1. CodesStayInTheirFlow /\ NoFlowLeft => FlowsAreSound
  BY DEF FlowsAreSound
<1>2. QED
  BY <1>1, CodesAreBound, NoFlowIsLeft, PTL

----------------------------------------------------------------------------
(***************************************************************************)
(* The refinement of AuthorizedCalls.                                      *)
(***************************************************************************)

\* Where a call goes is where its promise goes.
LEMMA PhaseMoves ==
  ASSUME TypeOK, NEW c \in Calls, NEW point \in Points, Goto(c, point)
  PROVE  Phases' = [Phases EXCEPT ![c] = PhaseAt(point)]
BY DEF TypeOK, Goto, Phases

\* The scopes of a token are fixed when it is issued: whatever becomes of the store
\* and of the other tokens, a call that keeps its token keeps its scopes.
LEMMA ScopesKept ==
  ASSUME OAuthInv, UNCHANGED bearer,
         \A g \in Flows : issued[g] # None => issued'[g] # None /\ issued'[g].scopes = issued[g].scopes
  PROVE  UNCHANGED HeldScopes
<1>1. \A c \in Calls : bearer[c] # None => bearer[c] \in Flows /\ issued[bearer[c]] # None
  BY DEF OAuthInv, TypeOK, TokensAreIssued
<1>2. QED
  BY <1>1 DEF HeldScopes

\* The token endpoint grants a token for a flow that has none.
LEMMA GrantKeepsScopes ==
  ASSUME OAuthInv, NEW c \in Calls, NEW granted \in SUBSET wanted[c], NEW lifetime \in Lifetimes,
         Grant(c, granted, lifetime)
  PROVE  \A g \in Flows : issued[g] # None => issued'[g] # None /\ issued'[g].scopes = issued[g].scopes
<1>1. Flow(c) \in Flows /\ issued[Flow(c)] = None
  BY NotYetGranted DEF Grant
<1>2. issued \in [Flows -> Claims \cup {None}]
  BY DEF OAuthInv, TypeOK
<1>3. QED
  BY <1>1, <1>2 DEF Grant

\* A token that is revoked keeps its scopes.
LEMMA RevokeKeepsScopes ==
  ASSUME OAuthInv, OAuthInv', NEW f \in Flows, Revoke(f)
  PROVE  \A g \in Flows : issued[g] # None => issued'[g] # None /\ issued'[g].scopes = issued[g].scopes
<1>1. issued \in [Flows -> Claims \cup {None}] /\ None \notin Claims
  BY OAuthAssumption DEF OAuthInv, TypeOK
<1>2. issued[f] \in Claims
  BY <1>1 DEF Revoke
<1>3. [issued[f] EXCEPT !.active = FALSE] \in Claims
  BY <1>2 DEF Claims
<1>4. [issued[f] EXCEPT !.active = FALSE].scopes = issued[f].scopes
  BY <1>2 DEF Claims
<1>5. QED
  BY <1>1, <1>3, <1>4 DEF Revoke

\* The answer of the server: a call is served with the scopes the server demands,
\* and refused for the last time only if it has an excuse.
LEMMA AnswerKeepsPromise ==
  ASSUME OAuthInv, OAuthInv', NEW c \in Calls, Served(c) \/ Refused(c)
  PROVE  Promise!Next
<1> USE OAuthAssumption DEF Attempts, MaxAttempts, Points
<1>1. TypeOK /\ at[c] = "sending" /\ UNCHANGED <<attempt, bearer, issued>>
  BY DEF OAuthInv, Served, Refused
<1>2. Phases[c] = "requesting" /\ UNCHANGED HeldScopes
  BY <1>1 DEF Phases, PhaseAt, HeldScopes
<1>3. CASE Served(c)
  <2>1. Promise!Move(c, {"requesting"}, "served")
    BY <1>1, <1>2, <1>3, PhaseMoves DEF Served, Promise!Move, PhaseAt
  <2>2. Required[c] \subseteq HeldScopes[c]
    BY <1>3 DEF Served, Forbidden, Unauthorized, HeldScopes
  <2>3. Promise!Serve(c)
    BY <1>1, <1>2, <1>3, <2>1, <2>2 DEF Served, Promise!Serve
  <2>4. QED
    BY <2>3 DEF Promise!Next
<1>4. CASE Refused(c) /\ ~Last(c)
  <2>1. Promise!Move(c, {"requesting"}, "authorizing")
    BY <1>1, <1>2, <1>4, PhaseMoves DEF Refused, Promise!Move, PhaseAt
  <2>2. attempt[c] < MaxAttempts - 1
    BY <1>1, <1>4 DEF Last, TypeOK
  <2>3. wanted' \in {wanted, [wanted EXCEPT ![c] = @ \cup Required[c]]}
    <3>1. wanted \in [Calls -> SUBSET Scopes] /\ wanted' = [wanted EXCEPT ![c] = @ \cup Challenged(c)]
      BY <1>1, <1>4 DEF Refused, TypeOK
    <3>2. CASE Forbidden(c)
      BY <3>1, <3>2 DEF Challenged
    <3>3. CASE ~Forbidden(c)
      BY <3>1, <3>3 DEF Challenged
    <3>4. QED
      BY <3>2, <3>3
  <2>4. Promise!Refuse(c)
    BY <1>1, <1>2, <1>4, <2>1, <2>2, <2>3 DEF Refused, Spoil, Promise!Refuse
  <2>5. QED
    BY <2>4 DEF Promise!Next
<1>5. CASE Refused(c) /\ Last(c)
  <2>1. Promise!Move(c, {"requesting", "authorizing"}, "failed") /\ at'[c] = "failed"
    BY <1>1, <1>2, <1>5, PhaseMoves DEF Refused, Promise!Move, PhaseAt, Goto, TypeOK
  <2>2. spoiled' = spoiled \cup {c}
    BY <1>5, <2>1 DEF Refused, Spoil, OAuthInv, FailuresHaveACause
  <2>3. Promise!Fail(c)
    BY <1>1, <1>2, <1>5, <2>1, <2>2 DEF Refused, Promise!Fail
  <2>4. QED
    BY <2>3 DEF Promise!Next
<1>6. QED
  BY <1>3, <1>4, <1>5

\* The two ends of a successful authorization: a call without an excuse gets a token
\* for all it wants, from the store or for its own flow.
LEMMA TokenKeepsPromise ==
  ASSUME OAuthInv, NEW c \in Calls, UseStoredToken(c) \/ Receive(c)
  PROVE  Promise!Next
<1> USE OAuthAssumption
<1>1. TypeOK /\ TokensAreIssued /\ UNCHANGED <<wanted, issued, spoiled>>
  BY DEF OAuthInv, UseStoredToken, Receive
<1>2. Promise!Move(c, {"authorizing"}, "requesting")
  BY <1>1, PhaseMoves DEF UseStoredToken, Receive, Promise!Move, Phases, PhaseAt, Points
<1>3. attempt' = [attempt EXCEPT ![c] = @ + 1]
  BY DEF UseStoredToken, Receive, NextAttempt
<1>4. PICK f \in Flows : /\ bearer' = [bearer EXCEPT ![c] = f] /\ issued[f] # None
                         /\ c \notin spoiled => wanted[c] \subseteq issued[f].scopes
  <2>1. CASE UseStoredToken(c)
    <3>1. token.id \in Flows /\ issued[token.id] # None /\ wanted[c] \subseteq issued[token.id].scopes
      BY <1>1, <2>1 DEF UseStoredToken, Usable, TypeOK, TokensAreIssued, HostToken
    <3>2. QED
      BY <2>1, <3>1 DEF UseStoredToken
  <2>2. CASE Receive(c)
    <3>1. Flow(c) \in Flows /\ issued[Flow(c)] # None
      BY <1>1, <2>2 DEF Receive, TokensAreIssued, TypeOK, Flow, Flows
    <3>2. c \notin spoiled => issued[Flow(c)].scopes = wanted[c]
      BY <2>2 DEF Receive, OAuthInv, Unspoiled
    <3>3. QED
      BY <2>2, <3>1, <3>2 DEF Receive
  <2>3. QED
    BY <2>1, <2>2
<1>5. issued[f].scopes \in SUBSET Scopes /\ f # None
  BY <1>1, <1>4 DEF TypeOK, Claims
<1>6. HeldScopes' = [HeldScopes EXCEPT ![c] = issued[f].scopes]
  BY <1>1, <1>4, <1>5 DEF HeldScopes, TypeOK
<1>7. Promise!Replay(c, issued[f].scopes)
  BY <1>1, <1>2, <1>3, <1>4, <1>6 DEF Promise!Replay
<1>8. QED
  BY <1>5, <1>7 DEF Promise!Next

\* The steps in between give the call an excuse, end it with one, or do nothing that
\* its caller could tell.
LEMMA FlowKeepsPromise ==
  ASSUME OAuthInv, OAuthInv', NEW c \in Calls, Step(c), ~(Served(c) \/ Refused(c) \/ UseStoredToken(c) \/ Receive(c))
  PROVE  [Promise!Next]_Promise!promised
<1> USE DEF Points
<1>1. TypeOK
  BY DEF OAuthInv
<1>2. UNCHANGED <<attempt, wanted, bearer>> /\ spoiled' \in {spoiled, spoiled \cup {c}}
  BY DEF Step, StartFlow, FindClient, Enroll, OpenBrowser, Deny, StepFails, Fail, Callback,
         CallbackRejected, Grant, Spoil
<1>3. UNCHANGED HeldScopes
  <2>1. CASE UNCHANGED issued
    BY <1>2, <2>1 DEF HeldScopes
  <2>2. ASSUME NEW granted \in SUBSET wanted[c], NEW lifetime \in Lifetimes, Grant(c, granted, lifetime)
        PROVE  UNCHANGED HeldScopes
    BY <1>2, <2>2, GrantKeepsScopes, ScopesKept
  <2>3. QED
    BY <2>1, <2>2 DEF Step, StartFlow, FindClient, Enroll, OpenBrowser, Deny, StepFails, Callback,
                      CallbackRejected
<1>4. CASE Goto(c, "failed")
  <2>1. at[c] \notin {"served", "failed"} /\ at'[c] = "failed"
    BY <1>1, <1>4 DEF Step, StartFlow, FindClient, Enroll, OpenBrowser, Deny, StepFails, Callback,
                      CallbackRejected, Grant, Goto, TypeOK
  <2>2. Promise!Move(c, {"requesting", "authorizing"}, "failed")
    BY <1>1, <1>4, <2>1, PhaseMoves DEF Promise!Move, Phases, PhaseAt
  <2>3. spoiled' = spoiled \cup {c}
    BY <1>2, <2>1 DEF OAuthInv, FailuresHaveACause
  <2>4. Promise!Fail(c)
    BY <1>2, <1>3, <2>2, <2>3 DEF Promise!Fail
  <2>5. QED
    BY <2>4 DEF Promise!Next
<1>5. CASE ~Goto(c, "failed")
  <2>1. PICK point \in Authorizing : at[c] \in Authorizing /\ Goto(c, point)
    BY <1>5 DEF Step, StartFlow, FindClient, Enroll, OpenBrowser, Deny, StepFails, Fail, Callback,
                CallbackRejected, Grant, Authorizing
  <2>2. Phases[c] = "authorizing" /\ UNCHANGED Phases
    BY <1>1, <2>1, PhaseMoves DEF Phases, PhaseAt, Authorizing, Goto, TypeOK
  <2>3. Promise!Excuse(c) \/ UNCHANGED Promise!promised
    BY <1>2, <1>3, <2>2 DEF Promise!Excuse, Promise!promised
  <2>4. QED
    BY <2>3 DEF Promise!Next
<1>6. QED
  BY <1>4, <1>5

\* For any number of concurrent calls and whatever the store holds, OAuthHost.Do keeps
\* its promise to each caller as if that were the only one.
THEOREM EachCallAsIfAlone == Spec => ImplementsCalls
<1>1. Init => Promise!Init
  BY OAuthAssumption DEF Init, Promise!Init, Phases, PhaseAt, HeldScopes
<1>2. OAuthInv /\ OAuthInv' /\ [Next]_vars => [Promise!Next]_Promise!promised
  <2> SUFFICES ASSUME OAuthInv, OAuthInv', [Next]_vars PROVE [Promise!Next]_Promise!promised
    OBVIOUS
  <2>1. CASE \E c \in Calls : Step(c)
    BY <2>1, AnswerKeepsPromise, TokenKeepsPromise, FlowKeepsPromise
  <2>2. ASSUME NEW f \in Flows, Revoke(f) PROVE UNCHANGED Promise!promised
    <3>1. UNCHANGED HeldScopes
      BY <2>2, RevokeKeepsScopes, ScopesKept DEF Revoke, callVars
    <3>2. QED
      BY <2>2, <3>1 DEF Revoke, callVars, Phases, Promise!promised
  <2>3. CASE Tick \/ UNCHANGED vars
    BY <2>3 DEF Tick, vars, callVars, Phases, HeldScopes, Promise!promised
  <2>4. QED
    BY <2>1, <2>2, <2>3 DEF Next
<1>3. QED
  BY <1>1, <1>2, OAuthInvariant, PTL DEF Spec, ImplementsCalls, Promise!Spec

----------------------------------------------------------------------------
(***************************************************************************)
(* Liveness.  NoCallStuck is what the provers cannot see of ENABLED: in    *)
(* the model StepFails is possible wherever a call has not ended.  That    *)
(* the loop ends needs more than that steps are taken: each attempt goes   *)
(* forward only, be it with a stored token or a new one, and the counter   *)
(* goes up at its end.                                                     *)
(***************************************************************************)

\* The points of an attempt, in the order in which a call can pass through them.
Before(point) ==
  CASE point = "sending"     -> 0  [] point = "discovering" -> 1 [] point = "resolving" -> 2
    [] point = "enrolling"   -> 3  [] point = "browsing"    -> 4 [] point = "exchanging" -> 5
    [] point = "receiving"   -> 6

\* A call moves forward within its attempt, to its end, or to the start of the next one.
Forward(c) ==
  \/ at'[c] \in Ended
  \/ attempt'[c] = attempt[c] + 1 /\ at'[c] = "sending"
  \/ at'[c] \notin Ended /\ attempt'[c] = attempt[c] /\ Before(at'[c]) > Before(at[c])

\* Its own steps do that, and no other step touches it.
LEMMA CallMoves ==
  ASSUME OAuthInv, [Next]_vars, NEW c \in Calls
  PROVE  /\ Step(c) => Forward(c)
         /\ Forward(c) \/ (at'[c] = at[c] /\ attempt'[c] = attempt[c])
<1>1. at \in [Calls -> Points] /\ attempt \in [Calls -> Attempts]
  BY DEF OAuthInv, TypeOK
<1>2. ASSUME NEW d \in Calls, Step(d) PROVE Forward(d) /\ \A e \in Calls \ {d} : at'[e] = at[e] /\ attempt'[e] = attempt[e]
  <2> USE <1>1 DEF Forward, Ended, Before, Goto, Points
  <2> DEFINE Goal == Forward(d) /\ \A e \in Calls \ {d} : at'[e] = at[e] /\ attempt'[e] = attempt[e]
  <2>1. CASE Served(d) \/ Refused(d)
    BY <2>1 DEF Served, Refused
  <2>2. CASE UseStoredToken(d) \/ StartFlow(d)
    BY <2>2 DEF UseStoredToken, StartFlow, NextAttempt
  <2>3. CASE FindClient(d) \/ Enroll(d)
    <3>1. /\ at[d] \in {"resolving", "enrolling"} /\ attempt' = attempt
          /\ Goto(d, "browsing") \/ (at[d] = "resolving" /\ Goto(d, "enrolling"))
      BY <2>3 DEF FindClient, Enroll, OpenBrowser
    <3>2. QED
      BY <3>1
  <2>4. CASE Deny(d) \/ StepFails(d)
    BY <2>4 DEF Deny, StepFails, Fail
  <2>5. CASE Receive(d)
    BY <2>5 DEF Receive, NextAttempt
  <2>6. ASSUME NEW cb \in Callbacks, Callback(d, cb) \/ CallbackRejected(d, cb) PROVE Goal
    <3>1. at[d] = "browsing" /\ attempt' = attempt /\ (Goto(d, "exchanging") \/ Goto(d, "failed"))
      BY <2>6 DEF Callback, CallbackRejected, Fail
    <3>2. QED
      BY <3>1
  <2>7. ASSUME NEW granted \in SUBSET wanted[d], NEW lifetime \in Lifetimes, Grant(d, granted, lifetime)
        PROVE  Goal
    BY <2>7 DEF Grant
  <2>8. QED
    BY <1>2, <2>1, <2>2, <2>3, <2>4, <2>5, <2>6, <2>7 DEF Step
<1>3. CASE \E d \in Calls : Step(d)
  BY <1>2, <1>3
<1>4. CASE Tick \/ (\E f \in Flows : Revoke(f)) \/ UNCHANGED vars
  <2>1. at' = at /\ attempt' = attempt
    BY <1>4 DEF Tick, Revoke, vars, callVars
  <2>2. QED
    BY <1>2, <2>1
<1>5. QED
  BY <1>3, <1>4 DEF Next

\* The attempt k of a call, and that it leads to the next one, m.
Attempting(c, k) == attempt[c] = k
Over(c) == at[c] \in {"served", "failed"}
LeadsOn(c, k, m) == Attempting(c, k) ~> Over(c) \/ Attempting(c, m)

\* An attempt comes to its end.
LEMMA AttemptEnds ==
  ASSUME NEW c \in Calls, NEW k \in Attempts, NEW m \in Nat, m = k + 1
  PROVE  FairSpec /\ []NoCallStuck => LeadsOn(c, k, m)
<1> DEFINE At(point) == attempt[c] = k /\ at[c] = point
           Sending == At("sending")
           Discovering == At("discovering")
           Resolving == At("resolving")
           Enrolling == At("enrolling")
           Browsing == At("browsing")
           Exchanging == At("exchanging")
           Receiving == At("receiving")
           Left == Over(c) \/ Attempting(c, m)
           Later6 == Left \/ Receiving
           Later5 == Later6 \/ Exchanging
           Later4 == Later5 \/ Browsing
           Later3 == Later4 \/ Enrolling
           Later2 == Later3 \/ Resolving
           Later1 == Later2 \/ Discovering
<1>1. OAuthInv => (Attempting(c, k) => Later1 \/ Sending)
  BY DEF OAuthInv, TypeOK, Points, Ended, Attempting, Over
<1>2. OAuthInv /\ OAuthInv' /\ [Next]_vars =>
        /\ Sending => Sending' \/ Later1'
        /\ Discovering => Discovering' \/ Later2'
        /\ Resolving => Resolving' \/ Later3'
        /\ Enrolling => Enrolling' \/ Later4'
        /\ Browsing => Browsing' \/ Later5'
        /\ Exchanging => Exchanging' \/ Later6'
        /\ Receiving => Receiving' \/ Left'
  <2> SUFFICES ASSUME OAuthInv, OAuthInv', [Next]_vars, NEW point \in Points, At(point)
               PROVE  At(point)' \/ Left' \/ \E later \in Points : At(later)' /\ Before(later) > Before(point)
    BY DEF Before, Points, Ended, Over, Attempting
  <2>1. at'[c] \in Points
    BY DEF OAuthInv, TypeOK
  <2>2. QED
    BY <2>1, CallMoves DEF Forward, Ended, Over, Attempting
<1>3. OAuthInv /\ OAuthInv' /\ <<Step(c)>>_vars =>
        /\ Sending => Later1'
        /\ Discovering => Later2'
        /\ Resolving => Later3'
        /\ Enrolling => Later4'
        /\ Browsing => Later5'
        /\ Exchanging => Later6'
        /\ Receiving => Left'
  <2> SUFFICES ASSUME OAuthInv, OAuthInv', Step(c), NEW point \in Points, At(point)
               PROVE  Left' \/ \E later \in Points : At(later)' /\ Before(later) > Before(point)
    BY DEF Before, Points, Ended, Over, Attempting
  <2>1. at'[c] \in Points
    BY DEF OAuthInv, TypeOK
  <2>2. [Next]_vars
    BY DEF Next
  <2>3. QED
    BY <2>1, <2>2, CallMoves DEF Forward, Ended, Over, Attempting
<1>4. NoCallStuck => (Sending \/ Discovering \/ Resolving \/ Enrolling \/ Browsing \/ Exchanging \/ Receiving
                        => CanGoOn(c))
  BY DEF NoCallStuck
<1>5. FairSpec => Spec /\ CallRuns(c)
  BY DEF FairSpec
<1> HIDE DEF Sending, Discovering, Resolving, Enrolling, Browsing, Exchanging, Receiving
<1>6. QED
  BY <1>1, <1>2, <1>3, <1>4, <1>5, OAuthInvariant, PTL DEF Spec, CallRuns, CanGoOn, LeadsOn

\* Every call of OAuthHost.Do ends, for any number of concurrent calls that share
\* the store, any scopes and any behaviour of the servers and the browser.
THEOREM EveryCallEnds == FairSpec /\ []NoCallStuck => CallsEnd
<1>1. ASSUME NEW c \in Calls
      PROVE  FairSpec /\ []NoCallStuck => <>(at[c] \in {"served", "failed"})
  <2>1. FairSpec /\ []NoCallStuck => LeadsOn(c, 0, 1) /\ LeadsOn(c, 1, 2) /\ LeadsOn(c, 2, 3)
    <3>1. {0, 1, 2} \subseteq Attempts /\ {1, 2, 3} \subseteq Nat /\ 1 = 0 + 1 /\ 2 = 1 + 1 /\ 3 = 2 + 1
      BY DEF Attempts, MaxAttempts
    <3>2. QED
      BY <3>1, AttemptEnds
  <2>2. Init => Attempting(c, 0)
    BY DEF Init, Attempting
  <2>3. OAuthInv => ~Attempting(c, 3)
    BY DEF OAuthInv, TypeOK, Attempts, MaxAttempts, Attempting
  <2>4. FairSpec => Spec
    BY DEF FairSpec
  <2>5. FairSpec /\ []NoCallStuck => <>Over(c)
    BY <2>1, <2>2, <2>3, <2>4, OAuthInvariant, PTL DEF Spec, LeadsOn
  <2>6. QED
    BY <2>5 DEF Over
<1>2. QED
  BY <1>1 DEF CallsEnd

=============================================================================
