--------------------------- MODULE MCHostSession ---------------------------
(***************************************************************************)
(* An instance of HostSession for TLC.  Entries are ranks: confirm_preview *)
(* is 2, deferred_echo 4, echo 6; the application registers tools before   *)
(* and between them, and a resource.                                       *)
(***************************************************************************)
EXTENDS HostSession, TLC

CONSTANTS alice, bob, own, stranger, read, write, offer, other

MCEntries == {1, 2, 4, 5, 6}
MCDefaults == [k \in Lists |-> IF k = "tools" THEN {2, 4, 6} ELSE {1}]
MCPublishable == [k \in Lists |-> IF k = "tools" THEN {1, 5}
                                  ELSE IF k = "resources" THEN {2} ELSE {}]

MCOffers == {<<"modern">>, <<"newer", "modern">>}

----------------------------------------------------------------------------
\* A request of another client, alice unless it says otherwise.
Plain(method, member, name) ==
  [method |-> method, id |-> TRUE, meta |-> "modern", exact |-> TRUE,
   caps |-> {"form", "tasks"}, client |-> alice,
   names |-> [m \in Members |-> IF m = member THEN name ELSE None],
   cursor |-> 0, fits |-> TRUE, preview |-> other, answer |-> "absent", state |-> None]

Old(r) == [r EXCEPT !.meta = "none"]
Misspell(r) == [r EXCEPT !.exact = FALSE]
Ask == Plain("tools/call", "name", 2)

MCRequests ==
  {Plain("server/discover", "name", None), Plain("initialize", "name", None),
   Old(Plain("initialize", "name", None)), Plain("ping", "name", None),
   [Old(Plain("notifications/initialized", "name", None)) EXCEPT !.id = FALSE],
   Plain("tools/list", "name", None), [Plain("tools/list", "name", None) EXCEPT !.cursor = None],
   Old(Plain("tools/list", "name", None)), [Plain("prompts/get", "name", 1) EXCEPT !.meta = "newer"],
   Ask, [Ask EXCEPT !.answer = "accept"],
   [Ask EXCEPT !.answer = "accept", !.state = other],
   [Ask EXCEPT !.answer = "accept", !.state = other, !.preview = offer],
   [Ask EXCEPT !.preview = offer, !.answer = "decline", !.state = offer],
   [Ask EXCEPT !.caps = {"tasks"}],
   Plain("tools/call", "name", 4), Old(Plain("tools/call", "name", 4)), Old(Ask),
   Misspell(Plain("initialize", "name", None)), Misspell(Ask), Misspell(Plain("tools/call", "name", 4)),
   Plain("tools/call", "name", 5), Old(Plain("tools/call", "name", 5)),
   Plain("tasks/get", "taskId", 1)}

----------------------------------------------------------------------------
MCTokenScopes == own :> {read} @@ bob :> {read, write} @@ stranger :> {read, write}
MCTokenSubject == own :> alice @@ bob :> bob @@ stranger :> bob
MCTokenForUs == own :> TRUE @@ bob :> TRUE @@ stranger :> FALSE

\* Reading takes a scope, resource 1 and every change take another.
MCPolicy ==
  <<"resources/read", None>> :> {read} @@ <<"resources/read", 1>> :> {write} @@
  <<"tools/call", None>> :> {read} @@ <<"tools/call", 4>> :> {read, write} @@
  <<"tasks/cancel", None>> :> {write} @@ <<"subscriptions/listen", None>> :> {read}

\* A request as an honest client posts it.
Proper(r, token) ==
  [rpc |-> r, faults |-> {}, hVersion |-> "modern", hMethod |-> r.method,
   hName |-> HeaderName(r), token |-> token]

\* Who posts which request.
MCProper ==
  LET calls == {Ask, [Ask EXCEPT !.answer = "accept"], [Ask EXCEPT !.answer = "accept", !.state = other]}
      changes == {Plain("tools/call", "name", 4), Plain("tasks/cancel", "taskId", 1)}
      reads == {Plain("resources/read", "uri", 1), Plain("resources/read", "uri", 2)}
      listen == Plain("subscriptions/listen", "name", None)
  IN (calls \X {bob}) \cup ((changes \cup reads) \X {own, bob})
     \cup {<<Plain("tools/list", "name", None), stranger>>, <<listen, own>>,
           <<[listen EXCEPT !.id = FALSE], own>>}

\* Two readings of one name, a header that does not fit, faults of the body.
MCOdd ==
  LET r == Proper(Plain("resources/read", "uri", 1), own)
      s == Proper(Plain("tools/call", "name", 4), own)
  IN {[r EXCEPT !.rpc.names["name"] = 2, !.hName = 2], [r EXCEPT !.rpc.names["name"] = 2],
      [r EXCEPT !.faults = {"trailing"}], [s EXCEPT !.faults = {"mistyped"}],
      [s EXCEPT !.hMethod = "tools/list"], [s EXCEPT !.hName = 6],
      [s EXCEPT !.faults = {"oversized"}], [s EXCEPT !.faults = {"origin"}, !.token = bob],
      [s EXCEPT !.token = None]}

MCPosts == {Proper(p[1], p[2]) : p \in MCProper} \cup MCOdd

=============================================================================
