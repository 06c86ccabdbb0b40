----------------------------- MODULE Dispatch -----------------------------
(***************************************************************************)
(* Server.Handle (internal/mcpserver/server.go): the check of the request  *)
(* metadata, the switch over the methods and the tool calls, with the      *)
(* multi-round-trip tool confirm_preview (mrtr.go) and the start of a task *)
(* (tasks.go).  Handle keeps no state of its own; what a request leads to  *)
(* depends on the catalogs only.  Operators return the set of possible     *)
(* responses; task records are the subject of module TaskRepository.       *)
(***************************************************************************)
EXTENDS Catalog

CONSTANTS
  Echo, ConfirmPreview, DeferredEcho,  \* the tools of this repository
  TasksEnabled,                        \* does the server advertise the tasks extension?
  Previews,                            \* the texts a client may ask to confirm
  Clients,                             \* clientInfo.name and authenticated principals
  None

ASSUME DispatchAssumption ==
  /\ {Echo, ConfirmPreview, DeferredEcho} \subseteq Entries
  /\ Echo # ConfirmPreview /\ Echo # DeferredEcho /\ ConfirmPreview # DeferredEcho
  /\ TasksEnabled \in BOOLEAN
  /\ None \notin Entries /\ None \notin Previews /\ None \notin Clients /\ None \notin Nat

ListMethods == {"tools/list", "resources/list", "prompts/list"}
TaskMethods == {"tasks/get", "tasks/update", "tasks/cancel"}
Methods ==
  ListMethods \cup TaskMethods \cup
  {"server/discover", "initialize", "notifications/initialized", "subscriptions/listen",
   "tools/call", "resources/read", "prompts/get", "ping"}

\* The list a list method is about.
ListOf == [m \in ListMethods |-> IF m = "tools/list" THEN "tools"
                                 ELSE IF m = "resources/list" THEN "resources" ELSE "prompts"]

Members == {"name", "uri", "taskId"}

\* A request.  meta says what its protocol version is and whether log level and
\* progress token are valid; exact that the metadata are under the key _meta, and
\* not under another spelling (_META), which decoding takes for the same; answer
\* is what the request has under inputResponses, state the preview that its
\* requestState was made for: the state is a keyed digest of the preview, so that
\* no two previews share one.
Request ==
  [method : Methods, id : BOOLEAN, meta : {"none", "modern", "newer", "invalid"}, exact : BOOLEAN,
   caps : SUBSET {"form", "tasks"}, client : Clients \cup {None},
   names : [Members -> Entries \cup {None}], cursor : Nat \cup {None}, fits : BOOLEAN,
   preview : Previews,
   answer : {"absent", "other", "accept", "unticked", "decline", "cancel", "invalid"},
   state : Previews \cup {None}]

\* preview: what a response asks to confirm, or reports as confirmed; None for a
\* question about anything else.
Response ==
  [kind : {"complete", "inputRequired", "task", "error"},
   code : {"none", "invalidParams", "invalidRequest", "methodNotFound", "unsupportedVersion",
           "missingCapability", "missingTaskCapability", "internalError", "headerMismatch", "transport"},
   preview : Previews \cup {None}]

Complete == [kind |-> "complete", code |-> "none", preview |-> None]
Confirmed(p) == [kind |-> "complete", code |-> "none", preview |-> p]
InputRequired(p) == [kind |-> "inputRequired", code |-> "none", preview |-> p]
TaskCreated == [kind |-> "task", code |-> "none", preview |-> None]
Error(c) == [kind |-> "error", code |-> c, preview |-> None]

\* A missing cursor is offset 0, a cursor that cannot be decoded is None.
CursorGood(c, cursor) == cursor # None /\ ~OutsideList(c, cursor)

\* What is wrong with the metadata of a request, if anything.
MetadataFault(r) ==
  IF r.meta \in {"none", "invalid"} THEN "invalidParams"
  ELSE IF r.meta = "newer" THEN "unsupportedVersion" ELSE "none"

----------------------------------------------------------------------------
\* supportsFormElicitation.
FormCapable(r) == "form" \in r.caps

\* A faulty variant, which no specification uses: any state resumes any call.
ConfirmationOfAnyState(r) ==
  IF ~FormCapable(r) THEN Error("missingCapability")
  ELSE IF r.answer = "absent" THEN InputRequired(r.preview)
  ELSE IF r.answer = "accept" THEN Confirmed(r.preview) ELSE Complete

\* confirm_preview: ask, or resume with the state of the same preview.
Confirmation(r) ==
  IF ~FormCapable(r) THEN Error("missingCapability")
  ELSE IF r.answer = "absent"
       THEN IF r.state = None THEN InputRequired(r.preview) ELSE Error("invalidParams")
  ELSE IF r.state # r.preview \/ r.answer = "invalid" THEN Error("invalidParams")
  ELSE IF r.answer = "other" THEN InputRequired(r.preview)
  ELSE IF r.answer = "accept" THEN Confirmed(r.preview)
  ELSE Complete

TaskCapable(r) == TasksEnabled /\ "tasks" \in r.caps

\* An authenticated principal takes precedence over what the client says it is.
TaskOwner(r, principal) == IF principal # None THEN principal ELSE r.client

\* Creating the task may fail for want of an ID or in the repository.
DeferredTask(r, principal) ==
  IF ~TaskCapable(r) THEN {Error("missingTaskCapability")}
  ELSE IF TaskOwner(r, principal) = None \/ ~r.fits THEN {Error("invalidParams")}
  ELSE {TaskCreated, Error("internalError")}

\* Tools other than those of this repository answer as they like, within the schemas:
\* the result type is theirs to choose, and nobody compares it with the capabilities.
ToolResponses(r, principal) ==
  LET tool == r.names["name"] IN
  IF tool = DeferredEcho /\ tool \in published["tools"] THEN DeferredTask(r, principal)
  ELSE IF tool \notin published["tools"] \/ ~r.fits THEN {Error("invalidParams")}
  ELSE IF tool = ConfirmPreview THEN {Confirmation(r)}
  ELSE IF tool = Echo THEN {Complete}
  ELSE {Complete, InputRequired(None), TaskCreated, Error("invalidParams"), Error("internalError")}

ListResponses(r) ==
  {IF CursorGood(published[ListOf[r.method]], r.cursor) THEN Complete ELSE Error("invalidParams")}

ReadResponses(r) ==
  {IF r.names["uri"] \in published["resources"] THEN Complete ELSE Error("invalidParams")}

\* Rendering may refuse the arguments.
PromptResponses(r) ==
  {Error("invalidParams")} \cup
  (IF r.names["name"] \in published["prompts"] THEN {Complete} ELSE {})

TaskResponses(r) ==
  IF r.names["taskId"] = None THEN {Error("invalidParams")}
  ELSE IF ~TaskCapable(r) THEN {Error("missingTaskCapability")}
  ELSE {Complete, Error("invalidParams")}

Handle(r, principal) ==
  IF MetadataFault(r) # "none" THEN {Error(MetadataFault(r))}
  ELSE IF r.method = "server/discover" THEN {Complete}
  ELSE IF r.method \in ListMethods THEN ListResponses(r)
  ELSE IF r.method = "resources/read" THEN ReadResponses(r)
  ELSE IF r.method = "prompts/get" THEN PromptResponses(r)
  ELSE IF r.method = "tools/call" THEN ToolResponses(r, principal)
  ELSE IF r.method \in TaskMethods THEN TaskResponses(r)
  ELSE {Error("methodNotFound")}

=============================================================================
