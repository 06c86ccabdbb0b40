# TLA+ verification of mcp-from-scratch

This directory holds TLA+ models of the MCP server and host in `src/`, the TLC
configurations that check them on small instances, and TLAPS proofs of their
most important properties for every value of the constants. Every definition is
translated from the Go source; `PROJECT.json` maps each one to the lines it
stands for, lists the hazards the properties are aimed at, and names for every
checked property one mutation of the model that breaks it.

## 1. The system

The server (`internal/mcpserver`) speaks JSON-RPC over stdio and over HTTP; the
host (`internal/host`) is its client. Request handling is stateless except for
the parts below. The first seven are where goroutines meet; the others are
sequential by themselves, and become hard when a session of several requests
meets what others do between any two of them.

| part | state | operations | meets |
|---|---|---|---|
| stdio connection (`stdio.go`) | active IDs, active calls, active notifications, active subscriptions (all under `activeMu`), execution slots, the one-element error channel, `finished`/`cancelled` per call | the reader loop, one goroutine per call, one writer per subscription, the deferred shutdown with its 100 ms deadline | the subscription hub; `Server.Handle`; the era machine |
| subscription hub (`subscriptions.go`) and HTTP listen streams (`http.go` 180-223) | the set of subscriptions; per subscription its filter, a one-element event channel, `complete` | subscribe, unsubscribe, publish list and task changes, `CloseSubscriptions` | registries and task repository (publishers), stdio writers and HTTP streams (consumers), host listeners |
| task repository and methods (`tasks.go`) | the map of task records, the wall clock | create, get, update, cancel; lazy expiry | the hub (publishes), the polling host |
| request runtime (`runtime.go`) and request stream (`http.go` 113-171) | the last progress, `done`, a bounded channel of notifications, the response | `ReportProgress`, `EmitNotification`, `finishRequestRuntime`, the select loop that writes SSE | tools and the goroutines they start, the HTTP client |
| OAuth host (`host/oauth.go`) | `MemoryOAuthStore`: pending flows, tokens, client IDs; per call its attempt and scopes | `Do`, `authorize`, `resolveClientID`, `exchangeCode` | browser, authorization server, resource server |
| OAuth resource server (`mcpserver/oauth.go`) | configuration only | 401, 403 with a scope challenge, or dispatch with a principal | task ownership |
| host task polling (`host/tasks.go`) | the loop of `WaitForHTTPTask` | poll, sleep, return | the task repository |
| catalogs (`catalogs.go`, `server.go`) | tools, resources, prompts | register, paged list, read, call | the hub, the page loop of the host |
| method dispatch and tool calls (`server.go`) | none | check of the metadata, switch over the methods, tool calls | catalogs, tasks |
| era lifecycle (`legacy.go`, `host/compatibility.go`) | the era of a stdio connection; the host's cached verdict | classify, initialize, detect once, fall back | the stdio connection, dispatch |
| multi-round-trip requests (`mrtr.go`) | none: the state travels with the request | ask, resume | tool calls, the host |
| HTTP dispatch (`http.go` 20-102) | none | header and body validation, choice of stream | everything above; the resource server in front of it |
| demo flows (`host/demo.go`, `host/model.go`) | the position in a session, the cursors seen, the requestState to return | discover, list, decide, call, confirm | the server, a model |
| schemas, observability, protocol types, command line programs | none that is shared | | |

What is hard here: cancellation against completion of a call; IDs freed and
reused while their old request still runs; failures between the two critical
sections that register a request; shutdown against goroutines that outlive it;
events dropped at a full channel; a change committed in one critical section
and published in another; a response that overtakes its notifications; a client
that stops reading, or leaves; wall clocks; calls that share one token store.
`PROJECT.json` lists each hazard at its line with the properties that cover it.

What makes each part correct, in a sentence: a call is answered or cancelled,
never both, and nothing registered is lost or leaked (stdio); a listener misses
no change after its registration (hub); a task has one outcome, and expiry is for good (tasks); the
response is the last message and everybody is released when the client leaves
(stream); a call is served unless something outside the host fails it, and
codes stay in their flow (OAuth); a listing holds every entry that was there
when it began (catalogs); host and server agree on the era of a connection, and
no question of a tool here reaches a legacy client as if it were a result (lifecycle); nothing
is confirmed that was not asked (multi-round-trip); what runs behind the
resource server had the scopes demanded of it, although three readers
take the name from the body (HTTP dispatch); a session ends, and with success unless a third party
fails (demo flows).

## 2. The modules

| module | models | checked by |
|---|---|---|
| `RequestOutcomes` | abstract: what a connection promises about each request it accepts | through `ImplementsOutcomes` |
| `StdioConnection` | `serveStdio` with its goroutines; implements `RequestOutcomes` | runs `stdio_*` |
| `Subscriptions` | the hub, the HTTP streams and the listeners behind them | runs `subs_*` |
| `TaskLifecycle` | abstract: the status machine a task may go through | through `ImplementsLifecycle` |
| `TaskRepository` | `MemoryTaskRepository` and the task methods; implements `TaskLifecycle` | run `tasks` |
| `TaskPolling` | `TaskRepository` composed with `WaitForHTTPTask` | run `tasks` |
| `ResponseStream` | abstract: what the stream of one request promises its client and its tool | through `ImplementsStream` |
| `RequestStream` | one HTTP request with progress: runtime, channel, SSE loop; implements `ResponseStream` | run `stream` |
| `AuthorizedCalls` | abstract: what `OAuthHost.Do` promises each caller, as if it were alone | through `ImplementsCalls` |
| `OAuth` | concurrent calls of `OAuthHost.Do`, the shared store, and the resource server's verdict; implements `AuthorizedCalls` | runs `oauth`, `oauth_replay` |
| `Catalog` | the registries, offset cursors and the loop of `listAllTools` | run `session` |
| `Dispatch` | `Server.Handle`: metadata, methods, tool calls, `confirm_preview`, the start of a task | run `session` |
| `EraLifecycle` | the era machine of a stdio connection, with the legacy rewriting of requests and results | run `session` |
| `Endpoint` | `serveHTTP`, alone or behind the resource server, up to `Handle` | run `session` |
| `HostSession` | `RunDemo`, `RunHTTPDemo`, `RunHTTPModelDemo` and `detectServerEra`, composed with the four above | run `session` |
| `MC*` | instances for TLC (model values, symmetry, filters, scope policies) | |
| `*Proofs` | theorems about the module of that name | TLAPS |

Each module has a short section of faulty variants of its operators, which no
specification uses; they are what `PROJECT.json` names under "mutants".

### StdioConnection

One action is one critical section or one channel operation of one goroutine.
`readerAt` is the position of the reader: the loop itself, the points between
its two critical sections (`callRegistered`, `listenRegistered`,
`listenSubscribed`, `listenStored`, and those of a cancellation), then the
stages of the deferred function (`ended`, `grace`, `cancelling`, `draining`,
`unsubscribing`, `returned`). `callAt[c]` is the position of a handler
goroutine, `subAt[s]` that of a subscription and its writer. A call object that
has ended is free for a later request, so behaviours are infinite although the
objects are few. Requests the reader answers by itself (parse errors, overload,
duplicates, legacy requests) change no table and are inline replies, which may
fail to be written. The environment ends the input, breaks the output, cancels
the context or closes the subscriptions at any time. `InputClosable` chooses
between an input that implements `io.Closer` and one that does not;
`ReuseStaleIDs` between a client that may reuse the ID of a call it has
cancelled at once and one that waits until that call's goroutine has ended.

`RequestOutcomes` is what all this is for, without tables, IDs, snapshots and
deadlines: a request that is due a response is answered, cancelled or found
unwritable, one of the three and once; it is not forgotten before; `Close`, the
return of `Serve`, waits for all of them, and nothing is accepted, answered or
lost afterwards. The mapping reads the outcomes off the positions of the
handler goroutines; a test for one of them that races the other
(`cancelCall` without its look at `finished`) is caught as a second outcome.
That a cancelled request gets no response follows the code and its test; the
roadmap says otherwise (section 6).
`Close` is promised to careful clients only (`Closed`): one that reuses the ID of
a call that still runs can leave that call in no table, and the shutdown does not
wait for it. All the other promises are made to any client. `Fulfilled` is what
they come to.

### Subscriptions

A topic is a catalog or a task; `changes[t]` counts what was committed to it.
A publisher commits (`Change`), takes the snapshot of interested subscriptions
(`Snapshot`) and notifies them one by one (`Notify`), as `publishListChanged`
and `publishTaskChanged` do. A stream agrees on a filter, is registered,
acknowledged, and writes events or the completion. Every listener reads the
current state of the topic of each event; one of a task also reads it when it is
acknowledged (`FirstRead`, `host/tasks.go` 239-247), one of a catalog does not
(`host/subscriptions.go` 27-126). `known[s][t]` is the change of `t` they have
seen, `since[s]` a history of what had changed before the stream was registered:
a catalog listener is owed only what comes later (`Current`). That it waits for
the next event after each refresh (`RefreshOnNextToolsListChanged` again) is the
model's assumption; the demo in this repository does so once.

### TaskLifecycle, TaskRepository, TaskPolling

`TaskRepository` has one action per repository operation under its mutex; the
clock moves between any two operations and may be set back
(`ClockStepsBack`), since the code compares wall-clock times. `buried`,
`drawn` and `acks` are history. `ImplementsLifecycle` maps the repository to
`TaskLifecycle` (a task that was never drawn is absent, one that was forgotten
is gone). `TaskPolling` adds the polling host.

### RequestStream

The channel between the producers and the stream is kept as the sequence of all
accepted messages `emitted` and the number `sent` of those already written; the
difference is what is buffered. `mu` is `runtime.mu`, held through a send on a
full channel, as in the code.

`ResponseStream` is what the client and the tool may rely on, without goroutines,
lock and result channel: notifications are written in the order in which they
were accepted, and progress never goes back; nothing is accepted once the
request is sealed, and the response is written when everything accepted has
been; the tool is held back while `Capacity` notifications wait; only a client
that has gone is given up, and only one that does not read stalls its stream.
Sealing is `finishRequestRuntime`; the steps of a producer up to its send and
those of the result to the drain loop are stutters. A select that took the
result for the end of the stream, or a comparison with the last progress outside
the lock, is a step `ResponseStream` does not have.

### OAuth

`at[c]` is where call `c` of `Do` is between two exchanges with the world or
two accesses to the store. Random states, verifiers and tokens are the pair of
their call and attempt. Metadata discovery, endpoint validation, dialing and
challenge parsing keep no state: any of them succeeds or makes the call fail
(`StepFails`). The authorization server may grant less than was asked for,
choose any lifetime and revoke a token at any time; it binds codes to clients.

`AuthorizedCalls` has the calls but no store, so that nothing one of them does
can be felt by another: a refusal may tell what the server demands, a replay
bears a token for all that is known by then, and a call fails only with an
excuse of its own. `Phases` and `HeldScopes` map the loop of `Do` and the tokens
to it; looking for a client, opening the browser and the clock are stutters. A
store that hands out a token whatever its scopes is noticed at the next replay.

### Catalog, Dispatch, EraLifecycle, Endpoint, HostSession

Each extends the one before it, as the code calls. Names and URIs are ranks in
the sorting order and a cursor is a number, so that a page is a window on the
sorted catalog; what a new entry does to the windows behind it is all that
matters. `listing.start` and `listing.repeated` are history.

`Handle(r, principal)` is the set of responses a request can get: `Server.Handle`
keeps no state and answers from the catalogs and the request alone. Whether
arguments fit their schema is a member of the request (`fits`). A requestState
is a keyed digest of the preview it was made for and is modelled as that
preview; clients return states that the server has handed out (`HonestState`).

`conn` is `stdioCompatibilityState` with the results sent so far. The reader
classifies requests one after the other and answers those of the legacy era
itself, so one request is one step. `asked` and `confirmed` are what was asked
and confirmed by any client, since the state travels with the requests.

In `Endpoint` a protected post passes two steps: `Receive`, where the token is
validated, and `Run` or `Refuse`; tokens expire in between. The name of an
operation is read three times by independent code, by the resource server
(`ProtectedOperation`), for the header check (`HeaderName`) and by the handler
(`ActsOn`), and `ran` records what has last run for whom. `faults` are the ways
a body can be refused before it counts, and two of them make the readings
differ.

`host.at` is the position of the host between two exchanges. Its peer is this
server in both eras (`dual`), this server started for legacy clients
(`legacy`), or any other program (`foreign`), which is followed until its era
is known. The flow `none` stands for another client at the line, which sends
any of `Requests`; over HTTP other clients post any of `Posts` between two
requests of the host. `excused` records that a third party, the model or the
transport, has failed.

## 3. The runs

| run | instance | shows |
|---|---|---|
| `stdio_safety` | 3 IDs, 2 calls, 1 subscription, 2 slots, 2 active IDs; a client that waits before reusing an ID | `RequestsBounded`, `OneHolderPerID`, `NoOrphans`, `SilentAfterReturn`, `ImplementsOutcomes` |
| `stdio_reuse` | 1 ID, 3 calls, 1 subscription, 2 slots, 1 active ID; input not closable; reuse at will | `TablesAgree` (`NoLeakedID` and `EntriesAreLive`), `WriteErrorReported` and `ImplementsOutcomes` hold even so |
| `stdio_liveness` | 1 ID, 1 call, 1 subscription | `ServeReturns`, `CallsConclude`, `CompletedSubscriptionsEnd` |
| `stdio_orphan` | 1 ID, 1 call, 2 subscriptions, reuse at will | violation of `ServeReturns`, see section 6 |
| `subs_safety` | a catalog and two tasks of two owners, 1 stream, 2 publishers, 2 changes | `NothingMissed` |
| `subs_liveness` | 1 catalog, 2 streams of which one may be stuck, 1 publisher | `PublishingEnds`, `HangUpForgotten`, `ClosingCompletes`, `ChangesLearned` |
| `subs_mixed` | a stream for two tasks | violation of `EveryChangeDelivered`, see section 6 |
| `tasks` | 2 owners, 2 tasks, TTL 1 or none, clock 0..2 with steps back, 1 poller | `AcknowledgedOnce`, `ExpiryIsFinal`, `RecordsAreComplete`, `ImplementsLifecycle`, `WaitEnds`, `ReportsTheOutcome` |
| `stream` | 2 producers, channel of 2, progress 0..1, 4 messages | `ImplementsStream` (which has `ProgressIsMonotone` and `ResponseComesLast` in it), `ProducersReleased`, `HandlerEnds`, `RequestConcludes` |
| `oauth` | 2 calls with different scopes, 2 issuers, lifetime 1, clock 0..1 | `ImplementsCalls`, `FailuresHaveACause`, `FlowsAreSound` (`CodesStayInTheirFlow` and `NoFlowLeft`), `CallsEnd` |
| `oauth_replay` | 1 call | violation of `AtMostOneReplay`, see section 6 |
| `session` | the three flows and another client at the line; pages of 2, 3 tools at first and 2 to come, 2 lists of offers, 2 previews, 3 tokens, 24 line requests, 23 posts | `ListingFaithful`, `ErasAgree`, `LegacyResultsAreFinal`, `RanAsAuthorised`, `ConfirmedAsAsked`, `SessionsSucceed`, `SessionsEnd` |

Why the bounds are enough. Two calls and three IDs give every pair of requests
that can meet at one ID, slot or table entry while a third waits for room in
the table; three calls on two slots make the slots run out, and objects are
recycled, so sequences of requests are not bounded. The hub's properties relate
one stream, one topic and the publishers that race about it: two publishers
suffice for any order of two publications, two changes for one that arrives
while another is in the channel. `subs_liveness` has a catalog only, whose
listener may learn nothing but from events; a task topic takes it beyond reach,
so that tasks are left to `subs_safety` and the theorem. In `tasks` a TTL of one lets a task be fresh,
expired and, with the clock set back, fresh again. A channel of two with four
messages fills, drains and fills again. In `oauth` each call runs through its
three attempts, with the other call's token and client arriving at any of its
steps; one clock tick lets tokens and flows expire at any step. In `session`
the page size is that of the code, so a listing takes two pages, or three when
tools are registered meanwhile, and registrations sort before, between and
behind the page boundary. The line requests have every class the era machine
tells apart, with and without modern metadata, some with metadata under a
misspelled key, calls of a tool the application registers, and every stage of a
confirmation with the state of the same and of another preview. The odd posts
fail one check each, of the resource server or of the endpoint (the faults of
transport headers share one guard), two of them because two readings of one
name differ; the tokens have too few scopes, enough, or belong to another
resource. Symmetry is
used in the two stdio safety runs only, where calls, subscriptions and IDs are
interchangeable model values and no liveness is checked.

The named bounds are `MaxChanges` (`Subscriptions`), `MaxTime`
(`TaskRepository`, `OAuth`), `MaxProgress` and `MaxEmitted` (`RequestStream`).
Deadlock is checked in the stdio runs; elsewhere it is off because the bounded
counters, or the end of all calls or of the session, let the system stop.

### Fairness

Each module names its fairness goroutine by goroutine (`ReaderRuns`,
`CallRuns(c)`, `PublisherRuns(p)`, ...); `FairSpec` is their conjunction.

- `StdioConnection`: weak fairness of the reader, the shutdown (its deadline is
  a timer), every handler goroutine and every step of a writer: the Go
  scheduler runs each ready goroutine and `select` picks among ready cases at
  random, which is why the cases of the writer's select are fair one by one.
  `LiveSpec` adds that handlers return: the tools of this repository are
  bounded or watch their context. Nothing obliges the client to end its input.
- `Subscriptions`: publishers and `CloseSubscriptions` always run. A publisher is
  fair towards each subscription of its snapshot (`TellsEach(p, s)`): the loop
  visits every one, and the snapshot is finite. Handlers are
  fair only for `Attentive` streams, whose client reads; the others may be
  stuck in a write for ever, and the properties of the rest must not suffer.
- `RequestStream`: goroutines run and the tool returns; `net/http` cancels the
  context of a client that has left; strong fairness for taking `runtime.mu`,
  as Go's mutexes hand over to a starving waiter. A blocked write may stay so.
- `TaskPolling`: time passes, the clock is set back only finitely often, the
  host's goroutine runs.
- `OAuth`: every step of a call ends, be it with an error. The browser blocks
  as long as the user does; `CallsEnd` is about calls whose user does something.
- `HostSession`: the host takes its next step. Its calls are answered (that is
  what `StdioConnection` and `RequestStream` show of the server), and a model or
  a foreign server answers, or the context of the session ends.

## 4. The proofs

All theorems hold for arbitrary constants under the named assumptions of their
modules (`ObjectsAssumption`, `LimitsAssumption`, ...), which TLC evaluates.

- **StdioConnectionProofs.** `TypeInv` is `TypeOK` with the reader's request in
  progress. `CallInv` ties the sets `cancelled`, `answered`, `executionSlots`
  to the position of each goroutine and gives `CancelledNeverAnswered`.
  `SlotInv` counts slots and gives `BoundedHandlers`. `TableInv` says what each
  table entry refers to (`LiveEntries`), `HolderInv` that for a client with
  `ReuseStaleIDs = FALSE` each request that can be answered is the one its table
  entry names; it gives `UniqueHolders`, `NothingOrphaned` and `SilentReturn`,
  whose statements carry that hypothesis. `PromisesKept` is the refinement of
  `RequestOutcomes` for any client: `CallInv` gives each request one outcome,
  `SlotInv` the room for a new one, and for a careful client `SilentAfterReturn`
  that all are settled when `Serve` returns. `PromisesFulfilled` is a theorem
  about `RequestOutcomes` alone, and `EveryRequestSettled` brings it to the
  connection by the refinement. `ErrorInv` follows a write error from the
  goroutine that met it to the result of `Serve` (`WriteErrorsSurface`);
  `IDsNeverLeak` is proved for any client; with `LiveEntries` it makes
  `TablesAlwaysAgree`. `HeldInv` says that the ID of
  whatever can be answered or served is in `activeIDs`, but for the one a
  cancellation has just given back, and `LimitInv` leaves room for that one;
  with distinct IDs for distinct holders (`CountByID`) they give
  `BoundedRequests`.
- **SubscriptionsProofs.** `HubInv` (registration, channel and snapshot only
  hold what was agreed) makes `AllOwed` inductive: a listener in the hub that is
  not up to date is owed an event or a read, of a catalog since its
  registration, of a task from its acknowledgement on, whatever changed between
  the lookup of the task and the registration. A dropped event finds one for the
  same topic in the channel. `NothingMissed` follows.
- **TaskRepositoryProofs.** `RepositoryInv` adds to the four invariants that IDs
  are fresh; `RefinesLifecycle` is the refinement, step by step.
- **TaskPollingProofs.** `PollInv` over `RepositoryInv`: an acknowledged
  outcome stands while the poller sleeps.
- **RequestStreamProofs.** `RuntimeInv`: the holder of `runtime.mu` sends only
  what is not smaller than everything sent before; nothing is accepted once
  `done` is set, so the drain before the response is complete
  (`NothingAfterTheResponse`). `StreamKeepsItsPromise` is the refinement of
  `ResponseStream`. It needs `ContextInv` besides: the context is cancelled only
  after a disconnect or once the stream has ended, so that a stream which
  notices a cancelled context does not give up a client that is there.
- **OAuthProofs.** `OAuthInv` relates the attempt of an unspoiled call to what
  it has learned: its first refusal brings a token for the scopes it asked for,
  its second the challenged ones, so the third request is served
  (`ThreeAttemptsSuffice`), whatever the other calls store meanwhile.
  `EachCallAsIfAlone` is the refinement of `AuthorizedCalls` from the same
  invariant: what the store says of a token is what was granted, and the scopes
  of a token never change once it is issued (`ScopesKept`).
- **CatalogProofs.** `CatalogInv` says where entries are relative to the cursor:
  an entry of `start` in front of it is listed, one behind it has not been, and
  registrations only move entries back. `ListingIsFaithful` follows for any page
  size and any registrations between two pages.
- **HostSessionProofs.** First what any response can be (`Sound`), request by
  request: only the preview of a state is confirmed, only clients that can
  answer are asked. Then `Safe`, which the parties keep whatever is sent:
  `ConnInv` (an initialized connection is legacy, all its results have its
  form), `EndpointInv` and `ConfirmedAsAsked`. `OneReading` shows that the
  readings of the name agree on every body the endpoint accepts, which gives
  `RunsAreAuthorised`. `Followed` describes the other end of the session
  position by position of the host: the era the connection has
  (`LineFollows`), what the host has learned (`Learned`), and that the tools it
  needs are never unregistered (`ToolsStay`). It makes each answer to the host
  the one it needs, hence `ErasAlwaysAgree` and `SessionsAlwaysSucceed`.
  `SessionImplementsCatalog` is a refinement, under which the listing of a
  session inherits `ListingIsFaithful`.
  `HostsAdvance` orders the stages of the host's code and shows that each of its
  steps goes to a later one, or to a page further back inside the catalog: a
  session has at most one step per stage and page, so that `SessionsEnd` needs
  only the fairness of its host.

### Liveness

A leads-to property is proved from weak fairness in three facts: a state
predicate stays until the goal (an action theorem), the fair action reaches the
goal from it (another one), and the action is enabled in it. The first two are
proved from the inductive invariants above. The third is about `ENABLED`, which
tlapm does not expand. It is therefore the hypothesis of the theorem:
`NobodyStuck`, `NobodyWaits`, `NobodyHeldUp`, and `NoCallStuck` for OAuth. They
repeat the guards of actions, so that no run checks them; they say of the code
that the goroutines of these actions wait for nothing but what the guards name
(a notification that waited for room in the event channel would break
`NobodyWaits`), and the liveness properties of the runs would fail without them.
What these theorems add to the runs is any number of
goroutines, streams, topics and calls, and the argument:

- `CallsAreConcluded`, `CompletedOnesEnd` (`StdioConnectionProofs`): a handler
  moves only forward (`CallMoves`), through its outcome to the end of its
  goroutine, which frees ID and slot; a completed writer too (`WriterMoves`),
  whatever reader, shutdown and environment do.
- `DisconnectsAreNoticed`, `ClosingEndsStreams`, `EveryChangeIsLearned`
  (`SubscriptionsProofs`): the last one follows a change from its commit through
  the publisher's snapshot, its turn in the loop, the channel or the event that
  is already there, the write, and the read of the listener.
- `EveryoneIsReleased`, `TheHandlerEnds` (`RequestStreamProofs`): once the client
  has left, the holder of `runtime.mu` can give up, and whoever waits for it gets
  it by strong fairness.
- `EveryCallEnds` (`OAuthProofs`): one lemma per attempt (`AttemptEnds`), and no
  call begins a fourth.

### What is proved and what is not

The type invariant of every module is proved, as are all invariants of the
passing runs, every action property, and all the
refinements (`TaskLifecycle`, `RequestOutcomes`, `ResponseStream`,
`AuthorizedCalls`, and `Catalog` by `HostSession`). Of the thirteen liveness
properties, eight are proved as above. `ServeReturns`, `PublishingEnds`, `WaitEnds`, `RequestConcludes` and
`SessionsEnd` are model-checked only: each needs an induction, over the
objects still to be waited for, the channel, the clock or the pages to come, of
temporal formulas, and that is out of this prover's reach.

## 5. What is not modelled

Schema validation is a yes or no (`fits`, and `Error("invalidParams")`), since
what a schema accepts depends on one value and no state. Encoding and decoding,
status codes, observability, the metadata document, the syntax of extension
names, `.well-known` discovery and the command line programs have no shared
state and no interleaving of their own. Handler bodies are a step that returns; the contents
of messages are left out except where a property is about them. A write is a
step that ends, except where a client may stop reading (`Subscriptions`,
`RequestStream`). A progress or log notification of a stdio call that cannot be
written (`stdio.go` 333-338) only cancels the context of its own call; the
encoder keeps the error, so the response after it fails as well and is reported
(`RespondFails`). After `ReportAsyncError` the input has ended at once, while
lines the scanner has buffered may still be processed (`stdio.go` 180-182); the
runs with an input that cannot be closed go on reading after such an error. A
call of the host is one step, so a request never meets the table entry of the one
before it, which is removed after the response is on the wire (`stdio.go` 369,
381). The host uses ID 2 for a second discovery and again for `tools/list`
(`compatibility.go` 80, `demo.go` 194); the single version `RunDemo` offers never
leads to a second discovery. The signature check and the fields of token claims are one
verdict per token (`TokenForUs`, `valid`). Tokens are never refreshed, as in the
code. Requests of the legacy era are answered inline by the reader:
`StdioConnection` has only their failing writes, `EraLifecycle` their
contents. The table in `PROJECT.json` ("components") gives the status and
reason for every part.

## 6. What the models show about the code

- **A subscription nobody can stop** (`stdio_orphan`). `notifications/cancelled`
  frees the ID of a call whose goroutine still runs (`stdio.go` 228). If the
  client listens under that ID at once, the old call's `removeCall` deletes the
  ID of the new request, a second listen under it is accepted and overwrites
  the first in the table, and `Serve` waits for the first one's writer for
  ever. With a client that waits, the properties hold and are proved.
- **A cancelled call gets no response.** The roadmap has cancellation emit "one
  deterministic terminal response" (AE4,
  `docs/plans/2026-08-12-complete-mcp-roadmap.md` 68). The handler goroutine keeps
  silent (`stdio.go` 376-380), and a test expects exactly that
  (`stdio_test.go` 316-339), so the plan is what differs. `Cancel` of
  `RequestOutcomes`, and with it `ImplementsOutcomes`, has the code's reading: an
  outcome of its own that excludes an answer. A run for the plan's reading would
  show no more than that one guard (`MustNotAnswer`).
- **A lost change** (`subs_mixed`). The one-element channel drops an event
  whatever topic the pending one is about; a stream that covers two tasks can
  miss the end of the second. Streams of one topic miss nothing (proved), except
  that a catalog listener learns nothing of what changed between its last listing
  and its registration until the next event: it does not list when it is
  acknowledged.
- **Three requests, not two** (`oauth_replay`). The comment of `OAuthHost.Do`
  speaks of at most one replay; the loop sends up to three requests. The third
  is needed: `FailuresHaveACause` fails with two (the faulty variant `LastOfTwo`).
- Not violations of anything written down, but worth knowing: a token the
  server refuses before it expires for the host stays in the store, so `Do`
  fails until it expires or is replaced; concurrent calls may overwrite a wider
  token with a narrower one, or register two clients; a clock set back revives
  a task that expired but that nobody has asked for.
- On legacy results: `legacyParamsAsModern` replaces the key `_meta` only
  (`legacy.go` 206), and decoding into a structure does not mind the case of a
  key. A legacy client that sends its capabilities as `_META` keeps them and gets
  questions and tasks as if they were final. So it does from a tool of the
  application that answers with a question, whose result type nobody checks
  (`server.go` 267-271). `LegacyResultsAreFinal` is about all other results.
- On sessions: offset cursors may repeat entries of a listing after a
  registration, though never without one (`RepeatsHaveACause`);
  `docs/support-matrix.md` speaks of stable pagination. A host of the legacy era
  lists only the first page. The model loop ends with an error if the
  model takes a tool that asks for input or creates a task. The demo hosts
  carry no token, so that a protected endpoint refuses them.

## 7. Plan

Done, in this order: the stdio connection, the hub, the tasks with their
lifecycle and polling, the request stream, OAuth, then the catalogs, the
dispatch with multi-round-trip calls, the era lifecycle, the endpoint behind
the resource server, and the sessions of the host that compose them.

Next:

1. Refine the inline replies of `StdioConnection` to the requests `EraLifecycle`
   answers, so that one theorem covers the order of a legacy session's writes.
2. Validation of the change events a host subscribes to (`host/subscriptions.go`)
   as a reader of `Subscriptions`.
