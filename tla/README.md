# TLA+ models and proofs for kubernetes-lab

The repository is a collection of Kubernetes experiments.  Most of it is
manifests; a handful of programs carry logic of their own.  The modules here
model those programs, TLC checks them on small instances, and TLAPS proves
the most important properties for every value of the constants.

Run a model with `tlc -config X.cfg M`, a proof with `tlapm MProofs.tla`.
`PROJECT.json` lists runs, source lines per definition, hazards and theorems.

## 1. The system

### Inventory

| Component | State | Operations | Hard behaviour | Module |
|---|---|---|---|---|
| gRPC graceful shutdown (`gracefulshutdown/grpc-dotnet`) | the connection count; per call the handler and its read task; the host's stop sequence; the pod's grace period | Subscribe, Connect/Disconnect, StopAsync, MonitorDisconnectAsync, preStop, SIGTERM, SIGKILL | callbacks racing with registration, two writers of one stream, clients that stall or vanish, timeouts that add up | `GrpcShutdown` |
| gRPC console client (`GrpcClient/Program.cs`) | one duplex call | requests, reads, leaving | stalls or vanishes | the peer in `GrpcShutdown` |
| API client: watch (`clientapi/.../Watch.cs`, `WatcherDelegatingHandler.cs`) | response stream, peek buffer, cancellation source, collected objects | Execute, PeekLineAsync/ReadLineAsync, OnEvent/OnError/OnClosed of the watch2 endpoints | cancellation between test and delivery, exceptions in callbacks, a silent server | `Watch` |
| API client: changing operations (`Kubernetes.Pod/Deployment/Job.cs`) | objects in the API server; the shared response type | CreateOrReplace (list, PUT or POST), Delete, ConfigureResponse | stale list, concurrent callers, lost answers | `CreateOrReplace` |
| Sample API (`KubernetesController.cs`) | none of its own | endpoints that call the client | its callbacks drive the watch | in the two above |
| API client: configuration, providers, models | cached token, environment | lookups, (de)serialisation | rotated token | not modelled |
| Agones game server, Go (`agones/simple-udp/main.go`) | packet loop, stop channel, ticker | ten commands, health pings, signal | random select, close of a closed channel, exit while others run | `SimpleUdp` |
| Agones game server, C# (`agones/simple-udp-csharp`) | HealthEnabled, request cache, host start order | command loop, health loop, SDK calls | two tasks sharing a flag and a cache, startup waiting on an endless task | `AgonesUdp` |
| Guestbook (`argocd/sample-local-image`) | one redis list; what a page shows | push, range, poll | answers overtaking each other, unhandled failures | `Guestbook` |
| Form validation of the Kustomize web app (`kustomize/app/wwwroot/lib`: `jquery.validate.unobtrusive.js` on `jquery.validate.js`) | per form the rules and the validator that copied them; pending requests, remembered verdicts, messages | parse, parseElement, validate, reset; submit, blur and keyup; the answers of the remote rule | late, aborted and failed requests, a submission held for answers, edits and resets meanwhile, fields added later | `FormValidation` |
| nginx termination overlays (`gracefulshutdown/3rdparty`) | manifests | preStop hooks, disruption budgets | endpoint propagation | planned |
| Cluster manifests, scripts | - | - | - | not modelled |

The components do not call each other, apart from the sample API, which uses
the API client; so no module composes them all.  Composition happens inside
a component: service, host and kubelet in `GrpcShutdown`; HTTP layer, library
and endpoint in `Watch`; library and API server in `CreateOrReplace`; two
tasks, SDK and sidecar in `AgonesUdp`; the library of adapters, the validator
it drives, browser and server in `FormValidation`.

### What makes each component correct

- **Shutdown**: the count covers every live call, "All connections completed."
  is only logged when it is true, a stop is held up by nothing but writes that
  were pending before it, and the whole takes no longer than its timeouts.
- **Watch**: callbacks see the server's lines in order, none lost or doubled by
  the peek; cancellation is prompt; nothing is cut silently.
- **Changing operations**: each acts as one atomic operation; a conflict needs
  a race; a replace leaves no moment without the object.
- **Game servers**: an EXIT is acknowledged, final and ends the process; pings
  stop after UNHEALTHY; SDK calls carry what they are given.
- **Guestbook**: a page ends up with the whole list.
- **Form validation**: what is sent obeys the form's attributes and was accepted
  by the server; the messages tell the validator's verdicts; a submission that
  waits for the server is decided; nothing is sent that was not submitted, or
  that the server's last answer refused.

## 2. The modules and the code

**`GrpcShutdown`**, refining **`GracefulStop`** - `pc[c]` is the point reached
in `Subscribe` (ConnectorService.cs), `reader[c]` its `readTask`, `refs` is
`_referenceCount`.  `Connect`, `Register`, `LoopTurn`, `WriteDone`,
`WriteFails`, `DelayOver` cut Subscribe at its awaits; `TokenFires` is the
cancellation of the call's own token with the `Disconnect()` callback.  The host
is `phase`: the web server stops first (`Unbind`, `ServerStopped` or
`ServerTimeout`), then `ExtendLifeService.StopAsync` (`MonitorPoll`, `Exit`).
`PodDeleted`, `SigTerm` and `Kill` are the deployment's preStop hook and grace
period; the grace period is chosen by the deletion from `Graces`.  `held` is an observer: the calls
whose WriteAsync is pending since before the stop.  Time counts
units of the code's 5 s delays.  `GracefulStop` knows nothing of handlers, count
and timeouts: a set of calls (`Live`: accepted, and the client not known to be
gone), the stage of the stop (`StopStage`) and how the wait ended (`outcome`).
It says "completed" only when that set is empty.

**`Watch`**, refining **`LineDelivery`** - `List`, `PeekFirstLine`,
`ReadLine`, `ReadEnd`, `Dispatch` are the awaits of an endpoint's request.
`buffer` and `taken` are the PeekableStreamReader.  The endpoints differ in
their limit and in whether `OnError` throws: `endpoint` is chosen in `Init`.
`late` is an observer.  `LineDelivery` is what the callers of a watch are promised:
the server's lines in order, each once; one more at most after a cancellation; an
answer only if the watch was cancelled before, or the callbacks had every line of
a response that the server ended, or OnError was told of the request or the
response that failed (`Told`); otherwise an exception.  What an endpoint answers
after OnError was told is its own choice.

**`CreateOrReplace`**, refining **`AtomicUpsert`** (instances in
`MCCreateOrReplace`) - one action per HTTP request: `Decide` is the list with
the caller's selector and the choice, `Put`/`Post`/`Delete` the change and
`EnsureSuccessStatusCode`, `Return` the deserialisation of the answer.
`Request` notes the Accept header a request is made with.  Pods, deployments
and jobs share this code shape and therefore the module.  `raced` is an
observer.

**`SimpleUdp`**, refining **`GameServer`** - `main` is the main goroutine, from
`NewSDK` to the packet loop; one `Handle...` action per kind of command,
`respond` the common ACK after the switch, `Shutdown` and `exit` the two halves
of `exit`; `health` is doHealth with the two cases of its select.  READY,
ALLOCATE, RESERVE, WATCH and the well-formed LABEL and ANNOTATION are one kind
("sdk"): a call that succeeds or ends the process.  `ticks` and `late` count in
windows, so that the ticker itself needs no bound; `unhealthies` is an observer,
the UNHEALTHY packets read so far.  `GameServer` is what both
game servers promise: an UNHEALTHY, and nothing else, switches the pings off for
good (`off` is the closed channel here, the cleared flag there); a ping under
way may still end and others may begin until the pinger notices (`over`); an
EXIT is answered (`told`) and the sidecar asked (`asked`), and no packet is
taken after the first of the two. `TellsFirst` is the order: the Go server
answers before it calls `exit`, the C# server after Shutdown returned.

**`AgonesUdp`**, refining **`GameServer`** - `loop` is ServerLoop, `health`
HealthCheckAsync (test of `HealthEnabled` and ping are separate steps),
`wire`/`request` the HTTP request each of them has out, `cache` is jsonCache.
Finding a body in the cache and adding it are one step, because only the command
loop sends bodies other than `"{}"`, which the constructor caches.  `awaited`
says whether the host starts the batch after `AgonesHostedService` (the order
depends on MicroBatchFramework, which is not in the repository; both are
checked).

**`Guestbook`** - the list only grows, so every copy of it is a prefix and is
told by its length.  A push is `Add` then `Range`; a poll is `Range`.  `Show` is
appendGuestbookEntries, `Ignore` the missing or empty failure handler.

**`FormValidation`** (instance in `MCFormValidation`) - one form.  An action is
one event handler, run to completion as JavaScript does.  `options` are the
rules that `parseElement` derives from the attributes (`Adapt`, with the
adapters length, equalto, required and remote), `enforced` those the validator
copied when `attachValidation` created it.  `v` is the validator: `pending`,
`pendingRequest`, `formSubmitted`, `invalid`, `submitted` and `errorMap` are
jquery.validate's fields, `previous` the remembered verdict of a field's remote
rule, `shown` the containers with an error message.  `Check`, `Form`,
`Element`, `SubmitHandler` and `stopRequest` are its functions, as operators on
that record, so that `Answer` runs the whole success callback: the verdict, the
messages, the counter and the resumed submission.  `wire` is the request of a
field (a new one aborts it), `live` says that its callback still owns the
field's `previous`: a reset detaches it.  Values are told by their lengths, a
question to the server (`Key`) is the values it is about, `Accepts` the
server.  `Markups` is a set of forms, one of which `Init` chooses.  `open` and
`asked` are observers: a submission is held and nothing was edited since; the user
submitted, and the last answer did not refuse that since.

### What is assumed of code outside the repository

- ASP.NET Core: `ServerCallContext.CancellationToken` fires when the client or
  the connection is gone, not when a handler returns; a second concurrent
  `WriteAsync` throws.  Kestrel waits for its calls and aborts them when the
  host's timeout is over.
- Generic host: hosted services stop in the reverse of their registration
  order and start in it, each awaited.
- API server: PUT without a resourceVersion is unconditional, a PUT of a
  missing object is 404, a POST of an existing one 409, a deletion takes effect
  later.  The Status object of an ERROR event does not deserialise as the
  watched type.
- Go: select picks at random between ready cases; a ticker drops ticks nobody
  takes; closing a closed channel panics.
- HttpClient: every call returns in the end, by its timeout if nothing else.
- Browser and jQuery: every request ends with an answer or a failure;
  `$.ajax` aborts the request on the same port; a reset event comes before the
  fields are emptied; the page is left when the form is sent.  The server answers
  a question the same way each time.
- The page: its form and its fields belong to the environment, since the views
  of the app hold no form yet; the app ships the scripts for them
  (`_ValidationScriptsPartial.cshtml`).  jquery.validate itself is vendored; it
  is modelled from its source, as far as the unobtrusive library drives it.

## 3. The runs

| Run | Shows | Bounds |
|---|---|---|
| `grpc` | StopsGracefully (refinement), NeverUndercounts, StopBudget, OnlyStalledClientsDelayStop, EndsByItself | 2 calls; a grace period (4 units) shorter than the timeouts, as in the deployment, and one (11) that covers their sum |
| `grpc_leak` | **violation** of WaitsForConnections | 2 calls, grace period 5 |
| `watch` | IsLineDelivery (refinement), ResultWithinLimit, OnErrorAtMostTwice, ClosesWithServer | limit 3, at most 5 lines |
| `watch_expire` | **violation** of AutoCancels | limit 3, 2 lines |
| `upsert` | TakesEffectOnce (refinement), ConflictNeedsRace, WritesSurvive | 3 callers, 1 name, 2 values, 2 selectors, rejected and lost requests |
| `upsert_yaml` | **violation** of AppliedIsReported, for a caller that creates or replaces | 2 callers, no faults |
| `simple_udp` | IsGameServer (refinement), ExitIsAnnounced, EveryPacketAnswered, LatePingsNeedTicks, PanicNeedsTwo, PingsEnd, ExitEnds | 4 packets of 7 kinds, windows of 4 ticks |
| `agones_udp` | IsGameServer (refinement), BodyMissedOnce, AtMostOneLatePing, ExitIsAcked, PingsEnd | 2 values, 3 packets, both start orders |
| `agones_label` | **violation** of LabelIsApplied | as agones_udp |
| `guestbook` | ReadsOwnEntry, ShrinksOnlyOvertaken, UpToDate | 2 pages, 2 pushes from any of them |
| `form` | SentIsLegal, RefusedIsIllegal, NothingSentUnasked, CountsPending, MessagesFollowVerdicts, HeldIsDecided | 2 fields, the second added at any time; lengths 0 to 2; 2 forms |
| `form_dynamic` | **violation** of ParseEnables | as form |

Every passing run also checks its module's `TypeOK`.

Why the bounds are enough: calls, callers, pages and values interact only in
pairs (a call with the count, a list with one other caller's change, an answer
with the one that overtakes it), so two or three of each show every order; the
watch's five lines exceed its limit by two, one line in flight and one behind
it; four packets allow UNHEALTHY, a command, a second UNHEALTHY and an EXIT;
three allow the first and the second request with one body and an EXIT.  Two
fields have two requests pending at once, in one form a question about both
fields, in the other a field that repeats the first; three lengths give each
field an empty value, a legal one and one to edit it to while a request is out
(one too short, one too long for the second field).  The proofs of section 5 do
without the bounds.

Runs have CHECK_DEADLOCK FALSE where the program stops by design: the process
ends, the watch closes, every client has its reply, the form is sent.
`guestbook` has no end and is checked for deadlock.

Each property has a mutant: a definition marked `MUTANT` next to the one it
replaces, which contains a plausible mistake (a dropped test, a swapped order, a
missing reset).  TLC finds the property violated under the mutant, which shows
that the property depends on that code.

### Fairness

- `GrpcShutdown`: handlers that can run do run, a cancelled token's callbacks
  run, the host and the clock go on.  Clients owe nothing: they may stall for
  ever.
- `Watch`: the endpoint runs what it can.  Nothing of the server.
- `SimpleUdp`: goroutines run and SDK calls return.  `SelectStop` is strongly
  fair: the select meets a ready stop again and again and picks at random.
- `AgonesUdp`: both tasks run and calls return (HttpClient has a timeout).
- `Guestbook`: requests end, the timer fires, and of infinitely many polls some
  succeed (strong fairness of a poll's two steps).  Pushes may all fail.
- `FormValidation`: every request ends (`Settle`).  The user and the page owe
  nothing.
- `CreateOrReplace` has no liveness property and no fairness.

## 4. Disagreements between code and its words

1. **A call that ends by itself is never taken off the count** (`grpc_leak`).
   `Disconnect()` hangs on the call's own token, which does not fire when a
   handler returns because the host is stopping, or fails on a second
   concurrent write.  The monitor then waits for its whole 30 minutes although
   nothing is connected, and the pod is killed at its grace period.
2. **"auto cancel after {expire}"** (`watch_expire`): the token is tested only
   after a line was read and is not given to the request, so an expired watch
   waits for as long as the server is silent.
3. **"response format: JSON"** (`upsert_yaml`): the response type is a field of
   the shared client.  A create-or-replace lists in JSON; another caller's
   configure_response then selects YAML; the PUT or POST is accepted, its answer
   does not parse, and the caller is told that its write failed.  (With YAML
   selected before the list, the operation fails there and changes nothing.)
4. **"Apply a Label to the backing GameServer metadata"** (`agones_label`): a
   body that is not cached yet is cached but not put on the request.  The first
   SetLabel or SetAnnotation with given values goes out empty, and nobody looks
   at the outcome.  The passing run shows the other half: it is at most one
   request per body.
5. **"enables validation according to the data-val-* attribute values"**
   (`form_dynamic`): parse hands its rules to `validate()`, which returns the
   validator the form already has.  A field that is added later and parsed, by
   parse or by parseElement, has rules that nothing enforces: neither its blur nor
   a submit looks at it.

One more depends on code that is not in the repository, so that no run claims it.
`src/agones/README.md` (lines 707-738) applies the fleet of the C# server, checks
that "ready is back to desired count" and shows a server that answers.
`Program.cs` (23-25) registers `AgonesHostedService` before it calls
`RunBatchEngineAsync`, and its `StartAsync` awaits the health loop
(`AgonesHostedService.cs:24`), which ends only when the server clears
HealthEnabled.  If the batch engine is started after that service, the server
never starts: theorem `EachWaits` of `AgonesUdpProofs` says so of the start
order `awaited`, and the README contradicts it.  If MicroBatchFramework starts
its engine first, there is no contradiction; the model keeps both orders.

Not counted as disagreements, since no text promises otherwise, but visible in
the models: a second UNHEALTHY, sent again or duplicated by
UDP, closes the closed channel `stop`, and the panic ends the Go server without
a Shutdown (`HandleUnhealthy`; nothing else panics, neither another packet nor
the signal: `PanicNeedsTwo`), while the C# server clears a flag again; a
GAMESERVER packet ends the C# server's loop when the sidecar does not answer
(`CallReturns`); the C# server's WATCH waits for the end of an endless response;
a validator's `formSubmitted` survives a reset, and a resumption that `form()`
refuses, so that a later answer may send the form without a new submit (it is
legal all the same, and never one that nobody submitted or that the last answer
refused: SentIsLegal, NothingSentUnasked); an equalto field that is parsed before
its target is in the document loses that rule (`Adapt`); a PUT overwrites what
another caller stored since the list (`Put`: the last writer wins); a field whose request failed stays pending, and a form that
waits for it is not sent until its value changes (the exception in
HeldIsDecided).

## 5. The proofs

All proofs are checked by TLAPS with SMT (Z3), Zenon and LS4.  The assumptions
are the `ASSUME`s of the modules: finite `Calls` and positive times, a positive
limit, `None` not a value, `"{}"` not a player's value, pages that are not pushes,
finitely many fields and forms whose attributes are well typed.

- **`GrpcShutdownProofs`**: `TypeCorrect`, then `Inductive`.  NeverUndercounts
  alone is not inductive: a call may be aborted before it is registered.
  `CountInv` therefore compares `refs` with the set of calls whose `Disconnect`
  is still to come (`Counted`), also those whose client left; every step changes
  both sides alike (`CountStep`).  `CompletedInv` adds that calls are no longer
  accepted once the monitor runs, so that a count of zero stays true.
  `StopReachesHandlers` rests on `NoNewWrites`: once the host stops, a call that is
  writing was writing before, since a handler that wakes up sees the stop and
  returns without another write; any other handler can run, and time waits for it.
  `ShutdownIsBounded` follows from `TimeInv`, which says where the clock may stand in each
  phase; with the step of `Kill` it gives `SufficientGraceSuffices`: a grace period
  that covers the sum of the timeouts is never cut short, whatever the calls do.
  `ImplementsGracefulStop`: every step of a call is an `Accept`, a `Leave` or
  nothing the abstract stop sees (`CallPromise`), every step of the host one of its
  stages (`HostPromise`).  The one step that takes an argument is the monitor's: a
  count of zero means that no call is alive, since `Live` is part of `Counted`
  (`NobodyCounted`).
- **`WatchProofs`**: `PositionInv` says that the lines delivered, the line in
  hand and the peek buffer together are exactly the first `taken` lines;
  `LateInv` and `RoomInv`, that a line past the test of cts is alone there and
  has room (`CancellationIsPrompt`, `LateLineIsTheLast`); `PrefixInv`, that what
  was handed over is a prefix of what the server wrote, so that equal lengths
  make `NothingIsCut`.  With them every step of Watch is a step of LineDelivery
  or a stutter (`StepDelivery`, `WatchImplementsDelivery`).  `ErrorInv`: there
  is no error before the cancellation and at most one until the watch is closed,
  hence `OnErrorTwiceAtMost`.
- **`CreateOrReplaceProofs`**: `RaceInv` says that what the list saw still
  holds when the request is made, unless the caller was raced or its selector
  is partial; `ConflictIsARace` follows.  `UpsertIsAtomic` is the refinement of
  AtomicUpsert.  `ReplaceLeavesNoGap` needs a memory of the deletions: an object
  marked for deletion has an accepted one (`DyingAsked`), and no later answer
  takes that back (`AnswerKeeps`).
- **`SimpleUdpProofs`**: after the answer to an EXIT the main goroutine is
  inside `exit` (`InExit`), hence `ExitAnnounced` and `ExitFinal`; a buffered
  tick is one ping in reserve (`PingCredit`), hence `PingsKeepPace`; `AnswerInv`
  counts the answers of the packet in hand at each point of the loop, hence
  `AnsweredOnce`.  `KeepsContract` is the refinement of GameServer, from `InExit`
  and from the fact that doHealth does not run before main started it
  (`Starting`).  `PanicInv` counts the UNHEALTHYs: the one that closed the channel, and one
  more that is in hand, hence `OneUnhealthyIsSafe`.
- **`AgonesUdpProofs`**: four small invariants: while the host waits, the health
  loop has not ended (`MutualWait`); a late ping has left its test behind
  (`PingCredit`); what was missed is cached (`CacheRemembers`); an EXIT under
  call has asked (`ExitOrder`).  `KeepsContract` is the refinement of the same
  GameServer: a server that has asked is in the call of its EXIT or has ended
  its loop (`AskInv`), so that it takes no further packet.  Its type invariant
  bounds the missed bodies by the packets, which takes `CountInv`.
- **`GuestbookProofs`**: every copy of the list, in an answer or on a page, is a
  prefix of the list (`Prefixes`), so that comparing lengths is comparing
  contents.  `PushInv` puts the entry of an answered push inside the answer, whoever
  pushed in between (`AnswerHasEntry`); `FreshInv` says that an answer that was not
  overtaken has at least what its page shows, hence `OnlyOvertakenShrink`.
- **`FormValidationProofs`**: SentIsLegal is not inductive: a form may be sent
  on the strength of verdicts that were given before.  `IInv` adds `Good(v)`,
  the validator's own bookkeeping: the counter is the number of pending fields,
  a field with a request out is pending, and the verdict that is remembered for
  a field that does not wait is the server's on the question that is remembered
  with it, good or bad (`Verdict`; while the field waits, the verdict may be one
  on an older value: the counter holds the form back).  `Faithful` says that the
  rules of a field that has any, parsed and enforced, are those of its attributes,
  equalto included when its target was there from the start (one that comes later
  may miss the parse).  A form that passes
  with nothing pending is then legal (`ValidIsLegal`); one lemma per function of
  the validator carries `Good` on (`StartGood`, `CheckGood`, `FormGood`,
  `ElementGood`, `SubmitGood`, `StopGood`), and `OnlyLegalIsSent` and
  `CounterInStep` follow.  `MessagesTellVerdicts` takes `MessageInv` on top:
  only a field with rules waits or shows a message, the errors of the last check
  are shown, and before the validator is attached nothing is enforced, so that
  the one time the rules change there is no message they could leave behind.
  `SentAsAsked` needs that no step sets formSubmitted but a submit, and that a bad
  last answer clears it (`AskedInv`, `StopKeeps`).  `OnlyIllegalIsRefused` is the converse of `OnlyLegalIsSent`:
  no rule is enforced that the attributes do not ask for (`Sober`), so a legal
  field passes every local one (`LegalPasses`); and a remembered refusal of the
  server is about the value the field holds (`FailedIsIllegal`, from the other
  half of `Verdict`).

Some theorems state what no run checks by itself, because a refinement or another
property of the run implies it: `CompletedIsTrue`, `LateLineIsTheLast`,
`NothingIsCut` and `AckFollowsShutdown` put a part of the abstract modules in terms
of the code, `ExitFinal` adds that nothing is answered after an EXIT,
`EachWaits` states the start order of section 4, and `SufficientGraceSuffices` is the consequence of the budget.  Their properties are
defined next to them.

Every invariant and every safety property of the passing runs is proved.  Only
model-checked are the liveness properties (the provers handle neither ENABLED nor
fairness): EndsByItself, ClosesWithServer, ExitEnds, PingsEnd of both game servers,
ExitIsAcked, UpToDate and HeldIsDecided.

## 6. Not modelled

- Read-only operations, certificate checks, environment lookups, serialisation
  and the 96 data classes of the API client; the greeter and the health check of
  the gRPC service, and its client's unary and health calls: they change no state.
- The cached service account token: it matters only with the token's expiry.
- The content of entries, labels and objects; time in the game servers and the
  guestbook (an order of steps is enough for their properties).
- A request that reaches the sidecar after its caller gave up on it.
- Of the form validation: the texts of messages and where they are put
  (data-valmsg-replace), the error summary (`onErrors`), styling; the adapters of
  formats (regex, range, password, extension and the like), which add further
  local rules; radio buttons and checkboxes; a submission that bypasses the
  validator (no validator yet, a cancel button); the guard of `onReset` against
  itself, needed only with a plugin the app does not ship.
- The rest of the Kustomize web app: stateless pages from the project template,
  and a site.js of comments.
- Manifests, charts, shell snippets: configuration of other programs.  The nginx
  overlays are the exception, see below.

## 7. Plan

Done, in this order: GrpcShutdown with proofs; Watch and LineDelivery with
proofs; CreateOrReplace and AtomicUpsert with proofs; SimpleUdp and AgonesUdp
with proofs; Guestbook with proofs; FormValidation with proofs; the abstract
GracefulStop and GameServer with the proofs that GrpcShutdown and the two game
servers implement them.

Next:

1. **PodTermination**: the nginx overlays.  A deleted pod, the preStop hook of
   each overlay, the endpoints that forget the pod with delay, the disruption
   budget against two replicas.  Abstract statement: nginx stops accepting
   after the endpoints forgot it ("wait for the pod eviction event to
   propagate").  The command of `sleep_prehook` is one string with `&&`, which
   is executed without a shell.
2. **Client configuration**: the token cache and the certificate check with
   expiry, and the read-only `WatchXAsync`, which hands the list's
   resourceVersion to a one-event watch.
3. **Proofs** of what those modules add.
