# OpenLIT: TLA+ models and proofs

TLA+ models of the parts of OpenLIT whose correctness depends on the order of
events, the TLC runs that check them on small instances, and TLAPS proofs of
what holds for every instance. `PROJECT.json` maps every definition to the lines
it models and lists runs, mutants, findings, hazards and theorems.

    tlc -workers 2 -config server_registry.cfg MCOpAMPServer   # any run
    tlapm OpAMPServerProofs.tla                                # the proofs, and so
    tlapm OpAMPConfigProofs.tla                                # on for each module

## 1. The system

OpenLIT is an observability platform for LLM applications. Its largest part is
the Python SDK, which wraps the functions of some fifty libraries and reports
what they do as OpenTelemetry spans, events and metrics; the OpAMP server manages
a fleet of collectors; the operator injects the SDK into pods; the web client
shows and evaluates what was collected.

| component | source | state it keeps | operations | modelled |
|---|---|---|---|---|
| OpAMP server: Agent object | `src/opamp-server/data/agent.go` | last status, custom and remote config, waiting channels, under `agent.mux` | `UpdateStatus`, `SetCustomConfig` | yes, `AgentStatus` |
| OpAMP server: registry | `.../data/agents.go` | `agentsById`, `connections` under `agents.mux`; one config file per agent | `FindOrCreateAgent`, `RemoveConnection`, `loadPersistedConfig`, `OfferAgentConnectionSettings` | yes, `OpAMPServer` |
| OpAMP server: message loop | `.../server/server.go` | one goroutine per WebSocket (opamp-go) | `onMessage`, `onDisconnect` | yes (WebSocket), `OpAMPServer` |
| OpAMP server: HTTP API | `.../server/ui.go` | one goroutine per request, a one-slot channel per save | `handleSaveConfig`, `handleRotateCertificate`, `handleConnectionSettings` | yes, `OpAMPServer` |
| OpAMP supervisor | external (opamp-go client) | connection, sequence number, applied config | report, apply, reconnect | environment, `Fleet` |
| OpAMP certificates, configuration | `.../certman`, `.../config` | none after start | TLS set-up | outcomes only |
| operator: certificates, webhook configuration | `operator/internal/webhook/{certs,config}.go`, `cmd/operator/main.go` | a Secret, a MutatingWebhookConfiguration, certificate files per replica | `EnsureCertificate`, `checkAndRotateCertificate`, `EnsureWebhookConfiguration` | planned |
| operator: admission handler, breaker | `operator/internal/webhook/handler.go` | AutoInstrumentation resources; breaker state | `Handle`, `canExecute`, `recordFailure`, ... | planned |
| operator: controller | `operator/internal/controller/controller.go` | labels and status of resources | `Reconcile` | planned |
| web client: evaluation, cron | `client/src/lib/platform/evaluation`, `helpers/server/cron.ts` | cron log, crontab | `autoEvaluate`, `updateCrontab` | planned |
| web client: organisations, db configs | `client/src/lib/{organisation,db-config,user}.ts` | memberships, invitations, shared configs | create, invite, leave, delete | planned |
| web client: prompts, rules, vault, dashboards | `client/src/lib/platform/*` | rows in ClickHouse | CRUD, versions | partly planned |
| Python SDK: helpers, wrappers, traced streams | `sdk/python/src/openlit/__helpers.py`, `instrumentation/*/` | per call: a span, the scope being filled, an attached context | wrap a call, read a chunk, write the report | yes, `Telemetry`, `TracedCall` |
| ... LLM providers | `instrumentation/{openai,anthropic,...}` | none between calls | response functions, chunk handlers, wrappers | yes, `CloudProviders`, `LlmProviders` |
| ... frameworks, crawlers, memory, MCP | `instrumentation/{agno,langgraph,mcp,...}` | context flags | the same, and generators | mostly, `Frameworks` |
| ... data stores | `instrumentation/{chroma,milvus,...}` | none | the same | yes, `DataStores` |
| ... mem0's patch of `submit` | `instrumentation/mem0/utils.py` | one attribute of the process | patch, restore | yes, `SubmitPatch` |
| ... LangChain callbacks, OpenAI Agents processor | `instrumentation/{langchain,openai_agents}` | open spans by run id | callbacks | no |
| ... init, evals, guards, CLI | `openlit/{__init__,evals,guard,cli}` | configuration | set-up, one judge request | no |
| TypeScript and Go SDKs, GPU collector | `sdk/{typescript,go}`, `otel-gpu-collector` | none | wrap calls, read counters | no |

How they meet: the web client's Fleet Hub page calls the OpAMP server's HTTP API
(`client/src/lib/platform/fleet-hub`); the API changes an Agent object and sends
to its connection; agents report over their WebSocket, and the answer to a report
may carry a configuration. The registry is shared by all goroutines, and the
configuration directory outlives the process. The operator and the client share
nothing with the OpAMP server but deployment. The SDK lives in the application's
process, between the application and the libraries it calls.

### What is hard, and what correct means

*Registry.* An agent may reconnect before its old connection is known to be
dead, and several agents may use one connection. Correct: the two maps agree, an
object is registered once and through a live connection, nothing survives the
connection it came with.

*Saves.* A save persists, changes the agent, sends, and waits for the agent's
next report or five seconds; the critical sections of two saves, a report, a
removal and a restart interleave. Correct: no save loses its wake-up, no channel
send blocks, the config an agent ends with is the one the server holds for it,
and a complete file is changed only by a save of that file. No lock guards the
files: a load (read, then perhaps remove) and a save (truncate, then write) may
overlap, so the last holds only of files that did not change under the loader.

*Mutexes.* `OfferAgentConnectionSettings` sends to the network while it holds
`agents.mux`. Correct: every request is still answered, every broken connection
still removed.

*Reports* carry only what changed, and are merged into an object that may be
removed before the next one. Correct: the server's view becomes the agent's own
(it does for the effective config; not for the description, see section 3).

*Traced calls.* A wrapper runs in the application's own call. The library may
raise, the task may be cancelled, the answer may not be what the response logic
expects, the metrics may not take what it says, a stream may fail, be read on
after an exception, be left half-way or be polled past its end, and the handlers
for all this overlap. Correct: the caller sees what the bare function would have
shown it; the call is reported once, with a status that is true, the usage the
answer gave, no content that was not asked for, and no span left open. Many
wrappers break one of these rules; which ones is part of what is checked.

## 2. Modules

    AgentStatus          one Agent object: pure operators, no variables
      OpAMPServer        registry, message loops, HTTP API, config directory
        MCOpAMPServer    instance: arbitrary clients with chosen reports
        OpAMPServerProofs    types, registry, wake-ups, offers, files
          OpAMPConfigProofs  channels, where configurations come from
        Fleet            the server and the agents it manages
          MCFleet        instance: agents as setup-supervisor.sh configures them
          FleetProofs    the fleet implements the server; agents run their own configs

**AgentStatus** translates `agent.go`. An `Agent` record has `status`, `custom`,
`remote` and `watchers`. `processStatusUpdate` is the new object,
`statusResponse` the answer, split as the code splits the decision:
`lostPreviousUpdate`, `statusIsCompressed`, `agentDescrChanged`, `offersConfig`.
A configuration is a model value; `Garbled` stands for what two overlapping writes
can leave in a file, and may or may not be a YAML object. A hash is an injective
image of the config, because the code only compares hashes. `SequenceNum` wraps at
`SeqModulus`. A CSR is represented by its outcome (refused, bad signature, granted).

**OpAMPServer** splits a handler exactly where it gives up a mutex or touches the
disk, so everything else can come in between.

| code | actions |
|---|---|
| `onMessage` -> `FindOrCreateAgent` (`agents.mux`) | `onMessage` = `FindAgentOf`, or `CreateAgent` where there is no file to read, or `readConfigFile`; `rejectMessage` for an id of the wrong length |
| `loadPersistedConfig` after `os.ReadFile`, `agents.mux` still held | `loadPersistedConfig` = `useConfig` or `skipConfig` (`os.Remove`), then `Register` |
| `UpdateStatus` (`agent.mux`) and the notifications after it | `UpdateStatus`, `UpdateStatusPanics` |
| opamp-go sends what `onMessage` returned | `SendResponse` |
| `onDisconnect` -> `RemoveConnection` | `RemoveConnection` |
| `handleSaveConfig` | `handleSaveConfig` or `refuseRequest`; `removeConfigFile`, or `openConfigFile` then `writeConfigFile` (`os.WriteFile` truncates, then writes); `FindAgent`; `SetCustomConfigForAgent`; `SendToAgent`; `saveNotified` or `saveTimedOut`; `persistFails` |
| `handleRotateCertificate`, `handleConnectionSettings` | `handleOffer`, `OfferAgentConnectionSettings` (takes `agents.mux`), `OfferConnectionSettings` (sends and releases it), `offerAnswered`, `createCertFails` |
| process exit | `Crash`: everything but `files` is lost |

The heap has a place for an object per id and connection: an object is named by
the pair it was created with. That no pair is ever used twice is not assumed but
checked and proved (`ObjectsAreFresh`). A notification is folded into the step that
takes the watchers: the sends do not block, only the waiter's own goroutine reads
the channel, and its timer may expire before it does, so no outcome is lost. A
dead connection's `Send` returns an error that every caller ignores. opamp-go is
external: one goroutine per WebSocket runs `OnMessage`, sends its answer, and runs
`OnConnectionClose` at the end; sends to one connection queue on a mutex. A failing
read or delete (`DiskFaults`) is an outcome of each file operation. A file that
somebody has open when it is removed keeps its content and loses its name
(`linked`). A loader holds `agents.mux` between its read and its remove
(`registryMux` is its connection, `loaded` what it read), but a save takes no
mutex to write: what it completes in between is removed by its name, and what is
written while `os.ReadFile` reads may come out mixed (`contentRead`). `opampCA` caches its first result; the model lets it fail each time.

**Fleet** replaces arbitrary clients by agents: first report on a connection full,
later ones deltas, heartbeats, sequence numbers that count reports (one may be lost
with a connection), reconnection while connections are left, an offered config
applied and reported. These definitions are marked external. An agent sends one of
`Reports`, and `FleetAssumption` only asks that the server's `Messages` contain them.

The SDK has its own tower:

    PlainCall            a call of a bare library function, as its caller sees it
    Telemetry            steps, spans, shapes of wrappers and streams: no variables
      CloudProviders     the instrumentations, as data in the terms of Telemetry
        LlmProviders
      Frameworks
      DataStores
      TracedCall         one call of an instrumented function; implements PlainCall
        MCTracedCall     instance: the wrappers of the four modules above
        TracedCallProofs     what the caller sees, content, one report, spans ended
          TracedReportProofs status, usage, one call, types
            SdkTheorems      the theorems for the wrappers of MCTracedCall
    SubmitPatch          mem0's patch of ThreadPoolExecutor.submit

**Telemetry.** Every instrumentation is the same few things in another order. A
response function is a sequence of *steps*: gather facts from the answer, count
tokens, set attributes, set content, emit the event, set OK, record the
duration. A step names the settings and facts it is executed under (`when`) and
whether it can raise (`safe`: a `try` of its own surrounds it, or it uses nothing
of the call and of the answer). The functions that record the metrics have no `try`
but MCP's, so they can raise, also after OK was set. A helper that records an
exception itself and returns (`noting_helper`: CrewAI's, Crawl4AI's) may fail without
an end of the logic. `"zero"` among the facts of an answer means that the usage it
reports is zero, which `general_tokens` takes for a missing one. A *wrapper* says where the `with`, the `try` and the call stand
(`Wrapper`, `Raising`, `KeepingBoth`, `Losing`, `Exposed`, `Recalling`, `Lazy`),
which ambient flags switch it off, and what its handlers do; a *stream* says when
its span starts, and what exhaustion, failure, leaving and polling again do
(`Closing`, `Replacing`, `ExitingLate`, `IteratedOnce`, `Generator`). A span obeys the
OpenTelemetry SDK: nothing is written after its end, no status replaces OK.

**CloudProviders, LlmProviders, Frameworks, DataStores** have one definition per response function,
chunk handler, traced stream and wrapper, named `<package>_<function>`, and end
with the groups of wrappers that behave alike. Attribute names, formatting and
prices are left out. Content is what passes through the application: messages, but
also search queries, documents, statements, and the text of a task. Whether a
chunk handler can raise is read off it: OpenAI's and LiteLLM's guard only the
finish reason, so every traced stream of the providers has one that can.

**TracedCall** interprets a wrapper. `w`, `on` and `given` (wrapper, settings and
flags, facts the answer has) are chosen once; `pc` and `todo` are where the
wrapper is. Actions for a whole answer:

| code | actions |
|---|---|
| suppression and framework checks | `Skip`, `BareAnswers` |
| `with tracer.start_as_current_span` | `OpenSpan`; `CallFirst`, `First*` where the library runs before |
| steps before the call, `wrapped(...)` | `TakeStep`, `PreFails`, `Call` (`CallLazy`, `Await` without `await`) |
| the library | `LibraryReturns`, `LibraryRaises`, `LibraryCancelled`, `LibraryStreams` |
| response logic and its handler | `TakeStep`, `HelperFails`, `LogicFails`, `Return` |
| the library's exception | `HandleLibrary`, or `Recall` and `AgainAnswers` |

and for a streamed one:

| code | actions |
|---|---|
| the stream or generator is handed over | `FirstStreams`, `HandGenerator`, `StreamAgain` |
| `__next__`, `process_chunk` | `Item`, `FirstPoll` |
| `except StopIteration`, the end of a loop | `Stop`, `FinalFails`, `FinalDone`; `StopLate`, `IterateOnce` |
| the library's stream or `process_chunk` raises | `StreamFails`, `ItemFails`, then `HandleBreak`; `PollOn` when the application reads the stream on, which a generator does not allow |
| the application leaves, closes, is cancelled, polls again | `Leave`, `Quit`, `PollAgain` |

A step that has a `try` of its own is taken to do its work; that it may do part of
it is not modelled. An attached context is detached when the library comes back,
as the `finally` around the call does. `asyncio.CancelledError` is no `Exception`:
only `with` and `finally` see it.

**SubmitPatch** is three actions per thread, one for each access to the attribute.

## 3. Runs

Passing runs; times with two workers are between 5 and 150 seconds.

| run | instance | properties |
|---|---|---|
| `server_registry` | 2 agents, 2 connections, 1 request, 2 spellings, failing disk, 1 crash | `TypeOK`, `RegistryConsistent`, `RemoteConfigCurrent`, `ConfigProvenance`, `WaiterNotForgotten`, `ChannelHasRoom`, `OfferHoldsRegistry`, `ObjectsAreFresh`, `SavedFileKept` |
| `server_progress` | 1 agent, 1 connection with one buffer slot, 2 requests | `WaiterNotForgotten`, `ChannelHasRoom`, `RequestAnswered`, `LoopProgress` |
| `fleet_converges` | 1 agent, 2 connections, 1 change, 1 save, 1 crash | `FleetConverges`, `EffectiveConverges` |
| `fleet_overtake` | 1 agent, 1 connection, 2 saves, 1 change of description or health | `FleetConverges`, `ViewConverges` |
| `fleet_owned` | 2 agents, 2 connections, 1 save, 1 crash | `OwnConfigs` |
| `sdk_all` | every wrapper, 2 items, 1 poll past the end, failing chunk handlers | `TypeOK`, `NeverInvented`, `ReportedOnceByAll`, `StatusTold`, `Tidied`, `Gated`, `UsageTold`, `Answered` |
| `sdk_transparent` | the wrappers that hand on what the library did | `Transparent` |

*Why the bounds are enough to be interesting.* Two connections are what a handover
needs: the old one not yet removed, the new one already reporting. Two ids show
interference between agents, two requests between saves. Two saves that are also
interrupted by a handover are left to the theorems, which have no bounds. `MaxOutbox` 1 makes every
send meet a full buffer. `SeqModulus` 2 or 3 makes the counter wrap. One crash lets a
restart hit every point of a save; `fleet_converges` leaves a connection to come
back with. Changes of an agent are bounded by one (`MaxChanges`): one change
of the health is what makes a report after a handover lack the description alone.
In `fleet_owned` both agents are connected, or one of them comes back by the second
connection: enough for a config to be on its way when its agent leaves or the
server crashes, to be found again in the file, and to be put on the wrong connection. What needs more connections
(an agent that comes back by a third one while offers are under way) is beyond a
few minutes of TLC and is covered by the theorem. Connections (and
the agents of `fleet_owned`) are symmetric in the runs without liveness.
`CHECK_DEADLOCK FALSE` stands in the server runs, which stop when the bounded
connections and requests are used up, and in the SDK's, where a call ends; the
fleet runs never stop.

A traced call is sequential, so its bounds are few: two items (`MaxItems`) let a
stream fail or be left before, between and after items, one poll past the end
(`MaxPolls`) shows what another would repeat; a stream that raised is read on twice
at most (`1 + MaxPolls` exceptions). Calls are made with all settings on
and all off, streamed and not, and with the ambient flags raised; answers report
every fact, a usage that is zero, or nothing. `ChunksFail` lets `process_chunk`
raise: it is off in `sdk_transparent`, because then the exception of the telemetry
does reach the application, by every traced stream whose chunk handler has no
`try`. "Whatever the telemetry does" means, there, the response logic, the metrics
and what happens at a stream's end.

*Fairness.* Goroutines, file operations and timers make progress (weak fairness).
The sends to one connection queue on a Go mutex, which hands itself to a starving
waiter: strong fairness for `SendResponse`, `SendToAgent` and
`OfferConnectionSettings`. A peer of an open connection reads or the connection
breaks: without it `RequestAnswered` is false, because the code sends without a
deadline while it holds `agents.mux`. Agents reconnect, read, and report
periodically (opamp-go's heartbeat); a report that was sent waits in the socket,
hence strong fairness of `AgentReport`. Nothing is assumed of requests, breaks,
crashes or changes. A traced call has weak fairness of its next step: statements
follow one another, the library answers, the application reads or leaves the
stream it holds.

### Wrappers that do not keep the rules

Each promise is stated once (`ReportedOnce`, `OkEarned` and `ExceptionShows`,
`NothingLeft`, `ContentGated`, `UsageKept`, `Transparent`), in the words of the
contributors' guide where it has any. Most are broken by some wrappers. What `sdk_all`
checks of *all* wrappers is the promise with the list of those that break it:
`Tidied == w \notin UntidyCalls => NothingLeft`. The lists are exact, twice over:
`MCTracedCall` assumes that a list is the set of wrappers without the shape the
theorem asks for, which TLC evaluates; and of every group below TLC finds the strict
promise violated when it is put back.

| property | leaves out | because |
|---|---|---|
| `ReportedOnceByAll` | streams polled past their end, of `RepeatingCalls` (`StartingStreams`, `ClosingStreams`, `ReplacingStreams`, Letta) | the report runs again for each poll, against "accumulate then call common_*_logic once at the end"; Letta's has no event and no duration |
| `StatusTold` | `MistakenCalls`: `OverruledStreams` (Agno) | a `finally` sets OK after a failed stream |
| | `NotingCalls` (CrewAI) | helpers record their exceptions and OK is set after them |
| | `UnawaitedCalls` (mem0, async) | OK before the operation runs |
| | `LateStreams`, PremAI, Transformers, LangChain's embeddings | OK, then an exception that reaches the application |
| | exceptions of the recorded duration, where it follows OK (`MetersBeforeOk` does not hold) | OpenTelemetry keeps OK: the exception is on the span, its status says OK |
| `Tidied` | `UntidyCalls`: `ReplacingStreams` | the span started with the call is replaced at the end and never ended |
| | `LateStreams` (Azure AI Inference), PremAI, Letta's streams | nobody ends the span; a second one |
| | streams left early or that raised (`StreamAbandoned`) | no code of the SDK runs |
| `Gated` | `UngatedCalls`: `UngatedContent` (Cohere, GPT4All, Sarvam, vLLM), `UngatedFrameworks` (CrewAI's task text, Haystack, LangGraph and Pydantic AI nodes, Agno's vector stores), `UngatedStores` (queries and statements of Astra, Chroma, Milvus, Pinecone, Qdrant) | the content is set outside the test of the setting |
| `UsageTold` | PremAI's stream | its zeros overwrite |
| | a usage of zero, of `EstimatingOnZero` (OpenAI's chats, responses, parse) | `if scope._input_tokens` takes it for none (`openai/utils.py:789`, `:1184`) |
| `Transparent` | `LateStreams`, `OpaqueCalls` (AssemblyAI, PremAI, Transformers) | telemetry without a `try`, an unassigned variable, a stream that cannot be iterated |
| | `FragileBefore` (LangGraph, mem0, Browser Use, Crawl4AI, Pydantic AI, ...) | telemetry before the call or in its `try` |
| | `UnawaitedCalls`, `RecallingCalls` (Firecrawl, Letta) | a failure comes later; the library is called again |

`NeverInvented`, `TypeOK` and `Answered` leave nobody out. `NeverInvented` says what a
stream owes that is read on after an exception of `process_chunk`: it does stop as
if complete, but nothing is missing except the items of the polls that raised.

### Where the code does not do what it says

| run | shows |
|---|---|
| `server_persist_race` | an agent registers between truncate and write of its file: the loader deletes the empty file, the write goes to a file without a name, and the save reports success (or the loader, having read the empty file, deletes the complete one) |
| `fleet_description` | after a handover a report may leave out the description alone, which `processStatusUpdate` does not count as "not fully reported" (`agent.go:268`): it asks for nothing, and the server's view stays without |
| `sdk_content` | messages on the span of vLLM, GPT4All, Cohere and Sarvam calls although `capture_message_content` is off |
| `sdk_recall` | a Firecrawl operation that raised is executed again, against the comment "outside try block" |
| `mem0_submit` | two overlapping mem0 calls leave `ThreadPoolExecutor.submit` patched for good |

Not runs, but seen in the models: a config saved under an upper-case id is not
found when the agent registers again (`ui.go:204`, `agents.go:104`); a CSR with a
bad signature ends the process (`agent.go:491`); an agent that does not report its
config status never gets a config saved while it reconnected (`agents.go:147`);
the comment of `SetCustomConfig` says its channel is notified once the config is
applied, but `UpdateStatus` notifies on any next report. `SavedFileKept`,
`WaiterNotForgotten` and `FleetConverges` say what the code does guarantee.

## 4. Proofs

Six modules, all theorems without bounds: for all sets of agents, connections,
requests, configs, spellings and messages that satisfy `StatusAssumption`,
`ServerAssumption` and `FleetAssumption` (sets of names are disjoint from `Nil`,
messages are well formed, bounds are positive), and for all sets of wrappers of
`WrapperShape`, calls and answers that satisfy `CallAssumption`. TLC evaluates these
assumptions in every run.

### The server (`OpAMPServerProofs`, `OpAMPConfigProofs`)

| theorem | states |
|---|---|
| `TypeCorrect` | `Spec => []TypeOK` |
| `RegistryAgrees` | `Spec => []RegistryConsistent` |
| `RemoteConfigReady` | `Spec => []RemoteConfigCurrent` |
| `NoLostWakeUp` | `Spec => []WaiterNotForgotten` |
| `OffersAreExclusive` | `Spec => []OfferHoldsRegistry` |
| `RegisteredObjectsAreNew` | `Spec => ObjectsAreFresh` |
| `CompleteFilesKept` | `Spec => SavedFileKept` |
| `ChannelNeverBlocks` | `Spec => []ChannelHasRoom` |
| `ConfigsWereSaved` | `Spec => []ConfigProvenance` |

The first six are not inductive alone. `IndInv` adds `NoOrphans` (an object that is
not registered belongs to a removed connection: otherwise a new object could reuse
its place), `LoopsHold` (a loop that is about to update a status holds an existing
object, and runs on a connection that is not removed) and `RequestsHold` (the same
for requests). `RegistryConsistent` needs `NoOrphans` for fresh objects;
`WaiterNotForgotten` needs `RequestsHold`, because a watcher lives in the heap, and
`ObjectsAreFresh`, because a new object in its place would lose it. `InductiveInit`
and `InductiveStep` state the induction, and every later proof about the server
or the fleet starts from them. `Steps` and `RequestMoves` sort the actions by what
they can touch, so that each conjunct looks only at the actions that can disturb
it; `HeapGrows` says that, crash aside, objects never disappear. A crash is
treated apart (`CrashStep`). Since a loader keeps `agents.mux` from one step to
another, `OfferHoldsRegistry` is part of the induction: `LoaderAlone` concludes that
while a connection loads, no other step registers or removes an agent. `FileSteps`
finds the actions that touch files; `CompleteFilesKept` then needs that a loader
which read the complete file it still finds does not remove it.

`ChannelHasRoom` counts registrations, which no step can be shown to keep. Its
inductive form is `Registrations`: a save is registered only with the one object
it found, only once it has set its config there, and not once it holds its token
(so a second registration, or a notification after the token, is impossible);
`RoomFromRegistrations` derives the count. `ConfigProvenance` relates files and
objects to what requests asked for: `NewRequests` and `AskedKept` say that what was
asked for is never forgotten, `FilesAsked` and `ObjectsAsked` follow a config from
the request to the file and the object, `LoadedStep` from the file to what a
loader holds and back, and `AnswersAsked` to the answer of a report. A
request in its save steps carries its own body (`BodyAsked`).

### The fleet (`FleetProofs`)

| theorem | states |
|---|---|
| `FleetIsServer` | `FleetSpec => Spec`: a refinement, the server's variables mapped to themselves |
| `FleetKeepsServer` | `FleetSpec => []` of the seven state invariants above |
| `AgentsRunTheirOwn` | `FleetSpec => []OwnConfigs` |

`FleetIsServer` says that the agents are clients the server was proved for: each
step of the fleet is a step of the server or leaves it alone (`FleetStep`), for which
what an agent reports must be one of the messages the server may get
(`ReportTyping`, from `AgentsTyped`). All results about the server carry over.

`OwnConfigs` is about the end of the chain: what an agent applies came over the
network, from an object, from a file or another request, and connections and
objects outlive the agent's use of them. Inductive are two facts more.
`OneAgentPerLink`: the agent that believes in a connection is the only one with an
object, a report or a config on it. `OwnTraffic`: what is queued or about to be
answered on its connection was saved for it. `ServesOwn` shows the second for each
send: the body of the request (`BodyAsked`), the answer to a report (`AnswerOwn`),
and offers of settings, which carry no config. It is a statement about agents that
use their own connections, as supervisors do: clients that share one are outside
`Fleet` (they are inside `Spec`), and there it would be false, since the registry
sends an agent's config on the connection it first came with.

### The traced call (`TracedCallProofs`, `TracedReportProofs`)

| theorem | states | asks of the wrappers |
|---|---|---|
| `NothingInvented` | `Spec => []NeverInvented` | nothing |
| `Transparency` | `Spec => Transparent` (refinement of `PlainCall`) | `HandsOn`, and chunk handlers do not raise |
| `ContentStaysHome` | `Spec => [](Gates(w) => ContentGated)` | nothing: the shape is the call's own |
| `OneReportPerCall` | `Spec => [](ReportsOnce(w) => (~w.stream.again \/ polls = 0 => ReportedOnce))` | the same |
| `NothingLeftBehind` | `Spec => [](Closes(w) => NothingLeft)` | the same |
| `StatusAgrees` | `Spec => [](Tells(w) => OkEarned /\ (Quiet => ExceptionShows))`, where `Quiet` is `MetersBeforeOk(w)` or metrics off | the same |
| `UsageReported` | `Spec => [](Tallies(w) /\ ReportsOnce(w) /\ (CountsZero(w) \/ "zero" \notin given) => UsageKept)` | the same |
| `RaisedOnce` | `Spec => RaisedOutside` | `LeavesRaised` |
| `CallTypes` | `Spec => []TypeOK` | `ReportsOnce`, `KeepsAnswers` |

The shapes are conditions on the data that a reviewer of a new instrumentation can
check by reading it:

| shape | asks |
|---|---|
| `HandsOn` | library exceptions pass, telemetry exceptions do not, one awaited call |
| `Closes` | a new span at a stream's end only where the call started none, none left to `__exit__`; a generator has a handler around its loop |
| `Gates` | content steps are under the capture setting |
| `ReportsOnce` | one event, one duration, nothing raises after it; a stream that reports its failure is over then |
| `Tells` | OK is not set before the call, nothing but the duration raises after it, no helper marks the span before it, and no logic that runs after a handled exception sets it |
| `MetersBeforeOk` | the duration comes before OK, or cannot raise |
| `Tallies` | tokens are counted after usage was read, and estimated unasked only where no usage is ever read |
| `CountsZero` | no estimate replaces a count of zero |
| `LeavesRaised` | no handler answers the library's exception with another call |
| `KeepsAnswers` | what is returned when the logic fails is an awaited answer |

The inductive invariants: `Honest` says what `answer` and `app` can be at each `pc`
and how many polls raised, which `NeverInvented` alone does not know; `Through` adds
that the library was asked once and, until the end, how far the caller lags behind
it; `Shaped` that `todo` holds only steps of the wrapper, so that a condition on the
wrapper is one on what is left to do; `Counts` that at every place from which a
report can still come, a stream that is read on included, nothing has been reported
since the last poll past the end; `Tidy` that every span but the one being written
has ended (`OthersClosed`), because a new one is started only where that one has, and
where that one and the context are. `Telling` follows the status in two halves:
`Written`, that OK is on the span only where no exception can reach the caller any
more, and `Shown`, that once an exception is recorded no OK is left to be set at any
place the call can still reach; `Placed` keeps the steps left in step with `pc` and
the answer. `OpsWrite` says what each operation makes of a span. `Tallying` says
that an estimate, made or still to be made, goes with no usage read or still to be
read. `NotYetRaised`: where a library may still be called it has not
raised. `Bounded` places the calls and spans there can be at each `pc` (a wrapper
asks three times at most). `StepSpans` and `StepTodo` sort the actions by what they
do to the spans and to the steps left.

### The wrappers of the SDK (`SdkTheorems`)

`MCTracedCall` states as assumptions which wrappers have which shape (`AllShape`,
`SoundShape`, `OneCallShape`, `TidyShape`, `TruthfulShape`, `GatedShape`, `TallyShape`,
`ZeroShape`, `RepeatShape`), and TLC evaluates them, wrapper by wrapper, at the start of
every SDK run. With them the theorems speak of the code itself, for all settings,
all answers, streams of any length and any number of polls past their end:

| theorem | of | states |
|---|---|---|
| `EveryWrapper` | all wrappers | `Spec => [](TypeOK /\ NeverInvented /\ ReportedOnceByAll)` |
| `EveryWrapperTidies` | all wrappers | `Spec => []Tidied` |
| `EveryStatusIsTold` | all wrappers | `Spec => []StatusTold` |
| `EveryWrapperGates` | all wrappers | `Spec => []Gated` |
| `EveryUsageIsTold` | all wrappers | `Spec => []UsageTold` |
| `NoOtherRecalls` | all but `RecallingCalls` | `Spec => RaisedOutside` |
| `SoundIsTransparent` | `SoundWrappers`, `process_chunk` does not raise | `Spec => Transparent` |

Only the last asks that chunk handlers do not raise.

### Only model-checked

Every invariant and every action property of the passing runs is proved. With TLC
stay: the liveness properties (`RequestAnswered`, `LoopProgress`, `FleetConverges`,
`EffectiveConverges`, `ViewConverges`, `Answered`), because TLAPS proves neither liveness under fairness
nor ENABLED; which wrapper has which shape, an evaluation of data; and the five
violations, which are counterexamples. `SubmitPatch` has no property that holds to
prove.

## 5. Plan

1. Done: OpAMP server and its fleet; the traced call of the Python SDK with the
   data of its instrumentations, its abstract specification and the refinement.
2. Done: theorems for every invariant and action property of the passing runs.
3. Next: what `SubmitPatch` does guarantee, for calls that do not overlap or are
   nested; the state argument under `FleetConverges` (an agent that is registered
   through its connection, with nothing on its way, runs the server's config).
4. LangChain's callback handler: open spans by run id, nested and concurrent runs,
   callbacks that never come.
5. Operator: `WebhookCerts` (replicas that start together, one Secret; what is
   published verifies what is served), `Admission`, `CircuitBreaker`, `Reconciler`.
6. Web client: `AutoEvaluate`, `Crontab`, `Organisation`, prompt versions.

## 6. Not modelled

*OpAMP server:* OpAMP over plain HTTP (no connection outlives a request), TLS
handshakes, key generation, display fields of an Agent. `hasCapability` reads the
capabilities of the first report for ever, and `statusUpdateWatchers` of an agent
that never reports grows without bound: both are hazards without a property.

*SDK:* the LangChain callback handler and the OpenAI Agents trace processor, which
follow a tree of runs instead of a call; `init` and the exporters, which run once;
evaluations and guards, a prompt and a JSON answer each; the GPU instrumentor and
the CLI; the table of semantic conventions; what an exporter does with a span
that was ended. Threads that share one traced stream are left out: the libraries'
streams are not thread-safe either. Of a failing step inside a `try` of its own
only that it does not raise is modelled.

*Elsewhere:* the operator and the web client (planned, above), the injector's pod
transformation, the TypeScript and Go SDKs, the GPU collector, browser code.
