# Formal model of Moon Bridge

Moon Bridge is a Go proxy. It accepts OpenAI Responses and Chat Completions
requests, resolves the model they ask for to a provider, converts them to the
provider's protocol (Anthropic Messages, OpenAI Responses, OpenAI Chat, Google
GenAI) and converts the answer, whole or as a stream of events, back. Its
configuration lives in SQLite, is edited through a management API and a web
console, and is reloaded without a restart.

This directory holds TLA+ modules for the parts whose correctness depends on the
order of steps of several actors and for the conversions, which depend on the
order of a protocol's messages; the TLC configurations that check them; and
theorems checked by TLAPS. Paths are relative to the repository; `src/internal/`
is abbreviated to `internal/`.

1. [Inventory](#inventory)
2. [Modules and how they correspond to the code](#modules-and-how-they-correspond-to-the-code)
3. [Runs](#runs)
4. [Bounds](#bounds)
5. [Fairness](#fairness)
6. [Proofs](#proofs)
7. [Disagreements with the documentation](#disagreements-with-the-documentation)
8. [What is not modelled](#what-is-not-modelled)
9. [Plan](#plan)
10. [Running the checks](#running-the-checks)

## Inventory

`PROJECT.json` lists every component with its status. In short:

| Component (code) | State it keeps | Operations | What is hard | Correct when |
|---|---|---|---|---|
| Configuration graph (`service/configgraph`, `service/api/config_graph.go`) | none of its own | graph, patch, validate, create, delete | each is several store statements and a reload with no lock around them | no candidate that does not validate is saved or served; a commit replaces the revision it was based on; what is saved is what is served |
| Configuration store (`service/store`) | five tables, the `changes` table, a revision in the settings | save, load, stage, list, apply, discard | loads read five tables outside a transaction; an apply commits before it validates | the tables load at the next boot; a staged change is applied once; revisions grow |
| Runtime snapshot (`service/runtime`) | one atomic pointer to configuration and provider manager | current, validate, reload | readers keep old snapshots | what is stored by an apply that answers is what is served |
| Server dispatch (`service/server/dispatch.go`, `chat_ingress.go`, `server.go`, first half of `adapter_dispatch.go`) | caches of upstream clients | resolve, filter by image, forward, fall back, convert, call, report | some twenty early returns, deferred hooks, and up to four reads of the snapshot in one request | one answer; one truthful report; fallback never repeats answered work; credentials were live |
| Stream pipeline (`adapter_dispatch.go`, `inbound.go`, stream halves of the protocol adapters) | channels, the replay buffer, captured usage | read, convert, tee, convert to the client's events, frame, write, drain | five goroutines per request, two buffered and three unbuffered channels, cancellation | every event delivered once and in order; every goroutine ends; the usage recorded is the upstream's |
| Provider manager (`service/provider`) | definitions, clients, resolved web-search support | resolve a model, look a provider up, probe | replaced as a whole by a reload | part of dispatch |
| Session manager (`service/server/session`, `internal/session`) | a pool of sessions bounded by number and age | get or create, prune, ephemeral | a handler may hold a session that has left the pool; limits change under it | the pool keeps its bound; only expired or least recent sessions leave |
| deepseek_v4 plugin (`extension/deepseek_v4`) | two bounded caches per session | remember, replay | ids shared between conversations, several handlers in one session | what is replayed is the conversation's own thinking |
| Stream conversion (`protocol/*`, `format`, replay functions of `adapter_dispatch.go`) | open blocks, their indexes, items, arguments so far | one chunk to Core events, one Core event to the client's | five upstream grammars, parallel calls, two numberings, nested tools that are named late | the client can rebuild the answer from the frames, exactly; nothing reads past the list of items |
| Conversation conversion (`protocol/*`, whole requests and answers) | none between requests: the client keeps the history | request to Core to provider, answer to Core to client | calls, results and thoughts are items of their own; merging, batching, skipping | the next request is the conversation that was held, in the order of turns each provider demands |
| Tool loops (`extension/websearch`, `extension/visual`, `service/server/websearch_inject.go`) | one request's messages, images, rounds | choose a loop, call, run own tools, call again | round limits, rounds that mix own and client's calls, streams put together from pieces, images numbered and removed | what the model asked is run, once; every call is answered by who can; bounded rounds |
| Codex tools (`extension/codextool`, tool halves of the adapters) | a tool map per request | flatten or nest namespaces, wrap custom tools, map calls back, show calls again | names that collide once joined, bare names, patches split over five tools | a call reaches the tool that bore the name; patches stay whole |
| Search modes (`service/app/app.go`, `provider/manager.go`) | resolved mode per provider, model name and pair | probe in parallel, resolve names, serve, reload | results shared between names in map order, a reload that starts empty | a stated setting holds; auto follows the probe |
| Prompt cache planner (`protocol/cache`) | a registry of warm prefixes | plan breakpoints, note usage | token thresholds, expiry | breakpoints within the provider's limits |
| Configuration files (`internal/config`) | none | load, validate, convert back | the round trip through the file form | what is saved loads to the same routes |
| Persistence registry (`internal/db`, `extension/db/*`) | the active provider, the consumers | select, open, ping, bind | one of several steps failing | a failed consumer is disabled and alone |
| Plugin registry (`extension/plugin`) | the plugins in order | init, shut down, dispatch | order, panics | every enabled plugin is called once |
| Logger (`internal/logger`) | a ring, its subscribers | append, recent, subscribe | sends after the lock is released | no send on a closed channel |
| Traces, statistics, metrics (`service/trace`, `service/stats`, `extension/metrics`) | counters, rows, files | record | called from many handlers | each request is counted once |
| Boot and shutdown (`service/app`, `cmd`) | none | choose the configuration, wire, serve | a store that does not load | something valid is served |
| Capture proxies, Codex catalogue, kimi_workaround, web console | little | forward, format, rewrite, edit | see [What is not modelled](#what-is-not-modelled) | |

How they interact: the management API's handlers call the configuration graph
service, which reads and writes the store and reloads the runtime. Every proxy
request reads the runtime's snapshot, several times, without a lock. The server
asks the provider manager of a snapshot for candidates, the session manager for a
session, the plugins for rewrites (deepseek_v4 reads and writes the session's
caches), a provider client for the upstream call, and the adapters for the
conversion; at the end it reports to statistics, traces and the plugins' hooks.

The hazards of this code, each at its line, with the properties that watch it,
are in `PROJECT.json` under `hazards`.

## Modules and how they correspond to the code

| Module | Contents |
|---|---|
| `ConfigData` | a configuration document: `Valid` (`config.go` Validate), patches, creation, deletion, staged changes, as pure operators |
| `ConfigControl` | the handlers of the management API over the store and the runtime |
| `ConfigControlProofs` | lemmas and theorems about `ConfigControl` |
| `StreamPipeline` | one streaming request: every goroutine from the upstream body to the client's connection |
| `StreamDelivery` | the abstract specification of a stream: a queue between the converter and the client |
| `RequestDispatch` | the life of one request from resolution to report, under reloads |
| `SessionReplay` | the session pool, composed with the deepseek_v4 caches of each session |
| `CoreEvents` | the Core stream: events, block maps |
| `ProviderStreams` | the Chat, Anthropic and Google stream converters, and the replay of a whole answer, as functions of memory and chunk |
| `ClientStreams` | the Responses and Chat client converters, as functions of memory and Core event |
| `StreamConversion` | any upstream's converter composed with any client's |
| `CoreMessages`, `ClientMessages`, `ProviderMessages` | whole requests and answers: Responses and Chat to and from Core; Core to and from Anthropic, Chat and Google |
| `Conversation` | a client holding a conversation through those conversions |
| `ToolChunks` | calls put together from the pieces of a buffered stream |
| `ToolLoop` | the loops that run searches and visual tools within one request |
| `ToolSpecs` | Codex tools as functions of what is offered and called |
| `ToolNames` | a client's tools offered, called, answered and called again |
| `SearchModes` | resolution of the search modes at boot, what is served, a reload |
| `Selections` | loops that copy the elements they keep, as a recursive function |
| `SelectionProofs` | induction over numbers; what such a loop returns |
| `StreamPipelineProofs`, `RequestDispatchProofs`, `SessionReplayProofs`, `SearchModesProofs`, `StreamConversionProofs`, `ToolLoopProofs` | the theorems about those components |
| `MC*` | instances for TLC: constants, symmetry |

`PROJECT.json` maps each definition to its lines. The comment `Mutant:` marks an
operator that states how a plausible bug would change the definition below it; no
specification uses it.

**ConfigData, ConfigControl.** A document is a record of settings (a
hot-reloadable field, `defaults`, and one that asks for a restart, `server`),
models, providers, offers and routes. `Valid` keeps the four conditions of
`Config.Validate` that edits can break: some provider, some model offered or routed, every
offer's model defined, every route's target resolvable. The values of fields that no
condition looks at are left out. `tables`, `revision`, `pending` and `applied`
are the SQLite tables; `runtime` is `Runtime.snapshot`; `applyMu` and `conn` are
the mutex of `ApplyPendingChanges` and the single connection (SQLite's pool has
one, `extension/db/sqlite/plugin.go:55`), which a transaction owns while it lasts.
Each handler is a process with a program counter. A statement sent to the store
is a step; `LoadTable` is one of five steps, because `loadFileConfig` reads the
five tables with five queries and another handler may commit in between. Reads fail
too: a revision that cannot be read ends a request, except that a create then skips its
comparison (`rejectCreateConflict`, `api/config_graph.go:151`); a load or a listing that fails answers an
error, and an apply that fails after its commit leaves the tables changed.
`Restart` is a crash and a boot at any moment.

**StreamPipeline, StreamDelivery.** A stage is a goroutine, with the item it is
sending in `hand` and its output channel in `chan`; on a channel without buffer
the receiver takes the item out of the sender's hand. The provider side is a Chat
or Google client (a reader goroutine and a converter), an Anthropic client (a
converter that pulls), or a finished response turned into a stream. The ingress
decides which stages follow the tee. The handler writes frames, drains the rest in
a goroutine when a write fails, settles the usage, waits for the replay buffer and,
with tracing on, for the client stage's buffer, and reports. `Break` and `Cancel`
are the client's connection and net/http. `StreamDelivery` promises a connected
client every frame once and in order; `DeliveryImplemented` is the refinement,
with everything on its way between the converter and the connection as the
queue.

**RequestDispatch.** One model is asked for; a snapshot is a set of provider
definitions and the offers of the model by priority. Every read of the snapshot
is a step (`Resolve`, `Filter`, `OpenPassthrough`, `BuildClient`), and `Reload`
may come before each. `handleOpenAIResponse` is modelled with its fallback loop
and its deferred hook, `handleWithAdapters` with its early returns, its deferred
hook and the flag `adapterCompleted`. The client cache of Chat providers is
`cache`; Google's works the same way. The pipeline of a stream is
`StreamPipeline`'s; here a stream is one step.

**SessionReplay.** A session is an address in `heap`, which holds exactly what the
pool or a handler can reach. `GetOrCreate` is `Find` or `Create`; the code reads
the clock before it takes the lock (`session/manager.go`), so a lookup happens at
any time from the handler's arrival at it to now. `evictLRULocked` compares last
uses only, so of equal ones any may go. A cache is its map and its queue, as in
`state.go`; blocks of thinking are named by the answer they belong to. Histories:
`turns` (answers given), `shown` (answers a client has in full), `served`, `full`.

**CoreEvents, ProviderStreams, ClientStreams, StreamConversion.** A converter is
an operator from its memory and one input to its memory and its output, as the
code's loops are: `ChatStep`, `AnthropicStep`, `GoogleStep` for `ToCoreStream` of
the three adapters, `ResponsesStep` and `ChatClientStep` for `streamLoopWithBuf` and
`streamLoop`. The loops over the calls of a chunk and over the events of a step are
recursive functions (`ChatCalledUpTo`, `HeardUpTo`). Texts are sequences of pieces numbered by the chunk that carried
them, so a lost, repeated or misplaced piece shows. The upstream is the
environment: one action per kind of chunk its protocol has, in the orders the
actions' guards allow, and it may break off anywhere. Of a Chat upstream it is assumed that it
thinks, then speaks, then calls (a local one may think again after it spoke) and that a
chunk carries one of these. A piece of a nested call's arguments may
hold the action or not, which decides when the call can be named. In the
Responses converter a Go map's zero value is kept (`ItemAt`): a block index
nobody opened addresses item 0, and `panicked` is the read past the list that
would end the process.

**CoreMessages, ClientMessages, ProviderMessages, Conversation.** `history` is
what the client would send, in its protocol's items; `log` is what was said, as it
was meant. The actions are a user, a system message, a tool's result, and an
answer by a provider, converted to Core and to the client's items. What the next
request would be is a function of `history` (`ToAnthropic(Core)` and so on), and the
properties compare it with `log`. `convertInput`'s waiting thoughts are a Go slice with a
capacity, whose array is shared with messages already built; the model keeps the
capacity and the owners, because the code appends to it after reslicing to zero.

**ToolChunks, ToolLoop.** `Dispatch` chooses the loop as `adapter_dispatch.go`
does (protocol, stream, mode, keys, visual tools); `AnswerWhole`,
`AnswerStreamed` and `UpstreamFails` are one round each, with the guards of that
loop. `spent` is the visual loop's `aggregatedUsage` with its flag; a round may tell no usage, and
each of the four exits applies the sum as the code does there. A Chat answer with calls
may end under `tool_calls` or `stop`. A streamed answer is buffered by the code and put together by
`collectStreamToolCalls`, a recursive function over the deltas (`CollectedUpTo`);
`AppendToolCallArgs` keeps its four cases. The upstream sends the deltas of its
calls in any order that keeps each call's own (`Orders`), or all calls whole in one
chunk without indexes (`Streams`). A text is a sequence of letters of which only the
braces matter, because `json.Valid` decides one of the four cases (`WholeObject`). Images are
taken out of the content and numbered by one counter over both walks (content and
tool results, `PreparedUpTo` and `PartsUpTo`); a visual call names a number.

**ToolSpecs, ToolNames.** A name is the sequence of the words that "_" joins, so
two tools of different namespaces may get one upstream name, as they may in the
code. `FlattenTools`, `ConvertTool` and `BuildToolMap` follow the functions of these names
with their deduplication. A model calls a tool by its upstream name, badly
(arguments cut off), by a bare name, or again as its history shows the call. The
program uses the strategy `flat` only (`app.go:258`); the two nested ones are
configurable in the package and are checked too.

**SearchModes.** A `web_search` section is what a model, a route or a provider states and whether
it has a key of its own; a section that states no setting loses its key (`SectionForModel`).
The providers are visited in any order; those set to auto start a
goroutine, joined before the models are visited in any order, then the routes. A
refused probe falls back to the injected search: of a provider only for a global Tavily key
(`app.go:410` and 433), of a model for any key it can reach
(`InjectedSearchConfigured`). A
pair's result is shared through its candidate key. `Serves` is dispatch reading
candidate key, then alias key; `Reloads` is `buildSnapshot`, whose new manager has
none of the modes.

## Runs

| Run | Question | Result |
|---|---|---|
| `config_graph` | Two graph handlers (read, patch, validate, create, delete), torn loads, failed reads and saves, crashes: can a configuration be stored that does not load? | No: validation comes after the torn load. Revisions grow whatever the clock says. |
| `config_staged` | Two clients stage, apply and discard: is a change applied twice, is what an apply loads after its commit what the tables hold, does anyone wait for ever? | No change is applied twice, an apply that committed and answers "ok" serves exactly what is stored, and nobody waits for ever under the fairness below. |
| `config_stale_commit` | Does a commit always replace the revision it names as base? | No: see below. |
| `stream` | Every kind of stream, with a client that may stall or vanish: delivery, usage, replay buffer, termination, one queue | Hold. No goroutine is left blocked, the usage is never read while the tee writes it, and an ended upstream ends the request of a client that reads. |
| `dispatch_reload` | Requests of all kinds, five snapshots, a reload before any step | One answer, one truthful report, fallback only past unanswered calls in the order of one snapshot, live credentials on the direct paths. |
| `session_replay` | Several conversations under eviction, expiry, reconfiguration and concurrent handlers | Thinking never crosses conversations, a finished answer's thinking is there for the next request, caches and pool keep their bounds, and only the right sessions leave. |
| `stream_conversion` | Every upstream's chunks, in the orders above, to both clients: is the answer the client rebuilds the one that was given? | Yes, with the exceptions named below; items are framed once and the converter never reads past them. |
| `conversation` | Two answers by any providers, any tool results and messages between: what does the next request carry to each provider? | The conversation, whole and in order, in that provider's order of turns; cut answers are told as cut. |
| `tool_loop` | Every loop, protocol and mode, answers mixing own and client's calls, streamed or not | What was asked is run once and as asked; results follow the calls that were run, and the client gets the calls of the last answer; the loop gives up exactly after its rounds; the visual loop's usage is the sum of what its rounds told, by every exit; labels name their images. |
| `tool_names` | Tools that collide within, across and after joining namespaces, in both orders, under each strategy | A call comes back as a call of an offered tool its name stands for, never of a guessed one; repeated calls return; patches keep every operation. |
| `search_modes` | Two providers sharing pairs between catalog names and routes, keys at every level, any order, any probe outcome | A name's own setting is served where no other name of its pair disputes it, and one of the pair's where none says auto; a pair that says auto follows its probes; the boot ends. |
| `search_after_reload` | Are they still served so after a reload? | No: see below. |

Each property has a mutant in `PROJECT.json`: a plausible bug under which TLC
finds the property violated with the run's own configuration.

## Bounds

All are named constants of the modules or definitions of the MC modules.

- Configuration: one provider, one model, one alias
  (none in the staged run), one value per field (two where freshness is asked),
  two handlers, revisions up to 3, two staged changes. Two handlers suffice for
  every race described: each is between a write and one other handler's read or
  write. Revision 3 allows two commits while the other handler is anywhere in its
  work, which a load needs to come out invalid: one commit changes one resource,
  and a load torn by it is either the old or the new configuration. It is also
  `math.MaxInt64` reached; behaviours stop committing there, as the code does.
  With one provider a route cannot outlive its provider, because the last
  provider cannot go; with `Providers = {p1, p2}` the same configuration gives
  4.5 million states and the same verdict in about five minutes, and
  `GraphStoreLoads` is proved for any number. The staged run has revision 1 only:
  an apply does not touch the revision.
- Streams: 4 upstream events against channels of 2 and a replay buffer of 3, so
  that channels fill, block their senders, and the buffer overflows. The code's
  64 and 1024 differ only in how long that takes.
- Dispatch: one request (requests share only the client cache, and a request may
  follow another), three providers, two sets of credentials, five snapshots
  chosen so that the protocol, the key, the image support and the existence of a
  provider each change. Reloads are not limited in number.
- Sessions: three keys, up to two requests at once, two answers, three tool ids
  against a cache of two, three addresses, a clock of one tick. `world` gives
  each behaviour a subset of handlers, keys and answers so that combinations that
  ask nothing new are left out. The second answer repeats the first's tool call
  and text and fills the cache. Answers without thinking are left out of the
  instance; they change no cache. `HasRoom` bounds addresses only: a fresh
  address always exists in the program.

- Stream conversion: 5 chunks of a Chat upstream, 9 events of an Anthropic one
  (two blocks with their starts and stops), 4 of Google, a replayed answer of up
  to three blocks, two calls. That is enough for thought, text and two interleaved calls, each
  with a late action, and for a break after each chunk.
- Conversation: answers of up to three, then up to two blocks, one function, one
  message of the user and of the system between any two steps. Within a history
  thoughts do not follow one another (`Repeated = FALSE`): that case is the
  violation described below.
- Tool loop: two calls in an answer, three rounds (two where pictures or a
  Chat stream multiply the states, one for the long arguments), arguments in up to
  three pieces. The arguments are an empty object, a plain one, one that repeats a
  letter and one that nests an object: each case of `AppendToolCallArgs` is
  taken, rightly and wrongly. The theorems have none of these bounds but `MaxPieces`.
- Tool names: offerings of one or two tools of a pool of ten, and of three of the
  five that collide; one call and one repeated call.
- Search modes: two providers, two models, and two routes to the same pair or to
  different ones, with every setting a route can state; no key, the provider's, a global one of
  Firecrawl or of Tavily, and keys of a route's or a model's own; a provider that lists
  no model. One remembered request, since requests share nothing.

`CHECK_DEADLOCK FALSE` appears where the system comes to rest: a request that was
answered, a client that has said what its bound allows, a bridge that served its
requests.

## Fairness

- `ConfigControl!FairSpec`: strong fairness of each handler's steps. A mutex in Go
  hands over to a waiter that starves for a millisecond, and `database/sql` serves
  waiters for the connection in order, so a handler that can run again and again
  does run. Clients and crashes are not assumed to act.
- `StreamPipeline!FairSpec`: weak fairness of each goroutine's steps, of the drain
  goroutine, and of net/http cancelling the context of a broken connection. An
  upstream is not assumed to send anything, and a connected client is not assumed
  to read; a write on a broken connection returns.
- The second half of `RequestReturns` assumes besides, as its premise, a client
  that keeps reading.
- `SearchModes!Spec`: weak fairness of the boot's steps as one. The boot is one
  goroutine that goes on by itself, and a probe ends by its timeout
  (`app.go:540` and 569). Nothing is assumed of requests and reloads.
- The other modules state safety only and assume nothing.

## Proofs

The theorems hold for every value of the constants: any sets of handlers,
requests, providers, keys, sessions, models and values, finite or infinite, any
lengths, capacities, limits and bounds. The assumptions are the named `ASSUME`s of
the component's module, which TLC evaluates in its runs. They say that markers
(`NoHandler`, `Absent`, `NoText`) are not values, that what is given from outside has its
form (a configuration file that is valid, snapshots with their offers, answers
with distinct ids, messages made of texts, images and tool results), and that bounds
are numbers. Each property's invariant was
checked by TLC on the component's run before it was proved.

| Theorem | States |
|---|---|
| **`ConfigControlProofs`** | |
| `TypeCorrect` | `[]TypeOK` |
| `AppliesServeTheStore` | `AppliedIsServed` if no graph handler is used: an apply that committed and answers "ok" leaves the runtime serving exactly what the tables hold |
| `RevisionsIncrease` | `RevisionIncreases` |
| `AppliedAtMostOnce` | `AppliedOnce`: a batch being committed has no change that reached the tables before |
| `GraphStoreLoads` | `[]StoreLoads` if nothing is applied from the staged changes: what the graph's handlers store always loads |
| **`StreamPipelineProofs`** | |
| `TypeCorrect` | `[]TypeOK` |
| `UsageIsSettled` | `[]UsageSettled`: the usage recorded is the upstream's, and not read while it is written |
| `ReplayIsExact` | `[]ReplayExact`: the buffer replayed is at rest and holds the first chunks in order |
| `EverythingIsDelivered` | `[]EverythingDelivered`: a client that stays has every event, once and in order |
| `DeliveryIsImplemented` | `DeliveryImplemented`: each step of the goroutines is a step of `StreamDelivery`'s queue, or none |
| **`RequestDispatchProofs`** | |
| `TypeCorrect` | `[]TypeOK` |
| `OneAnswer` | `[]AnsweredOnce` |
| `TrueReports` | `[]ReportedAsAnswered`: one report, a success exactly if the client was answered well |
| `FallbackInOrder` | `[]FallbackOnlyUnanswered`: calls go down the offers of one snapshot, and only the last was replied to |
| `CredentialsLive` | `[]DirectCredentialsLive` |
| **`SessionReplayProofs`** | |
| `TypeCorrect` | `[]TypeOK` |
| `CachesStayConsistent` | `[]CachesConsistent`: queue and map of a cache name the same ids, within the limit |
| `ConversationsAreIsolated` | `[]ReplayOwnConversation` |
| `AnsweredTurnsReplay` | `AnsweredTurnReplayed`: the thinking of a finished answer is there for the next request |
| `PoolKeepsTheLatest` | `PoolKeepsLatest`: only expired or least recently used sessions leave, and none too many stay |
| **`SearchModesProofs`** | |
| `TypeCorrect` | `[]TypeInv`, the types with which the invariant starts |
| `SettingsRespected` | `[]SettingsServed`: a request is served as its own name is set where no other name of the pair disputes it, and as some name of the pair is set where none says auto |
| `ProbesFollowed` | `[]AutoFollowsProbes`: a pair that says auto is what the probes found, with the fallback the keys allow, and no pair is probed twice |
| **`StreamConversionProofs`** | |
| `AnswerShownExactly` | `[]AnswerExact`: the client's frames spell the text that the upstream wrote and the thoughts it thought, for every upstream and client |
| `PastItemsNever` | `[]NeverPastItems`: the Responses converter never reads past its list of items, which would end the process |
| **`ToolLoopProofs`** | |
| `TypeCorrect` | `[]TypeOK` |
| `RunsWhatIsAsked` | `[]RanAsAsked`: what the bridge runs is what the model asked for, once, in order, with its arguments |
| `EachCallAnswered` | `[]CallsAnswered`: results follow the calls that were run, a search loop goes on only after rounds of searches alone, and the client gets the calls of the last answer in order, less the searches the messages loop takes out |
| `GivesUpInTime` | `[]RoundsSpent`: a request gives up exactly when its rounds were spent |
| `UsageComplete` | `[]UsageWhole`: by every exit, the visual loop's usage is the sum over its rounds, whichever of them told one |
| `ImagesKeepNames` | `[]ImagesNamed`: the visual loop's model gets labels in the order of the images, and a call that names a label looks at its image |
| `StreamsHeard` | the calls put together from a stream are those that were written, for every interleaving of their deltas |
| **`SelectionProofs`** | |
| `SelectedCopies` | a selecting loop returns the kept elements, all of them, in their order |

Each module proves one inductive invariant `IInv` (by one lemma for each action or
group of actions) and derives the properties from it.

**ConfigControl.** `TypeOK` alone
is not inductive, since what `Save` writes has its type only if the request is of
the kind the phase expects: `PhaseOfKind`. `AppliedOnce` needs `BatchFresh` (ids are handed out once, pending rows have
not reached the tables, a listed batch neither), and that is preserved by a
commit only because nobody else can have listed the same rows: `ApplyMutex`.
`AppliesServeTheStore` adds `LoadUntorn`: what an apply has read of the five tables so far is what they
hold now, because only another apply could replace them and it waits for `applyMu`. The graph's handlers do not take it;
with them the property is false, hence the hypothesis `Kinds \cap GraphWrites = {}`.
`RespondFrame` and `StepFrame` say what a handler's step leaves alone of the other
handlers. `GraphStoreLoads` has the hypothesis `"apply" \notin Kinds` because with applies
`StoreLoads` is false: see the disagreements below.

**StreamPipeline.** `StagesInv`, `PhaseInv` and `SettledInv` hold always: which stages can have
ended given which others have, and what the handler knows in each phase. The rest
is said while the connection is up, since a broken one makes any stage drop what it
holds. Its heart is `FlowInv`: what was written followed by everything on its way
(channels and hands of all stages, as frames) is at every moment the
sequence of events made so far. A step of a stage moves an item from the front of
one queue to the end of the next, and the concatenation stays the same; only the converter
extends it. `ReaderInv` says which chunks are still before the converter, `CaptureInv` what
the replay buffer has, `TeeInv` that the completed event is either still before the
tee or was noted, `FinalInv` the same of the frame writer. Without `TeeInv` and
`FinalInv` the usage would be right only by luck; without `StagesInv`'s order of ends
`UsageSettled` could read it too early. The refinement is the same argument: the
queue of `StreamDelivery` is what is on its way.

**RequestDispatch.** `HandlerInv` says of each request what is true at each point of it:
what it has written and reported (`AnswersByPhase`), how many calls it made and
which were replied to (`CallsByPhase`), that its remaining candidates and its calls were found
in one snapshot it saw, in that snapshot's order (`RouteByPhase`), and where its key
comes from (`CredentialsByPhase`). The properties speak of the end and of the
calls; what makes them inductive is the pair of flags that the deferred hook
reads (`HookPending`), which must agree with the answer at every early return.

**SessionReplay.** An address is owned by at most one key, in the pool and in all handlers together
(`Owners`): sessions leave the pool while handlers still hold them, and
the key may come back with another session. Therefore everything in a session's caches is thinking of
answers under that key, recorded under an id or text the answer has (`SessionInv`); a handler that waits for its
answer has replayed only such thinking, and one that has an answer is between
remembering it and showing it (`HandlerInv`). For `AnsweredTurnReplayed` the invariant also says that an
answer marked `served` by a session came to the handler that works with it
(`ServedInv`), and that what was remembered stays while the cache was never full (`KeptTools`, `KeptText`).
The operators on caches and the preparation of a request have lemmas of their own
(`RememberFacts`, `KeptFacts`, `RestoredFacts`).

**SearchModes.** `KeysInv` says which keys have a mode at each point of the boot: those of names visited, and no
others, so that a lookup of a request finds what the boot wrote. `ProvidersInv`, `PairsInv` and `NamesInv` say
where each mode comes from, a setting or an answered probe (`FromProbes`, with the keys that allow the fallback).
A pair's mode may be written by each of its names in turn; `HoldsFor` says that it is the setting of a name
visited so far unless one says auto, and that of each visited name that no later one disputes. After a reload `resolved` is empty and only `ProbesInv` and `ServedInv` remain.

**ToolLoop.** `RanAsAsked` compares two histories of unequal make: what ran was put together from
a stream, what was asked was written by the model. The invariant therefore says that they are
`Alike` (same ids, tools and, where promised, texts) call by call, of all rounds together (`Dues`).
`Paced` ties the number of turns to the rounds asked and says that every round but the last had something to
run, which `RoundsSpent` needs at the end; `Followed` relates each turn to its
round, `Handed` the client's answer to the last one. `SpentWhole` says of the accumulator and its flag that
they are the sum of the rounds so far and whether any told a usage, from which `Paid` follows at each exit. An
answer has three cases, each a lemma: handed on (`HandedOnKeeps`), run and left to the client for
the rest (`MixedKeeps`), and asked again (`AskedAgainKeeps`). That the collector hears what was
said is `StreamsHeard`, an induction over the deltas: after n of them
the collector holds, for each call, what its first deltas say (`Told`), whatever others
stand between; a piece is appended only because no proper beginning of the
arguments is an object that closes (`NotWholeBefore`).

`ImagesNamed` has an invariant of its own beside `IInv`, `Looking`: what is kept of the
content was prepared from the client's (`Pictured`), the ids of the calls carry their round and
place, so that no two calls share one (`Numbered`), and every run looks at the image that its
call names (`RunOf`, `LooksAt`). That the labels read one, two, three while the images keep their order is proved
of the walks: after n parts of a result, then after n blocks of the message, the numbers written
so far are those of the images taken so far, whatever was taken before (`PartsPrepared`, `MessagePrepared`).

**StreamConversion.** The properties speak of the frames a client was sent, and what a
converter sends next depends on its memory. `IInv` says of the client's converter that its memory is
`Sound` (an index that has an item addresses one of the list, and a nested call that was announced
has left an item), and that the frames show the upstream's text and thoughts (`Shows`). Whether a piece is
shown as text or as a thought is decided by the client's memory of the block, and whether the end of a call finds
an item by its memory of the call's start (`Listed`). While the upstream goes on, the
invariant therefore relates the memory of the provider's converter to that of the client's, for each kind of
upstream (`ChatRuns`, `AnthropicRuns`, `GoogleRuns`, `ReplayRuns`): the client thinks exactly in the block the provider's
converter thinks in, in none that is still to come, and it knows every call that was started. One step of an upstream
makes several Core events; a lemma for each kind of event says what
either client does with it (`ResponsesFollows`, `ChatFollows`), and `HeardAppend` and `HeardConcat` put
them in a row.

**Selections and lists.** The library's induction theorems take a predicate and cannot be
used by these provers; `NatSetInduction` takes the set of numbers for which the
statement holds instead, and follows from the well-foundedness of `<`. It gives
what the recursive function computes for every sequence: `SelectedCopies` and the lemmas on concatenation
(`SelectedConcat`, `SelectedJoin`, `SelectedAlike`) that the stream, session and tool loop proofs cite.
`FlattenSeq` of the community modules is a recursive function too: the module proves what it gives for an
empty list (`FlattenNone`) and for one member more (`FlattenAppend`), from which the tool loop's and the stream
conversion's lemmas on lists of lists follow.

Only model-checked:

- liveness (`EveryRequestAnswered`, `GoroutinesEnd`, `RequestReturns`, `BootEnds`), which
  under fairness is out of the prover's reach;
- `ArgumentsNeverMixed`, `ItemsFramed` and `FinalResponseWhole` of
  `StreamConversion`: they relate all the frames of an item to one another, and
  the invariant keeps no account of each item's frames;
- the properties of `Conversation` and `ToolNames`: their conversions fold over
  sequences with operators of the community modules, and what these compute for
  every input needs each of them written as a recursive function and an
  induction for each;
- `StoreLoads` under the constants of `ConfigStaged.cfg` is not claimed: it is false.

## Disagreements with the documentation

Two runs end in a violation on purpose; `PROJECT.json` quotes the lines under
`findings`.

- **A stale patch is committed** (`config_stale_commit`). The base revision is
  compared once, when the handler starts; the save does not compare again.
- **A reload loses the search modes** (`search_after_reload`). `buildSnapshot`
  makes a provider manager without them and only the boot resolves them, so after
  any configuration change a provider set to `enabled` is served without search
  until a restart.

The following have a definition that states what was promised and that TLC finds
violated, but no run: to see the trace, check the definition in a copy of the
named configuration.

- `ConfigControl!OkMeansServed` (`ConfigStaged.cfg`): after an apply that
  committed and failed to load, the next apply finds nothing pending and answers "ok"
  while the runtime still serves the old configuration (`sqlite_store.go:634`), against `docs/api.md:116`
  ("apply the pending changes and reload").
- `ConfigControl!HotFieldIsLive` (`ConfigStaleCommit.cfg`): of two patches the
  first to save may be the last to reload, and the served field is not the stored
  one, against `docs/CONFIGURATION.md:46`.
- `ConfigControl!StoreLoads` with `Kinds = {"stage", "apply"}`: an apply commits
  before anything validates (`sqlite_store.go:642`), against the comment at
  `config_store.go:30`; the next boot falls back to the file.
- `StreamPipeline!EveryRequestReported` (`Stream.cfg`): the early returns of
  `handleAdapterStream` call no completion hook and its caller believes they did,
  against `docs/extension-system.md:139`.
- `RequestDispatch!CachedCredentialsLive` (`DispatchReload.cfg`): nothing removes an
  entry from the client caches (`server.go:110`), which `server.go:75` calls
  "invalidated when Runtime reloads".
- `Conversation!AnswersUnaltered` (`Conversation.cfg` with `Repeated = TRUE` and three
  answers): once two thoughts in a row have made the array of waiting thoughts
  longer than its content, a later thought overwrites an earlier message
  (`openai/adapter.go:1353`), against the comment at 1563.
- `ToolLoop!SearchesStayHere` (`ToolLoop.cfg`): streamed Anthropic requests and
  requests with visual tools never enter a search loop, and the Chat and Google
  loops hand a mixed answer to the client whole, search calls included, against
  `docs/extensions-overview.md:138` and the comment at `websearch_inject.go:145`.
- `ToolLoop!NoCallForgotten` (`ToolLoop.cfg`): a visual round that also holds calls of the
  client's goes upstream with results for the visual ones only, and the others are neither
  answered nor shown to the client, against the comment at
  `visual/core_orchestrator.go:96`.
- `SearchModes!AutoStaysAuto` (`SearchModes.cfg`): names of one provider and model
  share one outcome, so a route set to `auto` is served `enabled`, whatever a probe answered, when another
  route to the pair is set to `enabled`, in whichever order the two are visited, against the resolution order
  at `config.go:507` and the meaning of `auto` at `docs/CONFIGURATION.md:179`. For the same
  reason a name with a search key of its own shares the outcome of one without.
- `ToolNames!SourcesWhole` (`ToolNames.cfg`): a call of the proxy `exec` reaches the
  client with the JSON text of its arguments as its input
  (`codextool/customtool.go:661`), against the comment at 649.
- `StreamConversion!CallDoneOnce`, `SearchesStayHidden`, `TruncationTold`
  (`StreamConversion.cfg`): a call's end is told twice, an Anthropic provider's own
  search leaks arguments, a cut answer's stop reason is lost on the way to a
  Chat client.

Others were met while modelling:

Configuration and dispatch

- A create whose read of the revision fails is not compared with its base and commits
  (`api/config_graph.go:151`).
- `DiscardPendingChanges` (`store/sqlite_store.go:990`) does not take `applyMu`:
  rows that an apply has listed are applied although they were discarded.
- `Graph` (`configgraph/service.go:55`) pairs the stored revision with the
  runtime's snapshot, which may be older or newer.
- The passthrough reads the snapshot a second time (`dispatch.go:265`), so the
  address and key of a candidate may be of a later snapshot than the resolution.
- A streaming request takes two trace numbers, and clients built after boot for
  Chat and Google providers ignore the egress proxy.

Streams and sessions

- The replay buffer of the Chat adapter stops at 1024 chunks
  (`protocol/chat/adapter.go:347`): `ReplayExact` states what is kept, not the
  whole stream.
- A client that vanishes on the last frame leaves a request that is aborted and
  has its usage (`adapter_dispatch.go:1596`, against the comment at 1613).
- A Chat or Google body that breaks off ends like one that is complete; an
  Anthropic one that ends before `message_stop` gives no terminal frame.
- The caches of deepseek_v4 are called LRU in `docs/extensions-overview.md:83`;
  they drop by first insertion, which neither a replay nor a second insertion
  refreshes. A lookup with a stale clock may set `lastUsed` back.
- A stream's thinking is remembered after its last frame was sent, so a client
  that comes back at once may be replayed an empty block; `AnsweredTurnReplayed`
  therefore speaks of answers that were not streamed.

Conversion

- A Responses message without text is closed but never announced; a nested call
  whose action never comes is announced only at its end, or by Anthropic never.
- Google's stream converter ignores function calls, and a repeated snapshot of its
  text is sent again.
- A Chat upstream is sent only the last thought of a message, and messages of
  thoughts alone are skipped; Chat and Google tool results lose their images;
  `tool_choice` objects reach Chat upstreams as they came, and Google ignores it.
- A Google answer's call ids start again at one in every answer.

Tools and searches

- The Anthropic visual loop drops the client's calls of a mixed answer; Google's
  stop reason never lets the visual loop run its tools.
- A piece of arguments that repeats the end of what came before is dropped, and
  one that starts with all of it replaces it (`appendToolCallArgs`): `RanAsAsked`
  leaves both out (`Distinct`). The proof asked for the second.
- The search loops report the usage of the last round only.
- A flattened call answered whole keeps its joined name beside its namespace, and
  an echoed flat call goes upstream by its bare name: `CallsNameOffers` and
  `RepeatedCallsReturn` leave the two out.
- An echoed `apply_patch` goes upstream under a name that was not offered.
- A provider's empty search setting parses to auto, so the global one is never
  reached, against `config.example.yml:34`; Chat and Google models of a catalog are
  always set to disabled (`app.go:485`), against the comment at 432.
- The first model of a provider is read twice from an unordered map
  (`app.go:415`): the model probed and the one it is recorded for may differ.

## What is not modelled

- The texts of descriptions and JSON schemas, sampling parameters, cache markers,
  ids, signatures, images of messages (other than in `ToolLoop`): data that no
  control depends on.
- The prompt cache planner: it decides where markers go and what an upstream
  bills; nothing else reads its state.
- The configuration file's loader beyond validation, offers and search settings.
- The logger's ring (its two races are in the list of hazards), the persistence
  registry's boot, the plugin registry's walk, the console's autosave.
- Statistics, metrics rows, trace files, the Codex catalogue, capture proxies,
  the read-only endpoints: they record or format, under one lock or none, and
  nothing else depends on them. What is reported to them is modelled.
- Code reached only by tests: `Orchestrator.StreamMessage` of the web search, the
  legacy visual orchestrator, `FromAnthropicRequest`, `ToAnthropicResponse`, and
  `protocol/format`, a duplicate of `format` that nothing imports.
- HTTP, TLS, SQL and JSON themselves.
- Memory-model effects of unsynchronised reads: the one candidate,
  `coreStreamUsage`, is covered by `UsageSettled`, which shows that it is never
  read while another goroutine may write it.

## Plan

The components that carry the program's logic are modelled, and safety properties
of the five concurrent ones, of the stream conversion and of the tool loop are proved.
What is left is proof about the conversions, in this order:

1. `StreamConversion!ItemsFramed`: the invariant has to say, for each item, which of its
   frames were sent, and that only the block that owns it sends more.
2. `StreamConversion!ArgumentsNeverMixed` and `FinalResponseWhole`, from the same account.
3. `ToolNames!RepeatedCallsReturn`, with the deduplication of tools as a recursive function.
4. `Conversation!SpeechKept`: the equality of two conversions over the whole history.

No module declares a RECURSIVE operator.

## Running the checks

    tlc -workers 2 -config ConfigGraph.cfg MCConfigControl.tla
    tlapm ConfigControlProofs.tla
    tlapm StreamPipelineProofs.tla
    tlapm StreamConversionProofs.tla
    tlapm ToolLoopProofs.tla

`PROJECT.json` lists module, configuration and expected outcome of each run. The
longest (`SessionReplay`, `ToolLoop` and `SearchModes`) visit one to two million states in
about two minutes each; the others take from seconds to a minute.
