# Plano in TLA+

Plano is a gateway between applications, agents and LLM providers. Envoy
terminates HTTP; two WASM filters run in it (`prompt_gateway`, `llm_gateway`);
`brightstaff`, a native Rust server, decides which model serves a request,
keeps sessions and conversations, and relays the responses. This directory
specifies all three: what runs concurrently, what is kept between requests, and
what becomes of a conversation on its way between APIs. TLC checks the
specifications on small instances, and TLAPS proves the main properties of eight
of them for all.

    tlc -config LlmChat.cfg MCLlmChat.tla             # a run
    tlapm LlmChatProofs.tla                           # a proof

`PROJECT.json` lists the runs, which definition stands for which lines of the
code, the faults each property catches, the hazards and the theorems.
Paths below are relative to `crates/brightstaff/src/` unless they name a crate.

## The system

| Part | State | Operations |
|---|---|---|
| Model health tracker (`handlers/llm/health.rs`) | per backend, the instant its cooldown ends | mark unhealthy, mark healthy, order candidates |
| LLM chat handler (`handlers/llm/mod.rs`) | per request: pin, candidates, conversation state | parse, filter, resolve state, route, attempt loop |
| Routing decision service (`handlers/routing_service.rs`) | none of its own | serve a pin, or decide and pin |
| Session cache (`session_cache/`) | per session a route with a TTL; LRU order | get, put, remove, periodic sweep; Redis or memory |
| Router (`router/`) | prices and latencies refreshed by a task per source | show a conversation to the orchestrator, rank a route's models |
| Streaming task (`streaming.rs`) | per response: a bounded channel and a processor | read, filter, process, send, complete |
| Conversation state (`state/`) | per response id, the items of its conversation; memory or PostgreSQL | get, merge, put |
| Agents (`handlers/agents/`) | per request: the chain and its messages | select, filter, invoke, translate |
| Function calling (`handlers/function_calling.rs`) | none | ask Arch-Function, verify the calls it writes |
| Signals (`signals/`) | none | analyse a conversation when its answer has been passed on |
| `llm_gateway` | per HTTP stream: provider, rate limits, buffers, timings | the filter's callbacks |
| `prompt_gateway` | per HTTP stream: callouts in flight, tool calls | the filter's callbacks |
| `hermesllm` | per stream: buffers that turn one provider's events into another's | convert requests, answers and events; add event, flush, finalize |
| `common` | global rate limiters, provider table | check limit, look up |

Interactions. Envoy sends a request for a model to the chat handler, which
reads the session cache, asks the health tracker for an order of the alias's
backends, merges the conversation's history, asks the router, writes the cache
and posts to Envoy's egress listener, where `llm_gateway` picks the provider.
The response is carried by a streaming task of its own; the state processor in
it picks the response id out of the stream and, at the end, spawns another task
that puts the conversation. The routing service and the chat handler share the
session cache. Orchestrated agents call back into the chat handler with the
client's session id and an internal key. `prompt_gateway` holds a request back
while it calls brightstaff's function calling and then the endpoint of the
function, and sends the conversation, with the result in it, on to the model.
Agent listeners lead to `handlers/agents`, which runs filters and agents one
after the other. Wherever client and provider speak different APIs, `hermesllm`
converts requests, answers and streams.

What is hard. All requests share the tracker, the cache and the storage, and
are suspended at every await: what they read at the start (pin, health,
provider) is used much later. Backends fail in any mix of ways. Clients leave,
follow up at once, and branch conversations. Detached tasks outlive the
handler. The process may restart between any two steps. The streams of an Envoy
worker share a VM: its rate limits, and its end, for a panic ends them all.
Callouts are answered late, with errors or not at all. Chunks end anywhere, in
the middle of an event or of a character. A conversation may change its
provider, and with it the API, at every turn, and tools' calls and results are
laid out differently in each. Sources of prices fail and change while routes
are ranked. Correct means: no candidate is lost or blamed for another; a
session's pin is only what a router decided; every chunk and every piece of
content arrives once and in order, in bounded memory and in the protocol of the
client's API; a turn sees the history of its own conversation and no other, and
every upstream reads all of it; a request is sent in the one API its answer is
read in; no limit is passed; no request hangs; a tool's result reaches the
client once; each agent gets what the ones before it made.


## Modules

| Module | Models | Proofs | Instances |
|---|---|---|---|
| `ModelHealth` | the health tracker | in `LlmChatProofs` | in `MCLlmChat` |
| `RouteCache` | what any session cache promises | | in `MCLlmChat` |
| `LlmChat` | chat handler and routing service over the two above | `LlmChatProofs` | `MCLlmChat` |
| `SessionCache` | the in-memory LRU cache, which implements `RouteCache` | `RoutingProofs` | `MCSessionCache` |
| `StreamTask` | the task and channel that carry a response | in `LlmChatProofs` | `MCStreamTask` |
| `ConversationState` | turns of the Responses API and their storage | `ConversationStateProofs` | `MCConversationState` |
| `ModelRanking` | routes, and the metrics their models are ranked by | `RoutingProofs` | `MCModelRanking` |
| `AgentSelector`, `AgentChain` | which agents answer, and the chain of filters and agents | `AgentChainProofs` | `MCAgentChain` |
| `FunctionCalling`, `PromptGateway` | Arch-Function's verified answers, and the filter that acts on them | `PromptGatewayProofs` | `MCPromptGateway` |
| `ProviderTable`, `RateLimits`, `LlmGateway` | the choice of a provider, the limits, and the filter over both | `LlmGatewayProofs` | `MCLlmGateway` |
| `StreamTransforms`, `AnthropicStreamBuffer`, `ResponsesStreamBuffer`, `StreamConversion` | events converted one by one, the buffers of two client formats, and a stream through them | `StreamConversionProofs` | `MCStreamConversion` |
| `MessagesEnvelope`, `ResponseLifecycle` | what a client of either format may be sent | in `StreamConversionProofs` | in `MCStreamConversion` |
| `Conversions`, `ProviderExchange` | requests and answers between APIs, and a conversation that changes its provider | `ProviderExchangeProofs` | `MCProviderExchange` |
| `Signals` | the detectors and the score | in `LlmChatProofs` | `MCSignals` |

`LlmChat` extends `ModelHealth` and instantiates `RouteCache`, so that it holds
for both backends of the cache; `SessionCache` refines `RouteCache`, so that it
holds of the memory backend in particular. `ConversationState` sees streaming
as one step, the detail of which is `StreamTask`; `LlmChat` sees a conversation
only as a possible early return. `StreamConversion` refines `MessagesEnvelope`
or `ResponseLifecycle`, whichever its client reads. `PromptGateway` has
brightstaff's side, `FunctionCalling`, behind its callouts.

In every module an action is the code between two awaits (or under one lock, or
one callback of Envoy's), named after the function or the arm it stands for.
Operators whose comment begins with "Fault:" are plausible bugs; no
specification uses them. Each is the evidence that a property can fail: put in
place of the definition it follows, it makes TLC report that property.

### ModelHealth and LlmChat

`cooldowns[m]` is the time left until the recorded `Instant`, so that time may
go on for ever in finitely many states; an absent and an elapsed entry look
the same to the code and are both 0. `OrderCandidates` is the set of all orders
`order_candidates` can return. `pins` is the session cache. `req[r]` is a slot
for one request at a time: `ReceiveChat` reads the pin, `Parse` orders the
configured candidates, `UsePin`, `RouteTo` and `NoRoute` are the three outcomes
of routing, with what each writes to the cache, and `Send`, `UpstreamFails`,
`UpstreamUnreachable` and `UpstreamAnswers` are the attempt loop. `Abandon`
stands for every early return that depends on data the model leaves out.
`ReceiveDecision`, `PinnedDecision` and `Decide` are the routing service.
`Restart` clears what is in memory. Three fields of a request (`chosen`,
`healthy`, `failed`) are history that only properties read.

An alias's targets are a set, as `ModelAlias::candidates` removes duplicates.
The router may pick any of `RouterModels`, or none. A tenant and its session id
are one value of `Session`, as they are one key of the cache.

### RouteCache and SessionCache

`RouteCache` says what a cache may do: return what was last put, or lose it at
any time; with Redis a get may also miss what is there, and a put may be lost,
because `redis.rs` turns errors into both. `SessionCache` is `memory.rs`: the
mutex makes each operation one action. The list of the `lru` crate, an
external library, is kept as who was used after whom. `Evicted` and `Get` follow its
documented behaviour: a look-up makes an entry the most recent, expired or not,
and a new entry in a full cache replaces the least recent.

### StreamTask

`pc` is where the task waits: for the upstream, the filters or room in the
channel. `Verdicts` is what the processor may return: the metrics and state
processors always pass a chunk on; the one that translates agents' streams
also keeps or rejects chunks. Both streaming functions are modelled: without
output filters the step `FilterAnswers` follows at once. Of the content of a
chunk only the part of `response.completed` it carries is kept.

### ConversationState

A turn is its response id. `Ask` branches off any turn whose id a client has.
`LeaveToProvider`, `BeginConversation`, `Continue`, `ContinueWithout` and
`Conflict` are the outcomes of `resolve_conversation_state`; `Completed` is the
event with the response's output passing the state processor, `Finish` its
`on_complete`, `Stored` and `StoreFails` the put of the task it spawns. An
output may convert to no item (a refusal does), and an input may have none,
for which no state processor is made. `full` is history: the conversation as
the client sees it.

### ModelRanking

`feed` is what the sources of prices and latencies would answer, `data` what
brightstaff holds of it, behind an `RwLock` each. `Start` checks the
configuration, fetches every source, and checks that the preferences have one;
`Fetch` and `Write` are the two steps of a refresh task, between which a request
may be anywhere; a fetch that fails writes an empty map, so that its routes
fall back to the configured order. A source without a refresh interval stays as
it was at the start. `Ask` takes a request, with preferences of its own or not;
`Reply` is the orchestrator naming a route; `ReadCost` and `Rank` are the two
reads of `rank_models`, the first of which holds its lock until the second.
Prices DigitalOcean leaves out count as 0.

### AgentSelector and AgentChain

A message is its role, who said it, its size and the filters that marked it.
`AgentSelector` is pure: which messages the orchestrator's model is shown
within its budget, and which agents its reply names. `AgentChain` runs one
request at a time, for nothing is shared but the storage: `AgentChat` and
`AgentResume` parse, merge the turn before and select; `ExecuteRawFilter`,
`GetNewSessionId` and `ExecuteMcpFilterRaw` run filters over HTTP and MCP,
`InvokeAgent` and `InvokeRigAgent` call agents, `Close` ends the request. `calls`
is the log of everything sent out; each call may be answered, refused, broken
off or answered with what cannot be read.

### FunctionCalling and PromptGateway

`FunctionCalling` is pure: what the endpoint makes of anything Arch-Function may
write. Types are converted as `convert_data_type` does, then checked. In
`PromptGateway` `stream[s]` is the context of an HTTP stream; a callback takes it
to an outcome, and `Settle` does what that is: a callout under a free token, a
panic, which fails the worker's VM and ends all its streams, or the stream going
on. `calls` is what Envoy will call back for. `OnHttpCallResponse` covers every
answer, errors, timeouts and responses without a status included, and `Done`
the client that leaves at any time. A message is its kind, one without content
included (`"silent"`, of a tool; `"nameless"` and `"calls"`). What the code
unwraps and may be missing is `Panics`. Endpoints may answer bytes that are no
text, and parts of an answer may end within a character (`"cut"`): these pass
`ResponseBody` as they are. A deployment has no endpoints, one, or others.

### ProviderTable, RateLimits and LlmGateway

`ProviderTable` is the table as it is built, item by item (`Built`), wildcards
expanded, and looked up; `Nested` are the models with a "/" in their own name,
which the code splits once more. `RateLimits` the limits as they are configured,
the daily ones cut to hours. The counting of the governor crate is external: n
tokens at once, one back per tick. `LlmGateway` is the filter's callbacks for
all streams of a worker. Its bodies are what the code asks of them: model,
format, whether it streams, tokens. A log of what was let through is history;
`LimitsHold` counts it afresh, from any request to any later one. `SpecificWins`
leaves out what the code does to a model listed before another of the same bare
name: the later one takes it.

### StreamTransforms, the buffers and StreamConversion

An event carries numbered pieces of text or arguments, so that loss, repetition
and disorder show. `Emit` is the upstream, which keeps to its protocol or
(`course = "any"`) does not; `ChunkArrives` takes up to `Ahead` events of it,
the last cut in its payload, its prefix or a character; of a "[DONE]" that is
cut only the bracket is held, so it may be lost like a prefix (`CutOff`).
`FrameUnreadable` is a chunk with a Bedrock frame that cannot be decoded: what
was decoded before it waits in the buffer, the chunk passes as it is, and no
frame is decoded after it. `Deliver` is the client reading an event.
`AnthropicStreamBuffer` and `ResponsesStreamBuffer` are operators on the record
of a buffer's fields. `seen` is what the client has read. `MessagesEnvelope` and
`ResponseLifecycle` are the two protocols as state machines; for streams that
are not well formed they keep what the buffers' comments promise for any order
of events, and nothing else (`Loosen`).

### Conversions and ProviderExchange

`Conversions` are the functions of `transforms/`, on texts whose parts can be
told apart and calls with ids. `ProviderExchange` composes them over turns: the
client speaks, the request is converted for an upstream of any API (`Send`),
which answers in a shape of `Shapes` or fails and makes room for the next
candidate (`Fail`); the answer is converted back and becomes part of the
history. `kept` is how a Responses conversation is kept: by a client that sends
the items back as they were issued, the calls with ids, or without ids, or by
brightstaff (`Keeping`). Tools give a text, an empty text or nothing
(`Outputs`). `said` is what was really said, by whom. All pairs of APIs are
there, also those today's table never picks.

### Signals

A text is its marks (which families of patterns match), its topic and its
wording, so that what depends on the length of texts is a choice of the dialogue.
The loop scans are in full: each call has the end of the pattern that starts
there, if any (`RetryEnd`, `DriftEnd`, `OscillationEnd`), and `Stops` is where a
scan finds one, given how far it jumps. The dialogue grows by a message
and is analysed after each, as it is by the requests of a conversation; only
the last `MaxMessages` rows count.

## Runs

| Run | Shows | Bounds | Distinct states |
|---|---|---|---|
| `LlmChat` | `NoEarlyGiveUp`, `HealthyFirst`, `InternalNotPinned`, `OnlyOwnAnswersCount`, `PinnedTurnsDoNotRepin` | 2 requests of 1 session, alias of 2 backends, 1 model of the router, Redis, cooldowns of 1 tick, Retry-After 0 | 4.0 million |
| `SessionCacheLru` | `RecentlyUsedServed`, `KeepsPromise` | 3 sessions, 2 routes, 2 entries, TTL 2 | 5,902 |
| `ConversationState` | `OwnHistory`, `EventuallyPut` | 3 turns, 1 restart, PostgreSQL | 183,205 |
| `StreamTaskDelivery` | `EveryChunkOnceInOrder`, `BoundedReadAhead`, `AlwaysCompleted` | 5 chunks, channel of 2 | 9,317 |
| `StreamConversion` | `PiecesOnceInOrder`, `AllPiecesArrive`, `CompletedMatchesStream`, `EnvelopeKept`, `LifecycleKept` | 7 events that keep the protocol, 4 that do not, chunks 2 ahead, 3 kinds of cuts, frames that cannot be decoded | 232,886 |
| `LlmGateway` | `LimitsHold`, `UpstreamFits`, `SpecificWins`, `AnswerReadAsAsked` | 2 streams, 3 deployments, 1 or 3 requests, 1 tick | 133,855 |
| `PromptGateway` | `WaitsForOneCall`, `AnswersTrusted`, `ConversationKept`, `ResultOnce`, `EveryRequestSettles` | 2 streams, 7 deployments, 1 or 3 requests, 2 parts of an answer | 95,927 |
| `AgentChain` | `EachCallGetsItsInput`, `SessionsAreTheirOwn`, `PromptKeepsIntent`, `StoredIsAnswered` | 3 agents, 3 filters, one more of each not configured, 4 listeners, 2 requests, a budget of 12 tokens | 7,441 |
| `ProviderExchange` | `RequestTellsAll`, `ResultsFollowTheirCalls`, `BedrockIsSentNothingEmpty`, `AnswerArrives` | 3 client and 4 upstream APIs, 7 shapes of answers, 2 answers, items kept with ids or without, 3 outputs of tools | 1.8 million |
| `ProviderExchangeKept` | a violation of `ResultsFollowTheirCalls` | the same, a conversation that brightstaff keeps | |
| `ModelRanking` | `RoutedByItsPreferences`, `RankingFollowsData`, `CatchesUp` | 6 configurations, 1 change of a source | 8,017 |
| `Signals` | `LoopsFound`, `SignsMoveTheScore`, `EvidenceAccumulates` | dialogues of up to 9 messages, rounds of up to 3 calls in one, a window of 16 rows | 11,982 |

Why they are enough. Two requests or streams interleave in every way two can,
and in `LlmChat` a slot is reused by later requests without bound, so that a
request in progress meets any number of others; two backends allow one tried and
one left, each healthy or not. A third session in a cache of two entries finds a
least and a most recent one. Five chunks fill a channel of two, the task's hands
and the client's, with one to spare. Three turns are a conversation with a
branch. Seven events are two blocks with content, their ends and the end of the
message; two events ahead let a chunk hold one and cut the next. Deployments
differ where the filters branch: wildcards beside names, limits with and without
a value, default targets of both kinds, orchestration with and without
endpoints. Two answers let a call of one API be answered to another. A budget of
12 tokens cuts a conversation inside a message. Nine messages hold three rounds
of a cycle of three calls; sixteen rows hold a pattern that goes over into
another with all its cycles, and seven rounds of calls, or four messages of
four, are cut by the window. Where a property is also a theorem it holds
whatever the bounds.

Deadlock is checked where the system never stops (`LlmChat`, `SessionCacheLru`)
or only `Over`, when everything is through, stutters (`ConversationState`,
`StreamTaskDelivery`). In the other runs requests, dialogues or events are
bounded and the behaviour ends with them; a panic ends the filters' VM, and a
brightstaff that refuses its configuration stops.

### Fairness

The safety properties assume none. `AlwaysCompleted` takes weak fairness of the
upstream's body, which ends or breaks off because Envoy's routes time out after
300 s (`config/envoy.template.yaml`), of the client's connection, which hyper
reads or closes, and of the task, which the runtime polls when it is woken.
`EventuallyPut` takes it of the handler, the streaming task and the spawned put;
not of `Completed`, for an upstream may end a body without it.
`EveryRequestSettles` takes it of the callouts' answers: each is dispatched with
a timeout, and Envoy calls back for it in any case. `CatchesUp` takes weak
fairness of the start and the refresh tasks, which loop for ever, provided a
source answers, if only with an error; and strong fairness of the two reads,
which a writer can hold up again and again, because tokio's `RwLock` serves its
waiters in turn.

### Where the code and the documents differ

`ProviderExchangeKept` exhibits one: brightstaff keeps a function call of an
answer as the text "Called function: ..." (`output_to_input.rs` of hermesllm),
so that the result the next turn brings has no call before it, where
`docs/source/guides/state.rst` promises the full history. These were met as well;
the models do what the code does.

Routing and retries. A decision without a route pins "none", which
`routing_service.rs` calls a signal that the requested model be used, and the
next chat turn of the session is sent to "none". First turns of a session that
overlap overwrite each other's pin, where `llm_router.rst` says that all
requests after the first reuse it. A later failure without Retry-After replaces
a longer cooldown by the default (`FORK.md`: it is honoured). 401 and 404 start
a cooldown, where `FORK.md` says a 4xx clears it. A missing price of
DigitalOcean ranks a model cheapest (`llm_router.rst`: unknown ones come last).
A bare model id two providers sell gets the price of either. The look-up by
bare name comes before the wildcard of the prefix (`supported_providers.rst`
says otherwise). Metrics sources are asked without a timeout, and a source that
hangs keeps brightstaff from starting.

Conversations. A turn whose history PostgreSQL cannot read goes on without it.
A follow-up sent before the detached put has run is refused. Whether state is
managed is decided for the primary provider, before another takes over. A
`response.completed` that is split over chunks is not captured, and the turn
not stored. `on_complete` is called after `on_error` as well, where its comment
says "successfully".

Streams. The synthetic end of a block has index 0 whatever was open; an event
that is cut inside its "data: ", or a [DONE] that is cut after its bracket, is
lost, and a chunk cut inside a character passed on unconverted; so is one with a
Bedrock frame that cannot be decoded, and no later frame is read; a chat client
of a Bedrock upstream never gets [DONE]; arguments that come with a tool call's
name are lost to Messages clients; text and tool calls share item 0 of a
Responses stream. A body that breaks off ends for the client like one that is
complete.

Filters. `llm_gateway` recomputes the API of an answer from whether it streams,
and fails a request that counts no token (`NonZero::new(0).unwrap()`) or answers
faster than a millisecond per token by a panic, for all streams of the worker;
an answer that is not streamed but comes in parts is parsed per part.
`prompt_gateway` sends `use_agent_orchestrator` as a string, which brightstaff
reads as a boolean and so never sees; it panics, for all streams of the worker,
on a tool's message without content that comes last before a default target, on
a default target's completion without choices or content, on endpoints' answers
that are not UTF-8, on an answer's metadata that is no object, on state it wrote
itself and on an orchestrated answer that is not streamed (`Panics`); a part of
an answer that ends within a character passes without the function's result,
which a later part then brings, if one is text by itself; list and object
arguments pass verification and are then left out of the call; a result that is
streamed by the filter itself passes its own response callback and appears
twice; `active_http_calls` is never taken back when a stream ends with a callout
outstanding.

Agents. An agent's status does not reach the client of a streamed reply; an
intermediate agent's error body is passed on as its reply; a filter's 5xx
becomes a 400; MCP's initialize is not checked. Agents that are not configured
are refused only when they are called.

Conversions. Messages' URL images are dropped for Bedrock without an error; tool
choice "none" becomes "auto" there, and a Messages client's empty result of a
tool stays empty, where `from_openai.rs` has "even for tool results, we need
non-empty content" and puts a blank. A Responses call that a client sends back
as it was issued, with its id, is read as an `ItemReference`, which is tried
before `FunctionCall`, so that the call is lost and its result sent alone. A
Chat request keeps only its last system message on the way to Messages;
`is_error` of a tool's result is dropped for chat.

Signals. The indexes of a report are relative to the analysed window, or twice
offset, and count rows where `schemas.rs` says messages; `turn_count` counts
user turns only, and the decay of efficiency is 0.25 (`signals.rst`: user and
assistant, 0.3). A pattern of tools that starts in the last cycle of one before
is dropped with all its cycles (`deduplicate_patterns` of `loops.rs`), where
`signals.rst` lists any pattern of several tools that comes three times; of
a b a b, a b c three times and a b, only the first six calls are reported.

## Theorems

All are proved for any values of the constants under the modules' named
assumptions: that special values (`NoModel`, `Nothing`, ...) are not ordinary
ones, that bounds are naturals, that models and sessions are finite sets, that
the bodies and messages that reach `prompt_gateway` are of the kinds it tells
apart and a list of calls has a first one if any. Nothing else is assumed,
fairness in particular.

`LlmChatProofs`: `TypeCorrect`, `FailureExhaustsPool`, `CandidatesTriedOnce`,
`CooledDownLast`, `InternalKeepsItsModel`, `BlameIsOwn`, `OnlyDecisionsPin`, with
which all five properties of the run are theorems. The first ones speak of
`failed` and the current candidate, which alone is not inductive: it must be
known which models were tried before. `IInv` says, per stage of a request, that
its list is a permutation of its pool, healthy models first (`WellOrdered`), and
that `failed` is exactly the part of the list before the position. Lemma
`OrderProperties` gives this of `order_candidates`; `OneRequestChanges` reduces
every action to the request it changes; `BeforeAttempts`, `Attempts` and
`Decisions` go through the actions.

Of `StreamTask`, in the same module: `StreamTypeCorrect`, `ChunksInOrder`,
`ReadAheadBounded`, `CallbacksInOrder`. `TaskInv` says what is in the channel and
with the client as a set and an order (`Carried`), how many chunks are where,
which also holds when the client is gone (`Counted`), and which of the few
callback sequences each stage allows (`Called`).

Of `Signals`, in the same module: `FindsLoops`, `SignsMoveScores` and
`SignalsAddUp`, all three properties of its run, for any conversations of
messages of any number of calls (`SignalsAssumption`) and any window. The
invariant is little (`SignalsInv`: a report is that of the messages so far); the
work is in the operators. A scan is summed up in `ScanIs`: a pattern it leaves
out starts within the reach of one it reports, and two it reports do not
overlap. With it `RetriesAre`, `DriftsAre` and `OscillationsAre` say what is
reported, and `LoopsWellReported` finds for each loop the reported one or the
one between. `DiffersEarly` is why a pattern of a whole number of cycles is
found from its first call: its tools differ within the first cycle. The score is
followed from the marks up. `RowsAreSame`: a message with one mark more makes
the same rows, of which some have it too. What a detector then finds may change
its kind, but not become less (`FirstsFewer`, `MisalignedMarked`,
`DisengagedMarked`: a complaint that profanity hides is replaced by the
profanity), so there is an injection of the signals before into those after
(`SignsFewer`). `Worse` puts this together for all categories, and `ScoreMoves`
says that the weights, thresholds and clamps keep the order. That evidence adds
up compares the scans of a list of calls with those of a longer one (`Longer`).
A run or pattern that ends before the list does is the same in the longer list
(`RetryEndGrows`, `DriftEndGrows`, `OscillationEndGrows`); one that goes on held
the scan up to the last of what was found anyway, so nothing new comes before
what a scan stopped at (`StopsGrow`, `NewPatternFollows`, for which
`PatternWithin` shows that only a pattern of two tools fits into a longer one,
of four, which is then one of two itself). So every report is still there, at
the same first call, but for drift that has grown into a retry; that retry is a
new one and of no other drift (`RetryWithinRun`), which gives the injection of
`LoopsGrow`.

`RoutingProofs`: of the cache of routes, `CacheTypeCorrect`, `WorkingSetServed`,
`ImplementsRouteCache`, `RefinesRouteCache`. `IInv` adds to the types that the
recency order is total and transitive, which is what makes a least recent entry
exist (`LeastRecentExists`), and that what was used after an entry is a subset
of what was used after its session (`Remembered`): if a session lost its entry,
at least as many as fit were used since.
Of the routes themselves, `RoutesByPreferences` and `RanksByData`, for any
configurations, lists of models and answers of the sources. `RankingInv` says that
a service that is up has one source at most per metric and that its maps hold
numbers or NaN (`Sourced`), and that the route of a request on its way is among
the preferences in force (`Routed`), so that the look-up that falls back to the
configuration never does (`PrefOfIsOne`). That the sort is one is shown of the
place each model is given, the number of those before it: places rise with what
is sorted by (`PlaceRises`) and are all different, so `Sorts` gives a sorted
list and where each of its entries came from. A ranking is two such lists
(`TwoParts`), each entry of the preference in exactly one, and a list that is
enumerated without repeating has every model as often (`PermutedSame`). Assumed
are the shapes of what the program can read (`RankingAssumption`).

`ConversationStateProofs`: `ConversationTypeCorrect`, `OnlyOwnHistory`,
`MemoryKeepsHistory`. `IInv` says which fields each phase has settled
(`Staged`), that the conversation of a turn continues that of the turn it names
(`Linked`), and that what is stored is what was sent with the output after it
(`Kept`). That a suffix stays one when the same items are appended is
`SuffixExtends`. The last theorem is for the storage in memory; with PostgreSQL
it is false, for a turn whose history cannot be read goes on without it.

`AgentChainProofs`: `ToolSessionsAreTheirOwn`, `StoredWhatWasAnswered`,
`EachCallAlwaysGetsItsInput`, `PromptAlwaysKeepsIntent`: all four properties of the
run, for chains and conversations of any length.
`SessionsInv` ties the map of sessions to the log: each was opened by an
`initialized` call of the same server, and a server that was asked is in the map
or its request was refused. `AnswerInv` says that before a request is done
nothing is answered and nothing stored. `ChainInv` says of a request on its way
(`On`) that the agent and filter it has come to are those due after the calls it
made, and that the body it holds is what is due to them; `Due` is a recursion
over the log, so a call more is an induction over the ones before (`DueMore`,
`FitMore`). An agent's turn begins with the conversation that `HistoryMore` makes
of the one before; whatever the model replies, the agents selected are the
listener's and one at least (`SelectionIs`). What the model is shown is a loop
from the newest message back: `Keeps` is its invariant, of the messages kept, the
tokens they take and whether the budget is spent, and `TakeKeeps` its step.
Assumed are the shapes of messages, replies and listeners' agents
(`AgentChainAssumption`), and that one turn at least is shown
(`AgentSelectorAssumption`; the code has 16).

`PromptGatewayProofs`: `HeldForOneCall`, `AnswersDoNotPanic`,
`ResultReachesOnce`, `ConversationAlwaysKept`. `WInv` says that every stream
rests (`Rests`), waiting for one callout or without any, and that the callouts
Envoy holds for it are those it knows; every callback ends in an `Outcome`, and
`SettleKeeps` covers all of them. `TInv` adds what was checked before a callout
was dispatched (`Vetted`): a conversation that asks, and, for a default target,
one that ends in a user's message, because brightstaff refuses others;
`AnswerVerified` gives of `VerifyToolCalls` that a call names a target. What
ends with a user for brightstaff ends with a user's or a tool's message
(`RoleFor`), and the filter refuses a last user's without content (`Asked`):
only a tool's can still lack it. That panic, and those on what others send or on
the filter's own state, are not excluded by any check, and the theorem does not
speak of them. `RInv` follows the result through the phases: nothing has come
while the request is held back (`Fresh`), the conversation that is handed on has
a result just if a function was called for it (`Handed`), and the calls are kept
until a part that is text has taken it to the client (`Given`, which counts such
parts in `texts`; ones cut within a character do not count). `KInv` follows what
the LLM is sent: a callout is made only for a conversation that has a message,
so that there is a last one to replace; and of what `OfKinds` takes, shown by
induction over the positions of the conversation, one message more is taken at
the end (`OfKindsMore`), a system prompt in front is not the user's
(`OfKindsAfter`), and leaving out Arch-Function's messages leaves what the user
said (`OfKindsIn`).

`LlmGatewayProofs`: `LimitsAlwaysHold`, `UpstreamAlwaysFits`,
`SpecificAlwaysWins`, `AnswerAlwaysReadAsAsked`. Two invariants carry them.
`ContextInv` says which fields of a stream's context each of its callbacks has
settled, and that what was sent upstream is what the chosen provider, its API
and the request determine. `LimitInv` says that what the log counts under a
limit from any of its entries on is at most what the governor holds as used and
what time has given back since; the sums of the log's prefixes (`Passed`) make
this a matter of its last entry. The table is a loop over the list of providers,
so `TableOfItems` is an induction over it: every entry is an item that comes
under its name, and an item that names a model is found under that name unless a
later item takes it (`Taken`); wildcards only fill names no item has
(`WildcardKeepsTable`, `SpecificKeepsTable`). Assumed are the shapes of
configurations and requests (`GatewayAssumption`, `RatelimitsAssumption`), and
of the registry's names that they are ordinary ones (`RegistryAssumption`).

`StreamConversionProofs`: `PiecesAlwaysOnceInOrder`, `AllPiecesAlwaysArrive`,
`CompletedAlwaysMatches`, `EnvelopeAlwaysKept`, `LifecycleAlwaysKept`: all five
properties of the run, for any number of events and pieces, chunks of any length
and cuts anywhere; the last two are the refinements, step by step. What a client
reads does not say what it may be sent next, and neither does what the upstream
has sent. `Inv` therefore follows a stream at both ends. The events under way
(`Follows`) lead from a place in the upstream's course, with a count of pieces,
to where the upstream is. The client that has read what is on the wire and then
what is in the buffer (`Told`, `Joined`) stands to the buffer and to that place
as `Linked` says: an open block is open for both, what was announced, filled and
done is what the buffer holds, and no piece exceeds the count. How much can be
said depends on the stream (`Mode`): everything of one that keeps to its
protocol (`strict`), not the protocol of items when text and calls share an item
(`shared`), no count once bytes or frames were unreadable (`calm`; `Lost` is
what a chunk then does), and of an upstream that sends anything (`any`) only
what the buffers promise for any order of events. Each conversion is shown to
make of an event one that suits its step (`ChatAsMessage`, `ConverseAsMessage`,
`ShapeAsResponse`), each buffer to keep the link when one is added
(`AddingMessage`, `AddingResponse`), and a chunk is an induction over the events
it completes (`AddingAll`). The upstreams' courses are the only assumption about
them.

`ProviderExchangeProofs`: `TellsAll`, `NothingEmptySent`, `AnswersArrive`,
`ResultsStayWithCalls`, for conversations and answers of any length. All rest on
`EInv`: the history is well formed in the client's API (`Shaped`) and tells what
was said, a request is the client's converted, and what is received is the
answer converted. Most of the work is below it. What a request tells is a list
of events read off its messages, and a conversion regroups messages: it joins a
call's parts, moves results to a message of their own, merges turns of one role.
Every filter and join is therefore a flattening of lists, of which the first
lemmas say how it distributes over `\o` and when two are equal; a conversion is
shown to make of each message one or more that tell the same, and to put them
together so that the events come in their order (`RequestTells`). The input of a
Responses request is the exception, a loop in which an item may change an
earlier message: its lemma is an induction over the items read so far. What is
lost is a filter of the events, of the URLs of a Messages client's images for
Bedrock and of the calls of a Responses client that sends items back as they
were issued (`Kept`, `HeardBy`). Bedrock's content has a block and no empty
text, in results too unless a Messages client wrote them (`Fit`). `TellsAll` is
for conversations that clients keep, with ids or without; of what brightstaff
keeps it is not true (a hypothesis of the theorem), as `ProviderExchangeKept`
shows. `NothingEmptySent` and `AnswersArrive` hold without it. Assumed are the
APIs there are and the kinds of parts and tool choices (`ExchangeAssumption`).

`ResultsStayWithCalls` (with the same hypothesis) asks for places and not just
for what is told, so it has an invariant of its own, `CInv`: at the end of the
history the results that are due are those of the calls that are awaited
(`OnCourse`). Each form of a history has its account of that. A chat is followed
message by message, with the calls of the last message that has any and the
results that came since (`Follows`, `Course`): calls may only come when all
results have, and results only of those calls. A Messages history goes in rounds,
a message bringing all the results that are due or none (`AllAtOnce`, `Rounds`),
and a Responses history is followed in the chat messages that its items become
(`InputEnds`), where a call joins the last assistant message. A message that is
converted has the calls and results it tells (`Marks`), one that is split for
chat takes a course to the same end (`DialogueCourse`), and of any list that
takes a course with nothing left due the property holds (`CourseTogether`). That
tools may be done in any order is `OrderCovers`: an injection of the calls into
themselves misses none.

Checked by TLC only: the liveness properties (`EventuallyPut`,
`AlwaysCompleted`, `EveryRequestSettles`, `CatchesUp`), which are out of the
prover's reach. Where a proof needs what a loop computes, the loop is written as a
recursive function over the positions of the list (`Built`, `Passed`, `AddAll`,
`Among`, `MapOf`, `Taken`, `OfKinds`, `MessagesOfInput`, `Stops`), and a filter as a
flattening (`Pick`).

## Plan

Done, in this order: the health tracker, chat handler and session cache; the
streaming task; conversation state; streams and their buffers; the two filters
with function calling, provider table and limits; agents; conversions; ranking;
signals; then the theorems, of every property that is not one of liveness.

## Not modelled

- Wording: prompts of the routing and function-calling models, and the patterns
  of signals (a choice of marks), with the indexes, snippets and summaries of
  their reports. Truncation of a function call's reply by its token
  probabilities is any reply.
- Data carried as it is: tool definitions, sampling parameters, usage, refusals,
  audio, metadata.
- Bedrock frames that are decoded but are of no known event, which are skipped;
  what the decoder, a crate, makes of the bytes of a frame; the pair of a chat
  client with an Anthropic stream, which the table never picks; pass-through of
  equal formats.
- The parsing and rendering of the configuration, which is a constant of the
  models; models list, metrics, tracing, PII and statistics, which steer
  nothing.
- The loop that accepts connections and the dispatch by path in `main.rs`, which
  keep no state. A shutdown cuts off what a restart loses.
- Exists and delete of the state storage, which nothing calls; TLS set-up.
- `rig_agent`, a client of a third-party library (its in-process use by a chain
  is an agent of `AgentChain`); command line tools, demos and documents.
- HTTP framing, TLS and Envoy itself are outside the code: the filters'
  callbacks and the timeouts of callouts are what is used of it.
