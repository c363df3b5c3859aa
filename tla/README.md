# A verification development of CrossShop

CrossShop is a shopping assistant: a FastAPI server that takes a buyer's
intents, worker processes that run them through a main agent and its
sub-agents, and Redis and SQLite between them. This directory holds TLA+
models of the parts of it where steps interleave, fail or race, the TLC
configurations that check them on small instances, and theorems about them
that the TLAPS proof system checks for every value of the constants.

Paths are relative to `src/`; infra stands for `app/infrastructure`,
appl for `app/application`.

## 1. The system

| component | code | state | operations |
|---|---|---|---|
| API gateway | `app/presentation/server.py` | idempotency keys, turn counters (Redis), subscriptions | `_enqueue`, `_queue_priority`, `_await_result`, task status route, WebSocket |
| task queue | infra`/queue/redis_stream_queue.py` | two streams, consumer group, pending list, dead letters, statuses | `enqueue`, `consume`, `_handle_one`, `set_status`, `get_status` |
| worker | `app/worker.py` | stop flag, tasks in flight | `handle`, signal, drain |
| event bus | infra`/eventbus.py`, `RedisEventBackplane` | queues of subscribers | `publish`, `subscribe`, `deliver_local`, `listen` |
| orchestrator | appl`/agents/orchestrator.py` | one turn's local state | `handle_intent`, look-up in the reply cache, reply with retry, remember, record |
| session registry | appl`/agents/main_agent.py` | the agent of each session in this process; snapshots in SQLite | `get_or_create`, `persist`, `_try_restore` |
| orders | appl`/usecases/order_usecases.py`, SQL repository | stock in process memory, order rows | `PlaceOrder`, `CancelOrder`, tool timeouts |
| tool resilience | infra`/resilience.py`, `shared_breaker.py` | circuit state per tool, local or in Redis | `allow`, `record_success`, `record_failure` |
| harness | appl`/harness/`, infra`/harness_middleware.py` | loop window and active dispatches of a session | checks around a tool call |
| reply cache | infra`/cache/semantic_cache.py` | buckets in Redis per buyer and preferences | `lookup`, `remember` |
| conversation log | infra`/persistence/sql/repositories.py` | session, message and event rows | `touch_session`, `append_turn`, `append_events` |
| preferences | `app/domain/buyer`, appl`/tools/*_preference_tool.py` | rows of a buyer | `append`, `delete`, `list_by_buyer` |
| context engineering | appl`/context/`, infra`/context_middleware.py` | interaction units, frozen segments, stage summary, session facts | settle, freeze (L2), summarise (L3), reduce (L4), assemble |
| agent tools and dispatch | appl`/tools/` | searches on the session's bus | search, dispatch of sub-agents |
| model gateway | infra`/throttle.py`, `llm.py`, `budget.py` | slots, last start, token budget | `slot`, retries, fallback, tiers |
| page | `frontend/src/App.tsx`, `app/presentation/connection.py` | questions and replies shown, the socket | submit, apply a final reply, reconnect |
| file stores | infra`/persistence/json_file_stores.py` | a file for each buyer and each session (DATABASE_URL=file) | preferences, snapshots, conversation lines |
| tool outputs | appl`/context/tool_output.py` | files named by the digest of their content | `put`, read back |
| catalogue search | appl`/usecases/catalog_search.py`, infra`/vector`, `/rerank` | external indexes, read only | embed, recall, restore, filter, rerank |
| catalogue files and indexes | `scripts/data/build_catalogs_v2.py`, `scripts/index/` | published files, indexes, checkpoints | build, reset, resume, audit |
| context evaluation | `scripts/eval/context_*_runner.py`, `rubric_context_artifact.py` | run directories, checkpoints, artifacts | long run, resume, continue, read |
| rubric evaluation | `scripts/eval/rubric_*.py` | evidence and files of cases, a summary | collect, look up, judge, report |
| knowledge retrieval | infra`/rag` | external indexes, read only | search |
| pure domain code | `app/domain/shipping`, `catalog` | none | quote, convert |

How they interact. A request takes an idempotency key and a lane in Redis, is
appended to a stream, and waits for the event `final.result` or for the task's
status. A worker reads both streams as a member of one consumer group and
starts one asyncio task for each entry. The task runs `handle_intent()`:
the session's agent comes from the registry of this process or from its
snapshot; the reply cache may answer; otherwise the agent replies, asking the
model through the throttle of the process and calling tools behind harness,
breaker and timeouts; at the end the snapshot and the conversation log are
written. Events go to subscribers in the process and, through Redis, to the
other processes; the page hears them over its socket and gets the reply a second
time as the response to its request. Offline, scripts build the catalogue and
its indexes, audit them, and evaluate assembled systems with long sessions and
with batches of cases.

What is hard. All of it is asyncio: code between two awaits is atomic, and
nothing else is. Two turns of one session may overlap, in one process or in
two; Redis calls swallow their failures in the cache and raise in the queue; a
worker may die at any moment and is started again
(`docker/docker-compose.yaml`, `restart: unless-stopped`); tool calls are cut
off by timeouts in the middle of a database write. Files are written without a
transaction: a kill between two writes, or in the middle of one, leaves what the
next process reads.

What makes each component correct, in a sentence: an intent starts the
orchestrator at most once and is acknowledged only when handled; one
submission leads to one task and its client is answered; an article is never
sold twice; the breaker opens exactly when it was earned and recovers; the
quota of the model is kept and everyone gets a turn; a session is one growing
conversation of one buyer, its log reads back in order, and the model is shown
all of it once; a cached reply is only used where it belongs; a buyer is shown
only what was found, and below each question its own reply; what a file or an
index holds is what was meant to be in it, whoever died while writing it; and an
evaluation scores only what it has evidence for. `PROJECT.json` lists the hazards line by line.

## 2. The modules

Every model takes one step for the code between two awaits. Faults are
separate actions with a bounded budget. The `MC*` modules give constants
their values; some of them put components that share no state side by side in
one instance, where a behaviour follows one of them, drawn at the beginning, and
name the conjunction of what is asked of them. The `*Proofs` modules hold
theorems and proofs: `QueueProofs` of `TaskStream` and `IntentGateway`,
`ShopProofs` of `Orders` and `ProductIndex`, `ToolProofs` of `CircuitBreaker`,
`ToolChain` and `ToolOutput`, `GuardsProofs` of `SharedBreaker` and `ModelGateway`,
`SessionTurnsProofs` of `SessionTurns`, `TurnRecordProofs` of `TurnRecord` and
`FileStores`, `ContextProofs` of `ContextFreeze` and `SearchEvidence`, `ScreenProofs`
of `EventBus`, `SessionContext` and `OrderFacts`.

| module | models | with |
|---|---|---|
| `AtMostOnceQueue` | what the task queue promises: an item is held, run at most once, settled | |
| `TaskStream` | streams, group, pending list, dead letters, `consume()`, `_handle_one()`, the worker's handler, stop, crash and restart | implements `AtMostOnceQueue` |
| `IntentGateway` | `_enqueue()`, idempotency, lanes, `_await_result()`, `final.result` | extends `TaskStream` |
| `OrderBook` | placing and cancelling as single steps | |
| `Orders` | the use cases over SQL, statement by statement, several processes | implements `OrderBook` when calls do not overlap |
| `CircuitBreaker` | the local registry and the calls of one process | |
| `ToolChain` | harness, active dispatches and loop window around the breaker | extends `CircuitBreaker` |
| `SharedBreaker` | the registry in Redis, read and write in separate steps | implements `CircuitBreaker` when accesses do not overlap |
| `ModelGateway` | throttle, retries, fallback, streams, and the budget's tiers | |
| `Conversation` | a session as a history and what of it is saved | |
| `SessionTurns` | turns of a session: registry, restore, owner check, reply, failure, snapshot | implements `Conversation` when turns do not overlap |
| `TurnRecord` | reply cache, preferences and conversation log around a reply | |
| `ContextFreeze` | interaction units, freezing, folding into the stage summary, restore | |
| `SessionContext` | searches, dispatched agents, the selection for the buyer and for the session's facts | |
| `OrderFacts` | what sessions keep of the order tools' results | composed in `MCSession` |
| `EventBus` | subscriptions, backplane, the page's socket and its request, what the page shows | composed in `MCSession` |
| `FileStores` | the JSON files of preferences, snapshots and conversations, with cut writes and texts that end a line | composed in `MCSession` |
| `ToolOutput` | the files of tool outputs, written by several processes | composed in `MCSession` |
| `CatalogFiles` | converting, writing and publishing the catalogue | |
| `ProductIndex` | building indexes with checkpoints, and the audit | extends `CatalogFiles` |
| `CatalogSearch` | the search tool from the embedding to the cards, with failures of each service | |
| `SearchEvidence` | the events of concurrent searches and their readers: dispatch, rubric evidence, H4 acceptance | extends `CatalogSearch` |
| `MCCatalogue` | builder and audit first, then the server that searches what was built | extends `ProductIndex`, `SearchEvidence` |
| `ContextResume` | runs of the context evaluation, resumed, killed and continued; the reader of artifacts | |
| `RubricBatch` | a batch of cases: dependencies, faults, evidence, judge, files, summary | |
| `MCWorker` | `TaskStream` and `SessionTurns` side by side | extends them |
| `MCRequests` | `IntentGateway` and `ToolChain` side by side | extends them |
| `MCShop` | `Orders`, `SharedBreaker` and `ModelGateway` side by side | extends them |
| `MCSession` | `SessionContext`, `OrderFacts`, `EventBus`, `TurnRecord`, `FileStores` and `ToolOutput` side by side | extends `MCSessionContext`, `MCTurnRecord` |
| `MCBackstage` | `MCCatalogue`, `ContextResume`, `RubricBatch` and `ContextFreeze` side by side | extends them |

### State and actions

*TaskStream.* `log` and `cursor` are the streams and the group's position,
`pending`, `deliveries` and `acked` the group's pending list, `dead` the
dead-letter stream, `loop[w]` the program counter of `consume()`,
`slots[w]` its set of running tasks, `step[e]` where the handler of an entry is.
A read is one XREADGROUP with one COUNT for both streams and BLOCK; a failed call
may or may not have happened on the server. A crash loses the tasks of a worker,
`Start` creates the group again and reads only new entries. `limit` is the
`max_deliveries` of the deployment, drawn at the beginning from `Limits`.

*IntentGateway.* `place[r]` is where the request is, `idem`, `turns` and `status`
are Redis keys, `answer[r]` what the client got. An API crash, an expired key, a
lost event and a swallowed Redis failure draw on one budget, `mishaps`.

*Orders.* `stock[p]` is a process's copy of the catalogue, `rows` the table,
`place`, `oid`, `mine`, `seen` the locals of a call: number drawn, order built, row
read by `merge()`. `find_by_id()` reads an order's row and its lines in two awaits
(`FindOrder`, `FindLines`). `Cancelled` is the tool timeout: `CancelledError` is no
`Exception`, so the compensation does not run. Stock lives in process memory and
starts anew with the process: the repository's README calls the catalogue
demonstration data. `oneByOne`, drawn at the beginning, says that the calls of the
behaviour do not overlap; the properties of calls in turn start with it. Several
other modules use the same device, so that one run checks both worlds.

*CircuitBreaker, ToolChain, SharedBreaker.* A time stamp is kept as the
cooldown left, `Tick` lets time pass, `streak` counts failures since the last
success as an observer. In `ToolChain` the calls are dispatches of one session:
`active` is the set object in the harness's mapping, `members` its keys,
`holds[c]` the object a dispatch has found and keeps, as Python does, after the
mapping has dropped it. In `SharedBreaker` a record is read into `copy[c]` and
written back later: a failure is counted, and the cooldown begins, in the copy (`Fail`),
and what is written (`Record`) may be older by then. An expiry is the key's TTL.

*ModelGateway.* `waiting` is the queue at the semaphore, `pacing` the one at
the throttle's lock, `gap` what is left of the minimal interval, `stage`,
`attempt`, `model` the request of an agent, `used` what its intent was charged,
`spent` the part of it for the main model.

*SessionTurns.* An agent is named after the turn that built it; `registry[p]`,
`snapshot` and `state[a]` are the caches and the row, `carried[t]` what a turn
has read from or is about to write to the database, `known[t]` what the
database held when the turn began, for a property.

*TurnRecord.* `bucket` maps a buyer and a list of preferences, the scope, to the
cached replies; `loaded[t]` is the bucket a turn has read and will write back.
`scope[t]` and `under[t]` are the preferences the turn read for the key and for
the model: `_preference_scope()` and `_build_inputs()` read them in three
separate awaits. `messages[s]` are the rows of the log, `top[t]` the greatest
index a turn has read. What a turn alone knows is dropped once its reply is out.
One process is assumed: `begun` is what its registry knows.

*ContextFreeze.* `messages`, `cursor`, `frozen` and `stage` are the fields of the
agent's state, `snapshot` the one in the database, and the session is new or restored from
a snapshot with a summary of an older schema. `Freeze` and `Folded` take place
before a model call, as in the middleware. `Absorbed` walks through the
segments as the loop of `summarize_frozen_segments()` does, in the order of their
messages; `counts` is its `authored_turn` being a number (0 is none). A reply may fail, be
interrupted or be tried again while the model is asked or while a tool runs; the text
appended then follows a call without a result (`Abandoned`). Lists that only grow at the end are
sets ordered by position; sizes in tokens are small numbers. `Kept` leaves out the loop of
`assembler.py:356-364`, which lowers the number of segments kept further by a limit in
tokens: the properties hold for every number kept.

*SessionContext.* `bus` is the log of the session's searches, a subscription a
position in it; `events` and `calls` are the running turn's tools, `facts` the
L4 state. The selection of a reply is resolved twice, by `reduce_l4()` for the
session and by the orchestrator for the buyer.

*OrderFacts.* `book` is the order table of one buyer, `results[s]` the snapshots
the order tools returned since a reply of session `s` began, `order[s]` the
merged facts; `reduced[s]` is kept for the property.

*EventBus.* `air` holds the broadcasts under way: each PUBLISH is a task with a
connection of its own, so they overtake each other. `wire` is the queue of the
page's subscription and of its socket in one, `inbox[q]` the first `final.result`
a waiting request hears, `response[q]` what is on its way back. `signature` and
`completed` are the page's two refs. `hurried` remembers that a question was asked
while something of an earlier one was still to come. A turn publishes its reply or an
error; interrupted or failing after its reply it publishes both, or it fails with nothing
published: these ends draw on the budget of troubles.

*FileStores.* `liked`, `snapshot` and `lines` are the files; a file of preferences
is the set of what it lists, since nothing reads its order. A file written anew whose
write is cut is `Torn`. A line of a conversation is the sequence of the pieces written
to it: records, parts of records, what no decoder reads (a write cut in the middle
of a character), and what is JSON but no object and makes the reader raise. The last
line may have no line feed (`open`). A text with a character at which `splitlines()`
ends a line harms its own record as a cut does. `meant`, `told` and `saves` are
what was written, `scarred` whose file was harmed. *ToolOutput.* `disk`
is what the file of a call holds, `temp` and `blob` are directory entries that
point to files, so that a rename while another process still writes does what the
file system does.

*CatalogFiles, ProductIndex.* A version of the files maps each partition to its
rows; `output`, `backup` and `temps` are directories, `saved[p]` the builder's
checkpoint of a partition, `docs[i]` an index, `shown` the refreshed ones. A sha256
is the rows it is taken of. `PartOf` is the prefix an id has for its partition,
which the writer checks for the partitions of the staging area; the products of
the reference repository are a partition with an index of its own. *CatalogSearch, SearchEvidence.* `call[c]` is a run of
the tool with the services it has met (`hurt`), `log` the session's events, `lane`
and `reply` the dispatches. An event keeps the number of its search for the
properties only.

*ContextResume.* `session[r]`, `partial[r]`, `pointer[r]`, `rowsFile[r]` and
`summary[r]` are the session and the files of a run, each written in a step of its
own; `origin[r]` says which run it resumes. *RubricBatch.* `bench` is the case
being evaluated, `fitted` and `originals` the parts a fault replaces and what is
put back, `graded` and `onDisk` what comes of the cases.

## 3. What the runs check

A run marked ✗ must find a violation: it sets what the repository says beside
what the code does, and is listed under findings in `PROJECT.json`.

| run | instance | shows |
|---|---|---|
| Worker | queue: three entries (a task, one without payload, one that cannot be parsed), one worker with one slot, `max_deliveries` 1 or 3, two setbacks; turns: three of two buyers on one session, two at once, one mishap | `SlotsTrackHandlers`: no lane above its cap, nothing stranded unless something failed; the queue implements `AtMostOnceQueue`; every entry is given to a worker. No history mixes two buyers' questions; `HistoryIsWhole`: turns in turn know all earlier ones and leave no question open; in turn they are one growing conversation |
| Redelivery ✗ | two entries, one worker that is started again and again, one setback | an entry that was delivered and not acknowledged is never delivered again |
| Requests | gateway: two requests of one session with one text, one worker, one mishap; tools: three dispatches, two platforms, threshold 2, cooldown 1, window 2 | at most one task while the idempotency key is intact; who waits for a running task is answered. The breaker is open exactly after its streak, and closes again; no entry of the harness leaks; a fan-out is no loop |
| Shop | orders: two placements and two cancellations of two buyers; carts of one and two articles, with an unknown one, two currencies or a zero quantity; a fault, a timeout, a restart. Breaker: three callers, threshold 2, cooldown 2, two accesses at once, a fault, an expiry. Gateway: three agents of two intents, two slots, interval 1, one retry and a fallback, token limit 2 | `StockCovers`: overlapping calls never confirm more than there was, and calls in turn account for every piece; no gap in the numbers; calls in turn are the order book. The breaker never opens too early, and is the local breaker without overlap. Requests upstream within the quota, a bounded overshoot of half the budget, everyone served |
| OrdersCollide ✗ | two placements | both draw the same number and the later one overwrites the earlier one |
| Session | products: two turns, three products, two searches, two tool calls, one mishap. Orders: two sessions, two orders, five tool calls. Page: two questions, one trouble. Database: three turns, two sessions, two at once, bucket limit 1, a mishap and two troubles for two turns, one trouble with the third. Files: three buyers, two sessions, four writes, two harms. Outputs: three calls of two processes, two deaths | only found products are shown; `FactsAreTrue`: what is remembered was shown, reducing again changes nothing, the history holds the newest, and the order facts tell of one order; `ScreenIsTrue`: below a question its own reply, once, and no failure below it. Cached replies are used where they belong; the log reads back in order; only a turn that raced for the first row is not recorded. `FilesAreTrue`: a buyer's preferences are his and none that was taken back, a snapshot is the last one or none, and a conversation that was not harmed is read back whole; one that was is beyond reading, or is read in order without at most two records for each harm. `LeftOutReadsBack`: what the model is referred to is there, whole |
| CacheStale ✗ | three sessions of two buyers, one question | a reply is filed under preferences noted by another turn while it was written |
| DamagedLine ✗ | one session, three writes, one harm | one damaged line keeps all turns of the session from being read |
| ContextNumbers ✗ | four turns, of which the first may be a probe; every older segment folded | a summary of probes alone hands on no turn number, and the second one after it begins again at 1 |
| FreezeBlocked ✗ | two turns, one mishap | a reply that ends while a tool runs leaves a unit that never settles, and freezing stops there |
| Backstage | context of a session: three turns after none or three earlier ones, hot window of one turn, one mishap. Catalogue: three partitions in two indexes, two versions of the staging area and two that are refused, three builds, two starts of the builder, a lost index, then the main agent and two dispatches with three searches and two faults; evaluation of the context: three run directories, one kill; rubric: four cases, one of them under the order fault, one under a reranker fault, one artifact | the model's view covers the session once; a segment stays true; turns in turn, none of which was given up while a tool ran, do not block freezing; `SummaryIsTrue`: turn numbers and newest facts survive folding. `SurvivesCrashes`: a published catalogue is whole and not lost; `AnswersAreTrue`: after a passed audit an empty answer is empty, cards are of the files, and a failure is called what it was; a dispatch answers with its own search; the H4 and rubric readers accept only evidence that is true; runs that resume leave no query out, and ask none twice but for a kill between the two files of a checkpoint, and what is accepted as an artifact is one; a batch scores only what it collected, with the system put back as it was |
| ReplayedQuery ✗ | two run directories, one kill | a run killed between the turns of a checkpoint and its cursor asks a query twice when it is continued |

Bounds. Two or three requests, calls or turns are enough for every pair to
race and for a third to see the damage; three entries in two streams for every
order of reads, stops and crashes. Thresholds of 2 failures
separate "one before" from "at". A budget of 1 or 2 puts a failure at any step
and a second one, or a crash, into its handling. `MaxMishaps`, `MaxSetbacks`, `MaxFaults`, `MaxDbFaults`, `MaxTimeouts`, `MaxRestarts`,
`MaxLapses`, `MaxSlips`, `MaxTroubles`, `MaxHarms`, `MaxDeaths`, `MaxLosses`, `MaxKills`
and `MaxStray` bound failures;
`MaxBusy`, `MaxOverlap` and `MaxAccess` what runs at once; `MaxCalls`, `MaxSearches`,
`MaxTools`, `MaxAsked`, `MaxWrites`, `MaxBuilds`, `MaxRuns` and `MaxDirs` how much is done. For the
database of `Session`, `MaxTrouble` bounds failures and changes of preferences together (two while two turns run, one once the third has begun, and none then when
the sessions are of two buyers, whose turns meet in Redis alone: `FewTroubles`), and there is one kind of preference with one statement,
which may be on record from the beginning: what matters is whether it is there.
For the context of `Backstage` and for the products of `Session` a turn that begins while another one runs is a
mishap too; `overlapped` remembers it for the properties of turns in turn. In `Session` turns that overlap share one search (`FewEvents`). Only
one worker is in `Worker` and `Requests`; the theorems about the queue cover any
number. The turns of `Worker` run in one process; the theorems about them cover any number,
and say which of them need one. Symmetric values are declared in `Backstage` and in two of
the ✗ runs, where only invariants are checked; in `Worker` and `Session` turns that are
alike begin, and products are found, in the order of their names instead.

`Backstage` is the largest instance and is cut where no property looks. Once the
server runs, the builder rests and the view (`Seen`, `BackstageView`) forgets all of
it but whether the audit held for the files; a call that stands between two
steps nobody else sees (`Midway`) goes on first. What a search leaves on the bus
does not depend on what it found: dispatches run over one version of the files
(`Crowded`), next to plain searches of the main agent, where one lasting fault
takes the place of a third search (`Modest`), and over all the others the main agent searches alone for everything.
A third build follows no builder of the indexes (`Calm`). `Modestly` keeps to one
long run which the others resume, to few compressions, to one wrong answer to a
probe, and to a kill or a stray compression, not both. Three directories are enough for a run that resumes a resumed one. In
the files of `Session` two buyers have names that are alike once cleaned, and two processes
return the same output at once.

Deadlock is not checked where a finite set of calls ends; the other
runs check it.

Fairness. The event loop runs what is ready, so the loop of a worker, a
handler, a request, a tool call and an agent with a slot take their next step (WF); a
worker that went down is started by the compose file. No turn is owed anything: a model
may stream for as long as it likes. A crash, a fault, a
signal, a timeout and a client's request are never owed. `Recovers` assumes
that time passes, that a call ends within its timeout and that the tool is
called again; `EveryoneServed` that a request ends, which its timeout ensures.

## 4. What is proved

For every value of the constants that satisfies the modules' assumptions:

| theorem | says |
|---|---|
| `StreamTypeCorrect`, `StreamInvariant`, `RunsAtMostOnce`, `SettledWasHandled`, `QueueImplementsPromise` | at most one start of an entry, acknowledged only when handled; `TaskStream` implements `AtMostOnceQueue` |
| `SlotsAreHandlers` | no stream has more than Concurrency handlers on a worker; without a fault or a crash what is pending is being handled |
| `GatewayUsesQueue`, `GateTypeCorrect`, `KeyAdmitsOneTask` | the gateway is a client of the queue; one task per intact key |
| `NumbersHaveNoGap` | order numbers are dense for any number of calls, processes and faults |
| `StockNeverOversold` | in one process, whose carts ask for no negative quantity, calls in turn account for every piece, and overlapping placements with any faults and timeouts never sell more than there was while cancellations are whole |
| `OrdersImplementBook` | under the same hypotheses, calls in turn over SQL implement `OrderBook`, whatever database call fails |
| `BreakerInvariant`, `BreakerOpensOnStreak` | the breaker is open exactly when the last Threshold results are failures |
| `ChainUsesBreaker`, `ChainOpensOnStreak`, `ChainInvariant`, `NoEntryLeaks` | the same under the harness; no entry of a dispatch outlives the last one |
| `FanOutsAreFree` | a dispatch for a platform no running one is for is never counted as a loop |
| `OutputInvariant`, `OutputsReadBack` | what a message leaves out of a tool's output reads back exactly, whoever died while writing it |
| `SharedInvariant`, `EarnedOpens`, `RefusalsEarned` | with any overlap and any lost Redis call the shared breaker never opens unearned nor refuses past the cooldown |
| `SharedImplementsLocal` | with one access at a time and no fault, `SharedBreaker` implements `CircuitBreaker` |
| `GatewayInvariant`, `QuotaKept`, `OvershootBounded` | the quota of the model, and the bound on what the main model costs |
| `TurnsInvariant`, `TurnsTypeCorrect`, `OneBuyer` | no agent and no snapshot mixes two buyers |
| `NoneLeftOpen` | turns in turn leave no question open, in however many processes |
| `WholeInOneProcess`, `TurnsAreConversation` | in one process, turns in turn know all that was saved before them, and the session implements `Conversation` |
| `ScreenInvariant`, `ScreenShowsTruth` | the page shows each question its own replies, none twice, and never leaves one without |
| `IndexInvariant`, `CrashesSurvived` | a published catalogue is never lost, and no checkpoint runs ahead of its index |
| `ContextInvariant`, `FreezingLosesNothing` | segments and summary cover a session's messages up to the cursor exactly once |
| `SegmentsStayTrue` | no later message belongs to a frozen unit, also after a restart or an overlap |
| `FreezingNeverBlocked` | turns in turn, none of which was given up while a tool ran, leave at most the hot window unfrozen at a model call |
| `SummaryInvariant`, `SummaryTrue` | however often it was folded and restored, a summary's journeys carry the buyer's own turn numbers unless the session began with a probe, and its facts are the newest of what it covers; a summary of an older schema is rebuilt from its segments first |
| `EvidenceInvariant`, `DispatchesAnswerThemselves` | a finished dispatch answers with the last search its own agent brought to an end, or with none, whatever others search for meanwhile |
| `FoundInvariant`, `OnlyFoundIsShown` | every product shown, remembered or saved was found by a search of its session |
| `HistoryInvariant`, `HistoryHoldsRecent` | what a session remembers is the most recent of what its replies named, each once |
| `ReducingAgainIsNothing` | reducing the same events twice changes nothing |
| `ShownInvariant`, `RememberedIsShown` | with turns in turn, what is remembered as shown was shown |
| `FilesInvariant`, `FilesTrue` | in the file mode, whichever writes are cut, nobody gets another's preferences or one taken back, and a restart goes on from the last snapshot or from nothing; a conversation that was not harmed is read back whole, and one that was is beyond reading, or is read in order and lacks at most two turns for each harm |
| `MemoryTrue`, `OrderInvariant`, `FactsTrue` | all of this together, and the facts about orders tell of one order of the buyer and of a state it was in |
| `LogInvariant`, `LogReadsBack` | a session's messages are numbered without a gap, each question before its answer |
| `RecordInvariant`, `OnlyRacersLoseTheirRecord` | without a failing call only a turn that raced for the first row is not recorded, and never every one |
| `CacheInvariant`, `HitsAreOwn`, `UndisturbedHitsAreCurrent` | a cached reply is the buyer's own, fit for reuse, and of the same preferences unless disturbed |

The arguments. `StreamInv` ties the place of every handler to the pending
list, the result and the number of starts; the part that makes it inductive
says that what lies behind the group's cursor is new, since a restarted
worker asks for new entries only. `KeyInv` says that the key of a request on its
way to the stream names that request. `NumbersInv` adds to the density of the
numbers that a number drawn is at most the next one, and that a call saves over a
row only if that row is stored. `BreakerInv` equates the failure count with the
observed streak. `ChainInv` says that the keys in a set object are those of
running dispatches that hold this very object, also of one the mapping has
dropped. `SharedInv` states the bounds for the record in Redis and for
every copy a call holds, because a late write makes any copy the record.
`GatewayInv` counts slots as free or held and adds to what the main model has
cost what the requests now on it may still cost. `TurnsInv` says of every
state, in an agent, in the row, or carried between them, that its questions are
its owner's, and that a running turn finds an agent in its process. `LogInv`
says that a number read is at most the greatest written, so that the next one
repeats a number or extends the range by one, and which messages a turn has at
each place. `KeptInv` gives every session whose row is there a turn that writes
its record. `CacheInv` carries the condition on an entry through the bucket that
was read and is written back, and ties the preferences an undisturbed reply
knows to those in the store, until they become its scope.

`StockInv` rests on a ledger: the stock is what there was, less what calls took and
plus what they put back, as long as calls come in turn or cancellations are whole. In
turn, a placement finds its number free and a cancellation its order unchanged and,
should its commit fail, the pieces it put back still there; so what is under way and
what is sold together are what was taken, and every commit is one step of the order
book. Overlapping, two placements may save over each other, and the ledger alone says
nothing of the rows. There every order that is stored, and every one a cancellation
is about to save, has a placement that ended, took its pieces and gave none back
(`RowsCovered`, `CancelsCovered`); and an order confirmed again under the number of
a cancelled one was placed by another placement than that one (`CoveredTwice`), so that
what was put back is not counted twice. Orders that are cancelled count as well, since
a cancellation reads the lines of an order in an await of its own, after its
status: another placement may have saved over it in between, and the lines are its
then. Hence sold is at most what was taken.
The sums are `MapThenSumSet` of the library, a recursive function of which the prover
knows nothing: that it is an integer, changes by what one member changes, grows
with its set and is additive is shown from the definition, each for a smallest
subset that would contradict it. The hypotheses are needed: each process has its own
copy of the stock (two of them sell it twice), and a negative quantity raises
the stock before `OrderLine` rejects it (section 5). Neither is assumed of the module.

`SlotsInv` adds to the slots that, while no call has failed, no handler is on
its way to give up an entry it leaves pending. `FanInv` says that running
dispatches, one for each key, all hold the set object that is in the mapping, so
that a new key sees all of them. `OutputInv` says that a process writes for one
call at a time: the temporary file of its name is that call's own from the moment
it is opened, although a killed one may have left it, and an entry of the directory
once renamed never points to a file that is still written. `TurnInv` makes the
hash in Redis the state of the local breaker: with one access at a time, what a
call is about to write back is what is still stored, with the failure already counted.
An access is taken to be over within a tick there, since the cooldown is stamped when the
record is read.

`WholeInv` follows the one turn that runs: what it carries, or finds in the agent
in use, is what the last one left, and a question is open only in its own agent
and only while it replies. That holds for any number of processes. That a turn also knows what was saved (`KnownInv`: the
snapshot is a prefix of every agent's history) needs one process: with two, an
agent that stayed in memory misses the turns the other process saved, so the
theorems say so in their hypothesis, and `Worker` checks them with one process. The refinement of `Conversation` rests on the same invariant.

`ScreenInv` has four parts that always hold (an event comes to the page at most
once and never before what it tells of; nothing happens for a question that is not
asked; the page notes what it shows; no event twice and no question unanswered) and
one that holds as long as no question was asked over what an earlier one has
under way: then everything in the bus, on the socket and in the request is about
the last question, and the part says what has come of it in which order.

The `FilesInv` of `ProductIndex` counts what killed writers have left next to what the running one is
about to publish: one that dies after it moved the old catalogue aside leaves a
whole new one, and a failed move puts the old one back. `IndexInv` says of a running
builder that it has prepared every index, sends what its checkpoint names, and that
what it writes replaces documents of its own partition only. The last needs two
checks of the writer, that an id has the prefix of its partition and occurs once:
without the first, a product that moves to another partition of the same index
takes the place of a document another checkpoint counts.

`ContextInv` is stated of a sequence of messages, a cursor, segments and a
summary, since a restart puts the snapshot in the place of the context: both keep
it. Its heart is that only units which another question follows are frozen, and
that such a unit ends where it did whatever is appended. Nothing in it needs the
turns to come in turn. `CalmInv` does: while no two turns have overlapped and none was given up while a tool ran, every
unit but the last is complete, and the place of the running turn says what is
missing in the last one (nothing, the result of its call, or an answer). Then the
units that settle reach up to the hot window. The prover knows `Min` and `Max`
as choices only; that they exist is shown from the well-foundedness of `<` on
the naturals, by taking a minimal element of a concrete set, which needs no
induction theorem with an operator parameter.

`SummaryInv` adds to it what a summary tells. A fold carries a state from one segment
to the next (`Absorb`): whether turns are still counted, how many, the newest fact of
each tool, and the journeys. `MemoryInv` says what such a state knows after a set of
segments, and one segment keeps it (`AbsorbKeeps`). That the recursive function which
runs through the segments exists, and that its value after the last one satisfies
`MemoryInv` of them all, is shown by the smallest position at which it would not. The next
fold begins with what is recalled of the summary, which hands on the last number only,
and none when it knew only probes (`RecalledKeeps`); since newer segments come after all
those a summary covers, what it then reaches is true of both together. Both the summary and
the snapshot's satisfy this, so a restart keeps it. The theorem's numbers are those of
`Authored`, the buyer's questions up to a message: segments and units correspond one to
one (`AuthoredIs`), so that a count of segments is a count of questions.

`EvidenceInv` has three parts. The log of a turn numbers its searches, gives each at
most one result, and has the events of a dispatch behind its announcement; a call that
runs is in the log, under the correlation and the platform of its lane and with no
result yet, and no two of them have one number; and a lane that has not begun has no
event in the log, one that has ended the reply that `LatestSearchResult` takes from it.
So what a dispatch takes for its latest result is the latest of its own.

`FoundInv` says of every card a session knows, saves or shows that some search of
its bus found the product. `HistoryInv` states what the history is as a function of
all that was ever named: its most recent distinct products named, cut to the limit. That the
history can be cut after each reply rests on a lemma (`CutAgain`): to cut, to put new
names in front and to cut again leaves what one cut of everything would leave.
`ReplayInv` follows, since names that are in front already stay there. `ShownInv`
says more as long as no two turns have overlapped: one turn runs at a time, the
calls it knows are its own, and what is in the log was shown by the reply it is of.
`OrderInv` ties the book, the snapshots of a session and its facts: numbers of
orders are dense, a snapshot says what was true of its order, and the facts are
of the order the last reduced snapshot is of. The definitions of `SessionContext` that walk over a list are recursive
functions; the prover must be shown that each exists, which is done for the
shortest list for which it would not.

The `FilesInv` of `FileStores` says for each file what it holds beside what is meant to
be in it: a list of preferences is what was meant, or the buyer is scarred; a snapshot is
the last one that was saved whole; and as long as a conversation is not scarred, its file begins with its
session line, has nothing in it that keeps it from being read, and tells of every turn
in the order of their writing. For a scarred one the turns that it has lost, with those
its open line may still take with it, are at most two for each harm. The count of
what is at risk makes it inductive: a cut leaves a line without line feed, which spoils
itself now and the next one when that is appended.

The assumptions on constants are the named ASSUMEs of the modules: bounds are
naturals, sets that are counted are finite, the sets of names do not contain the
null value, thresholds and limits are at least 1.

Model-checked only. Everything under fairness: the prover has no rule for it.
`AnswersAreTrue` of the catalogue, `EvidenceIsTrue`
of `SearchEvidence`, `ResumeIsTrue` of `ContextResume` and `BatchIsTrue` of
`RubricBatch`, and the type invariants of `Orders` and `TurnRecord`: they depend on
folds and selections which the library defines by recursion, of which the prover knows
no fact; the sums of `ShopProofs` and the lists of `ScreenProofs` show what it takes to
obtain some. That is also why
`_write_partition()`'s order by id is modelled as an order the set of rows determines,
and the builder's walk over the partitions as a step for each. Of the type
invariants, those of the queue, the gateway, the breakers, the chain, the outputs,
the turns and the page are proved; the others hold in TLC with the constants of the
runs but are not part of a run.

## 5. What the models show that nobody promised otherwise

Behaviour met while modelling that is in the models but contradicts no text that a
run could hold it against, or has no run of its own:

- With `max_deliveries` above 1 an entry whose handler failed is not acknowledged and,
  as `Redelivery` shows, never given to a worker again. Its delivery count stays 1,
  so that a failed handler never leads to a dead letter, only an unparsable payload does.
- Two streams are read with one COUNT, so a worker may run more handlers than
  WORKER_CONCURRENCY, up to that many of each lane (`SlotsTrackHandlers`).
- `queued` is written after XADD and may overwrite the `done` of a fast worker;
  an idempotency key outlives a submission that failed, and later requests are
  sent to a task that does not exist.
- `final.result` carries no task (`server.py:319`). When a buyer asks on while a
  reply is still to come (after a timeout or a failed request the page lets him), the late
  one is shown below the new question, and may be the response to its request
  too; the own reply then follows as a second one.
- The deadline of a request may answer below a reply the socket has already shown:
  the page looks at `requestCompletedRef` when a request fails
  (`App.tsx:129-132`), not when its response is an error.
- An error of the backplane's listener ends it for the life of the process
  (`server.py:69`); from then on no worker's event reaches a page, and replies
  come by the poll of the status alone. PUBLISHes take a connection each, so a
  token may come after the `final.result` that should have covered it
  (`orchestrator.py:18`) and stay on the page. Tokens are not in the model; that
  `EventBus` lets broadcasts overtake each other shows the order.
- A timeout between deduction and commit keeps the pieces; a negative
  quantity raises the stock before `OrderLine` rejects it and cannot be taken
  back; two cancellations of one order put its pieces back twice; the
  compensation of a failed cancellation may find the pieces sold.
- Half open, the breaker lets every concurrent caller probe
  (`resilience.py:9` says one), and a late success of an earlier call closes it.
  The shared record loses failures to overlapping writes.
- Two dispatches for one key share one entry of the harness, and the first to end
  removes it for both. The tool that creates orders comes from the sub-agents'
  factory, behind the breaker but not behind the harness
  (`main_agent.py:126-153`), so the sequencing rule of `assertions.py:19` never
  sees an order.
- Retries and fallbacks start without waiting for the throttle's interval
  (`throttle.py:4`, `:44`).
- Overlapping turns, an unread snapshot and a second process that caches the agent
  make the next snapshot lose turns; a crash may leave a question open for good,
  which keeps later turns from being frozen, as an abandoned tool call does
  (`FreezeBlocked`). Racing first turns of a session lose
  one record (`repositories.py:113`), where `:14` expects display order to suffer
  at most.
- A reply that is tried again shows the buyer products of the first try which the
  session does not remember (`context_middleware.py:239`); of two searches of one
  dispatch the first is forgotten.
- The turn counter behind the slow lane is read and written without a lock, which
  loses counts but never sends a request to the slow lane too early.
- The `cancel_reason` of a cancelled order stays in the facts beside the next
  order, which is confirmed; an order tool that is timed out after it took effect
  leaves the facts without the order (`reducer.py:347-363`).
- In files: a kill while a file of preferences is written anew loses all of the buyer's,
  and hides the file of an earlier version; a conversation file that was cut to nothing
  never gets its session line. `_safe_name()` of sessions has no hash, so two
  sessions whose ids are alike once cleaned share a file: the model assumes there
  are none. Orders stay in memory in that mode and are numbered from 1 again after
  a restart, while the sessions that name them persist.
- The temporary name of a tool output has the pid of its process. In containers
  that share the volume every process may have pid 1; the mutant `TempByDigest`
  is that deployment, and loses outputs.
- The context evaluation: a run that resumes a resumed one, or one with warm-cache
  turns, starts from a wrong query. A source without L3 gives `base_source_turns` 0, and the reader rejects the artifact that
  passed; a compression in a warm-cache turn makes a later artifact be rejected;
  `--continue-artifact-dir` does not remember `--warm-cache`. `ResumeIsTrue` is
  about the runs these do not touch, and about those `ReplayedQuery` does not.
- The H4 acceptance pairs the results of concurrent searches by platform and order
  (`smoke_h4_agent.py:735`, `:763`): two searches of one platform that end in
  another order swap their calls.

## 6. Plan

1. Done: queue, gateway, orders, breakers and harness, model gateway, session
   turns, reply cache and conversation log, freezing, recommendations and order
   facts, event bus and page, file stores, tool outputs, catalogue files,
   indexes, search and its evidence, the two evaluations.
2. Proofs. Done: what section 4 lists. Left: `AnswersAreTrue`,
   `EvidenceIsTrue`, `ResumeIsTrue` and `BatchIsTrue`, over facts about their folds shown
   with minimal counterexamples as those about the sums of `ShopProofs`.
3. The pure algorithms against reference definitions: tariffs and exchange, the
   selection of preferences.

## 7. Not modelled

The contents of prompts, texts and rankings; knowledge retrieval over external
indexes (read-only); prices, exchange rates and tariffs (pure functions on
decimals); the regular expressions of the content filter; settings, wiring and
tracing; load tests and recall measurements. Of the modelled parts: the tokens of
a stream and the layout of the page, the scores, spans and redaction of the rubric
evidence, and the mode of the context that only observes. `PROJECT.json` lists each
with its reason.

One hazard has no property: a turn that is tried again after its tools ran
forgets what its first try found (`orchestrator.py:598`), which no text excludes.
Of another, the questions asked while an earlier reply is still to come
(`server.py:319`), `ScreenIsTrue` asks only that each gets an answer and that no
event is shown twice.
