# A TLA+ model of percept

percept is a single-process server for sensor events: producers post events
over HTTP, WebSocket or MQTT; the server keeps the newest in memory ("hot"),
all of them in SQLite ("cold"), and vectors of some of them in an embedding
index; agents read them through MCP tools; retention sweeps delete what the
operator's policies no longer allow. An edge instance can forward to a hub.

This directory holds TLA+ modules translated from the Rust code under
`src/crates/`, TLC configurations, and proofs checked by TLAPS.
`PROJECT.json` lists the runs, the mutants that show each property can fail,
the source lines of every definition, and the hazards the properties address.

## 1. Inventory

| Part | Source | State | Operations | Model |
|---|---|---|---|---|
| Ingest bus, normalizer, fan-out | `ingest/src/pipeline.rs`, `normalizer.rs` | bounded mpsc bus, `seq_by_source`, counters | receive, stamp, push to ring, `try_send` to three consumers | `Pipeline` |
| HTTP ingest | `ingest/src/http.rs`, `wire.rs` | a handler per request | check the batch, enqueue event by event, 429 on a full bus | `Pipeline` (checks as one admission step), `Delivery` (check by check) |
| MQTT ingest | `ingest/src/mqtt/*` | a subscriber task per broker, each with a clone of the bus sender | subscribe, poll, match, decode, `try_send`, reconnect | `MqttSubscriber`; `Pipeline` (routing as one choice) |
| Hot rings | `store/src/hot_ring.rs` | a deque per (source, kind) | push with count and age caps, latest | `HotRing`, used by `Pipeline` |
| Cold writer | `store/src/cold/writer.rs` | channel, batch buffer, ticker | collect, flush on size, age and close | `Pipeline` |
| Cold store | `store/src/cold/store.rs`, `cursor.rs` | tables `events`, `latest` | append, window query by cursor, latest, three sweeps | `ColdTables`, `ColdStore`; `WindowGlobs` (filters) |
| `get_window` tool | `percept/src/mcp/tools.rs` | the client's cursor | open, resume, refuse | `ColdStore` |
| Embedder task | `store/src/vector/task.rs` | channel, batch buffer | collect, embed, store | `Pipeline` (batching), `VectorIndex` (store) |
| Vector index | `store/src/vector/index.rs` | table `vectors`, in-memory mirror | open, append, search, sweep | `VectorIndex`, `Search` |
| Retention | `store/src/retention/*`, `percept/src/sweeper.rs`, `config/validate.rs`, `cli.rs` | the policies, a pass | resolve, sweep, dry-run | `Retention` |
| Forwarder | `percept/src/forwarder.rs` | channel, batch buffer | collect, POST, drop on failure | `Pipeline`; its client in `Delivery` |
| Server start and stop | `percept/src/server.rs` | the tasks it spawned | signal, graceful stop, await the normalizer | `Pipeline`, `VectorIndex` (restart) |
| WebSocket ingest | `ingest/src/ws.rs` | a session per socket | upgrade, check a message, enqueue it, answer with up to two frames, close | `Pipeline` |
| Tokens, scopes, rate limits | `ingest/src/auth.rs` | a limiter per token | look up, check scope, take a cell per batch | `Delivery` |
| Client library | `client/src/*` | batcher, retry loop | enqueue, flush, post, retry, give up | `Delivery` |
| Ingest metrics | `ingest/src/metrics.rs` | atomics in maps behind reader-writer locks | bump, insert and bump, digest | `Metrics` |
| Current state, federation | `percept/src/mcp/tools.rs`, `peer.rs`, `registry.rs` | none; calls under way | hot-then-cold lookup, fan-out to peers with a timeout, merge | `Federation` |
| Search tool | `mcp/tools.rs`, `vector/index.rs` | a call under way | top-k over the mirror, hydration | `Search` |
| MCP router | `mcp/router.rs`, `protocol.rs` | none | authenticate, dispatch, error envelopes | `Federation` (as far as a caller can tell) |
| Schemas, kind refs | `ingest/src/schema.rs`, `core/src/kind_ref.rs` | maps built at start | version choice, validation | not modelled, section 5 |
| Configuration, secrets, CLI | `config/*`, `cli.rs` | none that changes | parse | not modelled, but for what retention and MQTT need |

**How the parts interact.** A request handler, a WebSocket session or a
subscriber puts envelopes on the bus with `try_send`. One normalizer takes them off, assigns `event_id`,
`ingest_ts` and the per-source `seq`, pushes the event to its hot ring, and
offers it with `try_send` to the cold writer, then the embedder (if its
selector matches), then the forwarder. Each of those tasks owns a channel of
depth `bus_depth`, collects a batch and flushes it when the batch is full, a
ticker fires or the channel closes. The retention sweeper and the MCP tools
call the cold store and the vector index concurrently with the writers, each
call under the store's own mutex. `describe_sources` and `get_current_state`
also call the same tool at each peer, which does the same in its turn. Every
part bumps the shared counters.

**What is hard.** Four bounded queues that drop independently; batches lost as
a whole; a shutdown that depends on who owns a clone of a sender; readers that
page while rows are inserted and deleted on both sides of their anchor; a
table and its in-memory mirror updated under different locks; a sweep that
takes its list of pairs once and then works call by call; limits merged from
several policies; events that arrive late, twice, or at the embedder before
they arrive at the store; questions that run round a cycle of peers; hits
whose events go while they are fetched; a counter two calls create at once. `PROJECT.json` lists each under `hazards`, at its
line.

**What makes each part correct.**

* Pipeline: each consumer sees arrivals in order and once; every loss is in
  exactly one counter; `seq` counts a source's arrivals; what was accepted is
  normalized also during shutdown; nothing waits for ever; the frames a
  WebSocket client gets add up to what was taken, up to the first one lost.
* Hot ring: it is the newest stretch of its pair's arrivals and none of it is
  older than the age cap, measured at the last push.
* Cold store: rows are immutable and unique; a scan by cursor returns rows of
  one window only, in order, without a repeat, and no row that was there all
  along is missing; `latest` holds the newest row appended.
* Delivery: a batch reported as accepted is complete; an event with an id is
  stored once whatever is retried; what is not retried is what cannot help or
  may have arrived; every event gets an outcome.
* Vector index: mirror and table agree up to a call under way; one model.
* Search: the best `top_k` of one moment, less those whose event was missing.
* Federation: an answer comes, shows which peers it does not cover, and its
  rows are as recent as the question unless their node was restarted.
* MQTT: topics are matched as the broker matches them, every message is in one
  counter, every subscription reaches the broker unless a connection that was
  established is lost.
* Metrics: no increment is lost; a digest agrees with what was recorded.
* Retention: only what the governing policy condemns is deleted, and all of
  what was there when a pass began is brought under every limit.

## 2. Modules

| Module | What it is |
|---|---|
| `LossyFifo` | abstract promise to a consumer: a queue that may lose, never reorders, duplicates or invents |
| `HotRing` | one hot ring as a sequence, `Push` and `Latest` |
| `Pipeline` | HTTP requests, WebSocket sessions and brokers, bus, normalizer, fan-out, the three consumer tasks, shutdown |
| `MqttSubscriber` | one subscriber task, its client library's request channel, the broker |
| `Metrics` | the shared counters under their locks, and `recent_errors` |
| `Delivery` | client library, network, the HTTP handler's checks; the pipeline behind the bus reduced to what `LossyFifo` promises |
| `ColdTables` | rows, their order, INSERT OR IGNORE, the `latest` upsert, what each sweep statement selects; shared by the next two |
| `ColdStore` | the cold store's calls and a client that scans a window with cursors |
| `VectorIndex` | table and mirror with the two lock regions of each call, stop and restart |
| `Search` | extends `VectorIndex` by `search_events` and the cold store it fetches hits from |
| `WindowGlobs` | the two implementations of a source filter |
| `Federation` | `describe_sources` and `get_current_state` over several nodes |
| `Retention` | policies, resolution, the sweep pass call by call, dry-run, the server's loop |
| `MC*` | instances for TLC |
| `PipelineProofs`, `ColdStoreProofs`, `VectorIndexProofs`, `DeliveryProofs`, `FederationProofs`, `MetricsProofs`, `MqttSubscriberProofs`, `RetentionProofs` | theorems about the module of that name (`VectorIndexProofs` also about `Search`) |

### Pipeline

An event is its arrival number, its position in `log`; channels, buffers and
sinks hold arrival numbers. `http[r]`, `sent[r]` and `tried[r]` are a handler's
progress: `HttpAdmit` or `HttpReject` stand for authentication, parsing,
scope, size and rate checks, all of which precede the first enqueue; `HttpSend`
and `HttpBusFull` are one iteration each of the `try_send` loop. A session's
`WsTake`, `WsSend`, `WsBusFull` and `WsAnswer` are the same for a message of
`run_session`, with one difference: after a full bus it still sends the
`accepted` frame for what it had enqueued. `WsRefuse` is any of the checks;
`MsgEnds` cuts a session's payload into messages. `run_session` discards the
result of every `socket.send`: in `Frame` a frame reaches the client or is
lost, nothing written after a lost one arrives, and the session goes on either
way, or closes. `told` and `refused` are what the client got; `heard` is the
end of the last message it has all the frames of. The listener does not wait
for sessions (an upgraded connection has left the HTTP server), the bus does. `MqttPublish`
and `MqttUnrouted` are one iteration of a subscriber's loop. The normalizer's
loop body is cut at each `try_send`: `Receive` (stamp and ring push), `Offer`
once per consumer in the code's order, `Count`. `TaskRecv`, `TaskTick`,
`TaskClose` are the arms of a consumer's `select!`; `FlushOk`, `FlushErr` and
`FlushShort` (the forwarder's hub took fewer than it was sent) end a flush. `Shutdown`,
`ServeReturns` and `ProcessExit` are `server.rs`: the signal, axum's graceful
stop, the return after the normalizer. `BusClosed` says when the last sender
is dropped; a session drops its own when it ends, an MQTT subscriber never.

Left out: what is in a payload, the wording of answers, descriptor lookups
(they do not decide acceptance).

### Delivery

`Enqueue`, `TryEnqueueFull` and `Close` are the producer's calls;
`BatcherRecv`, `BatcherTick`, `BatcherClosed` the arms of the batcher's loop,
which waits for `send_batch` in each flush. `Post`, `OnAnswer`, `Exhausted` and
`NetworkError` are its retry loop; `Verdict` is the match on the status, in the
order of its arms. `max_attempts` is chosen in `Init`, 0 included. A transport
error ends the loop, and its request may be lost, late, in the handler or
answered; a late request is still served. `Arrive` is the handler up to the
limiter (no await lies in it, and only the limiter's cell is shared), `Send`
and `SendFull` an iteration of its loop. `TurnAway` is what may answer in front
of the handler: the framework's body limit, a gateway. `Drain` stores the head
of the bus under the producer's id or a fresh one, or loses it. Waiting times
and compression are left out. The forwarder of an edge instance is this client
with `WithId = Events`.

### ColdTables and ColdStore

A row is `[id, pair, ts, size]`. `DoAppend(batch)` is one transaction of
`append`: the inserts, then the upsert of `latest` from the batch. A scan is a
client's: `OpenWindow(q)` and `ResumeWindow(q)` are `get_window` with and
without a cursor; the cursor carries the anchor and a hash of the request, and
a resume with another request, or with a string that does not decode, is
refused. `limit` is at least 1, as the tool's schema says. The history
variables: `opened` is the request the scan was opened with, `earlier` and
`page` are what it has returned, `due` the rows that matched when it was
opened and have not been deleted since. The sweeps take any cutoff, count or
budget.

### VectorIndex

`append` commits to SQLite and then updates the mirror while it still holds
the connection: two steps, with no other commit or delete between them
(`pending` is not empty). `sweep_max_age` deletes under the
connection, releases it, then prunes the mirror: two steps with appends
between them. `Stop`
may come between any two; `Open` rebuilds the mirror from the table and
refuses a table of another model.

### Search

`SearchTop` is `search_kn`: one step, as it runs under the mirror's read lock;
`InsertTopK` is folded over the matching rows in any order, since nothing
fixes the order of the mirror. `Hydrate` fetches one hit, and between two of
them `ColdAppend` and `ColdSweep` change the cold store. The steps of the index
are those of `VectorIndex`, so the run checks its invariants on this larger
system too. Similarity is a number per event and query.

### Federation

A call is named by its path of nodes from the one that was asked. `server[p]`
is where the handler of call p is, `client[p]` where its caller is: a call has
two ends that can disagree. `ReadRing` or `MissRing` and `ReadCold` are the two
reads of `get_current_state`, with publications, flushes and restarts between
them; `FanOut` starts a call per peer, `Join` waits for all and merges.
`Headers`, `Body`, `Timeout` and `ConnectionFails` are `call_tool`, whose
timeout covers the first only. `Refuse` and `Fail` are the router's answers
without a result. `Cancel` is what the HTTP server does with a handler whose
caller is gone (external). A path of `MaxHops` nodes whose last has peers
waits for them for good: the bound cuts a cycle at a peer that does not answer.

### MqttSubscriber

`Subscribe` is an iteration of the loop in `run()`, waiting for room in the
request channel; `HandlePublish` one message with everything `handle_publish`
does; `PollError` and `Wake` the error arm with its sleep. What an error leaves
of the requests is rumqttc's doing (external, as 0.24 behaves): after a refused
connect they wait on (`ConnectRefused`); when an established connection is lost
the channel is drained, and its requests are cleared once the broker answers
without a session (`ConnectionLost`). `SendRequest` writes a request to the
socket, `BrokerSubscribes` is the broker handling it. `Route` takes the
first filter that matches, as `route` does. `FilterCovers` is the protocol's
rule, by which the broker selects; `Captures` the code's. A template is the
set of its placeholders, a payload what the decoders can tell apart.

### Metrics

A call is cut where it changes locks and between its two atomic writes:
`Begin`, then `Bump` and `Store` under the read lock, or `Miss` and later
`Insert` under the write lock. `Insert` waits for the readers of its map. The
digest loads one counter per step. `after` records which calls were over when
one began, so that a property can speak of overlapping calls.

### WindowGlobs

A filter and a source are asked about twice, of `describe_sources` (globset)
and of `get_window` (`glob_to_like` and SQLite's LIKE). Both matchers are
written from the documentation of the libraries (external).

### Retention

A pass reads the list of pairs of the events table once (`Begin`), then takes
one pair after the other (`NextPair`) and makes one call per dimension
(`SweepMaxAge`, `SweepMaxCount`, `SweepMaxBytes`, `SweepVectors`), all against
the `at` it began with. `Fail` gives a pass up at any call; the loop goes on.
`Store` and `Embed` go on in between, in either order for an event. A dry-run
counts what each statement selects and deletes nothing. The limits of a pair
(`eff`) are resolved once when the pass comes to it.

`Resolve` is the code's merge, tier by tier (`MergeTier`) and within a tier in
the order of the list, which is what its stable sort comes to; `Governing` is the reference
definition, written from the rule in `docs/DESIGN.md` ("source-level policy ->
kind-level policy -> global default, first match wins per dimension") as a
choice over the policies rather than a fold.

## 3. Runs

| Run | Properties | Shows |
|---|---|---|
| `pipeline_fanout` | `TypeOK`, `InOrder`, `Accounting`, `ProducerOrder`, `SeqOrder`, `RingIsNewest`, `StoresAreLossyFifos` | a request and a broker, embedder and forwarder, a moving clock: order, accounting, seq numbers, rings, and the refinement of `LossyFifo` (the cold writer is off here, so TLC tries the embedder's half; the theorem has both) |
| `pipeline_shutdown` | `NormalizerDrains`, `WsAnswered`, `EventuallySettled`, `ShutdownCompletes` | a request, a WebSocket session and the cold writer: frames, got or lost, drain, and an end unless a session stays open |
| `cold_store` | `TypeOK`, `ScanSound`, `ScanComplete`, `LatestIsNewest`, `NoOverwrite` | scans with ties, late rows, duplicates and sweeps between the pages |
| `vector_index` | `TypeOK`, `NoGhosts`, `MissingIsExpired`, `OneRowPerEvent`, `OneModel`, `SearchFaithful` | appends, sweeps, stops, restarts and searches at every point |
| `retention` | `TypeOK`, `Enforced`, `DryRunBounds`, `NothingUndue`, `EventuallyExpired` | four configurations, arrivals and failures during passes, dry-runs before them |
| `delivery` | `TypeOK`, `OkIsComplete`, `StoredOnce`, `TwiceOnlyAfterFull`, `NoOvertaking`, `EventuallyReported` | a batcher, a retry loop of two attempts (and of none), a limiter of one cell, a bus that another producer fills |
| `federation` | `PartialCoverageShows`, `CurrentIsRecent`, `EventuallyAnswered` | three nodes with a cycle, both tools, every kind of failure, a restart |
| `metrics` | `CountsExact`, `DigestSound` | three calls on three counters of two maps, with a reader |
| `mqtt` | `RoutedAsSubscribed`, `EventuallySubscribed` | three overlapping filters, two outages (refused or lost connections), a bus of one place |
| `pipeline_exit`, `retention_vectors`, `window_globs` | one each | violated: see section 6 |

**Bounds.** `BusDepth = 1` makes every queue fill up after one event, so every
full and empty branch is taken with two or three events; the batch sizes of 1
and 2 reach full flushes and flushes by ticker. The ring keeps 2 events with
an age cap of 0 against a clock that ticks once: a ring overflows and ages.
The session sends a message of two events and one of one, so that the bus
fills before, within and after a message, and a frame of either may be lost. In `cold_store` there are three rows
of a pair, two with one timestamp, one late, a row of a second pair and a
duplicate id with another timestamp; pages of 1 and 2 rows; an inverted range.
In `vector_index` one batch holds two versions of an event and two batches
hold the same event; two of the three events are equally similar, top_k is 1
or 2, so that it cuts within a tie, above it, and not at all. In `retention`
three events of two pairs, one embedded, the clock up to 2 with timestamps 0
and 1, so that an event is fresh, at the limit and over it; one failing call;
one dry-run. The configurations set a dimension at two levels, at one level
twice, with a bare and a versioned kind. In `delivery` three events, the last
over the size cap, with a token that covers all, two or is unknown; batches of
one and two, so that a bus of depth 1 fills in the middle of one; one
transport error, one answer of a gateway, one foreign event. In `federation`
a asks b and c, b asks a back, and the path a, b, a is the last that is
followed; b publishes two events, the second with the earlier timestamp, so
that ring and cold store disagree; one restart of any node. In `metrics` three
calls suffice for two that race to insert while a third takes the fast path.
In `mqtt` a topic matches two filters, one filter, and a `#` that stands for
nothing, and one template asks for a capture its filter does not have.

**Deadlock** checking is off where the system really may stop: a stopped
process, or one whose producers, callers or devices are through, has no next
step (`Pipeline`, `Delivery`, `Federation`, `Metrics`, `MqttSubscriber`,
`WindowGlobs`). The other runs check it.

**Fairness.** Pipeline: tokio polls every task that can go on, a consumer's
ticker fires every `batch_age`, and a flush ends because a commit returns and
the forwarder's requests time out; weak fairness of each task follows. No
fairness for clients, brokers or the operator, so a WebSocket client may stop
reading, which holds the session at its next frame, a shed frame included, or
keep its session for ever. Retention: the sweeper's loop
never ends and a pass never waits (`Begin`, `PassStep`), and the writer and the
embedder flush what they hold (`Arrive`); the clock and the failures get none.
Delivery: the client's task and the server's handlers keep going; a lost
request ends with the error of its timeout, in one step with the loss. The
limiter, the drain of the bus and other producers get no fairness.
Federation: handlers run and timers fire (`Progress`); a peer may leave a
request unanswered for good. `BodyArrives` is an assumption the code does not
enforce: that an answer whose headers have come also ends; section 6 says what
follows without it. Mqtt: the task runs, wakes from its sleep, the broker can
be reached again after an outage (outages are bounded), and what is in the
request channel is sent and handled; nothing makes devices publish or the bus drain.

## 4. Proofs

Each theorem holds for every value of the constants under the assumptions
stated beside them: any payloads, depth, batch sizes, set of consumers, batches
of rows, requests, similarities, cutoffs, models, peer graphs, calls,
subscriptions, lists of policies and pairs. The
assumptions say of which sort a constant is and keep names apart (requests,
sessions and brokers; `Federation`'s `Null`, no peer, from the nodes). Two say
more: the calls of `Metrics` and the arrivals of `Retention` are finitely many,
so that they can be counted, of any number; and
`MqttSubscriber`'s filters are ones MQTT allows (a "#" is the last level), which
the code does not check but the client library or the broker does. Without it,
`a/#/b` would be matched by `TopicMatcher` and by no broker.

* `PipelineProofs`, consumers. `TypeCorrect` by `TypeInv`, the types together
  with `SendBound`: a handler that has not answered has something left to send,
  without which the next post would not be one of its payload.
  `FifoInv` adds what the consumers need: the event in hand exists while the
  normalizer is between receive and count, and a task in a flush holds a batch.
  `StepIsConsumerStep` classifies every step of the system by what it does to
  one consumer: offered and kept, offered and dropped, moved from channel to
  batch, flushed whole, flushed in part, lost, or nothing. `ConsumersInOrder`
  and `EventsAccounted` follow by a case per class, and `StoresRefineLossyFifo`
  maps each class to a step or a stutter of `LossyFifo`, for the cold writer
  and for the embedder.
* `PipelineProofs`, producers. Log and bus together are the sequence of posts,
  which a step leaves alone or extends by one. `PostsInv` (nothing is posted
  that was not looked at; a request posts all it looks at) gives
  `ProducersInOrder`. `CountInv` (`sent` counts an origin's posts) is what the
  two theorems that compare numbers need: `SessionsAreAnswered`, with
  `SessionInv`, and `ShutdownDrains`, with `DoneInv` (a normalizer that has returned has no
  sender left, and none comes back) and `ExitInv`. `SessionInv` has three parts
  for a session: what the client was answered refers to the past (`HeardOk`: a
  later post lies behind `heard`, so the counts stay right), a refused message
  is behind the session and was not enqueued to its end (`RefusedOk`), and, while
  no frame is lost, what is not told yet is in the count of the message in hand
  (`LinkOk`), without which the next frame could not close the sum.
* `PipelineProofs`, log and rings. `StampStep`: only `Receive` touches log,
  counters and rings, by one stamped event. `SeqInv` says that `seqOf` is the
  number of a source's arrivals; `SeqNumbersInOrder` adds `InOrder` for the
  consumers. For `RingsAreNewest`, `PushKeeps` describes what `Push` leaves of a
  ring (the last so many entries, all fresh), which needs the ring to be in the
  order of the clock, `RingOrder`.
* `ColdStoreProofs`. `TableInv` is the types and the uniqueness of ids.
  `ScanInv` relates the scan to the table: what was returned lies at or before
  the anchor, what is still owed and stored lies after it, and both belong to
  the window. `AnswerSplits` is the lemma about a page: the first `limit` rows
  after the anchor, with the new anchor between them and the rest. From it
  `ScansSound` (one window, pages in strictly increasing order) and
  `ScansComplete`. `LatestNewest` uses
  `NewestExists`, that a batch has a newest row per pair; `EventsImmutable` is
  the action property.
* `VectorIndexProofs`. `ModelInv` extends `OneModel` to the rows an append
  holds between its two steps and to the running model; `KeyInv` is uniqueness
  in table and mirror; `MirrorInv` says how the two differ at each point of the
  two calls. `SearchFindsNoGhosts` and `SearchMissesOnlyExpired` follow.
  `IndexUnderSearch` shows that `Search` implements `VectorIndex`, so that all
  of this holds of the larger system.
* `VectorIndexProofs`, search. The ranking first, on its own. `HeapSteps` turns
  the fold over the rows into a sequence of heaps; `InsertTop` keeps `Top` (the
  heap holds the best k of the hits seen, each once) from one to the next, for
  which `Worst` must be a position with the lowest score (`WorstHit`). `Ranks`
  shows that the number of better hits numbers the positions without gaps, so
  that `Ranked` loses and repeats nothing (`RankedHits`). `BestOf` sums this up.
  `RowsInv` (the mirror is finite, with known ids) and `KeyInv` then give
  `BestHits` at the moment of `SearchTop`. `SearchInv` carries it through the
  lookups: the hits still to come are the last of those found, the answer is
  the rest in order less what was absent (`HydrationInv`), and a hit that the
  cold store lacks now is among the absent, without which the next lookup
  could leave one out unexplained. `SearchesAreFaithful` is the end of a call.
* `DeliveryProofs`. `TypeInv` has, beside the types, what ties the client's call
  to the last request (`CallInv`) and the handlers to theirs (`HandlerInv`: a
  handler has something left to enqueue, and its request no reply).
  `StoresOnce` needs only that rows differ in ids and own ids are used
  (`StoreInv`). The other three are proved together. `QueueInv`: what waits is
  in the producer's order over batch, buffer and queue. `RequestInv`: two
  requests with an event in common are attempts at one batch, and all but the
  last of them were answered with something to retry after. `LogInv` and
  `AckInv`: where what is on the bus came from, and that a handler has enqueued
  what it is through with. `RequestInv` is the heart: a late handler of a
  request the client gave up on would break all three if that batch were sent
  again.
* `FederationProofs`. A step changes one call: `Turn`, `Drop`, `Hear`, `Start`
  and `Join` are the kinds. `CoverageInv` says of every hop of the call tree
  how far it can have got given its parent: nothing is asked before the fan-out,
  a child that counts as ok has answered and its rows do not change any more.
  `RecencyInv` states `CurrentIsRecent` of every hop and of a hop that has missed
  its ring; `StoreInv` says why a miss is a restart.
* `MetricsProofs`. `CountsExact` counts the calls that are past their increment;
  with the types of calls and maps (`CallsOK`, `MapsOK`) it is inductive: the
  second look under the write lock neither loses nor repeats one. `KnownInv`
  adds that a counter that counts is in its map, where a digest finds it.
  `LastInv` relates the time in an entry to the errors recorded, for which
  `ClockInv` orders overlapping calls. `DigestInv` bounds what a digest has
  loaded, half-way too, by the counts at its begin and now.
* `MqttSubscriberProofs`. `MatchersAgree` proves that `TopicMatcher::captures`
  and the protocol's rule pick the same topics, for any filter and topic.
  `WireInv` keeps that what is on the wire was sent for some filter of the
  configuration, though the session may have forgotten it since.
* `RetentionProofs`, resolution. `TierMerged`: the fold of a tier sets each
  dimension from the first of its policies that sets it. `ResolveGoverns` puts
  the three tiers together and `ResolutionIsMostSpecific` states the result:
  the merge is `Governing`, whatever the list.
* `RetentionProofs`, sweeps. `LimitsInv`: ids are unique and the limits at hand
  between two calls are those that govern the pair. With `SweepMeaning`, which
  says what each statement deletes in terms of the rows newer than a row, it
  gives `RetentionDeletesNothingUndue` (an action property). `EnforceInv` says
  at every point of a real pass which limits the rows of each pair are within:
  all for a pair that is done, those of the statements behind it for the
  current one; a later statement only removes rows, and what arrives meanwhile
  was not there when the pass began. `RetentionEnforcesLimits` follows.
* `RetentionProofs`, dry-run. `ForecastInv` tells the story of a forecast: a dry
  pass is adding it up, it has been told, or a real pass over the same rows at
  the same time has deleted so much of it. `DryRunForetells` needs that a pass
  deletes only rows the dry-run condemned for the same reason, and all of those
  where a pair has a single limit; counts become comparisons of sets.
* Sums (`Bytes`) and folds are functions chosen by a recursive equation:
  `FoldExists` shows that a finite set has one, and what it computes is proved
  by a least counterexample (`NatMin`, from the well-foundedness of `<`), which
  takes the place of induction. `FoldExists`, `FoldValues` and `NatMin` stand in
  each module that needs them.

Only model-checked:

* Liveness (`EventuallySettled`, `ShutdownCompletes`, `EventuallyReported`,
  `EventuallyAnswered`, `EventuallySubscribed`, `EventuallyExpired`): the prover
  has no reasoning about fairness.
* The three properties that their runs refute (section 6) have nothing to prove:
  each counterexample is one state sequence of a small instance.

## 5. Not modelled

* Contents: payloads, embeddings, similarity scores, JSON and SQL text.
* The schema index: a lookup in maps built once at start. Its result sets a
  flag of the event and bumps two counters. That versions are compared as
  strings (v10 before v2) is acknowledged in its comment (`schema.rs:77`).
* Reading configuration and secrets; the MCP methods that answer constants
  (`initialize`, `tools/list`, `ping`); the text of `/metrics`; logging.
* The embedder, cosine similarity and the truncation of texts at a UTF-8
  boundary: computations on contents.
* SQLite itself: a transaction is one step that happens or fails as a whole
  (external). The wall clock is assumed not to run backwards in `RingIsNewest`.
* Process restarts in `Pipeline`: a restart loses rings, channels and batches,
  as `pipeline_exit` shows; what survives one is the subject of `VectorIndex`
  and `Federation`.

## 6. Findings

The three runs with an expected violation:

* `pipeline_exit`: `run()` returns when the normalizer has drained; batches
  and channels of the consumer tasks are lost at every graceful stop.
* `retention_vectors`: vectors of a pair without events are never swept.
* `window_globs`: `glob_to_like` escapes `_` and `%` with a backslash, but the
  LIKE has no ESCAPE clause. A filter such as `living_room.*` selects sources
  in `describe_sources` and none of their events in `get_window`. Where a
  filter has letters and `*` only, the two agree.

Observed while modelling, without a run of their own:

* With an MQTT broker configured, or a WebSocket session that stays open, the
  bus never closes and a graceful stop waits for ever at `server.rs:159`;
  `ShutdownCompletes` is stated for runs without brokers and up to open
  sessions for this reason.
* The "hard per-peer timeout" of `peer.rs:29` covers `send()` only. A peer that
  sends headers and then stalls holds the fan-out, and with it the caller's
  answer; `EventuallyAnswered` holds only with the assumption `BodyArrives`.
* Peers that name each other ask each other back: one question costs a call
  for every path until a timeout cuts it, and a row can come back to the node
  that owns it, under its peer's id.
* Once an established MQTT connection is lost the task has no subscriptions
  left for good: the broker's new session is empty, since rumqttc asks for
  clean sessions by default; rumqttc clears the requests that still waited, and
  one that was written but not handled is gone; and `run()` subscribes once. The
  subscriber then receives nothing although `server.rs:114` counts on the
  auto-reconnect. `EventuallySubscribed` excuses this loss; a refused connect
  costs nothing. With more than 32 subscriptions, `run()` waits for room in a
  channel that nothing empties yet.
* A WebSocket session ignores that a frame could not be sent (`ws.rs:150`, `157`,
  `164`) and goes on with messages it has already received: events may be
  enqueued of which the client is never told. `WsAnswered` therefore speaks of
  what the client got.
* `DESIGN.md:251` speaks of `max_count` and `max_bytes` per source; the code
  applies them to each pair of source and kind, and so does `Retention`.
* Two `[[peer]]` entries with one id pass validation; `Federation`'s peers are
  distinct nodes, so what that does to a merged answer is not modelled.
* `README.md:141` gives a `tcp://` URL for a broker, which `parse_mqtt_url`
  rejects.
* A batch shed on its last attempt is reported as `BadRequest` or
  `ServerError` (`client.rs:130`); `RetriesExhausted` is never returned after
  an attempt, although `error.rs:31` documents it for this case. With
  `max_attempts = 1` a scope denial, too, comes back as `BadRequest`.
* An event sent with a pinned kind (`name@vN`) keeps that kind in ring and
  cold store, while the registry's rows have the bare name:
  `get_current_state` does not show it.
* `get_window`'s LIKE ignores the case of ASCII letters and does not know `?`.
* Between two overlapping errors of a source, the earlier time can be the one
  that stays as the last (`DigestSound` says when).
* A full bus in the middle of a batch answers 429 with the first events
  already enqueued (the "we don't partially-accept" of `http.rs:96` holds for
  the checks before the loop only). The client retries the whole batch, so
  events without a producer's id are stored twice; `TwiceOnlyAfterFull` shows
  that this is the only way to a duplicate.
* `latest` is upserted from ignored duplicates too and is not swept, so it is
  not derivable from the events table (`docs/DECISIONS.md:45`);
  `LatestIsNewest` states what it is: the newest row ever appended.
* Between the two steps of a vector sweep an append can bring an expired row
  whose mirror entry the prune then removes; search misses it until the next
  sweep drops the row. `MissingIsExpired` says exactly how far this goes.
* A dry-run counts a row that is over two limits twice (`DryRunBounds`).
* `vector_max_age <= max_age` is validated per policy; merged limits can
  still let vectors outlive events (`docs/DESIGN.md:254`).
* Validation refuses a policy without a match, so the "global" tier of the
  resolution cannot be configured.
* The comment on `sweep_max_bytes` speaks of newest to oldest; the statement
  drops the oldest, as it should (`NothingUndue`).
* Vectors lost in a failed commit of the embedder are in no counter, which is
  why `Accounting` is about the other two consumers.

## 7. Plan

Modelled: every part of section 1 but the two that section 5 leaves out.
Proved: every safety property and every action property of the passing runs,
and the refinement of `LossyFifo`.

Next, should the code grow:

1. A second sweep dimension for vectors, or policies checked after they are
   merged, would change `Retention` and `ForecastInv`.
2. Process restarts in `Pipeline`, once the server drains its consumers on exit.
3. Liveness, when a prover for fairness is at hand.
