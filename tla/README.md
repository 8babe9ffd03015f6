# TLA+ models of the local LLM gateway

These modules describe the stateful core of the gateway (Go, `src/internal`):
the circuit breakers in front of the inference backends and of the embedding
service, the four kinds of request handler on their worker pool, the loop that
carries out a model's commands, the orchestration of a request through several
calls of the model, the semantic and the retrieval cache, the asynchronous
ingestion of documents with its clean-up job, the two ways conversations are
shortened, and the rate limiter. Each is checked with TLC on small instances,
and every safety invariant TLC checks is also proved with TLAPS, for every
value of the constants; what stays with TLC alone is liveness.

Paths below are relative to `src/internal` unless they start with `src/`.

## 1. The system

### Components, their state and operations

| Component | State it keeps | Operations | What makes it correct |
|---|---|---|---|
| Circuit breaker, `adapter/circuit_breaker.go` | `state`, `failures`, `openUntil`, under a mutex | `Allow`, `RecordSuccess`, `RecordFailure` | one probe at a time, and alone; never stuck in HalfOpen; counter and state agree; the cooldown ends |
| Inference adapters, `adapter/{ollama,llamacpp,bitnet,vllm}.go` | an HTTP client and a breaker | `Generate`, `Stream`, `HealthCheck`; `Stream` starts a goroutine that fills a channel of 32 | tokens in order and complete; the goroutine ends |
| Worker pool, `gateway/workerpool.go` | a channel used as counting semaphore | `Acquire` (never waits), `Release` (would block if it had nothing to give back) | slots taken = handlers at work |
| Chat and Messages handlers, `gateway/chat.go`, `anthropic.go` | per request only | four kinds of handler: in one piece, streamed, agent, agent streamed | every way out releases the slot, once; `[DONE]` only after every token |
| Agent loop, `gateway/agentic_executor.go`, `virtual_tools.go` | per request: turn and nudge counters, the steps so far | model call, tool call, nudge, duplicate check | ends; reports what it did; nudges count consecutive turns |
| Semantic cache, `gateway/semantic_cache.go` | vectors and answers, first in, first out | `Lookup`, `Store` | an answer fits the question it is given to |
| Ingestion, `ingest/{enqueue,worker,dlq}.go` | in Redis: a stream with a consumer group, a dead-letter stream, a status per job, a version per domain | `Enqueue`, `Run`/`processJob`, `sendToDLQ` | an indexed job is complete in both stores; version bumped last; one attempt per entry; no job is kept for ever |
| Reconciler, `ingest/reconciler.go` | a cursor, during a run | `Reconcile` | deletes orphans, nothing else; passes over no point; ends |
| Vector store and SQL store, `memory/{qdrant,pg_store,pg_schema}.go` | points; `documents`, `chunks`, tools | upsert, search, scroll, delete | no row without its point |
| Retriever and retrieval cache, `rag/{retriever,rrf,cache}.go` | cached answers in Redis with a TTL of 60 s, keyed by the domain's version | `Retrieve`, `Get`, `Set` | no stale answers; returns whatever its legs do |
| Session store, `memory/session.go` | a Redis list per session | `SaveMessage`, `LoadHistory`, `DeleteSession` | the cap of 200; nothing lost below it |
| Context manager, `orchestration/context_manager.go` | a lock per session in Redis with a TTL of 2 s | `LoadAndManage` | one compressor while the lock lasts; bounded context; nothing lost; no lock for ever |
| History manager, `memory/history_manager.go` | none | `LoadAndTrim`: summary by the model, then delete and save, without a lock | deletes only what it read |
| Embedding client, `embed/{client,circuit_breaker,lru_cache}.go` | LRU cache with TTL, a breaker of its own | `Embed` | list and map agree and keep the order of use; old results never decide HalfOpen |
| Orchestration, `orchestration/*.go` | per request | plan, execute, verify; code feedback; critique; format | bounded loops; a passing score belongs to the answer returned; failures fall back |
| Tools, `tools/*.go`, MCP server, `mcp/*.go` | a registry with a read-through cache | register, lookup, execute | – |
| Security, `security/*.go` | counters per key and minute in Redis | API key, JWT, rate limit | the limit per minute |
| Observability, `observability/*.go` | counters; a watchdog on memory | record; cancel the request | – |

`PROJECT.json` lists all of them with their files and what is modelled.

### How they interact

* A handler takes a slot of the pool, calls an adapter, which asks its breaker,
  and, for a stream, reads the channel that the adapter's goroutine fills until
  it is closed. The context of the stream ties the two: 25 s, or the consumer
  that leaves.
* A handler that answers in one piece asks the semantic cache first, and
  stores its answer there; with a session it lets the history manager shorten
  that session's list, while other callers append to it or delete it.
* `Enqueue` and the workers share a Redis stream and the status keys; the
  workers write Qdrant and PostgreSQL, which no transaction spans, and bump the
  version that the retrieval cache puts in its keys. The reconciler reads both
  stores and deletes from one of them while workers write.
* Requests on one session share its list and its compression lock, and callers
  append to the list at the same time. `SaveMessage` and the write-back are
  Redis pipelines, not transactions: other commands come in between.
* The stages of the pipeline hand one text on, each with its own calls of the
  model, and each falls back on what there was when a call fails.
* The rate limiter counts in Redis, under a client that gives up after 100 ms.
* Everything that talks to Redis does so through go-redis, which sends a command
  or a pipeline again, up to three times, when its answer is lost: `MaxRetries`
  is left at its default (`src/cmd/wrapper/main.go:33`). What was done once may
  so be done twice, and later than something of another client.

### What is hard about it

Results that arrive after the breaker has tripped; handlers with several ways
out, each of which must give back a slot; a channel with a limit between two
goroutines of which either may leave first; deadlines that race with late
answers; two stores written one after the other; a status written after the job
it belongs to has become visible; workers that crash with a job in hand; a
cursor through a collection that changes; a version read twice; a lock that
expires under its holder; a list that is read, summarised, deleted and written
by whoever comes; a cache under one lock and a breaker under another; loops
whose length the model decides; a process or a named pipe that keeps a caller
waiting beyond its deadline; calls of Qdrant that have none; a reply without
choices, whose first is read all the same; commands that are sent twice; a
count that is taken though its caller has left. `PROJECT.json` lists these as
hazards at their lines, each with the properties that would catch it, or a note
why there is none.

Some code is only reached by tests at this commit: `NewIngestWorker`,
`Reconcile`, `NewHybridRetriever`, `NewPipeline`, `UpsertDocument`,
`RegisterEmbedClient` (without which the semantic cache answers nothing) and
the global resource semaphore are not called from `src/cmd/wrapper/main.go`;
`SaveMessage` is called by the managers only. The modules model what this code
does when it runs.

## 2. The modules

* `CircuitBreaker`, `RateLimiter`, `AgentLoop` → `GatewayProofs`
* `Streaming` → `StreamingProofs`; implements `WorkerPool`
* `ModelCalls` → `PEV`, `CodeFeedback`, `SelfCritique` → `Pipeline` → `PipelineProofs`
* `LRUCache` → `EmbedClient` → `EmbedClientProofs`
* `ChunkStore` → `Ingest` → `Reconciler`, `Retrieval`; `Ingest` implements `JobLifecycle`
* `Ingest` → `IngestProofs`; `IngestProofs`, `Reconciler`, `Retrieval` → `StoreReadersProofs`
* `SessionStore` → `ContextManager` → `ContextProofs`
* `SessionStore`, `SemanticCache` → `Chat` → `ChatProofs`; `Chat` implements `WorkerPool`

An arrow points from a module to those that EXTEND it. Each component has an
`MC` module with its instance and a `.cfg` file. In every module a definition
marked *Slip* is not part of the specification: it is what an easy mistake in
the Go code would make of the definition after it, and is there to see that the
properties notice. A property whose name ends in *Safety*, and `SessionIsKept`,
is the conjunction of its module's type invariant and the named state
invariants listed with it in section 3; `Recovers`, `StreamsEnd`, `Reconciles`
and `NobodyWaits` are conjunctions of liveness properties.

**CircuitBreaker.** `Allow`, `RecordSuccess`, `RecordFailure` hold the mutex, so
each is one step; a call is in flight between them. Time is what is left: of the
25 s context (`budget`) and of the 30 s cooldown (`cooldownLeft` is
`openUntil - now`, and -1 once `now` is *after* it, as Go's test is strict). The
counter is only compared with the threshold and is kept saturated there. Time
and counter so need no bound.

**WorkerPool** promises what handlers get from the pool: at most `PoolSize`
hold a slot, one is refused only while all are taken, a slot is released once.
**Streaming** has the streaming handlers, the goroutine of `doStream` with its
channel, the deadline and the client. `sem` is the length of the pool's channel;
the refinement mapping `PoolView` forgets everything but where a handler stands.
The three streaming adapters differ in their wire format only and share the
actions; vLLM's `Stream`, which generates the whole answer first and sends it as
one response, is the set `Whole`.

**Chat** is `chatComplete` with what it calls: pool, **SemanticCache**,
`LoadAndTrim` and the model, for requests of which some name one session. Each
call to Redis or the model is a step and may fail, before or after its effect;
others save messages and delete the session. Similarity of questions is a
relation, reflexive and symmetric, not transitive. A list entry is the set of
messages it tells the model about, and a summary of `LoadAndTrim` tells about
none: its prompt does not contain the history (see below). `unread`, `raced`,
`stored` and `seen` are history.

**AgentLoop** is one request with tools, from the slot to the slot. A reply of
the model is known by what the loop looks for in it, a command by the kinds of
its lines and by how it ends: in time, killed at 30 s, never started because the
five minutes are over, or with a child that keeps the pipe. A file may be a
named pipe, whose other end somebody opens or not. Both leave the loop `held`. A
reply without choices, which vLLM's adapter passes on (`adapter/vllm.go:157`),
is a panic that nothing recovers: `panicked`. `said` and `calls`, the replies
and the calls among them, are history.

**ModelCalls** is a request and the calls of the model it makes; the stages of
the pipeline work on it: **PEV** plans, executes and verifies, **CodeFeedback**
runs the code in the answer and asks for fixes, **SelfCritique** scores and
improves, **Pipeline** chooses the way by intent, falls back, and formats. A
text is the number of the call that made it and what the stages look for in it:
code, JSON, and whether there is anything in it at all, as the content of a
reply may be the empty string. A reply without choices ends in `panicked` here
too, and python3 may leave a child that holds the loop after it was killed.

**LRUCache** has list and map of the cache apart, as the code does (`Place` is
where the map points to in the list), and **EmbedClient** the callers between
cache, breaker and service. Age is counted per entry, time as in
`CircuitBreaker`.

**RateLimiter** counts requests of one API key into keys per minute, with a
driver that repeats commands and commands that run after their caller has left.

**ChunkStore** has the two stores: the points of Qdrant and the rows of
`chunks` with the constraints of its schema. A chunk is named by document and
position; its content by its hash only. The code draws a new UUID for the point
of a chunk in every attempt, and an attempt is of one entry of the stream, so a
point is named by entry and position. **Ingest** is the pipeline; each call
to Redis, the embedding service, Qdrant or PostgreSQL is one step, and a call
that fails may have had its effect. A command of Redis may be sent `Again` after
it had its effect: a document then has several entries, which may be attempted at
once, and its version goes up by more than one. A call of Qdrant or PostgreSQL,
which have no deadline, may leave its worker `hung`. A worker crashes between any
two steps. `resends`, `rowAt` and `bumpAt` are history. **JobLifecycle** is what
becomes of a job, an entry of the stream: it waits, is attempted once at most,
ends acknowledged or abandoned for good.
**Reconciler** adds the job that pages through the collections, and
**Retrieval** the reader that searches both stores and caches what it finds.
Answers are the sets of chunks each leg found: ranking, re-ranking and the cut
to five decide nothing these properties ask. Both keep the variables of
`Ingest` and add their own.

**SessionStore** is the list of one session, **ContextManager** the requests
that load it. A list entry is what it tells the model about and its size in
tokens, so a summary covers many messages. The two commands of the write-back
are two steps, as RPUSH and LTRIM of `SaveMessage` are, and both pipelines may be
sent again: a message is pushed up to `SendsOf` times, `untrimmed` counts the
RPUSHes whose LTRIM is to come. The lock expires whenever it likes, as its 2 s
are less than the 25 s of the call it covers. `strays` counts how often it went
while somebody worked under it, `calm` says that nothing has interfered so far;
both are history.

## 3. The runs

| Run | Instance | Properties, and what they are made of | Result |
|---|---|---|---|
| `breaker` | 4 calls, threshold 3, deadline and cooldown 2 ticks | `BreakerSafety` (HalfOpen has its probe, counter and state agree, old calls end first), `ProbeRunsAlone`; `Recovers` (probe resolves, cooldown ends) | holds, 7,951 states |
| `streaming` | a token stream, a vLLM stream, a plain request; 2 slots; channel of 1, up to 3 tokens | `StreamSafety` (slots, `[DONE]`), `InOrder`, `ImplementsPool`; `StreamsEnd` (slots come back, goroutines end) | holds, 25,949 |
| `chat` | 3 requests, 2 slots, 2 of them on a session of 2 messages; cache of 2; one failure, one DELETE | `ChatSafety` (slots, the cache is the newest answers, they fit), `AnsweredTwiceOnlyAtOnce`, `DeletesWhatItRead`, `ImplementsPool`; `RequestsReturn` | holds, 289,521 |
| `agent` | 4 turns, 6 inputs, every fate of a command | `AgentSafety` (each way of ending has its reason), `ReportIsTheWork`; `Returns`, unless a pipe holds the loop or the process panics | holds, 289,141 |
| `orchestration` | one request of each intent, the code's limits, plans of 1 or 2 steps, any call may fail | `PipelineSafety` (every way tried, broken code replaced, rounds are scores, format errors marked), `WorkIsBounded`, `PassingScoreIsTheAnswers`, `OnlyAFixLosesTheText`; `Answered`, unless a child keeps the pipe or the process panics | holds, 285,365 |
| `embed` | 3 callers, 3 texts, cache of 2, TTL of a tick | `CacheSafety` (list and map agree, ordered by use), `BreakerSafety` (counter and state, only probes decide HalfOpen); `Recovers` (HalfOpen and cooldown end) | holds, 506,052 |
| `rate_limit` | 3 requests, limit 2, two minutes | `RateSafety` (the limit within a minute, a refusal has its cause); `CountsEnd` | holds, 113,825 |
| `ingest` | one document of 2 chunks, 2 workers, all faults, hung calls, crashes, 2 commands sent again | `IngestSafety` (version bumped last, no row without point), `IndexedIsComplete`, `IndexedLostOnlyToLatecomers`, `ImplementsLifecycle`; `JobsEnd`, unless a call of a store hangs | holds, 212,100 |
| `reconciler` | 2 collections, one of them empty, 3 chunks in the other, page of 2, a worker that crashes, one aborted run | `ReconcilerSafety` (rows had points), `RunSkipsNothing`; `Reconciles` (runs end, orphans are cleaned) | holds, 245,370 |
| `reconciler_doc` | no faults | `LiveChunksSpared`: points with a row are spared | **violated** |
| `retrieval` | 2 documents, a worker, a reader, one lapse | `RetrievalSafety` (an unraced entry is current); `StalenessEnds` | holds, 528,093 |
| `context` | 2 requests, 2 messages, one of them sent twice, cap 2, threshold 3, target 2, all faults, one stray lock, one write-back sent again | `ContextSafety` (bounded), `OneCompressor` (one, and one more for each time the lock went too early), `SessionIsKept` (cap, nothing lost before a fault); `NobodyWaits` (requests return, the lock goes) | holds, 291,772 |

`OneAttempt` of `Ingest` is part of what `JobLifecycle` promises and is checked
as such; its own statement is proved (section 4).

### Bounds, and why they are enough

* *breaker*: the hazards are about calls left over from before the trip. Three
  failures trip it, so four calls are the fewest with one left over while it
  trips; deadline = cooldown is the boundary case of the assumption.
* *streaming*: streams meet only in the pool, which three requests on two slots
  fill. A channel of one place and three tokens has every combination of empty,
  full, token in hand and token being sent.
* *chat*: three requests on two slots fill the pool. Their questions form a
  chain of neighbours whose ends are not similar, the fewest that tell a
  similarity from an equivalence; a cache of two must evict. Two requests on
  the session can race in every step of `LoadAndTrim`; two messages exceed the
  budget together only, and a summary may exceed it alone. `MaxFaults` and
  `MaxDeletes` bound failing calls and deletions to one each. Messages are sent
  once here; those sent twice are in *context*, and in the theorems.
* *agent*: four turns are a nudge, two commands and what ends the loop, and the
  limit itself; six inputs cover commands with work, with DONE, with both and with
  neither, a DONE where the loop does not look for one, and two texts with the
  same lines.
* *orchestration*: the limits are those of the code (2 retries of a plan, 3
  rounds of feedback, 3 of critique). The length of a plan is the model's and
  has no limit; `MaxSteps` bounds it to two, the fewest with a step that has a
  predecessor. Scores lie below, at and above the threshold.
* *embed*: three callers are the two whose failures trip the breaker and the
  one left over; a third text makes a cache of two evict; a call lasts one
  tick, a cooldown two, as 25 s is less than 30 s.
* *rate_limit*: three requests are one more than the limit. `MaxNow` ends time
  after two minutes and the keys' time to live, so that a minute can fill, be
  reached late from the one before, and be forgotten; `MaxTries` is two, the
  fewest with a repetition.
* *ingest*: two workers are the fewest that can meet in the stores, and of which
  one can hang while the other goes on. The document has two chunks, the fewest
  with a state between writes. `MaxResends` bounds the commands that are sent
  again to two, in all; the code allows three for each. Two are enough for an
  entry to be doubled and something in one of its attempts too, for three
  entries of the document, and for both workers to be at it at once; a later
  attempt meets ON CONFLICT in every row, as another document with the same
  content would. The theorems have any number of documents and resends.
* *reconciler*: three points on pages of two, written in another order than
  they are paged in, so that points appear before and behind the cursor, and the
  point that begins a page can be deleted with its page or stay. The second
  collection is empty: from it the run goes on, or it ends there. `MayFail` and
  `MayHang` are off to keep the graph within minutes, so `MaxAborts` bounds the
  runs of the reconciler that end with an error to one; crashes of the worker are
  not bounded. Its second document has no row in `documents`, so its row is
  refused and its point becomes an orphan that no crash made.
* *retrieval*: one reader takes part in many rounds, each with a new race; two
  documents give two versions. `MaxLapses` bounds failures of legs and of Redis
  to one; with it a leg, a read or a write of the cache can each be the one.
  Nothing is sent again here; the theorem has resends too.
* *context*: two requests are a winner and a loser, and either can come round
  again as the other's successor. Messages of sizes 1 and 2, of which the long one
  is sent twice, reach the threshold with two, and with the cap of two the third
  entry is cut off. A summary is smaller than the target or as long as the
  threshold. `NothingLost` is claimed only as long as `calm` is TRUE, so that one
  run shows what holds with faults and the completeness without. One stray is
  enough for both requests to compress at once; that a third does not is the
  theorem's.
* Deadlock checking is off where the system may stop: requests, documents and
  messages are finite in number, and a run ends when they are used up.

### Fairness

* Handlers, readers and requests go on: they are goroutines, and every call
  they wait for has a timeout (25 s for backends, 300 ms for a leg, Redis's own);
  what has none is named below. A flush of a stream ends or fails. That excludes
  a client that stays connected and reads nothing: the server sets no write
  timeout (`gateway/server.go:61`), and such a client keeps its slot.
* `Deadline`, `Tick` and the expiries are time: timers fire. Redis expires keys.
* The backend owes nothing: it may never send another token. Only reads whose
  context is done end (`WF_vars(ReadFails(r) /\ ~live[r])`). The same holds of the
  embedding service: calls end because the HTTP client times out.
* A worker goes on as long as its calls come back. Those of Redis and of the
  embedding service have timeouts; those of Qdrant and PostgreSQL have none
  (`memory/qdrant.go:46`; `Run` hands its context, which has no deadline, to both),
  and a worker that waits for one is `hung`, a state only a crash ends. `JobsEnd`
  therefore claims that an entry is handed out and not kept for ever, or that a
  call of its own worker, or one of every worker, hangs from some moment on.
* The CronJob starts another run of the reconciler. A run that waits for a call
  for ever is one that `AbortRun` has ended: the CronJob's concurrency policy is
  the default, which starts the next one beside it.
* Clients post, crash, disconnect or retry as they like: no fairness. An enqueuer
  that has added its entry goes on to write the status.
* In the pipeline and the agent loop every step is of the one request. What it
  waits for has a timeout, with two exceptions, which are states of their own and
  get no fairness: the pipe of a process that a command or a snippet left behind,
  and a file that is a named pipe. `Returns` and `Answered` name them, and the
  panic of a reply without choices, as the ways in which a request does not end
  as it should.
* The rate limiter's caller gives up after 100 ms and keys expire. Redis owes
  nothing: a count may come late or never.

### Where code and documents disagree

`reconciler_doc` shows the most serious one: the INSERT of `UpsertChunk` leaves
out `qdrant_point_id` (`memory/pg_store.go:113`), so every point looks like an
orphan and the reconciler deletes the vectors of live chunks.

Others were met while modelling and follow from the same modules, or from a
glance at the code; no run is spent on them.

Breakers, handlers and streams:

* A call admitted before the trip that succeeds after it closes an open breaker
  at once (`adapter/circuit_breaker.go:75`), while the comment at line 20 knows
  only Open to HalfOpen. The embedding client's does the same;
  `embed/circuit_breaker.go:69` says one probe, and line 82 admits every caller.
* The goroutine of `doStream` sends with a plain `ch <-`
  (`adapter/ollama.go:197`). When the client leaves and the channel is full, it
  blocks for ever; `adapter/backend.go:55` says the channel is closed when the
  context is cancelled. `ProducersEnd` makes this its only exception.
* A stream that the deadline cuts ends with `[DONE]` (`gateway/chat.go:168`);
  US-2 asks for an error event. `DoneMeansDelivered` says what `[DONE]` does
  mean: what the backend made was delivered.
* With vLLM a stream has no text: its response has a `Message` and the stream
  writes a `Delta` (`gateway/chat.go:205`). `DoneMeansDelivered` leaves the set
  `Whole` out for this reason.
* A process that a command leaves in the background keeps its pipe, and
  `cmd.Run` waits for it in spite of both limits
  (`gateway/agentic_executor.go:318`); a named pipe does the same to `read_file`
  and `write_file` (lines 390, 369). `gateway/anthropic.go:241` says five minutes
  in all. `Returns` names these as its exceptions.
* A command that was never started is reported as "(no output)"; a shell `done`
  on a line of its own is taken for the end; a command beside DONE in prose is
  not executed.
* The semantic cache evicts first in, first out; its comment says LRU
  (`gateway/semantic_cache.go:13`). It looks at the last user message only, so
  an answer can be served to another conversation. A 200 of the embedding
  service without a vector is cached as an empty one.

Conversations:

* The lock of the context manager is said to serialise compression and to be held
  until the write-back (`orchestration/context_manager.go:22`, `:74`, US-6). It
  lives for 2 s and the model may take 25 s (line 18), so it expires under its
  holder and two compress at once; the DEL of the first then frees the lock of the
  second (line 81). `OneCompressor` is what does hold: one, and one more for each
  lapse.
* `LoadAndTrim` asks for a summary with a prompt that has no history in it
  (`memory/history_manager.go:52`), and replaces the session by the answer; the
  document has it summarise the oldest messages.
* `SaveMessage` calls its pipeline atomic (`memory/session.go:21`). It is not a
  transaction, and when it is sent again its message is listed twice, or comes
  back after the DELETE that removed it.
* A message saved during a compression of the context manager is deleted by its
  write-back, a history loaded between DEL and RPUSH is empty
  (`orchestration/context_manager.go:159`), and a summary is accepted whatever its
  length (line 134). A request whose SET NX is sent again waits for its own lock.

Orchestration:

* A fix that fails returns the empty text (`orchestration/code_feedback.go:102`)
  and the answer there was is lost; a fix without code is returned though the
  comment at line 88 says it is not.
* The last improvement is returned unscored, with the best score of another
  text (`orchestration/self_critique.go:123`); a critique may replace JSON by
  text without a format error; `PEVApplied` is set when only the direct call
  answered; the code feedback runs only when the planning failed.
* The length of a plan has no limit, and `resp.Choices[0]` is taken without a
  look at the length (`orchestration/pev.go:72` and thirteen other places); a reply
  that is empty becomes the answer.
* A snippet that leaves a process behind holds `CombinedOutput` beyond the ten
  seconds it is given (`orchestration/code_feedback.go:214`).

Ingestion and retrieval:

* Workers ask for new entries only (`ingest/worker.go:191`), so the job of a
  crashed one stays pending; US-15 has the group reprocess it. Nothing reads the
  dead-letter stream either (`ingest/dlq.go:27` says it is for a later retry).
  `ImplementsLifecycle` is what does hold: such a job is abandoned.
* `Enqueue` writes `pending` after its XADD (`ingest/enqueue.go:44`), and can
  overwrite a worker's `indexed`. An XADD that is sent again adds a second entry,
  and its attempt sets `processing` after `indexed`, finds its rows there, writes
  the points once more and bumps the version again. These two are the exceptions
  of `IndexedLostOnlyToLatecomers`.
* `Set` reads the version again (`rag/cache.go:64`), so an answer found before
  an ingestion is stored under the version it made; US-22 calls that impossible.
  `StalenessEnds` shows that it is gone 60 s later.
* `POST /v1/documents` inserts no row in `documents`, so the foreign key refuses
  the chunks (`gateway/documents.go:34`); what `web_search` learns has a domain
  Qdrant's client refuses (`tools/web_search.go:80`).
* An orphaned point is found by the vector search until the reconciler comes
  (`rag/retriever.go:109`); the architecture calls it unreachable.

Limits:

* The limit of a minute is one of a fixed window: twice as many requests can
  pass around its end, and one that read the clock before it and ran its script
  after the key had gone comes on top; a repeated command counts twice
  (`security/ratelimit.go:59`).

## 4. What is proved

Eight modules, for every value of the constants under the assumptions their
modules name. TLC checks the same properties on the instances above, and has
checked the inductive invariants there before they were proved.

**GatewayProofs** is about the three parts that stand alone. *The breaker*, for
any set of callers, any threshold and any cooldown no shorter than the deadline
of a call (`TimeAssumption`; 30 s and 25 s in the code). `ProbeRunsAlone` is
not inductive: nothing in it keeps a call from surviving the cooldown. The
inductive invariant adds what does, `OldCallsEndBeforeCooldown` (in Open, what
a call has left is at most what the cooldown has left), and, for the counter,
`ClosedBelowThreshold`. The slip `AllowProbeAtTheInstant` shows how little it
takes: one tick less of cooldown, and an old call meets the probe.
`ProbeIsAlone` and `BreakerIsSafe`, with `TypeCorrect`, `NoWedge`,
`CounterAgrees` and `OldCallsEnd` for its parts, follow from
`BreakerInvariance`.

*The rate limiter*, for any finite set of requests, any limit, window and number
of tries. `AtMostLimit` speaks of requests and the code counts in a key, so
`RateInv` ties the two: a key is created in its minute or later and lives a
`Window`, so it outlives its minute (`KeyLasts`); until the minute is over,
whoever was let through in it is counted in the key; and nobody is let through
with a count above the limit. For the refusals, every count in a key is of a
request that heard of it or of a run nobody heard of. The slip
`IncrementBriefly`, a key that is gone one tick early, breaks the first part.
`MinuteType` does the arithmetic of whole minutes; `RateIsSafe` follows.

*The agent loop*, for any inputs the model may give and any `MaxAgentSteps`.
The properties look back over the conversation, the code only at a few
counters; `AgentInv` says what these are of it: `nudges` is the number of
replies at the end that call for nothing (`NudgeInv`), `lastCmd` is the last
call, nudges or not (`CallInv`), and while the model is asked every call so far
is a step (`StepInv`). A DONE that was not believed stands before any call,
because there were no steps and so no calls (`DoneInv`); a command that was not
started means that the context is done, so nothing is heard after it
(`NeverInv`). The cases of a turn (`FinishKeeps`, `AnswerKeeps`, `RepeatKeeps`,
`CallKeeps`) and of the end of a command (`StepKeeps`) keep it, also when a pipe
holds the loop; `AgentIsSafe` and `StepsAreReported` follow.

**EmbedClientProofs**, the same for the breaker that admits everyone in
HalfOpen, with `CallTimeout < OpenDuration` (`EmbedAssumption`): a late failure
there starts the cooldown anew, so the invariant bounds the age of every call
that is no probe by the age of the opening. `ClosedCounts`, `ProbesDecide` and
`BreakerIsSafe` follow. The cache, for any texts, capacity and TTL: its list
has one entry per text (`OnePerKey`), those of the map (`Keys`), in the order
of their use (`ByUse`). Every operation takes one entry out or puts one in
front (`TakingOut`, `PuttingInFront`), and both keep the three; `Put` needs
them to know that replacing and evicting keep the list within its capacity.
`CacheIsSafe` holds though two calls may embed and store one text at the same
time.

**StreamingProofs**, for any finite set of requests (`PoolAssumption`), any pool
size, channel, backend and client. `StepKinds` reduces the fifteen actions to
four things a step can do to the pool. The inductive invariant `PoolInv` says
that `sem` counts the handlers at work: with the bounds on `sem` alone, a
`Release` could find nothing to give back. From it follow `SlotsAccounted` and
`PoolImplemented`, that `Streaming` implements `WorkerPool`; the refinement
needs the invariant, since `Acquire` tests `sem` and the abstract one the
holders. `StreamInv` is about one stream at a time (`Elsewhere`: a step touches
nothing of the others): what was flushed, is in hand, in the channel and being
sent is what the backend made; a handler has a token in hand only while it
flushes; a stream that is not opened has no goroutine; one that is done stays
as it was. `TokensInOrder` and `StreamsAreSafe` follow, the latter from
`TypeCorrect`, `SlotsAccounted` and `DoneIsComplete`.

**ChatProofs**, in the same way, for the slots of `chatComplete` and its
refinement of `WorkerPool`, and for the semantic cache with any symmetric
similarity: the cache is the end of the sequence of all answers stored
(`NewestKept`), so what is served fits the question (`AnswersFit`), and a
similar question is answered again only if the first answer was not there when
it was looked for (`AnsweredOnce`). `ChatIsSafe` has the state invariants in
one. Of the session, `OnlyReadIsDeleted` rests on `ReadBeforeDel`: whoever is
about to delete has read all that the list tells, unless it was raced.

**ContextProofs**, for any requests, messages, sizes and limits.
`OneCompressor` is not inductive: a request that is about to unlock would free
the lock of a second one. `LockInv` counts, then: those at work under the lock,
those about to free it among them, and one more if the lock is free, are at most
one and one for each time it went too early. An expiry and a DEL sent again raise
both sides; an Unlock trades a worker for a free lock. `CompressesAlone` follows
and assumes nothing of how long the lock lives; while all is calm it means one
alone (`CalmAlone`), which is what `NothingIsLost` needs.
For the latter, a request that compresses has read all that was saved, and
one about to write back tells all of it. `CapHolds` needs that what is written
back is one summary; `ConversationIsKept` is the two together. `ContextIsSafe`
is about what a request goes on with, on every way out of `LoadAndManage`:
`BoundInv` says that a request knows how it came by its history, and that what
is not summarised is below the threshold or truncated to the target. The size
of a history is a fold, of which the provers see no more than that nothing
weighs nothing (`TokensOfNothing`): it is enough for `TruncationFits`, that
truncation always finds a longest end within the target, since it compares sums
and never splits one.

**IngestProofs**, for any documents, workers and chunks, with all faults, resends,
hung calls and crashes. `QueueInv` says where each entry of the stream is, of
which a document may have several: no two are the same, a delivered one has one
worker at most, and a worker holds only what is pending. `AttemptedOnce`, which
is about entries, and `LifecycleImplemented`, the refinement of `JobLifecycle`,
follow. `StoreInv` relates the phase and the position of a worker to what both
stores, version and status hold: below its position both writes of every chunk
are done and a row is written after its point. Several attempts at a document may
overlap, and one that comes late writes points again and bumps again; but it
writes no row, as all content is there when the first INCR comes
(`BumpsComeLast`). From it `DocumentsComplete` and, of `TypeCorrect`,
`VersionComesLast` and `PointsComeFirst`, `IngestIsSafe`. `IndexedStays` adds
that a bumped document has an entry past its last row (`BumpedInv`): who is still
before it has another entry, so the XADD was sent again. It assumes
`MaxRetries > 1`: with one try, a final SET whose answer is lost would turn
`indexed` into `failed`; the code has three.

**StoreReadersProofs** has the two that meet the workers in the stores, without
a lock; it rests on `IngestProofs`. The reconciler breaks what `StoreInv` says
of points and rows, so `RecInv` keeps only what still holds beside it: an attempt
writes its chunks in turn and each once (`WrittenInv`), counting those that were
purged, and a row had its point; `ReconcilerIsSafe`. Of a run, `CursorInv` says
what it owes to the points there were when it began: each is deleted, or has a
row, or lies ahead (`Ahead`), on a page or in a domain still to come.
`RunsSkipNothing` follows, for any order of the points: what workers add behind
the cursor is not among them, and the point a page begins with may be deleted, as
the offset is only compared with those that are left. For retrieval `StoreInv`
holds throughout. The version of a domain is at most the number of its attempts
that are past their INCR and of the INCRs sent again, so it is bounded; each
INCR makes a new one, and a leg that ran at version v saw all that was ingested
by v. An answer stored under the version its legs read covers it:
`UnracedAnswersCurrent`, `RetrievalIsSafe`.

**PipelineProofs**, for any requests and any limits. `PipelineInv` has a part
for each question: which way a request can be on in a phase (`WayInv`), how
many calls that phase can have cost (`WorkInv`), which failures lie behind it
(`FailureInv`), whose text is carried (`TextInv`), whose score (`ScoreInv`)
and what is known of its format (`FormatInv`). `TextInv` says where a text can
come from: a call, whose reply may itself be empty, or, once code was seen to
break and the call for a fix failed, from nowhere. The stages are taken module by
module (`StagesKeep`, `PEVKeeps`, `FeedbackKeeps`, `CritiqueKeeps`).
`OutcomeIsSafe`, `CallsAreBounded`, `ScoresAreGiven` and `TextIsLostByFixes`
follow.

### Only model-checked

* Every liveness property (`Recovers`, `StreamsEnd`, `RequestsReturn`, `Returns`,
  `Answered`, `CountsEnd`, `JobsEnd`, `Reconciles`, `StalenessEnds`, `NobodyWaits`):
  the prover has no ENABLED, so no fairness.
* Anything that would need to know what a sum is. `HardTruncate` is proved to fit
  the target; that the summary of a write-back is short enough is not claimed, as
  the code does not look at its length.
* `LiveChunksSpared`, which the code violates.

## 5. Not modelled

* Formats, prompts, ranking and scores; health checks, metrics, traces and
  configuration: conversions without state.
* Tool registry and dispatcher: a map behind a mutex, filled at the start and
  by one endpoint. Its cache is never refreshed and neither `Get` nor `Execute`
  looks at `enabled`, but no code disables a tool either, so there is nothing
  for a model to interleave. The sandbox, plugins and web pages are other
  processes and I/O.
* The resource semaphore, which nothing but its tests constructs, and the
  watchdog, which samples memory and calls back.
* The 24 h expiry of sessions. Redis, Qdrant and PostgreSQL beyond what their
  clients use. The MCP endpoints, ONNX, scripts, the demo and the deployment.

Within reach and not done: the refinement of the retrieval cache to a map from
versions to answers; that the steps an agent loop reports are at most
`MaxAgentSteps`; the breaker composed with the streams whose headers it counts
as successes (`adapter/ollama.go:71`).
