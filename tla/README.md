# A TLA+ model of the Context Broker

The Context Broker stores conversations in PostgreSQL, keeps for each of them
*context windows* in which old messages are progressively summarised, and hands
the resulting context to language-model agents over HTTP and MCP.  This
directory holds TLA+ modules that model its concurrent core, the
configurations that check them with TLC, and proofs checked by TLAPS.
`AE/` below stands for `src/packages/context-broker-ae/src/context_broker_ae/`
and `TE/` for `src/packages/context-broker-te/src/context_broker_te/`.

## 1. The system

One Python process runs a FastAPI application and, in the same event loop,
four background workers; the log shipper and the alerter are processes of their
own.  Everything durable is in PostgreSQL, but for Mem0's memories, two
configuration files and the Imperator's state file.  The workers poll the
database, so an idle worker and a crashed one look alike to the rest of the
system.  Atomicity is that of asyncio: between two awaits nothing else of the
process runs, across an await anything may.

| Component | State it keeps | Operations | What makes it correct |
|---|---|---|---|
| Message store (`AE/message_pipeline.py`) | `conversation_messages`, counters in `conversations` | `store_message`; the prompt store of `get_context` | numbers without collision, counters equal to rows, duplicates collapsed, nothing lost or altered |
| Conversation operations (`AE/conversation_ops_flow.py`) | `conversations`, `context_windows` | create, find or create a window, delete, rename, list, history | a deletion is atomic, a recovered conversation starts empty |
| Standard-tiered assembly (`AE/build_types/standard_tiered.py`) | `conversation_summaries`, `last_assembled_at`, an advisory lock | one run of a twelve-node graph | each message is summarised once and in order, none is passed over, a stale window catches up |
| Retrieval (same file, `passthrough.py`, `knowledge_enriched.py`) | reads only | one run of a graph per build type | nothing twice, inside the budget |
| Assembly worker (`src/app/workers/db_worker.py`) | none | polls for stale windows, runs the graph | what failed is tried again |
| Embedding worker (same file) | `embedding`, a failure counter | polls for rows without a vector | every message leaves the queue; a give-up only at the limit |
| Embedding migration (`TE/tools/admin.py`) | configuration file, `embedding`, column type | `migrate_embeddings` | afterwards all vectors are by the new model |
| MCP sessions (`src/app/routes/mcp.py`) | session table, one queue per session, a total | open a stream, post a call, evict | what is acknowledged is delivered, memory is bounded |
| Startup (`src/app/main.py`) | pool, flags in `app.state`, worker task, retry task | lifespan handler, `_postgres_retry_loop` | degraded mode ends when PostgreSQL comes back, on a current schema |
| Log shipper (`src/log_shipper/shipper.py`) | task map, queue, `system_logs` | scan, events, one tail per container, batch writer | each container is tailed, each line is stored or counted as dropped |
| Configuration (`src/app/config.py`) | files, mtime caches, client caches | load, invalidate, get a client | what was written is seen |
| Mem0 singletons (`AE/memory/mem0_client.py`, `quality_wrapper.py`) | client and its hash, wrapper, two asyncio locks | get, reset | the client is of the configuration that asks, the locks come back |
| Facts (`AE/cea_extraction_flow.py`, `AE/memory/quality_wrapper.py`) | Mem0's memories, `cea_quality_metadata`, feedback events | extract, add, search, expire | the two stores agree, what expired goes |
| Imperator (`src/app/imperator/`, `TE/imperator_flow.py`) | state file, conversation id in memory | initialize, get the conversation, a chat turn | one conversation, named alike in file and memory; questions and answers once and in order |
| Alerter (`src/alerter/alerter.py`, `TE/tools/alerting.py`) | ids seen, instructions, history | webhook, instruction lookup, delivery, edits | one delivery per channel, a true history |
| Registries (`src/app/stategraph_registry.py`, `src/app/flows/build_type_registry.py`) | builder and graph caches | scan, compile, clear | a reloaded package takes effect |
| Search, memory admin, tools, health, metrics, UI, gateway | none | single queries and calls | not a question of interleavings |

How they meet: `get_context` creates a window and assembles it inline, in
competition with the assembly worker; it stores the prompt in competition with
`store_message`; it reads the window while either assembles.  An assembly that
compacts extracts facts, in competition with `knowledge_add`, the extraction
worker's cleanup and searches.  All of them meet `delete_conversation`.  The
embedding worker meets `migrate_embeddings` in the rows, in the configuration
and in the column type; operations meet it in the Mem0 singletons it resets.  A
turn of the Imperator goes through `get_context` and `store_message`.  The
retry task of the startup meets the rest of the startup handler, and in the
state manager of the Imperator also the turns.

Hard behaviours, each listed at its line under `hazards` in `PROJECT.json`:
session-level advisory locks taken through a connection pool; runs of many
awaits that carry earlier reads along; transactions against each other at READ
COMMITTED; two stores without a common transaction; nested asyncio locks that a
reset ignores; failures of a language model between database steps; counters
that several kinds of failure share; state in memory that a restart forgets.

## 2. Modules

`MC*.tla` modules only give operator values to constants (sets of processes,
token sizes); the `.cfg` files give the rest.  A definition whose comment
starts with *Mutant* is never used by a specification: it is a plausible wrong
version of the definition that follows it, kept to show that the properties
notice the difference.

**TierScaling** is the arithmetic of `tier_scaling.py` and of the adaptive
limits, with percentages as whole numbers: the utilization is applied twice to
the ceiling, as in the code.

**Assembly** (extends TierScaling) models one window.  `msgs` is the sequence
of token counts of the stored messages, `summaries` the keys of the summary
rows, `active` those with `is_active`, `lastAssembled` the number of messages
at `last_assembled_at`, `lock` the holder of the advisory lock, `pc` and `run`
the node and the flow state of each assembler.  Each node of
`build_standard_tiered_assembly` is an action or, where it awaits several
times, several (`CountTier2`/`PlanChunks`, `SummarizeChunks`/`InsertChunk`,
`SnapshotTier2`/`Consolidate`/`Archive`).  `CheckInConnection` is the reset of
a pooled connection (`pg_advisory_unlock_all`) that asyncpg runs before
`pool.fetchval` returns.  `Escape` is an exception that no node catches:
certain where the database refuses a row (`Refused`), possible anywhere with
`MayEscape`.  Time stamps become positions in the message sequence, which is
what the staleness query compares.

**Retrieval** (extends Assembly) adds a reader on a window of any of the three
build types (`build`).  The tiered ones try the lock, then read the active
summaries, the chunk boundary and the messages in three actions, with the walk
from the newest message back; the knowledge-enriched one charges the caller's
domain context against the budget and may have the whole distilled; the
passthrough one reads the newest messages, and its assembly (`Pt...`) only takes
the lock and marks the time.

**MessageLog** is the abstract specification of a conversation's messages: a
log that grows at its end by a message that differs from the last one, whose
last entry may be repeated, and which goes only as a whole.  It knows no calls,
locks or transactions.

**Conversation** models the rows of one conversation, transaction by
transaction and statement by statement.  The advisory lock is a transaction
lock here, so it does protect.  `Collapse` keeps the difference between the two
callers: `store_message` writes the count it read plus one, `get_context` adds
one in SQL.  `InsertRow`/`InsertRefused` is the foreign-key check, which waits
for a deletion; `DeleteRefused` is the same key seen by the deletion.
`ImplementsMessageLog` maps `rows` to the log and `conv = "live"` to its
existence; numbers may have gaps (a call that picked its number before a
deletion can insert it into the recovered conversation), so the abstract log
only asks that positions increase.

**EmbeddingWorker** models the loop of `_embedding_worker` with its three
except clauses, the exceptions they do not name, and `migrate_embeddings` in
two steps.  A message's number stands for its place in the query's order.
The three models stand for the one before the migration, one of the same and
one of other dimensions.

**McpSessions** models the session table, the queues, the total and the two
sides of a session: the stream that consumes and the handlers that push.

**Startup** models the lifespan handler and the retry task as two processes
over shared flags, with a database that comes and goes and a process that is
restarted, maybe on a newer image.

**LogShipper** models the watcher, the tails, the queue, the writer and
restarts; a container's log is a sequence of lines with a second each.
`dropped` and `ended` are history: what the code gives up on purpose (a full
queue, a failed insert) or for good (a log stream that ended).

**ConfigCache** models the configuration file, the cache of its text keyed by
the modification time, `config_write` (read, truncate, dump, invalidate) and
the chat-model cache.  A load is `Stat`, `Read` in the executor thread, `Apply`
under the cache lock and, later, `GetClient` with what was loaded.

**MemoryClients** (extends ConfigCache) adds the two singletons an operation
reaches Mem0 through with what it loaded: the client, keyed by a hash of its
sections of the configuration, made under one asyncio lock, and the quality
wrapper, made under another that is held across the first.  The locks are
queues, as asyncio's are: holder first, then who waits.  Building is an await
that may fail; `ResetClient` is the reset by `migrate_embeddings`, which takes
no lock.

**FactStore** models the facts of one conversation in Mem0 (`mem`) and in
`cea_quality_metadata` (`meta`): the additions of an extraction and of
`knowledge_add`, each with its cleanup, its recall for deduplication, Mem0's
own two threads and the metadata row; the extraction worker with its periodic
cleanup; a search that reads both stores; deletion, restart and every failure
that is or is not caught.  Only the moment of expiry counts of a fact.

**Imperator** models the state manager (`initialize`, which the startup handler
and the retry task call on the same manager, `get_conversation_id` and the
replacement of a deleted conversation, read, query, assignment, create and write
as separate steps) and the turns of the chat flow node by node.  Whether the
retry task runs at all is left open (Startup has that); `ready` is the flag it
reads.  `log` holds what each conversation got; `lost` and `split` are history:
questions that a failure or a deletion took away; and that a write of the state
file failed, that two writers met, or that an initialization resumed the
conversation it had read over one that had taken its place.

**Alerter** models the startup loop, the webhook from the deduplication to the
history rows, and the tools that create, change and delete an instruction while
a call is looking for one.  `forgotten` is history: ids that were evicted or
lost by a restart; so are `sent`, the channels that took a message, and
`unanswered`, those whose answer the alerter did not get.  A channel whose type
has no sender succeeds without anybody taking the message, as in the code.

**Conversation_proofs**, **Retrieval_proofs** (Assembly and Retrieval),
**Process_proofs** (Startup, ConfigCache and MemoryClients, McpSessions,
EmbeddingWorker), **FactStore_proofs**, **Alerter_proofs**,
**Imperator_proofs** and **LogShipper_proofs** hold the theorems of section 5,
**SetLemmas** what several of them need of finite sets, of their least and
greatest elements and of sums over them.

## 3. What is checked

Every property of a passing run has a mutant in `PROJECT.json`.  `CHECK_DEADLOCK
FALSE` is set where a bound on the inputs or an idle service lets the system
stop.

| Run | Properties | Shows |
|---|---|---|
| `assembly` | `NothingSkipped`, `CatchesUp` | The worker and the creating request assemble one window of six messages; either may die between two nodes. No message is passed over, and the window catches up although the advisory lock is not there. |
| `retrieval` | `NeverTwiceInContext`, `ContextFits`, `NoDoubleCoverage`, `CoverageOnlyGrows` | A retrieval of each of the three build types runs against the worker, with failing calls of the language model, the budget guard, runs that die and a deletion: the context repeats nothing and fits, and the summaries keep covering disjoint parts from the oldest to the newest. |
| `conversation` | `TypeOK`, `CountersMatch`, `SeqAlwaysFree`, `NoAdjacentDuplicates`, `AcknowledgedIsStored`, `AppendOnly`, `ImplementsMessageLog`, `CallsReturn` | Two storing calls and a prompting one, a deletion, a recovery and lost connections: the message table is an append-only log, and nobody waits for ever. |
| `mcp` | `NeverOvercounts`, `SessionsBounded`, `QueuedIsDelivered` | Three event streams compete for one place and three calls for queues of two: the count that drives evictions stays honest, the cap holds and queued responses arrive. |
| `embedding` | `VectorsKept`, `EveryMessageServed` | A poisonous message, every failure of the provider and the database, and a migration: no vector is lost and every message is served. |
| `shipper` | `ActiveIsTail`, `NothingSkipped`, `EveryLineStored` | A container that comes and goes, a crash, a full queue, failing writes and an ending stream: each line that was read is stored or counted as dropped. |
| `startup` | `OnlyOnCurrentSchema`, `EventuallyAvailable` | Startup handler and retry task through two outages, a restart and failing migrations: requests are let in only on a current schema, and in the end they are. |
| `config` | `HashMatchesClient`, `LoadsSeeTheFile`, `EventuallyReloaded`, `OperationsReturn` | Two operations load the configuration and reach for Mem0 while config_write, an editor and migrate_embeddings change both under them: caches follow the file, the client matches its hash and the nested locks are given back. |
| `facts` | `ExpiredNotReturned`, `FactsAccounted`, `RowsOutliveFacts`, `ExpiredFactsGo` | Two additions with one natural key, the cleanups of three processes, a search, a restart and a deletion meet in Mem0 and in the metadata table. |
| `alerter` | `OncePerChannel`, `DuplicatesHavePrecedent`, `HistoryIsTrue`, `EveryEventTried` | Two webhook calls with a retry, an overflow of the remembered ids, failing channels, lost answers, a channel of unknown type, a changing instruction and restarts. |
| `imperator` | `StoredOnce`, `QuestionBeforeAnswer`, `FileFollowsMemory`, `TurnsReturn` | Two turns of the Imperator, or a turn and a second initialization, a deletion of its conversation, a restart and every handled failure: the log holds questions and answers once and in order, and the state file follows memory. |
| `assembly_lock` (violation) | `MutualExclusion` | The session lock goes back with its pooled connection, so both assemblers run the flow together. |

The run marked *violation* checks what a document says; the sentence is quoted
under `findings`, and the counterexample shows that the code does something
else.  Each module also states its types (`TypeOK`, `RTypeOK`, `MTypeOK`, ...) above
its properties; an `INVARIANT` line in its `.cfg` checks them.

### Bounds

* `assembly`: both assemblers on six messages of one token, chunks of one
  message, a budget small enough that these go through several chunk runs and
  an archival; either assembler may die at each node (177 265 distinct states).
  The language model answers, because a failed chunk leaves the gap described
  in section 4.
* `retrieval`: one assembler and one reader on seven messages, for a window of
  each build type, with every failure of the flow, the budget guard, runs that
  die and a deletion (2 292 887 states): a reader can begin before and end
  after an archival, and the second archival, which the database refuses, is
  reached.  A second assembler is not in it, because two overlapping ones break
  the coverage (section 4).
* `assembly_lock` needs three messages.
* `conversation`: two `store_message` calls and a `get_context`, one sender and
  role, two contents and the null content, three calls, one deletion and a
  recovery: enough for a call to outlive the conversation it started in, for
  three callers to queue on the lock, and for three repetitions of a message.
* `embedding`: three messages in batches of two, one of them poisonous, so that
  it shares batches with good ones; the give-up limit is the 5 of the code.
* `mcp`: three streams for a cap of one, three calls for queues of two, and a
  total of one: age, cap and pressure all evict.
* `shipper`: one container with three lines in two seconds, three moves, one
  crash, a queue and batches of two.  Containers share only queue and writer;
  the theorems about them hold for any number.
* `startup`: two outages and one restart; further ones repeat the same states.
* `config`: two operations, one `config_write`, an editor, one change by either
  of the two and one reset, room for one chat model, a client that may fail to be built
  (176 504 states): both operations can wait for either lock while the reset
  falls between.  The clock is fine (`FineClock`): see section 4.
* `facts`: two additions with the same natural key, so that they collide, two
  memories, two moments, the worker and a search (about 378 000 states): an
  addition can be anywhere while another process's cleanup is between its two
  deletions.
* `alerter`: two calls for two events or without an id, two channels of one type,
  one that cannot fail and one of a type without a sender, one remembered id, so
  that the second event evicts the first, one attempt to connect, and any number
  of restarts (1 587 447 states).
* `imperator`: two turns, three conversations (the first and two replacements),
  two steps of the model and two of the enrichment, one restart, and two of the
  turns and the retry task in one behaviour (`MaxActors`; 597 939 states): two
  initializations and a turn meet, or two turns and one initialization.  That
  `FileFollowsMemory` holds with more of them is proved (section 5).

### Fairness

Weak fairness stands for the event loop: a coroutine that can go on does.
Strong fairness is used where PostgreSQL queues its waiters (`Begin` in
Conversation), where a failing provider is assumed to answer eventually
(EmbeddingWorker, `DeleteExpired` in FactStore) and for retried steps that are
not refused for ever (Startup).  The asyncio locks of MemoryClients are served
in order by construction of the model, as in the library, so weak fairness of
the steps is enough.  Turns of the Imperator and calls of the alerter are weakly
fair because each of their awaits has a timeout or ends with its connection.  In
Assembly a run may die at each node, but `CatchesUp` asks nothing where runs die
for ever; in EmbeddingWorker `EveryMessageServed` names the three cases in which
the loop does not serve; `ExpiredFactsGo` names the three in which the worker
does not clean up.  Clients, administrators, failures and containers have no
fairness.

## 4. Known differences

While modelling, the code was found to differ from what its documents, comments
or docstrings say, or to do what nobody seems to have meant.  One of the
differences is a run (*violation* above).  The others are stated here; the
models have the behaviour of the code, and the properties above are those that
hold with it.

* *Assembly.*  A chunk whose summary fails while a later chunk of the same run
  succeeds is never summarised (`ST:341`, `HLD:211`).  The second full
  compaction inserts the key of the header row again and is refused, after
  which the window stays stale for ever (`ST:741`, `init.sql:148`, against
  "unprocessed messages remain in the query results until successfully
  processed", `HLD:211`).  Messages stored during a run are marked as assembled
  by it (`ST:806`).  Compaction leaves tier 1 at its ceiling, not its floor
  (`ST:307` against `ST:379`).  A run without chunks goes to full compaction
  although tier 2 has room (`ST:859` against `ST:595`).  A run loads the newest
  messages only, as many as the ceiling would hold at the estimated size and at
  least 50 (`ST:220`): where more arrive between two runs, those between the
  boundary and the loaded ones are never summarised.  Two overlapping
  assemblers can archive a chunk beyond the one they keep, after which compacted
  messages are read again (`ST:733` against `REQ:451`).
* *Retrieval.*  The reader takes the lock at once while an assembly runs
  (`ST:1046` against `ST:1029`).  After a compaction the lower ceiling drops
  messages that no summary covers (`ST:1119` against `HLD:169`).  The
  knowledge-enriched flow loads to the floor, though its docstring promises the
  logic of the standard one (`KE:238`), a long domain context can displace every
  message (`KE:333`), and an error of the distilling model that is none of the
  three it catches ends the flow instead of "returning raw context" (`KE:460`).
* *Windows.*  `find_or_create_window_node` selects by conversation and build
  type, while the unique index and its own docstring add the budget
  (`CO:476` against `CO:496`); where the winner of a concurrent insert is
  deleted before it is read, `row["id"]` fails on nothing (`CO:589`).
* *Message store.*  The duplicate check ignores the role (`MP:183` against
  `REQ:627`).
* *Deletion.*  `cea_quality_metadata` references the conversation without a
  cascade, and the deletion does not know the table (`migrations.py:565`
  against `CO:747`): once a conversation has a fact it cannot be deleted.
  FactStore has this refusal; Conversation is about conversations without facts.
* *MCP.*  The stream of an evicted session counts its messages down a second
  time (`mcp.py:130` against `:47`); `max_sessions + 1` sessions can be
  registered (`:114` against `:64`).
* *Embedding.*  A batch that always times out is fetched for ever
  (`db_worker.py:125` against `:133`); `openai.APIError` ends the loop (`:128`);
  failures of other queries count towards a batch's limit (`:218` against
  `:135`); vectors of the old model can be written after the wipe (`:155`
  against `admin.py:373`); a typed column refuses the vectors of a model with
  other dimensions (`admin.py:443` against `:408`).
* *Log shipper.*  The finally clause of a cancelled tail removes the entry of
  its successor, after which a container can have two tails (`shipper.py:232`
  against `:370`); the last second is stored again on a restart (`:122` against
  `:109`); a container that joins between scan and subscription is not tailed
  (`:341` against `REQ:548`).
* *Startup.*  A PostgreSQL that answers late makes the service available, but
  the background worker, which the handler says is deferred, is never started
  (`main.py:58` against `:156`).  After a second failed initialization of the
  Imperator nobody tries again (`main.py:53` against `:78`).
* *Configuration.*  Where two changes carry the same modification time, a load
  under way during `config_write` caches the old text after the invalidation
  (`config.py:177` against `:44`); `LoadsSeeTheFile` therefore holds under a
  fine clock only.  The invalidation empties the content hash, so that the next
  load does not clear the clients (`config.py:51`, `:89`), and their keys omit
  the time-out (`:498`).  Two `config_write` calls can lose one's change
  (`admin.py:134`).
* *Mem0 singletons.*  The wrapper that is made while Mem0 fails keeps its
  missing client for ever (`QW:691`), where the client itself is tried again
  ("Each call reattempts initialization", `mem0_client.py`), and it is not made
  again when the client is rebuilt for a changed configuration, though
  "Dependency flows upward" there.  A reset that falls into the wrapper's await
  is overwritten by a wrapper around the old client.
* *Facts.*  An error of the cleanup that every addition begins with drops the
  fact.  A row whose deletion fails after its memory went keeps the fact from
  being added again.  The worker cleans up only when messages are pending.  Of
  two concurrent additions of one fact the second leaves a memory without a row
  ("Safe to ignore", `QW:272`), which never expires.  A cleanup between the two
  reads of a search lets an expired fact through once (`QW:312`).
* *Imperator.*  The question counts as stored although `get_context`, which
  stores it, may have failed, and is then lost (`IF:399` against `IF:731`).
  Error and limit texts are stored as answers, against the comment at `IF:811`
  (only one wording is recognised).  `add_messages` appends, so that the order of
  the messages is not the one the docstring gives (`IF:275`); a prompt that
  cannot be loaded still goes on to the model.  Two calls that find the
  conversation deleted both create one (`state_manager.py:73`); the state file
  is truncated before it is written, and a restart in between forgets the
  conversation (`:114`).  The retry task calls `initialize` again on the same
  manager (`main.py:45-48`, `:67-70`), beside turns and, since it starts before
  the startup handler calls it and asks only whether a call has succeeded, also
  beside the handler's own (`:149`, `:164`): both create a conversation, and the
  file may name another than memory; or one resumes what it has read after the
  other, or a turn, has put a new one in its place.  After a failed write, or one
  of these, `FileFollowsMemory` promises nothing until the next restart (`split`).
* *Alerter.*  An event is remembered before it is delivered, so that the retry
  of a failed call is a duplicate (`alerter.py:318`).  "Discard oldest half"
  discards any half (`:321`).  After its retries at startup the alerter never
  connects again (`:95`).  An answer that is no JSON escapes the handlers of the
  lookup (`:226`).  The history is by type of channel, so that of two of a type
  one's failure is hidden.  A type that has no sender is only logged (`:508`), and
  nothing checks it when an instruction is added; it counts as a success (`:365`)
  and the history says `succeeded` of a message nobody took.  A time-out, or a mail
  session that fails at its end, after the provider took the message counts as a
  failure (`:366`), though it was delivered.  `HistoryIsTrue` claims neither.
  `send_notification` gives its events no id and waits ten seconds.  An edited description can keep the embedding of the old one
  (`alerting.py:147`).
* *Registries.*  Where `install_stategraph` fails in PostgreSQL after it scanned
  the package, the compiled flows of the old one stay cached.

`ST` is `AE/build_types/standard_tiered.py`, `KE` is
`AE/build_types/knowledge_enriched.py`, `CO` is `AE/conversation_ops_flow.py`,
`MP` is `AE/message_pipeline.py`, `QW` is `AE/memory/quality_wrapper.py`, `IF`
is `TE/imperator_flow.py`, `HLD` and `REQ` are `src/docs/HLD-context-broker.md`
and `src/docs/REQ-context-broker.md`.

## 5. What is proved

The theorems hold for every value of the constants that the named assumption of
the module allows (`ConversationAssumption`, `StartupAssumption`, ...), that is
for any number of processes and of whatever the runs bound.  Four
theorems of Retrieval_proofs and `FastPathSeesTheFile` have hypotheses besides,
which are discussed below.  Most of the invariants are not inductive alone; the last
column names what makes them so, or, for one like `HashMatchesClient`, which
nearly is, the step it rests on.

| Module | Theorem | Property | Argument |
|---|---|---|---|
| Conversation_proofs | `TypeCorrect` | `TypeOK` | `LockHeld`, `PrevValid` |
| | `CountersCorrect` | `CountersMatch` | the counter changes with the rows, under the lock |
| | `SeqCorrect` | `SeqAlwaysFree` | the holder of the lock saw every number |
| | `NoDuplicates` | `NoAdjacentDuplicates` | `Differs`: who inserts differs from the last row |
| | `HistoryKept` | `AppendOnly` | from the same invariant |
| | `NoneLost` | `AcknowledgedIsStored` | `Epochs`, sums over the rows |
| | `Implements` | `ImplementsMessageLog` | `PrevIsLast`, `RowsHaveConversation` |
| Retrieval_proofs | `TypeCorrect`, `ReaderTypeCorrect` | `TypeOK`, `RTypeOK` | `Ready` |
| | `BudgetKept` | `ContextFits` | `Fits`, in `Reading` |
| | `ChunksAreDisjoint`, `CoverageGrows` | `NoDoubleCoverage`, `CoverageOnlyGrows` | `Covers`, `Works` |
| | `NothingTwice` | `NeverTwiceInContext` | `ReadSoFar` |
| | `NothingPassedOver` | `NothingSkipped` | `Relies`, `Follows` |
| Process_proofs | `SchemaCurrent`, `TypeCorrect` | `OnlyOnCurrentSchema`, `StartupTypeOK` | `HandlerAlone`, `RetryUnobserved` |
| | `BuildsAreExclusive` | `OneBuilder` | `QueueOrder` |
| | `HashCorrect` | `HashMatchesClient` | client and hash are set in one step |
| | `FastPathSeesTheFile` | `LoadsSeeTheFile` | `TimesPassed`, `TimeTells` |
| | `CountNotAbove`, `CapHolds` | `NeverOvercounts`, `SessionsBounded` | `SessionsSound`, sums over the queues |
| | `NoVectorReplaced` | `VectorsKept` | `BatchIsPending` |
| FactStore_proofs | `TypeCorrect` | `TypeOK` | `Knows` |
| | `RowsKept` | `RowsOutliveFacts` | `Knows` at "forget" |
| | `NoFactForgotten` | `FactsAccounted` | `NoneLeftBehind` |
| | `SearchesFilter` | `ExpiredNotReturned` | `FilterInv` |
| Alerter_proofs | `DeliveredOnce`, `DuplicatesTrue` | `OncePerChannel`, `DuplicatesHavePrecedent` | `Remembered` |
| | `HistoryCorrect` | `HistoryIsTrue` | `Recorded` |
| Imperator_proofs | `RestartResumes` | `FileFollowsMemory` | `Files` |
| | `NothingTwice`, `AnswersFollow` | `StoredOnce`, `QuestionBeforeAnswer` | `Messages` |
| LogShipper_proofs | `NothingLost` | `NothingSkipped` | `Ordered` |
| | `EntriesCorrect` | `ActiveIsTail` | `TailsTyped` |

*Conversation.*  `IInv` adds to the types that who is inside its transaction
holds the advisory lock (`LockHeld`) and that the row a call is about to
collapse into is still there (`PrevValid`).  With `LockHeld`, a step that
changes the rows is one of the holder or of the deletion; the holder appends
above everything it saw, and the deletion empties the table together with the
counter.  `DInv` adds that a call that is going to insert differs from the last
row, which the lock keeps true until it commits.  `Implements` maps each step to
a step of MessageLog or to a stutter; it needs that a pending collapse refers to
the last row, and that rows and deletions have a conversation that exists.
`NoneLost` compares the acknowledged calls with the sum of the repeat counts.  A
commit raises both by one; a deletion empties the table, so a call whose
reference it has reset must belong to an earlier epoch (`Epochs`), which no
longer counts.  `SeqCorrect` has a consequence for the code: the branch of `store_message` that
retries after a `UniqueViolationError` cannot be reached as long as every writer
takes the lock.

*Assembly and Retrieval.*  Types and budget are for any number of assemblers.
`Typed` adds to the types what a node needs of the flow state that the one before
it left (`Ready`).  `Reading` has a finished context inside its budget (`Fits`): the
messages are cut against the rows that were read, so it does not matter what is
active by then, and the messages themselves are only appended to.

What is covered, and what is read twice, depends on who assembles. `Covers` says
that the active chunk rows lie apart and behind the archival row, of which there
is one; `Works` what the worker at each node relies on: the chunks it still has
to insert lie in order behind the boundary, and those it is going to archive are
the oldest and not all of them. An archival therefore leaves the boundary where
it was. The reader adds `ReadSoFar`: the rows it has read end at or before the
boundary that it reads afterwards, because the boundary never moves back, and
the messages it then loads begin behind that. Two hypotheses are needed for
`ChunksAreDisjoint`, `CoverageGrows` and `NothingTwice`. `OneAssembler` has the
worker alone assemble the window: when the request that created it overlaps with
the worker, which the advisory lock does not prevent, coverage is really lost
(section 4). `KeepsChunks` has `tier2_min_chunks` above one, as in the defaults
(`tier_scaling.py:18`): with one, the last chunk row is archived and the
boundary falls back to the first message. Not a hypothesis is that the model
answers, that runs end, or that the window lives.

`NothingPassedOver` is for any number of assemblers, overlapping and dying at
any node.  The chunks of a run follow each other without a gap and start right
after what the rows tell (`Follows`); another assembler can only add rows.  The
hypotheses are that the model answers (`~MayFail`) and that a run loads the
whole conversation (`LoadsAll`), without which the code does pass messages over
(section 4).  `Spec` is weaker than the `FairSpec` of the run: it has the
failures and the deletion besides.

*Startup.*  Two tasks share flags without a lock.  `HandlerAlone` says that
until the handler has migrated or given up nobody else runs and the flag is
down, `RetryUnobserved` that the retry task connects and migrates only while the
flag and the worker are down.

*MemoryClients.*  The cache needs no lock to be right: every time somebody
remembers has passed (`TimesPassed`), and a text that carries the file's own
time is the file's text (`TimeTells`), because the time is taken before the text
is read.  This is where the fine clock is used, and it is a hypothesis of
that theorem only.  `QueueOrder` ties each place of an operation to its place in
the two lock queues.

*McpSessions.*  The session table is a list of different keys, and what is not
yet registered holds nothing (`SessionsSound`).  The total is at most the sum
over the registered queues: an eviction takes off what the evicted sessions hold,
the stream of an evicted one takes its messages off again, so that the total may
be too small, but never too large.  `CapHolds` follows because a registration
evicts before it appends.

*EmbeddingWorker.*  Only the loop gives vectors, and the ids it carries from
the query across its awaits have none (`BatchIsPending`); a migration in between
takes vectors away but gives none.

*Process_proofs.*  The components of one process share no variables, so one
module extends all four, whose names are kept apart (`StartupSpec`, `MSpec`,
`SessionsSpec`, `EmbeddingSpec`); each theorem is about one specification.

*FactStore.*  `Knows` says what each coroutine may rely on at each await: one
that is about to drop a row has seen its memory go, one that is about to write a
row holds an id that was given out; ids never come back, so the first stays
true.  `FilterInv` says that what a search carries between its two reads is
expired as long as its memory is there.  `NoneLeftBehind` is the step lemma of `FactsAccounted`: a step of one
coroutine leaves what the others carry.

*Alerter.*  A call whose event was accepted is *taken*; `Remembered` says that a
remembered id belongs to a taken call and that two taken calls share an id only
if it was forgotten in between, `Recorded` that until its answer a call counts as
succeeded the types of all channels that took the message and answered and, of
the types that have a sender, only those of channels that took it (`Counted`).
`HistoryCorrect` is therefore no equivalence: see section 4.

*Imperator.*  `Files` says who may write the state file and what: nobody does
while memory is empty, and what an initialization has read by then is still what
the file says; then, unless `split`, there is one writer, and it writes what is in
memory.  This is for both initializations and any number of turns.  `Messages`
says for each place of a turn which of its two messages may already be stored.

*LogShipper.*  A line has every earlier one of its container before it, wherever
it is: `Ordered` says so of the queue (up to its place in it), of the batch and
of what a tail has read.  A tail starts at or before the last stored line
(`SinceFacts`, by the well-foundedness of the numbers), so it passes over
nothing that is not stored or dropped.

Sums, minima and finite sets would invite induction over data.  SetLemmas
replaces it by the well-foundedness of the numbers: the least number, or a
smallest set, for which a claim fails leads to a smaller one.

Only model-checked are the liveness properties (`CatchesUp`, `CallsReturn`,
`QueuedIsDelivered`, `EveryMessageServed`, `EveryLineStored`,
`EventuallyAvailable`, `EventuallyReloaded`, `OperationsReturn`,
`ExpiredFactsGo`, `EveryEventTried`, `TurnsReturn`), which are out of the
prover's reach.  Every invariant and every action property of a passing run is
the property of a theorem.

## 6. What is not modelled

* Texts of messages, summaries and prompts, token counting, search and scoring
  are data; scores and decay are real numbers without state.
* The log-embedding worker repeats the embedding worker with `ctid`s as keys;
  an update or a `VACUUM` may move a row under the call of its provider
  (`db_worker.py:642`), a matter of PostgreSQL's storage.  The extraction
  worker's own flow is deregistered: what is left of it is its search for
  pending messages and its cleanup (FactStore).
* The TE's configuration file, its cache and the cache of embeddings models work
  as those of the AE file (ConfigCache) and are left out.
* Feedback events and usefulness counts are insertions with a unique key.
* The registries of StateGraphs and build types have no await between check and
  use.  Tool dispatch, health, metrics, logging, the UI, the gateway and most of
  the Imperator's tools perform single calls.  The Mem0 fork is third-party
  code: FactStore has what the quality wrapper sees of it.
* Domain memory and its seeding are a second Mem0 client and a list of texts.
* A second process (several replicas of the broker) is not modelled: the
  deployment has one.
