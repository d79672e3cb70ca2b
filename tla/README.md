# TLA+ models of OmniAI

OmniAI is a FastAPI back end (`src/backend/app`) with an RQ worker, a Postgres
database, a Chroma vector store, Redis and a Next.js client. This directory holds
TLA+ modules of the parts of the back end whose correctness depends on the order
in which several actors act, the TLC configurations that check them on small
instances, and TLAPS proofs of the most important properties.

Paths below are relative to `src/backend/app` unless they start with `src/`.
Sections: 1 inventory, 2 modules and plan, 3 ingestion, 4 rate limiting, 5 autonomous
agents, 6 sources, 7 accounts, 8 library and chat, 9 retrieval, 10 models, 11 insights
and research, 12 runs, 13 proofs, 14 what the code does beside the properties,
15 not modelled.

## 1. Inventory

| component | state it keeps | operations | what is hard | what makes it correct |
|---|---|---|---|---|
| document ingestion (`services/ingestion_queue.py`, `services/ingestion_service.py`, `services/documents_services.py`, `services/indexing_progress.py`, `jobs/ingestion_jobs.py`, `api/upload_routes.py`, `worker.py`) | row `DocumentRecord` (stage, chunks), uploaded file, vectors, RQ jobs, dead letters, the process-local set of recovered documents | upload, dispatch (queue, thread), run, RQ retry, failure hook, stale poll and recovery, requeue, delete | every commit, file and vector operation is a transaction of its own; queue jobs, recovery threads, deletes, retries and crashes interleave over one document | a ready document is searchable; a document that is not indexed keeps its file; vectors are orphaned or duplicated only in the races the code accepts; jobs end; documents settle; the client sees a sensible life cycle |
| GitHub connector and connectors hub (`services/github_connector_service.py`, `connectors/`) | connections, sync row with status, commit and counts, runs of the hub, records and files of the repository or service | connect, sync by route, agent or hub, index, dispatch, disconnect | two syncs at once, a new file under an ingestion, a disconnect under a sync, death between the commits and the dispatch | what is called complete is indexed; one record per file; "running" means that a sync runs; only what a dispatch left stays queued |
| autonomous agents (`agents/`, `jobs/agent_jobs.py`, `api/autonomous_agent_routes.py`) | agent status, schedule, `next_run_at`; executions; scheduled and queued jobs; the lock of the poll | create, update, pause, resume, delete, run now, poll, execute | a poll every 60 s and a scheduled job per registration both start runs; a pause or delete races a run; the chain of polls can end | a timed agent is run again and again, any other comes to rest; every execution ends; the poll chain goes on |
| authentication, sessions, settings, account (`api/oauth_routes.py`, `services/oauth_service.py`, `services/settings_service.py`) | session records with the current token id, tokens clients hold, API key, webhook, subscription, second factor | log in, refresh, log out, revoke one or others, change settings, delete account | refresh rotates the token id; requests on one row overlap and write single columns; answers are lost | a revoked session is not revived; clients and records agree; rows of settings stay whole; a deleted account leaves nothing |
| rate limiting (`middleware/production.py`, `services/rate_limit_service.py`) | deque of time stamps per bucket, or a Redis sorted set | check and record | two implementations, fall-back between them, window boundary | never more than the limit per window; who keeps asking is let in |
| sessions, folders, collections (`services/session_service.py`, `services/folder_service.py`, `services/collection_service.py`) | rows and their references, files, chunks | create, rename, move, delete with documents | deletion in several stores, in an order that differs between routes | no dangling reference, nothing left behind |
| chat and streaming (`api/chat_routes.py`, `services/memory_summary_service.py`, `services/title_service.py`) | messages, summary, title, usage | send, stream, cut, summarise, refine | the client leaves in mid-stream, turns overlap, the session is deleted under them | what is said to be done is stored; the summary is whole; the title is refined once |
| retrieval (`tools/retrieval.py`, `services/rag_service.py`, `services/hybrid_search.py`, `services/multi_document_service.py`, `services/embedding_service.py`) | vector store, embedding cache | embed, search, fuse, rerank, cite, compare | several reads of a store that changes meanwhile | an answer quotes only its scope; what is there is found; the fusion respects its rankings; a chunk has its own vector |
| embeddings and LLM calls (`core/llm.py`, `core/ollama.py`, `services/model_router.py`, `services/llm_invoke.py`) | provider objects with `last_usage` and a resolved model, usage rows | route, call, stream, resolve, record | one object is shared by calls that overlap; its answers are kept for good | usage is the call's own; a call is recorded once; routes can serve |
| document intelligence and graph (`services/document_intelligence_service.py`, `services/knowledge_graph_service.py`) | insight row, timeline, entities, nodes, edges, cached context | generate, regenerate, build, delete | two commits around a model call; builds overlap; nothing is flushed before a query | artifacts are of one generation; a name is one node; "processing" ends |
| orchestrator, platform, research (`services/tool_agent.py`, `agent/`, `research/pipeline.py`) | report and trace rows, query cache | route a question, plan and run tools, trace, report | rows are committed before the work; the cache knows no session | answers rest on documents of their session; rows end |
| marketplace, notifications, analytics, audit, upload validation, configuration, web client | rows written once | one request, one commit | - | see section 15 |

How they interact: a request handler commits rows, then calls Redis (`queue.enqueue`)
or starts a thread; a worker process takes jobs from the queues `ingest`,
`ingest-dlq` and `agents` and writes the same rows; connectors and the GitHub sync
end in the same dispatch of documents as an upload; a chat turn asks the orchestrator,
which asks retrieval, the research agent or document intelligence; clients poll rows.

## 2. Modules and plan

| module | what it models | composed with |
|---|---|---|
| `Ingestion` | one document from upload to the vector store | implements `DocumentLifecycle` (abstract) |
| `RateLimit` | one bucket of requests | |
| `AgentPoll`, `AgentRuns` | the chain of polls; one agent | meet at the poll |
| `Sources` | GitHub sync and connectors of the hub | with the queue and the ingestion of records, in short |
| `Accounts` | sessions and settings of one account | |
| `Library` | one chat session's documents, collections and folders | |
| `Chat` | the turns of that session | EXTENDS `Library`; their actions interleave |
| `Retrieval` | one question over the vector store | with indexing, moving and deletion |
| `Models` | calls, provider objects, the Ollama server | |
| `Insights` | generations and graph builds | |
| `Research` | questions, plans, reports and traces | EXTENDS `Insights`; their actions interleave |

Each has an `MC` module with its small instance. The proofs are in `IngestionProofs`,
`AccessProofs` (for `RateLimit` and `Accounts`, which decide what gets in), `AgentProofs`
(for `AgentPoll` and `AgentRuns`), `SourcesProofs`, `ChatProofs` (for `Library` too),
`RetrievalProofs`, `ModelsProofs` and `ResearchProofs` (for `Insights` too); modules whose
proofs share a module name their specifications apart (`LimitedSpec`, `PollSpec`). Every
module takes its sets and bounds as CONSTANTS with named assumptions, has one action per
operation and uses no RECURSIVE operator, so that it can be proved about. `history` variables record what
a property excuses (an overlap, a fault); no action reads them.

What is left of the plan is to model more: time to live and fall-back of the caches, the
long-term memories written by turns, the synchronous mode of ingestion. Every safety
property, action property and refinement that a run checks is proved (section 13).

## 3. Ingestion

### State and actions

`Ingestion.tla` follows one document from `upload_document` to the vector store.
Processes are RQ workers (`Worker`) and threads of the API process (`Thread`: the
inline threads of `run_ingest_inline_thread`, or background tasks when the queue is
disabled). Each commit (`update_indexing_progress`), file operation and vector-store
call is an action.

| TLA+ | code |
|---|---|
| `stage`, `chunks` | `DocumentRecord.indexing_stage`, `chunks_created`; `"absent"` and `"gone"`: no row |
| `file`, `PathOf` | the stored file; two uploads of the same name in a session share a path |
| `copies` | vectors in Chroma per batch of `CHROMA_ADD_BATCH_SIZE` chunks, counted to `MaxCopies` |
| `dispatch`, `polled`, `deletion` | where an upload, status or delete request stands between two of its steps |
| `recovered` | `_inline_recovery_started`, lost with the API process |
| `job`, `dlq`, `worker` | RQ jobs with retries left, letters in `ingest-dlq`, registered workers |
| `pc`, `target`, `batch`, `held`, `seen` | the run of each process and the stage its session last read |
| `Upload`, `Enqueue`, `MarkQueued`, `DispatchInline`, `EnqueueFails` | `upload_document`, `dispatch_documents_ingestion`, `enqueue_documents_ingestion` |
| `PollStale`, `Recover`, `RecoverDeclines` | `get_document_status`, `try_recover_stuck_queued_document` |
| `Take` ... `Return` | `execute_ingestion_job`, `ingest_document_record`, `process_document`, `store_chunks` |
| `Hook`, `MarkFailed` | `on_ingestion_job_failure` |
| `HorseKilled`, `WorkerDies`, `RegistrationExpires`, `Reclaim` | RQ, from how the code uses it (external) |
| `TakeDeadLetter`, `Requeue` | `record_dead_letter`, `requeue_failed_job` |
| `DeleteFile`, `DeleteVectors`, `DeleteRow`, `DeleteFails` | `_delete_document_record` |
| `ApiCrashes` | the API process ends; its requests and threads with it |

Abstracted: text, chunks and vectors are numbers of batches (every run of a document
makes the same ones); time is left out, so a stale poll, an expiry or a retry may
come at any moment; the five-document limit of an inline batch and the synchronous
mode are left out; `indexing_error`, `indexing_job_id`, `embeddings_completed` and
the time stamps are diagnostics that no decision but staleness reads. A failing
database is modelled only in the delete request; elsewhere commits succeed.

### Properties and fairness

`UnindexedKeepsFile`, `ReadyIsSearchable`, `QueueIsSound` (types, one holder of a job,
letters of exhausted jobs only), `ChunksAreAccounted` (orphans and duplicates have a
cause), `NothingTakenBack` (counted chunks and ended jobs), `ImplementsLifecycle` (the
status a polling client sees refines `DocumentLifecycle`), `JobsEnd`, `DocumentsSettle`.

`FairSpec` assumes that the processes keep running and nothing more: the request that
uploads a document goes on to dispatch it (`ApiStep`), a thread and a worker with
something to do do it (`RunStep`, `WorkerStep`), the supervisor loop of
`src/backend/scripts/railway_web_and_worker.sh` starts a worker again
(`WorkerStarts`), the registration of a dead worker expires (`RegistrationExpires`),
and RQ's maintenance, which every live worker performs, finds abandoned jobs
(`Reclaim`). No fairness is assumed of clients (polls, deletes), operators
(requeues) or faults.

`DocumentsSettle` says that a document that is being indexed gets ready, failed or
deleted. It excuses a fault and `Stranded`: the commit that marks a row "queued" may
come after the job has ended (`services/ingestion_queue.py:387`), and then nothing
takes the document up.

Bounds: one worker and one thread give two concurrent runs over one document, the
number at which every race between runs shows; two jobs are the original and its
requeue; two batches are the fewest at which a run can stop between two of them; one
retry has both branches of the hook; `MaxFaults` bounds crashes and outages,
`MaxCopies` tells "stored twice" from "stored once" (no property of the faults instance
counts copies). Deadlock is not checked: when all documents are
settled and all bounds are used up the model stops.

## 4. Rate limiting

`RateLimit.tla` follows the requests of one bucket (a client address and a scope of
`rule_for_path`) to the API processes. `hits[p]` is the deque of
`InMemoryRateLimitMiddleware` in process `p`, `zset` the sorted set
`ratelimit:<key>` of `RedisRateLimitMiddleware`, both as ages in ticks, of which a
second has `Second`. `CheckMemory` and `CheckRedis` are the two checks, `Request` the
choice between them, `RedisStops` and `RedisAnswers` an outage. `inMemory`, `inRedis`
and `wait` are history: the admissions each limiter made, whatever it still
remembers, and what is left of the last `Retry-After`.

Abstracted: addresses, scopes, headers and exempt paths. The clocks of the processes
agree. The time to live of the sorted set is left out: it is renewed by every check
and is longer than the window, so it never removes a member that still counts.

`MemoryLimits` (types, no window of a process's memory holds more than the limit, deques
stay bounded), `RedisWindow` (nor one of Redis), `AskersGetIn` (while Redis stays away,
clients that keep asking are let in again and again).

Bounds: a limit of two is the least at which the oldest and the newest time stamp
differ; the sorted set, which grows with refused requests, is capped by `MaxBurst`.
`LimitedFairSpec` says that time passes and that clients ask every process again and again.
`AskersGetIn` is stated for the memory limiters alone: in Redis a refused request is
recorded too, and a client that never pauses may stay refused.

The promise across an outage is per limiter: a client may be admitted `Limit` times by
Redis and `Limit` times by each process that falls back. `src/doc/security.md` gives
10 requests a minute for `/auth/*`; `rule_for_path` has 30.

## 5. Autonomous agents

Two modules meet at the poll: `AgentPoll` says that polls go on, `AgentRuns` what they
and everything else do with one agent, and assumes polls to go on. Agents share only
the queue, so one is enough.

### The chain of polls

`AgentPoll.tla`: `lock` is what is left of the life of `omniai:agent_poll_scheduled`,
`polls[t]` the number of poll jobs due in `t` ticks (those due wait in the queue
`agents`, for as long as the ingest queues keep the worker busy), `place[w]` where a
worker stands. `"start"` and `"first"` are `schedule_next_agent_poll` called by `main`,
`"schedule"` and `"enqueue"` called by a poll job: after a kill the first ends with the
process, the second may leave the worker alive without its job. `SetLock` is the
`SET NX EX`, `Enqueue` the `enqueue_in`. `Faults` picks the disturbances of a run:
`"restart"` (a worker is stopped between jobs), `"kill"`, `"redis"` (a call raises,
perhaps after it took effect), `"database"` (the query of the due agents raises).

`broken` is history: a poll or a schedule has failed since a poll was last scheduled. A
worker killed between `SetLock` and `Enqueue` leaves a lock without a poll: one that
starts before it expires takes it for a scheduled poll (`ensure_agent_poll_scheduled`,
`jobs/agent_jobs.py:102`) and schedules none, so polls stop until the next start. A
failing query ends the chain as well (`jobs/agent_jobs.py:57`).

`LockIsSound` (types, and a held lock means a poll that is due after it), `PollsGoOn`
(polls go on unless the last schedule failed), `PollsMerge` (the chains that restarts
start merge into one).

The interval and the life of the lock matter only by their order and difference, which
must be at least a tick. Merging needs workers that keep up, which is the premise of
`PollsMerge`: a poll that waits behind long ingestions may find the lock of a second
chain expired again and again. `PollFairness`: time passes, workers do the work they have,
the supervisor starts them.

### Runs of an agent

`AgentRuns.tla`: `status`, `kind`, `next`, `config` are the row (`kind` is `"timed"` for
every schedule but manual; `compute_next_run` is any moment up to a period ahead),
`jobs[t]` the `run_agent` jobs due in `t` ticks, `listed` the list a poll goes through,
`request` the second half of an owner's request, `pc`, `row`, `seen` the run of a
process, its `AgentExecution` and what its SQLAlchemy session holds of the agent.
A session reads an attribute again only after a commit, so `Begin`, `HandlerReads` and
`Notify` are the moments at which `seen` is renewed.

`TimedHasNext` (a timed agent has a next run for the poll to find), `RunsAreSound`
(types, executions left running only by a fault, config lost only in the race between a
run's read and write), `TimedAgentsRun` and `OthersComeToRest` (liveness).

Two requests are a creation and a change, pause, resume, run or deletion; two processes
are two runs of the agent at once; `MaxJobs` counts the jobs of one moment only as far
as the properties tell them apart (a further one is not counted). The requests of the
owner come one after the other. Running an agent inside the request, which happens only
without Redis, is left out, and so are deletions of the user.

Fairness: time passes, a request goes on after its commit, polls go on (`AgentPoll`)
and a process with a job or a run goes on with it. Nothing is assumed of the owner.

Jobs are never withdrawn and every registration adds one, so the runs of an active
agent multiply: the job of a due time and the poll that finds it due each run the
agent, and each run registers another. That is why `jobs` counts, and why
`OthersComeToRest` is worth checking: what has multiplied must die out. The second half
of `resume_agent` (`agents/lifecycle.py:99`) is never needed, as `TimedHasNext` holds
without it; without Redis no poll is scheduled, so the branch of `poll_due_agents` that
runs an agent itself is not reached.

## 6. Sources

`Sources.tla` follows the documents of one user that come from elsewhere: a repository
(`services/github_connector_service.py`, with its adapter `connectors/github.py`) and
the pages of a service of the hub (`connectors/sync_engine.py`, `connectors/indexing.py`;
`connectors/notion.py` stands for the connectors that list pages).

| TLA+ | code |
|---|---|
| `remote`, `Push` | the version of the content; a commit or an edited page |
| `conn`, `hub` | `GitHubConnection`, `ConnectorConnection`; a number, so that a connection made anew is another |
| `row` | `GitHubRepositorySync`: status, commit, file count |
| `runs` | `ConnectorSyncRun` rows |
| `colls` | collections of the name a sync looks for; nothing makes it unique |
| `docs`, `file`, `jobs`, `reading` | records, files at their paths, queued ingestions, and the version an ingestion has read |
| `RouteSync`, `MonitorSync`, `HubSync` | the three ways a sync starts, of which the first alone looks at the status |
| `ReadHead`, `FindCollection`, `CreateCollection`, `Announce`, `Download`, `IndexFile`, `SkipFile`, `Flush`, `DispatchAll`, `Finish` | `sync_repository`, one action per call of the remote service, per commit and per file |
| `ListPages`, `IndexPage`, `SendPage`, `PagesDone` | a connector's `sync` and `index_connector_text` |
| `Dispatching`, `StartThreads`, `Enqueue`, `MarkQueued`, `DispatchFails` | `dispatch_documents_ingestion`: without workers threads for the first `InlineLimit` records, otherwise one job and one mark per record, and a queue that refuses a job |
| `SyncFails`, `PagesFail`, `MarkFailed`, `Break` | an exception, its handler, and a death or a session that cannot be used |
| `IngestBegin`, `IngestEnd`, `Cleans` | the ingestion of a record, in two steps: the file is read, and removed later |
| `IngestFails`, `ThreadDies` | the text cannot be loaded, embedded or stored: the document has failed, or the queue tries again; or the process dies |
| `Disconnect`, `HubDisconnect` | deletion of the connection with its sync rows or runs |

`overlap`, `raced`, `lost` and `left` are history: two syncs of one type were past their
first calls, an ingestion removed a file that a sync had replaced, a sync ended
unrecorded, and the records that a dispatch left without a job (the queue refused it, the
sync was cut short, there were more records than threads, a page had no queue, or its
thread died) or marked as queued when their job was already done. A record leaves `left`
with its next job.

`RunsAreTrue` (types; a row or a run says running only while a process syncs, unless
`lost`), `CompleteMeansIndexed` (a row that is complete with a commit, which later syncs
will find unchanged, has as many files of that commit or of a newer one as it counts,
unless syncs overlapped or a file was `raced`; a complete run has every page, with or
without a queue and even if syncs overlapped), `RecordsAreUnique` (syncs find the record
they made before: of a file there is one, of a page a further one only after the first has
been ingested), `NothingLeftQueued` (no sync, no job: no record is queued but those in
`left`).

To have a file means (`Reaches`) that its text is searchable or being read, or that the
file is still there and the document is not called ready. The second half is what the
code keeps when an ingestion fails, and no more: a document that failed stays so although
the row is complete and later syncs say "unchanged", until the user retries it or the
commit changes. What the property rules out is that a complete row names a file that no
document accounts for, or a document that is called ready without the text of that commit.
Files that could not be written (`SkipFile`) are not in the count, and so are not missed
by anything: section 14.

An earlier form of `RecordsAreUnique`, by which at most one record of a page has a file,
is false from the third sync on. A page whose record has been ingested gets a new one,
because the ingestion has removed the file that the next sync looks for; the sync after
that may find the old record first and make a third while the second still waits. Two
syncs cannot show this; the proof attempt did, and a run with three syncs has the
counterexample. `FirstRecordIngested` is what is true.

Instance: two processes, an archive of two sources around a member that is passed over,
two syncs, three events (pushes, connections, faults), three records. `Together` is
FALSE: a behaviour connects the repository or the pages, as syncs of the two share the
worker and nothing else. Two syncs are the
least that overlap or follow on each other; three events are a connection, a push and a
failure or disconnect. `MaxFiles` is met by the second source and `Batch` by the
second record, and `InlineLimit` is one, so that the second is left without a thread. The
constraint `Calm` names what is cut off: after the last event there are at most two
records, a second sync then goes on while at most one record is being ingested, and when
two syncs have overlapped an event only follows while there is one record at most; the
theorems of section 13 have no such bound. Two syncs of one repository insert records of
one file twice, as nothing makes them unique: `overlap` excuses what follows. `Queue` is TRUE in the run: without
the queue `connectors/indexing.py:92` passes the session as the document id, so the
branch ingests nothing.

## 7. Accounts

`Accounts.tla`: a request reads in one step and commits in another, and the commit of a
loaded row writes the columns the request changed and no others (`Merge`), as the ORM
does. So two requests on one row can mix.

| TLA+ | code |
|---|---|
| `sess`, `held`, `issued` | `UserSessionRecord` rows with the token id, the pair each client holds, pairs made so far |
| `Login`, `CreateUser`, `EnsureInsert`, `RecordSession` | the OAuth callback after the exchange: user row, `ensure_user_settings`, `register_user_session` |
| `Refresh`, `RefreshCommit`, `RefreshAnswer` | `/auth/refresh`: lookup by token id, rotation, answer, which may be lost |
| `Logout`, `RevokeSession`, `RevokeOthers`, `Expire` | sign-out and revocations; refresh tokens expire |
| `rows`, `sub`, `hook`, `invoices`, `key`, `totp` | settings rows of `models/user_settings.py` and the columns of the second factor |
| `Ask`, `ChangePlan`, `UpdateWebhook`, `DeleteKey`, `CreateKey` | `services/settings_service.py`; a regeneration deletes in a commit of its own |
| `TwoFactor`, `TwoFactorCommit` | begin, enable, disable |
| `Delete`, `DeleteCommit` | `delete_account`: rows of the settings, then the user; `content` stands for rows that refer to the user without a cascade, for which the whole deletion fails |
| `Die` | the process dies between two commits |

`cut`, `astray` and `mixed` are history: the clients, session rows and settings rows that
a lost answer, an expiry or an overlap has touched.

`SessionsHold` (types; a client with tokens can go on refreshing; a row that the list
shows belongs to a client), `RevokedForGood` (action property: a revocation survives
every refresh under way), `SettingsAgree` (the key last shown is the one stored; a
second factor that is on has a verified secret; subscription and invoices, webhook and
address agree), `DeletedLeavesNothing`.

Instance: two clients, two requests at once, four in all, one fault. Two at once is
every pair of operations; four are a sign-in of both devices and two more. Tokens are
numbers: signatures, cookies and the CSRF header are external.

## 8. Library and chat

`Library.tla` is one session's documents, collections and folders; `Chat.tla` EXTENDS it
with the turns of the session, so that a turn meets deletions, uploads and renames.

| TLA+ | code |
|---|---|
| `chat`, `docs`, `colls`, `folders`, `place` | the session row, `DocumentRecord` and its externals (file and chunks), collections, folders, folder and pin of the session |
| `AskUpload`, `AddDefault`, `InsertDocument`, `WriteChunks` | an upload: `get_or_create_default_collection`, the insert, the ingestion |
| `AskDeleteDocument`, `Unlink`, `DeleteRow` | `_delete_document_record`: externals first, the row last |
| `AskDelete`, `CommitDelete`, `CleanUp`, `FailDelete` | `delete_chat_session`: listing, rows in one commit, externals last |
| `MoveDocument`, `CreateCollection`, `RenameCollection`, `DeleteCollection`, `MoveAndDelete` | `services/collection_service.py` and its routes |
| `CreateFolder`, `RenameFolder`, `DeleteFolder`, `Organize` | `services/folder_service.py` |
| `Ask`, `Refuse`, `Answer`, `Break`, `Save` | `/chat/stream` and `/chat`: the question is saved, the model answers, the answer is saved |
| `AnswerNothing` | a stream without a token: `if complete_response` skips save, summary and title, "done" is sent all the same |
| `Recorded` | `record_llm_usage`: the two usage rows are committed, or the database fails and the error is swallowed |
| `ReadMessages`, `FindSummary`, `PutSummary` | `generate_summary`, insert or update |
| `CountAnswers`, `RefineTitle`, `Rename`, `AskRefine`, `CommitRefine` | titles |

The foreign keys of the database are enforced: an insert into a collection, folder or
session that is gone fails, and a deleted session takes its rows along (`Cascade`).

`LibraryIsWhole` (at rest, externals without a row and rows without externals exist only
where an operation stopped half-way or overlapped; a document is always in a collection;
one Default; the folder of the session exists), `TurnsAreKept` (a turn that was told to
be done has its answer in the conversation, and has none exactly if its stream had no
token; its usage is counted unless the turn was refused or the database lost the rows,
which the code swallows, or the session went away under an empty stream; the summary covers the whole conversation between
turns that did not overlap or end early; a deleted session leaves no rows), `TitleIsKept`
(refined at most once, and never over a later name of the user).

Instance: three requests, two at a time, one fault, in one of eight scenes. A scene is a
set of operations that touch the same rows (`SmallScenes` in `MCChat`); operations of
different scenes share no row but the session and the collection, and the scenes
together have every pair that does. Three requests are a state made by the first and two
that overlap on it.

## 9. Retrieval

`Retrieval.tla` answers one question while documents are indexed, moved and deleted.
A text stands for its vector and for its words; how a question ranks texts is chosen
freely from `Taste`, a rank for each text, so no score is computed but the fused one.
`SortedBy` is the stable sort the code leaves to `sorted`; filters and cuts are its
special cases (`Sublist`, `Top`).

| TLA+ | code |
|---|---|
| `index`, `rows`, `place` | chunks in Chroma with the metadata they were indexed with, document rows, their collection now |
| `Ask`, `Encoded`, `EncodeFails` | `resolve_retrieval_query`, `encode_query` with its cache and retries |
| `Search`, `Words`, `Fused`, `Reranked` | `hybrid_search`: semantic, BM25, `hybrid_search_ranked` (weights 0.65 and 0.35, `_RRF_K`; scores are integers over `Unit`, a common multiple of their denominators), `rerank_documents` |
| `CiteDetails`, `SourcesOf`, `Cite` | sources and citations, with a second search |
| `Check`, `List`, `ReadDocument`, `SkipDocument`, `Finish` | the look at the session's documents, and the comparison that reads document by document |
| `graph`, `BuildGraph`, `Prefix` | the knowledge graph of a user's workspace and `graph_rag_context`, which goes before the context of every answer; a node is told apart by the document its entity was found in |
| `BuildFilter`, `EffectiveCollection`, `Allowed` | user, session and collection filters |
| `StoreChunks`, `EncodeTexts`, `ByIndex` | a batch of an ingestion: cached vectors and those of the API, which answers in any order |
| `Upload`, `DeleteVectors`, `DeleteRow`, `Move` | what happens meanwhile |

`AnswerIsHeld` (each passage and source was in the scope while the question was worked on,
with that text and its document: `PassagesAreHeld`; the names before them are bounded by no
session or collection and only have to be of the graph of the user who asks:
`NamesAreOwn`), `FoundIsAnswered` (a scope with a chunk that nothing
disturbs is answered with context besides those names), `FusionIsFair` (a text ahead in one ranking and not behind in the
other is ahead in the fusion), `IndexIsSound` (a chunk has the vector of its own text).

Instance: three documents of two sessions that share texts, two collections, two tastes
(one with and one without reranking), two changes and two faults. `SearchK`, `RerankK`
and the others are small enough that every cut happens. A request that has its answer is
not followed further (`CONSTRAINT Unanswered`): nothing reads `req` afterwards. All three
documents are of the user who asks; those of others come in with the theorems.

## 10. Models

`Models.tla` follows calls of language models: `Ask` is `resolve_model` and a provider
object of the call's own, `UseShared` the object of the process; `Send`,
`NotConfigured`, `List`, `Store`, `Return`, `Complete`, `OpenStream`, `LastChunk`,
`Abandon`, `Raise`, `ServiceFails` and `Read` are the steps at which `last_usage` and the
resolved model of an object are written and read (`core/llm.py`, `core/ollama.py`), and
at which the call is recorded (`services/llm_invoke.py`). An Ollama call whose object has
no model yet lists the models, stores what it resolves and returns what the object holds
by then: three steps, between which another first call may list and store as well, so
that the later one overwrites. What a call itself resolved stays in its `found`, and
whether it saw no list in its `blind`. `Pull`, `RemoveTag` and `Flip` change the Ollama
server (external).

`UsageIsOwn` (another call's tokens are recorded only on the shared object, for calls
that overlap or that come without usage), `CallIsRecorded` (once, with its outcome and
the model that served it, unless it is an Ollama call whose model was resolved after the
row's name was taken, or replaced by an overlapping first call: `Renamed`),
`RoutesAreSound` (types; an automatic request goes to a configured provider if the
default one is, unless routing is off, a named model answers itself, "model missing" is
explained by a removal or by a first call of the same object that had no list).

Instance: two calls, five configurations (with and without keys, Ollama, routing off),
one failure and two changes of the server; and a third call where it matters
(`ThirdCall`): three completions on a shared Ollama provider, no failure, one change,
which is what it takes for a call to name a model that a late first call overwrites.

## 11. Insights and research

`Insights.tla`: a worker (a request, or the thread that indexing starts) generates the
insight of a document: it commits the row as processing (`Begin`, `Insert`, `Update`),
calls the model (`Analyse`, `Fail`), and replaces payload, timeline and entities in one
transaction in which it also builds the graph (`Persist`, `CommitGeneration`).
`BuildRead` and `BuildCommit` are the build of the whole workspace, `GraphContext` the
cached context, `DeleteDocument` a deletion with its cascades. A generation is named by
its worker. The database is read committed and the session does not flush before a
query (`autoflush=False`, `db/database.py`).

`Research.tla` EXTENDS it with the questions: `Route` and `Ask` are `tool_calling_agent`,
`NextDocument` the analysis of the session's documents, `Plan` and the tools
(`Retrieves`, `Remembers`, `Calculates`, `Searches`, `Condenses`) the orchestrator,
`Aggregates` its aggregation with the refusal, `Trace`, `Specialists` and `Summarises`
the multi-agent platform, `Report`, `Gathers`, `Writes`, `FailReport` and `Keeps` the
research agent and the pipeline of the research page. What a question is like is a set
of flags, which stand for the word lists.

`InsightsAreWhole` (a ready insight, its timeline and its entities are of one generation,
"processing" has a worker, unless two generations overlapped or one died),
`GraphIsSound` (a name is one node; a build leaves no entity it has read without its
node), `AnswerIsGrounded` (types; an answer rests on documents its session held, but for
a report of the cache; a question about a document is never answered from the web),
`RowsEnd` (reports and traces end). `GraphFollowsInsights` is the finding below.

`Scene` is the set of functions from workers to what they are asked to do (`Work`): a
behaviour picks one. A row is never the value `None`, which stands for its absence.

Instance: three workers with one of twelve mixtures of jobs (`SmallScene`), three
documents of two sessions with names that two of them share, two deletions or expiries,
two faults.

## 12. Runs

| run | instance | distinct states, time with two workers |
|---|---|---|
| ingestion_faults | one document, worker, thread and job; one batch, one retry, one fault; with fairness | 454 489, 174 s |
| ingestion_requeue | the same with two jobs and two batches; no retries, no faults | 1 817 710, 135 s |
| rate_limit_fallback | two processes, limit and window of two, outages, at most four members in the sorted set | 387 478, 47 s |
| agent_poll | two workers, interval 4 and lock 3, three disturbances of four kinds | 25 219, 5 s |
| agent_runs | two processes, two requests, one fault, period 2 | 270 727, 58 s |
| sources_syncs | two processes, two syncs, three events, three members and records, one thread without workers | 1 146 844, 85 s |
| accounts | two clients, two requests at once and four in all, one fault | 1 039 662, 66 s |
| chat | eight scenes, three requests, two at once, one fault | 811 682, 67 s |
| retrieval | three documents, two sessions, two collections, two changes, two faults | 1 896 692, 150 s |
| models | two calls, five configurations, one fault, two changes of the server; a third call on Ollama | 657 895, 155 s |
| research | three workers in twelve mixtures, three documents, two faults, two changes | 1 270 602, 74 s |
| insights_graph | the same instance; a violation at depth 6 | 6 931, 3 s |

What a run shows is said with the properties of its module. The two ingestion instances
divide the bounds between them, faults and retries in the one, further runs and batches
in the other, because both at once is out of reach of a run of a few minutes; the safety
theorems of section 13 hold for all of them together.

Deadlock is checked in the runs whose systems never stop (rate limiting, agents); the
others stop when their bounds are used up.

### The finding

`insights_graph` (`services/document_intelligence_service.py:240`):
`src/docs/complete-implementation-changelog.md:234` says of the knowledge graph
"Auto-build | After document intelligence completes". A generation deletes the old
entities, adds the new ones to a session that does not flush before a query
(`db/database.py:14`), and then builds the graph from a query over entities, which sees
neither. So none of an insight's entities becomes a node until another build, for
instance one posted to `/graph/build`. `GraphFollowsInsights` is violated by one
generation on its own.

## 13. Proofs

TLAPS proves for every value of the constants (numbers of documents, workers, requests,
syncs, clients, calls and faults, the limit, the window, the intervals), under the named
assumptions of each module, which say that the sets are what they are meant to be
(finite where they are counted, processes and `None` values distinct) and the bounds
natural numbers. Each theorem has the same shape: an inductive invariant, the proof that
`Init` establishes it and every action keeps it, and the property as its consequence.

- `IngestionProofs`: `TypeCorrect`; `ReadyDocumentsAreSearchable` and
  `UnindexedDocumentsKeepTheirFile`; `IngestionImplementsLifecycle`. `TypeOK` is not
  inductive: a run that fails writes the row of its target, which must be a document.
  The invariant is `TypeInv == TypeOK /\ Wired`. The two safety theorems follow from
  `SafeInv == TypeInv /\ DocsSafe /\ RunsSafe`. A run that reaches `"final"` has added
  every batch below its counter, and a delete request is visible in `deletion` before it
  removes anything; `RunsSafe` says so of every point of a run, `DocsSafe` of the document
  when no run holds it. For the refinement the mapping is the status a client sees: a
  step of a run maps to a step of the life cycle or to stuttering; `RowsWhileDeleting`
  is needed for the row delete. There is one lemma per kind of step (`StageBecomes`,
  `Fails`, `Rest`) and one step per action. `QueueStaysSound` follows from `QueueInv`: a
  process holds a job only while it runs, threads hold none, a started job has one holder,
  and a letter is the last thing the hook writes. `NothingIsTakenBack` follows from it
  and from who writes which row. `ChunksStayAccounted` needs two invariants on top:
  `DeletionInv` (how far a delete request is, and that an own path stays without its file
  from then on, so no run can begin to write) and `StoreInv` (vectors that were removed
  stay away unless a run was writing; before a run has begun there is nothing; after one
  alone, each batch it is past is stored once and no other).
- `AccessProofs`, the limiters: `MemoryLimitsKept`, from `MemoryWindowKept` and
  `DequeStaysBounded`. `MemoryWindow` speaks of admissions the deque may have dropped, so
  the invariant relates the two: `Suffix` says the deque is the recent end of the
  admissions and that those before it have left the window. In Redis refused requests are
  members too, and the set is no suffix of anything: for `RedisWindowKept` the invariant
  (`RedisInv`) says that the set is sorted and `Covers` the admissions, so that its j-th
  latest member is no older than the j-th latest admission still in the window; a set with
  fewer members than the limit then means that the window has fewer admissions.
- `AccessProofs`, the accounts: `SessionsStayHeld` from `SessionInv`: a token pair is in one
  row (`PairsKept`), and for each client the live row carries the pair it holds or is about
  to get (`ClientKept`, with `RefreshKept` for a refresh between lookup, commit and answer).
  `SettingsStayAgreed`, `DeletionIsWhole` (from `AccountInv`: ids are never used again and
  a deletion counts no more invoices than there are) and the action property
  `RevocationLasts`.
- `AgentProofs`, the polls: `LockStaysSound`, for every interval, every shorter life of the
  lock, any workers and any disturbances. It is inductive together with `PollTypeOK`: a poll
  scheduled under a lock is due at least `Interval - LockTtl` after its end, and time
  takes both down together; a failure sets `broken`, and only `Enqueue`, which makes the
  property true, resets it.
- `AgentProofs`, the runs: `TimedAgentsHaveNext`, `RunsStaySound`. The invariant adds that
  only a handler has a running execution (`RunningInHandler`) and that, without a race,
  config is the owner's and every run about to write it holds the same (`HoldsConfig`).
- `SourcesProofs`: `SourceInv` gives each variable its type and each sync its `Shape` (what
  it holds fits its step). `RunsStayTrue`: an unfinished run belongs to one sync
  (`RunInv`). `RecordsStayUnique`: syncs that do not overlap are of different types and
  use one collection each, and what a sync is about to insert is new (`RecordInv`).
  `QueueIsDrained`: a queued record has a job, a sync that has still to see to it, or is in
  `left` (`QueuedInv`). `CompleteIsKept` joins two arguments, which share what a step cannot
  take away (`Carried`): records keep their name and type, a text that is searchable stays,
  and, unless a file is raced, so does every version that `Reaches` (`PresentKept`,
  `BackedKept`), because what is being read is still in the file of a document that
  nothing calls ready, or searchable in a version as new (`ReadInv`). For the
  repository (`FileInv`) the count of a sync never exceeds the number of files its records
  stand for (`CountKept`, an argument on cardinalities), and those files are there at the
  version of its archive (`FilesKept`); so a row that becomes complete has as many, and
  keeps them. For the hub (`PageInv`) every page a sync has passed is there at the version
  of the listing; nothing here needs syncs to be apart, which is why
  `CompleteRunsAreIndexed` holds when they overlap.
- `ChatProofs`: `LibraryStaysWhole`, `TurnsStayKept`, `TitleStaysKept`, from
  `ChatInv == LibInv /\ TurnTyped /\ TurnInv /\ TitleInv`. `LibInv` says what a request
  holds at each step (`LibForms`), that externals without a row, and rows without
  externals, are in the hands of a clean-up or a deletion or are known (`DocInv`), and
  that whoever adds the Default collection is alone (`CollInv`). `TurnTyped` has turns
  with numbers of their own that save each message once. `TurnInv` follows an answer from
  its save to `done` and, for a turn that has not overlapped, keeps what it reads equal to
  the conversation. `TitleInv`: the turn with the first answer is the only one that
  refines, and a name that stays was given after an answer. Three lemmas keep the halves
  apart: a step of the library leaves the turns aside (`Aside`), a step of a turn keeps
  the invariant of the library (`TurnedLib`), and the deletion of the session, which
  touches both, is a case of its own.
- `ModelsProofs`: `UsageStaysOwn`, `CallsAreRecorded`, `RoutesStaySound`, from `ModelsInv`: for each
  call its route, its model, its row and the usage in its object at every step
  (`CallKept`), that what a call resolved from a list is installed or was removed
  (`FoundKept`) and that what an object holds was resolved by one of its calls
  (`ResolvedKept`; a step takes back nothing that is resolved, `Remembered`, so a name that
  is overwritten stays accounted for), that calls on the shared
  object know of each other (`OverlapsKnown`), and that an object nobody uses is new
  (`ObjectsKept`).

- `ResearchProofs`: `InsightsStayWhole`, `GraphStaysSound`, `AnswersStayGrounded`,
  `RowsAlwaysEnd`, for any `Scene`: any number of workers, each with a generation, a build,
  a question with any flags or a report. The invariant is
  `ResearchInv == Typed /\ InsightInv /\ GraphIsSound /\ AnswerInv /\ RowsInv`. `Typed` has
  jobs whose fields fit their step (`Fits`), as an insight row or a list of documents is
  meant at one step only. `InsightInv` says that of a document no two generations overlap
  unless it is in `raced` (`Alone`), and then what a generation read is still the row
  (`KnowsRow`) and the entities it is going to replace are all there are. `AnswerInv`
  follows a question: what it has gathered its session held (`KnowsDocuments`), what the
  cache has was kept by a finished question that did not cite the cache itself
  (`CacheIsKept`, `Cites`), and a question about a document has no text of the web at any
  step (`StaysInDocuments`). A step of one worker leaves the others' parts aside, which
  the frame lemmas say once.
- `RetrievalProofs`: `ChunksKeepTheirVectors`, `AnswersShowTheirScope`, `ScopesAreFound`,
  `FusionsAreFair`, from
  `RetrievalInv == StoreInv /\ req \in Request /\ Fits /\ SeenInv /\ CalmInv /\ FusionInv`
  and `NamesInv`, which holds because the graph only grows.
  `SeenInv` says that whatever a request holds, at any step, is of a chunk that was in its
  scope; `CalmInv` that an undisturbed scope has a chunk and that each way of answering
  still has one before it; `FusionInv` that what was fused is what both searches returned.
  Below it lie lemmas on data. What a recursive function computes is found by induction
  over `0..n`, done by hand through the least number outside a set (`FirstNumbers`,
  `Iterated`). `SortedByIs` and `SortedByHolds` say that a sort is an order of positions:
  counting those before a position numbers them without gaps. `SortedByOrders` that it
  follows the keys. `EncodeTextsFits` counts the texts that were not cached to find each
  one's vector in the answer, and `ByIndexFits` undoes the permutation of the API. The
  fusion needs that `Unit` is divisible by each denominator (`UnitDivides`), so that a
  better rank is worth strictly more (`SharesFall`); a text found once in each ranking then
  has the sum of its two shares (`SumOfOne`), and a text ahead in one and not behind in the
  other has more (`AheadScoresMore`).

Only model-checked: liveness (`JobsEnd`, `DocumentsSettle`, `AskersGetIn`, `PollsGoOn`,
`PollsMerge`, `TimedAgentsRun`, `OthersComeToRest`), because fairness and ENABLED are out of
the prover's reach, and the violation of `GraphFollowsInsights`, which is a counterexample.

## 14. What the code does beside the properties

Where a comment or document promises more than the code keeps, the models show:

- `src/doc/sprint1/ingestion-queue-architecture.md:96` says exhaustion marks the document
  failed; a job whose work horse is killed on its last attempt ends without the hook
  (`HorseKilled`).
- `jobs/ingestion_jobs.py:66` says a letter is kept "for operator review"; the worker
  serves `ingest-dlq` itself (`worker.py:58`) and empties it (`TakeDeadLetter`).
- `services/ingestion_queue.py:453` says it re-enqueues a failed job; it takes any job,
  and so does `Requeue`.
- The API process may die between the commit of a document and its dispatch
  (`ApiCrashes`); nothing dispatches the document while workers are alive.
- Two uploads of one name in a session share a path (`api/upload_routes.py:177`): the
  first run to be ready removes the file of the other (`PathOf`, `Alone`).
- In memory `Retry-After` is cut to whole seconds (`services/rate_limit_service.py:108`): a
  client that waits so long may be refused once more.

Observations made while modelling, each in the definition that has it:

- Retrieval: a comparison numbers citations per document and its sources through all of
  them; after reranking, chunk numbers are places in the reranked list (`Renumbered`);
  a text found by BM25 alone has no source (`SourcesOf`); a text that two documents hold
  has double weight in the fusion; chunks keep the collection they were indexed with when
  their document moves (`BuildFilter`). Whatever its session or collection, each answer of
  the tool begins with names of the graph of the whole workspace, cached for the words of
  the question, and nodes outlive their documents (`Prefix`, `BuildGraph`).
- Chat: `POST /chat` retrieves without a user (`services/rag_service.py:304`), for whom
  both searches return nothing (`services/hybrid_search.py:133`); so that route answers
  without context, and the retrieval cache, which only `retrieve_context` fills, stays empty. A stream
  without a token is told done, with the question saved and no answer (`AnswerNothing`);
  an error of the usage tables is swallowed with the rows (`Recorded`).
- Models: `last_usage` of the shared provider is another call's when a completion comes
  without usage; overlapping first calls resolve the Ollama model of the shared object
  more than once, the last store wins, and metrics name the model from before; an
  abandoned stream records no usage.
- Insights and research: a memory alone passes for evidence (`NoEvidence`); the cache of
  research reports knows the question and the user, not the session (`Cached`); the trace
  of the multi-agent platform stays "running" when its summary raises (`Summarises`); a
  generation whose last commit fails leaves "processing" (`broken`).
- Sources: the monitor agent and the hub do not look at the status that keeps the route
  from a second sync (`MonitorSync`, `HubSync`). Without workers only the first five
  records of a sync get a thread (`services/ingestion_queue.py:213`), and the row is
  complete all the same: the rest stays queued. When the queue refuses a job
  (`DispatchFails`) the row says failed and the records committed before stay queued. A
  document whose ingestion fails (`IngestFails`), or a file that is skipped (`SkipFile`),
  stays out of the search although the row is complete and later syncs say "unchanged".
  Without the queue `connectors/indexing.py:92` passes the session as the document id, so
  that pages are never ingested (`SendPage`).
- Accounts: two refreshes with one cookie sign one tab out (`cut`); a regeneration that
  fails after its delete leaves no key (`"key" \in mixed`).

## 15. Not modelled

- Ingestion: the synchronous mode, listings (the dispatch of several documents at once, with
  its limit of five inline, is in `Sources`), `indexing_error`, `indexing_job_id` and the time stamps;
  text, chunks and vectors are numbers of batches, and time is left out, so that a stale
  poll, an expiry or a retry may come at any moment. A failing database is modelled only
  in the delete request.
- Upload validation and quarantine: checks of one request before its row exists.
- Settings of one column (profile, avatar, password, preferences), OAuth exchanges,
  cookies, CSRF, signatures.
- Caches: time to live and the fall-back to process memory; the caches matter here where
  a stale value changes an answer (`Retrieval`, `Research`).
- Prompts, formatting, heuristics on words, scores: data that no property tells apart.
- `rag/`, an earlier pipeline without a caller in the routes modelled here; planning,
  multi-hop, verification and export of research, which call the model or format.
- Marketplace, notifications, analytics, usage reports, audit: rows written once in one
  request and aggregates over them. Configuration, health probes, migrations, evaluation
  scripts: run outside of the requests. The web client: `DocumentLifecycle` states what
  its polling relies on.
