# QueryMind AI: TLA+ models, checks and proofs

QueryMind answers questions about a workspace's databases: a FastAPI backend
takes a question, a LangGraph agent drafts, validates and runs queries, and
Celery workers profile the databases, index their schemas, harvest documents and
send reports. This directory holds TLA+ models of the parts where order, overlap
and failure decide what happens, TLC configurations that check them on small
instances, and proofs of their main properties for every value of the constants.

Paths below are relative to `src/backend/app/` unless they start with `src/`.
`PROJECT.json` lists the components, the runs, the hazards with the properties
about them, and the source lines behind every definition.

## 1. The system and its parts

| Part | State it keeps | Operations | What is hard | What makes it correct | Models |
|---|---|---|---|---|---|
| Agent graph (`agents/graph.py`, `agents/nodes/`) | `GraphState`, one dictionary per turn | thirteen nodes, six conditional edges | two retry loops over one counter; keys no node clears; a fan-out and its join; rows deleted meanwhile | bounded retries, only validated plans run, on the right connection and inside the scope; the result reaches the page; the turn ends | `AgentTurn`, `AgentGraph` |
| Federation (`agents/nodes/federated_*.py`, `services/federation_merge.py`) | none | check of the plan, sub-queries, join, union, concat | missing and ambiguous names, columns found by position, caps | the table is what the steps mean | `FederationMerge` |
| Validators, row budget (`services/*_validator.py`) | none | pure functions of a query | five languages, rewriting, two checks of one query, by two dialects | what one check rewrote the next accepts; no unbounded scan above the budget | `Validators`, checked through `Engines` |
| Engines, health sweep (`engines/`, `workers/health_task.py`) | connections, threads, `last_health_*` | execute, test, aclose of thirteen engines; one probe per connection | a database that never answers; a thread that outlives its caller; row locks held across probes | every wait ends that can; what is opened is closed; rows are those asked for | `Engines` |
| Introspection and sampling (`engines/`, `services/schema_profiler.py`) | a bundle under construction | one catalogue query per engine, a few per column | failed queries that end a transaction, refusals that pass for answers, joins that double keys or make them up | keys as declared, whole tables, complete lists of values | `EngineSchema` |
| Connection lifecycle (`api/workspaces.py`, `workers/profile_task.py`, `workers/diff_task.py`) | `workspace_connections.status`, `profile_jobs.state`, `schema_bundles` | create, refresh, /refresh-schema, delete, profile task, daily diff | several commits per task; jobs that overlap; deletion under a task; process death between commit and message | a ready connection has a bundle; status and job never disagree; everything asked for settles | `ConnectionProfile` |
| RAG schema index (`services/rag/indexer.py`, `workers/index_task.py`) | `rag_chunks` | reindex a connection, retry, cascade on deletion | compare, embed and write without a lock; one unique key for all connections of a workspace | the index follows the bundle; rows keep their owner and die with it; tasks end | `RagIndex` |
| Chat endpoint (`api/chat.py`) | sessions, messages, queries, recall index, `usage_daily` | one turn: resolve, summarise, slash commands, graph, rows, usage; session delete and export | a request that fails or is cut off at any await; rollbacks; transaction time as order | history complete, one reply per question, what was shown is stored, a turn is counted once | `ChatTurn` |
| Query cache (`services/query_cache.py`) | Redis keys per connection and query | get, set with a TTL, invalidate by SCAN | a late set after an invalidation; SCAN beside writers; Redis outages | an invalidation is complete; no stale entry lives for good | `QueryCache` |
| Document sources (`api/doc_sources.py`, `workers/harvest_task.py`, `services/file_watcher.py`) | `doc_sources`, `rag_chunks`, watches, timers | create, crawl, delete, deletion of the workspace, daily recrawl, harvest, reload | two harvests of one source, deletion under a harvest, files that cannot be read, worker death, debounce, reloads that overlap or fail | chunks are those of one harvest; they go only for those of a harvest that read the source; no source is stuck; no change is lost | `FileWatcher`, `DocSource` |
| Crawlers (`services/doc_harvest.py`) | a stack, a page, a token | nine strategies with paging, caps, retries and token refresh | one failure among many items, caught or not; cycles and links; expiring tokens; names that collide | a failure that is caught costs what it must; nothing twice; the crawl ends | `DocCrawl` |
| Scheduled reports (`workers/report_task.py`, `services/report_*.py`) | `report_schedules` | the sweep of every minute, mail, webhooks | sweeps that overlap or die, sends that are not committed, failures that stay due | `ok` means delivered; one mail per minute; one schedule does not stop the others | `ReportSweep`; its questions are the `batch` caller of `AgentGraph` |
| Scope and workspace resolution (`services/scope_resolver.py`, `services/workspace_resolver.py`) | none | pure functions over the workspace's rows | scopes, clusters, missing selections | ids lie in the workspace and are ready | `ResolvedScope` of `AgentGraph`, `WorkspaceOf` of `ChatTurn` |
| MCP server (`mcp/server.py`) | none | read-only tools, `_ask` | runs the graph without a resolved workspace | as the graph | the `batch` caller of `AgentGraph` |
| LLM client, dashboards, saved questions, administration, authentication, pure helpers, frontend, infrastructure | | | | | not modelled, see section 7 |

How they interact. The chat endpoint, the report sweep and the MCP server call
the graph. The graph reads connections and bundles that the profile task and the
daily diff write, chunks that the index and harvest tasks write, and the cache,
and runs its queries through the engines. API handlers start tasks by committing
rows and then sending a Celery message, which Redis delivers at most once (it is
acknowledged on receipt). The profile and diff tasks start index tasks the same
way; the folder watcher, the API and the daily recrawl start harvests. Deleting a
connection or a source cascades over its rows, but not over messages, running
tasks, timers or running queries.

## 2. Modules

| Module | Contents |
|---|---|
| `AgentTurn` | What a turn promises its caller: drafts and runs within a budget, every run of a new draft, nothing after success, one close. |
| `AgentGraph` | The thirteen nodes and the edges of one turn, for the three kinds of caller, with concurrent deletion of connections. Implements `AgentTurn`. |
| `FederationMerge` | A federated question from the plan to the table: the planner's checks, the sub-queries, the merge and its cap. |
| `Validators` | The read-only validators, the row budget, and the choice of a validator by the node, the executor and the engine: operators, no state. |
| `Engines` | Calls of the thirteen engines by questions and by the health sweep. Extends `Validators`. |
| `EngineSchema` | Introspection and sampling by the thirteen engines, and the profiler that drives them. |
| `ConnectionProfile` | One connection from creation to deletion: handlers, profile tasks, daily diff, crashes. |
| `RagIndex` | The schema chunks of one workspace and the tasks that write them. |
| `QueryCache` | The result cache between turns, refreshes, deletions, expiry and outages. |
| `ChatTurn` | `POST /chat` around the graph, and the session endpoints. |
| `FileWatcher` | The watcher of folder sources: watches, debounce timers, reloads. |
| `DocSource` | Sources, harvests and recrawls. Extends `FileWatcher` and composes its actions. |
| `DocCrawl` | One crawl of one source, for the nine strategies. |
| `Subsequences` | Parts of a sequence in its order, for `DocCrawl`, `FederationMerge` and the lemmas. |
| `SequenceLemmas` | What the proofs need to know of sequences, their parts, and sums over finite sets. |
| `ReportSweep` | The minute sweep, its mails and webhooks. |
| `X_proofs` | The theorems about `X`, for `AgentGraph` (and `QueryCache` and `FederationMerge`), `ConnectionProfile` (and `EngineSchema`), `RagIndex`, `ReportSweep`, `ChatTurn`, `DocSource` (and `DocCrawl`) and `Engines`. |
| `MCX` | The instance of `X` for TLC, where the constants are more than model values. |

**AgentGraph.** `state` is `GraphState`; `frontier` is the set of nodes of the
current superstep; `request` is what the caller passed and the workspace it sees.
Each node is one action that applies the node's whole delta and schedules what
its edge selects. A node's reads of the database are part of its action; where
another request may delete a connection between two of them
(`multi_schema_loader`), each read has its own choice of what is gone. A query
is the number of the attempt that drafted it, so "the plan that was validated is
the plan that runs" is an equation between numbers. The LLM, the validators and
the engines are choices over what their callers distinguish. Callers: `chat`
passes a resolved workspace, connection and scope; `batch` (`report_task.py`,
`mcp/server.py`) passes only the `active_*` pair; `direct` is the graph called
with a message only, as the smoke test does.

**FederationMerge.** `CrossValidate` is the planner's check of the plan, `RunOne`
one sub-query of `asyncio.gather`, `Gather` the pipeline and the cap. A result set
is columns, rows and a flag; a column is found by the first position of its name,
as `list.index` does, which is what distinguishes the code from the relational
meaning (`JoinOf`, `UnionOf`, `StackOf`) it is compared with as bags of rows. Where one
name stands for two columns, out of a query or of a join, there is no such meaning
(`ambiguous`).
`None` equals `None` in a join, as in Python and not as in SQL; a cell that is a
list or a document cannot be hashed and ends the merge (`Nested`). A plan with
several sub-queries and no steps passes the planner and fails in the executor;
sub-queries no step uses are dropped; the cap comes after the whole pipeline.
A plan is any sequences of sub-queries and steps, a result any table over `Cells`
(`FederationAssumption`); the limit of five of each is not used.

**Validators.** A query is a record of what the validators look at (statements,
tables, stages, keys, operations, its `limit`); a result is the set of findings
and the query as rewritten. A query parses under some of the names sqlglot knows
(`SqlglotNames`: SQL Server is `tsql` there). The node picks a validator by the dialect
the plan declares (`NodeValidates`), which the LLM writes (`schemas/llm_io.py:39-53`);
the engine picks its own (`EngineValidates`). The row budget judges the plan as the
planner wrote it, before the validator's LIMIT, and in the declared dialect too.

**Engines.** What an engine's `execute` does is a script: its exchanges in order,
each with the limits that end a wait (the driver's timeout, `wait_for`, the HTTP
client). The action a caller takes next is `Shape`, `Reply` or one of the ways out
(`Fails`, `Expires`, `GivesUp`, `Denied`), each of which unwinds through the
`finally` of that engine. A `to_thread` call holds one of the process's threads
until its database answers, also when its caller has given up. The sweep holds
its stamps uncommitted, and a deletion waits for the row locks. `wait_for` is that of
Python 3.12. A question is a connection, the query it is asked and the dialect that was
`declared` for it; `Ask` is the node and the engine's own check, one by the declared
dialect and one by the connection's. Where the two differ the query may reach a database
it was not read for: one that does not speak its language answers with an error
(`Misread`), one that speaks SQL may do either. A SQL query has one parse tree whatever
name it is read under, so that a statement two dialects parse into different trees is
not represented.

**EngineSchema.** A world is a database as it stands; `IntrospectSchema` returns what the
engine's catalogue query finds, with the joins it makes: tables have keys and other
constraints (`rules`) with names of their own or not, because PostgreSQL's and Oracle's
joins go by name (`PostgresKeys`, `OracleKeys`). `Denied` is a GraphQL answer of status 200
with errors and no data, or an OpenAPI document without paths: the bundle is empty and
the profile done. A GraphQL type comes back in as many wrappers as the introspection
query selects (`RootWrappers`, `FieldWrappers`). The profiler then asks the sampler's
queries column by column. A query may fail on the wire or
because it cannot be answered for that column (`Impossible`); what follows a
failure (skip the statistic, the column, the table, or abort) is the engine's own.
`ConnectionProfile` takes all of this in one step of its task. What a database may be
is `WorldsAssumption`: finitely many tables under names of their own, columns with names
of their own, keys that pair columns.

**ConnectionProfile.** One connection, because connections share no row here. A
handler commits its rows (`CreateConnection`, `RefreshLoad` and
`RefreshConnection`, `SlashRefresh`) and sends the message in a second step
(`Enqueue`). A task has one action per commit or external call. `task[j].read` is
the status the task's session has loaded: SQLAlchemy emits an UPDATE only for an
assigned column whose value differs from the loaded one, so a task may write
nothing at all (`Mark`) or fail on a row that was deleted (`Lost`). A bundle is the
version of the customer's schema it was read from; `AlterSchema` is the customer.

**RagIndex.** `index` maps a table name to its row, because the unique key of
`rag_chunks` is the workspace, the kind and the table's name. A task reads the
bundle, then the rows of its connection (`LoadExisting`), embeds, and writes in one
transaction (`Write`, `Commit`). Rows that are written and not committed are
`dirty`; a task whose statements meet them waits. All row locks of a transaction
are taken in one step, so a deadlock between two transactions, which PostgreSQL
would break by failing one, is not modelled. `TritonFails` is `autoretry_for`.

**QueryCache.** An entry is a version of the database's shape and the time it has
left, which a hit does not renew (`services/query_cache.py:146` is the only place that
sets a TTL). Turns run in the API and in the worker. An invalidation scans: `seen` marks
the entries that were there when it began, `todo` the keys it has yet to visit, and SCAN
may or may not return a key that comes or goes.

**ChatTurn.** A turn's stage is the await it has reached; each action is what the
code does up to the next commit. `created_at` is PostgreSQL's `now()`, the start of
the transaction, so messages carry the time the transaction began and are ordered
by it. `Cut` is a client that goes away or a process that dies at any stage.

**FileWatcher, DocSource.** `timer[s]` is the debounce thread of a watched source:
`armed`, `firing` (in `_fire`) and `ending` (message sent, thread not yet dead), in
the last two of which an event arms nothing. `reload[r]` is a request that reads
the wanted sources and then takes the lock. A row of `rows[s]` is a file and the
run that inserted it; a harvest waits for rows another transaction has locked,
wipes what its snapshot of the DELETE sees, embeds, inserts and commits. `Crawl` reads
any part of the folder, all of it or nothing: what cannot be listed or read is left out
and the harvest goes on, so that one which read nothing wipes and is ready. `Contents`
are the files a crawl can read at all. A reload may fail before it reads (`ReloadFails`,
logged by `_refresh_watcher`) and leaves the watches as they were; when it applies, a
source whose root is no directory or whose schedule raises is left unwatched.
`DeleteWorkspace` takes sources and chunks by cascade and reloads nothing. `unread` is
history: the watched sources that went since a reload last read the sources. Messages
are at most once; a worker may die at any stage, and the API may restart.

**DocCrawl.** The nine strategies share their control (a stack of containers,
pages, items, a cap), and differ in what they take, how they name it and what a
failure ends. `ReadFails` is a failure the strategy catches and `ReadAborts` one it does
not: `Escapes` says which items can fail so (a link that leads to itself, an address
that is none, a path in a row, a message once its mailbox is open, an answer of
OneDrive's that is cut off), and the harvest ends. The order in which containers are
stacked is not modelled. What a source may hold is assumed (`CrawlWorldsAssumption`), by
parts: an item is in one place, and an attachment belongs to one message (`PlacedOnce`);
the folders of a disk form a tree, because `walk_folder` is an `os.walk`, which follows
no link to a folder, while those of a drive may be in several folders and in one another.
`harvest_smb` keeps no set of what it has visited and follows links: it walks paths, so
the containers of a share are its paths (`OneWay`), a folder two paths lead to is there
twice with its files, and a link back unfolds into longer and longer paths until the
server refuses one, which bounds the tree. A link to a file is an item of a folder under
the name of its target. The export of a chat is one file, read at once (`OneExport`).
Names may repeat; a path or an id is one item's.

**ReportSweep.** A cron expression is the set of minutes it names. A sweep lists what
is due from the rows it read, then for each schedule renders, mails, posts to
webhooks, and commits `last_fired_at` and `last_status`. `mails` and `reached` are history:
how often a minute was mailed, and whether a webhook took it for a schedule that mails
nobody. The mail server has taken a mail or it has not: one it took whose `QUIT` fails is
not modelled. The repository has no operation that creates a schedule, so schedules are there in `Init`.

## 3. Runs

Each run checks the properties of one module; a name below is a definition with a
comment that states it. Some are conjunctions of named parts: `RightConnection`
(`FederationStaysInScope`, `ChatConnectionKept`), `ResultShown`
(`ResultFullyPresented`, `NeverClaimsEmptyResult`), `StatusSound` (`TypeOK`,
`ReadyHasBundle`, `InProgressHasJob`, `ErrorHasJob`), `IndexSound` (`TypeOK`,
`OwnersLive`), `SourcesSound` (`TypeOK`, `OneCrawl`, `ReadyCount`, `WatchedExist`),
`RecordsTrue` (`TypeOK`, `OkWasDelivered`), `CacheSound` (`CacheTypeOK`,
`InvalidationComplete`), `HistorySound` (`TypeOK`, `HistoryComplete`),
`AnswersKept` (`FinalIsStored`, `OneAnswer`, `RecallsAnswers`),
`FailuresContained` (`OnlyFailuresMissing`, `OneFailureAborts`), `DocumentsApart`
(`CrawlTypeOK`, `NothingTwice`, `ThreadsWhole`, `OwnNames`), `CallsSound` (`TypeOK`,
`ReleasedOnceAnswered`, `SweepAllOrNothing`), `AnswersSound` (`RowsAsAsked`,
`AcceptedTwice`, `DeniedTwice`), `WaitsEnd` (`EveryCallAnswered`, `ThreadsComeBack`),
`ProfileSound` (`SchemaTypeOK`, `SurvivesBadColumns`, `WholeDatabase`), `MergeSound`
(`MergeTypeOK`, `MergedAsDescribed`).

| Run | Checks | What it shows | Bounds | Distinct states |
|---|---|---|---|---|
| `agent_graph` | `TypeOK`, `ExecutesValidatedPlan`, `RightConnection`, `ResultShown`, `ImplementsTurn` | a turn of any caller keeps its promises to the caller, ends included | both budgets 2, two connections, both deletable | 16 853 |
| `federation_merge` | `MergeSound`, `AcceptedPlansMerge` | a merged table is the relational meaning of its steps | 2 sub-queries, 2 steps, 7 result sets, `MaxRows` 3 | 88 190 |
| `engines` | `CallsSound`, `AnswersSound`, `BudgetKept`, `WaitsEnd`, `DeletesProceed` | thirteen engines end every wait but those of `NeverAnswered`, close what they open, return the rows asked for, whatever dialect was declared | two questions and the sweep, one thread, caps 2 and 3, 2 faults | 31 248 |
| `engine_schema` | `ProfileSound`, `KeysAsDeclared`, `SampleSaysAll` | profiles hold whole tables, the declared keys and complete value lists, despite failures | 436 worlds of `MCEngineSchema`, caps 2, 2 faults | 7 019 |
| `connection_profile` | `StatusSound`, `BundleMonotone`, `Settles` | status, job and bundle agree; what was asked for settles | 3 jobs, 2 versions, 1 or 2 workers, 1 crash | 406 843 |
| `rag_index` | `IndexSound`, `IndexFollowsBundle`, `OwnerKept`, `IndexEnds` | overlapping index tasks, retries and deletions leave rows that are owned and current; tasks end | 2 connections sharing one of 2 names, 2 versions, 2 tasks, 2 retries, 1 or 2 workers, 1 crash | 172 044 |
| `query_cache` | `CacheSound`, `StaleAnswersEnd`, `DeletedAreForgotten` | invalidation is complete, and nothing stale stays for good | 1 connection, 2 keys, 2 versions, TTL 2, 1 turn, 2 requests, 1 outage | 116 530 |
| `chat_turn` | `HistorySound`, `AnswersKept`, `CountedOnce`, `QuestionAnswered` | two turns, of one session or two, keep history, answers and counts | 2 sessions, 2 workspaces, 2 turns, threshold 2, keep 1, 1 cut | 695 254 |
| `doc_source` | `SourcesSound`, `ChunksReplaced`, `HarvestSettles`, `ChangesReachIndex` | harvests that leave files out, deletions, crashes and the watcher leave a source's chunks, status and watch as stated | 1 source in 1 workspace, 1 reload, 2 runs, no retries, 1 or 2 workers, 1 crash or partial crawl (`Faults`) | 278 169 |
| `doc_crawl` | `FailuresContained`, `DocumentsApart`, `CapKept`, `CrawlEnds` | each of nine strategies loses what failed and nothing else, and fails only for what it does not catch | 424 worlds of `MCDocCrawl`, cap 4, 2 faults | 54 270 |
| `report_sweep` | `RecordsTrue`, `OneMailPerMinute`, `DueIsTried` | what is recorded was delivered, mails are single without overlap, a broken schedule stops no other | 2 schedules, one mailed, clock 3, 2 sweeps, 1 or 2 workers, 1 crash | 457 514 |
| `mssql_read` | `NodeReadsEveryDialect` | violated: see below | those of `engines` | |

For each property `PROJECT.json` names a mutant: a definition that the run's module
states beside the one it varies (its comment begins with "Mutant"), under which the
property fails in that very run.

Why the bounds are enough. The budgets of the graph are those of the code at its
smallest interesting value: with 2 and 2 every mixture of validation and
execution retries occurs, and the proofs cover all others. Two connections are
enough for "another one": the first ready one, the chosen one, one outside the
scope. Three profile jobs give a task that overlaps an older and a newer one; a
crash may fall in a handler, in a task or on the broker. Two names let one index
task insert, update and prune at the same time. Two turns meet in one session, in
two, and across the summary's threshold. Two requests are what it takes for one
scan to meet entries another has left. One source is enough because sources share
no rows; two runs are a harvest and one that overlaps it. With two sub-queries and
two steps a step's result feeds another, `MaxRows` is exceeded by both, and each
name may be missing, shared or doubled (the code allows five of each). The caps of
the engines, the samplers and the crawls are met from below, exactly and from
above. `PoolSize` 1 lets a thread that never returns block every other threaded
call, which is the worst a pool can do.

The number of worker processes is chosen in `Init`, between one (`src/README.md:112`,
`--pool=solo`) and `MaxWorkers` (`src/DEPLOY.md:110` has four). `BundleMonotone`,
`IndexFollowsBundle`, `OneCrawl`, `ReadyCount` and `OneMailPerMinute` say in their
first line that they are about one worker; with more they do not hold, as
`DriftReachesIndex` below shows for the index.
`WatchedExist` is about reloads that come one at a time (`MaxReloads = 1`): of two
overlapping reloads the one that read first may apply last. Every run sets
`CHECK_DEADLOCK FALSE`: turns end, and jobs, tasks, sweeps and versions run out.
`chat_turn`, `engine_schema` and `federation_merge` check safety only, so their
specifications state no fairness.

### What the repository says and the code does not do

One run checks a sentence and finds it violated: `mssql_read`.
`engines/mssql.py:10-13` says a query is validated with `dialect="tsql"`; the
validator node (`agents/nodes/query_validator.py:38`) and the federated executor
(`agents/nodes/federated_executor.py:104`) pass `"mssql"`, a name sqlglot does not
know, so no question to a SQL Server gets past its validator while its plan declares
`"mssql"`; one that declares another SQL dialect is read as that.

Twenty-four more definitions state a sentence of the repository that the code does
not keep. They have no run of their own. To see one violated, check the module
under its run's configuration with that definition as the only property
(`PartialFailureIsSuccess` with `Hooks <- MCHooksBad`).

| Definition | Module | Sentence | What happens |
|---|---|---|---|
| `RetryFeedbackConcrete` | `AgentGraph` | `agents/nodes/query_planner.py:466-468` | the validator replaces the planner's message before the retry (`query_validator.py:19`) |
| `WideScopeFederates` | `AgentGraph` | `api/chat.py:460-462` | the coordinator overrides the override (`coordinator.py:123`) |
| `PinnedConnectionKept` | `AgentGraph` | `db/models.py:1030-1034` | the pinned connection (`report_task.py:272`) is read by no node |
| `EventuallyFlips` | `ConnectionProfile` | `src/BACKEND_SURFACE.md:198-200` | a crash between commit and message leaves a connection pending for good (`workspaces.py:440`) |
| `SlashRefreshRuns` | `ConnectionProfile` | `src/BACKEND_SURFACE.md:560` | the message is never sent (`chat.py:313`) |
| `IndexingDoesNotPoison` | `ConnectionProfile` | `workers/index_task.py:6` | a refused index message fails a job that succeeded (`profile_task.py:63`) |
| `ConnectionsIndexApart` | `RagIndex` | `services/rag/indexer.py:281-282` | a shared table name fails the second connection's task: the unique key has no connection (`indexer.py:298`) |
| `DriftReachesIndex` | `RagIndex` | `workers/celery_app.py:37-39` | of two overlapping tasks the older bundle may write last (`indexer.py:283`) |
| `NoStaleShape` | `QueryCache` | `services/query_cache.py:154-156` | a turn that began before the refresh stores after the invalidation (`query_executor.py:127`) |
| `DeletedLeavesNoChunks` | `DocSource` | `api/doc_sources.py:10` | a harvest under way inserts after the deletion (`doc_sources.py:321`) |
| `UnreadFilesKeepChunks` | `DocSource` | `workers/harvest_task.py:14-16`, `services/rag/indexer.py:184-187` | a file that could not be read once is left out, its chunks go with the wipe, and the source is ready (`doc_harvest.py:98-125`, `harvest_task.py:216-227`, `indexer.py:195-205`) |
| `GoneAreNotWatched` | `DocSource` | `api/doc_sources.py:231-234` | a reload that fails is logged and dropped (`doc_sources.py:239-244`), and the deletion of a workspace reloads nothing (`workspaces.py:306-314`) |
| `MessagesFailAlone` | `DocCrawl` | `services/doc_harvest.py:1195-1196` | only the connection and the login of a message are inside a `try` with an `except`; what else fails ends the harvest (`doc_harvest.py:1203-1287`) |
| `LinksAreFollowed` | `DocCrawl` | `services/doc_harvest.py:72-73` | a link beside its target yields the target's name twice (`doc_harvest.py:126-127`), which the unique key refuses |
| `RefreshRecovers` | `DocCrawl` | `workers/harvest_task.py:297-299` | after a token refresh the crawl starts again from its root, and the unique key refuses the names it has yielded (`harvest_task.py:364`) |
| `PartialFailureIsSuccess` | `ReportSweep` | `services/report_webhooks.py:14-16` | a malformed URL raises outside the `try` (`report_webhooks.py:365`), so a firing that was mailed fails and is mailed again each minute |
| `AnswerReachesClient` | `ChatTurn` | `api/chat.py:663-664` | when indexing the answer fails, the rollback expires the message, and reading its id raises (`chat.py:695`) |
| `BudgetAsDocumented` | `Engines` | `services/row_budget_validator.py:18-20`, `:229` | an aggregation that is alone, and a limit anywhere in the query, excuse it from the cap (`_has_strict_upper_bound`) |
| `ReadAsItIsRun` | `Engines` | `src/README.md:20-21` | the node validates as the dialect the plan declares (`query_validator.py:28-54`), the engine of the connection runs it (`query_executor.py:101-106`), and nothing compares the two |
| `DoneIsProfiled` | `EngineSchema` | `services/schema_profiler.py:27` | a GraphQL body of status 200 with errors, or an OpenAPI document without paths, is an empty bundle and a profile that is done (`graphql.py:143-149`, `openapi_parser.py:97-99`) |
| `NoKeyInvented` | `EngineSchema` | `engines/oracle.py:202-203`, `engines/postgres.py:108` | the joins go by constraint name: without `r_owner` (`oracle.py:217-218`), and over every kind of constraint (`postgres.py:118-122`) |
| `WrappersComeOff` | `EngineSchema` | `engines/graphql.py:397-398` | the introspection query selects one `ofType` for a field and three for a root field (`graphql.py:74-92`); a type in more comes back without a name |
| `EveryTableProfiled` | `EngineSchema` | `services/schema_profiler.py:26` | an unquoted `::regclass` (`postgres.py:95`) or a `COUNT(DISTINCT)` of json ends the whole profile |
| `CellsKept` | `FederationMerge` | `schemas/llm_io.py:123` | after a join whose sides share another column, both columns of that name show the left's cell (`federation_merge.py:129`) |

Some properties leave cases out; each case is a behaviour of the code, named in the
property. `KeysAsDeclared`, `SampleSaysAll` and
`SurvivesBadColumns` name those of the engines: namesakes and composite keys of
PostgreSQL and Oracle keys with a namesake at home may add keys that are not declared
(`Plain`, and `NoKeyInvented` above), a PostgreSQL role that does not own a table and an
Oracle key to another schema lose some, and a null counts among MongoDB's groups.
`WholeDatabase` leaves out an endpoint that denied its schema (`DoneIsProfiled`).
`OneFailureAborts` names the items whose failure ends a harvest (`Escapes`,
`MessagesFailAlone`). `OwnNames` leaves out the sources whose documents may share
a name (a table column, a list of URLs, OneDrive, IMAP, a link of a folder), which loses
the whole harvest. `AcceptedTwice` is about plans that declare the dialect of their
connection (`ReadAsItIsRun`). `BudgetKept` spells out what excuses a query from the
budget (`Excused`), independently of the code's operator, and `BudgetAsDocumented` says
where the module's own words are stricter. `WatchedExist` names the sources that went
and that no reload has read since. `OneMailPerMinute` leaves out schedules with a
malformed URL, and sweeps that overlap or die, which do mail twice; and
`MergedAsDescribed` tables in which one name stands for two columns. `WaitsEnd` leaves
out what waits for good (`NeverAnswered`): a PostgreSQL, MySQL, SQL Server or MongoDB
server that is gone, where the engine has no limit of its own on closing, and a SQLite
statement that does not end, for which `src/PLAN.md:124` promises a progress handler. The
IMAP client has no timeout either (`doc_harvest.py:1172-1175`): `CrawlEnds` takes its
server to answer.

## 4. Fairness

- `AgentGraph`: weak fairness of `Next`. The LangGraph runner executes every
  scheduled node, and every await of a node has a client timeout (OpenAI client,
  engine `timeout_s`, database pool). Nothing forces success.
- `ConnectionProfile`: weak fairness of a handler's second commit and of its
  message and of the diff's steps, strong fairness of the steps of a task. Strong,
  because a queued message competes for a worker: the queue is first in first out
  and every task has a time limit (`workers/celery_app.py:31`), so a message that is
  often deliverable is delivered. Users, beat, customers and crashes have none.
- `RagIndex`: strong fairness of the steps of each task, for workers and for row
  locks that are released again and again. Whether Triton answers is a choice
  without fairness; the retry limit is what ends a task.
- `DocSource`: strong fairness of a harvest's steps, for the same reasons; of the
  daily recrawl, which beat starts again each day whatever state it finds the
  source in; and of a timer's message, because a run slot, which stands for the
  broker's room, is free only now and then. Weak fairness of a timer's thread and
  of a reload under way. Users, folders and crashes have none.
- `ReportSweep`: weak fairness of the minute, strong fairness of a sweep's steps.
  Mail servers and webhooks owe nothing.
- `QueryCache`: weak fairness of time, of a turn and of a scan under way.
- `DocCrawl`: weak fairness of `CrawlNext`; a request may fail each time it is made, up
  to `MaxFaults`.
- `Engines`: weak fairness of each caller's next step (`Goes`), of threads whose
  database has answered, of the sweep's commit and of a deletion whose lock is
  free. A timer that is due fires. Nothing obliges a database to answer.

## 5. Proofs

`tlapm` checks every step of the seven modules `X_proofs` and of `SequenceLemmas`. In each
`X_proofs` an inductive invariant `IInv` is shown to hold initially and to be preserved, one lemma
per action, and `Invariance` combines them; the other theorems follow. Where a
property is stated for one worker, a second invariant (`OneInv`) holds beside `IInv`.
The assumptions are those the modules name (`BudgetAssumption`, `ProfileAssumption`,
`IndexAssumption`, `CacheAssumption`, ...): bounds are natural numbers, sets of
workspaces, sessions or sources are not empty, a folder has finitely many names; those
of `Engines` (`JobsAssumption`), of `EngineSchema` (`WorldsAssumption`), of `DocCrawl`
(`CrawlWorldsAssumption`) and of `FederationMerge` (`FederationAssumption`) say what a query,
a database, a source, a plan and a result are made of. TLC evaluates each of them on the instance of a run.
The library's induction theorems take an operator, which the provers cannot
instantiate; where a proof needs induction it takes the least counterexample instead
(`LeastOne` and `LeastSet` of `SequenceLemmas`).

| Theorem | Property | Rests on |
|---|---|---|
| `AgentGraph_proofs`: `TypeCorrect`, `BudgetsHold`, `OnlyValidatedPlansRun` | `TypeOK`, the retry budget, `ExecutesValidatedPlan` | `IInv` |
| `TurnRefinement` | `AgentTurn`'s safety part | every action maps to `Draft`, `Execute`, `Close` or a stutter |
| `ConnectionIsRight`, `ResultsAreShown` | `RightConnection`, `ResultShown` | `ChosenInv`, `ShownInv` |
| `InvalidationsAreComplete` | `CacheSound` of `QueryCache` | `MarkInv` in `CacheIInv` |
| `MergeInvariant`, `MergeIsSound` | `MergeSound` of `FederationMerge` | `MergeIInv`, `Agree`, `JoinBag`, `UnionBag`, `ConcatBag`, `CapFacts` |
| `AcceptedPlansAreMerged` | `AcceptedPlansMerge` of `FederationMerge` | `MergeIInv`, `Agree`, `RaisesIsSenseless` |
| `ConnectionProfile_proofs`: `StatusIsSound` | `StatusSound` | `JobInv`, `BundleInv`, `LiveJob` |
| `BundleNeverGoesBack` | `BundleMonotone` | `OneInv` |
| `RagIndex_proofs`: `IndexIsSound`, `RowsKeepOwner` | `IndexSound`, `OwnerKept` | `InserterInv`, `LoadedInv`, `HeldInv` |
| `IndexIsTheBundle` | `IndexFollowsBundle` | `OneInv` |
| `ReportSweep_proofs`: `RecordsAreTrue` | `RecordsTrue` | `DeliveredInv`, `OkInv` |
| `OneMailForAMinute` | `OneMailPerMinute` | `AloneInv`, `MailInv` |
| `ChatTurn_proofs`: `AnswersStay`, `TurnsCountOnce`, `QuestionsAreAnswered` | `AnswersKept`, `CountedOnce`, `QuestionAnswered` | `TurnInv` of every turn |
| `HistoryIsSound` | `HistorySound` | `HInv` beside `IInv` |
| `Engines_proofs`: `CallsAreSound` | `CallsSound` | `Held`, `Drifting`, `SweepInv` |
| `AcceptedIsKept` | a query its node lets through is answered as asked where its language is spoken, and its engine takes it if it was declared as what the connection is | a lemma for each of five languages |
| `AnswersAreSound` | `AnswersSound` | `AcceptedIsKept`, `CallOK`, `AnswerOK` |
| `BudgetIsKept` | `BudgetKept` | `Admitted` in `CallOK` and `AnswerOK`, `SameSum` |
| `ConnectionProfile_proofs`: `ProfilesAreSound`, `KeysAreAsDeclared`, `SamplesSayAll` | `ProfileSound`, `KeysAsDeclared`, `SampleSaysAll` of `EngineSchema` | `ProfileInv` |
| `DocSource_proofs`: `SourcesAgree`, `ChunksSurviveFailures` | `SourcesSound`, `ChunksReplaced` | `SoleInv`, `HarvestInv`, `WatchInv` |
| `FailuresStayContained` | `FailuresContained` of `DocCrawl` | `AccountInv`, `LostInv` |
| `DocumentsStayApart` | `DocumentsApart` of `DocCrawl` | `ApartInv`, `DocsInv` |
| `CapIsKept` | `CapKept` of `DocCrawl` | `ShapeInv` |

**AgentGraph.** The budget and `ExecutesValidatedPlan` are not inductive: nothing in
them says what holds while the planner or the validator runs. `IInv` adds one
conjunct per stage: the frontier is one node, or a subset of the fan-out; while the
planner is scheduled fewer than `MaxExecutorAttempts` executions have failed, and
validation retries have kept the planner's counter below `MaxPlannerAttempts` plus
the failed executions; at the validator `plan` is empty or the current attempt; at
the executor the plan is the validated one; on the federated path bundles and plan
lie inside the scope. `ShownInv` follows a result on its way: it is that of the last
draft, only the fan-out and the finalizer remain, each branch that is done has left
its part, and nobody writes an answer for a result that is not there.

**ConnectionProfile.** `InProgressHasJob` needs to know which job will move the
status on. `LiveJob` strengthens it: a status in progress has an open job whose
handler, message or task is still to assign a status it did not load. `JobInv`
ties job, handler, message and task of one number together, `BundleInv` says that
a task that has persisted its bundle, and a ready connection, find a row as long as
the connection exists. With one worker at most one task or the diff is under way, so
what it has read is as new as the stored bundle until it stores it.

**RagIndex.** `OwnersLive` and `OwnerKept` depend on what a task read earlier. An
UPDATE goes by the id of a row read before the embedding; that row may have been
deleted and its name taken by another connection since. `InserterInv` says that
each row was inserted by a task of its owner that has started, and a started task
keeps its connection; so a row whose id matches one the task compared (`LoadedInv`)
belongs to the task's connection. `HeldInv` says what a task has written and not
committed: free rows or its own, held by no other task, of a connection that a
deletion has to wait for. With one worker, until a task of a connection fails, a
task with the newest bundle is to come, is under way, or has left the index as the
bundle says (`UpToDate`).

**QueryCache.** `MarkInv`: an entry older than a scan lies in the keys the scan has yet
to visit, unless Redis has failed; a scan ends when it has none left.

**FederationMerge.** The state changes little: `MergeIInv` says that only an accepted plan
runs and that what ends is the capped merge of all its answers, or none. The weight lies in
the operators. Each kind of merge is shown to be its relational meaning on the bags of rows
it makes, for all tables in which no name comes twice: the join by pairing every place in
its output with the pair of rows it came from (`JoinSpots`, and `Rearranged`, which says that
two families of rows differ in their order only), the union by the first place of each row
(`Firsts`), the stack by adding up both sides widened with `None` (`BagOfWidened`). A step
raises just where its meaning has none (`RaisesIsSenseless`). `AgreeAlways` then goes along
the steps of a plan: after each, either both the code and the meaning have failed, or every
name is bound in both and stands for the same relation, made of the same sub-queries, and
truncated if one of them was; a name the checks let pass is one of those. Folds here are
recursive functions on `0 .. n`; that these exist and satisfy their equations is proved too
(`BindingsFacts`, `MeaningsFacts`). The cap leaves a part of the bag of just the right size
(`CapFacts`, with `SumOfBag`). A sub-query may itself return two columns of one name, as
`SELECT *` over a join does; the code reads both by the first one's position and the bags
differ (without that exception `MergedAsDescribed` is violated). The description of the
steps says nothing of such tables, so the properties leave them out, and `CellsKept` states
what is lost.

**ReportSweep.** A firing that counts as sent was delivered for the latest minute its
sweep saw (`DeliveredInv`): its mail was taken, or, where a schedule mails nobody, some
webhook took it. Nothing takes that back, and a later sweep only looks at later minutes,
so it stays true of the record (`OkInv`). A webhook that fails beside a mail that was
taken does not change the status, in the code (`report_webhooks.py:14-16`) as here. For
single mails, a sweep that runs alone knows when each schedule it has still to record
last fired (`AloneInv`), so a mail sent is recorded, about to be recorded, or of a
schedule that is gone (`MailInv`).

**ChatTurn.** `IInv` says of each turn what its stage implies: who else may sit in a
session that is not stored yet (`SeatInv`), what is undecided (`StageInv`), which
messages it has stored and in which order of transactions (`MessageInv`), what it
leaves behind when it is over (`KeptInv`), when recall may show it (`RecallInv`) and
how often it was counted (`CountInv`). A step of one turn keeps the invariants of the
others because it only adds messages of its own. `HistorySound` compares counts: the
summary covers so many of the oldest messages, the window so many of the newest. They
name sets only because no two messages have the same time (`TimesInv`), so that a
message is among the newest by its rank (`NewestFacts`). `HInv` also says what was read
before a summary, that the clock ticks at most three times a turn (`ClockInv`), and that
a conversation has at most two messages a turn.

**Engines.** `AnswersSound` is about one query that is validated twice, limited and then
answered. `AcceptedIsKept` takes it language by language: what the node's validator has
rewritten, the engine's own validator takes and rewrites no further, except for a limit
that both put in, and then the server's cap leaves what was asked for. `CallOK` carries
this through a call, whatever fails in between: its position lies in its engine's script,
it knows how it ends before it closes, and a REST call counts its tokens
(`TokensCounted`). `Admitted` carries the verdict
of the node: a query that goes on to its engine was let through by it, one that was
refused was not. What the budget adds up, an estimate for each name, is then compared with
what the query reads, a count for each table: while each name is that of one table, the two
sums have the same summands (`BudgetCountsScan`, by `SameSum`). `CallsSound` needs to know who has what is open: a call that has begun
(`Held`) or a thread nobody waits for (`Drifting`). The sweep's stamps and what it has yet
to probe are together what it listed, once each (`SweepInv`).

**EngineSchema.** None of its three properties is inductive. `ProfileInv` says that each
element of the bundle is the whole of a table the database has (`TablesInv`), that each of
its cells has a sample or waits for one, and waits once (`LeftInv`), and that the queries
under way are those of the column that is next (`TryInv`). What one sample may list is
proved of every reply a server can choose (`ListsWhole`, `TermsWhole`), and the joins of
the catalogue queries of each dialect, of every set of keys: no key of a kind the engine's
joins can follow is missed (`KeysFoundAreAll`), and where no namesake is in the way none is
added (`KeysFoundAreDeclared`). A bundle without tables is whole only if the endpoint
denied its schema (`Untold`).

**DocSource.** With one worker one harvest is under way (`SoleInv`); its source waits
for it, its DELETE took all there was, and what it has stored is what the source has
(`HarvestInv`). With one reload at a time, whoever is watched, or about to be, exists or
went after the list of sources was read (`WatchInv`); the reload that reads the list again
is what makes `unread` empty. `ChunksSurviveFailures` holds for any number of workers:
chunks go with their source or its workspace, or in the commit that puts all the harvest
has read in their place. It does not say that the harvest has read every file:
`UnreadFilesKeepChunks` would, and the code does not keep it.

**DocCrawl.** `CrawlInv` is proved for every world that `CrawlWorldsAssumption` admits, so
for folders of any depth, pages of any length and any number of failures. Its two halves
look in opposite directions. `ApartInv` looks ahead: the pages not listed yet share nothing
with what was handed on (`AheadInv`), nor do two documents, or a document and what is left
of the page (`OutInv`), and outside the drives no container is met twice (`WayInv`; a drive
keeps the containers it has visited instead). That is what makes `NothingTwice` inductive;
`DocsInv` adds what each document is made of, hence whole threads and names of their own.
`AccountInv` looks back: every item and every folder of a page that was listed has been
handed on, has failed, or is left of that page or on the stack; when the crawl ends with
room under the cap nothing is left, and the visited containers are closed under "has a
folder that did not fail", so they hold all that could be reached. For a channel, whose days
are read together, `LostInv` says that what is not listed has not failed. After a token was
replaced the counter starts again while the documents stay, so `ApartInv` and the cap are
promised until then only, and `AccountInv` of the second stream; `RefreshRecovers` is what
that costs. How each strategy makes units of a page, with its filters, limits and groups,
is a lemma for each kind (the lemmas that conclude `Listed`). A failure the strategy does
not catch ends the crawl at once, so nothing need be accounted for after it; that only
the items of `Escapes` can end one so is the guard of `ReadAborts`.

**Only model-checked.** All liveness (`Settles`, `IndexEnds`, `HarvestSettles`,
`ChangesReachIndex`, `DueIsTried`, `StaleAnswersEnd`, `DeletedAreForgotten`,
`CrawlEnds`, `WaitsEnd`, `DeletesProceed`, and the fairness part of
`ImplementsTurn`): liveness and `ENABLED` are out of the proof system's reach. Every
safety property of a passing run has a theorem.

## 6. What is left

1. `SchemaPipeline`: `ConnectionProfile` and `RagIndex` composed on the index message,
   for recovery from a crash between bundle and message.
2. `scope_resolver`, `differ` and `citations` as operators against reference
   definitions, instead of by what they return.
3. Workspace CRUD and uploaded data files; the API catalogue in `rag_chunks`.

## 7. What is not modelled, and why

- Prompts, SQL and other query text, chart contents, wording: data the properties do not
  tell apart. Inside `AgentGraph` validators and engines are the choice of their result;
  what they do is in `Validators` and `Engines`.
- LLM client: one request with one repair turn; the planner sees an object or an error.
- Retrieval ranking, text extraction from documents, chunking: they change a prompt,
  never control. Uploaded documents are replaced in one request with one commit.
- Checks of a new document source's configuration, dashboards, saved questions,
  administration, settings, clusters: one row, one commit.
- Authentication, cryptography, cloud credentials: libraries and token exchange.
- Audit rows: written and not read. The MCP server's other tools: read-only queries.
- Frontend, Helm charts, manifests, design assets: no server logic.
- What a database driver does on the wire, and the conversion of cells.

Known hazards without a passing property:

- A job that finishes reports the status two jobs share (`workers/profile_task.py:163`).
- A crash between a stored bundle and the index message is not repaired by the next
  diff, which sees no drift (`workers/diff_task.py:77`).
- A schedule that never fired looks back one minute only, so a sweep that comes later
  misses its first firing (`workers/report_task.py:114`); `DueIsTried` is about
  schedules that have fired.
- A client that leaves before the stream ends may leave its question without an answer
  and its turn uncounted (`api/chat.py:719`); `CountedOnce` and `QuestionAnswered` are
  about turns that were not cut off.
- A timer that already fires is not stopped by `cancel`, so a source may be harvested
  once after it was removed (`services/file_watcher.py:116`); the harvest finds no row.
- A crawl that starts again after a token refresh (`workers/harvest_task.py:364`) is
  `RefreshRecovers` above.
