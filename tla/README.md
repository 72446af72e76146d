# A TLA+ model of Pando-AiAgent-Worker

The program is a FastAPI worker that runs AI agents. Messages come in over
WebSocket, HTTP, timers and background agents; a message bus hands each of them
to an agent that belongs to the message's session; the agent asks a model, calls
tools and keeps the conversation in a session store. A second large part analyses
code repositories in the background. Almost everything is `asyncio` in one
process: a coroutine runs alone from one `await` to the next, and every `await`
lets the others in.

This directory holds TLA+ modules for the parts whose behaviour depends on that
interleaving, TLC configurations that check them on small instances, and proofs
that TLAPS checks for every value of the constants. `PROJECT.json` maps every
definition to the lines it stands for.

## Inventory

(sources are below `src/app/`)

| Component | State | Operations | Meets | What is hard | What makes it correct |
|---|---|---|---|---|---|
| Message bus `agents/bus` | inbound and outbound queues, a mailbox, a worker task and an activity time per session, run semaphore, running and free agents | push, dispatch, worker loop, idle retirement, run, /stop, /status, pool cleanup | channels, cron and subagents push; agents run inside | idle retirement against dispatch, full mailboxes, a stop for a run that just ended, failures in the middle of handling | one worker per session, messages of a session handled one at a time and in order, nothing lost but the oldest of a full mailbox, pools agree with what runs |
| Sessions `agents/sessions` | per session: messages, compaction summary and how much it covers, consolidation mark; cache and file, or a database row | create, update, add message, get, list, delete, clear, compact, prune | agents, routes, reminders and consolidations work on the same session at once | a model is awaited between read and write; two stores with different sharing; threads write files; crash | history complete and in order, the summary stands for what it hides, marks count messages, saved means saved |
| Agent loop `agents/core` | state, step counter, stop flag, retries after context overflow | run, think, act, force stop, push history | bus calls run; tools, chat model and session store are awaited | stop between any two awaits, errors in the middle of tool calls, overflow and retry, maximum of steps | every run ends in a clean agent, tool calls and results in the history pair up |
| Subagents `agents/core/subagent.py` | table of background tasks per session | start, cancel, run, announce | result goes back into the bus as a message | failure before the guarded part, cancellation, announce during shutdown | the parent hears of every task exactly once |
| Long-term memory `agents/memorys` | workspace and agent memory files, the mark on the session | consolidate | started in the background at the end of every run | overlapping consolidations of sessions that share files | no message skipped, no update of another session lost |
| Chat models `infrastructure/llms/chat_models` | none across calls | chat, stream, retry, sanitise history | agent loop, compaction, memory | which errors are retried, histories cut in the middle of a tool call | the request's history is one the provider accepts |
| MCP pool `agents/tools/mcp` | connection entries, use times, locks | get or connect, idle cleanup, stop | tools of pooled agents keep the session | cleanup of a connection that is in use | a connection in use is not closed |
| Tools `agents/tools` | files, todo lists, processes | one call each | agent loop | pages cut twice, edits of several steps, patches of several files | paging shows every line, a refused edit leaves the file, a patch does what its chunks say |
| WebSocket channel `channel/websocket` | one connection per session id, idle timer | connect, receive, send, disconnect | pushes to the bus, receives its outbound messages | reconnect while the old handler ends, send tasks out of order | the newest connection of a session stays |
| HTTP channel `channel/Restful` | none | chat | session store, chat model | adds messages beside the agent | as sessions |
| Cron `domains/cron` | job table file with cache, wake-up task | add, remove, enable, run now, tick | executor pushes to the bus or adds a reminder | edits while a job executes, load-modify-save from threads | a removed or disabled job does not run, no edit lost, a due job runs once |
| Repository scan `domains/code_analysis/services/repo_analysis_service.py` | status row per repository, task table | start, stop, scan, delete | file state rows for the workers below | status row as a lock, forced stop, crash | one scan per repository, status tells the truth |
| File analysis `.../file_analysis_service.py` | task table, semaphores, status per file row | start, stop, claim, process, finish | rows written by the scan | claim of the same file, cancellation, crash | a file is analysed by one worker, every changed file is analysed again |
| LSP clients `.../lsp` | clients per language server, pending requests, open documents | get or create, open or change, request, notify, close | code analysis tools | spawn without a lock, timeouts against late answers, versions | one server per root, each answer to its own request |
| Repositories `.../repo_mgmt` | rows, upload directories, tokens | create, update, delete, save token | scan and analysis work on the directories | row and directory change in different awaits, names are looked up before | a row has its files, names and tokens are unique |
| Redis `infrastructure/redis` | streams, locks | produce, consume, requeue, lock | task queues | retries of what was done, lock expiry | one holder, nothing lost |
| Chunks, vectors `.../codechunk`, `.../codevector` | records of a file | cut, store, replace, delete, search | file analysis, vector store | delete and insert are separate requests, failures nobody looks at | chunks leave nothing out; what was stored is found |
| Code graph `.../codegraph` | nodes and edges with the number of a generation | generate, delete, query | scan, tools | files change during a generation, which may fail | the graph shows what the files hold |
| Database, vector stores, storages `infrastructure/{database,vector_store,storage}` | one shared client each | connect, examine, reconnect; record and object operations | everything | reconnection under users, retries after a lost answer, writes in stages | one connection at a time, no operation on a closed one, told means done |
| Embedding, rerank, vision, speech; Celery, web search; AST analyzers, summaries | instances of adapters | encode, similarity | vectors | answers that lack entries or are out of order | the k-th vector is the k-th text's |
| Start and stop `main.py` | background tasks, connections | start loops, cancel them, close | all loops | order of shutdown against workers that no loop owns | nothing runs, nothing is open afterwards |

## The modules

One action is the code between two awaits that really suspend. An
`asyncio.Lock` that is only held over code that never suspends is not modelled:
what it guards is one action anyway. Data is reduced to what the properties tell
apart: a message is its number or its role, a summary is the set of messages it
was made from, a file is its version. Every bound is a constant that appears in
a guard. History variables are marked as such where they are declared; no action
tests them.

| Module | Models | Kind |
|---|---|---|
| `SessionSerial` | what the bus promises of one session (queues.py:35-39) | abstract |
| `MessageBus` | `agents/bus/queues.py`, pools of agents included | detailed, implements `SessionSerial` |
| `SessionOps` | what the operations do to a `Session` value | operators shared by both stores |
| `SessionLog` | what a session promises | abstract |
| `SessionFileStore` | `SessionManager` over the JSON files: cache, shared objects, threads that write | detailed, implements `SessionLog` for the calls an agent's run makes |
| `SessionRowStore` | `SessionManager` over the database: a copy per call, column-wise updates | detailed, implements `SessionLog` for one writer |
| `HistorySanitizer` | messages, and `_sanitize_history` of the chat model as a fold | operators |
| `AgentRun` | what the bus relies on in an agent | abstract |
| `ReActAgent` | the loop of `agents/core`: think, act, history, faults, stop | detailed, implements `AgentRun` |
| `FileAnalysis` | file analysis workers, and what the scan and the deletion do to their rows | detailed |
| `Cron`, `WebSocketChannel`, `McpPool` | the services that run beside the agents | detailed |
| `SubAgent`, `MemoryFiles` | tasks and consolidations that a run leaves behind | detailed |
| `FileTools`, `PatchTool` | file_read with its second truncation, the four editing tools, apply_patch | detailed |
| `ModelClient` | one call of a chat model: retries, streams, tool calls in pieces | detailed |
| `ModelAdapters` | embedding and rerank classes; which model a request gets | detailed |
| `RepoScan`, `LspClients`, `GitRepos` | scans, language servers, repositories and tokens | detailed |
| `CodeChunks`, `VectorIndex`, `CodeGraph` | chunks of a file, its vectors, the graph of a repository | detailed |
| `StoreConnection`, `RecordStore`, `ObjectStore` | the shared client of a store; records; objects | detailed |
| `Work` | the stores with what is kept in them, and the models, side by side | composition |
| `RedisClient` | the lock and the queue of the redis client | detailed |
| `AppServices` | startup, shutdown and the database connection everybody shares | detailed |
| `MC...` | small instances for TLC | |
| `...Proofs` | theorems and their proofs | |

How they fit: `MessageBus` holds an agent as its step counter, its stop flag and its
reset, which is `AgentRun`; `ReActAgent` implements that. `ReActAgent` sees its session
as a history that it, others, and a failing store change one message at a time; the two
stores say which of those changes really happen, over the operations of `SessionOps`.
`SubAgent` and `ReActAgent` send their histories through `HistorySanitizer`.
`FileAnalysis` takes a replacement of a file's vectors for a deletion and an insertion,
which `VectorIndex` and `CodeChunks` take further apart, and a scan for what it writes
into a row, which `RepoScan` takes apart. `VectorIndex` and `RecordStore` presume a
client, which `StoreConnection` makes. The parts are checked one by one: composed into
one state space they would be out of reach, and the abstract modules are the seam.

### Message bus

`inbound`, `outbound` are the two queues; `mailbox`, `worker`, `age` are
`_session_mailboxes`, `_session_workers` and the activity times; `pc`, `held`,
`waited` are the local state of a `_session_worker` task; `sem` is the queue of
the run semaphore; `running`, `free` are the agent pools, with `uses`, `key`,
`step`, `stop` for the agents in them. `HandleStatus`, `HandleStop`,
`RejectInbound` and `Dispatch` are the branches of the inbound loop;
`TakeMessage`, `RetireWorker`, `RearmWorker`, `LookupFails`, `BeginRun`,
`AgentStep`, `EndRun` the stretches of a worker; `GrantPermit` the semaphore;
`CleanPool` the cleanup of free agents; `Tick` the clock.

### Sessions

`SessionOps` has one operator per operation of `session.py`, `manager.py` and
the consolidation. In the file store coroutines hold a reference (`on`) to a
`Session` object; several objects can exist for one session after the cache is
emptied; a save takes a `copy` and hands it to a thread, which truncates and
then writes the file. In the row store every call works on its own copy, and a
save is a select, a comparison and an update of the columns that differ.
`CanDo` says which coroutine calls which operation, so that a configuration can
choose the company a session keeps.

### Agent loop

`pc` is the place in `run`; `history` is the session as the agent's saves and
everybody else leave it; `shown` is what the user was told. A reply of the model
is plain text or one of `Batches`. `Think` asks the model with the request that
`Context`, `Prompt` and `Sanitize` build from the history; `ExecuteTool`,
`SpecialTool` and `ActDone` are `act`; `Limit`, `Answer`, `Recover`, `Error` and
`Finally` the ends. `OthersAdd`, `ClearHistory` and `StoreRaises` are the world
outside, `ForceStop` the `/stop` of the bus.

### File analysis

`row` is the status row of a file: `due` says that `last_finished_at` is missing or
older than the file, which is what the scan tests. `worker` holds the local state of the
`_worker_loop` coroutines with the loaded copy (`id`, `seen`); `pool`, `queue`,
`permits` are the pool tasks and the semaphore. A worker goes `Select`, `Mark` (the
conditional update), `Load`, `Open`; then, for lines and for symbols, `DeleteOld` and
`InsertNew`, or `NothingNew` when the file yields none of the kind; then `Finish`; or
`RemoveRow`, `Wipe` when the file is gone. `store` says of each kind which version of
the file all vectors are there of, whether there are others (`rest`), and whether the
last replacement left the old ones (`kept`): code_vector.py returns before it deletes
when there is nothing to insert, and nobody looks at a deletion that failed.
`ScanFile`/`FlushScan` are the two halves of the scan's read-modify-write. `PoolFails`
is what `asyncio.gather` does when one worker raises: the pool ends and gives its permit
back, the other worker goes on alone (`member = FALSE`). `raced` and `requeued` are
history variables; no action tests them.

### Cron, WebSocket channel, MCP pool

`Cron`: the loop (`LoopStep`), the store calls of the editors and the tick in
their threads (`StoreStep`), on a heap of job objects, because cache, due list
and a running edit refer to the same object or to copies of it. A cron
expression is a period. `WebSocketChannel`: a handler per socket, a task per
outbound message, and the two halves of `disconnect`, which names the session
and not the socket. `McpPool`: fetches of one key, its lock and the idle cleanup;
times are ages that stop once they are past the timeout.

### Subagents and memory

`SubAgent` follows every task of `spawn` through think, act, compaction and
announcement. `MemoryFiles` follows consolidations through their three files and the
mark of the session; a file is the set of messages it has taken in. Sessions share the
files. An answer of the model may have text for some of the files only, and a write that
fails has emptied its file: `missed` records what a file is without for these two
reasons. `calm` says that nothing happened to a session that the code has no answer to:
overlapping consolidations, or messages during its own.

### Tools

`FileTools`: a model pages through a file (`ReadPage`), and sees of each page what
`Truncate.output` leaves of it. That the model goes on at the offset the note names, or
else behind the last line it saw, is an assumption on the model: no code makes it do so.
Sizes are small numbers in the order of the real ones. The editing tools read, change
and write a file without an await, so each call is one action; a write that fails has
opened the file, and leaves a beginning of what was to be written. `PatchTool`: parsing,
computing all changes, then writing them one by one.

### Models

`ModelClient`: construction, requests made again, and a stream from the first
piece to what the agent takes from it. `ModelAdapters` describes each of fourteen
embedding and ten rerank classes by a record of where it differs, so that one set
of actions stands for all. Its second half is the factory: the choice between what
was asked for and the default, and the instances kept for an hour.

### Repositories

`RepoScan`: the calls `start`, `stop` and `delete`, the task, the table of tasks and
the status row. `LspClients`: one server, root and document; the table, the
futures and what the server has heard. `GitRepos`: uploads and their directories,
renames, deletion, tokens. `CodeChunks`: one action per chunk and per line the end
moves down. `VectorIndex`: each request of a replacement is a step. `CodeGraph`: a
generation goes file by file while files are edited and the database fails.

### Stores

`StoreConnection`: Elasticsearch, OpenSearch, MinIO and S3 behave alike but for
what they await while they replace their client; the engine is chosen at the
start. `RecordStore`: updates by id and by condition, deletions, searches, with
requests made again after an answer was lost. `ObjectStore`: five providers.
`Work` puts them beside `CodeChunks`, `VectorIndex`, `CodeGraph` and `GitRepos`, with
which they share no variable, and `ModelClient` and `ModelAdapters` beside each other.
`RedisClient`, the lock and the queue: commands fail before or after the server carried
them out, keys expire, consumers die.

### Start and stop

`AppServices`: `DatabaseFactory` with its lock (`EnterLock`, `Pragmas`, `Probed`,
`Disposed`), `close_db`, which does not take it, and startup and shutdown await by
await. Users of the database go on until the process ends, since session workers,
subagents and file workers are not stopped.

## What TLC checks

| Run | Instance | Shows |
|---|---|---|
| `bus_safety` | 2 sessions, 2 agent types, 3 tasks, 3 agents, mailbox of 1, 1 permit, 3 messages of every kind | `OneWorkerPerMailbox`; `HandlingSound`: an error is the last word on a message, the semaphore serves its queue; `AgentsAccounted`: pools agree with what runs, a stop dies with the run it hit; the bus implements `SessionSerial` |
| `bus_liveness` | as above with 1 agent type, chats only | every accepted message leaves the bus; silent sessions give mailbox and worker back |
| `session_shared` | file store: agent, consolidation and reminder on one object, 4 messages, failing writes | acknowledged messages stay in memory; the object behaves like the log |
| `session_route` | file store: agent against clear, list and delete, 3 objects, a restart, failing writes | whatever object a coroutine works on and whatever file a restart finds, no history is reordered or holds a message twice |
| `row_everybody` | database store: agent, consolidation, and a route that adds, clears and deletes, 3 messages, failing commits, a restart | the history in the row stays in order |
| `row_alone` | database store: one coroutine with every operation, 6 messages, 2 restarts, failing commits | the row implements the log and holds every acknowledged message |
| `agent_runs` | 2 runs of 2 steps, batches with two calls, a question and an end, 1 act of others or failure of the store | `RequestSound`: no request has a result without its call, and the question of the run is in each, in its summary, or older than its window; `ResultsBelong`; `EndIsSaid`: a run that ends by itself has told the user, the notice about the limit appears when the budget is spent; the agent keeps `AgentRun`, every run ends |
| `file_analysis` | 1 file, pools of 2 workers and a third worker left behind, 3 of: an edit, a scan, a failure or crash, a deletion | `ClaimsExclusive`; `RowsTell`: a completed row that is not due has all vectors, of both kinds, of the file as it is, and others only where the last replacement found nothing to insert or its deletion failed; a row nobody works on is due for the next scan; `Claimed`: a pending row is claimed |
| `background_services` | cron: 2 jobs, 1 editor, 3 edits, 1 crash or failing write, a clock up to 3; WebSocket: 2 sockets of a session, 2 answers; MCP: 2 agents, 3 connections | see below |
| `background_work` | twenty-one parts, see below | see below |
| `agent_unpaired_calls` | as `agent_runs` | violation, see "Disagreements" |
| `analysis_deletion` | as `file_analysis` | violation, see "Disagreements" |

The last two passing runs exercise one part per behaviour: a variable `part`,
chosen in the initial state and never changed, says which, and the others rest in
their initial states. The state spaces add up instead of multiplying, and nothing
is lost, since these parts share no variable. Where a component has several
initial states, they are fixed while another part is exercised.

`background_services`: `CronJobsKept` (an added job is in the file until it is
removed, and stays removed; the cache says what the file says), `CronRunsRight`
(a job with a time is executed once, a disabled one not), `WsServed` (the client
that waits is the one that is answered, and nobody else's cleanup closes its line,
unless two sockets of a session overlapped), `McpShared` (one connection, and no
fresh one closed), `CronRuns` and `ServicesGoOn` (a due job runs, the handler of a
lost client ends, an agent that asks for its tools goes on). The properties of cron
are about behaviours in which store calls do not overlap and no write is cut off,
because the store has no answer to either; the constraint `CronOrderly` leaves out
what lies behind a state that is not orderly. It loses nothing: `orderly` never
becomes true again, each safety property holds trivially behind such a state, the
first such state is itself checked, and `CronRuns` is satisfied by it.

`background_work`, by invariant and part:

| Invariant | Part | Instance | Says |
|---|---|---|---|
| `SubTaskSound` | subagent | 2 tasks, 3 steps, batches of 2 | one notice per ended task, unless its model could not be created; every request paired; what was said is in it or once in the summary, but for results that a compaction cut off from their call |
| `MemSound` | memory | 2 sessions, 2 consolidations, 3 messages, 1 failure or clear | what the mark has passed is in all three files, but for what an answer left out and what a failed write destroyed |
| `PatchSound` | patch | patches of up to two sections on a file of six contents, 1 failing write | a rejected patch changes nothing, a change is its chunks, success is on the disk |
| `FileToolsSound` | pages | files of up to 13 lines, pages of 9 lines or 44 bytes | paging shows every line and ends |
| | edits | 42 files, calls of one and two steps | a refused edit leaves the file, an edit is its steps, a failed write leaves a beginning of its text |
| `ModelsSound` | client | three providers, four operations, 2 tool calls in 2 pieces | calls as the model made them, none lost but for closing tags in arguments and shared ids; text outside the reasoning, nothing asked again once a stream began |
| | adapters | up to 4 texts, 3 attempts, 3 failures | vectors in order and in place, scores of their own text, one vector for a query but for two classes |
| | factory | 2 providers, 2 models, every list and switch | the model that was asked for, none that is switched off, instances shared for an hour |
| `ScanSound` | scan | 3 paths in 2 directories, commits of 2, 2 requests, 2 tasks, 2 edits or faults, directories that come and go | one scan per repository; a running row has a scan, with five named exceptions; every file has its row, and other rows are left in three named cases |
| `LspServed` | lsp | 2 calls, 3 servers, 2 faults | no server without an owner, versions rise, nobody gets another's answer |
| `StoresSound` | chunks | every file of up to 4 lines of nine kinds | chunks leave nothing out, go on, are not too long |
| | vectors | 2 callers, 3 calls, 3 versions, 3 failures | what was stored alone is found |
| | es | 2 users, 6 clients, 4 events, each engine | one connects at a time, clients accounted for |
| | records | 2 records, 2 calls, 2 attempts, 1 failure | told means done, an entry is added once per answer |
| | objects | five providers, 2 calls, 2 failures | the last write stays, reads are whole |
| | repos | 2 names, 3 requests, 2 failures | a row has its files, names are unique |
| | auth | 3 saves and deletions | the last token saved is found, unless saves overlap or a look-up fails |
| | graph | 2 files, 4 contents, 2 generations, 2 edits | the graph shows the files; a failed generation loses nothing |
| `LockExclusive` | lock | 2 owners, 7 events | who was told it has the lock has it |
| `QueueKeeps` | queue | 2 messages, one malformed, 2 consumers, 2 failures | nothing accepted is lost |
| `AppServicesSound` | services | 2 users, 5 events | get_db has a connection before close_db, no engine is left behind, no loop survives |

The bounds. A mailbox of one, one permit and three messages make every mailbox
overflow, every session wait and a task retire between two messages; a third
task is needed because a retired worker and its successor coexist. Four messages
with `KeepLast = 1` let a session be compacted twice with a message between.
Two runs of two steps let one run leave something behind for the next, and let
the limit, an overflow and a final answer meet. Two pooled workers compete for
one file, which is where claims, requeues and late finishes meet; files share
nothing but the pool. Of its four versions one has no symbols and one nothing to store.
With one repository in that run, the competition of pools
of *different* repositories for the permits is not covered. In `background_work`
two callers and two or three calls are what the races need, and one failure more
than a retry can make good. A commit after 2 rows lets a scan end on a commit and
between commits. A page limit of 9 lines and 44 bytes is reached by lines before
bytes and by bytes before lines, and both make the second truncation cut the note.
Files of four lines let a chunk of two be extended, overlap and end with the file.
Every safety property of every run is also proved, where no such number is fixed.

### Fairness

Weak fairness only. In the bus: the loops and the workers (the event loop
resumes every task that can run), the semaphore's grant (asyncio serves waiters
first in, first out), and the clock. Pushing a message is not fair. `Tick` waits
until workers with mail have taken it: a tick stands for a good part of
`SESSION_IDLE_TTL_SEC`, an hour, and a task that can run is resumed within that
time. An agent's steps are fair because model and tool calls end by answer,
error or timeout. File analysis: the scheduler polls for ever, and statements and
model calls return or raise; failures, edits and scans are not fair. The number of
failures is bounded: a file that fails for ever is not promised an end, see below.
Cron: its loop is restarted by nothing and goes on, its file calls are threads that
end, and time passes. WebSocket: a handler that can run does, and a lost line ends
with the idle timeout. MCP: a connection attempt ends with or without a connection.
Edits, reconnects, losses and crashes are fair nowhere.

## Disagreements between the code and its documentation

Two runs end in a violation; each checks what a docstring says.

- `agent_unpaired_calls` (`PromptIsPaired`): openai_llm.py:76 says calls and
  results are never unpaired. After a tool has raised, or a question was asked,
  an assistant text follows the call, the sanitiser keeps the call and forgets it.
- `analysis_deletion` (`DeletionDeletes`): the route promises to clear the
  analysis data. `stop_analysis` awaits the task it cancelled and
  `except Exception` does not catch `CancelledError`, so the deletion ends
  before its first DELETE whenever a pool runs or waits.

Seen while modelling. The properties name these cases as exceptions or the models
contain them; they are not runs of their own.

- Sessions, file store: a history cleared while the model writes a summary gets the
  old count back (`last_compacted`), which hides the messages added next. A list
  during a compaction empties the cache and a later save replaces an added message;
  consolidation marks messages that came after its slice; two threads can mix one
  file, and the older dump can land last; a delete during a save is undone.
- Sessions, database store: the consolidation saves the session as it was before its
  model calls and removes what the next run has added, though manager.py:232 speaks
  of the mark only. A row can mix columns of two writers; a delete during
  `add_message` is undone.
- Agent: the notice about the maximum of steps is also sent when the last step brought
  the answer; an error in `create_model` outside the guarded part leaves the state
  RUNNING.
- File analysis: a file that fails every time is claimed again at once and keeps its
  repository's pool, and with it a permit, for ever; the workers a failed pool leaves
  behind do not count against `_MAX_CONCURRENT_REPO_POOLS`; a file edited after it was
  read and before its row is finished looks up to date for ever; a scan that overlaps an
  analysis can queue a completed row, and a crash in that second analysis leaves a
  running row that no scan resets; the scan deletes the rows of missing files and leaves
  their vectors. A file that yields no line chunks, or no symbols, any more keeps its
  old records, because code_vector.py returns early (31-32, 85-86, 143-144) although
  line 29 says that they are deleted first; and a deletion that fails
  (es_conn.py:362-364) leaves them beside the new ones unnoticed.
- Scan: a start that meets the cancelled old task leaves a running row without a scan;
  so does a scan whose `_finish_scan_task` raises, and a start that fails when it has
  the row. `os.walk` never comes to a directory that was removed, so the rows of its
  files stay for ever (repo_analysis_service.py:273-310, 405-448). Deletions at the end
  of a number of files that is a multiple of 200 are never committed. A scan started
  while a graph task runs does not generate the graph again, and deleting a repository
  does not cancel that task.
- Subagents: a task whose model cannot be created announces nothing.
- Memory: a clear during a consolidation can leave a negative mark; a failed extraction
  still moves the mark on, and so does an answer with one of its two fields, which
  leaves the other file without the messages. `write_text` truncates a file before it
  writes: a write that fails has lost what earlier consolidations put there.
- Cron: a tick writes a job back as it was before its execution and undoes a
  disable in between; overlapping store calls lose edits.
- WebSocket: the cleanup of an old handler closes the connection of the client that
  reconnected.
- MCP: a failed connection counts as registered and is not tried again, although
  react.py logs that the next run will; `last_used` goes back to the start of a wait,
  so a fresh connection may be closed early.
- LSP: two calls that start a server at once leave one behind; requests go to the
  client fetched first; stderr is never read; the death of the reader leaves a
  process that lives and answers nobody.
- Tools: a full page of file_read is cut again by `Truncate.output`, which hides the
  last lines and the note with the next offset; "of N" counts the lines read so far;
  edits rewrite CRLF and undecodable bytes of the whole file; a write that fails has
  truncated it, though file_replace_multi_text says that no changes are written then;
  overlapping occurrences count as one; an insertion behind an unterminated last line
  joins it; `cleanup_old_outputs` has no caller; apply_patch loses a file that is moved
  onto itself and imports the Windows-only `nt.rename`.
- Chat models: a tool call cut before its arguments is executed with none; one malformed
  call ends the run; calls without index numbers merge, and calls that share an id
  overwrite one another (openai_llm.py:484); a call whose arguments hold `</tool>` is
  dropped without a word, and with `</tool_calls>` those behind it too, since payloads
  are not escaped (chat_models/base.py:312, agents/core/base.py:20-31); failures of
  Claude's chat and OpenAI's chat_stream lack the prefix "llm error:" by which callers
  tell them; `ClaudeModels` does not clean histories; the constructor of `ZhiPuModels`
  always raises; the circuit breaker that LLMFactory documents is never called.
- Embedding and rerank: adapters that append what they are given shift vectors behind a
  missing one; `BAAIRank` and `ZhipuEmbed.encode` always raise; the arguments of
  `BaiduYiyanRank` are shifted; `BaiduYiyanEmbed.encode_queries` returns the list of
  vectors, empty if the service sent none, and `BAAIEmbedding.encode_queries` a number;
  where scores are rescaled (openai_rank.py:62-76), a text the service left out comes
  out above those with negative scores; routes call `encode_texts` and `encode_query`,
  which no class has. The instance cache is unbounded.
- Repositories: overlapping uploads of one name remove each other's files; a failed
  refresh after the commit removes the files of a committed row; a deletion removes
  files before the row; `.gz` archives always fail; a refused duplicate raises
  UnboundLocalError; two overlapping saves of a token make two rows, and no token is
  found afterwards; one save does so alone if its look-up fails, because
  `get_user_git_auth` answers None to any error (git_auth_service.py:64-66, 34-44); a
  deletion that had to cancel an analysis ends before the files and the row, since
  `except Exception` lets the CancelledError through; repositories from a URL are never
  cloned.
- Chunks and vectors: a chunk of up to five lines with one header line is dropped; a
  file without chunks keeps its old records; too few embeddings raise after the old
  records were deleted; a failed creation of the index goes unnoticed and the insert
  makes one without the vector mapping.
- Stores: an update by condition with an empty condition and a deletion with an empty
  list of ids mean every record; OpenSearch's update of one record is always refused
  and its connection awaits a synchronous client; a search that fails before its
  query is built raises UnboundLocalError; `update_records`, `get_record` and `sql`
  have no caller. `_ensure_connect` of the storages raises outside the guarded part;
  concurrent health checks share a probe object; `AzureSasStorage` cannot be made.
- Redis: the synchronous `lock()` never awaits; a message that cannot be parsed is
  overwritten by its id, and three of them end the iterator over pending ones.
- Start and stop: `close_db` takes no lock, so a connection made while it waits is
  forgotten with its engine open; a failing or cancelled PRAGMA leaves an engine; if
  `close_db` raises, storage, vector store and redis stay open; session workers,
  subagents and file workers are not stopped and may open the database again.

## What is proved

TLAPS checks these for every value of the constants, under the assumptions on the
constants that the modules name; every safety property of the passing runs, and each
refinement, is among them. The assumptions ask for little: bounds are numbers, markers
such as `NoJob`, `NoMsg` or `NoClient` are none of the values they stand beside, and
where a proof counts (agents, repositories, editors) the set is finite. Some say what the
source fixes: requests are made at least once (`AttemptsAssumption`,
`RecordAssumption`), a page is more than two lines and has room for its head and one
line (`OneLineFits`), the default is a provider and a model (`FactoryAssumption`). The
files and patches that a run enumerates are sets here (`FileAssumption`,
`PatchAssumption`): any sequences of lines. TLC evaluates every one of them.

Much of this program computes over data: it pairs calls and results in a history,
cuts a file, sorts and applies the pieces of a patch. The library's induction theorems
take an operator as a parameter, which the provers do not instantiate. The proofs do
without: the set of numbers for which a fact holds contains 0 and the successor of
each of its members (`Induct`), or a set of counterexamples would have a least one
(`NatMin`); and that a recursive function satisfies its own definition is proved once
(`Recursion`, `RecursionDown`), from the fact that a function with that property exists.

`MessageBusProofs`. `TypeCorrect`, `WorkersAndMailboxesPaired`, `BusIsSerial`
(the refinement), `AgentsStayAccounted` and `HandlingStaysSound`. The inductive invariant is `TypeOK /\ InboundIds /\ Workers /\
HeldWhileBusy /\ FreshMail /\ Waiters /\ Uses`. `Workers` ties worker, mailbox
and task together; `InboundIds` says that the inbound queue holds the ids pushed
last, in order, which makes what the dispatcher does a step of `SessionSerial`. `FreshMail`
says that a worker whose wait times out with a message in its mailbox has had the
activity time of its session renewed: this is why a worker that retires takes no
message with it. Two further invariants rest on it. `Pools`: a pool key has its
agent in the free pool or lends it to the worker of its session, never both; this
is why there is one agent per key and a stop request dies with its run. `Permits`,
`OnePlace` and `Final`: holders of a permit are counted and who is queued stands in
the queue; every id that was dispatched stands at most once in a mailbox or at a
worker, and one answered with an error stands nowhere.

`SessionOpsProofs` has the lemmas about the operators, for both stores: what an
operation keeps of order, of a prefix, and of a sound summary.

`SessionRowProofs`: `TypeCorrect`, `HistoryStaysInOrder`, `WriterAloneKeepsLog` and
`AcknowledgedStays`. The invariant is `TypeOK /\ AllOrdered`: not only the
row but every copy a coroutine holds is in order, because any of them may become
the row. The refinement needs `Tasks = {w}` and the extra invariant `Alone(w)`:
the row is there and sound while the writer works on it, equals the writer's copy
while a model is awaited, is extended by that copy before a save, and is what the
save compares with at the commit. `AcknowledgedStays` adds
`Ahead`: what the writer is about to save keeps every message of the row and adds
one, or is the cleared session. With two writers both are false.

`SessionFileProofs`. `HistoryStaysSound` holds for any company of coroutines, torn
and deleted files and restarts, from `TypeOK /\ Copies`: every object, dump and file
is a session the code can make. The other two are about coroutines that share the
object in the cache (`Shared`), and say so in their hypotheses. `SharedObjectKeepsHistory`
needs `NobodyForgets`: a list or a deletion empties the cache, after which two
objects go separate ways, and a restart forgets what only a failed write held. Its
invariant `Owed` adds to the acknowledged messages those about to be acknowledged.
`SharedObjectKeepsLog`, the refinement of `SessionLog`, needs `OneCompacts` as well:
the later of two compactions may move `compacted` back, and a clear makes what a
compaction or consolidation planned before its model call wrong. `Plans` says that
such a plan still fits when the answer comes, however the history has grown. The
cases of list, deletion and clear are among the disagreements listed above.

`ReActAgentProofs`: `TypeCorrect`; `AgentKeepsContract` from `Clean` (an idle
agent has no steps and no stop request); `ResultsStayWithCalls` from `IInv ==
TypeOK /\ (intact => Paired)`. `Paired` says for the history that every result
has its call before it and no twin (`Sound`), that results of earlier runs and
steps are older than the present step (`OldResults`), that the calls at hand
have no result yet (`NewCalls`) and that their message is in the history
(`CalledIn`). `intact` is false once somebody has cleared the history in the
middle of a run, or a save was lost. `RunsSayTheirEnd`: a run that nobody stopped
and no store failed tells the user how it ended. That the notice about the limit
means a spent budget is a matter of counting: by `Accounted` every step has shown
its calls or its answer, or is the one that was recovered from an overflow, so a
run that shows the notice has shown `MaxSteps` of them. `Ending` says how a run
gets to its end.

`SanitizeAnswers`, `SanitizeKeepsUsers` and `SanitizeAnswered`, in the same module, are
about every history: the fold over the messages is followed one message at a time, each
time with what the messages so far have opened and answered. From them
`RequestsAreSound` (`AskInv`: the question of a run is asked until it is in the history,
and stays there while no save fails; the history of a run that nobody disturbed is
answered except for the calls at hand) and, for the tasks of `spawn`, `SubTasksAreSound`
(`SubGood`: of each task, the calls of its history are answered but for those of the
batch being executed; what was compacted was summarised once and in order, and of the
rest only results can be missing from a request). `MemoryIsSound`, about the
consolidations a run leaves behind, comes from `MemInv`: consolidations that overlap
disturb each other (`MemAlone`); in a session at rest the batch under way is what lies
between the mark and the messages that are kept (`MemRange`); what a consolidation has
read is not older than the file, and what it has written is in it, but for what is
`missed` (`MemKept`). The mark is set at the end from the length the session has then,
which is the end of the batch because the session rested.

`ReActAgentProofs` ends with the tools that change or show files.

- `FileToolsAreSound`. `PageInv`: of the lines before the next offset every one was
  seen. That a page moves on and leaves no gap, although it is cut by lines and bytes,
  then again, and then loses its note, is a matter of where the cuts can fall (`Seen`,
  `NextOffset`), for every file and every size. `EditInv`: an edit that was refused left
  the file, one that was made is its steps one behind the other, each of which replaced
  the occurrences that were counted, and one whose write failed left a beginning of the
  same text.
- `PatchIsSound`. `ParseInv`: a line that belongs to a section finds its section.
  `PlannedTo` and `PlanMatches`: the chunks are placed one behind the other, each on
  lines it matches. `RankIs` and `SortedIs`: the order in which they are applied is one,
  by counting those before each. `AppliedIsSpliced`: applying them from the last to the
  first gives what reading the file from its start gives, each chunk's lines replaced by
  its new ones; what has been put together from the front and what is left to do at the
  back make the same lines at every chunk. `WriteInv`: until a write fails the disk is the
  files as they were with the first changes written, but for those a later change touches.

`FileAnalysisProofs`. `ClaimsAreExclusive`, from `IInv == Shape /\ Ids /\ ClaimedRuns /\
ClaimsExclusive`. Exclusiveness alone is not inductive: the claim's update tests the
row's status, so it must be known that a row somebody works on is running. `ClaimedRuns`
says that, except for rows a scan took back. A worker whose row was deleted and inserted
again must not be mistaken for the new row's worker: `Ids` says that no copy has an id
newer than the last insert. A finish is the delicate step, since it makes a row
claimable while another worker may hold it; by exclusiveness that other worker's row was
taken back. `RowsCanBeTrusted` adds `Tells`. `Seats`: who queues for a permit waits and
stands in the queue once, the pools with members run, and permits and running pools add
up to `MaxPools`. `Told`: what a worker has read is what is on the disk, unless the file
was raced; before it inserts the vectors of a kind there are none, or those that a
deletion left, and the kinds it has dealt with are fresh; and it loaded a running row,
unless a scan took that back. `Calm`: a file that was not raced has one worker, and none
once its row is completed, so that nobody takes away what the row promises. `Due`: a row
that is not completed is due, and so is the copy of a scan. With these a completed row
that is not due has the vectors of the file as it is (`FreshData`), although the row is
written long after the file was read, and has others only for the two reasons that
`kept` stands for.

In the same module, `ScanIsLocked` and `ScansAreSound`, about the scans. That there is
one scan at a time is inductive with types and `ScanBlank` (a task that does not run
holds no rows and no cancellation); a start and a stop that overlap are the delicate
steps, because both read the row before they write. What an undisturbed scan leaves
follows from `Walk`, which says of each place in `_run_scan` how far the rows of
directories that exist agree with the disk: up to the directory behind it, for the files
of the present one it has seen; that what the walk listed is what exists; and that
`batch` is the number of files met so far modulo the batch. The last commit is made only
if that number is not zero, which is why deletions behind it are lost when it is; the
theorem says exactly that, for every size of a batch, and that the other rows left over
are those of removed directories and of a failed deletion.

`ServersServe`, about the clients of language servers, from five facts. `LspWire`: ids
of open requests are below the next one and each stands for one request, which is why
an answer after a timeout meets nobody else. `LspWhere`: a call has the servers its
place in the code needs. `LspOwned`: while no two calls have started servers at once,
whoever starts one is alone and the table's is not alive. `LspInOrder`: while no two
calls have sent a server its document at once, its stored version is the one it has
heard, or one call is about to store the next.

`BackgroundProofs` has seven.

- `ConnectionsAreShared`: an MCP fetch waits for the lock once and in line
  (`McpLine`), only the lock's holder connects and only while there is no connection
  (`ConnectsAlone`), and nobody has fetched the open connection later than its last
  use (`SharersOlder`), which is why the idle cleanup closes nothing fresh.
- `ClientsAreServed`: in a session whose sockets never overlapped (`Orderly`) one
  handler is at work, an open line is registered, and nothing is open any more when
  a handler is about to remove an entry, although it names the session only.
- `JobsAreKept` and `JobsRunRight`. The types (`CronShape`, `CronRefs`) say which
  call the loop waits for, and that no reference of the cache, of a tick or of a call
  leads to an object that is gone. The rest is about orderly behaviours, where at
  most one store call is under way. `CronStored` relates its list, the file and the
  cache at each of its steps: the file is torn exactly while it is written
  (`FileWhole`), all three hold the jobs that were added but for the one the call is
  about (`FileAgrees`, `CacheKnows`, `ListsAgree`), and the cache's objects say what
  the file says but for the one that was changed first and is stored now
  (`CacheReflects`). `CronJobsInv` follows one job through all its copies
  (`Copies`): in the file, in the list of a call, in the object of a call and in the
  cache. A job with a time that ran has none ahead in any of them, or the tick
  has it in hand (`RanOnce`); one that was switched off is off in all of them and in
  no tick's snapshot (`OffRests`).
- `ConnectionServed`, for any number of users, outages, faults
  and cancellations. The invariant adds to the promises that only the holder of the
  lock changes `_connection` until the shutdown closes the database (`HolderAlone`),
  that there is none while PRAGMAs of a new engine run and that `close_db` does not
  close that one (`PragmaFresh`, `ClosingKnown`), that every engine which is open is
  the connection's or the one being made (`EnginesKnown`), and how far startup and
  shutdown have come (`Phases`). `NewOne` is the lemma the others rest on: whoever
  holds the lock makes a connection only when no engine is to be kept.
- `LockIsExclusive`, from the invariant itself and types.
- `MessagesAreKept`: the queue loses no message. A consumer that puts a message back
  adds it again and then acknowledges the old entry; `PutBack` says that by then the
  message is handled or a later entry that is still live holds it.

`WorkProofs` has the components that `Work` composes. Each has an invariant of its own.

- `ChunksAreSound`, for every file and all configured numbers.
  The chunks that are finished say nothing about the one that is being cut, so the
  invariant adds `CutInside` (it is at least as long as it was to be and not longer
  than allowed) and `StartBehind` (it begins behind the start of the chunk before it,
  and so that even the shortest chunk from there ends behind that chunk). What makes
  the cutting go on is that the overlap is capped below a chunk's length.
- `TokensAreFound`, from `OneToken`: while saves do not overlap and no look-up of a save
  fails there is one row at most, and a save about to insert still finds none.
- `ReposAreSound`, for each name whose requests never overlapped (`KeyOK`): one request
  works on it (`Alone`), its rows and calls agree (`RowsOK`, `CallsOK`), the files of a
  row are there (`FilesThere`), and nothing else is, but what the request under way has
  put there (`NothingElse`).
- `VectorsAreSound`: a call that was alone is the only one under way (`VecAlone`), who
  deletes or inserts has found the index or made it (`VecMade`), and between the two
  requests of a call alone the index has no records but its own (`VecOwn`).
- `GraphIsSound`: no node bears a number higher than the generation's (`Stamps`), a file
  that is only referred to contains nothing (`Containers`), and while nothing is edited
  what bears the generation's number is what it has saved, of files as they are
  (`AsSaved`).
- `ConnectionIsSound`: whoever connects has a client from its first attempt on
  (`EsHeld`); before the first client nobody got beyond connecting (`EsFirst`); before a
  call was told that the cluster is too old, the first connection is not over
  (`EsUntold`).
- `ObjectsAreSound`: an object that was not raced for has one writer (`OneWriter`), only
  a provider that writes in stages has parts of objects (`WholeInBuckets`), outside these
  stages an object and its metadata are what was written last (`Settled`,
  `MetaFollows`), and a call has the answers its place allows (`CallsFit`). `EnsureBucket`
  had been modelled wrongly; the proof did not go through until it was corrected.
- `RecordsAreSound`: what a call has been told fits its attempts (`RecordFits`), and a
  record has no more entries of additions than there were attempts that added one to it
  (`AddsCounted`).
- `StoresAreSound` puts the eight together.
- `ClientIsSound`: text and reasoning are told apart as long as tags are pairs
  (`SpeechTagged`), and the calls put together so far are what the model has sent of
  them (`BegunInOrder`, `PartsSent`); nothing is told before the end (`Untold`). Which
  calls the agent finds in the text depends on the tags in their arguments (`closing`),
  and the theorem says which are lost.
- `AdaptersAreSound`, for every class that can be constructed: `VectorsKept` and
  `ScoresKept` say which text the k-th answer stands for after each batch, also where
  scores are moved to begin at zero. The two classes that answer a query with something
  else than a vector are named in `QueryAnswered`.
- `FactoryIsSound`: no instance is of the future, and what is handed out is what was kept.
- `ModelsAreSound` puts the last three together.

Only model-checked: liveness (`EveryMessageLeaves`, `IdleSessionsReclaimed`, `RunEnds`,
`Claimed`, `CronRuns`, `ServicesGoOn`), because it needs fairness, and with it ENABLED,
of which the provers know nothing.

## What is not modelled

Within the modelled parts: `pop_outbound_by_session_id`, which nobody calls; the
branch for a missing mailbox in a worker, which cannot be reached because worker
and mailbox come and go together; texts, tokens, logging; empty ids of tool
calls; `handle_stuck_state`, which writes a prompt that is not used; the start
and stop of the analysis scheduler; the five second limit of `stop_analysis`
(a cancelled worker ends at once here); that a claim prefers the oldest row (any
pending row may be chosen); what LSP requests ask, diagnostics, requests of the
server; folder nodes, methods and inheritance in the graph, and `update_files`,
which nothing calls; summaries, vision and speech, one request each; token counts;
wrappers of single redis commands; scans of one file or directory.

Failures at some places, whose consequences other actions of the same module have: of
the save at the limit of steps and of pushing a question (react.py:226), before the mark
in a consolidation (both stores), of an outbound callback (queues.py:294), of a
compaction of a subagent, of the bookkeeping around the finish of a file. Requests are
carried out or not: a deletion by query that was carried out in part is not modelled,
nor a read error of a cron file that is whole (store.py:131-133). `aclose` of an MCP
connection ends with its connection closed even when it is cancelled, the MCP and cron
loops are gone with their cancellation, and `create_engine` does not raise. In a
streamed answer the text holds no `<tool_calls>` of its own, an argument no opening
`<tool>`, every payload is an object, and what a torn block leaves in the text is text.

Whole components: the prompt builder and skills, the AST analyzers, i18n and
configuration are text work without a protocol; the planning agent is reached by
nothing; the HTTP channel and the routes parse requests and call what is modelled;
authentication checks one token per request; Celery and web search call a service.
Per component, `PROJECT.json` has the reason.

## Plan

Done: the bus, sessions, agent, file analysis, and every component of the inventory
whose steps can meet those of another, as modules above. What is left, in order:

1. Two repositories in `file_analysis`, for the competition of pools for permits.
2. `RepoScan` composed with `FileAnalysis`: the scan's commits against the claims.
3. Summaries and the diagnostics of language servers.
