# Consulting research agent: TLA+ models and proofs

The repository is a FastAPI backend that runs consulting research as LangGraph
pipelines, stores everything in Postgres, streams progress to a Next.js
frontend over server-sent events, and lets the user answer a questionnaire,
cancel a run and retry it.  This directory models its control flow in TLA+,
checks it with TLC and proves most of it with TLAPS.  Paths below are relative
to `backend/app/` unless they start with `frontend/` or `docs/`.

## The system

| component | state it keeps | operations | interacts with |
|---|---|---|---|
| Run lifecycle: `api/runs.py`, `workers/run_worker.py`, `core/task_registry.py`, `agents/_engine/recovery.py` | `runs.status`, `completed_at`, `heartbeat_at`; saved answers (`messages`); the in-process task registry | POST /runs, /answers, /cancel, /retry; `start_framing`, `continue_after_framing`, `retry_failed_run`, `_drive_pipeline`, `_heartbeat_loop`, `_mark_*`, `sweep_stale_runs` | drives the pipeline; publishes lifecycle events |
| Event stream: `core/events.py`, `core/sse.py`, `frontend/lib/sse.ts` | the `events` table; one LISTEN connection per subscriber; the client's last id, its list, its retry counter | `publish`, `subscribe`, `useEventStream` | everybody publishes; the browser subscribes |
| Consulting pipeline: `agents/_engine/graph.py`, `edges.py`, `nodes/stage.py`, `nodes/reviewer.py`, `run_worker._reconstruct_retry_state` | LangGraph's `RunState` (artifacts, attempts, verdicts, target agents); `gates`, `artifacts`, `evidence` | one node per stage and reviewer, synthesis, audit; the router; the reconstruction a retry starts from | runs inside a drive of the lifecycle |
| Worker fanout and ReAct loop: `nodes/stage.py`, `agents/tools/cite.py` | semaphore, messages of one worker; the `evidence` and `artifacts` rows of the stage | tool loop, registration of evidence, gather, the transaction that stores the output | runs inside a stage of the pipeline; every model call goes through the budget |
| Artifacts and the run page: `nodes/stage.py`, `_reconstruct_retry_state`, `frontend/components/ReportView.tsx`, `SourcesSidebar.tsx` | the `artifacts` table, `RunState.artifacts`, the requests a view has open | merge, persist, announce, read again, fetch | stage and synthesis write, events tell the page, the page reads |
| Search and synthesis: `agents/tools/`, `nodes/synthesis.py` | `evidence` rows; draft, unknown citations, attempt | search, register; draft, reject, strip, upsert | workers; pipeline; the report view |
| Budget: `agents/budget.py` | `runs.model_snapshot["usage"]` | `on_llm_end` | every model call; event stream |
| Ingestion: `ingestion/*.py`, `services/document_service.py`, `api/documents.py`, `frontend/app/page.tsx` | `documents.status`, `chunks`, the file, the list on the page | upload, ingest task, chunker, delete | `rag_search` |
| Settings: `services/settings_service.py`, `api/settings.py`, `core/crypto.py` | `provider_keys`, `settings_kv`, `FERNET_KEY` | the PUTs, the snapshot | read by runs, models, tools and probes |
| Model resolution: `agents/llm.py`, `api/ping.py`, `api/health.py`, `tools/web_search.py`, `ingestion/embedder.py` | none but the request being served | resolve, call with retries, choose a search engine, probe | settings; services outside |
| M&A stub: `agents/ma/` | its run's row and its report | `run_ma_stub`, `placeholder_node` | lifecycle of another task type |

Not modelled, and why, is listed at the end.

### What is hard, and what makes each part correct

*Run lifecycle.*  One asyncio process, so control changes hands only at an
`await`, but almost every line awaits: a cancel, a second submission, a retry,
the time budget and a failing statement can all arrive between a SELECT and
the COMMIT that depends on it, inside an `except` clause or inside a
`finally`.  The registry, the tasks and the timers die with the process, the
row does not.  Correct means: one set of answers, one driver, no run left
`running` or `cancelling` with nobody behind it, a status that moves along the
documented machine, a `completed_at` on every terminal row, a heartbeat that
does not outlive its drive, and a last lifecycle event that agrees with the
row.

*Event stream.*  Insert, commit and notify are three steps on two connections;
replay and LISTEN are two more; the browser drops what it has seen, reconnects
and decides by itself when the run is over.  Correct means: events are shown in
order, once, and none is lost.

*Pipeline.*  A reviewer may send a stage back to some of its workers, a bounded
number of times; a retry rebuilds the state from the gates in the database.
Correct means: stages run in order, the attempts are bounded, the report is
built on reviewed stages, a retry continues where the run stopped.

*Ingestion.*  A document is uploaded, ingested in the background and deleted by
three handlers that know nothing of each other; the file system is in no
transaction, the page keeps a list of its own.  Correct means: a row has its
file, a ready document its chunks, an ingest ends and says how, a deleted
document stays deleted, the page lists what there is.

*Fanout and budget.*  The workers of a stage run at the same time, register the
same sources and add to the same totals; one that fails leaves the others
running, into the retry of the run.  Correct means: no call is lost from the
usage, what is cited is stored, the output of a stage is whole, a race of its
own workers fails nothing, everybody ends.

*Artifacts and page.*  Models make up the paths of what they write; a drive may
be cut short between the commit of a stage and its events; a view starts a
request with each event and the answers come in any order.  Correct means:
nobody writes another's artifact or the report, the graph knows what the nodes
stored, a page that waits for nothing shows it.

*Search and synthesis.*  Hits are registered one by one under a short hash,
outputs may claim rows of their own, three drafts may each invent citations and
what stays is stripped textually.  Correct means: a report cites what it lists,
and nothing a model was shown is taken for an invention.

*Settings and models.*  Each reader takes several SELECTs, while PUTs go on and
the process may come back with another `FERNET_KEY`.  Correct means: what is
shown, resolved or refused is true of the settings of some moment of the
request, and a Bedrock call that fails names its cause.

*M&A stub.*  It writes over whatever the row says and knows no cancellation.
Correct means: a completed run has its report.

## Modules

| module | what it is |
|---|---|
| `RunLifecycle` | the detailed specification of the run lifecycle |
| `RunRow` | its contract: what the row and the saved answers go through |
| `MCRunLifecycle` | symmetry for TLC |
| `RunLifecycleProofs` | types, the inductive invariant, the safety theorems, the refinement, the undisturbed run, the M&A stub |
| `MaStub` | the M&A task behind the handlers of `RunLifecycle` |
| `EventStream` | the detailed specification of publisher, subscriber and browser hook |
| `EventFeed` | its contract: what the page shows |
| `EventStreamProofs` | type and order invariants, the refinement, the page that closes, and that nothing else is lost |
| `Pipeline` | stages, reviewers, routing, and what a retry rebuilds |
| `MCPipeline` | the caps of the two stages TLC checks |
| `PipelineProofs` | the inductive invariant of attempts, complete reports and the scope of passes |
| `Fanout` | the workers of one stage, their evidence, their usage and their output |
| `FanoutProofs` | its inductive invariant |
| `Artifacts` | the paths and contents of the outputs, from the models to the run page |
| `MCArtifacts` | the paths TLC's models give |
| `ArtifactsProofs` | its inductive invariant: owners, agreement, what the page was told |
| `Report` | search hits, evidence rows, drafts, citations, the stored report |
| `MCReport` | hits that share a `src_id`, and the drafts |
| `ReportProofs` | induction over texts, what stripping does to a text, the inductive invariant |
| `Documents` | upload, ingestion and deletion of documents, and the page's list |
| `DocumentsProofs` | its inductive invariant, the status diagram and the list; that the chunker loses and repeats nothing |
| `Chunker` | the windows a text is cut into, as a function |
| `MCDocuments` | a text that gives chunks and one that gives none; the chunker on small texts |
| `Settings` | the two tables and the PUTs |
| `Models` | everything that reads them, one SELECT at a time |
| `MCModels` | the mappings and the installs TLC starts from |
| `ModelsProofs` | its inductive invariant: from which settings, and in which order, a request has read |

The modules meet where the code's parts do.  `RunLifecycle` sees a drive as a
number of nodes the last of which is the audit; `Pipeline` says which nodes
these are and why their number is finite (`Ends`, and `RetryCap` in
`PipelineInv`).  What `Pipeline` takes for one step, a stage that ran its
workers, is all of `Fanout`; that it is one step is `WholeStage`, and that it
comes to an end `StageEnds`.  What that stage's transaction writes, and what a
retry finds of it, is `Artifacts`; what its tools registered, and the synthesis
behind the last stage, is `Report`.  `RunLifecycle` publishes lifecycle events
and `Pipeline` all others; `EventStream` says what becomes of an event after
`publish` was called, and `Artifacts` relies on its order (of the framing and a
drive that is ahead of it, two publishers, it takes every order of publishing).
`Pipeline` relies on
one drive at a time, which is `SingleDriver` of `RunLifecycle`.  `MaStub`
extends `RunLifecycle` and takes its handlers, `Models` extends `Settings`.  The
blank document of `MCDocuments` is one the chunker makes nothing of.

### RunLifecycle

One run is modelled: rows, registry keys and event channels of two runs never
meet.  A *step* is what one coroutine does from one `await` to the next: the
effect of the awaited statement on the database, then the synchronous code
behind it.  A SELECT and the COMMIT of what was computed from it are two steps
(`MarkRead`/`MarkWrite`, `CancelRead`/`CancelCommit`, `AuditRead`/`AuditWrite`);
a guarded UPDATE is one (`Accept`, `RetryTransition`, `Sweep`).

| variable | code |
|---|---|
| `status`, `dated` | `runs.status`, `runs.completed_at IS NOT NULL` |
| `messages` | the user messages of the run, one per POST /answers that was accepted |
| `lastEvent` | the latest lifecycle event of the run (`frontend/lib/runEvents.ts`) |
| `registry` | `TASK_REGISTRY["run:<id>"]`; the entry is overwritten by a later spawn |
| `task[t]` | a background task: the await it is suspended at (`pc`), the try block that await is in (`ctx`), an undelivered `Task.cancel()`, the status it loaded, what follows its `finally`, the nodes it still has to execute, `timeout_triggered`, its heartbeat |
| `req[q]` | a request handler and the status it loaded |
| `up` | serving, dead, or in the startup sweep |
| `faults`, `crashes` | counters for the bounds |

The try blocks are what makes this code hard, so `ctx` is explicit and one
operator, `Raise`, says what an exception does in each: outside every try the
task dies without a mark; in the body of `continue_after_framing` or
`retry_failed_run` it is marked; in the try of `_drive_pipeline` it is marked in
an `except` clause, unless the heartbeat caused it; in that `except` clause it
goes to the `finally`; in the `finally` it is swallowed by
`suppress(CancelledError)`.  An interrupted or failing statement may or may not
have been executed by the database (`Effect`).  SQLAlchemy only writes an
assigned column that differs from the value it loaded (`Assign`): a stale load
can therefore turn an assignment into no write at all.

Not in the model: `heartbeat_at` (only the sweep reads it; `Sweep` may find the
row stale or not), the answers' text, model calls and what the nodes write
(a drive is a number of nodes, the last of which is the audit), the POST /runs
of another task type.

The browser posts the answers once the questionnaire is there; a direct API
call may come while `start_framing` still runs.  `EarlyAnswers` says which of
the two an instance has.  `Slow` are the tasks whose run outlives
`run_timeout_seconds`.

### RunRow

The contract every interleaving respects: answers are saved only in the commit
that starts the run, a run starts over only from `failed` or `cancelled` and
only on saved answers, and the end of a run is written together with its
`completed_at`.  `Row == INSTANCE RunRow WITH ...` and
`RowSpec == Row!Spec`: checked by `RunRetries` and proved by `ImplementsRow`.
The documented status machine (`DocumentedSteps`) is stronger;
the code keeps it only while nothing races, which is what `RunRetries` and
`RunStaleCancel` show.

### MaStub

`StubInit` and `StubNext` are those of `RunLifecycle` with the creator's task
replaced: it loads, commits `running` over whatever the row says, and streams a
graph of one node.  The node commits report and `completed` together and
publishes; `except Exception` marks the run failed; nothing catches
`CancelledError`.  The cancel handler, the process and its sweep are the actions
of `RunLifecycle`.  The code promises little here and the properties say how
much: a cancel may be overwritten (`agents/ma/runner.py:36`) or leave the run
`cancelling` or `running` for good (`runner.py:45`), and `completed_at` is never
set by the stub.

### EventStream and EventFeed

One run and one page.  An event is its id; of its type only matters whether it
is terminal, another lifecycle event, or neither.

| variable | code |
|---|---|
| `lastId`, `committed`, `kind` | the id sequence and the rows of `events` |
| `pub[p]` | a coroutine in `publish`: between flush and commit, or between commit and `pg_notify` |
| `stream` | `subscribe` for the page's connection: before its replay query, behind it, listening |
| `wire` | ids the server yielded and the hook has not handled |
| `client`, `retries`, `settling` | the EventSource and its timers: `retriesRef`, `latestLifecycleTerminalRef` with the armed `TERMINAL_SETTLE_MS` timer |
| `last`, `shown` | `lastEventIdRef`, the event list (the newest `MAX_EVENTS`) |
| `unheard` | history: committed events whose notification no connection was there to hear |

Timers are compared, not counted: the settle timer is longer than it takes to
handle what is on the wire and shorter than any reconnect backoff; nothing else
is assumed of time.  The browser's `EventSource` is closed in `onerror`, so its
built-in reconnect never runs.  The query for a notified id always finds the row
(it was committed before), so it is part of the delivery.

`EventFeed` is what the rest may rely on (`Feed == INSTANCE EventFeed WITH ...`,
`FeedSpec == Feed!Spec`): committed events, each once, oldest
first, the newest `ListCap` of them.  It does not promise that every event is
shown, because the code does not: `Accounted` names the one way an event of a
single publisher is lost (`unheard`), and `EventReplayGap` shows it.  With two
publishers there is a second way, which is why `EventDelivery` and
`NothingElseLost` have one: the publisher with the larger id may commit first,
and when the smaller id is notified, or replayed after a reconnect, the client
has gone past it.  Workers of one stage publish usage updates concurrently, so
this does happen; what gets lost is a counter that the next update corrects.

### Pipeline

The state is LangGraph's `RunState` (`attempts`, `targets`), the rows that
outlive a drive (`gates`, `outputs`, `report`), and history variables for the
properties.  A node commits once, so it is one step: an interruption before its
commit leaves nothing, one behind it leaves what an interruption of the next
node leaves.  `Stop` is an exception, a cancel, the time budget or a dead
process; the memory is gone.  `ResumeStage` and `ResumeReport` are
`_reconstruct_retry_state`.  The reviewer is a model: any verdict, any set of
agents.  A name that is no agent of the pipeline selects nobody, like an agent
of another stage.

Not in the model: the texts; `RunState.cancelled`, which no node sets, so its
edge is dead; `gate_verdicts` in memory, of which the router only reads the entry
just written; stages without workers, which no profile has.

### Documents

| variable | code |
|---|---|
| `row`, `files`, `chunks` | `documents.status` or no row; the files in `upload_dir`; the documents that have chunks |
| `upload[d]`, `delete[d]` | the POST and the DELETE request: the await it is at, its answer |
| `ingest[d]` | `run_ingest`: the await it is at, and the status the current `_set_status` is setting |
| `batch`, `shown` | `uploadFiles` of `frontend/app/page.tsx` and its list of documents |
| `up`, `faults`, `stops` | the backend serves; bookkeeping for the bounds |

`_set_status` is two steps, `get` and `put`: a row that is gone at the first is
passed over in silence, at the second SQLAlchemy raises `StaleDataError`, and in
the exception handler too.  `Raise` is the `try` of `run_ingest`: an exception
in its body goes to the handler, which sets `failed`; one in the handler ends
the task.  A commit that reports an error may have happened (`Applied`).  An id
is fresh with every upload, so a document is uploaded once.

The code gives less than one might think, and the properties say so: an upload
whose refresh fails leaves a row that nothing will ingest; a failed upload drops
the whole batch from the page; a stop of the backend leaves documents as they
are, since the startup sweep only knows runs; a document deleted at the wrong
moment ends its task with an exception, against the docstring of `run_ingest`;
`rag_search` searches the chunks of all documents, ready or not.

### Fanout

One stage, for every drive that executes it.

| variable | code |
|---|---|
| `drive[d]` | `_run_worker_fanout` and `_persist_stage_output` of a drive, up to the commit |
| `task[t]` | `run_worker` of a drive and a worker: the await it is at |
| `reply[t]`, `rounds[t]` | what the last answer leads to; the `for` of `_run_react_stage` |
| `locked[d]`, `seen[d]` | the `asyncio.Lock` of the tracker, the totals its holder has read |
| `usage`, `counted` | `model_snapshot["usage"]`, and the calls that were added to it |
| `evidence`, `artifacts`, `cited`, `missing` | the two tables, and what the transaction under way has looked up |
| `haunted` | history: a retry began while workers of an earlier drive still ran |

`register_evidence` is a SELECT and an INSERT, so two workers may both find
nothing; the tool that violates the unique constraint has failed, which the loop
tells the model.  `_persist_stage_output` does the same with no one to catch it.
`BudgetTracker` reads and writes under its lock.  `gather` raises the first
exception and leaves the other tasks alone, a cancelled `gather` cancels them.

A retry makes new trackers with new locks, and workers that a failed drive left
behind go on: their updates and those of the retry can overwrite each other, and
their evidence can make the commit of the retry fail.  `UsageExact` and
`Contained` except these runs (`haunted`) and hold of all others.

Simplifications: an answer asks for one tool, which finds at most one source; a
call always reports its usage; callbacks reach the tracker through
`with_structured_output` and `bind_tools`, as the docstring of
`_attach_budget_tracker` says of the binding.  `budget.py` describes one tracker per run;
`default_model_factory` makes one per role, which makes no difference inside a
stage.  Each tracker knows one provider (`budget.py:15`).  The client of a
Bedrock bearer token gives no `usage_metadata` (`llm.py:287`), so its calls are
not counted at all, and has no `bind_tools`, so its workers use no tools.  Paths
and the merging of outputs are in `Artifacts`.

### Artifacts

| variable | code |
|---|---|
| `table`, `evidence` | the rows of `artifacts`, by path; the number of `evidence` rows |
| `mem` | `RunState.artifacts` |
| `node` | the stage, the synthesis or the audit at work: what it merged, the rows of its transaction, its place in it |
| `framing` | how far `framing_node` is: nothing stored, stored, announced |
| `events`, `cut` | `artifact_update` events; history: paths stored and not announced before a stop |
| `which`, `seen`, `fetch`, `view` | the view that is open, the events it saw, its requests with their `cancelled` flag, what it shows |

A path is a sequence of segments, so that `..`, an empty segment and a prefix
that is there already are what they are in `_prefixed_worker_path`.  A path that
is refused fails the whole stage, whatever the others did.  The transaction
upserts row by row and is committed at the end; an event follows for each path,
outside of it.  Synthesis and audit store one file each in the same way
(`Conclude`).  A stop may hit every step; the retry reads the table again.

The framing is a writer beside the drives.  It stores `framing/questionnaire.json`
and announces it (`framing.py:60-87`), by rule before the first drive; but a run
takes answers from its creation on, so the first drive, and after a failure a
retry, may be ahead of it.  A first drive starts from a state without artifacts
(`run_worker.py:217`) and does not know the questionnaire; a retry loads all rows
(`run_worker.py:419`), so the stages, reviewers and synthesis of a retry have it
among the artifacts in their prompts, and those of the first drive do not.
`MemAgrees` therefore says of all other artifacts that the graph has every one
that is stored, and of the questionnaire only that it is the stored one if the
graph has it.  A framing that fails is one that goes no further: what else the
failure does to the run is in `RunLifecycle`.

The effect of a view starts a request, and its cleanup marks the one before: an
answer to a marked request is dropped.  The status at the head of the page, which
is fetched without such a mark (`page.tsx:85` of the run page), is not in the
model.

### Report

The tools, the claims and the synthesis of one run.  `make_src_id` is a constant
function, so two hits may share an id.  A draft is a sequence over brackets, `^`
and ids: `Cited` is what `CITATION_RE` finds, `Without` is `str.replace`, and
they are what they are in the code also on texts where citations are nested.
There the stripping can leave a citation of something unknown: the loop of
`nodes/synthesis.py:137` takes out what was found in the last draft and does not
look at what that leaves.  It can also lose a citation that is known: in
`[^c[^c][^a][^c][^c[^a]`, with `a` known, the regular expression finds `c[^c`, `a`,
`c` and `c[^a`; if `[^c]` is taken out first, `[^c[^a][^c[^a]` is left, and taking
out `[^c[^a]` takes `[^a]` with it.
`CitesKnown` and `ShownKept` except those drafts (`Tidy`) and no others.
The order in which unknown ids are stripped is that of a Python set: any.

### Settings and Models

`Settings` has the two tables as one record and an action per PUT; a PUT is one
upsert and one commit.  A key is stored under the `FERNET_KEY` of its time, so a
`Reboot` with another one makes rows unreadable.  `Models` serves one request at
a time beside the writers: requests share no state but the tables they read, so
one is enough.  `span` remembers the settings that were in effect since it came;
the properties say "true of some of these".  `run` keeps the snapshot the last
POST /runs stored, which no model is resolved from (nor is `max_stage_retries`
read by the pipeline, which takes its default, `agents/_engine/graph.py:31`).
`job.attempt` is the loop of `_BedrockBearerChatModel._generate`.  DuckDuckGo is
accepted by the PUT, served by the probe and refused by the search tool:
`ProbeHonest` excepts it.

### Chunker

`chunk(n, ink, size)` is the set of windows a text of `n` tokens is cut into,
with `ink` the tokens that are not white space.  The loop of the code advances by
`target - overlap` and stops with the window that reaches the end.

## Runs

| run | what it asks | bounds |
|---|---|---|
| `RunSubmits` | what holds in every environment (`RunInv`), with two submissions, framing and a cancel; a drive ends, a cancel that reaches a driver ends the run | no failing operation (a failing mark leaves the run as it was, and no fairness helps); the first drive may overrun its time budget |
| `RunRetries` | two retries race; nobody is orphaned; the feed agrees; the row is `RunRow` and takes the documented steps | one failing operation, two process deaths, no cancel |
| `RunStaleCancel` | a documented property the code breaks | the smallest instance that shows it |
| `MaRuns` | what an M&A run promises | two cancels, two failing operations, one process death |
| `EventDelivery` | order, loss, closing and delivery | one publisher, three events, a list of two, one interrupted publish, two lost connections and one refused, one reload or retry |
| `EventReplayGap` | how events are lost | two events, one publisher |
| `PipelineRetries` | attempts, caps, completeness, scope, termination | two stages with caps 1 and 0, two workers each, three drives |
| `FanoutWorkers` | usage, evidence, output, containment of races, and that every worker ends | two workers that look for one source, one iteration, two drives, one failing call or write, one cancellation |
| `Artifacts` | owners, agreement of graph and table, the page | one stage of two workers, three paths, two artifacts a pass, two passes, the framing, one fault, one evidence row, two requests |
| `Report` | citations and sources | two tool calls, of two hits and of one, two hits with one `src_id`, three attempts at two drafts, one failure |
| `Ingestion` | files, chunks, status, the page, and that every ingest ends; the chunker on small texts (`ChunkerSound`) | two documents, one of them blank, one fault, one crash or shutdown, any number of deletions; texts of up to 7 tokens, windows of up to 4 |
| `Models` | snapshots, resolution, refusals, probes, attempts | two PUTs, one restart, two secrets, a fresh install and one that is set up, two roles, two attempts |

Why the bounds are enough.  A race needs two actors and the statement between
their load and their commit; each pair of request kinds occurs in some run, with
an interruption at every await.  A second failing operation adds a second
unmarked ending and nothing new to `RunInv` and `RowSpec`, which are proved
without bounds.  Three events are the fewest with one dropped from a list of two, one on
the wire and one being published.  Two stages are the fewest with a stage behind
and one before; a cap of 1 is the first that differs from never and from always;
three drives are the fewest in which a retry of a retry happens.  Documents share
only the page's batch, so two are enough.  Two workers and one source are the
fewest that race; two drives the fewest where one meets the leftovers of
another.  Two passes are the fewest in which a path is written twice, and two
requests the fewest of which one overtakes the other.  Three attempts are all the
node makes, and one of the two drafts is such that `CitesKnown` and `ShownKept`
fail without their exception.  Two PUTs are what it takes for a snapshot that was true at no moment
(`SnapshotWhole` excepts just that), so every mixture of two settings occurs.
Two attempts are the fewest with one that is not the last.
With two workers and two places the semaphore never makes one wait;
an instance where it does has too many states, so that a worker gets its place
in the end is argued, not checked: places are given up by tasks that end, and
`FanoutProofs` covers any `Concurrency`.  The
theorems below do not depend on any of these bounds.

Deadlock is not checked: a run ends, a page closes, and the bounds stop the
environment.

### Fairness

`RunLifecycle`: the event loop resumes every task and handler whose await is
done, so each task, each handler and the startup sweep are weakly fair.
Requests, failures, deaths and the expiry of a time budget are not: the
environment need not act.  `EventStream`: a publisher that began goes on, the
server answers, the browser opens connections, handles messages and fires its
timers.  Weak fairness is enough because none of these is disabled by others
for ever: losses are bounded, as the code itself gives up after `MAX_RETRIES` in
a row.  `Pipeline`: LangGraph executes the next node.  `Documents`: requests and
ingestions go on, the page handles its answers, the backend is started again.
`Fanout`: model calls are answered or time out, the database answers; a lock and
a place, once free, are taken by a task that stays enabled until it does.
`Report`: the synthesis node goes on.  `Artifacts`, `Models` and `MaStub` have no
liveness property and assume no fairness.

### Findings

Each violation run checks one sentence of the repository's documents, comments
or docstrings.

- `RunStaleCancel`: a cancel that loaded the run before the audit committed
  moves a completed run to `cancelling`.
- `EventReplayGap`: an event committed and notified between the replay query and
  LISTEN is never shown once a later one is.

Known and without a run of their own:

- A second cancel, or the time budget, that hits the mark of the first cancel
  breaks the status machine like `RunStaleCancel` (`workers/run_worker.py:230`);
  with a time budget in `RunRetries` a late mark turns a completed run into a
  failed one.  That is why `DocumentedSteps` is checked without cancels and
  without a time budget.
- `start_framing` loads the run outside its `try` (`run_worker.py:134`), so a
  cancel there leaves the run `cancelling`; `NoOrphan` is checked without
  cancels, and `CancelSettles` speaks of drivers.
- A stage that was forced on keeps its `reiterate` verdict
  (`run_worker.py:481`), so a retry goes back to it although a later stage or the
  report is done; when that drive stops in turn, the next one trusts the old
  advance or the old report.  `CompleteUnlessTorn` excepts it (`torn`).
- Agents named with the verdict that moves a stage on (`reviewer.py:126`) narrow
  the first pass of the next stage, possibly to nobody.  `FullScopeUnlessNamed`
  says that nothing else does.
- An upload whose refresh fails leaves a row that nothing will ingest
  (`api/documents.py:66`), and a backend that stops leaves documents in the
  middle of their diagram.

## Proofs

All theorems hold for every value of the constants that satisfies the named
assumptions (`RequestsAssumption` and `BoundsAssumption`, `StreamAssumption`,
`PipelineAssumption`, `DocumentsAssumption`, `FanoutAssumption`,
`ArtifactsAssumption`, `ReportAssumption`, `SettingsAssumption`,
`InstallsAssumption`, `ModelsAssumption`: bounds are numbers, sets of tasks are
disjoint, caps are numbers, names differ).  Two theorems assume more, and say so:
`NothingElseLost` one publisher, and those of the undisturbed run what follows.

*`RunLifecycle`.*  `TypeCorrect` first.  `RunSafe` proves `RunInv`, its safety
properties together with what makes them inductive: which task can be at which
await (`Placed`), and that answers exist wherever a driver or an accepted retry
is.  `ImplementsRow` maps every step to a step of `RunRow` or a stutter; the hard
cases are the marks and the forced cancel, which write a status next to a
`completed_at` computed from an older load.

*The undisturbed run.*  `SingleDriver`, `NoOrphan`, `FeedAgrees` and
`DocumentedSteps` are not true of every run, so their theorems assume
`Undisturbed`: no cancels, no time budget that expires, answers that come after
the framing and once, and one failing operation at most; any number of retries
and of process deaths.  It is the environment of `RunRetries`.  TLC refutes
`SingleDriver` with any one of the conditions dropped: a cancel, an expired
budget or a second failure leaves a mark that is written on a row a retry has
taken, early or repeated answers leave two tasks behind one row.  The argument is
a token.  One task works on the run or one handler is about to spawn it
(`SoleHolder`), and while it does the status is one that no retry takes (`Owns`);
so a retry that is let in finds nobody, and becomes the holder with its commit.
What fails writes its mark first and gives the token up with it; a death takes it
away with the task, and the sweep leaves a row nobody holds.  `NobodyOrphaned`
needs in addition that a running row has a holder (`Manned`), `FeedTellsEnd` that
an event that is to correct the last one is still on its way (`Reports`).

*`MaStub`.*  `StubSafe` says per await what a task without guards knows of a run
that nobody touched (`Along`): no mark before a failure, no event before the
commit that it announces.  `StubReports` holds of every run, because report and
`completed` are one transaction and nothing removes a report; `StubTellsEnd`
follows from `Along` at the end of the task.

*`EventStream`.*  `StreamSafe` is type correctness and the order of the list,
for any number of publishers.  `ImplementsFeed` follows from it: what is shown is
newer than everything on the page because of the duplicate check alone.
`FeedSafe` adds that a page closes only on the end of a run: while the timer is
armed the page shows that end (`Closing`), and an event that is added drops the
oldest one, so no terminal event goes before the lifecycle events it follows
(`DeliverPage`).  `NothingElseLost` assumes one publisher (`OnePublisher`): the id
it holds is then the largest (`Newest`), so what is on the wire is sorted
(`InOrder`), so whatever lies behind `last` was shown, pushed out or unheard
(`Covered`).

*`Pipeline`.*  `Safe` proves `PipelineInv`.  `AttemptsContinue` and
`RetriesCapped` need that a stage the drive has not passed has a pass in reserve
and that a stage sent back is within its cap (`Counted`).  `ReportsComplete`
needs that what lies behind the drive is settled and that nothing lies before it
unless it was sent back (`Frontier`).  `RedosScoped` needs that the agents in
memory are those of the verdict that sent the stage back, which the retry reads
from the gates (`Targeted`); `ScopesFull` that a stage with a verdict was run in
the scope its predecessor left it (`Scoped`), which holds until a drive is torn.

*`Fanout`.*  `Safe` proves `FanoutInv`.  Drives follow each other and only the
latest has tasks (`Sequential`, `Latest`), so all running tasks share one lock:
whoever writes the usage has read the current one (`Metered`).  Nothing runs
while a drive stores its output, so what was missing still is (`Storing`).  Both
hold unless the run is haunted, and that is where the exceptions of `UsageExact`
and `Contained` come from.  `Replies` bounds the loop.

*`Artifacts`.*  `Safe` proves `ArtifactsInv`: what a transaction holds, what the
graph knows and what is stored belongs to the agent its path names (`Sound`),
because `_prefixed_worker_path` leaves no way out of a worker's own path whatever
segments it is given, which is a lemma of its own; and what was announced is
stored (`Told`).  `StateIsStored`: what a node knows is what is stored, with its
own uncommitted rows laid over it, at each step but where a drive stopped, and
the retry brings them together again (`Agreement`); the framing may store the
questionnaire at any of these steps, because nobody else writes that path and
nobody knows it before it is stored.  `PageShowsStored`: only the last request of a page is live,
and what it was answered is current (`Answering`): it was sent when the page had
seen the latest event it looks for, so it brings what is stored, or there is an
event to come, or none will because the drive stopped (`Current`); and no step
makes what was current outdated (`Lasting`).

*`Documents`.*  `Safe` proves `DocumentsInv`.  What a request may assume of its
row (`Requests`) carries `FileKept`; what an ingestion at each await may assume
of its status and its chunks (`Progress`) carries `Indexed`, `CleanEnd` and
`MovesAlong`, whose steps compare a status with the one before; what the page
may assume of its uploads and deletions (`Listing`) carries `PageLists`.

*`Report`.*  `Cited`, `Without` and `_extract_citations` are recursive functions
over the positions of a text.  The library's induction theorems take a predicate,
which the provers cannot instantiate; `WFMin` takes a set, and with it
`Backward` proves for sets of positions what holds at one if it holds at all
behind it.  `Unwinds` shows with it that a function defined by such a recursion
is a function and solves its equation.  On that rest the lemmas about texts:
the citations of a tidy text are those its brackets open (`CitedTidy`), the
concatenation of tidy texts is tidy (`JoinTidy`), and `str.replace` of one
citation of a tidy text leaves a tidy text with the other citations (`StripOne`):
a tidy text is a sequence of citations and of symbols that open none, and the
token can only match where a citation starts.  The state needs little more:
rows are added and never changed (`Told`), a hit's row is under its own id
(`Own`), what the models were told of is known when the drafts are made, and what
is still to be stripped is in the body and nothing else that is unknown
(`InHand`).  `ReportRows`, `ReportCites` and `ReportKeeps` follow, for drafts of
any length and any order of stripping.

*`Models`.*  The settings since a request came are a sequence, and neighbours
differ by one PUT: in one of the four things a snapshot shows (`OneChange`), and
never by a key that is gone (`KeysStay`).  The invariant says of all that a request
knows at which places of the sequence it was read, and that these come in the
order of the SELECTs (`Snapped`, `Named`, `Sourced`).  `SettingsWhole` and
`ProbesHonest` are then about two neighbours: three of four parts are equal, so a
mixture is one of the two, and an engine and a key read on both sides of a PUT were
there together before it or after it.  `FailuresExplained` needs `KeysStay`: a key
that is missing when it is looked up was missing when its provider was chosen.
With two PUTs both fail, which is why the properties stop there.

*`Chunker`.*  `NothingLost` and `NothingRepeated`, for every length, target and
overlap: the first window that reaches a token exists because the windows advance
by less than their length, and the loop stops before a window lies within another.

Only model-checked: the liveness properties, `Settles` and `CancelSettles` of
`RunLifecycle`, `Delivered`, `Ends`, `Settles` of `Documents`, `StageEnds` and
`Reported`, which rest on fairness and so are out of reach of TLAPS; and the
two violations.  Every invariant and every action property of a passing run is
a theorem.  `Cited` and `Without` are proved about tidy texts only: what they
make of others is in the run `Report`.

## Not modelled

- Frontend agent state: `useAgentStates` folds the event list anew at each
  rendering.  It has no state, and what its outcome depends on, the order of the
  list, is `EventFeed`.  The settings and start forms send one request per click.
- The conversion of messages and tool calls between providers in `agents/llm.py`:
  it depends on wire formats of services outside the repository.
- `read_doc`, `fetch_url`, `write_artifact` and the HTTP of the search engines:
  they keep no state and return text.  Parsing and embedding are calls that
  succeed, fail or find nothing.
- Profiles, prompts and skills: data, which `Pipeline`, `Fanout` and `Artifacts`
  take as constants, and text.
- Schema and migrations: declarations executed once; the constraints they state
  are used where a component relies on them.
- Prices and token counts of the budget, `/health` and the task listing, which
  read nothing that changes; the test doubles.

## Plan

The order in which this was built: lifecycle, event stream, pipeline, documents,
fanout with the budget, each with its theorems; then the synthesis, the
artifacts with the page, settings and models, the M&A stub, the chunker; at last
the theorems of those.  What would come next:

1. Stronger forms of what is proved: how far a mixture of settings can go with any
   number of PUTs, and what of `FeedAgrees` is left after a retry.
2. The contracts of the other components as specifications of their own, which the
   detailed ones implement, as `RunRow` and `EventFeed` are: the table of stages
   and gates for `Pipeline`, the stored report for `Report`.
3. A model of two runs and the documents they share, for `rag_search` over
   documents that are deleted under it.
