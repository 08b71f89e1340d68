# Carbonpaper: a TLA+ verification project

Carbonpaper runs versioned data workflows whose stages are code, language-model
calls and human review queues, keeps every output with its lineage, and lets a
person stop, resume and review a run from a web page. This directory holds
models of the parts of it that are hard to test, the TLC configurations that
check them, and TLAPS proofs about eight of them.

Paths below are relative to the repository root.

## 1. Inventory

| Component | Code | State it keeps | Operations | Correct when |
|---|---|---|---|---|
| Run engine | `app/runtime/executor.py`, `runner.py`, `manifest.py`, `app/services/run.py` | the run's manifest document (status, stage records, `halted_at`), the output files of the run directory, the executor's locals (`records_by_id`, `outputs_so_far`, `blocked`, `halted_stage_ids`) | prepare, execute, resume, per-stage run, settle | the manifest explains itself and agrees with the files at every point a reader or a crash may see it; every execution settles |
| Cancellation | `app/runtime/cancellation.py`, `app/web/routers/runs.py` | a process-wide set of pending run ids | request, consume, discard | a cancel stops the execution it was meant for, and no other |
| Row fan-out | `app/runtime/stages/execution.py`, `progress.py` | result slots, groups on a thread pool, the progress counter | look up cached rows, split, map, place, record, unwind | each row gets its own answer; nothing is paid twice; nothing is written after the stage left |
| Stage cache | `app/core/stage_cache.py`, `app/services/stage_cache_transfer.py` | documents addressed by stage definition and input fingerprint | record, find newest, import another workspace's | holds answers only, for the inputs they were computed from |
| Review queue | `app/runtime/stages/human_review_queue.py`, `review_decisions.py`, `app/services/review.py`, `app/web/routers/review.py` | the decision ledger, the cache entry of a decided row, the queue snapshot and its fingerprints sidecar, the decisions file of the run | open, halt, decide, resolve, replay | no row passes without a verdict on it; a decision lands on the row it was made on; nobody is asked twice |
| Run log and stream | `app/runtime/run_log.py`, `app/web/run_events.py` | event chunks of fixed size, a writer thread's queue, a tailer's cursor | emit, drain, close, tail, page | no event is lost to a tailer, the stream ends |
| Agent turns | `app/core/agent/turns.py`, `store.py`, `sdk_engine.py`, `app/web/chat_router.py`, `app/static/chat-panel.js` | stored sessions (messages, active turn, pending line, resume token), in-memory turns with their events, a panel's drawn bubbles, the model CLI's memory | post a message, run a turn, stream it, reattach, draw a page | every turn is drawn, live and from the store alike; the active mark is true; the model remembers the transcript, but for turns that named no session |
| Drafts and versions | `app/services/drafts.py`, `stage_edit.py`, `versioning.py` | draft documents, immutable versions with a parent | add, remove and edit stages, save, discard | every stored workflow is whole; no save silently drops a version's changes |
| Background generation | `app/services/generation.py`, `app/compiler/` | a session with an active turn, the tests or the guide of a version | start a job, end it, tell a failure | a job that ended wrote its result or told why not |
| Claims and their review | `app/services/claims.py`, `claim_review*.py`, `app/reviewer/`, `app/web/routers/claims.py` | claims, reviews, review sessions, review tasks and their agents | submit, supersede, approve, decline, skip, ask for a review, gather, dedupe, store | one claim of a fact stands; a claim is reviewed once; a review that failed says so |
| Handlers, lineage and trace | `app/runtime/stages/`, `lineage.py`, `lineage_sidecar.py`, `trace.py` | the output and the lineage sidecar of each stage | run a handler on a row window, record parents, walk a row back | a row's parents are the rows its cells came from; a trace reaches exactly its sources |
| Branch cache | `app/runtime/branch_analysis/branch_cache.py`, `runner.py` `_build_branch_cache`, `app/services/scope.py` | a stamp, a part file, two summaries and the files of each stage, in the run's directory | build at settlement or for a page, claim by the stamp, read | a page gets exactly the branches of the frames its manifest names |
| Branch analysis | `app/runtime/branch_analysis/`, `app/core/branch_source.py` | none | read branches off the lineage of a run and carry them down | the path of a row holds the loads and choices it went through |
| Evaluation runs | `app/evals/` | eval runs and scores | run, score | a score per row |
| Project files | `app/core/files.py`, its routes and tools | a record per file in the store, its bytes in a directory of the record's name, one quota | upload, move to a project, edit the provenance, delete | a record has its bytes; the quota holds |
| Stores | `app/core/sqlite_store.py`, `persistence.py`, `timestamp_ids.py`, `app/services/project.py` | one SQLite key-value table | get, put, list, mint id | a save replaces one document atomically; ids of one process increase |
| Workflow models | `app/models/workflow.py`, `app/models/stages/`, `app/models/schema.py`, beside `app/runtime/stages/` | none | accept a stage, accept a graph, order it, close over it | an accepted stage runs as its signature promises; an accepted graph resolves |
| Model calls, agents and their tools, pages | `app/core/llm/`, `app/agents/`, `app/tools/`, `app/mcp/`, `app/web/` | none shared | calls, prompts, views | — |

How they interact. A request thread calls `services/run.py`, which writes the
decisions file and starts a daemon thread (`core/background.py`). That thread
owns the executor loop and shares with the request threads the store (the
manifest, the ledger, the cache), the run directory and the process-wide set of
pending cancels. A stage handler of the row-mapped kind fans rows out over a
thread pool, whose workers write the row cache. A page reads the manifest only.
There is no lock on a run: nothing stops a resume while an executor of the same
run lives.

Agents live on the other side of the process: the single event loop. The turns
of a chat, the review of a claim and the generation jobs are tasks of it, and so
are the tools an agent calls and every `async def` route, so they interleave
only where one of them awaits. A `def` route runs on a thread of a pool and
interleaves with the loop at every store call. Both read and write the same
documents, without a lock: a chat page is drawn on a thread while its turn runs
on the loop, and a stage edited by hand is saved on a thread while an agent
saves its draft on the loop.

The hard behaviours, and where each is treated:

* a death between the write of an output and the write of its record, two
  executors of one run, a cancel that meets a resume, several upstreams failing,
  halting and being skipped over repeated resumes: `RunEngine`;
* a cancel that meets calls in flight, short groups, failing cache writes:
  `RowDriver`;
* two reviewers and a resume around one decision that is written to two places,
  two files rewritten by each halt, a cache verdicts are imported into:
  `ReviewQueue`;
* a log rewritten chunk by chunk while streams tail it, resumes continue it and
  connections break: `RunLog`, `LogPanel`;
* a second message while a turn runs, a page drawn from two reads around the end
  of a turn, a stream that drops, a restart that forgets every turn: `ChatTurns`;
* claims superseded one save at a time, approved late, reviewed by agents that
  fail one by one, a shutdown and a kill among all that: `ClaimReviews`;
* an agent and a person saving versions of one workflow, a save that is four
  steps, tests generated against a version that was meanwhile superseded:
  `Authoring`;
* row windows cut in the middle of an input, joins, unions and groups that each
  name parents their own way, a trace that has to invert all of it: `Lineage`;
* several builds and readers of one directory with no lock, of whose files only
  the stamp is renamed into place, with kills and resumes that make frames
  again: `BranchCache`;
* uploads and deletes in steps on request threads, a quota weighed off records
  that are not written yet, a record saved after it was deleted: `ProjectFiles`;
* validators and handlers of one stage written apart, over inputs that carry
  columns nobody declared: `StageContracts`;
* graphs with circles, names used twice and inputs nobody puts out, and the
  order, closures and row kinds computed from them: `WorkflowGraph`.

`PROJECT.json` lists every hazard at its line.

## 2. Modules

| Module | Models |
|---|---|
| `RunStatuses` | the status vocabularies and `_final_run_status` |
| `RunRecord` | abstract: which manifest document may follow which, as its readers were promised |
| `RunEngine` | the executor, its manifest and files, resume, cancel, deaths |
| `MCRunEngine` | the workflow graphs of its runs |
| `RunEngineProof` | the proofs about RunEngine |
| `RowDriver`, `MCRowDriver` | one row-mapped stage over its attempts |
| `RowDriverProof` | the proofs about RowDriver |
| `ReviewQueue`, `MCReviewQueue` | one review queue over its run's executions |
| `ReviewQueueProof` | the proofs about ReviewQueue |
| `EventLog` | abstract: what a run's stored log promises to those who read it by number |
| `RunLog` | the event log of a run, written by each execution in turn |
| `LogPanel` | composes RunLog with one log panel and the stream that feeds it |
| `LogPanelProof` | the proofs about the log, as LogPanel composes it |
| `ChatReply` | a reply as blocks: told as events, drawn live, folded from the store |
| `ChatTurns`, `MCChatTurns` | the turns of one session, its panel and its model; uses ChatReply |
| `ClaimReviews`, `MCClaimReviews` | the claims of a run and the reviews of each |
| `ClaimReviewsProof` | the proofs about ClaimReviews |
| `Authoring`, `MCAuthoring` | drafts, versions, hand edits and the generation job |
| `AgentsProof` | the proofs about SavedStages, with the Authoring it stands on, and about ChatTurns |
| `Lineage`, `MCLineage` | handlers on row windows, their lineage, the trace, the branches |
| `LineageProof` | the proofs about Lineage |
| `BranchCache`, `MCBranchCache` | the branch cache of one run, its builders and its readers |
| `ProjectFiles`, `MCProjectFiles` | the files of a workspace under one quota |
| `FilesProof` | the proofs about BranchCache and ProjectFiles |
| `StageContracts` | what the validators accept of a stage, beside what its handler does to columns |
| `WorkflowGraph` | the checks of a workflow's graph, its order, its closures, the kinds of its rows |
| `SavedStages` | composes Authoring with StageContracts: what a saved version promises of its stages |
| `SavedWorkflows` | adds WorkflowGraph: what it promises of its graph |

### RunEngine

`runStatus`, `stageRecords`, `haltedAt` are the manifest document; every write
replaces all of it (`Flush`). `disk[s]` counts the writes of stage `s`'s output
file and `basis[s]` remembers which versions of its inputs it was computed from,
so that a stale output can be told from a fresh one. `mailbox` is
`cancellation._pending` for this run; a flag carries, as observation only, which
execution its sender saw running and how many had been launched when it was
posted. The executor's locals are functions of the execution number: `records`,
`held` (`outputs_so_far`), `blocked`, `halted`, `at`, `pc`.

| Action | Code |
|---|---|
| `LoadManifest`, `Begin` | `resume_run` (reload the outputs of finished stages), `_execute_stages`, the start of `_run_ordered_stages`; execution 1 starts from what `prepare_run` wrote |
| `StopBetweenStages`, `SkipBlocked`, `SkipProduced`, `StartStage` | one iteration of `_run_ordered_stages` up to the call of the handler |
| `ReportProgress` | a flush by the progress reporter while the handler runs |
| `StopMidStage`, `FailStage`, `HaltStage` | a handler that saw a cancel, raised, or halted for a person |
| `WriteOutput`, then `FinishStage` or `RefuseOutput` | `_finalize_stage_output`: the file first, then the merge and the record |
| `Settle`, `SettleCancelled` | `_finalize_run_manifest` |
| `RequestResume`, `RefuseResume` | `services/run.py` `resume`, with the discard of the mailbox first |
| `ReadForCancel`, `PostCancel` | `cancel_run_route`, its read of the status and its post |
| `Die`, `Crash`, `LoseOutput` | a thread's death, the server's restart, an unreadable file |

While one executor at a time is alive, `RunEngine` implements `RunRecord`
(`RecordKeepsItsPromise`, the identity on the three manifest variables and on
`lost`). A reader polls whole documents and never sees the executor's memory, so
what it may count on is which one follows which. `RunRecord` gives the steps: a
record changes only while the run says running, and one at a time (`Turn`); a
stage starts after all it reads has finished, and a finished one starts again
only if its output is lost (`Start`); a verdict is given on a stage the readers
have seen running (`Conclude`); a stage goes back to pending only below one that
will not finish (`PutBack`); a settled manifest explains its records and names
its halts (`Settle`), a cancelled one names none (`Stop`); and what a resume
takes up again keeps every record and loses its halts (`Reopen`). The engine
gets there by many steps `RunRecord` does not have: its own copy of the records,
outputs held and written, deaths, a manifest flushed again unchanged. With a
second executor alive it is false: the two write the manifest from two copies.

### RowDriver

`shape` is the handler: its parallelism, batch size, caching mode and what it
may answer with. An attempt opens the cache (`Open`), submits its groups,
places the completed ones, polls for a cancel after each, and leaves whole,
cancelled, or raised; `paid` counts the answers computed per fingerprint. The
workers record answers one row at a time, as `_cache_row_output` does, while the
main thread places others. `Leave` waits for what is in flight, as the pool's
context manager does.

### ReviewQueue

Decisions are kept in four places, each written by a step of its own: the
append-only ledger, the row cache, the decisions file handed to a run when it is
launched or resumed, and the snapshot with its sidecar. A decide request takes
the steps of `queue_decide` one by one (`CheckQueue`, `ReadSidecar`,
`CheckAlignment`, `JudgeRow`, `SaveDecision`, `RecordInCache`), so a resume or
another reviewer comes between any two of them. An import of another workspace's
cache (`/admin/cache`, `copy_entry_into`) looks for each entry and writes it where
there is none (`FindNoEntry`, `ImportEntry`), so a decision may come between the
two and be overwritten. An imported verdict is of the row, since the entry is
addressed by what the row holds, but no ledger row stands behind it, and "still
replays, through the row cache" (`docs/run-manifest.md:130`); a test asks for just
that (`tests/test_review_routes.py:2054`). So `NoRowPassesUndecided` asks of each
row of a finished queue a decision of the ledger, or a verdict that was imported
if the run replays the cache at all; a run that does not passes rows on the
ledger alone. `caching` is how the run
consults the row cache: normally, not at all, or write-only (`bust_cache`).

### RunLog and LogPanel

`chunks` are the stored `RunEventChunk` documents, each replaced whole by a
flush. An execution's log is `inbox[k]` (its queue), `writer[k]`, `seq[k]` and
`pending[k]` (the locals of `_drain`), and `loaded[k]`, the chunk a flush read
and has not written back; so a reader, a crash or a failed write comes between
any two steps of the writer. `emitted[k]` is kept for the properties. `batch`,
what a poll read, is a set: with one executor alive at a time the stored events
ascend in number, chunk by chunk, so its order is that of the numbers. Of the
executor only `runStatus` is here, since the stream reads it: the last flush
that says `settled` comes before `run_done` is put in the queue, and both come
before the writer stores them.

| Action | Code |
|---|---|
| `OpenLog`, `Begin`, `Emit`, `Settle`, `Escape`, `Close` | `_execute_stages`: the log is opened and `run_start` put before the first flush; any thread of the execution puts events; the last flush settles the manifest, or an exception escapes it; the `finally` closes the log |
| `CountEvents`, `Take`, `FlushWhatThereIs`, `EndWriter` | `_drain`: where the numbering continues, an event stamped and batched, a quiet interval or the sentinel |
| `LoadChunk`, `SaveChunk`, `FailToSave` | `_flush`, one group of one chunk after the other |
| `Crash` | the server's restart |
| `Open`, `Connect` | `openRunLogStream` and the route: no cursor the first time (`tail_start_seq`), one past the highest number seen after that |
| `ReadChunk`, `Send`, `SendToDone`, `CheckRun` | one poll of `stream_events`: a batch read chunk by chunk, filtered to the stage and sent, then the status of the run |
| `Drop`, `CrashServer` | a connection that breaks with part of a batch received |

`RunLog` implements `EventLog` with `StoredLog`, the stored events by number, in
the place of its log: whatever is flushed, failed, crashed and resumed, the
stored numbers have no gap, no event changes its number, and each execution's
events are stored in the order it emitted them, none left out in between. The
module assumes that the executions of the run follow one another (`MaxLive` is
1); two writers of one log rewrite each other's chunks, which no code prevents
and which is left to the hazards list.

### ChatReply and ChatTurns

`ChatTurns` is one chat session. `session` is the stored `AgentSession`
(`messages`, the turns in its transcript, in their order; `active`, its `active_turn`;
`pending`, `token`, and the `spent` turns whose cost is booked), `turns` the
registry of the process, each turn with the blocks it still has to say and what
it has told so far, `loop` the handler or task that stands between two store
calls, `panels` the page (`drawn` from the store, `streamed` live, `owed` the
turns that had started when the page was read), `memory` what each session of
the model's CLI remembers, which is external. `overlapped` and `restarted` are
observations.

| Action | Code |
|---|---|
| `Load`, `Draw` | the page's two reads: the session for its marks, then again for its history; the mounted panel reattaches to the turn the first read found |
| `Send`, `PostMessage`, `StartTurn` | `sendText`, then `post_message`: the pending line is stored, then `TurnManager.start` marks the session and answers with the turn |
| `Receive`, `Wait`, `Drop` | the generator behind the stream and the panel that draws it; a broken stream is closed for good |
| `Begin`, `Speak`, `StoreReply`, `KeepToken`, `Fail`, `TearDown` | `_run`: the token is read when the task begins, each block is told, the reply and the token are two saves, and the token is saved only of a turn that named its CLI session (`if resume_token`); the `finally` clears the mark and emits `done` |
| `Crash` | the registry is empty, the stored session is as it was |

`ChatReply` is pure. A reply is a sequence of blocks (text, thinking, tool calls
and their results, a submitted answer that is hidden, an offer of choices).
`Telling` is what `Turn` emits of it; `LiveBubble` is the fold of the events in
`chat-panel.js`; `StoredBubble` the fold of the stored parts in `store.py`. The
two are programs in two languages that must break paragraphs at the same places,
since the browser swaps its segments for the stored ones by number;
`EveryReplyReadsTheSame` compares them over every well-formed reply of up to four
blocks. The browser puts a result into the oldest tool row that waits for one
(`pending` counts them), whichever call it answers, and draws it by itself where
none waits; the store draws no result. The property says that this, the one way
in which the two bubbles differ besides an error, happens only when an offer was
refused, since an offer's call draws no row and its refusal is told.

A turn that names no session leaves the session's token where it was. Its messages
are in the transcript, and the CLI forgets that turn. `MemoryIsTheTranscript`
says that it forgets no other: what the next turn resumes remembers exactly the
turns of the transcript that named a session, in order.

### ClaimReviews

`claims` are the claims of all runs in the order they were proposed, `reviews`
the stored reviews, `sessions` the review sessions with the state of their task
and of each reviewer's agent. Everything runs on the loop, so a handler is atomic
but for the kill of the process; `loop` stands where a handler has made one save
and not yet the next: `submit_claim` between the claims it supersedes
(`Submit`, `Supersede`, `WriteClaim`), `start_claim_review` between the check,
the new session and its mark (`AskForReview`, `OpenSession`, `MarkSession`), the
end of a review (`Close`). `Approve`, `Decline` and `Skip` are the page's
buttons, pressed on a page that may be stale. A review asks its reviewers
together (`Ask`), each ends on its own (`Answer`), the raised challenges are
booked and stored or go to the deduper (`Raise`, `Dedupe`, `Deliver`).
`Shutdown` cancels the tasks, which clean up after themselves; `Crash` does not
let them.

### Authoring

`versions` maps ids to stored versions, `drafts` are the stored drafts with the
version each stands on, `saves[p]` is the `save_version` the event loop or a
request thread is in, `job` the last generation job. A workflow is the set of its
stages and its one flaw is an input that is not there. The tools are atomic on
the loop (`StartEditing`, `AddStages`, `DeleteStage`, `SaveVersion`), a hand edit
is not (`HandEdit`), and a save takes four steps anywhere (`Check`, `Mint`,
`Write`, `Rebase`). `AddStages` is `add_stage_specs`: of each stage of
the batch it is told, from the fates of its inputs, whether it is added, refused
or skipped (`Outcomes`; the code goes in dependency order, so those fates are known
to it). `StartJob`, `EndTurn`, `Refuse`,
`FinishTests` and `FinishGuide` are a generation job; the active mark goes with
`EndTurn`, before the hook stores what the turn made. `Kill` is the process killed
at work. `blind` records that a
version was saved over a conflict, or past a version stored after its check.

### Lineage

`run` is the sequence of what the stages of a run put out: a row is the set of
source cells it carries, and beside it stands the lineage its handler reported,
through the row window the stage was given. `Load`, `Map`, `Filter`, `Dedupe`,
`Sort`, `Explode`, `Union`, `Join` (the enriching and the expanding kind),
`Aggregate` and `Reshape` are the handlers, with predicates, keys and values
left open; `Placed` and `Shifted` are how the executor moves a record from
window positions to positions in the input. On such a run are defined, as the
code computes them, the walk of one row back to its source (`Walk`, with the
reader's choice at a fan-in) and the branch paths (`Paths`, stage by stage),
both as recursive functions of how far they have come, `NextHop` and
`NextPaths` being one turn of the code's loop. `Refused` are the walks `trace_row`
answers with an error: the row chosen at a fan-in is none of it, or the walk met
no fan-in over the stage chosen; every other walk goes through the chosen row.
`Reshape` records nothing, as an opaque stage does.

### BranchCache

`rows` is what the run's manifest records: for each stage the number of rows of
its frame, or that it has none. `going` says whether more may be recorded, and
`analysed` lists the manifests the run was settled with: an analysis is told by
its place in that list, which says more than a stamp does, since a stamp names
the stages and the numbers of rows and nothing else. `files[f]` is the set of
analyses whose bytes a file holds, empty for no file, with two members when two
builds wrote it at once and with `Cut` when a kill cut it short. `handle[t]` is
the file a thread has open, `pc`, `frames`, `todo` and `got` its place, the
analysis of the manifest it read, the files it has still to read or write, and
what it was given. `crossed`, `outrun`, `overlapped` and `resumed` are
observations.

| Action | Code |
|---|---|
| `RecordFrame`, `Settle`, `Resume` | the executor, which records a frame also of an output it then refuses; the thread that settles a run goes on to `_build_branch_cache` |
| `Rerun` | `_run_stage` in a resume: a stage that is to run again, or is blocked, has a fresh record without a frame, until `RecordFrame` gives it one with as many rows or with others |
| `Ask` | a page of a settled run turns to `read_branches` |
| `ReadStamp` | the stamp names the frames of the manifest, or the thread builds |
| `ReadFile`, `FailToRead`, `Serve`, `Leave` | the summaries at once, a stage's files when the page names it; a file that cannot be parsed raises |
| `OpenFile`, `CloseFile` | the files are opened for writing in place, which empties them |
| `Publish`, `FailToPublish` | the part is renamed to the stamp: a handle follows its file, so another build's half-written part may become the stamp, and the slower rename finds no part |
| `Crash` | the server's restart: what is open is cut |

`PagesGetTheRunsBranches` says that a page is given the branches of exactly the
frames its manifest names, and no error, with four exceptions, each of which TLC
needs: another build wrote while the page was at the cache (`crossed`); a frame
of its manifest was made again while it worked from the frames (`outrun`); two
builds met (`overlapped`); or the manifest was settled on the numbers of rows of
an earlier one (`Again`). The last is the stamp's own limit: a stage that failed
on the output it had persisted is run again and mostly puts out as many rows, so
the stamp of the first settlement claims the cache for the second, over files
that describe the first one's rows or that a kill cut. With other numbers of rows
the stamp is refused and everything is written anew, over what was left.

### ProjectFiles

`records`, `weight` and `stored` are the records, what the minted files weigh and
whose bytes are in place; `request[t]` the step a request thread is at, with its
file and the project its record is to be saved under. `revived` observes the
records saved after their delete.

| Action | Code |
|---|---|
| `Stage`, `Weigh` or `RefuseUpload`, `Place`, `SaveUpload` | an upload: bytes to a temporary file up to the ceiling, the quota off the records, the rename, the record |
| `MoveToProject` | an agent's tool, on the loop |
| `BeginUpdate`, `SaveProvenance` | the record is loaded, then saved whole |
| `BeginDelete`, `DeleteRecord`, `Unlink` | the record goes first, then the bytes |
| `Restart` | the server's restart; what was staged stays, of no record |

### StageContracts, WorkflowGraph, SavedStages and SavedWorkflows

The first two are pure: they hold no state, and give the algorithms that decide
what may be saved beside what is later done with it.

`StageContracts` gives, for a row function, a join, a union, an explode, a sort,
a dedupe and an aggregate, what the validators of the stage accept
(`AcceptsRowStage`, `KeysResolve` with `LandsAside` and `AddsWhatLands`, ...) and
what its handler does (`RunRowStage`, `RunJoin`, ...). A schema gives columns
types; a table gives columns cells, each a type and the columns it was taken
from. A handler yields the tables it may put out, none when it raises. The check
is an equivalence: over every schema, every signature and every undeclared column
an input may carry, an accepted stage puts out what it promises *unless* it is
one of the cases named in `Overreaches`, `JoinLetThrough`, `SortLetThrough`,
`AggregateLetThrough` or in the right-hand side, and in those it does not. What
pandas and arrow do (suffixed names, refused duplicates, keys of two types) is
modelled from how the handlers call them. Values, nulls, ranges and predicates
are left out.

`WorkflowGraph` has the depth-first search for a circle (`FindsCycle`), the order
(`SortByDependency`), the walk upstream (`UpstreamOf`, `ReachingReport`) and the
kind of row each stage is read to put out (`RowKinds`), each beside what it means
said without an algorithm: a set of stages that each read another of the set, an
order in which inputs come first, the least closed set, the kinds said by the
stages a row was made by.

`SavedStages` and `SavedWorkflows` state the two as invariants of `Authoring`: they
are about any workflow once a version is stored.

## 3. What is checked

| Run | Instance | Shows |
|---|---|---|
| `run_engine` | fork of 4 stages with a queue, 2 executions, 1 alive at a time, 1 cancel, 1 death, 1 lost file | the manifest explains itself (`SettledRunIsExplained`), its halt marks are exact, finished records have files, outputs agree with the inputs they were computed from, a cancel posted before a resume does not stop it, each manifest follows from the one before as `RunRecord` promises, every execution settles |
| `row_driver` | 3 rows, two alike, six handler shapes, 2 attempts, 1 cancel, 1 fault | each row gets its own answer, nothing is paid twice, every attempt leaves |
| `review_queue` | 2 rows, 2 reviewers, 3 executions, 2 imports, 2 faults, three caching modes | a decision matches the row it was made on, no row passes without a decision or an imported verdict of it, nobody is asked twice |
| `run_log` | chunks of 2, 2 executions of up to 2 events and their `run_done`, a tail of 1, 1 fault, 1 broken connection | the stored chunks are a gapless append-only log (`EventLog`), close loses nothing, a panel misses an event only across a chunk boundary of one poll, every feed ends |
| `chat_turns` | 1 panel, 2 turns that may overlap and may name no CLI session, 3 replies, restarts, dropped streams; replies of up to 4 blocks for the folds | a panel at rest misses no reply, the active mark is true, the model remembers the transcript but for turns that named no session, live and stored bubbles read alike, every stream ends |
| `claims` | 2 claims of 4 proposals, 2 reviews by 2 reviewers, shutdown and kills | one claim of a fact stands, a claim is reviewed once, the state a page shows is so, failed reviewers are booked, every review ends |
| `authoring` | 2 stages, one reading the other, 1 agent, 1 hand, 3 versions, 2 drafts, 1 job at a time, kills | every stored workflow is whole, no save silently drops a version, no draft conflicts with itself, a job that ended stored its result or its failure; of every stage over 3 columns and every graph over 3 ids, what is accepted runs as promised but for the gaps named, and resolves |
| `lineage` | runs of 4 stages over a load of two files, 2 rows a stage, whole and windowed reads | rows carry exactly the cells of the parents their lineage names, a trace meets only rows its own is made of and ends where it should, a path holds exactly the loads of its row |
| `branch_cache` | 2 threads, 2 stages, frames of 2 sizes, 3 pages and settlements, 1 kill | a page nobody wrote across gets exactly the branches of its manifest's frames and no error, but for the exceptions named, what several builds of one settlement leave is whole |
| `project_files` | 4 files, 3 threads, 1 project, ceiling 2, quota 2, 1 kill | a record has its bytes unless it was revived, the quota is passed by no more than what the other threads had under way |
| `cancel_aim`, `branch_cut` | the smallest that shows it | violated: see below |

Why the bounds are enough. Every hazard of the engine needs two executions (the
one that leaves something behind and the one that trusts it), one cancel request
(a flag is idempotent), one death and, for a chain of verdicts, a stage below a
queue and a fork beside it. The row driver needs two alike rows (one
fingerprint, two slots), a group shorter than the batch size (three rows in
groups of two), more groups than workers, and a second attempt that meets what
the first left in the cache. The queue needs two rows (a position can shift),
two reviewers (two decisions of one row, or one of each), three executions
(halt, halt again, finish), an import of either verdict and two faults (a failed
cache write and the loss of what an import or a decision put there). The log
needs chunks of two, so that a flush may fall inside a chunk, fill it or
straddle its end, two executions, so that a log is continued in the middle of a
chunk and a panel meets a second `run_done`, and a break that is over in the
middle of a batch. Two turns are what an overlap needs, and one panel reaches
every meeting of a page with a turn, since it drops its stream and loads again
at will; four blocks hold a paragraph, what interrupts it, and the next. Two
claims and two sessions reach a supersession, an approval of what was
superseded, and a second review asked for at any point of the first; one
reviewer may fail while the other still runs. Three versions are a base, the one
that overtakes it and the one that would drop it; two drafts are the agent's and
a hand edit's (or a job's). Four stages are a load, two handlers and one that
merges them again; two rows, because a window past the first row is already off
by one, and every error of a position shows as another row. Two threads at a
branch cache are a build and a reader, or two builds, and after them a page that
finds what they left; three settlements or pages are a settlement, another after
a resume, and a page; two stages with frames of two sizes are a frame that is
added, one that is made again with other rows or with as many, and one that
goes. `branch_cut` needs a third thread and one stage. A quota of two is filled
by one file of the ceiling, three threads weigh at once, and the fourth file is
the one that finds it full. The three columns of a schema are a key, a value and
the name pandas would give that key, which is where a join goes wrong. Three ids
are a circle of each length and a stage beside one, and an input two stages
share; row kinds are tried over four stages, a fork that is merged again. Bounds
on claims, drafts, versions and stages are guards of the actions that create
them, and nothing else. Symmetry is used for the reviewers of a queue, the
threads, stages and sizes at a branch cache and the files and threads of
`project_files`, in runs whose properties are all safety; nothing compares two
of them.

Deadlock is checked in the runs of the engine, the chat and the claims: a resume
can always be refused, a page always be loaded again, a page's button always be
pressed. The other models do stop once their attempts, requests, faults, files,
versions or stages are used up, and their configurations say so.

Fairness. RunEngine: weak fairness of each execution's own step, that is, a
thread that can run does run and every handler returns (a model call has a
timeout of its own and the other handlers are local computation); no fairness of
requests, deaths or losses. RowDriver: the same for the driving thread and for
each worker. LogPanel: the threads of the run, taken together since one execution
lives at a time, and the stream with its browser, which connects again by itself
after a break; the bounds on faults and breaks make them finitely many, and
nobody has to resume. ChatTurns: the loop gets round to every handler and task,
a page that is loading is drawn, an open stream is read, and the CLI ends every
turn it was given; the last is an assumption, since a turn has no timeout.
ClaimReviews: a handler runs to its end (weak fairness), and a task that is ready
again and again is run: the loop's queue is first in, first out, while the
requests of people come between any two of its steps, hence strong fairness of
each review; that every agent ends is again an assumption. Nothing is assumed
fair about people: no liveness is claimed of a queue, of drafts or of claims, nor
of caches and files, where nobody waits for another.

Every property has a mutant: a definition of the model changed the way a
plausible bug would change the code, under which the run finds the property
violated. The mutated forms stand in each module under "Plausible bugs".

### Disagreements found

* `cancel_aim`. `app/runtime/cancellation.py:29` says "A resume must not be
  stopped at its first checkpoint by a cancel aimed at the last." The cancel
  route reads the status and posts the flag in two steps; a request that read
  before a resume and posts after it stops the resumed execution. What the code
  does guarantee is `StoppedByALaterPost`: a flag *posted* before the resume is
  never taken by it.
* `branch_cut`. `app/runtime/branch_analysis/branch_cache.py:105` says the stamp
  is written "Last, so a write that stops short leaves a cache no reader will
  claim". The executor that settles a run and a page that finds no stamp both
  build. Once the faster has stamped the directory the slower still rewrites its
  files, and a kill then leaves a file cut short under a valid stamp: every later
  reader claims that cache and fails. `PagesGetTheRunsBranches` says what holds
  while builds do not meet, `QuietCacheIsWhole` what meetings leave when nothing
  is killed.

The following came up in the models and have no run of their own. Where a
property had to be weakened for one, its name is given.

* `docs/run-and-review-ui.md:250` says the decide route refuses a decision on a
  queue that has closed. The check precedes two file reads and two writes, so a
  resume in between leaves in the cache a decision that contradicts the rows the
  run emitted.
* `app/services/claims.py:97` calls what `load_run_claims` gives "This run's live
  claim per shape, or its skip." It goes from the oldest claim on and keeps the
  first that is not declined, so after a second submission it gives the
  superseded one.
* Two builds of one branch cache write one `.part.parquet`: one's rename may
  publish the other's half-written stamp, and the later rename fails the page
  that made it.
* `app/core/files.py:125` loads a record, changes its provenance and saves all of
  it. A delete in between is undone: the record is back, its bytes are not
  (`RecordsHaveBytes` excepts `revived`). A comment of the same file says "A
  record whose bytes are gone is worse than no record".
* The files quota is weighed before the record is written, so uploads that arrive
  together pass it together (`QuotaHoldsButForThoseUnderWay` says by how much).
* `app/services/run.py:117` discards the pending cancel of a run before it reads
  the version it resumes; when that cannot be loaded the resume is refused and
  the cancel is lost (`RefuseResume`).
* Two rows with one fingerprint that miss the cache in one attempt are both
  computed and both paid for; `PaidOnce` speaks of a row alone with its
  fingerprint.
* `docs/run-manifest.md:137` says `record_decision` writes the ledger and the
  cache together. They are two commits, and two decisions of one row can
  interleave them.
* `app/runtime/run_log.py:181` says `read_events_since` returns "this run's
  events with `seq >= from_seq`". It loads the chunks one at a time, and a chunk
  that fills between its load and the load of the next one gives a batch with a
  hole, which the cursor then clears: the panel never sees the events in it. What
  does hold is `SkipsOnlyAcrossAChunk`.
* `app/static/run_log.js:116` calls `run_done` the panel's "run finished" line. A
  resumed run's log still holds the `run_done` of the execution before, so a
  panel opened on a running run may say complete and close its feed.
* `app/static/chat-panel.js` says "the store holds a turn's blocks only once it
  has finished, so mid-turn the buffer is the transcript". The page takes its mark
  and its transcript from two reads, and a turn that stores its reply between
  them is drawn from both. `NothingIsMissed` says that none is lost.
* `app/static/chat-panel.js:253` calls a result with no matching call one that
  "shouldn't happen" and draws it by itself. An offer the server refuses is told
  with its error (`sdk_engine.py:276`) and its call draws no tool row, so the live
  bubble shows a row that a reload does not (`EveryReplyReadsTheSame` says it is
  the one way), or the refusal goes into the row of another call that waits.
* `app/runtime/branch_analysis/branch_cache.py:64` says of the stamp that "Anything
  else on disk describes a different run." It names stages and numbers of rows, so
  the frames of a resume that are made again with as many rows go by the old stamp
  (`PagesGetTheRunsBranches` excepts `Again`).
* An import into the row cache looks for an entry and then writes it; a decision
  recorded in between is overwritten in the cache, though not in the ledger, and
  the imported verdict answers first.
* Nothing refuses a second turn of a session while one runs. Both resume the
  same CLI session, which then forgets one exchange, and the first to end clears
  the other's mark (`MemoryIsTheTranscript` and `MarkIsHonest` except overlaps).
  A message whose answer is lost in a restart leaves the panel claiming to
  stream, since `sendText` does not catch it.
* `app/core/agent/turns.py` clears the active mark before the completion hook, so
  for the length of the hook the status of a generation is "not running" with
  neither a result nor a failure, while `templates/_generate_guide.html` says
  "Every exit but a written guide comes through here"
  (`GenerationIsAccountedFor` speaks of a job that is over).
* `_find_lost_version` compares at the start of a save what the write finds
  changed: a hand edit on another thread can store a version in between, which
  the new one drops without a word (`blind`). A draft with no base version is
  never compared at all. A kill between the write of a version and the rebase of
  its draft leaves a draft that conflicts with what it was saved as
  (`NoConflictWithItself` excepts it).
* `approve_claim` does not ask for the status of the claim it approves: one that
  was declined or superseded can be approved from a page drawn before. It asks
  that no other claim of the fact stands, which is why `AtMostOneStands` holds
  nevertheless.
* `app/reviewer/run.py:112` says the spend of a review counts the reviewers that
  fell over; a deduper that falls over is not booked.
* A stage that records no lineage on a re-run leaves an older sidecar in place
  (`write_lineage_sidecar`), and an aggregate without aggregations records none.
  A join no subject row of which matches reads as a union, and the rows a limit
  cut or a lookup never used count as dropped (`docs/branch-analysis.md` admits
  this).

* `app/models/stages/signature.py:4` says "every other anchor column flowing
  through untouched". A row function's answer is laid over its input row whole,
  so a key the signature does not write replaces the column of its name
  (`Overreaches`).
* The validators accept stages that then raise or put out something else: a join
  on keys of two types, or whose names are taken by an undeclared column or by
  the suffixed key; a union of inputs that carry different undeclared columns; a
  sort or a dedupe on a list column; a rank named as an undeclared column; a mean
  of text; an aggregation named as a group key, or two of one name
  (`SavedStagesRunAsPromised` names them all).

Smaller ones, not given a run: the document just named refers to a test,
`test_a_cache_entry_outranks_the_ledger_when_the_two_disagree`, which does not
exist, while `tests/test_review_routes.py:2019` is documented as showing the
reverse; `app/services/review.py` says a failed cache write costs a replay only,
which is so for a first decision but not for a second one, where the older cache
entry answers first; `cancelled_at` is never cleared by the resume that
completes (no reader depends on it); `app/web/run_events.py` says the stored
numbers are not gap-free of a log whose own module calls them a gapless counter;
and the same file says a client never hangs on an interrupted run, which is so
when the manifest is settled and not when a crash left it `running`
(`tests/` covers the settled one; `EveryFeedEnds` excepts the other as
`Interrupted`).

With two executors alive, `OutputsAgree` does not hold: each executor writes the
manifest and the files from its own memory. The documentation accepts
last-write-wins for this case, so it is checked with one executor alive at a
time, and only while no output was lost, since a resume recomputes a lost output
without recomputing what was derived from it.

## 4. What is proved

Each proof holds for every value of the constants that meets the module's named
assumptions: `StagesAreOrdered`, `OnlyQueuesHalt` and `BoundsAreNatural` of
`RunEngine`, `ShapesAreShapes` and `DriverBounds` of `RowDriver`,
`CachingsAreModes` and `QueueBounds` of `ReviewQueue`, `ChunksHoldEvents` and
`LogBounds` of `RunLog`, `LineageConstants`, `ClaimConstants`, `CacheConstants`,
`FileConstants`, `AuthoringConstants`, `ContractConstants` and `ChatBounds`.
They say that bounds are natural numbers, that what is counted is finite, that a
value which marks a case is no member's name, and, of the engine, that stages
are numbered in the order `topological_sort` gives. Five theorems, of outputs,
of `RunRecord` and of the log, also take `MaxLive <= 1`, one executor of a run
alive at a time, and say so in their statement. Nothing else is assumed.

### The engine

`RunEngineProof` proves eight theorems about `RunEngine` for every workflow
graph, every bound and every number of executions, alive together or not but for
the last two:

* `TypeCorrect`: the type invariant.
* `SettledRunsAreExplained`, `HaltMarksAreExact`, `FinishedStagesHaveOutput`: the
  safety invariants of the runs.
* `StagesStartWithTheirInputs`: no executor starts a stage whose upstream output
  it does not hold.
* `CancelsArePostedLater`: the action property `StoppedByALaterPost`.
* `EngineKeepsThePromise`: the refinement of `RunRecord`, when one executor lives
  at a time.
* `OutputsAgreeAlone`: the invariant `OutputsAgree`, when one executor lives at a
  time.

The first six assume only the named assumptions of `RunEngine`: the stages are in
topological order, which `topological_sort` gives and `Workflow` validates; only
row-mapped stages halt; the bounds are natural numbers.

The argument. None of the invariants is inductive alone: that a settled manifest
explains its pending stages depends on the executor's locals at the moment it
settles. `EngineInv` adds, for each execution, `ExecutionInv`: while it is in
its loop, `BooksAgree` says that `blocked`, `halted_stage_ids` and
`outputs_so_far` are exactly what the verdicts on the stages passed so far call
for; that a record it holds as finished has a file; and that a stage it is
inside has no blocked upstream. The last matters twice: it gives
`StartsWithItsInputs`, and it is why a stage that finishes below a queue cannot
be explained away. Settling then turns `BooksAgree` over all stages into
`SettledRunIsExplained` and `HaltMarkIsExact`. For the cancels it adds that
every pending flag was posted after the latest launch, which holds because a
resume empties the mailbox in the request thread, before its thread exists. The
invariant does not mention which executions are alive, which is why it holds
with any number of them: an executor writes the manifest from its own books, and
each book is consistent by itself. Each proof has one step per action; the facts
about status sets are lemmas. `EngineInv` is what TLC's runs check in parts.

`OutputsAgree` is false with a second executor (section 3), and with one it
rests on `LoneExecutorInv`, which makes three accounts of the stages agree: the
records an executor holds, the manifest and the files. In both accounts a
finished stage has finished inputs, of which it was computed as they are on disk
(`AgreesWithDisk`), and the one executor knows of every finished stage of the
manifest and holds its output as it is on disk (`LocalsAgree`). A death may come
anywhere, so the manifest has to be right without its executor, for the next
resume to load (`FilesAgree`). The step that could break it is `WriteOutput`,
which makes a new version of a file others have read. It does not, because the
stage it writes is recorded as running, and nothing below a stage that is not
finished is finished.

The refinement needs the two accounts `RunRecord` cannot see to be the one it can:
`LoneWriterInv` says that the executor alive writes from records that are the
manifest's own, that the manifest says running with no halt mark once its loop has
begun, that the stage it is inside is announced as running, and that a finished
stage whose output it does not hold has lost it (`HoldsWhatIsLeft`). Each action of
the engine then is a step of `RunRecord` or leaves the manifest as it is
(`LoneWriterSteps`), and `EngineInv` gives what a settle promises.

### Lineage

`LineageProof` proves, for any number of stages, any sources, any windows and
tables of any size:

* `RunsAreWellFormed`: every stage reads earlier ones, and a recorded lineage has
  an entry for each row (`TypeOK`).
* `LineageCarriesTheCells`: the invariant `ParentsCarryTheCells`.
* `TracesTellTheTruth`: the invariant `TraceTellsTheTruth`.
* `PathsHoldTheirLoads`: the invariant `PathHoldsItsLoads`.

The first two are inductive together. The argument goes the way the code is layered:
each handler's record is sound on the window it was given (one lemma for each
kind of handler); moving a sound record from window positions to positions in
the input keeps it sound, which is where an offset that is off by one would
show; and appending a sound record to a run that tells its parents truly gives
such a run, because no stage reads a later one.

The other two follow from the first two and one invariant more, `UnrecordedStay`:
a stage without a sidecar is opaque, or is a map that read its one input whole
and put out as many rows. Without it a walk through a stage that recorded nothing
could find the input of another length and stop there. A hop of a walk
(`AdvanceIsAHop`, one lemma for each way on) goes to an earlier stage, to a row
whose cells the row it left carries, or ends where the property allows; so after
n hops a walk has ended or gone up n stages (`Walked`), and after as many hops as
there are stages it has ended. For the paths, `PathsOfEachStage` says that a
stage's are worked out from the final ones of the stages before it, and the loads
of a path then follow the cells of its row down the run.

Neither is induction by the library's theorem, which takes an operator. The sets of
lengths for which a recursive function has a solution, and for which what is
claimed holds, contain 0 and with each number the next; were one missing there
would be a least one missing (`LeastNumber`, from the well-founded order of the
naturals), which is not 0 and whose predecessor is in the set (`HoldsAll`).

### Rows and decisions

`RowDriverProof` proves, for any number of rows, any fingerprints and any handler
shapes:

* `TypeCorrect`, the type invariant.
* `EachRowGetsItsOwnAnswer`: the invariant `EachRowItsOwnAnswer`, from
  `RowInvariant`. A slot holds an answer to its own row because everything an
  answer passes through does: what a worker holds of a row was computed for it in
  this attempt (`AnswersAreTheRows`), the cache holds answers under the
  fingerprint of the row they were computed for (`CacheHoldsAnswers`), and what a
  worker has still to record are answered rows of its group
  (`RecordsItsAnswers`). Before the first attempt there are no groups
  (`NoGroupsYet`); `ReportsThePlaced` bounds the reported progress by the slots
  that are filled.
* `AnAnswerIsPaidForOnce`: the invariant `PaidOnce`, from `PaidInvariant`, which
  adds that an answer paid for is in the cache or its worker has it still to
  record, that a row that waits for the mapper was not paid for (`PaidIsKept`),
  and that no worker is at work once the stage is left (`OutsideIsQuiet`): this
  is where the join of the pool at a cancel is needed.

`ReviewQueueProof` proves, for any number of rows, reviewers and executions, each
way of consulting the cache and any faults:

* `TypeCorrect`, the type invariant.
* `RowsAreDecidedBeforeTheyPass`, `DecisionsMatchTheirRows`,
  `DecidedRowsAreNotAskedAgain`: the two invariants and the action property of
  the run. The strengthening has two layers. `LedgerInvariant`: what the file
  handed to an execution holds of a row is a decision of that row the ledger keeps,
  what the cache holds is one or was imported, what the execution opened the cache
  with and what it answered is one its caching mode may replay
  (`VerdictsAreVouchedFor`), and a request that was judged holds a decision of the
  row it is for. `QueueInvariant`: what the ledger held
  when an execution was asked for is in what it is handed (`HandedTheLedger`), so
  in the result of every row it has mapped (`AnsweredAsHanded`), so in no queue it
  files (`FiledTheDeferred`).

### Claims

`ClaimReviewsProof` proves, for any shapes, contexts, runs, reviewers and
proposals and any number of claims and reviews:

* `RecordsNameEachOther`: the type invariant.
* `OneClaimStands`: the invariant `AtMostOneStands`. It is not inductive: while
  `submit_claim` supersedes one claim after the other, the new one is yet to be
  written, and what makes writing it safe is that everything still in its way is
  still on the handler's list (`SupersedingIsOnItsWay`). A kill in between drops
  the list and the new claim together.
* `ClaimsAreReviewedOnce`: the invariant `ReviewedOnce`, strengthened by
  `GoingIsMarked` (a review that goes is marked in the store, which is what the
  next request checks) and `OpenedIsAlone` (the session just opened is of a claim
  with no marked one).
* `ReviewStatesAreTrue` and `ReviewersAreBooked`: the invariants
  `ReviewStateIsTrue` and `ReviewersAreAccountedFor`, from `Told`, which says how a
  session's task, its mark, its failure and its agents move together. A page shows
  the state of a claim's *newest* session, so the argument needs that the session
  that goes, or is to, is the newest (`NewestGoes`), that a mark says that its
  review goes (`MarksAreTrue`), and that one that is over left its review or the
  reason why not (`EndsAreTold`). That a claim with sessions has a newest one is
  the least-number principle, taken from the library's `WFMin`.

### The log

`LogPanelProof` proves, for any chunk size, any numbers of executions and events
and any faults, with one executor alive at a time:

* `ClosedLogsAreWhole`: the invariant `ClosedLogIsWhole`.
* `LogPromiseIsKept`: the refinement of `EventLog`, that is, `LogKeepsItsPromise`.
* `SkipsAreAcrossChunks`: the invariant `SkipsOnlyAcrossAChunk`, of the panel that
  reads this log, for any tail and any number of broken connections.

The log is stored in chunks and promised as one sequence, so the invariant
(`LogInvariant`) starts by giving the chunks a length: there is an N with which
they are `Packed`, full up to the chunk where number N goes and empty after it,
and the events below N bear their numbers and come, of each execution, in the
order of emission (`InRuns`). What the writer alive has taken and not stored is
numbered from N on (`Held`), and what it has not taken is in its queue, in order,
the sentinel last (`Queue`); together with what it has stored these are all its
execution emitted, which is why a writer that found the sentinel and has nothing
left has stored everything (`IsWhole`). A flush then moves N to the end of the
group it wrote: inside the chunk, to its end, or to the place where the next one
begins, which is where a remainder of the division by the chunk size that is off
by one would break the numbering (`Divided`, `SameChunk`). A resume counts N anew
from the chunks, and `PackedIsCounted` says it finds the same.

The panel's invariant (`PanelHolds`) rests on one fact about a poll: what was read
of a chunk was all that was stored of it, and what is stored later is numbered past
it. So a batch holds, below each of its events, all of that event's chunk from the
cursor on (`ReadInOrder`), although it may lack the end of an earlier chunk that
filled meanwhile. A number is `Level` when the panel was given all that is stored
for it of the number's chunk below the number. What the panel was given is level,
and so is the cursor of a stream: the first by `TailStart` or by the last number
seen when a panel connects, and then by the last event of the batch, the events
the filter dropped included, when the cursor clears it; a batch cut off by a
`run_done` or a broken connection is sent from its beginning, which keeps what was
sent level. An event skipped in the chunk of a later event shown would contradict
the level of the latter. `LogGoesOn` is the step of everyone else: whatever the
writers, the crashes and the resumes store is numbered from N on, past all of this.

### Files

`FilesProof` proves, of the branch cache and for any threads, stages, numbers of
rows, files and bounds, `TypeCorrect`, `PagesGetTheirRuns`, the invariant
`PagesGetTheRunsBranches`, and `QuietCachesAreWhole`, the invariant
`QuietCacheIsWhole`. The first invariant is proved by `CacheInv`, which holds
while no two builds have met: one thread builds (`OneBuilds`), it has only files
open that it no longer has to write (`OpensItsOwn`), what it has written is of
its frames and the part comes last (`WritesItsFrames`); the stamp is of no later
analysis than the run's last (`StampIsNoNewer`), and vouches for whole files
unless nobody is left to trust it (`StampVouches`); and a reader nothing has
spoilt (`Entitled`: not crossed, not outrun, its numbers of rows those of no
earlier settlement) has the stamp of its own analysis and was given nothing else
(`ReadsItsFrames`). Why a build may rewrite files under the stamp that is there:
whoever came to the cache after it began has a manifest no earlier than its own
(`LaterNameMore`), and to an entitled one the stamp of an earlier manifest names
other stages or other numbers of rows, so it is refused. Frames that are made
again change no analysis that is listed, only what the next will be;
`AgainStays` says that what an analysis has before it stays.

`QuietCacheIsWhole` speaks of the builds that do meet, so it has another
invariant, `QuietInv`, which holds until something is killed or resumed. Nobody
turns to the cache before the run is settled (`NothingBefore`), so every build is
of one analysis (`OneAnalysis`) and a file opened by a second build keeps the
bytes the first wrote; a part, and so a stamp, is there only after some build
wrote everything (`WrittenForGood`). Both halves fail once a resume lets two
analyses meet.

Of the files of a workspace it proves, for any files, threads, projects, ceiling
and quota, `FilesTypeCorrect`, `RecordsHaveTheirBytes`, the invariant
`RecordsHaveBytes`, and `QuotaHoldsAsFarAsItDoes`, the invariant
`QuotaHoldsButForThoseUnderWay`. The first invariant is inductive with three
more: a file some request is at was minted (`MintedBeforeUse`), an upload has
its file to itself (`UploadsAlone`), and what a delete is about to unlink has no
record, or one that was revived (`UnlinksTheUnrecorded`). The quota is not kept
by what is recorded alone, since an upload is weighed long before its record is
written and a loaded record may be saved after its delete: `CommittedFits`
bounds the files recorded together with those some request may yet record
(`UnderWay`). When an upload is weighed, `UsedBytes` with it is within the
quota, and what is committed besides is one file of at most the ceiling for each
other thread (`BytesOfEach`); no other step commits to anything heavier, since
an update loads a record that is there. `UsedBytes` is the number of the bytes
recorded, as a set of pairs of a file and a place in it, which makes the sum a
cardinality.

### Drafts and versions

`AgentsProof` proves, for any stages, inputs, agents, hand edits and bounds:

* `AuthoringTypeCorrect`: the type invariant, which adds that an id is minted before
  it is a version's.
* `WorkflowsAreWhole`: the invariant `EveryWorkflowIsWhole`. A batch adds nothing
  that reads what was refused, and a save copies a draft that is whole itself.
* `VersionsLeaveNothingBehind`: the invariant `NothingIsLeftBehind`. A save reads
  the newest version at its check, takes its id at a second step and stores its
  version at a third, so what has to be carried from the one to the other is
  `SavesAreInOrder`: a save that overrode nothing is of a draft that stands on the
  newest version it saw, and its id comes after that one. Whatever was stored in
  between is then the reason why the version is blind, and nothing else lies
  between it and its base, except versions that were there when it checked, which
  are no newer than the base. That no other hand moves the draft meanwhile is
  `OneSavesADraft`.
* `DraftsDoNotConflictWithThemselves`: the invariant `NoConflictWithItself`, from
  `DraftsKeepUp`: a draft stands on the version it was saved as, or on a later one,
  or its save is just about to say so. A kill at that point breaks it, and only a
  kill does.
* `GenerationsAreAccountedFor`: the invariant `GenerationIsAccountedFor`, from
  `JobIsOpen`: a generation has no outcome before it is over, and the only save that
  ends one is the loop's.

That `find_latest_version_id` finds a newest version (`LatestIsNewest`) is the
least-number principle again.

### Stages of a version

* `AcceptedStagesDoFit`: `AcceptedStagesFit`, for any set of columns and any name
  pandas gives a clashing one. The run of `authoring` evaluates it over three.
* `SavedStagesKeepTheirPromises`: the invariant `SavedStagesRunAsPromised`.

There is one lemma for each kind of stage, an equivalence like the check it proves:
outside the cases named as let through, the one table the handler puts out has each
promised column, of its type and from its origin; in each of them it raises, or some
column is of elsewhere or missing. What several laid columns come to is said once
(`OverIs`, `ExtendIs`, `ArrivingIs`), what crosses into a merge in `CrossingIs`:
a column that lands is its source's even when it lands on the key's name, because
`LandsAside` lets nothing land there but the key. An aggregate is of at most two
operations, in the proof as in the run.

### Chats

`AgentsProof` proves, for any replies, panels and number of messages:

* `ChatTypeCorrect`: the type invariant.
* `SessionMarkIsHonest`: the invariant `MarkIsHonest`, with `TurnsTakeTheirTurn`,
  which ties the place of the handler on the loop to the state of the one turn that
  is there, and says that turns start in the order they were posted.
* `CliRemembersTheTranscript`: the invariant `MemoryIsTheTranscript`. The transcript
  is stored at one step and the token, if there is one, at the next, so it holds
  between handlers only; `TurnsRemember` says what holds inside: the running turn
  resumes the session's token, whoever has yet to answer comes after the transcript,
  and the token the session is about to have (`NextToken`) is of an answered turn
  whose CLI session remembers the answered turns that named one.
* `NoAnswerIsMissed`: the invariant `NothingIsMissed`. A page is read twice, the
  session first and the messages then, and what the panel owes its reader is fixed
  at the first read. Between the two, a turn it owes has its answer stored, is the
  one the first read found, or is over (`PanelsOwe`); at the second, the answers
  stored are drawn, the one found is streamed, and one that is over without either
  gave no answer (`Silent`). The turns owed are counted, not listed; that the first
  so many turns are the ones that had started is where the order of starting is
  needed.

### What is only model-checked

* All liveness under fairness (`EveryExecutionSettles`, `EveryAttemptLeaves`,
  `EveryFeedEnds`, `EveryStreamEnds`, `EveryReviewEnds`), which is out of the
  prover's reach.
* What is defined by a fold over a sequence (`EveryReplyReadsTheSame`): the
  library's facts about folds take operators as parameters, which the provers
  cannot instantiate.
* `SavedGraphsResolve`, which compares the graph's algorithms with what they mean
  over bounded inputs: they are recursive, which the prover does not take.

The runs of `RowDriver` and `ReviewQueue` leave out their type invariants, which
are theorems.

## 5. Abstractions

* One document save is one atomic commit; files are written whole. A torn file
  is a lost one (`LoseOutput`).
* Handlers are reduced to their outcomes. Row limits and offsets, usage totals,
  names, messages and timestamps are left out; a status is what a page reads.
* Stages are numbered by their place in the executor's order.
* A fingerprint is the identity of a row's content: hashing is taken to be
  collision-free, as the code takes it.
* In ChatTurns a message is the turn it starts; one panel stands for all, and an
  event is a block. In ClaimReviews an answer is whether challenges were raised
  and held up; in Authoring what a stage says is left out, so an edit in place
  changes no set of stages. In Lineage a row is where its cells came from;
  which rows a predicate keeps, which a key pairs and which window a stage reads
  are free choices, so every table of the bound is covered.
* Timestamp ids increase within a process, and a restarted one mints past every
  id stored: clocks that go back are left to the hazards list.
* ReviewQueue has one execution at a time (RunEngine has the overlapping ones),
  and every row of it is queueable.
* The log has no clock: the bounded join of `close()` and the two idle polls of
  the stream are not related in time, so a stream may stop by the settled status
  before the last flush. An event is its execution, its place and whether it
  belongs to the panel's stage; the page of older events is a pure read.
* Timestamps order the decisions of one process.
* In BranchCache the files of one kind stand for their kind, and a build opens
  them in any order, the summaries first and the stamp last; the code's order is one of
  these. What a build works out from frames that are made again under it is `Cut`,
  as if no analysis would give it.
* In ProjectFiles a file weighs at least one; what a file is called, and what
  type it is of, is left out.

## 6. Not modelled

* The arms authored code records (the `branch` calls of a function, their labels
  and ranking), subset runs, and the column notes of a
  lineage parent: values of cells and the source of functions decide them.
* Reports, review packets and every page: reads and rendering.
* Evaluation runs: one call mints a record, runs a subset of a workflow by the
  executor `RunEngine` models, scores its output and saves the record; no second
  actor sees a state in between.
* The conversion and inspection of uploaded files (`app/services/uploads.py`): a
  file is accepted or not.
* Of the transport of a stage cache: the export, the archive's format and its
  refusal, the count of reachable entries, and imports into the cache of a stage
  that is no review queue.
* What a model is asked and answers, prompts and tool tables.
* Of workflow documents: nullability and ranges of columns, predicates, stage
  tests, run bindings, metadata, and the stage types not listed under
  `StageContracts` (loads, filters, searches, reports, the model-calling stages
  beyond their row contract).
* The document store itself: every module takes from it that one save is one
  atomic commit of a whole document.

## 7. Plan

Done: `RunEngine` with its abstract `RunRecord`; `RowDriver`; `ReviewQueue`;
`RunLog` and `LogPanel` over the abstract `EventLog`; `ChatTurns` over
`ChatReply`; `ClaimReviews`; `Authoring`; `Lineage`; `BranchCache`;
`ProjectFiles`; `StageContracts`, `WorkflowGraph`, `SavedStages` and
`SavedWorkflows`; proofs about each of them but `ChatReply` and `WorkflowGraph`.
Next, in order:

1. The arms of authored code in `Lineage`.
2. Workflow documents: nullability through the joins and unions, predicates, the
   other stage types, run bindings; schemas carried along a whole graph, so that
   the undeclared columns an input carries are those its stages let through.
