# Formal models of cfai

cfai is a workspace for an investor: a FastAPI backend on PostgreSQL
(`src/backend/app`) with a Next.js page (`src/frontend`). The user keeps a
portfolio ledger, a strategy journal and further markdown documents; an agent
answers in a chat, edits the documents through tools and learns facts about the
user; background jobs analyse companies and seed a catalog of them.

This directory models the part of that system whose correctness depends on the
order in which things happen. `PROJECT.json` is the index: which definition
stands for which lines, which configuration checks which property, which
theorem is proved.

## Inventory

All paths are below `src/backend/app` unless they start with another directory.

| Component | State it keeps | Operations | What is hard |
|---|---|---|---|
| Document store (`copilot/service/workspace_service.py`, `copilot/api/router.py`, `tools/documents/tool.py`) | documents, one head per document, an append-only revision table | create, update, checkpoint, revert, delete; each is one transaction of its own session | requests overlap at READ COMMITTED; text and head are two rows; checkpoints lock many heads |
| Workspace opening (`ensure_workspace_state`, `ensure_document_head`) | ledger, journal, their heads | lazy creation on any read | two first readers race on a primary key |
| Workspace snapshots (same service) | snapshot headers and items | create, list, restore | a snapshot is read by many statements; restore deletes and re-creates rows in one flush |
| Skills and rules (`agent/skills`, same service) | skill rows, rule rows | seed defaults, override, delete, list | seeding on read brings deleted defaults back; seeding races |
| Agent turn (`agent/runtime/engine.py`) | the messages and tool results of one turn | ask the model, load a skill, check the tool policy, run tools | malformed answers, retries, required order of tools |
| Chat turn (`router.py` `stream_chat_turn`) | threads, messages | run an agent turn, store messages, enqueue a memory job | tools commit before the turn does; failures in the middle |
| Memory jobs (`copilot/service/memory_jobs.py`) | an in-memory queue, the ids seen, one worker task | enqueue, work, retry, start, stop | retries, restarts, order of turns |
| Memory store (`copilot/service/memory_service.py`) | active memories by key, one summary per user | list, rank, upsert, user edit, user delete, refresh summary | no uniqueness in the database; summary refreshed under a cooldown |
| Notifications (`copilot/service/notification_broker.py`) | one queue per subscriber | subscribe, unsubscribe, publish | events while nobody listens |
| Workflow runtime (`core/workflow`) and analysis orchestrator (`workflows/analysis/orchestrator.py`) | workflow rows, numbered events, artifacts | start, steps, emit, fail, monitor | monitor and workflow number events concurrently; timeouts; terminal states |
| Symbol projection (`workflows/analysis/projections`) | one snapshot and one base payload per symbol | upsert, normalise, cache lookup | two workflows of one symbol |
| Catalog seed (`workflows/maintenance/seed_service.py`) | seed runs, the company catalog | start, recover stale runs, execute, heartbeat | a run thought dead that is alive |
| Document patches (`tools/documents/workflows`, `tools/documents/scripts`) | none | apply a unified diff, validate a document, diff two texts | positions of hunks, ends of texts and tables |
| Analysis nodes (`workflows/analysis/nodes`) | the context of a workflow, a cache of company data | research, valuation, audit, advice | two workflows share the cache; answers of models; bisection |
| Providers (`providers`) | none | HTTP requests with fallbacks, polling of a research job | retries, timeouts |
| Web page (`src/frontend/src/app`) | a local copy of the workspace, an editor draft | load, edit, submit a turn | answers out of order, stale drafts |

The components meet in the database (document store, memory store, snapshots
and skills are tables of one schema; a chat turn, the tools it runs and the
memory worker use a session each), in the in-memory queues of the memory worker
and the notification broker, and in the event stream of a request.

What makes each of them correct:

- document store: a document, its head and its revision trail agree; the trail
  is one line; nothing of a failed request stays; every request ends.
- workspace opening: whoever opens the workspace first, the two protected
  documents and one first revision of each exist once.
- snapshots: a snapshot is the workspace as it was at one moment, a restore
  brings it back; requests wait for each other in a circle only at documents.
- skills and rules: one row for each identifier; a deleted one stays deleted.
- agent turn: only tools that the loaded skills allow run, in the order they
  require; a turn ends however the model behaves.
- chat turn: the client is told what is stored; a failed turn leaves nothing.
- memory jobs and store: a job is never duplicated, is given up only after its
  retries, leaves nothing behind if it fails; a key has one active row, unless a
  restore and a job write the table together; newer facts win.
- notifications: what is published is true, and reaches every subscriber in order.
- workflow runtime: events are numbered without gaps, the row agrees with the
  trail (its error code once the workflow has ended), a terminal state is final,
  every workflow ends that no failure strands.
- symbol projection: when a workflow has completed, nothing of an analysis from
  before it is left in the snapshot of its symbol.
- catalog seed: one run counts as running; a late one is not joined; a catalog
  written alone is one selection; a run ends as succeeded or failed.
- analysis nodes: a valuation is right up to its rounding, and is made from recent data; an audit
  and an advice speak of the valuation of their own workflow; a research ends in time.
- web page: a save goes to the item that its text was opened as; once everything
  has arrived, the page shows the store; what is overwritten can be found again.
- document patches: a patch that is accepted changes the lines it declares and
  no others; the diff of a revision is such a patch; a ledger lists each symbol once.

## Plan

The order is that of what would hurt most if it went wrong.

1. Done: `DocumentHistory` (what the store promises), `DocumentTx` (the store
   with overlapping requests, shown to implement it), `MemoryJobs`,
   `WorkflowRuns`, `WorkspaceSnapshots`, `ChatTurn` (with the opening of the
   workspace and the seeding of skills), `CatalogSeed`, `PatchApply`, `AnalysisNodes` with
   `ReverseDcf`, `WebPage` (composed with `DocumentHistory`).
2. Done: theorems about all of these. Every safety property that a passing run
   checks is one, be it an invariant or an action property.
3. Left: ranking of recalled memories, as a pure function. Liveness stays with TLC.

## Modules

`M` is a component, `MCM` its small instance for TLC, `M_proofs` its theorems;
those of `ChatTurn`, `WorkspaceSnapshots` and `PatchApply` are together in
`Copilot_proofs`, and those of `ReverseDcf` with those of `AnalysisNodes`.
In every module an operator named `Mutant_...` is a fault of the kind a
maintainer could introduce; no specification uses it. `PROJECT.json` pairs each
property with one that breaks it.

### DocumentHistory and DocumentTx: the document store

`doc`, `head` and `revs` are `copilot_canonical_documents`,
`copilot_document_heads` and `copilot_document_revisions`. In `DocumentHistory`
a request is one step: `Create`, `Update`, `Revert`, `Checkpoint`, `Delete` are
`create_document`, `update_working_document`, `revert_document_to_revision`,
`checkpoint_workspace` and `delete_document`. It is the abstract specification.

In `DocumentTx` the same requests run statement by statement in transactions of
their own, as the routes and the document tools run them: PostgreSQL at READ
COMMITTED through `NullPool`, `expire_on_commit=False`. `tx[r]` is what the
session of request `r` has read or will write, `docLock` and `headLock` are row
locks, `pc[r]` is the next statement. A write is applied to the tables in the
step that commits it. `recency` is the order by `updated_at` in which a
checkpoint visits the documents; `DeadlockVictim` is the transaction that
PostgreSQL aborts when two checkpoints lock heads in opposite orders.
`Abandon` is a client that leaves or a process that dies. Both modules start
from a workspace that has been opened; opening is in `ChatTurn`.

### MemoryJobs: from a turn to the memory table

`StoreTurn` and `Enqueue` are the end of `stream_chat_turn`; `Take`, `Retry`,
`Publish` are `_worker_loop`; `Select`, `Flush`, `Summarize`, `Commit` are
`upsert_memories` and `refresh_summary_if_needed` in the worker's session. What
this session wrote is `wk.own` until it commits. `CommitUnanswered` is a COMMIT
that succeeds and raises. `UpdateMemory`, `DeleteMemory`, `DeleteThread` are user
requests, one step each: they read and write one row under its lock. `Age` is
the passing of ten minutes or of a day since the last summary. `Crash` and
`Restart` are `stop()`, a kill, and `start()`. Candidates are given by
`Suggestions`; how they are extracted from text is left out.

The second writer of the table is a restore: `TakeSnapshot`, `RestoreSelect` and
`RestoreWrite` are what `create_workspace_snapshot` and `restore_workspace_snapshot`
do with memories and their summary. It reads the rows that it will delete in one
step and replaces them in a later one, in a transaction that knows nothing of the
worker: a row that a job inserts in between stays beside the restored one of the
same key. `calm` says of a restore that no job and no other restore was under way
meanwhile, and `Mixed` that one was that ended: `OneRowPerKey` excepts
these, and nothing else. A restore may fail (`RestoreFails`), as all do whose
snapshot and table share a skill.

A summary is made of the rows that `Listed` admits: the newest ones, as many as
`TopK`, and of these as many as `memory_summary_max_chars` allows. Which is newer
is told by `updated_at`, for which the module assumes that the clock does not run back:
what the job wrote itself is newer than what nobody has written since it began
(`edited` says that somebody has). A text that the limit cuts in the middle of a
row is taken to have lost the row. Expired memories are left out.

### WorkflowRuns: workflows, their events, the stall monitor

`StartWorkflow`, `ReadSeq`, `CommitEvent`, `EventRefused`, `NodeEnds`, `Persist`
and `MarkFailed` are `start_workflow`, `_append_event`, `_run_workflow` and
`_fail_workflow_isolated`; `Scan`, `ReadStalled`, `CommitStalled` are
`_monitor_running_workflows`. The number of an event is read in one step and
committed in a later one, in separate sessions for the task and the monitor:
the unique constraint refuses the second of two equal numbers, and `Broken`
says what becomes of a task whose COMMIT raises. The same becomes of a node whose
flush on the main session raises or is cut off by the timeout of the node, as in
`reverse_dcf` (`nodes/reverse_dcf.py:317`): its session is left rolled back, the
workflow object expired, and every handler fails on its first use of
`workflow.id` (`TaskFault`); `NodeEnds` is a node that ends with its session as
it was. The branch of a cache hit is
left out because no run of the code takes it: `freshness_expires_at` of a
snapshot is the time of its last event, and the transition to `queued`
overwrites the state that the lookup requires. `snapshot` is the row of the
symbol in `analysis_symbol_snapshots`: `Projected` is `upsert_workflow_projection`
in a transition, `StoreArtifact` and `WithArtifact` are `persist_artifact` and
`normalize_projection_payload`. Of its columns the module keeps `details`, which
collects the artifacts. A report of deep research is not among them:
`KNOWN_ARTIFACT_TYPES` has no key for it, and so `_seed_report_from_latest`, the
branch that would skip a research in tests, finds none; it is left out. `main.py` starts no orchestrator
at this commit; the module models the class as it stands.

### WorkspaceSnapshots: create and restore

`ws` is the set of rows of the five tables a snapshot copies. A request sees its
own changes (`View`) and publishes them at `Commit`. `Read` copies one table after
the other. A restore lists the documents and their heads (`ListDocuments`,
`ReadHeads`) and then goes through them one by one: `LookToDelete` and
`DeleteDocument` those that its snapshot lacks, then, in the order of the snapshot,
`LookToUpdate`, `LookToCreate` and `WriteDocument` those that it has. Each has a step
that reads and a step that writes, and between them others commit: a document may
have gone when it is to be updated (`WriteFails`) or before (`PassOver`), or may
have come when it is to be created (`Suffixed` are the keys that
`create_document` then tries). The other four tables follow with a `Select` and a
`Flush` each. `Put`, `Delete` and `AddBuiltins` (the seeding of skills) are requests
of others. `Flush` sends INSERTs before DELETEs, as the unit of work does.

`Writes` are the rows that the next statement of a request writes, and `Waits` says
that another request has written one of them and not ended. Two restores of
snapshots that list their documents in different orders wait for each other;
`DeadlockVictim` is the one that PostgreSQL aborts, and an exception rolls back all
that a request has written (`RollBack`). `rank` is the order in which a snapshot
lists its documents, the latest written first; when each was written is left out,
so a new snapshot may list them in any order. `Stripped` is what
`create_document` makes of a text. Revisions and heads that a restore writes beside
a document are those of `DocumentTx`. `calm` is a history variable: nothing else
was committed while the request ran. The identifiers of rules and memories are
left out. `Earlier` are snapshots that exist at first, of requests that are over.

### ChatTurn: a turn and the agent it drives

`Open` to `Enqueue` follow `stream_chat_turn` and `AgentRuntime`: the choice of
the thread, the context, the skill request, the repair of answers that miss the
schema, the tool policy and the calls, the COMMIT of two messages, the memory
job. One transaction spans all of it, which is why the thread it created is
"pending" until then. What the model answers is open. What a tool does to the
documents is in `DocumentTx`; the effect of a call here is its place in
`executed`. `CreateThread`, `DeleteThread`, `PutSkill` and `DeleteSkill` are requests of the user.

Three things create what they miss: a turn, `GET /workspace` (`GetWorkspace`)
and `GET /skills` (`ListSkills`). A turn reads first (`FindClosed`,
`FindMissingSkills`) and inserts in a later statement (`OpenWorkspace`, `SeedSkills`);
what it inserted (`opens`, `seeds`) is invisible, and an INSERT of the same row
waits (`OpenedByOther`, `SeededByOther`), until the turn ends; if the turn was
stored, the INSERT then fails (`Refused`). A tool of the same turn, in its own
session, misses the row just as well and waits for its own turn (`ToolWaits`):
nothing but the departure of the client ends such a turn. `Stuck` names these
turns and those that wait for their rows.

`IsToolAllowed` looks at one predecessor of a tool only, the one before the first place
of its name in the required order. An order that named a tool twice would not be
enforced in full.

### CatalogSeed: runs that fill the catalog

`FindStale` to `Spawn` are `start_top_us_market_cap_seed`: the runs whose
heartbeat is old are read in one statement and failed in a later one, the
running run is looked up, a new one inserted under the partial unique index
(`Singleton`). `Heartbeat` to `MarkFailed` are the task: the two lists with the
retries and fallbacks of `FmpClient`, the selection (`Eligible`, `Top`), the two
statements that write the catalog, the outcome. An upsert locks the rows it
writes, one after the other in the order of the ranks (`own`); the UPDATE of the
rest sees what is committed when it begins (`others`) and waits for locked rows.
`MarkSucceeded` writes only what differs from what `ReadRun` saw, so that a run
that another request fails in between ends as succeeded with an error code: the
module shows it and no document forbids it. The library that is asked for the
screener before the endpoints is one more way for it to answer. `main.py`
creates no `CatalogSeedService` at this commit; the module models the class. The
answer to a COMMIT is never lost here. If that of the COMMIT which inserts a run
(`seed_service.py:79`) were, the run would be running without a task until a later
start finds it late: `RunsEnd` says nothing of such a run.

### AnalysisNodes and ReverseDcf: the nodes of a workflow

`StartResearch` to `GiveUp` are `run_report`: a job of the provider goes on by
itself (`ProviderEnds`) while it is polled until a deadline. A status is asked for
(`Ask`) in a thread and answered later (`Poll`) with what it was at some moment in
between, `Latency` later at the most. The client sets no bound on that: a request
that never returns is ended by the timeout of the node alone (`NodeFails`), and the
property holds with the latency that the provider shows. `Lookup` and `Fetch` are
`_fetch_dataset_cached` for one dataset after the other; the annual ones are
asked for only if the quarters do not suffice (`Continue`). What is fetched is
flushed and becomes visible when the valuation commits (`CommitValuation`), so
that a failure takes it away; `Feed` are the versions that a provider publishes,
`published` when. `HasInputs` is what `_extract_market_inputs` and
`_build_baseline` demand, with the data they fall back on. `Audit` and `Advise` accept an
answer of a model if it names every case once, with the growth that it was
given; an answer is a list of names and of deviations, in any order. The comparisons
with 1e-6 are equality of integers here; an answer NaN, which passes them in the
code, is outside the model.

`ReverseDcf` is the valuation itself: a loop over the scenarios and in it a
bisection, one step for each halving. Rates are integers over `Unit` and
amounts integers; `Residual` is multiplied by its denominator, which is
positive, so that signs and tolerances are exact. What is answered is the middle
of the interval rounded to `Grain`, as `round(mid * 100, 4)`, ties to even, is
(`Rounded`); the error of the multiplication in floating point is left out. The
value of the rounded growth may miss the tolerance that the middle met, and
`SolverFindsRoot` does not say otherwise: it says that within half a grain of the
answer there is a growth that meets it. Between its data and its
result the node awaits nothing, which is why all other actions wait for `Calm`.

### WebPage: the page, the agent, and other pages

`workspace` and `editor` are the state of `page.tsx`; `calls` are the requests
that are under way. A call is made by the user (`Save`, `DeleteItem`, `OpenRule`,
`CreateItem`, `LoadWorkspace`), served by the store (`Serve...`) and answered
(`...Arrives`), each in a step of its own, so that calls overtake each other on
the way there and on the way back; `CallFails` is an answer that is lost or a refusal. The
module extends `DocumentHistory` and serves a call by its operations; the agent
(`AgentWrites`) and other pages (`WrittenElsewhere`) use the same. `from` is the
item whose text was put into the editor, `shown` and `needed` number the reads
of the store: they say whether the page shows the last one it should know of.
A rule stands for everything that is fetched when it is opened. The deletion of a
rule, a memory or a skill (it clears the editor as that of a document does) and the
restore of a snapshot (met as a write from elsewhere, after which the page loads) are
not calls of the module.

Remarks: a message typed while a turn runs is lost when the turn ends; a turn
that completes brings the page back to its thread; after one that fails nothing
is loaded, although its tools may have changed documents.

### PatchApply: how one edit changes a text

A behaviour of this module is one edit: `UserUpdate`, `AgentReplace` and
`AgentPatch` are the route of the editor and the two modes of `EditDocumentTool`,
all of which end in `update_working_document` (`Write`). A line is a model value
whose cells the constant `Cells` gives; a text is its lines and whether a newline
ends it, which is all that `splitlines` and `_join_lines` tell apart. `OpenHunk`
and `HunkLine` are the two steps of `_apply_unified_diff`, and `Run` is its loop over
the patch; `Scanned` is one turn of the loop of `_extract_markdown_tables`, `TablesFrom`
the whole of it. The loops are recursive functions on the number of lines they have
read, so that they can be reasoned about. `Diff` is
difflib's unified diff of any pairing of equal lines that is in order and cannot
be extended: difflib chooses one of these, and the properties must not depend on
which. `Script` is the list of operations that the pairing gives, `Shown` picks the
changes with their context, and `DiffOf` puts a header before each run of them. The properties say the same things without running the code: `Expected`
builds the new text from the places that the patch declares, `SymbolRows` reads a
ledger block by block.

Remarks that no property turns into a claim: a hunk "-N,0" inserts before line
N, where unified diffs mean after it; a hunk beyond the end of the text is
accepted and appends; patch mode can empty a note although replace mode refuses
a blank text; a stored diff does not tell whether the last line ends in a newline.

## Runs

| Run | Instance | Question |
|---|---|---|
| `doc_edits` | 3 requests that create, update or delete | Do overlapping edits have the effect of a serial history (refinement of `DocumentHistory`)? |
| `doc_all` | 3 requests of all kinds, abandonment, deadlocks; fairness | What remains true with checkpoints and reverts, and does every request end? |
| `memory` | 2 turns with conflicting facts, one retry, one disturbance (a crash, a lost answer, a user's edit, a thread deleted, a snapshot restored); fairness | Are jobs accounted for, facts unique, failures traceless, summaries complete? |
| `memory_rename` | 2 turns, the user may rename a memory; a violation | Is there one active row for each key? No. |
| `workflow` | 2 workflows of 2 nodes, one heartbeat, one trouble (stall event, fault or crash); fairness | Do events and states tell one story, and of an ended workflow its error code too, is a snapshot that completed all new, and does every workflow end that no trouble strands? |
| `snapshots` | 2 earlier snapshots with opposite orders, 3 new requests or edits, symmetric | Is a snapshot the workspace, does a restore bring it back, where can requests wait in a circle? |
| `snapshot_skills` | 2 requests, 4 requests and edits; a violation | Does an undisturbed restore succeed? No. |
| `chat` | 2 turns, 2 threads, 3 tool calls, 2 attempts, a built-in skill, a workspace that may be unopened; fairness | Is what the client is told stored, does the policy hold, is everything created once, and do turns end? |
| `seed` | 2 requests, 3 symbols of which 2 are selected, 2 endpoints, 2 attempts, one crash; fairness | Is one run running, is a late one replaced, is the catalog one selection, do runs end? |
| `patch` | 1 edit of any of 95 texts (up to 3 lines of a note, ledgers with one or two tables); 1684 patches with one hunk of up to 2 lines or two hunks of 1 | Do patches change what they declare, do stored diffs replay, does a ledger list each symbol once? |
| `page` | 3 calls, 2 documents, 1 rule, 2 texts, 3 revisions, symmetric | Do answers in any order mix items up, hide the store or lose a text? |
| `analysis` | 2 workflows, 8 datasets, the clock up to 5; 3 scenarios, 5 halvings of -9..12, answers in steps of 3 | Is the valuation right, does the advice speak of it, is the cache used as it should be, does a research end in time? |

### Bounds and why they are enough

- Requests run once, so three are three overlapping transactions: two in a race
  and a third that commits between any two of their steps. One protected and
  one ordinary document let every branch on `Protected` be taken and let two
  checkpoints lock two heads in opposite orders. Two texts tell "changed" from
  "unchanged"; a revision is named by the request and the document, so the
  revisions need no bound of their own.
- `MemoryJobs`: `MaxRetries` 1 (the setting is larger) gives a first attempt,
  one that is retried and one that is dropped. `MaxCrashes` 1 lets the process
  die at any point and go on. Two turns with a contradicting fact let an older
  one arrive after a newer one. The first of them has two facts, so that a job
  can fail half way. `TopK` 2 is less than the three rows that two keys and a restore
  can give. `OneDisturbance` leaves out states in which two kinds of disturbance have
  happened, but not two turns or two attempts that race with one: of an edit it
  counts only that of the job under way. The theorems have no such bound.
- `WorkflowRuns`: two nodes give a first and a last one. `MaxBeats` 1 is a node
  that is late once, `MaxTroubles` 1 is one stall event, fault or crash, at any
  step of either workflow and with the other one going on.
- `WorkspaceSnapshots`: `MaxWork` counts requests and edits together, the two
  earlier snapshots included: three requests that overlap statement by statement,
  two among an edit, or one among two, a change and its undoing. The earlier
  snapshots list their two documents in opposite orders, so that two restores
  can wait for each other, and differ in the rule and the skill. A document with
  two texts, a rule, a built-in skill and the summary are one row of each kind of
  table: upserted, freely keyed, unique, single. Memories behave as rules do,
  except that no restore of them differs; the run of the skills has one.
- `ChatTurn`: `MaxCalls` 3 admits the required order of three tools in full and
  every deviation from it.
- `CatalogSeed`: two requests are a run and the start that finds it late, or two
  starts at once; with two selected symbols their upserts can lock in opposite
  orders, and a third symbol is left out of one selection or the other. Four
  answers of the provider: two with opposite orders, one with equal
  capitalisations, one with too few companies.
- `PatchApply`: `Context` 1 (3 in difflib) so that texts of three lines already
  give diffs of two hunks. Two hunks with every start from 0 to 3 and every
  kind of line cover hunks that overlap, touch, come in the wrong order, lie at
  either end or beyond it. `MaxPatch` 6 counts lines; one patch exceeds it.

- `WebPage`: `MaxCalls` 3 counts the calls of the page and the writes of other
  pages, besides the first load: two loads and a write are enough for an answer that is overtaken, a save
  with the load that follows it, a draft saved after a deletion. What the agent
  writes is not bounded but by the three revision identifiers.
- `AnalysisNodes`: a TTL, a poll interval and a latency of 1 with the clock up to 2
  let a row be fresh, expire, and be replaced by another workflow, and with the clock
  up to 5 (`LateTicksAreOfResearch`: only for workflows that are at their research)
  a job end before, at and after a deadline of 3, an answer and an interval later included. One dataset is published twice, the second time with too few
  quarters, so that the annual ones are asked for. Of the three scenarios one
  converges, one uses up its 5 halvings of a bracket of 22 growths, and one has no
  crossing in the bracket. The answers of models are right, in another order,
  wrong in a growth, and incomplete.
- `ChatTurn`: one document row and one built-in skill are enough for each of the
  two turns and two pages to be first.

`CHECK_DEADLOCK FALSE` stands where the instance really stops: identifiers or
bounded requests are used up. `DocumentTx` checks for deadlock; its only
permitted stop is `AllEnded`.

### Fairness

- `DocumentTx`: `WF_vars(\E r : Proceed(r))`. As long as some request can take its
  next statement, the event loop runs one, PostgreSQL grants a free lock and
  aborts one of a deadlock. No request is owed to start, and none is owed to be
  preferred: the runs are finite in number, so this weak form suffices.
- `MemoryJobs`: the worker task goes on, and a request that has committed
  enqueues its job. Clients, crashes, restarts and users are not fair: `JobsSettle`
  holds because a process that stays down has nothing pending.
- `WorkflowRuns`: weak fairness of each task, because the event loop runs every
  ready task and `asyncio.wait_for` ends every node. The stall monitor, faults
  and crashes are not fair. A workflow whose COMMIT fails, or loses its number to
  the monitor, or whose node fails in a flush, stays "running" for ever (`Broken`
  explains why): `WorkflowsEnd` exempts those that are `Stranded` in this way, and no
  others.
- `CatalogSeed`: the event loop runs the tasks and spawns those of inserted runs,
  and PostgreSQL breaks deadlocks. Statements need not fail: a deadlock is
  resolved by its victim alone.
- `ChatTurn`: some turn that can go on does. It assumes that a call of the
  language model answers or raises, as its HTTP client does. No client is owed
  to leave, so that `TurnsEnd` exempts the turns that are `Stuck`, and no others.
- `AnalysisNodes` states no fairness. The event loop wakes a task that is due, and
  the provider answers within `Latency`, before more time passes (`Tick`), which is
  what `ResearchEndsInTime` needs.
- `WorkspaceSnapshots` states no fairness: `CirclesAreOfDocuments` asks that at any
  moment at which requests are past their documents one of them waits for no lock,
  which also covers the moment after a failure. At their documents the code lets
  requests wait in a circle, and PostgreSQL aborts one of them (`DeadlockVictim`).

## Findings

Two runs end in a violation; each refutes something the repository says.

- `memory_rename`: `update_memory` does not look for another row of the new key.
  Two active rows of one key make `scalar_one_or_none` raise in every later job
  that mentions the key.
- `snapshot_skills`: the flush of a restore sends INSERTs before DELETEs, so that
  `uq_copilot_skills_skill_id` refuses every skill that is both in the snapshot
  and in the table. "Snapshot create/list/restore works"
  (`src/.cursor/memories/roadmap.md:99`).

Seen while modelling, claimed by no run: a restore that overlaps a memory job, or
another restore, leaves two active rows of a key (`Mixed` of `MemoryJobs`), with the
consequence that a rename has: every later job that mentions the key fails. A
`reverse_dcf` whose flush fails or is cut off by its timeout leaves its workflow
running for ever. `checkpoint_workspace` reads texts first and
heads later, and locks no document. An update that commits in between stays in
the document but not at the head (`src/.cursor/memories/architecture.md:34` calls documents
and revisions the source of truth, and both are kept). A revert does the same. What remains true is
`TextIsRecorded`: the text is that of some revision. `list_messages` returns the oldest 200 messages of
a thread (`copilot/service/workspace_service.py:258`), so that the "Recent
conversation" of the prompt (`agent/runtime/engine.py:195`) stands still once a
thread has more than 100 turns.

## Proofs

`DocumentHistory_proofs` proves for every set of keys, texts and identifiers
that satisfies `ConstantsAssumption` (the protected documents are documents, and
the two null values are not values):

- `HistorySafe`: `Spec => [](TypeOK /\ LinksStayInDocument /\ HeadMatchesDocument /\ LinearHistory)`.
- `HistoryImmutable`: `Spec => RevisionsImmutable`.

`LinearHistory` is not inductive alone: an arbitrary state may hold a head, or
a parent, that lies in another document. The inductive invariant `HistoryInv` is
the conjunction of the four. `NextAppendsOrDeletes` shows that every operation
but the deletion is an instance of `Appends(D)`: each document of `D` gets one
new revision whose parent is the old head and which becomes the head.
`AppendKeepsInv` shows that this extends the line: a set that holds the new head
and is closed under "parent" holds the old head and is closed in the old state. `DeleteKeepsInv` is the
other case. `LinearHistory` quantifies over sets instead of using a recursive
path, so no theorem needs induction over data.

`DocumentTx_proofs` proves, from `TxAssumption` (the protected documents are
documents, the null values are not values, a request is not the one that opened
the workspace) and for any number of requests and documents:

- `TxTypes`: `Spec => []TypeOK`, and `TxFailuresLeaveNothing`:
  `Spec => []FailureLeavesNothing`, for all kinds of request.
- `TxLinks` and `TxTextIsRecorded` (`[]LinksStayInDocument`, `[]TextIsRecorded`) and
  `TxImmutable` (`History!RevisionsImmutable`), also for all kinds of request.
- `EditsActAsHistory`: if the requests only create, update and delete
  (`Kinds \subseteq EditKinds`), `Spec => ActsAsHistory`, that is
  `Spec => History!Spec`.
- `EditsKeepHistory`: then also `HeadMatchesDocument`, `LinksStayInDocument` and
  `History!LinearHistory` are invariants.

`TxTypes` and `TxFailuresLeaveNothing` follow from `TxInv`: types, and for each request what it must not
spoil (`Safe`): the texts it will write are texts, no revision bears its name
before it ends well, and it holds heads only while it writes, which is why the
victim of a deadlock cannot be a request that has committed. Every step is
`Quiet`, which touches its own session and locks only, or `Committing`.
`OthersUntouched` frames the sessions of the other requests, so that each step
is looked at for its own request alone.

Links and texts need `TrailInv`. A checkpoint or a revert locks no document, only
its head row, and commits a revision that refers to heads it has read before.
`Held` says why they are still there: who holds a head row holds off a deletion of
the document (`DELETE` waits for the rows that refer to it), so the revisions
that its own will name exist. `NamesTheirDocument`, that a revision is named by
its request and its document, makes the revisions of two requests distinct; with it
a revision vanishes only with its document.

The refinement needs `EditInv`, which adds `Serial!HistoryInv` (the invariant of
`DocumentHistory_proofs`, taken as an instance) and `Edits`: an edit works on one
document, holds its row exactly from the UPDATE to the end, and as long as it
holds it the document exists and the head it has read is the head. This is
stable because everything that changes a document waits for its row
(`SparesLocked`). So `Commit` appends to the real head; it maps to `Update`, or to
a `Revert` to the head if the text has become the current one while the request
waited for the row. Checkpoints and reverts of an unchanged text lock no row:
with them `Edits` fails, and its consequence, that the head has the text of the document, does too.

`WorkflowRuns_proofs`, for any number of workflows, nodes, heartbeats and troubles:

- `RunsTypes` and `TrailIsNumbered` (`[]EventsNumbered`) from `TrailInv`: the
  numbers of a trail are `1..n`, and a number that was read and not yet committed
  is one of them or the next. The unique constraint does the rest: what commits
  is the next (`EventIsNext`).
- `RowIsAsTrail` (`[]RowAgreesWithTrail`) and `EndIsFinal` (`TerminalIsFinal`) from
  `StateInv`: a transition that was allowed when its number was read still is when it
  commits, since only the task of a workflow changes its state. For the error
  code `CodeInv` adds that a workflow which has ended has no task left that
  could set it. Before that the code runs ahead of the state: it is
  committed first, and a workflow stranded between the two keeps it while running.
- `CompletedMeansDone` (`[]CompletedAfterAllNodes`) and `CompletedMeansFresh`
  (`[]CompletedRefreshesSnapshot`) from `ProgressInv`: where a task is tells which
  nodes are done in its trail and which artifacts of the snapshot are new.

`MemoryJobs_proofs`, for any number of turns, retries and crashes:

- `JobsAreAccounted` (`[]JobsAccounted`) from `JobsInv`: a turn is "queued" exactly if
  one job of it is in the queue or in the worker's hands.
- `FailuresLeaveNothing` (`[]FailedJobLeavesNothing`) and `SummariesAreFresh`
  (`SummaryHasNewFacts`) from `OwnInv` and `RowsInv`: what the session of a job wrote
  names its turn, a committed row that names a turn has a job that was done or
  whose COMMIT was unanswered, and a draft is of the rows that the job saw. A summary
  may leave out facts of its own job, if more were learned than fit; then nothing older is in it.
- `OrderIsKept` (`OlderFactsOnlyByRetry`) from `OrderInv` and `DoubtInv`: of the
  turns that arrived, those of untried jobs are queued in their order.
- `KeysStayUnique` (`[]OneRowPerKey`) under the assumption `Renames = {}`: `KeysInv`
  ties the key of a row to its identifier, and says of a restore that nothing has
  disturbed that it has read all rows and no job is under way (`Alone`). Without the
  assumption it is false, see `memory_rename`; and `OneRowPerKey` itself speaks only of tables
  on which no restore overlapped a job or another restore (`Mixed`).

`Copilot_proofs` on `ChatTurn`, for any number of turns, threads, skills and tools:

- `CompletedAreStored` (`[]CompletedIsStored`) and `FailedAreNowhere`
  (`[]FailedStoresNothing`) from `Outcomes`, which says for every point of a turn what
  its thread, its messages, the queue and the workspace are.
- `RowsAreMadeOnce` (`[]SeededOnce`) from `KeptOnce`: of the rows that are missing no
  two turns hold the same one.
- `ToolsKeepToPolicy` (`[]ToolsFollowPolicy`) under the assumption `OrdersAreDistinct`,
  that no required order names a tool twice: the code looks at one
  predecessor, and the tools that ran before needed all the others (`OneMoreFollows`).

`Copilot_proofs` on `WorkspaceSnapshots`, for any number of requests, edits and rows.
`SnapshotsAssumption` types the constants and says that the rows of a fresh
workspace (`copilot/service/workspace_service.py:481` opens it first) and those of the
earlier snapshots have one row for each document and one for each protected document:

- `SnapshotsAreWhole` (`SnapshotIsWorkspace`) and `RestoresAreComplete`
  (`RestoreIsComplete`) from `SnapshotsInv`. Neither is inductive: both speak of the
  COMMIT only, and what is committed then was read or written table by table
  before. `Undisturbed` says how far an undisturbed request has come: among the
  documents (`Documents`) it sees the committed rows with those that it has written
  replaced (`Half`), of which `Pending` are left; past them, up to the table
  at hand a restore has replaced the rows by those of the snapshot
  (`Restored`), and a snapshot has copied what it sees (`UpTo`). That this goes
  on needs `Sound` of the committed rows, of every snapshot and of what a
  request sees: a document has one row, and the protected ones are there, since
  a restore, which never deletes these, would keep one that its snapshot lacks. `Sound` in turn needs
  `DocumentsApart`: no two requests write the same document, because the second
  waits for its row. Of rules and memories nothing of the kind holds: a restore
  adds those of its snapshot beside those that others have added meanwhile, and
  `Sound` speaks of documents only.
- `OnlyDocumentsBlock` (`[]CirclesAreOfDocuments`). What a request has written is of the
  tables before the one it is at (`LocksAreBehind`), one that is at its documents has
  written documents only, and one that has ended holds nothing. So of the requests
  past their documents, one at the furthest table waits for nobody. This is why
  the tables are restored in one order. At the documents the code has no such order and
  nothing of the kind is claimed. The argument is about the locks of
  the statements alone and needs no `ENABLED`.

`Copilot_proofs` on `PatchApply`, for any texts, any patches, any cells and any context of
one line or more. `PatchAssumption` says that texts are what `splitlines` can give (an empty
last line only before a newline), that patches are lists of lines and that
`Context` is positive; difflib is called with its default of 3.

- `EditsAreTrue` (`[]EditInv`) is the invariant of the other three: a text is a text, a
  ledger has passed `validate_document_content`, and the record of an edit is
  true. The three properties are then facts about the algorithms.
- `LedgerStaysWhole` (`[]LedgerListsSymbolsOnce`). The pass over the lines and the reader of
  blocks find the same tables (`TablesAreHeadings`). `PassHolds` is the invariant of the
  pass: it has found all headings above its line, and no table has begun in the block above it.
- `PatchesLand` (`[]PatchLandsWhereDeclared`). `Lands` follows the hunk lines: the cursor is where
  `Place` counts it to be, and the line there is the line of the patch. `Traced` follows
  the new text: it names for each line of it the piece that it comes from; the
  pieces ascend and none that is behind the cursor is left out (`TracedKeep`,
  `TracedAdd`, `TracedDrop`). An ascending list of all pieces is the list by rank (`RankIs`),
  which is how `Expected` orders them.
- `DiffsReplay` (`[]StoredDiffReplays`). The script is a walk through the lines of both texts, from
  their first lines to their ends, in which a step that both texts take is a kept
  pair (`ScriptWalks`). `Hunk` says what the loop has done within a hunk: it has passed the
  old lines and made the new lines of the walk, and has removed no more than the
  header counts. A line that is not shown is in both texts, so what
  `_apply_unified_diff` copies between hunks are lines of the new text too (`LeftOut`). `HeaderTarget`
  is where the positive context is used: a hunk that does not begin with the texts
  begins with a common line, counts at least one old line, and its start is not
  shifted as that of an empty range is.

These are inductions over the lines of a text, a patch or a script. The induction
theorems of the library take an operator as a parameter, which the provers cannot
instantiate; `ByInduction` and `ByRecursion` state what is needed of them about a set and a
function instead. They are proved from the least-number principle (`LeastOf`), a
consequence of the library's well-founded induction.

`CatalogSeed_proofs`, from `SeedAssumption`, for any number of requests and symbols and
any answers of the provider:

- `OneRunAtATime` (`[]SingleRun`) and `StaleRunsAreNotJoined` (`JoinsNoStaleRun`) from
  `SeedInv`: no two runs are running, a request that has not inserted its run has
  none, and what it found late is over when it looks again.
- `CatalogIsSelected` (`CatalogIsOneSelection`) from `SelectInv`: the symbols a task has
  upserted are the first of its selection, as many as statements were executed, and
  what its second UPDATE takes out is, while it is alone, every other row there
  is; a stock that no run has written has no rank. The lemmas on ranks
  (`RankIsPlace`, `NextOfRank`, `RanksAreAll`) show, by cardinalities and not by
  induction, that the ranks of a finite selection are `1..Target` and follow
  the capitalisation.

`WebPage_proofs`:

- `PageWorksOnHistory`: `PageSpec` implements the `Spec` of `DocumentHistory`, so that its
  theorems hold of a store that pages and agents use.
- `SavesUnderOwnName` (`[]SavesOwnText`) and `NothingOverwrittenIsLost`
  (`OverwrittenIsRecorded`) from `PageInv`, which joins `HistoryInv` with the types of the
  editor and the calls and with `from = item` in both.
- `PageShowsTheStore` (`[]ShowsTheStore`) from `ShowsInv`. What the page shows lags
  behind the store in several ways, and `Explained` lists them: a turn is on, a load is
  sent, a write is answered whose load follows, the latest answer is on its way,
  it is shown, or the page is late and every answer on its way is older than what
  it needs. Each step leads from one of these to another; with nothing
  under way only "it is shown" is left. `ReadsInv` numbers the answers so that no
  two are confused.

`AnalysisNodes_proofs`, for any number of workflows, any feed, TTL, poll interval and
deadline. `NodesAssumption` types the constants, `SolverAssumption` is about the
residual, and `InputsAssumption` says that `Inputs`, of which `SolverAssumption` speaks,
holds whatever the versions of the feed can bring to be valued. TLC
evaluates all three for the instance of `analysis`.

- `SolverIsRight` (`SolverSpec => []SolverFindsRoot`). `SolverInv` says of a bisection
  under way that the ends of its interval have residuals of opposite signs and
  that it is no longer than `Width` after as many halvings. `SolverAssumption`: the
  bracket is halved often enough, rounding does not lead out of it, and the residual
  of a growth lies between those of the ends of the bracket, as it does for a multiple
  of a polynomial with positive coefficients in 1 + growth. The answer is right to
  half a grain: the growth that meets the tolerance is the middle before it is rounded.
- `NodesRunSolver` (`Spec => SolverSpec`): the workflows use the solver as it is meant to
  be used, one valuation at a time and never with inputs outside `Inputs`; so
  `AnalysisSolverFindsRoot` (`Spec => []SolverFindsRoot`). `ReadsInTurn` of `NodesInv` is what it
  needs: when a workflow comes to value, each dataset has been read.
- `ResearchIsTimely` (`[]ResearchEndsInTime`) from `InTime`: a research that has ended is
  looked at within one interval and one answer, a status that was not yet "completed" was
  asked for before the job was, and nothing is asked after the deadline. It is a theorem
  for every `Latency`, and says nothing of a provider that has none.
- `CacheIsOfValued` (`[]OnlyValuedIsCached`) from `CacheInv` and `RowsAreRight`: a row in the cache
  bears the name of a workflow that has valued, and a row that a workflow has
  fetched but not committed is its own.
- `AdviceIsOfValuation` (`[]AdviceMatchesValuation`) from `PassesOn`: a summary that is
  accepted has the growths of the valuation in their order, and audit and advice
  keep it.
- `AnalysisReadsAreRecent` (`ReadsAreRecent`) from `RowIsRight`: a row bears a time at which
  its version was the newest. That some version is the newest one at a time is the
  least-number principle (`NatHasLeast`), taken from the library's
  well-founded induction.

Only model-checked: liveness (`RequestsEnd`, `JobsSettle`, `WorkflowsEnd`, `TurnsEnd`, `RunsEnd`),
which needs fairness and `ENABLED` and is beyond the prover. The other way round,
`LinearHistory`, `RevisionsImmutable` and `HeadMatchesDocument` of `DocumentHistory` and the
types of `DocumentTx` and `WorkflowRuns` are proved and no run lists them, since
their theorems say more than a run could.

## Not modelled

- The formatting of documents, prompts and events; extraction of memories by
  regular expressions; ranking of recalled memories; titles of threads.
- The summary routes: `/memories/{memory_id}` is declared before
  `/memories/summary` and answers its requests.
- Notifications: `notification_broker.py` is a set of queues without bound that one
  event loop fills and empties; the truth of what is published is part of
  `JobsAccounted`. An event that a subscriber missed leaves nothing behind: the
  page only shows it for a moment.
- What is composed for a model and what it writes: prompts, queries, reports; the
  scores of portfolios and candidate cards, averages of floating point numbers.
  The other modes of research (no endpoint, or a dry run) are one call of a model.
- Of the providers, everything but the calls that `CatalogSeed` and `AnalysisNodes` make.
- Configuration, logging, `main.py`, migrations: no state that changes under
  the system. The settings are constants of the modules.
- The columns of a snapshot of a symbol that every transition sets.
- Of the page, its layout, toasts, the input line and the list of snapshots.
