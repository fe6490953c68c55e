# A TLA+ model of the platform's workflows and of what they leave in the database

This project models, checks and proves properties of the parts of the platform
whose correctness depends on the order in which processes reach the database:
the workflow engine and its queue; the parsing, indexing and enrichment of what
is uploaded; the static-page worker; and the pipeline that keeps semantic
snapshots of datasets and the links between them up to date. Paths below are
relative to `src/`, the root of the repository.

## 1. The system

A Rust workspace (`crates/`), a web client (`apps/web`) and PostgreSQL. The
API server (`platform-api`) and about fifteen worker binaries share nothing but
the database; an event bus carries wake-ups that may be lost. The processes
synchronise by SQL statements only: unique indexes, `on conflict`, guards on a
status column, `for update skip locked`.

| Component | State it keeps | Operations | What makes it correct |
|---|---|---|---|
| Workflow engine, definitions (`workflow-engine`, `workflow-definitions`) | none: a function from (state, signal) to (state, event, tasks) | `initial_state`, `transition` for the linear, external-sync and video definitions | every transition describes itself in its event; the retry budget is kept |
| Workflow runtime (`platform-api`, `storage`) | `workflow_executions`, `workflow_events`, `workflow_tasks` | create, start, retry, cancel, signal | log, row and queue agree; a signal is applied to the row as it is; the log replays |
| Queue workers (assistant, action, media, report, memory, retrieval, ingest, source, ...) | the claimed task | claim, process, signal, mark | a step is marked done only when its completion is recorded; claimed work is settled |
| Semantic snapshots (`dataset_semantic_snapshot.rs`) | `dataset_semantic_snapshots` | preview, begin, gate, mark ready / failed | readers never lose a snapshot or go back; the latest snapshot catches up with the sources |
| Semantic links (`dataset-semantic-link-worker`, `-backfill`) | `dataset_semantic_link_runs`, `dataset_semantic_link_snapshots` | enqueue, claim, build, mark ready, retry, recover leases, revive | one ready link per pair of datasets, that only moves forward; the current pair settles |
| Membership changes | memberships, stale marks | add, remove, expire, refresh | a change reaches the snapshots |
| Asset parse (`asset_import_support.rs`, `ingest-worker`) | `asset_parse_runs`, `asset_profiles`, detached tasks and their executions | import, enqueue, claim, parse, retry, settle | one task per asset at a time; a success has its profile; a detached task and its execution agree |
| Document parse, facts, enrichment (`ingest-worker`, `retrieval-worker`, `document-enrichment-worker`) | `documents`, `document_chunks`, `document_facts`, `dataset_fact_snapshots`, `document_enrichment_runs` | parse, automatic reparse, index, derive facts, rebuild the snapshot, enqueue and claim a run | facts follow the chunks and never go back; the snapshot follows the facts; a run has one worker and ends |
| Static pages (`static-page-worker`) | `static_page_image_jobs`, `static_page_render_outputs`, `static_page_drafts`, tasks | create, generate, submit and poll, fall back, render, confirm, automatic retry, prewarm gate, stale sweep | what a finished workflow reports is there; the sweep settles what a dead worker left and touches nothing else |
| Codex host agent | tasks | claim, run a command, requeue | slots are bounded, requeues end |
| External sync, actions, channels | `external_sync_runs`, checkpoints, dispatch records | sync steps, dispatch, reply | the status follows the execution; an action is dispatched once |
| Assistant runs, chat sessions, reports, media, memory | rows per run | worker steps | as the queue workers |
| Auth and scopes | codes, sessions | issue, verify, expire | a code is used once, in time |
| Event bus | none | publish, subscribe | a lost message only delays |
| Gateways, registries, contracts, analytics, web client | none shared | - | - |

What is hard here: a signal reads the row in one round trip and overwrites it
in another; a task's outcome and its mark are separate transactions; a retry is
two signals; a worker may die between any two statements; leases exist for the
link runs only, and a sweep of stale claims in the static-page worker only;
jobs, outputs, documents and fact snapshots are read as whole rows and written
back as whole rows later; `generated_at` and status values are read early and
used late. `PROJECT.json` lists these hazards at their lines, with the
properties that would catch each of them going wrong.

## 2. The modules

    WorkflowDefinitions        the state machines, as data and functions
      WorkflowDefinitionsProofs  lemmas about `transition`
      AtomicWorkflow           abstract: a signal is one atomic step
      WorkflowRuntime          one execution: row, log, queue, clients, workers
        WorkflowReplay         ... with the replay of the log as a history variable
        MCWorkflowRuntime      ... with the symmetry of its processes
        WorkflowRuntimeProofs  theorems
        WorkflowSerialProofs   theorems about the serial system, with the refinement
      StaticPages              an image job or a render: execution, tasks, rows
        StaticPagesProofs      theorems
    AssetParse                 the profile parse of one asset
      AssetParseProofs         theorems
    DocumentFacts              documents of one dataset: chunks, facts, runs
      DocumentFactsProofs      theorems
    SemanticSnapshots          the snapshots of one dataset and their rebuilds
      SemanticSnapshotsProofs  theorems
    SemanticLinks              runs and links of one pair of datasets
      SemanticLinksProofs      theorems

StaticPages composes the definitions with the tables of a worker: it applies
`Accepts` and `NextState` of WorkflowDefinitions in one step and leaves the
interleaving inside a signal to WorkflowRuntime. The other modules meet at a
table: DocumentFacts changes the sources whose fingerprint SemanticSnapshots
reads (`ChangeSource`), and a snapshot that becomes ready is what SemanticLinks
publishes (`PublishSnapshot`).

### WorkflowDefinitions

The definitions are records (steps with stage, task key and failed stage, and
the flags in which the three `transition` functions differ); `Accepts`,
`NextState`, `EventName` and `EnqueuedTasks` are the guard, the state, the event
and the tasks of `transition`, and `ExecutionFromTransition` adds what
`workflow_execution_from_transition` does to `attempt`. Of the JSON context only
`launch_context` is kept: are the keys stored by the launching caller still
there. A result that a worker reports is plain or says that the source is
unsupported, which is all that `transition` looks at.

### WorkflowRuntime

`execution`, `events` and `tasks` are the three tables for one execution, a task
identified by the sequence number of the event that enqueued it (one transaction
inserts both). `factTasks` are the `cleanup_document_facts` rows of the same
execution, identified by the parse task that inserted them: they have no event and
send no signal. `calls` holds what a process keeps between two database calls.

| Action | Code |
|---|---|
| `Request`, `Restart`, `Respond` | `start_workflow_execution`, `retry_workflow_execution_with_state`, `send_workflow_signal`; `Restart` and `Respond` are also the second half of the ingest worker's `dispatch_auto_reparse_retry` |
| `ReadExecution` | `get_by_id` and `transition` in `apply_workflow_signal_with_dependencies` |
| `BeginAdvance` | start of `advance_with_tasks`: `max(sequence_no) + 1` |
| `CommitAdvance`, `RollbackAdvance` | its update and inserts; the unique index decides |
| `StorageFault` | any of these calls fails |
| `ClaimNextAvailable` | `claim_next_available` |
| `ProcessTask` | the worker's work and the signal it decides to send; the ingest worker inserts the fact task (`CreateFactTask`) before it reports an accepted parse, or finds the parse too poor |
| `MarkSucceeded`, `MarkFailed`, `FailStep`, `AbandonTask` | the ends of `process_task`; after a poor parse `MarkFailed` goes on to the worker's own retry |
| `ClaimFactTask`, `MarkFactTask` | the retrieval worker at a fact task |
| `Crash` | the process dies and is restarted |

The workers differ in what an `Err` of StepCompleted makes them do; the constant
`FailStepOnSignalError` chooses between the two ways. `AutoReparse` is
`INGEST_AUTO_REPARSE_ENABLED`; how often a document may be reparsed is a matter of
its metadata and left to DocumentFacts, so a poor parse may or may not be retried
here. A commit may report `Err`
although it took effect: the acknowledgement is lost, or one of the writes that
follow it fails.

`AtomicWorkflow` is what the engine promises: a signal is applied in one step to
the row as it is. `AppliesAtomically` is that specification under the mapping
`row <- execution, log <- events`. `WorkflowReplay` adds the row obtained by
replaying the log through the definition.

### SemanticSnapshots

A row is identified by the fingerprint of the sources. A rebuild is one action
per database call of `rebuild_dataset_semantic_snapshot_from_storage`:
`StartRebuild` (the caller's `generated_at`), `Preview`, `CompareLatest`,
`TryBeginBuild`, `MarkReady` or `MarkFailed`, and `Abort` for a rebuild that
stops anywhere. Only the order of timestamps matters, so they are renumbered
when one is drawn, which keeps the state space finite without a bound on time.
`ChangeSource` is a change of a document, asset, membership or dictionary, or an
expiry; with `Reverts` the sources may return to an earlier state, as they do
when a document is added and removed again.

### SemanticLinks

A run and a link are identified by the pair of dataset snapshots they join,
numbered in the order in which they become the latest ready one. Publishers are
the processes that rebuild or reconcile (`MarkStale`, `PublishSnapshot`,
`KeepSnapshot`, `ListCandidates`, `CreateOrGetRun`, `EnsureBuild`,
`ReviveDeadLetterRun`, `GiveUp`); workers follow `run_worker_loop` and
`process_claimed_run` call by call. `mark_ready` is a transaction of two
statements: `MarkReady`, `SupersedePrevious`, `CommitReady`, with its row locks
(`Locked`) and the statement snapshot of the second one. Every update is guarded
by the status of its row; none by the worker that claimed the run.

### AssetParse

`run` is the row of `asset_parse_runs`, `tasks` the detached tasks in the order
of creation, each with the execution that is its envelope.

| Action | Code |
|---|---|
| `UpsertParseRun`, `EnqueueAssetParse` | the two halves of an import: `upsert_parse_run` returns the row, `enqueue_asset_parse_if_enabled` decides on what it returned |
| `AbortImport` | the request fails between the two |
| `ClaimNextAvailable` | `claim_next_available` and the loop of the ingest worker |
| `RejectDisabled` | a worker without the feature flag fails the task |
| `CheckRun`, `StartParse`, `Parse`, `UpsertProfile` | `process_asset_profile_parse_task_with_provider_result` |
| `UpdateParseRun`, `UpdateTask`, `UpdateDetachedTaskState` | the three statements that settle or requeue: the run, the task, the execution |
| `StopHalfway` | an `Err` between two statements, or a dead process |

What a worker is about to write is a plan (`Succeed`, `Retry`, `Fail`), decided
once, as in the code, and carried out statement by statement. A requeued task
becomes available after two seconds; `SlowStatements` says whether the worker
that requeued it may take longer than that for its last statement.

### DocumentFacts

The chunks of a document are the number of the parse that wrote them. Facts
carry the ids of their chunks, which are foreign keys, so facts of chunks that
were replaced meanwhile are refused; the model takes this from the migration.
`execution` is where the newest upload_ingest execution of a document is, `queued`
counts its parse tasks, `ingest` is the next statement of the ingest worker, and
`reportErr` remembers that a signal or a mark returned an `Err`. A signal is one
step here, with its three outcomes: Ok, an `Err` without an effect, an `Err` after
the commit.

| Action | Code |
|---|---|
| `RequestParse` | an upload, a retry of a failed execution, a reparse request (a new execution, refused while one is active) |
| `ClaimParse`, `ReplaceChunks`, `MarkExtracted`, `EnqueueFacts`, `CompleteParse` | `process_uploaded_document_task` at a parse it accepts: chunks, lifecycle, the insert of the fact task, StepCompleted, one statement each |
| `MarkDeferred`, `FailDeferred`, `RestartParse` | ... at a poor one: lifecycle and counter, StepFailed and mark, `dispatch_auto_reparse_retry` |
| `ParseFails`, `MarkParseFailed`, `FailParse`, `IngestStops` | its error path: lifecycle "failed", StepFailed and mark; a worker that dies |
| `ClaimTask`, `LoadDocument`, `LoadChunks`, `ReplaceFacts`, `AggregateFacts`, `UpsertSnapshot`, `EnqueueRun`, `RestoreLifecycle`, `MarkTask` | the fact task of the retrieval worker, statement by statement |
| `IndexDocument`, `CompleteIndex`, `MarkIndexFailed`, `FailIndex` | its index task |
| `ClaimRun`, then the same middle part, `MarkRunSucceeded`, `RequeueAfterError` | the enrichment worker |
| `StatementFails`, `Crash` | one statement of several fails; a worker dies |

### StaticPages

One execution of either kind, with its rows. A slot is a task being processed.

| Action | Code |
|---|---|
| `Create` (`CreateStart`, `CreateReload`, `CreateUpdate`) | the request that creates the execution: Start, read the execution, write the row it created |
| `Request`, `Respond` | start, cancel, retry, confirm, with the output that follows the execution (`Sync...`) |
| `ClaimNextAvailable`, `WaitForLowLoad`, `AppendSkipped`, `LoadRow`, `Route` | claim and the gate for prewarm drafts |
| `MarkJobRunning`, `Announce`, `Generated`, `FallBack`, `Submit`, `PollAgain`, `Requeue`, `MarkJobPreviewReady` | `process_static_page_image_task` with its providers |
| `MarkRendering`, `CheckBeforeRender`, `MarkCancelled`, `SaveRendered`, `MarkDraftRendered` | `process_static_page_render_task` |
| `CompleteStep`, `MarkError`, `FailStep`, `AutoRetry`, `AutoRestart`, `MarkTask` | the ends of both |
| `StatementFails`, `Crash` | an `Err`, a dead process |
| `SweepTask`, `SweepReadJob`, `SweepMarkJobFailed`, `SweepFailStep`, `SweepMarkFailed` | `expire_stale_claimed_tasks` |

A claim is stale after two hours. `Overruns` says whether a live worker may take
that long; when it may not, only claims of dead workers are swept. The write of
a job and that of its draft are one step, and so are the re-read and the mark of
an error path; of a requeued task only its availability is kept.

## 3. The runs

| Run | Instance | Shows |
|---|---|---|
| `concurrent` | upload_ingest, 1 client with 2 requests of every kind, 1 worker that inserts fact tasks and reparses by itself, faults, crashes | `LogGapFree`, `RowMatchesNewestEvent`, `TasksMatchEvents`, `SucceededTaskIsLogged`, `AttemptBudget`, `LogIsAppendOnly` |
| `serial` | video_extraction, 1 client, 2 workers, 3 requests, retry budget 1, no fault | `AppliesAtomically`, `LogReplays`, `OneBaton`, `TypeOK`, `RunningSettles`, `ClaimedTaskSettles` |
| `replay_cancel` | report_plan, a cancel during a step | `LogReplays` is violated |
| `video_retry` | video_extraction, a retry | `ContextReachesWorkers` is violated |
| `asset_parse` | 2 imports at a time, 3 in all, 3 workers, one without the flag, 2 faults | `AssetParseTypeOK`, `OneTaskAtATime`, `SuccessIsBacked`, `ExecutionFollowsTask`, `OutcomeIsFinal`, `TaskSettles` |
| `document_facts` | 1 document, 1 retrieval and 2 enrichment workers, 2 parses, 1 reparse, 1 fault | `DocumentFactsTypeOK`, `RunsAreExclusive`, `SnapshotFollowsFacts`, `FactsMoveForward`, `WriteBackUndoesNothing`, `FactsFollowChunks`, `RunSettles` |
| `static_pages` | image or render, 2 slots, 1 sweep, 1 request, 1 fault | `StaticPagesTypeOK`, `PreviewIsDurable`, `TaskOutcomeIsFinal`, `ExecutionSettles`, `ImageJobSettles` |
| `static_pages_render` | a render, 1 slot, no fault, no request | `RenderIsDurable` is violated |
| `snapshots` | 3 fingerprints, one below the quality gate, reverts, 2 rebuilds at a time, 2 that stop halfway | `BuildsAreExclusive`, `LatestMovesForward`, `SourcesAreBuilt` |
| `snapshots_revert` | sources return to an earlier state | `SnapshotFollowsSource` is violated |
| `links` | 2 snapshots of one dataset, 1 of the other, 1 worker, faults, crashes | `OneReadyLink`, `SucceededHasReadyLink`, `ReadyMovesForward`, `CurrentPairSettles`, `RunningRunSettles` |
| `links_workers` | the same with 2 workers, expiring leases, a rollout gate that closes, revived runs | `LinksTypeOK`, `ReadyLinkSurvives` |

Every property of a passing run has a mutant in `PROJECT.json`: a plausible bug
in one definition, for which TLC finds the property violated.

### Bounds

- `concurrent`: a user and a worker give all the ways in which two readers and
  committers of one row can overlap (a lost update needs two, a reused sequence
  number too); the two requests meet the worker's own RetryRequested, its Start and
  the gap between them. 1.9 million states; two users and a worker that does not
  retry by itself have 1.5 million, with the same result. The theorems of section 5
  remove these bounds.
- `serial`: three requests are a start and two retries, the second of which finds
  the budget of 1 spent; two workers compete for each task, and the fact task of
  the first step is queued beside the later ones. 73,133 states.
- `asset_parse`: three imports let one arrive before, during and after the parse
  that an earlier one asked for; two attempts are a retry and a failure (the code
  allows up to 5); two faults are one that loses a task and one that hits what
  follows. 29,666 states, and the safety properties are proved without bounds.
- `document_facts`: two parses, each with a possible reparse, so that a run and a
  task of two parses of the document overlap, and two rebuilds of its snapshot; one
  fault is a failed statement, a signal with or without its effect, or a dead
  worker, anywhere. 451,515 states. With a second document, and one enrichment
  worker, the safety properties hold too (1.6 million states; too many for the
  liveness properties); the theorems have any number of documents and workers.
- `static_pages`: two slots work on an attempt and on the retry that follows it,
  while the sweep is at the earlier one; one fault is a dead worker or an `Err`
  in each place. What the provider `"orchestrator"` does (submit, then poll) is what
  `"fallback"` does after the direct provider failed. 221,260 states.
- `snapshots`: a fingerprint without a ready row, one below the gate, and a
  change, a revert or a second rebuild in each phase of a rebuild. 16,573 states.
- `links`: two snapshots of one dataset give an obsolete and a current pair; two
  attempts (the code's default is 3) give a retry and a dead letter. 22,815
  states; `links_workers` has about 1.5 million.

Deadlock is not checked in the workflow, asset, document and static-page runs:
their executions may come to an end, and the bounds on requests and faults then
leave nothing to do. The snapshot and link systems never stop, and TLC checks that.

### Fairness

- Workflow: a request that was accepted is served, a worker that runs keeps
  polling its queue and finishes what it claimed (its loop has no other exit);
  nobody has to send a request, fail or crash.
- Asset parse and document facts: an import that began goes on, every worker
  polls its queue and goes on with what it holds. Nobody has to import, ask for a
  parse, fail or die.
- Static pages: requests, slots and the sweep go on. Two assumptions are about
  the world outside: the load falls now and then (strong fairness of `LoadRow`,
  else a prewarm waits for ever), and the image orchestrator ends what was
  submitted to it (strong fairness of `Generated` or `CallFails`).
- Snapshots: a rebuild goes on and another follows, because the link worker's
  reconciliation previews every dataset with a ready snapshot, for ever.
- Links: weak fairness for the worker's loop and lease recovery; strong fairness
  for the steps of reconciliation, which comes round at a fixed interval: its
  calls may fail, but not every time. This is for a pair that is among the first 64
  datasets of the tenant (`dataset-semantic-link-worker.rs:246`), and it is made of
  two kinds of rounds: one whose preview differs from the latest snapshot rebuilds
  (which enqueues), one whose preview equals it enqueues again (`:263-286`). No
  fairness for changes of the sources, backfills, faults or crashes.

## 4. Findings

1. `replay_cancel`. The row is read outside the transaction that overwrites it.
   A worker that read before a cancel committed writes its own transition over
   the cancelled row, and the log holds signals that its state machine refuses.
2. `video_retry`. The video definition rebuilds the context on a retry and drops
   the launch keys; the restarted steps fail for want of them.
3. `snapshots_revert`. When the sources return to a state with a ready row the
   rebuild is skipped, and readers keep the snapshot of the state in between.
4. `static_pages_render`. The request that creates a background render writes the
   output row it created after it sent Start. A worker that has rendered the page
   by then loses it: the row is "rendering" and empty, the workflow succeeded.

The quotes and lines are in `PROJECT.json`. Further limits that the modules made
visible, each with what bounds it:

Workflow queue
- On every queue but the static-page worker's, a worker that dies after
  `claim_next_available` (`crates/storage/src/lib.rs:9820`) leaves its task
  claimed and its execution running; nothing looks for it. An asset whose task
  was lost in this way cannot be enqueued again either.
- An `Err` of StepFailed is only logged (`crates/media-worker/src/main.rs:206`): the
  task is marked failed and the execution stays running with no task.
  `RunningSettles` is checked without faults.
- Two Starts that both read the pending row (two users, or a user and the ingest
  worker's own retry) enqueue the first step twice, each with its event and one
  after the other: `TasksMatchEvents` holds, `OneBaton` does not.
- The serial system has no such second writer: the ingest worker retries a poor
  parse by itself (`crates/ingest-worker/src/main.rs:1331`), and so does the
  static-page worker (modelled in StaticPages). `OneBaton`, `LogReplays` and
  `AppliesAtomically` are stated for definitions none of whose steps is parsed by
  the ingest worker, or with its automatic reparse turned off.

Asset parse
- `ExecutionFollowsTask` needs `SlowStatements = FALSE`: a requeue is visible
  before the execution is written, and a statement that outlasts the retry delay
  (two seconds, `crates/ingest-worker/src/main.rs:31`) writes "running" over what
  the next attempt wrote.

Documents
- With two retrieval workers the fact task may write "extracted" over "indexed";
  `WriteBackUndoesNothing` holds for one worker and the order of its queue.
- With one worker there remains the error path. The ingest worker inserts the fact
  task before it sends StepCompleted (`crates/ingest-worker/src/main.rs:986`, `:1021`);
  when the signal returns an `Err` it writes "failed", and the fact task, which may
  have read "extracted" by then, writes that back: the document says extracted
  although its execution failed. `WriteBackUndoesNothing` excepts a document one of
  whose signals or marks returned an `Err` (`reportErr`); without this condition TLC
  finds the behaviour at once.
- Two overlapping rebuilds of a fact snapshot lose an update, which is what the
  condition `~overlapped` of `SnapshotFollowsFacts` says.
- An enrichment run is keyed by the digest of the file, so a reparse never runs
  it again; a deferred parse replaces the chunks without a fact task; a run whose
  worker dies stays running.

Static pages
- When the retries are used up the job stays running and its draft queued though
  the execution is dead-lettered (the exception in `ImageJobSettles`).
- The sweep's StepFailed is refused when the execution is not running; the task
  then stays claimed and counts for the prewarm gate.
- A worker that dies between its automatic retry and the mark of its task lets
  the later sweep fail the job of the newer attempt: `PreviewIsDurable` is stated
  for behaviours without a fault.
- With `Overruns = TRUE` a late worker may requeue or mark a task that was swept.
- A cancel between the second check and the save of a render keeps the page, but
  its StepCompleted is refused and the output ends "failed"; a synchronisation
  that read earlier may overwrite "rendered"; the sweep leaves a render output
  "rendering"; `confirm_static_page_image_job` accepts queued and running jobs.

Snapshots and links
- A rebuild that stops after `try_begin_build` leaves a `building` row that
  nothing takes over; `SourcesAreBuilt` names it as one of the outcomes.
- With two overlapping rebuilds `SnapshotFollowsSource` fails even without a
  revert, since `generated_at` is taken before the sources are read; the design
  asks for one rebuild per dataset at a time, which nothing enforces.
- With two link workers `OneReadyLink` and `ReadyMovesForward` fail; one worker is
  the documented default, and `ReadyLinkSurvives` holds with two.
- A publisher decides on a run's status that it read earlier; the run may
  dead-letter in between, and its build is then started with no run.

## 5. What is proved

Every invariant and every action property that a passing run checks is also a
theorem, as is the refinement of `AtomicWorkflow`; TLAPS checks the proofs, in eight
modules. The theorems are consequences of inductive invariants: the properties are
not inductive by themselves, since every process acts on something it read earlier,
and the invariant says what that is. Where a property needs a restriction, that is
the hypothesis of its theorem (`SerialSystem`, `SingleWorker`, `SingleIndexer`,
`~SlowStatements`, `~Overruns`); section 4 says what happens without it, and the
passing run of the property is an instance of it.

### WorkflowDefinitionsProofs

Lemmas about `Accepts`, `NextState` and `ExecutionFromTransition` for every
definition that satisfies `DefinitionAssumption`, used by the three modules that
apply signals: steps are found by their keys (`StepOfKey`, `NextStep`), a transition
keeps the types (`NextStateType`, `ExecutionType`) and the budget (`BudgetKept`), and
an accepted signal passes the baton: the tasks it enqueues are those of the stage
it leads to (`TransitionPassesBaton`).

### WorkflowRuntimeProofs

For every definition that satisfies `DefinitionAssumption`, any sets of clients
and workers, any number of requests,
with and without faults and crashes:

| Theorem | States |
|---|---|
| `Invariance` | `Spec => []InductiveInvariant` |
| `TypeCorrect` | `Spec => []TypeOK` |
| `GapFreeLog` | `Spec => []LogGapFree` |
| `RowFollowsLog` | `Spec => []RowMatchesNewestEvent` |
| `QueueFollowsLog` | `Spec => []TasksMatchEvents` |
| `BoundedAttempts` | `Spec => []AttemptBudget` |
| `NoUnloggedSuccess` | `Spec => []SucceededTaskIsLogged` |
| `AppendOnlyLog` | `Spec => LogIsAppendOnly` |

Assumptions: `DefinitionAssumption` (a definition has a step, and no two steps
share a task key or a stage), `InitialRetriesAssumption` (the retry budget is a natural
number) and `RuntimeAssumption` (clients and workers are different processes). TLC evaluates
them for each definition it runs.

Argument. A commit writes what was computed from a snapshot taken earlier, so
`InductiveInvariant` says what a process in the middle of a signal holds:

- `DrawsNumber`: the number of an open transaction is at most the next one, so
  that a commit whose number is free takes exactly the next (gap-free log);
- `SnapshotIsRow`: a snapshot about to be written accepts its signal and is
  within the budget. It need not be the current row, which is the reason why the
  budget survives lost updates: every row that is written is a transition of
  *some* row within the budget;
- `HoldsTask`: a busy worker reports on a task of the queue, or has marked its
  task and retries the execution (the ingest worker), or holds a fact task;
- `AcknowledgedIsLogged`: after an Ok of StepCompleted the completion is in the
  log, after the event that enqueued the task.

`EventDescribesTransition` (event, row and tasks of a transition agree) and
`BudgetKept` carry the definitions; `QuietStepKeeps`, `CallStep`
and `SetTaskKeeps` deal with the steps that leave the log alone; `CommitStep` is
the one hard case.

### WorkflowSerialProofs

`SerialSystem`: one client that starts and retries, no platform failure, and no
ingest worker that retries by itself (`AutoReparse` is off, or no step of the
definition is an ingest task). The definition, the number of workers, of requests
and the retry budget are arbitrary, steps may fail, and fact tasks are queued, claimed
and marked beside the steps.

| Theorem | States, assuming `SerialSystem` |
|---|---|
| `SerialInvariance` | `Spec => []SerialInvariant` |
| `BatonIsPassed` | `Spec => []OneBaton` |
| `SignalsAreAtomic` | `Spec => AppliesAtomically` |
| `LogReplaysToRow` | `ReplaySpec => []LogReplays` |

Argument. A commit writes a transition of its snapshot; it is an atomic step if the
snapshot is still the row, which `CallFits` says of everybody between read and
commit. The reason is that writers exclude each other by the baton: a worker writes
only while the execution runs and its task is the one unfinished task
(`WorkerHoldsBaton`), the client only while it does not run, and two workers never
hold one task (`TasksAreHeldOnce`). `OneBaton` is therefore part of its own
invariant: it makes commits atomic, and an atomic commit passes it on. The initial states
and the steps are then mapped one by one: `AtomicDefinitions` identifies the
definitions of the instance with those of the module, `OnlyCommitsWrite` makes the
other steps stutter, and for `LogReplays` `CommitterIsKnown` says that the process
the history variable follows is the one that committed. The finding `replay_cancel` is
what remains of this with a cancellation.

### AssetParseProofs

For any sets of importers and workers, any number of imports and faults, under
`AssetParseAssumption`:

| Theorem | States |
|---|---|
| `ParseInvariance` | `Spec => []InductiveInvariant` |
| `ParseTypeCorrect` | `Spec => []AssetParseTypeOK` |
| `ParsedByOneTask` | `Spec => []OneTaskAtATime` |
| `NoUnbackedSuccess` | `Spec => []SuccessIsBacked` |
| `RunOutcomeIsFinal` | `Spec => OutcomeIsFinal` |
| `ExecutionsFollow` | `Spec => []ExecutionFollowsTask`, assuming `~SlowStatements` |

Argument. The rows carry no owner, so the invariant supplies one: `HoldsTask`
says that a worker between its claim and its task statement holds a claimed task
at the attempt it read and, thanks to `OneTaskAtATime`, is the only such worker.
This is why an unguarded `update_parse_run_state` never meets a run that is over:
`PlansOK` says what the run may be while a worker holds a plan, and `TasksOK` what
it must be once a task succeeded. `ExecutionsOK` adds, without slow statements, that the
worker that requeued a task writes the execution before anyone claims it.

### DocumentFactsProofs

For any non-empty set of documents, any workers, parses and faults,
under `DocumentFactsAssumption`:

| Theorem | States |
|---|---|
| `FactsInvariance` | `Spec => []InductiveInvariant` |
| `FactsTypeCorrect` | `Spec => []DocumentFactsTypeOK` |
| `ExclusiveRuns` | `Spec => []RunsAreExclusive` |
| `FactsNeverGoBack` | `Spec => FactsMoveForward` |
| `SnapshotIsCurrent` | `Spec => []SnapshotFollowsFacts` |
| `WriteBackIsHarmless` | `Spec => WriteBackUndoesNothing`, assuming `SingleIndexer` |

Argument. `QueuesOK` says who holds what: a worker of a run holds a running run
that no other worker holds. `DocumentsOK` is a budget: the chunks of a document
plus the parse that is pending are at most the parses asked for plus the reparses
made, which bounds the versions; and facts are never newer than chunks. Facts can
then only be replaced by those of the chunks that are there, which is the reason
why they never go back.

`SnapshotInvariant` follows a change of the facts on its way to the snapshot: a
worker is about to aggregate, or one has aggregated exactly the facts there are and is
the only one about to write, or the snapshot is that of the facts.

`WriteBackInvariant` says why one retrieval worker is enough for the lifecycle of a
document whose signals returned no `Err`. `IngestFits`: an ingest worker at a parse
has its execution at the parse step, with no further parse task queued. `LiveTasks`:
a live index task (queued, or worked on and not yet reported) is the only one of its
document and has its execution at the index step; a live fact task has either the
ingest worker of its document between the insert and the end of StepCompleted
(`Signalling`: the parse is over and nobody can start another one), or its index task
queued behind it. In both cases nobody writes the lifecycle between the read and the
write of the fact task, since the one worker is busy with it (`ReadIsCurrent`).
Crashes and failed statements only take tasks away.

### SemanticSnapshotsProofs

For any finite sets of fingerprints and rebuilds, any number of changes and
aborts, with and without reverts, under `SnapshotsAssumption`:

| Theorem | States |
|---|---|
| `SnapshotsInvariance` | `Spec => [](InductiveInvariant /\ SnapshotsTypeOK)` |
| `ExclusiveBuilds` | `Spec => []BuildsAreExclusive` |
| `LatestNeverGoesBack` | `Spec => LatestMovesForward` |

Argument. A row that becomes ready is the latest only if no other has a later
`generated_at`, and this must stay so while timestamps are renumbered. The
invariant keeps that the timestamps in use are distinct and that a latest ready
row exists (a maximum of a finite set, whose existence needs induction, is carried
along instead); `RenumberedInOrder` shows, by the cardinalities of the sets of
earlier timestamps, that renumbering preserves their order.

### SemanticLinksProofs

For any numbers of snapshots of both datasets, any publishers, faults and crashes,
with and without expiring leases, under `LinksAssumption`:

| Theorem | States |
|---|---|
| `LinksInvariance` | `Spec => []InductiveInvariant` |
| `LinksTypeCorrect` | `Spec => []LinksTypeOK` |
| `ReadyLinkIsNeverLost` | `Spec => ReadyLinkSurvives` |
| `OneWorkerInvariance` | `Spec => []OneWorkerInvariant`, assuming `SingleWorker` |
| `ReadyLinkIsUnique` | `Spec => []OneReadyLink`, assuming `SingleWorker` |
| `SuccessMeansReady` | `Spec => []SucceededHasReadyLink`, assuming `SingleWorker` |
| `ReadyLinkMovesForward` | `Spec => ReadyMovesForward`, assuming `SingleWorker` |

Argument. `InductiveInvariant` bounds everything by what was published: `Precedes`
orders pairs of snapshots, and no run, ready link or process is about a pair that is
newer, on either side, than the latest one. A worker that found its pair to be the
latest thus knows it to be at least as new as every ready link. Only `CommitReady`
changes which links are ready (`OnlyCommitsChangeReady`), and it leaves one, which is
all that `ReadyLinkSurvives` needs. For one worker, `WorkerFits` keeps what its
statements rely on until it commits: nobody else makes a link ready, and publishers,
who may overtake it, only make its pair an older one. A succeeded run `Holds`: its link is
ready or newer snapshots were published.

### StaticPagesProofs

For any slots, sweeps, requesters, requests and faults, every provider, with
and without prewarm, for a definition of one step (`OneStep`; `StaticPageHasOneStep`
shows it of the definition in the code):

| Theorem | States, assuming `OneStep` |
|---|---|
| `PagesInvariance` | `Spec => []TypeInvariant` |
| `PagesTypeCorrect` | `Spec => []StaticPagesTypeOK` |
| `TasksHaveOneOwner` | `Spec => []TaskInvariant`, assuming `~Overruns` |
| `SettledTasksStaySettled` | `Spec => TaskOutcomeIsFinal`, assuming `~Overruns` |
| `SuccessKeepsThePreview` | `Spec => []PreviewIsDurable`, assuming `~Overruns` |

Argument. `ExecutionOK` ties the tasks to the attempts: there are as many, so the
retry budget bounds both, with automatic retries. Tasks carry no owner; without overruns
`SlotsOwnTasks` and `SweptTasksAreAbandoned` supply one, and every statement that
writes a task is by its owner, which is why settled tasks stay settled although the
statements have no guard. A preview is written by slots that hold whole-row copies of the
job, and an automatic retry starts an attempt before the failed one is marked:
`OpenTaskIsCurrent` says that until a cancellation the only task whose signal is
still to come is that of the running attempt, so that at most one slot is before its
signal (`OneActiveSlot`); the slots behind their signal write no job. `ClaimsAreHeld`
leaves the sweep nothing to do, and `PreviewPrecedesSuccess` is the property with the
step before it. These parts need `faults = 0`, as the property does.

### Only model-checked

- The liveness properties `RunningSettles`, `ClaimedTaskSettles`, `TaskSettles`,
  `FactsFollowChunks`, `RunSettles`, `ExecutionSettles`, `ImageJobSettles`,
  `SourcesAreBuilt`, `CurrentPairSettles`, `RunningRunSettles`: fairness and ENABLED
  are out of the prover's reach.
- The properties that the four violation runs refute, of course, have no theorem.

## 6. Not modelled

One execution, one asset, one dataset and one pair at a time: the others share no
row, and each statement names the row it writes. A client's signal names a task
of the definition. Attempt limits are 2 in the runs (3 to 5 in the code).

Left out of the modelled components:
- what parsing, ranking, matching, rendering and image generation compute; HTTP,
  JSON shapes, queue names, diagnostics;
- AssetParse: the deletion of an asset under its parse, payloads that cannot be
  read or belong to another contract version, imports that create several assets;
- DocumentFacts: cancelling an upload, a second ingest worker at a document that
  one is working on (one worker takes the tasks of a document in turn), a late signal for an
  older execution (it meets the newest one, which after a fault may fail more than
  in the code), the deletion of documents, a parse that yields no
  fact at all (its fact set has no foreign key to be refused by), the enrichment
  kinds that only store a summary;
- StaticPages: the direct (synchronous) render, versions and publishing of drafts,
  payload and attempt counter of a requeued task, the death of the sweep itself.

Components without a module, with the reason:
- read-only or without shared state: graph query (its verdict also depends on
  `updated_at`, which SemanticLinks leaves out), gateways, registries, contracts,
  analytics, the web client;
- best effort by design: event bus and wake-ups, which only shorten a poll;
- planned: codex host agent, `external_sync_runs` and checkpoints, dispatch records,
  assistant run events, chat sessions, codes and sessions, report versions.

Most of the repository's lines are data code of these kinds: request handlers,
prompt and manifest assembly, heuristics over text, and their tests.

## 7. Plan

Done, in the order of importance: the workflow runtime, snapshots, links, asset
parse, document facts, static pages; theorems for every safety property of the runs,
and the refinement of `AtomicWorkflow` by the serial system. Next:

1. Theorems that say more than the runs: which of the promises of the serial
   system survive crashes (is every signal still atomic?); what two link workers
   keep beyond `ReadyLinkSurvives`; previews in the presence of faults.
2. The queue side of the codex host agent: slots, requeues, commands that end late.
3. `ExternalSync` and `ExternalAction`: the order in which `external_sync_runs`
   follows the execution, and the dispatch records.
4. `updated_at` in SemanticLinks, and the verdict (stale, building, empty) that the
   graph query derives from it.
5. Wake-ups over a lossy channel; single use and expiry of codes and sessions;
   report versions and assistant run events.
