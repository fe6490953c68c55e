--------------------------- MODULE DocumentFacts ---------------------------
(***************************************************************************)
(* What follows the upload of a document: the ingest worker parses it into *)
(* chunks and reparses it when the quality is poor, the retrieval worker   *)
(* indexes it and derives its facts, the enrichment worker derives them    *)
(* again for a run of document_enrichment_runs, and both rebuild the fact  *)
(* snapshot of the dataset from the facts of all its documents.            *)
(*                                                                         *)
(* Chunks are a version number that every parse raises.  Facts carry the   *)
(* ids of the chunks they were read from, and these are foreign keys: facts *)
(* of chunks that were replaced meanwhile are refused by the database      *)
(* (every parse is taken to yield some fact: none needs no chunk).         *)
(*                                                                         *)
(* A document has one ingest worker at a time.  The signals it sends are   *)
(* those of WorkflowRuntime, each one step here; a user's cancel is not    *)
(* among them.                                                             *)
(***************************************************************************)
EXTENDS Integers, Sequences, FiniteSets

CONSTANTS
    Docs,           \* the documents of one dataset
    Indexers,       \* retrieval workers
    Enrichers,      \* document enrichment workers; none when it is disabled
    MaxReparses,    \* INGEST_AUTO_REPARSE_MAX_ATTEMPTS
    MaxAttempts,    \* DOCUMENT_ENRICHMENT_MAX_ATTEMPTS
    MaxParses,      \* bound: parses that users ask for
    MaxFaults       \* bound: statements that fail and workers that die

ASSUME DocumentFactsAssumption ==
    /\ Docs /= {}
    /\ Indexers \cap Enrichers = {}
    /\ MaxReparses \in Nat
    /\ MaxAttempts \in 1 .. 10
    /\ MaxParses \in Nat
    /\ MaxFaults \in Nat

VARIABLES
    execution,      \* where the newest upload_ingest execution of a document is
    queued,         \* its parse tasks that no ingest worker has claimed
    ingest,         \* what its ingest worker does next
    reportErr,      \* history: did a signal or mark of its executions return an Err?
    lifecycle,      \* documents.lifecycle
    reparses,       \* auto_reparse.attempt_count of its metadata
    chunks,         \* document_chunks: the version, 0 when there are none
    facts,          \* document_facts: the version of the chunks they came from
    snapshot,       \* dataset_fact_snapshots: the facts of each document in it
    tasks,          \* workflow_tasks of the retrieval queue, oldest first
    runs,           \* document_enrichment_runs of kind fact_index_v2
    workers,        \* what each worker holds between two statements
    parses,         \* how often a parse was asked for
    faults,         \* how many statements failed or workers died
    overlapped      \* history: did two snapshot rebuilds ever overlap?

executionVars == <<execution, queued, ingest, reportErr>>
documentVars == <<executionVars, lifecycle, reparses, chunks, parses>>
factVars == <<facts, snapshot, overlapped>>
vars == <<execution, queued, ingest, reportErr, lifecycle, reparses, chunks, facts, snapshot,
          tasks, runs, workers, parses, faults, overlapped>>

AllWorkers == Indexers \cup Enrichers
Versions == 0 .. (MaxParses + MaxReparses)

Stages == {"idle", "parse", "index", "done", "failed"}
Running == {"parse", "index"}
IngestPhases == {"idle", "parse", "extract", "enqueue", "signal", "defer", "requeue", "reject",
                 "restart", "fail", "fail_step"}
Lifecycles == {"registered", "extracted", "indexed", "failed"}
RunStatuses == {"absent", "pending", "running", "succeeded", "failed"}
TaskStatuses == {"queued", "claimed", "succeeded", "failed"}
Kinds == {"facts", "index", "run"}
Phases == {"idle", "document", "chunks", "replace", "aggregate", "upsert", "enqueue",
           "state", "index", "complete", "fail", "fail_step", "error", "mark"}

Task == [kind : {"facts", "index"}, doc : Docs, status : TaskStatuses]

IdleWorker == [phase |-> "idle", kind |-> "run", doc |-> CHOOSE d \in Docs : TRUE, task |-> 0,
               lifecycle |-> "registered", chunks |-> 0, facts |-> [d \in Docs |-> 0]]

Init ==
    /\ execution = [d \in Docs |-> "idle"]
    /\ queued = [d \in Docs |-> 0]
    /\ ingest = [d \in Docs |-> "idle"]
    /\ reportErr = [d \in Docs |-> FALSE]
    /\ lifecycle = [d \in Docs |-> "registered"]
    /\ reparses = [d \in Docs |-> 0]
    /\ chunks = [d \in Docs |-> 0]
    /\ facts = [d \in Docs |-> 0]
    /\ snapshot = [d \in Docs |-> 0]
    /\ tasks = <<>>
    /\ runs = [d \in Docs |-> [status |-> "absent", attempts |-> 0]]
    /\ workers = [w \in AllWorkers |-> IdleWorker]
    /\ parses = 0
    /\ faults = 0
    /\ overlapped = FALSE

-----------------------------------------------------------------------------
(* The ingest worker: process_uploaded_document_task.                        *)

IngestGoto(d, phase) == ingest' = [ingest EXCEPT ![d] = phase]
SetExecution(d, stage) == execution' = [execution EXCEPT ![d] = stage]
SetLifecycle(d, value) == lifecycle' = [lifecycle EXCEPT ![d] = value]

(* One more statement, signal or worker fails.                               *)
Fault == faults < MaxFaults /\ faults' = faults + 1

(* Start of an execution: its first task is queued.                          *)
StartParse(d) ==
    /\ SetExecution(d, "parse")
    /\ queued' = [queued EXCEPT ![d] = @ + 1]

(* An upload, a retry of a failed execution, or a reparse request, which is  *)
(* a new execution.  A worker that is late with a signal for the old one     *)
(* meets the new one here, which may fail more than in the code; it takes a  *)
(* fault for a worker to be late.                                            *)
RequestParse(d) ==
    /\ execution[d] \in {"idle", "done", "failed"}
    /\ parses < MaxParses
    /\ parses' = parses + 1
    /\ StartParse(d)
    /\ UNCHANGED <<ingest, reportErr, lifecycle, reparses, chunks, tasks, runs, workers, faults>>
    /\ UNCHANGED factVars

(* claim_next_available of the ingest queue                                  *)
ClaimParse(d) ==
    /\ ingest[d] = "idle"
    /\ queued[d] > 0
    /\ queued' = [queued EXCEPT ![d] = @ - 1]
    /\ IngestGoto(d, "parse")
    /\ UNCHANGED <<execution, reportErr, lifecycle, reparses, chunks, parses, tasks, runs, workers, faults>>
    /\ UNCHANGED factVars

(* replace_for_document: the chunks are replaced before the quality decides *)
(* whether the parse is accepted.                                            *)
ReplaceChunks(d) ==
    /\ ingest[d] = "parse"
    /\ chunks' = [chunks EXCEPT ![d] = @ + 1]
    /\ \E next \in {"extract", "defer"} : IngestGoto(d, next)
    /\ UNCHANGED <<execution, queued, reportErr, lifecycle, reparses, parses, tasks, runs, workers, faults>>
    /\ UNCHANGED factVars

(* update_state of a parse that is accepted.                                 *)
MarkExtracted(d) ==
    /\ ingest[d] = "extract"
    /\ SetLifecycle(d, "extracted")
    /\ IngestGoto(d, "enqueue")
    /\ UNCHANGED <<execution, queued, reportErr, reparses, chunks, parses, tasks, runs, workers, faults>>
    /\ UNCHANGED factVars

Queued(kind, d) == [kind |-> kind, doc |-> d, status |-> "queued"]

(* Mutant: no fact task is enqueued.                                         *)
EnqueueNothing(d) ==
    /\ ingest[d] = "enqueue"
    /\ IngestGoto(d, "signal")
    /\ UNCHANGED <<tasks, faults, execution, queued, reportErr, lifecycle, reparses, chunks, parses, runs, workers>>
    /\ UNCHANGED factVars

(* enqueue_post_ingest_fact_index_task: the fact task is there before        *)
(* StepCompleted is sent.  When the insert fails, that is only logged.       *)
EnqueueFacts(d) ==
    /\ ingest[d] = "enqueue"
    /\ \/ tasks' = Append(tasks, Queued("facts", d)) /\ UNCHANGED faults
       \/ Fault /\ UNCHANGED tasks
    /\ IngestGoto(d, "signal")
    /\ UNCHANGED <<execution, queued, reportErr, lifecycle, reparses, chunks, parses, runs, workers>>
    /\ UNCHANGED factVars

(* StepCompleted of a step that the execution is at.                         *)
AcceptParse(d) ==
    /\ execution[d] = "parse"
    /\ SetExecution(d, "index")
    /\ tasks' = Append(tasks, Queued("index", d))

(* StepCompleted is accepted, or it returns an Err: it is refused, it fails  *)
(* before its commit, or what follows its commit does.                       *)
CompleteParse(d) ==
    /\ ingest[d] = "signal"
    /\ \/ AcceptParse(d) /\ IngestGoto(d, "idle") /\ UNCHANGED <<reportErr, faults>>
       \/ /\ \/ AcceptParse(d) /\ Fault
             \/ execution[d] = "parse" /\ Fault /\ UNCHANGED <<execution, tasks>>
             \/ execution[d] /= "parse" /\ UNCHANGED <<execution, tasks, faults>>
          /\ IngestGoto(d, "fail")
          /\ reportErr' = [reportErr EXCEPT ![d] = TRUE]
    /\ UNCHANGED <<queued, lifecycle, reparses, chunks, parses, runs, workers>> /\ UNCHANGED factVars

(* Mutant: the attempt counter is compared one too late.                     *)
ShouldReparseOnceMore(d) == reparses[d] <= MaxReparses

(* auto_reparse_decision_for_attempts; the counter is never reset.           *)
ShouldReparse(d) == reparses[d] < MaxReparses

(* update_state of a parse whose quality is poor, with the counter.          *)
MarkDeferred(d) ==
    /\ ingest[d] = "defer"
    /\ SetLifecycle(d, "failed")
    /\ \/ /\ ShouldReparse(d)
          /\ reparses' = [reparses EXCEPT ![d] = @ + 1]
          /\ IngestGoto(d, "requeue")
       \/ /\ ~ShouldReparse(d)
          /\ IngestGoto(d, "reject")
          /\ UNCHANGED reparses
    /\ UNCHANGED <<execution, queued, reportErr, chunks, parses, tasks, runs, workers, faults>>
    /\ UNCHANGED factVars

(* StepFailed fails an execution that runs, at whatever step.                *)
AcceptFailure(d) == execution[d] \in Running /\ SetExecution(d, "failed")

(* StepFailed returns an Err, with or without an effect.                     *)
FailureErr(d) ==
    /\ \/ AcceptFailure(d) /\ Fault
       \/ execution[d] \in Running /\ Fault /\ UNCHANGED execution
       \/ execution[d] \notin Running /\ UNCHANGED <<execution, faults>>
    /\ reportErr' = [reportErr EXCEPT ![d] = TRUE]

(* StepFailed and mark_failed after a poor parse; an Err of either ends in   *)
(* the worker's error path.                                                  *)
FailDeferred(d) ==
    /\ ingest[d] \in {"requeue", "reject"}
    /\ \/ /\ AcceptFailure(d)
          /\ IngestGoto(d, IF ingest[d] = "requeue" THEN "restart" ELSE "idle")
          /\ UNCHANGED <<reportErr, faults>>
       \/ FailureErr(d) /\ IngestGoto(d, "fail")
    /\ UNCHANGED <<queued, lifecycle, reparses, chunks, parses, tasks, runs, workers>> /\ UNCHANGED factVars

(* dispatch_auto_reparse_retry: RetryRequested and Start, unless the retries *)
(* are used up, somebody else was faster or a signal fails.                  *)
RestartParse(d) ==
    /\ ingest[d] = "restart"
    /\ \/ execution[d] = "failed" /\ StartParse(d)
       \/ UNCHANGED <<execution, queued>>
    /\ IngestGoto(d, "idle")
    /\ UNCHANGED <<reportErr, lifecycle, reparses, chunks, parses, tasks, runs, workers, faults>>
    /\ UNCHANGED factVars

(* replace_for_document or update_state returns an Err.                      *)
ParseFails(d) ==
    /\ ingest[d] \in {"parse", "extract", "defer"}
    /\ Fault
    /\ IngestGoto(d, "fail")
    /\ UNCHANGED <<execution, queued, reportErr, lifecycle, reparses, chunks, parses, tasks, runs, workers>>
    /\ UNCHANGED factVars

(* The error path: update_state, whose Err is ignored ...                    *)
MarkParseFailed(d) ==
    /\ ingest[d] = "fail"
    /\ \/ SetLifecycle(d, "failed") /\ UNCHANGED faults
       \/ Fault /\ UNCHANGED lifecycle
    /\ IngestGoto(d, "fail_step")
    /\ UNCHANGED <<execution, queued, reportErr, reparses, chunks, parses, tasks, runs, workers>>
    /\ UNCHANGED factVars

(* ... and StepFailed, whose Err is logged.                                  *)
FailParse(d) ==
    /\ ingest[d] = "fail_step"
    /\ \/ AcceptFailure(d) /\ UNCHANGED <<reportErr, faults>>
       \/ FailureErr(d)
    /\ IngestGoto(d, "idle")
    /\ UNCHANGED <<queued, lifecycle, reparses, chunks, parses, tasks, runs, workers>> /\ UNCHANGED factVars

(* The ingest worker dies, or one of the reads before the parse fails: the   *)
(* task stays claimed.                                                       *)
IngestStops(d) ==
    /\ ingest[d] /= "idle"
    /\ Fault
    /\ IngestGoto(d, "idle")
    /\ UNCHANGED <<execution, queued, reportErr, lifecycle, reparses, chunks, parses, tasks, runs, workers>>
    /\ UNCHANGED factVars

-----------------------------------------------------------------------------
(* Steps the two workers share.                                              *)

Goto(w, phase) == workers' = [workers EXCEPT ![w].phase = phase]

(* Mutant: the claim does not order the tasks.                               *)
IsQueued(t) == tasks[t].status = "queued"

(* Order by available_at, created_at: the oldest queued task.               *)
IsNext(t) ==
    /\ tasks[t].status = "queued"
    /\ \A u \in 1 .. (t - 1) : tasks[u].status /= "queued"

ClaimTask(w) ==
    /\ w \in Indexers
    /\ workers[w].phase = "idle"
    /\ \E t \in DOMAIN tasks :
          /\ IsNext(t)
          /\ tasks' = [tasks EXCEPT ![t].status = "claimed"]
          /\ workers' = [workers EXCEPT ![w] =
                           [IdleWorker EXCEPT !.phase = "document", !.kind = tasks[t].kind,
                                              !.doc = tasks[t].doc, !.task = t]]
    /\ UNCHANGED <<runs, faults>> /\ UNCHANGED documentVars /\ UNCHANGED factVars

(* claim_next_available of document_enrichment_runs                          *)
Claimable(run) == run.status = "pending" /\ run.attempts < MaxAttempts

ClaimRun(w) ==
    /\ w \in Enrichers
    /\ workers[w].phase = "idle"
    /\ \E d \in Docs :
          /\ Claimable(runs[d])
          /\ runs' = [runs EXCEPT ![d] = [status |-> "running", attempts |-> @.attempts + 1]]
          /\ workers' = [workers EXCEPT ![w] =
                           [IdleWorker EXCEPT !.phase = "document", !.kind = "run", !.doc = d]]
    /\ UNCHANGED <<tasks, faults>> /\ UNCHANGED documentVars /\ UNCHANGED factVars

LoadDocument(w) ==
    /\ workers[w].phase = "document"
    /\ workers' = [workers EXCEPT ![w].phase = "chunks",
                                  ![w].lifecycle = lifecycle[workers[w].doc]]
    /\ UNCHANGED <<tasks, runs, faults>> /\ UNCHANGED documentVars /\ UNCHANGED factVars

LoadChunks(w) ==
    /\ workers[w].phase = "chunks"
    /\ workers' = [workers EXCEPT ![w].phase = IF workers[w].kind = "index" THEN "index" ELSE "replace",
                                  ![w].chunks = chunks[workers[w].doc]]
    /\ UNCHANGED <<tasks, runs, faults>> /\ UNCHANGED documentVars /\ UNCHANGED factVars

(* Mutant: facts may name chunks that are gone.                              *)
NoForeignKey(w) == TRUE

(* source_chunk_id references document_chunks.                               *)
ChunksExist(w) == workers[w].chunks = chunks[workers[w].doc]

(* replace_document_facts: one transaction; an Err when a chunk is gone.    *)
ReplaceFacts(w) ==
    /\ workers[w].phase = "replace"
    /\ \/ /\ ChunksExist(w)
          /\ facts' = [facts EXCEPT ![workers[w].doc] = workers[w].chunks]
          /\ Goto(w, "aggregate")
       \/ /\ ~ChunksExist(w)
          /\ Goto(w, "error")
          /\ UNCHANGED facts
    /\ UNCHANGED <<snapshot, overlapped, tasks, runs, faults>> /\ UNCHANGED documentVars

(* rebuild_dataset_entity_rows_snapshot reads the facts of the dataset ...  *)
AggregateFacts(w) ==
    /\ workers[w].phase = "aggregate"
    /\ workers' = [workers EXCEPT ![w].phase = "upsert", ![w].facts = facts]
    /\ overlapped' = (overlapped \/ \E v \in AllWorkers : workers[v].phase = "upsert")
    /\ UNCHANGED <<facts, snapshot, tasks, runs, faults>> /\ UNCHANGED documentVars

(* Mutant: the snapshot is not written.                                      *)
SkipSnapshot(w) ==
    /\ workers[w].phase = "upsert"
    /\ Goto(w, IF workers[w].kind = "run" THEN "mark" ELSE "enqueue")
    /\ UNCHANGED <<facts, snapshot, overlapped, tasks, runs, faults>> /\ UNCHANGED documentVars

(* ... and upserts the snapshot, whatever is in the row.                     *)
UpsertSnapshot(w) ==
    /\ workers[w].phase = "upsert"
    /\ snapshot' = workers[w].facts
    /\ Goto(w, IF workers[w].kind = "run" THEN "mark" ELSE "enqueue")
    /\ UNCHANGED <<facts, overlapped, tasks, runs, faults>> /\ UNCHANGED documentVars

-----------------------------------------------------------------------------
(* The retrieval worker: process_task, process_post_ingest_fact_index_task.  *)

(* Mutant: enqueueing a run again makes it pending.                          *)
PendingAgain(run) == [run EXCEPT !.status = "pending"]

(* create_or_get: a run of this fingerprint keeps its status.  A document    *)
(* that is parsed again keeps its fingerprint, the hash of its bytes.        *)
CreatedOrKept(run) == IF run.status = "absent" THEN [run EXCEPT !.status = "pending"] ELSE run

(* maybe_enqueue_document_enrichment_runs                                    *)
EnqueueRun(w) ==
    /\ workers[w].phase = "enqueue"
    /\ runs' = [runs EXCEPT ![workers[w].doc] =
                  IF Enrichers = {} THEN @ ELSE CreatedOrKept(@)]
    /\ Goto(w, "state")
    /\ UNCHANGED <<tasks, faults>> /\ UNCHANGED documentVars /\ UNCHANGED factVars

(* update_state writes the lifecycle that was read at the start.             *)
RestoreLifecycle(w) ==
    /\ workers[w].phase = "state"
    /\ SetLifecycle(workers[w].doc, workers[w].lifecycle)
    /\ Goto(w, "mark")
    /\ UNCHANGED executionVars
    /\ UNCHANGED <<reparses, chunks, parses, tasks, runs, faults>> /\ UNCHANGED factVars

(* The evidence of the chunks is created and the lifecycle becomes indexed;  *)
(* or one of the statements fails.                                           *)
IndexDocument(w) ==
    /\ workers[w].phase = "index"
    /\ \/ /\ ChunksExist(w)
          /\ SetLifecycle(workers[w].doc, "indexed")
          /\ Goto(w, "complete")
          /\ UNCHANGED faults
       \/ /\ \/ ~ChunksExist(w) /\ UNCHANGED faults
             \/ ChunksExist(w) /\ Fault
          /\ Goto(w, "fail")
          /\ UNCHANGED lifecycle
    /\ UNCHANGED executionVars
    /\ UNCHANGED <<reparses, chunks, parses, tasks, runs>> /\ UNCHANGED factVars

AcceptIndex(d) == execution[d] = "index" /\ SetExecution(d, "done")

(* StepCompleted ends the execution, or it returns an Err.                   *)
CompleteIndex(w) ==
    /\ workers[w].phase = "complete"
    /\ \/ AcceptIndex(workers[w].doc) /\ Goto(w, "mark") /\ UNCHANGED <<reportErr, faults>>
       \/ /\ \/ AcceptIndex(workers[w].doc) /\ Fault
             \/ execution[workers[w].doc] = "index" /\ Fault /\ UNCHANGED execution
             \/ execution[workers[w].doc] /= "index" /\ UNCHANGED <<execution, faults>>
          /\ Goto(w, "fail")
          /\ reportErr' = [reportErr EXCEPT ![workers[w].doc] = TRUE]
    /\ UNCHANGED <<queued, ingest, lifecycle, reparses, chunks, parses, tasks, runs>>
    /\ UNCHANGED factVars

(* The lifecycle becomes failed, unless that fails too ...                   *)
MarkIndexFailed(w) ==
    /\ workers[w].phase = "fail"
    /\ \/ SetLifecycle(workers[w].doc, "failed") /\ UNCHANGED faults
       \/ Fault /\ UNCHANGED lifecycle
    /\ Goto(w, "fail_step")
    /\ UNCHANGED executionVars
    /\ UNCHANGED <<reparses, chunks, parses, tasks, runs>> /\ UNCHANGED factVars

(* ... and StepFailed is sent; its Err is logged.                            *)
FailIndex(w) ==
    /\ workers[w].phase = "fail_step"
    /\ \/ AcceptFailure(workers[w].doc) /\ UNCHANGED <<reportErr, faults>>
       \/ FailureErr(workers[w].doc)
    /\ Goto(w, "error")
    /\ UNCHANGED <<queued, ingest, lifecycle, reparses, chunks, parses, tasks, runs>>
    /\ UNCHANGED factVars

-----------------------------------------------------------------------------
(* The end of a task or a run.                                               *)

Release(w) == workers' = [workers EXCEPT ![w] = IdleWorker]

(* A statement of a fact task or of a run returns an Err.                    *)
StatementFails(w) ==
    /\ workers[w].kind \in {"facts", "run"}
    /\ workers[w].phase \in Phases \ {"idle", "error"}
    /\ workers[w].phase = "mark" => workers[w].kind = "run"
    /\ Fault
    /\ Goto(w, "error")
    /\ UNCHANGED <<tasks, runs>> /\ UNCHANGED documentVars /\ UNCHANGED factVars

(* mark_succeeded or mark_failed of the task.                                *)
MarkTask(w) ==
    /\ workers[w].kind /= "run"
    /\ workers[w].phase \in {"mark", "error"}
    /\ tasks' = [tasks EXCEPT ![workers[w].task].status =
                   IF workers[w].phase = "mark" THEN "succeeded" ELSE "failed"]
    /\ Release(w)
    /\ UNCHANGED <<runs, faults>> /\ UNCHANGED documentVars /\ UNCHANGED factVars

MarkRunSucceeded(w) ==
    /\ workers[w].kind = "run"
    /\ workers[w].phase = "mark"
    /\ runs' = [runs EXCEPT ![workers[w].doc].status = "succeeded"]
    /\ Release(w)
    /\ UNCHANGED <<tasks, faults>> /\ UNCHANGED documentVars /\ UNCHANGED factVars

(* Mutant: one attempt less is needed to fail than to be claimed again.      *)
AfterErrorTooLate(run) ==
    [run EXCEPT !.status = IF run.attempts > MaxAttempts THEN "failed" ELSE "pending"]

(* requeue_after_error                                                       *)
AfterError(run) ==
    [run EXCEPT !.status = IF run.attempts >= MaxAttempts THEN "failed" ELSE "pending"]

RequeueAfterError(w) ==
    /\ workers[w].kind = "run"
    /\ workers[w].phase = "error"
    /\ runs' = [runs EXCEPT ![workers[w].doc] = AfterError(@)]
    /\ Release(w)
    /\ UNCHANGED <<tasks, faults>> /\ UNCHANGED documentVars /\ UNCHANGED factVars

(* A worker dies and is started again, requeue_after_error or a mark of a    *)
(* task fails, or the reads of an index task do, before its errors are       *)
(* caught: the claim is never released.                                      *)
Crash(w) ==
    /\ workers[w].phase /= "idle"
    /\ Fault
    /\ Release(w)
    /\ UNCHANGED <<tasks, runs>> /\ UNCHANGED documentVars /\ UNCHANGED factVars

-----------------------------------------------------------------------------
Ingest(d) ==
    \/ ClaimParse(d)
    \/ ReplaceChunks(d)
    \/ MarkExtracted(d)
    \/ EnqueueFacts(d)
    \/ CompleteParse(d)
    \/ MarkDeferred(d)
    \/ FailDeferred(d)
    \/ RestartParse(d)
    \/ MarkParseFailed(d)
    \/ FailParse(d)

Work(w) ==
    \/ ClaimTask(w)
    \/ ClaimRun(w)
    \/ LoadDocument(w)
    \/ LoadChunks(w)
    \/ ReplaceFacts(w)
    \/ AggregateFacts(w)
    \/ UpsertSnapshot(w)
    \/ EnqueueRun(w)
    \/ RestoreLifecycle(w)
    \/ IndexDocument(w)
    \/ CompleteIndex(w)
    \/ MarkIndexFailed(w)
    \/ FailIndex(w)
    \/ MarkTask(w)
    \/ MarkRunSucceeded(w)
    \/ RequeueAfterError(w)

Next ==
    \/ \E d \in Docs : RequestParse(d) \/ Ingest(d) \/ ParseFails(d) \/ IngestStops(d)
    \/ \E w \in AllWorkers : Work(w) \/ StatementFails(w) \/ Crash(w)

Spec == Init /\ [][Next]_vars

(* The ingest worker goes on with a parse; the other workers poll.           *)
FairSpec ==
    /\ Spec
    /\ \A d \in Docs : WF_vars(Ingest(d))
    /\ \A w \in AllWorkers : WF_vars(Work(w))

-----------------------------------------------------------------------------
(* Properties                                                                *)

(* Types; the reparse counter and the attempts of a run keep to their        *)
(* budgets.                                                                  *)
DocumentFactsTypeOK ==
    /\ execution \in [Docs -> Stages]
    /\ queued \in [Docs -> Versions]
    /\ ingest \in [Docs -> IngestPhases]
    /\ reportErr \in [Docs -> BOOLEAN]
    /\ lifecycle \in [Docs -> Lifecycles]
    /\ reparses \in [Docs -> 0 .. MaxReparses]
    /\ chunks \in [Docs -> Versions]
    /\ facts \in [Docs -> Versions]
    /\ snapshot \in [Docs -> Versions]
    /\ tasks \in Seq(Task)
    /\ runs \in [Docs -> [status : RunStatuses, attempts : 0 .. MaxAttempts]]
    /\ workers \in [AllWorkers -> [phase : Phases, kind : Kinds, doc : Docs,
                                   task : 0 .. Len(tasks), lifecycle : Lifecycles,
                                   chunks : Versions, facts : [Docs -> Versions]]]
    /\ parses \in 0 .. MaxParses
    /\ faults \in 0 .. MaxFaults
    /\ overlapped \in BOOLEAN

(* The facts of a document never become older than they are, although the   *)
(* run of an earlier parse may write after the task of a later one.          *)
FactsMoveForward == [][\A d \in Docs : facts'[d] >= facts[d]]_vars

(* A run has at most one worker, and a run that is over stays over.         *)
RunsAreExclusive ==
    \A v, w \in AllWorkers :
        /\ workers[w].phase /= "idle" /\ workers[w].kind = "run" =>
              runs[workers[w].doc].status = "running"
        /\ workers[v].phase /= "idle" /\ workers[v].kind = "run"
              /\ workers[w].phase /= "idle" /\ workers[w].kind = "run" /\ v /= w =>
              workers[v].doc /= workers[w].doc

(* The fact task writes back the lifecycle it read at its start; it undoes   *)
(* nothing that the ingest worker or the index task wrote in between, as     *)
(* long as no signal or mark of the document returned an Err.  The task is   *)
(* queued before StepCompleted is sent: after an Err of that signal the      *)
(* ingest worker writes failed, and the write-back may undo it.              *)
WriteBackUndoesNothing ==
    [][\A w \in Indexers :
          /\ workers[w].phase = "state" /\ workers'[w].phase = "mark"
          /\ ~reportErr[workers[w].doc]
          => lifecycle' = lifecycle]_vars

Quiet ==
    /\ \A w \in AllWorkers : workers[w].phase = "idle"
    /\ \A t \in DOMAIN tasks : tasks[t].status /= "queued"
    /\ \A d \in Docs : runs[d].status /= "pending"

(* Only rebuilds that overlap leave a snapshot behind the facts: the row is *)
(* read and overwritten in two statements.                                   *)
SnapshotFollowsFacts == Quiet /\ ~overlapped /\ faults = 0 => snapshot = facts

(* An accepted parse gets its facts, unless the document is parsed again.    *)
FactsFollowChunks ==
    \A d \in Docs :
        execution[d] = "index" ~> \/ facts[d] = chunks[d]
                                  \/ execution[d] = "parse"
                                  \/ faults > 0

(* Every run that is enqueued ends, unless its worker died.                  *)
RunSettles ==
    \A d \in Docs :
        runs[d].status = "pending" ~> runs[d].status \in {"succeeded", "failed"} \/ faults > 0
=============================================================================
