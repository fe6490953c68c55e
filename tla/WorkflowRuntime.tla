-------------------------- MODULE WorkflowRuntime --------------------------
(***************************************************************************)
(* One workflow execution: its row in workflow_executions, its rows in     *)
(* workflow_events and workflow_tasks, and the processes that send it      *)
(* signals: the platform API's request handlers and the queue workers.     *)
(*                                                                         *)
(* A signal is applied in four separate database round trips               *)
(* (apply_workflow_signal_with_dependencies and advance_with_tasks):       *)
(*   "read"   the row is read and the transition computed from it;         *)
(*   "begin"  a transaction starts and reads max(sequence_no) + 1;         *)
(*   "commit" the row is overwritten with the computed one, the event and  *)
(*            the tasks are inserted, and the transaction commits.  The    *)
(*            unique index on (execution_id, sequence_no) rolls it back    *)
(*            when another transaction took that number meanwhile;         *)
(*   then the caller gets Ok ("ok") or Err ("err").                        *)
(* Nothing compares the row with the one read: a commit may overwrite what *)
(* was committed between its "read" and its "begin".                       *)
(*                                                                         *)
(* The ingest worker adds to this pattern: a parse it accepts inserts a    *)
(* cleanup_document_facts task into the same execution, with no event and  *)
(* no signal of its own; a parse of poor quality fails its step and may    *)
(* then be retried by the worker itself.                                   *)
(***************************************************************************)
EXTENDS WorkflowDefinitions, FiniteSets

CONSTANTS
    Clients,        \* concurrent API requests
    Workers,        \* worker processes polling the queues
    ClientOps,      \* what a client may ask for
    MaxRequests,    \* bound: API requests in a behaviour
    Faults,         \* may a database call fail?
    Crashes,        \* may a worker process die and restart?
    AutoReparse,    \* INGEST_AUTO_REPARSE_ENABLED
    FailStepOnSignalError
        \* on an Err from StepCompleted a worker sends StepFailed (the media,
        \* ingest, retrieval, report and memory workers) or leaves the task as
        \* it is (the assistant-run, external-action and external-source ones)

AllClientOps == {"start", "retry", "cancel", "signal"}

ASSUME RuntimeAssumption ==
    /\ Clients \cap Workers = {}
    /\ ClientOps \subseteq AllClientOps
    /\ MaxRequests \in Nat
    /\ Faults \in BOOLEAN /\ Crashes \in BOOLEAN /\ FailStepOnSignalError \in BOOLEAN
    /\ AutoReparse \in BOOLEAN

VARIABLES
    execution,      \* the row of workflow_executions
    events,         \* workflow_events: sequence_no -> event
    tasks,          \* workflow_tasks: sequence_no of the enqueuing event -> task
    factTasks,      \* its cleanup_document_facts rows: parse task -> status
    calls,          \* what each process is doing
    requests        \* API requests so far

vars == <<execution, events, tasks, factTasks, calls, requests>>

Processes == Clients \cup Workers

TaskStatuses == {"queued", "claimed", "succeeded", "failed"}
Phases == {"idle", "work", "fact", "read", "begin", "commit", "ok", "err"}

(* The tasks of the ingest worker's process_uploaded_document_task.         *)
IngestTaskKeys == {"ingest_uploaded_document", "parse_video_media"}

(* auto_reparse_decision: "none" for a parse that needs no reparse and for  *)
(* every other step, "reject" and "reparse" for one of poor quality, by     *)
(* should_retry (its attempt counter is DocumentFacts' reparses).           *)
Verdicts == {"none", "reject", "reparse"}

PoorVerdicts == {"reject"} \cup {v \in {"reparse"} : AutoReparse}

IdleCall == [phase |-> "idle", signal |-> Signal("start", NoKey, "plain"),
             snapshot |-> InitialExecution, sequence |-> 0, task |-> 0,
             verdict |-> "none"]

Last(numbers) == CHOOSE n \in numbers : \A m \in numbers : m <= n

LastSequence == Last(DOMAIN events)

(* Mutant: numbers come from a generator that never hands one out twice.    *)
GeneratedSequence ==
    LET used == DOMAIN events \cup {calls[p].sequence : p \in DOMAIN calls}
    IN  Last(used) + 1

(* `coalesce(max(sequence_no), 0) + 1`                                       *)
NextSequence == LastSequence + 1

-----------------------------------------------------------------------------
(* create_with_initial_event: the row and its first event in one            *)
(* transaction, before anybody can send a signal.                           *)
Init ==
    /\ execution = InitialExecution
    /\ events = [n \in {1} |-> Event("created", NoKey, "plain")]
    /\ tasks = [n \in {} |-> [task_key |-> NoKey, status |-> "queued"]]
    /\ factTasks = [n \in {} |-> "queued"]
    /\ calls = [p \in Processes |-> IdleCall]
    /\ requests = 0

(* A process starts to apply a signal.                                       *)
Report(p, signal, task, verdict) ==
    calls' = [calls EXCEPT ![p] = [IdleCall EXCEPT !.phase = "read",
                                                   !.signal = signal,
                                                   !.task = task,
                                                   !.verdict = verdict]]

Send(p, signal) == Report(p, signal, calls[p].task, "none")

Return(p) == calls' = [calls EXCEPT ![p] = IdleCall]

SetPhase(p, phase) == calls' = [calls EXCEPT ![p].phase = phase]

-----------------------------------------------------------------------------
(* The API: start_workflow_execution, retry_workflow_execution_route and    *)
(* send_workflow_signal (which takes any signal).                           *)

RequestedSignals(op) ==
    CASE op = "start" -> {Signal("start", NoKey, "plain")}
      [] op = "retry" -> {Signal("retry_requested", NoKey, "plain")}
      [] op = "cancel" -> {Signal("cancel_requested", NoKey, "plain")}
      [] OTHER -> [kind : {"step_completed", "step_failed"},
                   task_key : TaskKeys, result : ReportedResults]

Request(c) ==
    /\ calls[c].phase = "idle"
    /\ requests < MaxRequests
    /\ \E op \in ClientOps : \E signal \in RequestedSignals(op) : Send(c, signal)
    /\ requests' = requests + 1
    /\ UNCHANGED <<execution, events, tasks, factTasks>>

(* retry_workflow_execution_with_state and dispatch_auto_reparse_retry send *)
(* Start once the retry has made the execution pending, as a second,        *)
(* separate signal.                                                         *)
Restart(p) ==
    /\ calls[p].phase = "ok"
    /\ calls[p].signal.kind = "retry_requested"
    /\ calls[p].snapshot.status = "pending"
    /\ Send(p, Signal("start", NoKey, "plain"))
    /\ UNCHANGED <<execution, events, tasks, factTasks, requests>>

(* The answer of an API request, and the end of a worker's own retry: an     *)
(* Err of that retry is only logged.                                        *)
Respond(p) ==
    /\ p \in Clients \/ calls[p].signal.kind \in {"retry_requested", "start"}
    /\ \/ calls[p].phase = "err"
       \/ /\ calls[p].phase = "ok"
          /\ \/ calls[p].signal.kind /= "retry_requested"
             \/ calls[p].snapshot.status /= "pending"
    /\ Return(p)
    /\ UNCHANGED <<execution, events, tasks, factTasks, requests>>

-----------------------------------------------------------------------------
(* apply_workflow_signal_with_dependencies                                   *)

(* get_by_id and transition(): the snapshot becomes the row to write.        *)
ReadExecution(p) ==
    /\ calls[p].phase = "read"
    /\ IF Accepts(execution, calls[p].signal)
       THEN calls' = [calls EXCEPT ![p].phase = "begin", ![p].snapshot = execution]
       ELSE SetPhase(p, "err")
    /\ UNCHANGED <<execution, events, tasks, factTasks, requests>>

(* Mutant: the row is written before the transaction of its event.          *)
BeginAfterUpdate(p) ==
    /\ calls[p].phase = "begin"
    /\ calls' = [calls EXCEPT ![p].phase = "commit", ![p].sequence = NextSequence]
    /\ execution' = ExecutionFromTransition(calls[p].snapshot, calls[p].signal)
    /\ UNCHANGED <<events, tasks, factTasks, requests>>

BeginAdvance(p) ==
    /\ calls[p].phase = "begin"
    /\ calls' = [calls EXCEPT ![p].phase = "commit", ![p].sequence = NextSequence]
    /\ UNCHANGED <<execution, events, tasks, factTasks, requests>>

(* Mutant: the index on (execution_id, sequence_no) is not unique.          *)
NoUniqueIndex(p) == TRUE

(* unique (execution_id, sequence_no)                                        *)
SequenceFree(p) == calls[p].sequence \notin DOMAIN events

(* advance_with_tasks commits: row, event and tasks together.  The caller   *)
(* then holds the execution it wrote.  With Faults it may get an Err         *)
(* nevertheless: the acknowledgement is lost, or one of the writes after    *)
(* the commit fails (the sync run's status, the audit events).              *)
CommitAdvance(p) ==
    LET call == calls[p]
        next == ExecutionFromTransition(call.snapshot, call.signal)
        enqueued == EnqueuedTasks(call.snapshot, call.signal)
    IN  /\ call.phase = "commit"
        /\ SequenceFree(p)
        /\ execution' = next
        /\ events' = [n \in DOMAIN events \cup {call.sequence} |->
                        IF n = call.sequence
                        THEN PersistedEvent(call.snapshot, call.signal)
                        ELSE events[n]]
        /\ tasks' = [n \in DOMAIN tasks \cup {call.sequence : key \in enqueued} |->
                       IF n \in DOMAIN tasks THEN tasks[n]
                       ELSE [task_key |-> CHOOSE key \in enqueued : TRUE,
                             status |-> "queued"]]
        /\ \E answer \in {"ok"} \cup {a \in {"err"} : Faults} :
              calls' = [calls EXCEPT ![p].phase = answer, ![p].snapshot = next]
        /\ UNCHANGED <<factTasks, requests>>

(* The insert of the event violates the unique index: all is rolled back.   *)
RollbackAdvance(p) ==
    /\ calls[p].phase = "commit"
    /\ ~SequenceFree(p)
    /\ SetPhase(p, "err")
    /\ UNCHANGED <<execution, events, tasks, factTasks, requests>>

(* A database call of the sequence fails before anything is committed.      *)
StorageFault(p) ==
    /\ Faults
    /\ calls[p].phase \in {"read", "begin", "commit"}
    /\ SetPhase(p, "err")
    /\ UNCHANGED <<execution, events, tasks, factTasks, requests>>

-----------------------------------------------------------------------------
(* The workers: claim, process, send the outcome, mark the task.            *)

SetTask(n, status) == tasks' = [tasks EXCEPT ![n].status = status]

(* Mutant: a claim that does not take the task out of the queue.            *)
ClaimWithoutUpdate(w) ==
    /\ calls[w].phase = "idle"
    /\ \E n \in DOMAIN tasks :
          /\ tasks[n].status = "queued"
          /\ calls' = [calls EXCEPT ![w].phase = "work", ![w].task = n]
    /\ UNCHANGED <<execution, events, tasks, factTasks, requests>>

(* claim_next_available: the oldest queued task, for update skip locked.     *)
ClaimNextAvailable(w) ==
    /\ calls[w].phase = "idle"
    /\ \E n \in DOMAIN tasks :
          /\ tasks[n].status = "queued"
          /\ \A m \in DOMAIN tasks : tasks[m].status = "queued" => n <= m
          /\ SetTask(n, "claimed")
          /\ calls' = [calls EXCEPT ![w].phase = "work", ![w].task = n]
    /\ UNCHANGED <<execution, events, factTasks, requests>>

(* enqueue_post_ingest_fact_index_task: an insert of its own; when it fails *)
(* the parse goes on.                                                       *)
CreateFactTask(n) ==
    \/ factTasks' = [m \in DOMAIN factTasks \cup {n} |->
                       IF m = n THEN "queued" ELSE factTasks[m]]
    \/ Faults /\ UNCHANGED factTasks

(* process_task up to the signal: the work succeeds or fails.  A step that  *)
(* finds nothing to work on in the execution's context fails.  The ingest   *)
(* worker inserts the fact task before it reports an accepted parse, and    *)
(* may find the parse too poor to be accepted.                              *)
ProcessTask(w) ==
    LET key == tasks[calls[w].task].task_key
    IN  /\ calls[w].phase = "work"
        /\ \/ /\ execution.launch_context \/ ~ReadsContext(key)
              /\ IF key \in IngestTaskKeys THEN CreateFactTask(calls[w].task)
                                           ELSE UNCHANGED factTasks
              /\ \E result \in ReportedResults : Send(w, Signal("step_completed", key, result))
           \/ /\ \E result \in ReportedResults : Send(w, Signal("step_failed", key, result))
              /\ UNCHANGED factTasks
           \/ /\ key \in IngestTaskKeys /\ execution.launch_context
              /\ \E verdict \in PoorVerdicts :
                    Report(w, Signal("step_failed", key, "plain"), calls[w].task, verdict)
              /\ UNCHANGED factTasks
        /\ UNCHANGED <<execution, events, tasks, requests>>

(* Mutant: an Err of the signal is dropped.                                 *)
MarkSucceededAnyway(w) ==
    /\ calls[w].phase \in {"ok", "err"}
    /\ calls[w].signal.kind = "step_completed"
    /\ SetTask(calls[w].task, "succeeded")
    /\ Return(w)
    /\ UNCHANGED <<execution, events, factTasks, requests>>

MarkSucceeded(w) ==
    /\ calls[w].phase = "ok"
    /\ calls[w].signal.kind = "step_completed"
    /\ SetTask(calls[w].task, "succeeded")
    /\ Return(w)
    /\ UNCHANGED <<execution, events, factTasks, requests>>

(* Mutant: the worker returns without marking a failed task.                *)
ReturnUnmarked(w) ==
    /\ calls[w].phase \in {"ok", "err"}
    /\ calls[w].signal.kind = "step_failed"
    /\ Return(w)
    /\ UNCHANGED <<execution, events, tasks, factTasks, requests>>

(* Whether the StepFailed signal was applied or not: its Err is only logged, *)
(* except for the one of a poor parse.  A poor parse within its budget goes *)
(* on to dispatch_auto_reparse_retry.                                        *)
MarkFailed(w) ==
    /\ calls[w].phase \in {"ok", "err"}
    /\ calls[w].signal.kind = "step_failed"
    /\ calls[w].phase = "err" => calls[w].verdict = "none"
    /\ SetTask(calls[w].task, "failed")
    /\ IF calls[w].verdict = "reparse"
       THEN Report(w, Signal("retry_requested", NoKey, "plain"), 0, "none")
       ELSE Return(w)
    /\ UNCHANGED <<execution, events, factTasks, requests>>

(* StepCompleted, the StepFailed of a poor parse or the mark of its task     *)
(* came back as an Err.                                                      *)
FailStep(w) ==
    /\ \/ /\ FailStepOnSignalError
          /\ calls[w].phase = "err"
          /\ calls[w].signal.kind = "step_completed"
       \/ /\ calls[w].verdict /= "none"
          /\ calls[w].phase = "err" \/ (Faults /\ calls[w].phase = "ok")
    /\ Send(w, Signal("step_failed", calls[w].signal.task_key, "plain"))
    /\ UNCHANGED <<execution, events, tasks, factTasks, requests>>

(* The cleanup_document_facts task: the retrieval worker marks it and sends *)
(* no signal.  It is in another queue than most steps: any order of claims.  *)
ClaimFactTask(w) ==
    /\ calls[w].phase = "idle"
    /\ \E n \in DOMAIN factTasks :
          /\ factTasks[n] = "queued"
          /\ factTasks' = [factTasks EXCEPT ![n] = "claimed"]
          /\ calls' = [calls EXCEPT ![w].phase = "fact", ![w].task = n]
    /\ UNCHANGED <<execution, events, tasks, requests>>

MarkFactTask(w) ==
    /\ calls[w].phase = "fact"
    /\ \E status \in {"succeeded", "failed"} :
          factTasks' = [factTasks EXCEPT ![calls[w].task] = status]
    /\ Return(w)
    /\ UNCHANGED <<execution, events, tasks, requests>>

AbandonTask(w) ==
    /\ \/ /\ ~FailStepOnSignalError
          /\ calls[w].phase = "err"
          /\ calls[w].signal.kind = "step_completed"
       \/ Faults /\ calls[w].phase \in {"work", "fact", "ok", "err"}
    /\ Return(w)
    /\ UNCHANGED <<execution, events, tasks, factTasks, requests>>

Crash(w) ==
    /\ Crashes
    /\ calls[w].phase /= "idle"
    /\ Return(w)
    /\ UNCHANGED <<execution, events, tasks, factTasks, requests>>

-----------------------------------------------------------------------------
(* Requests, and the retries of clients and workers.                        *)
Retry(p) == Restart(p) \/ Respond(p)

Apply(p) ==
    \/ ReadExecution(p)
    \/ BeginAdvance(p)
    \/ CommitAdvance(p)
    \/ RollbackAdvance(p)
    \/ StorageFault(p)

Worker(w) ==
    \/ ClaimNextAvailable(w)
    \/ ProcessTask(w)
    \/ MarkSucceeded(w)
    \/ MarkFailed(w)
    \/ FailStep(w)
    \/ ClaimFactTask(w)
    \/ MarkFactTask(w)
    \/ AbandonTask(w)
    \/ Crash(w)

Next ==
    \/ \E c \in Clients : Request(c)
    \/ \E p \in Processes : Retry(p) \/ Apply(p)
    \/ \E w \in Workers : Worker(w)

Spec == Init /\ [][Next]_vars

(* A request that was accepted is served, and a running worker keeps        *)
(* polling; nobody has to send a request, to fail or to crash.              *)
Fairness ==
    /\ \A p \in Processes : WF_vars(Restart(p) \/ Respond(p))
    /\ \A p \in Processes : WF_vars(ReadExecution(p) \/ BeginAdvance(p)
                                     \/ CommitAdvance(p) \/ RollbackAdvance(p))
    /\ \A w \in Workers : WF_vars(ClaimNextAvailable(w) \/ ProcessTask(w)
                                   \/ MarkSucceeded(w) \/ MarkFailed(w) \/ FailStep(w)
                                   \/ ClaimFactTask(w) \/ MarkFactTask(w) \/ AbandonTask(w))

FairSpec == Spec /\ Fairness

-----------------------------------------------------------------------------
(* Properties                                                                *)

EventRecords == [name : EventNames, task_key : TaskKeys \cup {NoKey}, result : Results]
TaskRecords == [task_key : TaskKeys, status : TaskStatuses]
Calls == [phase : Phases, signal : Signals, snapshot : Executions,
          sequence : Nat, task : Nat, verdict : Verdicts]

(* Types of the tables and of what the processes hold between two calls.    *)
TypeOK ==
    /\ execution \in Executions
    /\ DOMAIN events \subseteq Nat /\ \A n \in DOMAIN events : events[n] \in EventRecords
    /\ DOMAIN tasks \subseteq Nat /\ \A n \in DOMAIN tasks : tasks[n] \in TaskRecords
    /\ DOMAIN factTasks \subseteq Nat
    /\ \A n \in DOMAIN factTasks : factTasks[n] \in TaskStatuses
    /\ calls \in [Processes -> Calls]
    /\ requests \in 0 .. MaxRequests

(* Sequence numbers are read outside the row's lock, yet rollbacks and       *)
(* interleavings leave no gap in an execution's event log                    *)
(* (advance_with_tasks and the unique index on workflow_events).             *)
LogGapFree == DOMAIN events = 1 .. LastSequence

(* The stage and the status that the newest event of the log says the        *)
(* execution has.                                                            *)
RecordedStage(event) ==
    CASE event.name = "started" -> Steps[1].stage
      [] event.name \in {"step_completed", "completed"} ->
            IF IsLast(event.task_key) THEN Definition.success
                                      ELSE Steps[StepOf(event.task_key) + 1].stage
      [] event.name = "unsupported_source" -> "unsupported_source"
      [] event.name = "dead_lettered" -> "dead_lettered"
      [] event.name = "cancel_requested" -> "cancelled"
      [] event.name = "step_failed" -> FailedStage(event)
      [] OTHER -> "queued"

RecordedStatus(event) ==
    CASE event.name \in {"created", "retry_requested"} -> "pending"
      [] event.name = "started" -> "running"
      [] event.name \in {"step_completed", "completed"} ->
            IF IsLast(event.task_key) THEN "succeeded" ELSE "running"
      [] event.name \in {"unsupported_source", "step_failed"} -> "failed"
      [] event.name = "dead_lettered" -> "dead_lettered"
      [] OTHER -> "cancelled"

(* Whatever the interleaving of readers and committers, the row of an        *)
(* execution is the one its newest event announced: the unconditional        *)
(* UPDATE and the INSERT of the event never come apart, because two          *)
(* transactions that overlap cannot both get a sequence number.              *)
RowMatchesNewestEvent ==
    /\ execution.stage = RecordedStage(events[LastSequence])
    /\ execution.status = RecordedStatus(events[LastSequence])

(* The task an event enqueued in its transaction.                            *)
EnqueuedBy(event) ==
    CASE event.name = "started" -> {Steps[1].task_key}
      [] /\ event.name = "step_completed"
         /\ ~IsLast(event.task_key) -> {Steps[StepOf(event.task_key) + 1].task_key}
      [] OTHER -> {}

(* The queue holds exactly one task of a step for each event that announces *)
(* work: no retry (of a user or of the ingest worker), rollback or late     *)
(* commit loses a task or enqueues it twice.  The only other rows are the   *)
(* fact tasks, which have no event: each belongs to a task that parsed.     *)
TasksMatchEvents ==
    /\ DOMAIN tasks = {n \in DOMAIN events : EnqueuedBy(events[n]) /= {}}
    /\ \A n \in DOMAIN tasks : EnqueuedBy(events[n]) = {tasks[n].task_key}
    /\ \A n \in DOMAIN factTasks :
          n \in DOMAIN tasks /\ tasks[n].task_key \in IngestTaskKeys

(* retries_remaining and attempt are copied through stale snapshots, yet no *)
(* row ever shows more starts than its spent retries allow (next_attempt,   *)
(* the RetryRequested arms).                                                *)
AttemptBudget == Budget(execution)

CompletionNames == {"step_completed", "completed", "unsupported_source"}

(* The completion of the task of event n is in the log, after n.            *)
CompletionLogged(n) ==
    \E m \in DOMAIN events : /\ m > n
                             /\ events[m].name \in CompletionNames
                             /\ events[m].task_key = tasks[n].task_key

(* A worker marks the task of a step succeeded only when its completion is  *)
(* in the log, after the event that enqueued the task - although the signal  *)
(* and the mark are separate transactions that crashes and faults separate.  *)
(* The fact tasks are no steps: they succeed without a completion.           *)
SucceededTaskIsLogged ==
    \A n \in DOMAIN tasks : tasks[n].status = "succeeded" => CompletionLogged(n)

(* The log is append-only: no step changes or removes an event.              *)
LogIsAppendOnly ==
    [][\A n \in DOMAIN events : n \in DOMAIN events' /\ events'[n] = events[n]]_events

StepSignals == {"step_completed", "step_failed"}

(* A running execution has one unfinished task of a step, the step of its    *)
(* stage, and an execution that is not running has none left to start: the   *)
(* chain of signals and tasks passes one baton, however many workers poll.   *)
(* The fact tasks carry no baton: one may be queued beside the task of a     *)
(* later step, and outlive the execution.                                    *)
Unfinished ==
    {n \in DOMAIN tasks :
        \/ tasks[n].status = "queued"
        \/ \E w \in Workers : /\ calls[w].task = n
                              /\ calls[w].phase \in {"work", "read", "begin", "commit"}}

OneBaton ==
    /\ execution.status = "running" =>
          \E n \in DOMAIN tasks : /\ Unfinished = {n}
                                  /\ AtStep(execution, tasks[n].task_key)
    /\ execution.status /= "running" => Unfinished = {}

(* The keys the launching caller stored in the context (document_id,         *)
(* dispatch_request, ...) are there when a worker runs a step.               *)
ContextReachesWorkers == execution.status = "running" => execution.launch_context

(* A running execution does not stay running: it succeeds, fails or is       *)
(* cancelled, or goes on to its next stage until one of these happens.       *)
RunningSettles == execution.status = "running" ~> execution.status /= "running"

(* A task that was claimed is settled: its worker marks it succeeded or      *)
(* failed after the signal it sent was applied or refused.  The fact tasks   *)
(* are claimed and settled, too, whatever becomes of the execution.  So once *)
(* no request comes any more (MaxRequests) no claim is left.                 *)
ClaimedTaskSettles ==
    <>[](/\ \A n \in DOMAIN tasks : tasks[n].status /= "claimed"
         /\ \A n \in DOMAIN factTasks : factTasks[n] \in {"succeeded", "failed"})

(* apply_workflow_signal behaves as if a signal were applied in one step, to *)
(* the row as it is at that moment: every commit is a transition of the row  *)
(* it overwrites, not of an older one (the get_by_id that precedes the       *)
(* transaction of advance_with_tasks).                                       *)
Atomic == INSTANCE AtomicWorkflow WITH row <- execution, log <- events

AppliesAtomically == Atomic!Spec

-----------------------------------------------------------------------------
(* The inductive invariant behind the safety properties.                    *)

(* A transaction that is under way drew a number of the log or the next one. *)
DrawsNumber(call) ==
    call.phase = "commit" => call.sequence \in 1 .. LastSequence + 1

(* A snapshot that is about to be written accepts its signal and is within  *)
(* the budget: it was a row of the table.                                    *)
SnapshotIsRow(call) ==
    call.phase \in {"begin", "commit"} =>
        Accepts(call.snapshot, call.signal) /\ Budget(call.snapshot)

(* A busy worker holds a task of a step and reports on it, or a fact task;   *)
(* or it has marked its task and retries the execution.                      *)
HoldsTask(call) ==
    /\ call.phase = "fact" => call.task \in DOMAIN factTasks
    /\ call.phase = "work" => call.task \in DOMAIN tasks
    /\ call.phase \in {"read", "begin", "commit", "ok", "err"} =>
          \/ /\ call.signal.kind \in StepSignals
             /\ call.task \in DOMAIN tasks
             /\ call.signal.task_key = tasks[call.task].task_key
          \/ /\ call.signal.kind \in {"retry_requested", "start"}
             /\ call.verdict = "none"

(* A worker that got Ok for StepCompleted finds the completion in the log.   *)
AcknowledgedIsLogged(call) ==
    call.phase = "ok" /\ call.signal.kind = "step_completed" =>
        CompletionLogged(call.task)

ProcessOK(p, call) ==
    /\ DrawsNumber(call)
    /\ SnapshotIsRow(call)
    /\ p \in Workers => HoldsTask(call) /\ AcknowledgedIsLogged(call)

InductiveInvariant ==
    /\ TypeOK
    /\ LastSequence \in Nat \ {0}
    /\ LogGapFree
    /\ \A p \in Processes : ProcessOK(p, calls[p])
    /\ RowMatchesNewestEvent
    /\ TasksMatchEvents
    /\ AttemptBudget
    /\ SucceededTaskIsLogged

=============================================================================
