------------------------ MODULE WorkflowDefinitions ------------------------
(***************************************************************************)
(* The explicit workflow state machines of crates/workflow-definitions, as *)
(* pure operators.  A definition is a record                               *)
(*                                                                         *)
(*   steps     : the sequence of its steps; a step has the stage in which  *)
(*               its task runs, the task key, and the stage written when   *)
(*               that task fails                                           *)
(*   success   : the stage of a succeeded execution                        *)
(*   names_completion : the last step persists "completed" instead of      *)
(*               "step_completed"                                          *)
(*   checks_unsupported : an output or an error may say "unsupported       *)
(*               source" (VideoExtractionWorkflowDefinition only)          *)
(*   rebuilds_on_retry  : RetryRequested starts from pending_state instead *)
(*               of a clone of the current state                           *)
(*                                                                         *)
(* An execution row is a record with stage, status, retries_remaining,     *)
(* attempt and launch_context.  The JSON context is abstracted to          *)
(* launch_context: are the keys the launching caller stored (document_id,  *)
(* dispatch_request, ...) still there?  The diagnostic keys (last_output,  *)
(* last_error, retry_reason, ...) are left out.                            *)
(***************************************************************************)
EXTENDS Integers, Sequences

CONSTANT InitialRetries        \* retries_remaining of a pending_state: 3

ASSUME InitialRetriesAssumption == InitialRetries \in Nat

Statuses == {"pending", "running", "succeeded", "failed", "cancelled",
             "dead_lettered"}

SignalKinds == {"start", "step_completed", "step_failed", "retry_requested",
                "cancel_requested", "publish_requested"}

(* What a step reports: its output or its error; "unsupported" is an output *)
(* or an error that says unsupported_source.                                *)
Results == {"plain", "unsupported"}

NoKey == "-"

Signal(kind, key, result) == [kind |-> kind, task_key |-> key, result |-> result]

-----------------------------------------------------------------------------
(* The catalogue: one definition of each shape registry() contains.         *)

LinearStep(key, failed) == [stage |-> key, task_key |-> key, failed |-> failed]

LinearDefinition(steps, success) ==
    [steps |-> steps, success |-> success, names_completion |-> FALSE,
     checks_unsupported |-> FALSE, rebuilds_on_retry |-> FALSE]

UploadIngest ==
    LinearDefinition(
        <<LinearStep("ingest_uploaded_document", "ingest_uploaded_document:failed"),
          LinearStep("index_retrieval_artifacts", "index_retrieval_artifacts:failed")>>,
        "upload_ingest_completed")

ReportPlan ==
    LinearDefinition(<<LinearStep("plan_report_ast", "plan_report_ast:failed")>>,
                     "report_plan_completed")

StagedStep(stage, key) == [stage |-> stage, task_key |-> key, failed |-> "failed"]

ExternalSourceSync ==
    [steps |-> <<StagedStep("sync_users", "sync_external_users"),
                 StagedStep("sync_acl", "sync_external_acl"),
                 StagedStep("sync_metadata", "sync_external_metadata"),
                 StagedStep("fetch_content", "fetch_external_content"),
                 StagedStep("ingest", "ingest_external_content"),
                 StagedStep("index", "index_external_retrieval")>>,
     success |-> "completed", names_completion |-> TRUE,
     checks_unsupported |-> FALSE, rebuilds_on_retry |-> FALSE]

VideoExtraction ==
    [steps |-> <<StagedStep("resolving_source", "resolve_video_source"),
                 StagedStep("registered", "register_video_asset"),
                 StagedStep("parsing", "parse_video_media"),
                 StagedStep("extracting_ppt", "extract_video_ppt")>>,
     success |-> "completed", names_completion |-> TRUE,
     checks_unsupported |-> TRUE, rebuilds_on_retry |-> TRUE]

-----------------------------------------------------------------------------
(* The definition an execution is run with (find_definition of its kind).   *)
CONSTANT Definition

Steps == Definition.steps
StepNumbers == 1 .. Len(Steps)
TaskKeys == {Steps[i].task_key : i \in StepNumbers}

Stages == {"queued", "cancelled", "dead_lettered", "unsupported_source",
           Definition.success}
          \cup {Steps[i].stage : i \in StepNumbers}
          \cup {Steps[i].failed : i \in StepNumbers}

(* No definition has two steps with one task key or one stage, and none has *)
(* an empty list of steps.                                                  *)
ASSUME DefinitionAssumption ==
    /\ Definition.steps \in Seq([stage : STRING, task_key : STRING, failed : STRING])
    /\ Len(Definition.steps) > 0
    /\ Definition.success \in STRING
    /\ Definition.names_completion \in BOOLEAN
    /\ Definition.checks_unsupported \in BOOLEAN
    /\ Definition.rebuilds_on_retry \in BOOLEAN
    /\ \A i, j \in 1 .. Len(Definition.steps) :
          \/ Definition.steps[i].task_key = Definition.steps[j].task_key
          \/ Definition.steps[i].stage = Definition.steps[j].stage
          => i = j

(* The signals of a step name its task.                                     *)
Signals ==
    {signal \in [kind : SignalKinds, task_key : TaskKeys \cup {NoKey}, result : Results] :
        signal.kind \in {"step_completed", "step_failed"} => signal.task_key \in TaskKeys}

(* Only the video definition looks at what a step reports.                  *)
ReportedResults == {r \in Results : r = "plain" \/ Definition.checks_unsupported}

Executions == [stage : Stages, status : Statuses, retries_remaining : Nat,
               attempt : Nat, launch_context : BOOLEAN]

(* Does the worker of a step need the launch context?  All do but           *)
(* resolve_video_source_output, which answers with nulls.                   *)
ReadsContext(key) == key /= "resolve_video_source"

StepOf(key) == CHOOSE i \in StepNumbers : Steps[i].task_key = key

(* initial_state, with the context the launching caller adds to it.         *)
InitialExecution ==
    [stage |-> "queued", status |-> "pending",
     retries_remaining |-> InitialRetries, attempt |-> 0, launch_context |-> TRUE]

(* stage_after_completed_task looks the pair (stage, task key) up; only the *)
(* video definition first looks at the output, and then takes any pair.     *)
Unsupported(signal) ==
    Definition.checks_unsupported /\ signal.result = "unsupported"

AtStep(execution, key) ==
    \E i \in StepNumbers : /\ Steps[i].task_key = key
                           /\ Steps[i].stage = execution.stage

(* Mutant: Start without its guard on the status.                           *)
AcceptsAnyStart(execution, signal) ==
    \/ signal.kind = "start"
    \/ /\ signal.kind = "step_completed"
       /\ execution.status = "running"
       /\ Unsupported(signal) \/ AtStep(execution, signal.task_key)
    \/ signal.kind = "step_failed" /\ execution.status = "running"
    \/ signal.kind = "retry_requested" /\ execution.status = "failed"
    \/ signal.kind = "cancel_requested"

(* The guards of transition(): which signals does a row accept?             *)
Accepts(execution, signal) ==
    \/ signal.kind = "start" /\ execution.status = "pending"
    \/ /\ signal.kind = "step_completed"
       /\ execution.status = "running"
       /\ Unsupported(signal) \/ AtStep(execution, signal.task_key)
    \/ signal.kind = "step_failed" /\ execution.status = "running"
    \/ signal.kind = "retry_requested" /\ execution.status = "failed"
    \/ signal.kind = "cancel_requested"

Move(execution, stage, status) ==
    [execution EXCEPT !.stage = stage, !.status = status]

IsLast(key) == StepOf(key) = Len(Steps)

AfterStep(execution, signal) ==
    IF Unsupported(signal)
    THEN Move(execution, "unsupported_source", "failed")
    ELSE IF IsLast(signal.task_key)
         THEN Move(execution, Definition.success, "succeeded")
         ELSE Move(execution, Steps[StepOf(signal.task_key) + 1].stage, "running")

(* Mutant: the retry budget is not looked at.                               *)
AfterUncheckedRetry(execution) ==
    [Move(execution, "queued", "pending") EXCEPT !.retries_remaining = @ - 1]

AfterRetry(execution) ==
    IF execution.retries_remaining = 0
    THEN Move(execution, "dead_lettered", "dead_lettered")
    ELSE [Move(execution, "queued", "pending") EXCEPT
            !.retries_remaining = @ - 1,
            !.launch_context = IF Definition.rebuilds_on_retry THEN FALSE ELSE @]

FailedStage(signal) ==
    IF Unsupported(signal) THEN "unsupported_source"
                           ELSE Steps[StepOf(signal.task_key)].failed

(* next_state of transition(), for an accepted signal.                      *)
NextState(execution, signal) ==
    CASE signal.kind = "start" -> Move(execution, Steps[1].stage, "running")
      [] signal.kind = "step_completed" -> AfterStep(execution, signal)
      [] signal.kind = "step_failed" -> Move(execution, FailedStage(signal), "failed")
      [] signal.kind = "retry_requested" -> AfterRetry(execution)
      [] OTHER -> Move(execution, "cancelled", "cancelled")

EventNames == {"created", "started", "step_completed", "completed",
               "unsupported_source", "step_failed", "retry_requested",
               "dead_lettered", "cancel_requested"}

CompletedName(signal) ==
    IF Unsupported(signal) THEN "unsupported_source"
    ELSE IF Definition.names_completion /\ IsLast(signal.task_key)
         THEN "completed" ELSE "step_completed"

(* The name of the event transition() persists.                             *)
EventName(execution, signal) ==
    CASE signal.kind = "start" -> "started"
      [] signal.kind = "step_completed" -> CompletedName(signal)
      [] signal.kind = "step_failed" -> "step_failed"
      [] signal.kind = "retry_requested" ->
            IF execution.retries_remaining = 0 THEN "dead_lettered"
                                               ELSE "retry_requested"
      [] OTHER -> "cancel_requested"

(* Mutants: a retry enqueues the first task at once; only Start enqueues.   *)
EnqueuedOnRetryToo(execution, signal) ==
    CASE signal.kind \in {"start", "retry_requested"} -> {Steps[1].task_key}
      [] /\ signal.kind = "step_completed"
         /\ ~Unsupported(signal)
         /\ ~IsLast(signal.task_key) -> {Steps[StepOf(signal.task_key) + 1].task_key}
      [] OTHER -> {}

EnqueuedOnStartOnly(execution, signal) ==
    {Steps[1].task_key : kind \in {signal.kind} \cap {"start"}}

(* The task keys transition() enqueues: none or one.                        *)
EnqueuedTasks(execution, signal) ==
    CASE signal.kind = "start" -> {Steps[1].task_key}
      [] /\ signal.kind = "step_completed"
         /\ ~Unsupported(signal)
         /\ ~IsLast(signal.task_key) -> {Steps[StepOf(signal.task_key) + 1].task_key}
      [] OTHER -> {}

(* Mutant: every move into a running stage counts as an attempt.            *)
CountingEveryStep(execution, signal) ==
    LET next == NextState(execution, signal)
    IN  [next EXCEPT !.attempt = IF next.status = "running" THEN @ + 1 ELSE @]

(* workflow_execution_from_transition: attempt counts the starts.           *)
ExecutionFromTransition(execution, signal) ==
    LET next == NextState(execution, signal)
    IN  [next EXCEPT !.attempt =
            IF execution.status = "pending" /\ next.status = "running"
            THEN @ + 1 ELSE @]

(* An event's payload has the task key and, for a failed step, the error.   *)
Event(name, key, error) == [name |-> name, task_key |-> key, result |-> error]

(* The event transition() persists.                                         *)
PersistedEvent(execution, signal) ==
    Event(EventName(execution, signal), signal.task_key,
          IF signal.kind = "step_failed" THEN signal.result ELSE "plain")

(* The starts and the retries of a row within its budget: a pending row     *)
(* shows one start for each spent retry, a row that ran exactly one more.   *)
Budget(row) ==
    /\ row.attempt + row.retries_remaining <= InitialRetries + 1
    /\ row.status = "pending" => row.attempt + row.retries_remaining = InitialRetries
    /\ row.status \in {"running", "succeeded", "failed", "dead_lettered"} =>
          row.attempt + row.retries_remaining = InitialRetries + 1
    /\ row.status = "dead_lettered" => row.retries_remaining = 0

=============================================================================
