---------------------------- MODULE StaticPages ----------------------------
(***************************************************************************)
(* The static-page worker at one workflow execution: the generation of a   *)
(* preview image, or the rendering of a page.  The state is the execution, *)
(* its tasks, the image job or the render output, the draft both belong    *)
(* to, and what each process holds between two statements: the worker's    *)
(* slots, its sweep of stale claims, the request that created the          *)
(* execution and the requests that follow.                                 *)
(*                                                                         *)
(* Jobs and outputs are written as whole rows, by id, from the copy a      *)
(* process read before; tasks are marked and requeued by id.  None of      *)
(* these statements looks at what is in the row.  A signal is applied in   *)
(* one step here: how two of them interleave is WorkflowRuntime's subject. *)
(***************************************************************************)
EXTENDS WorkflowDefinitions

CONSTANTS
    Kinds,          \* the kinds of execution: "image", "render"
    Providers,      \* the image providers that may be configured
    Prewarm,        \* is the draft a silent template prewarm?
    Slots,          \* tasks that may be processed at one time
    Sweepers,       \* worker processes, each with a sweep
    Clients,        \* API requests that may be under way at one time
    Overruns,       \* may a task outlast the two hours after which it is stale?
    MaxRequests,    \* bound: requests after the one that created the execution
    MaxFaults       \* bound: statements that fail and tasks whose process dies

ASSUME StaticPagesAssumption ==
    /\ Kinds \subseteq {"image", "render"}
    /\ Providers \subseteq {"none", "orchestrator", "direct", "fallback"}
    /\ Prewarm \in BOOLEAN
    /\ Overruns \in BOOLEAN
    /\ MaxRequests \in Nat
    /\ MaxFaults \in Nat

VARIABLES
    config,         \* the kind and, for an image, the provider
    execution,      \* the workflow execution
    tasks,          \* the statuses of its tasks, in the order of creation
    job,            \* static_page_image_jobs
    output,         \* static_page_render_outputs
    draft,          \* static_page_drafts.status
    slots,          \* what each task being processed holds
    sweepers,       \* what each sweep holds
    clients,        \* what each request holds; Creator is the first one
    requests,       \* how many requests followed
    faults          \* how many faults happened

rows == <<job, output, draft>>
vars == <<config, execution, tasks, job, output, draft, slots, sweepers, clients,
          requests, faults>>

(* The definitions of both kinds have one step.                              *)
StaticPage ==
    LinearDefinition(<<LinearStep("static_page_task", "static_page_task:failed")>>,
                     "static_page_completed")

Completed == Signal("step_completed", Steps[1].task_key, "plain")
Failed == Signal("step_failed", Steps[1].task_key, "plain")
Retry == Signal("retry_requested", NoKey, "plain")
Start == Signal("start", NoKey, "plain")
Cancel == Signal("cancel_requested", NoKey, "plain")

(* STATIC_PAGE_IMAGE_PROVIDER: not configured, the orchestrator, or a       *)
(* direct provider without or with the orchestrator to fall back to.         *)
Configs ==
    {[kind |-> "image", provider |-> provider] : provider \in Providers}
        \cup {[kind |-> "render", provider |-> "none"]}

JobStatuses == {"queued", "running", "preview_ready", "confirmed", "failed"}
OutputStatuses == {"queued", "rendering", "rendered", "failed", "cancelled"}
DraftStatuses == {"planned", "queued", "previewed", "confirmed", "rendered"}
TaskStatuses == {"queued", "claimed", "succeeded", "failed"}

(* remote is orchestrator.taskId of the prompt payload; every other write    *)
(* replaces the orchestrator object and with it the id.                      *)
Jobs == [status : JobStatuses, remote : {"none", "direct", "orchestrator"}, asset : BOOLEAN]
Outputs == [status : OutputStatuses, html : BOOLEAN]

NewJob == [status |-> "queued", remote |-> "none", asset |-> FALSE]
NewOutput == [status |-> "queued", html |-> FALSE]

Creator == "creator"
Requesters == Clients \cup {Creator}

SlotPhases == {"idle", "load", "waiting", "direct", "announce", "generate", "submit",
               "submitted", "poll", "preview", "requeue", "rendering", "check", "render",
               "save", "final", "cancel", "complete", "succeed", "error", "fail_step",
               "retry", "restart", "mark_failed"}
SweepPhases == {"idle", "read", "job", "signal", "mark"}
ClientPhases == {"idle", "start", "created", "update", "retried", "confirm",
                 "sync_execution", "sync_output", "sync_write"}

IdleSlot == [phase |-> "idle", task |-> 0, job |-> NewJob, output |-> NewOutput, retryable |-> FALSE]
IdleSweep == [phase |-> "idle", task |-> 0, job |-> NewJob]
IdleClient == [phase |-> "idle", status |-> "pending", job |-> NewJob, output |-> NewOutput]

(* The job or the output and the execution exist; Start is still to be sent. *)
Init ==
    /\ config \in Configs
    /\ config.kind \in Kinds
    /\ execution = InitialExecution
    /\ tasks = <<>>
    /\ job = NewJob
    /\ output = NewOutput
    /\ draft = IF config.kind = "image" THEN "planned" ELSE "confirmed"
    /\ slots = [s \in Slots |-> IdleSlot]
    /\ sweepers = [w \in Sweepers |-> IdleSweep]
    /\ clients = [c \in Requesters |->
                    IF c = Creator THEN [IdleClient EXCEPT !.phase = "start"] ELSE IdleClient]
    /\ requests = 0
    /\ faults = 0

(* apply_workflow_signal_with_dependencies                                   *)
Apply(signal) ==
    /\ Accepts(execution, signal)
    /\ execution' = ExecutionFromTransition(execution, signal)
    /\ tasks' = IF EnqueuedTasks(execution, signal) = {} THEN tasks ELSE Append(tasks, "queued")

Refuse(signal) == ~Accepts(execution, signal) /\ UNCHANGED <<execution, tasks>>

SetTask(t, status) == tasks' = [tasks EXCEPT ![t] = status]

-----------------------------------------------------------------------------
(* The API                                                                   *)

SetClient(c, phase) == clients' = [clients EXCEPT ![c].phase = phase]
EndRequest(c) == clients' = [clients EXCEPT ![c] = IdleClient]

(* create_static_page_image_job, create_static_page_render: Start ...        *)
CreateStart ==
    /\ clients[Creator].phase = "start"
    /\ \/ Apply(Start) /\ SetClient(Creator, IF config.kind = "image" THEN "update" ELSE "created")
       \/ Refuse(Start) /\ EndRequest(Creator)
    /\ UNCHANGED <<config, slots, sweepers, requests, faults>> /\ UNCHANGED rows

(* ... then, for a render, the execution is read again ...                   *)
CreateReload ==
    /\ clients[Creator].phase = "created"
    /\ clients' = [clients EXCEPT ![Creator].phase = "update", ![Creator].status = execution.status]
    /\ UNCHANGED <<config, execution, tasks, slots, sweepers, requests, faults>> /\ UNCHANGED rows

(* static_page_render_output_status_for_workflow                             *)
StatusForWorkflow(status, current) ==
    CASE status = "pending" -> "queued"
      [] status = "running" -> "rendering"
      [] status \in {"failed", "dead_lettered"} -> "failed"
      [] status = "cancelled" -> "cancelled"
      [] OTHER -> current

(* ... and the row or the draft that was read at the beginning is written.   *)
CreateUpdate ==
    /\ clients[Creator].phase = "update"
    /\ IF config.kind = "image"
       THEN draft' = "queued" /\ UNCHANGED output
       ELSE /\ output' = [NewOutput EXCEPT !.status = StatusForWorkflow(clients[Creator].status, @)]
            /\ UNCHANGED draft
    /\ EndRequest(Creator)
    /\ UNCHANGED <<config, execution, tasks, job, slots, sweepers, requests, faults>>

BeginRequest(c) ==
    /\ clients[c].phase = "idle"
    /\ c /= Creator
    /\ requests < MaxRequests
    /\ requests' = requests + 1

(* start_workflow_execution, send_workflow_signal                            *)
RequestSignal(c) ==
    /\ BeginRequest(c)
    /\ \E signal \in {Start, Cancel} : Apply(signal)
    /\ SetClient(c, "sync_execution")
    /\ UNCHANGED <<config, slots, sweepers, faults>> /\ UNCHANGED rows

(* retry_workflow_execution_with_state: Start follows if the row is pending. *)
RequestRetry(c) ==
    /\ BeginRequest(c)
    /\ Apply(Retry)
    /\ SetClient(c, IF execution'.status = "pending" THEN "retried" ELSE "sync_execution")
    /\ UNCHANGED <<config, slots, sweepers, faults>> /\ UNCHANGED rows

RestartExecution(c) ==
    /\ clients[c].phase = "retried"
    /\ \/ Apply(Start) /\ SetClient(c, "sync_execution")
       \/ Refuse(Start) /\ EndRequest(c)
    /\ UNCHANGED <<config, slots, sweepers, requests, faults>> /\ UNCHANGED rows

(* sync_static_page_render_output_for_workflow: two reads and a write.       *)
SyncExecution(c) ==
    /\ clients[c].phase = "sync_execution"
    /\ clients' = [clients EXCEPT ![c] =
                     IF config.kind = "image" THEN IdleClient
                     ELSE [@ EXCEPT !.phase = "sync_output", !.status = execution.status]]
    /\ UNCHANGED <<config, execution, tasks, slots, sweepers, requests, faults>> /\ UNCHANGED rows

SyncOutput(c) ==
    LET next == StatusForWorkflow(clients[c].status, output.status)
    IN  /\ clients[c].phase = "sync_output"
        /\ clients' = [clients EXCEPT ![c] =
                         IF output.status = "rendered" /\ next /= "cancelled" THEN IdleClient
                         ELSE [@ EXCEPT !.phase = "sync_write",
                                        !.output = [output EXCEPT !.status = next]]]
        /\ UNCHANGED <<config, execution, tasks, slots, sweepers, requests, faults>>
        /\ UNCHANGED rows

SyncWrite(c) ==
    /\ clients[c].phase = "sync_write"
    /\ output' = clients[c].output
    /\ EndRequest(c)
    /\ UNCHANGED <<config, execution, tasks, job, draft, slots, sweepers, requests, faults>>

(* confirm_static_page_image_job: any job but a failed one.                  *)
RequestConfirm(c) ==
    /\ config.kind = "image"
    /\ BeginRequest(c)
    /\ job.status /= "failed"
    /\ clients' = [clients EXCEPT ![c].phase = "confirm", ![c].job = job]
    /\ UNCHANGED <<config, execution, tasks, slots, sweepers, faults>> /\ UNCHANGED rows

Confirm(c) ==
    /\ clients[c].phase = "confirm"
    /\ job' = [clients[c].job EXCEPT !.status = "confirmed", !.asset = TRUE]
    /\ draft' = "confirmed"
    /\ EndRequest(c)
    /\ UNCHANGED <<config, execution, tasks, output, slots, sweepers, requests, faults>>

Request(c) ==
    \/ RequestSignal(c)
    \/ RequestRetry(c)
    \/ RequestConfirm(c)

Respond(c) ==
    \/ RestartExecution(c)
    \/ SyncExecution(c)
    \/ SyncOutput(c)
    \/ SyncWrite(c)
    \/ Confirm(c)

-----------------------------------------------------------------------------
(* process_static_page_image_task.  What a call answers is a choice; a step  *)
(* of the model ends with the statement that follows the call.               *)

Goto(s, phase) == slots' = [slots EXCEPT ![s].phase = phase]

GotoError(s, retryable) ==
    slots' = [slots EXCEPT ![s].phase = "error", ![s].retryable = retryable]

(* A task that was put back is available after a delay, when the worker that *)
(* did so has gone on.                                                       *)
Available(t) == tasks[t] = "queued" /\ \A s \in Slots : slots[s].task /= t

ClaimNextAvailable(s) ==
    /\ slots[s].phase = "idle"
    /\ \E t \in DOMAIN tasks :
          /\ Available(t)
          /\ SetTask(t, "claimed")
          /\ slots' = [slots EXCEPT ![s] = [IdleSlot EXCEPT !.phase = "load", !.task = t]]
    /\ UNCHANGED <<config, execution, sweepers, clients, requests, faults>> /\ UNCHANGED rows

(* A silent prewarm is put back while other heavy tasks are active.          *)
WaitForLowLoad(s) ==
    /\ slots[s].phase = "load"
    /\ config.kind = "image" /\ Prewarm
    /\ SetTask(slots[s].task, "queued")
    /\ Goto(s, "waiting")
    /\ UNCHANGED <<config, execution, sweepers, clients, requests, faults>> /\ UNCHANGED rows

(* The event that says so is written after the task was put back.            *)
AppendSkipped(s) ==
    /\ slots[s].phase = "waiting"
    /\ slots' = [slots EXCEPT ![s] = IdleSlot]
    /\ UNCHANGED <<config, execution, tasks, sweepers, clients, requests, faults>> /\ UNCHANGED rows

(* Where the provider and the task id of the job lead.                       *)
Route(copy) ==
    CASE config.kind = "render" -> "rendering"
      [] config.kind = "image" /\ config.provider = "none" -> "error"
      [] config.provider = "direct" /\ copy.remote /= "none" -> "error"
      [] config.provider \in {"direct", "fallback"} /\ copy.remote = "none" -> "direct"
      [] config.provider = "orchestrator" /\ copy.remote = "none" -> "submit"
      [] OTHER -> "poll"

(* The rows are read: the worker goes on with these copies.                  *)
LoadRow(s) ==
    /\ slots[s].phase = "load"
    /\ slots' = [slots EXCEPT ![s].phase = Route(job), ![s].job = job, ![s].output = output]
    /\ UNCHANGED <<config, execution, tasks, sweepers, clients, requests, faults>> /\ UNCHANGED rows

(* Write the copy, changed, as the whole row and keep it.                    *)
WriteJob(s, copy, phase) ==
    /\ job' = copy
    /\ slots' = [slots EXCEPT ![s].job = copy, ![s].phase = phase]
    /\ UNCHANGED <<config, execution, tasks, output, draft, sweepers, clients, requests, faults>>

(* mark_job_running, before the direct provider or the orchestrator.         *)
MarkJobRunning(s) ==
    LET copy == [slots[s].job EXCEPT !.status = "running", !.remote = "none"]
    IN  \/ slots[s].phase = "direct" /\ WriteJob(s, copy, "announce")
        \/ slots[s].phase = "submit" /\ WriteJob(s, copy, "submitted")

Announce(s) ==
    /\ slots[s].phase = "announce"
    /\ WriteJob(s, [slots[s].job EXCEPT !.remote = "direct"], "generate")

(* generate_static_page_visual_direct, submit_static_page_visual_task and    *)
(* poll_static_page_visual_task may end with an error.                       *)
CallFails(s) ==
    /\ \/ slots[s].phase = "generate" /\ config.provider = "direct"
       \/ slots[s].phase \in {"submitted", "poll"}
    /\ \E retryable \in BOOLEAN : GotoError(s, retryable)
    /\ UNCHANGED <<config, execution, tasks, sweepers, clients, requests, faults>> /\ UNCHANGED rows

Generated(s) ==
    /\ slots[s].phase \in {"generate", "poll"}
    /\ Goto(s, "preview")
    /\ UNCHANGED <<config, execution, tasks, sweepers, clients, requests, faults>> /\ UNCHANGED rows

FallBack(s) ==
    /\ slots[s].phase = "generate"
    /\ config.provider = "fallback"
    /\ WriteJob(s, [slots[s].job EXCEPT !.remote = "none"], "submit")

Submit(s) ==
    /\ slots[s].phase = "submitted"
    /\ WriteJob(s, [slots[s].job EXCEPT !.remote = "orchestrator"], "requeue")

(* The orchestrator is not done, or the poll met a transient error.          *)
PollAgain(s) ==
    /\ slots[s].phase = "poll"
    /\ WriteJob(s, [slots[s].job EXCEPT !.status = "running"], "requeue")

(* requeue_after_transient_error                                             *)
Requeue(s) ==
    /\ slots[s].phase = "requeue"
    /\ SetTask(slots[s].task, "queued")
    /\ slots' = [slots EXCEPT ![s] = IdleSlot]
    /\ UNCHANGED <<config, execution, sweepers, clients, requests, faults>> /\ UNCHANGED rows

(* mark_job_preview_ready, the job and then the draft.                       *)
MarkJobPreviewReady(s) ==
    /\ slots[s].phase = "preview"
    /\ job' = [status |-> "preview_ready", remote |-> "none", asset |-> TRUE]
    /\ draft' = "previewed"
    /\ Goto(s, "complete")
    /\ UNCHANGED <<config, execution, tasks, output, sweepers, clients, requests, faults>>

-----------------------------------------------------------------------------
(* process_static_page_render_task                                           *)

WriteOutput(s, copy, phase) ==
    /\ output' = copy
    /\ slots' = [slots EXCEPT ![s].output = copy, ![s].phase = phase]
    /\ UNCHANGED <<config, execution, tasks, job, draft, sweepers, clients, requests, faults>>

MarkRendering(s) ==
    /\ slots[s].phase = "rendering"
    /\ WriteOutput(s, [slots[s].output EXCEPT !.status = "rendering"], "check")

(* The preview may not be confirmed; the cancellation is looked for before   *)
(* the page is rendered and before it is saved.                              *)
CheckBeforeRender(s) ==
    /\ slots[s].phase \in {"check", "render"}
    /\ \/ slots[s].phase = "check" /\ GotoError(s, FALSE)
       \/ /\ execution.status = "cancelled"
          /\ Goto(s, "cancel")
       \/ /\ execution.status /= "cancelled"
          /\ Goto(s, IF slots[s].phase = "check" THEN "render" ELSE "save")
    /\ UNCHANGED <<config, execution, tasks, sweepers, clients, requests, faults>> /\ UNCHANGED rows

MarkCancelled(s) ==
    /\ slots[s].phase = "cancel"
    /\ WriteOutput(s, [slots[s].output EXCEPT !.status = "cancelled"], "succeed")

SaveRendered(s) ==
    /\ slots[s].phase = "save"
    /\ WriteOutput(s, [status |-> "rendered", html |-> TRUE], "final")

MarkDraftRendered(s) ==
    /\ slots[s].phase = "final"
    /\ draft' = "rendered"
    /\ Goto(s, "complete")
    /\ UNCHANGED <<config, execution, tasks, job, output, sweepers, clients, requests, faults>>

-----------------------------------------------------------------------------
(* The end of a task, for both kinds.                                        *)

CompleteStep(s) ==
    /\ slots[s].phase = "complete"
    /\ \/ Apply(Completed) /\ Goto(s, "succeed")
       \/ Refuse(Completed) /\ GotoError(s, FALSE)
    /\ UNCHANGED <<config, sweepers, clients, requests, faults>> /\ UNCHANGED rows

(* The row is read again and marked; errors of these statements are ignored. *)
MarkError(s) ==
    /\ slots[s].phase = "error"
    /\ \/ /\ config.kind = "render"
          /\ output' = [output EXCEPT !.status = "failed"]
          /\ UNCHANGED <<job, draft>>
       \/ /\ config.kind = "image"
          /\ job' = [job EXCEPT !.status = IF slots[s].retryable THEN "running" ELSE "failed",
                                !.remote = "none"]
          /\ draft' = IF slots[s].retryable THEN "queued" ELSE "planned"
          /\ UNCHANGED output
    /\ Goto(s, "fail_step")
    /\ UNCHANGED <<config, execution, tasks, sweepers, clients, requests, faults>>

(* An Err of StepFailed is only logged.                                      *)
FailStep(s) ==
    /\ slots[s].phase = "fail_step"
    /\ Apply(Failed) \/ Refuse(Failed)
    /\ Goto(s, IF slots[s].retryable /\ config.kind = "image" THEN "retry" ELSE "mark_failed")
    /\ UNCHANGED <<config, sweepers, clients, requests, faults>> /\ UNCHANGED rows

(* auto_retry_static_page_image_workflow                                     *)
AutoRetry(s) ==
    /\ slots[s].phase = "retry"
    /\ Apply(Retry) \/ Refuse(Retry)
    /\ Goto(s, IF Accepts(execution, Retry) /\ execution'.status = "pending"
               THEN "restart" ELSE "mark_failed")
    /\ UNCHANGED <<config, sweepers, clients, requests, faults>> /\ UNCHANGED rows

AutoRestart(s) ==
    /\ slots[s].phase = "restart"
    /\ Apply(Start) \/ Refuse(Start)
    /\ Goto(s, "mark_failed")
    /\ UNCHANGED <<config, sweepers, clients, requests, faults>> /\ UNCHANGED rows

(* mark_succeeded, mark_failed                                               *)
MarkTask(s) ==
    /\ slots[s].phase \in {"succeed", "mark_failed"}
    /\ SetTask(slots[s].task, IF slots[s].phase = "succeed" THEN "succeeded" ELSE "failed")
    /\ slots' = [slots EXCEPT ![s] = IdleSlot]
    /\ UNCHANGED <<config, execution, sweepers, clients, requests, faults>> /\ UNCHANGED rows

(* A statement of the processing returns an Err ...                          *)
StatementFails(s) ==
    /\ slots[s].phase \in SlotPhases \ {"idle", "succeed", "error", "fail_step", "retry",
                                        "restart", "mark_failed"}
    /\ faults < MaxFaults
    /\ faults' = faults + 1
    /\ \E retryable \in BOOLEAN : GotoError(s, retryable)
    /\ UNCHANGED <<config, execution, tasks, sweepers, clients, requests>> /\ UNCHANGED rows

(* ... or the process dies, or the last statement fails.                     *)
Crash(s) ==
    /\ slots[s].phase /= "idle"
    /\ faults < MaxFaults
    /\ faults' = faults + 1
    /\ slots' = [slots EXCEPT ![s] = IdleSlot]
    /\ UNCHANGED <<config, execution, tasks, sweepers, clients, requests>> /\ UNCHANGED rows

-----------------------------------------------------------------------------
(* expire_stale_claimed_tasks                                                *)

(* Mutant: the age of the claim is not looked at.                            *)
AnyClaimed(t) == tasks[t] = "claimed"

(* list_stale_claimed: two hours after the claim nobody is at work on it.    *)
Stale(t) ==
    /\ tasks[t] = "claimed"
    /\ Overruns \/ \A s \in Slots : slots[s].task /= t

SweepTask(w) ==
    /\ sweepers[w].phase = "idle"
    /\ \E t \in DOMAIN tasks :
          /\ Stale(t)
          /\ sweepers' = [sweepers EXCEPT ![w] =
                            [IdleSweep EXCEPT !.phase = IF config.kind = "image" THEN "read" ELSE "signal",
                                              !.task = t]]
    /\ UNCHANGED <<config, execution, tasks, slots, clients, requests, faults>> /\ UNCHANGED rows

SweepReadJob(w) ==
    /\ sweepers[w].phase = "read"
    /\ sweepers' = [sweepers EXCEPT ![w].job = job,
                      ![w].phase = IF job.status \in {"queued", "running"} THEN "job" ELSE "signal"]
    /\ UNCHANGED <<config, execution, tasks, slots, clients, requests, faults>> /\ UNCHANGED rows

(* Mutant: the job is left as it is.                                         *)
SweepSkipJob(w) ==
    /\ sweepers[w].phase = "job"
    /\ sweepers' = [sweepers EXCEPT ![w].phase = "signal"]
    /\ UNCHANGED <<config, execution, tasks, slots, clients, requests, faults>> /\ UNCHANGED rows

SweepMarkJobFailed(w) ==
    /\ sweepers[w].phase = "job"
    /\ job' = [sweepers[w].job EXCEPT !.status = "failed", !.remote = "none"]
    /\ draft' = "planned"
    /\ sweepers' = [sweepers EXCEPT ![w].phase = "signal"]
    /\ UNCHANGED <<config, execution, tasks, output, slots, clients, requests, faults>>

(* Mutant: no signal is sent.                                                *)
SweepSkipSignal(w) ==
    /\ sweepers[w].phase = "signal"
    /\ sweepers' = [sweepers EXCEPT ![w].phase = "mark"]
    /\ UNCHANGED <<config, execution, tasks, slots, clients, requests, faults>> /\ UNCHANGED rows

(* An Err of StepFailed ends the sweep of this task until the next one.      *)
SweepFailStep(w) ==
    /\ sweepers[w].phase = "signal"
    /\ \/ Apply(Failed) /\ sweepers' = [sweepers EXCEPT ![w].phase = "mark"]
       \/ Refuse(Failed) /\ sweepers' = [sweepers EXCEPT ![w] = IdleSweep]
    /\ UNCHANGED <<config, slots, clients, requests, faults>> /\ UNCHANGED rows

SweepMarkFailed(w) ==
    /\ sweepers[w].phase = "mark"
    /\ SetTask(sweepers[w].task, "failed")
    /\ sweepers' = [sweepers EXCEPT ![w] = IdleSweep]
    /\ UNCHANGED <<config, execution, slots, clients, requests, faults>> /\ UNCHANGED rows

-----------------------------------------------------------------------------
Create == CreateStart \/ CreateReload \/ CreateUpdate

ProcessImage(s) ==
    \/ MarkJobRunning(s)
    \/ Announce(s)
    \/ CallFails(s)
    \/ Generated(s)
    \/ FallBack(s)
    \/ Submit(s)
    \/ PollAgain(s)
    \/ Requeue(s)
    \/ MarkJobPreviewReady(s)

ProcessRender(s) ==
    \/ MarkRendering(s)
    \/ CheckBeforeRender(s)
    \/ MarkCancelled(s)
    \/ SaveRendered(s)
    \/ MarkDraftRendered(s)

EndTask(s) ==
    \/ CompleteStep(s)
    \/ MarkError(s)
    \/ FailStep(s)
    \/ AutoRetry(s)
    \/ AutoRestart(s)
    \/ MarkTask(s)

Work(s) ==
    \/ ClaimNextAvailable(s)
    \/ WaitForLowLoad(s)
    \/ AppendSkipped(s)
    \/ LoadRow(s)
    \/ ProcessImage(s)
    \/ ProcessRender(s)
    \/ EndTask(s)

Sweep(w) ==
    \/ SweepTask(w)
    \/ SweepReadJob(w)
    \/ SweepMarkJobFailed(w)
    \/ SweepFailStep(w)
    \/ SweepMarkFailed(w)

Next ==
    \/ Create
    \/ \E c \in Clients : Request(c) \/ Respond(c)
    \/ \E s \in Slots : Work(s) \/ StatementFails(s) \/ Crash(s)
    \/ \E w \in Sweepers : Sweep(w)

Spec == Init /\ [][Next]_vars

(* Requests, tasks and sweeps go on.  The load falls now and then, and the   *)
(* orchestrator ends what was submitted to it.                               *)
FairSpec ==
    /\ Spec
    /\ WF_vars(Create)
    /\ \A c \in Clients : WF_vars(Respond(c))
    /\ \A s \in Slots : /\ WF_vars(Work(s))
                        /\ SF_vars(LoadRow(s))
                        /\ SF_vars(Generated(s) \/ CallFails(s))
    /\ \A w \in Sweepers : WF_vars(Sweep(w))

-----------------------------------------------------------------------------
(* Properties                                                                *)

(* Types of the rows and of what every process holds; the attempts of the    *)
(* execution keep to its budget, automatic retries included.                 *)
StaticPagesTypeOK ==
    /\ execution \in Executions
    /\ execution.attempt <= InitialRetries + 1
    /\ tasks \in Seq(TaskStatuses)
    /\ Len(tasks) = execution.attempt
    /\ job \in Jobs
    /\ output \in Outputs
    /\ draft \in DraftStatuses
    /\ slots \in [Slots -> [phase : SlotPhases, task : 0 .. Len(tasks), job : Jobs,
                            output : Outputs, retryable : BOOLEAN]]
    /\ sweepers \in [Sweepers -> [phase : SweepPhases, task : 0 .. Len(tasks), job : Jobs]]
    /\ clients \in [Requesters -> [phase : ClientPhases, status : Statuses, job : Jobs,
                                   output : Outputs]]
    /\ requests \in 0 .. MaxRequests
    /\ faults \in 0 .. MaxFaults

(* A task that is settled stays settled: no requeue and no mark of a late    *)
(* worker reaches it, as long as only abandoned claims are swept.            *)
TaskOutcomeIsFinal ==
    [][\A t \in DOMAIN tasks :
          tasks[t] \in {"succeeded", "failed"} => tasks'[t] = tasks[t]]_vars

(* Unlike those of the other queues, an execution never stays running, even  *)
(* when the process that had its task died: the sweep fails it.              *)
ExecutionSettles == execution.status = "running" ~> execution.status /= "running"

(* An image job that is waited for ends, whatever dies or fails, unless the  *)
(* execution was cancelled or ran out of retries under it.                   *)
ImageJobSettles ==
    config.kind = "image" /\ execution.status /= "pending" /\ job.status \in {"queued", "running"} ~>
        \/ job.status \notin {"queued", "running"}
        \/ execution.status \in {"cancelled", "dead_lettered"}

Quiet ==
    /\ \A s \in Slots : slots[s].phase = "idle"
    /\ \A w \in Sweepers : sweepers[w].phase = "idle"
    /\ \A c \in Requesters : clients[c].phase = "idle"

(* A page whose render workflow succeeded is there to be read, unless it was *)
(* cancelled afterwards.                                                     *)
RenderIsDurable ==
    config.kind = "render" /\ execution.status = "succeeded" /\ Quiet => output.status = "rendered"

(* A preview whose workflow succeeded is there to be confirmed or used, as   *)
(* long as no process dies: the sweep of a task that was retried before its  *)
(* worker died fails the job of the newer attempt.                           *)
PreviewIsDurable ==
    config.kind = "image" /\ execution.status = "succeeded" /\ Quiet /\ faults = 0 =>
        job.status \in {"preview_ready", "confirmed"} /\ job.asset
=============================================================================
