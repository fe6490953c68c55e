------------------------- MODULE StaticPagesProofs -------------------------
(***************************************************************************)
(* The safety of StaticPages for any number of slots, sweeps, requests and *)
(* faults: types and attempt budget; that a settled task stays settled as  *)
(* long as only abandoned claims are swept; that without faults a preview  *)
(* whose workflow succeeded is there to be used.                           *)
(***************************************************************************)
EXTENDS StaticPages, WorkflowDefinitionsProofs

(* The definitions of image jobs and of renders have one step.               *)
OneStep == Len(Definition.steps) = 1

(* It is so for the definition of the code.                                  *)
LEMMA StaticPageHasOneStep == Definition = StaticPage => OneStep
  BY DEF OneStep, StaticPage, LinearDefinition

Sent == {Start, Retry, Cancel, Completed, Failed}

SlotRecords(n) == [phase : SlotPhases, task : 0 .. n, job : Jobs, output : Outputs,
                   retryable : BOOLEAN]
SweepRecords(n) == [phase : SweepPhases, task : 0 .. n, job : Jobs]
ClientRecords == [phase : ClientPhases, status : Statuses, job : Jobs, output : Outputs]

ExecutionOK ==
    /\ execution \in Executions /\ Budget(execution)
    /\ tasks \in Seq(TaskStatuses) /\ Len(tasks) = execution.attempt

RowsOK == job \in Jobs /\ output \in Outputs /\ draft \in DraftStatuses

ProcessesOK ==
    /\ slots \in [Slots -> SlotRecords(Len(tasks))]
    /\ sweepers \in [Sweepers -> SweepRecords(Len(tasks))]
    /\ clients \in [Requesters -> ClientRecords]

TypeInvariant ==
    /\ ExecutionOK
    /\ RowsOK
    /\ ProcessesOK
    /\ requests \in 0 .. MaxRequests /\ faults \in 0 .. MaxFaults

(* The types that the run checks follow.                                     *)
LEMMA InvariantGivesTypes == TypeInvariant => StaticPagesTypeOK
  <1> SUFFICES ASSUME TypeInvariant PROVE StaticPagesTypeOK
    OBVIOUS
  <1>1. execution.attempt <= InitialRetries + 1
    BY InitialRetriesAssumption DEF TypeInvariant, ExecutionOK, Budget, Executions
  <1> QED BY <1>1 DEF TypeInvariant, ExecutionOK, RowsOK, ProcessesOK, StaticPagesTypeOK,
                      SlotRecords, SweepRecords, ClientRecords

-----------------------------------------------------------------------------
(* Signals.                                                                  *)

(* What each signal does to an execution of one step and to its tasks.       *)
LEMMA SignalEffects ==
    ASSUME OneStep, ExecutionOK, NEW signal \in Sent, Apply(signal) \/ Refuse(signal)
    PROVE  /\ ExecutionOK'
           /\ \/ UNCHANGED <<execution, tasks>> /\ Refuse(signal)
              \/ Apply(signal) /\
                 \/ /\ signal = Start
                    /\ execution.status = "pending" /\ execution'.status = "running"
                    /\ tasks' = Append(tasks, "queued")
                 \/ /\ signal = Retry /\ tasks' = tasks
                    /\ execution.status = "failed" /\ execution'.status \in {"pending", "dead_lettered"}
                 \/ /\ signal = Cancel /\ tasks' = tasks
                    /\ execution'.status = "cancelled"
                 \/ /\ signal = Completed /\ tasks' = tasks
                    /\ execution.status = "running" /\ execution'.status = "succeeded"
                 \/ /\ signal = Failed /\ tasks' = tasks
                    /\ execution.status = "running" /\ execution'.status = "failed"
  <1>0. CASE Refuse(signal)
    BY <1>0 DEF Refuse, ExecutionOK
  <1>1. CASE Apply(signal)
    <2> DEFINE next == NextState(execution, signal)
               written == ExecutionFromTransition(execution, signal)
    <2>1. /\ Accepts(execution, signal) /\ execution' = written
          /\ tasks' = IF EnqueuedTasks(execution, signal) = {} THEN tasks ELSE Append(tasks, "queued")
      BY <1>1 DEF Apply
    <2>2. StepNumbers = {1} /\ TaskKeys = {Steps[1].task_key}
      BY DEF OneStep, StepNumbers, Steps, TaskKeys
    <2>3. signal \in Signals
      BY <2>2 DEF Sent, Start, Retry, Cancel, Completed, Failed, Signal, Signals, SignalKinds, Results
    <2>4. /\ written \in Executions /\ Budget(written) /\ next \in Executions
          /\ written.status = next.status
      BY <2>1, <2>3, ExecutionType, NextStateType, BudgetKept DEF ExecutionOK
    <2>5. written.attempt = IF execution.status = "pending" /\ next.status = "running"
                            THEN next.attempt + 1 ELSE next.attempt
      BY <2>4 DEF ExecutionFromTransition, Executions
    <2>6. \A stage, status : /\ Move(execution, stage, status).status = status
                             /\ Move(execution, stage, status).attempt = execution.attempt
      BY DEF Move, Executions, ExecutionOK
    <2>7. tasks \in Seq(TaskStatuses) /\ Len(tasks) = execution.attempt /\ execution.attempt \in Nat
          /\ "queued" \in TaskStatuses
      BY DEF ExecutionOK, Executions, TaskStatuses
    <2>8. Append(tasks, "queued") \in Seq(TaskStatuses) /\ Len(Append(tasks, "queued")) = Len(tasks) + 1
      BY <2>7
    <2>9. IsLast(Steps[1].task_key)
      BY <2>2, StepOfKey DEF IsLast, OneStep, Steps
    <2>10. CASE signal = Start
      <3>1. signal.kind = "start"
        BY <2>10 DEF Start, Signal
      <3>2. execution.status = "pending" /\ next.status = "running" /\ next.attempt = execution.attempt
        BY <2>1, <2>6, <3>1 DEF Accepts, NextState
      <3>3. EnqueuedTasks(execution, signal) /= {}
        BY <3>1 DEF EnqueuedTasks
      <3>4. tasks' = Append(tasks, "queued")
        BY <2>1, <3>3
      <3> QED BY <1>1, <2>1, <2>4, <2>5, <2>7, <2>8, <2>10, <3>2, <3>4 DEF ExecutionOK
    <2>11. CASE signal = Retry
      <3>1. signal.kind = "retry_requested"
        BY <2>11 DEF Retry, Signal
      <3>2. execution.status = "failed" /\ tasks' = tasks
        BY <2>1, <3>1 DEF Accepts, EnqueuedTasks
      <3>3. next.status \in {"pending", "dead_lettered"} /\ next.attempt = execution.attempt
        BY <3>1 DEF NextState, AfterRetry, Move, Executions, ExecutionOK
      <3> QED BY <1>1, <2>1, <2>4, <2>5, <2>7, <2>11, <3>2, <3>3 DEF ExecutionOK
    <2>12. CASE signal = Cancel
      <3>1. signal.kind = "cancel_requested"
        BY <2>12 DEF Cancel, Signal
      <3>2. next.status = "cancelled" /\ next.attempt = execution.attempt /\ tasks' = tasks
        BY <2>1, <2>6, <3>1 DEF NextState, EnqueuedTasks
      <3> QED BY <1>1, <2>1, <2>4, <2>5, <2>7, <2>12, <3>2 DEF ExecutionOK
    <2>13. CASE signal = Completed
      <3>1. signal.kind = "step_completed" /\ signal.task_key = Steps[1].task_key /\ ~Unsupported(signal)
        BY <2>13 DEF Completed, Signal, Unsupported
      <3>2. execution.status = "running" /\ tasks' = tasks
        BY <2>1, <2>9, <3>1 DEF Accepts, EnqueuedTasks
      <3>3. next.status = "succeeded" /\ next.attempt = execution.attempt
        BY <2>6, <2>9, <3>1 DEF NextState, AfterStep
      <3> QED BY <1>1, <2>1, <2>4, <2>5, <2>7, <2>13, <3>2, <3>3 DEF ExecutionOK
    <2>14. CASE signal = Failed
      <3>1. signal.kind = "step_failed"
        BY <2>14 DEF Failed, Signal
      <3>2. execution.status = "running" /\ tasks' = tasks
        BY <2>1, <3>1 DEF Accepts, EnqueuedTasks
      <3>3. next.status = "failed" /\ next.attempt = execution.attempt
        BY <2>6, <3>1 DEF NextState
      <3> QED BY <1>1, <2>1, <2>4, <2>5, <2>7, <2>14, <3>2, <3>3 DEF ExecutionOK
    <2> QED BY <2>10, <2>11, <2>12, <2>13, <2>14 DEF Sent
  <1> QED BY <1>0, <1>1

(* The tasks of an execution only grow, and keep their statuses.             *)
TasksGrow == /\ Len(tasks) <= Len(tasks')
             /\ \A t \in DOMAIN tasks : tasks'[t] = tasks[t]

(* A signal leaves the tasks there are alone.                                *)
LEMMA SignalsGrowTasks ==
    ASSUME OneStep, ExecutionOK, NEW signal \in Sent, Apply(signal) \/ Refuse(signal)
    PROVE  ExecutionOK' /\ TasksGrow
  <1>1. ExecutionOK' /\ (tasks' = tasks \/ tasks' = Append(tasks, "queued"))
    BY SignalEffects
  <1> QED BY <1>1 DEF ExecutionOK, TasksGrow

(* A statement that marks a task.                                            *)
LEMMA TaskMarked ==
    ASSUME ExecutionOK, NEW t, NEW status \in TaskStatuses, SetTask(t, status), UNCHANGED execution
    PROVE  /\ ExecutionOK' /\ Len(tasks') = Len(tasks) /\ DOMAIN tasks' = DOMAIN tasks
           /\ \A u \in DOMAIN tasks : tasks'[u] = IF u = t THEN status ELSE tasks[u]
  <1>1. tasks \in [1 .. Len(tasks) -> TaskStatuses] /\ Len(tasks) \in Nat
        /\ DOMAIN tasks = 1 .. Len(tasks)
    BY DEF ExecutionOK
  <1>2. tasks' \in [1 .. Len(tasks) -> TaskStatuses] /\ DOMAIN tasks' = DOMAIN tasks
        /\ \A u \in DOMAIN tasks : tasks'[u] = IF u = t THEN status ELSE tasks[u]
    BY <1>1 DEF SetTask
  <1>3. tasks' \in Seq(TaskStatuses) /\ Len(tasks') = Len(tasks)
    BY <1>1, <1>2
  <1> QED BY <1>2, <1>3 DEF ExecutionOK

(* Signals that the code sends.                                              *)
LEMMA SentSignals == Start \in Sent /\ Retry \in Sent /\ Cancel \in Sent
                     /\ Completed \in Sent /\ Failed \in Sent
  BY DEF Sent

-----------------------------------------------------------------------------
(* Types.                                                                    *)

(* The records of processes at rest.                                         *)
LEMMA IdleFacts ==
    /\ \A n \in Nat : IdleSlot \in SlotRecords(n) /\ IdleSweep \in SweepRecords(n)
    /\ IdleClient \in ClientRecords
    /\ IdleSlot.phase = "idle" /\ IdleSweep.phase = "idle" /\ IdleClient.phase = "idle"
    /\ NewJob \in Jobs /\ NewOutput \in Outputs
  BY DEF IdleSlot, IdleSweep, IdleClient, SlotRecords, SweepRecords, ClientRecords, NewJob, NewOutput,
         Jobs, Outputs, JobStatuses, OutputStatuses, SlotPhases, SweepPhases, ClientPhases, Statuses

(* A process that holds a task of the execution still does when tasks are    *)
(* added.                                                                    *)
LEMMA RecordsGrow ==
    ASSUME ExecutionOK, ExecutionOK', Len(tasks) <= Len(tasks')
    PROVE  /\ SlotRecords(Len(tasks)) \subseteq SlotRecords(Len(tasks'))
           /\ SweepRecords(Len(tasks)) \subseteq SweepRecords(Len(tasks'))
  <1>1. Len(tasks) \in Nat /\ Len(tasks') \in Nat
    BY DEF ExecutionOK
  <1>2. 0 .. Len(tasks) \subseteq 0 .. Len(tasks')
    BY <1>1
  <1> QED BY <1>2 DEF SlotRecords, SweepRecords

(* What is left to show of a step that types its own variables.              *)
LEMMA TypesKept ==
    ASSUME TypeInvariant, ExecutionOK', Len(tasks) <= Len(tasks'), RowsOK',
           slots' \in [Slots -> SlotRecords(Len(tasks))],
           sweepers' \in [Sweepers -> SweepRecords(Len(tasks))],
           clients' \in [Requesters -> ClientRecords],
           requests' \in 0 .. MaxRequests, faults' \in 0 .. MaxFaults
    PROVE  TypeInvariant'
  <1>1. slots' \in [Slots -> SlotRecords(Len(tasks'))]
        /\ sweepers' \in [Sweepers -> SweepRecords(Len(tasks'))]
    BY RecordsGrow DEF TypeInvariant
  <1> QED BY <1>1 DEF TypeInvariant, ProcessesOK

(* A slot goes on to a phase, or comes to rest.                              *)
SlotGoes(s, phase) ==
    /\ slots' \in [Slots -> SlotRecords(Len(tasks))]
    /\ slots'[s].phase = phase /\ slots'[s].task = slots[s].task
    /\ \A r \in Slots : r /= s => slots'[r] = slots[r]

SlotRests(s) ==
    /\ slots' \in [Slots -> SlotRecords(Len(tasks))]
    /\ slots'[s] = IdleSlot
    /\ \A r \in Slots : r /= s => slots'[r] = slots[r]

(* The ways in which the code writes a slot.                                 *)
LEMMA SlotForms ==
    ASSUME TypeInvariant, NEW s \in Slots
    PROVE  /\ \A phase \in SlotPhases : Goto(s, phase) => SlotGoes(s, phase)
           /\ \A retryable \in BOOLEAN : GotoError(s, retryable) => SlotGoes(s, "error")
           /\ \A phase \in SlotPhases, copy \in Jobs :
                 slots' = [slots EXCEPT ![s].job = copy, ![s].phase = phase] => SlotGoes(s, phase)
           /\ \A phase \in SlotPhases, copy \in Outputs :
                 slots' = [slots EXCEPT ![s].output = copy, ![s].phase = phase] => SlotGoes(s, phase)
           /\ \A phase \in SlotPhases :
                 slots' = [slots EXCEPT ![s].phase = phase, ![s].job = job, ![s].output = output]
                    => SlotGoes(s, phase)
           /\ slots' = [slots EXCEPT ![s] = IdleSlot] => SlotRests(s)
  <1>1. /\ slots \in [Slots -> SlotRecords(Len(tasks))] /\ slots[s] \in SlotRecords(Len(tasks))
        /\ job \in Jobs /\ output \in Outputs /\ Len(tasks) \in Nat
    BY DEF TypeInvariant, ProcessesOK, RowsOK, ExecutionOK
  <1>2. ASSUME NEW new \in SlotRecords(Len(tasks)), slots' = [slots EXCEPT ![s] = new],
               new.task = slots[s].task
        PROVE  SlotGoes(s, new.phase)
    BY <1>1, <1>2 DEF SlotGoes
  <1>3. ASSUME NEW phase \in SlotPhases, Goto(s, phase) PROVE SlotGoes(s, phase)
    <2>1. PICK new : new = [slots[s] EXCEPT !.phase = phase]
      OBVIOUS
    <2>2. slots' = [slots EXCEPT ![s] = new]
      BY <1>1, <1>3, <2>1 DEF Goto
    <2>3. new \in SlotRecords(Len(tasks)) /\ new.task = slots[s].task /\ new.phase = phase
      BY <1>1, <2>1 DEF SlotRecords
    <2> QED BY <1>2, <2>2, <2>3
  <1>4. ASSUME NEW retryable \in BOOLEAN, GotoError(s, retryable) PROVE SlotGoes(s, "error")
    <2>1. PICK new : new = [slots[s] EXCEPT !.phase = "error", !.retryable = retryable]
      OBVIOUS
    <2>2. slots' = [slots EXCEPT ![s] = new]
      BY <1>1, <1>4, <2>1 DEF GotoError
    <2>3. new \in SlotRecords(Len(tasks)) /\ new.task = slots[s].task /\ new.phase = "error"
      BY <1>1, <2>1 DEF SlotRecords, SlotPhases
    <2> QED BY <1>2, <2>2, <2>3
  <1>5. ASSUME NEW phase \in SlotPhases, NEW copy \in Jobs,
               slots' = [slots EXCEPT ![s].job = copy, ![s].phase = phase]
        PROVE  SlotGoes(s, phase)
    <2>1. PICK new : new = [slots[s] EXCEPT !.job = copy, !.phase = phase]
      OBVIOUS
    <2>2. slots' = [slots EXCEPT ![s] = new]
      BY <1>1, <1>5, <2>1
    <2>3. new \in SlotRecords(Len(tasks)) /\ new.task = slots[s].task /\ new.phase = phase
      BY <1>1, <2>1 DEF SlotRecords
    <2> QED BY <1>2, <2>2, <2>3
  <1>6. ASSUME NEW phase \in SlotPhases, NEW copy \in Outputs,
               slots' = [slots EXCEPT ![s].output = copy, ![s].phase = phase]
        PROVE  SlotGoes(s, phase)
    <2>1. PICK new : new = [slots[s] EXCEPT !.output = copy, !.phase = phase]
      OBVIOUS
    <2>2. slots' = [slots EXCEPT ![s] = new]
      BY <1>1, <1>6, <2>1
    <2>3. new \in SlotRecords(Len(tasks)) /\ new.task = slots[s].task /\ new.phase = phase
      BY <1>1, <2>1 DEF SlotRecords
    <2> QED BY <1>2, <2>2, <2>3
  <1>7. ASSUME NEW phase \in SlotPhases,
               slots' = [slots EXCEPT ![s].phase = phase, ![s].job = job, ![s].output = output]
        PROVE  SlotGoes(s, phase)
    <2>1. PICK new : new = [slots[s] EXCEPT !.phase = phase, !.job = job, !.output = output]
      OBVIOUS
    <2>2. slots' = [slots EXCEPT ![s] = new]
      BY <1>1, <1>7, <2>1
    <2>3. new \in SlotRecords(Len(tasks)) /\ new.task = slots[s].task /\ new.phase = phase
      BY <1>1, <2>1 DEF SlotRecords
    <2> QED BY <1>2, <2>2, <2>3
  <1>8. slots' = [slots EXCEPT ![s] = IdleSlot] => SlotRests(s)
    BY <1>1, IdleFacts DEF SlotRests
  <1> QED BY <1>3, <1>4, <1>5, <1>6, <1>7, <1>8

RenderPhases == {"rendering", "check", "render", "save", "final", "cancel"}

(* The phases in which the task's signal is sent, or the task is not held.   *)
DonePhases == {"idle", "succeed", "retry", "restart", "mark_failed"}

ActivePhases == SlotPhases \ DonePhases

GoodPreview == job.status \in {"preview_ready", "confirmed"} /\ job.asset

(* The steps of a slot before its signal: they change rows, never tasks.     *)
ProcessingStep(s) ==
    \/ LoadRow(s) \/ MarkJobRunning(s) \/ Announce(s) \/ CallFails(s) \/ Generated(s)
    \/ FallBack(s) \/ Submit(s) \/ PollAgain(s) \/ MarkJobPreviewReady(s) \/ ProcessRender(s)
    \/ MarkError(s)

(* What such a step does.                                                    *)
LEMMA ProcessingEffects ==
    ASSUME TypeInvariant, NEW s \in Slots, ProcessingStep(s)
    PROVE  /\ UNCHANGED <<config, execution, tasks, sweepers, clients, requests, faults>>
           /\ RowsOK'
           /\ slots[s].phase \in ActivePhases \ {"waiting"}
           /\ \E phase \in SlotPhases \ {"idle", "waiting"} :
                 /\ SlotGoes(s, phase)
                 /\ slots[s].phase \notin RenderPhases =>
                       /\ phase \in ActivePhases
                       /\ phase = "complete" => GoodPreview'
                 /\ config.kind = "image" /\ slots[s].phase \notin RenderPhases =>
                       phase \notin RenderPhases
  <1>1. /\ slots[s].job \in Jobs /\ slots[s].output \in Outputs
        /\ job \in Jobs /\ output \in Outputs /\ draft \in DraftStatuses
    BY DEF TypeInvariant, ProcessesOK, RowsOK, SlotRecords
  <1>2. UNCHANGED <<config, execution, tasks, sweepers, clients, requests, faults>>
    BY DEF ProcessingStep, LoadRow, MarkJobRunning, Announce, CallFails, Generated, FallBack, Submit,
           PollAgain, MarkJobPreviewReady, ProcessRender, MarkRendering, CheckBeforeRender,
           MarkCancelled, SaveRendered, MarkDraftRendered, MarkError, WriteJob, WriteOutput
  <1>3. ASSUME NEW copy \in Jobs, NEW phase \in SlotPhases, WriteJob(s, copy, phase)
        PROVE  RowsOK' /\ SlotGoes(s, phase)
    BY <1>1, <1>3, SlotForms DEF WriteJob, RowsOK
  <1>4. ASSUME NEW copy \in Outputs, NEW phase \in SlotPhases, WriteOutput(s, copy, phase)
        PROVE  RowsOK' /\ SlotGoes(s, phase)
    BY <1>1, <1>4, SlotForms DEF WriteOutput, RowsOK
  <1>5. CASE LoadRow(s)
    <2>1. slots[s].phase = "load"
          /\ slots' = [slots EXCEPT ![s].phase = Route(job), ![s].job = job, ![s].output = output]
      BY <1>5 DEF LoadRow
    <2>2. Route(job) \in {"rendering", "error", "direct", "submit", "poll"}
          /\ (config.kind = "image" => Route(job) /= "rendering")
      BY DEF Route
    <2>3. SlotGoes(s, Route(job))
      BY <2>1, <2>2, SlotForms DEF SlotPhases
    <2>4. RowsOK'
      BY <1>1, <1>5 DEF LoadRow, rows, RowsOK
    <2> QED BY <1>2, <2>1, <2>2, <2>3, <2>4 DEF SlotPhases, ActivePhases, DonePhases, RenderPhases
  <1>6. CASE MarkJobRunning(s)
    <2>1. PICK copy : copy = [slots[s].job EXCEPT !.status = "running", !.remote = "none"]
      OBVIOUS
    <2>2. copy \in Jobs
      BY <1>1, <2>1 DEF Jobs, JobStatuses
    <2>3. \/ slots[s].phase = "direct" /\ WriteJob(s, copy, "announce")
          \/ slots[s].phase = "submit" /\ WriteJob(s, copy, "submitted")
      BY <1>6, <2>1 DEF MarkJobRunning
    <2> QED BY <1>2, <1>3, <2>2, <2>3 DEF SlotPhases, ActivePhases, DonePhases, RenderPhases
  <1>7. CASE Announce(s)
    <2>1. [slots[s].job EXCEPT !.remote = "direct"] \in Jobs
      BY <1>1 DEF Jobs
    <2> QED BY <1>2, <1>3, <1>7, <2>1 DEF Announce, SlotPhases, ActivePhases, DonePhases, RenderPhases
  <1>8. CASE CallFails(s)
    <2>1. PICK retryable \in BOOLEAN : GotoError(s, retryable)
      BY <1>8 DEF CallFails
    <2>2. SlotGoes(s, "error")
      BY <2>1, SlotForms
    <2>3. slots[s].phase \in {"generate", "submitted", "poll"} /\ UNCHANGED rows
      BY <1>8 DEF CallFails
    <2> QED BY <1>1, <1>2, <2>2, <2>3 DEF RowsOK, rows, SlotPhases, ActivePhases, DonePhases, RenderPhases
  <1>9. CASE Generated(s)
    <2>1. SlotGoes(s, "preview")
      BY <1>9, SlotForms DEF Generated, SlotPhases
    <2> QED BY <1>1, <1>2, <1>9, <2>1
            DEF Generated, RowsOK, rows, SlotPhases, ActivePhases, DonePhases, RenderPhases
  <1>10. CASE FallBack(s)
    <2>1. [slots[s].job EXCEPT !.remote = "none"] \in Jobs
      BY <1>1 DEF Jobs
    <2> QED BY <1>2, <1>3, <1>10, <2>1 DEF FallBack, SlotPhases, ActivePhases, DonePhases, RenderPhases
  <1>11. CASE Submit(s)
    <2>1. [slots[s].job EXCEPT !.remote = "orchestrator"] \in Jobs
      BY <1>1 DEF Jobs
    <2> QED BY <1>2, <1>3, <1>11, <2>1 DEF Submit, SlotPhases, ActivePhases, DonePhases, RenderPhases
  <1>12. CASE PollAgain(s)
    <2>1. [slots[s].job EXCEPT !.status = "running"] \in Jobs
      BY <1>1 DEF Jobs, JobStatuses
    <2> QED BY <1>2, <1>3, <1>12, <2>1 DEF PollAgain, SlotPhases, ActivePhases, DonePhases, RenderPhases
  <1>13. CASE MarkJobPreviewReady(s)
    <2>1. SlotGoes(s, "complete") /\ slots[s].phase = "preview"
      BY <1>13, SlotForms DEF MarkJobPreviewReady, SlotPhases
    <2>2. RowsOK' /\ GoodPreview'
      BY <1>1, <1>13 DEF MarkJobPreviewReady, RowsOK, GoodPreview, Jobs, JobStatuses, DraftStatuses
    <2> QED BY <1>2, <2>1, <2>2 DEF SlotPhases, ActivePhases, DonePhases, RenderPhases
  <1>14. CASE ProcessRender(s)
    <2>1. slots[s].phase \in RenderPhases
      BY <1>14 DEF ProcessRender, MarkRendering, CheckBeforeRender, MarkCancelled, SaveRendered,
                   MarkDraftRendered, RenderPhases
    <2>2. \E phase \in SlotPhases \ {"idle", "waiting"} : SlotGoes(s, phase) /\ RowsOK'
      <3>1. CASE MarkRendering(s)
        <4>1. [slots[s].output EXCEPT !.status = "rendering"] \in Outputs
          BY <1>1 DEF Outputs, OutputStatuses
        <4> QED BY <1>4, <3>1, <4>1 DEF MarkRendering, SlotPhases
      <3>2. CASE CheckBeforeRender(s)
        <4>1. \/ GotoError(s, FALSE) \/ Goto(s, "cancel") \/ Goto(s, "render") \/ Goto(s, "save")
          BY <3>2 DEF CheckBeforeRender
        <4>2. SlotGoes(s, "error") \/ SlotGoes(s, "cancel") \/ SlotGoes(s, "render")
              \/ SlotGoes(s, "save")
          BY <4>1, SlotForms DEF SlotPhases
        <4> QED BY <1>1, <3>2, <4>2 DEF CheckBeforeRender, RowsOK, rows, SlotPhases
      <3>3. CASE MarkCancelled(s)
        <4>1. [slots[s].output EXCEPT !.status = "cancelled"] \in Outputs
          BY <1>1 DEF Outputs, OutputStatuses
        <4> QED BY <1>4, <3>3, <4>1 DEF MarkCancelled, SlotPhases
      <3>4. CASE SaveRendered(s)
        <4>1. [status |-> "rendered", html |-> TRUE] \in Outputs
          BY DEF Outputs, OutputStatuses
        <4> QED BY <1>4, <3>4, <4>1 DEF SaveRendered, SlotPhases
      <3>5. CASE MarkDraftRendered(s)
        <4>1. SlotGoes(s, "complete")
          BY <3>5, SlotForms DEF MarkDraftRendered, SlotPhases
        <4> QED BY <1>1, <3>5, <4>1 DEF MarkDraftRendered, RowsOK, DraftStatuses, SlotPhases
      <3> QED BY <1>14, <3>1, <3>2, <3>3, <3>4, <3>5 DEF ProcessRender
    <2> QED BY <1>2, <2>1, <2>2 DEF SlotPhases, ActivePhases, DonePhases, RenderPhases
  <1>15. CASE MarkError(s)
    <2>1. SlotGoes(s, "fail_step") /\ slots[s].phase = "error"
      BY <1>15, SlotForms DEF MarkError, SlotPhases
    <2>2. [output EXCEPT !.status = "failed"] \in Outputs
          /\ \A status \in {"running", "failed"} :
                [job EXCEPT !.status = status, !.remote = "none"] \in Jobs
      BY <1>1 DEF Outputs, OutputStatuses, Jobs, JobStatuses
    <2>3. RowsOK'
      <3>1. \/ output' = [output EXCEPT !.status = "failed"] /\ UNCHANGED <<job, draft>>
            \/ /\ UNCHANGED output /\ draft' \in {"queued", "planned"}
               /\ \E status \in {"running", "failed"} :
                     job' = [job EXCEPT !.status = status, !.remote = "none"]
        BY <1>15 DEF MarkError
      <3> QED BY <1>1, <2>2, <3>1 DEF RowsOK, DraftStatuses
    <2> QED BY <1>2, <2>1, <2>3 DEF SlotPhases, ActivePhases, DonePhases, RenderPhases
  <1> QED BY <1>5, <1>6, <1>7, <1>8, <1>9, <1>10, <1>11, <1>12, <1>13, <1>14, <1>15
          DEF ProcessingStep

(* Steps that put a task back or mark it.                                    *)
LEMMA MarkingEffects ==
    ASSUME TypeInvariant, NEW s \in Slots, WaitForLowLoad(s) \/ Requeue(s) \/ MarkTask(s)
    PROVE  /\ UNCHANGED <<config, execution, job, output, draft, sweepers, clients, requests, faults>>
           /\ slots[s].phase \in SlotPhases \ {"idle", "waiting"}
           /\ \/ /\ slots[s].phase = "load" /\ SetTask(slots[s].task, "queued")
                 /\ SlotGoes(s, "waiting")
              \/ /\ slots[s].phase = "requeue" /\ SetTask(slots[s].task, "queued")
                 /\ SlotRests(s)
              \/ /\ slots[s].phase \in {"succeed", "mark_failed"}
                 /\ \E status \in {"succeeded", "failed"} : SetTask(slots[s].task, status)
                 /\ SlotRests(s)
  <1>1. CASE WaitForLowLoad(s)
    BY <1>1, SlotForms DEF WaitForLowLoad, rows, SlotPhases
  <1>2. CASE Requeue(s)
    BY <1>2, SlotForms DEF Requeue, rows, SlotPhases
  <1>3. CASE MarkTask(s)
    BY <1>3, SlotForms DEF MarkTask, rows, SlotPhases
  <1> QED BY <1>1, <1>2, <1>3

SlotSignals(s) == CompleteStep(s) \/ FailStep(s) \/ AutoRetry(s) \/ AutoRestart(s)

(* Steps of a slot that send a signal.                                       *)
LEMMA SignallingEffects ==
    ASSUME TypeInvariant, NEW s \in Slots, SlotSignals(s)
    PROVE  /\ UNCHANGED <<config, job, output, draft, sweepers, clients, requests, faults>>
           /\ \/ /\ slots[s].phase = "complete"
                 /\ \/ Apply(Completed) /\ SlotGoes(s, "succeed")
                    \/ Refuse(Completed) /\ SlotGoes(s, "error")
              \/ /\ slots[s].phase = "fail_step" /\ (Apply(Failed) \/ Refuse(Failed))
                 /\ SlotGoes(s, "retry") \/ SlotGoes(s, "mark_failed")
              \/ /\ slots[s].phase = "retry" /\ (Apply(Retry) \/ Refuse(Retry))
                 /\ SlotGoes(s, "restart") \/ SlotGoes(s, "mark_failed")
              \/ /\ slots[s].phase = "restart" /\ (Apply(Start) \/ Refuse(Start))
                 /\ SlotGoes(s, "mark_failed")
  <1>0. {"succeed", "error", "retry", "restart", "mark_failed"} \subseteq SlotPhases
    BY DEF SlotPhases
  <1>1. CASE CompleteStep(s)
    BY <1>0, <1>1, SlotForms DEF CompleteStep, rows
  <1>2. CASE FailStep(s)
    <2>1. Goto(s, "retry") \/ Goto(s, "mark_failed")
      BY <1>2 DEF FailStep
    <2>2. SlotGoes(s, "retry") \/ SlotGoes(s, "mark_failed")
      BY <1>0, <2>1, SlotForms
    <2> QED BY <1>2, <2>2 DEF FailStep, rows
  <1>3. CASE AutoRetry(s)
    <2>1. Goto(s, "restart") \/ Goto(s, "mark_failed")
      BY <1>3 DEF AutoRetry
    <2>2. SlotGoes(s, "restart") \/ SlotGoes(s, "mark_failed")
      BY <1>0, <2>1, SlotForms
    <2> QED BY <1>3, <2>2 DEF AutoRetry, rows
  <1>4. CASE AutoRestart(s)
    <2>1. SlotGoes(s, "mark_failed")
      BY <1>0, <1>4, SlotForms DEF AutoRestart
    <2> QED BY <1>4, <2>1 DEF AutoRestart, rows
  <1> QED BY <1>1, <1>2, <1>3, <1>4 DEF SlotSignals

(* A claim.                                                                  *)
LEMMA ClaimEffects ==
    ASSUME TypeInvariant, NEW s \in Slots, ClaimNextAvailable(s)
    PROVE  /\ UNCHANGED <<config, execution, job, output, draft, sweepers, clients, requests, faults>>
           /\ slots[s].phase = "idle"
           /\ \E t \in DOMAIN tasks :
                 /\ Available(t) /\ SetTask(t, "claimed")
                 /\ slots'[s].phase = "load" /\ slots'[s].task = t
           /\ slots' \in [Slots -> SlotRecords(Len(tasks))]
           /\ \A r \in Slots : r /= s => slots'[r] = slots[r]
  <1>1. PICK t \in DOMAIN tasks :
           /\ Available(t) /\ SetTask(t, "claimed")
           /\ slots' = [slots EXCEPT ![s] = [IdleSlot EXCEPT !.phase = "load", !.task = t]]
    BY DEF ClaimNextAvailable
  <1>2. PICK new : new = [IdleSlot EXCEPT !.phase = "load", !.task = t]
    OBVIOUS
  <1>3. t \in 0 .. Len(tasks) /\ slots \in [Slots -> SlotRecords(Len(tasks))] /\ Len(tasks) \in Nat
    BY DEF TypeInvariant, ExecutionOK, ProcessesOK
  <1>4. new \in SlotRecords(Len(tasks)) /\ new.phase = "load" /\ new.task = t
    <2>1. IdleSlot \in SlotRecords(Len(tasks)) /\ "load" \in SlotPhases
      BY <1>3, IdleFacts DEF SlotPhases
    <2> QED BY <1>2, <1>3, <2>1 DEF SlotRecords
  <1>5. slots' = [slots EXCEPT ![s] = new]
    BY <1>1, <1>2
  <1>6. /\ UNCHANGED <<config, execution, job, output, draft, sweepers, clients, requests, faults>>
        /\ slots[s].phase = "idle"
    BY DEF ClaimNextAvailable, rows
  <1> QED BY <1>1, <1>3, <1>4, <1>5, <1>6

(* Steps that leave all but the slot and the count of faults alone.          *)
LEMMA LeavingEffects ==
    ASSUME TypeInvariant, NEW s \in Slots, AppendSkipped(s) \/ StatementFails(s) \/ Crash(s)
    PROVE  /\ UNCHANGED <<config, execution, tasks, job, output, draft, sweepers, clients, requests>>
           /\ slots[s].phase /= "idle"
           /\ \/ slots[s].phase = "waiting" /\ SlotRests(s) /\ UNCHANGED faults
              \/ /\ SlotRests(s) \/ SlotGoes(s, "error")
                 /\ faults' = faults + 1 /\ faults' \in 0 .. MaxFaults
  <1>0. faults \in 0 .. MaxFaults /\ MaxFaults \in Nat
    BY StaticPagesAssumption DEF TypeInvariant
  <1>1. CASE AppendSkipped(s)
    BY <1>1, SlotForms DEF AppendSkipped, rows
  <1>2. CASE StatementFails(s)
    <2>1. SlotGoes(s, "error")
      BY <1>2, SlotForms DEF StatementFails
    <2>2. faults' = faults + 1 /\ faults' \in 0 .. MaxFaults
      BY <1>0, <1>2 DEF StatementFails
    <2> QED BY <1>2, <2>1, <2>2 DEF StatementFails, rows
  <1>3. CASE Crash(s)
    <2>1. SlotRests(s)
      BY <1>3, SlotForms DEF Crash
    <2>2. faults' = faults + 1 /\ faults' \in 0 .. MaxFaults
      BY <1>0, <1>3 DEF Crash
    <2> QED BY <1>3, <2>1, <2>2 DEF Crash, rows
  <1> QED BY <1>1, <1>2, <1>3

SlotStep(s) == Work(s) \/ StatementFails(s) \/ Crash(s)

(* These are all the steps of a slot.                                        *)
LEMMA SlotStepKinds ==
    ASSUME NEW s, SlotStep(s)
    PROVE  \/ ProcessingStep(s)
           \/ WaitForLowLoad(s) \/ Requeue(s) \/ MarkTask(s)
           \/ SlotSignals(s)
           \/ ClaimNextAvailable(s)
           \/ AppendSkipped(s) \/ StatementFails(s) \/ Crash(s)
  BY DEF SlotStep, Work, ProcessImage, EndTask, ProcessingStep, SlotSignals

(* A slot keeps the types.                                                   *)
LEMMA SlotTypes ==
    ASSUME OneStep, TypeInvariant, NEW s \in Slots, SlotStep(s)
    PROVE  TypeInvariant'
  <1>0. /\ ExecutionOK /\ RowsOK /\ sweepers \in [Sweepers -> SweepRecords(Len(tasks))]
        /\ clients \in [Requesters -> ClientRecords] /\ requests \in 0 .. MaxRequests
        /\ faults \in 0 .. MaxFaults /\ Len(tasks) \in Nat
    BY DEF TypeInvariant, ProcessesOK, ExecutionOK
  <1>1. CASE ProcessingStep(s)
    <2>1. /\ UNCHANGED <<config, execution, tasks, sweepers, clients, requests, faults>> /\ RowsOK'
          /\ slots' \in [Slots -> SlotRecords(Len(tasks))]
      BY <1>1, ProcessingEffects DEF SlotGoes
    <2>2. ExecutionOK' /\ Len(tasks) <= Len(tasks')
      BY <1>0, <2>1 DEF ExecutionOK
    <2> QED BY <1>0, <2>1, <2>2, TypesKept
  <1>2. CASE WaitForLowLoad(s) \/ Requeue(s) \/ MarkTask(s)
    <2>1. /\ UNCHANGED <<config, execution, job, output, draft, sweepers, clients, requests, faults>>
          /\ slots' \in [Slots -> SlotRecords(Len(tasks))]
          /\ \E status \in TaskStatuses : SetTask(slots[s].task, status)
      BY <1>2, MarkingEffects DEF SlotGoes, SlotRests, TaskStatuses
    <2>2. ExecutionOK' /\ Len(tasks) <= Len(tasks')
      BY <1>0, <2>1, TaskMarked
    <2>3. RowsOK'
      BY <1>0, <2>1 DEF RowsOK
    <2> QED BY <1>0, <2>1, <2>2, <2>3, TypesKept
  <1>3. CASE SlotSignals(s)
    <2>1. /\ UNCHANGED <<config, job, output, draft, sweepers, clients, requests, faults>>
          /\ slots' \in [Slots -> SlotRecords(Len(tasks))]
          /\ \E signal \in Sent : Apply(signal) \/ Refuse(signal)
      BY <1>3, SignallingEffects, SentSignals DEF SlotGoes
    <2>2. ExecutionOK' /\ Len(tasks) <= Len(tasks')
      BY <1>0, <2>1, SignalsGrowTasks DEF TasksGrow
    <2>3. RowsOK'
      BY <1>0, <2>1 DEF RowsOK
    <2> QED BY <1>0, <2>1, <2>2, <2>3, TypesKept
  <1>4. CASE ClaimNextAvailable(s)
    <2>1. /\ UNCHANGED <<config, execution, job, output, draft, sweepers, clients, requests, faults>>
          /\ slots' \in [Slots -> SlotRecords(Len(tasks))]
          /\ \E t : SetTask(t, "claimed")
      BY <1>4, ClaimEffects
    <2>2. ExecutionOK' /\ Len(tasks) <= Len(tasks')
      BY <1>0, <2>1, TaskMarked DEF TaskStatuses
    <2>3. RowsOK'
      BY <1>0, <2>1 DEF RowsOK
    <2> QED BY <1>0, <2>1, <2>2, <2>3, TypesKept
  <1>5. CASE AppendSkipped(s) \/ StatementFails(s) \/ Crash(s)
    <2>1. /\ UNCHANGED <<config, execution, tasks, job, output, draft, sweepers, clients, requests>>
          /\ slots' \in [Slots -> SlotRecords(Len(tasks))] /\ faults' \in 0 .. MaxFaults
      BY <1>0, <1>5, LeavingEffects DEF SlotGoes, SlotRests
    <2>2. ExecutionOK' /\ Len(tasks) <= Len(tasks') /\ RowsOK'
      BY <1>0, <2>1 DEF ExecutionOK, RowsOK
    <2> QED BY <1>0, <2>1, <2>2, TypesKept
  <1> QED BY <1>1, <1>2, <1>3, <1>4, <1>5, SlotStepKinds

(* The ways in which the code writes what a request holds.                   *)
LEMMA ClientForms ==
    ASSUME TypeInvariant, NEW c \in Requesters
    PROVE  /\ \A phase \in ClientPhases : SetClient(c, phase) => clients' \in [Requesters -> ClientRecords]
           /\ EndRequest(c) => clients' \in [Requesters -> ClientRecords]
           /\ \A new \in ClientRecords :
                 clients' = [clients EXCEPT ![c] = new] => clients' \in [Requesters -> ClientRecords]
  <1>1. clients \in [Requesters -> ClientRecords] /\ clients[c] \in ClientRecords
    BY DEF TypeInvariant, ProcessesOK
  <1>2. ASSUME NEW new \in ClientRecords, clients' = [clients EXCEPT ![c] = new]
        PROVE  clients' \in [Requesters -> ClientRecords]
    BY <1>1, <1>2
  <1>3. ASSUME NEW phase \in ClientPhases, SetClient(c, phase)
        PROVE  clients' \in [Requesters -> ClientRecords]
    <2>1. PICK new : new = [clients[c] EXCEPT !.phase = phase]
      OBVIOUS
    <2>2. clients' = [clients EXCEPT ![c] = new]
      BY <1>1, <1>3, <2>1 DEF SetClient
    <2>3. new \in ClientRecords
      BY <1>1, <2>1 DEF ClientRecords
    <2> QED BY <1>2, <2>2, <2>3
  <1>4. EndRequest(c) => clients' \in [Requesters -> ClientRecords]
    BY <1>2, IdleFacts DEF EndRequest
  <1> QED BY <1>2, <1>3, <1>4

(* The status that a render output takes from its workflow.                  *)
LEMMA StatusForWorkflowType ==
    ASSUME NEW status, NEW current \in OutputStatuses
    PROVE  StatusForWorkflow(status, current) \in OutputStatuses
  BY DEF StatusForWorkflow, OutputStatuses

ApiStep == Create \/ \E c \in Clients : Request(c) \/ Respond(c)

(* What requests do: they send signals, or change rows; the one job row that *)
(* they write is a confirmed one.                                            *)
ApiEffects ==
    /\ UNCHANGED <<config, slots, sweepers, faults>>
    /\ RowsOK' /\ clients' \in [Requesters -> ClientRecords] /\ requests' \in 0 .. MaxRequests
    /\ \/ UNCHANGED <<execution, tasks>> /\ (UNCHANGED job \/ GoodPreview')
       \/ UNCHANGED job /\ \E signal \in {Start, Retry, Cancel} : Apply(signal) \/ Refuse(signal)

(* Every step of a request is of this kind.                                  *)
LEMMA ApiStepEffects ==
    ASSUME TypeInvariant, ApiStep
    PROVE  ApiEffects
  <1>0. /\ RowsOK /\ clients \in [Requesters -> ClientRecords] /\ requests \in 0 .. MaxRequests
        /\ execution.status \in Statuses
    BY DEF TypeInvariant, ProcessesOK, ExecutionOK, Executions
  <1>1. Creator \in Requesters /\ Clients \subseteq Requesters
    BY DEF Requesters
  <1>2. \A c \in Requesters : /\ clients[c].status \in Statuses /\ clients[c].job \in Jobs
                              /\ clients[c].output \in Outputs
    BY <1>0 DEF ClientRecords
  <1>3. {"idle", "start", "created", "update", "retried", "confirm", "sync_execution", "sync_output",
         "sync_write"} \subseteq ClientPhases
    BY DEF ClientPhases
  <1>4. CASE Create
    <2>1. CASE CreateStart
      <3>1. \/ Apply(Start) /\ \E phase \in {"update", "created"} : SetClient(Creator, phase)
            \/ Refuse(Start) /\ EndRequest(Creator)
        BY <2>1 DEF CreateStart
      <3>2. clients' \in [Requesters -> ClientRecords]
        BY <1>1, <1>3, <3>1, ClientForms
      <3> QED BY <1>0, <2>1, <3>1, <3>2 DEF CreateStart, ApiEffects, RowsOK, rows
    <2>2. CASE CreateReload
      <3>1. PICK new : new = [clients[Creator] EXCEPT !.phase = "update", !.status = execution.status]
        OBVIOUS
      <3>2. clients' = [clients EXCEPT ![Creator] = new]
        BY <1>0, <1>1, <2>2, <3>1 DEF CreateReload
      <3>3. new \in ClientRecords
        BY <1>0, <1>1, <1>3, <3>1 DEF ClientRecords
      <3>4. clients' \in [Requesters -> ClientRecords]
        BY <1>1, <3>2, <3>3, ClientForms
      <3> QED BY <1>0, <2>2, <3>4 DEF CreateReload, ApiEffects, RowsOK, rows
    <2>3. CASE CreateUpdate
      <3>1. clients' \in [Requesters -> ClientRecords]
        BY <1>1, <2>3, ClientForms DEF CreateUpdate
      <3>2. \/ draft' = "queued" /\ UNCHANGED output
            \/ /\ output' = [NewOutput EXCEPT !.status = StatusForWorkflow(clients[Creator].status, @)]
               /\ UNCHANGED draft
        BY <2>3 DEF CreateUpdate
      <3>3. PICK status : status = StatusForWorkflow(clients[Creator].status, NewOutput.status)
        OBVIOUS
      <3>4. status \in OutputStatuses
        BY <3>3, IdleFacts, StatusForWorkflowType DEF Outputs
      <3>5. [NewOutput EXCEPT !.status = status] \in Outputs
        BY <3>4, IdleFacts DEF Outputs
      <3>6. UNCHANGED job /\ draft' \in DraftStatuses /\ output' \in Outputs
        BY <1>0, <2>3, <3>2, <3>3, <3>5 DEF CreateUpdate, RowsOK, DraftStatuses
      <3> QED BY <1>0, <2>3, <3>1, <3>6 DEF CreateUpdate, ApiEffects, RowsOK
    <2> QED BY <1>4, <2>1, <2>2, <2>3 DEF Create
  <1>5. ASSUME NEW c \in Clients, Request(c) PROVE ApiEffects
    <2>1. requests' \in 0 .. MaxRequests
      BY <1>0, <1>5, StaticPagesAssumption
         DEF Request, RequestSignal, RequestRetry, RequestConfirm, BeginRequest
    <2>2. CASE RequestSignal(c)
      <3>1. clients' \in [Requesters -> ClientRecords]
        BY <1>1, <1>3, <2>2, ClientForms DEF RequestSignal
      <3>2. \E signal \in {Start, Retry, Cancel} : Apply(signal) \/ Refuse(signal)
        BY <2>2 DEF RequestSignal
      <3> QED BY <1>0, <2>1, <2>2, <3>1, <3>2 DEF RequestSignal, ApiEffects, RowsOK, rows
    <2>3. CASE RequestRetry(c)
      <3>1. \E phase \in {"retried", "sync_execution"} : SetClient(c, phase)
        BY <2>3 DEF RequestRetry
      <3>2. clients' \in [Requesters -> ClientRecords]
        BY <1>1, <1>3, <3>1, ClientForms
      <3> QED BY <1>0, <2>1, <2>3, <3>2 DEF RequestRetry, ApiEffects, RowsOK, rows
    <2>4. CASE RequestConfirm(c)
      <3>1. PICK new : new = [clients[c] EXCEPT !.phase = "confirm", !.job = job]
        OBVIOUS
      <3>2. clients' = [clients EXCEPT ![c] = new]
        BY <1>0, <1>1, <2>4, <3>1 DEF RequestConfirm
      <3>3. new \in ClientRecords
        BY <1>0, <1>1, <1>3, <3>1 DEF ClientRecords, RowsOK
      <3>4. clients' \in [Requesters -> ClientRecords]
        BY <1>1, <3>2, <3>3, ClientForms
      <3> QED BY <1>0, <2>1, <2>4, <3>4 DEF RequestConfirm, ApiEffects, RowsOK, rows
    <2> QED BY <1>5, <2>2, <2>3, <2>4 DEF Request
  <1>6. ASSUME NEW c \in Clients, Respond(c) PROVE ApiEffects
    <2>1. CASE RestartExecution(c)
      <3>1. clients' \in [Requesters -> ClientRecords]
        BY <1>1, <1>3, <2>1, ClientForms DEF RestartExecution
      <3> QED BY <1>0, <2>1, <3>1 DEF RestartExecution, ApiEffects, RowsOK, rows
    <2>2. CASE SyncExecution(c)
      <3>1. PICK new : new = IF config.kind = "image" THEN IdleClient
                             ELSE [clients[c] EXCEPT !.phase = "sync_output", !.status = execution.status]
        OBVIOUS
      <3>2. clients' = [clients EXCEPT ![c] = new]
        BY <1>0, <1>1, <2>2, <3>1 DEF SyncExecution
      <3>3. [clients[c] EXCEPT !.phase = "sync_output", !.status = execution.status] \in ClientRecords
        BY <1>0, <1>1, <1>3 DEF ClientRecords
      <3>4. clients' \in [Requesters -> ClientRecords]
        BY <1>1, <3>1, <3>2, <3>3, IdleFacts, ClientForms
      <3> QED BY <1>0, <2>2, <3>4 DEF SyncExecution, ApiEffects, RowsOK, rows
    <2>3. CASE SyncOutput(c)
      <3>1. PICK next : next = StatusForWorkflow(clients[c].status, output.status)
        OBVIOUS
      <3>2. next \in OutputStatuses
        BY <1>0, <3>1, StatusForWorkflowType DEF RowsOK, Outputs
      <3>3. PICK synced : synced = [output EXCEPT !.status = next]
        OBVIOUS
      <3>4. synced \in Outputs
        BY <1>0, <3>2, <3>3 DEF RowsOK, Outputs
      <3>5. PICK new : new = IF output.status = "rendered" /\ next /= "cancelled" THEN IdleClient
                             ELSE [clients[c] EXCEPT !.phase = "sync_write", !.output = synced]
        OBVIOUS
      <3>6. clients' = [clients EXCEPT ![c] = new]
        BY <1>0, <1>1, <2>3, <3>1, <3>3, <3>5 DEF SyncOutput
      <3>7. [clients[c] EXCEPT !.phase = "sync_write", !.output = synced] \in ClientRecords
        BY <1>0, <1>1, <1>3, <3>4 DEF ClientRecords
      <3>8. clients' \in [Requesters -> ClientRecords]
        BY <1>1, <3>5, <3>6, <3>7, IdleFacts, ClientForms
      <3> QED BY <1>0, <2>3, <3>8 DEF SyncOutput, ApiEffects, RowsOK, rows
    <2>4. CASE SyncWrite(c)
      <3>1. clients' \in [Requesters -> ClientRecords]
        BY <1>1, <2>4, ClientForms DEF SyncWrite
      <3> QED BY <1>0, <1>1, <1>2, <2>4, <3>1 DEF SyncWrite, ApiEffects, RowsOK
    <2>5. CASE Confirm(c)
      <3>1. clients' \in [Requesters -> ClientRecords]
        BY <1>1, <2>5, ClientForms DEF Confirm
      <3>2. PICK copy : copy = [clients[c].job EXCEPT !.status = "confirmed", !.asset = TRUE]
        OBVIOUS
      <3>3. copy \in Jobs /\ copy.status = "confirmed" /\ copy.asset
        BY <1>1, <1>2, <3>2 DEF Jobs, JobStatuses
      <3>4. job' = copy /\ draft' = "confirmed"
        BY <2>5, <3>2 DEF Confirm
      <3>5. RowsOK' /\ GoodPreview'
        BY <1>0, <2>5, <3>3, <3>4 DEF Confirm, RowsOK, GoodPreview, DraftStatuses
      <3> QED BY <1>0, <2>5, <3>1, <3>5 DEF Confirm, ApiEffects
    <2> QED BY <1>6, <2>1, <2>2, <2>3, <2>4, <2>5 DEF Respond
  <1> QED BY <1>4, <1>5, <1>6 DEF ApiStep

(* A request keeps the types.                                                *)
LEMMA ApiTypes ==
    ASSUME OneStep, TypeInvariant, ApiStep
    PROVE  TypeInvariant'
  <1>0. /\ ExecutionOK /\ slots \in [Slots -> SlotRecords(Len(tasks))]
        /\ sweepers \in [Sweepers -> SweepRecords(Len(tasks))] /\ faults \in 0 .. MaxFaults
    BY DEF TypeInvariant, ProcessesOK
  <1>1. ApiEffects
    BY ApiStepEffects
  <1>2. ExecutionOK' /\ Len(tasks) <= Len(tasks')
    <2>1. CASE UNCHANGED <<execution, tasks>>
      BY <1>0, <2>1 DEF ExecutionOK
    <2>2. ASSUME NEW signal \in {Start, Retry, Cancel}, Apply(signal) \/ Refuse(signal)
          PROVE  ExecutionOK' /\ Len(tasks) <= Len(tasks')
      BY <1>0, <2>2, SentSignals, SignalsGrowTasks DEF TasksGrow
    <2> QED BY <1>1, <2>1, <2>2 DEF ApiEffects
  <1> QED BY <1>0, <1>1, <1>2, TypesKept DEF ApiEffects

-----------------------------------------------------------------------------
(* What a sweep does: nothing to the slots, and to its own record only.      *)
SweepEffects(w) ==
    /\ UNCHANGED <<config, output, slots, clients, requests, faults>> /\ RowsOK'
    /\ sweepers' \in [Sweepers -> SweepRecords(Len(tasks))]
    /\ \A v \in Sweepers : v /= w => sweepers'[v] = sweepers[v]
    /\ \/ /\ sweepers[w].phase = "idle" /\ UNCHANGED <<execution, tasks>>
          /\ sweepers'[w].task \in DOMAIN tasks /\ Stale(sweepers'[w].task)
       \/ /\ sweepers[w].phase /= "idle"
          /\ \/ sweepers'[w].phase = "idle"
             \/ sweepers'[w].phase /= "idle" /\ sweepers'[w].task = sweepers[w].task
          /\ \/ UNCHANGED <<execution, tasks>>
             \/ Apply(Failed) \/ Refuse(Failed)
             \/ SetTask(sweepers[w].task, "failed") /\ UNCHANGED execution

(* Every step of a sweep is of this kind.                                    *)
LEMMA SweepStepEffects ==
    ASSUME TypeInvariant, NEW w \in Sweepers, Sweep(w)
    PROVE  SweepEffects(w)
  <1>0. /\ RowsOK /\ sweepers \in [Sweepers -> SweepRecords(Len(tasks))]
        /\ sweepers[w] \in SweepRecords(Len(tasks)) /\ sweepers[w].job \in Jobs /\ job \in Jobs
        /\ tasks \in Seq(TaskStatuses) /\ Len(tasks) \in Nat
    BY DEF TypeInvariant, ProcessesOK, SweepRecords, RowsOK, ExecutionOK
  <1>1. ASSUME NEW new \in SweepRecords(Len(tasks)), sweepers' = [sweepers EXCEPT ![w] = new]
        PROVE  /\ sweepers' \in [Sweepers -> SweepRecords(Len(tasks))] /\ sweepers'[w] = new
               /\ \A v \in Sweepers : v /= w => sweepers'[v] = sweepers[v]
    BY <1>0, <1>1
  <1>2. {"idle", "read", "job", "signal", "mark"} \subseteq SweepPhases
    BY DEF SweepPhases
  <1>3. \A phase \in SweepPhases : [sweepers[w] EXCEPT !.phase = phase] \in SweepRecords(Len(tasks))
    BY <1>0 DEF SweepRecords
  <1>4. \A phase : [sweepers[w] EXCEPT !.phase = phase].task = sweepers[w].task
                   /\ [sweepers[w] EXCEPT !.phase = phase].phase = phase
    BY <1>0 DEF SweepRecords
  <1>5. \A phase : [sweepers EXCEPT ![w].phase = phase]
                     = [sweepers EXCEPT ![w] = [sweepers[w] EXCEPT !.phase = phase]]
    BY <1>0
  <1>6. IdleSweep \in SweepRecords(Len(tasks)) /\ IdleSweep.phase = "idle"
    BY <1>0, IdleFacts
  <1>7. CASE SweepTask(w)
    <2>1. PICK t \in DOMAIN tasks :
             /\ Stale(t)
             /\ sweepers' = [sweepers EXCEPT ![w] =
                     [IdleSweep EXCEPT !.phase = IF config.kind = "image" THEN "read" ELSE "signal",
                                       !.task = t]]
      BY <1>7 DEF SweepTask
    <2>2. PICK phase : phase = IF config.kind = "image" THEN "read" ELSE "signal"
      OBVIOUS
    <2>3. PICK new : new = [IdleSweep EXCEPT !.phase = phase, !.task = t]
      OBVIOUS
    <2>4. phase \in SweepPhases /\ t \in 0 .. Len(tasks)
      BY <1>0, <1>2, <2>2
    <2>5. new \in SweepRecords(Len(tasks)) /\ new.task = t
      BY <1>6, <2>3, <2>4 DEF SweepRecords
    <2>6. sweepers' = [sweepers EXCEPT ![w] = new]
      BY <2>1, <2>2, <2>3
    <2> QED BY <1>0, <1>1, <1>7, <2>1, <2>5, <2>6 DEF SweepTask, SweepEffects, RowsOK, rows
  <1>8. CASE SweepReadJob(w)
    <2>1. PICK phase \in {"job", "signal"} :
             sweepers' = [sweepers EXCEPT ![w].job = job, ![w].phase = phase]
      BY <1>8 DEF SweepReadJob
    <2>2. PICK new : new = [sweepers[w] EXCEPT !.job = job, !.phase = phase]
      OBVIOUS
    <2>3. sweepers' = [sweepers EXCEPT ![w] = new]
      BY <1>0, <2>1, <2>2
    <2>4. new \in SweepRecords(Len(tasks)) /\ new.task = sweepers[w].task /\ new.phase = phase
      BY <1>0, <1>2, <2>2 DEF SweepRecords
    <2> QED BY <1>0, <1>1, <1>8, <2>3, <2>4 DEF SweepReadJob, SweepEffects, RowsOK, rows
  <1>9. CASE SweepMarkJobFailed(w)
    <2>1. PICK new : new = [sweepers[w] EXCEPT !.phase = "signal"]
      OBVIOUS
    <2>2. sweepers' = [sweepers EXCEPT ![w] = new] /\ new \in SweepRecords(Len(tasks))
          /\ new.task = sweepers[w].task /\ new.phase = "signal"
      BY <1>2, <1>3, <1>4, <1>5, <1>9, <2>1 DEF SweepMarkJobFailed
    <2>3. [sweepers[w].job EXCEPT !.status = "failed", !.remote = "none"] \in Jobs
      BY <1>0 DEF Jobs, JobStatuses
    <2>4. RowsOK'
      BY <1>0, <1>9, <2>3 DEF SweepMarkJobFailed, RowsOK, DraftStatuses
    <2> QED BY <1>1, <1>9, <2>2, <2>4 DEF SweepMarkJobFailed, SweepEffects
  <1>10. CASE SweepFailStep(w)
    <2>1. PICK new : new = [sweepers[w] EXCEPT !.phase = "mark"]
      OBVIOUS
    <2>2. new \in SweepRecords(Len(tasks)) /\ new.task = sweepers[w].task /\ new.phase = "mark"
      BY <1>2, <1>3, <1>4, <2>1
    <2>3. \/ Apply(Failed) /\ sweepers' = [sweepers EXCEPT ![w] = new]
          \/ Refuse(Failed) /\ sweepers' = [sweepers EXCEPT ![w] = IdleSweep]
      BY <1>5, <1>10, <2>1 DEF SweepFailStep
    <2>4. RowsOK' /\ sweepers[w].phase /= "idle"
          /\ UNCHANGED <<config, output, slots, clients, requests, faults>>
      BY <1>0, <1>10 DEF SweepFailStep, RowsOK, rows
    <2> QED BY <1>1, <1>6, <2>2, <2>3, <2>4 DEF SweepEffects
  <1>11. CASE SweepMarkFailed(w)
    <2>1. /\ sweepers' = [sweepers EXCEPT ![w] = IdleSweep] /\ SetTask(sweepers[w].task, "failed")
          /\ UNCHANGED execution /\ RowsOK' /\ sweepers[w].phase /= "idle"
          /\ UNCHANGED <<config, output, slots, clients, requests, faults>>
      BY <1>0, <1>11 DEF SweepMarkFailed, RowsOK, rows
    <2> QED BY <1>1, <1>6, <2>1 DEF SweepEffects
  <1> QED BY <1>7, <1>8, <1>9, <1>10, <1>11 DEF Sweep

(* A sweep keeps the types.                                                  *)
LEMMA SweepTypes ==
    ASSUME OneStep, TypeInvariant, NEW w \in Sweepers, Sweep(w)
    PROVE  TypeInvariant'
  <1>0. /\ ExecutionOK /\ slots \in [Slots -> SlotRecords(Len(tasks))] /\ faults \in 0 .. MaxFaults
        /\ clients \in [Requesters -> ClientRecords] /\ requests \in 0 .. MaxRequests
    BY DEF TypeInvariant, ProcessesOK
  <1>1. SweepEffects(w)
    BY SweepStepEffects
  <1>2. ExecutionOK' /\ Len(tasks) <= Len(tasks')
    <2>1. CASE UNCHANGED <<execution, tasks>>
      BY <1>0, <2>1 DEF ExecutionOK
    <2>2. CASE Apply(Failed) \/ Refuse(Failed)
      BY <1>0, <2>2, SentSignals, SignalsGrowTasks DEF TasksGrow
    <2>3. CASE SetTask(sweepers[w].task, "failed") /\ UNCHANGED execution
      BY <1>0, <2>3, TaskMarked DEF TaskStatuses, ExecutionOK
    <2> QED BY <1>1, <2>1, <2>2, <2>3 DEF SweepEffects
  <1> QED BY <1>0, <1>1, <1>2, TypesKept DEF SweepEffects

(* Every step keeps the types.                                               *)
LEMMA StepTypesKept ==
    ASSUME OneStep, TypeInvariant, [Next]_vars
    PROVE  TypeInvariant'
  <1>1. CASE UNCHANGED vars
    BY <1>1 DEF vars, TypeInvariant, ExecutionOK, RowsOK, ProcessesOK
  <1>2. CASE Next
    <2>1. \/ ApiStep
          \/ \E s \in Slots : SlotStep(s)
          \/ \E w \in Sweepers : Sweep(w)
      BY <1>2 DEF Next, ApiStep, SlotStep
    <2> QED BY <2>1, ApiTypes, SlotTypes, SweepTypes
  <1> QED BY <1>1, <1>2

(* The types hold at the beginning.                                          *)
LEMMA TypesAtFirst ==
    ASSUME OneStep, Init
    PROVE  TypeInvariant
  <1>1. execution \in Executions /\ Budget(execution) /\ execution.attempt = 0
    BY InitialRetriesAssumption, StepTypes
       DEF Init, InitialExecution, Executions, Budget, Statuses, StepNumbers, Stages
  <1>2. ExecutionOK
    BY <1>1 DEF Init, ExecutionOK
  <1>3. RowsOK
    BY IdleFacts DEF Init, RowsOK, DraftStatuses
  <1>4. Len(tasks) = 0
    BY DEF Init
  <1>5. slots \in [Slots -> SlotRecords(Len(tasks))] /\ sweepers \in [Sweepers -> SweepRecords(Len(tasks))]
    BY <1>4, IdleFacts DEF Init
  <1>6. clients \in [Requesters -> ClientRecords]
    <2>1. [IdleClient EXCEPT !.phase = "start"] \in ClientRecords
      BY IdleFacts DEF ClientRecords, ClientPhases
    <2> QED BY <2>1, IdleFacts DEF Init
  <1> QED BY <1>2, <1>3, <1>5, <1>6, StaticPagesAssumption DEF Init, TypeInvariant, ProcessesOK

(* The typing invariant holds throughout, whatever fails.                    *)
THEOREM PagesInvariance ==
    ASSUME OneStep
    PROVE  Spec => []TypeInvariant
  <1>1. Init => TypeInvariant
    BY TypesAtFirst
  <1>2. TypeInvariant /\ [Next]_vars => TypeInvariant'
    BY StepTypesKept
  <1> QED BY <1>1, <1>2, PTL DEF Spec

(* The types that the run checks hold for any number of slots, sweeps,       *)
(* requests and faults: in particular every attempt has one task, automatic  *)
(* retries included, and their number keeps to the budget.                   *)
THEOREM PagesTypeCorrect ==
    ASSUME OneStep
    PROVE  Spec => []StaticPagesTypeOK
  BY PagesInvariance, InvariantGivesTypes, PTL

-----------------------------------------------------------------------------
(* Who may write a task, as long as only abandoned claims are swept.         *)

Busy(s) == slots[s].phase /= "idle"
Swept(w) == sweepers[w].phase /= "idle"

(* A slot that is at work has a task of its own that is not settled.         *)
SlotsOwnTasks ==
    /\ \A s \in Slots : Busy(s) =>
          slots[s].task \in DOMAIN tasks /\ tasks[slots[s].task] \in {"queued", "claimed"}
    /\ \A r, s \in Slots : r /= s /\ Busy(r) /\ Busy(s) => slots[r].task /= slots[s].task

(* A sweep has a task that no slot works on and none will be given.          *)
SweptTasksAreAbandoned ==
    \A w \in Sweepers : Swept(w) =>
       /\ sweepers[w].task \in DOMAIN tasks /\ tasks[sweepers[w].task] \in {"claimed", "failed"}
       /\ \A s \in Slots : Busy(s) => slots[s].task /= sweepers[w].task

TaskInvariant == SlotsOwnTasks /\ SweptTasksAreAbandoned

SettledTasksKept ==
    \A t \in DOMAIN tasks : tasks[t] \in {"succeeded", "failed"} => tasks'[t] = tasks[t]

(* A step of a slot that writes at most its own task.                        *)
LEMMA OwnTaskWritten ==
    ASSUME TypeInvariant, TaskInvariant, NEW s \in Slots, Busy(s), UNCHANGED sweepers,
           DOMAIN tasks \subseteq DOMAIN tasks',
           \A t \in DOMAIN tasks : t /= slots[s].task => tasks'[t] = tasks[t],
           SlotRests(s) \/ \E phase : /\ SlotGoes(s, phase)
                                      /\ tasks'[slots[s].task] \in {"queued", "claimed"}
    PROVE  TaskInvariant' /\ SettledTasksKept
  <1>1. \A r \in Slots : r /= s => slots'[r] = slots[r]
    BY DEF SlotRests, SlotGoes
  <1>2. Busy(s)' => slots'[s].task = slots[s].task /\ tasks'[slots[s].task] \in {"queued", "claimed"}
    BY IdleFacts DEF SlotRests, SlotGoes, Busy
  <1>3. \A r \in Slots : Busy(r)' => Busy(r) /\ slots'[r].task = slots[r].task
    BY <1>1, <1>2 DEF Busy
  <1>4. SlotsOwnTasks'
    <2>1. \A r \in Slots : Busy(r)' => /\ slots'[r].task \in DOMAIN tasks'
                                       /\ tasks'[slots'[r].task] \in {"queued", "claimed"}
      BY <1>2, <1>3 DEF TaskInvariant, SlotsOwnTasks
    <2>2. \A q, r \in Slots : q /= r /\ Busy(q)' /\ Busy(r)' => slots'[q].task /= slots'[r].task
      BY <1>3 DEF TaskInvariant, SlotsOwnTasks
    <2> QED BY <2>1, <2>2 DEF SlotsOwnTasks
  <1>5. SweptTasksAreAbandoned'
    BY <1>3 DEF TaskInvariant, SweptTasksAreAbandoned, Swept
  <1>6. SettledTasksKept
    BY DEF TaskInvariant, SlotsOwnTasks, SettledTasksKept
  <1> QED BY <1>4, <1>5, <1>6 DEF TaskInvariant

(* The domain of the tasks.                                                  *)
LEMMA TaskNumbers == ExecutionOK => DOMAIN tasks = 1 .. Len(tasks) /\ Len(tasks) \in Nat
  BY DEF ExecutionOK

(* Slots write only tasks of their own.                                      *)
LEMMA SlotOutcomes ==
    ASSUME OneStep, TypeInvariant, TaskInvariant, NEW s \in Slots, SlotStep(s)
    PROVE  TaskInvariant' /\ SettledTasksKept
  <1>0. ExecutionOK /\ DOMAIN tasks = 1 .. Len(tasks) /\ Len(tasks) \in Nat
    BY TaskNumbers DEF TypeInvariant
  <1>1. CASE ProcessingStep(s)
    <2>1. /\ UNCHANGED <<tasks, sweepers>> /\ Busy(s) /\ \E phase : SlotGoes(s, phase)
      BY <1>1, ProcessingEffects DEF Busy, ActivePhases, DonePhases
    <2> QED BY <2>1, OwnTaskWritten DEF TaskInvariant, SlotsOwnTasks
  <1>2. CASE WaitForLowLoad(s) \/ Requeue(s) \/ MarkTask(s)
    <2>1. PICK status \in TaskStatuses :
             /\ SetTask(slots[s].task, status)
             /\ SlotRests(s) \/ (status = "queued" /\ \E phase : SlotGoes(s, phase))
      BY <1>2, MarkingEffects DEF TaskStatuses
    <2>2. UNCHANGED <<execution, sweepers>> /\ Busy(s)
      BY <1>2, MarkingEffects DEF Busy
    <2>3. /\ DOMAIN tasks' = DOMAIN tasks
          /\ \A u \in DOMAIN tasks : tasks'[u] = IF u = slots[s].task THEN status ELSE tasks[u]
      BY <1>0, <2>1, <2>2, TaskMarked
    <2>4. slots[s].task \in DOMAIN tasks
      BY <2>2 DEF TaskInvariant, SlotsOwnTasks
    <2> QED BY <2>1, <2>2, <2>3, <2>4, OwnTaskWritten
  <1>3. CASE SlotSignals(s)
    <2>1. /\ UNCHANGED sweepers /\ Busy(s) /\ \E phase : SlotGoes(s, phase)
          /\ \E signal \in Sent : Apply(signal) \/ Refuse(signal)
      BY <1>3, SignallingEffects, SentSignals DEF Busy
    <2>2. ExecutionOK' /\ TasksGrow
      BY <1>0, <2>1, SignalsGrowTasks
    <2>3. DOMAIN tasks \subseteq DOMAIN tasks' /\ \A t \in DOMAIN tasks : tasks'[t] = tasks[t]
      BY <1>0, <2>2 DEF ExecutionOK, TasksGrow
    <2> QED BY <2>1, <2>3, OwnTaskWritten DEF TaskInvariant, SlotsOwnTasks
  <1>4. CASE ClaimNextAvailable(s)
    <2>1. PICK t \in DOMAIN tasks :
             /\ Available(t) /\ SetTask(t, "claimed")
             /\ slots'[s].phase = "load" /\ slots'[s].task = t
      BY <1>4, ClaimEffects
    <2>2. /\ UNCHANGED <<execution, sweepers>>
          /\ \A r \in Slots : r /= s => slots'[r] = slots[r]
      BY <1>4, ClaimEffects
    <2>3. /\ DOMAIN tasks' = DOMAIN tasks
          /\ \A u \in DOMAIN tasks : tasks'[u] = IF u = t THEN "claimed" ELSE tasks[u]
      BY <1>0, <2>1, <2>2, TaskMarked DEF TaskStatuses
    <2>4. tasks[t] = "queued" /\ \A r \in Slots : slots[r].task /= t
      BY <2>1 DEF Available
    <2>5. SlotsOwnTasks'
      <3>1. \A r \in Slots : Busy(r)' => /\ slots'[r].task \in DOMAIN tasks'
                                         /\ tasks'[slots'[r].task] \in {"queued", "claimed"}
        BY <2>1, <2>2, <2>3 DEF TaskInvariant, SlotsOwnTasks, Busy
      <3>2. \A q, r \in Slots : q /= r /\ Busy(q)' /\ Busy(r)' => slots'[q].task /= slots'[r].task
        BY <2>1, <2>2, <2>4 DEF TaskInvariant, SlotsOwnTasks, Busy
      <3> QED BY <3>1, <3>2 DEF SlotsOwnTasks
    <2>6. SweptTasksAreAbandoned'
      <3>1. \A w \in Sweepers : Swept(w) => sweepers[w].task /= t
        BY <2>4 DEF TaskInvariant, SweptTasksAreAbandoned
      <3> QED BY <2>1, <2>2, <2>3, <3>1 DEF TaskInvariant, SweptTasksAreAbandoned, Swept, Busy
    <2>7. SettledTasksKept
      BY <2>3, <2>4 DEF SettledTasksKept
    <2> QED BY <2>5, <2>6, <2>7 DEF TaskInvariant
  <1>5. CASE AppendSkipped(s) \/ StatementFails(s) \/ Crash(s)
    <2>1. /\ UNCHANGED <<tasks, sweepers>> /\ Busy(s)
          /\ SlotRests(s) \/ \E phase : SlotGoes(s, phase)
      BY <1>5, LeavingEffects DEF Busy
    <2> QED BY <2>1, OwnTaskWritten DEF TaskInvariant, SlotsOwnTasks
  <1> QED BY <1>1, <1>2, <1>3, <1>4, <1>5, SlotStepKinds

(* Requests write no task.                                                   *)
LEMMA ApiOutcomes ==
    ASSUME OneStep, TypeInvariant, TaskInvariant, ApiStep
    PROVE  TaskInvariant' /\ SettledTasksKept
  <1>1. ApiEffects /\ ExecutionOK /\ DOMAIN tasks = 1 .. Len(tasks) /\ Len(tasks) \in Nat
    BY ApiStepEffects, TaskNumbers DEF TypeInvariant
  <1>2. DOMAIN tasks \subseteq DOMAIN tasks' /\ \A t \in DOMAIN tasks : tasks'[t] = tasks[t]
    <2>1. CASE UNCHANGED tasks
      BY <2>1
    <2>2. ASSUME NEW signal \in {Start, Retry, Cancel}, Apply(signal) \/ Refuse(signal)
          PROVE  ExecutionOK' /\ TasksGrow
      BY <1>1, <2>2, SentSignals, SignalsGrowTasks
    <2>3. CASE ExecutionOK' /\ TasksGrow
      BY <1>1, <2>3 DEF ExecutionOK, TasksGrow
    <2> QED BY <1>1, <2>1, <2>2, <2>3 DEF ApiEffects
  <1>3. UNCHANGED <<slots, sweepers>>
    BY <1>1 DEF ApiEffects
  <1> QED BY <1>2, <1>3 DEF TaskInvariant, SlotsOwnTasks, SweptTasksAreAbandoned, Busy, Swept,
                            SettledTasksKept

(* Sweeps mark abandoned tasks as failed.                                    *)
LEMMA SweepOutcomes ==
    ASSUME OneStep, ~Overruns, TypeInvariant, TaskInvariant, NEW w \in Sweepers, Sweep(w)
    PROVE  TaskInvariant' /\ SettledTasksKept
  <1>1. SweepEffects(w) /\ ExecutionOK /\ DOMAIN tasks = 1 .. Len(tasks) /\ Len(tasks) \in Nat
    BY SweepStepEffects, TaskNumbers DEF TypeInvariant
  <1>2. UNCHANGED slots /\ \A v \in Sweepers : v /= w => sweepers'[v] = sweepers[v]
    BY <1>1 DEF SweepEffects
  <1>3. CASE /\ sweepers[w].phase = "idle" /\ UNCHANGED <<execution, tasks>>
             /\ sweepers'[w].task \in DOMAIN tasks /\ Stale(sweepers'[w].task)
    <2>1. /\ tasks[sweepers'[w].task] = "claimed"
          /\ \A s \in Slots : slots[s].task /= sweepers'[w].task
      BY <1>3 DEF Stale
    <2>2. SweptTasksAreAbandoned'
      BY <1>2, <1>3, <2>1 DEF TaskInvariant, SweptTasksAreAbandoned, Swept, Busy
    <2> QED BY <1>2, <1>3, <2>2 DEF TaskInvariant, SlotsOwnTasks, Busy, SettledTasksKept
  <1>4. CASE /\ sweepers[w].phase /= "idle"
             /\ \/ sweepers'[w].phase = "idle"
                \/ sweepers'[w].phase /= "idle" /\ sweepers'[w].task = sweepers[w].task
             /\ \/ UNCHANGED <<execution, tasks>>
                \/ Apply(Failed) \/ Refuse(Failed)
                \/ SetTask(sweepers[w].task, "failed") /\ UNCHANGED execution
    <2>1. /\ DOMAIN tasks \subseteq DOMAIN tasks'
          /\ \A t \in DOMAIN tasks : \/ tasks'[t] = tasks[t]
                                     \/ t = sweepers[w].task /\ tasks'[t] = "failed"
      <3>1. CASE UNCHANGED tasks
        BY <3>1
      <3>2. CASE Apply(Failed) \/ Refuse(Failed)
        <4>1. ExecutionOK' /\ TasksGrow
          BY <1>1, <3>2, SentSignals, SignalsGrowTasks
        <4> QED BY <1>1, <4>1 DEF ExecutionOK, TasksGrow
      <3>3. CASE SetTask(sweepers[w].task, "failed") /\ UNCHANGED execution
        BY <1>1, <3>3, TaskMarked DEF TaskStatuses
      <3> QED BY <1>4, <3>1, <3>2, <3>3
    <2>2. /\ tasks[sweepers[w].task] \in {"claimed", "failed"}
          /\ \A s \in Slots : Busy(s) => slots[s].task /= sweepers[w].task
      BY <1>4 DEF TaskInvariant, SweptTasksAreAbandoned, Swept
    <2>3. SlotsOwnTasks'
      BY <1>2, <2>1, <2>2 DEF TaskInvariant, SlotsOwnTasks, Busy
    <2>4. \A v \in Sweepers : Swept(v)' => Swept(v) /\ sweepers'[v].task = sweepers[v].task
      BY <1>2, <1>4 DEF Swept
    <2>5. SweptTasksAreAbandoned'
      BY <1>2, <2>1, <2>4 DEF TaskInvariant, SweptTasksAreAbandoned, Busy
    <2>6. SettledTasksKept
      BY <2>1, <2>2 DEF SettledTasksKept
    <2> QED BY <2>3, <2>5, <2>6 DEF TaskInvariant
  <1> QED BY <1>1, <1>3, <1>4 DEF SweepEffects

(* Every step keeps the owners, and the outcomes.                            *)
LEMMA StepOutcomes ==
    ASSUME OneStep, ~Overruns, TypeInvariant, TaskInvariant, [Next]_vars
    PROVE  TaskInvariant' /\ SettledTasksKept
  <1>1. CASE UNCHANGED vars
    BY <1>1 DEF vars, TaskInvariant, SlotsOwnTasks, SweptTasksAreAbandoned, Busy, Swept, SettledTasksKept
  <1>2. CASE Next
    <2>1. \/ ApiStep
          \/ \E s \in Slots : SlotStep(s)
          \/ \E w \in Sweepers : Sweep(w)
      BY <1>2 DEF Next, ApiStep, SlotStep
    <2> QED BY <2>1, ApiOutcomes, SlotOutcomes, SweepOutcomes
  <1> QED BY <1>1, <1>2

(* At the beginning no process is at work.                                   *)
LEMMA NoTasksAtFirst == Init => TaskInvariant
  BY IdleFacts DEF Init, TaskInvariant, SlotsOwnTasks, SweptTasksAreAbandoned, Busy, Swept

(* As long as no task outlasts the two hours after which its claim is taken  *)
(* for abandoned, every task has one owner: the slots at work have tasks of  *)
(* their own, and a sweep has one that nobody works on, whatever crashes.    *)
THEOREM TasksHaveOneOwner ==
    ASSUME OneStep, ~Overruns
    PROVE  Spec => []TaskInvariant
  <1>1. Init => TypeInvariant /\ TaskInvariant
    BY TypesAtFirst, NoTasksAtFirst
  <1>2. TypeInvariant /\ TaskInvariant /\ [Next]_vars => TypeInvariant' /\ TaskInvariant'
    BY StepTypesKept, StepOutcomes
  <1> QED BY <1>1, <1>2, PTL DEF Spec

(* Then a task that is settled stays settled: no requeue, no mark of a late  *)
(* worker and no sweep reaches it.                                           *)
THEOREM SettledTasksStaySettled ==
    ASSUME OneStep, ~Overruns
    PROVE  Spec => TaskOutcomeIsFinal
  <1>1. TypeInvariant /\ TaskInvariant /\ [Next]_vars =>
           [\A t \in DOMAIN tasks :
               tasks[t] \in {"succeeded", "failed"} => tasks'[t] = tasks[t]]_vars
    BY StepOutcomes DEF SettledTasksKept
  <1> QED BY <1>1, PagesInvariance, TasksHaveOneOwner, PTL DEF Spec, TaskOutcomeIsFinal

-----------------------------------------------------------------------------
(* Previews, as long as no process dies and no statement fails.              *)

Undisturbed == config.kind = "image" /\ faults = 0

(* A slot has claimed its task, until it puts it back.                       *)
TasksMatchPhases ==
    \A s \in Slots :
       /\ slots[s].phase \notin RenderPhases
       /\ Busy(s) => tasks[slots[s].task] = IF slots[s].phase = "waiting" THEN "queued" ELSE "claimed"

(* There is nothing for a sweep to do.                                       *)
ClaimsAreHeld ==
    /\ \A t \in DOMAIN tasks : tasks[t] = "claimed" => \E s \in Slots : Busy(s) /\ slots[s].task = t
    /\ \A w \in Sweepers : ~Swept(w)

(* A task whose signal is still to be sent.                                  *)
Open(t) == tasks[t] = "queued" \/ \E s \in Slots : slots[s].phase \in ActivePhases /\ slots[s].task = t

(* Until the execution is cancelled, the only such task is the one of the    *)
(* running attempt.                                                          *)
OpenTaskIsCurrent ==
    execution.status /= "cancelled" =>
       \A t \in DOMAIN tasks : Open(t) => execution.status = "running" /\ t = Len(tasks)

(* The preview is there when the success is reported, and from then on.      *)
PreviewPrecedesSuccess ==
    execution.status /= "cancelled" =>
       /\ \A s \in Slots : slots[s].phase = "complete" => GoodPreview
       /\ execution.status = "succeeded" => GoodPreview

PreviewInvariant ==
    Undisturbed => TasksMatchPhases /\ ClaimsAreHeld /\ OpenTaskIsCurrent /\ PreviewPrecedesSuccess

(* So at most one slot works on the preview, and only for a running attempt. *)
LEMMA OneActiveSlot ==
    ASSUME TaskInvariant, OpenTaskIsCurrent, execution.status /= "cancelled",
           NEW s \in Slots, slots[s].phase \in ActivePhases
    PROVE  /\ execution.status = "running" /\ slots[s].task = Len(tasks)
           /\ slots[s].task \in DOMAIN tasks
           /\ \A r \in Slots : slots[r].phase \in ActivePhases => r = s
  <1>1. \A r \in Slots : slots[r].phase \in ActivePhases =>
           Busy(r) /\ slots[r].task \in DOMAIN tasks /\ slots[r].task = Len(tasks)
           /\ execution.status = "running"
    <2> SUFFICES ASSUME NEW r \in Slots, slots[r].phase \in ActivePhases
                 PROVE  Busy(r) /\ slots[r].task \in DOMAIN tasks /\ slots[r].task = Len(tasks)
                        /\ execution.status = "running"
      OBVIOUS
    <2>1. Busy(r)
      BY DEF Busy, ActivePhases, DonePhases
    <2>2. slots[r].task \in DOMAIN tasks
      BY <2>1 DEF TaskInvariant, SlotsOwnTasks
    <2>3. Open(slots[r].task)
      BY DEF Open
    <2> QED BY <2>1, <2>2, <2>3 DEF OpenTaskIsCurrent
  <1> QED BY <1>1 DEF TaskInvariant, SlotsOwnTasks

(* A signal leaves at most the task of a running attempt open, if the slot   *)
(* that ends an attempt was the one that worked on it.                       *)
LEMMA OpenAfterSignal ==
    ASSUME OneStep, ExecutionOK, OpenTaskIsCurrent, NEW signal \in Sent, Apply(signal) \/ Refuse(signal),
           \A r \in Slots : slots'[r].phase \in ActivePhases =>
              slots[r].phase \in ActivePhases /\ slots'[r].task = slots[r].task,
           signal \in {Completed, Failed} /\ Apply(signal) => \A t \in DOMAIN tasks : ~Open(t)'
    PROVE  OpenTaskIsCurrent'
  <1>1. DOMAIN tasks = 1 .. Len(tasks) /\ Len(tasks) \in Nat /\ tasks \in Seq(TaskStatuses)
    BY DEF ExecutionOK
  <1>2. ASSUME tasks' = tasks, NEW t \in DOMAIN tasks, Open(t)' PROVE Open(t)
    BY <1>2 DEF Open
  <1>3. CASE UNCHANGED <<execution, tasks>>
    BY <1>2, <1>3 DEF OpenTaskIsCurrent
  <1>4. CASE /\ execution.status = "pending" /\ execution'.status = "running"
             /\ tasks' = Append(tasks, "queued")
    <2>1. DOMAIN tasks' = 1 .. Len(tasks) + 1 /\ Len(tasks') = Len(tasks) + 1
          /\ \A t \in DOMAIN tasks : tasks'[t] = tasks[t]
      BY <1>1, <1>4
    <2>2. \A t \in DOMAIN tasks : ~Open(t)
      BY <1>4 DEF OpenTaskIsCurrent
    <2>3. \A t \in DOMAIN tasks : ~Open(t)'
      BY <2>1, <2>2 DEF Open
    <2> QED BY <1>1, <1>4, <2>1, <2>3 DEF OpenTaskIsCurrent
  <1>5. CASE tasks' = tasks /\ execution.status = "failed"
    <2>1. \A t \in DOMAIN tasks : ~Open(t)
      BY <1>5 DEF OpenTaskIsCurrent
    <2> QED BY <1>2, <1>5, <2>1 DEF OpenTaskIsCurrent
  <1>6. CASE execution'.status = "cancelled"
    BY <1>6 DEF OpenTaskIsCurrent
  <1>7. CASE Apply(signal) /\ signal \in {Completed, Failed} /\ tasks' = tasks
    BY <1>7 DEF OpenTaskIsCurrent
  <1> QED BY <1>3, <1>4, <1>5, <1>6, <1>7, SignalEffects

(* What a signal leaves of the tasks.                                        *)
LEMMA SignalLeavesTasks ==
    ASSUME OneStep, ExecutionOK, NEW signal \in Sent, Apply(signal) \/ Refuse(signal)
    PROVE  /\ DOMAIN tasks \subseteq DOMAIN tasks'
           /\ \A t \in DOMAIN tasks : tasks'[t] = tasks[t]
           /\ \A t \in DOMAIN tasks' \ DOMAIN tasks : tasks'[t] = "queued"
           /\ execution'.status /= "cancelled" => execution.status /= "cancelled"
           /\ execution'.status = "succeeded" => execution.status = "succeeded" \/ signal = Completed
  <1>1. tasks' = tasks \/ tasks' = Append(tasks, "queued")
    BY SignalEffects
  <1>2. /\ execution'.status /= "cancelled" => execution.status /= "cancelled"
        /\ execution'.status = "succeeded" => execution.status = "succeeded" \/ signal = Completed
    BY SignalEffects
  <1> QED BY <1>1, <1>2 DEF ExecutionOK

PreviewParts == TasksMatchPhases /\ ClaimsAreHeld /\ OpenTaskIsCurrent /\ PreviewPrecedesSuccess

(* Work on the preview.                                                      *)
LEMMA ProcessingKeepsPreview ==
    ASSUME TypeInvariant, TaskInvariant, config.kind = "image", PreviewParts,
           NEW s \in Slots, ProcessingStep(s)
    PROVE  PreviewParts'
  <1>1. slots[s].phase \in ActivePhases \ {"waiting"} /\ slots[s].phase \notin RenderPhases
    BY ProcessingEffects DEF PreviewParts, TasksMatchPhases
  <1>2. UNCHANGED <<execution, tasks, sweepers>>
    BY ProcessingEffects
  <1>3. PICK phase \in SlotPhases \ {"idle", "waiting"} :
           /\ SlotGoes(s, phase) /\ phase \in ActivePhases /\ phase \notin RenderPhases
           /\ phase = "complete" => GoodPreview'
    BY <1>1, ProcessingEffects
  <1>4. /\ slots'[s].phase = phase /\ slots'[s].task = slots[s].task
        /\ \A r \in Slots : r /= s => slots'[r] = slots[r]
    BY <1>3 DEF SlotGoes
  <1>5. Busy(s) /\ Busy(s)'
    BY <1>1, <1>3, <1>4 DEF Busy, ActivePhases, DonePhases
  <1>6. TasksMatchPhases'
    BY <1>1, <1>2, <1>3, <1>4, <1>5 DEF PreviewParts, TasksMatchPhases, Busy
  <1>7. ClaimsAreHeld'
    BY <1>2, <1>4, <1>5 DEF PreviewParts, ClaimsAreHeld, Busy, Swept
  <1>8. \A t : Open(t)' => Open(t)
    BY <1>1, <1>2, <1>4 DEF Open
  <1>9. OpenTaskIsCurrent'
    BY <1>2, <1>8 DEF PreviewParts, OpenTaskIsCurrent
  <1>10. PreviewPrecedesSuccess'
    <2> SUFFICES ASSUME execution.status /= "cancelled"
                 PROVE  /\ \A r \in Slots : slots'[r].phase = "complete" => GoodPreview'
                        /\ execution.status /= "succeeded"
      BY <1>2 DEF PreviewPrecedesSuccess
    <2>1. /\ execution.status = "running"
          /\ \A r \in Slots : slots[r].phase \in ActivePhases => r = s
      BY <1>1, OneActiveSlot DEF PreviewParts
    <2>2. "complete" \in ActivePhases
      BY DEF ActivePhases, SlotPhases, DonePhases
    <2> QED BY <1>3, <1>4, <2>1, <2>2
  <1> QED BY <1>6, <1>7, <1>9, <1>10 DEF PreviewParts

(* A task is put back or marked.                                             *)
LEMMA MarkingKeepsPreview ==
    ASSUME TypeInvariant, TaskInvariant, PreviewParts,
           NEW s \in Slots, WaitForLowLoad(s) \/ Requeue(s) \/ MarkTask(s)
    PROVE  PreviewParts'
  <1>1. UNCHANGED <<execution, job, sweepers>> /\ slots[s].phase \in SlotPhases \ {"idle", "waiting"}
    BY MarkingEffects
  <1>2. PICK status \in TaskStatuses :
           /\ SetTask(slots[s].task, status)
           /\ \/ slots[s].phase = "load" /\ status = "queued" /\ SlotGoes(s, "waiting")
              \/ slots[s].phase = "requeue" /\ status = "queued" /\ SlotRests(s)
              \/ slots[s].phase \notin ActivePhases /\ status \in {"succeeded", "failed"} /\ SlotRests(s)
    BY MarkingEffects DEF TaskStatuses, ActivePhases, DonePhases
  <1>3. Busy(s) /\ slots[s].task \in DOMAIN tasks
    BY <1>1 DEF Busy, TaskInvariant, SlotsOwnTasks
  <1>4. /\ DOMAIN tasks' = DOMAIN tasks /\ Len(tasks') = Len(tasks)
        /\ \A u \in DOMAIN tasks : tasks'[u] = IF u = slots[s].task THEN status ELSE tasks[u]
    BY <1>1, <1>2, TaskMarked DEF TypeInvariant
  <1>5. \A r \in Slots : r /= s => slots'[r] = slots[r]
    BY <1>2 DEF SlotGoes, SlotRests
  <1>6. \A r \in Slots : r /= s /\ Busy(r) => slots[r].task /= slots[s].task /\ slots[r].task \in DOMAIN tasks
    BY <1>3 DEF TaskInvariant, SlotsOwnTasks
  <1>7. \/ slots'[s].phase = "waiting" /\ slots'[s].task = slots[s].task /\ status = "queued"
        \/ slots'[s].phase = "idle"
    BY <1>2, IdleFacts DEF SlotGoes, SlotRests
  <1>8. status /= "claimed"
    BY <1>2
  <1>9. TasksMatchPhases'
    <2>1. ASSUME NEW r \in Slots, r /= s
          PROVE  /\ slots'[r].phase \notin RenderPhases
                 /\ Busy(r)' => tasks'[slots'[r].task] = IF slots'[r].phase = "waiting"
                                                        THEN "queued" ELSE "claimed"
      BY <1>4, <1>5, <1>6, <2>1 DEF PreviewParts, TasksMatchPhases, Busy
    <2>2. /\ slots'[s].phase \notin RenderPhases
          /\ Busy(s)' => tasks'[slots'[s].task] = IF slots'[s].phase = "waiting"
                                                 THEN "queued" ELSE "claimed"
      BY <1>3, <1>4, <1>7 DEF Busy, RenderPhases
    <2> QED BY <2>1, <2>2 DEF TasksMatchPhases
  <1>10. ClaimsAreHeld'
    <2>1. ASSUME NEW t \in DOMAIN tasks, tasks'[t] = "claimed"
          PROVE  \E r \in Slots : Busy(r)' /\ slots'[r].task = t
      <3>1. t /= slots[s].task /\ tasks[t] = "claimed"
        BY <1>4, <1>8, <2>1
      <3>2. PICK r \in Slots : Busy(r) /\ slots[r].task = t
        BY <3>1 DEF PreviewParts, ClaimsAreHeld
      <3> QED BY <1>5, <3>1, <3>2 DEF Busy
    <2> QED BY <1>1, <1>4, <2>1 DEF PreviewParts, ClaimsAreHeld, Swept
  <1>11. \A t \in DOMAIN tasks : Open(t)' => Open(t)
    <2> SUFFICES ASSUME NEW t \in DOMAIN tasks, Open(t)' PROVE Open(t)
      OBVIOUS
    <2>1. CASE slots[s].phase \in {"load", "requeue"}
      <3>1. slots[s].phase \in ActivePhases
        BY <2>1 DEF ActivePhases, SlotPhases, DonePhases
      <3>2. CASE t = slots[s].task
        BY <3>1, <3>2 DEF Open
      <3>3. CASE t /= slots[s].task
        <4>1. tasks'[t] = tasks[t]
          BY <1>4, <3>3
        <4>2. \A r \in Slots : slots'[r].phase \in ActivePhases /\ slots'[r].task = t => r /= s
          BY <1>7, <3>3 DEF ActivePhases, DonePhases
        <4> QED BY <1>5, <4>1, <4>2 DEF Open
      <3> QED BY <3>2, <3>3
    <2>2. CASE status \in {"succeeded", "failed"} /\ SlotRests(s)
      <3>1. tasks'[t] = "queued" => tasks[t] = "queued"
        BY <1>4, <2>2
      <3>2. \A r \in Slots : slots'[r].phase \in ActivePhases => r /= s
        BY <2>2, IdleFacts DEF SlotRests, ActivePhases, DonePhases
      <3> QED BY <1>5, <3>1, <3>2 DEF Open
    <2> QED BY <1>2, <2>1, <2>2
  <1>12. OpenTaskIsCurrent'
    BY <1>1, <1>4, <1>11 DEF PreviewParts, OpenTaskIsCurrent
  <1>13. PreviewPrecedesSuccess'
    BY <1>1, <1>5, <1>7 DEF PreviewParts, PreviewPrecedesSuccess, GoodPreview
  <1> QED BY <1>9, <1>10, <1>12, <1>13 DEF PreviewParts

(* A slot sends the signal of its task, or retries.                          *)
LEMMA SignalsKeepPreview ==
    ASSUME OneStep, TypeInvariant, TaskInvariant, PreviewParts, NEW s \in Slots, SlotSignals(s)
    PROVE  PreviewParts'
  <1>0. ExecutionOK
    BY DEF TypeInvariant
  <1>1. UNCHANGED <<job, sweepers>>
    BY SignallingEffects
  <1>2. PICK signal \in {Completed, Failed, Retry, Start}, phase \in {"succeed", "error", "retry", "restart", "mark_failed"} :
           /\ Apply(signal) \/ Refuse(signal)
           /\ SlotGoes(s, phase)
           /\ slots[s].phase \in {"complete", "fail_step", "retry", "restart"}
           /\ signal = Completed => slots[s].phase = "complete"
           /\ signal \in {Completed, Failed} => slots[s].phase \in {"complete", "fail_step"}
           /\ phase = "error" => Refuse(signal) /\ slots[s].phase = "complete"
    BY SignallingEffects DEF Completed, Failed, Retry, Start, Signal
  <1>3. signal \in Sent
    BY <1>2, SentSignals
  <1>4. /\ slots'[s].phase = phase /\ slots'[s].task = slots[s].task
        /\ \A r \in Slots : r /= s => slots'[r] = slots[r]
    BY <1>2 DEF SlotGoes
  <1>5. Busy(s) /\ Busy(s)' /\ slots[s].phase /= "waiting" /\ slots'[s].phase /= "waiting"
        /\ slots'[s].phase \notin RenderPhases /\ slots'[s].phase /= "complete"
    BY <1>2, <1>4 DEF Busy, RenderPhases
  <1>6. /\ DOMAIN tasks \subseteq DOMAIN tasks'
        /\ \A t \in DOMAIN tasks : tasks'[t] = tasks[t]
        /\ \A t \in DOMAIN tasks' \ DOMAIN tasks : tasks'[t] = "queued"
        /\ execution'.status /= "cancelled" => execution.status /= "cancelled"
        /\ execution'.status = "succeeded" => execution.status = "succeeded" \/ signal = Completed
    BY <1>0, <1>2, <1>3, SignalLeavesTasks
  <1>7. \A r \in Slots : Busy(r) => slots[r].task \in DOMAIN tasks
    BY DEF TaskInvariant, SlotsOwnTasks
  <1>8. TasksMatchPhases'
    BY <1>4, <1>5, <1>6, <1>7 DEF PreviewParts, TasksMatchPhases, Busy
  <1>9. ClaimsAreHeld'
    BY <1>1, <1>4, <1>5, <1>6 DEF PreviewParts, ClaimsAreHeld, Busy, Swept
  <1>10. \A r \in Slots : slots'[r].phase \in ActivePhases =>
            slots[r].phase \in ActivePhases /\ slots'[r].task = slots[r].task
    BY <1>2, <1>4 DEF ActivePhases, SlotPhases, DonePhases
  <1>11. ASSUME signal \in {Completed, Failed}, Apply(signal), NEW t \in DOMAIN tasks
         PROVE  ~Open(t)'
    <2>1. slots[s].phase \in ActivePhases
      BY <1>2, <1>11 DEF ActivePhases, SlotPhases, DonePhases
    <2>2. execution.status = "running" /\ tasks' = tasks
      BY <1>0, <1>3, <1>11, SignalEffects DEF Refuse, Apply, Completed, Failed, Retry, Start, Cancel, Signal
    <2>3. /\ slots[s].task = Len(tasks)
          /\ \A r \in Slots : slots[r].phase \in ActivePhases => r = s
      BY <2>1, <2>2, OneActiveSlot DEF PreviewParts
    <2>4. tasks[slots[s].task] = "claimed"
      BY <1>5 DEF PreviewParts, TasksMatchPhases
    <2>5. tasks[t] /= "queued"
      <3>1. tasks[t] = "queued" => t = Len(tasks)
        BY <2>2 DEF PreviewParts, OpenTaskIsCurrent, Open
      <3> QED BY <2>3, <2>4, <3>1
    <2>6. phase /= "error"
      BY <1>2, <1>11 DEF Apply, Refuse
    <2>7. slots'[s].phase \notin ActivePhases
      BY <1>2, <1>4, <2>6 DEF ActivePhases, DonePhases
    <2> QED BY <1>10, <2>2, <2>3, <2>5, <2>7 DEF Open
  <1>12. OpenTaskIsCurrent'
    BY <1>0, <1>2, <1>3, <1>10, <1>11, OpenAfterSignal DEF PreviewParts
  <1>13. PreviewPrecedesSuccess'
    <2> SUFFICES ASSUME execution'.status /= "cancelled"
                 PROVE  /\ \A r \in Slots : slots'[r].phase = "complete" => GoodPreview
                        /\ execution'.status = "succeeded" => GoodPreview
      BY <1>1 DEF PreviewPrecedesSuccess, GoodPreview
    <2>1. execution.status /= "cancelled"
      BY <1>6
    <2>2. signal = Completed => GoodPreview
      BY <1>2, <2>1 DEF PreviewParts, PreviewPrecedesSuccess
    <2> QED BY <1>4, <1>5, <1>6, <2>1, <2>2 DEF PreviewParts, PreviewPrecedesSuccess
  <1> QED BY <1>8, <1>9, <1>12, <1>13 DEF PreviewParts

(* A claim.                                                                  *)
LEMMA ClaimKeepsPreview ==
    ASSUME TypeInvariant, TaskInvariant, PreviewParts, NEW s \in Slots, ClaimNextAvailable(s)
    PROVE  PreviewParts'
  <1>1. PICK t \in DOMAIN tasks :
           /\ Available(t) /\ SetTask(t, "claimed")
           /\ slots'[s].phase = "load" /\ slots'[s].task = t
    BY ClaimEffects
  <1>2. /\ UNCHANGED <<execution, job, sweepers>>
        /\ \A r \in Slots : r /= s => slots'[r] = slots[r]
        /\ slots[s].phase = "idle"
    BY ClaimEffects
  <1>3. /\ DOMAIN tasks' = DOMAIN tasks /\ Len(tasks') = Len(tasks)
        /\ \A u \in DOMAIN tasks : tasks'[u] = IF u = t THEN "claimed" ELSE tasks[u]
    BY <1>1, <1>2, TaskMarked DEF TypeInvariant, TaskStatuses
  <1>4. tasks[t] = "queued" /\ \A r \in Slots : slots[r].task /= t
    BY <1>1 DEF Available
  <1>5. \A r \in Slots : Busy(r) => slots[r].task \in DOMAIN tasks
    BY DEF TaskInvariant, SlotsOwnTasks
  <1>6. TasksMatchPhases'
    BY <1>1, <1>2, <1>3, <1>4, <1>5 DEF PreviewParts, TasksMatchPhases, Busy, RenderPhases
  <1>7. ClaimsAreHeld'
    <2>1. ASSUME NEW u \in DOMAIN tasks, tasks'[u] = "claimed"
          PROVE  \E r \in Slots : Busy(r)' /\ slots'[r].task = u
      <3>1. CASE u = t
        BY <1>1, <3>1 DEF Busy
      <3>2. CASE u /= t
        <4>1. PICK r \in Slots : Busy(r) /\ slots[r].task = u
          BY <1>3, <2>1, <3>2 DEF PreviewParts, ClaimsAreHeld
        <4> QED BY <1>2, <4>1 DEF Busy
      <3> QED BY <3>1, <3>2
    <2> QED BY <1>2, <1>3, <2>1 DEF PreviewParts, ClaimsAreHeld, Swept
  <1>8. \A u \in DOMAIN tasks : Open(u)' => Open(u)
    BY <1>1, <1>2, <1>3, <1>4 DEF Open
  <1>9. OpenTaskIsCurrent'
    BY <1>2, <1>3, <1>8 DEF PreviewParts, OpenTaskIsCurrent
  <1>10. PreviewPrecedesSuccess'
    BY <1>1, <1>2 DEF PreviewParts, PreviewPrecedesSuccess, GoodPreview
  <1> QED BY <1>6, <1>7, <1>9, <1>10 DEF PreviewParts

(* The end of a slot that waited.                                            *)
LEMMA RestKeepsPreview ==
    ASSUME TaskInvariant, PreviewParts, NEW s \in Slots, slots[s].phase = "waiting", SlotRests(s),
           UNCHANGED <<execution, tasks, job, sweepers>>
    PROVE  PreviewParts'
  <1>1. slots'[s].phase = "idle" /\ \A r \in Slots : r /= s => slots'[r] = slots[r]
    BY IdleFacts DEF SlotRests
  <1>2. Busy(s) /\ tasks[slots[s].task] = "queued"
    BY DEF Busy, PreviewParts, TasksMatchPhases
  <1>3. TasksMatchPhases'
    BY <1>1 DEF PreviewParts, TasksMatchPhases, Busy, RenderPhases
  <1>4. ClaimsAreHeld'
    <2>1. ASSUME NEW t \in DOMAIN tasks, tasks[t] = "claimed"
          PROVE  \E r \in Slots : Busy(r)' /\ slots'[r].task = t
      <3>1. PICK r \in Slots : Busy(r) /\ slots[r].task = t
        BY <2>1 DEF PreviewParts, ClaimsAreHeld
      <3>2. r /= s
        BY <1>2, <2>1, <3>1
      <3> QED BY <1>1, <3>1, <3>2 DEF Busy
    <2> QED BY <2>1 DEF PreviewParts, ClaimsAreHeld, Swept
  <1>5. \A t : Open(t)' => Open(t)
    BY <1>1 DEF Open, ActivePhases, DonePhases
  <1>6. OpenTaskIsCurrent' /\ PreviewPrecedesSuccess'
    BY <1>1, <1>5 DEF PreviewParts, OpenTaskIsCurrent, PreviewPrecedesSuccess, GoodPreview
  <1> QED BY <1>3, <1>4, <1>6 DEF PreviewParts

(* Requests.                                                                 *)
LEMMA ApiKeepsPreview ==
    ASSUME OneStep, TypeInvariant, TaskInvariant, PreviewParts, ApiStep
    PROVE  PreviewParts'
  <1>1. ApiEffects /\ UNCHANGED <<slots, sweepers>> /\ ExecutionOK
    BY ApiStepEffects DEF ApiEffects, TypeInvariant
  <1>2. CASE UNCHANGED <<execution, tasks>> /\ (UNCHANGED job \/ GoodPreview')
    <2>1. \A t : Open(t)' => Open(t)
      BY <1>1, <1>2 DEF Open
    <2>2. PreviewPrecedesSuccess'
      BY <1>1, <1>2 DEF PreviewParts, PreviewPrecedesSuccess, GoodPreview
    <2> QED BY <1>1, <1>2, <2>1, <2>2
            DEF PreviewParts, TasksMatchPhases, ClaimsAreHeld, OpenTaskIsCurrent, Busy, Swept
  <1>3. ASSUME UNCHANGED job, NEW signal \in {Start, Retry, Cancel}, Apply(signal) \/ Refuse(signal)
        PROVE  PreviewParts'
    <2>1. signal \in Sent /\ signal \notin {Completed, Failed}
      BY SentSignals DEF Start, Retry, Cancel, Completed, Failed, Signal
    <2>2. /\ DOMAIN tasks \subseteq DOMAIN tasks'
          /\ \A t \in DOMAIN tasks : tasks'[t] = tasks[t]
          /\ \A t \in DOMAIN tasks' \ DOMAIN tasks : tasks'[t] = "queued"
          /\ execution'.status /= "cancelled" => execution.status /= "cancelled"
          /\ execution'.status = "succeeded" => execution.status = "succeeded"
      BY <1>1, <1>3, <2>1, SignalLeavesTasks
    <2>3. \A r \in Slots : Busy(r) => slots[r].task \in DOMAIN tasks
      BY DEF TaskInvariant, SlotsOwnTasks
    <2>4. TasksMatchPhases'
      BY <1>1, <2>2, <2>3 DEF PreviewParts, TasksMatchPhases, Busy
    <2>5. ClaimsAreHeld'
      BY <1>1, <2>2 DEF PreviewParts, ClaimsAreHeld, Busy, Swept
    <2>6. OpenTaskIsCurrent'
      BY <1>1, <1>3, <2>1, OpenAfterSignal DEF PreviewParts
    <2>7. PreviewPrecedesSuccess'
      BY <1>1, <1>3, <2>2 DEF PreviewParts, PreviewPrecedesSuccess, GoodPreview
    <2> QED BY <2>4, <2>5, <2>6, <2>7 DEF PreviewParts
  <1> QED BY <1>1, <1>2, <1>3 DEF ApiEffects

(* Every step keeps the preview.                                             *)
LEMMA StepKeepsPreview ==
    ASSUME OneStep, ~Overruns, TypeInvariant, TaskInvariant, PreviewInvariant, [Next]_vars
    PROVE  PreviewInvariant'
  <1> SUFFICES ASSUME Undisturbed' PROVE PreviewParts'
    BY DEF PreviewInvariant, PreviewParts
  <1>1. CASE UNCHANGED vars
    <2>1. PreviewParts
      BY <1>1 DEF vars, Undisturbed, PreviewInvariant, PreviewParts
    <2> QED BY <1>1, <2>1 DEF vars, PreviewParts, TasksMatchPhases, ClaimsAreHeld, OpenTaskIsCurrent,
                              Open, PreviewPrecedesSuccess, GoodPreview, Busy, Swept
  <1>2. CASE ApiStep
    <2>1. UNCHANGED <<config, faults>>
      BY <1>2, ApiStepEffects DEF ApiEffects
    <2>2. PreviewParts
      BY <2>1 DEF Undisturbed, PreviewInvariant, PreviewParts
    <2> QED BY <1>2, <2>2, ApiKeepsPreview
  <1>3. ASSUME NEW s \in Slots, SlotStep(s) PROVE PreviewParts'
    <2>1. CASE ProcessingStep(s)
      <3>1. UNCHANGED <<config, faults>>
        BY <2>1, ProcessingEffects
      <3>2. PreviewParts /\ config.kind = "image"
        BY <3>1 DEF Undisturbed, PreviewInvariant, PreviewParts
      <3> QED BY <2>1, <3>2, ProcessingKeepsPreview
    <2>2. CASE WaitForLowLoad(s) \/ Requeue(s) \/ MarkTask(s)
      <3>1. UNCHANGED <<config, faults>>
        BY <2>2, MarkingEffects
      <3>2. PreviewParts
        BY <3>1 DEF Undisturbed, PreviewInvariant, PreviewParts
      <3> QED BY <2>2, <3>2, MarkingKeepsPreview
    <2>3. CASE SlotSignals(s)
      <3>1. UNCHANGED <<config, faults>>
        BY <2>3, SignallingEffects
      <3>2. PreviewParts
        BY <3>1 DEF Undisturbed, PreviewInvariant, PreviewParts
      <3> QED BY <2>3, <3>2, SignalsKeepPreview
    <2>4. CASE ClaimNextAvailable(s)
      <3>1. UNCHANGED <<config, faults>>
        BY <2>4, ClaimEffects
      <3>2. PreviewParts
        BY <3>1 DEF Undisturbed, PreviewInvariant, PreviewParts
      <3> QED BY <2>4, <3>2, ClaimKeepsPreview
    <2>5. CASE AppendSkipped(s) \/ StatementFails(s) \/ Crash(s)
      <3>1. faults' /= faults + 1
        BY DEF Undisturbed, TypeInvariant
      <3>2. /\ UNCHANGED <<config, execution, tasks, job, sweepers, faults>>
            /\ slots[s].phase = "waiting" /\ SlotRests(s)
        BY <2>5, <3>1, LeavingEffects
      <3>3. PreviewParts
        BY <3>2 DEF Undisturbed, PreviewInvariant, PreviewParts
      <3> QED BY <3>2, <3>3, RestKeepsPreview
    <2> QED BY <1>3, <2>1, <2>2, <2>3, <2>4, <2>5, SlotStepKinds
  <1>4. ASSUME NEW w \in Sweepers, Sweep(w) PROVE PreviewParts'
    <2>1. SweepEffects(w)
      BY <1>4, SweepStepEffects
    <2>2. PreviewParts
      BY <2>1 DEF SweepEffects, Undisturbed, PreviewInvariant, PreviewParts
    <2>3. sweepers[w].phase = "idle"
      BY <2>2 DEF PreviewParts, ClaimsAreHeld, Swept
    <2>4. sweepers'[w].task \in DOMAIN tasks /\ Stale(sweepers'[w].task)
      BY <2>1, <2>3 DEF SweepEffects
    <2>5. FALSE
      BY <2>2, <2>4 DEF Stale, PreviewParts, ClaimsAreHeld
    <2> QED BY <2>5
  <1> QED BY <1>1, <1>2, <1>3, <1>4 DEF Next, ApiStep, SlotStep

(* Nothing is open at the beginning.                                         *)
LEMMA NoPreviewAtFirst == Init => PreviewInvariant
  <1> SUFFICES ASSUME Init PROVE PreviewParts
    BY DEF PreviewInvariant, PreviewParts
  <1>1. DOMAIN tasks = {} /\ execution.status = "pending"
    BY DEF Init, InitialExecution
  <1>2. (\A s \in Slots : slots[s].phase = "idle") /\ \A w \in Sweepers : sweepers[w].phase = "idle"
    BY IdleFacts DEF Init
  <1> QED BY <1>1, <1>2 DEF PreviewParts, TasksMatchPhases, ClaimsAreHeld, OpenTaskIsCurrent,
                            PreviewPrecedesSuccess, Busy, Swept, RenderPhases

(* A preview whose workflow succeeded is there to be confirmed or used, for  *)
(* any number of slots, sweeps and requests, automatic retries included: as  *)
(* long as no process dies, no statement fails and no task outlasts its two  *)
(* hours.                                                                    *)
THEOREM SuccessKeepsThePreview ==
    ASSUME OneStep, ~Overruns
    PROVE  Spec => []PreviewIsDurable
  <1>1. Init => PreviewInvariant
    BY NoPreviewAtFirst
  <1>2. TypeInvariant /\ TaskInvariant /\ PreviewInvariant /\ [Next]_vars => PreviewInvariant'
    BY StepKeepsPreview
  <1>3. PreviewInvariant => PreviewIsDurable
    BY DEF PreviewInvariant, PreviewIsDurable, Undisturbed, PreviewPrecedesSuccess, GoodPreview
  <1> QED BY <1>1, <1>2, <1>3, PagesInvariance, TasksHaveOneOwner, PTL DEF Spec
=============================================================================
