----------------------- MODULE WorkflowRuntimeProofs -----------------------
(***************************************************************************)
(* The safety of WorkflowRuntime for every workflow definition, every      *)
(* number of concurrent requests and workers, with and without faults and  *)
(* crashes.                                                                *)
(***************************************************************************)
EXTENDS WorkflowRuntime, WorkflowDefinitionsProofs

-----------------------------------------------------------------------------
(* The definitions.                                                          *)

(* What the event of a transition says about it.                             *)
LEMMA EventDescribesTransition ==
    ASSUME NEW row \in Executions, NEW signal \in Signals
    PROVE  LET event == PersistedEvent(row, signal)
               next == ExecutionFromTransition(row, signal)
           IN  /\ event \in EventRecords
               /\ next.stage = RecordedStage(event)
               /\ next.status = RecordedStatus(event)
               /\ EnqueuedTasks(row, signal) = EnqueuedBy(event)
               /\ EnqueuedBy(event) /= {} => \E key \in TaskKeys : EnqueuedBy(event) = {key}
  <1> DEFINE event == PersistedEvent(row, signal)
             next == NextState(row, signal)
  <1>1. event.name = EventName(row, signal) /\ event.task_key = signal.task_key
        /\ event.result = IF signal.kind = "step_failed" THEN signal.result ELSE "plain"
    BY DEF PersistedEvent, Event
  <1>2. EventName(row, signal) \in EventNames
    BY DEF EventName, CompletedName, EventNames, Signals, SignalKinds
  <1>3. event \in EventRecords
    BY <1>2 DEF PersistedEvent, Event, EventRecords, Signals, Results
  <1>a. \A stage, status : Move(row, stage, status).stage = stage
                           /\ Move(row, stage, status).status = status
    BY DEF Move, Executions
  <1>4. CASE signal.kind = "start"
    <2>1. event.name = "started" BY <1>1, <1>4 DEF EventName
    <2>2. next.stage = RecordedStage(event) /\ next.status = RecordedStatus(event)
      BY <1>4, <1>a, <2>1 DEF NextState, RecordedStage, RecordedStatus
    <2>3. EnqueuedTasks(row, signal) = {Steps[1].task_key}
          /\ EnqueuedBy(event) = {Steps[1].task_key}
      BY <1>4, <2>1 DEF EnqueuedTasks, EnqueuedBy
    <2> QED BY <1>3, <2>2, <2>3, ExecutionType, StepTypes
  <1>5. CASE signal.kind = "step_completed"
    <2>0. signal.task_key \in TaskKeys
      BY <1>5 DEF Signals
    <2>1. CASE Unsupported(signal)
      <3>1. event.name = "unsupported_source"
        BY <1>1, <1>5, <2>1 DEF EventName, CompletedName
      <3>2. next.stage = RecordedStage(event) /\ next.status = RecordedStatus(event)
        BY <1>5, <1>a, <2>1, <3>1 DEF NextState, AfterStep, RecordedStage, RecordedStatus
      <3>3. EnqueuedTasks(row, signal) = {} /\ EnqueuedBy(event) = {}
        BY <1>5, <2>1, <3>1 DEF EnqueuedTasks, EnqueuedBy
      <3> QED BY <1>3, <3>2, <3>3, ExecutionType
    <2>2. CASE ~Unsupported(signal) /\ IsLast(signal.task_key)
      <3>1. event.name \in {"step_completed", "completed"}
        BY <1>1, <1>5, <2>2 DEF EventName, CompletedName
      <3>2. next.stage = RecordedStage(event) /\ next.status = RecordedStatus(event)
        BY <1>1, <1>5, <1>a, <2>2, <3>1 DEF NextState, AfterStep, RecordedStage, RecordedStatus
      <3>3. EnqueuedTasks(row, signal) = {} /\ EnqueuedBy(event) = {}
        BY <1>1, <1>5, <2>2, <3>1 DEF EnqueuedTasks, EnqueuedBy
      <3> QED BY <1>3, <3>2, <3>3, ExecutionType
    <2>3. CASE ~Unsupported(signal) /\ ~IsLast(signal.task_key)
      <3>1. event.name = "step_completed"
        BY <1>1, <1>5, <2>3 DEF EventName, CompletedName
      <3>2. next.stage = RecordedStage(event) /\ next.status = RecordedStatus(event)
        BY <1>1, <1>5, <1>a, <2>3, <3>1 DEF NextState, AfterStep, RecordedStage, RecordedStatus
      <3>3. EnqueuedTasks(row, signal) = {Steps[StepOf(signal.task_key) + 1].task_key}
            /\ EnqueuedBy(event) = {Steps[StepOf(signal.task_key) + 1].task_key}
        BY <1>1, <1>5, <2>3, <3>1 DEF EnqueuedTasks, EnqueuedBy
      <3>4. Steps[StepOf(signal.task_key) + 1].task_key \in TaskKeys
        BY <2>0, <2>3, NextStep, StepTypes
      <3> QED BY <1>3, <3>2, <3>3, <3>4, ExecutionType
    <2> QED BY <2>1, <2>2, <2>3
  <1>6. CASE signal.kind = "step_failed"
    <2>1. event.name = "step_failed" BY <1>1, <1>6 DEF EventName
    <2>2. FailedStage(event) = FailedStage(signal)
      BY <1>1, <1>6 DEF FailedStage, Unsupported
    <2>3. next.stage = RecordedStage(event) /\ next.status = RecordedStatus(event)
      BY <1>6, <1>a, <2>1, <2>2 DEF NextState, RecordedStage, RecordedStatus
    <2>4. EnqueuedTasks(row, signal) = {} /\ EnqueuedBy(event) = {}
      BY <1>6, <2>1 DEF EnqueuedTasks, EnqueuedBy
    <2> QED BY <1>3, <2>3, <2>4, ExecutionType
  <1>7. CASE signal.kind = "retry_requested"
    <2>1. EnqueuedTasks(row, signal) = {}
      BY <1>7 DEF EnqueuedTasks
    <2>2. CASE row.retries_remaining = 0
      <3>1. event.name = "dead_lettered" BY <1>1, <1>7, <2>2 DEF EventName
      <3>2. next.stage = RecordedStage(event) /\ next.status = RecordedStatus(event)
        BY <1>7, <1>a, <2>2, <3>1 DEF NextState, AfterRetry, RecordedStage, RecordedStatus
      <3>3. EnqueuedBy(event) = {} BY <3>1 DEF EnqueuedBy
      <3> QED BY <1>3, <2>1, <3>2, <3>3, ExecutionType
    <2>3. CASE row.retries_remaining /= 0
      <3>1. event.name = "retry_requested" BY <1>1, <1>7, <2>3 DEF EventName
      <3>2. next.stage = "queued" /\ next.status = "pending"
        BY <1>7, <2>3 DEF NextState, AfterRetry, Move, Executions
      <3>3. next.stage = RecordedStage(event) /\ next.status = RecordedStatus(event)
        BY <3>1, <3>2 DEF RecordedStage, RecordedStatus
      <3>4. EnqueuedBy(event) = {} BY <3>1 DEF EnqueuedBy
      <3> QED BY <1>3, <2>1, <3>3, <3>4, ExecutionType
    <2> QED BY <2>2, <2>3
  <1>8. CASE signal.kind \notin {"start", "step_completed", "step_failed", "retry_requested"}
    <2>1. event.name = "cancel_requested" BY <1>1, <1>8 DEF EventName
    <2>2. next.stage = RecordedStage(event) /\ next.status = RecordedStatus(event)
      BY <1>8, <1>a, <2>1 DEF NextState, RecordedStage, RecordedStatus
    <2>3. EnqueuedTasks(row, signal) = {} /\ EnqueuedBy(event) = {}
      BY <1>8, <2>1 DEF EnqueuedTasks, EnqueuedBy
    <2> QED BY <1>3, <2>2, <2>3, ExecutionType
  <1> QED BY <1>4, <1>5, <1>6, <1>7, <1>8

-----------------------------------------------------------------------------
(* The tables.                                                               *)

(* The last number of 1 .. n is n.                                           *)
LEMMA LastOfInterval ==
    ASSUME NEW n \in Nat \ {0}
    PROVE  Last(1 .. n) = n
  <1>1. n \in 1 .. n /\ \A m \in 1 .. n : m <= n
    OBVIOUS
  <1>2. \A k \in 1 .. n : (\A m \in 1 .. n : m <= k) => k = n
    OBVIOUS
  <1> QED BY <1>1, <1>2 DEF Last

(* Every fact task belongs to a task of the ingest worker.                   *)
FactTasksFit ==
    \A n \in DOMAIN factTasks : /\ factTasks[n] \in TaskStatuses
                                /\ n \in DOMAIN tasks
                                /\ tasks[n].task_key \in IngestTaskKeys

(* A step that leaves the row, the log and the tasks' keys alone keeps what *)
(* they say, and what they say about each call.                              *)
QuietStep ==
    /\ UNCHANGED <<execution, events>>
    /\ DOMAIN tasks' = DOMAIN tasks
    /\ \A n \in DOMAIN tasks : tasks'[n].task_key = tasks[n].task_key
    /\ DOMAIN factTasks \subseteq DOMAIN factTasks'
    /\ FactTasksFit'

(* Such a step keeps all that the invariant says of log, row and queue.      *)
LEMMA QuietStepKeeps ==
    ASSUME InductiveInvariant, QuietStep
    PROVE  /\ LastSequence' = LastSequence
           /\ LogGapFree'
           /\ RowMatchesNewestEvent'
           /\ TasksMatchEvents'
           /\ AttemptBudget'
           /\ \A n \in DOMAIN tasks : CompletionLogged(n) => CompletionLogged(n)'
           /\ \A p \in Processes, call \in Calls : ProcessOK(p, call) => ProcessOK(p, call)'
  <1>1. LastSequence' = LastSequence /\ LogGapFree'
    BY DEF QuietStep, InductiveInvariant, LastSequence, LogGapFree
  <1>2. RowMatchesNewestEvent'
    BY <1>1 DEF QuietStep, InductiveInvariant, RowMatchesNewestEvent
  <1>3. TasksMatchEvents'
    BY DEF QuietStep, InductiveInvariant, TasksMatchEvents, FactTasksFit
  <1>4. AttemptBudget'
    BY DEF QuietStep, InductiveInvariant, AttemptBudget
  <1>5. \A n \in DOMAIN tasks : CompletionLogged(n) => CompletionLogged(n)'
    BY DEF QuietStep, CompletionLogged
  <1>6. ASSUME NEW p \in Processes, NEW call \in Calls, ProcessOK(p, call)
        PROVE  ProcessOK(p, call)'
    <2>1. DrawsNumber(call)'
      BY <1>1, <1>6 DEF ProcessOK, DrawsNumber
    <2>2. SnapshotIsRow(call)'
      BY <1>6 DEF ProcessOK, SnapshotIsRow
    <2>3. ASSUME p \in Workers PROVE HoldsTask(call)' /\ AcknowledgedIsLogged(call)'
      <3>1. HoldsTask(call) /\ AcknowledgedIsLogged(call)
        BY <1>6, <2>3 DEF ProcessOK
      <3>2. HoldsTask(call)'
        BY <3>1 DEF HoldsTask, QuietStep
      <3>3. AcknowledgedIsLogged(call)'
        BY <1>5, <3>1 DEF HoldsTask, AcknowledgedIsLogged
      <3> QED BY <3>2, <3>3
    <2> QED BY <2>1, <2>2, <2>3 DEF ProcessOK
  <1> QED BY <1>1, <1>2, <1>3, <1>4, <1>5, <1>6

(* A quiet step in which one process goes on to a call that satisfies the    *)
(* invariant keeps it.                                                       *)
LEMMA CallStep ==
    ASSUME InductiveInvariant, QuietStep,
           NEW p \in Processes, NEW new \in Calls, ProcessOK(p, new),
           calls' = [calls EXCEPT ![p] = new],
           \A n \in DOMAIN tasks : tasks'[n] \in TaskRecords,
           \A n \in DOMAIN tasks : tasks'[n].status = "succeeded" =>
                tasks[n].status = "succeeded" \/ CompletionLogged(n),
           requests' \in 0 .. MaxRequests
    PROVE  InductiveInvariant'
  <1>1. TypeOK'
    <2>1. /\ DOMAIN factTasks' \subseteq Nat
          /\ \A n \in DOMAIN factTasks' : factTasks'[n] \in TaskStatuses
      BY DEF InductiveInvariant, TypeOK, QuietStep, FactTasksFit
    <2> QED BY <2>1 DEF InductiveInvariant, TypeOK, QuietStep
  <1>2. (\A q \in Processes : ProcessOK(q, calls[q]))'
    <2>1. SUFFICES ASSUME NEW q \in Processes PROVE ProcessOK(q, calls[q])'
      BY DEF Processes
    <2>2. PICK call \in Calls : call = calls'[q] /\ ProcessOK(q, call)
      <3>1. calls'[q] = IF q = p THEN new ELSE calls[q]
        BY DEF InductiveInvariant, TypeOK
      <3> QED BY <3>1 DEF InductiveInvariant, TypeOK
    <2>3. ProcessOK(q, call)'
      BY <2>2, QuietStepKeeps
    <2> QED BY <2>2, <2>3
            DEF ProcessOK, DrawsNumber, SnapshotIsRow, HoldsTask, AcknowledgedIsLogged
  <1>3. SucceededTaskIsLogged'
    BY QuietStepKeeps DEF InductiveInvariant, SucceededTaskIsLogged, QuietStep
  <1> QED BY <1>1, <1>2, <1>3, QuietStepKeeps DEF InductiveInvariant

-----------------------------------------------------------------------------
(* The calls.                                                                *)

(* A process between two requests holds nothing.                             *)
LEMMA IdleCallOK ==
    /\ IdleCall \in Calls
    /\ \A p : ProcessOK(p, IdleCall)
  <1>1. InitialExecution \in Executions
    BY InitialRetriesAssumption DEF InitialExecution, Executions, Stages, Statuses
  <1>2. Signal("start", NoKey, "plain") \in Signals
    BY DEF Signal, Signals, SignalKinds, Results
  <1>3. IdleCall \in Calls
    BY <1>1, <1>2 DEF IdleCall, Calls, Phases, Verdicts
  <1>4. \A p : ProcessOK(p, IdleCall)
    BY DEF IdleCall, ProcessOK, DrawsNumber, SnapshotIsRow, HoldsTask, AcknowledgedIsLogged
  <1> QED BY <1>3, <1>4

(* What a worker may report of its task, or send when it has marked it.      *)
Reportable(signal, task, verdict) ==
    \/ /\ signal.kind \in StepSignals
       /\ task \in DOMAIN tasks
       /\ signal.task_key = tasks[task].task_key
    \/ signal.kind \in {"retry_requested", "start"} /\ verdict = "none"

(* The call of a process that starts to apply a signal.                      *)
LEMMA SendOK ==
    ASSUME NEW p \in Processes, NEW signal \in Signals, NEW task \in Nat, NEW verdict \in Verdicts,
           p \in Workers => Reportable(signal, task, verdict),
           NEW new, new = [IdleCall EXCEPT !.phase = "read", !.signal = signal, !.task = task,
                                           !.verdict = verdict]
    PROVE  new \in Calls /\ ProcessOK(p, new)
  <1>1. /\ new \in Calls /\ new.phase = "read" /\ new.signal = signal /\ new.task = task
        /\ new.verdict = verdict
    BY IdleCallOK DEF Calls, Phases
  <1>2. p \in Workers => HoldsTask(new)
    BY <1>1 DEF HoldsTask, Reportable
  <1> QED BY <1>1, <1>2 DEF ProcessOK, DrawsNumber, SnapshotIsRow, AcknowledgedIsLogged

(* A call that only moves to a phase in which nothing is promised.           *)
LEMMA ErrOK ==
    ASSUME NEW p \in Processes, NEW call \in Calls, ProcessOK(p, call),
           call.phase \in {"read", "begin", "commit"}
    PROVE  [call EXCEPT !.phase = "err"] \in Calls
           /\ ProcessOK(p, [call EXCEPT !.phase = "err"])
  BY DEF Calls, Phases, ProcessOK, DrawsNumber, SnapshotIsRow, HoldsTask, AcknowledgedIsLogged

(* A step that leaves the tables alone is quiet.                             *)
LEMMA UnchangedTables ==
    ASSUME InductiveInvariant, UNCHANGED <<execution, events, tasks>>,
           UNCHANGED factTasks \/ (DOMAIN factTasks \subseteq DOMAIN factTasks' /\ FactTasksFit')
    PROVE  /\ QuietStep
           /\ \A n \in DOMAIN tasks : tasks'[n] \in TaskRecords
           /\ \A n \in DOMAIN tasks : tasks'[n].status = "succeeded" =>
                tasks[n].status = "succeeded" \/ CompletionLogged(n)
  BY DEF InductiveInvariant, TypeOK, QuietStep, FactTasksFit, TasksMatchEvents

(* Marking a task is quiet.                                                  *)
LEMMA SetTaskKeeps ==
    ASSUME InductiveInvariant, UNCHANGED <<execution, events, factTasks>>,
           NEW n \in DOMAIN tasks, NEW status \in TaskStatuses, SetTask(n, status),
           status = "succeeded" => CompletionLogged(n)
    PROVE  /\ QuietStep
           /\ \A m \in DOMAIN tasks : tasks'[m] \in TaskRecords
           /\ \A m \in DOMAIN tasks : tasks'[m].status = "succeeded" =>
                tasks[m].status = "succeeded" \/ CompletionLogged(m)
  <1>1. DOMAIN tasks' = DOMAIN tasks
        /\ \A m \in DOMAIN tasks :
              tasks'[m] = IF m = n THEN [tasks[m] EXCEPT !.status = status] ELSE tasks[m]
    BY DEF SetTask
  <1>2. \A m \in DOMAIN tasks : tasks[m] \in TaskRecords
    BY DEF InductiveInvariant, TypeOK
  <1>3. \A m \in DOMAIN tasks :
          /\ tasks'[m] \in TaskRecords
          /\ tasks'[m].task_key = tasks[m].task_key
          /\ tasks'[m].status = IF m = n THEN status ELSE tasks[m].status
    BY <1>1, <1>2 DEF TaskRecords
  <1>4. FactTasksFit'
    BY <1>1, <1>3 DEF FactTasksFit, InductiveInvariant, TypeOK, TasksMatchEvents
  <1> QED BY <1>1, <1>3, <1>4 DEF QuietStep

-----------------------------------------------------------------------------
(* The steps.                                                                *)

(* At first the log has one event and nobody is at work.                     *)
LEMMA InitOK == Init => InductiveInvariant
  <1> SUFFICES ASSUME Init PROVE InductiveInvariant
    OBVIOUS
  <1>1. DOMAIN events = 1 .. 1 /\ events[1] = Event("created", NoKey, "plain")
    BY DEF Init
  <1>2. LastSequence = 1
    <2>1. 1 \in Nat \ {0}
      OBVIOUS
    <2>2. Last(1 .. 1) = 1
      BY <2>1, LastOfInterval
    <2> QED BY <1>1, <2>2 DEF LastSequence
  <1>3. InitialExecution \in Executions /\ Budget(InitialExecution)
    BY InitialRetriesAssumption DEF InitialExecution, Executions, Stages, Statuses, Budget
  <1>4. DOMAIN tasks = {}
    BY DEF Init
  <1>5. calls \in [Processes -> Calls] /\ \A p \in Processes : ProcessOK(p, calls[p])
    BY IdleCallOK DEF Init
  <1>6. TypeOK
    BY <1>1, <1>3, <1>4, <1>5, RuntimeAssumption
       DEF Init, TypeOK, EventRecords, Event, EventNames, Results
  <1>7. RowMatchesNewestEvent
    BY <1>1, <1>2 DEF Init, RowMatchesNewestEvent, RecordedStage, RecordedStatus,
                      Event, InitialExecution
  <1>8. TasksMatchEvents
    <2>1. EnqueuedBy(events[1]) = {}
      BY <1>1 DEF EnqueuedBy, Event
    <2> QED BY <1>1, <1>4, <2>1 DEF TasksMatchEvents, Init
  <1> QED BY <1>1, <1>2, <1>3, <1>4, <1>5, <1>6, <1>7, <1>8
          DEF InductiveInvariant, LogGapFree, AttemptBudget, SucceededTaskIsLogged, Init

(* A process that sends a signal and touches no table.                       *)
LEMMA SendStep ==
    ASSUME InductiveInvariant, UNCHANGED <<execution, events, tasks>>,
           UNCHANGED factTasks \/ (DOMAIN factTasks \subseteq DOMAIN factTasks' /\ FactTasksFit'),
           requests' \in 0 .. MaxRequests,
           NEW p \in Processes, NEW signal \in Signals, NEW verdict \in Verdicts,
           Report(p, signal, calls[p].task, verdict),
           p \in Workers => Reportable(signal, calls[p].task, verdict)
    PROVE  InductiveInvariant'
  <1>1. calls[p].task \in Nat
    BY DEF InductiveInvariant, TypeOK, Calls
  <1>2. PICK new : new = [IdleCall EXCEPT !.phase = "read", !.signal = signal,
                                          !.task = calls[p].task, !.verdict = verdict]
    OBVIOUS
  <1>3. new \in Calls /\ ProcessOK(p, new)
    BY <1>1, <1>2, SendOK
  <1>4. calls' = [calls EXCEPT ![p] = new]
    BY <1>2 DEF Report
  <1> QED BY <1>3, <1>4, UnchangedTables, CallStep

(* Accepting a request touches no table.                                     *)
LEMMA RequestStep ==
    ASSUME InductiveInvariant, NEW c \in Clients, Request(c)
    PROVE  InductiveInvariant'
  <1>1. c \in Processes /\ c \notin Workers
    BY RuntimeAssumption DEF Processes
  <1>2. UNCHANGED <<execution, events, tasks, factTasks>> /\ requests' \in 0 .. MaxRequests
    BY RuntimeAssumption DEF Request, InductiveInvariant, TypeOK
  <1>3. PICK op \in ClientOps : \E signal \in RequestedSignals(op) : Send(c, signal)
    BY DEF Request
  <1>4. RequestedSignals(op) \subseteq Signals
    BY DEF RequestedSignals, Signal, Signals, SignalKinds, Results, ReportedResults
  <1>5. PICK signal \in Signals : Send(c, signal)
    BY <1>3, <1>4
  <1> QED BY <1>1, <1>2, <1>5, SendStep DEF Verdicts, Send

(* Neither does the second signal of a retry, nor its answer.                *)
LEMMA RetryStep ==
    ASSUME InductiveInvariant, NEW p \in Processes, Retry(p)
    PROVE  InductiveInvariant'
  <1>1. UNCHANGED <<execution, events, tasks, factTasks>> /\ requests' \in 0 .. MaxRequests
    BY DEF Retry, Restart, Respond, InductiveInvariant, TypeOK
  <1>2. CASE Restart(p)
    <2>1. PICK signal : signal = Signal("start", NoKey, "plain")
      OBVIOUS
    <2>2. signal \in Signals /\ signal.kind = "start" /\ Send(p, signal)
      BY <1>2, <2>1 DEF Restart, Signal, Signals, SignalKinds, Results
    <2> QED BY <1>1, <2>2, SendStep DEF Verdicts, Reportable, Send
  <1>3. CASE Respond(p)
    BY <1>1, <1>3, IdleCallOK, UnchangedTables, CallStep DEF Respond, Return
  <1> QED BY <1>2, <1>3 DEF Retry

(* Claiming, processing and marking touches the tasks only.                  *)
LEMMA WorkerStep ==
    ASSUME InductiveInvariant, NEW w \in Workers, Worker(w)
    PROVE  InductiveInvariant'
  <1>1. /\ w \in Processes /\ calls[w] \in Calls /\ calls[w].task \in Nat
        /\ ProcessOK(w, calls[w]) /\ HoldsTask(calls[w]) /\ AcknowledgedIsLogged(calls[w])
        /\ calls[w].signal \in Signals
    BY DEF Processes, InductiveInvariant, TypeOK, Calls, ProcessOK
  <1>2. UNCHANGED <<execution, events>> /\ requests' \in 0 .. MaxRequests
    BY DEF Worker, ClaimNextAvailable, ProcessTask, MarkSucceeded, MarkFailed, FailStep,
           ClaimFactTask, MarkFactTask, AbandonTask, Crash, InductiveInvariant, TypeOK
  <1>3. ASSUME Return(w), UNCHANGED <<tasks, factTasks>> PROVE InductiveInvariant'
    BY <1>1, <1>2, <1>3, IdleCallOK, UnchangedTables, CallStep DEF Return
  <1>4. ASSUME Return(w), UNCHANGED factTasks,
               NEW status \in TaskStatuses, SetTask(calls[w].task, status),
               calls[w].task \in DOMAIN tasks,
               status = "succeeded" => CompletionLogged(calls[w].task)
        PROVE  InductiveInvariant'
    BY <1>1, <1>2, <1>4, IdleCallOK, SetTaskKeeps, CallStep DEF Return
  <1>5. CASE ClaimNextAvailable(w)
    <2>1. PICK n \in DOMAIN tasks :
                 /\ SetTask(n, "claimed")
                 /\ calls' = [calls EXCEPT ![w].phase = "work", ![w].task = n]
      BY <1>5 DEF ClaimNextAvailable
    <2> DEFINE new == [calls[w] EXCEPT !.phase = "work", !.task = n]
    <2>2. new \in Calls /\ ProcessOK(w, new)
      <3>1. n \in Nat
        BY DEF InductiveInvariant, TypeOK
      <3> QED BY <1>1, <3>1
              DEF Calls, Phases, ProcessOK, DrawsNumber, SnapshotIsRow, HoldsTask,
                  AcknowledgedIsLogged
    <2>3. calls' = [calls EXCEPT ![w] = new]
      BY <2>1
    <2>4. "claimed" \in TaskStatuses /\ "claimed" /= "succeeded" /\ UNCHANGED factTasks
      BY <1>5 DEF TaskStatuses, ClaimNextAvailable
    <2> HIDE DEF new
    <2> QED BY <1>1, <1>2, <2>1, <2>2, <2>3, <2>4, SetTaskKeeps, CallStep
  <1>6. CASE ProcessTask(w)
    <2> DEFINE n == calls[w].task
               key == tasks[n].task_key
    <2>1. n \in DOMAIN tasks /\ key \in TaskKeys /\ UNCHANGED tasks
      BY <1>1, <1>6 DEF ProcessTask, HoldsTask, InductiveInvariant, TypeOK, TaskRecords
    <2>2. UNCHANGED factTasks \/ (DOMAIN factTasks \subseteq DOMAIN factTasks' /\ FactTasksFit')
      <3>1. CASE UNCHANGED factTasks
        BY <3>1
      <3>2. CASE /\ key \in IngestTaskKeys
                 /\ factTasks' = [m \in DOMAIN factTasks \cup {n} |->
                                    IF m = n THEN "queued" ELSE factTasks[m]]
        <4>1. DOMAIN factTasks' = DOMAIN factTasks \cup {n}
          BY <3>2
        <4>2. ASSUME NEW m \in DOMAIN factTasks'
              PROVE  /\ factTasks'[m] \in TaskStatuses
                     /\ m \in DOMAIN tasks /\ tasks[m].task_key \in IngestTaskKeys
          BY <2>1, <3>2, <4>1 DEF TaskStatuses, InductiveInvariant, TypeOK, TasksMatchEvents
        <4> QED BY <2>1, <4>1, <4>2 DEF FactTasksFit
      <3> QED BY <1>6, <3>1, <3>2 DEF ProcessTask, CreateFactTask
    <2>3. PICK kind \in StepSignals, result \in Results, verdict \in Verdicts :
                 Report(w, Signal(kind, key, result), n, verdict)
      BY <1>6 DEF ProcessTask, StepSignals, Send, PoorVerdicts, Verdicts, ReportedResults, Results
    <2>4. PICK signal : signal = Signal(kind, key, result)
      OBVIOUS
    <2>5. signal \in Signals /\ signal.kind \in StepSignals /\ signal.task_key = key
      BY <2>1, <2>4 DEF Signal, Signals, SignalKinds, StepSignals
    <2> QED BY <1>1, <1>2, <2>1, <2>2, <2>3, <2>4, <2>5, SendStep DEF Reportable
  <1>7. CASE MarkSucceeded(w)
    <2>1. calls[w].task \in DOMAIN tasks /\ CompletionLogged(calls[w].task)
      BY <1>1, <1>7 DEF MarkSucceeded, HoldsTask, AcknowledgedIsLogged
    <2> QED BY <1>4, <1>7, <2>1 DEF MarkSucceeded, TaskStatuses
  <1>8. CASE MarkFailed(w)
    <2>1. /\ calls[w].task \in DOMAIN tasks /\ SetTask(calls[w].task, "failed")
          /\ UNCHANGED factTasks /\ "failed" \in TaskStatuses
      BY <1>1, <1>8 DEF MarkFailed, HoldsTask, TaskStatuses
    <2>2. CASE Return(w)
      BY <1>4, <2>1, <2>2
    <2>3. CASE Report(w, Signal("retry_requested", NoKey, "plain"), 0, "none")
      <3>1. PICK signal : signal = Signal("retry_requested", NoKey, "plain")
        OBVIOUS
      <3>2. signal \in Signals /\ signal.kind = "retry_requested" /\ "none" \in Verdicts
        BY <3>1 DEF Signal, Signals, SignalKinds, Results, Verdicts
      <3>3. PICK new : new = [IdleCall EXCEPT !.phase = "read", !.signal = signal, !.task = 0,
                                              !.verdict = "none"]
        OBVIOUS
      <3>4. Reportable(signal, 0, "none")
        BY <3>2 DEF Reportable
      <3>5. new \in Calls /\ ProcessOK(w, new)
        BY <1>1, <2>1, <3>2, <3>3, <3>4, SendOK
      <3>6. calls' = [calls EXCEPT ![w] = new]
        BY <2>3, <3>1, <3>3 DEF Report
      <3> QED BY <1>1, <1>2, <2>1, <3>5, <3>6, SetTaskKeeps, CallStep
    <2> QED BY <1>8, <2>2, <2>3 DEF MarkFailed
  <1>9. CASE FailStep(w)
    <2>1. /\ calls[w].task \in DOMAIN tasks /\ UNCHANGED <<tasks, factTasks>>
          /\ calls[w].signal.task_key = tasks[calls[w].task].task_key
          /\ tasks[calls[w].task].task_key \in TaskKeys
      BY <1>1, <1>9 DEF FailStep, HoldsTask, InductiveInvariant, TypeOK, TaskRecords
    <2>2. PICK signal : signal = Signal("step_failed", calls[w].signal.task_key, "plain")
      OBVIOUS
    <2>3. /\ signal \in Signals /\ signal.kind \in StepSignals /\ "none" \in Verdicts
          /\ signal.task_key = tasks[calls[w].task].task_key
      BY <2>1, <2>2 DEF Signal, Signals, SignalKinds, Results, StepSignals, Verdicts
    <2>4. Send(w, signal)
      BY <1>9, <2>2 DEF FailStep
    <2> QED BY <1>1, <1>2, <2>1, <2>3, <2>4, SendStep DEF Reportable, Send
  <1>10. CASE ClaimFactTask(w)
    <2>1. PICK n \in DOMAIN factTasks :
                 /\ factTasks' = [factTasks EXCEPT ![n] = "claimed"]
                 /\ calls' = [calls EXCEPT ![w].phase = "fact", ![w].task = n]
      BY <1>10 DEF ClaimFactTask
    <2>2. PICK new : new = [calls[w] EXCEPT !.phase = "fact", !.task = n]
      OBVIOUS
    <2>3. new \in Calls /\ new.phase = "fact" /\ new.task = n
      BY <1>1, <2>1, <2>2 DEF Calls, Phases, InductiveInvariant, TypeOK
    <2>4. ProcessOK(w, new)
      BY <2>1, <2>3 DEF ProcessOK, DrawsNumber, SnapshotIsRow, HoldsTask, AcknowledgedIsLogged
    <2>5. UNCHANGED tasks /\ DOMAIN factTasks' = DOMAIN factTasks /\ FactTasksFit'
      BY <1>10, <2>1
         DEF ClaimFactTask, FactTasksFit, TaskStatuses, InductiveInvariant, TypeOK, TasksMatchEvents
    <2> QED BY <1>1, <1>2, <2>1, <2>2, <2>3, <2>4, <2>5, UnchangedTables, CallStep
  <1>11. CASE MarkFactTask(w)
    <2>1. PICK status \in TaskStatuses : factTasks' = [factTasks EXCEPT ![calls[w].task] = status]
      BY <1>11 DEF MarkFactTask, TaskStatuses
    <2>2. UNCHANGED tasks /\ DOMAIN factTasks' = DOMAIN factTasks /\ FactTasksFit'
      BY <1>11, <2>1 DEF MarkFactTask, FactTasksFit, InductiveInvariant, TypeOK, TasksMatchEvents
    <2> QED BY <1>1, <1>2, <1>11, <2>2, IdleCallOK, UnchangedTables, CallStep
            DEF MarkFactTask, Return
  <1>12. CASE AbandonTask(w)
    BY <1>3, <1>12 DEF AbandonTask
  <1>13. CASE Crash(w)
    BY <1>3, <1>13 DEF Crash
  <1> QED BY <1>5, <1>6, <1>7, <1>8, <1>9, <1>10, <1>11, <1>12, <1>13 DEF Worker

(* Everything but the commit is quiet.                                       *)
LEMMA ApplyStep ==
    ASSUME InductiveInvariant, NEW p \in Processes,
           ReadExecution(p) \/ BeginAdvance(p) \/ RollbackAdvance(p) \/ StorageFault(p)
    PROVE  InductiveInvariant'
  <1>1. calls[p] \in Calls /\ ProcessOK(p, calls[p])
    BY DEF InductiveInvariant, TypeOK
  <1>2. UNCHANGED <<execution, events, tasks, factTasks>> /\ requests' \in 0 .. MaxRequests
    BY DEF ReadExecution, BeginAdvance, RollbackAdvance, StorageFault,
           InductiveInvariant, TypeOK
  <1>3. ASSUME SetPhase(p, "err"), calls[p].phase \in {"read", "begin", "commit"}
        PROVE  InductiveInvariant'
    <2> DEFINE new == [calls[p] EXCEPT !.phase = "err"]
    <2>1. new \in Calls /\ ProcessOK(p, new)
      BY <1>1, <1>3, ErrOK
    <2>2. calls' = [calls EXCEPT ![p] = new]
      BY <1>3 DEF SetPhase
    <2> HIDE DEF new
    <2> QED BY <1>2, <2>1, <2>2, UnchangedTables, CallStep
  <1>4. CASE ReadExecution(p) /\ ~Accepts(execution, calls[p].signal)
    BY <1>3, <1>4 DEF ReadExecution
  <1>5. CASE ReadExecution(p) /\ Accepts(execution, calls[p].signal)
    <2> DEFINE new == [calls[p] EXCEPT !.phase = "begin", !.snapshot = execution]
    <2>1. execution \in Executions /\ Budget(execution)
      BY DEF InductiveInvariant, TypeOK, AttemptBudget
    <2>2. /\ new \in Calls /\ new.phase = "begin" /\ new.snapshot = execution
          /\ new.signal = calls[p].signal /\ new.task = calls[p].task
          /\ new.verdict = calls[p].verdict
      BY <1>1, <2>1 DEF Calls, Phases
    <2>3. calls[p].phase = "read" /\ calls' = [calls EXCEPT ![p] = new]
      BY <1>5 DEF ReadExecution
    <2> HIDE DEF new
    <2>4. ProcessOK(p, new)
      BY <1>1, <1>5, <2>1, <2>2, <2>3
         DEF ProcessOK, DrawsNumber, SnapshotIsRow, HoldsTask, AcknowledgedIsLogged
    <2> QED BY <1>2, <2>2, <2>3, <2>4, UnchangedTables, CallStep
  <1>6. CASE BeginAdvance(p)
    <2> DEFINE new == [calls[p] EXCEPT !.phase = "commit", !.sequence = NextSequence]
    <2>1. NextSequence \in Nat /\ NextSequence \in 1 .. LastSequence + 1
      BY DEF InductiveInvariant, NextSequence
    <2>2. /\ new \in Calls /\ new.phase = "commit" /\ new.sequence = NextSequence
          /\ new.snapshot = calls[p].snapshot
          /\ new.signal = calls[p].signal /\ new.task = calls[p].task
          /\ new.verdict = calls[p].verdict
      BY <1>1, <2>1 DEF Calls, Phases
    <2>3. calls[p].phase = "begin" /\ calls' = [calls EXCEPT ![p] = new]
      BY <1>6 DEF BeginAdvance
    <2> HIDE DEF new
    <2>4. ProcessOK(p, new)
      BY <1>1, <2>1, <2>2, <2>3
         DEF ProcessOK, DrawsNumber, SnapshotIsRow, HoldsTask, AcknowledgedIsLogged
    <2> QED BY <1>2, <2>2, <2>3, <2>4, UnchangedTables, CallStep
  <1>7. CASE RollbackAdvance(p)
    BY <1>3, <1>7 DEF RollbackAdvance
  <1>8. CASE StorageFault(p)
    BY <1>3, <1>8 DEF StorageFault
  <1> QED BY <1>4, <1>5, <1>6, <1>7, <1>8

(* The commit appends one event, and with it at most one task.               *)
LEMMA CommitStep ==
    ASSUME InductiveInvariant, NEW p \in Processes, CommitAdvance(p)
    PROVE  InductiveInvariant'
  <1> DEFINE call == calls[p]
             last == LastSequence
             next == ExecutionFromTransition(call.snapshot, call.signal)
             event == PersistedEvent(call.snapshot, call.signal)
             enqueued == EnqueuedTasks(call.snapshot, call.signal)
  <1>1. /\ call \in Calls /\ ProcessOK(p, call) /\ call.phase = "commit"
        /\ call.snapshot \in Executions /\ call.signal \in Signals
    BY DEF InductiveInvariant, TypeOK, Calls, CommitAdvance
  <1>2. last \in Nat \ {0} /\ DOMAIN events = 1 .. last
    BY DEF InductiveInvariant, LogGapFree
  <1>3. call.sequence = last + 1
    <2>1. call.sequence \in 1 .. last + 1 /\ call.sequence \notin 1 .. last
      BY <1>1, <1>2 DEF ProcessOK, DrawsNumber, CommitAdvance, SequenceFree
    <2> QED BY <1>2, <2>1
  <1>4. /\ DOMAIN events' = 1 .. last + 1
        /\ events'[last + 1] = event
        /\ \A n \in 1 .. last : events'[n] = events[n]
    BY <1>2, <1>3 DEF CommitAdvance
  <1>5. LastSequence' = last + 1
    <2>1. last + 1 \in Nat \ {0}
      BY <1>2
    <2>2. Last(1 .. last + 1) = last + 1
      BY <2>1, LastOfInterval
    <2> QED BY <1>4, <2>2 DEF LastSequence
  <1>6. next \in Executions /\ Budget(next)
    BY <1>1, ExecutionType, BudgetKept DEF ProcessOK, SnapshotIsRow
  <1>7. /\ event \in EventRecords
        /\ next.stage = RecordedStage(event)
        /\ next.status = RecordedStatus(event)
        /\ enqueued = EnqueuedBy(event)
        /\ EnqueuedBy(event) /= {} => \E key \in TaskKeys : EnqueuedBy(event) = {key}
    BY <1>1, EventDescribesTransition
  <1>8. DOMAIN tasks \subseteq 1 .. last
    BY <1>2 DEF InductiveInvariant, TasksMatchEvents
  <1>9. /\ DOMAIN tasks' = DOMAIN tasks \cup {last + 1 : key \in enqueued}
        /\ \A n \in DOMAIN tasks : tasks'[n] = tasks[n]
        /\ enqueued /= {} => tasks'[last + 1] = [task_key |-> CHOOSE key \in enqueued : TRUE,
                                                 status |-> "queued"]
    BY <1>2, <1>3, <1>8 DEF CommitAdvance
  <1>10. PICK answer \in {"ok", "err"} :
            calls' = [calls EXCEPT ![p].phase = answer, ![p].snapshot = next]
    BY DEF CommitAdvance
  <1> DEFINE new == [call EXCEPT !.phase = answer, !.snapshot = next]
  <1>11. /\ new \in Calls /\ new.phase = answer /\ new.signal = call.signal
         /\ new.task = call.task /\ new.verdict = call.verdict
    BY <1>1, <1>6 DEF Calls, Phases
  <1>12. calls' = [calls EXCEPT ![p] = new]
    BY <1>10
  <1>13. execution' = next /\ requests' = requests /\ factTasks' = factTasks
    BY DEF CommitAdvance
  <1> HIDE DEF call, last, next, event, enqueued, new
  <1>14. TypeOK'
    <2>1. \A n \in DOMAIN events' : events'[n] \in EventRecords
      BY <1>2, <1>4, <1>7 DEF InductiveInvariant, TypeOK
    <2>2. enqueued /= {} => tasks'[last + 1] \in TaskRecords
      BY <1>7, <1>9 DEF TaskRecords, TaskStatuses
    <2>3. DOMAIN tasks' \subseteq Nat /\ \A n \in DOMAIN tasks' : tasks'[n] \in TaskRecords
      BY <1>2, <1>9, <2>2 DEF InductiveInvariant, TypeOK
    <2>4. calls' \in [Processes -> Calls]
      BY <1>11, <1>12 DEF InductiveInvariant, TypeOK
    <2> QED BY <1>2, <1>4, <1>6, <1>13, <2>1, <2>3, <2>4 DEF InductiveInvariant, TypeOK
  <1>15. LastSequence' \in Nat \ {0} /\ LogGapFree'
    BY <1>2, <1>4, <1>5 DEF LogGapFree
  <1>16. RowMatchesNewestEvent'
    BY <1>4, <1>5, <1>7, <1>13 DEF RowMatchesNewestEvent
  <1>17. TasksMatchEvents'
    <2>1. \A n \in DOMAIN tasks' : EnqueuedBy(events'[n]) = {tasks'[n].task_key}
      <3>1. \A n \in DOMAIN tasks : EnqueuedBy(events'[n]) = {tasks'[n].task_key}
        BY <1>4, <1>8, <1>9 DEF InductiveInvariant, TasksMatchEvents
      <3>2. enqueued /= {} => EnqueuedBy(events'[last + 1]) = {tasks'[last + 1].task_key}
        BY <1>4, <1>7, <1>9
      <3> QED BY <1>9, <3>1, <3>2
    <2>2. \A n \in 1 .. last : n \in DOMAIN tasks' <=> EnqueuedBy(events'[n]) /= {}
      BY <1>2, <1>4, <1>9 DEF InductiveInvariant, TasksMatchEvents
    <2>3. last + 1 \in DOMAIN tasks' <=> EnqueuedBy(events'[last + 1]) /= {}
      BY <1>2, <1>4, <1>7, <1>8, <1>9
    <2>4. DOMAIN tasks' \subseteq DOMAIN events'
      BY <1>2, <1>4, <1>8, <1>9
    <2>5. DOMAIN tasks' = {n \in DOMAIN events' : EnqueuedBy(events'[n]) /= {}}
      <3>1. \A n \in DOMAIN events' : n \in 1 .. last \/ n = last + 1
        BY <1>2, <1>4
      <3>2. \A n \in DOMAIN events' : n \in DOMAIN tasks' <=> EnqueuedBy(events'[n]) /= {}
        BY <2>2, <2>3, <3>1
      <3> QED BY <2>4, <3>2
    <2>6. \A n \in DOMAIN factTasks' : n \in DOMAIN tasks' /\ tasks'[n].task_key \in IngestTaskKeys
      BY <1>9, <1>13 DEF InductiveInvariant, TasksMatchEvents
    <2> QED BY <2>1, <2>5, <2>6 DEF TasksMatchEvents
  <1>18. AttemptBudget'
    BY <1>6, <1>13 DEF AttemptBudget
  <1>19. \A n \in DOMAIN tasks : CompletionLogged(n) => CompletionLogged(n)'
    BY <1>2, <1>4, <1>9 DEF CompletionLogged
  <1>20. SucceededTaskIsLogged'
    <2>1. enqueued /= {} => tasks'[last + 1].status /= "succeeded"
      BY <1>9
    <2> QED BY <1>9, <1>19, <2>1 DEF InductiveInvariant, SucceededTaskIsLogged
  <1>21. (\A q \in Processes : ProcessOK(q, calls[q]))'
    <2>1. SUFFICES ASSUME NEW q \in Processes PROVE ProcessOK(q, calls[q])'
      BY DEF Processes
    <2>2. CASE q /= p
      <3>1. calls'[q] = calls[q] /\ ProcessOK(q, calls[q]) /\ calls[q] \in Calls
        BY <1>12, <2>2 DEF InductiveInvariant, TypeOK
      <3>2. DrawsNumber(calls[q])' /\ SnapshotIsRow(calls[q])'
        BY <1>2, <1>5, <3>1 DEF ProcessOK, DrawsNumber, SnapshotIsRow, last
      <3>3. ASSUME q \in Workers
            PROVE  HoldsTask(calls[q])' /\ AcknowledgedIsLogged(calls[q])'
        <4>1. HoldsTask(calls[q]) /\ AcknowledgedIsLogged(calls[q])
          BY <3>1, <3>3 DEF ProcessOK
        <4>2. HoldsTask(calls[q])'
          BY <1>9, <1>13, <3>1, <4>1 DEF HoldsTask
        <4>3. PICK task : task = calls[q].task
          OBVIOUS
        <4>4. calls[q].phase = "ok" /\ calls[q].signal.kind = "step_completed" =>
                 (CompletionLogged(task) => CompletionLogged(task)')
          BY <1>19, <4>1, <4>3 DEF HoldsTask
        <4>5. AcknowledgedIsLogged(calls[q])'
          BY <3>1, <4>1, <4>3, <4>4 DEF AcknowledgedIsLogged, CompletionLogged
        <4> QED BY <4>2, <4>5
      <3> QED BY <3>2, <3>3 DEF ProcessOK
    <2>3. CASE q = p
      <3>1. calls'[q] = new
        BY <1>12, <2>3 DEF InductiveInvariant, TypeOK
      <3>2. DrawsNumber(calls[q])' /\ SnapshotIsRow(calls[q])'
        BY <1>11, <3>1 DEF DrawsNumber, SnapshotIsRow
      <3>3. ASSUME q \in Workers
            PROVE  HoldsTask(calls[q])' /\ AcknowledgedIsLogged(calls[q])'
        <4>1. \/ /\ call.signal.kind \in StepSignals
                 /\ call.task \in DOMAIN tasks
                 /\ call.signal.task_key = tasks[call.task].task_key
              \/ call.signal.kind \in {"retry_requested", "start"} /\ call.verdict = "none"
          BY <1>1, <2>3, <3>3 DEF ProcessOK, HoldsTask
        <4>2. HoldsTask(calls[q])'
          BY <1>9, <1>11, <3>1, <4>1 DEF HoldsTask
        <4>3. ASSUME call.signal.kind = "step_completed"
              PROVE  CompletionLogged(calls[q].task)'
          <5>1. event.name \in CompletionNames /\ event.task_key = call.signal.task_key
            BY <4>3 DEF event, PersistedEvent, Event, EventName, CompletedName,
                        CompletionNames, call
          <5>2. last + 1 > call.task /\ last + 1 \in DOMAIN events'
            BY <1>2, <1>4, <1>8, <4>1, <4>3
          <5> QED BY <1>4, <1>9, <1>11, <3>1, <4>1, <4>3, <5>1, <5>2 DEF CompletionLogged
        <4>4. AcknowledgedIsLogged(calls[q])'
          BY <1>11, <3>1, <4>3 DEF AcknowledgedIsLogged
        <4> QED BY <4>2, <4>4
      <3> QED BY <3>2, <3>3 DEF ProcessOK
    <2> QED BY <2>2, <2>3
  <1> QED BY <1>14, <1>15, <1>16, <1>17, <1>18, <1>20, <1>21 DEF InductiveInvariant

(* Every step keeps the invariant.                                           *)
LEMMA NextOK == InductiveInvariant /\ [Next]_vars => InductiveInvariant'
  <1> SUFFICES ASSUME InductiveInvariant, [Next]_vars PROVE InductiveInvariant'
    OBVIOUS
  <1>1. CASE Next
    BY <1>1, RequestStep, RetryStep, WorkerStep, ApplyStep, CommitStep DEF Next, Apply
  <1>2. CASE UNCHANGED vars
    <2>1. UNCHANGED <<execution, events, tasks, factTasks, calls, requests>>
      BY <1>2 DEF vars
    <2>2. QuietStep
      BY <2>1, UnchangedTables
    <2>3. (\A p \in Processes : ProcessOK(p, calls[p]))'
      BY <2>1 DEF InductiveInvariant, ProcessOK, DrawsNumber, SnapshotIsRow, HoldsTask,
                  AcknowledgedIsLogged, CompletionLogged, LastSequence, Processes
    <2>4. TypeOK' /\ SucceededTaskIsLogged'
      BY <2>1 DEF InductiveInvariant, TypeOK, SucceededTaskIsLogged, CompletionLogged
    <2> QED BY <2>2, <2>3, <2>4, QuietStepKeeps DEF InductiveInvariant
  <1> QED BY <1>1, <1>2

-----------------------------------------------------------------------------
(* The theorems.                                                             *)

(* InductiveInvariant holds in every state of every behaviour, whatever the  *)
(* definition, the number of API requests and workers, the faults and the    *)
(* crashes.                                                                  *)
THEOREM Invariance == Spec => []InductiveInvariant
  BY InitOK, NextOK, PTL DEF Spec

(* The tables and the processes keep their types: a transition never writes  *)
(* a stage, a status or a count outside the definition's.                    *)
THEOREM TypeCorrect == Spec => []TypeOK
  <1>1. InductiveInvariant => TypeOK
    BY DEF InductiveInvariant
  <1> QED BY <1>1, Invariance, PTL

(* No interleaving of advance_with_tasks, no rollback and no fault leaves a  *)
(* gap in the sequence numbers of an execution's events.                     *)
THEOREM GapFreeLog == Spec => []LogGapFree
  <1>1. InductiveInvariant => LogGapFree
    BY DEF InductiveInvariant
  <1> QED BY <1>1, Invariance, PTL

(* The row of an execution always shows what its newest event announced.     *)
THEOREM RowFollowsLog == Spec => []RowMatchesNewestEvent
  <1>1. InductiveInvariant => RowMatchesNewestEvent
    BY DEF InductiveInvariant
  <1> QED BY <1>1, Invariance, PTL

(* The task table holds exactly the tasks the events announced, and beside   *)
(* them only fact tasks, each of a task that parsed the document.            *)
THEOREM QueueFollowsLog == Spec => []TasksMatchEvents
  <1>1. InductiveInvariant => TasksMatchEvents
    BY DEF InductiveInvariant
  <1> QED BY <1>1, Invariance, PTL

(* Lost updates included, no row shows more attempts than its retries allow. *)
THEOREM BoundedAttempts == Spec => []AttemptBudget
  <1>1. InductiveInvariant => AttemptBudget
    BY DEF InductiveInvariant
  <1> QED BY <1>1, Invariance, PTL

(* A task is marked succeeded only after its completion was logged.          *)
THEOREM NoUnloggedSuccess == Spec => []SucceededTaskIsLogged
  <1>1. InductiveInvariant => SucceededTaskIsLogged
    BY DEF InductiveInvariant
  <1> QED BY <1>1, Invariance, PTL

(* No step changes or removes an event of the log.                           *)
THEOREM AppendOnlyLog == Spec => LogIsAppendOnly
  <1>1. [Next]_vars =>
          [\A n \in DOMAIN events : n \in DOMAIN events' /\ events'[n] = events[n]]_events
    <2> SUFFICES ASSUME [Next]_vars, events' /= events
                 PROVE  \A n \in DOMAIN events : n \in DOMAIN events' /\ events'[n] = events[n]
      OBVIOUS
    <2>1. PICK p \in Processes : CommitAdvance(p)
      BY DEF Next, vars, Request, Retry, Restart, Respond, Apply, ReadExecution,
             BeginAdvance, RollbackAdvance, StorageFault, Worker, ClaimNextAvailable,
             ProcessTask, MarkSucceeded, MarkFailed, FailStep, ClaimFactTask, MarkFactTask,
             AbandonTask, Crash
    <2> QED BY <2>1 DEF CommitAdvance, SequenceFree
  <1> QED BY <1>1, PTL DEF Spec, LogIsAppendOnly

=============================================================================
