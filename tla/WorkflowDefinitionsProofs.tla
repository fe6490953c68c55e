---------------------- MODULE WorkflowDefinitionsProofs ----------------------
(***************************************************************************)
(* What a transition of an execution row gives, for every workflow         *)
(* definition: a row of the definition, within its budget of attempts, and *)
(* a task for every stage that is entered running.                         *)
(***************************************************************************)
EXTENDS WorkflowDefinitions, TLAPS

(* StepOf finds the step of every task key of the definition.                *)
LEMMA StepOfKey ==
    ASSUME NEW key \in TaskKeys
    PROVE  StepOf(key) \in StepNumbers /\ Steps[StepOf(key)].task_key = key
  BY DEF TaskKeys, StepOf

(* Every field of every step has its type, and so have the stages.           *)
LEMMA StepTypes ==
    /\ Len(Steps) \in Nat \ {0}
    /\ 1 \in StepNumbers
    /\ StepNumbers \subseteq Nat
    /\ \A i \in StepNumbers : /\ Steps[i].stage \in Stages
                              /\ Steps[i].failed \in Stages
                              /\ Steps[i].task_key \in TaskKeys
    /\ Definition.success \in Stages
  <1>1. Len(Steps) \in Nat \ {0}
    BY DefinitionAssumption DEF Steps
  <1>2. 1 \in StepNumbers /\ StepNumbers \subseteq Nat
    BY <1>1 DEF StepNumbers
  <1>3. \A i \in StepNumbers : /\ Steps[i].stage \in Stages
                               /\ Steps[i].failed \in Stages
                               /\ Steps[i].task_key \in TaskKeys
    BY DEF Stages, TaskKeys
  <1> QED BY <1>1, <1>2, <1>3 DEF Stages

(* The step after one that is not the last.                                  *)
LEMMA NextStep ==
    ASSUME NEW key \in TaskKeys, ~IsLast(key)
    PROVE  StepOf(key) + 1 \in StepNumbers
  BY StepOfKey, StepTypes DEF IsLast, StepNumbers

(* A transition of a row is a row.                                           *)
LEMMA NextStateType ==
    ASSUME NEW row \in Executions, NEW signal \in Signals
    PROVE  NextState(row, signal) \in Executions
  <1>1. \A stage \in Stages, status \in Statuses :
            Move(row, stage, status) \in Executions
    BY DEF Move, Executions
  <1>2. "queued" \in Stages /\ "cancelled" \in Stages /\ "dead_lettered" \in Stages
        /\ "unsupported_source" \in Stages
    BY DEF Stages
  <1>3. CASE signal.kind = "start"
    BY <1>1, <1>3, StepTypes DEF NextState, Statuses
  <1>4. CASE signal.kind = "step_completed"
    <2>1. signal.task_key \in TaskKeys
      BY <1>4 DEF Signals
    <2>2. CASE Unsupported(signal)
      BY <1>1, <1>2, <1>4, <2>2 DEF NextState, AfterStep, Statuses
    <2>3. CASE ~Unsupported(signal) /\ IsLast(signal.task_key)
      BY <1>1, <1>4, <2>3, StepTypes DEF NextState, AfterStep, Statuses
    <2>4. CASE ~Unsupported(signal) /\ ~IsLast(signal.task_key)
      <3>1. Steps[StepOf(signal.task_key) + 1].stage \in Stages
        BY <2>1, <2>4, NextStep, StepTypes
      <3> QED BY <1>1, <1>4, <2>4, <3>1 DEF NextState, AfterStep, Statuses
    <2> QED BY <2>2, <2>3, <2>4
  <1>5. CASE signal.kind = "step_failed"
    <2>1. signal.task_key \in TaskKeys
      BY <1>5 DEF Signals
    <2>2. FailedStage(signal) \in Stages
      BY <1>2, <2>1, StepOfKey, StepTypes DEF FailedStage
    <2> QED BY <1>1, <1>5, <2>2 DEF NextState, Statuses
  <1>6. CASE signal.kind = "retry_requested"
    <2>1. CASE row.retries_remaining = 0
      BY <1>1, <1>2, <1>6, <2>1 DEF NextState, AfterRetry, Statuses
    <2>2. CASE row.retries_remaining /= 0
      <3> DEFINE moved == Move(row, "queued", "pending")
      <3>1. moved \in Executions /\ moved.retries_remaining = row.retries_remaining
        BY <1>1, <1>2 DEF Statuses, Move, Executions
      <3>2. moved.retries_remaining - 1 \in Nat
        BY <2>2, <3>1 DEF Executions
      <3>3. (IF Definition.rebuilds_on_retry THEN FALSE ELSE moved.launch_context) \in BOOLEAN
        BY <3>1 DEF Executions
      <3>4. AfterRetry(row) = [moved EXCEPT
                !.retries_remaining = moved.retries_remaining - 1,
                !.launch_context = IF Definition.rebuilds_on_retry
                                   THEN FALSE ELSE moved.launch_context]
        BY <2>2 DEF AfterRetry
      <3> HIDE DEF moved
      <3>5. AfterRetry(row) \in Executions
        BY <3>1, <3>2, <3>3, <3>4 DEF Executions
      <3> QED BY <1>6, <3>5 DEF NextState
    <2> QED BY <2>1, <2>2
  <1>7. CASE signal.kind \notin {"start", "step_completed", "step_failed", "retry_requested"}
    BY <1>1, <1>2, <1>7 DEF NextState, Statuses
  <1> QED BY <1>3, <1>4, <1>5, <1>6, <1>7

(* So is the row that is written for it; only attempt differs.               *)
LEMMA ExecutionType ==
    ASSUME NEW row \in Executions, NEW signal \in Signals
    PROVE  /\ ExecutionFromTransition(row, signal) \in Executions
           /\ ExecutionFromTransition(row, signal).stage = NextState(row, signal).stage
           /\ ExecutionFromTransition(row, signal).status = NextState(row, signal).status
           /\ ExecutionFromTransition(row, signal).retries_remaining
                = NextState(row, signal).retries_remaining
  BY NextStateType DEF ExecutionFromTransition, Executions

(* An accepted signal keeps a row within its budget.                         *)
LEMMA BudgetKept ==
    ASSUME NEW row \in Executions, NEW signal \in Signals,
           Accepts(row, signal), Budget(row)
    PROVE  Budget(ExecutionFromTransition(row, signal))
  <1> DEFINE next == NextState(row, signal)
             written == ExecutionFromTransition(row, signal)
  <1>1. next \in Executions /\ written \in Executions
    BY NextStateType, ExecutionType
  <1>2. /\ written.status = next.status
        /\ written.retries_remaining = next.retries_remaining
        /\ written.attempt = IF row.status = "pending" /\ next.status = "running"
                             THEN next.attempt + 1 ELSE next.attempt
    BY <1>1, ExecutionType DEF ExecutionFromTransition, Executions
  <1>3. \A stage, status : /\ Move(row, stage, status).status = status
                           /\ Move(row, stage, status).attempt = row.attempt
                           /\ Move(row, stage, status).retries_remaining
                                = row.retries_remaining
    BY DEF Move, Executions
  <1>4. row.attempt \in Nat /\ row.retries_remaining \in Nat /\ InitialRetries \in Nat
    BY InitialRetriesAssumption DEF Executions
  <1>5. CASE signal.kind = "start"
    <2>1. row.status = "pending" BY <1>5 DEF Accepts
    <2>2. next.status = "running" /\ next.attempt = row.attempt
          /\ next.retries_remaining = row.retries_remaining
      BY <1>3, <1>5 DEF NextState
    <2> QED BY <1>2, <1>4, <2>1, <2>2 DEF Budget
  <1>6. CASE signal.kind = "step_completed"
    <2>1. row.status = "running" BY <1>6 DEF Accepts
    <2>2. next.status \in {"running", "succeeded", "failed"} /\ next.attempt = row.attempt
          /\ next.retries_remaining = row.retries_remaining
      BY <1>3, <1>6 DEF NextState, AfterStep
    <2> QED BY <1>2, <1>4, <2>1, <2>2 DEF Budget
  <1>7. CASE signal.kind = "step_failed"
    <2>1. row.status = "running" BY <1>7 DEF Accepts
    <2>2. next.status = "failed" /\ next.attempt = row.attempt
          /\ next.retries_remaining = row.retries_remaining
      BY <1>3, <1>7 DEF NextState
    <2> QED BY <1>2, <1>4, <2>1, <2>2 DEF Budget
  <1>8. CASE signal.kind = "retry_requested"
    <2>1. row.status = "failed" BY <1>8 DEF Accepts
    <2>2. CASE row.retries_remaining = 0
      <3>1. next.status = "dead_lettered" /\ next.attempt = row.attempt
            /\ next.retries_remaining = 0
        BY <1>3, <1>8, <2>2 DEF NextState, AfterRetry
      <3> QED BY <1>2, <1>4, <2>1, <2>2, <3>1 DEF Budget
    <2>3. CASE row.retries_remaining /= 0
      <3>1. next.status = "pending" /\ next.attempt = row.attempt
            /\ next.retries_remaining = row.retries_remaining - 1
        BY <1>8, <2>3 DEF NextState, AfterRetry, Move, Executions
      <3> QED BY <1>2, <1>4, <2>1, <2>3, <3>1 DEF Budget
    <2> QED BY <2>2, <2>3
  <1>9. CASE signal.kind = "cancel_requested"
    <2>1. next.status = "cancelled" /\ next.attempt = row.attempt
          /\ next.retries_remaining = row.retries_remaining
      BY <1>3, <1>9 DEF NextState
    <2> QED BY <1>2, <1>4, <2>1 DEF Budget
  <1> QED BY <1>5, <1>6, <1>7, <1>8, <1>9 DEF Accepts

(* A transition into a running stage enqueues the task of that stage, and no *)
(* other does.                                                               *)
LEMMA TransitionPassesBaton ==
    ASSUME NEW row \in Executions, NEW signal \in Signals, Accepts(row, signal)
    PROVE  LET next == ExecutionFromTransition(row, signal)
               enqueued == EnqueuedTasks(row, signal)
           IN  \/ next.status /= "running" /\ enqueued = {}
               \/ /\ next.status = "running"
                  /\ \E key \in TaskKeys : enqueued = {key} /\ AtStep(next, key)
  <1> DEFINE next == ExecutionFromTransition(row, signal)
             state == NextState(row, signal)
             enqueued == EnqueuedTasks(row, signal)
  <1>1. next.stage = state.stage /\ next.status = state.status
    BY ExecutionType
  <1>2. \A stage, status : Move(row, stage, status).stage = stage
                           /\ Move(row, stage, status).status = status
    BY DEF Move, Executions
  <1>3. ASSUME NEW i \in StepNumbers, next.stage = Steps[i].stage
        PROVE  Steps[i].task_key \in TaskKeys /\ AtStep(next, Steps[i].task_key)
    BY <1>3, StepTypes DEF AtStep
  <1>4. CASE signal.kind = "start"
    <2>1. state.stage = Steps[1].stage /\ state.status = "running"
      BY <1>2, <1>4 DEF NextState
    <2>2. enqueued = {Steps[1].task_key}
      BY <1>4 DEF EnqueuedTasks
    <2> QED BY <1>1, <1>3, <2>1, <2>2, StepTypes
  <1>5. CASE signal.kind = "step_completed"
    <2>1. signal.task_key \in TaskKeys
      BY <1>5 DEF Signals
    <2>2. CASE Unsupported(signal) \/ IsLast(signal.task_key)
      <3>1. state.status \in {"failed", "succeeded"}
        BY <1>2, <1>5, <2>2 DEF NextState, AfterStep
      <3>2. enqueued = {}
        BY <1>5, <2>2 DEF EnqueuedTasks
      <3> QED BY <1>1, <3>1, <3>2
    <2>3. CASE ~Unsupported(signal) /\ ~IsLast(signal.task_key)
      <3> DEFINE i == StepOf(signal.task_key) + 1
      <3>1. i \in StepNumbers
        BY <2>1, <2>3, NextStep
      <3>2. state.stage = Steps[i].stage /\ state.status = "running"
        BY <1>2, <1>5, <2>3 DEF NextState, AfterStep
      <3>3. enqueued = {Steps[i].task_key}
        BY <1>5, <2>3 DEF EnqueuedTasks
      <3> HIDE DEF i
      <3> QED BY <1>1, <1>3, <3>1, <3>2, <3>3
    <2> QED BY <2>2, <2>3
  <1>6. CASE signal.kind = "step_failed"
    <2>1. state.status = "failed" /\ enqueued = {}
      BY <1>2, <1>6 DEF NextState, EnqueuedTasks
    <2> QED BY <1>1, <2>1
  <1>7. CASE signal.kind = "retry_requested"
    <2>1. enqueued = {}
      BY <1>7 DEF EnqueuedTasks
    <2>2. state.status \in {"pending", "dead_lettered"}
      BY <1>7 DEF NextState, AfterRetry, Move, Executions
    <2> QED BY <1>1, <2>1, <2>2
  <1>8. CASE signal.kind = "cancel_requested"
    <2>1. state.status = "cancelled" /\ enqueued = {}
      BY <1>2, <1>8 DEF NextState, EnqueuedTasks
    <2> QED BY <1>1, <2>1
  <1> QED BY <1>4, <1>5, <1>6, <1>7, <1>8 DEF Accepts
=============================================================================
