------------------------ MODULE WorkflowSerialProofs ------------------------
(***************************************************************************)
(* What the engine promises of an execution holds when signals do not      *)
(* race: one user who starts and retries, any number of workers, none of   *)
(* which retries by itself, any workflow definition, no failure of the     *)
(* platform.  The baton is passed,                                         *)
(* signals are applied atomically (WorkflowRuntime implements              *)
(* AtomicWorkflow) and the event log replays to the stored row.            *)
(***************************************************************************)
EXTENDS WorkflowReplay, WorkflowRuntimeProofs

(* The run WorkflowReplayCancel shows what a cancellation does to these      *)
(* promises.  The ingest worker's own retry of a poor parse (and the one of  *)
(* the static-page worker) is a second writer: the user may retry the same   *)
(* failed execution meanwhile, and both may start it.  It is excluded here.  *)
SerialSystem ==
    /\ \A c, d \in Clients : c = d
    /\ ClientOps \subseteq {"start", "retry"}
    /\ ~Faults /\ ~Crashes
    /\ AutoReparse => TaskKeys \cap IngestTaskKeys = {}

ActivePhases == {"work", "read", "begin", "commit"}

(* The worker is at the task of a step.                                      *)
HoldsStep(call) == call.phase \notin {"idle", "fact"}

(* What a process reads stays true until it has committed; a worker is never *)
(* refused, and its task is not offered to another.                          *)
CallFits(p, call) ==
    /\ call.phase \in {"begin", "commit"} => call.snapshot = execution
    /\ call.phase = "commit" => call.sequence = LastSequence + 1
    /\ p \in Clients => call.signal.kind \in {"start", "retry_requested"}
    /\ p \in Workers =>
          /\ call.phase /= "err" /\ call.verdict /= "reparse"
          /\ HoldsStep(call) => tasks[call.task].status /= "queued"
          /\ call.phase \in {"read", "begin", "commit", "ok"} => call.signal.kind \in StepSignals

(* Two workers at work hold two tasks.                                       *)
TasksAreHeldOnce ==
    \A v, w \in Workers :
        v /= w /\ HoldsStep(calls[v]) /\ HoldsStep(calls[w]) => calls[v].task /= calls[w].task

SerialInvariant ==
    /\ events = [n \in DOMAIN events |-> events[n]]
    /\ OneBaton
    /\ \A p \in Processes : CallFits(p, calls[p])
    /\ TasksAreHeldOnce

-----------------------------------------------------------------------------
(* Processes.                                                                *)

(* What the two invariants say of a process.                                 *)
LEMMA ProcessFacts ==
    ASSUME InductiveInvariant, SerialInvariant, NEW p \in Processes
    PROVE  /\ calls[p] \in Calls /\ ProcessOK(p, calls[p]) /\ CallFits(p, calls[p])
           /\ calls[p].signal \in Signals /\ calls[p].snapshot \in Executions
           /\ calls[p].task \in Nat
           /\ p \in Workers => HoldsTask(calls[p])
           /\ p \in Workers \/ p \in Clients
  BY DEF InductiveInvariant, SerialInvariant, TypeOK, Calls, ProcessOK, Processes

(* A worker at the task of a step holds a task of the table.                 *)
LEMMA StepIsTask ==
    ASSUME NEW w \in Workers, NEW call \in Calls, HoldsTask(call), CallFits(w, call), HoldsStep(call)
    PROVE  call.task \in DOMAIN tasks /\ tasks[call.task].status /= "queued"
  BY DEF HoldsTask, CallFits, HoldsStep, Calls, Phases, StepSignals

(* A worker at work holds the baton: the execution runs, at the step of the  *)
(* worker's task, and accepts what the worker reports.                       *)
LEMMA WorkerHoldsBaton ==
    ASSUME InductiveInvariant, SerialInvariant, NEW w \in Workers,
           calls[w].phase \in ActivePhases
    PROVE  /\ execution.status = "running"
           /\ Unfinished = {calls[w].task}
           /\ calls[w].task \in DOMAIN tasks
           /\ calls[w].phase /= "work" => Accepts(execution, calls[w].signal)
  <1>1. w \in Processes
    BY DEF Processes
  <1>2. /\ calls[w].task \in DOMAIN tasks /\ HoldsTask(calls[w])
        /\ calls[w].phase /= "work" => calls[w].signal.kind \in StepSignals
    BY <1>1, ProcessFacts DEF HoldsTask, ActivePhases, CallFits, StepSignals
  <1>3. calls[w].task \in Unfinished
    BY <1>2 DEF Unfinished, ActivePhases
  <1>4. execution.status = "running"
    BY <1>3 DEF SerialInvariant, OneBaton
  <1>5. Unfinished = {calls[w].task} /\ AtStep(execution, tasks[calls[w].task].task_key)
    BY <1>3, <1>4 DEF SerialInvariant, OneBaton
  <1>6. ASSUME calls[w].phase /= "work" PROVE Accepts(execution, calls[w].signal)
    <2>1. /\ calls[w].signal.kind \in {"step_completed", "step_failed"}
          /\ calls[w].signal.task_key = tasks[calls[w].task].task_key
      BY <1>2, <1>6 DEF HoldsTask, ActivePhases, StepSignals
    <2> QED BY <1>4, <1>5, <2>1 DEF Accepts
  <1> QED BY <1>2, <1>4, <1>5, <1>6

(* A client that is about to write found the execution pending or failed.    *)
LEMMA ClientFindsRest ==
    ASSUME InductiveInvariant, SerialInvariant, NEW c \in Clients,
           calls[c].phase \in {"begin", "commit"}
    PROVE  execution.status \in {"pending", "failed"} /\ Unfinished = {}
  <1>1. c \in Processes
    BY DEF Processes
  <1>2. /\ Accepts(execution, calls[c].signal)
        /\ calls[c].signal.kind \in {"start", "retry_requested"}
    BY <1>1, ProcessFacts DEF ProcessOK, SnapshotIsRow, CallFits
  <1>3. execution.status \in {"pending", "failed"}
    BY <1>2 DEF Accepts
  <1> QED BY <1>3 DEF SerialInvariant, OneBaton

(* Only one process at a time is between its read and its commit.            *)
LEMMA LoneWriter ==
    ASSUME SerialSystem, InductiveInvariant, SerialInvariant,
           NEW p \in Processes, NEW q \in Processes,
           calls[p].phase \in {"begin", "commit"}, calls[q].phase \in {"begin", "commit"}
    PROVE  p = q
  <1>1. ASSUME NEW c \in Clients, NEW w \in Workers,
               calls[c].phase \in {"begin", "commit"}, calls[w].phase \in {"begin", "commit"}
        PROVE  FALSE
    BY <1>1, ClientFindsRest, WorkerHoldsBaton DEF ActivePhases
  <1>2. CASE p \in Clients /\ q \in Clients
    BY <1>2 DEF SerialSystem
  <1>3. CASE p \in Workers /\ q \in Workers
    <2>1. Unfinished = {calls[p].task} /\ Unfinished = {calls[q].task}
      BY <1>3, WorkerHoldsBaton DEF ActivePhases
    <2> QED BY <1>3, <2>1 DEF SerialInvariant, TasksAreHeldOnce, HoldsStep
  <1> QED BY <1>1, <1>2, <1>3, ProcessFacts

-----------------------------------------------------------------------------
(* Steps that leave the row and the log alone.                               *)

(* One process goes on, and the set of unfinished tasks stays.               *)
LEMMA SerialQuietStep ==
    ASSUME InductiveInvariant, SerialInvariant, QuietStep,
           NEW p \in Processes, NEW new \in Calls, CallFits(p, new)',
           calls' = [calls EXCEPT ![p] = new],
           Unfinished' = Unfinished,
           \A n \in DOMAIN tasks : tasks'[n].status = "queued" => tasks[n].status = "queued",
           p \in Workers /\ HoldsStep(new) =>
              \A v \in Workers : v /= p /\ HoldsStep(calls[v]) => calls[v].task /= new.task
    PROVE  SerialInvariant'
  <1>1. calls \in [Processes -> Calls] /\ Workers \subseteq Processes
    BY DEF InductiveInvariant, TypeOK, Processes
  <1>2. \A q \in Processes : calls'[q] = IF q = p THEN new ELSE calls[q]
    BY <1>1
  <1>3. LastSequence' = LastSequence
    BY QuietStepKeeps
  <1>4. (events = [n \in DOMAIN events |-> events[n]])'
    BY DEF SerialInvariant, QuietStep
  <1>5. OneBaton'
    <2>1. \A n \in DOMAIN tasks : AtStep(execution, tasks[n].task_key)
                                     <=> AtStep(execution, tasks[n].task_key)'
      BY DEF QuietStep, AtStep
    <2>2. execution' = execution /\ DOMAIN tasks' = DOMAIN tasks
      BY DEF QuietStep
    <2> QED BY <2>1, <2>2 DEF SerialInvariant, OneBaton
  <1>6. ASSUME NEW q \in Processes PROVE CallFits(q, calls[q])'
    <2>1. CASE q = p
      BY <1>2, <2>1 DEF CallFits
    <2>2. CASE q /= p
      <3>1. /\ calls'[q] = calls[q] /\ calls[q] \in Calls /\ CallFits(q, calls[q])
            /\ q \in Workers => HoldsTask(calls[q])
        BY <1>2, <2>2, ProcessFacts
      <3>2. q \in Workers /\ HoldsStep(calls[q]) =>
               tasks[calls[q].task].status /= "queued" /\ calls[q].task \in DOMAIN tasks
        BY <3>1, StepIsTask
      <3> QED BY <1>3, <3>1, <3>2 DEF CallFits, QuietStep
    <2> QED BY <2>1, <2>2
  <1>7. TasksAreHeldOnce'
    BY <1>1, <1>2 DEF SerialInvariant, TasksAreHeldOnce
  <1> QED BY <1>4, <1>5, <1>6, <1>7 DEF SerialInvariant

(* The unfinished tasks, when one process goes on and no task changes.       *)
LEMMA UnfinishedKept ==
    ASSUME InductiveInvariant, UNCHANGED tasks,
           NEW p \in Processes, NEW new \in Calls, calls' = [calls EXCEPT ![p] = new],
           p \in Workers => /\ new.phase \in ActivePhases <=> calls[p].phase \in ActivePhases
                            /\ new.phase \in ActivePhases => new.task = calls[p].task
    PROVE  Unfinished' = Unfinished
  <1>1. \A w \in Workers : /\ calls'[w].phase \in ActivePhases <=> calls[w].phase \in ActivePhases
                           /\ calls'[w].phase \in ActivePhases => calls'[w].task = calls[w].task
    BY DEF InductiveInvariant, TypeOK, Processes
  <1> QED BY <1>1 DEF Unfinished, ActivePhases

(* A step of one process that touches no table.                              *)
LEMMA SerialCallStep ==
    ASSUME InductiveInvariant, SerialInvariant, UNCHANGED <<execution, events, tasks>>, QuietStep,
           NEW p \in Processes, NEW new \in Calls, CallFits(p, new),
           calls' = [calls EXCEPT ![p] = new],
           p \in Workers =>
              /\ new.phase \in ActivePhases <=> calls[p].phase \in ActivePhases
              /\ HoldsStep(new) => HoldsStep(calls[p]) /\ new.task = calls[p].task
    PROVE  SerialInvariant'
  <1>2. CallFits(p, new)'
    BY QuietStepKeeps DEF CallFits
  <1>3. Unfinished' = Unfinished
    BY UnfinishedKept DEF ActivePhases, HoldsStep
  <1>4. p \in Workers /\ HoldsStep(new) =>
           \A v \in Workers : v /= p /\ HoldsStep(calls[v]) => calls[v].task /= new.task
    BY DEF SerialInvariant, TasksAreHeldOnce
  <1>5. \A n \in DOMAIN tasks : tasks'[n].status = "queued" => tasks[n].status = "queued"
    OBVIOUS
  <1> QED BY <1>2, <1>3, <1>4, <1>5, SerialQuietStep

(* A client that sends a signal or answers a request.                        *)
LEMMA SerialClientCall ==
    ASSUME InductiveInvariant, SerialInvariant, UNCHANGED <<execution, events, tasks, factTasks>>,
           NEW c \in Clients,
           \/ Return(c)
           \/ \E signal \in Signals : /\ signal.kind \in {"start", "retry_requested"}
                                      /\ Send(c, signal)
    PROVE  SerialInvariant'
  <1>1. c \in Processes /\ c \notin Workers /\ calls[c].task \in Nat
    BY RuntimeAssumption, ProcessFacts DEF Processes
  <1>2. QuietStep
    BY UnchangedTables
  <1>3. CASE Return(c)
    <2>1. CallFits(c, IdleCall)
      BY <1>1 DEF CallFits, IdleCall, Signal
    <2> QED BY <1>1, <1>2, <1>3, <2>1, IdleCallOK, SerialCallStep DEF Return
  <1>4. ASSUME NEW signal \in Signals, signal.kind \in {"start", "retry_requested"}, Send(c, signal)
        PROVE  SerialInvariant'
    <2>1. PICK new : new = [IdleCall EXCEPT !.phase = "read", !.signal = signal,
                                            !.task = calls[c].task, !.verdict = "none"]
      OBVIOUS
    <2>2. new \in Calls /\ new.phase = "read" /\ new.signal = signal
      BY <1>1, <2>1, IdleCallOK DEF Calls, Phases, Verdicts
    <2>3. CallFits(c, new)
      BY <1>1, <1>4, <2>2 DEF CallFits
    <2>4. calls' = [calls EXCEPT ![c] = new]
      BY <1>4, <2>1 DEF Send, Report
    <2> QED BY <1>1, <1>2, <2>2, <2>3, <2>4, SerialCallStep
  <1> QED BY <1>3, <1>4

(* Requests.                                                                 *)
LEMMA SerialRequestStep ==
    ASSUME SerialSystem, InductiveInvariant, SerialInvariant, NEW c \in Clients, Request(c)
    PROVE  SerialInvariant'
  <1>1. PICK op \in ClientOps : \E signal \in RequestedSignals(op) : Send(c, signal)
    BY DEF Request
  <1>2. op \in {"start", "retry"}
    BY DEF SerialSystem
  <1>3. \A signal \in RequestedSignals(op) :
           signal \in Signals /\ signal.kind \in {"start", "retry_requested"}
    BY <1>2 DEF RequestedSignals, Signal, Signals, SignalKinds, Results
  <1>4. UNCHANGED <<execution, events, tasks, factTasks>>
    BY DEF Request
  <1> QED BY <1>1, <1>3, <1>4, SerialClientCall

(* Restarts and responses: only clients send them.                           *)
LEMMA SerialRetryStep ==
    ASSUME SerialSystem, InductiveInvariant, SerialInvariant, NEW p \in Processes, Retry(p)
    PROVE  SerialInvariant'
  <1>1. p \in Clients
    <2> SUFFICES ASSUME p \in Workers PROVE FALSE
      BY DEF Processes
    <2>1. CallFits(p, calls[p]) /\ p \notin Clients
      BY ProcessFacts, RuntimeAssumption
    <2> QED BY <2>1 DEF CallFits, Retry, Restart, Respond, StepSignals
  <1>2. UNCHANGED <<execution, events, tasks, factTasks>>
    BY DEF Retry, Restart, Respond
  <1>3. CASE Restart(p)
    <2>1. PICK signal : signal = Signal("start", NoKey, "plain")
      OBVIOUS
    <2>2. signal \in Signals /\ signal.kind = "start" /\ Send(p, signal)
      BY <1>3, <2>1 DEF Restart, Signal, Signals, SignalKinds, Results
    <2> QED BY <1>1, <1>2, <2>2, SerialClientCall
  <1>4. CASE Respond(p)
    BY <1>1, <1>2, <1>4, SerialClientCall DEF Respond
  <1> QED BY <1>3, <1>4 DEF Retry

(* Claims, work and marks.                                                   *)
LEMMA SerialWorkerStep ==
    ASSUME SerialSystem, InductiveInvariant, SerialInvariant, NEW w \in Workers, Worker(w)
    PROVE  SerialInvariant'
  <1>1. /\ w \in Processes /\ calls[w] \in Calls /\ calls[w].task \in Nat
        /\ CallFits(w, calls[w]) /\ HoldsTask(calls[w]) /\ w \notin Clients
    BY RuntimeAssumption, ProcessFacts DEF Processes
  <1>2. UNCHANGED <<execution, events>>
    BY DEF Worker, ClaimNextAvailable, ProcessTask, MarkSucceeded, MarkFailed, FailStep,
           ClaimFactTask, MarkFactTask, AbandonTask, Crash
  <1>3. CallFits(w, IdleCall) /\ IdleCall \in Calls /\ IdleCall.phase = "idle"
    BY <1>1, IdleCallOK DEF CallFits, IdleCall, HoldsStep
  <1>4. CASE ClaimNextAvailable(w)
    <2>1. PICK n \in DOMAIN tasks :
             /\ tasks[n].status = "queued" /\ SetTask(n, "claimed")
             /\ calls' = [calls EXCEPT ![w].phase = "work", ![w].task = n]
      BY <1>4 DEF ClaimNextAvailable
    <2>2. PICK new : new = [calls[w] EXCEPT !.phase = "work", !.task = n]
      OBVIOUS
    <2>3. calls' = [calls EXCEPT ![w] = new]
      BY <2>1, <2>2
    <2>4. new \in Calls /\ new.phase = "work" /\ new.task = n
      BY <1>1, <2>1, <2>2 DEF Calls, Phases, InductiveInvariant, TypeOK
    <2>5. /\ DOMAIN tasks' = DOMAIN tasks
          /\ \A m \in DOMAIN tasks : /\ tasks'[m].task_key = tasks[m].task_key
                                     /\ tasks'[m].status = IF m = n THEN "claimed"
                                                                    ELSE tasks[m].status
      BY <2>1 DEF SetTask, InductiveInvariant, TypeOK, TaskRecords
    <2>6. QuietStep
      BY <1>2, <1>4, <2>1, SetTaskKeeps DEF TaskStatuses, ClaimNextAvailable
    <2>7. CallFits(w, new)'
      BY <1>1, <2>1, <2>2, <2>4, <2>5 DEF CallFits, Calls
    <2>8. \A v \in Workers : calls'[v] = IF v = w THEN new ELSE calls[v]
      BY <2>3 DEF InductiveInvariant, TypeOK, Processes
    <2>9. Unfinished' = Unfinished
      <3>1. calls[w].phase = "idle" /\ calls'[w].phase = "work" /\ calls'[w].task = n
        BY <1>4, <2>4, <2>8 DEF ClaimNextAvailable
      <3>2. n \in Unfinished /\ n \in Unfinished'
        BY <2>1, <2>5, <3>1 DEF Unfinished
      <3>3. ASSUME NEW m \in DOMAIN tasks, m /= n PROVE m \in Unfinished <=> m \in Unfinished'
        <4>1. tasks'[m].status = tasks[m].status
          BY <2>5, <3>3
        <4>2. \A v \in Workers : v /= w => calls'[v] = calls[v]
          BY <2>8
        <4> QED BY <2>5, <3>1, <3>3, <4>1, <4>2 DEF Unfinished
      <3>4. Unfinished \subseteq DOMAIN tasks /\ Unfinished' \subseteq DOMAIN tasks
        BY <2>5 DEF Unfinished
      <3> QED BY <3>2, <3>3, <3>4
    <2>10. \A v \in Workers : v /= w /\ HoldsStep(calls[v]) => calls[v].task /= new.task
      <3> SUFFICES ASSUME NEW v \in Workers, HoldsStep(calls[v]) PROVE calls[v].task /= n
        BY <2>4
      <3>1. CallFits(v, calls[v])
        BY ProcessFacts DEF Processes
      <3> QED BY <2>1, <3>1 DEF CallFits
    <2> QED BY <1>1, <2>3, <2>4, <2>5, <2>6, <2>7, <2>9, <2>10, SerialQuietStep
  <1>5. CASE ProcessTask(w)
    <2> DEFINE key == tasks[calls[w].task].task_key
    <2>1. calls[w].task \in DOMAIN tasks /\ key \in TaskKeys /\ UNCHANGED tasks
      BY <1>1, <1>5 DEF ProcessTask, HoldsTask, InductiveInvariant, TypeOK, TaskRecords
    <2>2. PICK kind \in StepSignals, result \in Results, verdict \in {"none", "reject"} :
                 Report(w, Signal(kind, key, result), calls[w].task, verdict)
      BY <1>5, <2>1 DEF ProcessTask, StepSignals, Send, PoorVerdicts, ReportedResults, Results,
                        SerialSystem
    <2>3. PICK signal : signal = Signal(kind, key, result)
      OBVIOUS
    <2>4. signal \in Signals /\ signal.kind \in StepSignals
      BY <2>1, <2>3 DEF Signal, Signals, SignalKinds, StepSignals
    <2>5. PICK new : new = [IdleCall EXCEPT !.phase = "read", !.signal = signal,
                                            !.task = calls[w].task, !.verdict = verdict]
      OBVIOUS
    <2>6. /\ new \in Calls /\ new.phase = "read" /\ new.signal = signal
          /\ new.task = calls[w].task /\ new.verdict = verdict
      BY <1>1, <2>4, <2>5, IdleCallOK DEF Calls, Phases, Verdicts
    <2>7. calls' = [calls EXCEPT ![w] = new] /\ calls[w].phase = "work"
      BY <1>5, <2>2, <2>3, <2>5 DEF Report, ProcessTask
    <2>8. QuietStep
      <3>1. InductiveInvariant'
        BY WorkerStep
      <3>2. DOMAIN factTasks \subseteq DOMAIN factTasks'
        BY <1>5 DEF ProcessTask, CreateFactTask
      <3>3. FactTasksFit'
        BY <3>1 DEF InductiveInvariant, TypeOK, TasksMatchEvents, FactTasksFit
      <3> QED BY <1>2, <2>1, <3>2, <3>3 DEF QuietStep
    <2>9. CallFits(w, new)
      BY <1>1, <2>4, <2>6, <2>7 DEF CallFits, HoldsStep
    <2> QED BY <1>1, <1>2, <2>1, <2>6, <2>7, <2>8, <2>9, SerialCallStep DEF ActivePhases, HoldsStep
  <1>6. CASE MarkSucceeded(w) \/ MarkFailed(w)
    <2>1. PICK status \in {"succeeded", "failed"} : SetTask(calls[w].task, status)
      BY <1>6 DEF MarkSucceeded, MarkFailed
    <2>2. calls[w].phase \in {"ok", "err"} /\ calls' = [calls EXCEPT ![w] = IdleCall]
      BY <1>1, <1>6 DEF MarkSucceeded, MarkFailed, Return, CallFits
    <2>3. calls[w].task \in DOMAIN tasks /\ tasks[calls[w].task].status /= "queued"
      BY <1>1, <2>2, StepIsTask DEF HoldsStep
    <2>4. /\ DOMAIN tasks' = DOMAIN tasks
          /\ \A m \in DOMAIN tasks : /\ tasks'[m].task_key = tasks[m].task_key
                                     /\ tasks'[m].status = IF m = calls[w].task THEN status
                                                                                ELSE tasks[m].status
      BY <2>1, <2>3 DEF SetTask, InductiveInvariant, TypeOK, TaskRecords
    <2>5. QuietStep
      <3>1. UNCHANGED factTasks
        BY <1>6 DEF MarkSucceeded, MarkFailed
      <3>2. FactTasksFit'
        BY <2>4, <3>1 DEF FactTasksFit, InductiveInvariant, TypeOK, TasksMatchEvents
      <3> QED BY <1>2, <2>4, <3>1, <3>2 DEF QuietStep
    <2>6. CallFits(w, IdleCall)'
      BY <1>1 DEF CallFits, IdleCall, HoldsStep
    <2>7. \A v \in Workers : calls'[v] = IF v = w THEN IdleCall ELSE calls[v]
      BY <2>2 DEF InductiveInvariant, TypeOK, Processes
    <2>8. Unfinished' = Unfinished
      BY <1>3, <2>2, <2>3, <2>4, <2>7 DEF Unfinished
    <2> QED BY <1>1, <1>3, <2>2, <2>3, <2>4, <2>5, <2>6, <2>8, SerialQuietStep DEF HoldsStep
  <1>7. CASE ClaimFactTask(w) \/ MarkFactTask(w)
    <2>1. PICK new \in Calls : /\ calls' = [calls EXCEPT ![w] = new]
                               /\ new.phase \in {"idle", "fact"} /\ new.verdict /= "reparse"
      <3>1. CASE ClaimFactTask(w)
        <4>1. PICK n \in DOMAIN factTasks : calls' = [calls EXCEPT ![w].phase = "fact", ![w].task = n]
          BY <3>1 DEF ClaimFactTask
        <4>2. PICK new : new = [calls[w] EXCEPT !.phase = "fact", !.task = n]
          OBVIOUS
        <4>3. new \in Calls /\ new.phase = "fact" /\ new.verdict = calls[w].verdict
          BY <1>1, <4>1, <4>2 DEF Calls, Phases, InductiveInvariant, TypeOK
        <4>4. calls' = [calls EXCEPT ![w] = new] /\ calls[w].verdict /= "reparse"
          BY <1>1, <4>1, <4>2 DEF CallFits
        <4> QED BY <4>3, <4>4
      <3>2. CASE MarkFactTask(w)
        BY <1>3, <3>2 DEF MarkFactTask, Return, IdleCall
      <3> QED BY <1>7, <3>1, <3>2
    <2>2. UNCHANGED tasks /\ calls[w].phase \in {"idle", "fact"} /\ DOMAIN factTasks' = DOMAIN factTasks
      BY <1>7 DEF ClaimFactTask, MarkFactTask
    <2>3. QuietStep
      <3>1. InductiveInvariant'
        BY WorkerStep
      <3>2. FactTasksFit'
        BY <3>1 DEF InductiveInvariant, TypeOK, TasksMatchEvents, FactTasksFit
      <3> QED BY <1>2, <2>2, <3>2 DEF QuietStep
    <2>4. CallFits(w, new)
      BY <1>1, <2>1 DEF CallFits, HoldsStep
    <2> QED BY <1>1, <1>2, <2>1, <2>2, <2>3, <2>4, SerialCallStep DEF ActivePhases, HoldsStep
  <1>8. ~FailStep(w) /\ ~AbandonTask(w) /\ ~Crash(w)
    BY <1>1 DEF FailStep, AbandonTask, Crash, CallFits, SerialSystem
  <1> QED BY <1>4, <1>5, <1>6, <1>7, <1>8 DEF Worker

(* The round trips before the commit: no worker is refused and no            *)
(* transaction rolled back.                                                  *)
LEMMA SerialApplyStep ==
    ASSUME SerialSystem, InductiveInvariant, SerialInvariant, NEW p \in Processes,
           ReadExecution(p) \/ BeginAdvance(p) \/ RollbackAdvance(p) \/ StorageFault(p)
    PROVE  SerialInvariant'
  <1>1. /\ calls[p] \in Calls /\ CallFits(p, calls[p]) /\ (p \in Workers => HoldsTask(calls[p]))
        /\ calls \in [Processes -> Calls]
    BY ProcessFacts DEF InductiveInvariant, TypeOK
  <1>2. UNCHANGED <<execution, events, tasks>> /\ QuietStep
    <2>1. UNCHANGED <<execution, events, tasks, factTasks>>
      BY DEF ReadExecution, BeginAdvance, RollbackAdvance, StorageFault
    <2> QED BY <2>1, UnchangedTables
  <1>3. LastSequence \in Nat \ {0} /\ DOMAIN events = 1 .. LastSequence
    BY DEF InductiveInvariant, LogGapFree
  <1>4. CASE ReadExecution(p) /\ Accepts(execution, calls[p].signal)
    <2>1. PICK new : new = [calls[p] EXCEPT !.phase = "begin", !.snapshot = execution]
      OBVIOUS
    <2>2. calls[p].phase = "read" /\ calls' = [calls EXCEPT ![p] = new]
      BY <1>4, <2>1 DEF ReadExecution
    <2>3. /\ new \in Calls /\ new.phase = "begin" /\ new.snapshot = execution
          /\ new.signal = calls[p].signal /\ new.task = calls[p].task
          /\ new.verdict = calls[p].verdict
      BY <1>1, <2>1 DEF Calls, Phases, InductiveInvariant, TypeOK
    <2>4. CallFits(p, new)
      BY <1>1, <2>2, <2>3 DEF CallFits, HoldsStep
    <2> QED BY <1>2, <2>2, <2>3, <2>4, SerialCallStep DEF ActivePhases, HoldsStep
  <1>5. CASE ReadExecution(p) /\ ~Accepts(execution, calls[p].signal)
    <2>1. calls[p].phase = "read" /\ SetPhase(p, "err")
      BY <1>5 DEF ReadExecution
    <2>2. p \notin Workers
      BY <1>5, <2>1, WorkerHoldsBaton DEF ActivePhases
    <2>3. PICK new : new = [calls[p] EXCEPT !.phase = "err"]
      OBVIOUS
    <2>4. calls' = [calls EXCEPT ![p] = new]
      BY <2>1, <2>3 DEF SetPhase
    <2>5. new \in Calls /\ new.phase = "err" /\ new.signal = calls[p].signal
      BY <1>1, <2>3 DEF Calls, Phases
    <2>6. CallFits(p, new)
      BY <1>1, <2>2, <2>5 DEF CallFits
    <2> QED BY <1>2, <2>2, <2>4, <2>5, <2>6, SerialCallStep
  <1>6. CASE BeginAdvance(p)
    <2>0. NextSequence = LastSequence + 1 /\ NextSequence \in Nat
      BY <1>3 DEF NextSequence
    <2>1. PICK new : new = [calls[p] EXCEPT !.phase = "commit", !.sequence = NextSequence]
      OBVIOUS
    <2>2. calls[p].phase = "begin" /\ calls' = [calls EXCEPT ![p] = new]
      BY <1>6, <2>1 DEF BeginAdvance
    <2>3. /\ new \in Calls /\ new.phase = "commit" /\ new.sequence = LastSequence + 1
          /\ new.snapshot = calls[p].snapshot
          /\ new.signal = calls[p].signal /\ new.task = calls[p].task
          /\ new.verdict = calls[p].verdict
      BY <1>1, <2>0, <2>1 DEF Calls, Phases
    <2>4. CallFits(p, new)
      BY <1>1, <2>2, <2>3 DEF CallFits, HoldsStep
    <2> QED BY <1>2, <2>2, <2>3, <2>4, SerialCallStep DEF ActivePhases, HoldsStep
  <1>7. ~RollbackAdvance(p) /\ ~StorageFault(p)
    BY <1>1, <1>3 DEF RollbackAdvance, SequenceFree, StorageFault, CallFits, SerialSystem
  <1> QED BY <1>4, <1>5, <1>6, <1>7

-----------------------------------------------------------------------------
(* The commit.                                                               *)

(* The tables after a commit.                                                *)
LEMMA CommitEffect ==
    ASSUME InductiveInvariant, SerialInvariant, NEW p \in Processes, CommitAdvance(p)
    PROVE  LET enqueued == EnqueuedTasks(execution, calls[p].signal)
               event == PersistedEvent(execution, calls[p].signal)
           IN  /\ calls[p].snapshot = execution /\ Accepts(execution, calls[p].signal)
               /\ execution' = ExecutionFromTransition(execution, calls[p].signal)
               /\ LastSequence \in Nat \ {0} /\ DOMAIN events = 1 .. LastSequence
               /\ events' = [n \in 1 .. LastSequence + 1 |->
                                IF n = LastSequence + 1 THEN event ELSE events[n]]
               /\ DOMAIN tasks \subseteq 1 .. LastSequence
               /\ DOMAIN tasks' = DOMAIN tasks \cup {LastSequence + 1 : key \in enqueued}
               /\ \A n \in DOMAIN tasks : tasks'[n] = tasks[n]
               /\ enqueued /= {} => tasks'[LastSequence + 1] =
                      [task_key |-> CHOOSE key \in enqueued : TRUE, status |-> "queued"]
  <1> DEFINE last == LastSequence
             enqueued == EnqueuedTasks(execution, calls[p].signal)
             event == PersistedEvent(execution, calls[p].signal)
  <1>1. /\ calls[p].phase = "commit" /\ calls[p].snapshot = execution
        /\ Accepts(execution, calls[p].signal) /\ calls[p].sequence = last + 1
    BY ProcessFacts DEF CommitAdvance, CallFits, ProcessOK, SnapshotIsRow
  <1>2. last \in Nat \ {0} /\ DOMAIN events = 1 .. last
    BY DEF InductiveInvariant, LogGapFree
  <1>3. DOMAIN tasks \subseteq 1 .. last
    BY <1>2 DEF InductiveInvariant, TasksMatchEvents
  <1>4. execution' = ExecutionFromTransition(execution, calls[p].signal)
    BY <1>1 DEF CommitAdvance
  <1>5. events' = [n \in 1 .. last + 1 |-> IF n = last + 1 THEN event ELSE events[n]]
    <2>1. DOMAIN events \cup {last + 1} = 1 .. last + 1
      BY <1>2
    <2> QED BY <1>1, <2>1 DEF CommitAdvance
  <1>6. tasks' = [n \in DOMAIN tasks \cup {last + 1 : key \in enqueued} |->
                     IF n \in DOMAIN tasks THEN tasks[n]
                     ELSE [task_key |-> CHOOSE key \in enqueued : TRUE, status |-> "queued"]]
    BY <1>1 DEF CommitAdvance
  <1>7. last + 1 \notin DOMAIN tasks
    BY <1>2, <1>3
  <1> HIDE DEF enqueued, event
  <1>8. /\ DOMAIN tasks' = DOMAIN tasks \cup {last + 1 : key \in enqueued}
        /\ \A n \in DOMAIN tasks : tasks'[n] = tasks[n]
        /\ enqueued /= {} => tasks'[last + 1] =
               [task_key |-> CHOOSE key \in enqueued : TRUE, status |-> "queued"]
    BY <1>6, <1>7
  <1> QED BY <1>1, <1>2, <1>3, <1>4, <1>5, <1>8 DEF enqueued, event

(* The commit passes the baton on, or puts it down.                          *)
LEMMA SerialCommitStep ==
    ASSUME SerialSystem, InductiveInvariant, SerialInvariant, NEW p \in Processes, CommitAdvance(p)
    PROVE  SerialInvariant'
  <1> DEFINE signal == calls[p].signal
             enqueued == EnqueuedTasks(execution, signal)
             last == LastSequence
  <1>1. /\ calls[p].phase = "commit" /\ calls[p] \in Calls /\ CallFits(p, calls[p])
        /\ signal \in Signals /\ execution \in Executions
        /\ p \in Workers => HoldsTask(calls[p])
        /\ p \in Workers \/ p \in Clients
    BY ProcessFacts DEF CommitAdvance, InductiveInvariant, TypeOK
  <1>2. /\ calls[p].snapshot = execution /\ Accepts(execution, signal)
        /\ execution' = ExecutionFromTransition(execution, signal)
        /\ last \in Nat \ {0} /\ DOMAIN tasks \subseteq 1 .. last
        /\ DOMAIN tasks' = DOMAIN tasks \cup {last + 1 : key \in enqueued}
        /\ \A n \in DOMAIN tasks : tasks'[n] = tasks[n]
        /\ enqueued /= {} => tasks'[last + 1] =
               [task_key |-> CHOOSE key \in enqueued : TRUE, status |-> "queued"]
    BY CommitEffect
  <1>3. (events = [n \in DOMAIN events |-> events[n]])'
    <2>1. events' = [n \in 1 .. last + 1 |->
                        IF n = last + 1 THEN PersistedEvent(execution, signal) ELSE events[n]]
      BY CommitEffect
    <2> QED BY <2>1
  <1>4. calls' = [calls EXCEPT ![p].phase = "ok", ![p].snapshot = execution']
    BY <1>2 DEF CommitAdvance, SerialSystem
  <1>5. /\ calls'[p].phase = "ok" /\ calls'[p].signal = signal /\ calls'[p].task = calls[p].task
        /\ calls'[p].verdict = calls[p].verdict
        /\ \A q \in Processes : q /= p => calls'[q] = calls[q]
    BY <1>1, <1>4 DEF InductiveInvariant, TypeOK, Calls
  <1>6. Workers \subseteq Processes /\ (p \in Clients <=> p \notin Workers)
    BY <1>1, RuntimeAssumption DEF Processes
  <1>7. \A q \in Processes : calls[q].phase \in {"begin", "commit"} => q = p
    BY <1>1, LoneWriter
  <1>8. ASSUME NEW q \in Processes PROVE CallFits(q, calls[q])'
    <2>1. CASE q = p
      <3>1. p \in Workers => calls[p].task \in DOMAIN tasks
                             /\ tasks'[calls[p].task].status /= "queued"
        BY <1>1, <1>2, StepIsTask DEF HoldsStep
      <3> QED BY <1>1, <1>5, <2>1, <3>1 DEF CallFits
    <2>2. CASE q /= p
      <3>1. /\ calls'[q] = calls[q] /\ CallFits(q, calls[q]) /\ (q \in Workers => HoldsTask(calls[q]))
            /\ calls[q].phase \notin {"begin", "commit"} /\ calls[q] \in Calls
        BY <1>5, <1>7, <2>2, ProcessFacts
      <3>2. q \in Workers /\ HoldsStep(calls[q]) =>
               calls[q].task \in DOMAIN tasks /\ tasks'[calls[q].task].status /= "queued"
        BY <1>2, <3>1, StepIsTask
      <3> QED BY <3>1, <3>2 DEF CallFits
    <2> QED BY <2>1, <2>2
  <1>9. TasksAreHeldOnce'
    BY <1>1, <1>5, <1>6 DEF SerialInvariant, TasksAreHeldOnce, HoldsStep
  <1>10. Unfinished' = {last + 1 : key \in enqueued}
    <2>1. ASSUME NEW n \in DOMAIN tasks PROVE n \notin Unfinished'
      <3>1. CASE p \in Workers
        <4>1. Unfinished = {calls[p].task} /\ calls[p].task \in DOMAIN tasks
          BY <1>1, <3>1, WorkerHoldsBaton DEF ActivePhases
        <4>2. CASE n = calls[p].task
          <5>1. tasks'[n].status /= "queued"
            BY <1>1, <1>2, <3>1, <4>2 DEF CallFits, HoldsStep
          <5>2. \A w \in Workers : calls'[w].task = n => calls'[w].phase \in {"idle", "fact", "ok"}
            <6> SUFFICES ASSUME NEW w \in Workers, calls'[w].task = n,
                                calls'[w].phase \notin {"idle", "fact"} PROVE calls'[w].phase = "ok"
              OBVIOUS
            <6>1. CASE w = p
              BY <1>5, <6>1
            <6>2. CASE w /= p
              BY <1>1, <1>5, <1>6, <3>1, <4>2, <6>2 DEF SerialInvariant, TasksAreHeldOnce, HoldsStep
            <6> QED BY <6>1, <6>2
          <5> QED BY <5>1, <5>2 DEF Unfinished
        <4>3. CASE n /= calls[p].task
          <5>1. n \notin Unfinished
            BY <4>1, <4>3
          <5>2. \A w \in Workers : calls'[w].task = calls[w].task
                                   /\ (calls'[w].phase = calls[w].phase \/ w = p)
            BY <1>5, <1>6
          <5> QED BY <1>2, <4>3, <5>1, <5>2 DEF Unfinished
        <4> QED BY <4>2, <4>3
      <3>2. CASE p \in Clients
        <4>1. n \notin Unfinished
          BY <1>1, <3>2, ClientFindsRest
        <4>2. \A w \in Workers : calls'[w] = calls[w]
          BY <1>5, <1>6, <3>2
        <4> QED BY <1>2, <4>1, <4>2 DEF Unfinished
      <3> QED BY <1>1, <3>1, <3>2
    <2>2. enqueued /= {} => last + 1 \in Unfinished'
      BY <1>2 DEF Unfinished
    <2>3. Unfinished' \subseteq DOMAIN tasks'
      BY DEF Unfinished
    <2> QED BY <1>2, <2>1, <2>2, <2>3
  <1>11. OneBaton'
    <2>1. CASE execution'.status /= "running" /\ enqueued = {}
      BY <1>10, <2>1 DEF OneBaton
    <2>2. ASSUME execution'.status = "running", NEW key \in TaskKeys, enqueued = {key},
                 AtStep(ExecutionFromTransition(execution, signal), key)
          PROVE  OneBaton'
      <3>1. PICK n : n = last + 1
        OBVIOUS
      <3>2. Unfinished' = {n} /\ n \in DOMAIN tasks'
        BY <1>2, <1>10, <2>2, <3>1
      <3>3. tasks'[n].task_key = key
        BY <1>2, <2>2, <3>1
      <3>4. AtStep(execution, tasks[n].task_key)'
        BY <1>2, <2>2, <3>3 DEF AtStep
      <3> QED BY <2>2, <3>2, <3>4 DEF OneBaton
    <2> QED BY <1>1, <1>2, <2>1, <2>2, TransitionPassesBaton
  <1> QED BY <1>3, <1>8, <1>9, <1>11 DEF SerialInvariant

-----------------------------------------------------------------------------
(* The theorems.                                                             *)

(* At first nobody holds a task.                                             *)
LEMMA SerialInit == Init => SerialInvariant
  <1> SUFFICES ASSUME Init PROVE SerialInvariant
    OBVIOUS
  <1>1. Unfinished = {} /\ execution.status = "pending"
    BY DEF Init, Unfinished, InitialExecution
  <1>2. \A p \in Processes : calls[p] = IdleCall
    BY DEF Init
  <1>3. \A p \in Processes : CallFits(p, calls[p])
    BY <1>2, RuntimeAssumption DEF CallFits, IdleCall, Signal, HoldsStep
  <1>4. TasksAreHeldOnce
    BY <1>2 DEF TasksAreHeldOnce, IdleCall, Processes, HoldsStep
  <1>5. events = [n \in DOMAIN events |-> events[n]]
    BY DEF Init
  <1> QED BY <1>1, <1>3, <1>4, <1>5 DEF SerialInvariant, OneBaton

(* Every step keeps the serial invariant.                                    *)
LEMMA SerialNext ==
    ASSUME SerialSystem
    PROVE  InductiveInvariant /\ SerialInvariant /\ [Next]_vars => SerialInvariant'
  <1> SUFFICES ASSUME InductiveInvariant, SerialInvariant, [Next]_vars PROVE SerialInvariant'
    OBVIOUS
  <1>1. CASE Next
    BY <1>1, SerialRequestStep, SerialRetryStep, SerialWorkerStep, SerialApplyStep,
       SerialCommitStep DEF Next, Apply
  <1>2. CASE UNCHANGED vars
    BY <1>2 DEF vars, SerialInvariant, OneBaton, Unfinished, AtStep, CallFits, LastSequence,
                TasksAreHeldOnce, Processes
  <1> QED BY <1>1, <1>2

(* The inductive invariant of a system without racing signals.               *)
THEOREM SerialInvariance ==
    ASSUME SerialSystem
    PROVE  Spec => []SerialInvariant
  BY SerialInit, SerialNext, Invariance, PTL DEF Spec

(* With one user who starts and retries, no worker that retries by itself    *)
(* and no failures a running execution has one unfinished task of a step,    *)
(* the one of its stage, and no other execution has any, however many        *)
(* workers poll and whatever fact tasks the ingest worker adds.              *)
THEOREM BatonIsPassed ==
    ASSUME SerialSystem
    PROVE  Spec => []OneBaton
  <1>1. SerialInvariant => OneBaton
    BY DEF SerialInvariant
  <1> QED BY <1>1, SerialInvariance, PTL

(* Only the commit writes the row or the log.                                *)
LEMMA OnlyCommitsWrite ==
    ASSUME [Next]_vars
    PROVE  UNCHANGED <<execution, events>> \/ \E p \in Processes : CommitAdvance(p)
  BY DEF Next, vars, Request, Retry, Restart, Respond, Apply, ReadExecution, BeginAdvance,
         RollbackAdvance, StorageFault, Worker, ClaimNextAvailable, ProcessTask, MarkSucceeded,
         MarkFailed, FailStep, ClaimFactTask, MarkFactTask, AbandonTask, Crash

(* AtomicWorkflow speaks of the same definitions.                            *)
LEMMA AtomicDefinitions ==
    /\ Atomic!InitialExecution = InitialExecution
    /\ Atomic!Event("created", Atomic!NoKey, "plain") = Event("created", NoKey, "plain")
    /\ Atomic!Signals = Signals
    /\ \A row, signal : /\ Atomic!Accepts(row, signal) <=> Accepts(row, signal)
                        /\ Atomic!ExecutionFromTransition(row, signal)
                              = ExecutionFromTransition(row, signal)
                        /\ Atomic!PersistedEvent(row, signal) = PersistedEvent(row, signal)
  <1>1. /\ Atomic!Steps = Steps /\ Atomic!StepNumbers = StepNumbers /\ Atomic!TaskKeys = TaskKeys
        /\ Atomic!NoKey = NoKey
    BY DEF Atomic!Steps, Steps, Atomic!StepNumbers, StepNumbers, Atomic!TaskKeys, TaskKeys,
           Atomic!NoKey, NoKey
  <1>2. Atomic!InitialExecution = InitialExecution
    BY DEF Atomic!InitialExecution, InitialExecution
  <1>3. \A name, key, error : Atomic!Event(name, key, error) = Event(name, key, error)
    BY DEF Atomic!Event, Event
  <1>4. Atomic!Signals = Signals
    BY <1>1 DEF Atomic!Signals, Signals, Atomic!SignalKinds, SignalKinds, Atomic!Results, Results
  <1>5. \A signal : Atomic!Unsupported(signal) <=> Unsupported(signal)
    BY DEF Atomic!Unsupported, Unsupported
  <1>6. \A key : Atomic!StepOf(key) = StepOf(key) /\ (Atomic!IsLast(key) <=> IsLast(key))
    BY <1>1 DEF Atomic!StepOf, StepOf, Atomic!IsLast, IsLast
  <1>7. \A row, key : Atomic!AtStep(row, key) <=> AtStep(row, key)
    BY <1>1 DEF Atomic!AtStep, AtStep
  <1>8. \A row, signal : Atomic!Accepts(row, signal) <=> Accepts(row, signal)
    BY <1>5, <1>7 DEF Atomic!Accepts, Accepts
  <1>9. \A row, stage, status : Atomic!Move(row, stage, status) = Move(row, stage, status)
    BY DEF Atomic!Move, Move
  <1>10. \A row, signal : /\ Atomic!AfterStep(row, signal) = AfterStep(row, signal)
                          /\ Atomic!AfterRetry(row) = AfterRetry(row)
                          /\ Atomic!FailedStage(signal) = FailedStage(signal)
    BY <1>1, <1>5, <1>6, <1>9 DEF Atomic!AfterStep, AfterStep, Atomic!AfterRetry, AfterRetry,
                                  Atomic!FailedStage, FailedStage
  <1>11. \A row, signal : Atomic!NextState(row, signal) = NextState(row, signal)
    BY <1>1, <1>9, <1>10 DEF Atomic!NextState, NextState
  <1>12. \A row, signal : Atomic!ExecutionFromTransition(row, signal)
                             = ExecutionFromTransition(row, signal)
    BY <1>11 DEF Atomic!ExecutionFromTransition, ExecutionFromTransition
  <1>13. \A row, signal : Atomic!EventName(row, signal) = EventName(row, signal)
    <2>1. \A signal : Atomic!CompletedName(signal) = CompletedName(signal)
      BY <1>5, <1>6 DEF Atomic!CompletedName, CompletedName
    <2> QED BY <2>1 DEF Atomic!EventName, EventName
  <1>14. \A row, signal : Atomic!PersistedEvent(row, signal) = PersistedEvent(row, signal)
    BY <1>3, <1>13 DEF Atomic!PersistedEvent, PersistedEvent
  <1> QED BY <1>1, <1>2, <1>3, <1>4, <1>8, <1>12, <1>14

(* The four round trips of apply_workflow_signal implement one atomic step:  *)
(* the commit applies its signal to the row it overwrites and appends one    *)
(* event, and every other step changes neither.                              *)
THEOREM SignalsAreAtomic ==
    ASSUME SerialSystem
    PROVE  Spec => AppliesAtomically
  <1>1. Init => Atomic!Init
    <2> SUFFICES ASSUME Init PROVE Atomic!Init
      OBVIOUS
    <2>1. execution = InitialExecution /\ events = [n \in {1} |-> Event("created", NoKey, "plain")]
      BY DEF Init
    <2>2. events = <<Event("created", NoKey, "plain")>>
      BY <2>1
    <2> QED BY <2>1, <2>2, AtomicDefinitions DEF Atomic!Init
  <1>2. ASSUME InductiveInvariant, SerialInvariant, [Next]_vars
        PROVE  [Atomic!Next]_<<execution, events>>
    <2>1. ASSUME NEW p \in Processes, CommitAdvance(p) PROVE Atomic!Next
      <3> DEFINE event == PersistedEvent(execution, calls[p].signal)
      <3>1. /\ Accepts(execution, calls[p].signal)
            /\ execution' = ExecutionFromTransition(execution, calls[p].signal)
            /\ LastSequence \in Nat \ {0} /\ DOMAIN events = 1 .. LastSequence
            /\ events' = [n \in 1 .. LastSequence + 1 |->
                             IF n = LastSequence + 1 THEN event ELSE events[n]]
        BY <1>2, <2>1, CommitEffect
      <3>2. events \in Seq(EventRecords) /\ Len(events) = LastSequence
        <4>1. events \in [1 .. LastSequence -> EventRecords]
          BY <1>2, <3>1 DEF SerialInvariant, InductiveInvariant, TypeOK
        <4> QED BY <3>1, <4>1
      <3>3. events' = Append(events, event)
        BY <3>1, <3>2
      <3>4. calls[p].signal \in Signals
        BY <1>2, ProcessFacts
      <3>5. Atomic!Apply(calls[p].signal)
        BY <3>1, <3>3, AtomicDefinitions DEF Atomic!Apply
      <3> QED BY <3>4, <3>5, AtomicDefinitions DEF Atomic!Next
    <2> QED BY <1>2, <2>1, OnlyCommitsWrite
  <1>3. InductiveInvariant /\ SerialInvariant /\ [Next]_vars => [Atomic!Next]_<<execution, events>>
    BY <1>2
  <1> QED BY <1>1, <1>3, Invariance, SerialInvariance, PTL DEF Spec, AppliesAtomically, Atomic!Spec

(* The process whose event the history variable replays is the one that      *)
(* committed.                                                                *)
LEMMA CommitterIsKnown ==
    ASSUME InductiveInvariant, NEW p \in Processes, CommitAdvance(p)
    PROVE  p = CHOOSE q \in Processes : calls[q].phase = "commit" /\ calls'[q].phase /= "commit"
  <1>1. calls[p].phase = "commit" /\ calls'[p].phase /= "commit"
    BY DEF CommitAdvance, InductiveInvariant, TypeOK, Calls
  <1>2. \A q \in Processes : q /= p => calls'[q] = calls[q]
    BY DEF CommitAdvance, InductiveInvariant, TypeOK
  <1> QED BY <1>1, <1>2

(* The log of an execution replays, through its definition, to the row that  *)
(* is stored.                                                                *)
THEOREM LogReplaysToRow ==
    ASSUME SerialSystem
    PROVE  ReplaySpec => []LogReplays
  <1>1. ReplaySpec => Spec
    <2>1. ReplayInit => Init
      BY DEF ReplayInit
    <2>2. [ReplayNext]_replayVars => [Next]_vars
      BY DEF ReplayNext, replayVars
    <2> QED BY <2>1, <2>2, PTL DEF ReplaySpec, Spec
  <1>2. ReplayInit => LogReplays
    BY DEF ReplayInit, Init, LogReplays
  <1>3. ASSUME InductiveInvariant, SerialInvariant, LogReplays, [ReplayNext]_replayVars
        PROVE  LogReplays'
    <2>1. CASE UNCHANGED replayVars
      BY <1>3, <2>1 DEF replayVars, vars, LogReplays
    <2>2. ASSUME ReplayNext, NEW p \in Processes, CommitAdvance(p) PROVE LogReplays'
      <3>1. /\ Accepts(execution, calls[p].signal)
            /\ execution' = ExecutionFromTransition(execution, calls[p].signal)
            /\ DOMAIN events = 1 .. LastSequence /\ DOMAIN events' = 1 .. LastSequence + 1
            /\ LastSequence \in Nat \ {0}
        BY <1>3, <2>2, CommitEffect
      <3>2. events' /= events
        BY <3>1
      <3>3. replayed' = Replay(calls[p].signal)
        BY <1>3, <2>2, <3>2, CommitterIsKnown DEF ReplayNext
      <3>4. replayed' = [replayed EXCEPT !.execution =
                            ExecutionFromTransition(execution, calls[p].signal)]
        BY <1>3, <3>1, <3>3 DEF Replay, LogReplays
      <3> QED BY <1>3, <3>1, <3>4 DEF LogReplays
    <2>3. CASE ReplayNext /\ UNCHANGED <<execution, events>>
      BY <1>3, <2>3 DEF ReplayNext, LogReplays
    <2>4. CASE ReplayNext
      BY <2>2, <2>3, <2>4, OnlyCommitsWrite DEF ReplayNext
    <2> QED BY <1>3, <2>1, <2>4
  <1>4. InductiveInvariant /\ SerialInvariant /\ LogReplays /\ [ReplayNext]_replayVars => LogReplays'
    BY <1>3
  <1> QED BY <1>1, <1>2, <1>4, Invariance, SerialInvariance, PTL DEF ReplaySpec
=============================================================================
