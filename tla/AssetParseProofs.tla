-------------------------- MODULE AssetParseProofs --------------------------
(***************************************************************************)
(* The safety of AssetParse for any sets of imports and workers, however   *)
(* many imports there are, whatever stops halfway and however slow a       *)
(* statement is.                                                           *)
(***************************************************************************)
EXTENDS AssetParse, TLAPS

Worker(n) == [phase : WorkerPhases, task : 0 .. n, attempt : 0 .. MaxAttempts, plan : Plans]

(* The phases in which a worker has its task to itself.                      *)
HoldingPhases == WorkerPhases \ {"idle", "execution"}
Holding(w) == workers[w].phase \in HoldingPhases

Successes == {Succeed(status) : status \in Done}

(* A task that waits has an attempt left; one that succeeded has a run that  *)
(* is done, and that has a profile.                                          *)
TasksOK ==
    /\ \A t \in DOMAIN tasks : tasks[t].status = "queued" => tasks[t].attempt < MaxAttempts
    /\ SuccessIsBacked

(* What a worker holds: a claimed task of its own, at the attempt it read.   *)
HoldsTask ==
    /\ \A w \in Workers :
          /\ workers[w].phase /= "idle" => workers[w].task \in DOMAIN tasks
          /\ Holding(w) => /\ tasks[workers[w].task].status = "claimed"
                           /\ tasks[workers[w].task].attempt = workers[w].attempt
    /\ \A v, w \in Workers : Holding(v) /\ Holding(w) => v = w

(* What a worker is about to write agrees with what is there: r and p are    *)
(* the run and the profile.                                                  *)
PlanFits(phase, plan, attempt, r, p) ==
    /\ phase \in HoldingPhases /\ plan = Retry => attempt < MaxAttempts
    /\ phase \in {"start", "parse", "profile"} => r \in Runnable
    /\ phase = "profile" => plan \in Successes
    /\ phase = "run" => /\ r \in Runnable \/ (r \notin Done /\ plan = Fail)
                        /\ plan \in Successes => p
    /\ phase = "task" /\ plan \in Successes => r \in Done

PlansOK ==
    \A w \in Workers :
        PlanFits(workers[w].phase, workers[w].plan, workers[w].attempt, run, profile)

InductiveInvariant ==
    /\ AssetParseTypeOK
    /\ OneTaskAtATime
    /\ TasksOK
    /\ HoldsTask
    /\ PlansOK

-----------------------------------------------------------------------------
(* Plans and workers.                                                        *)

(* What the four plans write.                                                *)
LEMMA PlanFacts ==
    /\ Retry \in Plans /\ Fail \in Plans /\ Successes \subseteq Plans
    /\ Retry /= Fail /\ Retry \notin Successes /\ Fail \notin Successes
    /\ Retry.run = "retrying" /\ Retry.task = "queued" /\ Retry.execution = "running"
    /\ Fail.run = "failed" /\ Fail.task = "failed" /\ Fail.execution = "failed"
    /\ \A plan \in Successes :
          plan.run \in Done /\ plan.task = "succeeded" /\ plan.execution = "succeeded"
    /\ \A plan \in Plans : plan = Retry \/ plan = Fail \/ plan \in Successes
    /\ \A status \in Done : Succeed(status) \in Successes
  <1>1. \A status \in Done : /\ Succeed(status).run = status
                             /\ Succeed(status).task = "succeeded"
                             /\ Succeed(status).execution = "succeeded"
    BY DEF Succeed
  <1>2. /\ Retry.run = "retrying" /\ Retry.task = "queued" /\ Retry.execution = "running"
        /\ Fail.run = "failed" /\ Fail.task = "failed" /\ Fail.execution = "failed"
    BY DEF Retry, Fail
  <1>3. /\ Plans = Successes \cup {Retry, Fail}
        /\ \A status \in Done : Succeed(status) \in Successes
    BY DEF Plans, Successes
  <1>4. \A plan \in Successes :
            plan.run \in Done /\ plan.task = "succeeded" /\ plan.execution = "succeeded"
    BY <1>1 DEF Successes
  <1> QED BY <1>2, <1>3, <1>4

(* The statuses a plan writes are statuses.                                  *)
LEMMA PlanTypes ==
    ASSUME NEW plan \in Plans
    PROVE  plan.run \in RunStatuses /\ plan.task \in TaskStatuses
           /\ plan.execution \in ExecutionStatuses
  BY PlanFacts DEF RunStatuses, Runnable, Final, Done, TaskStatuses, ExecutionStatuses

(* So is an idle worker a worker.                                            *)
LEMMA IdleWorkerType ==
    ASSUME NEW n \in Nat
    PROVE  IdleWorker \in Worker(n) /\ IdleWorker.phase = "idle" /\ IdleWorker.task = 0
  BY PlanFacts, AssetParseAssumption DEF IdleWorker, Worker, WorkerPhases

(* The type of workers, and of the worker that goes on.                      *)
LEMMA GotoType ==
    ASSUME AssetParseTypeOK, NEW w \in Workers, NEW phase \in WorkerPhases,
           NEW plan \in Plans, GotoWith(w, phase, plan)
    PROVE  /\ workers' \in [Workers -> Worker(Len(tasks))]
           /\ workers'[w].phase = phase /\ workers'[w].plan = plan
           /\ workers'[w].task = workers[w].task
           /\ workers'[w].attempt = workers[w].attempt
           /\ \A v \in Workers \ {w} : workers'[v] = workers[v]
  <1> DEFINE new == [workers[w] EXCEPT !.phase = phase, !.plan = plan]
  <1>1. workers \in [Workers -> Worker(Len(tasks))] /\ workers[w] \in Worker(Len(tasks))
    BY DEF AssetParseTypeOK, Worker
  <1>2. /\ new \in Worker(Len(tasks)) /\ new.phase = phase /\ new.plan = plan
        /\ new.task = workers[w].task /\ new.attempt = workers[w].attempt
    BY <1>1 DEF Worker
  <1>3. workers' = [workers EXCEPT ![w] = new]
    BY <1>1 DEF GotoWith
  <1> HIDE DEF new
  <1> QED BY <1>1, <1>2, <1>3

(* Goto keeps the plan.                                                      *)
LEMMA GotoIsGotoWith ==
    ASSUME AssetParseTypeOK, NEW w \in Workers, NEW phase, Goto(w, phase)
    PROVE  GotoWith(w, phase, workers[w].plan)
  BY DEF Goto, GotoWith, AssetParseTypeOK

-----------------------------------------------------------------------------
(* The steps.                                                                *)

(* Nothing is there at first.                                                *)
LEMMA InitOK == Init => InductiveInvariant
  <1> SUFFICES ASSUME Init PROVE InductiveInvariant
    OBVIOUS
  <1>1. /\ tasks = <<>> /\ Len(tasks) = 0 /\ DOMAIN tasks = {} /\ tasks \in Seq(Task)
        /\ run = "absent"
        /\ \A w \in Workers : workers[w] = IdleWorker
    BY DEF Init
  <1>2. IdleWorker \in Worker(Len(tasks)) /\ IdleWorker.phase = "idle"
    BY <1>1, IdleWorkerType
  <1>3. workers \in [Workers -> Worker(Len(tasks))]
    BY <1>2 DEF Init
  <1>4. importers \in [Importers -> [phase : {"idle", "enqueue"}, run : RunStatuses]]
    BY DEF Init, IdleImporter, RunStatuses
  <1>5. AssetParseTypeOK
    <2>1. profile \in BOOLEAN
      BY DEF Init
    <2>2. imports \in 0 .. MaxImports /\ faults \in 0 .. MaxFaults
      BY AssetParseAssumption DEF Init
    <2>3. lost = {} /\ run \in RunStatuses
      BY DEF Init, RunStatuses
    <2> QED BY <1>1, <1>3, <1>4, <2>1, <2>2, <2>3 DEF AssetParseTypeOK, Worker
  <1>6. OneTaskAtATime /\ TasksOK
    BY <1>1 DEF OneTaskAtATime, Live, TasksOK, SuccessIsBacked, Done
  <1>7. HoldsTask /\ PlansOK
    BY <1>1, <1>2 DEF HoldsTask, PlansOK, PlanFits, Holding, HoldingPhases
  <1> QED BY <1>5, <1>6, <1>7 DEF InductiveInvariant

(* A worker goes on with its task, and may write the run or the profile:     *)
(* no other worker is at work at the time.                                   *)
LEMMA MoveOK ==
    ASSUME InductiveInvariant, NEW w \in Workers, Holding(w),
           NEW phase \in HoldingPhases, NEW plan \in Plans, GotoWith(w, phase, plan),
           UNCHANGED <<tasks, importers, imports, faults, lost>>,
           run' \in RunStatuses, profile' \in BOOLEAN,
           run \in Done => run' \in Done, profile => profile', run' \in Done => profile',
           PlanFits(phase, plan, workers[w].attempt, run', profile')
    PROVE  InductiveInvariant'
  <1>0. AssetParseTypeOK /\ OneTaskAtATime /\ TasksOK /\ HoldsTask /\ PlansOK
    BY DEF InductiveInvariant
  <1>1. /\ workers' \in [Workers -> Worker(Len(tasks))]
        /\ workers'[w].phase = phase /\ workers'[w].plan = plan
        /\ workers'[w].task = workers[w].task
        /\ workers'[w].attempt = workers[w].attempt
        /\ \A v \in Workers \ {w} : workers'[v] = workers[v]
    BY <1>0, GotoType DEF HoldingPhases
  <1>2. AssetParseTypeOK'
    BY <1>0, <1>1 DEF AssetParseTypeOK, Worker
  <1>3. OneTaskAtATime' /\ TasksOK'
    BY <1>0 DEF OneTaskAtATime, Live, TasksOK, SuccessIsBacked
  <1>4. \A v \in Workers \ {w} : workers[v].phase \notin HoldingPhases
    BY <1>0 DEF HoldsTask, Holding
  <1>5. HoldsTask'
    BY <1>0, <1>1, <1>4 DEF HoldsTask, Holding, HoldingPhases
  <1>6. \A v \in Workers \ {w} :
          PlanFits(workers'[v].phase, workers'[v].plan, workers'[v].attempt, run', profile')
    BY <1>1, <1>4 DEF PlanFits, HoldingPhases, WorkerPhases
  <1>7. PlansOK'
    BY <1>1, <1>6 DEF PlansOK
  <1> QED BY <1>2, <1>3, <1>5, <1>7 DEF InductiveInvariant

(* The steps of a worker up to the write of the run.                         *)
LEMMA ProcessOK ==
    ASSUME InductiveInvariant, NEW w \in Workers,
           \/ RejectDisabled(w) \/ CheckRun(w) \/ StartParse(w)
           \/ Parse(w) \/ UpsertProfile(w) \/ UpdateParseRun(w)
    PROVE  InductiveInvariant' /\ (run \in Final => run' = run)
  <1>0. /\ AssetParseTypeOK /\ SuccessIsBacked
        /\ PlanFits(workers[w].phase, workers[w].plan, workers[w].attempt, run, profile)
        /\ workers[w].plan \in Plans /\ run \in RunStatuses /\ profile \in BOOLEAN
    BY DEF InductiveInvariant, PlansOK, TasksOK, AssetParseTypeOK
  <1>a. {"start", "parse", "profile", "run", "task"} \subseteq HoldingPhases
    BY DEF HoldingPhases, WorkerPhases
  <1>b. "processing" \in Runnable /\ "processing" \notin Done /\ "processing" \in RunStatuses
        /\ "processing" \notin Final /\ Runnable \cap Final = {} /\ Done \subseteq Final
        /\ Final \cap Runnable = {} /\ Final \ Done = {"failed"}
    BY DEF Runnable, Done, RunStatuses, Final
  <1>1. CASE RejectDisabled(w)
    <2>1. Holding(w)
      BY <1>1 DEF RejectDisabled, Holding, HoldingPhases, WorkerPhases
    <2>2. PlanFits("task", Fail, workers[w].attempt, run, profile)
      BY PlanFacts DEF PlanFits
    <2> QED BY <1>0, <1>1, <1>a, <2>1, <2>2, MoveOK, PlanFacts
            DEF RejectDisabled, SuccessIsBacked
  <1>2. CASE CheckRun(w)
    <2>1. Holding(w) /\ UNCHANGED <<run, profile, tasks, importers, imports, faults, lost>>
      BY <1>2 DEF CheckRun, Holding, HoldingPhases, WorkerPhases
    <2>2. CASE run \in Done /\ GotoWith(w, "task", Succeed(run))
      <3>1. Succeed(run) \in Plans /\ Succeed(run) /= Retry
        BY <2>2, PlanFacts
      <3>2. PlanFits("task", Succeed(run), workers[w].attempt, run, profile)
        BY <2>2, <3>1 DEF PlanFits
      <3> QED BY <1>0, <1>a, <2>1, <2>2, <3>1, <3>2, MoveOK DEF SuccessIsBacked
    <2>3. CASE run \in Runnable /\ Goto(w, "start")
      <3>1. PlanFits("start", workers[w].plan, workers[w].attempt, run, profile)
        BY <1>0, <2>1, <2>3 DEF PlanFits, Holding
      <3>2. GotoWith(w, "start", workers[w].plan)
        BY <1>0, <2>3, GotoIsGotoWith
      <3> QED BY <1>0, <1>a, <2>1, <3>1, <3>2, MoveOK DEF SuccessIsBacked
    <2>4. CASE run \notin Done \cup Runnable /\ GotoWith(w, "run", Fail)
      <3>1. PlanFits("run", Fail, workers[w].attempt, run, profile)
        BY <2>4, PlanFacts DEF PlanFits
      <3> QED BY <1>0, <1>a, <2>1, <2>4, <3>1, MoveOK, PlanFacts DEF SuccessIsBacked
    <2> QED BY <1>2, <2>2, <2>3, <2>4 DEF CheckRun
  <1>3. CASE StartParse(w)
    <2>1. Holding(w) /\ run \in Runnable
      BY <1>0, <1>3 DEF StartParse, Holding, HoldingPhases, WorkerPhases, PlanFits
    <2>2. PlanFits("parse", workers[w].plan, workers[w].attempt, "processing", profile)
      BY <1>0, <1>b, <2>1 DEF PlanFits, Holding
    <2>3. GotoWith(w, "parse", workers[w].plan)
      BY <1>0, <1>3, GotoIsGotoWith DEF StartParse
    <2> QED BY <1>0, <1>3, <1>a, <1>b, <2>1, <2>2, <2>3, MoveOK DEF StartParse
  <1>4. CASE Parse(w)
    <2>1. /\ Holding(w) /\ run \in Runnable
          /\ UNCHANGED <<run, profile, tasks, importers, imports, faults, lost>>
      BY <1>0, <1>4 DEF Parse, Holding, HoldingPhases, WorkerPhases, PlanFits
    <2>2. ASSUME NEW status \in Done, GotoWith(w, "profile", Succeed(status))
          PROVE  InductiveInvariant'
      <3>1. Succeed(status) \in Plans /\ Succeed(status) \in Successes /\ Succeed(status) /= Retry
        BY PlanFacts
      <3>2. PlanFits("profile", Succeed(status), workers[w].attempt, run, profile)
        BY <2>1, <3>1 DEF PlanFits
      <3> QED BY <1>0, <1>a, <2>1, <2>2, <3>1, <3>2, MoveOK DEF SuccessIsBacked
    <2>3. ASSUME NEW retryable \in BOOLEAN,
                 GotoWith(w, "run", FailureAction(retryable, workers[w].attempt))
          PROVE  InductiveInvariant'
      <3> DEFINE plan == FailureAction(retryable, workers[w].attempt)
      <3>1. /\ plan \in Plans /\ plan \notin Successes
            /\ plan = Retry => workers[w].attempt < MaxAttempts
        BY PlanFacts DEF FailureAction
      <3> HIDE DEF plan
      <3>2. PlanFits("run", plan, workers[w].attempt, run, profile)
        BY <2>1, <3>1 DEF PlanFits
      <3>3. GotoWith(w, "run", plan)
        BY <2>3 DEF plan
      <3> QED BY <1>0, <1>a, <2>1, <3>1, <3>2, <3>3, MoveOK DEF SuccessIsBacked
    <2> QED BY <1>4, <2>1, <2>2, <2>3 DEF Parse
  <1>5. CASE UpsertProfile(w)
    <2>1. Holding(w) /\ run \in Runnable /\ workers[w].plan \in Successes
      BY <1>0, <1>5 DEF UpsertProfile, Holding, HoldingPhases, WorkerPhases, PlanFits
    <2>2. PlanFits("run", workers[w].plan, workers[w].attempt, run, TRUE)
      BY <2>1, PlanFacts DEF PlanFits
    <2>3. GotoWith(w, "run", workers[w].plan)
      BY <1>0, <1>5, GotoIsGotoWith DEF UpsertProfile
    <2> QED BY <1>0, <1>5, <1>a, <2>1, <2>2, <2>3, MoveOK DEF UpsertProfile
  <1>6. CASE UpdateParseRun(w)
    <2> DEFINE plan == workers[w].plan
    <2>1. /\ Holding(w)
          /\ run \in Runnable \/ (run \notin Done /\ plan = Fail)
          /\ plan \in Successes => profile
          /\ plan = Retry => workers[w].attempt < MaxAttempts
      BY <1>0, <1>6 DEF UpdateParseRun, Holding, HoldingPhases, WorkerPhases, PlanFits
    <2>2. /\ run' = plan.run /\ GotoWith(w, "task", plan)
          /\ UNCHANGED <<profile, tasks, importers, imports, faults, lost>>
      BY <1>0, <1>6, GotoIsGotoWith DEF UpdateParseRun
    <2>3. plan \in Plans /\ plan.run \in RunStatuses
      BY <1>0, PlanTypes
    <2>4. /\ plan \in Successes <=> plan.run \in Done
          /\ plan = Fail => plan.run = "failed"
      BY <2>3, PlanFacts DEF Done
    <2> HIDE DEF plan
    <2>5. PlanFits("task", plan, workers[w].attempt, plan.run, profile)
      BY <2>1, <2>4 DEF PlanFits
    <2>6. run \notin Done
      BY <1>b, <2>1
    <2>7. InductiveInvariant'
      BY <1>0, <1>a, <2>1, <2>2, <2>3, <2>4, <2>5, <2>6, MoveOK
    <2>8. run \in Final => run' = run
      BY <1>b, <2>1, <2>2, <2>4
    <2> QED BY <2>7, <2>8
  <1> QED BY <1>1, <1>2, <1>3, <1>4, <1>5, <1>6

(* Rewriting one task leaves a queue of tasks of the same length.            *)
LEMMA SetTaskType ==
    ASSUME NEW q \in Seq(Task), NEW t \in DOMAIN q, NEW row \in Task
    PROVE  LET new == [q EXCEPT ![t] = row]
           IN  /\ new \in Seq(Task) /\ Len(new) = Len(q) /\ DOMAIN new = DOMAIN q
               /\ new[t] = row
               /\ \A u \in DOMAIN q : u /= t => new[u] = q[u]
  OBVIOUS

(* The rest of the types, for a step that leaves run and profile alone.      *)
LEMMA RestOfTypes ==
    ASSUME AssetParseTypeOK, UNCHANGED <<run, profile>>,
           tasks' \in Seq(Task), DOMAIN tasks \subseteq DOMAIN tasks',
           \A t \in DOMAIN tasks' : tasks'[t].attempt <= MaxAttempts,
           importers' \in [Importers -> [phase : {"idle", "enqueue"}, run : RunStatuses]],
           workers' \in [Workers -> Worker(Len(tasks'))],
           imports' \in 0 .. MaxImports, faults' \in 0 .. MaxFaults,
           lost' \subseteq DOMAIN tasks
    PROVE  AssetParseTypeOK'
  BY DEF AssetParseTypeOK, Worker

(* A worker claims a task that no one holds, and no other task is claimed.   *)
LEMMA ClaimOK ==
    ASSUME InductiveInvariant, NEW w \in Workers, ClaimNextAvailable(w)
    PROVE  InductiveInvariant' /\ run' = run
  <1>0. AssetParseTypeOK /\ OneTaskAtATime /\ TasksOK /\ HoldsTask /\ PlansOK
    BY DEF InductiveInvariant
  <1>1. PICK t \in DOMAIN tasks :
            /\ Available(t)
            /\ tasks' = [tasks EXCEPT ![t].status = "claimed", ![t].attempt = @ + 1]
            /\ workers' = [workers EXCEPT ![w] = Claimed(t)]
    BY DEF ClaimNextAvailable
  <1> DEFINE row == [tasks[t] EXCEPT !.status = "claimed", !.attempt = tasks[t].attempt + 1]
             new == Claimed(t)
  <1>2. /\ tasks \in Seq(Task) /\ tasks[t] \in Task /\ tasks[t].status = "queued"
        /\ tasks[t].attempt < MaxAttempts /\ tasks[t].attempt \in Nat
        /\ t \in 1 .. Len(tasks) /\ Len(tasks) \in Nat
        /\ MaxAttempts \in Nat
    <2>1. tasks \in Seq(Task) /\ Len(tasks) \in Nat /\ t \in 1 .. Len(tasks)
      BY <1>0 DEF AssetParseTypeOK
    <2>a. tasks[t] \in Task
      BY <2>1
    <2>2. tasks[t] \in Task /\ tasks[t].attempt \in Nat
      BY <2>a DEF Task
    <2>3. tasks[t].status = "queued" /\ tasks[t].attempt < MaxAttempts
      BY <1>0, <1>1 DEF Available, TasksOK
    <2> QED BY <2>1, <2>2, <2>3, AssetParseAssumption
  <1>3. /\ row \in Task /\ row.status = "claimed" /\ row.attempt = tasks[t].attempt + 1
        /\ tasks' = [tasks EXCEPT ![t] = row]
    <2>1. row \in Task /\ row.status = "claimed" /\ row.attempt = tasks[t].attempt + 1
      <3>1. tasks[t] \in Task /\ tasks[t].attempt + 1 \in Nat /\ "claimed" \in TaskStatuses
        BY <1>2 DEF TaskStatuses
      <3> QED BY <3>1 DEF Task
    <2>2. tasks' = [tasks EXCEPT ![t] = row]
      BY <1>1, <1>2 DEF Task
    <2> QED BY <2>1, <2>2
  <1>4. /\ new \in Worker(Len(tasks)) /\ new.phase = "check" /\ new.task = t
        /\ new.attempt = tasks[t].attempt + 1 /\ new.plan = Fail
    BY <1>2, PlanFacts DEF Claimed, Worker, WorkerPhases
  <1>5. /\ workers \in [Workers -> Worker(Len(tasks))]
        /\ workers' = [workers EXCEPT ![w] = new]
        /\ UNCHANGED <<run, profile, importers, imports, faults, lost>>
    BY <1>0, <1>1 DEF AssetParseTypeOK, Worker, ClaimNextAvailable
  <1> HIDE DEF row, new
  <1>6. /\ tasks' \in Seq(Task) /\ Len(tasks') = Len(tasks) /\ DOMAIN tasks' = DOMAIN tasks
        /\ tasks'[t] = row
        /\ \A u \in DOMAIN tasks : u /= t => tasks'[u] = tasks[u]
    BY <1>2, <1>3, SetTaskType
  <1>7. /\ workers' \in [Workers -> Worker(Len(tasks'))]
        /\ workers'[w] = new
        /\ \A v \in Workers \ {w} : workers'[v] = workers[v]
    BY <1>4, <1>5, <1>6
  <1>8. AssetParseTypeOK'
    <2>1. \A u \in DOMAIN tasks' : tasks'[u].attempt <= MaxAttempts
      BY <1>0, <1>2, <1>3, <1>6 DEF AssetParseTypeOK
    <2> QED BY <1>0, <1>5, <1>6, <1>7, <2>1, RestOfTypes DEF AssetParseTypeOK
  <1>9. Live' = Live /\ \A v \in Workers : ~Holding(v)
    <2>1. Live' = Live
      BY <1>2, <1>3, <1>6 DEF Live
    <2>2. t \in Live
      BY <1>2 DEF Live
    <2>3. ASSUME NEW v \in Workers, Holding(v) PROVE FALSE
      <3>1. workers[v].task \in Live /\ tasks[workers[v].task].status = "claimed"
        BY <1>0, <2>3 DEF HoldsTask, Holding, HoldingPhases, Live
      <3> QED BY <1>0, <1>2, <2>2, <3>1 DEF OneTaskAtATime
    <2> QED BY <2>1, <2>3
  <1>10. OneTaskAtATime' /\ TasksOK'
    BY <1>0, <1>3, <1>5, <1>6, <1>9 DEF OneTaskAtATime, TasksOK, SuccessIsBacked
  <1>11. HoldsTask'
    BY <1>0, <1>3, <1>4, <1>6, <1>7, <1>9 DEF HoldsTask, Holding, HoldingPhases
  <1>12. PlansOK'
    <2>1. PlanFits("check", Fail, tasks[t].attempt + 1, run, profile)
      BY PlanFacts DEF PlanFits
    <2> QED BY <1>0, <1>4, <1>5, <1>7, <2>1 DEF PlansOK
  <1> QED BY <1>5, <1>8, <1>10, <1>11, <1>12 DEF InductiveInvariant

(* The worker that holds a task writes its outcome or puts it back.          *)
LEMMA UpdateTaskOK ==
    ASSUME InductiveInvariant, NEW w \in Workers, UpdateTask(w)
    PROVE  InductiveInvariant' /\ run' = run
  <1> DEFINE t == workers[w].task
             plan == workers[w].plan
             row == [tasks[t] EXCEPT !.status = plan.task]
  <1>0. AssetParseTypeOK /\ OneTaskAtATime /\ TasksOK /\ HoldsTask /\ PlansOK
    BY DEF InductiveInvariant
  <1>1. /\ workers[w].phase = "task" /\ Holding(w)
        /\ tasks' = [tasks EXCEPT ![t].status = plan.task]
        /\ GotoWith(w, "execution", plan)
        /\ UNCHANGED <<run, profile, importers, imports, faults, lost>>
    BY <1>0, GotoIsGotoWith DEF UpdateTask, Holding, HoldingPhases, WorkerPhases
  <1>2. /\ tasks \in Seq(Task) /\ t \in DOMAIN tasks /\ tasks[t] \in Task
        /\ tasks[t].status = "claimed" /\ tasks[t].attempt = workers[w].attempt
        /\ plan \in Plans /\ plan.task \in TaskStatuses
        /\ plan.task \in {"queued", "succeeded", "failed"}
        /\ plan.task = "queued" => workers[w].attempt < MaxAttempts
        /\ plan.task = "succeeded" => run \in Done
    <2>1. plan \in Plans
      BY <1>0 DEF AssetParseTypeOK
    <2>2. PlanFits("task", plan, workers[w].attempt, run, profile)
      BY <1>0, <1>1 DEF PlansOK
    <2>3. plan.task = "queued" => plan = Retry
      BY <2>1, PlanFacts
    <2>4. plan.task = "succeeded" => plan \in Successes
      BY <2>1, PlanFacts
    <2>5. plan.task \in TaskStatuses /\ plan.task \in {"queued", "succeeded", "failed"}
      BY <2>1, PlanFacts, PlanTypes
    <2>6. "task" \in HoldingPhases
      BY <1>1 DEF Holding
    <2>7. tasks \in Seq(Task) /\ t \in DOMAIN tasks /\ tasks[t].status = "claimed"
          /\ tasks[t].attempt = workers[w].attempt
      BY <1>0, <1>1 DEF AssetParseTypeOK, HoldsTask, Holding
    <2> QED BY <2>1, <2>2, <2>3, <2>4, <2>5, <2>6, <2>7 DEF PlanFits
  <1>3. /\ row \in Task /\ row.status = plan.task /\ row.attempt = tasks[t].attempt
        /\ tasks' = [tasks EXCEPT ![t] = row]
    BY <1>1, <1>2 DEF Task
  <1> HIDE DEF row, plan, t
  <1>4. /\ tasks' \in Seq(Task) /\ Len(tasks') = Len(tasks) /\ DOMAIN tasks' = DOMAIN tasks
        /\ tasks'[t] = row
        /\ \A u \in DOMAIN tasks : u /= t => tasks'[u] = tasks[u]
    BY <1>2, <1>3, SetTaskType
  <1>5. /\ workers' \in [Workers -> Worker(Len(tasks))]
        /\ workers'[w].phase = "execution"
        /\ workers'[w].task = t
        /\ \A v \in Workers \ {w} : workers'[v] = workers[v]
    BY <1>0, <1>1, <1>2, GotoType DEF WorkerPhases, t
  <1>6. AssetParseTypeOK'
    <2>1. \A u \in DOMAIN tasks' : tasks'[u].attempt <= MaxAttempts
      BY <1>0, <1>2, <1>3, <1>4 DEF AssetParseTypeOK
    <2> QED BY <1>0, <1>1, <1>4, <1>5, <2>1, RestOfTypes DEF AssetParseTypeOK
  <1>7. OneTaskAtATime'
    <2>1. Live' \subseteq Live
      BY <1>2, <1>4 DEF Live
    <2> QED BY <1>0, <2>1 DEF OneTaskAtATime
  <1>8. TasksOK'
    BY <1>0, <1>1, <1>2, <1>3, <1>4 DEF TasksOK, SuccessIsBacked
  <1>9. \A v \in Workers : ~Holding(v)'
    BY <1>0, <1>1, <1>5 DEF HoldsTask, Holding, HoldingPhases
  <1>10. HoldsTask'
    <2>1. \A v \in Workers : workers'[v].phase /= "idle" => workers'[v].task \in DOMAIN tasks'
      BY <1>0, <1>2, <1>4, <1>5 DEF HoldsTask
    <2> QED BY <1>9, <2>1 DEF HoldsTask
  <1>11. PlansOK'
    BY <1>9 DEF PlansOK, PlanFits, Holding, HoldingPhases, WorkerPhases
  <1> QED BY <1>1, <1>6, <1>7, <1>8, <1>10, <1>11 DEF InductiveInvariant

(* A worker is done with its task, or stops: it holds nothing any more.      *)
LEMMA ReleaseOK ==
    ASSUME InductiveInvariant, NEW w \in Workers,
           UpdateDetachedTaskState(w) \/ StopHalfway(w)
    PROVE  InductiveInvariant' /\ run' = run
  <1> DEFINE t == workers[w].task
             row == [tasks[t] EXCEPT !.execution = workers[w].plan.execution]
  <1>0. AssetParseTypeOK /\ OneTaskAtATime /\ TasksOK /\ HoldsTask /\ PlansOK
    BY DEF InductiveInvariant
  <1>1. /\ workers[w].phase /= "idle"
        /\ workers' = [workers EXCEPT ![w] = IdleWorker]
        /\ UNCHANGED <<run, profile, importers, imports>>
        /\ faults' \in 0 .. MaxFaults
        /\ lost' \subseteq lost \cup {t}
    BY <1>0, AssetParseAssumption DEF UpdateDetachedTaskState, StopHalfway, AssetParseTypeOK
  <1>2. /\ tasks \in Seq(Task) /\ t \in DOMAIN tasks /\ tasks[t] \in Task
        /\ workers[w].plan.execution \in ExecutionStatuses
    BY <1>0, <1>1, PlanTypes DEF AssetParseTypeOK, HoldsTask
  <1>3. /\ row \in Task /\ row.status = tasks[t].status /\ row.attempt = tasks[t].attempt
        /\ tasks' = [tasks EXCEPT ![t] = row] \/ tasks' = tasks
    BY <1>2 DEF Task, UpdateDetachedTaskState, StopHalfway
  <1> HIDE DEF row, t
  <1>4. /\ tasks' \in Seq(Task) /\ Len(tasks') = Len(tasks) /\ DOMAIN tasks' = DOMAIN tasks
        /\ \A u \in DOMAIN tasks : /\ tasks'[u].status = tasks[u].status
                                   /\ tasks'[u].attempt = tasks[u].attempt
    BY <1>2, <1>3, SetTaskType
  <1>5. /\ workers' \in [Workers -> Worker(Len(tasks'))]
        /\ workers'[w].phase = "idle"
        /\ \A v \in Workers \ {w} : workers'[v] = workers[v]
    <2>1. workers \in [Workers -> Worker(Len(tasks))] /\ Len(tasks) \in Nat
      BY <1>0, <1>2 DEF AssetParseTypeOK, Worker
    <2> QED BY <1>1, <1>4, <2>1, IdleWorkerType
  <1>6. AssetParseTypeOK'
    <2>1. \A u \in DOMAIN tasks' : tasks'[u].attempt <= MaxAttempts
      BY <1>0, <1>4 DEF AssetParseTypeOK
    <2>2. lost' \subseteq DOMAIN tasks
      BY <1>0, <1>1, <1>2 DEF AssetParseTypeOK
    <2> QED BY <1>0, <1>1, <1>4, <1>5, <2>1, <2>2, RestOfTypes DEF AssetParseTypeOK
  <1>7. OneTaskAtATime' /\ TasksOK'
    BY <1>0, <1>1, <1>4 DEF OneTaskAtATime, Live, TasksOK, SuccessIsBacked
  <1>8. HoldsTask'
    BY <1>0, <1>4, <1>5 DEF HoldsTask, Holding, HoldingPhases
  <1>9. PlansOK'
    BY <1>0, <1>1, <1>5 DEF PlansOK, PlanFits, HoldingPhases, WorkerPhases
  <1> QED BY <1>1, <1>6, <1>7, <1>8, <1>9 DEF InductiveInvariant

(* An import creates the run, or a task when none is live, or ends.          *)
LEMMA ImportOK ==
    ASSUME InductiveInvariant, NEW i \in Importers,
           UpsertParseRun(i) \/ EnqueueAssetParse(i) \/ AbortImport(i)
    PROVE  InductiveInvariant' /\ (run \in Final => run' = run)
  <1>0. AssetParseTypeOK /\ OneTaskAtATime /\ TasksOK /\ HoldsTask /\ PlansOK
    BY DEF InductiveInvariant
  <1>1. CASE UpsertParseRun(i)
    <2>1. run' = (IF run = "absent" THEN "pending" ELSE run)
          /\ UNCHANGED <<profile, tasks, workers, faults, lost>>
      BY <1>1 DEF UpsertParseRun
    <2>2. run' \in RunStatuses /\ (run \in Done => run' \in Done) /\ (run' \in Done => run \in Done)
          /\ (run \in Runnable => run' \in Runnable) /\ (run \in Final => run' = run)
      BY <1>0, <2>1 DEF AssetParseTypeOK, RunStatuses, Runnable, Final, Done
    <2>3. AssetParseTypeOK'
      <3>1. importers' \in [Importers -> [phase : {"idle", "enqueue"}, run : RunStatuses]]
        BY <1>0, <1>1, <2>2 DEF UpsertParseRun, AssetParseTypeOK
      <3>2. imports' \in 0 .. MaxImports
        BY <1>0, <1>1, AssetParseAssumption DEF UpsertParseRun, AssetParseTypeOK
      <3> QED BY <1>0, <2>1, <2>2, <3>1, <3>2 DEF AssetParseTypeOK
    <2>4. OneTaskAtATime' /\ TasksOK' /\ HoldsTask'
      BY <1>0, <2>1, <2>2 DEF OneTaskAtATime, Live, TasksOK, SuccessIsBacked, HoldsTask, Holding
    <2>5. PlansOK'
      BY <1>0, <2>1, <2>2 DEF PlansOK, PlanFits
    <2> QED BY <2>2, <2>3, <2>4, <2>5 DEF InductiveInvariant
  <1>2. CASE EnqueueAssetParse(i) \/ AbortImport(i)
    <2> DEFINE new == [status |-> "queued", attempt |-> 0, execution |-> "running"]
    <2>1. /\ tasks' = tasks \/ (Live = {} /\ tasks' = Append(tasks, new))
          /\ UNCHANGED <<run, profile, workers, imports, lost>>
          /\ faults' \in 0 .. MaxFaults
          /\ importers' \in [Importers -> [phase : {"idle", "enqueue"}, run : RunStatuses]]
      <3>1. tasks' = tasks \/ (Live = {} /\ tasks' = Append(tasks, new))
        BY <1>2 DEF EnqueueAssetParse, AbortImport, NoneExists
      <3>2. UNCHANGED <<run, profile, workers, imports, lost>>
        BY <1>2 DEF EnqueueAssetParse, AbortImport
      <3>3. faults' \in 0 .. MaxFaults
        BY <1>0, <1>2, AssetParseAssumption
           DEF EnqueueAssetParse, AbortImport, AssetParseTypeOK
      <3>4. importers' = [importers EXCEPT ![i] = IdleImporter]
        BY <1>2 DEF EnqueueAssetParse, AbortImport, EndImport
      <3>5. IdleImporter \in [phase : {"idle", "enqueue"}, run : RunStatuses]
        BY DEF IdleImporter, RunStatuses
      <3> QED BY <1>0, <3>1, <3>2, <3>3, <3>4, <3>5 DEF AssetParseTypeOK
    <2>2. new \in Task /\ new.status = "queued" /\ new.attempt = 0
      BY DEF Task, TaskStatuses, ExecutionStatuses
    <2>3. tasks \in Seq(Task) /\ Len(tasks) \in Nat /\ DOMAIN tasks = 1 .. Len(tasks)
      BY <1>0 DEF AssetParseTypeOK
    <2> HIDE DEF new
    <2>4. /\ tasks' \in Seq(Task) /\ Len(tasks') \in Nat /\ Len(tasks) <= Len(tasks')
          /\ DOMAIN tasks' = 1 .. Len(tasks')
          /\ DOMAIN tasks \subseteq DOMAIN tasks'
          /\ \A t \in DOMAIN tasks : tasks'[t] = tasks[t]
          /\ \A t \in DOMAIN tasks' \ DOMAIN tasks :
                /\ Live = {} /\ tasks'[t] = new
                /\ DOMAIN tasks' = DOMAIN tasks \cup {t}
      <3>1. CASE tasks' = tasks
        BY <2>3, <3>1
      <3>2. CASE Live = {} /\ tasks' = Append(tasks, new)
        <4>1. /\ tasks' \in Seq(Task) /\ Len(tasks') = Len(tasks) + 1
              /\ DOMAIN tasks' = 1 .. (Len(tasks) + 1)
              /\ tasks'[Len(tasks) + 1] = new
              /\ \A t \in 1 .. Len(tasks) : tasks'[t] = tasks[t]
          BY <2>2, <2>3, <3>2
        <4>2. \A t \in DOMAIN tasks' \ DOMAIN tasks : t = Len(tasks) + 1
          BY <2>3, <4>1
        <4>3. DOMAIN tasks' = DOMAIN tasks \cup {Len(tasks) + 1}
          BY <2>3, <4>1
        <4> QED BY <2>3, <3>2, <4>1, <4>2, <4>3
      <3> QED BY <2>1, <3>1, <3>2
    <2>5. AssetParseTypeOK'
      <3>1. \A t \in DOMAIN tasks' : tasks'[t].attempt <= MaxAttempts
        BY <1>0, <2>2, <2>4, AssetParseAssumption DEF AssetParseTypeOK
      <3>2. workers' \in [Workers -> Worker(Len(tasks'))]
        <4>1. workers \in [Workers -> Worker(Len(tasks))]
          BY <1>0 DEF AssetParseTypeOK, Worker
        <4>2. 0 .. Len(tasks) \subseteq 0 .. Len(tasks')
          BY <2>3, <2>4
        <4>3. Worker(Len(tasks)) \subseteq Worker(Len(tasks'))
          BY <4>2 DEF Worker
        <4> QED BY <2>1, <4>1, <4>3
      <3> QED BY <1>0, <2>1, <2>4, <3>1, <3>2, RestOfTypes DEF AssetParseTypeOK
    <2>6. OneTaskAtATime'
      BY <1>0, <2>4 DEF OneTaskAtATime, Live
    <2>7. TasksOK'
      <3>1. 0 < MaxAttempts
        BY AssetParseAssumption
      <3>2. \A t \in DOMAIN tasks' :
               /\ tasks'[t].status = "queued" => tasks'[t].attempt < MaxAttempts
               /\ tasks'[t].status = "succeeded" => run \in Done
        <4> SUFFICES ASSUME NEW t \in DOMAIN tasks'
                     PROVE  /\ tasks'[t].status = "queued" => tasks'[t].attempt < MaxAttempts
                            /\ tasks'[t].status = "succeeded" => run \in Done
          OBVIOUS
        <4>1. CASE t \in DOMAIN tasks
          BY <1>0, <2>4, <4>1 DEF TasksOK, SuccessIsBacked
        <4>2. CASE t \notin DOMAIN tasks
          BY <2>2, <2>4, <3>1, <4>2
        <4> QED BY <4>1, <4>2
      <3> QED BY <1>0, <2>1, <3>2 DEF TasksOK, SuccessIsBacked
    <2>8. HoldsTask'
      BY <1>0, <2>1, <2>4 DEF HoldsTask, Holding, HoldingPhases
    <2>9. PlansOK'
      BY <1>0, <2>1 DEF PlansOK
    <2> QED BY <2>1, <2>5, <2>6, <2>7, <2>8, <2>9 DEF InductiveInvariant
  <1> QED BY <1>1, <1>2

(* Every step keeps the invariant and the outcome of the run.                *)
LEMMA NextOK ==
    ASSUME InductiveInvariant, [Next]_vars
    PROVE  InductiveInvariant' /\ (run \in Final => run' = run)
  <1>1. CASE UNCHANGED vars
    BY <1>1 DEF vars, InductiveInvariant, AssetParseTypeOK, OneTaskAtATime, Live, TasksOK,
                SuccessIsBacked, HoldsTask, Holding, PlansOK
  <1>2. ASSUME NEW i \in Importers, UpsertParseRun(i) \/ EnqueueAssetParse(i) \/ AbortImport(i)
        PROVE  InductiveInvariant' /\ (run \in Final => run' = run)
    BY <1>2, ImportOK
  <1>3. ASSUME NEW w \in Workers, ClaimNextAvailable(w) \/ Process(w) \/ StopHalfway(w)
        PROVE  InductiveInvariant' /\ (run \in Final => run' = run)
    BY <1>3, ClaimOK, ProcessOK, UpdateTaskOK, ReleaseOK DEF Process
  <1> QED BY <1>1, <1>2, <1>3 DEF Next

-----------------------------------------------------------------------------
(* The theorems                                                              *)

(* The invariant holds in every state of every behaviour.                    *)
THEOREM ParseInvariance == Spec => []InductiveInvariant
  BY InitOK, NextOK, PTL DEF Spec

(* Rows, imports and workers keep their types, and no task is claimed more   *)
(* often than asset_parse_failure_action allows.                             *)
THEOREM ParseTypeCorrect == Spec => []AssetParseTypeOK
  <1>1. InductiveInvariant => AssetParseTypeOK
    BY DEF InductiveInvariant
  <1> QED BY <1>1, ParseInvariance, PTL

(* However many imports and workers there are, an asset never has two tasks  *)
(* that are queued or claimed.                                               *)
THEOREM ParsedByOneTask == Spec => []OneTaskAtATime
  <1>1. InductiveInvariant => OneTaskAtATime
    BY DEF InductiveInvariant
  <1> QED BY <1>1, ParseInvariance, PTL

(* No task is marked succeeded without a run that is done and a profile,     *)
(* wherever a worker stopped before.                                         *)
THEOREM NoUnbackedSuccess == Spec => []SuccessIsBacked
  <1>1. InductiveInvariant => SuccessIsBacked
    BY DEF InductiveInvariant, TasksOK
  <1> QED BY <1>1, ParseInvariance, PTL

(* The statements that write asset_parse_runs have no guard, yet none of     *)
(* them changes a run that is completed, partial or failed.                  *)
THEOREM RunOutcomeIsFinal == Spec => OutcomeIsFinal
  <1>1. InductiveInvariant /\ [Next]_vars => [(run \in Final) => run' = run]_vars
    BY NextOK
  <1> QED BY <1>1, ParseInvariance, PTL DEF Spec, OutcomeIsFinal

-----------------------------------------------------------------------------
(* The executions, when no statement outlasts the retry delay.               *)

Busy(w) == workers[w].phase /= "idle"

(* A task has one worker until its execution is written: the worker writes   *)
(* what the task says.                                                       *)
ExecutionsOK ==
    /\ \A v, w \in Workers : Busy(v) /\ Busy(w) /\ workers[v].task = workers[w].task => v = w
    /\ \A w \in Workers :
          workers[w].phase = "execution" => tasks[workers[w].task].status = workers[w].plan.task
    /\ \A t \in Live : tasks[t].execution = "running"
    /\ ExecutionFollowsTask

(* ExecutionFollowsTask for one task.                                        *)
Follows(t) ==
    \/ tasks[t].execution = tasks[t].status
    \/ /\ tasks[t].execution = "running"
       /\ tasks[t].status \in {"succeeded", "failed"} =>
             \/ t \in lost
             \/ \E w \in Workers : workers[w].phase = "execution" /\ workers[w].task = t

(* The property is the conjunction over all tasks.                           *)
LEMMA FollowsEach == ExecutionFollowsTask <=> \A t \in DOMAIN tasks : Follows(t)
  BY DEF ExecutionFollowsTask, Follows

(* The steps of a worker before it writes its task.                          *)
LEMMA ProcessKeepsExecutions ==
    ASSUME InductiveInvariant, ExecutionsOK, NEW w \in Workers,
           \/ RejectDisabled(w) \/ CheckRun(w) \/ StartParse(w)
           \/ Parse(w) \/ UpsertProfile(w) \/ UpdateParseRun(w)
    PROVE  ExecutionsOK'
  <1>0. AssetParseTypeOK /\ UNCHANGED <<tasks, lost>> /\ workers[w].plan \in Plans
    BY DEF InductiveInvariant, AssetParseTypeOK, RejectDisabled, CheckRun, StartParse, Parse,
           UpsertProfile, UpdateParseRun
  <1>1. workers[w].phase \in {"check", "start", "parse", "profile", "run"}
    BY DEF RejectDisabled, CheckRun, StartParse, Parse, UpsertProfile, UpdateParseRun
  <1>2. \E phase \in HoldingPhases, plan \in Plans : GotoWith(w, phase, plan)
    <2>1. \A phase \in {"start", "parse", "profile", "run", "task"} : phase \in HoldingPhases
      BY DEF HoldingPhases, WorkerPhases
    <2>2. \A attempt, retryable : FailureAction(retryable, attempt) \in Plans
      BY PlanFacts DEF FailureAction
    <2>3. \A status \in Done : Succeed(status) \in Plans
      BY PlanFacts
    <2>4. CASE RejectDisabled(w)
      BY <2>1, <2>4, PlanFacts DEF RejectDisabled
    <2>5. CASE CheckRun(w)
      <3>1. CASE run \in Done /\ GotoWith(w, "task", Succeed(run))
        BY <2>1, <2>3, <3>1
      <3>2. CASE Goto(w, "start")
        BY <1>0, <2>1, <3>2, GotoIsGotoWith
      <3>3. CASE GotoWith(w, "run", Fail)
        BY <2>1, <3>3, PlanFacts
      <3> QED BY <2>5, <3>1, <3>2, <3>3 DEF CheckRun
    <2>6. CASE StartParse(w)
      BY <1>0, <2>1, <2>6, GotoIsGotoWith DEF StartParse
    <2>7. CASE Parse(w)
      BY <2>1, <2>2, <2>3, <2>7 DEF Parse
    <2>8. CASE UpsertProfile(w)
      BY <1>0, <2>1, <2>8, GotoIsGotoWith DEF UpsertProfile
    <2>9. CASE UpdateParseRun(w)
      BY <1>0, <2>1, <2>9, GotoIsGotoWith DEF UpdateParseRun
    <2> QED BY <2>4, <2>5, <2>6, <2>7, <2>8, <2>9
  <1>3. PICK phase \in HoldingPhases, plan \in Plans : GotoWith(w, phase, plan)
    BY <1>2
  <1>4. /\ workers'[w].phase = phase /\ workers'[w].task = workers[w].task
        /\ \A v \in Workers \ {w} : workers'[v] = workers[v]
    BY <1>0, <1>3, GotoType DEF HoldingPhases
  <1>5. phase /= "idle" /\ phase /= "execution"
    BY <1>3 DEF HoldingPhases
  <1>6. \A v \in Workers : /\ workers'[v].task = workers[v].task
                           /\ Busy(v)' <=> Busy(v)
                           /\ workers'[v].phase = "execution" <=> workers[v].phase = "execution"
                           /\ workers[v].phase = "execution" => workers'[v] = workers[v]
    BY <1>1, <1>4, <1>5 DEF Busy
  <1>7. ExecutionFollowsTask'
    BY <1>0, <1>6 DEF ExecutionsOK, ExecutionFollowsTask
  <1>8. \A t \in Live' : tasks'[t].execution = "running"
    BY <1>0 DEF ExecutionsOK, Live
  <1> QED BY <1>0, <1>6, <1>7, <1>8 DEF ExecutionsOK

(* A task is claimed when no worker has it.                                  *)
LEMMA ClaimKeepsExecutions ==
    ASSUME ~SlowStatements, InductiveInvariant, ExecutionsOK, NEW w \in Workers,
           ClaimNextAvailable(w)
    PROVE  ExecutionsOK'
  <1>1. PICK t \in DOMAIN tasks :
            /\ Available(t)
            /\ tasks' = [tasks EXCEPT ![t].status = "claimed", ![t].attempt = @ + 1]
            /\ workers' = [workers EXCEPT ![w] = Claimed(t)]
    BY DEF ClaimNextAvailable
  <1>2. tasks \in Seq(Task) /\ workers \in [Workers -> Worker(Len(tasks))] /\ lost' = lost
    BY DEF InductiveInvariant, AssetParseTypeOK, Worker, ClaimNextAvailable
  <1>3. tasks[t] \in Task /\ tasks[t].status = "queued"
        /\ \A v \in Workers : workers[v].task /= t
    BY <1>1, <1>2 DEF Available
  <1>4. /\ DOMAIN tasks' = DOMAIN tasks
        /\ tasks'[t].status = "claimed" /\ tasks'[t].execution = tasks[t].execution
        /\ \A u \in DOMAIN tasks : u /= t => tasks'[u] = tasks[u]
    BY <1>1, <1>2, <1>3 DEF Task
  <1>5. /\ workers'[w].phase = "check" /\ workers'[w].task = t
        /\ \A v \in Workers \ {w} : workers'[v] = workers[v]
        /\ workers[w].phase = "idle"
    BY <1>1, <1>2 DEF Claimed, ClaimNextAvailable
  <1>6. tasks[t].execution = "running"
    BY <1>3 DEF ExecutionsOK, Live
  <1>7. \A v \in Workers : Busy(v) => workers[v].task \in DOMAIN tasks
    BY DEF InductiveInvariant, HoldsTask, Busy
  <1>8. ExecutionFollowsTask'
    <2> SUFFICES ASSUME NEW u \in DOMAIN tasks PROVE Follows(u)'
      BY <1>4, FollowsEach DEF ExecutionFollowsTask, Follows
    <2>1. CASE u = t
      BY <1>4, <1>6, <2>1 DEF Follows
    <2>2. CASE u /= t
      BY <1>2, <1>4, <1>5, <2>2, FollowsEach DEF ExecutionsOK, Follows
    <2> QED BY <2>1, <2>2
  <1>9. \A u \in Live' : tasks'[u].execution = "running"
    BY <1>4, <1>6 DEF ExecutionsOK, Live
  <1>10. \A v \in Workers :
            workers'[v].phase = "execution" =>
                tasks'[workers'[v].task].status = workers'[v].plan.task
    BY <1>3, <1>4, <1>5, <1>7 DEF ExecutionsOK, Busy
  <1>11. \A u, v \in Workers :
            Busy(u)' /\ Busy(v)' /\ workers'[u].task = workers'[v].task => u = v
    BY <1>3, <1>5 DEF ExecutionsOK, Busy
  <1> QED BY <1>8, <1>9, <1>10, <1>11 DEF ExecutionsOK

(* A worker writes its task; it is about to write the execution.             *)
LEMMA UpdateKeepsExecutions ==
    ASSUME InductiveInvariant, ExecutionsOK, NEW w \in Workers, UpdateTask(w)
    PROVE  ExecutionsOK'
  <1> DEFINE t == workers[w].task
             plan == workers[w].plan
  <1>0. AssetParseTypeOK /\ HoldsTask /\ tasks \in Seq(Task) /\ plan \in Plans /\ lost' = lost
    BY DEF InductiveInvariant, AssetParseTypeOK, UpdateTask
  <1>1. /\ workers[w].phase = "task"
        /\ tasks' = [tasks EXCEPT ![t].status = plan.task]
        /\ GotoWith(w, "execution", plan)
    BY <1>0, GotoIsGotoWith DEF UpdateTask
  <1>2. t \in DOMAIN tasks /\ tasks[t].status = "claimed" /\ tasks[t] \in Task
    BY <1>0, <1>1 DEF HoldsTask, Holding, HoldingPhases, WorkerPhases
  <1>3. /\ DOMAIN tasks' = DOMAIN tasks
        /\ tasks'[t].status = plan.task /\ tasks'[t].execution = tasks[t].execution
        /\ \A u \in DOMAIN tasks : u /= t => tasks'[u] = tasks[u]
    BY <1>0, <1>1, <1>2 DEF Task
  <1>4. /\ workers'[w].phase = "execution" /\ workers'[w].plan = plan
        /\ workers'[w].task = t
        /\ \A v \in Workers \ {w} : workers'[v] = workers[v]
    BY <1>0, <1>1, GotoType DEF WorkerPhases
  <1>5. tasks[t].execution = "running"
    BY <1>2 DEF ExecutionsOK, Live
  <1>6. \A v \in Workers \ {w} : Busy(v) => workers[v].task \in DOMAIN tasks /\ workers[v].task /= t
    BY <1>0, <1>1 DEF HoldsTask, ExecutionsOK, Busy
  <1> HIDE DEF t, plan
  <1>7. ExecutionFollowsTask'
    <2> SUFFICES ASSUME NEW u \in DOMAIN tasks PROVE Follows(u)'
      BY <1>3, FollowsEach DEF ExecutionFollowsTask, Follows
    <2>1. CASE u = t
      BY <1>3, <1>4, <1>5, <2>1 DEF Follows
    <2>2. CASE u /= t
      <3>1. Follows(u)
        BY FollowsEach DEF ExecutionsOK
      <3>2. \A v \in Workers : workers[v].phase = "execution" => v /= w
        BY <1>1
      <3> QED BY <1>0, <1>3, <1>4, <2>2, <3>1, <3>2 DEF Follows
    <2> QED BY <2>1, <2>2
  <1>8. \A u \in Live' : tasks'[u].execution = "running"
    BY <1>3, <1>5 DEF ExecutionsOK, Live
  <1>9. \A v \in Workers :
            workers'[v].phase = "execution" =>
                tasks'[workers'[v].task].status = workers'[v].plan.task
    BY <1>3, <1>4, <1>6 DEF ExecutionsOK, Busy
  <1>10. \A u, v \in Workers :
            Busy(u)' /\ Busy(v)' /\ workers'[u].task = workers'[v].task => u = v
    BY <1>4, <1>6 DEF ExecutionsOK, Busy
  <1> QED BY <1>7, <1>8, <1>9, <1>10 DEF ExecutionsOK

(* The execution is written as its task says, or the task is lost.           *)
LEMMA ReleaseKeepsExecutions ==
    ASSUME InductiveInvariant, ExecutionsOK, NEW w \in Workers,
           UpdateDetachedTaskState(w) \/ StopHalfway(w)
    PROVE  ExecutionsOK'
  <1> DEFINE t == workers[w].task
             plan == workers[w].plan
  <1>0. HoldsTask /\ tasks \in Seq(Task) /\ plan \in Plans
        /\ workers \in [Workers -> Worker(Len(tasks))]
    BY DEF InductiveInvariant, AssetParseTypeOK, Worker
  <1>1. Busy(w) /\ workers' = [workers EXCEPT ![w] = IdleWorker]
    BY DEF UpdateDetachedTaskState, StopHalfway, Busy
  <1>2. workers'[w].phase = "idle" /\ \A v \in Workers \ {w} : workers'[v] = workers[v]
    BY <1>0, <1>1 DEF IdleWorker
  <1>3. t \in DOMAIN tasks /\ tasks[t] \in Task
    BY <1>0, <1>1 DEF HoldsTask, Busy
  <1>4. \A v \in Workers \ {w} : Busy(v) => workers[v].task \in DOMAIN tasks /\ workers[v].task /= t
    BY <1>0, <1>1 DEF HoldsTask, ExecutionsOK, Busy
  <1>5. CASE UpdateDetachedTaskState(w)
    <2>1. /\ tasks' = [tasks EXCEPT ![t].execution = plan.execution]
          /\ lost' = lost /\ tasks[t].status = plan.task
      BY <1>5 DEF UpdateDetachedTaskState, ExecutionsOK
    <2>2. /\ DOMAIN tasks' = DOMAIN tasks
          /\ tasks'[t].status = tasks[t].status /\ tasks'[t].execution = plan.execution
          /\ \A u \in DOMAIN tasks : u /= t => tasks'[u] = tasks[u]
      BY <1>0, <1>3, <2>1 DEF Task
    <2>3. plan.task = plan.execution \/ (plan.task = "queued" /\ plan.execution = "running")
      BY <1>0, PlanFacts
    <2>a. plan.task /= "claimed" /\ (plan.task = "queued" => plan.execution = "running")
      BY <1>0, PlanFacts
    <2> HIDE DEF t, plan
    <2>4. ExecutionFollowsTask'
      <3> SUFFICES ASSUME NEW u \in DOMAIN tasks PROVE Follows(u)'
        BY <2>2, FollowsEach DEF ExecutionFollowsTask, Follows
      <3>1. CASE u = t
        BY <2>1, <2>2, <2>3, <3>1 DEF Follows
      <3>2. CASE u /= t
        <4>1. Follows(u)
          BY FollowsEach DEF ExecutionsOK
        <4>2. \A v \in Workers : workers[v].task = u => v /= w
          BY <3>2 DEF t
        <4> QED BY <1>2, <2>1, <2>2, <3>2, <4>1, <4>2 DEF Follows
      <3> QED BY <3>1, <3>2
    <2>5. \A u \in Live' : tasks'[u].execution = "running"
      <3> SUFFICES ASSUME NEW u \in Live' PROVE tasks'[u].execution = "running"
        OBVIOUS
      <3>1. CASE u = t
        BY <2>1, <2>2, <2>3, <2>a, <3>1 DEF Live
      <3>2. CASE u /= t
        BY <2>2, <3>2 DEF ExecutionsOK, Live
      <3> QED BY <3>1, <3>2
    <2>6. \A v \in Workers :
              workers'[v].phase = "execution" =>
                  tasks'[workers'[v].task].status = workers'[v].plan.task
      BY <1>2, <1>4, <2>2 DEF ExecutionsOK, Busy
    <2>7. \A u, v \in Workers :
              Busy(u)' /\ Busy(v)' /\ workers'[u].task = workers'[v].task => u = v
      BY <1>2 DEF ExecutionsOK, Busy
    <2> QED BY <2>4, <2>5, <2>6, <2>7 DEF ExecutionsOK
  <1>6. CASE StopHalfway(w)
    <2>1. tasks' = tasks /\ lost' = lost \cup {t}
      BY <1>6 DEF StopHalfway
    <2>2. ExecutionFollowsTask'
      <3> SUFFICES ASSUME NEW u \in DOMAIN tasks PROVE Follows(u)'
        BY <2>1, FollowsEach DEF ExecutionFollowsTask, Follows
      <3>1. Follows(u)
        BY FollowsEach DEF ExecutionsOK
      <3>2. CASE u = t
        BY <2>1, <3>1, <3>2 DEF Follows
      <3>3. CASE u /= t
        BY <1>2, <2>1, <3>1, <3>3 DEF Follows
      <3> QED BY <3>2, <3>3
    <2>3. \A u \in Live' : tasks'[u].execution = "running"
      BY <2>1 DEF ExecutionsOK, Live
    <2>4. \A v \in Workers :
              workers'[v].phase = "execution" =>
                  tasks'[workers'[v].task].status = workers'[v].plan.task
      BY <1>2, <2>1 DEF ExecutionsOK
    <2>5. \A u, v \in Workers :
              Busy(u)' /\ Busy(v)' /\ workers'[u].task = workers'[v].task => u = v
      BY <1>2 DEF ExecutionsOK, Busy
    <2> QED BY <2>2, <2>3, <2>4, <2>5 DEF ExecutionsOK
  <1> QED BY <1>5, <1>6

(* A new task comes with a running execution.                                *)
LEMMA ImportKeepsExecutions ==
    ASSUME InductiveInvariant, ExecutionsOK, NEW i \in Importers,
           UpsertParseRun(i) \/ EnqueueAssetParse(i) \/ AbortImport(i)
    PROVE  ExecutionsOK'
  <1> DEFINE new == [status |-> "queued", attempt |-> 0, execution |-> "running"]
  <1>0. HoldsTask /\ tasks \in Seq(Task) /\ UNCHANGED <<workers, lost>>
    BY DEF InductiveInvariant, AssetParseTypeOK, UpsertParseRun, EnqueueAssetParse, AbortImport
  <1>1. tasks' = tasks \/ tasks' = Append(tasks, new)
    BY DEF UpsertParseRun, EnqueueAssetParse, AbortImport
  <1>2. new.status = "queued" /\ new.execution = "running"
    OBVIOUS
  <1> HIDE DEF new
  <1>3. /\ \A t \in DOMAIN tasks : t \in DOMAIN tasks' /\ tasks'[t] = tasks[t]
        /\ \A t \in DOMAIN tasks' \ DOMAIN tasks : tasks'[t] = new
    BY <1>0, <1>1
  <1>4. ExecutionFollowsTask'
    <2> SUFFICES ASSUME NEW t \in DOMAIN tasks' PROVE Follows(t)'
      BY FollowsEach DEF ExecutionFollowsTask, Follows
    <2>1. CASE t \in DOMAIN tasks
      BY <1>0, <1>3, <2>1, FollowsEach DEF ExecutionsOK, Follows
    <2>2. CASE t \notin DOMAIN tasks
      BY <1>2, <1>3, <2>2 DEF Follows
    <2> QED BY <2>1, <2>2
  <1>5. \A t \in Live' : tasks'[t].execution = "running"
    BY <1>2, <1>3 DEF ExecutionsOK, Live
  <1>6. \A w \in Workers : Busy(w) => workers[w].task \in DOMAIN tasks
    BY <1>0 DEF HoldsTask, Busy
  <1>7. \A w \in Workers :
            workers'[w].phase = "execution" =>
                tasks'[workers'[w].task].status = workers'[w].plan.task
    BY <1>0, <1>3, <1>6 DEF ExecutionsOK, Busy
  <1> QED BY <1>0, <1>4, <1>5, <1>7 DEF ExecutionsOK, Busy

(* Every step keeps the executions in order.                                 *)
LEMMA NextKeepsExecutions ==
    ASSUME ~SlowStatements, InductiveInvariant, ExecutionsOK, [Next]_vars
    PROVE  ExecutionsOK'
  <1>1. CASE UNCHANGED vars
    BY <1>1 DEF vars, ExecutionsOK, ExecutionFollowsTask, Live, Busy
  <1>2. ASSUME NEW i \in Importers, UpsertParseRun(i) \/ EnqueueAssetParse(i) \/ AbortImport(i)
        PROVE  ExecutionsOK'
    BY <1>2, ImportKeepsExecutions
  <1>3. ASSUME NEW w \in Workers, ClaimNextAvailable(w) \/ Process(w) \/ StopHalfway(w)
        PROVE  ExecutionsOK'
    BY <1>3, ClaimKeepsExecutions, ProcessKeepsExecutions, UpdateKeepsExecutions,
       ReleaseKeepsExecutions DEF Process
  <1> QED BY <1>1, <1>2, <1>3 DEF Next

(* update_detached_task_state never lets an execution contradict its task,   *)
(* and leaves it behind only when a worker stopped halfway - as long as no   *)
(* statement outlasts the delay after which a requeued task is claimed.      *)
THEOREM ExecutionsFollow ==
    ASSUME ~SlowStatements
    PROVE  Spec => []ExecutionFollowsTask
  <1>1. Init => ExecutionsOK
    BY DEF Init, ExecutionsOK, ExecutionFollowsTask, Live, Busy, IdleWorker
  <1>2. InductiveInvariant /\ ExecutionsOK /\ [Next]_vars => ExecutionsOK'
    BY NextKeepsExecutions
  <1>3. ExecutionsOK => ExecutionFollowsTask
    BY DEF ExecutionsOK
  <1> QED BY <1>1, <1>2, <1>3, ParseInvariance, PTL DEF Spec
=============================================================================
