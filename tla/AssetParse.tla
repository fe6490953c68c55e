----------------------------- MODULE AssetParse -----------------------------
(***************************************************************************)
(* The profile parse of one asset: its row of asset_parse_runs, the        *)
(* detached asset_profile_parse tasks with the execution each is an        *)
(* envelope of, the imports that enqueue them and the ingest workers.      *)
(*                                                                         *)
(* Nothing here runs in one transaction but the creation of a task: a      *)
(* worker writes the run, the task and the execution in three statements,  *)
(* each by id and without a guard, and stops between two of them when one  *)
(* returns an Err or the process dies.                                     *)
(***************************************************************************)
EXTENDS Integers, Sequences, FiniteSets

CONSTANTS
    Importers,      \* import requests that may be under way at one time
    Workers,        \* ingest workers
    Disabled,       \* those started without ASSET_PARSE_ENABLED
    MaxAttempts,    \* ASSET_PARSE_MAX_ATTEMPTS
    SlowStatements, \* may one statement outlast the retry delay of 2 s?
    MaxImports,     \* bound: imports in a behaviour
    MaxFaults       \* bound: an Err or a killed process between two statements

ASSUME AssetParseAssumption ==
    /\ Disabled \subseteq Workers
    /\ MaxAttempts \in 1 .. 5
    /\ SlowStatements \in BOOLEAN
    /\ MaxImports \in Nat
    /\ MaxFaults \in Nat

VARIABLES
    run,            \* asset_parse_runs.status, "absent" before the first import
    profile,        \* is there an asset_profiles row of this parser version?
    tasks,          \* the tasks in the order of creation, with their executions
    importers,      \* what each import holds between two statements
    workers,        \* what each worker holds between two statements
    imports,        \* how many imports began
    faults,         \* how often a process stopped between two statements
    lost            \* history: the tasks whose worker stopped halfway

vars == <<run, profile, tasks, importers, workers, imports, faults, lost>>

Done == {"completed", "partial"}
Final == Done \cup {"failed"}
Runnable == {"pending", "retrying", "processing"}
RunStatuses == {"absent"} \cup Runnable \cup Final
TaskStatuses == {"queued", "claimed", "succeeded", "failed"}
ExecutionStatuses == {"running", "succeeded", "failed"}

Task == [status : TaskStatuses, attempt : Nat, execution : ExecutionStatuses]

(* What a worker has decided to write, in this order: the run, the task and *)
(* the execution.                                                            *)
Succeed(status) == [run |-> status, task |-> "succeeded", execution |-> "succeeded"]
Retry == [run |-> "retrying", task |-> "queued", execution |-> "running"]
Fail == [run |-> "failed", task |-> "failed", execution |-> "failed"]

Plans == {Succeed(status) : status \in Done} \cup {Retry, Fail}
WorkerPhases == {"idle", "check", "start", "parse", "profile", "run", "task", "execution"}

IdleImporter == [phase |-> "idle", run |-> "absent"]
IdleWorker == [phase |-> "idle", task |-> 0, attempt |-> 0, plan |-> Fail]

Live == {t \in DOMAIN tasks : tasks[t].status \in {"queued", "claimed"}}

Init ==
    /\ run = "absent"
    /\ profile = FALSE
    /\ tasks = <<>>
    /\ importers = [i \in Importers |-> IdleImporter]
    /\ workers = [w \in Workers |-> IdleWorker]
    /\ imports = 0
    /\ faults = 0
    /\ lost = {}

-----------------------------------------------------------------------------
(* upsert_fashion_design_image_asset_import_for_tenant                       *)

(* upsert_parse_run: an existing run keeps its status, which is returned.   *)
UpsertParseRun(i) ==
    /\ importers[i].phase = "idle"
    /\ imports < MaxImports
    /\ imports' = imports + 1
    /\ run' = IF run = "absent" THEN "pending" ELSE run
    /\ importers' = [importers EXCEPT ![i] = [phase |-> "enqueue", run |-> run']]
    /\ UNCHANGED <<profile, tasks, workers, faults, lost>>

EndImport(i) == importers' = [importers EXCEPT ![i] = IdleImporter]

(* Mutant: only tasks that wait in the queue count as existing.             *)
NoneQueued == \A t \in Live : tasks[t].status /= "queued"

(* create_asset_parse_if_absent looks for a queued or claimed task under    *)
(* an advisory lock that serialises the imports of one asset.                *)
NoneExists == Live = {}

(* The status that decides is the one the import read.                       *)
EnqueueAssetParse(i) ==
    /\ importers[i].phase = "enqueue"
    /\ EndImport(i)
    /\ tasks' = IF importers[i].run = "pending" /\ NoneExists
                THEN Append(tasks, [status |-> "queued", attempt |-> 0,
                                    execution |-> "running"])
                ELSE tasks
    /\ UNCHANGED <<run, profile, workers, imports, faults, lost>>

(* The request ends with an Err after the run was upserted.                  *)
AbortImport(i) ==
    /\ importers[i].phase = "enqueue"
    /\ faults < MaxFaults
    /\ EndImport(i)
    /\ faults' = faults + 1
    /\ UNCHANGED <<run, profile, tasks, workers, imports, lost>>

-----------------------------------------------------------------------------
(* process_asset_profile_parse_task                                          *)

Goto(w, phase) == workers' = [workers EXCEPT ![w].phase = phase]

GotoWith(w, phase, plan) ==
    workers' = [workers EXCEPT ![w].phase = phase, ![w].plan = plan]

(* available_at: a requeued task waits for the retry delay, by then the      *)
(* worker that requeued it has written the execution unless it is slow.      *)
Available(t) ==
    /\ tasks[t].status = "queued"
    /\ \/ SlowStatements
       \/ \A w \in Workers : workers[w].task /= t

Claimed(t) == [phase |-> "check", task |-> t, attempt |-> tasks[t].attempt + 1, plan |-> Fail]

ClaimNextAvailable(w) ==
    /\ workers[w].phase = "idle"
    /\ \E t \in DOMAIN tasks :
          /\ Available(t)
          /\ tasks' = [tasks EXCEPT ![t].status = "claimed", ![t].attempt = @ + 1]
          /\ workers' = [workers EXCEPT ![w] = Claimed(t)]
    /\ UNCHANGED <<run, profile, importers, imports, faults, lost>>

(* finish_unbound_asset_parse_failure: the run is left as it is.             *)
RejectDisabled(w) ==
    /\ w \in Disabled
    /\ workers[w].phase = "check"
    /\ GotoWith(w, "task", Fail)
    /\ UNCHANGED <<run, profile, tasks, importers, imports, faults, lost>>

(* Mutant: a run that is done is parsed again.                               *)
CheckNothing(w) ==
    /\ w \notin Disabled
    /\ workers[w].phase = "check"
    /\ Goto(w, "start")
    /\ UNCHANGED <<run, profile, tasks, importers, imports, faults, lost>>

(* The run is read: done already, runnable, or neither.                      *)
CheckRun(w) ==
    /\ w \notin Disabled
    /\ workers[w].phase = "check"
    /\ \/ /\ run \in Done
          /\ GotoWith(w, "task", Succeed(run))
       \/ /\ run \in Runnable
          /\ Goto(w, "start")
       \/ /\ run \notin Done \cup Runnable
          /\ GotoWith(w, "run", Fail)
    /\ UNCHANGED <<run, profile, tasks, importers, imports, faults, lost>>

StartParse(w) ==
    /\ workers[w].phase = "start"
    /\ run' = "processing"
    /\ Goto(w, "parse")
    /\ UNCHANGED <<profile, tasks, importers, imports, faults, lost>>

(* Mutant: one attempt too many.                                             *)
RetryOnceMore(retryable, attempt) ==
    IF retryable /\ attempt <= MaxAttempts THEN Retry ELSE Fail

(* asset_parse_failure_action                                                *)
FailureAction(retryable, attempt) ==
    IF retryable /\ attempt < MaxAttempts THEN Retry ELSE Fail

(* The source is loaded and the provider called: a profile that is complete *)
(* or not, or an error that is retryable or not.                             *)
Parse(w) ==
    /\ workers[w].phase = "parse"
    /\ \/ \E status \in Done : GotoWith(w, "profile", Succeed(status))
       \/ \E retryable \in BOOLEAN :
             GotoWith(w, "run", FailureAction(retryable, workers[w].attempt))
    /\ UNCHANGED <<run, profile, tasks, importers, imports, faults, lost>>

UpsertProfile(w) ==
    /\ workers[w].phase = "profile"
    /\ profile' = TRUE
    /\ Goto(w, "run")
    /\ UNCHANGED <<run, tasks, importers, imports, faults, lost>>

(* update_parse_run_state                                                    *)
UpdateParseRun(w) ==
    /\ workers[w].phase = "run"
    /\ run' = workers[w].plan.run
    /\ Goto(w, "task")
    /\ UNCHANGED <<profile, tasks, importers, imports, faults, lost>>

(* Mutant: a task that is to be tried again stays claimed.                  *)
UpdateSettledTask(w) ==
    /\ workers[w].phase = "task"
    /\ tasks' = IF workers[w].plan = Retry THEN tasks
                ELSE [tasks EXCEPT ![workers[w].task].status = workers[w].plan.task]
    /\ Goto(w, "execution")
    /\ UNCHANGED <<run, profile, importers, imports, faults, lost>>

(* mark_succeeded, mark_failed or requeue_after_transient_error             *)
UpdateTask(w) ==
    /\ workers[w].phase = "task"
    /\ tasks' = [tasks EXCEPT ![workers[w].task].status = workers[w].plan.task]
    /\ Goto(w, "execution")
    /\ UNCHANGED <<run, profile, importers, imports, faults, lost>>

(* Mutant: the execution is never written.                                  *)
UpdateNothing(w) ==
    /\ workers[w].phase = "execution"
    /\ workers' = [workers EXCEPT ![w] = IdleWorker]
    /\ UNCHANGED <<run, profile, tasks, importers, imports, faults, lost>>

(* update_detached_task_state                                                *)
UpdateDetachedTaskState(w) ==
    /\ workers[w].phase = "execution"
    /\ tasks' = [tasks EXCEPT ![workers[w].task].execution = workers[w].plan.execution]
    /\ workers' = [workers EXCEPT ![w] = IdleWorker]
    /\ UNCHANGED <<run, profile, importers, imports, faults, lost>>

(* A statement returns an Err, which the loop only logs, or the process is  *)
(* killed and restarted: no one looks at the task again.                     *)
StopHalfway(w) ==
    /\ workers[w].phase /= "idle"
    /\ faults < MaxFaults
    /\ faults' = faults + 1
    /\ lost' = lost \cup {workers[w].task}
    /\ workers' = [workers EXCEPT ![w] = IdleWorker]
    /\ UNCHANGED <<run, profile, tasks, importers, imports>>

Process(w) ==
    \/ RejectDisabled(w)
    \/ CheckRun(w)
    \/ StartParse(w)
    \/ Parse(w)
    \/ UpsertProfile(w)
    \/ UpdateParseRun(w)
    \/ UpdateTask(w)
    \/ UpdateDetachedTaskState(w)

Next ==
    \/ \E i \in Importers : UpsertParseRun(i) \/ EnqueueAssetParse(i) \/ AbortImport(i)
    \/ \E w \in Workers : ClaimNextAvailable(w) \/ Process(w) \/ StopHalfway(w)

Spec == Init /\ [][Next]_vars

(* Requests go on; every worker polls its queue and goes on with its task.  *)
FairSpec ==
    /\ Spec
    /\ \A i \in Importers : WF_vars(EnqueueAssetParse(i))
    /\ \A w \in Workers : WF_vars(ClaimNextAvailable(w) \/ Process(w))

-----------------------------------------------------------------------------
(* Properties                                                                *)

(* Types of the rows and of what is held between two statements; a task is  *)
(* claimed at most MaxAttempts times, as asset_parse_failure_action says.   *)
AssetParseTypeOK ==
    /\ run \in RunStatuses
    /\ profile \in BOOLEAN
    /\ tasks \in Seq(Task)
    /\ \A t \in DOMAIN tasks : tasks[t].attempt <= MaxAttempts
    /\ importers \in [Importers -> [phase : {"idle", "enqueue"}, run : RunStatuses]]
    /\ workers \in [Workers -> [phase : WorkerPhases, task : 0 .. Len(tasks),
                                attempt : 0 .. MaxAttempts, plan : Plans]]
    /\ imports \in 0 .. MaxImports
    /\ faults \in 0 .. MaxFaults
    /\ lost \subseteq DOMAIN tasks

(* However imports, workers and their faults interleave, at most one task   *)
(* of the asset is queued or claimed: create_asset_parse_if_absent sees the *)
(* claimed ones too, and a task is only requeued by the worker holding it.  *)
OneTaskAtATime == \A t, u \in Live : t = u

(* A task is marked succeeded only when the run is completed or partial and *)
(* the profile it stands for is stored: the writes come in this order, and  *)
(* no later task of the asset undoes them.                                   *)
SuccessIsBacked ==
    /\ \A t \in DOMAIN tasks : tasks[t].status = "succeeded" => run \in Done
    /\ run \in Done => profile

(* A completed, partial or failed run keeps its status for ever, although    *)
(* an import that read "pending" before may still enqueue a task for it.     *)
OutcomeIsFinal == [][(run \in Final) => run' = run]_vars

(* update_detached_task_state has no event and no transaction to rely on:    *)
(* still, an execution never says more than its task, and says as much       *)
(* unless a worker is about to write it or stopped halfway.                  *)
ExecutionFollowsTask ==
    \A t \in DOMAIN tasks :
        \/ tasks[t].execution = tasks[t].status
        \/ /\ tasks[t].execution = "running"
           /\ tasks[t].status \in {"succeeded", "failed"} =>
                 \/ t \in lost
                 \/ \E w \in Workers :
                       workers[w].phase = "execution" /\ workers[w].task = t

(* Every task that is enqueued gets its execution settled, with all retries  *)
(* used up if need be, unless a worker stopped halfway.                      *)
TaskSettles ==
    \A t \in 1 .. MaxImports :
        t \in Live ~> \/ t \in lost
                      \/ t \in DOMAIN tasks /\ tasks[t].execution /= "running"
=============================================================================
