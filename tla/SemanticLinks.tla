--------------------------- MODULE SemanticLinks ---------------------------
(***************************************************************************)
(* The cross-dataset semantic links of one pair of datasets: the rows of   *)
(* dataset_semantic_link_runs (the work queue) and of                      *)
(* dataset_semantic_link_snapshots (the links), the publishers that        *)
(* enqueue a run when a dataset gets a new snapshot, and the workers of    *)
(* dataset-semantic-link-worker.                                           *)
(*                                                                         *)
(* A run and a link are identified by the pair <<left, right>> of dataset  *)
(* snapshots they join; the snapshots of a dataset are numbered in the     *)
(* order in which they become the latest ready one (they never go back:    *)
(* LatestMovesForward of SemanticSnapshots).  Every UPDATE is guarded by   *)
(* the status of its row, none by who claimed the run.                     *)
(***************************************************************************)
EXTENDS Integers

CONSTANTS
    Workers,        \* processes of dataset-semantic-link-worker
    Publishers,     \* processes that rebuild snapshots or reconcile
    MaxLeft,        \* bound: snapshots of the left dataset
    MaxRight,       \* bound: snapshots of the right dataset
    MaxAttempts,    \* max_attempts of a run: 3
    Faults,         \* may a build or a database call fail?
    Crashes,        \* may a worker process die and restart?
    Overruns,       \* may a worker hold a run longer than lease_timeout?
    GateCloses,     \* may the rollout gate deny a claimed run?
    Backfills       \* does an operator revive dead-lettered runs?

ASSUME LinksAssumption ==
    /\ Workers \cap Publishers = {}
    /\ MaxLeft \in Nat \ {0} /\ MaxRight \in Nat \ {0}
    /\ MaxAttempts \in Nat \ {0}
    /\ {Faults, Crashes, Overruns, GateCloses, Backfills} \subseteq BOOLEAN

VARIABLES
    latest,         \* the latest ready snapshot of each of the two datasets
    runs,           \* dataset_semantic_link_runs: pair -> row
    links,          \* dataset_semantic_link_snapshots: pair -> row
    publishers,     \* what each publisher is doing
    workers         \* what each worker is doing

vars == <<latest, runs, links, publishers, workers>>

Pairs == (1 .. MaxLeft) \X (1 .. MaxRight)

RunStatuses == {"absent", "pending", "running", "retry_wait", "succeeded", "dead_letter"}
LinkStatuses == {"absent", "building", "ready", "failed", "superseded"}
PublisherPhases == {"idle", "rebuild", "enqueue", "create", "begin", "revive",
                    "recreate"}
WorkerPhases == {"idle", "claimed", "begin", "load", "reuse", "build", "mark",
                 "supersede", "commit", "finish", "unbuilt", "failed"}

FirstPair == <<1, 1>>
IdlePublisher == [phase |-> "idle", side |-> 1, own |-> 1, pair |-> FirstPair]
IdleWorker == [phase |-> "idle", pair |-> FirstPair, replaced |-> {}]

(* Both datasets have a ready snapshot, the pair was not looked at yet.     *)
Init ==
    /\ latest = FirstPair
    /\ runs = [pair \in Pairs |-> [status |-> "absent", attempts |-> 0]]
    /\ links = [pair \in Pairs |-> [status |-> "absent", stale |-> FALSE]]
    /\ publishers = [q \in Publishers |-> IdlePublisher]
    /\ workers = [w \in Workers |-> IdleWorker]

(* mark_ready is a transaction of two statements: its row, and the rows it  *)
(* supersedes once its second statement ran, are locked until it commits.   *)
Locked(pair) ==
    \E w \in Workers : /\ workers[w].phase \in {"supersede", "commit"}
                       /\ pair = workers[w].pair \/ pair \in workers[w].replaced

(* update ... set status where status = 'building'                           *)
FailBuilding(pair) ==
    IF links[pair].status = "building"
    THEN [links EXCEPT ![pair].status = "failed"] ELSE links

(* Mutant: a ready link is built again in place.                            *)
MayBeginReady(link) == link.status /= "building"

(* The rows the upsert of try_begin_build inserts or updates.                *)
MayBegin(link) == link.status \in {"absent", "failed", "superseded"}

BeginBuild(pair) ==
    IF MayBegin(links[pair])
    THEN [links EXCEPT ![pair] = [status |-> "building", stale |-> FALSE]] ELSE links

MarkReadyStale ==
    [pair \in Pairs |-> IF links[pair].status = "ready"
                        THEN [links[pair] EXCEPT !.stale = TRUE] ELSE links[pair]]

-----------------------------------------------------------------------------
(* Publishers: the API after a membership change, the enrichment worker,    *)
(* the reconciliation of the link worker, the two backfill programs.        *)

SetPublisher(q, phase) == publishers' = [publishers EXCEPT ![q].phase = phase]

Return(q) == publishers' = [publishers EXCEPT ![q] = IdlePublisher]

(* mark_ready_links_stale_for_dataset, before the rebuild: the reconciler   *)
(* and the membership API do this, the enrichment worker does not.          *)
MarkStale(q) ==
    /\ publishers[q].phase = "idle"
    /\ \A pair \in Pairs : links[pair].status = "ready" => ~Locked(pair)
    /\ links' = MarkReadyStale
    /\ SetPublisher(q, "rebuild")
    /\ UNCHANGED <<latest, runs, workers>>

(* The rebuild makes a snapshot of one of the datasets ready.                *)
PublishSnapshot(q) ==
    /\ publishers[q].phase \in {"idle", "rebuild"}
    /\ \E side \in {1, 2} :
          /\ latest' = [latest EXCEPT ![side] = @ + 1]
          /\ latest' \in Pairs
          /\ publishers' = [publishers EXCEPT ![q] =
                [IdlePublisher EXCEPT !.phase = "enqueue", !.side = side,
                                      !.own = latest[side] + 1]]
    /\ UNCHANGED <<runs, links, workers>>

(* The sources did not change: the latest ready snapshot is enqueued again. *)
KeepSnapshot(q) ==
    /\ publishers[q].phase = "idle"
    /\ \E side \in {1, 2} :
          publishers' = [publishers EXCEPT ![q] =
             [IdlePublisher EXCEPT !.phase = "enqueue", !.side = side,
                                   !.own = latest[side]]]
    /\ UNCHANGED <<latest, runs, links, workers>>

(* enqueue_dataset_semantic_link_runs_for_ready_snapshot pairs its own      *)
(* snapshot with the latest ready one of the other dataset.                 *)
ListCandidates(q) ==
    /\ publishers[q].phase = "enqueue"
    /\ publishers' = [publishers EXCEPT
                        ![q].phase = "create",
                        ![q].pair = [latest EXCEPT ![publishers[q].side] =
                                                      publishers[q].own]]
    /\ UNCHANGED <<latest, runs, links, workers>>

(* ensure_dataset_semantic_link_run: create_or_get_run keeps the status of  *)
(* an existing run; the row it returns decides what happens next.           *)
CreateOrGetRun(q) ==
    LET pair == publishers[q].pair
        row == runs[pair].status
    IN  /\ publishers[q].phase \in {"create", "recreate"}
        /\ runs' = IF row = "absent"
                   THEN [runs EXCEPT ![pair].status = "pending"] ELSE runs
        /\ \/ row /= "dead_letter" /\ SetPublisher(q, "begin")
           \/ row = "dead_letter" /\ Return(q)
           \/ /\ row = "dead_letter" /\ Backfills
              /\ publishers[q].phase = "create"
              /\ SetPublisher(q, "revive")
        /\ UNCHANGED <<latest, links, workers>>

EnsureBuild(q) ==
    /\ publishers[q].phase = "begin"
    /\ ~Locked(publishers[q].pair)
    /\ links' = BeginBuild(publishers[q].pair)
    /\ Return(q)
    /\ UNCHANGED <<latest, runs, workers>>

(* dataset-semantic-link-backfill: revive_dead_letter_run, then ensure again. *)
ReviveDeadLetterRun(q) ==
    LET pair == publishers[q].pair
    IN  /\ publishers[q].phase = "revive"
        /\ IF runs[pair].status = "dead_letter"
           THEN /\ runs' = [runs EXCEPT ![pair] = [status |-> "pending", attempts |-> 0]]
                /\ SetPublisher(q, "recreate")
           ELSE Return(q) /\ UNCHANGED runs
        /\ UNCHANGED <<latest, links, workers>>

(* The rebuild fails or has nothing to do; an enqueue that fails is logged. *)
GiveUp(q) ==
    /\ \/ publishers[q].phase = "rebuild"
       \/ Faults /\ publishers[q].phase /= "idle"
    /\ Return(q)
    /\ UNCHANGED <<latest, runs, links, workers>>

-----------------------------------------------------------------------------
(* Workers: run_worker_loop and process_claimed_run.                        *)

SetWorker(w, phase) == workers' = [workers EXCEPT ![w].phase = phase]

Release(w) == workers' = [workers EXCEPT ![w] = IdleWorker]

(* claim_ready_run_for_datasets: for update skip locked.                     *)
ClaimReadyRun(w) ==
    /\ workers[w].phase = "idle"
    /\ \E pair \in Pairs :
          /\ runs[pair].status \in {"pending", "retry_wait"}
          /\ runs[pair].attempts < MaxAttempts
          /\ runs' = [runs EXCEPT ![pair] = [status |-> "running", attempts |-> @.attempts + 1]]
          /\ workers' = [workers EXCEPT ![w] = [IdleWorker EXCEPT !.phase = "claimed",
                                                                 !.pair = pair]]
    /\ UNCHANGED <<latest, links, publishers>>

(* defer_run_without_attempt: the rollout gate denies the pair.              *)
DeferRun(w) ==
    LET run == runs[workers[w].pair]
    IN  /\ GateCloses
        /\ workers[w].phase = "claimed"
        /\ runs' = IF run.status = "running"
                   THEN [runs EXCEPT ![workers[w].pair] =
                           [status |-> "retry_wait",
                            attempts |-> IF run.attempts = 0 THEN 0 ELSE run.attempts - 1]]
                   ELSE runs
        /\ Release(w)
        /\ UNCHANGED <<latest, links, publishers>>

Succeeded(pair) == [runs EXCEPT ![pair].status = "succeeded"]

(* Mutant: the inputs of a run are taken to be current.                     *)
AnyInputsAreCurrent(pair) == TRUE

(* semantic_link_run_inputs_are_current                                      *)
InputsAreCurrent(pair) == pair = latest

(* The inputs are still the latest ready snapshots, or the run is obsolete: *)
(* mark_obsolete_run_succeeded also fails its build, in one transaction.    *)
CheckInputs(w) ==
    LET pair == workers[w].pair
    IN  /\ workers[w].phase = "claimed"
        /\ \/ /\ InputsAreCurrent(pair)
              /\ SetWorker(w, "begin")
              /\ UNCHANGED <<runs, links>>
           \/ /\ ~InputsAreCurrent(pair)
              /\ runs[pair].status = "running"
              /\ ~Locked(pair)
              /\ runs' = Succeeded(pair)
              /\ links' = FailBuilding(pair)
              /\ Release(w)
           \/ /\ ~InputsAreCurrent(pair)
              /\ runs[pair].status /= "running"
              /\ SetWorker(w, "failed")
              /\ UNCHANGED <<runs, links>>
        /\ UNCHANGED <<latest, publishers>>

TryBeginBuild(w) ==
    LET pair == workers[w].pair
    IN  /\ workers[w].phase = "begin"
        /\ ~Locked(pair)
        /\ links' = BeginBuild(pair)
        /\ SetWorker(w, IF MayBegin(links[pair]) THEN "build" ELSE "load")
        /\ UNCHANGED <<latest, runs, publishers>>

(* Mutant: a build that someone started is taken for a finished one.        *)
LoadAnyBuild(w) ==
    /\ workers[w].phase = "load"
    /\ SetWorker(w, "reuse")
    /\ UNCHANGED <<latest, runs, links, publishers>>

(* The upsert returned no row: load_by_inputs.                               *)
LoadExisting(w) ==
    LET status == links[workers[w].pair].status
    IN  /\ workers[w].phase = "load"
        /\ SetWorker(w, CASE status = "ready" -> "reuse"
                           [] status = "building" -> "build"
                           [] OTHER -> "failed")
        /\ UNCHANGED <<latest, runs, links, publishers>>

(* An existing ready link finishes the run; mark_run_succeeded may find it  *)
(* in another status, which is ignored here.                                *)
ReuseLink(w) ==
    LET pair == workers[w].pair
    IN  /\ workers[w].phase = "reuse"
        /\ runs' = IF runs[pair].status = "running" THEN Succeeded(pair) ELSE runs
        /\ Release(w)
        /\ UNCHANGED <<latest, links, publishers>>

(* The graph is built and the inputs are looked at again: a build of stale  *)
(* inputs is failed, and the run goes on to succeed.                        *)
BuildLink(w) ==
    LET pair == workers[w].pair
    IN  /\ workers[w].phase = "build"
        /\ \/ /\ InputsAreCurrent(pair)
              /\ SetWorker(w, "mark")
              /\ UNCHANGED links
           \/ /\ ~InputsAreCurrent(pair)
              /\ ~Locked(pair)
              /\ links' = FailBuilding(pair)
              /\ SetWorker(w, IF links[pair].status = "building" THEN "finish" ELSE "unbuilt")
        /\ UNCHANGED <<latest, runs, publishers>>

(* mark_ready, first statement: the row must be building.                    *)
MarkReady(w) ==
    /\ workers[w].phase = "mark"
    /\ ~Locked(workers[w].pair)
    /\ SetWorker(w, IF links[workers[w].pair].status = "building" THEN "supersede"
                                                                  ELSE "unbuilt")
    /\ UNCHANGED <<latest, runs, links, publishers>>

(* Mutant: the previous link of the pair of datasets stays ready.           *)
SupersedeNothing(w) ==
    /\ workers[w].phase = "supersede"
    /\ SetWorker(w, "commit")
    /\ UNCHANGED <<latest, runs, links, publishers>>

(* mark_ready, second statement: it sees the rows that were ready when it   *)
(* started; those another transaction changes first are looked at again.    *)
SupersedePrevious(w) ==
    LET ready == {pair \in Pairs \ {workers[w].pair} : links[pair].status = "ready"}
    IN  /\ workers[w].phase = "supersede"
        /\ workers' = [workers EXCEPT ![w].phase = "commit", ![w].replaced = ready]
        /\ UNCHANGED <<latest, runs, links, publishers>>

(* The commit; its acknowledgement may be lost.                              *)
CommitReady(w) ==
    /\ workers[w].phase = "commit"
    /\ links' = [pair \in Pairs |->
                    IF pair = workers[w].pair THEN [status |-> "ready", stale |-> FALSE]
                    ELSE IF pair \in workers[w].replaced /\ links[pair].status = "ready"
                         THEN [links[pair] EXCEPT !.status = "superseded"]
                         ELSE links[pair]]
    /\ \E phase \in {"finish"} \cup {p \in {"unbuilt"} : Faults} :
          workers' = [workers EXCEPT ![w] = [IdleWorker EXCEPT !.phase = phase,
                                                             !.pair = workers[w].pair]]
    /\ UNCHANGED <<latest, runs, publishers>>

(* mark_run_succeeded: the run must be running.                              *)
FinishRun(w) ==
    LET pair == workers[w].pair
    IN  /\ workers[w].phase = "finish"
        /\ IF runs[pair].status = "running"
           THEN runs' = Succeeded(pair) /\ Release(w)
           ELSE UNCHANGED runs /\ SetWorker(w, "failed")
        /\ UNCHANGED <<latest, links, publishers>>

(* An Err before the build, or after the link is ready.                     *)
ProcessingFails(w) ==
    /\ Faults
    /\ workers[w].phase \in {"claimed", "begin", "load", "reuse", "finish"}
    /\ SetWorker(w, "failed")
    /\ UNCHANGED <<latest, runs, links, publishers>>

(* An Err of the build; an open transaction is rolled back.                  *)
BuildFails(w) ==
    /\ Faults
    /\ workers[w].phase \in {"build", "mark", "supersede", "commit"}
    /\ workers' = [workers EXCEPT ![w] = [@ EXCEPT !.phase = "unbuilt", !.replaced = {}]]
    /\ UNCHANGED <<latest, runs, links, publishers>>

(* mark_failed after a build that returned Err; an Err of it is only logged. *)
MarkFailed(w) ==
    /\ workers[w].phase = "unbuilt"
    /\ \/ ~Locked(workers[w].pair) /\ links' = FailBuilding(workers[w].pair)
       \/ Faults /\ UNCHANGED links
    /\ SetWorker(w, "failed")
    /\ UNCHANGED <<latest, runs, publishers>>

(* Mutant: the attempt limit is one too high.                               *)
AfterAttemptOffByOne(run) ==
    IF run.attempts > MaxAttempts THEN "dead_letter" ELSE "retry_wait"

(* The status of a run whose attempt is over without a result.              *)
AfterAttempt(run) ==
    IF run.attempts >= MaxAttempts THEN "dead_letter" ELSE "retry_wait"

(* retry_or_dead_letter, in one transaction: a dead-lettered run also fails *)
(* its build.                                                                *)
RetryOrDeadLetter(w) ==
    LET pair == workers[w].pair
        dead == AfterAttempt(runs[pair]) = "dead_letter"
    IN  /\ workers[w].phase = "failed"
        /\ IF runs[pair].status = "running"
           THEN /\ dead => ~Locked(pair)
                /\ runs' = [runs EXCEPT ![pair].status = AfterAttempt(runs[pair])]
                /\ links' = IF dead THEN FailBuilding(pair) ELSE links
           ELSE UNCHANGED <<runs, links>>
        /\ Release(w)
        /\ UNCHANGED <<latest, publishers>>

(* Mutant: a lease never expires.                                            *)
NoneExpirable == {}

(* recover_stale_runs: runs whose lease is over, because their worker died  *)
(* or, with Overruns, is still at work.                                      *)
Expirable ==
    {pair \in Pairs :
        /\ runs[pair].status = "running"
        /\ Overruns \/ \A w \in Workers : workers[w].phase /= "idle" => workers[w].pair /= pair}

RecoverStaleRuns(w) ==
    /\ workers[w].phase = "idle"
    /\ \E expired \in SUBSET Expirable \ {{}} :
          LET failed == {pair \in expired : links[pair].status = "building"}
          IN  /\ \A pair \in Pairs : Locked(pair) => pair \notin failed
              /\ runs' = [pair \in Pairs |->
                            IF pair \in expired
                            THEN [runs[pair] EXCEPT !.status = AfterAttempt(runs[pair])]
                            ELSE runs[pair]]
              /\ links' = [pair \in Pairs |->
                             IF pair \in failed
                             THEN [links[pair] EXCEPT !.status = "failed"]
                             ELSE IF failed /= {} THEN MarkReadyStale[pair]
                                                  ELSE links[pair]]
    /\ UNCHANGED <<latest, publishers, workers>>

(* The process dies (or an Err leaves run_worker_loop) and is restarted; a  *)
(* transaction that was open is rolled back.                                *)
Crash(w) ==
    /\ Crashes
    /\ workers[w].phase /= "idle"
    /\ Release(w)
    /\ UNCHANGED <<latest, runs, links, publishers>>

-----------------------------------------------------------------------------
Publish(q) ==
    \/ MarkStale(q)
    \/ PublishSnapshot(q)
    \/ KeepSnapshot(q)
    \/ ListCandidates(q)
    \/ CreateOrGetRun(q)
    \/ EnsureBuild(q)
    \/ ReviveDeadLetterRun(q)
    \/ GiveUp(q)

Process(w) ==
    \/ CheckInputs(w)
    \/ TryBeginBuild(w)
    \/ LoadExisting(w)
    \/ ReuseLink(w)
    \/ BuildLink(w)
    \/ MarkReady(w)
    \/ SupersedePrevious(w)
    \/ CommitReady(w)
    \/ FinishRun(w)
    \/ MarkFailed(w)
    \/ RetryOrDeadLetter(w)

Work(w) ==
    \/ ClaimReadyRun(w)
    \/ DeferRun(w)
    \/ Process(w)
    \/ ProcessingFails(w)
    \/ BuildFails(w)
    \/ RecoverStaleRuns(w)
    \/ Crash(w)

Next ==
    \/ \E q \in Publishers : Publish(q)
    \/ \E w \in Workers : Work(w)

Spec == Init /\ [][Next]_vars

(* The worker's loop claims, processes and recovers again and again; the    *)
(* reconciliation comes round for ever, and its calls do not fail every     *)
(* time (SF).  Nothing makes a dataset change or an operator run a backfill. *)
Fairness ==
    /\ \A q \in Publishers : /\ SF_vars(KeepSnapshot(q))
                             /\ SF_vars(ListCandidates(q))
                             /\ SF_vars(CreateOrGetRun(q))
                             /\ WF_vars(EnsureBuild(q) \/ ReviveDeadLetterRun(q) \/ GiveUp(q))
    /\ \A w \in Workers : /\ WF_vars(Process(w))
                          /\ WF_vars(ClaimReadyRun(w))
                          /\ WF_vars(RecoverStaleRuns(w))

FairSpec == Spec /\ Fairness

-----------------------------------------------------------------------------
(* Every row and every process is in a state the schema and the code know,  *)
(* and no run is claimed more often than its attempt budget allows: the     *)
(* claim counts, a deferral gives back, a revival starts again.             *)
LinksTypeOK ==
    /\ latest \in Pairs
    /\ runs \in [Pairs -> [status : RunStatuses, attempts : 0 .. MaxAttempts]]
    /\ \A pair \in Pairs : runs[pair].status = "retry_wait" =>
                              runs[pair].attempts < MaxAttempts
    /\ links \in [Pairs -> [status : LinkStatuses, stale : BOOLEAN]]
    /\ publishers \in [Publishers -> [phase : PublisherPhases, side : {1, 2},
                                      own : 1 .. MaxLeft \cup 1 .. MaxRight, pair : Pairs]]
    /\ workers \in [Workers -> [phase : WorkerPhases, pair : Pairs,
                                replaced : SUBSET Pairs]]

ReadyLinks == {pair \in Pairs : links[pair].status = "ready"}

(* mark_ready supersedes the previous link of the two datasets in its own   *)
(* transaction: with one worker at most one link is ready.                  *)
OneReadyLink == \A p, q \in ReadyLinks : p = q

(* A run that succeeded on the current inputs leaves their link ready: no   *)
(* run is finished on the strength of a build that was failed or replaced.  *)
SucceededHasReadyLink ==
    runs[latest].status = "succeeded" => links[latest].status = "ready"

(* While a link is rebuilt, and when that fails, the link the readers have  *)
(* stays: once the two datasets have a ready link they always have one,     *)
(* with any number of workers and with leases that expire under them.       *)
ReadyLinkSurvives == [][ReadyLinks /= {} => ReadyLinks' /= {}]_vars

(* A link that becomes ready was built from snapshots at least as new as    *)
(* those of every link that was ready: the double check of the inputs keeps *)
(* a build that started before a snapshot was published from replacing the  *)
(* link of the newer one.                                                    *)
ReadyMovesForward ==
    [][\A p \in ReadyLinks' \ ReadyLinks : \A q \in ReadyLinks :
          p[1] >= q[1] /\ p[2] >= q[2]]_vars

(* A claimed run does not stay running: its worker settles it, or dies and  *)
(* the lease recovery does.                                                  *)
RunningRunSettles ==
    \A pair \in Pairs : (runs[pair].status = "running") ~> (runs[pair].status /= "running")

(* As long as a pair of snapshots is the current one, its link becomes      *)
(* ready or its run ends in the dead letter state: reconciliation makes up  *)
(* for an enqueue that failed, lease recovery for a worker that died.       *)
CurrentPairSettles ==
    \A pair \in Pairs :
        (latest = pair) ~> \/ latest /= pair
                           \/ links[pair].status = "ready"
                           \/ runs[pair].status = "dead_letter"

=============================================================================
