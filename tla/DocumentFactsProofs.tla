------------------------- MODULE DocumentFactsProofs -------------------------
(***************************************************************************)
(* The safety of DocumentFacts for any documents, any sets of retrieval    *)
(* and enrichment workers and any number of parses and faults.             *)
(***************************************************************************)
EXTENDS DocumentFacts, SequenceTheorems, TLAPS

Worker(n) == [phase : Phases, kind : Kinds, doc : Docs, task : 0 .. n, lifecycle : Lifecycles,
              chunks : Versions, facts : [Docs -> Versions]]
Run == [status : RunStatuses, attempts : 0 .. MaxAttempts]

Busy(w) == workers[w].phase /= "idle"
HasRun(w) == Busy(w) /\ workers[w].kind = "run"

(* Queues, and what the workers have of them.                                *)
QueuesOK ==
    /\ tasks \in Seq(Task)
    /\ runs \in [Docs -> Run]
    /\ workers \in [AllWorkers -> Worker(Len(tasks))]
    /\ \A w \in AllWorkers :
          Busy(w) /\ workers[w].kind /= "run" => workers[w].task \in DOMAIN tasks
    /\ RunsAreExclusive

(* The parses of a document that will raise its version once more: those     *)
(* queued, and the one of an ingest worker that has not written its chunks   *)
(* or that is about to start the document again.                             *)
Underway(d) == IF ingest[d] \in {"parse", "requeue", "restart"} THEN 1 ELSE 0
PendingParses(d) == queued[d] + Underway(d)

IngestStep(d) == RequestParse(d) \/ Ingest(d) \/ ParseFails(d) \/ IngestStops(d)

(* Documents and facts: every version was paid for by a request or by the    *)
(* reparse counter, and the facts are not ahead of the chunks.               *)
DocumentsOK ==
    /\ execution \in [Docs -> Stages]
    /\ queued \in [Docs -> Nat]
    /\ ingest \in [Docs -> IngestPhases]
    /\ reportErr \in [Docs -> BOOLEAN]
    /\ lifecycle \in [Docs -> Lifecycles]
    /\ reparses \in [Docs -> 0 .. MaxReparses]
    /\ chunks \in [Docs -> Nat]
    /\ facts \in [Docs -> Nat]
    /\ snapshot \in [Docs -> Versions]
    /\ parses \in 0 .. MaxParses
    /\ faults \in 0 .. MaxFaults
    /\ overlapped \in BOOLEAN
    /\ \A d \in Docs : chunks[d] + PendingParses(d) <= parses + reparses[d]
    /\ \A d \in Docs : facts[d] <= chunks[d]

InductiveInvariant == QueuesOK /\ DocumentsOK

FactsForward == \A d \in Docs : facts'[d] >= facts[d]

-----------------------------------------------------------------------------
(* Types.                                                                    *)

(* The versions of chunks and facts are within their bound.                  *)
LEMMA VersionBounds ==
    ASSUME DocumentsOK
    PROVE  /\ Versions \subseteq Nat /\ 0 \in Versions
           /\ \A d \in Docs : chunks[d] \in Versions /\ facts[d] \in Versions
           /\ chunks \in [Docs -> Versions] /\ facts \in [Docs -> Versions]
           /\ queued \in [Docs -> Versions]
  <1>1. MaxParses + MaxReparses \in Nat
    BY DocumentFactsAssumption
  <1>2. Versions \subseteq Nat /\ 0 \in Versions
    BY <1>1 DEF Versions
  <1>3. \A d \in Docs : chunks[d] \in Versions /\ facts[d] \in Versions /\ queued[d] \in Versions
    <2> SUFFICES ASSUME NEW d \in Docs
                 PROVE  chunks[d] \in Versions /\ facts[d] \in Versions /\ queued[d] \in Versions
      OBVIOUS
    <2>1. /\ chunks[d] \in Nat /\ facts[d] \in Nat /\ facts[d] <= chunks[d] /\ queued[d] \in Nat
          /\ parses \in Nat /\ parses <= MaxParses
          /\ reparses[d] \in Nat /\ reparses[d] <= MaxReparses
      BY DocumentFactsAssumption DEF DocumentsOK
    <2>2. Underway(d) \in Nat /\ chunks[d] + (queued[d] + Underway(d)) <= parses + reparses[d]
      BY DEF DocumentsOK, PendingParses, Underway
    <2>3. chunks[d] <= MaxParses + MaxReparses /\ queued[d] <= MaxParses + MaxReparses
      BY <2>1, <2>2, DocumentFactsAssumption
    <2> QED BY <2>1, <2>3, DocumentFactsAssumption DEF Versions
  <1> QED BY <1>2, <1>3 DEF DocumentsOK

(* The invariant contains the types.                                         *)
LEMMA TypesHold == InductiveInvariant => DocumentFactsTypeOK
  BY VersionBounds DEF InductiveInvariant, QueuesOK, DocumentsOK, DocumentFactsTypeOK, Worker, Run

(* An idle worker is a worker.                                               *)
LEMMA IdleWorkerType ==
    ASSUME NEW n \in Nat
    PROVE  /\ IdleWorker \in Worker(n)
           /\ IdleWorker.phase = "idle" /\ IdleWorker.kind = "run" /\ IdleWorker.task = 0
  <1>1. (CHOOSE d \in Docs : TRUE) \in Docs
    BY DocumentFactsAssumption
  <1>2. 0 \in Versions /\ [d \in Docs |-> 0] \in [Docs -> Versions]
    BY DocumentFactsAssumption DEF Versions
  <1> QED BY <1>1, <1>2 DEF IdleWorker, Worker, Phases, Kinds, Lifecycles

(* At first there is nothing.                                                *)
LEMMA InitOK == Init => InductiveInvariant
  <1> SUFFICES ASSUME Init PROVE InductiveInvariant
    OBVIOUS
  <1>1. tasks = <<>> /\ tasks \in Seq(Task) /\ Len(tasks) = 0
    BY DEF Init
  <1>2. IdleWorker \in Worker(Len(tasks)) /\ IdleWorker.phase = "idle"
    BY <1>1, IdleWorkerType
  <1>3. runs \in [Docs -> Run]
    BY DocumentFactsAssumption DEF Init, Run, RunStatuses
  <1>4. workers \in [AllWorkers -> Worker(Len(tasks))] /\ \A w \in AllWorkers : ~Busy(w)
    BY <1>2 DEF Init, Busy
  <1>5. QueuesOK
    BY <1>1, <1>3, <1>4 DEF QueuesOK, RunsAreExclusive, Busy
  <1>6. /\ execution \in [Docs -> Stages] /\ lifecycle \in [Docs -> Lifecycles]
        /\ queued \in [Docs -> Nat] /\ ingest \in [Docs -> IngestPhases]
        /\ reportErr \in [Docs -> BOOLEAN]
        /\ \A d \in Docs : queued[d] = 0 /\ ingest[d] = "idle"
    BY DEF Init, Stages, Lifecycles, IngestPhases
  <1>7. /\ reparses \in [Docs -> 0 .. MaxReparses] /\ chunks \in [Docs -> Nat]
        /\ facts \in [Docs -> Nat] /\ snapshot \in [Docs -> Versions]
        /\ \A d \in Docs : chunks[d] = 0 /\ facts[d] = 0 /\ reparses[d] = 0
    BY DocumentFactsAssumption DEF Init, Versions
  <1>8. parses = 0 /\ parses \in 0 .. MaxParses /\ faults \in 0 .. MaxFaults
    BY DocumentFactsAssumption DEF Init
  <1>9. overlapped \in BOOLEAN
    BY DEF Init
  <1>10. \A d \in Docs : chunks[d] + PendingParses(d) <= parses + reparses[d]
    BY <1>6, <1>7, <1>8 DEF PendingParses, Underway
  <1>11. DocumentsOK
    BY <1>6, <1>7, <1>8, <1>9, <1>10 DEF DocumentsOK
  <1> QED BY <1>5, <1>11 DEF InductiveInvariant

-----------------------------------------------------------------------------
(* The documents.                                                            *)

(* A step that leaves documents and facts alone.                             *)
LEMMA DocumentsKept ==
    ASSUME DocumentsOK, UNCHANGED documentVars, UNCHANGED <<facts, snapshot>>,
           overlapped' \in BOOLEAN, faults' \in 0 .. MaxFaults
    PROVE  DocumentsOK' /\ FactsForward
  <1>1. UNCHANGED <<execution, queued, ingest, reportErr, lifecycle, reparses, chunks, parses>>
    BY DEF documentVars, executionVars
  <1> QED BY <1>1 DEF DocumentsOK, PendingParses, Underway, FactsForward

(* A step at one document that keeps the types and pays for what it adds to  *)
(* the versions.                                                             *)
LEMMA DocumentStep ==
    ASSUME DocumentsOK, NEW d \in Docs,
           execution' \in [Docs -> Stages], queued' \in [Docs -> Nat],
           ingest' \in [Docs -> IngestPhases], reportErr' \in [Docs -> BOOLEAN],
           lifecycle' \in [Docs -> Lifecycles], reparses' \in [Docs -> 0 .. MaxReparses],
           chunks' \in [Docs -> Nat], parses' \in 0 .. MaxParses, faults' \in 0 .. MaxFaults,
           UNCHANGED <<facts, snapshot, overlapped>>,
           \A e \in Docs : e /= d => /\ queued'[e] = queued[e] /\ ingest'[e] = ingest[e]
                                     /\ chunks'[e] = chunks[e] /\ reparses'[e] = reparses[e],
           parses <= parses', chunks[d] <= chunks'[d],
           (chunks'[d] + PendingParses(d)') + (parses + reparses[d])
               <= (parses' + reparses'[d]) + (chunks[d] + PendingParses(d))
    PROVE  DocumentsOK' /\ FactsForward
  <1>1. \A e \in Docs : /\ chunks[e] \in Nat /\ facts[e] \in Nat /\ reparses[e] \in Nat
                        /\ facts[e] <= chunks[e] /\ parses \in Nat /\ PendingParses(e) \in Nat
                        /\ chunks[e] + PendingParses(e) <= parses + reparses[e]
    BY DocumentFactsAssumption DEF DocumentsOK, PendingParses, Underway
  <1>2. \A e \in Docs : /\ chunks'[e] \in Nat /\ reparses'[e] \in Nat /\ parses' \in Nat
                        /\ PendingParses(e)' \in Nat
    BY DocumentFactsAssumption DEF PendingParses, Underway
  <1>3. \A e \in Docs : e /= d => PendingParses(e)' = PendingParses(e)
    BY DEF PendingParses, Underway
  <1>4. ASSUME NEW e \in Docs
        PROVE  /\ (chunks[e] + PendingParses(e) <= parses + reparses[e])'
               /\ (facts[e] <= chunks[e])'
    <2>1. CASE e = d
      BY <1>1, <1>2, <2>1
    <2>2. CASE e /= d
      BY <1>1, <1>2, <1>3, <2>2
    <2> QED BY <2>1, <2>2
  <1> QED BY <1>1, <1>4 DEF DocumentsOK, FactsForward

(* A worker's step that writes the lifecycle or moves the execution.         *)
LEMMA StageStep ==
    ASSUME DocumentsOK, NEW d \in Docs,
           execution' \in [Docs -> Stages], reportErr' \in [Docs -> BOOLEAN],
           lifecycle' \in [Docs -> Lifecycles],
           UNCHANGED <<queued, ingest, reparses, chunks, parses, facts, snapshot, overlapped>>,
           faults' \in 0 .. MaxFaults
    PROVE  DocumentsOK' /\ FactsForward
  <1>1. PendingParses(d)' = PendingParses(d) /\ PendingParses(d) \in Nat
    BY DEF PendingParses, Underway, DocumentsOK
  <1>2. chunks[d] \in Nat /\ reparses[d] \in Nat /\ parses \in Nat
    BY DocumentFactsAssumption DEF DocumentsOK
  <1> QED BY <1>1, <1>2, DocumentStep DEF DocumentsOK

(* What a step of the ingest worker or a request may touch.                  *)
LEMMA IngestEffects ==
    ASSUME InductiveInvariant, NEW d \in Docs, IngestStep(d)
    PROVE  /\ UNCHANGED <<runs, workers, facts, snapshot, overlapped>>
           /\ faults' = faults \/ (faults < MaxFaults /\ faults' = faults + 1)
           /\ faults' \in 0 .. MaxFaults
           /\ execution' = execution \/ \E stage \in Stages : SetExecution(d, stage)
           /\ reportErr' = reportErr \/ reportErr' = [reportErr EXCEPT ![d] = TRUE]
           /\ lifecycle' = lifecycle \/ SetLifecycle(d, "extracted") \/ SetLifecycle(d, "failed")
           /\ ingest' = ingest \/ \E phase \in IngestPhases : IngestGoto(d, phase)
           /\ \/ tasks' = tasks
              \/ tasks' = Append(tasks, Queued("facts", d))
              \/ tasks' = Append(tasks, Queued("index", d))
  <1>1. /\ UNCHANGED <<runs, workers, facts, snapshot, overlapped>>
        /\ faults' = faults \/ (faults < MaxFaults /\ faults' = faults + 1)
    BY DEF IngestStep, Ingest, RequestParse, ParseFails, IngestStops, ClaimParse, ReplaceChunks,
           MarkExtracted, EnqueueFacts, CompleteParse, MarkDeferred, FailDeferred, RestartParse,
           MarkParseFailed, FailParse, FailureErr, Fault, factVars
  <1>2. faults' \in 0 .. MaxFaults
    BY <1>1, DocumentFactsAssumption DEF InductiveInvariant, DocumentsOK
  <1>3. /\ execution' = execution \/ \E stage \in Stages : SetExecution(d, stage)
        /\ reportErr' = reportErr \/ reportErr' = [reportErr EXCEPT ![d] = TRUE]
    BY DEF IngestStep, Ingest, RequestParse, ParseFails, IngestStops, ClaimParse, ReplaceChunks,
           MarkExtracted, EnqueueFacts, CompleteParse, MarkDeferred, FailDeferred, RestartParse,
           MarkParseFailed, FailParse, FailureErr, AcceptFailure, AcceptParse, StartParse, Stages
  <1>4. lifecycle' = lifecycle \/ SetLifecycle(d, "extracted") \/ SetLifecycle(d, "failed")
    BY DEF IngestStep, Ingest, RequestParse, ParseFails, IngestStops, ClaimParse, ReplaceChunks,
           MarkExtracted, EnqueueFacts, CompleteParse, MarkDeferred, FailDeferred, RestartParse,
           MarkParseFailed, FailParse
  <1>5. ingest' = ingest \/ \E phase \in IngestPhases : IngestGoto(d, phase)
    BY DEF IngestStep, Ingest, RequestParse, ParseFails, IngestStops, ClaimParse, ReplaceChunks,
           MarkExtracted, EnqueueFacts, CompleteParse, MarkDeferred, FailDeferred, RestartParse,
           MarkParseFailed, FailParse, IngestPhases
  <1>6. \/ tasks' = tasks
        \/ tasks' = Append(tasks, Queued("facts", d))
        \/ tasks' = Append(tasks, Queued("index", d))
    BY DEF IngestStep, Ingest, RequestParse, ParseFails, IngestStops, ClaimParse, ReplaceChunks,
           MarkExtracted, EnqueueFacts, CompleteParse, MarkDeferred, FailDeferred, RestartParse,
           MarkParseFailed, FailParse, AcceptParse
  <1> QED BY <1>1, <1>2, <1>3, <1>4, <1>5, <1>6

(* The ingest worker's steps and requests keep the documents in order.       *)
LEMMA IngestDocuments ==
    ASSUME InductiveInvariant, NEW d \in Docs, IngestStep(d)
    PROVE  DocumentsOK' /\ FactsForward
  <1>0. DocumentsOK
    BY DEF InductiveInvariant
  <1>1. /\ execution' \in [Docs -> Stages] /\ reportErr' \in [Docs -> BOOLEAN]
        /\ lifecycle' \in [Docs -> Lifecycles] /\ ingest' \in [Docs -> IngestPhases]
        /\ \A e \in Docs : e /= d => ingest'[e] = ingest[e]
    <2>1. execution' \in [Docs -> Stages] /\ reportErr' \in [Docs -> BOOLEAN]
      BY <1>0, IngestEffects DEF DocumentsOK, SetExecution
    <2>2. lifecycle' \in [Docs -> Lifecycles]
      BY <1>0, IngestEffects DEF DocumentsOK, SetLifecycle, Lifecycles
    <2>3. /\ ingest' \in [Docs -> IngestPhases]
          /\ \A e \in Docs : e /= d => ingest'[e] = ingest[e]
      BY <1>0, IngestEffects DEF DocumentsOK, IngestGoto
    <2> QED BY <2>1, <2>2, <2>3
  <1>2. UNCHANGED <<facts, snapshot, overlapped>> /\ faults' \in 0 .. MaxFaults
    BY IngestEffects
  <1>3. /\ chunks[d] \in Nat /\ reparses[d] \in Nat /\ reparses[d] <= MaxReparses /\ parses \in Nat
        /\ queued[d] \in Nat /\ parses <= MaxParses /\ Underway(d) \in {0, 1} /\ Underway(d)' \in {0, 1}
    BY <1>0, DocumentFactsAssumption DEF DocumentsOK, Underway
  <1>4. \A e \in Docs : ingest[e] \in IngestPhases /\ ingest'[e] \in IngestPhases
    BY <1>0, <1>1 DEF DocumentsOK
  <1>5. CASE UNCHANGED <<queued, reparses, chunks, parses>> /\ Underway(d)' <= Underway(d)
    <2>1. PendingParses(d)' \in Nat /\ PendingParses(d) \in Nat /\ PendingParses(d)' <= PendingParses(d)
      BY <1>3, <1>5 DEF PendingParses
    <2> QED BY <1>0, <1>1, <1>2, <1>3, <1>5, <2>1, DocumentStep DEF DocumentsOK
  <1>6. CASE RequestParse(d) \/ (RestartParse(d) /\ StartParse(d))
    <2>1. /\ queued' = [queued EXCEPT ![d] = queued[d] + 1]
          /\ UNCHANGED <<reparses, chunks>>
          /\ \/ parses' = parses + 1 /\ parses < MaxParses /\ Underway(d)' = Underway(d)
             \/ parses' = parses /\ Underway(d) = 1 /\ Underway(d)' = 0
      BY <1>0, <1>6 DEF RequestParse, RestartParse, StartParse, IngestGoto, Underway, DocumentsOK
    <2>2. /\ queued' \in [Docs -> Nat] /\ queued'[d] = queued[d] + 1
          /\ \A e \in Docs : e /= d => queued'[e] = queued[e]
      BY <1>0, <1>3, <2>1 DEF DocumentsOK
    <2>3. parses' \in 0 .. MaxParses /\ parses <= parses'
      BY <1>3, <2>1, DocumentFactsAssumption
    <2>4. (chunks'[d] + PendingParses(d)') + (parses + reparses[d])
              <= (parses' + reparses'[d]) + (chunks[d] + PendingParses(d))
      BY <1>3, <2>1, <2>2 DEF PendingParses
    <2> QED BY <1>0, <1>1, <1>2, <1>3, <2>1, <2>2, <2>3, <2>4, DocumentStep DEF DocumentsOK
  <1>7. CASE ClaimParse(d)
    <2>1. /\ queued' = [queued EXCEPT ![d] = queued[d] - 1] /\ queued[d] > 0
          /\ Underway(d) = 0 /\ UNCHANGED <<reparses, chunks, parses>>
      BY <1>7 DEF ClaimParse, Underway
    <2>2. /\ queued' \in [Docs -> Nat] /\ queued'[d] = queued[d] - 1
          /\ \A e \in Docs : e /= d => queued'[e] = queued[e]
      BY <1>0, <1>3, <2>1 DEF DocumentsOK
    <2>3. (chunks'[d] + PendingParses(d)') + (parses + reparses[d])
              <= (parses' + reparses'[d]) + (chunks[d] + PendingParses(d))
      BY <1>3, <2>1, <2>2 DEF PendingParses
    <2> QED BY <1>0, <1>1, <1>2, <1>3, <2>1, <2>2, <2>3, DocumentStep DEF DocumentsOK
  <1>8. CASE ReplaceChunks(d)
    <2>1. /\ chunks' = [chunks EXCEPT ![d] = chunks[d] + 1] /\ UNCHANGED <<reparses, queued, parses>>
          /\ Underway(d) = 1 /\ Underway(d)' = 0
      BY <1>0, <1>8 DEF ReplaceChunks, IngestGoto, Underway, DocumentsOK
    <2>2. /\ chunks' \in [Docs -> Nat] /\ chunks'[d] = chunks[d] + 1
          /\ \A e \in Docs : e /= d => chunks'[e] = chunks[e]
      BY <1>0, <1>3, <2>1 DEF DocumentsOK
    <2>3. (chunks'[d] + PendingParses(d)') + (parses + reparses[d])
              <= (parses' + reparses'[d]) + (chunks[d] + PendingParses(d))
      BY <1>3, <2>1, <2>2 DEF PendingParses
    <2> QED BY <1>0, <1>1, <1>2, <1>3, <2>1, <2>2, <2>3, DocumentStep DEF DocumentsOK
  <1>9. CASE MarkDeferred(d) /\ ShouldReparse(d)
    <2>1. /\ reparses' = [reparses EXCEPT ![d] = reparses[d] + 1] /\ UNCHANGED <<chunks, queued, parses>>
          /\ reparses[d] < MaxReparses /\ Underway(d) = 0
      BY <1>9 DEF MarkDeferred, ShouldReparse, Underway
    <2>2. /\ reparses' \in [Docs -> 0 .. MaxReparses] /\ reparses'[d] = reparses[d] + 1
          /\ \A e \in Docs : e /= d => reparses'[e] = reparses[e]
      BY <1>0, <1>3, <2>1, DocumentFactsAssumption DEF DocumentsOK
    <2>3. (chunks'[d] + PendingParses(d)') + (parses + reparses[d])
              <= (parses' + reparses'[d]) + (chunks[d] + PendingParses(d))
      BY <1>3, <2>1, <2>2 DEF PendingParses
    <2> QED BY <1>0, <1>1, <1>2, <1>3, <2>1, <2>2, <2>3, DocumentStep DEF DocumentsOK
  <1>10. \/ UNCHANGED <<queued, reparses, chunks, parses>> /\ Underway(d)' <= Underway(d)
         \/ RequestParse(d) \/ (RestartParse(d) /\ StartParse(d)) \/ ClaimParse(d)
         \/ ReplaceChunks(d) \/ (MarkDeferred(d) /\ ShouldReparse(d))
    BY <1>0 DEF IngestStep, Ingest, ParseFails, IngestStops, MarkExtracted, EnqueueFacts,
           CompleteParse, MarkDeferred, FailDeferred, RestartParse, MarkParseFailed, FailParse,
           IngestGoto, Underway, DocumentsOK
  <1> QED BY <1>5, <1>6, <1>7, <1>8, <1>9, <1>10

-----------------------------------------------------------------------------
(* The queues.                                                               *)

(* Tasks are added behind the ones there are.                                *)
LEMMA QueueGrows ==
    ASSUME QueuesOK, UNCHANGED <<runs, workers>>, tasks' \in Seq(Task),
           Len(tasks) <= Len(tasks')
    PROVE  QueuesOK'
  <1>1. Len(tasks) \in Nat /\ Len(tasks') \in Nat
        /\ DOMAIN tasks = 1 .. Len(tasks) /\ DOMAIN tasks' = 1 .. Len(tasks')
    BY DEF QueuesOK
  <1>2. 0 .. Len(tasks) \subseteq 0 .. Len(tasks') /\ DOMAIN tasks \subseteq DOMAIN tasks'
    BY <1>1
  <1>3. Worker(Len(tasks)) \subseteq Worker(Len(tasks'))
    BY <1>2 DEF Worker
  <1> QED BY <1>2, <1>3 DEF QueuesOK, Busy, RunsAreExclusive

(* Requests and the ingest worker touch the queues only to add tasks.        *)
LEMMA IngestQueues ==
    ASSUME InductiveInvariant, NEW d \in Docs, IngestStep(d)
    PROVE  QueuesOK'
  <1>1. Queued("index", d) \in Task /\ Queued("facts", d) \in Task
    BY DEF Queued, Task, TaskStatuses
  <1>2. QueuesOK /\ tasks \in Seq(Task) /\ Len(tasks) \in Nat
    BY DEF InductiveInvariant, QueuesOK
  <1>3. \A task \in Task : /\ Append(tasks, task) \in Seq(Task)
                           /\ Len(tasks) <= Len(Append(tasks, task))
    BY <1>2
  <1>4. UNCHANGED <<runs, workers>> /\ tasks' \in Seq(Task) /\ Len(tasks) <= Len(tasks')
    BY <1>1, <1>2, <1>3, IngestEffects
  <1> QED BY <1>2, <1>4, QueueGrows

(* A worker goes on with what it has, or lets go of it.                      *)
LEMMA WorkerMoves ==
    ASSUME QueuesOK, NEW w \in AllWorkers, NEW new \in Worker(Len(tasks)),
           workers' = [workers EXCEPT ![w] = new], UNCHANGED <<tasks, runs>>,
           \/ new.phase = "idle"
           \/ Busy(w) /\ new.kind = workers[w].kind /\ new.doc = workers[w].doc
                      /\ new.task = workers[w].task
    PROVE  QueuesOK'
  <1>1. /\ workers' \in [AllWorkers -> Worker(Len(tasks'))]
        /\ workers'[w] = new
        /\ \A v \in AllWorkers : v /= w => workers'[v] = workers[v]
    BY DEF QueuesOK
  <1>2. \A v \in AllWorkers :
            Busy(v)' => /\ Busy(v) /\ workers'[v].kind = workers[v].kind
                        /\ workers'[v].doc = workers[v].doc
                        /\ workers'[v].task = workers[v].task
    BY <1>1 DEF Busy
  <1>3. RunsAreExclusive'
    BY <1>2 DEF QueuesOK, RunsAreExclusive, Busy
  <1>4. \A v \in AllWorkers :
            Busy(v)' /\ workers'[v].kind /= "run" => workers'[v].task \in DOMAIN tasks'
    BY <1>2 DEF QueuesOK
  <1> QED BY <1>1, <1>3, <1>4 DEF QueuesOK

(* The same for a worker that only changes its phase ...                     *)
LEMMA GotoMoves ==
    ASSUME QueuesOK, NEW w \in AllWorkers, Busy(w), NEW phase \in Phases, Goto(w, phase),
           UNCHANGED <<tasks, runs>>
    PROVE  QueuesOK'
  <1> DEFINE new == [workers[w] EXCEPT !.phase = phase]
  <1>1. workers[w] \in Worker(Len(tasks)) /\ workers \in [AllWorkers -> Worker(Len(tasks))]
    BY DEF QueuesOK
  <1>2. /\ new \in Worker(Len(tasks)) /\ new.kind = workers[w].kind
        /\ new.doc = workers[w].doc /\ new.task = workers[w].task
    BY <1>1 DEF Worker
  <1>3. workers' = [workers EXCEPT ![w] = new]
    BY DEF Goto
  <1> HIDE DEF new
  <1> QED BY <1>2, <1>3, WorkerMoves

(* ... and for one that becomes idle.                                        *)
LEMMA ReleaseMoves ==
    ASSUME QueuesOK, NEW w \in AllWorkers, Release(w), UNCHANGED <<tasks, runs>>
    PROVE  QueuesOK'
  <1>1. IdleWorker \in Worker(Len(tasks)) /\ IdleWorker.phase = "idle"
    BY IdleWorkerType DEF QueuesOK
  <1> QED BY <1>1, WorkerMoves DEF Release

(* The steps that read: the worker keeps what it read.                       *)
LEMMA ReadsOK ==
    ASSUME InductiveInvariant, NEW w \in AllWorkers,
           LoadDocument(w) \/ LoadChunks(w) \/ AggregateFacts(w)
    PROVE  InductiveInvariant' /\ FactsForward
  <1>0. QueuesOK /\ DocumentsOK
    BY DEF InductiveInvariant
  <1>1. /\ UNCHANGED <<tasks, runs, faults>> /\ UNCHANGED documentVars
        /\ UNCHANGED <<facts, snapshot>> /\ Busy(w)
    BY DEF LoadDocument, LoadChunks, AggregateFacts, factVars, Busy
  <1>2. overlapped' \in BOOLEAN
    BY <1>0 DEF LoadDocument, LoadChunks, AggregateFacts, factVars, DocumentsOK
  <1>3. DocumentsOK' /\ FactsForward
    BY <1>0, <1>1, <1>2, DocumentsKept DEF DocumentsOK
  <1>4. /\ workers \in [AllWorkers -> Worker(Len(tasks))]
        /\ workers[w] \in Worker(Len(tasks)) /\ workers[w].doc \in Docs
    BY <1>0 DEF QueuesOK, Worker
  <1>5. PICK new \in Worker(Len(tasks)) :
            /\ workers' = [workers EXCEPT ![w] = new]
            /\ new.kind = workers[w].kind /\ new.doc = workers[w].doc
            /\ new.task = workers[w].task
    <2>1. CASE LoadDocument(w)
      <3> DEFINE new == [workers[w] EXCEPT !.phase = "chunks", !.lifecycle = lifecycle[workers[w].doc]]
      <3>1. lifecycle[workers[w].doc] \in Lifecycles
        BY <1>0, <1>4 DEF DocumentsOK
      <3>2. /\ new \in Worker(Len(tasks)) /\ new.kind = workers[w].kind
            /\ new.doc = workers[w].doc /\ new.task = workers[w].task
        BY <1>4, <3>1 DEF Worker, Phases
      <3>3. workers' = [workers EXCEPT ![w] = new]
        BY <1>4, <2>1 DEF LoadDocument
      <3> HIDE DEF new
      <3> QED BY <3>2, <3>3
    <2>2. CASE LoadChunks(w)
      <3> DEFINE next == IF workers[w].kind = "index" THEN "index" ELSE "replace"
                 new == [workers[w] EXCEPT !.phase = next, !.chunks = chunks[workers[w].doc]]
      <3>1. chunks[workers[w].doc] \in Versions /\ next \in Phases
        BY <1>0, <1>4, VersionBounds DEF Phases
      <3>2. workers' = [workers EXCEPT ![w] = new]
        BY <1>4, <2>2 DEF LoadChunks
      <3> HIDE DEF next
      <3>3. /\ new \in Worker(Len(tasks)) /\ new.kind = workers[w].kind
            /\ new.doc = workers[w].doc /\ new.task = workers[w].task
        BY <1>4, <3>1 DEF Worker
      <3> HIDE DEF new
      <3> QED BY <3>2, <3>3
    <2>3. CASE AggregateFacts(w)
      <3> DEFINE new == [workers[w] EXCEPT !.phase = "upsert", !.facts = facts]
      <3>1. facts \in [Docs -> Versions] /\ "upsert" \in Phases
        BY <1>0, VersionBounds DEF Phases
      <3>2. /\ new \in Worker(Len(tasks)) /\ new.kind = workers[w].kind
            /\ new.doc = workers[w].doc /\ new.task = workers[w].task
        BY <1>4, <3>1 DEF Worker
      <3>3. workers' = [workers EXCEPT ![w] = new]
        BY <1>4, <2>3 DEF AggregateFacts
      <3> HIDE DEF new
      <3> QED BY <3>2, <3>3
    <2> QED BY <2>1, <2>2, <2>3
  <1>6. QueuesOK'
    BY <1>0, <1>1, <1>5, WorkerMoves
  <1> QED BY <1>3, <1>6 DEF InductiveInvariant

(* Facts of chunks that are still there replace older ones: this is the one  *)
(* step that writes facts.                                                   *)
LEMMA ReplaceFactsOK ==
    ASSUME InductiveInvariant, NEW w \in AllWorkers, ReplaceFacts(w)
    PROVE  InductiveInvariant' /\ FactsForward
  <1> DEFINE d == workers[w].doc
  <1>0. QueuesOK /\ DocumentsOK
    BY DEF InductiveInvariant
  <1>1. /\ UNCHANGED <<snapshot, overlapped, tasks, runs, faults>> /\ Busy(w)
        /\ UNCHANGED <<execution, queued, ingest, reportErr, lifecycle, reparses, chunks, parses>>
        /\ Goto(w, "aggregate") \/ Goto(w, "error")
        /\ facts' = facts \/ facts' = [facts EXCEPT ![d] = chunks[d]]
    BY DEF ReplaceFacts, ChunksExist, documentVars, executionVars, Busy
  <1>2. QueuesOK'
    BY <1>0, <1>1, GotoMoves DEF Phases
  <1>3. d \in Docs
    BY <1>0 DEF QueuesOK, Worker
  <1> HIDE DEF d
  <1>4. \A e \in Docs : chunks[e] \in Nat /\ facts[e] \in Nat /\ facts[e] <= chunks[e]
    BY <1>0 DEF DocumentsOK
  <1>5. /\ facts' \in [Docs -> Nat]
        /\ \A e \in Docs : facts'[e] <= chunks[e] /\ facts'[e] >= facts[e]
    BY <1>0, <1>1, <1>3, <1>4 DEF DocumentsOK
  <1>6. DocumentsOK'
    BY <1>0, <1>1, <1>5 DEF DocumentsOK, PendingParses, Underway
  <1> QED BY <1>2, <1>5, <1>6 DEF InductiveInvariant, FactsForward

(* The snapshot is written as it was aggregated.                             *)
LEMMA UpsertSnapshotOK ==
    ASSUME InductiveInvariant, NEW w \in AllWorkers, UpsertSnapshot(w)
    PROVE  InductiveInvariant' /\ FactsForward
  <1>0. QueuesOK /\ DocumentsOK
    BY DEF InductiveInvariant
  <1>1. /\ UNCHANGED <<facts, overlapped, tasks, runs, faults>> /\ Busy(w)
        /\ UNCHANGED <<execution, queued, ingest, reportErr, lifecycle, reparses, chunks, parses>>
        /\ Goto(w, "mark") \/ Goto(w, "enqueue")
        /\ snapshot' = workers[w].facts
    BY DEF UpsertSnapshot, documentVars, executionVars, Busy
  <1>2. QueuesOK'
    BY <1>0, <1>1, GotoMoves DEF Phases
  <1>3. snapshot' \in [Docs -> Versions]
    BY <1>0, <1>1 DEF QueuesOK, Worker
  <1>4. DocumentsOK' /\ FactsForward
    BY <1>0, <1>1, <1>3 DEF DocumentsOK, PendingParses, Underway, FactsForward
  <1> QED BY <1>2, <1>4 DEF InductiveInvariant

(* The steps that write the lifecycle or the execution of a document.        *)
LEMMA StateStepsOK ==
    ASSUME InductiveInvariant, NEW w \in AllWorkers,
           \/ RestoreLifecycle(w) \/ IndexDocument(w) \/ CompleteIndex(w)
           \/ MarkIndexFailed(w) \/ FailIndex(w)
    PROVE  InductiveInvariant' /\ FactsForward
  <1> DEFINE d == workers[w].doc
  <1>0. QueuesOK /\ DocumentsOK /\ d \in Docs /\ workers[w].lifecycle \in Lifecycles
    BY DEF InductiveInvariant, QueuesOK, Worker
  <1>1. /\ UNCHANGED <<queued, ingest, reparses, chunks, parses, facts, snapshot, overlapped, tasks, runs>>
        /\ Busy(w)
    BY DEF RestoreLifecycle, IndexDocument, CompleteIndex, MarkIndexFailed, FailIndex,
           executionVars, factVars, Busy
  <1>2. \E phase \in Phases : Goto(w, phase)
    BY DEF RestoreLifecycle, IndexDocument, CompleteIndex, MarkIndexFailed, FailIndex, Phases
  <1>3. faults' = faults \/ (faults < MaxFaults /\ faults' = faults + 1)
    BY DEF RestoreLifecycle, IndexDocument, CompleteIndex, MarkIndexFailed, FailIndex, FailureErr, Fault
  <1>4. faults' \in 0 .. MaxFaults
    BY <1>0, <1>3, DocumentFactsAssumption DEF DocumentsOK
  <1>5. /\ execution' = execution \/ \E stage \in Stages : SetExecution(d, stage)
        /\ reportErr' = reportErr \/ reportErr' = [reportErr EXCEPT ![d] = TRUE]
    BY DEF RestoreLifecycle, IndexDocument, CompleteIndex, MarkIndexFailed, FailIndex, FailureErr,
           AcceptFailure, AcceptIndex, executionVars, Stages
  <1>6. lifecycle' = lifecycle \/ \E value \in Lifecycles : SetLifecycle(d, value)
    <2>1. {"indexed", "failed"} \subseteq Lifecycles
      BY DEF Lifecycles
    <2> QED BY <1>0, <2>1
            DEF RestoreLifecycle, IndexDocument, CompleteIndex, MarkIndexFailed, FailIndex
  <1> HIDE DEF d
  <1>7. /\ execution' \in [Docs -> Stages] /\ reportErr' \in [Docs -> BOOLEAN]
        /\ lifecycle' \in [Docs -> Lifecycles]
    BY <1>0, <1>5, <1>6 DEF DocumentsOK, SetExecution, SetLifecycle
  <1>8. DocumentsOK' /\ FactsForward
    BY <1>0, <1>1, <1>4, <1>7, StageStep
  <1>9. QueuesOK'
    BY <1>0, <1>1, <1>2, GotoMoves
  <1> QED BY <1>8, <1>9 DEF InductiveInvariant

(* A fault: the worker goes on to its error handling, or dies.               *)
LEMMA FaultsOK ==
    ASSUME InductiveInvariant, NEW w \in AllWorkers, StatementFails(w) \/ Crash(w)
    PROVE  InductiveInvariant' /\ FactsForward
  <1>0. QueuesOK /\ DocumentsOK
    BY DEF InductiveInvariant
  <1>1. /\ UNCHANGED <<tasks, runs>> /\ UNCHANGED documentVars /\ UNCHANGED factVars
        /\ Busy(w) /\ (Goto(w, "error") \/ Release(w))
        /\ faults < MaxFaults /\ faults' = faults + 1
    BY DEF StatementFails, Crash, Fault, Busy, Phases
  <1>2. UNCHANGED <<facts, snapshot, overlapped>> /\ overlapped' \in BOOLEAN
    BY <1>0, <1>1 DEF factVars, DocumentsOK
  <1>3. faults' \in 0 .. MaxFaults
    BY <1>0, <1>1, DocumentFactsAssumption DEF DocumentsOK
  <1>4. DocumentsOK' /\ FactsForward
    BY <1>0, <1>1, <1>2, <1>3, DocumentsKept
  <1>5. QueuesOK'
    BY <1>0, <1>1, GotoMoves, ReleaseMoves DEF Phases, StatementFails, Crash
  <1> QED BY <1>4, <1>5 DEF InductiveInvariant

(* The steps that touch nothing but a queue and the worker.                  *)
QueueStep(w) ==
    \/ ClaimTask(w)
    \/ ClaimRun(w)
    \/ EnqueueRun(w)
    \/ MarkTask(w)
    \/ MarkRunSucceeded(w)
    \/ RequeueAfterError(w)

(* They leave documents and facts alone.                                     *)
LEMMA QueueStepDocuments ==
    ASSUME DocumentsOK, NEW w, QueueStep(w)
    PROVE  DocumentsOK' /\ FactsForward
  <1>1. UNCHANGED documentVars /\ UNCHANGED factVars /\ faults' = faults
    BY DEF QueueStep, ClaimTask, ClaimRun, EnqueueRun, MarkTask, MarkRunSucceeded,
           RequeueAfterError
  <1>2. UNCHANGED <<facts, snapshot, overlapped>>
    BY <1>1 DEF factVars
  <1> QED BY <1>1, <1>2, DocumentsKept DEF DocumentsOK

(* A claimed task has its worker.                                            *)
LEMMA ClaimTaskOK ==
    ASSUME QueuesOK, NEW w \in AllWorkers, ClaimTask(w)
    PROVE  QueuesOK'
  <1>1. PICK t \in DOMAIN tasks :
            /\ tasks' = [tasks EXCEPT ![t].status = "claimed"]
            /\ workers' = [workers EXCEPT ![w] =
                             [IdleWorker EXCEPT !.phase = "document", !.kind = tasks[t].kind,
                                                !.doc = tasks[t].doc, !.task = t]]
    BY DEF ClaimTask
  <1> DEFINE new == [IdleWorker EXCEPT !.phase = "document", !.kind = tasks[t].kind,
                                       !.doc = tasks[t].doc, !.task = t]
             row == [tasks[t] EXCEPT !.status = "claimed"]
  <1>2. tasks \in Seq(Task) /\ Len(tasks) \in Nat /\ t \in 1 .. Len(tasks) /\ runs' = runs
    BY DEF QueuesOK, ClaimTask
  <1>a. tasks[t] \in Task
    BY <1>2
  <1>3. tasks[t].kind \in {"facts", "index"} /\ tasks[t].doc \in Docs /\ row \in Task
    BY <1>a DEF Task, TaskStatuses
  <1>4. new \in Worker(Len(tasks)) /\ new.kind /= "run" /\ new.task = t
    <2>1. /\ IdleWorker \in Worker(Len(tasks)) /\ t \in 0 .. Len(tasks)
          /\ tasks[t].kind \in Kinds /\ tasks[t].kind /= "run" /\ "document" \in Phases
      BY <1>2, <1>3, IdleWorkerType DEF Phases, Kinds
    <2> QED BY <1>3, <2>1 DEF Worker
  <1>5. tasks' = [tasks EXCEPT ![t] = row] /\ workers' = [workers EXCEPT ![w] = new]
    BY <1>1
  <1> HIDE DEF new, row
  <1>6. tasks' \in Seq(Task) /\ Len(tasks') = Len(tasks) /\ DOMAIN tasks' = DOMAIN tasks
    BY <1>2, <1>3, <1>5
  <1>7. /\ workers' \in [AllWorkers -> Worker(Len(tasks'))] /\ workers'[w] = new
        /\ \A v \in AllWorkers : v /= w => workers'[v] = workers[v]
    BY <1>4, <1>5, <1>6 DEF QueuesOK
  <1>8. \A v \in AllWorkers :
            Busy(v)' /\ workers'[v].kind /= "run" => workers'[v].task \in DOMAIN tasks'
    BY <1>2, <1>4, <1>6, <1>7 DEF QueuesOK, Busy
  <1>9. RunsAreExclusive'
    BY <1>2, <1>4, <1>7 DEF QueuesOK, RunsAreExclusive
  <1> QED BY <1>2, <1>6, <1>7, <1>8, <1>9 DEF QueuesOK

(* A run is claimed when it is pending: no worker has it.                    *)
LEMMA ClaimRunOK ==
    ASSUME QueuesOK, NEW w \in AllWorkers, ClaimRun(w)
    PROVE  QueuesOK'
  <1>1. PICK d \in Docs :
            /\ Claimable(runs[d])
            /\ runs' = [runs EXCEPT ![d] = [status |-> "running", attempts |-> runs[d].attempts + 1]]
            /\ workers' = [workers EXCEPT ![w] =
                             [IdleWorker EXCEPT !.phase = "document", !.kind = "run", !.doc = d]]
    BY DEF ClaimRun
  <1> DEFINE new == [IdleWorker EXCEPT !.phase = "document", !.kind = "run", !.doc = d]
             row == [status |-> "running", attempts |-> runs[d].attempts + 1]
  <1>2. /\ runs[d].status = "pending" /\ row \in Run /\ row.status = "running"
        /\ runs \in [Docs -> Run] /\ tasks' = tasks
        /\ tasks \in Seq(Task) /\ Len(tasks) \in Nat
    BY <1>1, DocumentFactsAssumption DEF QueuesOK, Claimable, Run, RunStatuses, ClaimRun
  <1>3. new \in Worker(Len(tasks)) /\ new.kind = "run" /\ new.doc = d
    BY <1>2, IdleWorkerType DEF Worker, Phases, Kinds
  <1>4. runs' = [runs EXCEPT ![d] = row] /\ workers' = [workers EXCEPT ![w] = new]
    BY <1>1
  <1> HIDE DEF new, row
  <1>5. /\ workers' \in [AllWorkers -> Worker(Len(tasks'))] /\ workers'[w] = new
        /\ \A v \in AllWorkers : v /= w => workers'[v] = workers[v]
    BY <1>2, <1>3, <1>4 DEF QueuesOK
  <1>6. /\ runs' \in [Docs -> Run] /\ runs'[d].status = "running"
        /\ \A e \in Docs : e /= d => runs'[e] = runs[e]
    BY <1>2, <1>4
  <1>7. \A v \in AllWorkers : HasRun(v) => workers[v].doc \in Docs /\ workers[v].doc /= d
    BY <1>2 DEF QueuesOK, RunsAreExclusive, HasRun, Busy, Worker
  <1>8. RunsAreExclusive'
    BY <1>3, <1>5, <1>6, <1>7 DEF QueuesOK, RunsAreExclusive, HasRun, Busy
  <1>9. \A v \in AllWorkers :
            Busy(v)' /\ workers'[v].kind /= "run" => workers'[v].task \in DOMAIN tasks'
    BY <1>2, <1>3, <1>5 DEF QueuesOK, Busy
  <1> QED BY <1>2, <1>5, <1>6, <1>8, <1>9 DEF QueuesOK

(* A fact task creates the run of its document or leaves it as it is.        *)
LEMMA EnqueueRunOK ==
    ASSUME QueuesOK, NEW w \in AllWorkers, EnqueueRun(w)
    PROVE  QueuesOK'
  <1> DEFINE d == workers[w].doc
             row == IF Enrichers = {} THEN runs[d] ELSE CreatedOrKept(runs[d])
             new == [workers[w] EXCEPT !.phase = "state"]
  <1>1. runs' = [runs EXCEPT ![d] = row] /\ workers' = [workers EXCEPT ![w] = new]
        /\ tasks' = tasks /\ Busy(w)
    BY DEF EnqueueRun, Goto, Busy
  <1>2. workers[w] \in Worker(Len(tasks)) /\ d \in Docs /\ runs[d] \in Run /\ runs \in [Docs -> Run]
    BY DEF QueuesOK, Worker
  <1>3. row \in Run /\ (runs[d].status = "running" => row.status = "running")
    BY <1>2 DEF CreatedOrKept, Run, RunStatuses
  <1>4. /\ new \in Worker(Len(tasks)) /\ new.kind = workers[w].kind
        /\ new.doc = workers[w].doc /\ new.task = workers[w].task
    BY <1>2 DEF Worker, Phases
  <1> HIDE DEF d, row, new
  <1>5. /\ workers' \in [AllWorkers -> Worker(Len(tasks'))]
        /\ \A v \in AllWorkers :
              /\ Busy(v)' => Busy(v)
              /\ workers'[v].kind = workers[v].kind /\ workers'[v].doc = workers[v].doc
              /\ workers'[v].task = workers[v].task
    BY <1>1, <1>4 DEF QueuesOK, Busy
  <1>6. /\ runs' \in [Docs -> Run]
        /\ \A e \in Docs : runs[e].status = "running" => runs'[e].status = "running"
    BY <1>1, <1>2, <1>3
  <1>7. \A v \in AllWorkers : workers[v].doc \in Docs
    BY DEF QueuesOK, Worker
  <1>8. RunsAreExclusive'
    BY <1>5, <1>6, <1>7 DEF QueuesOK, RunsAreExclusive, Busy
  <1> QED BY <1>1, <1>5, <1>6, <1>8 DEF QueuesOK

(* The end of a task.                                                        *)
LEMMA MarkTaskOK ==
    ASSUME QueuesOK, NEW w \in AllWorkers, MarkTask(w)
    PROVE  QueuesOK'
  <1> DEFINE t == workers[w].task
             status == IF workers[w].phase = "mark" THEN "succeeded" ELSE "failed"
             row == [tasks[t] EXCEPT !.status = status]
  <1>1. /\ tasks' = [tasks EXCEPT ![t] = row] /\ workers' = [workers EXCEPT ![w] = IdleWorker]
        /\ runs' = runs /\ Busy(w) /\ workers[w].kind /= "run"
    BY DEF MarkTask, Release, Busy
  <1>2. tasks \in Seq(Task) /\ Len(tasks) \in Nat /\ t \in DOMAIN tasks
    BY <1>1 DEF QueuesOK
  <1>3. row \in Task
    <2>1. tasks[t] \in Task /\ status \in TaskStatuses
      BY <1>2 DEF TaskStatuses
    <2> HIDE DEF status
    <2> QED BY <2>1 DEF Task
  <1> HIDE DEF t, row
  <1>4. tasks' \in Seq(Task) /\ Len(tasks') = Len(tasks) /\ DOMAIN tasks' = DOMAIN tasks
    BY <1>1, <1>2, <1>3
  <1>5. /\ workers' \in [AllWorkers -> Worker(Len(tasks'))] /\ workers'[w].phase = "idle"
        /\ \A v \in AllWorkers : v /= w => workers'[v] = workers[v]
    BY <1>1, <1>2, <1>4, IdleWorkerType DEF QueuesOK
  <1>6. RunsAreExclusive'
    BY <1>1, <1>5 DEF QueuesOK, RunsAreExclusive
  <1> QED BY <1>1, <1>4, <1>5, <1>6 DEF QueuesOK, Busy

(* The end of a run: no other worker has it.                                 *)
LEMMA EndRunOK ==
    ASSUME QueuesOK, NEW w \in AllWorkers, MarkRunSucceeded(w) \/ RequeueAfterError(w)
    PROVE  QueuesOK'
  <1> DEFINE d == workers[w].doc
  <1>0. workers[w] \in Worker(Len(tasks)) /\ d \in Docs /\ runs[d] \in Run /\ runs \in [Docs -> Run]
        /\ tasks \in Seq(Task) /\ Len(tasks) \in Nat
    BY DEF QueuesOK, Worker
  <1>1. /\ workers' = [workers EXCEPT ![w] = IdleWorker]
        /\ tasks' = tasks /\ HasRun(w)
    BY DEF MarkRunSucceeded, RequeueAfterError, Release, HasRun, Busy
  <1>2. PICK row \in Run : runs' = [runs EXCEPT ![d] = row]
    <2>1. CASE MarkRunSucceeded(w)
      <3> DEFINE row == [runs[d] EXCEPT !.status = "succeeded"]
      <3>1. row \in Run
        BY <1>0 DEF Run, RunStatuses
      <3>2. runs' = [runs EXCEPT ![d] = row]
        BY <2>1 DEF MarkRunSucceeded
      <3> QED BY <3>1, <3>2
    <2>2. CASE RequeueAfterError(w)
      <3>1. AfterError(runs[d]) \in Run
        BY <1>0 DEF AfterError, Run, RunStatuses
      <3>2. runs' = [runs EXCEPT ![d] = AfterError(runs[d])]
        BY <2>2 DEF RequeueAfterError
      <3> QED BY <3>1, <3>2
    <2> QED BY <2>1, <2>2
  <1>3. \A v \in AllWorkers : /\ workers[v].doc \in Docs
                              /\ HasRun(v) /\ v /= w => workers[v].doc /= d
    BY <1>1 DEF QueuesOK, RunsAreExclusive, HasRun, Busy, Worker
  <1> HIDE DEF d
  <1>4. runs' \in [Docs -> Run] /\ \A e \in Docs : e /= d => runs'[e] = runs[e]
    BY <1>0, <1>2
  <1>5. /\ workers' \in [AllWorkers -> Worker(Len(tasks'))] /\ workers'[w].phase = "idle"
        /\ \A v \in AllWorkers : v /= w => workers'[v] = workers[v]
    BY <1>0, <1>1, IdleWorkerType DEF QueuesOK
  <1>6. RunsAreExclusive'
    BY <1>3, <1>4, <1>5 DEF QueuesOK, RunsAreExclusive, HasRun, Busy
  <1> QED BY <1>0, <1>1, <1>4, <1>5, <1>6 DEF QueuesOK, Busy

(* Every step keeps the invariant and takes no fact back.                    *)
LEMMA NextOK ==
    ASSUME InductiveInvariant, [Next]_vars
    PROVE  InductiveInvariant' /\ FactsForward
  <1>0. QueuesOK /\ DocumentsOK
    BY DEF InductiveInvariant
  <1>1. CASE UNCHANGED vars
    <2>1. UNCHANGED documentVars /\ UNCHANGED <<facts, snapshot, overlapped, faults>>
          /\ UNCHANGED <<tasks, runs, workers>>
      BY <1>1 DEF vars, documentVars, executionVars
    <2>2. DocumentsOK' /\ FactsForward
      BY <1>0, <2>1, DocumentsKept DEF DocumentsOK
    <2>3. QueuesOK'
      BY <1>0, <2>1 DEF QueuesOK, Busy, RunsAreExclusive
    <2> QED BY <2>2, <2>3 DEF InductiveInvariant
  <1>2. ASSUME NEW d \in Docs, IngestStep(d)
        PROVE  InductiveInvariant' /\ FactsForward
    BY <1>2, IngestDocuments, IngestQueues DEF InductiveInvariant
  <1>3. ASSUME NEW w \in AllWorkers, Work(w) \/ StatementFails(w) \/ Crash(w)
        PROVE  InductiveInvariant' /\ FactsForward
    <2>1. CASE QueueStep(w)
      <3>1. QueuesOK'
        BY <1>0, <2>1, ClaimTaskOK, ClaimRunOK, EnqueueRunOK, MarkTaskOK, EndRunOK DEF QueueStep
      <3> QED BY <1>0, <2>1, <3>1, QueueStepDocuments DEF InductiveInvariant
    <2>2. CASE LoadDocument(w) \/ LoadChunks(w) \/ AggregateFacts(w)
      BY <2>2, ReadsOK
    <2>3. CASE ReplaceFacts(w)
      BY <2>3, ReplaceFactsOK
    <2>4. CASE UpsertSnapshot(w)
      BY <2>4, UpsertSnapshotOK
    <2>5. CASE \/ RestoreLifecycle(w) \/ IndexDocument(w) \/ CompleteIndex(w)
               \/ MarkIndexFailed(w) \/ FailIndex(w)
      BY <2>5, StateStepsOK
    <2>6. CASE StatementFails(w) \/ Crash(w)
      BY <2>6, FaultsOK
    <2> QED BY <1>3, <2>1, <2>2, <2>3, <2>4, <2>5, <2>6 DEF Work, QueueStep
  <1> QED BY <1>1, <1>2, <1>3 DEF Next, IngestStep

-----------------------------------------------------------------------------
(* The theorems                                                              *)

(* The invariant holds in every state of every behaviour.                    *)
THEOREM FactsInvariance == Spec => []InductiveInvariant
  BY InitOK, NextOK, PTL DEF Spec

(* All tables keep their types; auto_reparse and the attempts of a run keep  *)
(* to their budgets, and with them the number of parses.                     *)
THEOREM FactsTypeCorrect == Spec => []DocumentFactsTypeOK
  BY FactsInvariance, TypesHold, PTL

(* claim_next_available and create_or_get never give a run of                *)
(* document_enrichment_runs to two workers.                                  *)
THEOREM ExclusiveRuns == Spec => []RunsAreExclusive
  <1>1. InductiveInvariant => RunsAreExclusive
    BY DEF InductiveInvariant, QueuesOK
  <1> QED BY <1>1, FactsInvariance, PTL

(* replace_document_facts never brings back the facts of an earlier parse,   *)
(* however late its caller is.                                               *)
THEOREM FactsNeverGoBack == Spec => FactsMoveForward
  <1>1. InductiveInvariant /\ [Next]_vars => [\A d \in Docs : facts'[d] >= facts[d]]_vars
    BY NextOK DEF FactsForward
  <1> QED BY <1>1, FactsInvariance, PTL DEF Spec, FactsMoveForward

-----------------------------------------------------------------------------
(* The snapshot of the dataset.                                              *)

(* While no two rebuilds overlap and nothing fails, the snapshot is that of  *)
(* the facts, or a worker that will make it so is on its way.                *)
SnapshotInvariant ==
    ~overlapped /\ faults = 0 =>
       /\ \A v, w \in AllWorkers :
             workers[v].phase = "upsert" /\ workers[w].phase = "upsert" => v = w
       /\ \/ \E w \in AllWorkers : workers[w].phase = "aggregate"
          \/ \E w \in AllWorkers : workers[w].phase = "upsert" /\ workers[w].facts = facts
          \/ (\A w \in AllWorkers : workers[w].phase /= "upsert") /\ snapshot = facts

(* What a worker is after a step of its own.                                 *)
LEMMA WorkerForms ==
    ASSUME QueuesOK, DocumentsOK, NEW w \in AllWorkers
    PROVE  /\ \A phase : Goto(w, phase) =>
                 /\ workers'[w].phase = phase /\ workers'[w].kind = workers[w].kind
                 /\ workers'[w].doc = workers[w].doc /\ workers'[w].task = workers[w].task
                 /\ workers'[w].lifecycle = workers[w].lifecycle
                 /\ workers'[w].facts = workers[w].facts
                 /\ \A v \in AllWorkers : v /= w => workers'[v] = workers[v]
           /\ Release(w) => /\ workers'[w].phase = "idle"
                            /\ \A v \in AllWorkers : v /= w => workers'[v] = workers[v]
           /\ LoadDocument(w) =>
                 /\ workers'[w].phase = "chunks" /\ workers'[w].kind = workers[w].kind
                 /\ workers'[w].doc = workers[w].doc /\ workers'[w].task = workers[w].task
                 /\ workers'[w].lifecycle = lifecycle[workers[w].doc]
                 /\ \A v \in AllWorkers : v /= w => workers'[v] = workers[v]
           /\ LoadChunks(w) =>
                 /\ workers'[w].phase = IF workers[w].kind = "index" THEN "index" ELSE "replace"
                 /\ workers'[w].kind = workers[w].kind
                 /\ workers'[w].doc = workers[w].doc /\ workers'[w].task = workers[w].task
                 /\ workers'[w].lifecycle = workers[w].lifecycle
                 /\ \A v \in AllWorkers : v /= w => workers'[v] = workers[v]
           /\ AggregateFacts(w) =>
                 /\ workers'[w].phase = "upsert" /\ workers'[w].kind = workers[w].kind
                 /\ workers'[w].doc = workers[w].doc /\ workers'[w].task = workers[w].task
                 /\ workers'[w].lifecycle = workers[w].lifecycle /\ workers'[w].facts = facts
                 /\ \A v \in AllWorkers : v /= w => workers'[v] = workers[v]
  <1>1. workers \in [AllWorkers -> Worker(Len(tasks))] /\ workers[w] \in Worker(Len(tasks))
    BY DEF QueuesOK
  <1>2. \A phase : LET new == [workers[w] EXCEPT !.phase = phase]
                   IN  /\ new.phase = phase /\ new.kind = workers[w].kind
                       /\ new.doc = workers[w].doc /\ new.task = workers[w].task
                       /\ new.lifecycle = workers[w].lifecycle /\ new.facts = workers[w].facts
    BY <1>1 DEF Worker
  <1>3. ASSUME NEW phase, Goto(w, phase)
        PROVE  /\ workers'[w].phase = phase /\ workers'[w].kind = workers[w].kind
               /\ workers'[w].doc = workers[w].doc /\ workers'[w].task = workers[w].task
               /\ workers'[w].lifecycle = workers[w].lifecycle /\ workers'[w].facts = workers[w].facts
               /\ \A v \in AllWorkers : v /= w => workers'[v] = workers[v]
    BY <1>1, <1>2, <1>3 DEF Goto
  <1>4. Release(w) => /\ workers'[w].phase = "idle"
                      /\ \A v \in AllWorkers : v /= w => workers'[v] = workers[v]
    BY <1>1 DEF Release, IdleWorker
  <1>5. ASSUME LoadDocument(w)
        PROVE  /\ workers'[w].phase = "chunks" /\ workers'[w].kind = workers[w].kind
               /\ workers'[w].doc = workers[w].doc /\ workers'[w].task = workers[w].task
               /\ workers'[w].lifecycle = lifecycle[workers[w].doc]
               /\ \A v \in AllWorkers : v /= w => workers'[v] = workers[v]
    <2>1. PICK new : new = [workers[w] EXCEPT !.phase = "chunks", !.lifecycle = lifecycle[workers[w].doc]]
      OBVIOUS
    <2>2. workers' = [workers EXCEPT ![w] = new]
      BY <1>1, <1>5, <2>1 DEF LoadDocument
    <2>3. /\ new.phase = "chunks" /\ new.kind = workers[w].kind /\ new.doc = workers[w].doc
          /\ new.task = workers[w].task /\ new.lifecycle = lifecycle[workers[w].doc]
      BY <1>1, <2>1 DEF Worker
    <2> QED BY <1>1, <2>2, <2>3
  <1>6. ASSUME LoadChunks(w)
        PROVE  /\ workers'[w].phase = IF workers[w].kind = "index" THEN "index" ELSE "replace"
               /\ workers'[w].kind = workers[w].kind
               /\ workers'[w].doc = workers[w].doc /\ workers'[w].task = workers[w].task
               /\ workers'[w].lifecycle = workers[w].lifecycle
               /\ \A v \in AllWorkers : v /= w => workers'[v] = workers[v]
    <2>1. PICK next : next = IF workers[w].kind = "index" THEN "index" ELSE "replace"
      OBVIOUS
    <2>2. PICK new : new = [workers[w] EXCEPT !.phase = next, !.chunks = chunks[workers[w].doc]]
      OBVIOUS
    <2>3. workers' = [workers EXCEPT ![w] = new]
      BY <1>1, <1>6, <2>1, <2>2 DEF LoadChunks
    <2>4. /\ new.phase = next /\ new.kind = workers[w].kind /\ new.doc = workers[w].doc
          /\ new.task = workers[w].task /\ new.lifecycle = workers[w].lifecycle
      BY <1>1, <2>2 DEF Worker
    <2> QED BY <1>1, <2>1, <2>3, <2>4
  <1>7. ASSUME AggregateFacts(w)
        PROVE  /\ workers'[w].phase = "upsert" /\ workers'[w].kind = workers[w].kind
               /\ workers'[w].doc = workers[w].doc /\ workers'[w].task = workers[w].task
               /\ workers'[w].lifecycle = workers[w].lifecycle /\ workers'[w].facts = facts
               /\ \A v \in AllWorkers : v /= w => workers'[v] = workers[v]
    <2>1. PICK new : new = [workers[w] EXCEPT !.phase = "upsert", !.facts = facts]
      OBVIOUS
    <2>2. workers' = [workers EXCEPT ![w] = new]
      BY <1>1, <1>7, <2>1 DEF AggregateFacts
    <2>3. /\ new.phase = "upsert" /\ new.kind = workers[w].kind /\ new.doc = workers[w].doc
          /\ new.task = workers[w].task /\ new.lifecycle = workers[w].lifecycle /\ new.facts = facts
      BY <1>1, <2>1 DEF Worker
    <2> QED BY <1>1, <2>2, <2>3
  <1> QED BY <1>3, <1>4, <1>5, <1>6, <1>7

(* What a worker is after a claim.                                           *)
LEMMA ClaimForms ==
    ASSUME QueuesOK, NEW w \in AllWorkers
    PROVE  /\ ClaimTask(w) =>
                 \E t \in DOMAIN tasks :
                    /\ IsNext(t) /\ tasks' = [tasks EXCEPT ![t].status = "claimed"]
                    /\ workers'[w].phase = "document" /\ workers'[w].kind = tasks[t].kind
                    /\ workers'[w].doc = tasks[t].doc /\ workers'[w].task = t
                    /\ \A v \in AllWorkers : v /= w => workers'[v] = workers[v]
           /\ ClaimRun(w) =>
                 /\ workers'[w].phase = "document" /\ workers'[w].kind = "run"
                 /\ \A v \in AllWorkers : v /= w => workers'[v] = workers[v]
  <1>0. workers \in [AllWorkers -> Worker(Len(tasks))]
    BY DEF QueuesOK
  <1>1. ASSUME ClaimTask(w)
        PROVE  \E t \in DOMAIN tasks :
                    /\ IsNext(t) /\ tasks' = [tasks EXCEPT ![t].status = "claimed"]
                    /\ workers'[w].phase = "document" /\ workers'[w].kind = tasks[t].kind
                    /\ workers'[w].doc = tasks[t].doc /\ workers'[w].task = t
                    /\ \A v \in AllWorkers : v /= w => workers'[v] = workers[v]
    <2>1. PICK t \in DOMAIN tasks :
             /\ IsNext(t) /\ tasks' = [tasks EXCEPT ![t].status = "claimed"]
             /\ workers' = [workers EXCEPT ![w] =
                              [IdleWorker EXCEPT !.phase = "document", !.kind = tasks[t].kind,
                                                 !.doc = tasks[t].doc, !.task = t]]
      BY <1>1 DEF ClaimTask
    <2>2. PICK new : new = [IdleWorker EXCEPT !.phase = "document", !.kind = tasks[t].kind,
                                              !.doc = tasks[t].doc, !.task = t]
      OBVIOUS
    <2>3. /\ new.phase = "document" /\ new.kind = tasks[t].kind /\ new.doc = tasks[t].doc
          /\ new.task = t
      BY <2>2 DEF IdleWorker
    <2>4. workers' = [workers EXCEPT ![w] = new]
      BY <2>1, <2>2
    <2> QED BY <1>0, <2>1, <2>3, <2>4
  <1>2. ASSUME ClaimRun(w)
        PROVE  /\ workers'[w].phase = "document" /\ workers'[w].kind = "run"
               /\ \A v \in AllWorkers : v /= w => workers'[v] = workers[v]
    <2>1. PICK d \in Docs :
             workers' = [workers EXCEPT ![w] =
                           [IdleWorker EXCEPT !.phase = "document", !.kind = "run", !.doc = d]]
      BY <1>2 DEF ClaimRun
    <2>2. PICK new : new = [IdleWorker EXCEPT !.phase = "document", !.kind = "run", !.doc = d]
      OBVIOUS
    <2>3. new.phase = "document" /\ new.kind = "run"
      BY <2>2 DEF IdleWorker
    <2> QED BY <1>0, <2>1, <2>2, <2>3
  <1> QED BY <1>1, <1>2

(* The steps of a worker that have nothing to do with facts and snapshot.    *)
AsideStep(w) ==
    \/ ClaimTask(w) \/ ClaimRun(w) \/ LoadDocument(w) \/ LoadChunks(w) \/ EnqueueRun(w)
    \/ RestoreLifecycle(w) \/ IndexDocument(w) \/ CompleteIndex(w) \/ MarkIndexFailed(w) \/ FailIndex(w)
    \/ MarkTask(w) \/ MarkRunSucceeded(w) \/ RequeueAfterError(w)

(* They begin and end aside of a rebuild.                                    *)
LEMMA AsideStepForms ==
    ASSUME QueuesOK, DocumentsOK, NEW w \in AllWorkers, AsideStep(w)
    PROVE  /\ UNCHANGED <<facts, snapshot, overlapped>>
           /\ workers[w].phase \notin {"aggregate", "upsert"}
           /\ workers'[w].phase \notin {"aggregate", "upsert"}
           /\ \A v \in AllWorkers : v /= w => workers'[v] = workers[v]
           /\ faults' = faults \/ faults' = faults + 1
  <1>1. UNCHANGED <<facts, snapshot, overlapped>> /\ (faults' = faults \/ faults' = faults + 1)
    BY DEF AsideStep, ClaimTask, ClaimRun, LoadDocument, LoadChunks, EnqueueRun, RestoreLifecycle,
           IndexDocument, CompleteIndex, MarkIndexFailed, FailIndex, MarkTask, MarkRunSucceeded,
           RequeueAfterError, FailureErr, Fault, factVars
  <1>2. workers[w].phase \notin {"aggregate", "upsert"}
    BY DEF AsideStep, ClaimTask, ClaimRun, LoadDocument, LoadChunks, EnqueueRun, RestoreLifecycle,
           IndexDocument, CompleteIndex, MarkIndexFailed, FailIndex, MarkTask, MarkRunSucceeded,
           RequeueAfterError
  <1>3. CASE EnqueueRun(w) \/ RestoreLifecycle(w) \/ IndexDocument(w) \/ CompleteIndex(w)
             \/ MarkIndexFailed(w) \/ FailIndex(w)
    <2>1. \E phase \in {"state", "mark", "complete", "fail", "fail_step", "error"} : Goto(w, phase)
      BY <1>3 DEF EnqueueRun, RestoreLifecycle, IndexDocument, CompleteIndex, MarkIndexFailed, FailIndex
    <2> QED BY <1>1, <1>2, <2>1, WorkerForms
  <1>4. CASE MarkTask(w) \/ MarkRunSucceeded(w) \/ RequeueAfterError(w)
    <2>1. Release(w)
      BY <1>4 DEF MarkTask, MarkRunSucceeded, RequeueAfterError
    <2> QED BY <1>1, <1>2, <2>1, WorkerForms
  <1>5. CASE ClaimTask(w) \/ ClaimRun(w)
    BY <1>1, <1>2, <1>5, ClaimForms
  <1>6. CASE LoadDocument(w) \/ LoadChunks(w)
    BY <1>1, <1>2, <1>6, WorkerForms
  <1> QED BY <1>3, <1>4, <1>5, <1>6 DEF AsideStep

(* Every step keeps the snapshot within reach of the facts.                  *)
LEMMA StepKeepsSnapshot ==
    ASSUME InductiveInvariant, SnapshotInvariant, [Next]_vars
    PROVE  SnapshotInvariant'
  <1>0. QueuesOK /\ DocumentsOK /\ faults \in Nat
    BY DocumentFactsAssumption DEF InductiveInvariant, DocumentsOK
  <1>1. CASE UNCHANGED vars
    BY <1>1 DEF vars, SnapshotInvariant
  <1>2. ASSUME NEW d \in Docs, IngestStep(d) PROVE SnapshotInvariant'
    <2>1. UNCHANGED <<workers, facts, snapshot, overlapped>> /\ (faults' = faults \/ faults' = faults + 1)
      BY <1>2, IngestEffects
    <2>2. faults' = 0 => faults = 0
      BY <1>0, <2>1
    <2> QED BY <2>1, <2>2 DEF SnapshotInvariant
  <1>3. ASSUME NEW w \in AllWorkers, AsideStep(w) PROVE SnapshotInvariant'
    <2>1. /\ UNCHANGED <<facts, snapshot, overlapped>>
          /\ workers[w].phase \notin {"aggregate", "upsert"}
          /\ workers'[w].phase \notin {"aggregate", "upsert"}
          /\ \A v \in AllWorkers : v /= w => workers'[v] = workers[v]
          /\ faults' = faults \/ faults' = faults + 1
      BY <1>0, <1>3, AsideStepForms
    <2>2. faults' = 0 => faults = 0
      BY <1>0, <2>1
    <2>3. \A v \in AllWorkers : workers'[v].phase = "upsert" <=> workers[v].phase = "upsert"
      BY <2>1
    <2>4. \A v \in AllWorkers : workers[v].phase \in {"aggregate", "upsert"} => workers'[v] = workers[v]
      BY <2>1
    <2> HIDE DEF InductiveInvariant
    <2> SUFFICES ASSUME ~overlapped, faults = 0 PROVE SnapshotInvariant'
      BY <2>1, <2>2 DEF SnapshotInvariant
    <2>5. CASE \E v \in AllWorkers : workers[v].phase = "aggregate"
      BY <2>3, <2>4, <2>5 DEF SnapshotInvariant
    <2>6. CASE \E v \in AllWorkers : workers[v].phase = "upsert" /\ workers[v].facts = facts
      BY <2>1, <2>3, <2>4, <2>6 DEF SnapshotInvariant
    <2>7. CASE (\A v \in AllWorkers : workers[v].phase /= "upsert") /\ snapshot = facts
      BY <2>1, <2>3, <2>7 DEF SnapshotInvariant
    <2> QED BY <2>5, <2>6, <2>7 DEF SnapshotInvariant
  <1>4. ASSUME NEW w \in AllWorkers, ReplaceFacts(w) PROVE SnapshotInvariant'
    <2>1. /\ UNCHANGED <<snapshot, overlapped, faults>> /\ workers[w].phase = "replace"
          /\ \/ Goto(w, "aggregate")
             \/ Goto(w, "error") /\ UNCHANGED facts
      BY <1>4 DEF ReplaceFacts
    <2>2. CASE Goto(w, "aggregate")
      <3>1. workers'[w].phase = "aggregate" /\ \A v \in AllWorkers : v /= w => workers'[v] = workers[v]
        BY <1>0, <2>2, WorkerForms
      <3> QED BY <2>1, <3>1 DEF SnapshotInvariant
    <2>3. CASE Goto(w, "error") /\ UNCHANGED facts
      <3>1. workers'[w].phase = "error" /\ \A v \in AllWorkers : v /= w => workers'[v] = workers[v]
        BY <1>0, <2>3, WorkerForms
      <3> QED BY <2>1, <2>3, <3>1 DEF SnapshotInvariant
    <2> QED BY <2>1, <2>2, <2>3
  <1>5. ASSUME NEW w \in AllWorkers, AggregateFacts(w) PROVE SnapshotInvariant'
    <2>1. /\ UNCHANGED <<facts, snapshot, faults>>
          /\ overlapped' = (overlapped \/ \E v \in AllWorkers : workers[v].phase = "upsert")
      BY <1>5 DEF AggregateFacts
    <2>2. /\ workers'[w].phase = "upsert" /\ workers'[w].facts = facts
          /\ \A v \in AllWorkers : v /= w => workers'[v] = workers[v]
      BY <1>0, <1>5, WorkerForms
    <2>3. ~overlapped' => \A v \in AllWorkers : workers[v].phase /= "upsert"
      BY <2>1
    <2> QED BY <2>1, <2>2, <2>3 DEF SnapshotInvariant
  <1>6. ASSUME NEW w \in AllWorkers, UpsertSnapshot(w) PROVE SnapshotInvariant'
    <2>1. /\ UNCHANGED <<facts, overlapped, faults>> /\ snapshot' = workers[w].facts
          /\ workers[w].phase = "upsert" /\ \E phase \in {"mark", "enqueue"} : Goto(w, phase)
      BY <1>6 DEF UpsertSnapshot
    <2>2. /\ workers'[w].phase \in {"mark", "enqueue"}
          /\ \A v \in AllWorkers : v /= w => workers'[v] = workers[v]
      BY <1>0, <2>1, WorkerForms
    <2> SUFFICES ASSUME ~overlapped, faults = 0 PROVE SnapshotInvariant'
      BY <2>1 DEF SnapshotInvariant
    <2>3. \A v \in AllWorkers : workers[v].phase = "upsert" => v = w
      BY <2>1 DEF SnapshotInvariant
    <2>4. \A v \in AllWorkers : workers'[v].phase /= "upsert"
      BY <2>2, <2>3
    <2>5. CASE \E v \in AllWorkers : workers[v].phase = "aggregate"
      <3>1. PICK v \in AllWorkers : workers[v].phase = "aggregate"
        BY <2>5
      <3>2. workers'[v].phase = "aggregate"
        BY <2>1, <2>2, <3>1
      <3> QED BY <2>4, <3>2 DEF SnapshotInvariant
    <2>6. CASE \E v \in AllWorkers : workers[v].phase = "upsert" /\ workers[v].facts = facts
      BY <2>1, <2>3, <2>4, <2>6 DEF SnapshotInvariant
    <2> QED BY <2>1, <2>5, <2>6 DEF SnapshotInvariant
  <1>7. ASSUME NEW w \in AllWorkers, StatementFails(w) \/ Crash(w) PROVE SnapshotInvariant'
    <2>1. faults' = faults + 1
      BY <1>7 DEF StatementFails, Crash, Fault
    <2> QED BY <1>0, <2>1 DEF SnapshotInvariant
  <1> QED BY <1>1, <1>2, <1>3, <1>4, <1>5, <1>6, <1>7 DEF Next, IngestStep, Work, AsideStep

(* Only rebuilds of the snapshot that overlap leave it behind the facts, for *)
(* any number of retrieval and enrichment workers.                           *)
THEOREM SnapshotIsCurrent == Spec => []SnapshotFollowsFacts
  <1>1. Init => SnapshotInvariant
    BY DEF Init, SnapshotInvariant, IdleWorker
  <1>2. InductiveInvariant /\ SnapshotInvariant /\ [Next]_vars => SnapshotInvariant'
    BY StepKeepsSnapshot
  <1>3. SnapshotInvariant => SnapshotFollowsFacts
    BY DEF SnapshotInvariant, SnapshotFollowsFacts, Quiet
  <1> QED BY <1>1, <1>2, <1>3, FactsInvariance, PTL DEF Spec

-----------------------------------------------------------------------------
(* The lifecycle that a fact task writes back, with one retrieval worker.    *)

SingleIndexer == \A v, w \in Indexers : v = w

(* The phases of each kind of work.                                          *)
PhaseFits(worker) ==
    /\ worker.phase \in {"index", "complete", "fail", "fail_step"} => worker.kind = "index"
    /\ worker.phase \in {"replace", "aggregate", "upsert"} => worker.kind \in {"facts", "run"}
    /\ worker.phase \in {"enqueue", "state"} => worker.kind = "facts"

(* The retrieval worker has a task that it claimed; the others have runs.    *)
WorkFits ==
    \A w \in AllWorkers : Busy(w) =>
       /\ PhaseFits(workers[w])
       /\ w \in Indexers =>
             /\ workers[w].kind \in {"facts", "index"} /\ workers[w].task \in DOMAIN tasks
             /\ tasks[workers[w].task].status = "claimed"
             /\ tasks[workers[w].task].kind = workers[w].kind
             /\ tasks[workers[w].task].doc = workers[w].doc
       /\ w \in Enrichers => workers[w].kind = "run"

(* While its reports arrive, a document has one parse at a time, queued or   *)
(* in the hands of the ingest worker, and the execution waits for it.        *)
IngestFits ==
    \A d \in Docs : ~reportErr[d] =>
       /\ ingest[d] \notin {"idle", "restart"} => execution[d] = "parse" /\ queued[d] = 0
       /\ queued[d] /= 0 => execution[d] = "parse" /\ queued[d] = 1
       /\ execution[d] = "index" => ingest[d] = "idle"

(* A task that is queued or is being worked on, of a document whose reports  *)
(* arrive.                                                                   *)
Over == {"mark", "error"}
Live(t) ==
    /\ ~reportErr[tasks[t].doc]
    /\ \/ tasks[t].status = "queued"
       \/ \E w \in Indexers : Busy(w) /\ workers[w].phase \notin Over /\ workers[w].task = t

(* The ingest worker has StepCompleted before it, or died at it.             *)
Signalling(d) == execution[d] = "parse" /\ queued[d] = 0 /\ ingest[d] \in {"signal", "idle"}

(* The execution is at its index step as long as the index task is live; of  *)
(* these there is one; and behind a fact task that is live the index task is *)
(* queued, or it is about to be.                                             *)
LiveTasks ==
    /\ \A t \in DOMAIN tasks : Live(t) /\ tasks[t].kind = "index" => execution[tasks[t].doc] = "index"
    /\ \A t, u \in DOMAIN tasks :
          Live(t) /\ Live(u) /\ tasks[t].kind = "index" /\ tasks[u].kind = "index"
             /\ tasks[t].doc = tasks[u].doc => t = u
    /\ \A t \in DOMAIN tasks : Live(t) /\ tasks[t].kind = "facts" =>
          \/ Signalling(tasks[t].doc)
          \/ \E u \in DOMAIN tasks : /\ u > t /\ tasks[u].status = "queued"
                                     /\ tasks[u].kind = "index" /\ tasks[u].doc = tasks[t].doc

(* From its read to its write a fact task has the lifecycle of the row.      *)
Reading == {"chunks", "replace", "aggregate", "upsert", "enqueue", "state"}
ReadIsCurrent ==
    \A w \in Indexers :
       /\ workers[w].kind = "facts" /\ workers[w].phase \in Reading
       /\ ~reportErr[workers[w].doc]
       => workers[w].lifecycle = lifecycle[workers[w].doc]

WriteBackInvariant == WorkFits /\ IngestFits /\ LiveTasks /\ ReadIsCurrent

WorkStep(w) == Work(w) \/ StatementFails(w) \/ Crash(w)
Claims(w) == ClaimTask(w) \/ ClaimRun(w)

(* What a worker does once it has a task or a run.                           *)
LEMMA WorkEffects ==
    ASSUME InductiveInvariant, NEW w \in AllWorkers, WorkStep(w), ~Claims(w)
    PROVE  /\ Busy(w)
           /\ \A v \in AllWorkers : v /= w => workers'[v] = workers[v]
           /\ \/ workers'[w].phase = "idle"
              \/ /\ workers'[w].kind = workers[w].kind /\ workers'[w].doc = workers[w].doc
                 /\ workers'[w].task = workers[w].task
                 /\ PhaseFits(workers[w]) => PhaseFits(workers'[w])
                 /\ workers'[w].phase \notin Over => workers[w].phase \notin Over
                 /\ workers'[w].phase \in Reading =>
                       \/ /\ workers[w].phase \in Reading
                          /\ workers'[w].lifecycle = workers[w].lifecycle
                       \/ workers'[w].lifecycle = lifecycle[workers[w].doc]
           /\ \/ UNCHANGED tasks
              \/ MarkTask(w)
           /\ \/ UNCHANGED lifecycle
              \/ RestoreLifecycle(w)
              \/ workers[w].phase \in {"index", "fail"} /\ workers'[w].phase \notin Reading
           /\ UNCHANGED <<queued, ingest>>
           /\ \A d \in Docs : reportErr[d] => reportErr'[d]
           /\ \/ UNCHANGED <<execution, reportErr>>
              \/ /\ workers[w].phase \in {"complete", "fail_step"}
                 /\ workers'[w].phase \in Over \/ reportErr'[workers[w].doc]
                 /\ \A d \in Docs : d /= workers[w].doc => execution'[d] = execution[d]
                 /\ execution'[workers[w].doc] \in {execution[workers[w].doc], "done", "failed"}
  <1>0. QueuesOK /\ DocumentsOK /\ workers[w].doc \in Docs
    BY DEF InductiveInvariant, QueuesOK, Worker
  <1>r. execution \in [Docs -> Stages] /\ reportErr \in [Docs -> BOOLEAN]
    BY <1>0 DEF DocumentsOK
  <1>1. Busy(w)
    BY DEF WorkStep, Claims, Work, LoadDocument, LoadChunks, ReplaceFacts, AggregateFacts, UpsertSnapshot,
           EnqueueRun, RestoreLifecycle, IndexDocument, CompleteIndex, MarkIndexFailed, FailIndex, MarkTask,
           MarkRunSucceeded, RequeueAfterError, StatementFails, Crash, Busy
  <1>2. CASE LoadDocument(w)
    <2>1. UNCHANGED <<tasks, lifecycle, executionVars>> /\ workers[w].phase = "document"
      BY <1>2 DEF LoadDocument, documentVars
    <2> QED BY <1>0, <1>1, <1>2, <2>1, WorkerForms DEF executionVars, PhaseFits, Over
  <1>3. CASE LoadChunks(w)
    <2>1. UNCHANGED <<tasks, lifecycle, executionVars>> /\ workers[w].phase = "chunks"
          /\ workers[w].kind \in Kinds
      BY <1>0, <1>3 DEF LoadChunks, documentVars, QueuesOK, Worker
    <2> QED BY <1>0, <1>1, <1>3, <2>1, WorkerForms DEF executionVars, PhaseFits, Over, Reading, Kinds
  <1>4. CASE ReplaceFacts(w)
    <2>1. UNCHANGED <<tasks, lifecycle, executionVars>> /\ workers[w].phase = "replace"
          /\ \E phase \in {"aggregate", "error"} : Goto(w, phase)
      BY <1>4 DEF ReplaceFacts, documentVars
    <2> QED BY <1>0, <1>1, <2>1, WorkerForms DEF executionVars, PhaseFits, Over, Reading
  <1>5. CASE AggregateFacts(w)
    <2>1. UNCHANGED <<tasks, lifecycle, executionVars>> /\ workers[w].phase = "aggregate"
      BY <1>5 DEF AggregateFacts, documentVars
    <2> QED BY <1>0, <1>1, <1>5, <2>1, WorkerForms DEF executionVars, PhaseFits, Over, Reading
  <1>6. CASE UpsertSnapshot(w)
    <2>1. UNCHANGED <<tasks, lifecycle, executionVars>> /\ workers[w].phase = "upsert"
          /\ Goto(w, IF workers[w].kind = "run" THEN "mark" ELSE "enqueue")
      BY <1>6 DEF UpsertSnapshot, documentVars
    <2> QED BY <1>0, <1>1, <2>1, WorkerForms DEF executionVars, PhaseFits, Over, Reading
  <1>7. CASE EnqueueRun(w)
    <2>1. UNCHANGED <<tasks, lifecycle, executionVars>> /\ workers[w].phase = "enqueue" /\ Goto(w, "state")
      BY <1>7 DEF EnqueueRun, documentVars
    <2> QED BY <1>0, <1>1, <2>1, WorkerForms DEF executionVars, PhaseFits, Over, Reading
  <1>8. CASE RestoreLifecycle(w)
    <2>1. UNCHANGED <<tasks, executionVars>> /\ workers[w].phase = "state" /\ Goto(w, "mark")
      BY <1>8 DEF RestoreLifecycle
    <2> QED BY <1>0, <1>1, <1>8, <2>1, WorkerForms DEF executionVars, PhaseFits, Over, Reading
  <1>9. CASE IndexDocument(w)
    <2>1. UNCHANGED <<tasks, executionVars>> /\ workers[w].phase = "index"
          /\ \E phase \in {"complete", "fail"} : Goto(w, phase)
      BY <1>9 DEF IndexDocument
    <2> QED BY <1>0, <1>1, <2>1, WorkerForms DEF executionVars, PhaseFits, Over, Reading
  <1>10. CASE CompleteIndex(w)
    <2>1. /\ UNCHANGED <<tasks, lifecycle, queued, ingest>>
          /\ workers[w].phase = "complete"
          /\ \/ Goto(w, "mark") /\ UNCHANGED reportErr
             \/ Goto(w, "fail") /\ reportErr' = [reportErr EXCEPT ![workers[w].doc] = TRUE]
          /\ execution' = execution \/ execution' = [execution EXCEPT ![workers[w].doc] = "done"]
      BY <1>10 DEF CompleteIndex, AcceptIndex, SetExecution
    <2>2. /\ workers'[w].phase \in Over \/ reportErr'[workers[w].doc]
          /\ \A d \in Docs : d /= workers[w].doc => execution'[d] = execution[d]
          /\ \A d \in Docs : reportErr[d] => reportErr'[d]
          /\ execution'[workers[w].doc] \in {execution[workers[w].doc], "done", "failed"}
      <3>1. Goto(w, "mark") => workers'[w].phase \in Over
        BY <1>0, WorkerForms DEF Over
      <3> QED BY <1>0, <1>r, <2>1, <3>1
    <2> QED BY <1>0, <1>1, <2>1, <2>2, WorkerForms DEF PhaseFits, Over, Reading
  <1>11. CASE MarkIndexFailed(w)
    <2>1. UNCHANGED <<tasks, executionVars>> /\ workers[w].phase = "fail" /\ Goto(w, "fail_step")
      BY <1>11 DEF MarkIndexFailed
    <2> QED BY <1>0, <1>1, <2>1, WorkerForms DEF executionVars, PhaseFits, Over, Reading
  <1>12. CASE FailIndex(w)
    <2>1. /\ UNCHANGED <<tasks, lifecycle, queued, ingest>>
          /\ workers[w].phase = "fail_step"
          /\ Goto(w, "error")
          /\ reportErr' = reportErr \/ reportErr' = [reportErr EXCEPT ![workers[w].doc] = TRUE]
          /\ execution' = execution \/ execution' = [execution EXCEPT ![workers[w].doc] = "failed"]
      BY <1>12 DEF FailIndex, FailureErr, AcceptFailure, SetExecution
    <2>2. /\ \A d \in Docs : d /= workers[w].doc => execution'[d] = execution[d]
          /\ \A d \in Docs : reportErr[d] => reportErr'[d]
          /\ execution'[workers[w].doc] \in {execution[workers[w].doc], "done", "failed"}
      BY <1>0, <1>r, <2>1
    <2> QED BY <1>0, <1>1, <2>1, <2>2, WorkerForms DEF PhaseFits, Over, Reading
  <1>13. CASE MarkTask(w) \/ MarkRunSucceeded(w) \/ RequeueAfterError(w) \/ Crash(w)
    <2>1. UNCHANGED <<lifecycle, executionVars>> /\ Release(w) /\ (UNCHANGED tasks \/ MarkTask(w))
      BY <1>13 DEF MarkTask, MarkRunSucceeded, RequeueAfterError, Crash, documentVars
    <2> QED BY <1>0, <1>1, <2>1, WorkerForms DEF executionVars
  <1>14. CASE StatementFails(w)
    <2>1. UNCHANGED <<tasks, lifecycle, executionVars>> /\ Goto(w, "error")
      BY <1>14 DEF StatementFails, documentVars
    <2> QED BY <1>0, <1>1, <2>1, WorkerForms DEF executionVars, PhaseFits, Over, Reading
  <1> QED BY <1>2, <1>3, <1>4, <1>5, <1>6, <1>7, <1>8, <1>9, <1>10, <1>11, <1>12, <1>13, <1>14
          DEF WorkStep, Claims, Work

(* The mark of a task.                                                       *)
LEMMA MarkedTask ==
    ASSUME QueuesOK, NEW t \in DOMAIN tasks, NEW status, tasks' = [tasks EXCEPT ![t].status = status]
    PROVE  /\ DOMAIN tasks' = DOMAIN tasks /\ tasks'[t].status = status
           /\ tasks'[t].kind = tasks[t].kind /\ tasks'[t].doc = tasks[t].doc
           /\ \A u \in DOMAIN tasks : u /= t => tasks'[u] = tasks[u]
  <1>1. tasks \in [1 .. Len(tasks) -> Task] /\ DOMAIN tasks = 1 .. Len(tasks) /\ tasks[t] \in Task
    BY DEF QueuesOK
  <1>2. PICK row : row = [tasks[t] EXCEPT !.status = status]
    OBVIOUS
  <1>3. row.status = status /\ row.kind = tasks[t].kind /\ row.doc = tasks[t].doc
    BY <1>1, <1>2 DEF Task
  <1>4. tasks' = [tasks EXCEPT ![t] = row]
    BY <1>1, <1>2
  <1> QED BY <1>1, <1>3, <1>4

(* The documents of the queued tasks are documents.                          *)
LEMMA TasksHaveDocuments ==
    ASSUME tasks \in Seq(Task)
    PROVE  \A t \in DOMAIN tasks : tasks[t].doc \in Docs /\ tasks[t].kind \in {"facts", "index"}
  <1> SUFFICES ASSUME NEW t \in DOMAIN tasks
               PROVE  tasks[t].doc \in Docs /\ tasks[t].kind \in {"facts", "index"}
    OBVIOUS
  <1>1. tasks[t] \in Task
    OBVIOUS
  <1> QED BY <1>1 DEF Task

(* Where the execution of a live task's document is.                         *)
LEMMA LiveStage ==
    ASSUME tasks \in Seq(Task), LiveTasks, NEW t \in DOMAIN tasks, Live(t)
    PROVE  execution[tasks[t].doc] = "index" \/ (tasks[t].kind = "facts" /\ Signalling(tasks[t].doc))
  <1>1. CASE tasks[t].kind = "index"
    BY <1>1 DEF LiveTasks
  <1>2. CASE tasks[t].kind = "facts" /\ ~Signalling(tasks[t].doc)
    <2>1. PICK u \in DOMAIN tasks : /\ tasks[u].status = "queued"
                                    /\ tasks[u].kind = "index" /\ tasks[u].doc = tasks[t].doc
      BY <1>2 DEF LiveTasks
    <2>2. Live(u)
      BY <2>1 DEF Live
    <2> QED BY <2>1, <2>2 DEF LiveTasks
  <1> QED BY <1>1, <1>2, TasksHaveDocuments

(* A step that makes no task live, takes no queued one away and leaves the   *)
(* executions of the live ones where they are.                               *)
LEMMA LiveTasksKept ==
    ASSUME LiveTasks, DOMAIN tasks' = DOMAIN tasks,
           \A t \in DOMAIN tasks : /\ tasks'[t].kind = tasks[t].kind /\ tasks'[t].doc = tasks[t].doc
                                   /\ tasks[t].status = "queued" => tasks'[t].status = "queued",
           \A t \in DOMAIN tasks :
              Live(t)' => /\ Live(t)
                          /\ execution[tasks[t].doc] = "index" => execution'[tasks[t].doc] = "index"
                          /\ Signalling(tasks[t].doc) => Signalling(tasks[t].doc)'
    PROVE  LiveTasks'
  <1>1. ASSUME NEW t \in DOMAIN tasks, Live(t)'
        PROVE  /\ Live(t) /\ tasks'[t].kind = tasks[t].kind /\ tasks'[t].doc = tasks[t].doc
               /\ tasks[t].kind = "index" => execution'[tasks'[t].doc] = "index"
    BY <1>1 DEF LiveTasks
  <1>2. ASSUME NEW t \in DOMAIN tasks, NEW u \in DOMAIN tasks, Live(t)', Live(u)',
               tasks'[t].kind = "index", tasks'[u].kind = "index", tasks'[t].doc = tasks'[u].doc
        PROVE  t = u
    <2>1. Live(t) /\ tasks[t].kind = "index"
      BY <1>1, <1>2
    <2>2. Live(u) /\ tasks[u].kind = "index" /\ tasks[t].doc = tasks[u].doc
      BY <1>1, <1>2
    <2> QED BY <2>1, <2>2 DEF LiveTasks
  <1>3. ASSUME NEW t \in DOMAIN tasks, Live(t)', tasks'[t].kind = "facts"
        PROVE  \/ Signalling(tasks[t].doc)'
               \/ \E u \in DOMAIN tasks : /\ u > t /\ tasks'[u].status = "queued"
                                          /\ tasks'[u].kind = "index" /\ tasks'[u].doc = tasks'[t].doc
    <2>1. Live(t) /\ tasks[t].kind = "facts" /\ tasks'[t].doc = tasks[t].doc
      BY <1>1, <1>3
    <2>2. CASE Signalling(tasks[t].doc)
      <3>1. Signalling(tasks[t].doc)'
        BY <1>3, <2>2
      <3> QED BY <2>1, <3>1
    <2>3. CASE ~Signalling(tasks[t].doc)
      <3>1. PICK u \in DOMAIN tasks : /\ u > t /\ tasks[u].status = "queued"
                                      /\ tasks[u].kind = "index" /\ tasks[u].doc = tasks[t].doc
        BY <2>1, <2>3 DEF LiveTasks
      <3> QED BY <2>1, <3>1
    <2> QED BY <2>2, <2>3
  <1> QED BY <1>1, <1>2, <1>3 DEF LiveTasks, Signalling

(* The work on a task or a run.                                              *)
LEMMA WorkKeepsWriteBack ==
    ASSUME SingleIndexer, InductiveInvariant, WriteBackInvariant,
           NEW w \in AllWorkers, WorkStep(w), ~Claims(w)
    PROVE  WriteBackInvariant'
  <1>0. QueuesOK /\ Indexers \cap Enrichers = {} /\ AllWorkers = Indexers \cup Enrichers
    BY DocumentFactsAssumption DEF InductiveInvariant, AllWorkers
  <1>1. /\ Busy(w)
        /\ \A v \in AllWorkers : v /= w => workers'[v] = workers[v]
        /\ \/ workers'[w].phase = "idle"
           \/ /\ workers'[w].kind = workers[w].kind /\ workers'[w].doc = workers[w].doc
              /\ workers'[w].task = workers[w].task
              /\ PhaseFits(workers[w]) => PhaseFits(workers'[w])
              /\ workers'[w].phase \notin Over => workers[w].phase \notin Over
    BY WorkEffects
  <1>2. w \in Indexers =>
           /\ workers[w].kind \in {"facts", "index"} /\ workers[w].task \in DOMAIN tasks
           /\ tasks[workers[w].task].status = "claimed"
           /\ tasks[workers[w].task].kind = workers[w].kind
           /\ tasks[workers[w].task].doc = workers[w].doc
    BY <1>1 DEF WriteBackInvariant, WorkFits
  <1>3. PhaseFits(workers[w]) /\ (w \in Enrichers => workers[w].kind = "run")
    BY <1>1 DEF WriteBackInvariant, WorkFits
  <1>4. \A v \in Indexers : v /= w => w \in Enrichers
    BY <1>0 DEF SingleIndexer
  <1>5. /\ DOMAIN tasks' = DOMAIN tasks
        /\ \A t \in DOMAIN tasks :
              /\ tasks'[t].kind = tasks[t].kind /\ tasks'[t].doc = tasks[t].doc
              /\ tasks[t].status = "queued" <=> tasks'[t].status = "queued"
        /\ UNCHANGED tasks \/ (w \in Indexers /\ workers'[w].phase = "idle")
    <2>1. CASE UNCHANGED tasks
      BY <2>1
    <2>2. CASE MarkTask(w)
      <3>1. workers[w].kind /= "run" /\ Release(w)
            /\ \E status \in {"succeeded", "failed"} :
                  tasks' = [tasks EXCEPT ![workers[w].task].status = status]
        BY <2>2 DEF MarkTask
      <3>2. w \in Indexers /\ workers'[w].phase = "idle"
        BY <1>0, <1>3, <3>1, WorkerForms DEF InductiveInvariant
      <3> QED BY <1>0, <1>2, <3>1, <3>2, MarkedTask
    <2> QED BY <2>1, <2>2, WorkEffects
  <1>6. \A v \in AllWorkers : Busy(v)' =>
           /\ Busy(v) /\ workers'[v].kind = workers[v].kind /\ workers'[v].doc = workers[v].doc
           /\ workers'[v].task = workers[v].task
           /\ workers'[v].phase \notin Over => workers[v].phase \notin Over
           /\ PhaseFits(workers'[v])
    BY <1>1, <1>3 DEF Busy, WriteBackInvariant, WorkFits
  <1>7. WorkFits'
    <2> SUFFICES ASSUME NEW v \in AllWorkers, Busy(v)'
                 PROVE  /\ PhaseFits(workers'[v])
                        /\ v \in Indexers =>
                              /\ workers'[v].kind \in {"facts", "index"} /\ workers'[v].task \in DOMAIN tasks'
                              /\ tasks'[workers'[v].task].status = "claimed"
                              /\ tasks'[workers'[v].task].kind = workers'[v].kind
                              /\ tasks'[workers'[v].task].doc = workers'[v].doc
                        /\ v \in Enrichers => workers'[v].kind = "run"
      BY DEF WorkFits
    <2>1. v \in Enrichers => workers'[v].kind = "run"
      BY <1>6 DEF WriteBackInvariant, WorkFits
    <2>2. CASE v \in Indexers
      <3>1. UNCHANGED tasks
        BY <1>5, <2>2 DEF SingleIndexer, Busy
      <3> QED BY <1>6, <2>1, <2>2, <3>1 DEF WriteBackInvariant, WorkFits
    <2>3. CASE v \notin Indexers
      BY <1>6, <2>1, <2>3
    <2> QED BY <2>2, <2>3
  <1>8. \A t \in DOMAIN tasks : Live(t)' => Live(t)
    <2> SUFFICES ASSUME NEW t \in DOMAIN tasks, Live(t)' PROVE Live(t)
      OBVIOUS
    <2>1. ~reportErr[tasks[t].doc]
      BY <1>0, <1>5, TasksHaveDocuments, WorkEffects DEF Live, QueuesOK
    <2>2. CASE tasks'[t].status = "queued"
      BY <1>5, <2>1, <2>2 DEF Live
    <2>3. CASE \E v \in Indexers : Busy(v)' /\ workers'[v].phase \notin Over /\ workers'[v].task = t
      BY <1>0, <1>6, <2>1, <2>3 DEF Live
    <2> QED BY <2>2, <2>3 DEF Live
  <1>9. ASSUME NEW t \in DOMAIN tasks, Live(t)'
        PROVE  execution'[tasks[t].doc] = execution[tasks[t].doc]
    <2>0. tasks[t].doc \in Docs /\ ~reportErr'[tasks[t].doc] /\ Live(t)
      BY <1>0, <1>5, <1>8, <1>9, TasksHaveDocuments DEF Live, QueuesOK
    <2>1. CASE UNCHANGED execution
      BY <2>1
    <2>2. CASE /\ workers[w].phase \in {"complete", "fail_step"}
               /\ workers'[w].phase \in Over \/ reportErr'[workers[w].doc]
               /\ \A d \in Docs : d /= workers[w].doc => execution'[d] = execution[d]
      <3>1. workers[w].kind = "index" /\ w \in Indexers
        BY <1>0, <1>3, <2>2 DEF PhaseFits
      <3>2. PICK u \in DOMAIN tasks : u = workers[w].task
        BY <1>2, <3>1
      <3>3. tasks[u].kind = "index" /\ tasks[u].doc = workers[w].doc /\ tasks[u].status = "claimed"
        BY <1>2, <3>1, <3>2
      <3>5. tasks[t].kind \in {"facts", "index"}
        BY <1>0, TasksHaveDocuments DEF QueuesOK
      <3>6. tasks[t].doc /= workers[w].doc
        <4> SUFFICES ASSUME tasks[t].doc = workers[w].doc PROVE FALSE
          OBVIOUS
        <4>1. Live(t) /\ Live(u) /\ workers'[w].phase \in Over
          BY <1>1, <2>0, <2>2, <3>1, <3>2, <3>3 DEF Live, Over
        <4>2. CASE tasks[t].kind = "facts"
          <5>0. execution[tasks[t].doc] = "index" /\ ~Signalling(tasks[t].doc)
            BY <3>3, <4>1 DEF WriteBackInvariant, LiveTasks, Signalling
          <5>1. PICK x \in DOMAIN tasks : /\ tasks[x].status = "queued"
                                          /\ tasks[x].kind = "index" /\ tasks[x].doc = tasks[t].doc
            BY <4>1, <4>2, <5>0 DEF WriteBackInvariant, LiveTasks
          <5>2. Live(x)
            BY <2>0, <4>1, <5>1 DEF Live
          <5>3. x = u
            BY <3>3, <4>1, <5>1, <5>2 DEF WriteBackInvariant, LiveTasks
          <5> QED BY <3>3, <5>1, <5>3
        <4>3. CASE tasks[t].kind = "index"
          <5>1. t = u
            BY <3>3, <4>1, <4>3 DEF WriteBackInvariant, LiveTasks
          <5>2. tasks'[t].status /= "queued"
            BY <1>5, <3>3, <5>1
          <5>3. PICK v \in Indexers : workers'[v].phase \notin Over
            BY <1>9, <5>2 DEF Live
          <5>4. v = w
            BY <3>1 DEF SingleIndexer
          <5> QED BY <4>1, <5>3, <5>4
        <4> QED BY <3>5, <4>2, <4>3
      <3> QED BY <2>0, <2>2, <3>6
    <2> QED BY <2>1, <2>2, WorkEffects
  <1>10. LiveTasks'
    <2>1. \A t \in DOMAIN tasks : Live(t)' =>
             /\ Live(t) /\ execution'[tasks[t].doc] = execution[tasks[t].doc]
             /\ Signalling(tasks[t].doc) => Signalling(tasks[t].doc)'
      <3> SUFFICES ASSUME NEW t \in DOMAIN tasks, Live(t)', Signalling(tasks[t].doc)
                   PROVE  Signalling(tasks[t].doc)'
        BY <1>8, <1>9
      <3>1. UNCHANGED <<queued, ingest>> /\ tasks'[t].doc = tasks[t].doc
        BY <1>5, WorkEffects
      <3> QED BY <1>9, <3>1 DEF Signalling
    <2> QED BY <1>5, <2>1, LiveTasksKept DEF WriteBackInvariant
  <1>12. IngestFits'
    <2> SUFFICES ASSUME NEW d \in Docs, ~reportErr'[d]
                 PROVE  /\ ingest'[d] \notin {"idle", "restart"} => execution'[d] = "parse" /\ queued'[d] = 0
                        /\ queued'[d] /= 0 => execution'[d] = "parse" /\ queued'[d] = 1
                        /\ execution'[d] = "index" => ingest'[d] = "idle"
      BY DEF IngestFits
    <2>1. UNCHANGED <<queued, ingest>> /\ ~reportErr[d]
      BY WorkEffects
    <2>2. CASE execution'[d] = execution[d]
      BY <2>1, <2>2 DEF WriteBackInvariant, IngestFits
    <2>3. CASE execution'[d] /= execution[d]
      <3>1. /\ workers[w].phase \in {"complete", "fail_step"} /\ d = workers[w].doc
            /\ execution'[d] \in {"done", "failed"}
        BY <2>3, WorkEffects
      <3>2. workers[w].kind = "index" /\ w \in Indexers
        BY <1>0, <1>3, <3>1 DEF PhaseFits
      <3>3. PICK u \in DOMAIN tasks : u = workers[w].task
        BY <1>2, <3>2
      <3>4. tasks[u].kind = "index" /\ tasks[u].doc = d
        BY <1>2, <3>1, <3>2, <3>3
      <3>5. Live(u)
        BY <1>1, <2>1, <3>1, <3>2, <3>3, <3>4 DEF Live, Over
      <3>6. execution[d] = "index"
        BY <3>4, <3>5 DEF WriteBackInvariant, LiveTasks
      <3>7. ingest[d] = "idle" /\ queued[d] = 0
        BY <2>1, <3>6 DEF WriteBackInvariant, IngestFits
      <3> QED BY <2>1, <3>1, <3>7
    <2> QED BY <2>2, <2>3
  <1>11. ReadIsCurrent'
    <2> SUFFICES ASSUME NEW v \in Indexers, workers'[v].kind = "facts", workers'[v].phase \in Reading,
                        ~reportErr'[workers'[v].doc]
                 PROVE  workers'[v].lifecycle = lifecycle'[workers'[v].doc]
      BY DEF ReadIsCurrent
    <2>1. v \in AllWorkers /\ Busy(v)'
      BY <1>0 DEF Busy, Reading
    <2>0. ~reportErr[workers[v].doc]
      <3>1. workers'[v].doc = workers[v].doc /\ workers[v].doc \in Docs
        BY <1>0, <1>6, <2>1 DEF QueuesOK, Worker
      <3> QED BY <3>1, WorkEffects
    <2>2. CASE v = w
      <3>1. workers[w].kind = "facts" /\ workers'[w].doc = workers[w].doc
        BY <1>6, <2>1, <2>2
      <3>2. UNCHANGED lifecycle
        <4>1. ~RestoreLifecycle(w)
          <5> SUFFICES ASSUME RestoreLifecycle(w) PROVE FALSE
            OBVIOUS
          <5>1. workers'[w].phase = "mark"
            BY WorkerForms DEF RestoreLifecycle, InductiveInvariant
          <5> QED BY <2>2, <5>1 DEF Reading
        <4>2. workers[w].phase \notin {"index", "fail"}
          BY <1>3, <3>1 DEF PhaseFits
        <4> QED BY <4>1, <4>2, WorkEffects
      <3>3. \/ workers[w].phase \in Reading /\ workers'[w].lifecycle = workers[w].lifecycle
            \/ workers'[w].lifecycle = lifecycle[workers[w].doc]
        BY <2>1, <2>2, WorkEffects DEF Busy
      <3> QED BY <2>0, <2>2, <3>1, <3>2, <3>3 DEF WriteBackInvariant, ReadIsCurrent
    <2>3. CASE v /= w
      <3>1. w \in Enrichers /\ workers[w].kind = "run" /\ workers'[v] = workers[v]
        BY <1>1, <1>3, <1>4, <2>1, <2>3
      <3>2. UNCHANGED lifecycle
        BY <1>3, <3>1, WorkEffects DEF PhaseFits, RestoreLifecycle
      <3> QED BY <2>0, <3>1, <3>2 DEF WriteBackInvariant, ReadIsCurrent
    <2> QED BY <2>2, <2>3
  <1> QED BY <1>7, <1>10, <1>11, <1>12 DEF WriteBackInvariant

(* A claim of the oldest queued task, by a worker that has none.             *)
LEMMA ClaimKeepsWriteBack ==
    ASSUME SingleIndexer, InductiveInvariant, WriteBackInvariant, NEW w \in AllWorkers, ClaimTask(w)
    PROVE  WriteBackInvariant'
  <1>0. QueuesOK /\ Indexers \cap Enrichers = {} /\ AllWorkers = Indexers \cup Enrichers
    BY DocumentFactsAssumption DEF InductiveInvariant, AllWorkers
  <1>1. PICK t \in DOMAIN tasks :
           /\ IsNext(t) /\ tasks' = [tasks EXCEPT ![t].status = "claimed"]
           /\ workers'[w].phase = "document" /\ workers'[w].kind = tasks[t].kind
           /\ workers'[w].doc = tasks[t].doc /\ workers'[w].task = t
           /\ \A v \in AllWorkers : v /= w => workers'[v] = workers[v]
    BY <1>0, ClaimForms
  <1>2. /\ w \in Indexers /\ w \notin Enrichers /\ workers[w].phase = "idle"
        /\ UNCHANGED <<execution, queued, ingest, reportErr, lifecycle>>
    BY <1>0 DEF ClaimTask, documentVars, executionVars
  <1>3. /\ DOMAIN tasks' = DOMAIN tasks /\ tasks'[t].status = "claimed"
        /\ tasks'[t].kind = tasks[t].kind /\ tasks'[t].doc = tasks[t].doc
        /\ \A u \in DOMAIN tasks : u /= t => tasks'[u] = tasks[u]
    BY <1>0, <1>1, MarkedTask
  <1>4. DOMAIN tasks = 1 .. Len(tasks) /\ Len(tasks) \in Nat /\ tasks[t] \in Task
    BY <1>0 DEF QueuesOK
  <1>5. /\ tasks[t].status = "queued" /\ tasks[t].kind \in {"facts", "index"}
        /\ \A u \in DOMAIN tasks : u < t => tasks[u].status /= "queued"
    BY <1>1, <1>4 DEF IsNext, Task
  <1>6. \A v \in Indexers : v = w
    BY <1>2 DEF SingleIndexer
  <1>7. \A u \in DOMAIN tasks : Live(u) <=> tasks[u].status = "queued" /\ ~reportErr[tasks[u].doc]
    BY <1>2, <1>6 DEF Live, Busy
  <1>8. \A u \in DOMAIN tasks : Live(u)' => /\ u = t \/ tasks[u].status = "queued"
                                            /\ ~reportErr[tasks[u].doc]
    <2> SUFFICES ASSUME NEW u \in DOMAIN tasks, Live(u)'
                 PROVE  (u = t \/ tasks[u].status = "queued") /\ ~reportErr[tasks[u].doc]
      OBVIOUS
    <2>1. ~reportErr[tasks[u].doc]
      BY <1>2, <1>3 DEF Live
    <2>2. CASE u /= t
      <3>1. ~\E v \in Indexers : workers'[v].task = u
        BY <1>1, <1>6, <2>2
      <3> QED BY <1>3, <2>1, <2>2, <3>1 DEF Live
    <2> QED BY <2>1, <2>2
  <1>9. \A u \in DOMAIN tasks :
           /\ Live(u)' => Live(u)
           /\ tasks'[u].kind = tasks[u].kind /\ tasks'[u].doc = tasks[u].doc
    BY <1>3, <1>5, <1>7, <1>8
  <1>10. LiveTasks'
    <2>1. ASSUME NEW u \in DOMAIN tasks, Live(u)', tasks'[u].kind = "index"
          PROVE  execution'[tasks'[u].doc] = "index"
      BY <1>2, <1>9, <2>1 DEF WriteBackInvariant, LiveTasks
    <2>2. ASSUME NEW u \in DOMAIN tasks, NEW x \in DOMAIN tasks, Live(u)', Live(x)',
                 tasks'[u].kind = "index", tasks'[x].kind = "index", tasks'[u].doc = tasks'[x].doc
          PROVE  u = x
      <3>1. Live(u) /\ Live(x) /\ tasks[u].kind = "index" /\ tasks[x].kind = "index"
            /\ tasks[u].doc = tasks[x].doc
        BY <1>9, <2>2
      <3> QED BY <3>1 DEF WriteBackInvariant, LiveTasks
    <2>3. ASSUME NEW u \in DOMAIN tasks, Live(u)', tasks'[u].kind = "facts"
          PROVE  \/ Signalling(tasks[u].doc)'
                 \/ \E x \in DOMAIN tasks : /\ x > u /\ tasks'[x].status = "queued"
                                            /\ tasks'[x].kind = "index" /\ tasks'[x].doc = tasks'[u].doc
      <3>1. Live(u) /\ tasks[u].kind = "facts" /\ tasks'[u].doc = tasks[u].doc
        BY <1>9, <2>3
      <3>0. CASE Signalling(tasks[u].doc)
        <4>1. Signalling(tasks[u].doc)'
          BY <1>2, <1>3, <3>0, <3>1 DEF Signalling
        <4> QED BY <4>1
      <3> SUFFICES ASSUME ~Signalling(tasks[u].doc)
                   PROVE  \E x \in DOMAIN tasks : /\ x > u /\ tasks'[x].status = "queued"
                                                  /\ tasks'[x].kind = "index" /\ tasks'[x].doc = tasks'[u].doc
        BY <3>0
      <3>2. PICK x \in DOMAIN tasks : /\ x > u /\ tasks[x].status = "queued"
                                      /\ tasks[x].kind = "index" /\ tasks[x].doc = tasks[u].doc
        BY <3>1 DEF WriteBackInvariant, LiveTasks
      <3>3. tasks[u].status = "queued"
        BY <1>7, <3>1
      <3>4. x /= t
        BY <1>5, <3>2, <3>3
      <3> QED BY <1>3, <3>1, <3>2, <3>4
    <2> QED BY <1>3, <2>1, <2>2, <2>3 DEF LiveTasks, Signalling
  <1>13. IngestFits'
    BY <1>2 DEF WriteBackInvariant, IngestFits
  <1>11. WorkFits'
    <2> SUFFICES ASSUME NEW v \in AllWorkers, Busy(v)'
                 PROVE  /\ PhaseFits(workers'[v])
                        /\ v \in Indexers =>
                              /\ workers'[v].kind \in {"facts", "index"} /\ workers'[v].task \in DOMAIN tasks'
                              /\ tasks'[workers'[v].task].status = "claimed"
                              /\ tasks'[workers'[v].task].kind = workers'[v].kind
                              /\ tasks'[workers'[v].task].doc = workers'[v].doc
                        /\ v \in Enrichers => workers'[v].kind = "run"
      BY DEF WorkFits
    <2>1. CASE v = w
      BY <1>1, <1>2, <1>3, <1>5, <2>1 DEF PhaseFits
    <2>2. CASE v /= w
      <3>1. workers'[v] = workers[v] /\ Busy(v) /\ v \notin Indexers
        BY <1>1, <1>6, <2>2 DEF Busy
      <3> QED BY <3>1 DEF WriteBackInvariant, WorkFits
    <2> QED BY <2>1, <2>2
  <1>12. ReadIsCurrent'
    BY <1>1, <1>6 DEF ReadIsCurrent, Reading
  <1> QED BY <1>10, <1>11, <1>12, <1>13 DEF WriteBackInvariant

(* A claim of a run is nothing to the retrieval worker.                      *)
LEMMA ClaimRunKeepsWriteBack ==
    ASSUME InductiveInvariant, WriteBackInvariant, NEW w \in AllWorkers, ClaimRun(w)
    PROVE  WriteBackInvariant'
  <1>0. QueuesOK /\ Indexers \cap Enrichers = {} /\ AllWorkers = Indexers \cup Enrichers
    BY DocumentFactsAssumption DEF InductiveInvariant, AllWorkers
  <1>1. /\ workers'[w].phase = "document" /\ workers'[w].kind = "run"
        /\ \A v \in AllWorkers : v /= w => workers'[v] = workers[v]
    BY <1>0, ClaimForms
  <1>2. /\ UNCHANGED <<tasks, execution, queued, ingest, reportErr, lifecycle>>
        /\ w \in Enrichers /\ w \notin Indexers
    BY <1>0 DEF ClaimRun, documentVars, executionVars
  <1>3. \A v \in Indexers : workers'[v] = workers[v]
    BY <1>0, <1>1, <1>2
  <1>4. WorkFits'
    BY <1>1, <1>2 DEF WriteBackInvariant, WorkFits, PhaseFits, Busy
  <1>5. \A t \in DOMAIN tasks : Live(t)' => Live(t)
    BY <1>2, <1>3 DEF Live, Busy
  <1>6. LiveTasks'
    BY <1>2, <1>5, LiveTasksKept DEF WriteBackInvariant, Signalling
  <1>7. ReadIsCurrent' /\ IngestFits'
    BY <1>2, <1>3 DEF WriteBackInvariant, ReadIsCurrent, IngestFits
  <1> QED BY <1>4, <1>6, <1>7 DEF WriteBackInvariant

(* At a document whose reports arrive, only a worker with StepCompleted      *)
(* before it finds a live task.                                              *)
LEMMA QuietDocument ==
    ASSUME InductiveInvariant, WriteBackInvariant, NEW d \in Docs,
           ingest[d] \notin {"idle", "signal"} \/ execution[d] \notin Running \/ queued[d] /= 0
    PROVE  \A t \in DOMAIN tasks : Live(t) => tasks[t].doc /= d
  <1> SUFFICES ASSUME NEW t \in DOMAIN tasks, Live(t), tasks[t].doc = d PROVE FALSE
    OBVIOUS
  <1>1. execution[d] = "index" \/ Signalling(d)
    BY LiveStage DEF InductiveInvariant, QueuesOK, WriteBackInvariant
  <1>2. ~reportErr[d]
    BY DEF Live
  <1>3. CASE execution[d] = "index"
    BY <1>2, <1>3 DEF WriteBackInvariant, IngestFits, Running
  <1>4. CASE Signalling(d)
    BY <1>4 DEF Signalling, Running
  <1> QED BY <1>1, <1>3, <1>4

(* A task is put behind the queue.                                           *)
LEMMA Appended ==
    ASSUME QueuesOK, NEW d \in Docs, NEW kind \in {"facts", "index"},
           tasks' = Append(tasks, Queued(kind, d))
    PROVE  /\ Len(tasks) + 1 \notin DOMAIN tasks
           /\ DOMAIN tasks' = DOMAIN tasks \cup {Len(tasks) + 1}
           /\ \A t \in DOMAIN tasks : tasks'[t] = tasks[t] /\ Len(tasks) + 1 > t
           /\ tasks'[Len(tasks) + 1].kind = kind /\ tasks'[Len(tasks) + 1].doc = d
           /\ tasks'[Len(tasks) + 1].status = "queued"
  <1>1. tasks \in Seq(Task) /\ Len(tasks) \in Nat /\ DOMAIN tasks = 1 .. Len(tasks)
    BY DEF QueuesOK
  <1>2. /\ DOMAIN tasks' = 1 .. Len(tasks) + 1 /\ tasks'[Len(tasks) + 1] = Queued(kind, d)
        /\ \A t \in DOMAIN tasks : tasks'[t] = tasks[t]
    BY <1>1
  <1> QED BY <1>1, <1>2 DEF Queued

(* The ingest worker enqueues the fact task.                                 *)
LEMMA FactTaskKeepsLiveTasks ==
    ASSUME QueuesOK, LiveTasks, NEW d \in Docs, UNCHANGED <<workers, execution, queued, reportErr>>,
           tasks' = Append(tasks, Queued("facts", d)), ~reportErr[d] => Signalling(d)',
           \A e \in Docs : e /= d => ingest'[e] = ingest[e],
           \A t \in DOMAIN tasks : Live(t) => tasks[t].doc /= d
    PROVE  LiveTasks'
  <1> DEFINE n == Len(tasks) + 1
  <1>1. /\ n \notin DOMAIN tasks /\ DOMAIN tasks' = DOMAIN tasks \cup {n}
        /\ \A t \in DOMAIN tasks : tasks'[t] = tasks[t]
        /\ tasks'[n].kind = "facts" /\ tasks'[n].doc = d /\ tasks'[n].status = "queued"
    BY Appended
  <1> HIDE DEF n
  <1>2. ASSUME NEW t \in DOMAIN tasks, Live(t)'
        PROVE  Live(t) /\ tasks'[t] = tasks[t] /\ tasks[t].doc \in Docs /\ tasks[t].doc /= d
    BY <1>1, <1>2, TasksHaveDocuments DEF Live, Busy, QueuesOK
  <1>3. ASSUME NEW t \in DOMAIN tasks', Live(t)', tasks'[t].kind = "index"
        PROVE  t \in DOMAIN tasks /\ execution'[tasks'[t].doc] = "index"
    BY <1>1, <1>2, <1>3 DEF LiveTasks
  <1>4. ASSUME NEW t \in DOMAIN tasks', NEW u \in DOMAIN tasks', Live(t)', Live(u)',
               tasks'[t].kind = "index", tasks'[u].kind = "index", tasks'[t].doc = tasks'[u].doc
        PROVE  t = u
    <2>1. t \in DOMAIN tasks /\ u \in DOMAIN tasks
      BY <1>3, <1>4
    <2> QED BY <1>2, <1>4, <2>1 DEF LiveTasks
  <1>5. ASSUME NEW t \in DOMAIN tasks', Live(t)', tasks'[t].kind = "facts"
        PROVE  \/ Signalling(tasks[t].doc)'
               \/ \E u \in DOMAIN tasks' : /\ u > t /\ tasks'[u].status = "queued"
                                           /\ tasks'[u].kind = "index" /\ tasks'[u].doc = tasks'[t].doc
    <2>1. CASE t \in DOMAIN tasks
      <3>1. Live(t) /\ tasks[t].kind = "facts" /\ tasks[t].doc \in Docs /\ tasks[t].doc /= d
            /\ tasks'[t].doc = tasks[t].doc
        BY <1>2, <1>5, <2>1
      <3>2. CASE Signalling(tasks[t].doc)
        BY <3>1, <3>2 DEF Signalling
      <3>3. CASE ~Signalling(tasks[t].doc)
        <4>1. PICK u \in DOMAIN tasks : /\ u > t /\ tasks[u].status = "queued"
                                        /\ tasks[u].kind = "index" /\ tasks[u].doc = tasks[t].doc
          BY <2>1, <3>1, <3>3 DEF LiveTasks
        <4>2. u \in DOMAIN tasks' /\ tasks'[u] = tasks[u]
          BY <1>1
        <4> QED BY <3>1, <4>1, <4>2
      <3> QED BY <3>2, <3>3
    <2>2. CASE t = n
      <3>1. ~reportErr[d] /\ tasks'[t].doc = d
        BY <1>1, <1>5, <2>2 DEF Live
      <3> QED BY <3>1 DEF Signalling
    <2> QED BY <1>1, <2>1, <2>2
  <1> QED BY <1>3, <1>4, <1>5 DEF LiveTasks, Signalling

(* StepCompleted enqueues the index task.                                    *)
LEMMA IndexTaskKeepsLiveTasks ==
    ASSUME QueuesOK, LiveTasks, NEW d \in Docs, UNCHANGED <<workers, queued>>,
           tasks' = Append(tasks, Queued("index", d)),
           execution[d] = "parse", execution'[d] = "index",
           \A e \in Docs : reportErr[e] => reportErr'[e],
           \A e \in Docs : e /= d => ingest'[e] = ingest[e] /\ execution'[e] = execution[e]
    PROVE  LiveTasks'
  <1> DEFINE n == Len(tasks) + 1
  <1>1. /\ n \notin DOMAIN tasks /\ DOMAIN tasks' = DOMAIN tasks \cup {n}
        /\ \A t \in DOMAIN tasks : tasks'[t] = tasks[t] /\ n > t
        /\ tasks'[n].kind = "index" /\ tasks'[n].doc = d /\ tasks'[n].status = "queued"
    BY Appended
  <1> HIDE DEF n
  <1>2. ASSUME NEW t \in DOMAIN tasks, Live(t)'
        PROVE  Live(t) /\ tasks'[t] = tasks[t] /\ tasks[t].doc \in Docs
    BY <1>1, <1>2, TasksHaveDocuments DEF Live, Busy, QueuesOK
  <1>3. ASSUME NEW t \in DOMAIN tasks, Live(t)', tasks[t].kind = "index"
        PROVE  tasks[t].doc /= d /\ execution'[tasks[t].doc] = "index"
    BY <1>2, <1>3 DEF LiveTasks
  <1>4. ASSUME NEW t \in DOMAIN tasks', Live(t)', tasks'[t].kind = "index"
        PROVE  execution'[tasks'[t].doc] = "index"
    BY <1>1, <1>2, <1>3, <1>4
  <1>5. ASSUME NEW t \in DOMAIN tasks', NEW u \in DOMAIN tasks', Live(t)', Live(u)',
               tasks'[t].kind = "index", tasks'[u].kind = "index", tasks'[t].doc = tasks'[u].doc
        PROVE  t = u
    <2>1. CASE t \in DOMAIN tasks /\ u \in DOMAIN tasks
      BY <1>2, <1>5, <2>1 DEF LiveTasks
    <2>2. CASE t \in DOMAIN tasks /\ u = n
      BY <1>1, <1>3, <1>5, <2>2
    <2>3. CASE t = n /\ u \in DOMAIN tasks
      BY <1>1, <1>3, <1>5, <2>3
    <2> QED BY <1>1, <2>1, <2>2, <2>3
  <1>6. ASSUME NEW t \in DOMAIN tasks', Live(t)', tasks'[t].kind = "facts"
        PROVE  \/ Signalling(tasks[t].doc)'
               \/ \E u \in DOMAIN tasks' : /\ u > t /\ tasks'[u].status = "queued"
                                           /\ tasks'[u].kind = "index" /\ tasks'[u].doc = tasks'[t].doc
    <2>0. t \in DOMAIN tasks /\ tasks'[t] = tasks[t]
      BY <1>1, <1>6
    <2>1. Live(t) /\ tasks[t].kind = "facts" /\ tasks[t].doc \in Docs
      BY <1>2, <1>6, <2>0
    <2>2. CASE tasks[t].doc = d
      <3>1. n \in DOMAIN tasks' /\ n > t
        BY <1>1, <2>0
      <3> QED BY <1>1, <2>0, <2>2, <3>1
    <2>3. CASE tasks[t].doc /= d /\ Signalling(tasks[t].doc)
      BY <2>0, <2>1, <2>3 DEF Signalling
    <2>4. CASE tasks[t].doc /= d /\ ~Signalling(tasks[t].doc)
      <3>1. PICK u \in DOMAIN tasks : /\ u > t /\ tasks[u].status = "queued"
                                      /\ tasks[u].kind = "index" /\ tasks[u].doc = tasks[t].doc
        BY <2>0, <2>1, <2>4 DEF LiveTasks
      <3>2. u \in DOMAIN tasks' /\ tasks'[u] = tasks[u]
        BY <1>1
      <3> QED BY <2>0, <3>1, <3>2
    <2> QED BY <2>2, <2>3, <2>4
  <1> QED BY <1>4, <1>5, <1>6 DEF LiveTasks, Signalling

(* Requests and the ingest worker.                                           *)
LEMMA IngestKeepsWriteBack ==
    ASSUME InductiveInvariant, WriteBackInvariant, NEW d \in Docs, IngestStep(d)
    PROVE  WriteBackInvariant'
  <1>0. /\ QueuesOK /\ tasks \in Seq(Task) /\ LiveTasks /\ IngestFits /\ Indexers \subseteq AllWorkers
        /\ UNCHANGED workers
    BY IngestEffects DEF InductiveInvariant, QueuesOK, WriteBackInvariant, AllWorkers
  <1>1. /\ execution \in [Docs -> Stages] /\ reportErr \in [Docs -> BOOLEAN]
        /\ lifecycle \in [Docs -> Lifecycles] /\ ingest \in [Docs -> IngestPhases]
        /\ queued \in [Docs -> Nat]
    BY DEF InductiveInvariant, DocumentsOK
  <1>2. /\ \A e \in Docs : reportErr[e] => reportErr'[e]
        /\ \A e \in Docs : e /= d => /\ execution'[e] = execution[e] /\ reportErr'[e] = reportErr[e]
    BY <1>1, IngestEffects DEF SetExecution
  <1>3. \A e \in Docs : e /= d => lifecycle'[e] = lifecycle[e] /\ ingest'[e] = ingest[e]
    BY <1>1, IngestEffects DEF SetLifecycle, IngestGoto
  <1>4. \A e \in Docs : e /= d => queued'[e] = queued[e]
    BY <1>1 DEF IngestStep, Ingest, RequestParse, ParseFails, IngestStops, ClaimParse, ReplaceChunks,
           MarkExtracted, EnqueueFacts, CompleteParse, MarkDeferred, FailDeferred, RestartParse,
           MarkParseFailed, FailParse, StartParse
  <1>5. ASSUME ~reportErr'[d]
        PROVE  /\ ingest'[d] \notin {"idle", "restart"} => execution'[d] = "parse" /\ queued'[d] = 0
               /\ queued'[d] /= 0 => execution'[d] = "parse" /\ queued'[d] = 1
               /\ execution'[d] = "index" => ingest'[d] = "idle"
    <2>0. /\ ingest[d] \notin {"idle", "restart"} => execution[d] = "parse" /\ queued[d] = 0
          /\ queued[d] /= 0 => execution[d] = "parse" /\ queued[d] = 1
          /\ execution[d] = "index" => ingest[d] = "idle"
          /\ queued[d] \in Nat
      BY <1>0, <1>1, <1>2, <1>5 DEF IngestFits
    <2>1. CASE RequestParse(d)
      BY <1>1, <2>0, <2>1 DEF RequestParse, StartParse, SetExecution
    <2>2. CASE ClaimParse(d)
      BY <1>1, <2>0, <2>2 DEF ClaimParse, IngestGoto
    <2>3. CASE ReplaceChunks(d) \/ MarkExtracted(d) \/ EnqueueFacts(d) \/ MarkDeferred(d)
               \/ ParseFails(d) \/ IngestStops(d) \/ MarkParseFailed(d)
      <3>1. UNCHANGED <<execution, queued>> /\ \E phase \in IngestPhases : IngestGoto(d, phase)
        BY <2>3 DEF ReplaceChunks, MarkExtracted, EnqueueFacts, MarkDeferred, ParseFails, IngestStops,
                    MarkParseFailed, IngestPhases
      <3>2. ingest[d] \notin {"idle", "restart"} \/ ingest'[d] = "idle"
        BY <1>1, <2>3 DEF ReplaceChunks, MarkExtracted, EnqueueFacts, MarkDeferred, ParseFails,
                          IngestStops, MarkParseFailed, IngestGoto
      <3> QED BY <2>0, <3>1, <3>2
    <2>4. CASE CompleteParse(d)
      <3>1. UNCHANGED queued /\ ingest[d] = "signal" /\ IngestGoto(d, "idle") /\ AcceptParse(d)
        BY <1>1, <1>5, <2>4 DEF CompleteParse
      <3> QED BY <1>1, <2>0, <3>1 DEF IngestGoto, AcceptParse, SetExecution
    <2>5. CASE FailDeferred(d) \/ FailParse(d)
      <3>1. UNCHANGED queued /\ ingest[d] \in {"requeue", "reject", "fail_step"} /\ AcceptFailure(d)
            /\ (IngestGoto(d, "restart") \/ IngestGoto(d, "idle"))
        BY <1>1, <1>5, <2>5 DEF FailDeferred, FailParse, FailureErr
      <3> QED BY <1>1, <2>0, <3>1 DEF IngestGoto, AcceptFailure, SetExecution
    <2>6. CASE RestartParse(d)
      BY <1>1, <2>0, <2>6 DEF RestartParse, StartParse, SetExecution, IngestGoto
    <2> QED BY <2>1, <2>2, <2>3, <2>4, <2>5, <2>6 DEF IngestStep, Ingest
  <1>6. IngestFits'
    BY <1>0, <1>2, <1>3, <1>4, <1>5 DEF IngestFits
  <1>7. /\ DOMAIN tasks \subseteq DOMAIN tasks'
        /\ \A t \in DOMAIN tasks : tasks'[t] = tasks[t]
    BY <1>0, IngestEffects, Appended
  <1>8. LiveTasks'
    <2>1. CASE EnqueueFacts(d) /\ tasks' = Append(tasks, Queued("facts", d))
      <3>1. ingest[d] = "enqueue" /\ ingest'[d] = "signal" /\ UNCHANGED <<execution, queued, reportErr>>
        BY <1>1, <2>1 DEF EnqueueFacts, IngestGoto
      <3>2. ~reportErr[d] => Signalling(d)'
        BY <1>0, <3>1 DEF IngestFits, Signalling
      <3>3. \A t \in DOMAIN tasks : Live(t) => tasks[t].doc /= d
        BY <3>1, QuietDocument
      <3> QED BY <1>0, <1>3, <2>1, <3>1, <3>2, <3>3, FactTaskKeepsLiveTasks
    <2>2. CASE CompleteParse(d) /\ AcceptParse(d)
      <3>1. /\ execution[d] = "parse" /\ execution'[d] = "index" /\ UNCHANGED queued
            /\ tasks' = Append(tasks, Queued("index", d))
        BY <1>1, <2>2 DEF CompleteParse, AcceptParse, SetExecution
      <3> QED BY <1>0, <1>2, <1>3, <3>1, IndexTaskKeepsLiveTasks
    <2>3. CASE UNCHANGED tasks
      <3>1. ASSUME NEW t \in DOMAIN tasks, Live(t)'
            PROVE  /\ Live(t)
                   /\ execution[tasks[t].doc] = "index" => execution'[tasks[t].doc] = "index"
                   /\ Signalling(tasks[t].doc) => Signalling(tasks[t].doc)'
        <4>1. Live(t) /\ tasks[t].doc \in Docs /\ ~reportErr'[tasks[t].doc]
          BY <1>0, <1>2, <2>3, <3>1, TasksHaveDocuments DEF Live, Busy
        <4>2. CASE tasks[t].doc /= d
          BY <1>2, <1>3, <1>4, <2>3, <4>1, <4>2 DEF Signalling
        <4>3. CASE tasks[t].doc = d
          <5>1. /\ ingest[d] \in {"idle", "signal"} /\ execution[d] \in Running /\ queued[d] = 0
                /\ ~reportErr'[d]
            BY <4>1, <4>3, QuietDocument
          <5>2. IngestStops(d)
            BY <1>1, <2>3, <5>1
               DEF IngestStep, Ingest, RequestParse, ParseFails, ClaimParse, ReplaceChunks,
                   MarkExtracted, EnqueueFacts, CompleteParse, MarkDeferred, FailDeferred,
                   RestartParse, MarkParseFailed, FailParse, Running, AcceptParse
          <5>3. UNCHANGED <<execution, queued>> /\ ingest'[d] = "idle"
            BY <1>1, <5>2 DEF IngestStops, IngestGoto
          <5> QED BY <2>3, <4>1, <4>3, <5>3 DEF Signalling
        <4> QED BY <4>2, <4>3
      <3> QED BY <1>0, <2>3, <3>1, LiveTasksKept
    <2>4. \/ EnqueueFacts(d) /\ tasks' = Append(tasks, Queued("facts", d))
          \/ CompleteParse(d) /\ AcceptParse(d)
          \/ UNCHANGED tasks
      BY DEF IngestStep, Ingest, RequestParse, ParseFails, IngestStops, ClaimParse, ReplaceChunks,
             MarkExtracted, EnqueueFacts, CompleteParse, MarkDeferred, FailDeferred, RestartParse,
             MarkParseFailed, FailParse
    <2> QED BY <2>1, <2>2, <2>3, <2>4
  <1>9. WorkFits'
    BY <1>0, <1>7 DEF WriteBackInvariant, WorkFits, Busy
  <1>10. ReadIsCurrent'
    <2> SUFFICES ASSUME NEW w \in Indexers, workers[w].kind = "facts", workers[w].phase \in Reading,
                        ~reportErr'[workers[w].doc]
                 PROVE  workers[w].lifecycle = lifecycle'[workers[w].doc]
      BY <1>0 DEF ReadIsCurrent
    <2>1. Busy(w) /\ w \in AllWorkers /\ workers[w].phase \notin Over
      BY <1>0 DEF Busy, Reading, Over
    <2>2. workers[w].task \in DOMAIN tasks /\ tasks[workers[w].task].doc = workers[w].doc
      BY <2>1 DEF WriteBackInvariant, WorkFits
    <2>3. workers[w].doc \in Docs /\ ~reportErr[workers[w].doc]
      BY <1>0, <1>2, <2>2, TasksHaveDocuments
    <2>4. Live(workers[w].task)
      BY <2>1, <2>2, <2>3 DEF Live
    <2>5. workers[w].lifecycle = lifecycle[workers[w].doc]
      BY <2>3 DEF WriteBackInvariant, ReadIsCurrent
    <2>6. CASE workers[w].doc /= d
      BY <1>3, <2>3, <2>5, <2>6
    <2>7. CASE workers[w].doc = d
      <3>1. ingest[d] \in {"idle", "signal"}
        BY <2>2, <2>4, <2>7, QuietDocument
      <3>2. UNCHANGED lifecycle
        BY <3>1 DEF IngestStep, Ingest, RequestParse, ParseFails, IngestStops, ClaimParse,
                    ReplaceChunks, MarkExtracted, EnqueueFacts, CompleteParse, MarkDeferred,
                    FailDeferred, RestartParse, MarkParseFailed, FailParse
      <3> QED BY <2>5, <3>2
    <2> QED BY <2>6, <2>7
  <1> QED BY <1>6, <1>8, <1>9, <1>10 DEF WriteBackInvariant

(* Every step keeps the invariant, and a write-back changes nothing.         *)
LEMMA StepKeepsWriteBack ==
    ASSUME SingleIndexer, InductiveInvariant, WriteBackInvariant, [Next]_vars
    PROVE  /\ WriteBackInvariant'
           /\ \A w \in Indexers :
                 /\ workers[w].phase = "state" /\ workers'[w].phase = "mark"
                 /\ ~reportErr[workers[w].doc]
                 => lifecycle' = lifecycle
  <1>0. Indexers \subseteq AllWorkers /\ QueuesOK /\ DocumentsOK
    BY DEF AllWorkers, InductiveInvariant
  <1>1. CASE UNCHANGED vars
    <2>1. UNCHANGED <<tasks, workers, execution, queued, ingest, reportErr, lifecycle>>
      BY <1>1 DEF vars
    <2>2. \A t \in DOMAIN tasks : Live(t)' => Live(t)
      BY <2>1 DEF Live, Busy
    <2>3. LiveTasks'
      BY <2>1, <2>2, LiveTasksKept DEF WriteBackInvariant, Signalling
    <2> QED BY <2>1, <2>3 DEF WriteBackInvariant, WorkFits, IngestFits, ReadIsCurrent, Busy
  <1>2. ASSUME NEW d \in Docs, IngestStep(d)
        PROVE  WriteBackInvariant' /\ UNCHANGED workers
    BY <1>2, IngestKeepsWriteBack, IngestEffects
  <1>3. ASSUME NEW v \in AllWorkers, WorkStep(v)
        PROVE  /\ WriteBackInvariant'
               /\ \A w \in Indexers :
                     /\ workers[w].phase = "state" /\ workers'[w].phase = "mark"
                     /\ ~reportErr[workers[w].doc]
                     => lifecycle' = lifecycle
    <2>1. CASE ClaimTask(v)
      BY <1>0, <1>3, <2>1, ClaimKeepsWriteBack DEF ClaimTask, documentVars
    <2>2. CASE ClaimRun(v)
      BY <1>0, <1>3, <2>2, ClaimRunKeepsWriteBack DEF ClaimRun, documentVars
    <2>3. CASE ~Claims(v)
      <3>1. WriteBackInvariant'
        BY <1>3, <2>3, WorkKeepsWriteBack
      <3>2. ASSUME NEW w \in Indexers, workers[w].phase = "state", workers'[w].phase = "mark",
                   ~reportErr[workers[w].doc]
            PROVE  lifecycle' = lifecycle
        <4>1. v = w
          BY <1>0, <1>3, <2>3, <3>2, WorkEffects
        <4>2. workers[w].kind = "facts"
          BY <1>0, <3>2 DEF WriteBackInvariant, WorkFits, PhaseFits, Busy
        <4>3. workers[w].lifecycle = lifecycle[workers[w].doc]
          BY <3>2, <4>2 DEF WriteBackInvariant, ReadIsCurrent, Reading
        <4>4. CASE UNCHANGED lifecycle
          BY <4>4
        <4>5. CASE RestoreLifecycle(w)
          <5>1. lifecycle' = [lifecycle EXCEPT ![workers[w].doc] = lifecycle[workers[w].doc]]
            BY <4>3, <4>5 DEF RestoreLifecycle, SetLifecycle
          <5>2. lifecycle \in [Docs -> Lifecycles]
            BY <1>0 DEF DocumentsOK
          <5> QED BY <5>1, <5>2
        <4> QED BY <1>3, <2>3, <3>2, <4>1, <4>4, <4>5, WorkEffects
      <3> QED BY <3>1, <3>2
    <2> QED BY <2>1, <2>2, <2>3 DEF Claims
  <1> QED BY <1>1, <1>2, <1>3 DEF Next, IngestStep, WorkStep

(* With one retrieval worker, and any documents, enrichment workers, parses  *)
(* and faults, update_state of a fact task undoes nothing that the ingest    *)
(* worker or the index task wrote after its read, as long as no signal or    *)
(* mark of the document returned an Err: until the fact task is through, the *)
(* ingest worker is at StepCompleted or the index task is queued behind, and *)
(* neither lets a new parse begin.                                           *)
THEOREM WriteBackIsHarmless ==
    ASSUME SingleIndexer
    PROVE  Spec => WriteBackUndoesNothing
  <1>1. Init => WriteBackInvariant
    <2> SUFFICES ASSUME Init PROVE WriteBackInvariant
      OBVIOUS
    <2>1. DOMAIN tasks = {} /\ \A w \in AllWorkers : workers[w].phase = "idle"
      BY DEF Init, IdleWorker
    <2>2. \A d \in Docs : ingest[d] = "idle" /\ queued[d] = 0 /\ execution[d] = "idle"
      BY DEF Init
    <2> QED BY <2>1, <2>2
            DEF WriteBackInvariant, WorkFits, IngestFits, LiveTasks, ReadIsCurrent, Busy, Reading, AllWorkers
  <1>2. InductiveInvariant /\ WriteBackInvariant /\ [Next]_vars => WriteBackInvariant'
    BY StepKeepsWriteBack
  <1>3. InductiveInvariant /\ WriteBackInvariant /\ [Next]_vars =>
           [\A w \in Indexers :
               /\ workers[w].phase = "state" /\ workers'[w].phase = "mark"
               /\ ~reportErr[workers[w].doc]
               => lifecycle' = lifecycle]_vars
    BY StepKeepsWriteBack
  <1> QED BY <1>1, <1>2, <1>3, FactsInvariance, PTL DEF Spec, WriteBackUndoesNothing
=============================================================================
