------------------------ MODULE SemanticLinksProofs ------------------------
(***************************************************************************)
(* The safety of SemanticLinks: for any number of workers and publishers   *)
(* the types, the attempt budget and that readers never lose their last    *)
(* ready link; for one worker that the ready link is unique, moves forward *)
(* and backs every run that succeeded on the current inputs.               *)
(***************************************************************************)
EXTENDS SemanticLinks, TLAPS

(* The snapshots of p are at most as new as those of q.                      *)
Precedes(p, q) == p[1] <= q[1] /\ p[2] <= q[2]

RunRecords == [status : RunStatuses, attempts : 0 .. MaxAttempts]
LinkRecords == [status : LinkStatuses, stale : BOOLEAN]
PublisherRecords == [phase : PublisherPhases, side : {1, 2},
                     own : 1 .. MaxLeft \cup 1 .. MaxRight, pair : Pairs]
WorkerRecords == [phase : WorkerPhases, pair : Pairs, replaced : SUBSET Pairs]

(* Runs and ready links are about snapshots that were published, and only a  *)
(* run with an attempt left waits for a retry.                               *)
RunsOK(table) ==
    /\ table \in [Pairs -> RunRecords]
    /\ \A pair \in Pairs : /\ table[pair].status = "retry_wait" => table[pair].attempts < MaxAttempts
                           /\ table[pair].status /= "absent" => Precedes(pair, latest)

LinksOK(table) ==
    /\ table \in [Pairs -> LinkRecords]
    /\ \A pair \in Pairs : table[pair].status = "ready" => Precedes(pair, latest)

(* A publisher enqueues, and a worker processes, published snapshots.        *)
PublisherOK(publisher) ==
    /\ publisher \in PublisherRecords
    /\ publisher.own <= latest[publisher.side]
    /\ Precedes(publisher.pair, latest)

WorkerOK(worker) == worker \in WorkerRecords /\ Precedes(worker.pair, latest)

PublishersOK == /\ publishers \in [Publishers -> PublisherRecords]
                /\ \A q \in Publishers : PublisherOK(publishers[q])
WorkersOK == /\ workers \in [Workers -> WorkerRecords]
             /\ \A w \in Workers : WorkerOK(workers[w])

InductiveInvariant ==
    /\ latest \in Pairs
    /\ RunsOK(runs)
    /\ LinksOK(links)
    /\ PublishersOK
    /\ WorkersOK

-----------------------------------------------------------------------------
(* Pairs of snapshots.                                                       *)

(* The components of a pair.                                                 *)
LEMMA PairFacts ==
    /\ FirstPair \in Pairs
    /\ \A p \in Pairs : /\ p = <<p[1], p[2]>>
                        /\ p[1] \in 1 .. MaxLeft /\ p[2] \in 1 .. MaxRight
                        /\ p[1] \in Nat /\ p[2] \in Nat
                        /\ Precedes(FirstPair, p)
    /\ \A i \in 1 .. MaxLeft, j \in 1 .. MaxRight : <<i, j>> \in Pairs
  BY LinksAssumption DEF Pairs, FirstPair, Precedes

(* Precedes is a partial order.                                              *)
LEMMA PrecedesOrder ==
    /\ \A p \in Pairs : Precedes(p, p)
    /\ \A p, q \in Pairs : Precedes(p, q) /\ Precedes(q, p) => p = q
    /\ \A p, q, r \in Pairs : Precedes(p, q) /\ Precedes(q, r) => Precedes(p, r)
  BY PairFacts DEF Precedes

(* What replacing one component of a pair gives.                             *)
LEMMA ReplacedComponent ==
    ASSUME NEW p \in Pairs, NEW n
    PROVE  [p EXCEPT ![1] = n] = <<n, p[2]>> /\ [p EXCEPT ![2] = n] = <<p[1], n>>
  BY DEF Pairs

(* Only the publication of a snapshot moves the latest pair, and forward.    *)
LEMMA PublicationMovesForward ==
    ASSUME latest \in Pairs, NEW q \in Publishers, PublishSnapshot(q)
    PROVE  /\ latest' \in Pairs
           /\ Precedes(latest, latest') /\ latest' /= latest
           /\ ~Precedes(latest', latest)
  <1>1. PICK side \in {1, 2} : latest' = [latest EXCEPT ![side] = latest[side] + 1] /\ latest' \in Pairs
    BY DEF PublishSnapshot
  <1>2. latest' = <<latest[1] + 1, latest[2]>> \/ latest' = <<latest[1], latest[2] + 1>>
    BY <1>1, ReplacedComponent
  <1> QED BY <1>1, <1>2, PairFacts DEF Precedes

-----------------------------------------------------------------------------
(* Processes and tables.                                                     *)

(* The types that the runs check follow.                                     *)
LEMMA InvariantGivesTypes == InductiveInvariant => LinksTypeOK
  BY DEF InductiveInvariant, LinksTypeOK, RunsOK, LinksOK, PublishersOK, WorkersOK,
         RunRecords, LinkRecords, PublisherRecords, WorkerRecords


(* Processes at rest.                                                        *)
LEMMA IdleFacts ==
    /\ IdlePublisher \in PublisherRecords
    /\ IdlePublisher.own = 1 /\ IdlePublisher.side = 1 /\ IdlePublisher.pair = FirstPair
    /\ IdlePublisher.phase = "idle"
    /\ IdleWorker \in WorkerRecords
    /\ IdleWorker.phase = "idle" /\ IdleWorker.pair = FirstPair /\ IdleWorker.replaced = {}
  BY PairFacts, LinksAssumption DEF IdlePublisher, IdleWorker, PublisherRecords, WorkerRecords,
     PublisherPhases, WorkerPhases

(* Starting, failing and marking links keeps their types and their ready     *)
(* rows.                                                                     *)
LEMMA LinkUpdates ==
    ASSUME links \in [Pairs -> LinkRecords], NEW pair \in Pairs
    PROVE  /\ BeginBuild(pair) \in [Pairs -> LinkRecords]
           /\ FailBuilding(pair) \in [Pairs -> LinkRecords]
           /\ MarkReadyStale \in [Pairs -> LinkRecords]
           /\ \A p \in Pairs : /\ BeginBuild(pair)[p].status = "ready" <=> links[p].status = "ready"
                               /\ FailBuilding(pair)[p].status = "ready" <=> links[p].status = "ready"
                               /\ MarkReadyStale[p].status = "ready" <=> links[p].status = "ready"
  <1>1. /\ BeginBuild(pair) \in [Pairs -> LinkRecords]
        /\ \A p \in Pairs : BeginBuild(pair)[p].status = "ready" <=> links[p].status = "ready"
    BY DEF BeginBuild, MayBegin, LinkRecords, LinkStatuses
  <1>2. /\ FailBuilding(pair) \in [Pairs -> LinkRecords]
        /\ \A p \in Pairs : FailBuilding(pair)[p].status = "ready" <=> links[p].status = "ready"
    BY DEF FailBuilding, LinkRecords, LinkStatuses
  <1>3. /\ MarkReadyStale \in [Pairs -> LinkRecords]
        /\ \A p \in Pairs : MarkReadyStale[p].status = "ready" <=> links[p].status = "ready"
    BY DEF MarkReadyStale, LinkRecords, LinkStatuses
  <1> QED BY <1>1, <1>2, <1>3

(* A publisher that goes on with published snapshots.                        *)
LEMMA PublisherStep ==
    ASSUME InductiveInvariant, latest' \in Pairs, Precedes(latest, latest'),
           NEW q \in Publishers, NEW r, PublisherOK(r)',
           publishers' = [publishers EXCEPT ![q] = r]
    PROVE  PublishersOK'
  <1>1. r \in PublisherRecords
    BY DEF PublisherOK
  <1>2. publishers' \in [Publishers -> PublisherRecords]
    BY <1>1 DEF InductiveInvariant, PublishersOK
  <1>3. ASSUME NEW p \in Publishers, p /= q PROVE PublisherOK(publishers[p])'
    <2>1. publishers'[p] = publishers[p] /\ PublisherOK(publishers[p])
      BY <1>3 DEF InductiveInvariant, PublishersOK
    <2>2. publishers[p] \in PublisherRecords
      BY DEF InductiveInvariant, PublishersOK
    <2>3. latest[publishers[p].side] <= latest'[publishers[p].side]
      BY <2>2 DEF PublisherRecords, Precedes
    <2>4. publishers[p].own <= latest'[publishers[p].side]
      BY <2>1, <2>2, <2>3, PairFacts, LinksAssumption DEF PublisherRecords, PublisherOK, InductiveInvariant
    <2>5. Precedes(publishers[p].pair, latest')
      BY <2>1, <2>2, PrecedesOrder DEF PublisherRecords, PublisherOK, InductiveInvariant
    <2> QED BY <2>1, <2>2, <2>4, <2>5 DEF PublisherOK
  <1>4. publishers'[q] = r
    BY DEF InductiveInvariant, PublishersOK
  <1> QED BY <1>2, <1>3, <1>4 DEF PublishersOK

(* A worker that goes on with published snapshots.                           *)
LEMMA WorkerStep ==
    ASSUME InductiveInvariant, latest' = latest, NEW w \in Workers, NEW r, WorkerOK(r),
           workers' = [workers EXCEPT ![w] = r]
    PROVE  WorkersOK'
  BY DEF InductiveInvariant, WorkersOK, WorkerOK

(* A process that only changes its phase, or comes to rest.                  *)
LEMMA PhaseSteps ==
    ASSUME InductiveInvariant
    PROVE  /\ PublisherOK(IdlePublisher)
           /\ WorkerOK(IdleWorker)
           /\ \A q \in Publishers, phase \in PublisherPhases :
                 PublisherOK([publishers[q] EXCEPT !.phase = phase])
           /\ \A w \in Workers, phase \in WorkerPhases :
                 WorkerOK([workers[w] EXCEPT !.phase = phase])
  <1>1. PublisherOK(IdlePublisher) /\ WorkerOK(IdleWorker)
    BY IdleFacts, PairFacts DEF PublisherOK, WorkerOK, InductiveInvariant
  <1>2. ASSUME NEW q \in Publishers, NEW phase \in PublisherPhases
        PROVE  PublisherOK([publishers[q] EXCEPT !.phase = phase])
    BY DEF InductiveInvariant, PublishersOK, PublisherOK, PublisherRecords
  <1>3. ASSUME NEW w \in Workers, NEW phase \in WorkerPhases
        PROVE  WorkerOK([workers[w] EXCEPT !.phase = phase])
    BY DEF InductiveInvariant, WorkersOK, WorkerOK, WorkerRecords
  <1> QED BY <1>1, <1>2, <1>3

(* A new row of a run whose snapshots were published.                        *)
LEMMA RunStep ==
    ASSUME InductiveInvariant, latest' = latest, NEW pair \in Pairs, Precedes(pair, latest),
           NEW r \in RunRecords, r.status = "retry_wait" => r.attempts < MaxAttempts,
           runs' = [runs EXCEPT ![pair] = r]
    PROVE  RunsOK(runs)'
  BY DEF InductiveInvariant, RunsOK

(* A run that only changes its status.                                       *)
LEMMA RunStatusStep ==
    ASSUME InductiveInvariant, latest' = latest, NEW pair \in Pairs, Precedes(pair, latest),
           NEW status \in RunStatuses,
           status = "retry_wait" => runs[pair].attempts < MaxAttempts,
           runs' = [runs EXCEPT ![pair].status = status]
    PROVE  RunsOK(runs)'
  <1> DEFINE r == [runs[pair] EXCEPT !.status = status]
  <1>1. r \in RunRecords /\ r.status = status /\ r.attempts = runs[pair].attempts
    BY DEF InductiveInvariant, RunsOK, RunRecords
  <1>2. runs' = [runs EXCEPT ![pair] = r]
    BY DEF InductiveInvariant, RunsOK
  <1> QED BY <1>1, <1>2, RunStep

(* Links none of which becomes ready.                                        *)
LEMMA LinkStep ==
    ASSUME InductiveInvariant, latest' = latest, links' \in [Pairs -> LinkRecords],
           \A p \in Pairs : links'[p].status = "ready" => links[p].status = "ready"
    PROVE  LinksOK(links)'
  BY DEF InductiveInvariant, LinksOK

(* Only an attempt that is left leads to another.                            *)
LEMMA AfterAttemptFits ==
    ASSUME NEW run \in RunRecords
    PROVE  /\ AfterAttempt(run) \in {"dead_letter", "retry_wait"}
           /\ AfterAttempt(run) = "retry_wait" => run.attempts < MaxAttempts
  BY LinksAssumption DEF AfterAttempt, RunRecords

-----------------------------------------------------------------------------
(* The publishers.                                                           *)

(* A publication moves the latest pair; what was published before stays so. *)
LEMMA PublicationKeeps ==
    ASSUME InductiveInvariant, NEW q \in Publishers, PublishSnapshot(q)
    PROVE  InductiveInvariant'
  <1>1. latest \in Pairs /\ latest' \in Pairs /\ Precedes(latest, latest')
    BY PublicationMovesForward DEF InductiveInvariant
  <1>2. UNCHANGED <<runs, links, workers>>
    BY DEF PublishSnapshot
  <1>3. \A p \in Pairs : Precedes(p, latest) => Precedes(p, latest')
    BY <1>1, PrecedesOrder
  <1>4. RunsOK(runs)' /\ LinksOK(links)' /\ WorkersOK'
    <2>1. RunsOK(runs)'
      BY <1>2, <1>3 DEF InductiveInvariant, RunsOK
    <2>2. LinksOK(links)'
      BY <1>2, <1>3 DEF InductiveInvariant, LinksOK
    <2>3. WorkersOK'
      BY <1>2, <1>3 DEF InductiveInvariant, WorkersOK, WorkerOK, WorkerRecords
    <2> QED BY <2>1, <2>2, <2>3
  <1>5. PublishersOK'
    <2>1. PICK side \in {1, 2} :
             /\ latest' = [latest EXCEPT ![side] = latest[side] + 1]
             /\ publishers' = [publishers EXCEPT ![q] =
                   [IdlePublisher EXCEPT !.phase = "enqueue", !.side = side,
                                         !.own = latest[side] + 1]]
      BY DEF PublishSnapshot
    <2>r. PICK r : r = [IdlePublisher EXCEPT !.phase = "enqueue", !.side = side,
                                             !.own = latest[side] + 1]
      OBVIOUS
    <2>3. latest'[side] = latest[side] + 1
      BY <1>1, <2>1, ReplacedComponent
    <2>4. latest[side] + 1 \in 1 .. MaxLeft \cup 1 .. MaxRight
      BY <1>1, <2>3, PairFacts
    <2>5. /\ r \in PublisherRecords
          /\ r.side = side /\ r.own = latest[side] + 1 /\ r.pair = FirstPair
      BY <2>r, <2>4, IdleFacts DEF PublisherRecords, PublisherPhases
    <2>6. PublisherOK(r)'
      BY <1>1, <2>3, <2>4, <2>5, PairFacts, LinksAssumption DEF PublisherOK
    <2> QED BY <1>1, <2>r, <2>1, <2>6, PublisherStep
  <1> QED BY <1>1, <1>4, <1>5 DEF InductiveInvariant

(* The other steps of a publisher.                                           *)
LEMMA PublishKeeps ==
    ASSUME InductiveInvariant, NEW q \in Publishers, Publish(q)
    PROVE  InductiveInvariant'
  <1> DEFINE pair == publishers[q].pair
  <1>1. /\ publishers[q] \in PublisherRecords /\ PublisherOK(publishers[q])
        /\ pair \in Pairs /\ Precedes(pair, latest) /\ latest \in Pairs
        /\ runs[pair] \in RunRecords
    BY DEF InductiveInvariant, PublishersOK, PublisherOK, PublisherRecords, RunsOK
  <1>2. links \in [Pairs -> LinkRecords] /\ Precedes(latest, latest)
    BY <1>1, PrecedesOrder DEF InductiveInvariant, LinksOK
  <1>3. ASSUME UNCHANGED <<latest, workers>>
        PROVE  WorkersOK' /\ latest' \in Pairs /\ Precedes(latest, latest')
    BY <1>1, <1>2, <1>3 DEF InductiveInvariant, WorkersOK, WorkerOK
  <1>4. ASSUME UNCHANGED <<latest, runs>> PROVE RunsOK(runs)'
    BY <1>4 DEF InductiveInvariant, RunsOK
  <1>5. ASSUME UNCHANGED <<latest, links>> PROVE LinksOK(links)'
    BY <1>5 DEF InductiveInvariant, LinksOK
  <1>6. ASSUME UNCHANGED <<latest, workers>>, NEW phase \in PublisherPhases, SetPublisher(q, phase)
        PROVE  PublishersOK'
    <2>r. PICK r : r = [publishers[q] EXCEPT !.phase = phase]
      OBVIOUS
    <2>1. publishers' = [publishers EXCEPT ![q] = r]
      BY <1>6, <2>r DEF SetPublisher, InductiveInvariant, PublishersOK
    <2>2. PublisherOK(r)'
      BY <1>6, <2>r, PhaseSteps DEF PublisherOK
    <2> QED BY <1>3, <1>6, <2>1, <2>2, PublisherStep
  <1>7. ASSUME UNCHANGED <<latest, workers>>, Return(q) PROVE PublishersOK'
    <2>1. PublisherOK(IdlePublisher)'
      BY <1>7, PhaseSteps DEF PublisherOK, IdlePublisher
    <2> QED BY <1>3, <1>7, <2>1, PublisherStep DEF Return
  <1>8. CASE MarkStale(q)
    <2>1. UNCHANGED <<latest, workers, runs>> /\ SetPublisher(q, "rebuild")
          /\ links' = MarkReadyStale
      BY <1>8 DEF MarkStale
    <2>2. LinksOK(links)'
      BY <1>1, <1>2, <2>1, LinkUpdates, LinkStep
    <2> QED BY <1>1, <1>3, <1>4, <1>6, <2>1, <2>2 DEF InductiveInvariant, PublisherPhases
  <1>9. CASE PublishSnapshot(q)
    BY <1>9, PublicationKeeps
  <1>10. CASE KeepSnapshot(q)
    <2>1. PICK side \in {1, 2} :
             publishers' = [publishers EXCEPT ![q] =
                [IdlePublisher EXCEPT !.phase = "enqueue", !.side = side, !.own = latest[side]]]
      BY <1>10 DEF KeepSnapshot
    <2>2. UNCHANGED <<latest, runs, links, workers>>
      BY <1>10 DEF KeepSnapshot
    <2>r. PICK r : r = [IdlePublisher EXCEPT !.phase = "enqueue", !.side = side, !.own = latest[side]]
      OBVIOUS
    <2>4. latest[side] \in 1 .. MaxLeft \cup 1 .. MaxRight
      BY <1>1, PairFacts
    <2>5. /\ r \in PublisherRecords
          /\ r.side = side /\ r.own = latest[side] /\ r.pair = FirstPair
      BY <2>r, <2>4, IdleFacts DEF PublisherRecords, PublisherPhases
    <2>6. PublisherOK(r)'
      BY <1>1, <2>2, <2>4, <2>5, PairFacts, LinksAssumption DEF PublisherOK
    <2>7. PublishersOK'
      BY <1>3, <2>r, <2>1, <2>2, <2>6, PublisherStep
    <2> QED BY <1>3, <1>4, <1>5, <2>2, <2>7 DEF InductiveInvariant
  <1>11. CASE ListCandidates(q)
    <2>c. PICK candidate : candidate = [latest EXCEPT ![publishers[q].side] = publishers[q].own]
      OBVIOUS
    <2>r. PICK r : r = [publishers[q] EXCEPT !.phase = "create", !.pair = candidate]
      OBVIOUS
    <2>1. UNCHANGED <<latest, runs, links, workers>> /\ publishers' = [publishers EXCEPT ![q] = r]
      BY <1>11, <2>c, <2>r DEF ListCandidates, InductiveInvariant, PublishersOK
    <2>2. publishers[q].own \in Nat /\ publishers[q].own >= 1
          /\ publishers[q].own <= latest[publishers[q].side] /\ publishers[q].side \in {1, 2}
      BY <1>1, LinksAssumption DEF PublisherRecords, PublisherOK
    <2>3. candidate \in Pairs /\ Precedes(candidate, latest)
      <3>1. CASE publishers[q].side = 1
        <4>1. candidate = <<publishers[q].own, latest[2]>>
          BY <1>1, <2>c, <3>1, ReplacedComponent
        <4> QED BY <1>1, <2>2, <3>1, <4>1, PairFacts, LinksAssumption DEF Precedes
      <3>2. CASE publishers[q].side = 2
        <4>1. candidate = <<latest[1], publishers[q].own>>
          BY <1>1, <2>c, <3>2, ReplacedComponent
        <4> QED BY <1>1, <2>2, <3>2, <4>1, PairFacts, LinksAssumption DEF Precedes
      <3> QED BY <2>2, <3>1, <3>2
    <2>4. PublisherOK(r)'
      BY <1>1, <2>r, <2>1, <2>3 DEF PublisherOK, PublisherRecords, PublisherPhases
    <2>5. PublishersOK'
      BY <1>3, <2>1, <2>4, PublisherStep
    <2> QED BY <1>3, <1>4, <1>5, <2>1, <2>5 DEF InductiveInvariant
  <1>12. CASE CreateOrGetRun(q)
    <2>1. UNCHANGED <<latest, links, workers>>
      BY <1>12 DEF CreateOrGetRun
    <2>2. RunsOK(runs)'
      <3>1. CASE runs[pair].status = "absent"
        <4>1. runs' = [runs EXCEPT ![pair].status = "pending"]
          BY <1>12, <3>1 DEF CreateOrGetRun
        <4> QED BY <1>1, <2>1, <4>1, RunStatusStep DEF RunStatuses
      <3>2. CASE runs[pair].status /= "absent"
        BY <1>4, <1>12, <2>1, <3>2 DEF CreateOrGetRun
      <3> QED BY <3>1, <3>2
    <2>3. SetPublisher(q, "begin") \/ SetPublisher(q, "revive") \/ Return(q)
      BY <1>12 DEF CreateOrGetRun
    <2> QED BY <1>3, <1>5, <1>6, <1>7, <2>1, <2>2, <2>3 DEF InductiveInvariant, PublisherPhases
  <1>13. CASE EnsureBuild(q)
    <2>1. UNCHANGED <<latest, runs, workers>> /\ Return(q) /\ links' = BeginBuild(pair)
      BY <1>13 DEF EnsureBuild
    <2>2. LinksOK(links)'
      BY <1>1, <1>2, <2>1, LinkUpdates, LinkStep
    <2> QED BY <1>3, <1>4, <1>7, <2>1, <2>2 DEF InductiveInvariant
  <1>14. CASE ReviveDeadLetterRun(q)
    <2>1. UNCHANGED <<latest, links, workers>> /\ (SetPublisher(q, "recreate") \/ Return(q))
      BY <1>14 DEF ReviveDeadLetterRun
    <2>2. RunsOK(runs)'
      <3>1. CASE runs[pair].status = "dead_letter"
        <4> DEFINE r == [status |-> "pending", attempts |-> 0]
        <4>1. runs' = [runs EXCEPT ![pair] = r]
          BY <1>14, <3>1 DEF ReviveDeadLetterRun
        <4>2. r \in RunRecords /\ r.status = "pending"
          BY LinksAssumption DEF RunRecords, RunStatuses
        <4> QED BY <1>1, <2>1, <4>1, <4>2, RunStep
      <3>2. CASE runs[pair].status /= "dead_letter"
        BY <1>4, <1>14, <2>1, <3>2 DEF ReviveDeadLetterRun
      <3> QED BY <3>1, <3>2
    <2> QED BY <1>3, <1>5, <1>6, <1>7, <2>1, <2>2 DEF InductiveInvariant, PublisherPhases
  <1>15. CASE GiveUp(q)
    <2>1. UNCHANGED <<latest, runs, links, workers>> /\ Return(q)
      BY <1>15 DEF GiveUp
    <2> QED BY <1>3, <1>4, <1>5, <1>7, <2>1 DEF InductiveInvariant
  <1> QED BY <1>8, <1>9, <1>10, <1>11, <1>12, <1>13, <1>14, <1>15 DEF Publish

-----------------------------------------------------------------------------
(* The workers.                                                              *)

(* What a worker knows of its run and its link.                              *)
LEMMA WorkerFacts ==
    ASSUME InductiveInvariant, NEW w \in Workers
    PROVE  /\ workers[w] \in WorkerRecords /\ WorkerOK(workers[w])
           /\ workers[w].pair \in Pairs /\ Precedes(workers[w].pair, latest)
           /\ runs[workers[w].pair] \in RunRecords
           /\ links \in [Pairs -> LinkRecords]
           /\ latest \in Pairs
  BY DEF InductiveInvariant, WorkersOK, WorkerOK, WorkerRecords, RunsOK, LinksOK

(* Only the phase of a worker changes, or it comes to rest.                  *)
LEMMA WorkerPhaseStep ==
    ASSUME InductiveInvariant, latest' = latest, NEW w \in Workers,
           Release(w) \/ \E phase \in WorkerPhases : SetWorker(w, phase)
    PROVE  WorkersOK'
  <1>1. CASE Release(w)
    BY <1>1, PhaseSteps, WorkerStep DEF Release
  <1>2. ASSUME NEW phase \in WorkerPhases, SetWorker(w, phase) PROVE WorkersOK'
    <2>1. PICK r : r = [workers[w] EXCEPT !.phase = phase]
      OBVIOUS
    <2>2. workers' = [workers EXCEPT ![w] = r]
      BY <1>2, <2>1 DEF SetWorker, InductiveInvariant, WorkersOK
    <2>3. WorkerOK(r)
      BY <2>1, PhaseSteps
    <2> QED BY <2>2, <2>3, WorkerStep
  <1> QED BY <1>1, <1>2

(* Tables that a step leaves alone.                                          *)
LEMMA UnchangedTables ==
    ASSUME InductiveInvariant, latest' = latest
    PROVE  /\ latest' \in Pairs
           /\ UNCHANGED runs => RunsOK(runs)'
           /\ UNCHANGED links => LinksOK(links)'
           /\ UNCHANGED publishers => PublishersOK'
           /\ UNCHANGED workers => WorkersOK'
  BY DEF InductiveInvariant, RunsOK, LinksOK, PublishersOK, PublisherOK, WorkersOK, WorkerOK

(* The claim counts an attempt.                                              *)
LEMMA ClaimKeeps ==
    ASSUME InductiveInvariant, NEW w \in Workers, ClaimReadyRun(w)
    PROVE  InductiveInvariant'
  <1>1. PICK pair \in Pairs :
           /\ runs[pair].status \in {"pending", "retry_wait"}
           /\ runs[pair].attempts < MaxAttempts
           /\ runs' = [runs EXCEPT ![pair] = [status |-> "running", attempts |-> @.attempts + 1]]
           /\ workers' = [workers EXCEPT ![w] = [IdleWorker EXCEPT !.phase = "claimed",
                                                                  !.pair = pair]]
    BY DEF ClaimReadyRun
  <1>2. UNCHANGED <<latest, links, publishers>>
    BY DEF ClaimReadyRun
  <1>3. Precedes(pair, latest) /\ runs[pair] \in RunRecords
    BY <1>1 DEF InductiveInvariant, RunsOK
  <1>4. RunsOK(runs)'
    <2>1. PICK r : r = [status |-> "running", attempts |-> runs[pair].attempts + 1]
      OBVIOUS
    <2>2. runs' = [runs EXCEPT ![pair] = r]
      BY <1>1, <2>1 DEF InductiveInvariant, RunsOK
    <2>3. r \in RunRecords /\ r.status = "running"
      BY <1>1, <1>3, <2>1, LinksAssumption DEF RunRecords, RunStatuses
    <2> QED BY <1>2, <1>3, <2>2, <2>3, RunStep
  <1>5. WorkersOK'
    <2>1. PICK r : r = [IdleWorker EXCEPT !.phase = "claimed", !.pair = pair]
      OBVIOUS
    <2>2. WorkerOK(r)
      BY <1>3, <2>1, IdleFacts DEF WorkerOK, WorkerRecords, WorkerPhases
    <2> QED BY <1>1, <1>2, <2>1, <2>2, WorkerStep
  <1> QED BY <1>2, <1>4, <1>5, UnchangedTables DEF InductiveInvariant

(* A deferral gives an attempt back.                                         *)
LEMMA DeferKeeps ==
    ASSUME InductiveInvariant, NEW w \in Workers, DeferRun(w)
    PROVE  InductiveInvariant'
  <1> DEFINE pair == workers[w].pair
  <1>1. UNCHANGED <<latest, links, publishers>> /\ Release(w)
    BY DEF DeferRun
  <1>2. RunsOK(runs)'
    <2>1. CASE runs[pair].status = "running"
      <3>1. PICK r : r = [status |-> "retry_wait",
                          attempts |-> IF runs[pair].attempts = 0 THEN 0 ELSE runs[pair].attempts - 1]
        OBVIOUS
      <3>2. runs' = [runs EXCEPT ![pair] = r]
        BY <2>1, <3>1 DEF DeferRun
      <3>3. r \in RunRecords /\ r.attempts < MaxAttempts
        BY <3>1, WorkerFacts, LinksAssumption DEF RunRecords, RunStatuses
      <3> QED BY <1>1, <3>2, <3>3, WorkerFacts, RunStep
    <2>2. CASE runs[pair].status /= "running"
      BY <1>1, <2>2, UnchangedTables DEF DeferRun
    <2> QED BY <2>1, <2>2
  <1> QED BY <1>1, <1>2, WorkerPhaseStep, UnchangedTables DEF InductiveInvariant

(* The commit makes the link of published snapshots ready.                   *)
LEMMA CommitKeeps ==
    ASSUME InductiveInvariant, NEW w \in Workers, CommitReady(w)
    PROVE  InductiveInvariant'
  <1>1. UNCHANGED <<latest, runs, publishers>>
    BY DEF CommitReady
  <1>2. LinksOK(links)'
    <2>1. ASSUME NEW pair \in Pairs
          PROVE  /\ links'[pair] \in LinkRecords
                 /\ links'[pair].status = "ready" => pair = workers[w].pair \/ links[pair].status = "ready"
      <3>1. CASE pair = workers[w].pair
        <4>1. links'[pair] = [status |-> "ready", stale |-> FALSE]
          BY <3>1 DEF CommitReady
        <4> QED BY <3>1, <4>1 DEF LinkRecords, LinkStatuses
      <3>2. CASE pair /= workers[w].pair /\ pair \in workers[w].replaced /\ links[pair].status = "ready"
        <4>1. links'[pair] = [links[pair] EXCEPT !.status = "superseded"]
          BY <3>2 DEF CommitReady
        <4> QED BY <3>2, <4>1, WorkerFacts DEF LinkRecords, LinkStatuses
      <3>3. CASE pair /= workers[w].pair /\ ~(pair \in workers[w].replaced /\ links[pair].status = "ready")
        <4>1. links'[pair] = links[pair]
          BY <3>3 DEF CommitReady
        <4> QED BY <3>3, <4>1, WorkerFacts
      <3> QED BY <3>1, <3>2, <3>3
    <2>2. links' = [pair \in Pairs |-> links'[pair]]
      BY DEF CommitReady
    <2>3. links' \in [Pairs -> LinkRecords]
      BY <2>1, <2>2
    <2> QED BY <1>1, <2>1, <2>3, WorkerFacts DEF LinksOK, InductiveInvariant
  <1>3. WorkersOK'
    <2>1. PICK phase \in {"finish", "unbuilt"} :
             workers' = [workers EXCEPT ![w] = [IdleWorker EXCEPT !.phase = phase,
                                                                !.pair = workers[w].pair]]
      BY DEF CommitReady
    <2>2. PICK r : r = [IdleWorker EXCEPT !.phase = phase, !.pair = workers[w].pair]
      OBVIOUS
    <2>3. WorkerOK(r)
      BY <2>2, WorkerFacts, IdleFacts DEF WorkerOK, WorkerRecords, WorkerPhases
    <2> QED BY <1>1, <2>1, <2>2, <2>3, WorkerStep
  <1> QED BY <1>1, <1>2, <1>3, UnchangedTables DEF InductiveInvariant

(* The lease recovery ends attempts and builds, and leaves ready links ready. *)
LEMMA RecoveryFacts ==
    ASSUME InductiveInvariant, NEW w \in Workers, RecoverStaleRuns(w)
    PROVE  /\ RunsOK(runs)'
           /\ links' \in [Pairs -> LinkRecords]
           /\ \A p \in Pairs : links'[p].status = "ready" <=> links[p].status = "ready"
           /\ \A p \in Pairs : runs'[p].status = "succeeded" <=> runs[p].status = "succeeded"
           /\ UNCHANGED <<latest, publishers, workers>>
  <1>0. UNCHANGED <<latest, publishers, workers>>
    BY DEF RecoverStaleRuns
  <1>1. PICK expired \in SUBSET Expirable :
           LET failed == {pair \in expired : links[pair].status = "building"}
           IN  /\ runs' = [pair \in Pairs |->
                             IF pair \in expired
                             THEN [runs[pair] EXCEPT !.status = AfterAttempt(runs[pair])]
                             ELSE runs[pair]]
               /\ links' = [pair \in Pairs |->
                              IF pair \in failed
                              THEN [links[pair] EXCEPT !.status = "failed"]
                              ELSE IF failed /= {} THEN MarkReadyStale[pair]
                                                   ELSE links[pair]]
    BY DEF RecoverStaleRuns
  <1> DEFINE failed == {pair \in expired : links[pair].status = "building"}
  <1>2. expired \subseteq Pairs /\ \A pair \in expired : runs[pair].status = "running"
    BY DEF Expirable
  <1>3. ASSUME NEW pair \in Pairs
        PROVE  /\ runs'[pair] \in RunRecords
               /\ runs'[pair].status = "retry_wait" => runs'[pair].attempts < MaxAttempts
               /\ runs'[pair].status /= "absent" => Precedes(pair, latest)
               /\ runs'[pair].status = "succeeded" <=> runs[pair].status = "succeeded"
    <2>1. runs[pair] \in RunRecords
      BY DEF InductiveInvariant, RunsOK
    <2>2. CASE pair \in expired
      <3>1. runs'[pair] = [runs[pair] EXCEPT !.status = AfterAttempt(runs[pair])]
        BY <1>1, <2>2
      <3>2. runs'[pair].status = AfterAttempt(runs[pair]) /\ runs'[pair].attempts = runs[pair].attempts
            /\ runs'[pair] \in RunRecords
        BY <2>1, <3>1, AfterAttemptFits DEF RunRecords, RunStatuses
      <3> QED BY <1>2, <2>1, <2>2, <3>2, AfterAttemptFits DEF InductiveInvariant, RunsOK
    <2>3. CASE pair \notin expired
      BY <1>1, <2>1, <2>3 DEF InductiveInvariant, RunsOK
    <2> QED BY <2>2, <2>3
  <1>4. ASSUME NEW pair \in Pairs
        PROVE  /\ links'[pair] \in LinkRecords
               /\ links'[pair].status = "ready" <=> links[pair].status = "ready"
    <2>1. links \in [Pairs -> LinkRecords]
      BY DEF InductiveInvariant, LinksOK
    <2>2. CASE pair \in failed
      <3>1. links'[pair] = [links[pair] EXCEPT !.status = "failed"]
        BY <1>1, <2>2
      <3> QED BY <2>1, <2>2, <3>1 DEF LinkRecords, LinkStatuses
    <2>3. CASE pair \notin failed
      <3>1. links'[pair] = MarkReadyStale[pair] \/ links'[pair] = links[pair]
        BY <1>1, <2>3
      <3> QED BY <2>1, <3>1, LinkUpdates
    <2> QED BY <2>2, <2>3
  <1>5. runs' \in [Pairs -> RunRecords]
    <2>1. runs' = [pair \in Pairs |-> runs'[pair]]
      BY <1>1
    <2> QED BY <1>3, <2>1
  <1>6. links' \in [Pairs -> LinkRecords]
    <2>1. links' = [pair \in Pairs |-> links'[pair]]
      BY <1>1
    <2> QED BY <1>4, <2>1
  <1> QED BY <1>0, <1>3, <1>4, <1>5, <1>6 DEF RunsOK

(* Every other step changes the phase of the worker, ends the attempt of its *)
(* run or begins or fails its build; none of these makes a link ready.       *)
LEMMA QuietWorkFacts ==
    ASSUME InductiveInvariant, NEW w \in Workers,
           \/ CheckInputs(w) \/ TryBeginBuild(w) \/ LoadExisting(w) \/ ReuseLink(w)
           \/ BuildLink(w) \/ MarkReady(w) \/ FinishRun(w) \/ MarkFailed(w)
           \/ RetryOrDeadLetter(w) \/ ProcessingFails(w) \/ Crash(w)
    PROVE  /\ RunsOK(runs)'
           /\ links' \in [Pairs -> LinkRecords]
           /\ \A p \in Pairs : links'[p].status = "ready" <=> links[p].status = "ready"
           /\ Release(w) \/ \E phase \in WorkerPhases : SetWorker(w, phase)
           /\ UNCHANGED <<latest, publishers>>
  <1> DEFINE pair == workers[w].pair
  <1>1. links' \in {links, BeginBuild(pair), FailBuilding(pair)}
    BY DEF CheckInputs, TryBeginBuild, LoadExisting, ReuseLink, BuildLink, MarkReady, FinishRun,
           MarkFailed, RetryOrDeadLetter, ProcessingFails, Crash
  <1>2. /\ links' \in [Pairs -> LinkRecords]
        /\ \A p \in Pairs : links'[p].status = "ready" <=> links[p].status = "ready"
    BY <1>1, WorkerFacts, LinkUpdates
  <1>3. Release(w) \/ \E phase \in WorkerPhases : SetWorker(w, phase)
    BY DEF CheckInputs, TryBeginBuild, LoadExisting, ReuseLink, BuildLink, MarkReady, FinishRun,
           MarkFailed, RetryOrDeadLetter, ProcessingFails, Crash, WorkerPhases
  <1>4. UNCHANGED <<latest, publishers>>
    BY DEF CheckInputs, TryBeginBuild, LoadExisting, ReuseLink, BuildLink, MarkReady, FinishRun,
           MarkFailed, RetryOrDeadLetter, ProcessingFails, Crash
  <1>5. runs' \in {runs, Succeeded(pair), [runs EXCEPT ![pair].status = AfterAttempt(runs[pair])]}
    BY DEF CheckInputs, TryBeginBuild, LoadExisting, ReuseLink, BuildLink, MarkReady, FinishRun,
           MarkFailed, RetryOrDeadLetter, ProcessingFails, Crash
  <1>6. RunsOK(runs)'
    <2>1. CASE runs' = runs
      BY <1>4, <2>1, UnchangedTables
    <2>2. CASE runs' = Succeeded(pair)
      BY <1>4, <2>2, WorkerFacts, RunStatusStep DEF Succeeded, RunStatuses
    <2>3. CASE runs' = [runs EXCEPT ![pair].status = AfterAttempt(runs[pair])]
      BY <1>4, <2>3, WorkerFacts, AfterAttemptFits, RunStatusStep DEF RunStatuses
    <2> QED BY <1>5, <2>1, <2>2, <2>3
  <1> QED BY <1>2, <1>3, <1>4, <1>6

(* The steps that change what the transaction of mark_ready replaces.        *)
LEMMA TransactionFacts ==
    ASSUME InductiveInvariant, NEW w \in Workers, SupersedePrevious(w) \/ BuildFails(w)
    PROVE  WorkersOK' /\ UNCHANGED <<latest, runs, links, publishers>>
  <1>1. UNCHANGED <<latest, runs, links, publishers>>
    BY DEF SupersedePrevious, BuildFails
  <1>2. PICK phase \in WorkerPhases, replaced \in SUBSET Pairs :
           workers' = [workers EXCEPT ![w] = [@ EXCEPT !.phase = phase, !.replaced = replaced]]
    <2>1. CASE SupersedePrevious(w)
      <3> DEFINE ready == {pair \in Pairs \ {workers[w].pair} : links[pair].status = "ready"}
      <3>1. workers' = [workers EXCEPT ![w] = [@ EXCEPT !.phase = "commit", !.replaced = ready]]
        BY <2>1 DEF SupersedePrevious, InductiveInvariant, WorkersOK
      <3>2. ready \in SUBSET Pairs /\ "commit" \in WorkerPhases
        BY DEF WorkerPhases
      <3> QED BY <3>1, <3>2
    <2>2. CASE BuildFails(w)
      BY <2>2 DEF BuildFails, WorkerPhases
    <2> QED BY <2>1, <2>2
  <1>3. PICK r : r = [workers[w] EXCEPT !.phase = phase, !.replaced = replaced]
    OBVIOUS
  <1>4. workers' = [workers EXCEPT ![w] = r]
    BY <1>2, <1>3 DEF InductiveInvariant, WorkersOK
  <1>5. WorkerOK(r)
    BY <1>3, WorkerFacts DEF WorkerOK, WorkerRecords
  <1> QED BY <1>1, <1>4, <1>5, WorkerStep

(* Every step of a worker.                                                   *)
LEMMA WorkKeeps ==
    ASSUME InductiveInvariant, NEW w \in Workers, Work(w)
    PROVE  InductiveInvariant'
  <1>1. CASE ClaimReadyRun(w) \/ DeferRun(w) \/ CommitReady(w)
    BY <1>1, ClaimKeeps, DeferKeeps, CommitKeeps
  <1>2. CASE RecoverStaleRuns(w)
    BY <1>2, RecoveryFacts, LinkStep, UnchangedTables DEF InductiveInvariant
  <1>3. CASE SupersedePrevious(w) \/ BuildFails(w)
    BY <1>3, TransactionFacts, UnchangedTables DEF InductiveInvariant
  <1>4. CASE \/ CheckInputs(w) \/ TryBeginBuild(w) \/ LoadExisting(w) \/ ReuseLink(w)
             \/ BuildLink(w) \/ MarkReady(w) \/ FinishRun(w) \/ MarkFailed(w)
             \/ RetryOrDeadLetter(w) \/ ProcessingFails(w) \/ Crash(w)
    BY <1>4, QuietWorkFacts, LinkStep, WorkerPhaseStep, UnchangedTables DEF InductiveInvariant
  <1> QED BY <1>1, <1>2, <1>3, <1>4 DEF Work, Process

(* Both datasets have one snapshot, and nothing was enqueued.                *)
LEMMA InitInvariant == Init => InductiveInvariant
  <1> SUFFICES ASSUME Init PROVE InductiveInvariant
    OBVIOUS
  <1>1. latest \in Pairs /\ latest = FirstPair
    BY PairFacts DEF Init
  <1>2. RunsOK(runs)
    BY LinksAssumption DEF Init, RunsOK, RunRecords, RunStatuses
  <1>3. LinksOK(links)
    BY DEF Init, LinksOK, LinkRecords, LinkStatuses
  <1>4. PublisherOK(IdlePublisher) /\ WorkerOK(IdleWorker)
    BY <1>1, IdleFacts, PairFacts, PrecedesOrder DEF PublisherOK, WorkerOK, FirstPair
  <1>5. PublishersOK
    BY <1>4, IdleFacts DEF Init, PublishersOK
  <1>6. WorkersOK
    BY <1>4, IdleFacts DEF Init, WorkersOK
  <1> QED BY <1>1, <1>2, <1>3, <1>5, <1>6 DEF InductiveInvariant

(* A step of any process, or none.                                           *)
LEMMA NextInvariant == InductiveInvariant /\ [Next]_vars => InductiveInvariant'
  <1> SUFFICES ASSUME InductiveInvariant, [Next]_vars PROVE InductiveInvariant'
    OBVIOUS
  <1>1. CASE UNCHANGED vars
    BY <1>1, UnchangedTables DEF vars, InductiveInvariant
  <1>2. CASE Next
    BY <1>2, PublishKeeps, WorkKeeps DEF Next
  <1> QED BY <1>1, <1>2

(* A committed link is ready; the links it replaces are not.                 *)
LEMMA CommitFacts ==
    ASSUME InductiveInvariant, NEW w \in Workers, CommitReady(w), NEW p \in Pairs
    PROVE  links'[p].status = "ready"
             <=> p = workers[w].pair \/ (links[p].status = "ready" /\ p \notin workers[w].replaced)
  <1>1. links \in [Pairs -> LinkRecords]
    BY DEF InductiveInvariant, LinksOK
  <1>2. CASE p = workers[w].pair
    BY <1>2 DEF CommitReady
  <1>3. CASE p /= workers[w].pair /\ p \in workers[w].replaced /\ links[p].status = "ready"
    <2>1. links'[p] = [links[p] EXCEPT !.status = "superseded"]
      BY <1>3 DEF CommitReady
    <2> QED BY <1>1, <1>3, <2>1 DEF LinkRecords
  <1>4. CASE p /= workers[w].pair /\ ~(p \in workers[w].replaced /\ links[p].status = "ready")
    <2>1. links'[p] = links[p]
      BY <1>4 DEF CommitReady
    <2> QED BY <1>4, <2>1
  <1> QED BY <1>2, <1>3, <1>4

(* No step but the commit of mark_ready changes which links are ready.       *)
LEMMA OnlyCommitsChangeReady ==
    ASSUME InductiveInvariant, [Next]_vars, \A w \in Workers : ~CommitReady(w), NEW p \in Pairs
    PROVE  links'[p].status = "ready" <=> links[p].status = "ready"
  <1>1. ASSUME NEW q \in Publishers, Publish(q)
        PROVE  links'[p].status = "ready" <=> links[p].status = "ready"
    <2>1. links \in [Pairs -> LinkRecords] /\ publishers[q].pair \in Pairs
      BY DEF InductiveInvariant, LinksOK, PublishersOK, PublisherRecords
    <2>2. links' \in {links, MarkReadyStale, BeginBuild(publishers[q].pair)}
      BY <1>1 DEF Publish, MarkStale, PublishSnapshot, KeepSnapshot, ListCandidates,
                  CreateOrGetRun, EnsureBuild, ReviveDeadLetterRun, GiveUp
    <2> QED BY <2>1, <2>2, LinkUpdates
  <1>2. ASSUME NEW w \in Workers, Work(w)
        PROVE  links'[p].status = "ready" <=> links[p].status = "ready"
    <2>1. CASE ClaimReadyRun(w) \/ DeferRun(w) \/ SupersedePrevious(w) \/ BuildFails(w)
      BY <2>1 DEF ClaimReadyRun, DeferRun, SupersedePrevious, BuildFails
    <2>2. CASE RecoverStaleRuns(w)
      BY <2>2, RecoveryFacts
    <2>3. CASE \/ CheckInputs(w) \/ TryBeginBuild(w) \/ LoadExisting(w) \/ ReuseLink(w)
               \/ BuildLink(w) \/ MarkReady(w) \/ FinishRun(w) \/ MarkFailed(w)
               \/ RetryOrDeadLetter(w) \/ ProcessingFails(w) \/ Crash(w)
      BY <2>3, QuietWorkFacts
    <2> QED BY <1>2, <2>1, <2>2, <2>3 DEF Work, Process
  <1> QED BY <1>1, <1>2 DEF Next, vars

-----------------------------------------------------------------------------
(* Any number of workers.                                                    *)

(* The inductive invariant of the two tables and their processes: runs,      *)
(* ready links, publishers and workers are about published snapshots.        *)
THEOREM LinksInvariance == Spec => []InductiveInvariant
  BY InitInvariant, NextInvariant, PTL DEF Spec

(* Rows and processes keep their types, and no claim, deferral, retry,       *)
(* revival or lease recovery exceeds the attempt budget of a run.            *)
THEOREM LinksTypeCorrect == Spec => []LinksTypeOK
  BY LinksInvariance, InvariantGivesTypes, PTL

(* No step, of whatever worker and whatever became of its lease, takes the   *)
(* last ready link from the readers: only the commit of mark_ready replaces  *)
(* one, and it makes another ready.                                          *)
THEOREM ReadyLinkIsNeverLost == Spec => ReadyLinkSurvives
  <1>1. ASSUME InductiveInvariant, [Next]_vars, ReadyLinks /= {} PROVE ReadyLinks' /= {}
    <2>1. CASE \A w \in Workers : ~CommitReady(w)
      BY <1>1, <2>1, OnlyCommitsChangeReady DEF ReadyLinks
    <2>2. ASSUME NEW w \in Workers, CommitReady(w) PROVE ReadyLinks' /= {}
      BY <1>1, <2>2, WorkerFacts, CommitFacts DEF ReadyLinks
    <2> QED BY <2>1, <2>2
  <1>2. InductiveInvariant /\ [Next]_vars => [ReadyLinks /= {} => ReadyLinks' /= {}]_vars
    BY <1>1
  <1> QED BY <1>2, LinksInvariance, PTL DEF Spec, ReadyLinkSurvives

-----------------------------------------------------------------------------
(* One worker.                                                               *)

SingleWorker == \A v, w \in Workers : v = w

(* The link of the pair is ready, or nobody needs it any more.               *)
Holds(pair) == links[pair].status = "ready" \/ pair /= latest

(* What the worker may rely on: the rows its transaction replaces are all    *)
(* the ready ones, a link it is about to make ready is at least as new as    *)
(* every ready one, and the run it is about to finish has its link.          *)
WorkerFits(w) ==
    /\ workers[w].phase = "commit" => ReadyLinks \subseteq workers[w].replaced \cup {workers[w].pair}
    /\ workers[w].phase \in {"mark", "supersede", "commit"} =>
          \A p \in ReadyLinks : Precedes(p, workers[w].pair)
    /\ workers[w].phase = "reuse" => links[workers[w].pair].status = "ready"
    /\ workers[w].phase = "finish" => Holds(workers[w].pair)

OneWorkerInvariant ==
    /\ OneReadyLink
    /\ \A w \in Workers : WorkerFits(w)
    /\ \A pair \in Pairs : runs[pair].status = "succeeded" => Holds(pair)

(* The worker's record after a change of its phase.                          *)
LEMMA WorkerRecordSteps ==
    ASSUME InductiveInvariant, NEW w \in Workers
    PROVE  /\ \A phase : SetWorker(w, phase) =>
                 /\ workers'[w].phase = phase
                 /\ workers'[w].pair = workers[w].pair
                 /\ workers'[w].replaced = workers[w].replaced
           /\ Release(w) => workers'[w].phase = "idle"
  BY IdleFacts DEF InductiveInvariant, WorkersOK, WorkerRecords, SetWorker, Release

(* A step that leaves the ready links and the latest snapshots alone, and    *)
(* finishes only runs whose link is ready or superfluous.                    *)
LEMMA SteadyStep ==
    ASSUME OneWorkerInvariant, latest' = latest,
           \A p \in Pairs : links'[p].status = "ready" <=> links[p].status = "ready",
           \A w \in Workers : WorkerFits(w)',
           \A p \in Pairs : runs'[p].status = "succeeded" => Holds(p)
    PROVE  OneWorkerInvariant'
  BY DEF OneWorkerInvariant, OneReadyLink, ReadyLinks, Holds

(* The phases in which a worker relies on nothing.                           *)
LEMMA CarefreePhase ==
    ASSUME NEW w \in Workers,
           workers'[w].phase \notin {"mark", "supersede", "commit", "reuse", "finish"}
    PROVE  WorkerFits(w)'
  BY DEF WorkerFits

(* A step that does not touch the worker.                                    *)
LEMMA UntouchedWorker ==
    ASSUME InductiveInvariant, OneWorkerInvariant, latest' = latest, workers' = workers,
           \A p \in Pairs : links'[p].status = "ready" <=> links[p].status = "ready",
           NEW w \in Workers
    PROVE  WorkerFits(w)'
  <1>1. ReadyLinks' = ReadyLinks
    BY DEF ReadyLinks
  <1>2. workers[w].pair \in Pairs
    BY WorkerFacts
  <1> QED BY <1>1, <1>2 DEF OneWorkerInvariant, WorkerFits, Holds

(* The publishers finish no run; a snapshot they publish is newer than those *)
(* of every run, so the runs that succeeded are no longer the current ones.  *)
LEMMA PublishKeepsOne ==
    ASSUME InductiveInvariant, OneWorkerInvariant, NEW q \in Publishers, Publish(q)
    PROVE  OneWorkerInvariant'
  <1>0. workers' = workers
    BY DEF Publish, MarkStale, PublishSnapshot, KeepSnapshot, ListCandidates,
           CreateOrGetRun, EnsureBuild, ReviveDeadLetterRun, GiveUp
  <1>1. CASE PublishSnapshot(q)
    <2>1. UNCHANGED <<runs, links, workers>>
      BY <1>1 DEF PublishSnapshot
    <2>2. \A p \in Pairs : Precedes(p, latest) => p /= latest'
      BY <1>1, PublicationMovesForward DEF InductiveInvariant
    <2>3. ASSUME NEW w \in Workers PROVE WorkerFits(w)'
      <3>1. workers[w].pair /= latest'
        BY <2>2, WorkerFacts
      <3> QED BY <2>1, <3>1 DEF OneWorkerInvariant, WorkerFits, Holds, ReadyLinks
    <2>4. ASSUME NEW p \in Pairs, runs'[p].status = "succeeded" PROVE Holds(p)'
      BY <2>1, <2>2, <2>4 DEF Holds, InductiveInvariant, RunsOK
    <2> QED BY <2>1, <2>3, <2>4 DEF OneWorkerInvariant, OneReadyLink, ReadyLinks
  <1>2. CASE ~PublishSnapshot(q)
    <2>1. latest' = latest
      BY <1>2 DEF Publish, MarkStale, PublishSnapshot, KeepSnapshot, ListCandidates,
                  CreateOrGetRun, EnsureBuild, ReviveDeadLetterRun, GiveUp
    <2>2. links \in [Pairs -> LinkRecords] /\ publishers[q].pair \in Pairs
          /\ runs \in [Pairs -> RunRecords]
      BY DEF InductiveInvariant, LinksOK, PublishersOK, PublisherRecords, RunsOK
    <2>3. links' \in {links, MarkReadyStale, BeginBuild(publishers[q].pair)}
      BY DEF Publish, MarkStale, PublishSnapshot, KeepSnapshot, ListCandidates,
             CreateOrGetRun, EnsureBuild, ReviveDeadLetterRun, GiveUp
    <2>4. \A p \in Pairs : links'[p].status = "ready" <=> links[p].status = "ready"
      BY <2>2, <2>3, LinkUpdates
    <2>5. runs' \in {runs, [runs EXCEPT ![publishers[q].pair].status = "pending"],
                     [runs EXCEPT ![publishers[q].pair] = [status |-> "pending", attempts |-> 0]]}
      BY DEF Publish, MarkStale, PublishSnapshot, KeepSnapshot, ListCandidates,
             CreateOrGetRun, EnsureBuild, ReviveDeadLetterRun, GiveUp
    <2>6. \A p \in Pairs : runs'[p].status = "succeeded" => runs[p].status = "succeeded"
      BY <2>2, <2>5 DEF RunRecords
    <2> QED BY <1>0, <2>1, <2>4, <2>6, UntouchedWorker, SteadyStep DEF OneWorkerInvariant
  <1> QED BY <1>1, <1>2

(* The commit leaves one ready link, as new as any it replaces.              *)
LEMMA CommitKeepsOne ==
    ASSUME SingleWorker, InductiveInvariant, OneWorkerInvariant,
           NEW w \in Workers, CommitReady(w)
    PROVE  /\ OneWorkerInvariant'
           /\ ReadyLinks' = {workers[w].pair}
           /\ \A p \in ReadyLinks : Precedes(p, workers[w].pair)
  <1> DEFINE pair == workers[w].pair
  <1>1. pair \in Pairs /\ latest \in Pairs /\ Precedes(pair, latest) /\ UNCHANGED <<latest, runs>>
    BY WorkerFacts DEF CommitReady
  <1>2. /\ ReadyLinks \subseteq workers[w].replaced \cup {pair}
        /\ \A p \in ReadyLinks : Precedes(p, pair)
    BY DEF OneWorkerInvariant, WorkerFits, CommitReady
  <1>3. ReadyLinks' = {pair}
    BY <1>1, <1>2, CommitFacts DEF ReadyLinks
  <1>4. links'[pair].status = "ready"
    BY <1>1, CommitFacts
  <1>5. WorkerFits(w)'
    <2>1. PICK phase \in {"finish", "unbuilt"} :
             workers' = [workers EXCEPT ![w] = [IdleWorker EXCEPT !.phase = phase, !.pair = pair]]
      BY DEF CommitReady
    <2>2. workers'[w].phase \in {"finish", "unbuilt"} /\ workers'[w].pair = pair
      BY <2>1, IdleFacts DEF InductiveInvariant, WorkersOK, WorkerRecords
    <2> QED BY <1>4, <2>2 DEF WorkerFits, Holds
  <1>6. ASSUME NEW p \in Pairs, runs'[p].status = "succeeded" PROVE Holds(p)'
    <2>1. CASE p = latest
      <3>1. links[p].status = "ready"
        BY <1>1, <1>6, <2>1 DEF OneWorkerInvariant, Holds
      <3>2. p = pair
        BY <1>1, <1>2, <2>1, <3>1, PrecedesOrder DEF ReadyLinks
      <3> QED BY <1>4, <3>2 DEF Holds
    <2> QED BY <1>1, <2>1 DEF Holds
  <1> QED BY <1>2, <1>3, <1>5, <1>6 DEF OneWorkerInvariant, OneReadyLink, SingleWorker

(* Every other step of the worker.                                           *)
LEMMA WorkKeepsOne ==
    ASSUME SingleWorker, InductiveInvariant, OneWorkerInvariant,
           NEW w \in Workers, Work(w), ~CommitReady(w)
    PROVE  OneWorkerInvariant'
  <1> DEFINE pair == workers[w].pair
  <1>1. \A v \in Workers : v = w
    BY DEF SingleWorker
  <1>2. \A p \in Pairs : links'[p].status = "ready" <=> links[p].status = "ready"
    <2>1. \A v \in Workers : ~CommitReady(v)
      BY <1>1
    <2> QED BY <2>1, OnlyCommitsChangeReady DEF Next
  <1>3. latest' = latest
    BY DEF Work, Process, ClaimReadyRun, DeferRun, CheckInputs, TryBeginBuild, LoadExisting,
           ReuseLink, BuildLink, MarkReady, SupersedePrevious, CommitReady, FinishRun, MarkFailed,
           RetryOrDeadLetter, ProcessingFails, BuildFails, RecoverStaleRuns, Crash
  <1>4. ReadyLinks' = ReadyLinks /\ pair \in Pairs /\ latest \in Pairs
    BY <1>2, WorkerFacts DEF ReadyLinks
  <1>5. /\ runs \in [Pairs -> RunRecords] /\ WorkerFits(w)
        /\ \A p \in Pairs : runs[p].status = "succeeded" => Holds(p)
    BY DEF InductiveInvariant, RunsOK, OneWorkerInvariant
  <1>6. ASSUME WorkerFits(w)', \A p \in Pairs : runs'[p].status = "succeeded" => Holds(p)
        PROVE  OneWorkerInvariant'
    BY <1>1, <1>2, <1>3, <1>6, SteadyStep
  <1>7. ASSUME runs' = Succeeded(pair), Holds(pair)
        PROVE  \A p \in Pairs : runs'[p].status = "succeeded" => Holds(p)
    BY <1>4, <1>5, <1>7 DEF Succeeded, RunRecords
  <1>8. CASE ClaimReadyRun(w)
    <2>1. PICK p \in Pairs :
             /\ runs' = [runs EXCEPT ![p] = [status |-> "running", attempts |-> @.attempts + 1]]
             /\ workers' = [workers EXCEPT ![w] = [IdleWorker EXCEPT !.phase = "claimed", !.pair = p]]
      BY <1>8 DEF ClaimReadyRun
    <2>2. workers'[w].phase = "claimed"
      BY <2>1, IdleFacts DEF InductiveInvariant, WorkersOK, WorkerRecords
    <2>3. \A r \in Pairs : runs'[r].status = "succeeded" => runs[r].status = "succeeded"
      BY <1>5, <2>1
    <2> QED BY <1>5, <1>6, <2>2, <2>3, CarefreePhase
  <1>9. CASE DeferRun(w)
    <2>1. \A r \in Pairs : runs'[r].status = "succeeded" => runs[r].status = "succeeded"
      BY <1>4, <1>5, <1>9 DEF DeferRun
    <2> QED BY <1>5, <1>6, <1>9, <2>1, WorkerRecordSteps, CarefreePhase DEF DeferRun
  <1>10. CASE CheckInputs(w)
    <2>1. CASE UNCHANGED runs
      BY <1>5, <1>6, <1>10, <2>1, WorkerRecordSteps, CarefreePhase DEF CheckInputs
    <2>2. CASE runs' = Succeeded(pair) /\ pair /= latest /\ Release(w)
      BY <1>6, <1>7, <2>2, WorkerRecordSteps, CarefreePhase DEF Holds
    <2> QED BY <1>10, <2>1, <2>2 DEF CheckInputs, InputsAreCurrent
  <1>11. CASE TryBeginBuild(w) \/ MarkFailed(w) \/ ProcessingFails(w) \/ Crash(w)
    <2>1. UNCHANGED runs /\ workers'[w].phase \in {"build", "load", "failed", "idle"}
      BY <1>11, WorkerRecordSteps DEF TryBeginBuild, MarkFailed, ProcessingFails, Crash
    <2> QED BY <1>5, <1>6, <2>1, CarefreePhase
  <1>12. CASE LoadExisting(w)
    <2>1. UNCHANGED runs
      BY <1>12 DEF LoadExisting
    <2>2. WorkerFits(w)'
      <3>1. CASE links[pair].status = "ready"
        <4>1. SetWorker(w, "reuse")
          BY <1>12, <3>1 DEF LoadExisting
        <4> QED BY <1>2, <1>4, <3>1, <4>1, WorkerRecordSteps DEF WorkerFits
      <3>2. CASE links[pair].status /= "ready"
        <4>1. SetWorker(w, "build") \/ SetWorker(w, "failed")
          BY <1>12, <3>2 DEF LoadExisting
        <4> QED BY <4>1, WorkerRecordSteps, CarefreePhase
      <3> QED BY <3>1, <3>2
    <2> QED BY <1>5, <1>6, <2>1, <2>2
  <1>13. CASE ReuseLink(w)
    <2>1. Holds(pair) /\ Release(w) /\ runs' \in {runs, Succeeded(pair)}
      BY <1>5, <1>13 DEF ReuseLink, WorkerFits, Holds
    <2> QED BY <1>5, <1>6, <1>7, <2>1, WorkerRecordSteps, CarefreePhase
  <1>14. CASE BuildLink(w)
    <2>1. UNCHANGED runs
      BY <1>14 DEF BuildLink
    <2>2. WorkerFits(w)'
      <3>1. CASE pair = latest /\ SetWorker(w, "mark")
        <4>1. \A p \in ReadyLinks : Precedes(p, pair)
          BY <3>1 DEF ReadyLinks, InductiveInvariant, LinksOK
        <4> QED BY <1>4, <3>1, <4>1, WorkerRecordSteps DEF WorkerFits
      <3>2. CASE pair /= latest /\ (SetWorker(w, "finish") \/ SetWorker(w, "unbuilt"))
        BY <1>3, <3>2, WorkerRecordSteps DEF WorkerFits, Holds
      <3> QED BY <1>14, <3>1, <3>2 DEF BuildLink, InputsAreCurrent
    <2> QED BY <1>5, <1>6, <2>1, <2>2
  <1>15. CASE MarkReady(w)
    <2>1. UNCHANGED runs /\ workers[w].phase = "mark"
          /\ (SetWorker(w, "supersede") \/ SetWorker(w, "unbuilt"))
      BY <1>15 DEF MarkReady
    <2>2. WorkerFits(w)'
      BY <1>4, <1>5, <2>1, WorkerRecordSteps DEF WorkerFits
    <2> QED BY <1>5, <1>6, <2>1, <2>2
  <1>16. CASE SupersedePrevious(w)
    <2> DEFINE ready == {p \in Pairs \ {pair} : links[p].status = "ready"}
    <2>1. UNCHANGED runs /\ workers[w].phase = "supersede"
          /\ workers' = [workers EXCEPT ![w] = [@ EXCEPT !.phase = "commit", !.replaced = ready]]
      BY <1>16 DEF SupersedePrevious, InductiveInvariant, WorkersOK
    <2>2. workers'[w].phase = "commit" /\ workers'[w].pair = pair /\ workers'[w].replaced = ready
      BY <2>1 DEF InductiveInvariant, WorkersOK, WorkerRecords
    <2>3. ReadyLinks \subseteq ready \cup {pair}
      BY DEF ReadyLinks
    <2>4. WorkerFits(w)'
      BY <1>4, <1>5, <2>1, <2>2, <2>3 DEF WorkerFits
    <2> QED BY <1>5, <1>6, <2>1, <2>4
  <1>17. CASE FinishRun(w)
    <2>1. CASE runs[pair].status = "running"
      BY <1>5, <1>6, <1>7, <1>17, <2>1, WorkerRecordSteps, CarefreePhase DEF FinishRun, WorkerFits
    <2>2. CASE runs[pair].status /= "running"
      BY <1>5, <1>6, <1>17, <2>2, WorkerRecordSteps, CarefreePhase DEF FinishRun
    <2> QED BY <2>1, <2>2
  <1>18. CASE RetryOrDeadLetter(w)
    <2>1. runs' \in {runs, [runs EXCEPT ![pair].status = AfterAttempt(runs[pair])]} /\ Release(w)
      BY <1>18 DEF RetryOrDeadLetter
    <2>2. \A r \in Pairs : runs'[r].status = "succeeded" => runs[r].status = "succeeded"
      BY <1>4, <1>5, <2>1, AfterAttemptFits DEF RunRecords
    <2> QED BY <1>5, <1>6, <2>1, <2>2, WorkerRecordSteps, CarefreePhase
  <1>19. CASE BuildFails(w)
    <2>1. UNCHANGED runs
          /\ workers' = [workers EXCEPT ![w] = [@ EXCEPT !.phase = "unbuilt", !.replaced = {}]]
      BY <1>19 DEF BuildFails
    <2>2. workers'[w].phase = "unbuilt"
      BY <2>1 DEF InductiveInvariant, WorkersOK, WorkerRecords
    <2> QED BY <1>5, <1>6, <2>1, <2>2, CarefreePhase
  <1>20. CASE RecoverStaleRuns(w)
    BY <1>2, <1>3, <1>5, <1>6, <1>20, RecoveryFacts, UntouchedWorker
  <1> QED BY <1>8, <1>9, <1>10, <1>11, <1>12, <1>13, <1>14, <1>15, <1>16, <1>17, <1>18, <1>19,
             <1>20 DEF Work, Process

(* The inductive invariant of one worker.                                    *)
THEOREM OneWorkerInvariance ==
    ASSUME SingleWorker
    PROVE  Spec => []OneWorkerInvariant
  <1>1. Init => OneWorkerInvariant
    BY IdleFacts DEF Init, OneWorkerInvariant, OneReadyLink, ReadyLinks, WorkerFits, Holds
  <1>2. InductiveInvariant /\ OneWorkerInvariant /\ [Next]_vars => OneWorkerInvariant'
    <2> SUFFICES ASSUME InductiveInvariant, OneWorkerInvariant, [Next]_vars
                 PROVE  OneWorkerInvariant'
      OBVIOUS
    <2>1. CASE UNCHANGED vars
      BY <2>1 DEF vars, OneWorkerInvariant, OneReadyLink, ReadyLinks, WorkerFits, Holds
    <2>2. CASE Next
      BY <2>2, PublishKeepsOne, CommitKeepsOne, WorkKeepsOne DEF Next
    <2> QED BY <2>1, <2>2
  <1> QED BY <1>1, <1>2, LinksInvariance, PTL DEF Spec

(* With one worker the two datasets have at most one ready link, whatever    *)
(* fails, dies or expires and however many publishers enqueue.               *)
THEOREM ReadyLinkIsUnique ==
    ASSUME SingleWorker
    PROVE  Spec => []OneReadyLink
  <1>1. OneWorkerInvariant => OneReadyLink
    BY DEF OneWorkerInvariant
  <1> QED BY <1>1, OneWorkerInvariance, PTL

(* With one worker a run that succeeded on the current inputs has its link:  *)
(* the worker finishes a run only after its commit, on a ready link it found *)
(* or because newer snapshots were published.                                *)
THEOREM SuccessMeansReady ==
    ASSUME SingleWorker
    PROVE  Spec => []SucceededHasReadyLink
  <1>1. InductiveInvariant /\ OneWorkerInvariant => SucceededHasReadyLink
    BY DEF InductiveInvariant, OneWorkerInvariant, SucceededHasReadyLink, Holds
  <1> QED BY <1>1, OneWorkerInvariance, LinksInvariance, PTL

(* With one worker a link that becomes ready is at least as new as every     *)
(* ready one: a worker that lost its lease, or was overtaken by a            *)
(* publication, does not put older inputs in front of the readers.           *)
THEOREM ReadyLinkMovesForward ==
    ASSUME SingleWorker
    PROVE  Spec => ReadyMovesForward
  <1> DEFINE Forward == \A p \in ReadyLinks' \ ReadyLinks : \A q \in ReadyLinks :
                           p[1] >= q[1] /\ p[2] >= q[2]
  <1>1. ASSUME InductiveInvariant, OneWorkerInvariant, [Next]_vars PROVE Forward
    <2>1. CASE \A w \in Workers : ~CommitReady(w)
      BY <1>1, <2>1, OnlyCommitsChangeReady DEF ReadyLinks
    <2>2. ASSUME NEW w \in Workers, CommitReady(w) PROVE Forward
      <3>1. /\ ReadyLinks' = {workers[w].pair} /\ workers[w].pair \in Pairs
            /\ \A q \in ReadyLinks : Precedes(q, workers[w].pair)
        BY <1>1, <2>2, CommitKeepsOne, WorkerFacts
      <3>2. ReadyLinks \subseteq Pairs
        BY DEF ReadyLinks
      <3> QED BY <3>1, <3>2, PairFacts DEF Precedes
    <2> QED BY <2>1, <2>2
  <1>2. InductiveInvariant /\ OneWorkerInvariant /\ [Next]_vars => [Forward]_vars
    BY <1>1
  <1> QED BY <1>2, LinksInvariance, OneWorkerInvariance, PTL DEF Spec, ReadyMovesForward
=============================================================================
