---------------------- MODULE SemanticSnapshotsProofs ----------------------
(***************************************************************************)
(* The safety of SemanticSnapshots for every finite set of fingerprints    *)
(* and every finite set of rebuilds that overlap, fail and stop halfway,   *)
(* whether or not the sources revert.                                      *)
(***************************************************************************)
EXTENDS SemanticSnapshots, FiniteSetTheorems, TLAPS

Row == [status : RowStatuses, generated_at : Nat]
Builder == [phase : BuilderPhases, generated_at : Nat, fingerprint : Fingerprints]

(* What load_latest_ready returns when the table is rows.                    *)
ReadyIn(rows) == {f \in Fingerprints : rows[f].status = "ready"}

LatestIn(rows) ==
    IF ReadyIn(rows) = {} THEN None
    ELSE CHOOSE f \in ReadyIn(rows) :
            \A g \in ReadyIn(rows) : rows[g].generated_at <= rows[f].generated_at

(* f is later than every other ready row.                                    *)
IsLatest(f, rows) ==
    /\ f \in ReadyIn(rows)
    /\ \A g \in ReadyIn(rows) \ {f} : rows[g].generated_at < rows[f].generated_at

Active(b) == builders[b].phase /= "idle"

(* No two timestamps that are compared now or later are equal.               *)
DistinctTimes ==
    /\ \A f, g \in Ready : f /= g => snapshots[f].generated_at /= snapshots[g].generated_at
    /\ \A f \in Ready, b \in Builders :
          Active(b) => snapshots[f].generated_at /= builders[b].generated_at
    /\ \A b, c \in Builders :
          b /= c /\ Active(b) /\ Active(c) =>
              builders[b].generated_at /= builders[c].generated_at

(* There is always a latest ready row, since there was one at first.         *)
HasLatest == \E f \in Fingerprints : IsLatest(f, snapshots)

InductiveInvariant ==
    /\ SnapshotsTypeOK
    /\ BuildsAreExclusive
    /\ DistinctTimes
    /\ HasLatest

-----------------------------------------------------------------------------
(* The latest row.                                                           *)

(* The CHOOSE of load_latest_ready finds the row that is later than others.  *)
LEMMA LatestIsChosen ==
    ASSUME NEW rows \in [Fingerprints -> Row], NEW f, IsLatest(f, rows)
    PROVE  LatestIn(rows) = f
  <1> DEFINE P(x) == \A g \in ReadyIn(rows) : rows[g].generated_at <= rows[x].generated_at
  <1>1. \A g \in ReadyIn(rows) : rows[g].generated_at \in Nat
    BY DEF ReadyIn, Row
  <1>2. f \in ReadyIn(rows) /\ P(f)
    BY <1>1 DEF IsLatest
  <1>3. \A x \in ReadyIn(rows) : P(x) => x = f
    BY <1>1, <1>2 DEF IsLatest
  <1>4. (CHOOSE x \in ReadyIn(rows) : P(x)) = f
    <2> HIDE DEF P
    <2> QED BY <1>2, <1>3
  <1> QED BY <1>2, <1>4 DEF LatestIn

(* The module's operators are those of the table as it is ...                *)
LEMMA LatestReadyIs == LatestReady = LatestIn(snapshots) /\ Ready = ReadyIn(snapshots)
  BY DEF LatestReady, LatestIn, Ready, ReadyIn

(* ... and of the table as it becomes.                                       *)
LEMMA LatestReadyNextIs ==
    LatestReady' = LatestIn(snapshots') /\ Ready' = ReadyIn(snapshots')
  BY DEF LatestReady, LatestIn, Ready, ReadyIn

(* The table has the same ready rows in the same order as before.            *)
SameOrder(new, old) ==
    /\ ReadyIn(new) = ReadyIn(old)
    /\ \A f, g \in ReadyIn(old) :
          old[f].generated_at < old[g].generated_at =>
              new[f].generated_at < new[g].generated_at

(* Such a table has the same latest row.                                     *)
LEMMA SameOrderSameLatest ==
    ASSUME NEW old \in [Fingerprints -> Row], NEW new \in [Fingerprints -> Row],
           SameOrder(new, old), NEW f, IsLatest(f, old)
    PROVE  IsLatest(f, new) /\ LatestIn(new) = LatestIn(old)
  <1>1. IsLatest(f, new)
    BY DEF IsLatest, SameOrder
  <1> QED BY <1>1, LatestIsChosen

-----------------------------------------------------------------------------
(* Timestamps.                                                               *)

(* The timestamps in use are finitely many natural numbers.                  *)
LEMMA TimestampsFinite ==
    ASSUME SnapshotsTypeOK
    PROVE  IsFiniteSet(Timestamps) /\ Timestamps \subseteq Nat
  <1> DEFINE R == {snapshots[f].generated_at : f \in Fingerprints}
             r == [f \in Fingerprints |-> snapshots[f].generated_at]
             B == {builders[b].generated_at : b \in Builders}
             h == [b \in Builders |-> builders[b].generated_at]
  <1>1. IsFiniteSet(R)
    <2>1. r \in Surjection(Fingerprints, R)
      BY DEF Surjection
    <2> QED BY <2>1, FS_Surjection, SnapshotsAssumption
  <1>2. IsFiniteSet(B)
    <2>1. h \in Surjection(Builders, B)
      BY DEF Surjection
    <2> QED BY <2>1, FS_Surjection, SnapshotsAssumption
  <1>3. IsFiniteSet((R \cup B) \cup {0})
    BY <1>1, <1>2, FS_Union, FS_AddElement
  <1>4. Timestamps = (R \cup B) \cup {0}
    BY DEF Timestamps
  <1>5. R \subseteq Nat /\ B \subseteq Nat
    BY DEF SnapshotsTypeOK
  <1> QED BY <1>3, <1>4, <1>5

(* Renumbering keeps the order, and the number drawn is above all others.    *)
LEMMA RenumberedInOrder ==
    ASSUME SnapshotsTypeOK
    PROVE  /\ Cardinality(Timestamps) \in Nat
           /\ \A t \in Timestamps : /\ Renumbered(t) \in Nat
                                    /\ Renumbered(t) < Cardinality(Timestamps)
           /\ \A t, u \in Timestamps : t < u => Renumbered(t) < Renumbered(u)
  <1> DEFINE Below(t) == {u \in Timestamps : u < t}
  <1>1. IsFiniteSet(Timestamps) /\ Timestamps \subseteq Nat
    BY TimestampsFinite
  <1>2. Cardinality(Timestamps) \in Nat
    BY <1>1, FS_CardinalityType
  <1>3. ASSUME NEW t \in Timestamps
        PROVE  /\ IsFiniteSet(Below(t))
               /\ Renumbered(t) = Cardinality(Below(t))
               /\ Renumbered(t) \in Nat
               /\ Renumbered(t) < Cardinality(Timestamps)
    <2>1. Below(t) \in SUBSET Timestamps /\ Below(t) /= Timestamps
      BY <1>1
    <2>2. /\ IsFiniteSet(Below(t))
          /\ Cardinality(Below(t)) <= Cardinality(Timestamps)
          /\ Cardinality(Timestamps) /= Cardinality(Below(t))
      <3> HIDE DEF Below
      <3> QED BY <1>1, <2>1, FS_Subset
    <2>3. Cardinality(Below(t)) \in Nat
      BY <2>2, FS_CardinalityType
    <2>4. Renumbered(t) = Cardinality(Below(t))
      BY DEF Renumbered
    <2> HIDE DEF Below
    <2> QED BY <1>2, <2>2, <2>3, <2>4
  <1>4. ASSUME NEW t \in Timestamps, NEW u \in Timestamps, t < u
        PROVE  Renumbered(t) < Renumbered(u)
    <2>0. t \in Below(u) /\ t \notin Below(t)
      BY <1>1, <1>4
    <2>1. Below(t) \in SUBSET Below(u) /\ Below(t) /= Below(u)
      <3>1. \A x \in Below(t) : x \in Below(u)
        BY <1>1, <1>4
      <3> HIDE DEF Below
      <3> QED BY <2>0, <3>1
    <2>2. /\ Cardinality(Below(t)) <= Cardinality(Below(u))
          /\ Cardinality(Below(u)) /= Cardinality(Below(t))
      <3>1. IsFiniteSet(Below(u))
        BY <1>3
      <3> HIDE DEF Below
      <3> QED BY <2>1, <3>1, FS_Subset
    <2>3. /\ Renumbered(t) = Cardinality(Below(t)) /\ Renumbered(t) \in Nat
          /\ Renumbered(u) = Cardinality(Below(u)) /\ Renumbered(u) \in Nat
      BY <1>3
    <2> HIDE DEF Below
    <2> QED BY <2>2, <2>3
  <1> QED BY <1>2, <1>3, <1>4

-----------------------------------------------------------------------------
(* The steps.                                                                *)

(* At first the row of the first sources is the latest.                      *)
LEMMA InitOK == Init => InductiveInvariant
  <1> SUFFICES ASSUME Init PROVE InductiveInvariant
    OBVIOUS
  <1>1. SnapshotsTypeOK
    BY SnapshotsAssumption
       DEF Init, SnapshotsTypeOK, RowStatuses, BuilderPhases, IdleBuilder, AbsentRow
  <1>2. BuildsAreExclusive
    BY DEF Init, BuildsAreExclusive, IdleBuilder
  <1>3. ReadyIn(snapshots) = {FirstSource}
    BY SnapshotsAssumption DEF Init, ReadyIn, AbsentRow
  <1>4. DistinctTimes
    BY <1>3, LatestReadyIs DEF Init, DistinctTimes, Active, IdleBuilder
  <1>5. HasLatest
    BY <1>3, SnapshotsAssumption DEF HasLatest, IsLatest
  <1> QED BY <1>1, <1>2, <1>4, <1>5 DEF InductiveInvariant

(* A step that keeps the rows keeps the invariant when each rebuild is idle  *)
(* afterwards or goes on with the generated_at it has, to a gate no sooner   *)
(* than before.                                                              *)
LEMMA QuietStep ==
    ASSUME InductiveInvariant, SnapshotsTypeOK', snapshots' = snapshots,
           \A b \in Builders :
              Active(b)' => /\ Active(b)
                            /\ builders'[b].generated_at = builders[b].generated_at,
           \A b \in Builders : builders'[b].phase = "gate" => builders'[b] = builders[b]
    PROVE  InductiveInvariant'
  <1>1. BuildsAreExclusive'
    BY DEF InductiveInvariant, BuildsAreExclusive
  <1>2. DistinctTimes'
    BY DEF InductiveInvariant, DistinctTimes, Ready
  <1>3. HasLatest'
    BY DEF InductiveInvariant, HasLatest, IsLatest, ReadyIn
  <1> QED BY <1>1, <1>2, <1>3 DEF InductiveInvariant

(* A change of the sources touches no row.                                   *)
LEMMA ChangeOK ==
    ASSUME InductiveInvariant, ChangeSource
    PROVE  InductiveInvariant' /\ snapshots' = snapshots
  <1>1. SnapshotsTypeOK'
    BY SnapshotsAssumption DEF InductiveInvariant, SnapshotsTypeOK, ChangeSource
  <1> QED BY <1>1, QuietStep DEF ChangeSource, Active

(* So do the steps of a rebuild that do not touch the rows.                  *)
LEMMA QuietRebuildOK ==
    ASSUME InductiveInvariant, NEW b \in Builders,
           \/ Preview(b)
           \/ CompareLatest(b)
           \/ TryBeginBuild(b) /\ ~MayBegin(snapshots[builders[b].fingerprint])
           \/ Abort(b)
    PROVE  InductiveInvariant' /\ snapshots' = snapshots
  <1>0. SnapshotsTypeOK /\ IdleBuilder \in Builder
    BY SnapshotsAssumption DEF InductiveInvariant, IdleBuilder, Builder, BuilderPhases
  <1>1. /\ snapshots' = snapshots
        /\ source' = source
        /\ changes' = changes
        /\ failures' \in 0 .. MaxFailures
    BY <1>0, SnapshotsAssumption
       DEF SnapshotsTypeOK, Preview, CompareLatest, TryBeginBuild, Abort
  <1>2. PICK new \in Builder :
            /\ builders' = [builders EXCEPT ![b] = new]
            /\ new.phase \in {"idle", "compare", "begin"}
            /\ new.phase /= "idle" => /\ builders[b].phase /= "idle"
                                      /\ new.generated_at = builders[b].generated_at
    <2>1. CASE builders' = [builders EXCEPT ![b] = IdleBuilder]
      BY <1>0, <2>1 DEF IdleBuilder
    <2>2. CASE Preview(b)
      <3> DEFINE new == [builders[b] EXCEPT !.phase = "compare", !.fingerprint = source]
      <3>1. new \in Builder /\ new.phase = "compare"
            /\ new.generated_at = builders[b].generated_at
        BY <1>0 DEF SnapshotsTypeOK, Builder, BuilderPhases
      <3>2. builders' = [builders EXCEPT ![b] = new] /\ builders[b].phase /= "idle"
        BY <1>0, <2>2 DEF Preview, SnapshotsTypeOK
      <3> HIDE DEF new
      <3> QED BY <3>1, <3>2
    <2>3. CASE CompareLatest(b) /\ LatestReady /= builders[b].fingerprint
      <3> DEFINE new == [builders[b] EXCEPT !.phase = "begin"]
      <3>1. new \in Builder /\ new.phase = "begin"
            /\ new.generated_at = builders[b].generated_at
        BY <1>0 DEF SnapshotsTypeOK, Builder, BuilderPhases
      <3>2. builders' = [builders EXCEPT ![b] = new] /\ builders[b].phase /= "idle"
        BY <1>0, <2>3 DEF CompareLatest, SnapshotsTypeOK
      <3> HIDE DEF new
      <3> QED BY <3>1, <3>2
    <2> QED BY <2>1, <2>2, <2>3 DEF CompareLatest, TryBeginBuild, Abort, Finish
  <1>3. SnapshotsTypeOK'
    BY <1>0, <1>1, <1>2 DEF SnapshotsTypeOK, Builder
  <1>4. \A c \in Builders :
            /\ Active(c)' => Active(c) /\ builders'[c].generated_at = builders[c].generated_at
            /\ builders'[c].phase = "gate" => builders'[c] = builders[c]
    BY <1>0, <1>2 DEF SnapshotsTypeOK, Active
  <1> QED BY <1>1, <1>3, <1>4, QuietStep

(* A rebuild draws its generated_at: later than all others, whose order is   *)
(* kept.                                                                     *)
LEMMA StartOK ==
    ASSUME InductiveInvariant, NEW b \in Builders, StartRebuild(b)
    PROVE  InductiveInvariant' /\ SameOrder(snapshots', snapshots)
  <1>0. SnapshotsTypeOK
    BY DEF InductiveInvariant
  <1> DEFINE T == Timestamps
             r == [t \in T |-> Renumbered(t)]
             C == Cardinality(Timestamps)
  <1>1. /\ C \in Nat
        /\ \A t \in T : r[t] \in Nat /\ r[t] < C
        /\ \A t, u \in T : t < u => r[t] < r[u]
    BY <1>0, RenumberedInOrder
  <1>2. /\ \A f \in Fingerprints : snapshots[f].generated_at \in T
        /\ \A c \in Builders : builders[c].generated_at \in T
        /\ T \subseteq Nat
    BY <1>0, TimestampsFinite DEF Timestamps
  <1>3. /\ \A f \in Fingerprints :
              snapshots'[f] = [snapshots[f] EXCEPT !.generated_at = r[snapshots[f].generated_at]]
        /\ \A c \in Builders \ {b} :
              builders'[c] = [builders[c] EXCEPT !.generated_at = r[builders[c].generated_at]]
        /\ builders'[b] = [phase |-> "preview", generated_at |-> C, fingerprint |-> FirstSource]
        /\ snapshots' = [f \in Fingerprints |-> snapshots'[f]]
        /\ builders' = [c \in Builders |-> builders'[c]]
        /\ UNCHANGED <<source, changes, failures>>
    BY <1>2 DEF StartRebuild, IdleBuilder
  <1> HIDE DEF T, r, C
  <1>4a. ASSUME NEW f \in Fingerprints
         PROVE  /\ snapshots'[f] \in Row
                /\ snapshots'[f].status = snapshots[f].status
                /\ snapshots'[f].generated_at = r[snapshots[f].generated_at]
    <2>1. snapshots[f] \in Row /\ r[snapshots[f].generated_at] \in Nat
      BY <1>0, <1>1, <1>2 DEF SnapshotsTypeOK, Row
    <2> QED BY <1>3, <2>1 DEF Row
  <1>4b. ASSUME NEW c \in Builders \ {b}
         PROVE  /\ builders'[c].phase = builders[c].phase
                /\ builders'[c].fingerprint = builders[c].fingerprint
                /\ builders'[c].generated_at = r[builders[c].generated_at]
                /\ builders'[c] \in Builder
    <2>1. builders[c] \in Builder /\ r[builders[c].generated_at] \in Nat
      BY <1>0, <1>1, <1>2 DEF SnapshotsTypeOK, Builder
    <2> QED BY <1>3, <2>1 DEF Builder
  <1>4c. /\ builders'[b].phase = "preview"
         /\ builders'[b].generated_at = C
         /\ builders'[b] \in Builder
    BY <1>1, <1>3, SnapshotsAssumption DEF Builder, BuilderPhases
  <1>5. SnapshotsTypeOK'
    <2>1. snapshots' \in [Fingerprints -> Row]
      BY <1>3, <1>4a
    <2>2. builders' \in [Builders -> Builder]
      BY <1>3, <1>4b, <1>4c
    <2> QED BY <1>0, <1>3, <2>1, <2>2 DEF SnapshotsTypeOK, Row, Builder
  <1>6. BuildsAreExclusive'
    BY <1>0, <1>4a, <1>4b, <1>4c DEF InductiveInvariant, BuildsAreExclusive, SnapshotsTypeOK
  <1>7. ReadyIn(snapshots') = ReadyIn(snapshots)
    BY <1>4a DEF ReadyIn
  <1>8. \A t, u \in T : t /= u => r[t] /= r[u]
    <2> SUFFICES ASSUME NEW t \in T, NEW u \in T, t /= u PROVE r[t] /= r[u]
      OBVIOUS
    <2>1. t < u \/ u < t
      BY <1>2
    <2> QED BY <1>1, <2>1
  <1>9. DistinctTimes'
    <2> SUFFICES
          /\ \A f, g \in ReadyIn(snapshots) :
                f /= g => snapshots'[f].generated_at /= snapshots'[g].generated_at
          /\ \A f \in ReadyIn(snapshots), c \in Builders :
                Active(c)' => snapshots'[f].generated_at /= builders'[c].generated_at
          /\ \A c, d \in Builders :
                c /= d /\ Active(c)' /\ Active(d)' =>
                    builders'[c].generated_at /= builders'[d].generated_at
      BY <1>7, LatestReadyNextIs DEF DistinctTimes
    <2>1. ReadyIn(snapshots) = Ready /\ ReadyIn(snapshots) \subseteq Fingerprints
      BY LatestReadyIs DEF ReadyIn
    <2>2. \A c \in Builders \ {b} : Active(c)' <=> Active(c)
      BY <1>4b DEF Active
    <2>3. \A t \in T : r[t] /= C
      BY <1>1
    <2>4. ASSUME NEW f \in ReadyIn(snapshots), NEW g \in ReadyIn(snapshots), f /= g
          PROVE  snapshots'[f].generated_at /= snapshots'[g].generated_at
      <3>1. snapshots[f].generated_at /= snapshots[g].generated_at
        BY <2>1, <2>4 DEF InductiveInvariant, DistinctTimes
      <3> QED BY <1>2, <1>4a, <1>8, <2>1, <3>1
    <2>5. ASSUME NEW f \in ReadyIn(snapshots), NEW c \in Builders, Active(c)'
          PROVE  snapshots'[f].generated_at /= builders'[c].generated_at
      <3>1. c /= b => snapshots[f].generated_at /= builders[c].generated_at
        BY <2>1, <2>2, <2>5 DEF InductiveInvariant, DistinctTimes
      <3>2. /\ snapshots[f].generated_at \in T
            /\ snapshots'[f].generated_at = r[snapshots[f].generated_at]
        BY <1>2, <1>4a, <2>1
      <3>3. CASE c = b
        BY <1>4c, <2>3, <3>2, <3>3
      <3>4. CASE c /= b
        BY <1>2, <1>4b, <1>8, <3>1, <3>2, <3>4
      <3> QED BY <3>3, <3>4
    <2>6. ASSUME NEW c \in Builders, NEW d \in Builders, c /= d, Active(c)', Active(d)'
          PROVE  builders'[c].generated_at /= builders'[d].generated_at
      <3>1. c /= b /\ d /= b => builders[c].generated_at /= builders[d].generated_at
        BY <2>2, <2>6 DEF InductiveInvariant, DistinctTimes
      <3> QED BY <1>2, <1>4b, <1>4c, <1>8, <2>3, <2>6, <3>1
    <2> QED BY <2>4, <2>5, <2>6
  <1>10. SameOrder(snapshots', snapshots)
    <2> SUFFICES ASSUME NEW f \in ReadyIn(snapshots), NEW g \in ReadyIn(snapshots),
                        snapshots[f].generated_at < snapshots[g].generated_at
                 PROVE  snapshots'[f].generated_at < snapshots'[g].generated_at
      BY <1>7 DEF SameOrder
    <2>1. f \in Fingerprints /\ g \in Fingerprints
      BY DEF ReadyIn
    <2> QED BY <1>1, <1>2, <1>4a, <2>1
  <1>11. HasLatest'
    <2>1. PICK f \in Fingerprints : IsLatest(f, snapshots)
      BY DEF InductiveInvariant, HasLatest
    <2>2. snapshots \in [Fingerprints -> Row] /\ snapshots' \in [Fingerprints -> Row]
      BY <1>0, <1>5 DEF SnapshotsTypeOK, Row
    <2>3. IsLatest(f, snapshots')
      BY <1>10, <2>1, <2>2, SameOrderSameLatest
    <2> QED BY <2>3 DEF HasLatest, IsLatest, ReadyIn
  <1> QED BY <1>5, <1>6, <1>9, <1>10, <1>11 DEF InductiveInvariant

(* A rebuild takes the row of its fingerprint, which is not a ready one.     *)
LEMMA BeginOK ==
    ASSUME InductiveInvariant, NEW b \in Builders, TryBeginBuild(b),
           MayBegin(snapshots[builders[b].fingerprint])
    PROVE  InductiveInvariant' /\ SameOrder(snapshots', snapshots)
  <1> DEFINE fp == builders[b].fingerprint
             row == [status |-> "building", generated_at |-> 0]
             new == [builders[b] EXCEPT !.phase = "gate"]
  <1>0. SnapshotsTypeOK /\ BuildsAreExclusive /\ DistinctTimes
    BY DEF InductiveInvariant
  <1>1. /\ snapshots' = [snapshots EXCEPT ![fp] = row]
        /\ builders' = [builders EXCEPT ![b] = new]
        /\ builders[b].phase = "begin"
        /\ snapshots[fp].status \in {"absent", "failed"}
        /\ UNCHANGED <<source, changes, failures>>
    BY <1>0 DEF TryBeginBuild, MayBegin, SnapshotsTypeOK
  <1>2. /\ new \in Builder /\ new.phase = "gate" /\ new.fingerprint = fp
        /\ new.generated_at = builders[b].generated_at
        /\ row \in Row /\ row.status = "building"
        /\ fp \in Fingerprints
    BY <1>0 DEF SnapshotsTypeOK, Builder, BuilderPhases, Row, RowStatuses
  <1> HIDE DEF fp, row, new
  <1>3. SnapshotsTypeOK'
    BY <1>0, <1>1, <1>2 DEF SnapshotsTypeOK, Row, Builder
  <1>4. \A f \in Fingerprints : f /= fp => snapshots'[f] = snapshots[f]
    BY <1>0, <1>1 DEF SnapshotsTypeOK
  <1>5. snapshots'[fp] = row /\ builders'[b] = new
        /\ \A c \in Builders \ {b} : builders'[c] = builders[c]
    BY <1>0, <1>1, <1>2 DEF SnapshotsTypeOK
  <1>6. ReadyIn(snapshots') = ReadyIn(snapshots) /\ fp \notin ReadyIn(snapshots)
    BY <1>1, <1>2, <1>4, <1>5 DEF ReadyIn
  <1>7. \A f \in ReadyIn(snapshots) : snapshots'[f] = snapshots[f]
    BY <1>4, <1>6 DEF ReadyIn
  <1>8. SameOrder(snapshots', snapshots)
    BY <1>6, <1>7 DEF SameOrder
  <1>9. BuildsAreExclusive'
    <2>1. \A c \in Builders \ {b} :
             builders[c].phase = "gate" => builders[c].fingerprint /= fp
      BY <1>0, <1>1 DEF BuildsAreExclusive
    <2>2. \A c \in Builders : builders[c].fingerprint \in Fingerprints
      BY <1>0 DEF SnapshotsTypeOK
    <2> QED BY <1>0, <1>2, <1>4, <1>5, <2>1, <2>2 DEF BuildsAreExclusive
  <1>10. DistinctTimes'
    <2>1. \A c \in Builders : /\ Active(c)' => Active(c)
                              /\ builders'[c].generated_at = builders[c].generated_at
      BY <1>1, <1>2, <1>5 DEF Active
    <2>2. Ready' = Ready /\ \A f \in Ready : snapshots'[f] = snapshots[f]
      BY <1>6, <1>7, LatestReadyIs, LatestReadyNextIs
    <2> QED BY <1>0, <2>1, <2>2 DEF DistinctTimes
  <1>11. HasLatest'
    <2>1. PICK f \in Fingerprints : IsLatest(f, snapshots)
      BY DEF InductiveInvariant, HasLatest
    <2>2. IsLatest(f, snapshots')
      BY <1>6, <1>7, <2>1 DEF IsLatest
    <2> QED BY <2>2 DEF HasLatest
  <1> QED BY <1>3, <1>8, <1>9, <1>10, <1>11 DEF InductiveInvariant

(* A build ends on the row that is still building for it: as a failed row,   *)
(* which leaves the ready rows alone, or as a ready one.                     *)
LEMMA EndOK ==
    ASSUME InductiveInvariant, NEW b \in Builders,
           NEW status \in {"ready", "failed"}, NEW generated_at \in Nat,
           status = "ready" => generated_at = builders[b].generated_at,
           EndBuild(b, status, generated_at)
    PROVE  /\ SnapshotsTypeOK' /\ BuildsAreExclusive' /\ DistinctTimes'
           /\ \A f \in ReadyIn(snapshots) :
                 f \in ReadyIn(snapshots') /\ snapshots'[f] = snapshots[f]
           /\ ReadyIn(snapshots') \subseteq
                 ReadyIn(snapshots) \cup
                    (IF status = "ready" THEN {builders[b].fingerprint} ELSE {})
           /\ status = "ready" =>
                 /\ builders[b].fingerprint \in ReadyIn(snapshots')
                 /\ builders[b].fingerprint \notin ReadyIn(snapshots)
                 /\ snapshots'[builders[b].fingerprint].generated_at = builders[b].generated_at
  <1> DEFINE fp == builders[b].fingerprint
             row == [status |-> status, generated_at |-> generated_at]
  <1>0. SnapshotsTypeOK /\ BuildsAreExclusive /\ DistinctTimes
    BY DEF InductiveInvariant
  <1>1. /\ snapshots[fp].status = "building"
        /\ snapshots' = [snapshots EXCEPT ![fp] = row]
        /\ builders' = [builders EXCEPT ![b] = IdleBuilder]
        /\ builders[b].phase = "gate"
        /\ UNCHANGED <<source, changes, failures>>
    BY <1>0 DEF EndBuild, Finish, BuildsAreExclusive
  <1>2. /\ row \in Row /\ row.status = status /\ row.generated_at = generated_at
        /\ IdleBuilder \in Builder /\ IdleBuilder.phase = "idle"
        /\ fp \in Fingerprints
    BY <1>0, SnapshotsAssumption
       DEF SnapshotsTypeOK, Row, RowStatuses, Builder, BuilderPhases, IdleBuilder
  <1> HIDE DEF row
  <1>3. SnapshotsTypeOK'
    <2> HIDE DEF fp
    <2> QED BY <1>0, <1>1, <1>2 DEF SnapshotsTypeOK, Row, Builder
  <1>4. /\ snapshots'[fp] = row /\ builders'[b] = IdleBuilder
        /\ \A f \in Fingerprints : f /= fp => snapshots'[f] = snapshots[f]
        /\ \A c \in Builders \ {b} : builders'[c] = builders[c]
    <2> HIDE DEF fp
    <2> QED BY <1>0, <1>1, <1>2 DEF SnapshotsTypeOK
  <1>5. fp \notin ReadyIn(snapshots)
    BY <1>1 DEF ReadyIn
  <1>6. \A f \in ReadyIn(snapshots) :
            f \in ReadyIn(snapshots') /\ snapshots'[f] = snapshots[f]
    BY <1>4, <1>5 DEF ReadyIn
  <1>7. ReadyIn(snapshots') \subseteq
            ReadyIn(snapshots) \cup (IF status = "ready" THEN {fp} ELSE {})
    <2> HIDE DEF fp
    <2> QED BY <1>2, <1>4 DEF ReadyIn
  <1>8. status = "ready" => /\ fp \in ReadyIn(snapshots')
                            /\ snapshots'[fp].generated_at = builders[b].generated_at
    BY <1>2, <1>4 DEF ReadyIn
  <1>9. BuildsAreExclusive'
    <2>1. \A c \in Builders \ {b} :
             builders[c].phase = "gate" => builders[c].fingerprint /= fp
      BY <1>0, <1>1 DEF BuildsAreExclusive
    <2>2. \A c \in Builders : builders[c].fingerprint \in Fingerprints
      BY <1>0 DEF SnapshotsTypeOK
    <2> HIDE DEF fp
    <2> QED BY <1>0, <1>2, <1>4, <2>1, <2>2 DEF BuildsAreExclusive
  <1>10. DistinctTimes'
    <2>1. \A c \in Builders : Active(c)' => /\ c /= b
                                            /\ Active(c)
                                            /\ builders'[c] = builders[c]
      BY <1>2, <1>4 DEF Active
    <2>2. Active(b)
      BY <1>1 DEF Active
    <2>3. Ready' \subseteq Ready \cup (IF status = "ready" THEN {fp} ELSE {})
          /\ \A f \in Ready : snapshots'[f] = snapshots[f]
      BY <1>6, <1>7, LatestReadyIs, LatestReadyNextIs
    <2>4. ASSUME NEW f \in Ready', NEW g \in Ready', f /= g
          PROVE  snapshots'[f].generated_at /= snapshots'[g].generated_at
      BY <1>0, <1>8, <2>2, <2>3, <2>4 DEF DistinctTimes
    <2>5. ASSUME NEW f \in Ready', NEW c \in Builders, Active(c)'
          PROVE  snapshots'[f].generated_at /= builders'[c].generated_at
      BY <1>0, <1>8, <2>1, <2>2, <2>3, <2>5 DEF DistinctTimes
    <2> QED BY <1>0, <2>1, <2>4, <2>5 DEF DistinctTimes
  <1> QED BY <1>3, <1>5, <1>6, <1>7, <1>8, <1>9, <1>10

(* A failed build leaves the ready rows and their order alone.               *)
LEMMA MarkFailedOK ==
    ASSUME InductiveInvariant, NEW b \in Builders, MarkFailed(b)
    PROVE  InductiveInvariant' /\ SameOrder(snapshots', snapshots)
  <1>1. /\ SnapshotsTypeOK' /\ BuildsAreExclusive' /\ DistinctTimes'
        /\ ReadyIn(snapshots') = ReadyIn(snapshots)
        /\ \A f \in ReadyIn(snapshots) : snapshots'[f] = snapshots[f]
    BY EndOK DEF MarkFailed
  <1>2. SameOrder(snapshots', snapshots)
    BY <1>1 DEF SameOrder
  <1>3. HasLatest'
    BY <1>1 DEF InductiveInvariant, HasLatest, IsLatest
  <1> QED BY <1>1, <1>2, <1>3 DEF InductiveInvariant

(* A row that becomes ready becomes the latest one, later than the one       *)
(* before it, or it leaves the latest one in its place.                      *)
Forward ==
    LatestReady' /= LatestReady =>
        /\ LatestReady' /= None
        /\ snapshots'[LatestReady].status = "ready"
        /\ snapshots'[LatestReady].generated_at < snapshots'[LatestReady'].generated_at

(* mark_ready moves the latest ready row forward or leaves it.               *)
LEMMA MarkReadyOK ==
    ASSUME InductiveInvariant, NEW b \in Builders, MarkReady(b)
    PROVE  InductiveInvariant' /\ Forward
  <1> DEFINE fp == builders[b].fingerprint
  <1>0. SnapshotsTypeOK /\ builders[b].generated_at \in Nat
    BY DEF InductiveInvariant, SnapshotsTypeOK
  <1>1. /\ SnapshotsTypeOK' /\ BuildsAreExclusive' /\ DistinctTimes'
        /\ \A f \in ReadyIn(snapshots) :
               f \in ReadyIn(snapshots') /\ snapshots'[f] = snapshots[f]
        /\ ReadyIn(snapshots') \subseteq ReadyIn(snapshots) \cup {fp}
        /\ fp \in ReadyIn(snapshots') /\ fp \notin ReadyIn(snapshots)
    BY <1>0, EndOK DEF MarkReady
  <1> HIDE DEF fp
  <1>2. PICK f \in Fingerprints : IsLatest(f, snapshots)
    BY DEF InductiveInvariant, HasLatest
  <1>3. snapshots \in [Fingerprints -> Row] /\ snapshots' \in [Fingerprints -> Row]
    BY <1>0, <1>1 DEF SnapshotsTypeOK, Row
  <1>4. LatestReady = f
    BY <1>2, <1>3, LatestIsChosen, LatestReadyIs
  <1>5. /\ f \in ReadyIn(snapshots) /\ f /= fp
        /\ f \in ReadyIn(snapshots')
        /\ snapshots'[f].status = "ready"
    BY <1>1, <1>2 DEF IsLatest, ReadyIn
  <1>6. /\ fp \in Fingerprints /\ fp /= None
        /\ \A g \in ReadyIn(snapshots') : snapshots'[g].generated_at \in Nat
    BY <1>1, <1>3, SnapshotsAssumption DEF ReadyIn, None, Row
  <1>7. snapshots'[f].generated_at /= snapshots'[fp].generated_at
    BY <1>1, <1>5, LatestReadyNextIs DEF DistinctTimes
  <1>8. \A g \in ReadyIn(snapshots') \ {f, fp} :
            snapshots'[g].generated_at < snapshots'[f].generated_at
    BY <1>1, <1>2, <1>5 DEF IsLatest
  <1>9. CASE snapshots'[fp].generated_at < snapshots'[f].generated_at
    <2>1. IsLatest(f, snapshots')
      BY <1>5, <1>8, <1>9 DEF IsLatest
    <2>2. LatestReady' = f
      BY <1>3, <2>1, LatestIsChosen, LatestReadyNextIs
    <2> QED BY <1>1, <1>4, <2>1, <2>2 DEF InductiveInvariant, HasLatest, Forward
  <1>10. CASE snapshots'[f].generated_at < snapshots'[fp].generated_at
    <2>1. IsLatest(fp, snapshots')
      BY <1>1, <1>5, <1>6, <1>8, <1>10 DEF IsLatest
    <2>2. LatestReady' = fp
      BY <1>3, <2>1, LatestIsChosen, LatestReadyNextIs
    <2> QED BY <1>1, <1>4, <1>5, <1>6, <1>10, <2>1, <2>2
            DEF InductiveInvariant, HasLatest, Forward
  <1> QED BY <1>5, <1>6, <1>7, <1>9, <1>10, <1>1

(* A step that keeps the order of the ready rows keeps the latest one.       *)
LEMMA SameOrderForward ==
    ASSUME InductiveInvariant, InductiveInvariant', SameOrder(snapshots', snapshots)
    PROVE  Forward
  <1>1. PICK f \in Fingerprints : IsLatest(f, snapshots)
    BY DEF InductiveInvariant, HasLatest
  <1>2. snapshots \in [Fingerprints -> Row] /\ snapshots' \in [Fingerprints -> Row]
    BY DEF InductiveInvariant, SnapshotsTypeOK, Row
  <1>3. LatestReady' = LatestReady
    BY <1>1, <1>2, SameOrderSameLatest, LatestReadyIs, LatestReadyNextIs
  <1> QED BY <1>3 DEF Forward

(* Every step keeps the invariant and moves the latest row forward, if at    *)
(* all.                                                                      *)
LEMMA NextOK ==
    ASSUME InductiveInvariant, [Next]_vars
    PROVE  InductiveInvariant' /\ Forward
  <1>1. CASE UNCHANGED vars
    <2>1. InductiveInvariant'
      BY <1>1 DEF vars, InductiveInvariant, SnapshotsTypeOK, BuildsAreExclusive, DistinctTimes,
                  HasLatest, IsLatest, ReadyIn, Ready, Active
    <2> QED BY <1>1, <2>1, LatestReadyIs, LatestReadyNextIs DEF vars, Forward
  <1>2. CASE ChangeSource
    <2>1. InductiveInvariant' /\ SameOrder(snapshots', snapshots)
      BY <1>2, ChangeOK DEF SameOrder
    <2> QED BY <2>1, SameOrderForward
  <1>3. ASSUME NEW b \in Builders, Rebuild(b) \/ Abort(b)
        PROVE  InductiveInvariant' /\ Forward
    <2>1. CASE StartRebuild(b)
      BY <2>1, StartOK, SameOrderForward
    <2>2. CASE \/ Preview(b)
               \/ CompareLatest(b)
               \/ TryBeginBuild(b) /\ ~MayBegin(snapshots[builders[b].fingerprint])
               \/ Abort(b)
      <3>1. InductiveInvariant' /\ SameOrder(snapshots', snapshots)
        BY <2>2, QuietRebuildOK DEF SameOrder
      <3> QED BY <3>1, SameOrderForward
    <2>3. CASE TryBeginBuild(b) /\ MayBegin(snapshots[builders[b].fingerprint])
      BY <2>3, BeginOK, SameOrderForward
    <2>4. CASE MarkReady(b)
      BY <2>4, MarkReadyOK
    <2>5. CASE MarkFailed(b)
      BY <2>5, MarkFailedOK, SameOrderForward
    <2> QED BY <1>3, <2>1, <2>2, <2>3, <2>4, <2>5 DEF Rebuild
  <1> QED BY <1>1, <1>2, <1>3 DEF Next

-----------------------------------------------------------------------------
(* The theorems                                                              *)

(* The invariant holds in every state of every behaviour; in particular the  *)
(* rows and the rebuilds keep their types.                                   *)
THEOREM SnapshotsInvariance == Spec => [](InductiveInvariant /\ SnapshotsTypeOK)
  <1>1. InductiveInvariant => SnapshotsTypeOK
    BY DEF InductiveInvariant
  <1> QED BY <1>1, InitOK, NextOK, PTL DEF Spec

(* However many rebuilds of a dataset overlap, no two work on one row of     *)
(* dataset_semantic_snapshots, and a build ends on a row that is its own.    *)
THEOREM ExclusiveBuilds == Spec => []BuildsAreExclusive
  <1>1. InductiveInvariant => BuildsAreExclusive
    BY DEF InductiveInvariant
  <1> QED BY <1>1, SnapshotsInvariance, PTL

(* No rebuild, whenever it took its generated_at, replaces the latest ready  *)
(* snapshot by an older one or by none.                                      *)
THEOREM LatestNeverGoesBack == Spec => LatestMovesForward
  <1>1. InductiveInvariant /\ [Next]_vars =>
          [LatestReady /= None /\ LatestReady' /= LatestReady =>
              /\ LatestReady' /= None
              /\ snapshots'[LatestReady].status = "ready"
              /\ snapshots'[LatestReady].generated_at
                    < snapshots'[LatestReady'].generated_at]_vars
    BY NextOK DEF Forward
  <1> QED BY <1>1, SnapshotsInvariance, PTL DEF Spec, LatestMovesForward
=============================================================================
