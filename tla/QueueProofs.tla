---------------------------- MODULE QueueProofs ----------------------------
(***************************************************************************)
(* Facts about the operators of JobRepo and Queue.                         *)
(***************************************************************************)
EXTENDS Queue, FiniteSetTheorems, SequenceTheorems, WellFoundedInduction, TLAPS

\* A function on a finite, non-empty set reaches a greatest value there: the
\* points above d, ordered by inclusion, are fewest at a greatest point.
LEMMA GreatestValue ==
    ASSUME NEW D, IsFiniteSet(D), D # {}, NEW f, \A d \in D : f[d] \in Int
    PROVE  \E d \in D : \A e \in D : f[e] <= f[d]
<1> DEFINE Above(d) == {e \in D : f[e] > f[d]}
           A == {Above(d) : d \in D}
<1>1. IsWellFoundedOn(StrictSubsetOrdering(D), FiniteSubsetsOf(D))
  BY FS_StrictSubsetOrderingWellFounded
<1>2. A # {} /\ A \subseteq FiniteSubsetsOf(D)
  <2>1. ASSUME NEW d \in D PROVE Above(d) \in FiniteSubsetsOf(D)
    <3>1. Above(d) \in SUBSET D
      OBVIOUS
    <3>2. IsFiniteSet(Above(d))
      BY <3>1, FS_Subset
    <3> QED BY <3>1, <3>2 DEF FiniteSubsetsOf
  <2> QED BY <2>1
<1>3. PICK m \in A : \A x \in A : <<x, m>> \notin StrictSubsetOrdering(D)
  <2> HIDE DEF A
  <2> QED BY <1>1, <1>2, WFMin
<1>4. PICK d \in D : m = Above(d)
  OBVIOUS
<1>5. ASSUME NEW e \in D, f[e] > f[d] PROVE FALSE
  <2>1. Above(e) \subseteq Above(d)
    BY <1>5
  <2>2. e \in Above(d) /\ e \notin Above(e)
    BY <1>5
  <2>3. <<Above(e), Above(d)>> \in StrictSubsetOrdering(D)
    <3>1. Above(e) \in SUBSET D /\ Above(d) \in SUBSET D
      OBVIOUS
    <3> HIDE DEF Above
    <3> QED BY <2>1, <2>2, <3>1 DEF StrictSubsetOrdering
  <2>4. Above(e) \in A
    OBVIOUS
  <2> QED BY <1>3, <1>4, <2>3, <2>4
<1>6. \A e \in D : f[e] <= f[d]
  BY <1>5
<1> QED BY <1>6


\* Max picks that value from the set of them.
LEMMA MaxOfPositions ==
    ASSUME NEW D, IsFiniteSet(D), D # {}, NEW f, \A d \in D : f[d] \in Int,
           NEW S, \A x : x \in S <=> \E d \in D : x = f[d]
    PROVE  Max(S) \in S /\ \A x \in S : x <= Max(S)
<1>1. PICK d \in D : \A e \in D : f[e] <= f[d]
  BY GreatestValue
<1>2. f[d] \in S /\ \A x \in S : f[d] >= x
  BY <1>1
<1>3. Max(S) \in S /\ \A x \in S : Max(S) >= x
  BY <1>2 DEF Max
<1>4. \A x \in S : x \in Int
  OBVIOUS
<1> QED BY <1>3, <1>4

\* The ids of a table are numbered from 1 and finitely many.
LEMMA IdsAreFinite ==
    ASSUME rows \in Seq(JobRecord)
    PROVE  Ids = 1 .. Len(rows) /\ IsFiniteSet(Ids)
BY FS_Interval DEF Ids

\* A row of the table is a job.
LEMMA RowsAreJobs ==
    ASSUME rows \in Seq(JobRecord), NEW id \in Ids
    PROVE  rows[id] \in JobRecord /\ rows[id].position \in Nat \ {0}
<1>1. rows[id] \in JobRecord
  BY IdsAreFinite, ElementOfSeq
<1> QED BY <1>1 DEF JobRecord

\* The next position is past every position of the queue, and no further than
\* one past the last.
LEMMA NextPositionFacts ==
    ASSUME rows \in Seq(JobRecord)
    PROVE  /\ NextPosition \in Nat \ {0}
           /\ \A id \in Queued : rows[id].position < NextPosition
           /\ \/ NextPosition = 1
              \/ \E id \in Queued : NextPosition = rows[id].position + 1
<1>1. CASE Queued = {}
  BY <1>1 DEF NextPosition
<1>2. CASE Queued # {}
  <2> DEFINE f == [id \in Queued |-> rows[id].position]
  <2>1. IsFiniteSet(Queued)
    BY IdsAreFinite, FS_Subset DEF Queued
  <2>2. \A id \in Queued : f[id] \in Nat \ {0} /\ f[id] = rows[id].position
    <3>1. \A id \in Queued : rows[id].position \in Nat \ {0}
      BY RowsAreJobs DEF Queued
    <3> QED BY <3>1
  <2> DEFINE S == {rows[id].position : id \in Queued}
  <2>3. \A x : x \in S <=> \E id \in Queued : x = f[id]
    BY <2>2
  <2>4. Max(S) \in S /\ \A x \in S : x <= Max(S)
    <3> HIDE DEF f, S
    <3> QED BY <1>2, <2>1, <2>2, <2>3, MaxOfPositions
  <2>5. NextPosition = Max(S) + 1
    BY <1>2 DEF NextPosition
  <2> HIDE DEF f, S
  <2>6. PICK last \in Queued : Max(S) = f[last]
    BY <2>3, <2>4
  <2>7. \A id \in Queued : f[id] <= Max(S)
    BY <2>3, <2>4
  <2>8. NextPosition = rows[last].position + 1
    BY <2>2, <2>5, <2>6
  <2>9. \A id \in Queued : rows[id].position <= rows[last].position
    BY <2>2, <2>6, <2>7
  <2> QED BY <2>2, <2>8, <2>9
<1> QED BY <1>1, <1>2

\* The place of an id in a list that names it is a place where it stands.
LEMMA PlaceInFacts ==
    ASSUME NEW S, NEW ids \in Seq(S), NEW id, \E i \in DOMAIN ids : ids[i] = id
    PROVE  PlaceIn(ids, id) \in 1 .. Len(ids) /\ ids[PlaceIn(ids, id)] = id
<1> DEFINE D == {i \in DOMAIN ids : ids[i] = id}
           f == [i \in D |-> i]
<1>0. DOMAIN ids = 1 .. Len(ids) /\ Len(ids) \in Nat
  OBVIOUS
<1>1. D \subseteq 1 .. Len(ids) /\ D # {} /\ IsFiniteSet(D)
  <2>1. D \subseteq 1 .. Len(ids) /\ D # {}
    BY <1>0
  <2>2. IsFiniteSet(1 .. Len(ids))
    BY <1>0, FS_Interval
  <2> HIDE DEF D
  <2> QED BY <2>1, <2>2, FS_Subset
<1>2. \A i \in D : f[i] = i /\ f[i] \in Int
  BY <1>1
<1>3. PICK i \in D : \A j \in D : f[j] <= f[i]
  <2> HIDE DEF D, f
  <2> QED BY <1>1, <1>2, GreatestValue
<1>4. i \in D /\ \A j \in D : i >= j
  BY <1>1, <1>2, <1>3
<1>5. Max(D) \in D
  <2> HIDE DEF D
  <2> QED BY <1>4 DEF Max
<1> QED BY <1>1, <1>5 DEF PlaceIn

\* What a transition does to the fields of a job.
LEMMA TransitionToFacts ==
    ASSUME NEW job \in JobRecord, NEW target \in Statuses
    PROVE  LET next == TransitionTo(job, target)
           IN  /\ next \in JobRecord
               /\ next.status = target
               /\ next.position = job.position
               /\ next.iteration = job.iteration
               /\ next.prURL = job.prURL
               /\ next.error = job.error
               /\ next.startedAt <=> job.startedAt \/ target = "running"
               /\ next.pausedAt <=> job.pausedAt \/ target = "paused"
               /\ next.completedAt <=> job.completedAt \/ target \in Terminal
BY DEF TransitionTo, JobRecord

\* UPDATE by id changes the row it names and no other.
LEMMA UpdateFacts ==
    ASSUME rows \in Seq(JobRecord), NEW id \in Ids, NEW job \in JobRecord,
           Update(id, job)
    PROVE  /\ rows' \in Seq(JobRecord)
           /\ Len(rows') = Len(rows)
           /\ Ids' = Ids
           /\ rows'[id] = job
           /\ \A other \in Ids \ {id} : rows'[other] = rows[other]
BY DEF Update, Ids

\* INSERT leaves the stored rows alone and adds one at the next position.
LEMMA CreateFacts ==
    ASSUME rows \in Seq(JobRecord), NEW job,
           [job EXCEPT !.position = NextPosition] \in JobRecord,
           Create(job)
    PROVE  /\ rows' \in Seq(JobRecord)
           /\ Len(rows') = Len(rows) + 1
           /\ Ids' = Ids \cup {Len(rows) + 1}
           /\ \A id \in Ids : rows'[id] = rows[id]
           /\ rows'[Len(rows) + 1] = [job EXCEPT !.position = NextPosition]
BY IdsAreFinite, AppendProperties DEF Create, Ids

\* A reordering touches positions only, and each is its old one or a place in
\* the list.
LEMMA UpdatePositionsFacts ==
    ASSUME rows \in Seq(JobRecord), NEW ids \in Seq(Nat), UpdatePositions(ids)
    PROVE  /\ rows' \in Seq(JobRecord)
           /\ Len(rows') = Len(rows)
           /\ Ids' = Ids
           /\ \A id \in Ids :
                 \/ rows'[id] = rows[id]
                 \/ \E p \in 1 .. Len(ids) :
                       rows'[id] = [rows[id] EXCEPT !.position = p]
<1>1. ASSUME NEW id \in Ids
      PROVE  /\ rows'[id] \in JobRecord
             /\ \/ rows'[id] = rows[id]
                \/ \E p \in 1 .. Len(ids) :
                      rows'[id] = [rows[id] EXCEPT !.position = p]
  <2>0. rows[id] \in JobRecord
    BY DEF Ids
  <2>1. CASE \E i \in DOMAIN ids : ids[i] = id
    <3>1. PlaceIn(ids, id) \in 1 .. Len(ids)
      BY <2>1, PlaceInFacts
    <3>2. rows'[id] = [rows[id] EXCEPT !.position = PlaceIn(ids, id)]
      BY <2>1 DEF UpdatePositions
    <3> DEFINE p == PlaceIn(ids, id)
    <3>3. p \in Nat \ {0}
      BY <3>1
    <3>4. [rows[id] EXCEPT !.position = p] \in JobRecord
      <4> HIDE DEF p
      <4> QED BY <2>0, <3>3 DEF JobRecord
    <3> QED BY <3>1, <3>2, <3>4
  <2>2. CASE ~ \E i \in DOMAIN ids : ids[i] = id
    BY <2>0, <2>2 DEF UpdatePositions
  <2> QED BY <2>1, <2>2
<1>2. DOMAIN rows' = 1 .. Len(rows)
  BY IdsAreFinite DEF UpdatePositions
<1>3. rows' = [id \in 1 .. Len(rows) |-> rows'[id]]
  BY IdsAreFinite DEF UpdatePositions
<1>4. rows' \in Seq(JobRecord) /\ Len(rows') = Len(rows)
  <2>1. Len(rows) \in Nat /\ \A id \in 1 .. Len(rows) : rows'[id] \in JobRecord
    BY <1>1, IdsAreFinite
  <2>2. rows' \in [1 .. Len(rows) -> JobRecord]
    BY <1>3, <2>1
  <2> QED BY <2>1, <2>2, IsASeq, SeqDef
<1> QED BY <1>1, <1>2, <1>4, IdsAreFinite DEF Ids

\* ListQueued returns a job whenever one waits, whatever the priorities and
\* positions are, the equal ones included: Dequeue is never left without a row
\* to take.
THEOREM QueueHasHead ==
    ASSUME rows \in Seq(JobRecord), Queued # {}
    PROVE  Heads # {}
<1> DEFINE f == [id \in Queued |-> 3 - Rank[rows[id].priority]]
<1>1. IsFiniteSet(Queued) /\ Queued \subseteq Ids
  BY IdsAreFinite, FS_Subset DEF Queued
<1>2. \A id \in Queued : Rank[rows[id].priority] \in 1 .. 3 /\ rows[id].position \in Nat
  <2>1. \A id \in Queued : rows[id].priority \in Priorities /\ rows[id].position \in Nat
    BY <1>1, RowsAreJobs DEF JobRecord
  <2> QED BY <2>1 DEF Priorities, Rank
<1>3. \A id \in Queued : f[id] = 3 - Rank[rows[id].priority] /\ f[id] \in Int
  BY <1>2
<1>4. PICK best \in Queued : \A id \in Queued : f[id] <= f[best]
  <2> HIDE DEF f
  <2> QED BY <1>1, <1>3, GreatestValue
<1>5. \A id \in Queued : Rank[rows[best].priority] <= Rank[rows[id].priority]
  <2> HIDE DEF f
  <2> QED BY <1>2, <1>3, <1>4
<1> DEFINE peers == {id \in Queued : rows[id].priority = rows[best].priority}
           g == [id \in peers |-> 0 - rows[id].position]
<1>6. IsFiniteSet(peers) /\ peers # {}
  BY <1>1, FS_Subset
<1>7. \A id \in peers : g[id] = 0 - rows[id].position /\ g[id] \in Int
  BY <1>2
<1>8. PICK head \in peers : \A id \in peers : g[id] <= g[head]
  <2> HIDE DEF peers, g
  <2> QED BY <1>6, <1>7, GreatestValue
<1>9. \A id \in peers : rows[head].position <= rows[id].position
  <2>1. \A id \in peers : rows[id].position \in Int
    BY <1>2
  <2> HIDE DEF peers, g
  <2> QED BY <1>7, <1>8, <2>1
<1>10. ASSUME NEW id \in Queued PROVE Precedes(rows[head], rows[id])
  <2>1. CASE id \in peers
    BY <1>9, <2>1 DEF Precedes
  <2>2. CASE id \notin peers
    <3>1. rows[id].priority # rows[best].priority
      BY <2>2
    <3>2. rows[id].priority \in Priorities /\ rows[best].priority \in Priorities
      BY <1>1, RowsAreJobs DEF JobRecord
    <3>3. Rank[rows[id].priority] # Rank[rows[best].priority]
      BY <3>1, <3>2 DEF Rank, Priorities
    <3>4. Rank[rows[best].priority] < Rank[rows[id].priority]
      BY <1>2, <1>5, <3>3
    <3> QED BY <3>4 DEF Precedes
  <2> QED BY <2>1, <2>2
<1>11. head \in Queued
  OBVIOUS
<1> QED BY <1>10, <1>11 DEF Heads

=============================================================================
