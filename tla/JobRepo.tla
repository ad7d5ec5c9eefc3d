------------------------------ MODULE JobRepo ------------------------------
(***************************************************************************)
(* The jobs table and the statements internal/db/jobs.go runs on it.  The  *)
(* id column is AUTOINCREMENT and no caller deletes a job, so the table is *)
(* a sequence and an id is an index into it.  Every operator is one SQL    *)
(* statement, or one transaction, and so one atomic change of the table.   *)
(***************************************************************************)
EXTENDS Job, Sequences, FiniteSets, FiniteSetsExt

VARIABLE rows       \* the jobs table

Ids == DOMAIN rows

Queued == {id \in Ids : rows[id].status = "queued"}

\* A mutant of NextPosition: numbered from zero.
PositionFromZero ==
    IF Queued = {} THEN 0 ELSE Max({rows[id].position : id \in Queued}) + 1

\* A mutant of NextPosition: the number of queued jobs, not the last position.
PositionByCount == Cardinality(Queued) + 1

\* One more than the last position of the queue.  Jobs that have left the
\* queue keep theirs and do not count.
NextPosition ==
    IF Queued = {} THEN 1 ELSE Max({rows[id].position : id \in Queued}) + 1

Create(job) == rows' = Append(rows, [job EXCEPT !.position = NextPosition])

\* SELECT ... WHERE id = ?: the whole row, into a job of the caller's own.
Get(id) == rows[id]

\* A mutant of Update: the status column alone.
UpdateStatus(id, job) == rows' = [rows EXCEPT ![id].status = job.status]

\* UPDATE ... WHERE id = ?: all the columns of the row at once.
Update(id, job) == rows' = [rows EXCEPT ![id] = job]

\* The rank ORDER BY gives a priority.
Rank == [high |-> 1, normal |-> 2, low |-> 3]

\* A mutant of Precedes: priorities are ignored.
PrecedesByPosition(job, other) == job.position <= other.position

Precedes(job, other) ==
    \/ Rank[job.priority] < Rank[other.priority]
    \/ /\ job.priority = other.priority
       /\ job.position <= other.position

\* The ids ListQueued may return first: SQL leaves the order of rows that
\* agree on priority and position open.
Heads == {id \in Queued : \A other \in Queued : Precedes(rows[id], rows[other])}

\* Where an id stands in a list of ids; the last UPDATE of a repeated id wins.
PlaceIn(ids, id) == Max({i \in DOMAIN ids : ids[i] = id})

\* Positions are numbered along the list.  The rows it leaves out keep theirs,
\* the ids that name no row are ignored, and no row's status is looked at.
UpdatePositions(ids) ==
    rows' = [id \in Ids |->
                IF \E i \in DOMAIN ids : ids[i] = id
                THEN [rows[id] EXCEPT !.position = PlaceIn(ids, id)]
                ELSE rows[id]]

=============================================================================
