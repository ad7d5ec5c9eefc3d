------------------------------- MODULE Queue -------------------------------
(***************************************************************************)
(* internal/queue/queue.go.  Each method holds q.mu for its whole body, so *)
(* it is one step.  All but Enqueue and Reorder are handed a *models.Job   *)
(* that the caller read EARLIER, under another acquisition of the lock:    *)
(* the status they check and the row they write are that copy's, whatever  *)
(* the table has come to hold since.                                       *)
(***************************************************************************)
EXTENDS JobRepo

CONSTANT FailingWrites  \* which statements the database may refuse, by use

ASSUME FailingWritesAssumption ==
    FailingWrites \subseteq {"api", "dequeue", "iteration", "pr", "settle"}

\* A mutant of Move: the status is set without asking CanTransitionTo.
MoveUnchecked(id, job, target) == Update(id, TransitionTo(job, target))

\* TransitionTo on the caller's copy, then the copy over the row.
Move(id, job, target) ==
    /\ CanTransitionTo(job.status, target)
    /\ Update(id, TransitionTo(job, target))

Enqueue(job) ==
    /\ IsValid(job)
    /\ Create([job EXCEPT !.status = "queued"])

\* A mutant of Pause: a paused job starts to count anew.
PauseAnew(id, job) == Move(id, [job EXCEPT !.iteration = 0], "paused")

Pause(id, job) == Move(id, job, "paused")

\* A mutant of Resume: a resumed job is put back on the queue.
ResumeToQueue(id, job) ==
    /\ job.status = "paused"
    /\ Update(id, [job EXCEPT !.status = "queued"])

Resume(id, job) ==
    /\ job.status = "paused"
    /\ Move(id, job, "running")

Complete(id, job) == Move(id, job, "completed")

\* A mutant of Fail: the error is stored and the status is not.
FailWithoutStatus(id, job) == Update(id, [job EXCEPT !.error = TRUE])

Fail(id, job) == Move(id, [job EXCEPT !.error = TRUE], "failed")

Cancel(id, job) == Move(id, job, "cancelled")

Reorder(ids) == UpdatePositions(ids)

=============================================================================
