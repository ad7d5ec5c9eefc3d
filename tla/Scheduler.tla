----------------------------- MODULE Scheduler -----------------------------
(***************************************************************************)
(* internal/queue/scheduler.go: one goroutine that takes jobs off the      *)
(* queue and runs the handler on them, one at a time.                      *)
(*                                                                         *)
(*   off --Start--> dequeue --> setup ... complete or fail --> select      *)
(*                     ^                                          |        *)
(*                     +---------- signal or ticker --------------+        *)
(*                                                                         *)
(* processNext is not interrupted by the context; select looks at it, and  *)
(* when several of its cases are ready Go picks any of them.               *)
(***************************************************************************)
EXTENDS Handler

VARIABLE signal         \* the signal channel, capacity 1, holds a token

schedulerVars == <<pc, task, ctxDone, signal>>

Pcs == {"off", "dequeue", "setup", "claude", "save_iteration", "finalize",
        "save_pr", "complete", "fail", "select", "stopped"}

SchedulerInit ==
    /\ pc = "off"
    /\ task = NoTask
    /\ ctxDone = FALSE
    /\ signal = FALSE

Start ==
    /\ pc = "off"
    /\ pc' = "dequeue"
    /\ UNCHANGED <<rows, task, ctxDone, signal>>

\* A mutant of SelectStop: the context is looked at only after a signal.
SelectStopAfterSignal ==
    /\ pc = "select"
    /\ ctxDone /\ signal
    /\ pc' = "stopped"
    /\ UNCHANGED <<rows, task, ctxDone, signal>>

SelectStop ==
    /\ pc = "select"
    /\ ctxDone
    /\ pc' = "stopped"
    /\ UNCHANGED <<rows, task, ctxDone, signal>>

SelectSignal ==
    /\ pc = "select"
    /\ signal
    /\ signal' = FALSE
    /\ pc' = "dequeue"
    /\ UNCHANGED <<rows, task, ctxDone>>

\* A mutant of SelectTick: the ticker wakes the loop and processes nothing.
SelectTickIdly ==
    /\ pc = "select"
    /\ UNCHANGED <<rows, pc, task, ctxDone, signal>>

\* The ticker fires every five seconds for as long as select waits.
SelectTick ==
    /\ pc = "select"
    /\ pc' = "dequeue"
    /\ UNCHANGED <<rows, task, ctxDone, signal>>

Run(id, job) == [id |-> id, job |-> job, done |-> FALSE]

\* A mutant of DequeueJob: the row is not written, only the copy is running.
DequeueInMemory(id) ==
    /\ pc = "dequeue"
    /\ id \in Heads
    /\ task' = Run(id, TransitionTo(rows[id], "running"))
    /\ pc' = "setup"
    /\ UNCHANGED <<rows, ctxDone, signal>>

\* ListQueued, TransitionTo and Update are one step under q.mu.
DequeueJob(id) ==
    /\ pc = "dequeue"
    /\ id \in Heads
    /\ Move(id, rows[id], "running")
    /\ task' = Run(id, TransitionTo(rows[id], "running"))
    /\ pc' = "setup"
    /\ UNCHANGED <<ctxDone, signal>>

\* No job, or a database error: processNext returns without a signal.
DequeueNothing ==
    /\ pc = "dequeue"
    /\ Queued = {} \/ "dequeue" \in FailingWrites
    /\ pc' = "select"
    /\ UNCHANGED <<rows, task, ctxDone, signal>>

Forget == task' = NoTask /\ pc' = "select"

\* A mutant of CompleteTask: a row that is no longer running is left alone.
CompleteTaskIfRunning ==
    /\ pc = "complete"
    /\ IF rows[task.id].status = "running"
       THEN Complete(task.id, task.job)
       ELSE UNCHANGED rows
    /\ signal' = TRUE
    /\ Forget
    /\ UNCHANGED ctxDone

\* The handler returned nil; its copy is always still running.  The error of
\* Complete is only logged.
CompleteTask ==
    /\ pc = "complete"
    /\ \/ Complete(task.id, task.job)
       \/ "settle" \in FailingWrites /\ UNCHANGED rows
    /\ signal' = TRUE
    /\ Forget
    /\ UNCHANGED ctxDone

\* The handler returned an error: no signal.
FailTask ==
    /\ pc = "fail"
    /\ \/ Fail(task.id, task.job)
       \/ "settle" \in FailingWrites /\ UNCHANGED rows
    /\ Forget
    /\ UNCHANGED <<ctxDone, signal>>

ProcessNext ==
    \/ \E id \in Heads : DequeueJob(id)
    \/ DequeueNothing
    \/ Handle /\ UNCHANGED signal
    \/ CompleteTask
    \/ FailTask

SchedulerNext ==
    \/ Start
    \/ SelectStop
    \/ SelectSignal
    \/ SelectTick
    \/ ProcessNext

\* The owner of the context, main's signal handler, cancels it once.
CancelContext ==
    /\ ~ctxDone
    /\ ctxDone' = TRUE
    /\ UNCHANGED <<rows, pc, task, signal>>

=============================================================================
