------------------------------ MODULE Handler ------------------------------
(***************************************************************************)
(* RalphHandler.Handle of internal/executor/ralph.go, the job handler the  *)
(* scheduler is built for.  It runs in the scheduler's goroutine and works *)
(* on the *models.Job that Dequeue returned, which it also writes back     *)
(* without q.mu; each such write is a single statement.                    *)
(*                                                                         *)
(* The outside world answers as it likes: a clone, a push or a PR may      *)
(* fail, and Claude prints any iteration number and any promise.  A        *)
(* cancelled context fails every command that is not yet running.          *)
(***************************************************************************)
EXTENDS Queue

CONSTANT ParsedIterations   \* the values ParseIterations may return

ASSUME ParsedIterationsAssumption == ParsedIterations \subseteq Nat

VARIABLES
    pc,         \* where the scheduler's goroutine is
    task,       \* the job it works on, and whether Claude promised completion
    ctxDone     \* the context given to Start is cancelled

handlerVars == <<pc, task, ctxDone>>

NoTask == [id |-> 0]

Task == [id : Nat \ {0}, job : JobRecord, done : BOOLEAN]

WorksOn(id) == task # NoTask /\ task.id = id

\* jobRepo.Update(job) whose error is only logged.
UpdateOrLog(write) ==
    \/ Update(task.id, task.job)
    \/ write \in FailingWrites /\ UNCHANGED rows

\* git, gh and claude are started with the context: none starts once it is
\* cancelled, and the error of a command is an error of its caller.
CommandsStart == ~ctxDone

\* Clone the repository, create the result branch, start Claude.
Setup ==
    /\ pc = "setup"
    /\ \/ pc' = "fail"
       \/ CommandsStart /\ pc' = "claude"
    /\ UNCHANGED <<rows, task, ctxDone>>

\* Where Handle goes once the iteration is up to date.  With neither a promise
\* nor the last iteration it returns nil.
AfterClaude(job, done) ==
    IF done \/ HasReachedMaxIterations(job) THEN "finalize" ELSE "complete"

\* Claude's exit status is not looked at: all that counts is its output.
ClaudeExits(iterations, done) ==
    /\ pc = "claude"
    /\ IF iterations > task.job.iteration
       THEN /\ task' = [task EXCEPT !.job.iteration = iterations, !.done = done]
            /\ pc' = "save_iteration"
       ELSE /\ task' = [task EXCEPT !.done = done]
            /\ pc' = AfterClaude(task.job, done)
    /\ UNCHANGED <<rows, ctxDone>>

SaveIteration ==
    /\ pc = "save_iteration"
    /\ UpdateOrLog("iteration")
    /\ pc' = AfterClaude(task.job, task.done)
    /\ UNCHANGED <<task, ctxDone>>

\* The branch is pushed and the PR opened; the job keeps its URL.
PushAndCreatePR == CommandsStart /\ task' = [task EXCEPT !.job.prURL = TRUE]

\* A mutant of Finalize: a failed push or PR is only logged.
FinalizeLoggingErrors ==
    /\ pc = "finalize"
    /\ \/ pc' = "complete" /\ UNCHANGED task
       \/ PushAndCreatePR /\ pc' = "save_pr"
    /\ UNCHANGED <<rows, ctxDone>>

\* Commit (a failure is only logged), push and open the PR.
Finalize ==
    /\ pc = "finalize"
    /\ \/ pc' = "fail" /\ UNCHANGED task
       \/ PushAndCreatePR /\ pc' = "save_pr"
    /\ UNCHANGED <<rows, ctxDone>>

SavePR ==
    /\ pc = "save_pr"
    /\ UpdateOrLog("pr")
    /\ pc' = "complete"
    /\ UNCHANGED <<task, ctxDone>>

Handle ==
    \/ Setup
    \/ \E iterations \in ParsedIterations, done \in BOOLEAN :
          ClaudeExits(iterations, done)
    \/ SaveIteration
    \/ Finalize
    \/ SavePR

=============================================================================
