-------------------------------- MODULE Job --------------------------------
(***************************************************************************)
(* One job of the queue: internal/models.  A job is the record the jobs    *)
(* table stores and every Go function passes around by pointer.  What is   *)
(* kept of it is what the control flow reads or writes:                    *)
(*                                                                         *)
(*   - timestamps, the PR URL and the error text are only ever tested for  *)
(*     being set, so each is a Boolean (TRUE: set);                        *)
(*   - repository, branch, prompt, working_dir and env are written once,   *)
(*     by NewJob and handleCreateJob, and are left out; so is retry_count, *)
(*     which no code ever changes.                                         *)
(***************************************************************************)
EXTENDS Integers

Priorities == {"high", "normal", "low"}

\* The legal moves of a job.  A terminal status has none.
Successors ==
    [queued    |-> {"running", "cancelled"},
     running   |-> {"paused", "completed", "failed", "cancelled"},
     paused    |-> {"running", "cancelled"},
     completed |-> {},
     failed    |-> {},
     cancelled |-> {}]

Statuses == {"queued", "running", "paused", "completed", "failed", "cancelled"}

Terminal == {"completed", "failed", "cancelled"}

CanTransitionTo(status, target) == target \in Successors[status]

\* A stored job.
JobRecord ==
    [status        : Statuses,
     priority      : Priorities,
     position      : Nat \ {0},     \* numbered from 1
     maxIterations : Int,
     iteration     : Nat,
     startedAt     : BOOLEAN,
     pausedAt      : BOOLEAN,
     completedAt   : BOOLEAN,
     prURL         : BOOLEAN,
     error         : BOOLEAN]

\* A job as a request describes it: it has no position until it is stored.
NewJob(priority, maxIterations) ==
    [status        |-> "queued",
     priority      |-> priority,
     position      |-> 0,
     maxIterations |-> maxIterations,
     iteration     |-> 0,
     startedAt     |-> FALSE,
     pausedAt      |-> FALSE,
     completedAt   |-> FALSE,
     prURL         |-> FALSE,
     error         |-> FALSE]

\* The part of Validate that depends on what is kept of a job.
IsValid(job) == job.maxIterations > 0 /\ job.priority \in Priorities

\* A mutant of TransitionTo: the time a job ended is never stamped.
TransitionWithoutEnd(job, target) ==
    [job EXCEPT !.status    = target,
                !.startedAt = @ \/ target = "running",
                !.pausedAt  = @ \/ target = "paused"]

\* The status and the timestamp a transition stamps; the first start and any
\* later pause or end are kept once set.
TransitionTo(job, target) ==
    [job EXCEPT !.status      = target,
                !.startedAt   = @ \/ target = "running",
                !.pausedAt    = @ \/ target = "paused",
                !.completedAt = @ \/ target \in Terminal]

HasReachedMaxIterations(job) == job.iteration >= job.maxIterations

=============================================================================
