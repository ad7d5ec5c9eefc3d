------------------------------ MODULE Execution ------------------------------
(***************************************************************************)
(* RalphHandler.Handle command by command: the jobs of one branch, taken   *)
(* from the queue one after the other, each cloned, worked on by Claude,   *)
(* committed, pushed and offered as a pull request.  Every command may     *)
(* fail, and may fail after it has done its work.  Module Handler is the   *)
(* same goroutine with the commands left out.                              *)
(***************************************************************************)
EXTENDS Queue, ClaudeExecutor, RepoManager

CONSTANTS
    Jobs,           \* bound: the jobs that wait
    MaxIterations   \* what they may be limited to

ASSUME JobsAssumption == Jobs \in Nat /\ MaxIterations \subseteq Nat \ {0}

VARIABLES
    step,       \* the command Handle is at
    task,       \* the job it works on, as in Handler
    ctxDone     \* the context is cancelled

vars == <<rows, step, task, ctxDone, executorVars, repoVars>>

NoTask == [id |-> 0]

Waiting(id, maxIterations) ==
    [NewJob("normal", maxIterations) EXCEPT !.position = id]

Init ==
    /\ \E max \in MaxIterations : rows = [id \in 1 .. Jobs |-> Waiting(id, max)]
    /\ step = "rest"
    /\ task = NoTask
    /\ ctxDone = FALSE
    /\ ExecutorInit
    /\ RepoInit

Advance(from, to) ==
    /\ step = from
    /\ step' = to
    /\ UNCHANGED <<rows, task, ctxDone, executorVars>>

-----------------------------------------------------------------------------
\* The scheduler takes a job ...
Take(id) ==
    /\ step = "rest"
    /\ id \in Heads
    /\ Move(id, rows[id], "running")
    /\ task' = [id |-> id, job |-> TransitionTo(rows[id], "running"), done |-> FALSE]
    /\ step' = "clone_gh"
    /\ UNCHANGED <<ctxDone, executorVars, repoVars>>

\* ... and settles it when Handle is back.
Settle ==
    /\ \/ step = "complete" /\ Complete(task.id, task.job)
       \/ step = "fail" /\ Fail(task.id, task.job)
    /\ step' = "rest"
    /\ task' = NoTask
    /\ RemoveWorkspace
    /\ UNCHANGED <<ctxDone, executorVars>>

(***************************************************************************)
(* Setup: gh clones, or else git; no command starts on a cancelled context *)
(***************************************************************************)
CloneGH ==
    \/ Advance("clone_gh", "branch") /\ ~ctxDone /\ Clone
    \/ Advance("clone_gh", "clone_git") /\ RemoveWorkspace

CloneGit ==
    \/ Advance("clone_git", "branch") /\ ~ctxDone /\ Clone
    \/ Advance("clone_git", "fail") /\ UNCHANGED repoVars

CreateBranch ==
    /\ \/ Advance("branch", "start") /\ ~ctxDone
       \/ Advance("branch", "fail")
    /\ UNCHANGED repoVars

(***************************************************************************)
(* Execute.                                                                *)
(***************************************************************************)
Start ==
    /\ step = "start"
    /\ \/ ~ctxDone /\ StartClaude /\ step' = "claude"
       \/ step' = "fail" /\ UNCHANGED executorVars
    /\ UNCHANGED <<rows, task, ctxDone, repoVars>>

ClaudeStep ==
    /\ \/ \E s \in Streams : \E line \in Lines[s] : PrintLine(s, line)
       \/ Unblock
       \/ SpawnHelper
       \/ HelperExits
       \/ ClaudeExit
       \/ ctxDone /\ Kill
       \/ \E s \in Streams : ReadOutput(s)
    /\ UNCHANGED <<rows, step, task, ctxDone, repoVars>>

\* Handle goes on with the result, and does not look at the exit status.
AfterExecute(job, done) ==
    IF done \/ HasReachedMaxIterations(job) THEN "commit" ELSE "complete"

\* Nobody looks at the workspace while Claude runs, so its work is one step.
ExecuteReturns ==
    /\ step = "claude"
    /\ Return
    /\ Worked(task.id)
    /\ IF ParseIterations > task.job.iteration
       THEN /\ task' = [task EXCEPT !.job.iteration = ParseIterations,
                                    !.done = ContainsPromise]
            /\ step' = "save_iteration"
       ELSE /\ task' = [task EXCEPT !.done = ContainsPromise]
            /\ step' = AfterExecute(task.job, ContainsPromise)
    /\ UNCHANGED <<rows, ctxDone>>

SaveIteration ==
    /\ step = "save_iteration"
    /\ Update(task.id, task.job)
    /\ step' = AfterExecute(task.job, task.done)
    /\ UNCHANGED <<task, ctxDone, executorVars, repoVars>>

(***************************************************************************)
(* finalize.  A commit that fails is only logged.                          *)
(***************************************************************************)
CommitChanges ==
    /\ Advance("commit", "push")
    /\ \/ ~ctxDone /\ Commit
       \/ UNCHANGED repoVars

\* A mutant of PushBranch: a push that fails is only logged.
PushOrLog ==
    /\ Advance("push", "create_pr")
    /\ Push \/ UNCHANGED repoVars

PushBranch ==
    \/ Advance("push", "create_pr") /\ ~ctxDone /\ Push
    \/ Advance("push", "fail") /\ (Push \/ UNCHANGED repoVars)

\* A mutant of OfferResult: a failing gh is only logged.
OfferOrLog ==
    /\ step = "create_pr"
    /\ CreatePR \/ UNCHANGED repoVars
    /\ step' = "save_pr"
    /\ UNCHANGED <<rows, task, ctxDone, executorVars>>

OfferResult ==
    /\ step = "create_pr"
    /\ \/ /\ ~ctxDone /\ CreatePR
          /\ task' = [task EXCEPT !.job.prURL = TRUE]
          /\ step' = "save_pr"
       \/ /\ CreatePR \/ UNCHANGED repoVars
          /\ step' = "fail"
          /\ UNCHANGED task
    /\ UNCHANGED <<rows, ctxDone, executorVars>>

SavePR ==
    /\ step = "save_pr"
    /\ Update(task.id, task.job)
    /\ step' = "complete"
    /\ UNCHANGED <<task, ctxDone, executorVars, repoVars>>

-----------------------------------------------------------------------------
Handle ==
    \/ CloneGH
    \/ CloneGit
    \/ CreateBranch
    \/ Start
    \/ ClaudeStep
    \/ ExecuteReturns
    \/ SaveIteration
    \/ CommitChanges
    \/ PushBranch
    \/ OfferResult
    \/ SavePR

Users == (Merge \/ Reject) /\ UNCHANGED <<rows, step, task, ctxDone, executorVars>>

Cancellation ==
    /\ ~ctxDone
    /\ ctxDone' = TRUE
    /\ UNCHANGED <<rows, step, task, executorVars, repoVars>>

Next ==
    \/ \E id \in Heads : Take(id)
    \/ Handle
    \/ Settle
    \/ Users
    \/ Cancellation

(***************************************************************************)
(* The goroutines run, and Claude ends when nothing holds it up.  Its      *)
(* helpers need not: a tool that Claude started may be a server.           *)
(***************************************************************************)
Fairness ==
    /\ WF_vars(ClaudeExit /\ UNCHANGED <<rows, step, task, ctxDone, repoVars>>)
    /\ WF_vars(Unblock /\ UNCHANGED <<rows, step, task, ctxDone, repoVars>>)
    /\ WF_vars(ctxDone /\ Kill /\ UNCHANGED <<rows, step, task, ctxDone, repoVars>>)
    /\ \A s \in Streams :
          WF_vars(ReadOutput(s) /\ UNCHANGED <<rows, step, task, ctxDone, repoVars>>)
    /\ WF_vars(ExecuteReturns)

Spec == Init /\ [][Next]_vars /\ Fairness

-----------------------------------------------------------------------------
(***************************************************************************)
(* Handler is this specification without the commands.                     *)
(***************************************************************************)
HandlerPc ==
    CASE step = "rest" -> "select"
      [] step \in {"clone_gh", "clone_git", "branch", "start"} -> "setup"
      [] step \in {"commit", "push", "create_pr"} -> "finalize"
      [] OTHER -> step

Abstract ==
    INSTANCE Handler WITH pc <- HandlerPc,
                          ParsedIterations <- {0} \cup {line.iteration : line \in AllLines}

\* Whatever its commands do, Handle changes the job, its row and its place as
\* module Handler says, on which the properties of the server rest.
ImplementsHandler ==
    [][step \notin {"rest", "complete", "fail"} => Abstract!Handle
      ]_<<rows, task, HandlerPc>>

\* The goroutines never wrote at the same time, and no line is too long.
Undisturbed == ~overlapped /\ \A write \in printed : ~write[2].long

\* Execute parses everything that was printed on either stream, a promise just
\* before a kill included: what is lost is lost to two writes of the unlocked
\* buffer that overlapped, or to a line too long.
OutputIsComplete ==
    [][step = "claude" /\ step' # "claude" /\ Undisturbed =>
          output = {write[2] : write \in printed}]_vars

\* A job gets a pull request only with all its commits in it.  What a failed
\* commit left behind is missing only if Claude had committed something too.
PRHasTheWork ==
    [][step = "create_pr" /\ step' = "save_pr" =>
          /\ work.head \subseteq result
          /\ work.dirty = {} \/ Commits(task.id, "claude") \in result]_vars

\* What has reached GitHub stays there until a user rejects it.
GitHubKeepsWork ==
    [][~Reject => OnGitHub \subseteq OnGitHub']_vars

\* Claude waits for a pipe to be read whose reader met a line too long.
Jammed ==
    \E write \in blocked :
        /\ readers[write[1]] = Done
        /\ pipes[write[1]] # << >>
        /\ Head(pipes[write[1]]).long

\* While Execute runs, it can return, or Claude can go on, or a reader can, but
\* for a child of Claude's that keeps the pipes open and a line too long.
ExecuteIsNotStuck ==
    step = "claude" =>
       \/ Wait
       \/ claude = "running" /\ \A write \in blocked : ~Full(write[1])
       \/ \E s \in Streams :
             \/ readers[s].at = "write"
             \/ readers[s] = Scanning /\ (pipes[s] # << >> \/ claude = "exited")
       \/ helper
       \/ Jammed

\* What is left to do for the reader of a stream whose other end is closed:
\* to end; for a line in its hand, to write it; for one in the pipe, to take it.
InHand(s) ==
    CASE readers[s].at = "write" -> 2
      [] readers[s].at = "scan" -> 1
      [] readers[s].at = "done" -> 0

Unread(s) == 2 * Len(pipes[s]) + InHand(s)

\* Once Claude has exited and no child of its holds the pipes, every step of
\* Execute brings it closer to its end: the readers do not go round in circles.
ReadingEnds ==
    [][step = "claude" /\ claude = "exited" /\ ~helper =>
          \/ step' # "claude"
          \/ UNCHANGED executorVars
          \/ Unread("stdout")' + Unread("stderr")'
                < Unread("stdout") + Unread("stderr")]_vars

\* Execute does not wait for ever, unless a child of Claude's keeps the pipes
\* open, or Claude goes on printing after a line too long.
ExecuteEnds == []<>(step # "claude" \/ helper \/ Jammed)

\* A cancelled context ends it, unless a child of Claude's keeps the pipes open.
CancelEndsExecute == []<>(step # "claude" \/ ~ctxDone \/ helper)

=============================================================================
