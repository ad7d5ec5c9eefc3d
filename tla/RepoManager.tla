----------------------------- MODULE RepoManager -----------------------------
(***************************************************************************)
(* internal/git: the workspaces on the server's disk, and the source and   *)
(* the result branch of one repository on GitHub, which the jobs of that   *)
(* branch share.                                                           *)
(*                                                                         *)
(* A history is the set of commits it consists of, and a commit is named   *)
(* for the job it was made in and for who made it.  One branch is a        *)
(* fast-forward of another when it has all the commits of the other.       *)
(* Every operator is one command, run to its end.                          *)
(***************************************************************************)
EXTENDS Naturals

VARIABLES
    base,       \* the source branch on GitHub
    result,     \* ralph/<branch>-result on GitHub; no commit: no branch
    pr,         \* a pull request from result to base is open
    work        \* the workspace of the job at work: its commits and its other changes

gitHubVars == <<base, result, pr>>

repoVars == <<base, result, pr, work>>

Commits(id, author) == [job |-> id, author |-> author]

\* What the branch held before the first job.
Root == Commits(0, "user")

NoBranch == {}

NoWorkspace == [head |-> {}, dirty |-> {}]

RepoInit ==
    /\ base = {Root}
    /\ result = NoBranch
    /\ pr = FALSE
    /\ work = NoWorkspace

OnGitHub == base \cup result

-----------------------------------------------------------------------------
\* Setup removes what an earlier run has left of the workspace.  Nothing else
\* ever looks at the workspace of a job that has ended.
RemoveWorkspace ==
    /\ work' = NoWorkspace
    /\ UNCHANGED gitHubVars

\* A clone of the source branch; the result branch is made of it.
Clone ==
    /\ work' = [head |-> base, dirty |-> {}]
    /\ UNCHANGED gitHubVars

\* What Claude has done to the workspace when it ends: it may have committed
\* something itself, and may have left files.
Worked(id) ==
    /\ \E own \in SUBSET {Commits(id, "claude")}, left \in SUBSET {Commits(id, "ralph")} :
          work' = [head |-> work.head \cup own, dirty |-> left]
    /\ UNCHANGED gitHubVars

\* add -A, status, commit.  Nothing to commit is no error.
Commit ==
    /\ work' = [head |-> work.head \cup work.dirty, dirty |-> {}]
    /\ UNCHANGED gitHubVars

\* A mutant of Push: push --force.
ForcePush ==
    /\ result' = work.head
    /\ UNCHANGED <<base, pr, work>>

\* push -u origin: GitHub takes a fast-forward and nothing else.
Push ==
    /\ result \subseteq work.head
    /\ result' = work.head
    /\ UNCHANGED <<base, pr, work>>

\* gh pr create: not for a branch that has a pull request already, and not for
\* one that has nothing to offer.
CreatePR ==
    /\ ~pr
    /\ ~(result \subseteq base)
    /\ pr' = TRUE
    /\ UNCHANGED <<base, result, work>>

-----------------------------------------------------------------------------
(***************************************************************************)
(* What users do with a pull request; GitHub offers to delete its branch.  *)
(***************************************************************************)
Merge ==
    /\ pr
    /\ pr' = FALSE
    /\ base' = base \cup result
    /\ result' \in {result, NoBranch}
    /\ UNCHANGED work

Reject ==
    /\ pr
    /\ pr' = FALSE
    /\ result' \in {result, NoBranch}
    /\ UNCHANGED <<base, work>>

=============================================================================
