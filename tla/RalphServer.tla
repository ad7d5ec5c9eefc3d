---------------------------- MODULE RalphServer ----------------------------
(***************************************************************************)
(* The server: the job endpoints, the queue, the scheduler and the ralph   *)
(* handler over one database, wired as the packages are meant to be        *)
(* (NewScheduler(queue, ralphHandler.Handle), Start in a goroutine).  The  *)
(* components share the jobs table and nothing else.                       *)
(***************************************************************************)
EXTENDS Api, Scheduler

CONSTANTS
    MayCancel,      \* the scheduler's context may be cancelled
    MayCrash        \* the process may die and be started again

ASSUME SwitchAssumption == MayCancel \in BOOLEAN /\ MayCrash \in BOOLEAN

vars == <<rows, req, pc, task, ctxDone, signal>>

Init ==
    /\ rows = << >>
    /\ ApiInit
    /\ SchedulerInit

ApiStep == ApiNext /\ UNCHANGED schedulerVars

SchedulerStep == SchedulerNext /\ UNCHANGED req

Cancellation == MayCancel /\ CancelContext /\ UNCHANGED req

\* Scheduler.ResumeJob: the two calls of the resume endpoint, then a signal.
ResumeJob(c) ==
    /\ HandleResumeJob(c)
    /\ signal' = TRUE
    /\ UNCHANGED <<pc, task, ctxDone>>

\* The process dies: the table survives, and nothing in it is looked at or
\* repaired when the server starts again.
Crash ==
    /\ MayCrash
    /\ pc' = "off"
    /\ task' = NoTask
    /\ signal' = FALSE
    /\ ctxDone' = FALSE
    /\ req' = [c \in Clients |-> Idle]
    /\ UNCHANGED rows

Next ==
    \/ ApiStep
    \/ SchedulerStep
    \/ \E c \in Clients : ResumeJob(c)
    \/ Cancellation
    \/ Crash

Spec == Init /\ [][Next]_vars

-----------------------------------------------------------------------------
(***************************************************************************)
(* Safety.                                                                 *)
(***************************************************************************)

RowsOK == rows \in Seq(JobRecord)

RequestsOK ==
    /\ req \in [Clients -> Request \cup {Idle}]
    /\ \A c \in Clients : Busy(c) => req[c].id \in Ids

SchedulerOK ==
    /\ pc \in Pcs
    /\ task \in Task \cup {NoTask}
    /\ task = NoTask <=> pc \in {"off", "dequeue", "select", "stopped"}
    /\ task # NoTask => task.id \in Ids /\ task.job.status = "running"
    /\ ctxDone \in BOOLEAN
    /\ signal \in BOOLEAN

\* A copy of a job names a stored job, and the scheduler's goroutine holds a
\* job exactly while it is inside the handler, still marked running (which is
\* what processNext asks of it before it calls Complete).
TypeOK == RowsOK /\ RequestsOK /\ SchedulerOK

\* The fields of a job agree: it has ended exactly when its end is stamped;
\* before its first start it has no iteration, pause or PR; only a job that
\* was started pauses, completes or fails; an error text marks a failed job.
Coherent(job) ==
    /\ job.status \in Terminal <=> job.completedAt
    /\ job.error <=> job.status = "failed"
    /\ job.status = "queued" => ~job.startedAt
    /\ job.status \in {"running", "paused", "completed", "failed"} => job.startedAt
    /\ job.status = "paused" => job.pausedAt
    /\ ~job.startedAt => job.iteration = 0 /\ ~job.pausedAt /\ ~job.prURL

RowsCoherent == \A id \in Ids : Coherent(rows[id])

RequestsCoherent == \A c \in Clients : Busy(c) => Coherent(req[c].job)

TaskCoherent == task # NoTask => Coherent(task.job)

\* Whatever stale copies overwrite whatever rows, a row and a copy in flight
\* never mix the fields of two moments of a job: Update writes every column.
RowCoherence == RowsCoherent /\ RequestsCoherent /\ TaskCoherent

\* A job on which no goroutine holds another opinion than its row's terminal
\* status: no request read an earlier status, no handler is running it.
Settled(id) ==
    /\ rows[id].status \in Terminal
    /\ \A c \in Clients :
          Busy(c) /\ req[c].id = id => req[c].job.status = rows[id].status
    /\ ~WorksOn(id)

\* Once settled a job stays settled with the status it has, whatever arrives
\* later: no request, no scheduler step and no restart revives it.
SettledIsFinal ==
    [][\A id \in Ids : Settled(id) => /\ Settled(id)'
                                      /\ rows'[id].status = rows[id].status]_vars

\* A row goes back to the queue only when a PATCH writes the copy it read
\* while the job was queued over a row that has moved on.
OnlyPatchRequeues ==
    [][\A id \in Ids :
          rows[id].status # "queued" /\ rows'[id].status = "queued" =>
             \E c \in Clients : /\ req[c].op = "patch"
                                /\ req[c].id = id
                                /\ req[c].job.status = "queued"
                                /\ ~Busy(c)']_vars

\* A job that Claude finished, or that used up its iterations, is not reported
\* complete without the PR of its result.
FinishedHasPR ==
    /\ pc = "complete"
    /\ task.done \/ HasReachedMaxIterations(task.job)
    => task.job.prURL

\* Without PATCH and reordering, positions follow the order of submission
\* among the jobs that wait, although NextPosition hands out again the numbers
\* of jobs that have left the queue.
SubmissionOrder ==
    \A id, later \in Queued : id < later => rows[id].position < rows[later].position

\* Without PATCH, a job that any goroutine has seen leave the queue has left it
\* for good: no copy that was read or written later is behind its row.
LeftTheQueue ==
    /\ \A c \in Clients : Busy(c) /\ req[c].job.status # "queued" =>
                             rows[req[c].id].status # "queued"
    /\ task # NoTask => rows[task.id].status # "queued"

\* Without PATCH and reordering, a job starts only when no job of a higher
\* priority waits, and none of its own priority that was submitted earlier.
FirstComeFirstServed ==
    [][\A id \in Queued : rows'[id].status = "running" =>
          \A other \in Queued \ {id} :
             \/ Rank[rows[id].priority] < Rank[rows[other].priority]
             \/ rows[id].priority = rows[other].priority /\ id < other]_vars

\* Without resuming, PATCH, crashes and refused writes, every running row is
\* the job the scheduler works on: at most one job runs, and none is stranded.
RunningIsWorkedOn ==
    \A id \in Ids : rows[id].status = "running" => WorksOn(id)

\* The row says that the job runs, and nobody works on it.
Stranded(id) == rows[id].status = "running" /\ ~WorksOn(id)

\* The scheduler lets a job go without its end in the table: the process dies,
\* or the write that settles the job is refused.
LeftUnsettled(id) ==
    /\ WorksOn(id)
    /\ \/ pc' = "off"
       \/ /\ pc \in {"complete", "fail"}
          /\ "settle" \in FailingWrites
          /\ UNCHANGED rows

\* A resume is answered, or a PATCH that read the job while it ran.
MarkedRunning(id) ==
    \E c \in Clients : /\ Busy(c) /\ ~Busy(c)'
                       /\ req[c].id = id
                       /\ \/ req[c].op = "resume"
                          \/ req[c].op = "patch" /\ req[c].job.status = "running"

\* A row comes to say "running" with nobody working on the job in these ways
\* only: no handler that ends and can store the end, no pause or cancel from a
\* stale copy, no dequeue and no restart leaves it so.
OnlyTheseStrand ==
    [][\A id \in Ids :
          ~Stranded(id) /\ Stranded(id)' => LeftUnsettled(id) \/ MarkedRunning(id)]_vars

\* Two copies of a job agree on what Claude has achieved ...
SameProgress(job, other) ==
    job.iteration = other.iteration /\ job.prURL = other.prURL

\* ... or the one knows no more of it than the other.
Behind(job, other) ==
    job.iteration <= other.iteration /\ (job.prURL => other.prURL)

\* internal/queue/queue.go: Pause is "preserving its iteration count".  Without PATCH,
\* a stored iteration or PR is forgotten only when a request writes the copy it
\* read before the handler stored it; the scheduler and the handler never do.
ProgressIsKept ==
    [][\A id \in Ids : ~Behind(rows[id], rows'[id]) =>
          \E c \in Clients : /\ Busy(c) /\ ~Busy(c)'
                             /\ req[c].id = id
                             /\ SameProgress(rows'[id], req[c].job)]_vars

\* The copies of rows that requests and the scheduler hold.
Held ==
    {[id |-> req[c].id, job |-> req[c].job] : c \in {c \in Clients : Busy(c)}}
    \cup (IF task = NoTask THEN {} ELSE {[id |-> task.id, job |-> task.job]})

Table == INSTANCE StaleTable WITH copies <- Held

\* Requests, scheduler, handler, crashes and failing writes together change the
\* table as StaleTable allows: no row is ever anything but one legal step on
\* from a row that some goroutine read.
ImplementsStaleTable == Table!Spec

-----------------------------------------------------------------------------
(***************************************************************************)
(* Liveness.  The scheduler's goroutine keeps taking steps: select wakes   *)
(* up at the latest when the ticker fires, and every command the handler   *)
(* runs ends (the code sets no time limit, so this is an assumption about  *)
(* git, gh and claude).  A select case that is ready again and again is    *)
(* picked in the end, and a database that refuses the writes of Dequeue    *)
(* does not refuse them all.  Nothing is assumed of the clients.           *)
(***************************************************************************)
Fairness ==
    /\ WF_vars(SchedulerStep)
    /\ SF_vars(SelectStop /\ UNCHANGED req)
    /\ SF_vars(\E id \in Heads : DequeueJob(id) /\ UNCHANGED req)

LiveSpec == Spec /\ Fairness

Has(id, statuses) == id \in Ids /\ rows[id].status \in statuses

\* Without PATCH, a job that waits is taken off the queue unless the scheduler
\* is told to stop, although no request signals the scheduler and a failed
\* job ends without a signal.
QueuedIsTaken ==
    \A id \in 1 .. MaxJobs : Has(id, {"queued"}) ~> (~Has(id, {"queued"}) \/ ctxDone)

\* When no write that settles a job is refused, a job the handler has taken
\* comes to an end, whatever the requests do to its row meanwhile.
TakenSettles ==
    \A id \in 1 .. MaxJobs : WorksOn(id) ~> Has(id, Terminal)

\* A cancelled context stops the scheduler, whatever the queue still holds.
CancelStops == ctxDone ~> pc = "stopped"

-----------------------------------------------------------------------------
(***************************************************************************)
(* What comments and documents say, and the code does not do.              *)
(***************************************************************************)

\* internal/models/status.go: "Terminal states cannot transition".
TerminalIsFinal ==
    [][\A id \in Ids :
          rows[id].status \in Terminal => rows'[id].status = rows[id].status]_vars

\* internal/executor/ralph.go: without a promise the job continues running,
\* "scheduler will handle re-execution"; and the design marks a job failed at
\* its last iteration.  Neither is reported complete.
CompletedIsPromised ==
    [][\A id \in Ids :
          rows[id].status # "completed" /\ rows'[id].status = "completed" =>
             task.done]_vars

\* README.md: a resumed job continues "from where it left off": a running row
\* does not stay running with nobody working on it.
ResumedIsRun ==
    \A id \in 1 .. MaxJobs :
        Has(id, {"running"}) ~> (~Has(id, {"running"}) \/ WorksOn(id))

=============================================================================
