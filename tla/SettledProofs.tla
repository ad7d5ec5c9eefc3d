--------------------------- MODULE SettledProofs ---------------------------
(***************************************************************************)
(* How jobs end.  A settled job stays settled: whatever is written to its  *)
(* row comes from a copy that agrees with it, and a terminal copy cannot   *)
(* transition.  Only PATCH can bring a job back to the queue, and no job   *)
(* that is finished is completed without its PR.                           *)
(***************************************************************************)
EXTENDS RalphServerProofs

\* What keeps a job settled: its status stays, no request reads another, and
\* nobody takes it.
LEMMA SettledKept ==
    ASSUME NEW id \in Ids, Settled(id),
           rows'[id].status = rows[id].status,
           \A c \in Clients : Busy(c)' /\ req'[c].id = id =>
              \/ Busy(c) /\ req'[c] = req[c]
              \/ req'[c].job.status = rows[id].status,
           task' = NoTask \/ task'.id # id
    PROVE  Settled(id)' /\ rows'[id].status = rows[id].status
BY DEF Settled, WorksOn

\* A write to another row, or one that keeps the status.
LEMMA SettledAfterWrite ==
    ASSUME NEW id \in Ids, NEW other, NEW job, Writes(other, job),
           other = id => job.status = rows[id].status
    PROVE  rows'[id].status = rows[id].status
BY DEF Writes

\* A terminal status has no successor (CanTransitionTo).
LEMMA TerminalCannotMove ==
    ASSUME NEW status \in Terminal, NEW target
    PROVE  ~CanTransitionTo(status, target)
BY DEF Terminal, CanTransitionTo, Successors

\* Every step of the server keeps a settled job settled.
LEMMA SettledStep ==
    ASSUME TypeOK, [Next]_vars, NEW id \in Ids, Settled(id)
    PROVE  Settled(id)' /\ rows'[id].status = rows[id].status
<1> DEFINE Goal == Settled(id)' /\ rows'[id].status = rows[id].status
<1>t. RowsOK /\ RequestsOK /\ SchedulerOK
  BY DEF TypeOK
<1>s. /\ rows[id].status \in Terminal
      /\ \A c \in Clients :
            Busy(c) /\ req[c].id = id => req[c].job.status = rows[id].status
      /\ task = NoTask \/ task.id # id
  BY DEF Settled, WorksOn
<1>q. UNCHANGED req =>
         \A c \in Clients : Busy(c)' => Busy(c) /\ req'[c] = req[c]
  BY DEF Busy
<1>1. CASE UNCHANGED vars
  BY <1>1, <1>s, <1>q, SettledKept DEF vars
<1>2. ASSUME NEW priority \in CreatePriorities, NEW maxIterations \in CreateMaxIterations,
             HandleCreateJob(priority, maxIterations), UNCHANGED schedulerVars
      PROVE  Goal
  <2>1. priority \in Priorities /\ maxIterations \in Int
    BY InputAssumption
  <2>2. rows'[id] = rows[id] /\ UNCHANGED req
    BY <1>t, <1>2, <2>1, CreateJobFacts
  <2> QED BY <1>2, <1>s, <1>q, <2>2, SettledKept DEF schedulerVars
<1>3. ASSUME NEW ids \in ReorderLists, HandleReorderJobs(ids), UNCHANGED schedulerVars
      PROVE  Goal
  <2>1. /\ \/ rows'[id] = rows[id]
           \/ \E p \in Nat \ {0} :
                 rows'[id] = [rows[id] EXCEPT !.position = p]
        /\ UNCHANGED req
    BY <1>t, <1>3, ReorderFacts
  <2>2. rows[id] \in JobRecord
    BY <1>t, RowsAreJobs DEF RowsOK
  <2>3. rows'[id].status = rows[id].status
    BY <2>1, <2>2 DEF JobRecord
  <2> QED BY <1>3, <1>s, <1>q, <2>1, <2>3, SettledKept DEF schedulerVars
<1>4. ASSUME NEW c \in Clients, NEW op \in Ops, NEW other \in Ids,
             LoadJob(c, op, other), UNCHANGED schedulerVars
      PROVE  Goal
  <2>1. /\ UNCHANGED rows
        /\ req'[c] = [op |-> op, id |-> other, job |-> rows[other]]
        /\ \A d \in Clients \ {c} : req'[d] = req[d]
    BY <1>t, <1>4, LoadJobFacts
  <2>2. ASSUME NEW d \in Clients, Busy(d)', req'[d].id = id
        PROVE  \/ Busy(d) /\ req'[d] = req[d]
               \/ req'[d].job.status = rows[id].status
    <3>1. CASE d = c
      BY <2>1, <2>2, <3>1
    <3>2. CASE d # c
      BY <2>1, <2>2, <3>2 DEF Busy
    <3> QED BY <3>1, <3>2
  <2> QED BY <1>4, <1>s, <2>1, <2>2, SettledKept DEF schedulerVars
<1>5. ASSUME NEW c \in Clients, Answer(c), UNCHANGED task, Ids' = Ids,
             rows'[id].status = rows[id].status
      PROVE  Goal
  BY <1>5, <1>s, <1>t, AnswerKeepsRequests, SettledKept
<1>6. ASSUME NEW c \in Clients, NEW target,
             Busy(c), CanTransitionTo(req[c].job.status, target)
      PROVE  req[c].id # id
  BY <1>6, <1>s, TerminalCannotMove
<1>7. ASSUME NEW c \in Clients, Respond(c), UNCHANGED task
      PROVE  Goal
  <2>1. CASE HandleCancelJob(c)
    <3>1. req[c].id # id
      BY <1>t, <1>6, <2>1, CancelJobFacts
    <3> QED BY <1>t, <1>5, <1>7, <2>1, <3>1, CancelJobFacts DEF Writes
  <2>2. CASE HandlePauseJob(c)
    <3>1. req[c].id # id
      BY <1>t, <1>6, <2>2, PauseJobFacts
    <3> QED BY <1>t, <1>5, <1>7, <2>2, <3>1, PauseJobFacts DEF Writes
  <2>3. CASE HandleResumeJob(c)
    <3>1. Busy(c) /\ req[c].job.status = "paused"
      BY <1>t, <2>3, ResumeJobFacts
    <3>2. req[c].id # id
      BY <1>s, <3>1 DEF Terminal
    <3> QED BY <1>t, <1>5, <1>7, <2>3, <3>2, ResumeJobFacts DEF Writes
  <2>4. CASE HandleUpdateJob(c)
    <3>1. Busy(c) /\ Answer(c)
      BY <1>t, <2>4, UpdateJobFacts
    <3>2. PICK priority \in Priorities, maxIterations \in Int :
             Writes(req[c].id, Patched(req[c].job, priority, maxIterations))
      BY <1>t, <2>4, UpdateJobFacts
    <3>3. req[c].job \in JobRecord
      BY <1>t, <3>1, RequestFacts
    <3>4. Patched(req[c].job, priority, maxIterations).status = req[c].job.status
      BY <3>3 DEF Patched, JobRecord
    <3>5. rows'[id].status = rows[id].status
      BY <1>s, <3>1, <3>2, <3>4, SettledAfterWrite
    <3> QED BY <1>5, <1>7, <3>1, <3>2, <3>5 DEF Writes
  <2>5. CASE AnswerError(c)
    BY <1>5, <1>7, <2>5 DEF AnswerError, Ids
  <2> QED BY <1>7, <2>1, <2>2, <2>3, <2>4, <2>5 DEF Respond
<1>8. CASE Cancellation
  BY <1>8, <1>s, <1>q, SettledKept DEF Cancellation, CancelContext
<1>9. CASE Crash
  BY <1>9, SettledKept DEF Crash, Busy
<1>10. ASSUME SchedulerStep PROVE Goal
  <2>q. UNCHANGED req
    BY <1>10 DEF SchedulerStep
  <2>1. CASE Start \/ SelectStop \/ SelectSignal \/ SelectTick \/ DequeueNothing \/ Setup
    <3>1. UNCHANGED <<rows, task>>
      BY <2>1 DEF Start, SelectStop, SelectSignal, SelectTick, DequeueNothing, Setup
    <3> QED BY <1>s, <1>q, <2>q, <3>1, SettledKept
  <2>2. ASSUME NEW other \in Heads, DequeueJob(other) PROVE Goal
    <3> DEFINE job == TransitionTo(rows[other], "running")
    <3>1. other \in Queued /\ Writes(other, job) /\ task' = Run(other, job)
      BY <1>t, <2>2, DequeueJobFacts
    <3>2. other # id
      BY <1>s, <3>1 DEF Queued, Terminal
    <3>3. rows'[id] = rows[id]
      BY <3>1, <3>2 DEF Writes
    <3>4. task'.id # id
      <4> HIDE DEF job
      <4> QED BY <3>1, <3>2 DEF Run
    <3> QED BY <1>q, <2>q, <3>3, <3>4, SettledKept
  <2>3. ASSUME task # NoTask, NEW job, UNCHANGED rows \/ Writes(task.id, job),
               task' = NoTask \/ task'.id = task.id
        PROVE  Goal
    <3>1. rows'[id] = rows[id]
      BY <1>s, <2>3 DEF Writes
    <3> QED BY <1>s, <1>q, <2>q, <2>3, <3>1, SettledKept
  <2>4. ASSUME NEW iterations \in ParsedIterations, NEW done \in BOOLEAN,
               ClaudeExits(iterations, done)
        PROVE  Goal
    BY <1>t, <2>3, <2>4, ClaudeExitsFacts
  <2>5. CASE SaveIteration \/ SavePR
    <3>1. task # NoTask /\ UNCHANGED task
      BY <1>t, <2>5 DEF SaveIteration, SavePR, SchedulerOK
    <3>2. UNCHANGED rows \/ Writes(task.id, task.job)
      BY <1>t, <2>5, <3>1, UpdateOrLogFacts DEF SaveIteration, SavePR
    <3> QED BY <2>3, <3>1, <3>2
  <2>6. CASE Finalize
    BY <1>t, <2>3, <2>6, FinalizeFacts
  <2>7. CASE CompleteTask
    BY <1>t, <2>3, <2>7, CompleteTaskFacts DEF Forget
  <2>8. CASE FailTask
    BY <1>t, <2>3, <2>8, FailTaskFacts DEF Forget
  <2> QED BY <1>10, <2>1, <2>2, <2>4, <2>5, <2>6, <2>7, <2>8
          DEF SchedulerStep, SchedulerNext, ProcessNext, Handle
<1>11. ASSUME NEW c \in Clients, ResumeJob(c) PROVE Goal
  BY <1>7, <1>11 DEF ResumeJob, Respond
<1>12. ASSUME ApiStep PROVE Goal
  BY <1>2, <1>3, <1>4, <1>7, <1>12 DEF ApiStep, ApiNext, schedulerVars
<1> QED BY <1>1, <1>8, <1>9, <1>10, <1>11, <1>12 DEF Next

\* Once no request holds a copy from before the end of a job, and no handler
\* works on it, nothing revives the job or changes how it ended: not a later
\* cancel, pause, resume or PATCH, not the scheduler, not a restart.
THEOREM SettledStaysFinal == Spec => SettledIsFinal
<1>1. TypeOK /\ [Next]_vars =>
         [\A id \in Ids : Settled(id) => /\ Settled(id)'
                                         /\ rows'[id].status = rows[id].status]_vars
  BY SettledStep
<1> QED BY <1>1, TypeCorrect, PTL DEF Spec, SettledIsFinal

-----------------------------------------------------------------------------
(***************************************************************************)
(* The only way back to the queue.                                         *)
(***************************************************************************)

PatchWrites(id, c) ==
    /\ req[c].op = "patch"
    /\ req[c].id = id
    /\ req[c].job.status = "queued"
    /\ ~Busy(c)'

\* A write whose copy does not wait puts no row back on the queue.
LEMMA WriteRequeuesNothing ==
    ASSUME NEW id \in Ids, NEW other, NEW job, Writes(other, job),
           job.status # "queued", rows[id].status # "queued"
    PROVE  rows'[id].status # "queued"
BY DEF Writes

\* No transition leads to the queue (CanTransitionTo, TransitionTo).
LEMMA TransitionLeavesQueue ==
    ASSUME NEW job \in JobRecord, NEW target \in Statuses \ {"queued"}
    PROVE  TransitionTo(job, target).status # "queued"
BY TransitionToFacts

\* The client whose request is answered is idle afterwards.
LEMMA AnswerEnds ==
    ASSUME RequestsOK, NEW c \in Clients, Answer(c)
    PROVE  ~Busy(c)'
BY DEF RequestsOK, Answer, Busy

\* A step that puts a row back on the queue is a PATCH of a copy that waits.
LEMMA RequeueStep ==
    ASSUME TypeOK, [Next]_vars, NEW id \in Ids,
           rows[id].status # "queued", rows'[id].status = "queued"
    PROVE  \E c \in Clients : PatchWrites(id, c)
<1> DEFINE Goal == \E c \in Clients : PatchWrites(id, c)
<1>t. RowsOK /\ RequestsOK /\ SchedulerOK
  BY DEF TypeOK
<1>u. ~UNCHANGED rows
  OBVIOUS
<1>w. ASSUME NEW other, NEW job \in JobRecord, NEW target \in Statuses \ {"queued"},
             Writes(other, TransitionTo(job, target))
      PROVE  FALSE
  <2>1. TransitionTo(job, target).status # "queued"
    BY TransitionLeavesQueue
  <2> QED BY <1>w, <2>1, WriteRequeuesNothing
<1>1. ASSUME NEW priority \in CreatePriorities, NEW maxIterations \in CreateMaxIterations,
             HandleCreateJob(priority, maxIterations)
      PROVE  FALSE
  <2>1. priority \in Priorities /\ maxIterations \in Int
    BY InputAssumption
  <2> QED BY <1>t, <1>1, <2>1, CreateJobFacts
<1>2. ASSUME NEW ids \in ReorderLists, HandleReorderJobs(ids) PROVE FALSE
  <2>1. rows[id] \in JobRecord
    BY <1>t, RowsAreJobs DEF RowsOK
  <2>2. rows'[id].status = rows[id].status
    BY <1>t, <1>2, <2>1, ReorderFacts DEF JobRecord
  <2> QED BY <2>2
<1>3. ASSUME NEW c \in Clients, Respond(c) PROVE Goal
  <2>1. CASE HandleCancelJob(c)
    BY <1>t, <1>w, <2>1, CancelJobFacts, RequestFacts DEF Statuses
  <2>2. CASE HandlePauseJob(c)
    BY <1>t, <1>w, <2>2, PauseJobFacts, RequestFacts DEF Statuses
  <2>3. CASE HandleResumeJob(c)
    BY <1>t, <1>w, <2>3, ResumeJobFacts, RequestFacts DEF Statuses
  <2>4. CASE HandleUpdateJob(c)
    <3>1. Busy(c) /\ req[c].op = "patch" /\ ~Busy(c)'
      BY <1>t, <2>4, UpdateJobFacts, AnswerEnds
    <3>2. PICK priority \in Priorities, maxIterations \in Int :
             Writes(req[c].id, Patched(req[c].job, priority, maxIterations))
      BY <1>t, <2>4, UpdateJobFacts
    <3>3. req[c].job \in JobRecord
      BY <1>t, <3>1, RequestFacts
    <3>4. Patched(req[c].job, priority, maxIterations).status = req[c].job.status
      BY <3>3 DEF Patched, JobRecord
    <3>5. req[c].id = id /\ req[c].job.status = "queued"
      BY <3>2, <3>4 DEF Writes
    <3> QED BY <3>1, <3>5 DEF PatchWrites
  <2>5. CASE AnswerError(c)
    BY <1>u, <2>5 DEF AnswerError
  <2> QED BY <1>3, <2>1, <2>2, <2>3, <2>4, <2>5 DEF Respond
<1>4. CASE ApiStep
  <2>1. ASSUME NEW c \in Clients, NEW op \in Ops, NEW other \in Ids, LoadJob(c, op, other)
        PROVE  FALSE
    BY <1>u, <2>1 DEF LoadJob
  <2> QED BY <1>1, <1>2, <1>3, <1>4, <2>1 DEF ApiStep, ApiNext
<1>5. ASSUME NEW c \in Clients, ResumeJob(c) PROVE Goal
  BY <1>3, <1>5 DEF ResumeJob, Respond
<1>6. CASE SchedulerStep
  <2>1. ASSUME Start \/ SelectStop \/ SelectSignal \/ SelectTick \/ DequeueNothing
               \/ Setup \/ Finalize
        PROVE  FALSE
    BY <1>u, <2>1 DEF Start, SelectStop, SelectSignal, SelectTick, DequeueNothing,
                      Setup, Finalize
  <2>2. ASSUME NEW other \in Heads, DequeueJob(other) PROVE FALSE
    <3>1. rows[other] \in JobRecord
      BY <1>t, RowsAreJobs DEF RowsOK, Heads, Queued
    <3> QED BY <1>t, <1>w, <2>2, <3>1, DequeueJobFacts DEF Statuses
  <2>3. ASSUME NEW iterations \in ParsedIterations, NEW done \in BOOLEAN,
               ClaudeExits(iterations, done)
        PROVE  FALSE
    BY <1>u, <2>3 DEF ClaudeExits
  <2>4. ASSUME SaveIteration \/ SavePR PROVE FALSE
    <3>1. task # NoTask
      BY <1>t, <2>4 DEF SaveIteration, SavePR, SchedulerOK
    <3>2. Writes(task.id, task.job)
      BY <1>t, <1>u, <2>4, <3>1, UpdateOrLogFacts DEF SaveIteration, SavePR
    <3> QED BY <1>t, <3>1, <3>2, TaskFacts, WriteRequeuesNothing
  <2>5. ASSUME CompleteTask PROVE FALSE
    BY <1>t, <1>u, <1>w, <2>5, CompleteTaskFacts, TaskFacts DEF Statuses
  <2>6. ASSUME FailTask PROVE FALSE
    BY <1>t, <1>u, <1>w, <2>6, FailTaskFacts DEF Statuses
  <2> QED BY <1>6, <2>1, <2>2, <2>3, <2>4, <2>5, <2>6
          DEF SchedulerStep, SchedulerNext, ProcessNext, Handle
<1>7. CASE Cancellation \/ Crash \/ UNCHANGED vars
  BY <1>u, <1>7 DEF Cancellation, CancelContext, Crash, vars
<1> QED BY <1>4, <1>5, <1>6, <1>7 DEF Next

\* A row returns to the queue only by a PATCH that read it while it waited: no
\* other endpoint, no scheduler step and no restart can have it run twice.
THEOREM RequeuedByPatch == Spec => OnlyPatchRequeues
<1>1. TypeOK /\ [Next]_vars =>
         [\A id \in Ids :
             rows[id].status # "queued" /\ rows'[id].status = "queued" =>
                \E c \in Clients : /\ req[c].op = "patch"
                                   /\ req[c].id = id
                                   /\ req[c].job.status = "queued"
                                   /\ ~Busy(c)']_vars
  BY RequeueStep DEF PatchWrites
<1> QED BY <1>1, TypeCorrect, PTL DEF Spec, OnlyPatchRequeues

-----------------------------------------------------------------------------
(***************************************************************************)
(* No finished job without its PR.                                         *)
(***************************************************************************)

\* The URL is in the copy from the moment the PR is open.
PRInv == FinishedHasPR /\ (pc = "save_pr" => task.job.prURL)

\* Every step keeps it: only Finalize leads from the promise, or from the last
\* iteration, to the end of the handler.
LEMMA PRStep ==
    ASSUME TypeOK, PRInv, [Next]_vars
    PROVE  PRInv'
<1>t. SchedulerOK
  BY DEF TypeOK
<1>1. ASSUME UNCHANGED <<pc, task>> PROVE PRInv'
  BY <1>1 DEF PRInv, FinishedHasPR, HasReachedMaxIterations
<1>2. ASSUME pc' \notin {"complete", "save_pr"} PROVE PRInv'
  BY <1>2 DEF PRInv, FinishedHasPR
<1>3. ASSUME NEW iterations \in ParsedIterations, NEW done \in BOOLEAN,
             ClaudeExits(iterations, done)
      PROVE  PRInv'
  <2>1. CASE pc' = "save_iteration"
    BY <1>2, <2>1
  <2>2. CASE pc' = AfterClaude(task.job, done) /\ task'.job = task.job
    <3>1. task'.done = done
      BY <1>t, <1>3, ClaudeExitsFacts
    <3>2. pc' = "complete" => ~task'.done /\ ~HasReachedMaxIterations(task'.job)
      BY <2>2, <3>1 DEF AfterClaude, HasReachedMaxIterations
    <3>3. pc' # "save_pr"
      BY <2>2 DEF AfterClaude
    <3> QED BY <3>2, <3>3 DEF PRInv, FinishedHasPR, HasReachedMaxIterations
  <2> QED BY <1>t, <1>3, <2>1, <2>2, ClaudeExitsFacts
<1>4. ASSUME SaveIteration PROVE PRInv'
  <2>1. task' = task /\ pc' = AfterClaude(task.job, task.done)
    BY <1>4 DEF SaveIteration
  <2> QED BY <2>1 DEF AfterClaude, PRInv, FinishedHasPR, HasReachedMaxIterations
<1>5. ASSUME Finalize PROVE PRInv'
  <2>1. CASE pc' = "fail"
    BY <1>2, <2>1
  <2>2. CASE pc' = "save_pr" /\ task'.job = [task.job EXCEPT !.prURL = TRUE]
    <3>1. task.job \in JobRecord
      BY <1>t, <1>5, FinalizeFacts, TaskFacts
    <3>2. task'.job.prURL = TRUE
      BY <2>2, <3>1 DEF JobRecord
    <3> QED BY <2>2, <3>2 DEF PRInv, FinishedHasPR
  <2> QED BY <1>t, <1>5, <2>1, <2>2, FinalizeFacts
<1>6. ASSUME SavePR PROVE PRInv'
  BY <1>6 DEF SavePR, PRInv, FinishedHasPR
<1>7. CASE SchedulerStep
  <2>1. CASE Start \/ SelectStop \/ SelectSignal \/ SelectTick \/ DequeueNothing \/ Setup
    BY <1>2, <2>1 DEF Start, SelectStop, SelectSignal, SelectTick, DequeueNothing, Setup
  <2>2. ASSUME NEW id \in Heads, DequeueJob(id) PROVE PRInv'
    BY <1>2, <2>2 DEF DequeueJob
  <2>3. CASE CompleteTask \/ FailTask
    BY <1>2, <2>3 DEF CompleteTask, FailTask, Forget
  <2> QED BY <1>3, <1>4, <1>5, <1>6, <1>7, <2>1, <2>2, <2>3
          DEF SchedulerStep, SchedulerNext, ProcessNext, Handle
<1>8. CASE ApiStep \/ (\E c \in Clients : ResumeJob(c)) \/ Cancellation \/ UNCHANGED vars
  BY <1>1, <1>8 DEF ApiStep, ResumeJob, Cancellation, CancelContext, schedulerVars, vars
<1>9. CASE Crash
  BY <1>2, <1>9 DEF Crash
<1> QED BY <1>7, <1>8, <1>9 DEF Next

\* A job that Claude promised to be done, or that used up its iterations, is
\* not handed to Complete without the PR of its result (Handle, finalize).
THEOREM FinishedJobsHavePR == Spec => []FinishedHasPR
<1>1. Init => PRInv
  BY DEF Init, SchedulerInit, PRInv, FinishedHasPR
<1>2. TypeOK /\ PRInv /\ [Next]_vars => PRInv'
  BY PRStep
<1>3. PRInv => FinishedHasPR
  BY DEF PRInv
<1> QED BY <1>1, <1>2, <1>3, TypeCorrect, PTL DEF Spec

-----------------------------------------------------------------------------
(***************************************************************************)
(* What Claude has achieved on a job.  Without PATCH a job is taken off    *)
(* the queue once, and then nobody knows more of it than the handler.      *)
(***************************************************************************)

NoPatch == "patch" \notin Ops

\* A request in flight is one that was, or has just read a row.
LEMMA RequestStep ==
    ASSUME TypeOK, [Next]_vars, NEW c \in Clients, Busy(c)'
    PROVE  \/ Busy(c) /\ req'[c] = req[c]
           \/ /\ UNCHANGED <<rows, task>>
              /\ req'[c].id \in Ids
              /\ req'[c].job = rows[req'[c].id]
<1> DEFINE Goal == \/ Busy(c) /\ req'[c] = req[c]
                   \/ /\ UNCHANGED <<rows, task>>
                      /\ req'[c].id \in Ids
                      /\ req'[c].job = rows[req'[c].id]
<1>t. RowsOK /\ RequestsOK /\ SchedulerOK
  BY DEF TypeOK
<1>1. CASE UNCHANGED req
  BY <1>1 DEF Busy
<1>2. ASSUME NEW d \in Clients, Answer(d)
      PROVE  Goal
  BY <1>t, <1>2 DEF RequestsOK, Answer, Busy
<1>3. ASSUME NEW d \in Clients, NEW op \in Ops, NEW id \in Ids,
             LoadJob(d, op, id), UNCHANGED schedulerVars
      PROVE  Goal
  <2>1. /\ UNCHANGED rows
        /\ req'[d] = [op |-> op, id |-> id, job |-> rows[id]]
        /\ \A other \in Clients \ {d} : req'[other] = req[other]
    BY <1>t, <1>3, LoadJobFacts
  <2>2. CASE c = d
    BY <1>3, <2>1, <2>2 DEF schedulerVars
  <2>3. CASE c # d
    BY <2>1, <2>3 DEF Busy
  <2> QED BY <2>2, <2>3
<1>4. ASSUME NEW d \in Clients, Respond(d) PROVE Goal
  BY <1>2, <1>4 DEF Respond, HandleCancelJob, HandlePauseJob, HandleResumeJob,
                    HandleUpdateJob, AnswerError
<1>5. ASSUME NEW d \in Clients, ResumeJob(d) PROVE Goal
  BY <1>4, <1>5 DEF ResumeJob, Respond
<1>6. CASE ApiStep
  BY <1>1, <1>3, <1>4, <1>6 DEF ApiStep, ApiNext, HandleCreateJob, HandleReorderJobs
<1>7. CASE SchedulerStep \/ Cancellation \/ UNCHANGED vars
  BY <1>1, <1>7 DEF SchedulerStep, Cancellation, vars
<1>8. CASE Crash
  BY <1>8 DEF Crash, Busy
<1> QED BY <1>5, <1>6, <1>7, <1>8 DEF Next

\* The job the scheduler works on is the one it worked on, of which the handler
\* now knows no less, or one it has just taken off the queue.
LEMMA TaskStep ==
    ASSUME TypeOK, [Next]_vars, task' # NoTask
    PROVE  \/ task # NoTask /\ task'.id = task.id /\ Behind(task.job, task'.job)
           \/ \E id \in Queued : /\ Writes(id, TransitionTo(rows[id], "running"))
                                 /\ task' = Run(id, TransitionTo(rows[id], "running"))
                                 /\ UNCHANGED req
<1> DEFINE Goal == \/ task # NoTask /\ task'.id = task.id /\ Behind(task.job, task'.job)
                   \/ \E id \in Queued :
                         /\ Writes(id, TransitionTo(rows[id], "running"))
                         /\ task' = Run(id, TransitionTo(rows[id], "running"))
                         /\ UNCHANGED req
<1>t. RowsOK /\ RequestsOK /\ SchedulerOK
  BY DEF TypeOK
<1>1. CASE UNCHANGED task
  <2>1. task.job \in JobRecord
    BY <1>t, <1>1, TaskFacts
  <2>2. task.job.iteration \in Int
    BY <2>1 DEF JobRecord
  <2> QED BY <1>1, <2>2 DEF Behind
<1>2. CASE SchedulerStep
  <2>1. CASE Start \/ SelectStop \/ SelectSignal \/ SelectTick \/ DequeueNothing \/ Setup
    BY <1>1, <2>1
       DEF Start, SelectStop, SelectSignal, SelectTick, DequeueNothing, Setup
  <2>2. ASSUME NEW id \in Heads, DequeueJob(id) PROVE Goal
    BY <1>t, <1>2, <2>2, DequeueJobFacts DEF SchedulerStep
  <2>3. ASSUME NEW iterations \in ParsedIterations, NEW done \in BOOLEAN,
               ClaudeExits(iterations, done)
        PROVE  Goal
    <3>1. task # NoTask /\ task'.id = task.id
      BY <1>t, <2>3, ClaudeExitsFacts
    <3>2. task \in Task /\ task.job \in JobRecord
      BY <1>t, <3>1, TaskFacts
    <3>3. iterations \in Nat /\ task.job.iteration \in Nat
      BY <3>2, ParsedIterationsAssumption DEF JobRecord
    <3>4. CASE iterations > task.job.iteration
      <4>1. task'.job = [task.job EXCEPT !.iteration = iterations]
        BY <2>3, <3>2, <3>4 DEF ClaudeExits, Task
      <4>2. task'.job.iteration = iterations /\ task'.job.prURL = task.job.prURL
        BY <3>2, <4>1 DEF JobRecord
      <4> QED BY <3>1, <3>3, <3>4, <4>2 DEF Behind
    <3>5. CASE ~(iterations > task.job.iteration)
      <4>1. task'.job = task.job
        BY <2>3, <3>2, <3>5 DEF ClaudeExits, Task
      <4> QED BY <3>1, <3>3, <4>1 DEF Behind
    <3> QED BY <3>4, <3>5
  <2>4. CASE SaveIteration \/ SavePR
    BY <1>1, <2>4 DEF SaveIteration, SavePR
  <2>5. CASE Finalize
    <3>1. CASE task' = task
      BY <1>1, <3>1
    <3>2. CASE /\ task'.id = task.id
               /\ task'.job = [task.job EXCEPT !.prURL = TRUE]
      <4>1. task # NoTask /\ task.job \in JobRecord
        BY <1>t, <2>5, FinalizeFacts, TaskFacts
      <4>2. task'.job.iteration = task.job.iteration /\ task'.job.prURL = TRUE
            /\ task.job.iteration \in Int
        BY <3>2, <4>1 DEF JobRecord
      <4> QED BY <3>2, <4>1, <4>2 DEF Behind
    <3> QED BY <1>t, <2>5, <3>1, <3>2, FinalizeFacts
  <2>6. ~CompleteTask /\ ~FailTask
    BY DEF CompleteTask, FailTask, Forget
  <2> QED BY <1>2, <2>1, <2>2, <2>3, <2>4, <2>5, <2>6
          DEF SchedulerStep, SchedulerNext, ProcessNext, Handle
<1>3. CASE ApiStep \/ (\E c \in Clients : ResumeJob(c)) \/ Cancellation \/ UNCHANGED vars
  BY <1>1, <1>3 DEF ApiStep, ResumeJob, Cancellation, CancelContext, schedulerVars, vars
<1>4. ~Crash
  BY DEF Crash
<1> QED BY <1>2, <1>3, <1>4 DEF Next

\* Without PATCH no row comes back to the queue.
LEMMA NoRequeueStep ==
    ASSUME NoPatch, TypeOK, [Next]_vars, NEW id \in Ids, rows[id].status # "queued"
    PROVE  rows'[id].status # "queued"
<1> SUFFICES ASSUME rows'[id].status = "queued" PROVE FALSE
  OBVIOUS
<1>1. PICK c \in Clients : req[c].op = "patch"
  BY RequeueStep DEF PatchWrites
<1>2. Busy(c)
  BY <1>1, OpIsBusy
<1> QED BY <1>1, <1>2, RequestFacts DEF NoPatch, TypeOK

\* What any goroutine has seen leave the queue stays off it.
LEMMA LeftStep ==
    ASSUME NoPatch, TypeOK, LeftTheQueue, [Next]_vars
    PROVE  LeftTheQueue'
<1>t. RowsOK /\ RequestsOK /\ SchedulerOK
  BY DEF TypeOK
<1>1. ASSUME NEW c \in Clients, Busy(c)', req'[c].job.status # "queued"
      PROVE  rows'[req'[c].id].status # "queued"
  <2>1. CASE Busy(c) /\ req'[c] = req[c]
    <3>1. req[c].id \in Ids /\ rows[req[c].id].status # "queued"
      BY <1>t, <1>1, <2>1, RequestFacts DEF LeftTheQueue
    <3> QED BY <2>1, <3>1, NoRequeueStep
  <2>2. CASE UNCHANGED rows /\ req'[c].job = rows[req'[c].id]
    BY <1>1, <2>2
  <2> QED BY <1>1, <2>1, <2>2, RequestStep
<1>2. ASSUME task' # NoTask
      PROVE  rows'[task'.id].status # "queued"
  <2>1. CASE task # NoTask /\ task'.id = task.id
    <3>1. task.id \in Ids /\ rows[task.id].status # "queued"
      BY <1>t, <2>1, TaskFacts DEF LeftTheQueue
    <3> QED BY <2>1, <3>1, NoRequeueStep
  <2>2. ASSUME NEW id \in Queued, Writes(id, TransitionTo(rows[id], "running")),
               task' = Run(id, TransitionTo(rows[id], "running"))
        PROVE  rows'[task'.id].status # "queued"
    <3>1. id \in Ids /\ rows[id] \in JobRecord
      BY <1>t, RowsAreJobs DEF RowsOK, Queued
    <3>2. TransitionTo(rows[id], "running").status # "queued"
      BY <3>1, TransitionLeavesQueue DEF Statuses
    <3> HIDE DEF TransitionTo
    <3> QED BY <2>2, <3>2 DEF Writes, Run
  <2> QED BY <1>2, <2>1, <2>2, TaskStep
<1> QED BY <1>1, <1>2 DEF LeftTheQueue

\* Without PATCH no write of a stale copy, whichever goroutine holds it, puts a
\* job back on the queue that any of them has seen leave it.
THEOREM LeavingIsForGood ==
    ASSUME NoPatch
    PROVE  Spec => []LeftTheQueue
<1>1. Init => LeftTheQueue
  BY DEF Init, ApiInit, SchedulerInit, LeftTheQueue, Busy
<1>2. TypeOK /\ LeftTheQueue /\ [Next]_vars => LeftTheQueue'
  BY LeftStep
<1> QED BY <1>1, <1>2, TypeCorrect, PTL DEF Spec

\* A transition leaves what Claude has achieved as it is.
LEMMA TransitionKeepsProgress ==
    ASSUME NEW job \in JobRecord, NEW target \in Statuses
    PROVE  SameProgress(TransitionTo(job, target), job)
BY TransitionToFacts DEF SameProgress

\* A row's iteration and PR only change to those of a copy that is written.
LEMMA ProgressStep ==
    ASSUME TypeOK, [Next]_vars, NEW id \in Ids
    PROVE  \/ SameProgress(rows'[id], rows[id])
           \/ \E c \in Clients : /\ Busy(c) /\ ~Busy(c)'
                                 /\ req[c].id = id
                                 /\ SameProgress(rows'[id], req[c].job)
           \/ /\ task # NoTask /\ task.id = id
              /\ SameProgress(rows'[id], task.job)
<1> DEFINE ByRequest(c) == /\ Busy(c) /\ ~Busy(c)'
                           /\ req[c].id = id
                           /\ SameProgress(rows'[id], req[c].job)
           Goal == \/ SameProgress(rows'[id], rows[id])
                   \/ \E c \in Clients : ByRequest(c)
                   \/ /\ task # NoTask /\ task.id = id
                      /\ SameProgress(rows'[id], task.job)
<1>t. RowsOK /\ RequestsOK /\ SchedulerOK
  BY DEF TypeOK
<1>1. CASE rows'[id] = rows[id]
  BY <1>1 DEF SameProgress
<1>2. ASSUME NEW c \in Clients, Busy(c), Answer(c), NEW job,
             Writes(req[c].id, job), SameProgress(job, req[c].job)
      PROVE  Goal
  <2>1. CASE req[c].id = id
    <3>1. ByRequest(c)
      BY <1>t, <1>2, <2>1, AnswerEnds DEF Writes
    <3> QED BY <3>1
  <2>2. CASE req[c].id # id
    BY <1>1, <1>2, <2>2 DEF Writes
  <2> QED BY <2>1, <2>2
<1>3. ASSUME task # NoTask, NEW job, SameProgress(job, task.job),
             UNCHANGED rows \/ Writes(task.id, job)
      PROVE  Goal
  BY <1>1, <1>3 DEF Writes
<1>4. ASSUME NEW priority \in CreatePriorities, NEW maxIterations \in CreateMaxIterations,
             HandleCreateJob(priority, maxIterations)
      PROVE  Goal
  <2>1. priority \in Priorities /\ maxIterations \in Int
    BY InputAssumption
  <2> QED BY <1>t, <1>1, <1>4, <2>1, CreateJobFacts
<1>5. ASSUME NEW ids \in ReorderLists, HandleReorderJobs(ids) PROVE Goal
  <2>1. rows[id] \in JobRecord
    BY <1>t, RowsAreJobs DEF RowsOK
  <2>2. SameProgress(rows'[id], rows[id])
    BY <1>t, <1>5, <2>1, ReorderFacts DEF JobRecord, SameProgress
  <2> QED BY <2>2
<1>6. ASSUME NEW c \in Clients, Respond(c) PROVE Goal
  <2>1. CASE HandleCancelJob(c)
    BY <1>t, <1>2, <2>1, CancelJobFacts, RequestFacts, TransitionKeepsProgress DEF Statuses
  <2>2. CASE HandlePauseJob(c)
    BY <1>t, <1>2, <2>2, PauseJobFacts, RequestFacts, TransitionKeepsProgress DEF Statuses
  <2>3. CASE HandleResumeJob(c)
    BY <1>t, <1>2, <2>3, ResumeJobFacts, RequestFacts, TransitionKeepsProgress DEF Statuses
  <2>4. CASE HandleUpdateJob(c)
    <3>1. Busy(c) /\ Answer(c)
      BY <1>t, <2>4, UpdateJobFacts
    <3>2. PICK priority \in Priorities, maxIterations \in Int :
             Writes(req[c].id, Patched(req[c].job, priority, maxIterations))
      BY <1>t, <2>4, UpdateJobFacts
    <3>3. req[c].job \in JobRecord
      BY <1>t, <3>1, RequestFacts
    <3>4. SameProgress(Patched(req[c].job, priority, maxIterations), req[c].job)
      BY <3>3 DEF Patched, JobRecord, SameProgress
    <3> QED BY <1>2, <3>1, <3>2, <3>4
  <2>5. CASE AnswerError(c)
    BY <1>1, <2>5 DEF AnswerError
  <2> QED BY <1>6, <2>1, <2>2, <2>3, <2>4, <2>5 DEF Respond
<1>7. CASE ApiStep
  <2>1. ASSUME NEW c \in Clients, NEW op \in Ops, NEW other \in Ids, LoadJob(c, op, other)
        PROVE  Goal
    BY <1>1, <2>1 DEF LoadJob
  <2> QED BY <1>4, <1>5, <1>6, <1>7, <2>1 DEF ApiStep, ApiNext
<1>8. ASSUME NEW c \in Clients, ResumeJob(c) PROVE Goal
  BY <1>6, <1>8 DEF ResumeJob, Respond
<1>9. CASE SchedulerStep
  <2>1. CASE Start \/ SelectStop \/ SelectSignal \/ SelectTick \/ DequeueNothing
             \/ Setup \/ Finalize
    BY <1>1, <2>1 DEF Start, SelectStop, SelectSignal, SelectTick, DequeueNothing,
                      Setup, Finalize
  <2>2. ASSUME NEW other \in Heads, DequeueJob(other) PROVE Goal
    <3>1. Writes(other, TransitionTo(rows[other], "running"))
      BY <1>t, <2>2, DequeueJobFacts
    <3>2. CASE other = id
      <4>1. rows[id] \in JobRecord
        BY <1>t, RowsAreJobs DEF RowsOK
      <4>2. SameProgress(rows'[id], rows[id])
        BY <3>1, <3>2, <4>1, TransitionKeepsProgress DEF Writes, Statuses
      <4> QED BY <4>2
    <3>3. CASE other # id
      BY <1>1, <3>1, <3>3 DEF Writes
    <3> QED BY <3>2, <3>3
  <2>3. ASSUME NEW iterations \in ParsedIterations, NEW done \in BOOLEAN,
               ClaudeExits(iterations, done)
        PROVE  Goal
    BY <1>1, <2>3 DEF ClaudeExits
  <2>4. CASE SaveIteration \/ SavePR
    <3>1. task # NoTask
      BY <1>t, <2>4 DEF SaveIteration, SavePR, SchedulerOK
    <3>2. UNCHANGED rows \/ Writes(task.id, task.job)
      BY <1>t, <2>4, <3>1, UpdateOrLogFacts DEF SaveIteration, SavePR
    <3> QED BY <1>3, <3>1, <3>2 DEF SameProgress
  <2>5. CASE CompleteTask
    BY <1>t, <1>3, <2>5, CompleteTaskFacts, TaskFacts, TransitionKeepsProgress DEF Statuses
  <2>6. CASE FailTask
    <3>1. task # NoTask /\ Erring(task.job) \in JobRecord /\ task.job \in JobRecord
      BY <1>t, <2>6, FailTaskFacts, TaskFacts
    <3>2. SameProgress(Erring(task.job), task.job)
      BY <3>1 DEF Erring, JobRecord, SameProgress
    <3>3. SameProgress(TransitionTo(Erring(task.job), "failed"), Erring(task.job))
      BY <3>1, TransitionKeepsProgress DEF Statuses
    <3>4. SameProgress(TransitionTo(Erring(task.job), "failed"), task.job)
      BY <3>2, <3>3 DEF SameProgress
    <3> QED BY <1>t, <1>3, <2>6, <3>4, FailTaskFacts
  <2> QED BY <1>9, <2>1, <2>2, <2>3, <2>4, <2>5, <2>6
          DEF SchedulerStep, SchedulerNext, ProcessNext, Handle
<1>10. CASE Cancellation \/ Crash \/ UNCHANGED vars
  BY <1>1, <1>10 DEF Cancellation, CancelContext, Crash, vars
<1> QED BY <1>7, <1>8, <1>9, <1>10 DEF Next

\* Neither the row of the job the handler works on nor a copy of it that a
\* request holds knows more of it than the handler.
KnowsMost ==
    task # NoTask =>
        /\ Behind(rows[task.id], task.job)
        /\ \A c \in Clients :
              Busy(c) /\ req[c].id = task.id => Behind(req[c].job, task.job)

\* Behind is an order on jobs.
LEMMA BehindIsOrder ==
    ASSUME NEW job \in JobRecord, NEW other \in JobRecord
    PROVE  /\ SameProgress(job, other) => Behind(job, other)
           /\ \A third \in JobRecord :
                 Behind(job, other) /\ Behind(other, third) => Behind(job, third)
<1>1. job.iteration \in Int /\ other.iteration \in Int
  BY DEF JobRecord
<1>2. \A third \in JobRecord : third.iteration \in Int
  BY DEF JobRecord
<1> QED BY <1>1, <1>2 DEF SameProgress, Behind

\* A job that waits has no progress yet, and this is what Dequeue hands out.
LEMMA WaitingKnowsNothing ==
    ASSUME NEW job \in JobRecord, job.status = "queued", Coherent(job),
           NEW other \in JobRecord
    PROVE  Behind(job, other)
<1>1. job.iteration = 0 /\ ~job.prURL /\ other.iteration \in Nat
  BY DEF Coherent, JobRecord
<1> QED BY <1>1 DEF Behind

\* A handler that knows most of its job still does after any step.
LEMMA KnowsMostStep ==
    ASSUME NoPatch, TypeOK, TypeOK', RowCoherence, LeftTheQueue, KnowsMost, [Next]_vars
    PROVE  KnowsMost'
<1> SUFFICES ASSUME task' # NoTask
             PROVE  /\ Behind(rows'[task'.id], task'.job)
                    /\ \A c \in Clients :
                          Busy(c)' /\ req'[c].id = task'.id =>
                             Behind(req'[c].job, task'.job)
  BY DEF KnowsMost
<1>t. RowsOK /\ RequestsOK /\ SchedulerOK /\ RowsOK' /\ RequestsOK' /\ SchedulerOK'
  BY DEF TypeOK
<1>r. \A id \in Ids : rows[id] \in JobRecord
  BY <1>t, RowsAreJobs DEF RowsOK
<1>q. \A c \in Clients : Busy(c) => req[c].id \in Ids /\ req[c].job \in JobRecord
  BY <1>t, RequestFacts
<1>n. /\ task'.job \in JobRecord
      /\ rows'[task'.id] \in JobRecord
  BY <1>t, RowsAreJobs DEF RowsOK, SchedulerOK, Task, Ids
<1>1. CASE task # NoTask /\ task'.id = task.id /\ Behind(task.job, task'.job)
  <2>t. task.id \in Ids /\ task.job \in JobRecord
    BY <1>t, <1>1, TaskFacts
  <2>k. ASSUME NEW job \in JobRecord, Behind(job, task.job)
        PROVE  Behind(job, task'.job)
    BY <1>1, <1>n, <2>t, <2>k, BehindIsOrder
  <2>1. Behind(rows'[task'.id], task'.job)
    <3>1. CASE SameProgress(rows'[task.id], rows[task.id])
      BY <1>1, <1>r, <2>t, <2>k, <3>1 DEF KnowsMost, SameProgress, Behind
    <3>2. ASSUME NEW c \in Clients, Busy(c), req[c].id = task.id,
                 SameProgress(rows'[task.id], req[c].job)
          PROVE  Behind(rows'[task'.id], task'.job)
      BY <1>1, <1>q, <2>k, <3>2 DEF KnowsMost, SameProgress, Behind
    <3>3. CASE SameProgress(rows'[task.id], task.job)
      BY <1>1, <3>3 DEF SameProgress, Behind
    <3> QED BY <2>t, <3>1, <3>2, <3>3, ProgressStep
  <2>2. ASSUME NEW c \in Clients, Busy(c)', req'[c].id = task'.id
        PROVE  Behind(req'[c].job, task'.job)
    <3>1. CASE Busy(c) /\ req'[c] = req[c]
      BY <1>1, <1>q, <2>2, <2>k, <3>1 DEF KnowsMost
    <3>2. CASE req'[c].job = rows[req'[c].id]
      BY <1>1, <1>r, <2>t, <2>2, <2>k, <3>2 DEF KnowsMost
    <3> QED BY <2>2, <3>1, <3>2, RequestStep
  <2> QED BY <2>1, <2>2
<1>2. ASSUME NEW id \in Queued, Writes(id, TransitionTo(rows[id], "running")),
             task' = Run(id, TransitionTo(rows[id], "running")), UNCHANGED req
      PROVE  /\ Behind(rows'[task'.id], task'.job)
             /\ \A c \in Clients :
                   Busy(c)' /\ req'[c].id = task'.id => Behind(req'[c].job, task'.job)
  <2>1. task'.id = id /\ rows'[id] = task'.job
    <3> HIDE DEF TransitionTo
    <3> QED BY <1>2 DEF Writes, Run
  <2>2. Behind(rows'[task'.id], task'.job)
    BY <1>n, <2>1, BehindIsOrder DEF SameProgress
  <2>3. ASSUME NEW c \in Clients, Busy(c)', req'[c].id = task'.id
        PROVE  Behind(req'[c].job, task'.job)
    <3>1. Busy(c) /\ req'[c] = req[c] /\ req[c].id = id
      BY <1>2, <2>1, <2>3 DEF Busy
    <3>2. req[c].job.status = "queued"
      BY <1>2, <3>1 DEF LeftTheQueue, Queued
    <3>3. Coherent(req[c].job) /\ req[c].job \in JobRecord
      BY <1>q, <3>1 DEF RowCoherence, RequestsCoherent
    <3> QED BY <1>n, <3>1, <3>2, <3>3, WaitingKnowsNothing
  <2> QED BY <2>2, <2>3
<1> QED BY <1>1, <1>2, TaskStep

\* Without PATCH only a request that was in flight when the handler stored an
\* iteration or a PR can undo it: neither a restart nor a new start can, nor the
\* handler's own later writes, whatever requests have written in between.
THEOREM HandlerForgetsNothing ==
    ASSUME NoPatch
    PROVE  Spec => ProgressIsKept
<1>1. Init => KnowsMost
  BY DEF Init, SchedulerInit, KnowsMost
<1>2. TypeOK /\ TypeOK' /\ RowCoherence /\ LeftTheQueue /\ KnowsMost /\ [Next]_vars
         => KnowsMost'
  BY KnowsMostStep
<1>3. ASSUME TypeOK, KnowsMost, [Next]_vars, NEW id \in Ids, TypeOK',
             ~Behind(rows[id], rows'[id])
      PROVE  \E c \in Clients : /\ Busy(c) /\ ~Busy(c)'
                                /\ req[c].id = id
                                /\ SameProgress(rows'[id], req[c].job)
  <2>1. rows[id] \in JobRecord
    BY <1>3, RowsAreJobs DEF TypeOK, RowsOK
  <2>2. ~SameProgress(rows'[id], rows[id])
    BY <1>3, <2>1 DEF SameProgress, Behind, JobRecord
  <2>3. ~(/\ task # NoTask /\ task.id = id
          /\ SameProgress(rows'[id], task.job))
    BY <1>3 DEF KnowsMost, SameProgress, Behind
  <2> QED BY <1>3, <2>2, <2>3, ProgressStep
<1>4. TypeOK /\ TypeOK' /\ KnowsMost /\ [Next]_vars =>
         [\A id \in Ids : ~Behind(rows[id], rows'[id]) =>
             \E c \in Clients : /\ Busy(c) /\ ~Busy(c)'
                                /\ req[c].id = id
                                /\ SameProgress(rows'[id], req[c].job)]_vars
  BY <1>3
<1> QED BY <1>1, <1>2, <1>4, TypeCorrect, RowsStayCoherent, LeavingIsForGood, PTL
        DEF Spec, ProgressIsKept

=============================================================================
