------------------------- MODULE RalphServerProofs -------------------------
(***************************************************************************)
(* Proofs about RalphServer, for every value of its constants.             *)
(***************************************************************************)
EXTENDS RalphServer, QueueProofs

-----------------------------------------------------------------------------
(***************************************************************************)
(* Type correctness.                                                       *)
(***************************************************************************)

\* A request in flight holds a job and the id of a stored one.
LEMMA RequestFacts ==
    ASSUME RequestsOK, NEW c \in Clients, Busy(c)
    PROVE  /\ req[c] \in Request
           /\ req[c].op \in Ops
           /\ req[c].id \in Ids
           /\ req[c].job \in JobRecord
BY DEF RequestsOK, Request, Busy

\* A request with an operation is no idle client.
LEMMA OpIsBusy ==
    ASSUME NEW c, req[c].op # "idle"
    PROVE  Busy(c)
BY DEF Busy, Idle

\* What the handler works on is a stored job, and its copy is running.
LEMMA TaskFacts ==
    ASSUME SchedulerOK, task # NoTask
    PROVE  /\ task \in Task
           /\ task.id \in Ids
           /\ task.job \in JobRecord
           /\ task.job.status = "running"
           /\ task.done \in BOOLEAN
BY DEF SchedulerOK, Task

\* Requests stay well-formed while the table only grows.
LEMMA RequestsKept ==
    ASSUME RequestsOK, UNCHANGED req, Ids \subseteq Ids'
    PROVE  RequestsOK'
BY DEF RequestsOK, Busy

\* An answer ends one request and leaves the others as they are.
LEMMA AnswerKeepsRequests ==
    ASSUME RequestsOK, NEW c \in Clients, Answer(c), Ids \subseteq Ids'
    PROVE  /\ RequestsOK'
           /\ \A d \in Clients : Busy(d)' => Busy(d) /\ req'[d] = req[d]
<1>1. req' \in [Clients -> Request \cup {Idle}]
  BY DEF RequestsOK, Answer
<1>2. ASSUME NEW d \in Clients, Busy(d)' PROVE Busy(d) /\ req'[d] = req[d]
  BY <1>2 DEF RequestsOK, Answer, Busy
<1> QED BY <1>1, <1>2 DEF RequestsOK

\* The scheduler stays well-formed while it stands still and the table only
\* grows.
LEMMA SchedulerKept ==
    ASSUME SchedulerOK, UNCHANGED schedulerVars, Ids \subseteq Ids'
    PROVE  SchedulerOK'
BY DEF SchedulerOK, schedulerVars

\* The server starts well-formed.
LEMMA InitTypeOK == Init => TypeOK
<1> SUFFICES ASSUME Init PROVE TypeOK
  OBVIOUS
<1>1. RowsOK
  BY EmptySeq DEF Init, RowsOK
<1>2. RequestsOK
  BY DEF Init, ApiInit, RequestsOK, Busy
<1>3. SchedulerOK
  BY DEF Init, SchedulerInit, SchedulerOK, Pcs
<1> QED BY <1>1, <1>2, <1>3 DEF TypeOK

-----------------------------------------------------------------------------
(***************************************************************************)
(* What each action does to the table.                                     *)
(***************************************************************************)

\* One row becomes the given job, the others stay.
Writes(id, job) ==
    /\ id \in Ids
    /\ job \in JobRecord
    /\ RowsOK'
    /\ Len(rows') = Len(rows)
    /\ Ids' = Ids
    /\ rows'[id] = job
    /\ \A other \in Ids \ {id} : rows'[other] = rows[other]

\* UPDATE with a job keeps the table well-formed and writes that job.
LEMMA UpdateWrites ==
    ASSUME RowsOK, NEW id \in Ids, NEW job \in JobRecord, Update(id, job)
    PROVE  Writes(id, job)
BY UpdateFacts DEF RowsOK, Writes

\* A move keeps the table well-formed and writes the copy after its transition.
LEMMA MoveWrites ==
    ASSUME RowsOK, NEW id \in Ids, NEW job \in JobRecord,
           NEW target \in Statuses, Move(id, job, target)
    PROVE  /\ CanTransitionTo(job.status, target)
           /\ Writes(id, TransitionTo(job, target))
<1>1. TransitionTo(job, target) \in JobRecord
  BY TransitionToFacts
<1>2. Update(id, TransitionTo(job, target)) /\ CanTransitionTo(job.status, target)
  BY DEF Move
<1> QED BY <1>1, <1>2, UpdateWrites

\* A job that was just stored.
IsNew(job, priority, maxIterations, position) ==
    /\ job \in JobRecord
    /\ job.status = "queued"
    /\ job.priority = priority
    /\ job.maxIterations = maxIterations
    /\ job.position = position
    /\ job.iteration = 0
    /\ job.startedAt = FALSE
    /\ job.pausedAt = FALSE
    /\ job.completedAt = FALSE
    /\ job.prURL = FALSE
    /\ job.error = FALSE

\* What POST /jobs does: one more row, waiting, at the next position.
LEMMA CreateJobFacts ==
    ASSUME RowsOK, NEW priority \in Priorities, NEW maxIterations \in Int,
           HandleCreateJob(priority, maxIterations)
    PROVE  /\ RowsOK'
           /\ Len(rows') = Len(rows) + 1
           /\ Ids' = Ids \cup {Len(rows) + 1}
           /\ Len(rows) + 1 \notin Ids
           /\ \A id \in Ids : rows'[id] = rows[id]
           /\ IsNew(rows'[Len(rows) + 1], priority, maxIterations, NextPosition)
           /\ UNCHANGED req
<1> DEFINE job == [NewJob(priority, maxIterations) EXCEPT !.status = "queued"]
<1>1. Create(job) /\ UNCHANGED req
  BY DEF HandleCreateJob, Enqueue
<1>2. IsNew([job EXCEPT !.position = NextPosition],
            priority, maxIterations, NextPosition)
  <2>1. NextPosition \in Nat \ {0}
    BY NextPositionFacts DEF RowsOK
  <2> QED BY <2>1 DEF IsNew, NewJob, JobRecord, Statuses
<1>3. Len(rows) + 1 \notin Ids
  BY IdsAreFinite DEF RowsOK
<1> HIDE DEF job
<1>4. [job EXCEPT !.position = NextPosition] \in JobRecord
  BY <1>2 DEF IsNew
<1>5. /\ rows' \in Seq(JobRecord)
      /\ Len(rows') = Len(rows) + 1
      /\ Ids' = Ids \cup {Len(rows) + 1}
      /\ \A id \in Ids : rows'[id] = rows[id]
      /\ rows'[Len(rows) + 1] = [job EXCEPT !.position = NextPosition]
  BY <1>1, <1>4, CreateFacts DEF RowsOK
<1> QED BY <1>1, <1>2, <1>3, <1>5 DEF RowsOK

\* What PUT /jobs/order does: positions change, and nothing else.
LEMMA ReorderFacts ==
    ASSUME RowsOK, NEW ids \in ReorderLists, HandleReorderJobs(ids)
    PROVE  /\ RowsOK'
           /\ Len(rows') = Len(rows)
           /\ Ids' = Ids
           /\ \A id \in Ids :
                 \/ rows'[id] = rows[id]
                 \/ \E p \in Nat \ {0} :
                       rows'[id] = [rows[id] EXCEPT !.position = p]
           /\ UNCHANGED req
<1>1. ids \in Seq(Nat)
  BY ReorderAssumption
<1>2. 1 .. Len(ids) \subseteq Nat \ {0}
  BY <1>1
<1>3. UpdatePositions(ids) /\ UNCHANGED req
  BY DEF HandleReorderJobs, Reorder
<1> QED BY <1>1, <1>2, <1>3, UpdatePositionsFacts DEF RowsOK

\* What reading a job into a request does.
LEMMA LoadJobFacts ==
    ASSUME RowsOK, RequestsOK, NEW c \in Clients, NEW op \in Ops, NEW id \in Ids,
           LoadJob(c, op, id)
    PROVE  /\ UNCHANGED rows
           /\ RequestsOK'
           /\ req'[c] = [op |-> op, id |-> id, job |-> rows[id]]
           /\ \A d \in Clients \ {c} : req'[d] = req[d]
<1>1. id \in Nat \ {0} /\ rows[id] \in JobRecord
  BY IdsAreFinite, RowsAreJobs DEF RowsOK
<1>2. [op |-> op, id |-> id, job |-> rows[id]] \in Request
  BY <1>1 DEF Request
<1>3. UNCHANGED rows /\ Ids' = Ids
  BY DEF LoadJob, Get, Ids
<1>4. /\ req' \in [Clients -> Request \cup {Idle}]
      /\ req'[c] = [op |-> op, id |-> id, job |-> rows[id]]
      /\ \A d \in Clients \ {c} : req'[d] = req[d]
  BY <1>2 DEF LoadJob, Get, RequestsOK
<1>5. ASSUME NEW d \in Clients, Busy(d)' PROVE req'[d].id \in Ids'
  <2>1. CASE d = c
    BY <1>3, <1>4, <2>1
  <2>2. CASE d # c
    BY <1>3, <1>4, <1>5, <2>2 DEF RequestsOK, Busy
  <2> QED BY <2>1, <2>2
<1> QED BY <1>3, <1>4, <1>5 DEF RequestsOK

\* What answering a cancel request does.
LEMMA CancelJobFacts ==
    ASSUME RowsOK, RequestsOK, NEW c \in Clients, HandleCancelJob(c)
    PROVE  /\ Busy(c)
           /\ CanTransitionTo(req[c].job.status, "cancelled")
           /\ Writes(req[c].id, TransitionTo(req[c].job, "cancelled"))
           /\ Answer(c)
<1>1. Busy(c) /\ Move(req[c].id, req[c].job, "cancelled") /\ Answer(c)
  BY OpIsBusy DEF HandleCancelJob, Cancel
<1> QED BY <1>1, RequestFacts, MoveWrites DEF Statuses

\* What answering a pause request does.
LEMMA PauseJobFacts ==
    ASSUME RowsOK, RequestsOK, NEW c \in Clients, HandlePauseJob(c)
    PROVE  /\ Busy(c)
           /\ CanTransitionTo(req[c].job.status, "paused")
           /\ Writes(req[c].id, TransitionTo(req[c].job, "paused"))
           /\ Answer(c)
<1>1. Busy(c) /\ Move(req[c].id, req[c].job, "paused") /\ Answer(c)
  BY OpIsBusy DEF HandlePauseJob, Pause
<1> QED BY <1>1, RequestFacts, MoveWrites DEF Statuses

\* What answering a resume request does.
LEMMA ResumeJobFacts ==
    ASSUME RowsOK, RequestsOK, NEW c \in Clients, HandleResumeJob(c)
    PROVE  /\ Busy(c)
           /\ req[c].job.status = "paused"
           /\ Writes(req[c].id, TransitionTo(req[c].job, "running"))
           /\ Answer(c)
<1>1. /\ Busy(c)
      /\ req[c].job.status = "paused"
      /\ Move(req[c].id, req[c].job, "running")
      /\ Answer(c)
  BY OpIsBusy DEF HandleResumeJob, Resume
<1> QED BY <1>1, RequestFacts, MoveWrites DEF Statuses

\* What answering a PATCH does.
LEMMA UpdateJobFacts ==
    ASSUME RowsOK, RequestsOK, NEW c \in Clients, HandleUpdateJob(c)
    PROVE  /\ Busy(c)
           /\ req[c].op = "patch"
           /\ \E priority \in Priorities, maxIterations \in Int :
                 Writes(req[c].id, Patched(req[c].job, priority, maxIterations))
           /\ Answer(c)
<1>1. Busy(c) /\ req[c].op = "patch" /\ Answer(c)
  BY OpIsBusy DEF HandleUpdateJob
<1>2. req[c].id \in Ids /\ req[c].job \in JobRecord
  BY <1>1, RequestFacts
<1>3. PICK priority \in PatchPriorities \cup {req[c].job.priority},
           maxIterations \in PatchMaxIterations \cup {req[c].job.maxIterations} :
              Update(req[c].id, Patched(req[c].job, priority, maxIterations))
  BY DEF HandleUpdateJob
<1>4. priority \in Priorities /\ maxIterations \in Int
  BY <1>2, InputAssumption DEF JobRecord
<1>5. Patched(req[c].job, priority, maxIterations) \in JobRecord
  BY <1>2, <1>4 DEF Patched, JobRecord
<1>6. Writes(req[c].id, Patched(req[c].job, priority, maxIterations))
  BY <1>2, <1>3, <1>5, UpdateWrites
<1> QED BY <1>1, <1>4, <1>6

\* The job the scheduler takes is a row that waits, and its copy is what it
\* writes.
LEMMA DequeueJobFacts ==
    ASSUME RowsOK, NEW id \in Heads, DequeueJob(id)
    PROVE  /\ id \in Queued
           /\ Writes(id, TransitionTo(rows[id], "running"))
           /\ task' = Run(id, TransitionTo(rows[id], "running"))
           /\ pc = "dequeue" /\ pc' = "setup"
           /\ UNCHANGED <<ctxDone, signal>>
<1>1. id \in Queued /\ id \in Ids
  BY DEF Heads, Queued
<1>2. rows[id] \in JobRecord
  BY <1>1, RowsAreJobs DEF RowsOK
<1>3. Writes(id, TransitionTo(rows[id], "running"))
  BY <1>1, <1>2, MoveWrites DEF DequeueJob, Statuses
<1> QED BY <1>1, <1>3 DEF DequeueJob

\* A write of the scheduler's copy that may be refused.
LEMMA UpdateOrLogFacts ==
    ASSUME RowsOK, SchedulerOK, task # NoTask, NEW write, UpdateOrLog(write)
    PROVE  UNCHANGED rows \/ Writes(task.id, task.job)
BY TaskFacts, UpdateWrites DEF UpdateOrLog

\* What the end of a job whose handler returned nil does.
LEMMA CompleteTaskFacts ==
    ASSUME RowsOK, SchedulerOK, CompleteTask
    PROVE  /\ task # NoTask
           /\ \/ UNCHANGED rows
              \/ Writes(task.id, TransitionTo(task.job, "completed"))
           /\ Forget
           /\ signal' = TRUE /\ UNCHANGED ctxDone
<1>1. task # NoTask
  BY DEF CompleteTask, SchedulerOK
<1>2. CASE UNCHANGED rows
  BY <1>1, <1>2 DEF CompleteTask
<1>3. CASE Complete(task.id, task.job)
  <2>1. Writes(task.id, TransitionTo(task.job, "completed"))
    BY <1>1, <1>3, TaskFacts, MoveWrites DEF Complete, Statuses
  <2> QED BY <1>1, <2>1 DEF CompleteTask
<1> QED BY <1>2, <1>3 DEF CompleteTask

Erring(job) == [job EXCEPT !.error = TRUE]

\* What the end of a job whose handler returned an error does.
LEMMA FailTaskFacts ==
    ASSUME RowsOK, SchedulerOK, FailTask
    PROVE  /\ task # NoTask
           /\ Erring(task.job) \in JobRecord
           /\ \/ UNCHANGED rows
              \/ Writes(task.id, TransitionTo(Erring(task.job), "failed"))
           /\ Forget
           /\ UNCHANGED <<ctxDone, signal>>
<1>1. task # NoTask
  BY DEF FailTask, SchedulerOK
<1>2. Erring(task.job) \in JobRecord
  BY <1>1, TaskFacts DEF Erring, JobRecord
<1>3. CASE UNCHANGED rows
  BY <1>1, <1>2, <1>3 DEF FailTask
<1>4. CASE Fail(task.id, task.job)
  <2>1. Writes(task.id, TransitionTo(Erring(task.job), "failed"))
    BY <1>1, <1>2, <1>4, TaskFacts, MoveWrites DEF Fail, Erring, Statuses
  <2> QED BY <1>1, <1>2, <2>1 DEF FailTask
<1> QED BY <1>3, <1>4 DEF FailTask

\* The handler keeps the id and the status of its job.
LEMMA ClaudeExitsFacts ==
    ASSUME SchedulerOK, NEW iterations \in ParsedIterations, NEW done \in BOOLEAN,
           ClaudeExits(iterations, done)
    PROVE  /\ task # NoTask
           /\ task' \in Task
           /\ task'.id = task.id
           /\ task'.done = done
           /\ \/ task'.job = task.job
              \/ task'.job = [task.job EXCEPT !.iteration = iterations]
           /\ \/ pc' = "save_iteration"
              \/ pc' = AfterClaude(task.job, done) /\ task'.job = task.job
           /\ UNCHANGED <<rows, ctxDone>>
<1>1. task # NoTask
  BY DEF ClaudeExits, SchedulerOK
<1>2. task \in Task /\ task.job \in JobRecord
  BY <1>1, TaskFacts
<1>3. iterations \in Nat
  BY ParsedIterationsAssumption
<1>4. [task.job EXCEPT !.iteration = iterations] \in JobRecord
  BY <1>2, <1>3 DEF JobRecord
<1>5. CASE iterations > task.job.iteration
  <2>1. task' = [task EXCEPT !.job.iteration = iterations, !.done = done]
    BY <1>5 DEF ClaudeExits
  <2>2. /\ task' \in Task
        /\ task'.id = task.id
        /\ task'.done = done
        /\ task'.job = [task.job EXCEPT !.iteration = iterations]
    BY <1>2, <1>4, <2>1 DEF Task
  <2> QED BY <1>1, <1>5, <2>2 DEF ClaudeExits
<1>6. CASE ~(iterations > task.job.iteration)
  <2>1. task' = [task EXCEPT !.done = done]
    BY <1>6 DEF ClaudeExits
  <2>2. task' \in Task /\ task'.id = task.id /\ task'.done = done /\ task'.job = task.job
    BY <1>2, <2>1 DEF Task
  <2> QED BY <1>1, <1>6, <2>2 DEF ClaudeExits
<1> QED BY <1>5, <1>6

\* What committing, pushing and opening the PR does.
LEMMA FinalizeFacts ==
    ASSUME SchedulerOK, Finalize
    PROVE  /\ task # NoTask
           /\ \/ task' = task /\ pc' = "fail"
              \/ /\ task' \in Task
                 /\ task'.id = task.id
                 /\ task'.job = [task.job EXCEPT !.prURL = TRUE]
                 /\ task'.done = task.done
                 /\ pc' = "save_pr"
           /\ UNCHANGED <<rows, ctxDone>>
<1>1. task # NoTask
  BY DEF Finalize, PushAndCreatePR, SchedulerOK
<1>2. task \in Task /\ task.job \in JobRecord
  BY <1>1, TaskFacts
<1>3. [task.job EXCEPT !.prURL = TRUE] \in JobRecord
  BY <1>2 DEF JobRecord
<1>4. CASE task' = [task EXCEPT !.job.prURL = TRUE] /\ pc' = "save_pr"
  <2>1. /\ task' \in Task
        /\ task'.id = task.id
        /\ task'.job = [task.job EXCEPT !.prURL = TRUE]
        /\ task'.done = task.done
    BY <1>2, <1>3, <1>4 DEF Task
  <2> QED BY <1>1, <1>4, <2>1 DEF Finalize, PushAndCreatePR
<1> QED BY <1>1, <1>4 DEF Finalize, PushAndCreatePR

-----------------------------------------------------------------------------
(***************************************************************************)
(* TypeOK is inductive.                                                    *)
(***************************************************************************)

\* The scheduler stays well-formed while the handler keeps its job.
LEMMA TaskHeld ==
    ASSUME SchedulerOK, task # NoTask, task' \in Task, task'.id = task.id,
           task'.job.status = task.job.status, Ids \subseteq Ids',
           pc' \in Pcs \ {"off", "dequeue", "select", "stopped"},
           UNCHANGED <<ctxDone, signal>>
    PROVE  SchedulerOK'
<1>1. task' # NoTask
  BY DEF Task, NoTask
<1>2. task'.id \in Ids' /\ task'.job.status = "running"
  BY TaskFacts
<1> QED BY <1>1, <1>2 DEF SchedulerOK

\* The scheduler stays well-formed when it goes back to select.
LEMMA TaskForgotten ==
    ASSUME SchedulerOK, Forget, signal' \in BOOLEAN, UNCHANGED ctxDone
    PROVE  SchedulerOK'
BY DEF SchedulerOK, Forget, Pcs

\* The job Dequeue returns is one the handler may work on.
LEMMA RunIsTask ==
    ASSUME NEW id \in Nat \ {0}, NEW job \in JobRecord
    PROVE  /\ Run(id, job) \in Task
           /\ Run(id, job) # NoTask
           /\ Run(id, job).id = id
           /\ Run(id, job).job = job
           /\ Run(id, job).done = FALSE
BY DEF Run, Task, NoTask

\* Every step of the server keeps it well-formed.
LEMMA NextTypeOK == TypeOK /\ [Next]_vars => TypeOK'
<1> SUFFICES ASSUME TypeOK, [Next]_vars PROVE TypeOK'
  OBVIOUS
<1>t. RowsOK /\ RequestsOK /\ SchedulerOK
  BY DEF TypeOK
<1>k. UNCHANGED rows => Ids' = Ids /\ RowsOK'
  BY <1>t DEF Ids, RowsOK
<1>1. CASE UNCHANGED vars
  <2>1. UNCHANGED <<rows, req>> /\ UNCHANGED schedulerVars
    BY <1>1 DEF vars, schedulerVars
  <2> QED BY <1>t, <1>k, <2>1, RequestsKept, SchedulerKept DEF TypeOK
<1>2. ASSUME NEW priority \in CreatePriorities, NEW maxIterations \in CreateMaxIterations,
             HandleCreateJob(priority, maxIterations), UNCHANGED schedulerVars
      PROVE  TypeOK'
  <2>1. priority \in Priorities /\ maxIterations \in Int
    BY InputAssumption
  <2>2. RowsOK' /\ Ids \subseteq Ids' /\ UNCHANGED req
    BY <1>t, <1>2, <2>1, CreateJobFacts
  <2> QED BY <1>t, <1>2, <2>2, RequestsKept, SchedulerKept DEF TypeOK
<1>3. ASSUME NEW ids \in ReorderLists, HandleReorderJobs(ids), UNCHANGED schedulerVars
      PROVE  TypeOK'
  <2>1. RowsOK' /\ Ids' = Ids /\ UNCHANGED req
    BY <1>t, <1>3, ReorderFacts
  <2> QED BY <1>t, <1>3, <2>1, RequestsKept, SchedulerKept DEF TypeOK
<1>4. ASSUME NEW c \in Clients, NEW op \in Ops, NEW id \in Ids,
             LoadJob(c, op, id), UNCHANGED schedulerVars
      PROVE  TypeOK'
  <2>1. UNCHANGED rows /\ RequestsOK'
    BY <1>t, <1>4, LoadJobFacts
  <2> QED BY <1>t, <1>k, <1>4, <2>1, SchedulerKept DEF TypeOK
<1>5. ASSUME NEW c \in Clients, HandleResumeJob(c), UNCHANGED <<pc, task, ctxDone>>,
             signal' \in BOOLEAN
      PROVE  TypeOK'
  <2>1. RowsOK' /\ Ids' = Ids /\ Answer(c)
    BY <1>t, <1>5, ResumeJobFacts DEF Writes
  <2>2. SchedulerOK'
    BY <1>t, <1>5, <2>1 DEF SchedulerOK
  <2> QED BY <1>t, <2>1, <2>2, AnswerKeepsRequests DEF TypeOK
<1>6. ASSUME NEW c \in Clients, Respond(c), UNCHANGED schedulerVars
      PROVE  TypeOK'
  <2>1. RowsOK' /\ Ids' = Ids /\ Answer(c)
    <3>1. CASE HandleCancelJob(c)
      BY <1>t, <3>1, CancelJobFacts DEF Writes
    <3>2. CASE HandlePauseJob(c)
      BY <1>t, <3>2, PauseJobFacts DEF Writes
    <3>3. CASE HandleResumeJob(c)
      BY <1>t, <3>3, ResumeJobFacts DEF Writes
    <3>4. CASE HandleUpdateJob(c)
      BY <1>t, <3>4, UpdateJobFacts DEF Writes
    <3>5. CASE AnswerError(c)
      BY <1>k, <3>5 DEF AnswerError
    <3> QED BY <1>6, <3>1, <3>2, <3>3, <3>4, <3>5 DEF Respond
  <2> QED BY <1>t, <1>6, <2>1, AnswerKeepsRequests, SchedulerKept DEF TypeOK
<1>7. CASE Cancellation
  <2>1. UNCHANGED <<rows, req, pc, task, signal>> /\ ctxDone' = TRUE
    BY <1>7 DEF Cancellation, CancelContext
  <2>2. SchedulerOK'
    BY <1>t, <1>k, <2>1 DEF SchedulerOK
  <2> QED BY <1>t, <1>k, <2>1, <2>2, RequestsKept DEF TypeOK
<1>8. CASE Crash
  <2>1. UNCHANGED rows /\ RequestsOK'
    BY <1>8 DEF Crash, RequestsOK, Busy
  <2>2. SchedulerOK'
    BY <1>8 DEF Crash, SchedulerOK, Pcs
  <2> QED BY <1>k, <2>1, <2>2 DEF TypeOK
<1>9. ASSUME SchedulerStep PROVE TypeOK'
  <2>1. CASE Start \/ SelectStop \/ SelectSignal \/ SelectTick \/ DequeueNothing
    <3>1. UNCHANGED <<rows, task, ctxDone>> /\ signal' \in BOOLEAN
      BY <1>t, <2>1 DEF Start, SelectStop, SelectSignal, SelectTick, DequeueNothing,
                        SchedulerOK
    <3>2. /\ pc \in {"off", "dequeue", "select", "stopped"}
          /\ pc' \in {"off", "dequeue", "select", "stopped"}
      BY <2>1 DEF Start, SelectStop, SelectSignal, SelectTick, DequeueNothing
    <3>3. SchedulerOK'
      BY <1>t, <1>k, <3>1, <3>2 DEF SchedulerOK, Pcs
    <3> QED BY <1>t, <1>k, <1>9, <3>1, <3>3, RequestsKept DEF TypeOK, SchedulerStep
  <2>2. ASSUME NEW id \in Heads, DequeueJob(id) PROVE TypeOK'
    <3>1. /\ Writes(id, TransitionTo(rows[id], "running"))
          /\ task' = Run(id, TransitionTo(rows[id], "running"))
          /\ pc' = "setup"
          /\ UNCHANGED <<ctxDone, signal>>
          /\ id \in Ids
      BY <1>t, <2>2, DequeueJobFacts DEF Queued
    <3>2. id \in Nat \ {0} /\ rows[id] \in JobRecord
      BY <1>t, <3>1, IdsAreFinite, RowsAreJobs DEF RowsOK
    <3>3. /\ TransitionTo(rows[id], "running") \in JobRecord
          /\ TransitionTo(rows[id], "running").status = "running"
      BY <3>2, TransitionToFacts DEF Statuses
    <3>4. /\ task' \in Task /\ task' # NoTask
          /\ task'.id = id /\ task'.job.status = "running"
      BY <3>1, <3>2, <3>3, RunIsTask
    <3>5. SchedulerOK'
      BY <1>t, <3>1, <3>4 DEF SchedulerOK, Pcs, Writes
    <3> QED BY <1>t, <1>9, <3>1, <3>5, RequestsKept
            DEF TypeOK, SchedulerStep, Writes
  <2>3. CASE Handle /\ UNCHANGED signal
    <3>1. CASE Setup
      <4>1. task # NoTask
        BY <1>t, <3>1 DEF Setup, SchedulerOK
      <4>2. UNCHANGED <<rows, task, ctxDone>> /\ pc' \in {"fail", "claude"}
        BY <3>1 DEF Setup
      <4>3. SchedulerOK'
        BY <1>t, <1>k, <2>3, <4>1, <4>2 DEF SchedulerOK, Pcs
      <4> QED BY <1>t, <1>k, <1>9, <4>2, <4>3, RequestsKept DEF TypeOK, SchedulerStep
    <3>2. ASSUME NEW iterations \in ParsedIterations, NEW done \in BOOLEAN,
                 ClaudeExits(iterations, done)
          PROVE  TypeOK'
      <4>1. /\ task # NoTask /\ task' \in Task /\ task'.id = task.id
            /\ UNCHANGED <<rows, ctxDone>>
            /\ pc' \in {"save_iteration", "finalize", "complete"}
        BY <1>t, <3>2, ClaudeExitsFacts DEF AfterClaude
      <4>2. task'.job.status = task.job.status
        <5>1. task.job \in JobRecord
          BY <1>t, <4>1, TaskFacts
        <5>2. \/ task'.job = task.job
              \/ task'.job = [task.job EXCEPT !.iteration = iterations]
          BY <1>t, <3>2, ClaudeExitsFacts
        <5> QED BY <5>1, <5>2 DEF JobRecord
      <4>3. SchedulerOK'
        BY <1>t, <1>k, <2>3, <4>1, <4>2, TaskHeld DEF Pcs
      <4> QED BY <1>t, <1>k, <1>9, <4>1, <4>3, RequestsKept DEF TypeOK, SchedulerStep
    <3>3. CASE SaveIteration \/ SavePR
      <4>1. /\ task # NoTask /\ UNCHANGED <<task, ctxDone>>
            /\ pc' \in {"finalize", "complete"}
        BY <1>t, <3>3 DEF SaveIteration, SavePR, SchedulerOK, AfterClaude
      <4>2. RowsOK' /\ Ids' = Ids
        BY <1>t, <1>k, <3>3, <4>1, UpdateOrLogFacts DEF SaveIteration, SavePR, Writes
      <4>3. SchedulerOK'
        BY <1>t, <2>3, <4>1, <4>2 DEF SchedulerOK, Pcs
      <4> QED BY <1>t, <1>9, <4>2, <4>3, RequestsKept DEF TypeOK, SchedulerStep
    <3>4. CASE Finalize
      <4>1. /\ task # NoTask /\ UNCHANGED <<rows, ctxDone>>
            /\ pc' \in {"fail", "save_pr"}
            /\ task' \in Task /\ task'.id = task.id
            /\ \/ task'.job = task.job
               \/ task'.job = [task.job EXCEPT !.prURL = TRUE]
        BY <1>t, <3>4, FinalizeFacts, TaskFacts
      <4>2. task'.job.status = task.job.status
        BY <1>t, <4>1, TaskFacts DEF JobRecord
      <4>3. SchedulerOK'
        BY <1>t, <1>k, <2>3, <4>1, <4>2, TaskHeld DEF Pcs
      <4> QED BY <1>t, <1>k, <1>9, <4>1, <4>3, RequestsKept DEF TypeOK, SchedulerStep
    <3> QED BY <2>3, <3>1, <3>2, <3>3, <3>4 DEF Handle
  <2>4. CASE CompleteTask \/ FailTask
    <3>1. RowsOK' /\ Ids' = Ids
      BY <1>t, <1>k, <2>4, CompleteTaskFacts, FailTaskFacts DEF Writes
    <3>2. SchedulerOK'
      <4>1. Forget /\ signal' \in BOOLEAN /\ UNCHANGED ctxDone
        BY <1>t, <2>4, CompleteTaskFacts, FailTaskFacts DEF SchedulerOK
      <4> QED BY <1>t, <4>1, TaskForgotten
    <3> QED BY <1>t, <1>9, <3>1, <3>2, RequestsKept DEF TypeOK, SchedulerStep
  <2> QED BY <1>9, <2>1, <2>2, <2>3, <2>4 DEF SchedulerStep, SchedulerNext, ProcessNext
<1>10. ASSUME NEW c \in Clients, ResumeJob(c) PROVE TypeOK'
  BY <1>5, <1>10 DEF ResumeJob
<1>11. ASSUME ApiStep PROVE TypeOK'
  BY <1>2, <1>3, <1>4, <1>6, <1>11 DEF ApiStep, ApiNext
<1> QED BY <1>1, <1>7, <1>8, <1>9, <1>10, <1>11 DEF Next

\* The table, the requests and the scheduler's state keep their types, a copy
\* always names a stored job, and the scheduler holds a job exactly inside the
\* handler (models.Job, the handlers of internal/api/jobs.go, processNext).
THEOREM TypeCorrect == Spec => []TypeOK
<1>1. Init => TypeOK
  BY InitTypeOK
<1>2. TypeOK /\ [Next]_vars => TypeOK'
  BY NextTypeOK
<1> QED BY <1>1, <1>2, PTL DEF Spec

-----------------------------------------------------------------------------
(***************************************************************************)
(* RowCoherence is inductive with TypeOK: every job that is written or     *)
(* read is made from one coherent job by one operation of models.Job.      *)
(***************************************************************************)

\* A legal transition of a coherent job gives a coherent job (TransitionTo).
LEMMA CoherentTransition ==
    ASSUME NEW job \in JobRecord, Coherent(job),
           NEW target \in Statuses \ {"failed"}, CanTransitionTo(job.status, target)
    PROVE  Coherent(TransitionTo(job, target))
<1>1. job.status \in Statuses
  BY DEF JobRecord
<1>2. /\ job.status \notin Terminal /\ target # "queued"
      /\ target = "paused" => job.status = "running"
      /\ target = "completed" => job.status = "running"
  BY <1>1 DEF CanTransitionTo, Successors, Terminal, Statuses
<1>3. ~job.completedAt /\ ~job.error
  BY <1>2 DEF Coherent, Terminal
<1>4. LET next == TransitionTo(job, target)
      IN  /\ next.status = target
          /\ next.iteration = job.iteration
          /\ next.prURL = job.prURL
          /\ next.error = job.error
          /\ next.startedAt <=> job.startedAt \/ target = "running"
          /\ next.pausedAt <=> job.pausedAt \/ target = "paused"
          /\ next.completedAt <=> job.completedAt \/ target \in Terminal
  BY TransitionToFacts
<1> HIDE DEF TransitionTo
<1> QED BY <1>2, <1>3, <1>4 DEF Coherent, Terminal, Statuses

\* So does the transition of Fail, which sets the error text as well.
LEMMA CoherentFailure ==
    ASSUME NEW job \in JobRecord, Coherent(job), job.status = "running"
    PROVE  Coherent(TransitionTo(Erring(job), "failed"))
<1> DEFINE bad == Erring(job)
<1>1. /\ bad \in JobRecord /\ bad.error = TRUE
      /\ bad.startedAt = job.startedAt
  BY DEF Erring, JobRecord
<1>2. job.startedAt
  BY DEF Coherent
<1> HIDE DEF bad
<1>3. LET next == TransitionTo(bad, "failed")
      IN  /\ next.status = "failed"
          /\ next.error = bad.error
          /\ next.startedAt <=> bad.startedAt \/ "failed" = "running"
          /\ next.completedAt <=> bad.completedAt \/ "failed" \in Terminal
  BY <1>1, TransitionToFacts DEF Statuses
<1>4. Coherent(TransitionTo(bad, "failed"))
  BY <1>1, <1>2, <1>3 DEF Coherent, Terminal
<1> QED BY <1>4 DEF bad

\* The fields Coherent does not look at may change, and so may the iteration
\* and the PR of a running job.
LEMMA CoherentUpdates ==
    ASSUME NEW job \in JobRecord, Coherent(job)
    PROVE  /\ \A priority, maxIterations :
                 Coherent(Patched(job, priority, maxIterations))
           /\ \A p : Coherent([job EXCEPT !.position = p])
           /\ job.status = "running" =>
                 /\ \A n : Coherent([job EXCEPT !.iteration = n])
                 /\ Coherent([job EXCEPT !.prURL = TRUE])
BY DEF Coherent, Patched, JobRecord

\* Writing a coherent copy keeps the rows coherent.
LEMMA CoherentWrite ==
    ASSUME RowsCoherent, NEW id, NEW job, Writes(id, job), Coherent(job)
    PROVE  RowsCoherent'
BY DEF RowsCoherent, Writes, Coherent

\* An answer keeps the copies of the other requests coherent.
LEMMA CoherentAnswer ==
    ASSUME RequestsOK, RequestsCoherent, NEW c \in Clients, Answer(c), Ids' = Ids
    PROVE  RequestsCoherent'
BY AnswerKeepsRequests DEF RequestsCoherent, Coherent

\* The server starts with no row and no copy.
LEMMA InitRowCoherence == Init => RowCoherence
BY DEF Init, ApiInit, SchedulerInit, RowCoherence, RowsCoherent, RequestsCoherent,
       TaskCoherent, Busy, Ids

\* Every step of the server keeps rows and copies coherent.
LEMMA NextRowCoherence == TypeOK /\ RowCoherence /\ [Next]_vars => RowCoherence'
<1> SUFFICES ASSUME TypeOK, RowCoherence, [Next]_vars PROVE RowCoherence'
  OBVIOUS
<1>t. RowsOK /\ RequestsOK /\ SchedulerOK
  BY DEF TypeOK
<1>c. RowsCoherent /\ RequestsCoherent /\ TaskCoherent
  BY DEF RowCoherence
<1>r. UNCHANGED rows => RowsCoherent' /\ Ids' = Ids
  BY <1>c DEF RowsCoherent, Ids, Coherent
<1>q. UNCHANGED req => RequestsCoherent'
  BY <1>c DEF RequestsCoherent, Busy, Coherent
<1>s. UNCHANGED task => TaskCoherent'
  BY <1>c DEF TaskCoherent, Coherent
<1>j. ASSUME NEW c \in Clients, Busy(c)
      PROVE  req[c].job \in JobRecord /\ req[c].id \in Ids /\ Coherent(req[c].job)
  BY <1>t, <1>c, <1>j, RequestFacts DEF RequestsCoherent
<1>k. task # NoTask => /\ task.job \in JobRecord /\ task.id \in Ids
                       /\ task.job.status = "running" /\ Coherent(task.job)
  BY <1>t, <1>c, TaskFacts DEF TaskCoherent
<1>1. CASE UNCHANGED vars
  BY <1>1, <1>r, <1>q, <1>s DEF vars, RowCoherence
<1>2. ASSUME NEW priority \in CreatePriorities, NEW maxIterations \in CreateMaxIterations,
             HandleCreateJob(priority, maxIterations), UNCHANGED schedulerVars
      PROVE  RowCoherence'
  <2>1. priority \in Priorities /\ maxIterations \in Int
    BY InputAssumption
  <2>2. /\ Ids' = Ids \cup {Len(rows) + 1}
        /\ \A id \in Ids : rows'[id] = rows[id]
        /\ IsNew(rows'[Len(rows) + 1], priority, maxIterations, NextPosition)
        /\ UNCHANGED req
    BY <1>t, <1>2, <2>1, CreateJobFacts
  <2>3. Coherent(rows'[Len(rows) + 1])
    BY <2>2 DEF IsNew, Coherent, Terminal
  <2>4. RowsCoherent'
    BY <1>c, <2>2, <2>3 DEF RowsCoherent, Coherent
  <2> QED BY <1>2, <1>q, <1>s, <2>2, <2>4 DEF RowCoherence, schedulerVars
<1>3. ASSUME NEW ids \in ReorderLists, HandleReorderJobs(ids), UNCHANGED schedulerVars
      PROVE  RowCoherence'
  <2>1. /\ Ids' = Ids
        /\ \A id \in Ids : \/ rows'[id] = rows[id]
                           \/ \E p \in Nat \ {0} :
                                 rows'[id] = [rows[id] EXCEPT !.position = p]
        /\ UNCHANGED req
    BY <1>t, <1>3, ReorderFacts
  <2>2. ASSUME NEW id \in Ids PROVE Coherent(rows'[id])
    <3>1. rows[id] \in JobRecord /\ Coherent(rows[id])
      BY <1>t, <1>c, RowsAreJobs DEF RowsOK, RowsCoherent
    <3>2. \A p : Coherent([rows[id] EXCEPT !.position = p])
      BY <3>1, CoherentUpdates
    <3>3. CASE rows'[id] = rows[id]
      BY <3>1, <3>3
    <3>4. ASSUME NEW p \in Nat \ {0},
                 rows'[id] = [rows[id] EXCEPT !.position = p]
          PROVE  Coherent(rows'[id])
      BY <3>2, <3>4
    <3> QED BY <2>1, <3>3, <3>4
  <2>3. RowsCoherent'
    BY <2>1, <2>2 DEF RowsCoherent, Coherent
  <2> QED BY <1>3, <1>q, <1>s, <2>1, <2>3 DEF RowCoherence, schedulerVars
<1>4. ASSUME NEW c \in Clients, NEW op \in Ops, NEW id \in Ids,
             LoadJob(c, op, id), UNCHANGED schedulerVars
      PROVE  RowCoherence'
  <2>1. /\ UNCHANGED rows
        /\ req'[c].job = rows[id]
        /\ \A d \in Clients \ {c} : req'[d] = req[d]
    <3>1. /\ UNCHANGED rows
          /\ req'[c] = [op |-> op, id |-> id, job |-> rows[id]]
          /\ \A d \in Clients \ {c} : req'[d] = req[d]
      BY <1>t, <1>4, LoadJobFacts
    <3> QED BY <3>1
  <2>2. RequestsCoherent'
    <3>1. ASSUME NEW d \in Clients, Busy(d)' PROVE Coherent(req[d].job)'
      <4>1. CASE d = c
        BY <1>c, <2>1, <4>1 DEF RowsCoherent, Coherent
      <4>2. CASE d # c
        BY <1>c, <2>1, <3>1, <4>2 DEF RequestsCoherent, Busy, Coherent
      <4> QED BY <4>1, <4>2
    <3> QED BY <3>1 DEF RequestsCoherent
  <2> QED BY <1>4, <1>r, <1>s, <2>1, <2>2 DEF RowCoherence, schedulerVars
<1>5. ASSUME NEW c \in Clients, HandleResumeJob(c), UNCHANGED task
      PROVE  RowCoherence'
  <2>1. /\ Busy(c) /\ Answer(c) /\ req[c].job.status = "paused"
        /\ Writes(req[c].id, TransitionTo(req[c].job, "running"))
    BY <1>t, <1>5, ResumeJobFacts
  <2>2. CanTransitionTo(req[c].job.status, "running")
    BY <2>1 DEF CanTransitionTo, Successors
  <2>3. Coherent(TransitionTo(req[c].job, "running"))
    BY <1>j, <2>1, <2>2, CoherentTransition DEF Statuses
  <2>4. RowsCoherent'
    BY <1>c, <2>1, <2>3, CoherentWrite
  <2> QED BY <1>t, <1>c, <1>s, <1>5, <2>1, <2>4, CoherentAnswer DEF RowCoherence, Writes
<1>6. ASSUME NEW c \in Clients, Respond(c), UNCHANGED schedulerVars
      PROVE  RowCoherence'
  <2>s. TaskCoherent'
    BY <1>6, <1>s DEF schedulerVars
  <2>1. CASE HandleCancelJob(c)
    <3>1. /\ Busy(c) /\ Answer(c)
          /\ CanTransitionTo(req[c].job.status, "cancelled")
          /\ Writes(req[c].id, TransitionTo(req[c].job, "cancelled"))
      BY <1>t, <2>1, CancelJobFacts
    <3>2. Coherent(TransitionTo(req[c].job, "cancelled"))
      BY <1>j, <3>1, CoherentTransition DEF Statuses
    <3>3. RowsCoherent'
      BY <1>c, <3>1, <3>2, CoherentWrite
    <3> QED BY <1>t, <1>c, <2>s, <3>1, <3>3, CoherentAnswer DEF RowCoherence, Writes
  <2>2. CASE HandlePauseJob(c)
    <3>1. /\ Busy(c) /\ Answer(c)
          /\ CanTransitionTo(req[c].job.status, "paused")
          /\ Writes(req[c].id, TransitionTo(req[c].job, "paused"))
      BY <1>t, <2>2, PauseJobFacts
    <3>2. Coherent(TransitionTo(req[c].job, "paused"))
      BY <1>j, <3>1, CoherentTransition DEF Statuses
    <3>3. RowsCoherent'
      BY <1>c, <3>1, <3>2, CoherentWrite
    <3> QED BY <1>t, <1>c, <2>s, <3>1, <3>3, CoherentAnswer DEF RowCoherence, Writes
  <2>3. CASE HandleResumeJob(c)
    BY <1>5, <1>6, <2>3 DEF schedulerVars
  <2>4. CASE HandleUpdateJob(c)
    <3>1. Busy(c) /\ Answer(c)
      BY <1>t, <2>4, UpdateJobFacts
    <3>2. PICK priority \in Priorities, maxIterations \in Int :
             Writes(req[c].id, Patched(req[c].job, priority, maxIterations))
      BY <1>t, <2>4, UpdateJobFacts
    <3>3. Coherent(Patched(req[c].job, priority, maxIterations))
      BY <1>j, <3>1, CoherentUpdates
    <3>4. RowsCoherent'
      BY <1>c, <3>2, <3>3, CoherentWrite
    <3> QED BY <1>t, <1>c, <2>s, <3>1, <3>2, <3>4, CoherentAnswer
            DEF RowCoherence, Writes
  <2>5. CASE AnswerError(c)
    <3>1. UNCHANGED rows /\ Answer(c)
      BY <2>5 DEF AnswerError
    <3> QED BY <1>t, <1>c, <1>r, <2>s, <3>1, CoherentAnswer DEF RowCoherence
  <2> QED BY <1>6, <2>1, <2>2, <2>3, <2>4, <2>5 DEF Respond
<1>7. CASE Cancellation
  BY <1>7, <1>r, <1>q, <1>s DEF Cancellation, CancelContext, RowCoherence
<1>8. CASE Crash
  <2>1. RequestsCoherent' /\ TaskCoherent'
    BY <1>8 DEF Crash, RequestsCoherent, TaskCoherent, Busy
  <2> QED BY <1>8, <1>r, <2>1 DEF Crash, RowCoherence
<1>9. ASSUME SchedulerStep PROVE RowCoherence'
  <2>q. RequestsCoherent'
    BY <1>9, <1>q DEF SchedulerStep
  <2>1. CASE Start \/ SelectStop \/ SelectSignal \/ SelectTick \/ DequeueNothing \/ Setup
    <3>1. UNCHANGED <<rows, task>>
      BY <2>1 DEF Start, SelectStop, SelectSignal, SelectTick, DequeueNothing, Setup
    <3> QED BY <1>r, <1>s, <2>q, <3>1 DEF RowCoherence
  <2>2. ASSUME NEW id \in Heads, DequeueJob(id) PROVE RowCoherence'
    <3> DEFINE job == TransitionTo(rows[id], "running")
    <3>1. id \in Queued /\ Writes(id, job) /\ task' = Run(id, job)
      BY <1>t, <2>2, DequeueJobFacts
    <3>2. id \in Ids /\ rows[id].status = "queued" /\ rows[id] \in JobRecord
      BY <1>t, <3>1, RowsAreJobs DEF Queued, RowsOK
    <3>3. Coherent(job)
      <4>1. CanTransitionTo(rows[id].status, "running")
        BY <3>2 DEF CanTransitionTo, Successors
      <4> QED BY <1>c, <3>2, <4>1, CoherentTransition DEF RowsCoherent, Statuses
    <3>4. RowsCoherent'
      BY <1>c, <3>1, <3>3, CoherentWrite
    <3>5. TaskCoherent'
      <4> HIDE DEF job
      <4> QED BY <3>1, <3>3 DEF TaskCoherent, Run, Coherent
    <3> QED BY <2>q, <3>4, <3>5 DEF RowCoherence
  <2>3. ASSUME NEW iterations \in ParsedIterations, NEW done \in BOOLEAN,
               ClaudeExits(iterations, done)
        PROVE  RowCoherence'
    <3>1. /\ task # NoTask /\ UNCHANGED rows
          /\ \/ task'.job = task.job
             \/ task'.job = [task.job EXCEPT !.iteration = iterations]
      BY <1>t, <2>3, ClaudeExitsFacts
    <3>2. Coherent(task'.job)
      <4>1. Coherent(task.job) /\ \A n : Coherent([task.job EXCEPT !.iteration = n])
        BY <1>k, <3>1, CoherentUpdates
      <4> QED BY <3>1, <4>1
    <3> QED BY <1>r, <2>q, <3>1, <3>2 DEF RowCoherence, TaskCoherent, Coherent
  <2>4. CASE SaveIteration \/ SavePR
    <3>1. task # NoTask /\ UNCHANGED task
      BY <1>t, <2>4 DEF SaveIteration, SavePR, SchedulerOK
    <3>2. UNCHANGED rows \/ Writes(task.id, task.job)
      BY <1>t, <2>4, <3>1, UpdateOrLogFacts DEF SaveIteration, SavePR
    <3>3. RowsCoherent'
      BY <1>c, <1>k, <1>r, <3>1, <3>2, CoherentWrite
    <3> QED BY <1>s, <2>q, <3>1, <3>3 DEF RowCoherence
  <2>5. CASE Finalize
    <3>1. /\ task # NoTask /\ UNCHANGED rows
          /\ \/ task'.job = task.job
             \/ task'.job = [task.job EXCEPT !.prURL = TRUE]
      BY <1>t, <2>5, FinalizeFacts
    <3>2. Coherent(task'.job)
      <4>1. Coherent(task.job) /\ Coherent([task.job EXCEPT !.prURL = TRUE])
        BY <1>k, <3>1, CoherentUpdates
      <4> QED BY <3>1, <4>1
    <3> QED BY <1>r, <2>q, <3>1, <3>2 DEF RowCoherence, TaskCoherent, Coherent
  <2>6. CASE CompleteTask
    <3>1. /\ task # NoTask /\ Forget
          /\ UNCHANGED rows \/ Writes(task.id, TransitionTo(task.job, "completed"))
      BY <1>t, <2>6, CompleteTaskFacts
    <3>2. Coherent(TransitionTo(task.job, "completed"))
      <4>1. CanTransitionTo(task.job.status, "completed")
        BY <1>k, <3>1 DEF CanTransitionTo, Successors
      <4> QED BY <1>k, <3>1, <4>1, CoherentTransition DEF Statuses
    <3>3. RowsCoherent'
      BY <1>c, <1>r, <3>1, <3>2, CoherentWrite
    <3> QED BY <2>q, <3>1, <3>3 DEF RowCoherence, TaskCoherent, Forget
  <2>7. CASE FailTask
    <3>1. /\ task # NoTask /\ Forget
          /\ \/ UNCHANGED rows
             \/ Writes(task.id, TransitionTo(Erring(task.job), "failed"))
      BY <1>t, <2>7, FailTaskFacts
    <3>2. Coherent(TransitionTo(Erring(task.job), "failed"))
      BY <1>k, <3>1, CoherentFailure
    <3>3. RowsCoherent'
      BY <1>c, <1>r, <3>1, <3>2, CoherentWrite
    <3> QED BY <2>q, <3>1, <3>3 DEF RowCoherence, TaskCoherent, Forget
  <2> QED BY <1>9, <2>1, <2>2, <2>3, <2>4, <2>5, <2>6, <2>7
          DEF SchedulerStep, SchedulerNext, ProcessNext, Handle
<1>10. ASSUME NEW c \in Clients, ResumeJob(c) PROVE RowCoherence'
  BY <1>5, <1>10 DEF ResumeJob
<1>11. ASSUME ApiStep PROVE RowCoherence'
  BY <1>2, <1>3, <1>4, <1>6, <1>11 DEF ApiStep, ApiNext
<1> QED BY <1>1, <1>7, <1>8, <1>9, <1>10, <1>11 DEF Next

\* However stale the copies that queue.Update, the queue methods and the
\* handler write, no row and no copy ever mixes two moments of a job.
THEOREM RowsStayCoherent == Spec => []RowCoherence
<1>1. Init => TypeOK /\ RowCoherence
  BY InitTypeOK, InitRowCoherence
<1>2. (TypeOK /\ RowCoherence) /\ [Next]_vars => (TypeOK /\ RowCoherence)'
  BY NextTypeOK, NextRowCoherence
<1> QED BY <1>1, <1>2, PTL DEF Spec

=============================================================================
