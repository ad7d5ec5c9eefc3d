---------------------------- MODULE TableProofs ----------------------------
(***************************************************************************)
(* RalphServer implements StaleTable: its requests, its scheduler and the  *)
(* handler, with crashes, cancellations and refused writes, change the     *)
(* jobs table and the copies of its rows only as StaleTable allows.  Each  *)
(* action is mapped to one of its steps.                                   *)
(***************************************************************************)
EXTENDS RalphServerProofs

\* The copies are the jobs of the requests in flight and of the scheduler.
LEMMA HeldFacts ==
    /\ \A c \in Clients : Busy(c) => [id |-> req[c].id, job |-> req[c].job] \in Held
    /\ task # NoTask => [id |-> task.id, job |-> task.job] \in Held
    /\ \A copy \in Held :
          \/ \E c \in Clients :
                Busy(c) /\ copy = [id |-> req[c].id, job |-> req[c].job]
          \/ task # NoTask /\ copy = [id |-> task.id, job |-> task.job]
BY DEF Held

\* A copy is in hand only as long as the request or the task that holds it.
LEMMA HeldShrinks ==
    ASSUME \A c \in Clients : Busy(c)' => Busy(c) /\ req'[c] = req[c],
           \/ UNCHANGED task
           \/ task' = NoTask
    PROVE  Held' \subseteq Held
BY DEF Held

\* Answering a request gives up its copy and no other.
LEMMA AnswerHeld ==
    ASSUME RequestsOK, NEW c \in Clients, Answer(c), UNCHANGED task, Ids' = Ids
    PROVE  Held' \subseteq Held
<1>1. \A d \in Clients : Busy(d)' => Busy(d) /\ req'[d] = req[d]
  BY AnswerKeepsRequests
<1> QED BY <1>1, HeldShrinks

\* A step that leaves the table alone and takes no copy is a Forget.
LEMMA ForgetStep ==
    ASSUME UNCHANGED rows, Held' \subseteq Held
    PROVE  Table!Next
BY DEF Table!Next, Table!Forget

\* A legal transition, without and with an error, is a legal move there.
LEMMA MoveIsMove ==
    ASSUME NEW job \in JobRecord, NEW target \in Statuses,
           CanTransitionTo(job.status, target)
    PROVE  /\ target # "failed" => Table!MovesTo(job, TransitionTo(job, target))
           /\ target = "failed" => Table!MovesTo(job, TransitionTo(Erring(job), target))
<1>1. target \in Table!Successors[job.status]
  BY DEF CanTransitionTo, Successors, Table!Successors
<1>2. CASE target # "failed"
  <2>1. [job EXCEPT !.error = job.error \/ target = "failed"] = job
    <3>1. (job.error \/ target = "failed") = job.error
      BY <1>2 DEF JobRecord
    <3>2. [job EXCEPT !.error = job.error] = job
      BY DEF JobRecord
    <3> QED BY <3>1, <3>2, Zenon
  <2>2. TransitionTo(job, target)
          = Table!TransitionTo([job EXCEPT !.error = job.error \/ target = "failed"], target)
    BY <2>1 DEF TransitionTo, Table!TransitionTo, Terminal, Table!Terminal
  <2> QED BY <1>1, <1>2, <2>2 DEF Table!MovesTo
<1>3. CASE target = "failed"
  <2>1. [job EXCEPT !.error = job.error \/ target = "failed"] = Erring(job)
    <3>1. (job.error \/ target = "failed") = TRUE
      BY <1>3
    <3> QED BY <3>1, Zenon DEF Erring
  <2>2. TransitionTo(Erring(job), target)
          = Table!TransitionTo([job EXCEPT !.error = job.error \/ target = "failed"], target)
    BY <2>1 DEF TransitionTo, Table!TransitionTo, Terminal, Table!Terminal
  <2> QED BY <1>1, <1>3, <2>2 DEF Table!MovesTo
<1> QED BY <1>2, <1>3

\* Writing what a legal step makes of a copy is a Write.
LEMMA WriteStep ==
    ASSUME RowsOK, NEW copy \in Held, NEW job, Writes(copy.id, job),
           \/ job = copy.job
           \/ Table!MovesTo(copy.job, job)
           \/ Table!PatchesTo(copy.job, job),
           Held' \subseteq Held
    PROVE  Table!Next
<1>1. rows'[copy.id] = job
  BY DEF Writes
<1>2. rows' = [rows EXCEPT ![copy.id] = rows'[copy.id]]
  <2>1. rows \in Seq(JobRecord) /\ rows' \in Seq(JobRecord) /\ DOMAIN rows' = DOMAIN rows
    BY DEF Writes, RowsOK, Ids
  <2>2. \A other \in DOMAIN rows : other # copy.id => rows'[other] = rows[other]
    BY DEF Writes, Ids
  <2>3. rows = [i \in DOMAIN rows |-> rows[i]] /\ rows' = [i \in DOMAIN rows |-> rows'[i]]
    BY <2>1
  <2> QED BY <2>1, <2>2, <2>3
<1>3. Table!Write
  BY <1>1, <1>2 DEF Table!Write
<1> QED BY <1>3 DEF Table!Next

\* A new job has no field left open.
LEMMA NewJobIsUnique ==
    ASSUME NEW job, NEW other, NEW priority, NEW max, NEW position,
           IsNew(job, priority, max, position), IsNew(other, priority, max, position)
    PROVE  job = other
BY DEF IsNew, JobRecord

-----------------------------------------------------------------------------
\* Requests: every answer writes its copy, a legal move of it, or a patch of it.
LEMMA RespondStep ==
    ASSUME TypeOK, NEW c \in Clients, Respond(c), UNCHANGED task
    PROVE  Table!Next
<1> DEFINE copy == [id |-> req[c].id, job |-> req[c].job]
<1>t. RowsOK /\ RequestsOK
  BY DEF TypeOK
<1>1. ASSUME NEW target \in Statuses \ {"failed"}, Busy(c),
             CanTransitionTo(req[c].job.status, target),
             Writes(req[c].id, TransitionTo(req[c].job, target)), Answer(c)
      PROVE  Table!Next
  <2>1. req[c].job \in JobRecord /\ copy \in Held
    BY <1>t, <1>1, RequestFacts, HeldFacts
  <2>2. Table!MovesTo(copy.job, TransitionTo(copy.job, target))
    BY <1>1, <2>1, MoveIsMove
  <2>3. Held' \subseteq Held
    BY <1>t, <1>1, AnswerHeld DEF Writes
  <2> QED BY <1>t, <1>1, <2>1, <2>2, <2>3, WriteStep
<1>2. CASE HandleCancelJob(c)
  BY <1>t, <1>1, <1>2, CancelJobFacts DEF Statuses
<1>3. CASE HandlePauseJob(c)
  BY <1>t, <1>1, <1>3, PauseJobFacts DEF Statuses
<1>4. CASE HandleResumeJob(c)
  <2>1. CanTransitionTo("paused", "running")
    BY DEF CanTransitionTo, Successors
  <2> QED BY <1>t, <1>1, <1>4, <2>1, ResumeJobFacts DEF Statuses
<1>5. CASE HandleUpdateJob(c)
  <2>1. PICK priority \in Priorities, maxIterations \in Int :
           Writes(req[c].id, Patched(req[c].job, priority, maxIterations))
    BY <1>t, <1>5, UpdateJobFacts
  <2>2. Busy(c) /\ Answer(c)
    BY <1>t, <1>5, UpdateJobFacts
  <2>3. req[c].job \in JobRecord /\ copy \in Held
    BY <1>t, <2>2, RequestFacts, HeldFacts
  <2>4. Table!PatchesTo(copy.job, Patched(copy.job, priority, maxIterations))
    <3>1. /\ Patched(copy.job, priority, maxIterations).priority = priority
          /\ Patched(copy.job, priority, maxIterations).maxIterations = maxIterations
      BY <2>3 DEF Patched, JobRecord
    <3> QED BY <3>1 DEF Table!PatchesTo, Patched, Priorities, Table!Priorities
  <2>5. Held' \subseteq Held
    BY <1>t, <2>1, <2>2, AnswerHeld DEF Writes
  <2> QED BY <1>t, <2>1, <2>3, <2>4, <2>5, WriteStep
<1>6. CASE AnswerError(c)
  <2>1. UNCHANGED rows /\ Ids' = Ids /\ Answer(c)
    BY <1>6 DEF AnswerError, Ids
  <2> QED BY <1>t, <2>1, AnswerHeld, ForgetStep
<1> QED BY <1>2, <1>3, <1>4, <1>5, <1>6 DEF Respond

\* Resuming through the scheduler is the resume request.
LEMMA ResumeStep ==
    ASSUME TypeOK, NEW c \in Clients, ResumeJob(c)
    PROVE  Table!Next
BY RespondStep DEF ResumeJob, Respond

\* The other requests submit a job, read one, or change positions.
LEMMA ApiTableStep ==
    ASSUME TypeOK, ApiStep
    PROVE  Table!Next
<1>t. RowsOK /\ RequestsOK /\ UNCHANGED task
  BY DEF TypeOK, ApiStep, schedulerVars
<1>1. ASSUME NEW priority \in CreatePriorities, NEW maxIterations \in CreateMaxIterations,
             HandleCreateJob(priority, maxIterations)
      PROVE  Table!Next
  <2> DEFINE id == Len(rows) + 1
  <2>1. /\ DOMAIN rows' = 1 .. id
        /\ \A other \in DOMAIN rows : rows'[other] = rows[other]
        /\ IsNew(rows'[id], priority, maxIterations, NextPosition)
        /\ UNCHANGED req
    <3>1. priority \in Priorities /\ maxIterations \in Int
      BY InputAssumption
    <3>2. /\ RowsOK' /\ Len(rows') = id /\ UNCHANGED req
          /\ \A other \in Ids : rows'[other] = rows[other]
          /\ IsNew(rows'[id], priority, maxIterations, NextPosition)
      BY <1>t, <1>1, <3>1, CreateJobFacts
    <3>3. DOMAIN rows' = 1 .. Len(rows')
      BY <3>2 DEF RowsOK
    <3> QED BY <3>2, <3>3 DEF Ids
  <2>2. rows'[id] = [Table!NewJob(rows'[id].priority, rows'[id].maxIterations)
                        EXCEPT !.position = rows'[id].position]
    <3> DEFINE job == rows'[id]
    <3>1. /\ IsNew(job, priority, maxIterations, NextPosition)
          /\ job.priority = priority /\ job.maxIterations = maxIterations
          /\ job.position = NextPosition
      BY <2>1 DEF IsNew
    <3> HIDE DEF job
    <3>2. job = [Table!NewJob(job.priority, job.maxIterations) EXCEPT !.position = job.position]
      <4>1. IsNew([Table!NewJob(priority, maxIterations) EXCEPT !.position = NextPosition],
                  priority, maxIterations, NextPosition)
        BY <1>1, InputAssumption, <3>1 DEF IsNew, Table!NewJob, JobRecord, Statuses
      <4> QED BY <3>1, <4>1, NewJobIsUnique
    <3> QED BY <3>2 DEF job
  <2>3. Held' = Held
    BY <1>t, <2>1 DEF Held, Busy
  <2>4. Table!Submit
    BY <2>1, <2>2, <2>3 DEF Table!Submit
  <2> QED BY <2>4 DEF Table!Next
<1>2. ASSUME NEW ids \in ReorderLists, HandleReorderJobs(ids) PROVE Table!Next
  <2>1. /\ RowsOK' /\ Ids' = Ids /\ UNCHANGED req
        /\ \A id \in Ids :
              \/ rows'[id] = rows[id]
              \/ \E p \in Nat \ {0} : rows'[id] = [rows[id] EXCEPT !.position = p]
    BY <1>t, <1>2, ReorderFacts
  <2>2. ASSUME NEW id \in Ids
        PROVE  rows'[id] = [rows[id] EXCEPT !.position = rows'[id].position]
    <3>1. rows[id] \in JobRecord
      BY <1>t, RowsAreJobs DEF RowsOK
    <3> QED BY <2>1, <3>1 DEF JobRecord
  <2>3. Held' = Held
    BY <1>t, <2>1 DEF Held, Busy
  <2>4. Table!Renumber
    BY <2>1, <2>2, <2>3 DEF Table!Renumber, Ids
  <2> QED BY <2>4 DEF Table!Next
<1>3. ASSUME NEW c \in Clients, NEW op \in Ops, NEW id \in Ids, LoadJob(c, op, id)
      PROVE  Table!Next
  <2> DEFINE copy == [id |-> id, job |-> rows[id]]
  <2>1. /\ UNCHANGED rows
        /\ req'[c] = [op |-> op, id |-> id, job |-> rows[id]]
        /\ \A d \in Clients \ {c} : req'[d] = req[d]
        /\ ~Busy(c)
    BY <1>t, <1>3, LoadJobFacts DEF LoadJob
  <2>2. Busy(c)'
    BY <2>1, OpsAssumption DEF Busy, Idle
  <2>3. Held' = Held \cup {copy}
    <3>1. Held' \subseteq Held \cup {copy}
      BY <1>t, <2>1 DEF Held, Busy
    <3>2. Held \subseteq Held'
      BY <1>t, <2>1 DEF Held, Busy
    <3>3. copy \in Held'
      BY <2>1, <2>2 DEF Held
    <3> QED BY <3>1, <3>2, <3>3
  <2>4. Table!Read
    BY <2>1, <2>3 DEF Table!Read, Table!Copy, Ids
  <2> QED BY <2>4 DEF Table!Next
<1>4. ASSUME NEW c \in Clients, Respond(c) PROVE Table!Next
  BY <1>t, <1>4, RespondStep
<1> QED BY <1>1, <1>2, <1>3, <1>4 DEF ApiStep, ApiNext

-----------------------------------------------------------------------------
\* A step of the scheduler that leaves the table alone and takes no job.
LEMMA IdleSchedulerStep ==
    ASSUME UNCHANGED <<rows, req>>, UNCHANGED task \/ task' = NoTask
    PROVE  Table!Next
<1>1. Held' \subseteq Held
  BY HeldShrinks DEF Busy
<1> QED BY <1>1, ForgetStep

\* Writing the scheduler's copy, or a legal move of it.
LEMMA TaskWriteStep ==
    ASSUME RowsOK, SchedulerOK, task # NoTask, UNCHANGED req,
           UNCHANGED task \/ task' = NoTask,
           NEW job, Writes(task.id, job),
           job = task.job \/ Table!MovesTo(task.job, job)
    PROVE  Table!Next
<1>1. [id |-> task.id, job |-> task.job] \in Held
  BY HeldFacts
<1>2. Held' \subseteq Held
  BY HeldShrinks DEF Busy
<1> QED BY <1>1, <1>2, WriteStep

\* The handler learns something about the job it runs.
LEMMA TaskWorkStep ==
    ASSUME SchedulerOK, task # NoTask, UNCHANGED <<rows, req>>,
           task' \in Task, task'.id = task.id,
           Table!ProgressesTo(task.job, task'.job)
    PROVE  Table!Next
<1> DEFINE copy == [id |-> task.id, job |-> task.job]
           next == [id |-> task'.id, job |-> task'.job]
<1>1. copy \in Held
  BY HeldFacts
<1>2. task' # NoTask
  BY DEF Task, NoTask
<1>3. next \in Held' /\ Held' \subseteq Held \cup {next}
  BY <1>2 DEF Held, Busy
<1>4. Table!Work
  BY <1>1, <1>3 DEF Table!Work
<1> QED BY <1>4 DEF Table!Next

\* A job whose iteration grows, or whose PR becomes known, makes progress.
LEMMA Progresses ==
    ASSUME NEW job \in JobRecord, job.status = "running",
           NEW iterations \in Nat, iterations >= job.iteration,
           NEW url \in BOOLEAN, job.prURL => url,
           NEW next, next = [job EXCEPT !.iteration = iterations, !.prURL = url]
    PROVE  Table!ProgressesTo(job, next)
<1>1. next.iteration = iterations /\ next.prURL = url
  BY DEF JobRecord
<1>2. next = [job EXCEPT !.iteration = next.iteration, !.prURL = next.prURL]
  BY <1>1, Zenon
<1> QED BY <1>1, <1>2 DEF Table!ProgressesTo

\* The steps of the handler: they write the copy, or move it on.
LEMMA HandleStep ==
    ASSUME TypeOK, Handle, UNCHANGED <<req, signal>>
    PROVE  Table!Next
<1>t. RowsOK /\ SchedulerOK
  BY DEF TypeOK
<1>1. CASE Setup
  BY <1>1, IdleSchedulerStep DEF Setup
<1>2. ASSUME NEW iterations \in ParsedIterations, NEW done \in BOOLEAN,
             ClaudeExits(iterations, done)
      PROVE  Table!Next
  <2>1. /\ task # NoTask /\ task' \in Task /\ task'.id = task.id
        /\ UNCHANGED rows
    BY <1>t, <1>2, ClaudeExitsFacts
  <2>2. task.job \in JobRecord /\ task.job.status = "running" /\ task \in Task
    BY <1>t, <2>1, TaskFacts
  <2>3. Table!ProgressesTo(task.job, task'.job)
    <3>1. CASE iterations > task.job.iteration
      <4>1. task'.job = [task.job EXCEPT !.iteration = iterations]
        BY <1>2, <2>2, <3>1 DEF ClaudeExits, Task
      <4>2. iterations \in Nat
        BY ParsedIterationsAssumption
      <4>3. task'.job = [task.job EXCEPT !.iteration = iterations, !.prURL = task.job.prURL]
        BY <2>2, <4>1 DEF JobRecord
      <4>4. iterations >= task.job.iteration /\ task.job.prURL \in BOOLEAN
        BY <2>2, <3>1, <4>2 DEF JobRecord
      <4> QED BY <2>2, <4>2, <4>3, <4>4, Progresses
    <3>2. CASE ~(iterations > task.job.iteration)
      <4>1. task'.job = task.job
        BY <1>2, <2>2, <3>2 DEF ClaudeExits, Task
      <4>2. task'.job = [task.job EXCEPT !.iteration = task.job.iteration,
                                         !.prURL = task.job.prURL]
        BY <2>2, <4>1 DEF JobRecord
      <4>3. /\ task.job.iteration \in Nat /\ task.job.prURL \in BOOLEAN
            /\ task.job.iteration >= task.job.iteration
        BY <2>2 DEF JobRecord
      <4> QED BY <2>2, <4>2, <4>3, Progresses
    <3> QED BY <3>1, <3>2
  <2> QED BY <1>t, <2>1, <2>3, TaskWorkStep
<1>3. CASE SaveIteration \/ SavePR
  <2>1. /\ task # NoTask /\ UNCHANGED task
        /\ UNCHANGED rows \/ Writes(task.id, task.job)
    BY <1>t, <1>3, UpdateOrLogFacts DEF SaveIteration, SavePR, SchedulerOK
  <2> QED BY <1>t, <2>1, TaskWriteStep, IdleSchedulerStep
<1>4. CASE Finalize
  <2>1. task # NoTask /\ UNCHANGED rows
    BY <1>t, <1>4, FinalizeFacts
  <2>2. task.job \in JobRecord /\ task.job.status = "running"
    BY <1>t, <2>1, TaskFacts
  <2>3. CASE task' = task
    BY <2>1, <2>3, IdleSchedulerStep
  <2>4. CASE /\ task' \in Task /\ task'.id = task.id
             /\ task'.job = [task.job EXCEPT !.prURL = TRUE]
    <3>1. Table!ProgressesTo(task.job, task'.job)
      <4>1. task'.job = [task.job EXCEPT !.iteration = task.job.iteration,
                                         !.prURL = TRUE]
        BY <2>2, <2>4 DEF JobRecord
      <4>2. task.job.iteration \in Nat /\ task.job.iteration >= task.job.iteration
        BY <2>2 DEF JobRecord
      <4> QED BY <2>2, <4>1, <4>2, Progresses
    <3> QED BY <1>t, <2>1, <2>4, <3>1, TaskWorkStep
  <2> QED BY <1>t, <1>4, <2>3, <2>4, FinalizeFacts
<1> QED BY <1>1, <1>2, <1>3, <1>4 DEF Handle

\* The steps of the scheduler's loop: they take a job, settle it, or wait.
LEMMA SchedulerTableStep ==
    ASSUME TypeOK, SchedulerStep
    PROVE  Table!Next
<1>t. RowsOK /\ SchedulerOK /\ UNCHANGED req
  BY DEF TypeOK, SchedulerStep
<1>1. CASE Start \/ SelectStop \/ SelectSignal \/ SelectTick \/ DequeueNothing
  BY <1>t, <1>1, IdleSchedulerStep
  DEF Start, SelectStop, SelectSignal, SelectTick, DequeueNothing
<1>2. ASSUME NEW id \in Heads, DequeueJob(id) PROVE Table!Next
  <2> DEFINE running == TransitionTo(rows[id], "running")
  <2>1. /\ id \in Queued /\ pc = "dequeue"
        /\ Writes(id, running)
        /\ task' = Run(id, running)
    BY <1>t, <1>2, DequeueJobFacts
  <2>2. id \in Ids /\ rows[id].status = "queued"
    BY <2>1 DEF Queued
  <2>3. task = NoTask /\ task' # NoTask /\ task'.id = id /\ task'.job = running
    <3>1. id \in Nat \ {0} /\ rows[id] \in JobRecord
      BY <1>t, <2>2, IdsAreFinite, RowsAreJobs DEF RowsOK
    <3>2. running \in JobRecord
      BY <3>1, TransitionToFacts DEF Statuses
    <3> QED BY <1>t, <2>1, <3>1, <3>2, RunIsTask DEF SchedulerOK
  <2>4. Held' = Held \cup {[id |-> id, job |-> running]}
    BY <1>t, <2>3 DEF Held, Busy
  <2>5. rows' = [rows EXCEPT ![id] = running]
    <3> HIDE DEF running
    <3>1. /\ rows \in Seq(JobRecord) /\ rows' \in Seq(JobRecord)
          /\ DOMAIN rows' = DOMAIN rows /\ rows'[id] = running
          /\ \A other \in DOMAIN rows : other # id => rows'[other] = rows[other]
      BY <1>t, <2>1 DEF Writes, RowsOK, Ids
    <3>2. rows = [i \in DOMAIN rows |-> rows[i]] /\ rows' = [i \in DOMAIN rows |-> rows'[i]]
      BY <3>1
    <3> QED BY <3>1, <3>2
  <2>6. running = Table!TransitionTo(rows[id], "running")
    BY DEF TransitionTo, Table!TransitionTo, Terminal, Table!Terminal
  <2>7. Table!Take
    BY <2>2, <2>4, <2>5, <2>6 DEF Table!Take, Table!Copy, Ids
  <2> QED BY <2>7 DEF Table!Next
<1>3. CASE Handle /\ UNCHANGED signal
  BY <1>t, <1>3, HandleStep
<1>4. CASE CompleteTask
  <2>1. /\ task # NoTask /\ task' = NoTask
        /\ \/ UNCHANGED rows
           \/ Writes(task.id, TransitionTo(task.job, "completed"))
    BY <1>t, <1>4, CompleteTaskFacts DEF Forget
  <2>2. CanTransitionTo(task.job.status, "completed") /\ task.job \in JobRecord
    BY <1>t, <2>1, TaskFacts DEF CanTransitionTo, Successors
  <2>3. Table!MovesTo(task.job, TransitionTo(task.job, "completed"))
    BY <2>2, MoveIsMove DEF Statuses
  <2> QED BY <1>t, <2>1, <2>3, TaskWriteStep, IdleSchedulerStep
<1>5. CASE FailTask
  <2>1. /\ task # NoTask /\ task' = NoTask
        /\ \/ UNCHANGED rows
           \/ Writes(task.id, TransitionTo(Erring(task.job), "failed"))
    BY <1>t, <1>5, FailTaskFacts DEF Forget
  <2>2. CanTransitionTo(task.job.status, "failed") /\ task.job \in JobRecord
    BY <1>t, <2>1, TaskFacts DEF CanTransitionTo, Successors
  <2>3. Table!MovesTo(task.job, TransitionTo(Erring(task.job), "failed"))
    BY <2>2, MoveIsMove DEF Statuses
  <2> QED BY <1>t, <2>1, <2>3, TaskWriteStep, IdleSchedulerStep
<1> QED BY <1>1, <1>2, <1>3, <1>4, <1>5 DEF SchedulerStep, SchedulerNext, ProcessNext

\* Every step of the server is a step of the table.
LEMMA NextIsTableStep == TypeOK /\ [Next]_vars => [Table!Next]_(Table!tableVars)
<1> SUFFICES ASSUME TypeOK, [Next]_vars PROVE [Table!Next]_(Table!tableVars)
  OBVIOUS
<1>1. CASE UNCHANGED vars
  <2>1. UNCHANGED rows /\ Held' = Held
    BY <1>1 DEF vars, Held, Busy
  <2> QED BY <2>1 DEF Table!tableVars
<1>2. CASE Cancellation
  BY <1>2, IdleSchedulerStep DEF Cancellation, CancelContext
<1>3. CASE Crash
  <2>1. Held' \subseteq Held
    BY <1>3, HeldShrinks DEF Crash, Busy
  <2> QED BY <1>3, <2>1, ForgetStep DEF Crash
<1> QED BY <1>1, <1>2, <1>3, ApiTableStep, SchedulerTableStep, ResumeStep DEF Next

\* The server implements StaleTable (the handlers of internal/api/jobs.go, the
\* methods of queue.go, processNext and Handle, over JobRepo).
THEOREM ServerImplementsStaleTable == Spec => ImplementsStaleTable
<1>1. Init => Table!Init
  BY DEF Init, ApiInit, SchedulerInit, Held, Busy, Table!Init
<1>2. TypeOK /\ [Next]_vars => [Table!Next]_(Table!tableVars)
  BY NextIsTableStep
<1> QED BY <1>1, <1>2, TypeCorrect, PTL DEF Spec, ImplementsStaleTable, Table!Spec

=============================================================================
