---------------------------- MODULE OrderProofs ----------------------------
(***************************************************************************)
(* The order of the queue when no request patches a job and none reorders  *)
(* the queue.  SubmissionOrder is inductive once LeftTheQueue is known: a  *)
(* row that waits is then one nobody has written since it was created.     *)
(* Then, that one job runs at a time when nobody resumes one, and which    *)
(* steps strand one at all; and last, with users who move jobs, how two of *)
(* them can come to share a position.                                      *)
(***************************************************************************)
EXTENDS SettledProofs, TableProofs, RalphSystem

NoReorder == ReorderLists = {}

\* What a step may do to the rows that wait: leave them, or take one off.
OnlyLeaves ==
    /\ Ids' = Ids
    /\ \A id \in Ids : rows'[id].status = "queued" => rows'[id] = rows[id]

\* ... or add one at the end.
Grows ==
    /\ Ids' = Ids \cup {Len(rows) + 1}
    /\ Len(rows) + 1 \notin Ids
    /\ \A id \in Ids : rows'[id] = rows[id]
    /\ rows'[Len(rows) + 1].status = "queued"
    /\ rows'[Len(rows) + 1].position = NextPosition

\* A write whose copy does not wait changes the waiting rows only by taking its
\* own off the queue.
LEMMA OnlyLeavesAfterWrite ==
    ASSUME NEW id, NEW job, Writes(id, job), job.status # "queued"
    PROVE  OnlyLeaves
BY DEF Writes, OnlyLeaves

\* A step that leaves the table alone changes no waiting row.
LEMMA UnchangedRows ==
    ASSUME UNCHANGED rows
    PROVE  OnlyLeaves
BY DEF OnlyLeaves, Ids

\* A created job goes behind every job that waits (NextPosition).
LEMMA GrowsKeepsOrder ==
    ASSUME RowsOK, SubmissionOrder, Grows
    PROVE  SubmissionOrder'
<1> DEFINE new == Len(rows) + 1
<1>1. \A id \in Ids : id < new
  BY IdsAreFinite DEF RowsOK
<1>2. /\ Ids' = Ids \cup {new} /\ new \notin Ids
      /\ \A id \in Ids : rows'[id] = rows[id]
      /\ rows'[new].position = NextPosition
  BY DEF Grows
<1>3. \A id \in Queued : rows[id].position < NextPosition
  BY NextPositionFacts DEF RowsOK
<1>4. new \in Nat /\ Ids \subseteq Nat
  BY IdsAreFinite DEF RowsOK
<1> HIDE DEF new
<1>5. ASSUME NEW id \in Queued', NEW later \in Queued', id < later
      PROVE  rows'[id].position < rows'[later].position
  <2>1. id \in Queued
    BY <1>1, <1>2, <1>4, <1>5 DEF Queued
  <2>2. CASE later = new
    BY <1>2, <1>3, <2>1, <2>2 DEF Queued
  <2>3. CASE later # new
    <3>1. later \in Queued
      BY <1>2, <1>5, <2>3 DEF Queued
    <3> QED BY <1>2, <1>5, <2>1, <3>1 DEF SubmissionOrder, Queued
  <2> QED BY <2>2, <2>3
<1> QED BY <1>5 DEF SubmissionOrder

\* Jobs that leave the queue leave the others in order.
LEMMA LeavingKeepsOrder ==
    ASSUME SubmissionOrder, OnlyLeaves
    PROVE  SubmissionOrder'
<1>1. \A id \in Queued' : id \in Queued /\ rows'[id] = rows[id]
  BY DEF OnlyLeaves, Queued
<1> QED BY <1>1 DEF SubmissionOrder

\* A step that starts a job starts the one whose turn it is.
ServesInTurn ==
    \A id \in Queued : rows'[id].status = "running" =>
       \A other \in Queued \ {id} :
          \/ Rank[rows[id].priority] < Rank[rows[other].priority]
          \/ rows[id].priority = rows[other].priority /\ id < other

\* A row ListQueued may return first is the first submitted of its priority,
\* and no job of a higher priority waits.
LEMMA HeadIsFirst ==
    ASSUME RowsOK, SubmissionOrder, NEW id \in Heads, NEW other \in Queued \ {id}
    PROVE  \/ Rank[rows[id].priority] < Rank[rows[other].priority]
           \/ rows[id].priority = rows[other].priority /\ id < other
<1>1. id \in Queued /\ Precedes(rows[id], rows[other])
  BY DEF Heads
<1>2. CASE Rank[rows[id].priority] < Rank[rows[other].priority]
  BY <1>2
<1>3. CASE /\ rows[id].priority = rows[other].priority
           /\ rows[id].position <= rows[other].position
  <2>1. id \in Nat /\ other \in Nat
    BY <1>1, IdsAreFinite DEF RowsOK, Queued
  <2>2. rows[id].position \in Nat /\ rows[other].position \in Nat
    BY <1>1, RowsAreJobs DEF RowsOK, Queued
  <2>3. ~(other < id)
    BY <1>1, <1>3, <2>2 DEF SubmissionOrder
  <2> QED BY <1>3, <2>1, <2>3
<1> QED BY <1>1, <1>2, <1>3 DEF Precedes

\* A step that writes one row.
LEMMA WriteInTurn ==
    ASSUME NEW id, NEW job, Writes(id, job),
           job.status # "running" \/ rows[id].status # "queued"
    PROVE  ServesInTurn
BY DEF Writes, ServesInTurn, Queued

\* A step that changes no stored row starts no job.
LEMMA UnchangedInTurn ==
    ASSUME \A id \in Ids : rows'[id] = rows[id]
    PROVE  ServesInTurn
BY DEF ServesInTurn, Queued

\* Every step of the server keeps the order, and starts jobs in turn.
LEMMA OrderStep ==
    ASSUME NoPatch, NoReorder, TypeOK, LeftTheQueue, SubmissionOrder, [Next]_vars
    PROVE  SubmissionOrder' /\ ServesInTurn
<1> DEFINE Goal == SubmissionOrder' /\ ServesInTurn
<1>t. RowsOK /\ RequestsOK /\ SchedulerOK
  BY DEF TypeOK
<1>1. UNCHANGED rows => Goal
  BY UnchangedRows, UnchangedInTurn, LeavingKeepsOrder
<1>2. ASSUME NEW priority \in CreatePriorities, NEW maxIterations \in CreateMaxIterations,
             HandleCreateJob(priority, maxIterations)
      PROVE  Goal
  <2>1. priority \in Priorities /\ maxIterations \in Int
    BY InputAssumption
  <2>2. Grows
    BY <1>t, <1>2, <2>1, CreateJobFacts DEF Grows, IsNew
  <2> QED BY <1>t, <2>2, GrowsKeepsOrder, UnchangedInTurn DEF Grows
<1>3. ASSUME NEW id, NEW job, Writes(id, job), job.status # "queued",
             job.status # "running" \/ rows[id].status # "queued"
      PROVE  Goal
  BY <1>3, OnlyLeavesAfterWrite, WriteInTurn, LeavingKeepsOrder
<1>4. ASSUME NEW c \in Clients, Busy(c), NEW target \in Statuses \ {"queued"},
             Writes(req[c].id, TransitionTo(req[c].job, target)),
             target # "running" \/ rows[req[c].id].status # "queued"
      PROVE  Goal
  <2>1. TransitionTo(req[c].job, target).status = target
    BY <1>t, <1>4, RequestFacts, TransitionToFacts
  <2> QED BY <1>3, <1>4, <2>1
<1>5. ASSUME NEW c \in Clients, Respond(c) PROVE Goal
  <2>1. CASE HandleCancelJob(c)
    BY <1>t, <1>4, <2>1, CancelJobFacts DEF Statuses
  <2>2. CASE HandlePauseJob(c)
    BY <1>t, <1>4, <2>2, PauseJobFacts DEF Statuses
  <2>3. CASE HandleResumeJob(c)
    <3>1. /\ Busy(c) /\ req[c].job.status = "paused"
          /\ Writes(req[c].id, TransitionTo(req[c].job, "running"))
      BY <1>t, <2>3, ResumeJobFacts
    <3>2. rows[req[c].id].status # "queued"
      BY <3>1 DEF LeftTheQueue
    <3> QED BY <1>4, <3>1, <3>2 DEF Statuses
  <2>4. CASE HandleUpdateJob(c)
    <3>1. req[c].op = "patch" /\ req[c].op \in Ops
      BY <1>t, <2>4, UpdateJobFacts, RequestFacts
    <3> QED BY <3>1 DEF NoPatch
  <2>5. CASE AnswerError(c)
    BY <1>1, <2>5 DEF AnswerError
  <2> QED BY <1>5, <2>1, <2>2, <2>3, <2>4, <2>5 DEF Respond
<1>6. CASE SchedulerStep
  <2>1. CASE Start \/ SelectStop \/ SelectSignal \/ SelectTick \/ DequeueNothing
             \/ Setup \/ Finalize
    BY <1>1, <2>1 DEF Start, SelectStop, SelectSignal, SelectTick, DequeueNothing,
                      Setup, Finalize
  <2>2. ASSUME NEW id \in Heads, DequeueJob(id) PROVE Goal
    <3> DEFINE job == TransitionTo(rows[id], "running")
    <3>1. id \in Queued /\ Writes(id, job)
      BY <1>t, <2>2, DequeueJobFacts
    <3>2. job.status = "running"
      <4>1. rows[id] \in JobRecord
        BY <1>t, <3>1, RowsAreJobs DEF Queued, RowsOK
      <4> QED BY <4>1, TransitionToFacts DEF Statuses
    <3> HIDE DEF job
    <3>3. SubmissionOrder'
      BY <3>1, <3>2, OnlyLeavesAfterWrite, LeavingKeepsOrder
    <3>4. \A other \in Queued \ {id} : rows'[other].status # "running"
      BY <3>1 DEF Writes, Queued
    <3>5. ServesInTurn
      BY <1>t, <2>2, <3>4, HeadIsFirst DEF ServesInTurn
    <3> QED BY <3>3, <3>5
  <2>3. ASSUME task # NoTask, NEW job, UNCHANGED rows \/ Writes(task.id, job),
               job.status # "queued"
        PROVE  Goal
    BY <1>1, <1>3, <2>3 DEF LeftTheQueue
  <2>4. ASSUME NEW iterations \in ParsedIterations, NEW done \in BOOLEAN,
               ClaudeExits(iterations, done)
        PROVE  Goal
    BY <1>1, <2>4 DEF ClaudeExits
  <2>5. CASE SaveIteration \/ SavePR
    <3>1. task # NoTask
      BY <1>t, <2>5 DEF SaveIteration, SavePR, SchedulerOK
    <3>2. UNCHANGED rows \/ Writes(task.id, task.job)
      BY <1>t, <2>5, <3>1, UpdateOrLogFacts DEF SaveIteration, SavePR
    <3> QED BY <1>t, <2>3, <3>1, <3>2, TaskFacts
  <2>6. CASE CompleteTask
    <3>1. /\ task # NoTask
          /\ UNCHANGED rows \/ Writes(task.id, TransitionTo(task.job, "completed"))
      BY <1>t, <2>6, CompleteTaskFacts
    <3>2. TransitionTo(task.job, "completed").status = "completed"
      BY <1>t, <3>1, TaskFacts, TransitionToFacts DEF Statuses
    <3> QED BY <2>3, <3>1, <3>2
  <2>7. CASE FailTask
    <3>1. /\ task # NoTask /\ Erring(task.job) \in JobRecord
          /\ \/ UNCHANGED rows
             \/ Writes(task.id, TransitionTo(Erring(task.job), "failed"))
      BY <1>t, <2>7, FailTaskFacts
    <3>2. TransitionTo(Erring(task.job), "failed").status = "failed"
      BY <3>1, TransitionToFacts DEF Statuses
    <3> QED BY <2>3, <3>1, <3>2
  <2> QED BY <1>6, <2>1, <2>2, <2>4, <2>5, <2>6, <2>7
          DEF SchedulerStep, SchedulerNext, ProcessNext, Handle
<1>7. ASSUME NEW c \in Clients, ResumeJob(c) PROVE Goal
  BY <1>5, <1>7 DEF ResumeJob, Respond
<1>8. CASE ApiStep
  <2>1. ASSUME NEW c \in Clients, NEW op \in Ops, NEW id \in Ids, LoadJob(c, op, id)
        PROVE  Goal
    BY <1>1, <2>1 DEF LoadJob
  <2> QED BY <1>2, <1>5, <1>8, <2>1 DEF ApiStep, ApiNext, NoReorder
<1>9. CASE Cancellation \/ Crash \/ UNCHANGED vars
  BY <1>1, <1>9 DEF Cancellation, CancelContext, Crash, vars
<1> QED BY <1>6, <1>7, <1>8, <1>9 DEF Next

\* Without PATCH and reordering the jobs that wait stand in the order in which
\* they were created, although NextPosition looks at the waiting jobs only.
THEOREM QueueKeepsSubmissionOrder ==
    ASSUME NoPatch, NoReorder
    PROVE  Spec => []SubmissionOrder
<1>1. Init => SubmissionOrder
  BY DEF Init, SubmissionOrder, Queued, Ids
<1>2. TypeOK /\ LeftTheQueue /\ SubmissionOrder /\ [Next]_vars => SubmissionOrder'
  BY OrderStep
<1> QED BY <1>1, <1>2, TypeCorrect, LeavingIsForGood, PTL DEF Spec

\* ... and Dequeue starts them in that order within a priority, higher
\* priorities first, whatever is paused, resumed or cancelled meanwhile.
THEOREM JobsStartInOrder ==
    ASSUME NoPatch, NoReorder
    PROVE  Spec => FirstComeFirstServed
<1>1. TypeOK /\ LeftTheQueue /\ SubmissionOrder /\ [Next]_vars =>
         [\A id \in Queued : rows'[id].status = "running" =>
             \A other \in Queued \ {id} :
                \/ Rank[rows[id].priority] < Rank[rows[other].priority]
                \/ rows[id].priority = rows[other].priority /\ id < other]_vars
  BY OrderStep DEF ServesInTurn
<1> QED BY <1>1, QueueKeepsSubmissionOrder, LeavingIsForGood, TypeCorrect, PTL
        DEF Spec, FirstComeFirstServed

-----------------------------------------------------------------------------
(***************************************************************************)
(* One job at a time.                                                      *)
(***************************************************************************)

\* Nobody resumes or patches a job, the process lives, and no write that
\* settles a job is refused.
NobodyStrands ==
    /\ Ops \subseteq {"cancel", "pause"}
    /\ "settle" \notin FailingWrites
    /\ ~MayCrash

\* A write that leaves its row at rest cannot strand a job.
LEMMA RestKeepsRunning ==
    ASSUME RunningIsWorkedOn, NEW id, NEW job, Writes(id, job), job.status # "running",
           \/ UNCHANGED task
           \/ task' = NoTask /\ id = task.id
    PROVE  RunningIsWorkedOn'
BY DEF RunningIsWorkedOn, Writes, WorksOn

\* Neither can a step that starts nothing and keeps the task.
LEMMA SameRunning ==
    ASSUME RunningIsWorkedOn, UNCHANGED task,
           \A id \in Ids' : rows'[id].status = "running" =>
              id \in Ids /\ rows[id].status = "running"
    PROVE  RunningIsWorkedOn'
BY DEF RunningIsWorkedOn, WorksOn

\* Each step leaves at most the scheduler's own job running.
LEMMA RunningStep ==
    ASSUME NobodyStrands, TypeOK, RunningIsWorkedOn, [Next]_vars
    PROVE  RunningIsWorkedOn'
<1>t. RowsOK /\ RequestsOK /\ SchedulerOK
  BY DEF TypeOK
<1>1. ASSUME UNCHANGED <<rows, task>> PROVE RunningIsWorkedOn'
  BY <1>1 DEF RunningIsWorkedOn, WorksOn, Ids
<1>2. ASSUME NEW priority \in CreatePriorities, NEW maxIterations \in CreateMaxIterations,
             HandleCreateJob(priority, maxIterations), UNCHANGED schedulerVars
      PROVE  RunningIsWorkedOn'
  <2>1. priority \in Priorities /\ maxIterations \in Int
    BY InputAssumption
  <2>2. /\ Ids' = Ids \cup {Len(rows) + 1}
        /\ \A id \in Ids : rows'[id] = rows[id]
        /\ rows'[Len(rows) + 1].status = "queued"
    BY <1>t, <1>2, <2>1, CreateJobFacts DEF IsNew
  <2> QED BY <1>2, <2>2, SameRunning DEF schedulerVars
<1>3. ASSUME NEW ids \in ReorderLists, HandleReorderJobs(ids), UNCHANGED schedulerVars
      PROVE  RunningIsWorkedOn'
  <2>1. /\ Ids' = Ids
        /\ \A id \in Ids : \/ rows'[id] = rows[id]
                           \/ \E p \in Nat \ {0} : rows'[id] = [rows[id] EXCEPT !.position = p]
    BY <1>t, <1>3, ReorderFacts
  <2>2. \A id \in Ids : rows[id] \in JobRecord
    BY <1>t, RowsAreJobs DEF RowsOK
  <2>3. \A id \in Ids : rows'[id].status = rows[id].status
    BY <2>1, <2>2 DEF JobRecord
  <2> QED BY <1>3, <2>1, <2>3, SameRunning DEF schedulerVars
<1>4. ASSUME NEW c \in Clients, Respond(c), UNCHANGED task
      PROVE  RunningIsWorkedOn'
  <2>1. CASE HandleCancelJob(c)
    <3>1. Busy(c) /\ Writes(req[c].id, TransitionTo(req[c].job, "cancelled"))
      BY <1>t, <2>1, CancelJobFacts
    <3>2. TransitionTo(req[c].job, "cancelled").status = "cancelled"
      BY <1>t, <3>1, RequestFacts, TransitionToFacts DEF Statuses
    <3> QED BY <1>4, <3>1, <3>2, RestKeepsRunning
  <2>2. CASE HandlePauseJob(c)
    <3>1. Busy(c) /\ Writes(req[c].id, TransitionTo(req[c].job, "paused"))
      BY <1>t, <2>2, PauseJobFacts
    <3>2. TransitionTo(req[c].job, "paused").status = "paused"
      BY <1>t, <3>1, RequestFacts, TransitionToFacts DEF Statuses
    <3> QED BY <1>4, <3>1, <3>2, RestKeepsRunning
  <2>3. CASE HandleResumeJob(c) \/ HandleUpdateJob(c)
    <3>1. req[c].op \in {"resume", "patch"} /\ Busy(c)
      BY <1>t, <2>3, ResumeJobFacts, UpdateJobFacts DEF HandleResumeJob, HandleUpdateJob
    <3>2. req[c].op \in Ops
      BY <1>t, <3>1, RequestFacts
    <3> QED BY <3>1, <3>2 DEF NobodyStrands
  <2>4. CASE AnswerError(c)
    BY <1>1, <1>4, <2>4 DEF AnswerError
  <2> QED BY <1>4, <2>1, <2>2, <2>3, <2>4 DEF Respond
<1>5. ASSUME SchedulerStep PROVE RunningIsWorkedOn'
  <2>1. CASE Start \/ SelectStop \/ SelectSignal \/ SelectTick \/ DequeueNothing \/ Setup
    <3>1. UNCHANGED <<rows, task>>
      BY <2>1 DEF Start, SelectStop, SelectSignal, SelectTick, DequeueNothing, Setup
    <3> QED BY <1>1, <3>1
  <2>2. ASSUME NEW id \in Heads, DequeueJob(id) PROVE RunningIsWorkedOn'
    <3>1. /\ Writes(id, TransitionTo(rows[id], "running"))
          /\ task' = Run(id, TransitionTo(rows[id], "running"))
          /\ pc = "dequeue"
      BY <1>t, <2>2, DequeueJobFacts
    <3>2. task = NoTask
      BY <1>t, <3>1 DEF SchedulerOK
    <3>3. \A other \in Ids : rows[other].status # "running"
      BY <3>2 DEF RunningIsWorkedOn, WorksOn
    <3>4. task' # NoTask /\ task'.id = id
      <4>1. DOMAIN task' = {"id", "job", "done"}
        BY <3>1 DEF Run
      <4>2. DOMAIN NoTask = {"id"}
        BY DEF NoTask
      <4> QED BY <3>1, <4>1, <4>2 DEF Run
    <3> QED BY <3>1, <3>3, <3>4 DEF RunningIsWorkedOn, WorksOn, Writes
  <2>3. ASSUME task # NoTask, task' \in Task, task'.id = task.id,
               UNCHANGED rows \/ \E job : Writes(task.id, job)
        PROVE  RunningIsWorkedOn'
    <3>1. task' # NoTask
      BY <2>3 DEF Task, NoTask
    <3>2. Ids' = Ids /\ \A id \in Ids \ {task.id} : rows'[id] = rows[id]
      BY <2>3 DEF Writes, Ids
    <3> QED BY <2>3, <3>1, <3>2 DEF RunningIsWorkedOn, WorksOn
  <2>4. ASSUME NEW iterations \in ParsedIterations, NEW done \in BOOLEAN,
               ClaudeExits(iterations, done)
        PROVE  RunningIsWorkedOn'
    BY <1>t, <2>3, <2>4, ClaudeExitsFacts
  <2>5. CASE SaveIteration \/ SavePR
    <3>1. task # NoTask /\ UNCHANGED task
      BY <1>t, <2>5 DEF SaveIteration, SavePR, SchedulerOK
    <3>2. UNCHANGED rows \/ Writes(task.id, task.job)
      BY <1>t, <2>5, <3>1, UpdateOrLogFacts DEF SaveIteration, SavePR
    <3> QED BY <1>t, <2>3, <3>1, <3>2, TaskFacts
  <2>6. CASE Finalize
    BY <1>t, <2>3, <2>6, FinalizeFacts, TaskFacts
  <2>7. CASE CompleteTask
    <3>1. task # NoTask /\ Complete(task.id, task.job) /\ task' = NoTask
      BY <1>t, <2>7 DEF CompleteTask, NobodyStrands, SchedulerOK, Forget
    <3>2. Writes(task.id, TransitionTo(task.job, "completed"))
      BY <1>t, <3>1, TaskFacts, MoveWrites DEF Complete, Statuses
    <3>3. TransitionTo(task.job, "completed").status = "completed"
      BY <1>t, <3>1, TaskFacts, TransitionToFacts DEF Statuses
    <3> QED BY <3>1, <3>2, <3>3, RestKeepsRunning
  <2>8. CASE FailTask
    <3>1. /\ task # NoTask /\ task' = NoTask /\ Erring(task.job) \in JobRecord
          /\ Move(task.id, Erring(task.job), "failed")
      BY <1>t, <2>8, FailTaskFacts DEF FailTask, NobodyStrands, Fail, Erring, Forget
    <3>2. Writes(task.id, TransitionTo(Erring(task.job), "failed"))
      BY <1>t, <3>1, TaskFacts, MoveWrites DEF Statuses
    <3>3. TransitionTo(Erring(task.job), "failed").status = "failed"
      BY <3>1, TransitionToFacts DEF Statuses
    <3> QED BY <3>1, <3>2, <3>3, RestKeepsRunning
  <2> QED BY <1>5, <2>1, <2>2, <2>4, <2>5, <2>6, <2>7, <2>8
          DEF SchedulerStep, SchedulerNext, ProcessNext, Handle
<1>6. ASSUME NEW c \in Clients, ResumeJob(c) PROVE RunningIsWorkedOn'
  BY <1>4, <1>6 DEF ResumeJob, Respond
<1>7. ASSUME ApiStep PROVE RunningIsWorkedOn'
  <2>1. ASSUME NEW c \in Clients, NEW op \in Ops, NEW id \in Ids, LoadJob(c, op, id)
        PROVE  RunningIsWorkedOn'
    BY <1>1, <1>7, <2>1 DEF ApiStep, LoadJob, schedulerVars
  <2> QED BY <1>2, <1>3, <1>4, <1>7, <2>1 DEF ApiStep, ApiNext, schedulerVars
<1>8. CASE Cancellation
  BY <1>1, <1>8 DEF Cancellation, CancelContext
<1>9. CASE UNCHANGED vars
  BY <1>1, <1>9 DEF vars
<1>10. ~Crash
  BY DEF Crash, NobodyStrands
<1> QED BY <1>5, <1>6, <1>7, <1>8, <1>9, <1>10 DEF Next

\* As long as nobody resumes or patches a job, the process lives and the end of
\* a job is always stored, a running row is the scheduler's own job: a write of
\* a stale copy strands none, although pause and cancel do not stop the handler.
THEOREM OneJobRuns ==
    ASSUME NobodyStrands
    PROVE  Spec => []RunningIsWorkedOn
<1>1. Init => RunningIsWorkedOn
  BY DEF Init, RunningIsWorkedOn, Ids
<1>2. TypeOK /\ RunningIsWorkedOn /\ [Next]_vars => RunningIsWorkedOn'
  BY RunningStep
<1> QED BY <1>1, <1>2, TypeCorrect, PTL DEF Spec

\* A write that leaves its row at rest strands no job.
LEMMA RestStrandsNone ==
    ASSUME NEW id, NEW job, Writes(id, job), job.status # "running",
           \/ UNCHANGED task
           \/ task' = NoTask /\ id = task.id,
           NEW other \in Ids, ~Stranded(other)
    PROVE  ~Stranded(other)'
BY DEF Stranded, Writes, WorksOn

\* Neither does a step that keeps the task and the statuses.
LEMMA SameStrandsNone ==
    ASSUME UNCHANGED task, NEW id \in Ids, rows'[id].status = rows[id].status,
           ~Stranded(id)
    PROVE  ~Stranded(id)'
BY DEF Stranded, WorksOn

\* A request strands a job only by marking it running.
LEMMA AnswerStrands ==
    ASSUME TypeOK, NEW c \in Clients, Respond(c), UNCHANGED task,
           NEW id \in Ids, ~Stranded(id), Stranded(id)'
    PROVE  MarkedRunning(id)
<1>t. RowsOK /\ RequestsOK
  BY DEF TypeOK
<1>1. ~HandleCancelJob(c)
  <2> SUFFICES ASSUME HandleCancelJob(c) PROVE FALSE
    OBVIOUS
  <2>1. Busy(c) /\ Writes(req[c].id, TransitionTo(req[c].job, "cancelled"))
    BY <1>t, CancelJobFacts
  <2>2. TransitionTo(req[c].job, "cancelled").status = "cancelled"
    BY <1>t, <2>1, RequestFacts, TransitionToFacts DEF Statuses
  <2> QED BY <2>1, <2>2, RestStrandsNone
<1>2. ~HandlePauseJob(c)
  <2> SUFFICES ASSUME HandlePauseJob(c) PROVE FALSE
    OBVIOUS
  <2>1. Busy(c) /\ Writes(req[c].id, TransitionTo(req[c].job, "paused"))
    BY <1>t, PauseJobFacts
  <2>2. TransitionTo(req[c].job, "paused").status = "paused"
    BY <1>t, <2>1, RequestFacts, TransitionToFacts DEF Statuses
  <2> QED BY <2>1, <2>2, RestStrandsNone
<1>3. ~AnswerError(c)
  BY SameStrandsNone DEF AnswerError
<1>4. ASSUME NEW job, Writes(req[c].id, job), Busy(c) PROVE req[c].id = id /\ job.status = "running"
  BY <1>4 DEF Writes, Stranded, WorksOn
<1>5. ASSUME Answer(c), Busy(c) PROVE ~Busy(c)'
  BY <1>t, <1>5 DEF Answer, Busy, RequestsOK
<1>6. CASE HandleResumeJob(c)
  <2>1. /\ Busy(c) /\ Answer(c) /\ req[c].op = "resume"
        /\ Writes(req[c].id, TransitionTo(req[c].job, "running"))
    BY <1>t, <1>6, ResumeJobFacts DEF HandleResumeJob
  <2> QED BY <1>4, <1>5, <2>1 DEF MarkedRunning
<1>7. CASE HandleUpdateJob(c)
  <2>1. Busy(c) /\ Answer(c) /\ req[c].op = "patch"
    BY <1>t, <1>7, UpdateJobFacts
  <2>2. PICK priority \in Priorities, maxIterations \in Int :
           Writes(req[c].id, Patched(req[c].job, priority, maxIterations))
    BY <1>t, <1>7, UpdateJobFacts
  <2>3. Patched(req[c].job, priority, maxIterations).status = req[c].job.status
    BY <1>t, <2>1, RequestFacts DEF Patched, JobRecord
  <2> QED BY <1>4, <1>5, <2>1, <2>2, <2>3 DEF MarkedRunning
<1> QED BY <1>1, <1>2, <1>3, <1>6, <1>7 DEF Respond

\* The scheduler strands a job only when it cannot store its end.
LEMMA SchedulerStrands ==
    ASSUME TypeOK, SchedulerStep, NEW id \in Ids, ~Stranded(id), Stranded(id)'
    PROVE  LeftUnsettled(id)
<1>t. RowsOK /\ SchedulerOK
  BY DEF TypeOK
<1>1. ~UNCHANGED <<rows, task>>
  BY DEF Stranded, WorksOn
<1>2. ~(Start \/ SelectStop \/ SelectSignal \/ SelectTick \/ DequeueNothing \/ Setup)
  BY <1>1 DEF Start, SelectStop, SelectSignal, SelectTick, DequeueNothing, Setup
<1>3. ASSUME NEW head \in Heads, DequeueJob(head) PROVE FALSE
  <2>1. /\ Writes(head, TransitionTo(rows[head], "running"))
        /\ task' = Run(head, TransitionTo(rows[head], "running"))
        /\ pc = "dequeue"
    BY <1>t, <1>3, DequeueJobFacts
  <2>2. task = NoTask
    BY <1>t, <2>1 DEF SchedulerOK
  <2>3. task' # NoTask /\ task'.id = head
    <3>1. DOMAIN task' = {"id", "job", "done"}
      BY <2>1 DEF Run
    <3>2. DOMAIN NoTask = {"id"}
      BY DEF NoTask
    <3> QED BY <2>1, <3>1, <3>2 DEF Run
  <2> QED BY <2>1, <2>2, <2>3 DEF Stranded, WorksOn, Writes
<1>4. ASSUME task # NoTask, task' \in Task, task'.id = task.id,
             UNCHANGED rows \/ \E job : Writes(task.id, job)
      PROVE  FALSE
  <2>1. task' # NoTask
    BY <1>4 DEF Task, NoTask
  <2>2. \A other \in Ids \ {task.id} : rows'[other] = rows[other]
    BY <1>4 DEF Writes, Ids
  <2> QED BY <1>4, <2>1, <2>2 DEF Stranded, WorksOn
<1>5. ASSUME NEW iterations \in ParsedIterations, NEW done \in BOOLEAN,
             ClaudeExits(iterations, done)
      PROVE  FALSE
  BY <1>t, <1>4, <1>5, ClaudeExitsFacts
<1>6. ~(SaveIteration \/ SavePR)
  <2> SUFFICES ASSUME SaveIteration \/ SavePR PROVE FALSE
    OBVIOUS
  <2>1. task # NoTask /\ UNCHANGED task
    BY <1>t DEF SaveIteration, SavePR, SchedulerOK
  <2>2. UNCHANGED rows \/ Writes(task.id, task.job)
    BY <1>t, <2>1, UpdateOrLogFacts DEF SaveIteration, SavePR
  <2> QED BY <1>t, <1>4, <2>1, <2>2, TaskFacts
<1>7. ~Finalize
  BY <1>t, <1>4, FinalizeFacts, TaskFacts
<1>8. CASE CompleteTask
  <2>1. task # NoTask /\ task' = NoTask /\ pc = "complete"
    BY <1>t, <1>8 DEF CompleteTask, SchedulerOK, Forget
  <2>2. ~Complete(task.id, task.job)
    <3> SUFFICES ASSUME Complete(task.id, task.job) PROVE FALSE
      OBVIOUS
    <3>1. Writes(task.id, TransitionTo(task.job, "completed"))
      BY <1>t, <2>1, TaskFacts, MoveWrites DEF Complete, Statuses
    <3>2. TransitionTo(task.job, "completed").status = "completed"
      BY <1>t, <2>1, TaskFacts, TransitionToFacts DEF Statuses
    <3> QED BY <2>1, <3>1, <3>2, RestStrandsNone
  <2>3. "settle" \in FailingWrites /\ UNCHANGED rows
    BY <1>8, <2>2 DEF CompleteTask
  <2> QED BY <2>1, <2>3 DEF LeftUnsettled, Stranded, WorksOn
<1>9. CASE FailTask
  <2>1. /\ task # NoTask /\ task' = NoTask /\ pc = "fail"
        /\ Erring(task.job) \in JobRecord
    BY <1>t, <1>9, FailTaskFacts DEF FailTask, Forget
  <2>2. ~Fail(task.id, task.job)
    <3> SUFFICES ASSUME Fail(task.id, task.job) PROVE FALSE
      OBVIOUS
    <3>1. Writes(task.id, TransitionTo(Erring(task.job), "failed"))
      BY <1>t, <2>1, TaskFacts, MoveWrites DEF Fail, Erring, Statuses
    <3>2. TransitionTo(Erring(task.job), "failed").status = "failed"
      BY <2>1, TransitionToFacts DEF Statuses
    <3> QED BY <2>1, <3>1, <3>2, RestStrandsNone
  <2>3. "settle" \in FailingWrites /\ UNCHANGED rows
    BY <1>9, <2>2 DEF FailTask
  <2> QED BY <2>1, <2>3 DEF LeftUnsettled, Stranded, WorksOn
<1> QED BY <1>2, <1>3, <1>5, <1>6, <1>7, <1>8, <1>9
        DEF SchedulerStep, SchedulerNext, ProcessNext, Handle

\* For any number of jobs and clients, whatever they send and whatever fails: a
\* job is left running with nobody working on it only by a process that dies, by
\* an end that cannot be stored, or by a resume or a PATCH that marks it so.
THEOREM StrandedInTheseWays == Spec => OnlyTheseStrand
<1> DEFINE Explained(id) ==
      ~Stranded(id) /\ Stranded(id)' => LeftUnsettled(id) \/ MarkedRunning(id)
<1>1. ASSUME TypeOK, [Next]_vars, NEW id \in Ids, ~Stranded(id), Stranded(id)'
      PROVE  LeftUnsettled(id) \/ MarkedRunning(id)
  <2>t. RowsOK /\ RequestsOK /\ SchedulerOK
    BY <1>1 DEF TypeOK
  <2>1. ASSUME UNCHANGED <<rows, task>> PROVE FALSE
    BY <1>1, <2>1, SameStrandsNone
  <2>2. ASSUME NEW priority \in CreatePriorities, NEW maxIterations \in CreateMaxIterations,
               HandleCreateJob(priority, maxIterations), UNCHANGED schedulerVars
        PROVE  FALSE
    <3>1. priority \in Priorities /\ maxIterations \in Int
      BY InputAssumption
    <3>2. rows'[id] = rows[id]
      BY <1>1, <2>t, <2>2, <3>1, CreateJobFacts
    <3> QED BY <1>1, <2>2, <3>2, SameStrandsNone DEF schedulerVars
  <2>3. ASSUME NEW ids \in ReorderLists, HandleReorderJobs(ids), UNCHANGED schedulerVars
        PROVE  FALSE
    <3>1. \/ rows'[id] = rows[id]
          \/ \E p \in Nat \ {0} : rows'[id] = [rows[id] EXCEPT !.position = p]
      BY <1>1, <2>t, <2>3, ReorderFacts
    <3>2. rows[id] \in JobRecord
      BY <1>1, <2>t, RowsAreJobs DEF RowsOK
    <3>3. rows'[id].status = rows[id].status
      BY <3>1, <3>2 DEF JobRecord
    <3> QED BY <1>1, <2>3, <3>3, SameStrandsNone DEF schedulerVars
  <2>4. ASSUME NEW c \in Clients, Respond(c), UNCHANGED task PROVE MarkedRunning(id)
    BY <1>1, <2>4, AnswerStrands
  <2>5. CASE ApiStep
    <3>1. ASSUME NEW c \in Clients, NEW op \in Ops, NEW other \in Ids, LoadJob(c, op, other)
          PROVE  FALSE
      BY <2>1, <2>5, <3>1 DEF ApiStep, LoadJob, schedulerVars
    <3> QED BY <2>2, <2>3, <2>4, <2>5, <3>1 DEF ApiStep, ApiNext, schedulerVars
  <2>6. CASE SchedulerStep
    BY <1>1, <2>6, SchedulerStrands
  <2>7. ASSUME NEW c \in Clients, ResumeJob(c) PROVE MarkedRunning(id)
    BY <2>4, <2>7 DEF ResumeJob, Respond
  <2>8. ~Cancellation /\ ~UNCHANGED vars
    BY <2>1 DEF Cancellation, CancelContext, vars
  <2>9. CASE Crash
    BY <1>1, <2>9 DEF Crash, LeftUnsettled, Stranded, WorksOn
  <2> QED BY <1>1, <2>5, <2>6, <2>7, <2>8, <2>9 DEF Next
<1>2. TypeOK /\ [Next]_vars => [\A id \in Ids : Explained(id)]_vars
  BY <1>1
<1> QED BY <1>2, TypeCorrect, PTL DEF Spec, OnlyTheseStrand

-----------------------------------------------------------------------------
(***************************************************************************)
(* Positions, with users who move jobs from the command line.              *)
(***************************************************************************)

\* Without PATCH and a reordering, jobs leave the queue or one joins it.
LEMMA QueueSteps ==
    ASSUME NoPatch, NoReorder, TypeOK, [Next]_vars
    PROVE  OnlyLeaves \/ Grows
<1>t. RowsOK /\ RequestsOK /\ SchedulerOK
  BY DEF TypeOK
<1>1. ASSUME NEW priority \in CreatePriorities, NEW maxIterations \in CreateMaxIterations,
             HandleCreateJob(priority, maxIterations)
      PROVE  Grows
  BY <1>t, <1>1, InputAssumption, CreateJobFacts DEF Grows, IsNew
<1>2. ASSUME NEW c \in Clients, Respond(c) PROVE OnlyLeaves
  <2>1. CASE HandleCancelJob(c)
    <3>1. Busy(c) /\ Writes(req[c].id, TransitionTo(req[c].job, "cancelled"))
      BY <1>t, <2>1, CancelJobFacts
    <3>2. TransitionTo(req[c].job, "cancelled").status = "cancelled"
      BY <1>t, <3>1, RequestFacts, TransitionToFacts DEF Statuses
    <3> QED BY <3>1, <3>2, OnlyLeavesAfterWrite
  <2>2. CASE HandlePauseJob(c)
    <3>1. Busy(c) /\ Writes(req[c].id, TransitionTo(req[c].job, "paused"))
      BY <1>t, <2>2, PauseJobFacts
    <3>2. TransitionTo(req[c].job, "paused").status = "paused"
      BY <1>t, <3>1, RequestFacts, TransitionToFacts DEF Statuses
    <3> QED BY <3>1, <3>2, OnlyLeavesAfterWrite
  <2>3. CASE HandleResumeJob(c)
    <3>1. Busy(c) /\ Writes(req[c].id, TransitionTo(req[c].job, "running"))
      BY <1>t, <2>3, ResumeJobFacts
    <3>2. TransitionTo(req[c].job, "running").status = "running"
      BY <1>t, <3>1, RequestFacts, TransitionToFacts DEF Statuses
    <3> QED BY <3>1, <3>2, OnlyLeavesAfterWrite
  <2>4. CASE HandleUpdateJob(c)
    <3>1. req[c].op = "patch" /\ req[c].op \in Ops
      BY <1>t, <2>4, UpdateJobFacts, RequestFacts
    <3> QED BY <3>1 DEF NoPatch
  <2>5. CASE AnswerError(c)
    BY <2>5, UnchangedRows DEF AnswerError
  <2> QED BY <1>2, <2>1, <2>2, <2>3, <2>4, <2>5 DEF Respond
<1>3. ASSUME SchedulerStep PROVE OnlyLeaves
  <2>1. CASE Start \/ SelectStop \/ SelectSignal \/ SelectTick \/ DequeueNothing \/ Setup
    BY <2>1, UnchangedRows
       DEF Start, SelectStop, SelectSignal, SelectTick, DequeueNothing, Setup
  <2>2. ASSUME NEW id \in Heads, DequeueJob(id) PROVE OnlyLeaves
    <3>1. id \in Queued /\ Writes(id, TransitionTo(rows[id], "running"))
      BY <1>t, <2>2, DequeueJobFacts
    <3>2. rows[id] \in JobRecord
      BY <1>t, <3>1, RowsAreJobs DEF Queued, RowsOK
    <3>3. TransitionTo(rows[id], "running").status = "running"
      BY <3>2, TransitionToFacts DEF Statuses
    <3> QED BY <3>1, <3>3, OnlyLeavesAfterWrite
  <2>3. CASE SaveIteration \/ SavePR
    <3>1. task # NoTask
      BY <1>t, <2>3 DEF SaveIteration, SavePR, SchedulerOK
    <3>2. UNCHANGED rows \/ Writes(task.id, task.job)
      BY <1>t, <2>3, <3>1, UpdateOrLogFacts DEF SaveIteration, SavePR
    <3> QED BY <1>t, <3>1, <3>2, TaskFacts, OnlyLeavesAfterWrite, UnchangedRows
  <2>4. ASSUME NEW iterations \in ParsedIterations, NEW done \in BOOLEAN,
               ClaudeExits(iterations, done)
        PROVE  OnlyLeaves
    BY <2>4, UnchangedRows DEF ClaudeExits
  <2>5. CASE Finalize
    BY <2>5, UnchangedRows DEF Finalize
  <2>6. CASE CompleteTask
    <3>1. /\ task # NoTask
          /\ UNCHANGED rows \/ Writes(task.id, TransitionTo(task.job, "completed"))
      BY <1>t, <2>6, CompleteTaskFacts
    <3>2. TransitionTo(task.job, "completed").status = "completed"
      BY <1>t, <3>1, TaskFacts, TransitionToFacts DEF Statuses
    <3> QED BY <3>1, <3>2, OnlyLeavesAfterWrite, UnchangedRows
  <2>7. CASE FailTask
    <3>1. /\ Erring(task.job) \in JobRecord
          /\ \/ UNCHANGED rows
             \/ Writes(task.id, TransitionTo(Erring(task.job), "failed"))
      BY <1>t, <2>7, FailTaskFacts
    <3>2. TransitionTo(Erring(task.job), "failed").status = "failed"
      BY <3>1, TransitionToFacts DEF Statuses
    <3> QED BY <3>1, <3>2, OnlyLeavesAfterWrite, UnchangedRows
  <2> QED BY <1>3, <2>1, <2>2, <2>3, <2>4, <2>5, <2>6, <2>7
          DEF SchedulerStep, SchedulerNext, ProcessNext, Handle
<1>4. ASSUME ApiStep PROVE OnlyLeaves \/ Grows
  <2>1. ASSUME NEW c \in Clients, NEW op \in Ops, NEW id \in Ids, LoadJob(c, op, id)
        PROVE  OnlyLeaves
    BY <2>1, UnchangedRows DEF LoadJob
  <2> QED BY <1>1, <1>2, <1>4, <2>1 DEF ApiStep, ApiNext, NoReorder
<1>5. ASSUME NEW c \in Clients, ResumeJob(c) PROVE OnlyLeaves
  BY <1>2, <1>5 DEF ResumeJob, Respond
<1>6. CASE Cancellation \/ Crash \/ UNCHANGED vars
  BY <1>6, UnchangedRows DEF Cancellation, CancelContext, Crash, vars
<1> QED BY <1>3, <1>4, <1>5, <1>6 DEF Next

\* A job that joins the queue takes a position of its own.
LEMMA QueueKeepsPositions ==
    ASSUME RowsOK, PositionsDistinct, OnlyLeaves \/ Grows
    PROVE  PositionsDistinct'
<1>1. CASE OnlyLeaves
  <2>1. \A id \in Queued' : id \in Queued /\ rows'[id] = rows[id]
    BY <1>1 DEF OnlyLeaves, Queued
  <2> QED BY <2>1 DEF PositionsDistinct
<1>2. CASE Grows
  <2> DEFINE new == Len(rows) + 1
  <2>1. /\ Ids' = Ids \cup {new}
        /\ \A id \in Ids : rows'[id] = rows[id]
        /\ rows'[new].position = NextPosition
    BY <1>2 DEF Grows
  <2> HIDE DEF new
  <2>2. \A id \in Queued' \ {new} : id \in Queued /\ rows'[id] = rows[id]
    BY <2>1 DEF Queued
  <2>3. \A id \in Queued : rows[id].position # NextPosition
    <3>1. \A id \in Queued : rows[id].position \in Nat
      BY RowsAreJobs DEF RowsOK, Queued
    <3> QED BY <3>1, NextPositionFacts DEF RowsOK
  <2> QED BY <2>1, <2>2, <2>3 DEF PositionsDistinct
<1> QED BY <1>1, <1>2

\* A reordering with a list of all that wait leaves no position twice.
LEMMA FullListSeparates ==
    ASSUME RowsOK, NEW ids \in Seq(Nat), UpdatePositions(ids),
           \A id \in Queued : \E i \in DOMAIN ids : ids[i] = id
    PROVE  PositionsDistinct'
<1>1. /\ Ids' = Ids
      /\ \A id \in Ids : \/ rows'[id] = rows[id]
                         \/ \E p \in 1 .. Len(ids) : rows'[id] = [rows[id] EXCEPT !.position = p]
  BY UpdatePositionsFacts DEF RowsOK
<1>2. \A id \in Ids : rows[id] \in JobRecord
  BY RowsAreJobs DEF RowsOK
<1>3. \A id \in Ids : rows'[id].status = rows[id].status
  BY <1>1, <1>2 DEF JobRecord
<1>4. Queued' = Queued
  BY <1>1, <1>3 DEF Queued
<1>5. ASSUME NEW id \in Queued
      PROVE  rows'[id].position = PlaceIn(ids, id) /\ ids[PlaceIn(ids, id)] = id
  <2>1. rows'[id] = [rows[id] EXCEPT !.position = PlaceIn(ids, id)]
    BY <1>5 DEF UpdatePositions, Queued
  <2>2. rows'[id].position = PlaceIn(ids, id)
    BY <1>2, <2>1 DEF JobRecord, Queued
  <2> QED BY <2>2, PlaceInFacts
<1> QED BY <1>4, <1>5 DEF PositionsDistinct

\* What move sends names every job on the list it got and no other but its own; a
\* job of that list goes to its destination, or to the end, and the list keeps its
\* length.
LEMMA NewOrderFacts ==
    ASSUME NEW ids \in Seq(Nat), NEW id \in Nat, NEW destination \in Nat
    PROVE  LET order == NewOrder(ids, id, destination)
           IN  /\ order \in Seq(Nat)
               /\ {order[j] : j \in DOMAIN order} = {id} \cup {ids[i] : i \in DOMAIN ids}
               /\ (\E i \in DOMAIN ids : ids[i] = id) =>
                     /\ Len(order) = Len(ids)
                     /\ destination \in 1 .. Len(ids) => order[destination] = id
                     /\ destination \notin 1 .. Len(ids) => order[Len(ids)] = id
<1> DEFINE others == Others(ids, id)
           order == NewOrder(ids, id, destination)
<1>1. /\ others \in Seq(Nat)
      /\ \A j \in DOMAIN others : \E i \in DOMAIN ids : others[j] = ids[i]
      /\ (\E i \in DOMAIN ids : ids[i] = id) => Len(others) = Len(ids) - 1
      /\ \A i \in DOMAIN ids : ids[i] = id \/ \E j \in DOMAIN others : others[j] = ids[i]
  <2>1. CASE \E i \in DOMAIN ids : ids[i] = id
    <3> DEFINE p == PlaceIn(ids, id)
               front == SubSeq(ids, 1, p - 1)
               back == SubSeq(ids, p + 1, Len(ids))
    <3>1. p \in 1 .. Len(ids) /\ ids[p] = id
      BY <2>1, PlaceInFacts
    <3>2. others = front \o back
      BY <2>1 DEF Others, RemoveAt
    <3> HIDE DEF others, p
    <3>3. /\ front \in Seq(Nat) /\ Len(front) = p - 1
          /\ \A i \in 1 .. p - 1 : front[i] = ids[i]
      BY <3>1
    <3>4. /\ back \in Seq(Nat) /\ Len(back) = Len(ids) - p
          /\ \A i \in 1 .. Len(ids) - p : back[i] = ids[p + i]
      BY <3>1
    <3> HIDE DEF front, back
    <3>5. others \in Seq(Nat) /\ Len(others) = Len(ids) - 1
      <4>1. others \in Seq(Nat) /\ Len(others) = Len(front) + Len(back)
        BY <3>2, <3>3, <3>4, ConcatProperties
      <4> QED BY <3>1, <3>3, <3>4, <4>1
    <3>6. ASSUME NEW i \in DOMAIN ids, i < p PROVE others[i] = ids[i] /\ i \in DOMAIN others
      <4>1. i \in 1 .. p - 1
        BY <3>1, <3>6
      <4>2. i \in 1 .. Len(front) + Len(back) /\ i <= Len(front) /\ i \in DOMAIN others
        <5>1. /\ p \in Nat /\ i \in Nat /\ Len(ids) \in Nat
              /\ 1 <= i /\ i <= p - 1 /\ p <= Len(ids)
          BY <3>1, <4>1
        <5>2. Len(front) = p - 1 /\ Len(back) = Len(ids) - p
          BY <3>3, <3>4
        <5>3. DOMAIN others = 1 .. Len(ids) - 1
          BY <3>5
        <5> QED BY <5>1, <5>2, <5>3
      <4>3. others[i] = front[i]
        BY <3>2, <3>3, <3>4, <4>2, ConcatProperties
      <4> QED BY <3>3, <4>1, <4>2, <4>3
    <3>7. ASSUME NEW i \in DOMAIN ids, i > p
          PROVE  others[i - 1] = ids[i] /\ i - 1 \in DOMAIN others
      <4> DEFINE k == i - 1
      <4>1. i \in 1 .. Len(ids) /\ Len(ids) \in Nat
        OBVIOUS
      <4>2. /\ k \in 1 .. Len(front) + Len(back) /\ ~(k <= Len(front))
            /\ k - Len(front) = i - p
        <5>1. p \in Nat /\ i \in Nat /\ p < i /\ i <= Len(ids) /\ 1 <= p
          BY <3>1, <3>7, <4>1
        <5>2. Len(front) + Len(back) = Len(ids) - 1
          BY <3>3, <3>4, <4>1, <5>1
        <5>3. k - Len(front) = i - p /\ ~(k <= Len(front))
          BY <3>3, <5>1
        <5> QED BY <4>1, <5>1, <5>2, <5>3
      <4>3. i - p \in 1 .. Len(ids) - p /\ p + (i - p) = i
        BY <3>1, <3>7, <4>1
      <4>4. k \in DOMAIN others
        BY <3>3, <3>4, <3>5, <4>1, <4>2
      <4> HIDE DEF k
      <4>5. others[k] = back[k - Len(front)]
        BY <3>2, <3>3, <3>4, <4>2, ConcatProperties
      <4>6. others[k] = ids[i]
        BY <3>4, <4>2, <4>3, <4>5
      <4> QED BY <4>4, <4>6 DEF k
    <3>8. \A i \in DOMAIN ids : i < p \/ i = p \/ i > p
      BY <3>1
    <3>9. ASSUME NEW j \in DOMAIN others
          PROVE  \E i \in DOMAIN ids : others[j] = ids[i]
      <4>1. j \in DOMAIN ids /\ j + 1 \in DOMAIN ids /\ (j + 1) - 1 = j
        BY <3>1, <3>5
      <4>2. j < p \/ j + 1 > p
        BY <3>1, <4>1
      <4> QED BY <3>6, <3>7, <4>1, <4>2
    <3> QED BY <3>1, <3>5, <3>6, <3>7, <3>8, <3>9
  <2>2. CASE ~ \E i \in DOMAIN ids : ids[i] = id
    BY <2>2 DEF Others
  <2> QED BY <2>1, <2>2
<1> HIDE DEF others
<1>s. others \in Seq(Nat)
  BY <1>1
<1>2. /\ order \in Seq(Nat)
      /\ Len(order) = Len(others) + 1
      /\ \A j \in DOMAIN order : order[j] = id \/ \E i \in DOMAIN others : order[j] = others[i]
      /\ destination \in 1 .. Len(others) => order[destination] = id
      /\ destination \notin 1 .. Len(others) => order[Len(others) + 1] = id
      /\ \E j \in DOMAIN order : order[j] = id
      /\ \A i \in DOMAIN others : \E j \in DOMAIN order : order[j] = others[i]
  <2>1. CASE destination \in 1 .. Len(others)
    <3> DEFINE front == SubSeq(others, 1, destination - 1)
               back == SubSeq(others, destination, Len(others))
    <3>1. order = front \o <<id>> \o back
      BY <2>1 DEF NewOrder, InsertAt, others
    <3> HIDE DEF order
    <3>2. /\ front \in Seq(Nat) /\ Len(front) = destination - 1
          /\ \A i \in 1 .. destination - 1 : front[i] = others[i]
      BY <1>1, <2>1
    <3>3. /\ back \in Seq(Nat) /\ Len(back) = Len(others) - destination + 1
          /\ \A i \in 1 .. Len(others) - destination + 1 :
                back[i] = others[destination + i - 1]
      BY <1>1, <2>1
    <3> HIDE DEF front, back
    <3>n. front \o <<id>> \in Seq(Nat) /\ Len(front \o <<id>>) = destination
      BY <2>1, <3>2
    <3>4. order \in Seq(Nat) /\ Len(order) = Len(others) + 1
      <4>1. order \in Seq(Nat) /\ Len(order) = destination + Len(back)
        BY <3>1, <3>3, <3>n, ConcatProperties
      <4> QED BY <1>1, <2>1, <3>3, <4>1
    <3>5. destination \in DOMAIN order /\ order[destination] = id
      BY <1>1, <2>1, <3>1, <3>2, <3>3, <3>4
    <3>6. ASSUME NEW i \in DOMAIN others, i < destination
          PROVE  i \in DOMAIN order /\ order[i] = others[i]
      <4> DEFINE head == front \o <<id>>
      <4>1. i \in 1 .. Len(others) /\ Len(others) \in Nat
        BY <1>s
      <4>2. /\ i \in 1 .. destination - 1 /\ i \in DOMAIN order
            /\ i \in 1 .. Len(front) + 1 /\ i <= Len(front)
            /\ i \in 1 .. Len(head) + Len(back) /\ i <= Len(head)
        <5>1. i \in 1 .. destination - 1 /\ i \in 1 .. Len(front) + 1 /\ i <= Len(front)
          BY <2>1, <3>2, <3>6, <4>1
        <5>2. i \in 1 .. Len(head) + Len(back) /\ i <= Len(head)
          BY <2>1, <3>3, <3>n, <3>6, <4>1
        <5>3. DOMAIN order = 1 .. Len(others) + 1
          BY <3>4
        <5> QED BY <4>1, <5>1, <5>2, <5>3
      <4>3. /\ head \in Seq(Nat) /\ order = head \o back
            /\ <<id>> \in Seq(Nat) /\ Len(<<id>>) = 1
        BY <3>1, <3>n
      <4>4. head[i] = front[i]
        BY <3>2, <4>2, <4>3, ConcatProperties
      <4> HIDE DEF head
      <4>5. order[i] = head[i]
        BY <3>3, <4>2, <4>3, ConcatProperties
      <4> QED BY <3>2, <4>2, <4>4, <4>5
    <3>7. ASSUME NEW i \in DOMAIN others, i >= destination
          PROVE  i + 1 \in DOMAIN order /\ order[i + 1] = others[i]
      <4> DEFINE k == i + 1
                 head == front \o <<id>>
      <4>1. i \in 1 .. Len(others) /\ Len(others) \in Nat
        BY <1>1
      <4>2. k \in 1 .. Len(head) + Len(back) /\ ~(k <= Len(head)) /\ k \in DOMAIN order
        <5>1. k \in 1 .. Len(head) + Len(back) /\ ~(k <= Len(head))
          BY <2>1, <3>3, <3>n, <3>7, <4>1
        <5>2. DOMAIN order = 1 .. Len(others) + 1
          BY <3>4
        <5> QED BY <4>1, <5>1, <5>2
      <4>3. /\ k - Len(head) \in 1 .. Len(others) - destination + 1
            /\ destination + (k - Len(head)) - 1 = i
        BY <2>1, <3>n, <3>7, <4>1
      <4>4. head \in Seq(Nat) /\ order = head \o back
        BY <3>1, <3>n
      <4> HIDE DEF k, head
      <4>5. order[k] = back[k - Len(head)]
        BY <3>3, <4>2, <4>4, ConcatProperties
      <4>6. order[k] = others[i]
        BY <3>3, <4>3, <4>5
      <4> QED BY <4>2, <4>6 DEF k
    <3>8. \A i \in DOMAIN others : i < destination \/ i >= destination
      BY <1>1
    <3>9. ASSUME NEW j \in DOMAIN order
          PROVE  order[j] = id \/ \E i \in DOMAIN others : order[j] = others[i]
      <4>n. /\ Len(others) \in Nat /\ DOMAIN others = 1 .. Len(others)
            /\ j \in 1 .. Len(others) + 1
        BY <1>s, <3>4
      <4>1. CASE j < destination
        <5>1. j \in DOMAIN others
          BY <2>1, <4>n, <4>1
        <5> QED BY <3>6, <4>1, <5>1
      <4>2. CASE j > destination
        <5>1. j - 1 \in DOMAIN others /\ j - 1 >= destination /\ (j - 1) + 1 = j
          BY <2>1, <4>n, <4>2
        <5> QED BY <3>7, <5>1
      <4>3. j < destination \/ j = destination \/ j > destination
        BY <2>1, <3>4
      <4> QED BY <3>5, <4>1, <4>2, <4>3
    <3> QED BY <2>1, <3>4, <3>5, <3>6, <3>7, <3>8, <3>9
  <2>2. CASE destination \notin 1 .. Len(others)
    <3>1. order = Append(others, id)
      BY <2>2 DEF NewOrder, others
    <3> HIDE DEF order
    <3>2. order \in Seq(Nat) /\ Len(order) = Len(others) + 1
      BY <1>1, <3>1
    <3>3. order[Len(others) + 1] = id /\ Len(others) + 1 \in DOMAIN order
      BY <1>1, <3>1, <3>2
    <3>4. \A i \in DOMAIN others : order[i] = others[i] /\ i \in DOMAIN order
      BY <1>1, <3>1, <3>2
    <3>5. \A j \in DOMAIN order : j = Len(others) + 1 \/ j \in DOMAIN others
      BY <1>1, <3>2
    <3> QED BY <2>2, <3>2, <3>3, <3>4, <3>5
  <2> QED BY <2>1, <2>2
<1> HIDE DEF order
<1>3. ASSUME NEW i \in DOMAIN ids PROVE \E j \in DOMAIN order : order[j] = ids[i]
  BY <1>1, <1>2
<1>4. ASSUME \E i \in DOMAIN ids : ids[i] = id
      PROVE  /\ Len(order) = Len(ids)
             /\ destination \in 1 .. Len(ids) => order[destination] = id
             /\ destination \notin 1 .. Len(ids) => order[Len(ids)] = id
  <2>1. Len(ids) \in Nat /\ Len(others) = Len(ids) - 1 /\ Len(order) = Len(ids)
    BY <1>1, <1>2, <1>4
  <2>2. destination \in 1 .. Len(others) \/ destination = Len(ids)
           \/ destination \notin 1 .. Len(ids)
    BY <2>1
  <2> QED BY <1>2, <2>1, <2>2
<1>5. ASSUME NEW j \in DOMAIN order, order[j] # id PROVE \E i \in DOMAIN ids : order[j] = ids[i]
  BY <1>1, <1>2, <1>5
<1>6. {order[j] : j \in DOMAIN order} = {id} \cup {ids[i] : i \in DOMAIN ids}
  <2>1. \A j \in DOMAIN order : order[j] \in {id} \cup {ids[i] : i \in DOMAIN ids}
    BY <1>5
  <2>2. id \in {order[j] : j \in DOMAIN order}
    BY <1>2
  <2>3. \A i \in DOMAIN ids : ids[i] \in {order[j] : j \in DOMAIN order}
    BY <1>3
  <2> QED BY <2>1, <2>2, <2>3
<1> QED BY <1>2, <1>4, <1>6 DEF order

\* The list a move command holds is one of ids.
MovesOK ==
    move \in [Movers -> [id : MovedIds, destination : Destinations, listed : Seq(Nat)]
                           \cup {AtRest}]

SystemOK == TypeOK /\ MovesOK

\* A moving command knows what to move.
LEMMA MoveFacts ==
    ASSUME MovesOK, NEW m \in Movers, Moving(m)
    PROVE  move[m].id \in Nat /\ move[m].destination \in Nat /\ move[m].listed \in Seq(Nat)
<1>1. move[m] \in [id : MovedIds, destination : Destinations, listed : Seq(Nat)]
  BY DEF MovesOK, Moving
<1> QED BY <1>1, MovesAssumption

\* What a reordering by move does.
LEMMA SentFacts ==
    ASSUME SystemOK, NEW m \in Movers, ReorderJobs(m)
    PROVE  LET order == NewOrder(move[m].listed, move[m].id, move[m].destination)
           IN  /\ Sends(m)
               /\ order \in Seq(Nat)
               /\ \A id \in Listed(m) : \E i \in DOMAIN order : order[i] = id
               /\ UpdatePositions(order)
               /\ UNCHANGED req
               /\ MovesOK'
<1>1. Moving(m)
  BY DEF ReorderJobs
<1>2. move' = [move EXCEPT ![m] = AtRest]
  BY DEF ReorderJobs
<1>3. MovesOK' /\ ~Moving(m)'
  BY <1>2 DEF SystemOK, MovesOK, Moving
<1>4. UpdatePositions(NewOrder(move[m].listed, move[m].id, move[m].destination)) /\ UNCHANGED req
  BY DEF ReorderJobs, HandleReorderJobs, Reorder
<1>5. move[m].id \in Nat /\ move[m].destination \in Nat /\ move[m].listed \in Seq(Nat)
  BY <1>1, MoveFacts DEF SystemOK
<1> DEFINE order == NewOrder(move[m].listed, move[m].id, move[m].destination)
<1>6. /\ order \in Seq(Nat)
      /\ {order[j] : j \in DOMAIN order}
             = {move[m].id} \cup {move[m].listed[i] : i \in DOMAIN move[m].listed}
  BY <1>5, NewOrderFacts
<1> HIDE DEF order
<1>7. \A id \in Listed(m) : \E i \in DOMAIN order : order[i] = id
  BY <1>6 DEF Listed
<1>8. Sends(m)
  BY <1>1, <1>3 DEF Sends
<1> QED BY <1>3, <1>4, <1>6, <1>7, <1>8 DEF order

\* A user's step is a move, or leaves the server alone.
LEMMA UserSteps ==
    ASSUME SystemOK, UserStep
    PROVE  \/ \E m \in Movers : ReorderJobs(m) /\ UNCHANGED schedulerVars
           \/ UNCHANGED vars /\ MovesOK'
<1>1. ASSUME NEW m \in Movers, NEW id \in MovedIds, NEW destination \in Destinations,
             GetJobs(m, id, destination), UNCHANGED schedulerVars
      PROVE  UNCHANGED vars /\ MovesOK'
  <2>1. PICK ids \in [1 .. Cardinality(Queued) -> Queued] :
           move' = [move EXCEPT ![m] = [id |-> id, destination |-> destination,
                                        listed |-> ids]]
    BY <1>1 DEF GetJobs
  <2>2. Queued \subseteq Nat /\ Cardinality(Queued) \in Nat
    <3>1. IsFiniteSet(Queued) /\ Queued \subseteq Nat
      BY IdsAreFinite, FS_Subset DEF SystemOK, TypeOK, RowsOK, Queued
    <3> QED BY <3>1, FS_CardinalityType
  <2>3. ids \in Seq(Nat)
    <3>1. ids \in [1 .. Cardinality(Queued) -> Nat]
      BY <2>1, <2>2
    <3> QED BY <2>2, <3>1, SeqDef
  <2>4. MovesOK'
    BY <2>1, <2>3 DEF SystemOK, MovesOK
  <2> QED BY <1>1, <2>4 DEF GetJobs, apiVars, schedulerVars, vars
<1>2. ASSUME NEW m \in Movers, RequestFails(m), UNCHANGED schedulerVars
      PROVE  UNCHANGED vars /\ MovesOK'
  BY <1>2 DEF RequestFails, SystemOK, MovesOK, apiVars, schedulerVars, vars
<1> QED BY <1>1, <1>2 DEF UserStep, MoveStep

\* The system keeps its types, whatever the lists that are sent.
LEMMA NextSystemOK == SystemOK /\ [SystemNext]_systemVars => SystemOK'
<1> SUFFICES ASSUME SystemOK, [SystemNext]_systemVars PROVE SystemOK'
  OBVIOUS
<1>1. ASSUME [Next]_vars, UNCHANGED move PROVE SystemOK'
  BY <1>1, NextTypeOK DEF SystemOK, MovesOK
<1>2. ASSUME NEW m \in Movers, ReorderJobs(m), UNCHANGED schedulerVars PROVE SystemOK'
  <2> DEFINE order == NewOrder(move[m].listed, move[m].id, move[m].destination)
  <2>1. order \in Seq(Nat) /\ UpdatePositions(order) /\ UNCHANGED req /\ MovesOK'
    BY <1>2, SentFacts
  <2> HIDE DEF order
  <2>2. RowsOK' /\ Ids' = Ids
    BY <2>1, UpdatePositionsFacts DEF SystemOK, TypeOK, RowsOK
  <2>3. RequestsOK' /\ SchedulerOK'
    BY <1>2, <2>1, <2>2, RequestsKept, SchedulerKept DEF SystemOK, TypeOK
  <2> QED BY <2>1, <2>2, <2>3 DEF SystemOK, TypeOK
<1>3. CASE UserStep
  BY <1>2, <1>3, UserSteps, NextTypeOK DEF SystemOK
<1>4. CASE ServerStep
  BY <1>1, <1>4 DEF ServerStep
<1>5. CASE UNCHANGED systemVars
  BY <1>1, <1>5 DEF systemVars, vars
<1> QED BY <1>3, <1>4, <1>5 DEF SystemNext

\* Two waiting jobs come to share a position only by a move whose list was read
\* before a job that now waits was submitted: nothing else the server does, and
\* no move of an up-to-date list, takes a position that is in use.
THEOREM PositionsCollideByStaleMoves ==
    ASSUME NoPatch, NoReorder
    PROVE  SystemSpec => OnlyStaleMoveCollides
<1>1. SystemInit => SystemOK
  BY InitTypeOK DEF SystemInit, CliInit, SystemOK, MovesOK
<1>2. SystemOK /\ [SystemNext]_systemVars =>
         [PositionsDistinct /\ ~PositionsDistinct' =>
             \E m \in Movers : Sends(m) /\ ~(Queued \subseteq Listed(m))]_systemVars
  <2> SUFFICES ASSUME SystemOK, SystemNext, PositionsDistinct, ~PositionsDistinct'
               PROVE  \E m \in Movers : Sends(m) /\ ~(Queued \subseteq Listed(m))
    OBVIOUS
  <2>t. TypeOK /\ RowsOK
    BY DEF SystemOK, TypeOK
  <2>1. ~[Next]_vars
    BY <2>t, QueueSteps, QueueKeepsPositions
  <2>2. PICK m \in Movers : ReorderJobs(m)
    BY <2>1, UserSteps DEF SystemNext, ServerStep
  <2> DEFINE order == NewOrder(move[m].listed, move[m].id, move[m].destination)
  <2>3. /\ Sends(m)
        /\ order \in Seq(Nat) /\ UpdatePositions(order)
        /\ \A id \in Listed(m) : \E i \in DOMAIN order : order[i] = id
    BY <2>2, SentFacts
  <2> HIDE DEF order
  <2>4. ~(Queued \subseteq Listed(m))
    BY <2>t, <2>3, FullListSeparates
  <2> QED BY <2>3, <2>4
<1> QED BY <1>1, <1>2, NextSystemOK, PTL DEF SystemSpec, OnlyStaleMoveCollides

\* A full list without repetitions has a place of its own for each of its ids.
LEMMA FullListIsInjective ==
    ASSUME NEW S, IsFiniteSet(S), NEW order \in Seq(S), Len(order) = Cardinality(S),
           \A id \in S : \E i \in DOMAIN order : order[i] = id
    PROVE  \A i \in DOMAIN order : PlaceIn(order, order[i]) = i
<1>1. DOMAIN order = 1 .. Len(order) /\ Len(order) \in Nat /\ order \in [1 .. Len(order) -> S]
  OBVIOUS
<1>2. IsFiniteSet(1 .. Len(order)) /\ Cardinality(1 .. Len(order)) = Len(order)
  BY <1>1, FS_Interval
<1>3. order \in Surjection(1 .. Len(order), S)
  BY <1>1 DEF Surjection
<1>4. order \in Injection(1 .. Len(order), S)
  BY <1>2, <1>3, FS_Surjection
<1>5. \A i, j \in DOMAIN order : order[i] = order[j] => i = j
  BY <1>1, <1>4 DEF Injection, IsInjective
<1> QED BY <1>1, <1>5, PlaceInFacts

\* The answer to GET names each of the waiting jobs once.
ListsOK ==
    \A m \in Movers : Moving(m) => Len(move[m].listed) = Cardinality(Listed(m))

\* A list stays as it was read until it is sent.
LEMMA NextListsOK == SystemOK /\ ListsOK /\ [SystemNext]_systemVars => ListsOK'
<1> SUFFICES ASSUME SystemOK, ListsOK, [SystemNext]_systemVars PROVE ListsOK'
  OBVIOUS
<1>1. ASSUME UNCHANGED move PROVE ListsOK'
  BY <1>1 DEF ListsOK, Moving, Listed
<1>2. ASSUME NEW m \in Movers, NEW id \in MovedIds, NEW destination \in Destinations,
             GetJobs(m, id, destination)
      PROVE  ListsOK'
  <2>1. PICK ids \in [1 .. Cardinality(Queued) -> Queued] :
           /\ IsListing(ids)
           /\ move' = [move EXCEPT ![m] = [id |-> id, destination |-> destination,
                                           listed |-> ids]]
    BY <1>2 DEF GetJobs
  <2>2. move'[m].listed = ids /\ \A other \in Movers \ {m} : move'[other] = move[other]
    BY <2>1 DEF SystemOK, MovesOK
  <2>3. Listed(m)' = Queued
    BY <2>1, <2>2 DEF Listed, IsListing
  <2>4. Len(ids) = Cardinality(Queued)
    <3>1. Cardinality(Queued) \in Nat
      BY IdsAreFinite, FS_Subset, FS_CardinalityType DEF SystemOK, TypeOK, RowsOK, Queued
    <3>2. ids \in Seq(Queued) /\ DOMAIN ids = 1 .. Cardinality(Queued)
      BY <3>1, SeqDef
    <3> QED BY <3>1, <3>2, LenProperties
  <2>5. \A other \in Movers \ {m} :
           Moving(other)' => Len(move'[other].listed) = Cardinality(Listed(other)')
    BY <2>2 DEF ListsOK, Moving, Listed
  <2>6. Len(move'[m].listed) = Cardinality(Listed(m)')
    BY <2>2, <2>3, <2>4
  <2> QED BY <2>5, <2>6 DEF ListsOK
<1>3. ASSUME NEW m \in Movers, move' = [move EXCEPT ![m] = AtRest] PROVE ListsOK'
  <2>1. ~Moving(m)' /\ \A other \in Movers \ {m} : move'[other] = move[other]
    BY <1>3 DEF SystemOK, MovesOK, Moving
  <2> QED BY <2>1 DEF ListsOK, Moving, Listed
<1> QED BY <1>1, <1>2, <1>3
        DEF SystemNext, ServerStep, UserStep, MoveStep, ReorderJobs, RequestFails, systemVars

\* A move of an up-to-date list puts its job where it was asked to, and numbers
\* the waiting jobs without a gap or a repetition, however many there are and
\* whatever their positions were before.
THEOREM MovesArePlaced == SystemSpec => MovedIsPlaced
<1> DEFINE n == Cardinality(Queued)
           Placed(m) == /\ {rows'[id].position : id \in Queued} = 1 .. n
                        /\ rows'[move[m].id].position =
                              IF move[m].destination \in 1 .. n
                              THEN move[m].destination ELSE n
<1>1. SystemInit => SystemOK /\ ListsOK
  BY InitTypeOK DEF SystemInit, CliInit, SystemOK, MovesOK, ListsOK, Moving
<1>2. ASSUME SystemOK, ListsOK, SystemNext, NEW m \in Movers, Sends(m), rows' # rows,
             Queued = Listed(m), move[m].id \in Queued
      PROVE  Placed(m)
  <2> DEFINE ids == move[m].listed
             order == NewOrder(ids, move[m].id, move[m].destination)
  <2>t. RowsOK
    BY <1>2 DEF SystemOK, TypeOK
  <2>1. ReorderJobs(m)
    <3>1. move' # move
      BY <1>2 DEF Sends, Moving
    <3>2. PICK other \in Movers : ReorderJobs(other)
      BY <1>2, <3>1, UserSteps DEF SystemNext, ServerStep, vars
    <3>3. other = m
      BY <1>2, <3>2 DEF ReorderJobs, Sends, Moving, SystemOK, MovesOK
    <3> QED BY <3>2, <3>3
  <2>2. UpdatePositions(order) /\ order \in Seq(Nat)
    BY <1>2, <2>1, SentFacts
  <2>3. /\ ids \in Seq(Nat) /\ move[m].destination \in Nat
        /\ \A id \in Queued : \E i \in DOMAIN ids : ids[i] = id
        /\ \A i \in DOMAIN ids : ids[i] \in Queued
        /\ Len(ids) = n
    BY <1>2, MoveFacts DEF Sends, Listed, ListsOK, SystemOK
  <2>4. move[m].id \in Nat /\ \E i \in DOMAIN ids : ids[i] = move[m].id
    BY <1>2, <2>3, MoveFacts DEF Sends, SystemOK
  <2>5. /\ \A i \in DOMAIN ids : \E j \in DOMAIN order : order[j] = ids[i]
        /\ \A j \in DOMAIN order :
              order[j] = move[m].id \/ \E i \in DOMAIN ids : order[j] = ids[i]
        /\ Len(order) = n
        /\ move[m].destination \in 1 .. n => order[move[m].destination] = move[m].id
        /\ move[m].destination \notin 1 .. n => order[n] = move[m].id
    <3>1. ids \in Seq(Nat) /\ move[m].id \in Nat /\ move[m].destination \in Nat
      BY <2>3, <2>4
    <3>2. Len(ids) = n /\ \E i \in DOMAIN ids : ids[i] = move[m].id
      BY <2>3, <2>4
    <3> HIDE DEF ids, n
    <3>s. {order[j] : j \in DOMAIN order} = {move[m].id} \cup {ids[i] : i \in DOMAIN ids}
      BY <3>1, NewOrderFacts
    <3>5. /\ Len(order) = Len(ids)
          /\ move[m].destination \in 1 .. Len(ids) => order[move[m].destination] = move[m].id
          /\ move[m].destination \notin 1 .. Len(ids) => order[Len(ids)] = move[m].id
      BY <3>1, <3>2, NewOrderFacts
    <3> HIDE DEF order
    <3>3. \A i \in DOMAIN ids : \E j \in DOMAIN order : order[j] = ids[i]
      BY <3>s
    <3>4. \A j \in DOMAIN order :
             order[j] = move[m].id \/ \E i \in DOMAIN ids : order[j] = ids[i]
      BY <3>s
    <3> QED BY <3>2, <3>3, <3>4, <3>5
  <2> HIDE DEF order, ids
  <2>6. /\ \A id \in Queued : \E i \in DOMAIN order : order[i] = id
        /\ order \in Seq(Queued)
    <3>1. \A j \in DOMAIN order : order[j] \in Queued
      BY <1>2, <2>3, <2>5
    <3>2. /\ DOMAIN order = 1 .. Len(order) /\ Len(order) \in Nat
          /\ order = [j \in DOMAIN order |-> order[j]]
      BY <2>2
    <3>3. order \in [1 .. Len(order) -> Queued]
      BY <3>1, <3>2
    <3>4. order \in Seq(Queued)
      BY <3>2, <3>3, SeqDef
    <3> QED BY <2>3, <2>5, <3>4
  <2>7. IsFiniteSet(Queued) /\ n \in Nat
    BY <2>t, IdsAreFinite, FS_Subset, FS_CardinalityType DEF RowsOK, Queued
  <2>8. \A i \in DOMAIN order : PlaceIn(order, order[i]) = i
    BY <2>5, <2>6, <2>7, FullListIsInjective
  <2>9. DOMAIN order = 1 .. n
    BY <2>2, <2>5
  <2>10. ASSUME NEW id \in Queued
         PROVE  rows'[id].position = PlaceIn(order, id)
    <3>1. rows[id] \in JobRecord /\ id \in Ids
      BY <2>t, RowsAreJobs DEF RowsOK, Queued
    <3>2. rows'[id] = [rows[id] EXCEPT !.position = PlaceIn(order, id)]
      BY <2>2, <2>6, <3>1 DEF UpdatePositions
    <3> QED BY <3>1, <3>2 DEF JobRecord
  <2>11. ASSUME NEW id \in Queued
         PROVE  rows'[id].position \in 1 .. n
    <3>1. PICK i \in DOMAIN order : order[i] = id
      BY <2>6
    <3> QED BY <2>8, <2>9, <2>10, <3>1
  <2>12. ASSUME NEW i \in 1 .. n
         PROVE  order[i] \in Queued /\ rows'[order[i]].position = i
    <3>1. i \in DOMAIN order
      BY <2>9
    <3>2. order[i] \in Queued
      BY <2>6, <3>1
    <3>3. PlaceIn(order, order[i]) = i
      BY <2>8, <3>1
    <3> QED BY <2>10, <3>2, <3>3
  <2>13. {rows'[id].position : id \in Queued} = 1 .. n
    BY <2>11, <2>12
  <2>14. n # 0
    BY <1>2, <2>7, FS_EmptySet
  <2>15. /\ move[m].destination \in 1 .. n =>
               rows'[move[m].id].position = move[m].destination
         /\ move[m].destination \notin 1 .. n => rows'[move[m].id].position = n
    BY <2>5, <2>7, <2>12, <2>14
  <2> QED BY <2>13, <2>15
<1>3. SystemOK /\ ListsOK /\ [SystemNext]_systemVars =>
         [\A m \in Movers :
             Sends(m) /\ rows' # rows /\ Queued = Listed(m) /\ move[m].id \in Queued =>
                LET places == 1 .. Cardinality(Queued)
                IN  /\ {rows'[id].position : id \in Queued} = places
                    /\ rows'[move[m].id].position =
                          IF move[m].destination \in places
                          THEN move[m].destination
                          ELSE Cardinality(Queued)]_systemVars
  BY <1>2
<1> QED BY <1>1, <1>3, NextSystemOK, NextListsOK, PTL DEF SystemSpec, MovedIsPlaced

-----------------------------------------------------------------------------
(***************************************************************************)
(* What the proofs about the server say of a server whose queue is         *)
(* reordered by move commands.                                             *)
(***************************************************************************)

\* PUT /jobs/order takes any list of ids.
AnyOrder == Seq(Nat) \subseteq ReorderLists

\* Move commands, out of date or not, are reorderings to the server: the system
\* implements the server, with the lists and their commands hidden.
THEOREM SystemImplementsServer ==
    ASSUME AnyOrder
    PROVE  SystemSpec => Spec
<1>1. SystemInit => Init /\ SystemOK
  BY InitTypeOK DEF SystemInit, CliInit, SystemOK, MovesOK
<1>2. SystemOK /\ [SystemNext]_systemVars => [Next]_vars
  <2> SUFFICES ASSUME SystemOK, [SystemNext]_systemVars PROVE [Next]_vars
    OBVIOUS
  <2>1. ASSUME NEW m \in Movers, ReorderJobs(m), UNCHANGED schedulerVars PROVE Next
    <3> DEFINE order == NewOrder(move[m].listed, move[m].id, move[m].destination)
    <3>1. HandleReorderJobs(order)
      BY <2>1 DEF ReorderJobs
    <3>2. order \in ReorderLists
      BY <2>1, SentFacts DEF AnyOrder
    <3> HIDE DEF order
    <3> QED BY <2>1, <3>1, <3>2 DEF Next, ApiStep, ApiNext
  <2>2. CASE UserStep
    BY <2>1, <2>2, UserSteps
  <2>3. CASE ServerStep
    BY <2>3 DEF ServerStep
  <2>4. CASE UNCHANGED systemVars
    BY <2>4 DEF systemVars, vars
  <2> QED BY <2>2, <2>3, <2>4 DEF SystemNext
<1> QED BY <1>1, <1>2, NextSystemOK, PTL DEF SystemSpec, Spec

\* So nothing a user moves, at whatever moment, revives a settled job, puts a job
\* back on the queue, strands one, completes one without its PR, mixes two moments
\* of a job, or leaves what StaleTable allows.
THEOREM MovesBreakNoPromise ==
    ASSUME AnyOrder
    PROVE  SystemSpec => /\ []RowCoherence
                         /\ SettledIsFinal
                         /\ OnlyPatchRequeues
                         /\ OnlyTheseStrand
                         /\ []FinishedHasPR
                         /\ ImplementsStaleTable
BY SystemImplementsServer, RowsStayCoherent, SettledStaysFinal, RequeuedByPatch,
   StrandedInTheseWays, FinishedJobsHavePR, ServerImplementsStaleTable

=============================================================================
