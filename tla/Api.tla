-------------------------------- MODULE Api --------------------------------
(***************************************************************************)
(* The job endpoints of internal/api/jobs.go.  net/http runs each request  *)
(* in a goroutine of its own.  Cancel, pause, resume and PATCH all work in *)
(* two steps: queue.Get reads the row into a copy under the read lock, and *)
(* later a queue method writes that copy back, all columns, under the      *)
(* write lock.  Any step of another goroutine fits between them; PATCH     *)
(* even reads the body of the request there.                               *)
(*                                                                         *)
(* Scheduler.PauseJob and Scheduler.CancelJob are the same two calls, so   *)
(* the same steps stand for them.                                          *)
(***************************************************************************)
EXTENDS Queue

CONSTANTS
    Clients,                \* the requests in flight at a time
    Ops,                    \* the two-step requests clients send
    MaxJobs,                \* bound: jobs created
    CreatePriorities,       \* inputs of POST /jobs ...
    CreateMaxIterations,
    PatchPriorities,        \* ... of PATCH /jobs/{id} ...
    PatchMaxIterations,
    ReorderLists            \* ... and of PUT /jobs/order

ASSUME MaxJobsAssumption == MaxJobs \in Nat

ASSUME OpsAssumption == Ops \subseteq {"cancel", "pause", "resume", "patch"}

ASSUME InputAssumption ==
    /\ CreatePriorities \subseteq Priorities
    /\ CreateMaxIterations \subseteq Int
    /\ PatchPriorities \subseteq Priorities
    /\ PatchMaxIterations \subseteq Int

ASSUME ReorderAssumption == \A ids \in ReorderLists : ids \in Seq(Nat)

VARIABLE req        \* per client, the request in flight with the job it read

apiVars == <<rows, req>>

Idle == [op |-> "idle"]

Request == [op : Ops, id : Nat \ {0}, job : JobRecord]

Busy(c) == req[c] # Idle

ApiInit == req = [c \in Clients |-> Idle]

\* The handler answers and its copy is gone.
Answer(c) == req' = [req EXCEPT ![c] = Idle]

(***************************************************************************)
(* One-step requests.  No handler signals the scheduler.                   *)
(***************************************************************************)
HandleCreateJob(priority, maxIterations) ==
    /\ Len(rows) < MaxJobs
    /\ Enqueue(NewJob(priority, maxIterations))
    /\ UNCHANGED req

HandleReorderJobs(ids) ==
    /\ Reorder(ids)
    /\ UNCHANGED req

(***************************************************************************)
(* Two-step requests.  The job is decoded from a row, never from the body: *)
(* only PATCH takes anything from the body, and it does not Validate it.   *)
(***************************************************************************)
LoadJob(c, op, id) ==
    /\ ~Busy(c)
    /\ req' = [req EXCEPT ![c] = [op |-> op, id |-> id, job |-> Get(id)]]
    /\ UNCHANGED rows

HandleCancelJob(c) ==
    /\ req[c].op = "cancel"
    /\ Cancel(req[c].id, req[c].job)
    /\ Answer(c)

HandlePauseJob(c) ==
    /\ req[c].op = "pause"
    /\ Pause(req[c].id, req[c].job)
    /\ Answer(c)

HandleResumeJob(c) ==
    /\ req[c].op = "resume"
    /\ Resume(req[c].id, req[c].job)
    /\ Answer(c)

Patched(job, priority, maxIterations) ==
    [job EXCEPT !.priority = priority, !.maxIterations = maxIterations]

\* Either field may be absent from the body, and then it keeps its value.
HandleUpdateJob(c) ==
    /\ req[c].op = "patch"
    /\ \E priority \in PatchPriorities \cup {req[c].job.priority},
          maxIterations \in PatchMaxIterations \cup {req[c].job.maxIterations} :
          Update(req[c].id, Patched(req[c].job, priority, maxIterations))
    /\ Answer(c)

\* What the handler's queue method asks of its copy.
Refused(r) ==
    CASE r.op = "cancel" -> ~CanTransitionTo(r.job.status, "cancelled")
      [] r.op = "pause"  -> ~CanTransitionTo(r.job.status, "paused")
      [] r.op = "resume" -> r.job.status # "paused"
      [] r.op = "patch"  -> TRUE     \* a body that does not parse

\* An illegal transition, a malformed body or a write the database refuses:
\* the handler answers with an error and the row stays.
AnswerError(c) ==
    /\ Busy(c)
    /\ Refused(req[c]) \/ "api" \in FailingWrites
    /\ Answer(c)
    /\ UNCHANGED rows

Respond(c) ==
    \/ HandleCancelJob(c)
    \/ HandlePauseJob(c)
    \/ HandleResumeJob(c)
    \/ HandleUpdateJob(c)
    \/ AnswerError(c)

ApiNext ==
    \/ \E priority \in CreatePriorities, maxIterations \in CreateMaxIterations :
          HandleCreateJob(priority, maxIterations)
    \/ \E ids \in ReorderLists : HandleReorderJobs(ids)
    \/ \E c \in Clients, op \in Ops, id \in Ids : LoadJob(c, op, id)
    \/ \E c \in Clients : Respond(c)

=============================================================================
