----------------------------- MODULE StaleTable -----------------------------
(***************************************************************************)
(* What the server promises of its jobs table, whatever goroutines it has: *)
(* a row only ever becomes what some goroutine made, by one legal step, of *)
(* the row as it was when that goroutine read it.  Nothing is promised of  *)
(* how old the copy is: that is what makes the promise weak, and what the  *)
(* properties of RalphServer are about.                                    *)
(*                                                                         *)
(* Every step is a relation between the table before and after it.         *)
(***************************************************************************)
EXTENDS Job, Sequences

VARIABLES
    rows,       \* the jobs table
    copies      \* the copies of its rows that goroutines hold: [id, job]

tableVars == <<rows, copies>>

Copy(id, job) == [id |-> id, job |-> job]

\* A legal move of a job; the error is set by the move to failed.
MovesTo(job, next) ==
    \E target \in Successors[job.status] :
        next = TransitionTo([job EXCEPT !.error = @ \/ target = "failed"], target)

\* What PATCH may change, in any status.
PatchesTo(job, next) ==
    /\ next.priority \in Priorities
    /\ next = [job EXCEPT !.priority = next.priority,
                          !.maxIterations = next.maxIterations]

\* What the handler learns about a running job.
ProgressesTo(job, next) ==
    /\ job.status = "running"
    /\ next.iteration >= job.iteration
    /\ job.prURL => next.prURL
    /\ next = [job EXCEPT !.iteration = next.iteration, !.prURL = next.prURL]

-----------------------------------------------------------------------------
Init == rows = << >> /\ copies = {}

\* A new job waits, with no history.
Submit ==
    LET id == Len(rows) + 1
    IN  /\ DOMAIN rows' = 1 .. id
        /\ \A other \in DOMAIN rows : rows'[other] = rows[other]
        /\ rows'[id] = [NewJob(rows'[id].priority, rows'[id].maxIterations)
                           EXCEPT !.position = rows'[id].position]
        /\ copies' = copies

\* Positions change, and nothing else of any row.
Renumber ==
    /\ DOMAIN rows' = DOMAIN rows
    /\ \A id \in DOMAIN rows :
          rows'[id] = [rows[id] EXCEPT !.position = rows'[id].position]
    /\ copies' = copies

\* A copy is taken of a row as it is.
Read ==
    /\ \E id \in DOMAIN rows : copies' = copies \cup {Copy(id, rows[id])}
    /\ rows' = rows

\* Goroutines end, or the process does: their copies are gone.
Forget == copies' \subseteq copies /\ rows' = rows

\* The handler moves its own copy on and has not stored it yet.
Work ==
    /\ \E copy \in copies : \E next \in copies' :
          /\ next.id = copy.id
          /\ ProgressesTo(copy.job, next.job)
          /\ copies' \subseteq copies \cup {next}
    /\ rows' = rows

\* A copy, or what one legal step makes of it, replaces the whole row.
Write ==
    /\ copies' \subseteq copies
    /\ \E copy \in copies :
          /\ \/ rows'[copy.id] = copy.job
             \/ MovesTo(copy.job, rows'[copy.id])
             \/ PatchesTo(copy.job, rows'[copy.id])
          /\ rows' = [rows EXCEPT ![copy.id] = rows'[copy.id]]

\* The queue reads a waiting row and starts it in one step; its goroutine
\* keeps the copy it stored.
Take ==
    \E id \in DOMAIN rows :
        LET running == TransitionTo(rows[id], "running")
        IN  /\ rows[id].status = "queued"
            /\ rows' = [rows EXCEPT ![id] = running]
            /\ copies' = copies \cup {Copy(id, running)}

Next == Forget \/ Read \/ Work \/ Write \/ Take \/ Submit \/ Renumber

Spec == Init /\ [][Next]_tableVars

=============================================================================
