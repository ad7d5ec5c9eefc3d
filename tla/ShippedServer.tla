--------------------------- MODULE ShippedServer ---------------------------
(***************************************************************************)
(* The server cmd/server/main.go starts: it opens the database, migrates   *)
(* it, builds the queue and serves the API until a signal arrives.  It     *)
(* builds no Scheduler and no RalphHandler, so the endpoints are all that  *)
(* ever touches the jobs table.                                            *)
(***************************************************************************)
EXTENDS Api

Init == rows = << >> /\ ApiInit

Next == ApiNext

\* The server runs, and every handler answers.
Spec ==
    /\ Init
    /\ [][Next]_apiVars
    /\ \A c \in Clients : WF_apiVars(Respond(c))

\* README.md, How It Works: the server takes a submitted job from the queue
\* and executes it, so a job does not wait for ever.
QueuedIsServed ==
    \A id \in 1 .. MaxJobs :
        (id \in Ids /\ rows[id].status = "queued") ~>
            ~(id \in Ids /\ rows[id].status = "queued")

=============================================================================
