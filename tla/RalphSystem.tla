---------------------------- MODULE RalphSystem ----------------------------
(***************************************************************************)
(* The server together with users who move jobs in its queue from the      *)
(* command line.                                                           *)
(***************************************************************************)
EXTENDS RalphServer, Cli

systemVars == <<rows, req, pc, task, ctxDone, signal, move>>

SystemInit == Init /\ CliInit

ServerStep == Next /\ UNCHANGED move

UserStep == MoveStep /\ UNCHANGED schedulerVars

SystemNext == ServerStep \/ UserStep

SystemSpec == SystemInit /\ [][SystemNext]_systemVars

\* The fairness of RalphServer; users owe nothing.
SystemFairness ==
    /\ WF_systemVars(SchedulerStep /\ UNCHANGED move)
    /\ SF_systemVars(SelectStop /\ UNCHANGED <<req, move>>)
    /\ SF_systemVars(\E id \in Heads : DequeueJob(id) /\ UNCHANGED <<req, move>>)

LiveSystem == SystemSpec /\ SystemFairness

-----------------------------------------------------------------------------
Sends(m) == Moving(m) /\ ~Moving(m)'

Listed(m) == {move[m].listed[i] : i \in DOMAIN move[m].listed}

\* No two jobs that wait share a position, so ListQueued has one order only.
PositionsDistinct ==
    \A id, other \in Queued : id # other => rows[id].position # rows[other].position

\* Without PATCH, two waiting jobs come to share a position only when a move
\* is sent whose list was read before a job that now waits was submitted.
OnlyStaleMoveCollides ==
    [][PositionsDistinct /\ ~PositionsDistinct' =>
          \E m \in Movers : Sends(m) /\ ~(Queued \subseteq Listed(m))]_systemVars

\* README.md: move brings the job to the position asked for, or to the end.  Sent
\* before the queue changes, the list numbers the waiting jobs from 1, each once,
\* although it is built from their order of creation.
MovedIsPlaced ==
    [][\A m \in Movers :
          Sends(m) /\ rows' # rows /\ Queued = Listed(m) /\ move[m].id \in Queued =>
             LET places == 1 .. Cardinality(Queued)
             IN  /\ {rows'[id].position : id \in Queued} = places
                 /\ rows'[move[m].id].position =
                       IF move[m].destination \in places
                       THEN move[m].destination
                       ELSE Cardinality(Queued)]_systemVars

\* cmd/cli/commands.go: move reads the "current queue" to move one job in it;
\* sent before the queue changes, it leaves the order of the others alone.
MoveKeepsOthers ==
    [][\A m \in Movers :
          Sends(m) /\ Queued = Listed(m) /\ move[m].id \in Queued =>
             \A id, other \in Queued \ {move[m].id} :
                /\ rows[id].priority = rows[other].priority
                /\ rows[id].position < rows[other].position
                => rows'[id].position < rows'[other].position]_systemVars

=============================================================================
