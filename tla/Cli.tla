-------------------------------- MODULE Cli --------------------------------
(***************************************************************************)
(* The move command of cmd/cli/commands.go, the one command that makes two *)
(* requests: GET /api/jobs?status=queued, and PUT /api/jobs/order with an  *)
(* order built from the answer.  Anything may happen to the queue between  *)
(* the two.  The other commands are single requests, those of Api.         *)
(***************************************************************************)
EXTENDS Api, SequencesExt

CONSTANTS
    Movers,         \* the move commands running at a time
    MovedIds,       \* the jobs they are told to move, existing or not
    Destinations    \* and where to: a position, or 0 for the end

ASSUME MovesAssumption == MovedIds \subseteq Nat \ {0} /\ Destinations \subseteq Nat

VARIABLE move       \* per mover, the job to move, where to, and the list it got

AtRest == [id |-> 0]

Moving(m) == move[m] # AtRest

CliInit == move = [m \in Movers |-> AtRest]

\* List orders by creation time, newest first, whatever the positions are.
IsListing(ids) ==
    /\ {ids[i] : i \in DOMAIN ids} = Queued
    /\ \A i, j \in DOMAIN ids : i < j => ids[i] > ids[j]

\* GET /api/jobs?status=queued.  One statement reads the ids, and only they are
\* used of the jobs in the answer.
GetJobs(m, id, destination) ==
    /\ ~Moving(m)
    /\ \E ids \in [1 .. Cardinality(Queued) -> Queued] :
          /\ IsListing(ids)
          /\ move' = [move EXCEPT ![m] = [id |-> id, destination |-> destination,
                                          listed |-> ids]]
    /\ UNCHANGED apiVars

\* A mutant of Others: the job stays where it was as well.
OthersWithIt(ids, id) == ids

\* The list without the job.
Others(ids, id) ==
    IF \E i \in DOMAIN ids : ids[i] = id
    THEN RemoveAt(ids, PlaceIn(ids, id))
    ELSE ids

\* A mutant of NewOrder: only the job that moves is sent.
OnlyTheJob(ids, id, destination) == <<id>>

\* The job is put at the position asked for, at most at the end.  --first asks
\* for position 1; --after is parsed and never looked at.
NewOrder(ids, id, destination) ==
    LET others == Others(ids, id)
    IN  IF destination \in 1 .. Len(others)
        THEN InsertAt(others, destination, id)
        ELSE Append(others, id)

\* PUT /api/jobs/order.
ReorderJobs(m) ==
    /\ Moving(m)
    /\ HandleReorderJobs(NewOrder(move[m].listed, move[m].id, move[m].destination))
    /\ move' = [move EXCEPT ![m] = AtRest]

\* The server cannot be reached, or answers with an error.
RequestFails(m) ==
    /\ Moving(m)
    /\ move' = [move EXCEPT ![m] = AtRest]
    /\ UNCHANGED apiVars

MoveStep ==
    \E m \in Movers :
        \/ \E id \in MovedIds, destination \in Destinations : GetJobs(m, id, destination)
        \/ ReorderJobs(m)
        \/ RequestFails(m)

=============================================================================
