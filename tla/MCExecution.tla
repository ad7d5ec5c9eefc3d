---------------------------- MODULE MCExecution ----------------------------
(***************************************************************************)
(* What Claude prints in the instance TLC checks: an iteration on both     *)
(* streams, a promise on stdout, and on stderr a line no scanner takes.    *)
(***************************************************************************)
EXTENDS Execution

IterationLine == [iteration |-> 1, promise |-> FALSE, long |-> FALSE]

PromiseLine == [iteration |-> 0, promise |-> TRUE, long |-> FALSE]

LongLine == [iteration |-> 0, promise |-> TRUE, long |-> TRUE]

SampleLines ==
    [s \in Streams |->
        {IterationLine, IF s = "stdout" THEN PromiseLine ELSE LongLine}]

=============================================================================
