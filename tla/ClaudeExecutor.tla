--------------------------- MODULE ClaudeExecutor ---------------------------
(***************************************************************************)
(* Execute of internal/executor/claude.go: Claude runs as a child process, *)
(* two goroutines read its two pipes line by line into one bytes.Buffer,   *)
(* Execute waits for both of them and then for the process, and parses     *)
(* what the buffer holds.                                                  *)
(*                                                                         *)
(* The buffer is a set of lines: ParseIterations and ContainsPromise ask   *)
(* which lines there are, and never in which order.  The goroutines share  *)
(* it without a lock, so two WriteStrings that overlap may lose a line, or *)
(* every line written meanwhile, or run two lines into a number that       *)
(* neither has.  (A torn slice header could also end the process, which is *)
(* a crash like any other.)                                                *)
(***************************************************************************)
EXTENDS Integers, Sequences, FiniteSets, FiniteSetsExt

CONSTANTS
    Lines,      \* per stream, the lines Claude may print; bound: each of them once
    PipeSize    \* bound: the lines a pipe holds

Line == [iteration : Nat, promise : BOOLEAN, long : BOOLEAN]

Streams == {"stdout", "stderr"}

ASSUME LinesAssumption ==
    /\ Lines \in [Streams -> SUBSET Line]
    /\ \A s \in Streams : IsFiniteSet(Lines[s])
    /\ PipeSize \in Nat \ {0}

AllLines == Lines["stdout"] \cup Lines["stderr"]

VARIABLES
    claude,     \* the process: none, running or exited
    helper,     \* a child of Claude's lives and has the ends of both pipes
    blocked,    \* the write Claude waits in, if any: {<<stream, line>>}
    pipes,      \* per stream, the lines not read yet
    readers,    \* per stream, where the goroutine that reads it is
    output,     \* outputBuf
    printed,    \* what Claude has printed: {<<stream, line>>} (history)
    overlapped  \* two calls of WriteString have overlapped (history)

executorVars ==
    <<claude, helper, blocked, pipes, readers, output, printed, overlapped>>

Scanning == [at |-> "scan"]

Done == [at |-> "done"]

\* Inside WriteString: the line, what the buffer held when the call began, and
\* whether another call has overlapped it.
Writing(line, raced) ==
    [at |-> "write", line |-> line, sure |-> output, raced |-> raced]

NoPipes == [s \in Streams |-> << >>]

NoReaders == [s \in Streams |-> Scanning]

ExecutorInit ==
    /\ claude = "none"
    /\ helper = FALSE
    /\ blocked = {}
    /\ pipes = NoPipes
    /\ readers = NoReaders
    /\ output = {}
    /\ printed = {}
    /\ overlapped = FALSE

\* A call of Execute has its own process, pipes, goroutines and buffer.
Renew(state) ==
    /\ claude' = state
    /\ helper' = FALSE
    /\ blocked' = {}
    /\ pipes' = NoPipes
    /\ readers' = NoReaders
    /\ output' = {}
    /\ printed' = {}
    /\ overlapped' = FALSE

StartClaude == claude = "none" /\ Renew("running")

(***************************************************************************)
(* The process.  A write to a full pipe blocks it until somebody reads.    *)
(***************************************************************************)
Put(s, line) ==
    /\ pipes' = [pipes EXCEPT ![s] = Append(@, line)]
    /\ printed' = printed \cup {<<s, line>>}

Full(s) == Len(pipes[s]) >= PipeSize

PrintLine(s, line) ==
    /\ claude = "running"
    /\ blocked = {}
    /\ <<s, line>> \notin printed
    /\ IF Full(s)
       THEN blocked' = {<<s, line>>} /\ UNCHANGED <<pipes, printed>>
       ELSE Put(s, line) /\ UNCHANGED blocked
    /\ UNCHANGED <<claude, helper, readers, output, overlapped>>

Unblock ==
    /\ claude = "running"
    /\ \E write \in blocked : ~Full(write[1]) /\ Put(write[1], write[2])
    /\ blocked' = {}
    /\ UNCHANGED <<claude, helper, readers, output, overlapped>>

SpawnHelper ==
    /\ claude = "running"
    /\ helper' = TRUE
    /\ UNCHANGED <<claude, blocked, pipes, readers, output, printed, overlapped>>

HelperExits ==
    /\ helper
    /\ helper' = FALSE
    /\ UNCHANGED <<claude, blocked, pipes, readers, output, printed, overlapped>>

ClaudeExit ==
    /\ claude = "running"
    /\ blocked = {}
    /\ claude' = "exited"
    /\ UNCHANGED <<helper, blocked, pipes, readers, output, printed, overlapped>>

\* A mutant of Kill: the context is looked at by cmd.Wait only.
KillInWait ==
    /\ claude = "running"
    /\ \A s \in Streams : readers[s] = Done
    /\ claude' = "exited"
    /\ blocked' = {}
    /\ UNCHANGED <<helper, pipes, readers, output, printed, overlapped>>

\* CommandContext kills the process when the context is done, and no child of
\* the process with it.
Kill ==
    /\ claude = "running"
    /\ claude' = "exited"
    /\ blocked' = {}
    /\ UNCHANGED <<helper, pipes, readers, output, printed, overlapped>>

(***************************************************************************)
(* readOutput: the scanner gives up on a line that is longer than its      *)
(* buffer (64 KB) and leaves it in the pipe.                               *)
(***************************************************************************)
OtherWrites(s) == \E other \in Streams \ {s} : readers[other].at = "write"

\* A mutant of Scan: the streams are read one after the other.
ScanInTurn(s) ==
    /\ s = "stderr" => readers["stdout"] = Done
    /\ readers[s] = Scanning
    /\ pipes[s] # << >>
    /\ ~Head(pipes[s]).long
    /\ readers' = [readers EXCEPT ![s] = Writing(Head(pipes[s]), FALSE)]
    /\ pipes' = [pipes EXCEPT ![s] = Tail(@)]
    /\ UNCHANGED <<claude, helper, blocked, output, printed, overlapped>>

\* A mutant of Scan: the token is taken again and again.
ScanAgain(s) ==
    /\ readers[s] = Scanning
    /\ pipes[s] # << >>
    /\ readers' = [readers EXCEPT ![s] = Writing(Head(pipes[s]), OtherWrites(s))]
    /\ overlapped' = (overlapped \/ OtherWrites(s))
    /\ UNCHANGED <<claude, helper, blocked, pipes, output, printed>>

Scan(s) ==
    /\ readers[s] = Scanning
    /\ pipes[s] # << >>
    /\ ~Head(pipes[s]).long
    /\ readers' = [r \in Streams |->
                      IF r = s
                      THEN Writing(Head(pipes[s]), OtherWrites(s))
                      ELSE IF readers[r].at = "write"
                           THEN [readers[r] EXCEPT !.raced = TRUE]
                           ELSE readers[r]]
    /\ overlapped' = (overlapped \/ OtherWrites(s))
    /\ pipes' = [pipes EXCEPT ![s] = Tail(@)]
    /\ UNCHANGED <<claude, helper, blocked, output, printed>>

\* A mutant of ScanEnds: an empty pipe is taken for the end of the stream.
EndsWhenEmpty(s) ==
    /\ readers[s] = Scanning
    /\ pipes[s] # << >> => Head(pipes[s]).long
    /\ readers' = [readers EXCEPT ![s] = Done]
    /\ UNCHANGED <<claude, helper, blocked, pipes, output, printed, overlapped>>

\* A long line, or the end of the stream: nobody holds its other end.
ScanEnds(s) ==
    /\ readers[s] = Scanning
    /\ IF pipes[s] = << >>
       THEN claude = "exited" /\ ~helper
       ELSE Head(pipes[s]).long
    /\ readers' = [readers EXCEPT ![s] = Done]
    /\ UNCHANGED <<claude, helper, blocked, pipes, output, printed, overlapped>>

\* What the buffer may hold once a call to WriteString is over.
Written(call) ==
    IF call.raced
    THEN {(output \cap call.sure) \cup kept :
             kept \in SUBSET ((output \ call.sure) \cup {call.line}
                                \cup {line \in AllLines : line.iteration > 0})}
    ELSE {output \cup {call.line}}

EndWrite(s) ==
    /\ readers[s].at = "write"
    /\ output' \in Written(readers[s])
    /\ readers' = [readers EXCEPT ![s] = Scanning]
    /\ UNCHANGED <<claude, helper, blocked, pipes, printed, overlapped>>

ReadOutput(s) == Scan(s) \/ ScanEnds(s) \/ EndWrite(s)

(***************************************************************************)
(* The end of Execute.                                                     *)
(***************************************************************************)

ParseIterations == Max({0} \cup {line.iteration : line \in output})

ContainsPromise == \E line \in output : line.promise

\* A mutant of Wait: the process is waited for, the goroutines are not.
WaitForProcess == claude = "exited"

\* wg.Wait, then cmd.Wait.
Wait == claude = "exited" /\ \A s \in Streams : readers[s] = Done

Return == Wait /\ Renew("none")

=============================================================================
