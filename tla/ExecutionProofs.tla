--------------------------- MODULE ExecutionProofs ---------------------------
(***************************************************************************)
(* Proofs about Execution, for every value of its constants: any lines     *)
(* that Claude prints, any pipe, any number of jobs.                       *)
(***************************************************************************)
EXTENDS Execution, QueueProofs

-----------------------------------------------------------------------------
(***************************************************************************)
(* What Execute reads.                                                     *)
(***************************************************************************)

Reader ==
    {Scanning, Done} \cup [at : {"write"}, line : AllLines,
                           sure : SUBSET AllLines, raced : BOOLEAN]

\* A line that Execute handles is a line that Claude may print.
ExecutorOK ==
    /\ blocked \subseteq Streams \X AllLines
    /\ pipes \in [Streams -> Seq(AllLines)]
    /\ readers \in [Streams -> Reader]
    /\ output \subseteq AllLines

LinesIn(pipe) == {pipe[i] : i \in DOMAIN pipe}

\* A printed line that the buffer does not have yet: in a pipe, or in the hands
\* of a goroutine that writes it.
OnItsWay(line) ==
    \E s \in Streams :
        \/ line \in LinesIn(pipes[s])
        \/ readers[s].at = "write" /\ readers[s].line = line

\* The goroutines write one at a time, and none has ended before its stream.
ReadersInTurn ==
    \A s \in Streams :
        /\ readers[s].at = "write" => ~readers[s].raced /\ ~OtherWrites(s)
        /\ readers[s] = Done => pipes[s] = << >> /\ claude # "running"

EveryLineKept ==
    \A line : (\E write \in printed : write[2] = line) <=> line \in output \/ OnItsWay(line)

\* As long as no two writes have overlapped and no line is too long, every line
\* that Claude has printed is in the buffer or on its way there.
NothingIsLost == Undisturbed => ReadersInTurn /\ EveryLineKept

ExecutorInv == ExecutorOK /\ NothingIsLost

\* Every line is one of those the constants allow.
LEMMA LineFacts ==
    /\ IsFiniteSet(AllLines)
    /\ \A s \in Streams : Lines[s] \subseteq AllLines
    /\ \A line \in AllLines : line.iteration \in Nat
<1>1. "stdout" \in Streams /\ "stderr" \in Streams
  BY DEF Streams
<1>2. IsFiniteSet(AllLines)
  BY <1>1, LinesAssumption, FS_Union DEF AllLines
<1>3. \A s \in Streams : Lines[s] \subseteq AllLines
  BY DEF Streams, AllLines
<1>4. \A line \in AllLines : line.iteration \in Nat
  BY <1>1, LinesAssumption DEF AllLines, Line
<1> QED BY <1>2, <1>3, <1>4

\* A reader that reads is neither at rest nor at its end.
LEMMA ReaderFacts ==
    ASSUME NEW reader \in Reader
    PROVE  /\ reader.at \in {"scan", "write", "done"}
           /\ reader.at = "scan" <=> reader = Scanning
           /\ reader.at = "done" <=> reader = Done
           /\ reader.at = "write" =>
                 /\ reader.line \in AllLines
                 /\ reader.sure \subseteq AllLines
                 /\ reader.raced \in BOOLEAN
BY DEF Reader, Scanning, Done

\* ParseIterations finds 0 or the number of a line.
LEMMA ParsedIsPrinted ==
    ASSUME ExecutorOK
    PROVE  ParseIterations \in {0} \cup {line.iteration : line \in AllLines}
<1> DEFINE none == [iteration |-> 0]
           D == output \cup {none}
           f == [d \in D |-> d.iteration]
           S == {0} \cup {line.iteration : line \in output}
<1>1. IsFiniteSet(D)
  BY LineFacts, FS_Subset, FS_AddElement DEF ExecutorOK
<1>2. \A d \in D : f[d] \in Int
  BY LineFacts DEF ExecutorOK
<1>3. \A x : x \in S <=> \E d \in D : x = f[d]
  <2>1. \A d \in D : f[d] = d.iteration
    OBVIOUS
  <2>2. none.iteration = 0
    OBVIOUS
  <2> HIDE DEF f
  <2> QED BY <2>1, <2>2
<1>4. D # {}
  OBVIOUS
<1>5. Max(S) \in S
  <2> HIDE DEF D, f, S
  <2> QED BY <1>1, <1>2, <1>3, <1>4, MaxOfPositions
<1> QED BY <1>5 DEF ParseIterations, ExecutorOK

\* A line put at the end of a sequence is one more line in it ...
LEMMA LineAppended ==
    ASSUME NEW S, NEW q \in Seq(S), NEW e \in S
    PROVE  /\ Append(q, e) \in Seq(S)
           /\ \A x : x \in LinesIn(Append(q, e)) <=> x = e \/ x \in LinesIn(q)
<1>1. /\ Append(q, e) \in Seq(S)
      /\ Len(Append(q, e)) = Len(q) + 1
      /\ Append(q, e)[Len(q) + 1] = e
      /\ \A i \in 1 .. Len(q) : Append(q, e)[i] = q[i]
  BY AppendProperties
<1>2. DOMAIN Append(q, e) = 1 .. Len(q) + 1 /\ DOMAIN q = 1 .. Len(q) /\ Len(q) \in Nat
  BY <1>1, LenProperties
<1> QED BY <1>1, <1>2 DEF LinesIn

\* ... and the first line taken off is the one that leaves it.
LEMMA LineTakenOff ==
    ASSUME NEW S, NEW q \in Seq(S), q # << >>
    PROVE  /\ Head(q) \in S
           /\ Tail(q) \in Seq(S)
           /\ \A x : x \in LinesIn(q) <=> x = Head(q) \/ x \in LinesIn(Tail(q))
<1>1. /\ Head(q) \in S /\ Tail(q) \in Seq(S) /\ Head(q) = q[1]
      /\ Len(Tail(q)) = Len(q) - 1
      /\ \A i \in 1 .. Len(Tail(q)) : Tail(q)[i] = q[i + 1]
  BY HeadTailProperties
<1>2. /\ DOMAIN q = 1 .. Len(q) /\ DOMAIN Tail(q) = 1 .. Len(Tail(q))
      /\ Len(q) \in Nat \ {0}
  BY <1>1, LenProperties, EmptySeq
<1>3. ASSUME NEW i \in DOMAIN q, q[i] # Head(q)
      PROVE  q[i] \in LinesIn(Tail(q))
  <2>1. i - 1 \in DOMAIN Tail(q) /\ Tail(q)[i - 1] = q[i]
    BY <1>1, <1>2, <1>3
  <2> QED BY <2>1 DEF LinesIn
<1>4. ASSUME NEW k \in DOMAIN Tail(q)
      PROVE  Tail(q)[k] \in LinesIn(q)
  <2>1. k + 1 \in DOMAIN q /\ q[k + 1] = Tail(q)[k]
    BY <1>1, <1>2
  <2> QED BY <2>1 DEF LinesIn
<1>5. Head(q) \in LinesIn(q)
  BY <1>1, <1>2 DEF LinesIn
<1> QED BY <1>1, <1>3, <1>4, <1>5 DEF LinesIn

\* A call of Execute begins with nothing printed and nothing read.
LEMMA RenewInv ==
    ASSUME NEW state, Renew(state)
    PROVE  ExecutorInv'
<1>1. ExecutorOK'
  BY EmptySeq DEF Renew, ExecutorOK, NoPipes, NoReaders, Reader
<1>2. NothingIsLost'
  <2>1. DOMAIN (<< >>) = {}
    OBVIOUS
  <2>2. \A s \in Streams :
           readers'[s].at = "scan" /\ readers'[s] # Done /\ LinesIn(pipes'[s]) = {}
    BY <2>1 DEF Renew, NoPipes, NoReaders, Scanning, Done, LinesIn
  <2> QED BY <2>2 DEF Renew, NothingIsLost, ReadersInTurn, EveryLineKept, OnItsWay
<1> QED BY <1>1, <1>2 DEF ExecutorInv

\* A line that Claude gets into a pipe will be read.
LEMMA PutInv ==
    ASSUME ExecutorInv, claude = "running",
           UNCHANGED <<claude, readers, output, overlapped>>,
           NEW s \in Streams, NEW line \in AllLines, Put(s, line),
           blocked' \subseteq Streams \X AllLines
    PROVE  ExecutorInv'
<1>t. ExecutorOK
  BY DEF ExecutorInv
<1>1. pipes[s] \in Seq(AllLines) /\ pipes'[s] = Append(pipes[s], line)
  BY <1>t DEF ExecutorOK, Put
<1>2. ExecutorOK'
  BY <1>t, <1>1, LineAppended DEF ExecutorOK, Put
<1>3. ASSUME Undisturbed' PROVE ReadersInTurn' /\ EveryLineKept'
  <2>1. printed' = printed \cup {<<s, line>>} /\ <<s, line>>[2] = line
    BY DEF Put
  <2>2. Undisturbed
    BY <1>3, <2>1 DEF Undisturbed
  <2>3. ReadersInTurn /\ EveryLineKept
    BY <2>2 DEF ExecutorInv, NothingIsLost
  <2>4. \A other \in Streams \ {s} : pipes'[other] = pipes[other]
    BY <1>t DEF ExecutorOK, Put
  <2>5. \A x : x \in LinesIn(pipes'[s]) <=> x = line \/ x \in LinesIn(pipes[s])
    BY <1>1, LineAppended
  <2>6. \A x : (\E write \in printed' : write[2] = x)
               <=> x = line \/ \E write \in printed : write[2] = x
    <3> HIDE DEF Put
    <3> QED BY <2>1, Zenon
  <2>7. \A x : OnItsWay(x)' <=> x = line \/ OnItsWay(x)
    BY <2>4, <2>5 DEF OnItsWay
  <2>8. ReadersInTurn'
    <3>1. readers[s] # Done
      BY <2>3 DEF ReadersInTurn
    <3> QED BY <2>3, <2>4, <3>1 DEF ReadersInTurn, OtherWrites
  <2>9. EveryLineKept'
    BY <2>3, <2>6, <2>7 DEF EveryLineKept
  <2> QED BY <2>8, <2>9
<1> QED BY <1>2, <1>3 DEF ExecutorInv, NothingIsLost

\* What happens to the processes alone does not touch what was printed.
LEMMA ProcessInv ==
    ASSUME ExecutorInv, UNCHANGED <<pipes, readers, output, printed, overlapped>>,
           claude' # "running" \/ UNCHANGED claude,
           blocked' \subseteq Streams \X AllLines
    PROVE  ExecutorInv'
<1>1. ExecutorOK'
  BY DEF ExecutorInv, ExecutorOK
<1>2. NothingIsLost'
  <2>1. Undisturbed' <=> Undisturbed
    BY DEF Undisturbed
  <2>2. \A line : OnItsWay(line)' <=> OnItsWay(line)
    BY DEF OnItsWay
  <2>3. EveryLineKept => EveryLineKept'
    BY <2>2 DEF EveryLineKept
  <2>4. ReadersInTurn => ReadersInTurn'
    BY DEF ReadersInTurn, OtherWrites
  <2> QED BY <2>1, <2>3, <2>4 DEF ExecutorInv, NothingIsLost
<1> QED BY <1>1, <1>2 DEF ExecutorInv

\* The scanner takes the next line out of its pipe.
LEMMA ScanInv ==
    ASSUME ExecutorInv, NEW s \in Streams, Scan(s)
    PROVE  ExecutorInv'
<1>t. ExecutorOK
  BY DEF ExecutorInv
<1>1. /\ pipes[s] \in Seq(AllLines) /\ pipes[s] # << >>
      /\ pipes'[s] = Tail(pipes[s])
      /\ \A other \in Streams \ {s} : pipes'[other] = pipes[other]
      /\ UNCHANGED <<claude, blocked, output, printed>>
  BY <1>t DEF ExecutorOK, Scan
<1>2. /\ readers[s] = Scanning
      /\ readers'[s] = Writing(Head(pipes[s]), OtherWrites(s))
      /\ \A other \in Streams \ {s} :
            readers'[other] = IF readers[other].at = "write"
                              THEN [readers[other] EXCEPT !.raced = TRUE]
                              ELSE readers[other]
  BY DEF Scan
<1>3. Head(pipes[s]) \in AllLines /\ Tail(pipes[s]) \in Seq(AllLines)
  BY <1>1, HeadTailProperties
<1>4. ExecutorOK'
  <2>1. readers'[s] \in Reader
    <3>1. OtherWrites(s) \in BOOLEAN
      BY DEF OtherWrites
    <3> QED BY <1>t, <1>2, <1>3, <3>1 DEF Writing, Reader, ExecutorOK
  <2>2. \A other \in Streams \ {s} : readers'[other] \in Reader
    <3> SUFFICES ASSUME NEW other \in Streams \ {s} PROVE readers'[other] \in Reader
      OBVIOUS
    <3>1. readers[other] \in Reader
      BY <1>t DEF ExecutorOK
    <3>2. CASE readers[other].at = "write"
      BY <1>2, <3>1, <3>2 DEF Reader, Scanning, Done
    <3> QED BY <1>2, <3>1, <3>2
  <2>3. readers' \in [Streams -> Reader]
    BY <2>1, <2>2 DEF Scan
  <2>4. pipes' \in [Streams -> Seq(AllLines)]
    BY <1>t, <1>3 DEF Scan, ExecutorOK
  <2> QED BY <1>t, <1>1, <2>3, <2>4 DEF ExecutorOK
<1>5. ASSUME Undisturbed' PROVE ReadersInTurn' /\ EveryLineKept'
  <2>1. Undisturbed /\ ~OtherWrites(s)
    BY <1>1, <1>5 DEF Undisturbed, Scan
  <2>2. ReadersInTurn /\ EveryLineKept
    BY <2>1 DEF ExecutorInv, NothingIsLost
  <2>3. \A other \in Streams \ {s} :
           readers[other].at # "write" /\ readers'[other] = readers[other]
    BY <1>2, <2>1 DEF OtherWrites
  <2>4. /\ readers'[s].at = "write" /\ ~readers'[s].raced
        /\ readers'[s].line = Head(pipes[s]) /\ readers'[s] # Done
    BY <1>2, <2>1 DEF Writing, Done
  <2>5. \A x : x \in LinesIn(pipes[s]) <=> x = Head(pipes[s]) \/ x \in LinesIn(pipes'[s])
    BY <1>1, LineTakenOff
  <2>6. readers[s].at # "write"
    BY <1>2 DEF Scanning
  <2>7. \A x : OnItsWay(x)' <=> OnItsWay(x)
    BY <1>1, <2>3, <2>4, <2>5, <2>6 DEF OnItsWay
  <2>8. ReadersInTurn'
    BY <1>1, <2>2, <2>3, <2>4 DEF ReadersInTurn, OtherWrites
  <2>9. EveryLineKept'
    BY <1>1, <2>2, <2>7 DEF EveryLineKept
  <2> QED BY <2>8, <2>9
<1> QED BY <1>4, <1>5 DEF ExecutorInv, NothingIsLost

\* The scanner ends: if nothing too long was printed, its pipe is empty.
LEMMA ScanEndsInv ==
    ASSUME ExecutorInv, NEW s \in Streams, ScanEnds(s)
    PROVE  ExecutorInv'
<1>t. ExecutorOK
  BY DEF ExecutorInv
<1>1. /\ UNCHANGED <<claude, blocked, pipes, output, printed, overlapped>>
      /\ readers[s] = Scanning /\ readers'[s] = Done
      /\ \A other \in Streams \ {s} : readers'[other] = readers[other]
  BY <1>t DEF ScanEnds, ExecutorOK
<1>2. ExecutorOK'
  BY <1>t DEF ScanEnds, ExecutorOK, Reader
<1>3. ASSUME Undisturbed' PROVE ReadersInTurn' /\ EveryLineKept'
  <2>1. Undisturbed
    BY <1>1, <1>3 DEF Undisturbed
  <2>2. ReadersInTurn /\ EveryLineKept
    BY <2>1 DEF ExecutorInv, NothingIsLost
  <2>3. readers[s].at # "write" /\ readers'[s].at # "write"
    BY <1>1 DEF Scanning, Done
  <2>4. \A x : OnItsWay(x)' <=> OnItsWay(x)
    BY <1>1, <2>3 DEF OnItsWay
  <2>5. pipes[s] = << >>
    <3> SUFFICES ASSUME pipes[s] # << >> PROVE FALSE
      OBVIOUS
    <3>1. Head(pipes[s]).long
      BY DEF ScanEnds
    <3>2. Head(pipes[s]) \in LinesIn(pipes[s])
      BY <1>t, LenProperties, EmptySeq, HeadTailProperties DEF ExecutorOK, LinesIn
    <3>3. PICK write \in printed : write[2] = Head(pipes[s])
      BY <2>2, <3>2 DEF EveryLineKept, OnItsWay
    <3> QED BY <2>1, <3>1, <3>3 DEF Undisturbed
  <2>6. claude = "exited"
    BY <2>5 DEF ScanEnds
  <2>7. ReadersInTurn'
    BY <1>1, <2>2, <2>3, <2>5, <2>6 DEF ReadersInTurn, OtherWrites
  <2>8. EveryLineKept'
    BY <1>1, <2>2, <2>4 DEF EveryLineKept
  <2> QED BY <2>7, <2>8
<1> QED BY <1>2, <1>3 DEF ExecutorInv, NothingIsLost

\* A line that no other write has overlapped reaches the buffer.
LEMMA EndWriteInv ==
    ASSUME ExecutorInv, NEW s \in Streams, EndWrite(s)
    PROVE  ExecutorInv'
<1>t. ExecutorOK
  BY DEF ExecutorInv
<1>1. /\ UNCHANGED <<claude, blocked, pipes, printed, overlapped>>
      /\ readers[s].at = "write" /\ readers'[s] = Scanning
      /\ \A other \in Streams \ {s} : readers'[other] = readers[other]
      /\ output' \in Written(readers[s])
  BY <1>t DEF EndWrite, ExecutorOK
<1>2. /\ readers[s].line \in AllLines
      /\ readers[s].sure \subseteq AllLines
  BY <1>t, <1>1, ReaderFacts DEF ExecutorOK
<1>3. ExecutorOK'
  <2>1. output' \subseteq AllLines
    BY <1>t, <1>1, <1>2 DEF Written, ExecutorOK
  <2> QED BY <1>t, <2>1 DEF EndWrite, ExecutorOK, Reader
<1>4. ASSUME Undisturbed' PROVE ReadersInTurn' /\ EveryLineKept'
  <2>1. Undisturbed
    BY <1>1, <1>4 DEF Undisturbed
  <2>2. ReadersInTurn /\ EveryLineKept
    BY <2>1 DEF ExecutorInv, NothingIsLost
  <2>3. output' = output \cup {readers[s].line}
    BY <1>1, <2>2 DEF Written, ReadersInTurn
  <2>4. readers'[s].at # "write" /\ readers'[s] # Done
    BY <1>1 DEF Scanning, Done
  <2>5. \A x : OnItsWay(x) <=> OnItsWay(x)' \/ x = readers[s].line
    BY <1>1, <2>4 DEF OnItsWay
  <2>6. ReadersInTurn'
    BY <1>1, <2>2, <2>4 DEF ReadersInTurn, OtherWrites
  <2>7. EveryLineKept'
    BY <1>1, <2>2, <2>3, <2>5 DEF EveryLineKept
  <2> QED BY <2>6, <2>7
<1> QED BY <1>3, <1>4 DEF ExecutorInv, NothingIsLost

-----------------------------------------------------------------------------
(***************************************************************************)
(* The job at work.                                                        *)
(***************************************************************************)

Task == [id : Nat \ {0}, job : JobRecord, done : BOOLEAN]

\* Handle works on a stored job that it has read while it was running.
TaskOK ==
    /\ rows \in Seq(JobRecord)
    /\ IF step = "rest"
       THEN task = NoTask
       ELSE task \in Task /\ task.id \in Ids /\ task.job.status = "running"

\* The queue starts with jobs that wait.
LEMMA InitTaskOK == Init => TaskOK
<1> SUFFICES ASSUME Init PROVE TaskOK
  OBVIOUS
<1>1. PICK max \in MaxIterations : rows = [id \in 1 .. Jobs |-> Waiting(id, max)]
  BY DEF Init
<1>2. ASSUME NEW id \in 1 .. Jobs PROVE Waiting(id, max) \in JobRecord
  <2>1. max \in Int /\ id \in Nat \ {0}
    BY JobsAssumption
  <2> QED BY <2>1 DEF Waiting, NewJob, JobRecord, Statuses, Priorities
<1>3. Jobs \in Nat /\ rows \in [1 .. Jobs -> JobRecord]
  BY <1>1, <1>2, JobsAssumption
<1>4. rows \in Seq(JobRecord)
  BY <1>3, IsASeq, SeqDef
<1> QED BY <1>4 DEF Init, TaskOK

\* The row of a job at work is written by its own task.
LEMMA WriteKeepsTable ==
    ASSUME rows \in Seq(JobRecord), NEW id \in Ids, NEW job \in JobRecord, Update(id, job)
    PROVE  rows' \in Seq(JobRecord) /\ Ids' = Ids
BY UpdateFacts

\* What Handle may set in its task.
LEMMA TaskUpdates ==
    ASSUME NEW t \in Task, NEW n \in Nat, NEW d \in BOOLEAN
    PROVE  /\ [t EXCEPT !.done = d] \in Task
           /\ [t EXCEPT !.job.iteration = n, !.done = d] \in Task
           /\ [t EXCEPT !.job.iteration = n, !.done = d].id = t.id
           /\ [t EXCEPT !.job.iteration = n, !.done = d].job.status = t.job.status
           /\ [t EXCEPT !.job.prURL = TRUE] \in Task
           /\ [t EXCEPT !.job.prURL = TRUE].id = t.id
           /\ [t EXCEPT !.job.prURL = TRUE].job.status = t.job.status
<1>1. t.job \in JobRecord
  BY DEF Task
<1>2. /\ [t.job EXCEPT !.iteration = n] \in JobRecord
      /\ [t.job EXCEPT !.iteration = n].status = t.job.status
      /\ [t.job EXCEPT !.prURL = TRUE] \in JobRecord
      /\ [t.job EXCEPT !.prURL = TRUE].status = t.job.status
  BY <1>1 DEF JobRecord
<1> QED BY <1>1, <1>2 DEF Task

\* Every step leaves a task that is well-formed.
LEMMA NextTaskOK ==
    ASSUME TaskOK, ExecutorOK, [Next]_vars
    PROVE  TaskOK'
<1> USE DEF TaskOK
<1>1. CASE UNCHANGED vars
  BY <1>1 DEF vars, Ids
<1>2. ASSUME NEW id \in Heads, Take(id) PROVE TaskOK'
  <2>1. id \in Ids /\ rows[id] \in JobRecord /\ id \in Nat \ {0}
    BY <1>2, IdsAreFinite, RowsAreJobs DEF Take, Heads, Queued
  <2>2. /\ TransitionTo(rows[id], "running") \in JobRecord
        /\ TransitionTo(rows[id], "running").status = "running"
    BY <2>1, TransitionToFacts DEF Statuses
  <2>3. rows' \in Seq(JobRecord) /\ Ids' = Ids
    BY <1>2, <2>1, <2>2, WriteKeepsTable DEF Take, Move
  <2> QED BY <1>2, <2>1, <2>2, <2>3 DEF Take, Task
<1>3. CASE Settle
  <2>1. task \in Task /\ task.id \in Ids /\ task.job \in JobRecord
    BY <1>3 DEF Settle, Task
  <2>2. [task.job EXCEPT !.error = TRUE] \in JobRecord
    BY <2>1 DEF JobRecord
  <2>3. \E job \in JobRecord : Update(task.id, job)
    BY <1>3, <2>1, <2>2, TransitionToFacts DEF Settle, Complete, Fail, Move, Statuses
  <2>4. rows' \in Seq(JobRecord)
    BY <2>1, <2>3, WriteKeepsTable
  <2> QED BY <1>3, <2>4 DEF Settle
<1>4. CASE CloneGH \/ CloneGit \/ CreateBranch \/ CommitChanges \/ PushBranch
  BY <1>4 DEF CloneGH, CloneGit, CreateBranch, CommitChanges, PushBranch, Advance, Ids
<1>5. CASE Start \/ ClaudeStep
  BY <1>5 DEF Start, ClaudeStep, Ids
<1>6. CASE ExecuteReturns
  <2>1. step = "claude" /\ task \in Task /\ task.id \in Ids /\ task.job.status = "running"
    BY <1>6 DEF ExecuteReturns
  <2>2. ParseIterations \in Nat /\ ContainsPromise \in BOOLEAN
    BY ParsedIsPrinted, LineFacts DEF ContainsPromise
  <2>3. task' \in Task /\ task'.id = task.id /\ task'.job.status = "running"
    <3>1. CASE task' = [task EXCEPT !.done = ContainsPromise]
      BY <2>1, <2>2, <3>1, TaskUpdates DEF Task
    <3>2. CASE task' = [task EXCEPT !.job.iteration = ParseIterations, !.done = ContainsPromise]
      BY <2>1, <2>2, <3>2, TaskUpdates
    <3> QED BY <1>6, <3>1, <3>2 DEF ExecuteReturns
  <2>4. step' # "rest" /\ UNCHANGED rows
    BY <1>6 DEF ExecuteReturns, AfterExecute
  <2> QED BY <2>1, <2>3, <2>4 DEF Ids
<1>7. CASE SaveIteration \/ SavePR
  <2>1. task \in Task /\ task.id \in Ids /\ task.job \in JobRecord /\ Update(task.id, task.job)
    BY <1>7 DEF SaveIteration, SavePR, Task
  <2>2. rows' \in Seq(JobRecord) /\ Ids' = Ids
    BY <2>1, WriteKeepsTable
  <2>3. step # "rest" /\ step' # "rest" /\ UNCHANGED task
    BY <1>7 DEF SaveIteration, SavePR, AfterExecute
  <2> QED BY <2>2, <2>3
<1>8. CASE OfferResult
  <2>1. task \in Task /\ task.id \in Ids /\ task.job.status = "running"
    BY <1>8 DEF OfferResult
  <2>2. task' \in Task /\ task'.id = task.id /\ task'.job.status = "running"
    <3>1. CASE task' = [task EXCEPT !.job.prURL = TRUE]
      BY <2>1, <3>1, TaskUpdates
    <3> QED BY <1>8, <2>1, <3>1 DEF OfferResult
  <2> QED BY <1>8, <2>1, <2>2 DEF OfferResult, Ids
<1>9. CASE Users \/ Cancellation
  BY <1>9 DEF Users, Cancellation, Ids
<1> QED BY <1>1, <1>2, <1>3, <1>4, <1>5, <1>6, <1>7, <1>8, <1>9 DEF Next, Handle

\* Every step keeps track of what Execute reads.
LEMMA NextExecutorInv ==
    ASSUME ExecutorInv, [Next]_vars
    PROVE  ExecutorInv'
<1>t. ExecutorOK
  BY DEF ExecutorInv
<1>1. CASE UNCHANGED executorVars
  BY <1>1, <1>t, ProcessInv DEF executorVars, ExecutorOK
<1>2. CASE StartClaude
  BY <1>2, RenewInv DEF StartClaude
<1>3. CASE Return
  BY <1>3, RenewInv DEF Return
<1>4. ASSUME NEW s \in Streams, NEW line \in Lines[s], PrintLine(s, line)
      PROVE  ExecutorInv'
  <2>1. line \in AllLines
    BY <1>4, LineFacts
  <2>2. CASE Full(s)
    BY <1>4, <1>t, <2>1, <2>2, ProcessInv DEF PrintLine
  <2>3. CASE ~Full(s)
    BY <1>4, <1>t, <2>1, <2>3, PutInv DEF PrintLine, ExecutorOK
  <2> QED BY <2>2, <2>3
<1>5. CASE Unblock
  <2>1. PICK write \in blocked : Put(write[1], write[2])
    BY <1>5 DEF Unblock
  <2>2. write[1] \in Streams /\ write[2] \in AllLines
    BY <1>t DEF ExecutorOK
  <2> QED BY <1>5, <2>1, <2>2, PutInv DEF Unblock
<1>6. CASE SpawnHelper \/ HelperExits \/ ClaudeExit \/ Kill
  BY <1>6, <1>t, ProcessInv DEF SpawnHelper, HelperExits, ClaudeExit, Kill, ExecutorOK
<1>7. ASSUME NEW s \in Streams, ReadOutput(s) PROVE ExecutorInv'
  BY <1>7, ScanInv, ScanEndsInv, EndWriteInv DEF ReadOutput
<1>8. \/ UNCHANGED executorVars
      \/ StartClaude
      \/ Return
      \/ ClaudeStep
  BY DEF Next, Handle, vars, Take, Settle, CloneGH, CloneGit, CreateBranch, Start, Advance,
         ExecuteReturns, SaveIteration, CommitChanges, PushBranch, OfferResult, SavePR,
         Users, Cancellation
<1> QED BY <1>1, <1>2, <1>3, <1>4, <1>5, <1>6, <1>7, <1>8 DEF ClaudeStep

\* Nothing has been printed before the first job.
LEMMA InitExecutorInv == Init => ExecutorInv
<1> SUFFICES ASSUME Init PROVE ExecutorInv
  OBVIOUS
<1>1. ExecutorOK
  BY EmptySeq DEF Init, ExecutorInit, ExecutorOK, NoPipes, NoReaders, Reader
<1>2. NothingIsLost
  <2>1. DOMAIN (<< >>) = {}
    OBVIOUS
  <2>2. \A s \in Streams :
           readers[s].at = "scan" /\ readers[s] # Done /\ LinesIn(pipes[s]) = {}
    BY <2>1 DEF Init, ExecutorInit, NoPipes, NoReaders, Scanning, Done, LinesIn
  <2> QED BY <2>2 DEF Init, ExecutorInit, NothingIsLost, ReadersInTurn, EveryLineKept, OnItsWay
<1> QED BY <1>1, <1>2 DEF ExecutorInv

\* Task and executor together are inductive.
ExecutionInv == TaskOK /\ ExecutorInv

\* In every reachable state.
LEMMA ExecutionInvariant == Spec => []ExecutionInv
<1>1. Init => ExecutionInv
  BY InitTaskOK, InitExecutorInv DEF ExecutionInv
<1>2. ExecutionInv /\ [Next]_vars => ExecutionInv'
  BY NextTaskOK, NextExecutorInv DEF ExecutionInv, ExecutorInv
<1> QED BY <1>1, <1>2, PTL DEF Spec

\* Execute parses every line that Claude has printed on either stream, as long as
\* no two writes of the buffer overlapped and no line is too long: it waits for
\* both readers before it looks at the buffer (Execute of claude.go).
THEOREM OutputIsAlwaysComplete == Spec => OutputIsComplete
<1>1. ExecutionInv /\ [Next]_vars =>
         [step = "claude" /\ step' # "claude" /\ Undisturbed =>
             output = {write[2] : write \in printed}]_vars
  <2> SUFFICES ASSUME ExecutionInv, Next, step = "claude", step' # "claude", Undisturbed
               PROVE  output = {write[2] : write \in printed}
    OBVIOUS
  <2>1. Wait
    <3>1. ExecuteReturns
      BY DEF Next, Handle, Take, Settle, CloneGH, CloneGit, CreateBranch, Start, ClaudeStep,
             SaveIteration, CommitChanges, PushBranch, OfferResult, SavePR,
             Users, Cancellation, Advance
    <3> QED BY <3>1 DEF ExecuteReturns, Return
  <2>2. ReadersInTurn /\ EveryLineKept
    BY DEF ExecutionInv, ExecutorInv, NothingIsLost
  <2>3. \A s \in Streams : LinesIn(pipes[s]) = {} /\ readers[s].at # "write"
    BY <2>1, <2>2 DEF Wait, ReadersInTurn, LinesIn, Done
  <2>4. \A line : (\E write \in printed : write[2] = line) <=> line \in output
    BY <2>2, <2>3 DEF EveryLineKept, OnItsWay
  <2> QED BY <2>4
<1> QED BY <1>1, ExecutionInvariant, PTL DEF Spec, OutputIsComplete

-----------------------------------------------------------------------------
(***************************************************************************)
(* When Execute ends.                                                      *)
(***************************************************************************)

\* A reader has ended at a line too long, or where the stream really ends.
EndedRightly(s) ==
    readers[s] = Done =>
       IF pipes[s] = << >>
       THEN claude = "exited" /\ ~helper
       ELSE Head(pipes[s]).long

EndInv ==
    /\ claude \in {"none", "running", "exited"}
    /\ step = "claude" => claude # "none"
    /\ \A s \in Streams : EndedRightly(s)

\* A line that follows others in a pipe is not the next one to be read.
LEMMA HeadStays ==
    ASSUME NEW S, NEW q \in Seq(S), NEW e \in S
    PROVE  /\ Append(q, e) # << >>
           /\ q # << >> => Head(Append(q, e)) = Head(q)
<1>1. /\ Append(q, e) \in Seq(S)
      /\ Len(Append(q, e)) = Len(q) + 1
      /\ \A i \in 1 .. Len(q) : Append(q, e)[i] = q[i]
  BY AppendProperties
<1>2. Len(q) \in Nat /\ (q # << >> => Len(q) # 0)
  BY LenProperties, EmptySeq
<1>3. Append(q, e) # << >>
  BY <1>1, <1>2, EmptySeq
<1>4. q # << >> => Head(q) = q[1] /\ Head(Append(q, e)) = Append(q, e)[1]
  BY <1>1, <1>3, HeadTailProperties
<1> QED BY <1>1, <1>2, <1>3, <1>4

\* More lines do not matter to a reader that has met one too long.
LEMMA PutEnds ==
    ASSUME ExecutorOK, claude = "running", UNCHANGED <<claude, readers>>,
           NEW s \in Streams, NEW line \in AllLines, Put(s, line),
           \A t \in Streams : EndedRightly(t)
    PROVE  \A t \in Streams : EndedRightly(t)'
<1>1. /\ pipes[s] \in Seq(AllLines)
      /\ pipes'[s] = Append(pipes[s], line)
      /\ \A t \in Streams \ {s} : pipes'[t] = pipes[t]
  BY DEF ExecutorOK, Put
<1>2. EndedRightly(s)'
  BY <1>1, HeadStays DEF EndedRightly
<1>3. ASSUME NEW t \in Streams \ {s} PROVE EndedRightly(t)'
  BY <1>1 DEF EndedRightly
<1> QED BY <1>2, <1>3

\* A reader that goes on leaves the other one where it has ended, and ends
\* itself only where it should.
LEMMA ReadEnds ==
    ASSUME ExecutorOK, NEW s \in Streams, ReadOutput(s),
           \A t \in Streams : EndedRightly(t)
    PROVE  \A t \in Streams : EndedRightly(t)'
<1>1. UNCHANGED <<claude, helper>>
  BY DEF ReadOutput, Scan, ScanEnds, EndWrite
<1>2. readers[s] # Done
  BY DEF ReadOutput, Scan, ScanEnds, EndWrite, Scanning, Done
<1>3. ASSUME NEW t \in Streams \ {s} PROVE EndedRightly(t)'
  <2>1. pipes'[t] = pipes[t]
    BY DEF ReadOutput, Scan, ScanEnds, EndWrite, ExecutorOK
  <2>2. readers'[t] = Done => readers[t] = Done
    <3>1. CASE Scan(s)
      <4>1. CASE readers[t].at = "write"
        <5>1. readers[t] \in Reader
          BY DEF ExecutorOK
        <5>2. readers'[t].at = "write"
          BY <3>1, <4>1, <5>1 DEF Scan, Reader, Scanning, Done
        <5> QED BY <5>2 DEF Done
      <4> QED BY <3>1, <4>1 DEF Scan
    <3>2. CASE ScanEnds(s) \/ EndWrite(s)
      BY <3>2 DEF ScanEnds, EndWrite, ExecutorOK
    <3> QED BY <3>1, <3>2 DEF ReadOutput
  <2> QED BY <1>1, <2>1, <2>2 DEF EndedRightly
<1>4. EndedRightly(s)'
  <2>1. CASE Scan(s)
    BY <2>1 DEF Scan, Writing, Done, EndedRightly
  <2>2. CASE ScanEnds(s)
    BY <2>2, <1>1 DEF ScanEnds, EndedRightly
  <2>3. CASE EndWrite(s)
    BY <2>3 DEF EndWrite, Scanning, Done, EndedRightly, ExecutorOK
  <2> QED BY <2>1, <2>2, <2>3 DEF ReadOutput
<1> QED BY <1>3, <1>4

\* What a step may do to Claude, its pipes and their readers.
LEMMA ExecutorSteps ==
    ASSUME [Next]_vars
    PROVE  \/ UNCHANGED executorVars /\ (step' = "claude" => step = "claude")
           \/ StartClaude
           \/ Return /\ step' # "claude"
           \/ ClaudeStep
BY DEF Next, Handle, vars, Take, Settle, CloneGH, CloneGit, CreateBranch, Start, Advance,
       ExecuteReturns, SaveIteration, CommitChanges, PushBranch, OfferResult, SavePR,
       Users, Cancellation, AfterExecute

\* Every step leaves the readers where they may be.
LEMMA NextEndInv == ExecutorOK /\ EndInv /\ [Next]_vars => EndInv'
<1> SUFFICES ASSUME ExecutorOK, EndInv, [Next]_vars PROVE EndInv'
  OBVIOUS
<1> USE DEF EndInv
<1>1. CASE UNCHANGED executorVars /\ (step' = "claude" => step = "claude")
  BY <1>1 DEF executorVars, EndedRightly
<1>2. CASE StartClaude
  BY <1>2 DEF StartClaude, Renew, NoReaders, Scanning, Done, EndedRightly
<1>3. CASE Return /\ step' # "claude"
  BY <1>3 DEF Return, Renew, NoReaders, Scanning, Done, EndedRightly
<1>4. CASE ClaudeStep
  <2>1. UNCHANGED step
    BY <1>4 DEF ClaudeStep
  <2>2. ASSUME NEW s \in Streams, NEW line \in Lines[s], PrintLine(s, line)
        PROVE  EndInv'
    <3>1. UNCHANGED <<claude, helper, readers>> /\ claude = "running" /\ line \in AllLines
      BY <2>2, LineFacts DEF PrintLine
    <3>2. CASE Full(s)
      BY <2>1, <2>2, <3>1, <3>2 DEF PrintLine, EndedRightly
    <3>3. CASE ~Full(s)
      BY <2>1, <2>2, <3>1, <3>3, PutEnds DEF PrintLine
    <3> QED BY <3>2, <3>3
  <2>3. CASE Unblock
    <3>1. PICK write \in blocked : Put(write[1], write[2])
      BY <2>3 DEF Unblock
    <3>2. write[1] \in Streams /\ write[2] \in AllLines
      BY DEF ExecutorOK
    <3> QED BY <2>1, <2>3, <3>1, <3>2, PutEnds DEF Unblock
  <2>4. CASE SpawnHelper \/ HelperExits \/ ClaudeExit \/ Kill
    BY <2>1, <2>4 DEF SpawnHelper, HelperExits, ClaudeExit, Kill, EndedRightly
  <2>5. ASSUME NEW s \in Streams, ReadOutput(s) PROVE EndInv'
    <3>1. UNCHANGED claude
      BY <2>5 DEF ReadOutput, Scan, ScanEnds, EndWrite
    <3> QED BY <2>1, <2>5, <3>1, ReadEnds
  <2> QED BY <1>4, <2>2, <2>3, <2>4, <2>5 DEF ClaudeStep
<1> QED BY <1>1, <1>2, <1>3, <1>4, ExecutorSteps

\* In every reachable state.
LEMMA EndInvariant == Spec => []EndInv
<1>1. Init => EndInv
  BY DEF Init, ExecutorInit, NoReaders, Scanning, Done, EndInv, EndedRightly
<1>2. ExecutionInv => ExecutorOK
  BY DEF ExecutionInv, ExecutorInv
<1> QED BY <1>1, <1>2, NextEndInv, ExecutionInvariant, PTL DEF Spec

\* Execute and what it waits for never wait for each other, however small the
\* pipes are: only a child of Claude's or a line that is too long holds them up
\* (Execute and readOutput of claude.go).
THEOREM ExecuteNeverStuck == Spec => []ExecuteIsNotStuck
<1>1. ExecutorOK /\ EndInv => ExecuteIsNotStuck
  <2> SUFFICES ASSUME ExecutorOK, EndInv, step = "claude", ~helper, ~Wait,
                      \A s \in Streams : readers[s].at # "write",
                      \A s \in Streams :
                         readers[s] = Scanning => pipes[s] = << >> /\ claude # "exited"
               PROVE  \/ claude = "running" /\ \A write \in blocked : ~Full(write[1])
                      \/ Jammed
    BY DEF ExecuteIsNotStuck
  <2>1. ASSUME NEW s \in Streams PROVE readers[s] = Scanning \/ readers[s] = Done
    <3>1. readers[s] \in Reader
      BY DEF ExecutorOK
    <3> QED BY <3>1, ReaderFacts
  <2>2. claude = "running"
    <3>1. claude # "exited"
      BY <2>1 DEF Wait
    <3> QED BY <3>1 DEF EndInv
  <2>3. ASSUME NEW write \in blocked, Full(write[1]) PROVE Jammed
    <3>1. write[1] \in Streams /\ pipes[write[1]] # << >>
      <4>1. write[1] \in Streams /\ pipes[write[1]] \in Seq(AllLines)
        BY DEF ExecutorOK
      <4>2. PipeSize \in Nat \ {0}
        BY LinesAssumption
      <4>3. Len(pipes[write[1]]) # 0
        BY <2>3, <4>1, <4>2, LenProperties DEF Full
      <4> QED BY <4>1, <4>3
    <3>2. readers[write[1]] = Done
      BY <2>1, <3>1
    <3>3. Head(pipes[write[1]]).long
      BY <3>1, <3>2 DEF EndInv, EndedRightly
    <3> QED BY <3>1, <3>2, <3>3 DEF Jammed
  <2> QED BY <2>2, <2>3
<1>2. ExecutionInv => ExecutorOK
  BY DEF ExecutionInv, ExecutorInv
<1> QED BY <1>1, <1>2, ExecutionInvariant, EndInvariant, PTL

\* What is left to read is a number, before a step and after it.
LEMMA UnreadIsNat ==
    ASSUME ExecutorOK, ExecutorOK', NEW s \in Streams
    PROVE  Unread(s) \in Nat /\ Unread(s)' \in Nat
<1>1. Len(pipes[s]) \in Nat /\ Len(pipes'[s]) \in Nat
  BY LenProperties DEF ExecutorOK
<1>2. readers[s].at \in {"scan", "write", "done"} /\ readers'[s].at \in {"scan", "write", "done"}
  BY ReaderFacts DEF ExecutorOK
<1>3. InHand(s) \in 0 .. 2 /\ InHand(s)' \in 0 .. 2
  BY <1>2 DEF InHand
<1> QED BY <1>1, <1>3 DEF Unread

\* A reader that goes on has less left, and takes nothing from the other.
LEMMA ReadingIsProgress ==
    ASSUME ExecutorOK, NEW s \in Streams, ReadOutput(s)
    PROVE  /\ Unread(s)' < Unread(s)
           /\ \A t \in Streams \ {s} : Unread(t)' = Unread(t)
<1>1. readers[s] \in Reader /\ pipes[s] \in Seq(AllLines) /\ Len(pipes[s]) \in Nat
  BY LenProperties DEF ExecutorOK
<1>2. Unread(s)' < Unread(s)
  <2>1. CASE Scan(s)
    <3>1. Len(pipes'[s]) = Len(pipes[s]) - 1
      BY <1>1, <2>1, HeadTailProperties DEF Scan, ExecutorOK
    <3>2. readers[s].at = "scan" /\ readers'[s].at = "write"
      BY <2>1 DEF Scan, Writing, Scanning
    <3> QED BY <1>1, <3>1, <3>2 DEF Unread, InHand
  <2>2. CASE ScanEnds(s)
    <3>1. UNCHANGED pipes
      BY <2>2 DEF ScanEnds
    <3>2. readers[s].at = "scan" /\ readers'[s].at = "done"
      BY <2>2 DEF ScanEnds, Scanning, Done, ExecutorOK
    <3> QED BY <1>1, <3>1, <3>2 DEF Unread, InHand
  <2>3. CASE EndWrite(s)
    <3>1. UNCHANGED pipes
      BY <2>3 DEF EndWrite
    <3>2. readers[s].at = "write" /\ readers'[s].at = "scan"
      BY <2>3 DEF EndWrite, Scanning, ExecutorOK
    <3> QED BY <1>1, <3>1, <3>2 DEF Unread, InHand
  <2> QED BY <2>1, <2>2, <2>3 DEF ReadOutput
<1>3. ASSUME NEW t \in Streams \ {s} PROVE Unread(t)' = Unread(t)
  <2>1. pipes'[t] = pipes[t]
    BY DEF ReadOutput, Scan, ScanEnds, EndWrite, ExecutorOK
  <2>2. readers'[t].at = readers[t].at
    <3>1. readers[t] \in Reader
      BY DEF ExecutorOK
    <3>2. CASE Scan(s)
      BY <3>1, <3>2 DEF Scan, Reader, Scanning, Done
    <3>3. CASE ScanEnds(s) \/ EndWrite(s)
      BY <3>3 DEF ScanEnds, EndWrite, ExecutorOK
    <3> QED BY <3>2, <3>3 DEF ReadOutput
  <2> QED BY <2>1, <2>2 DEF Unread, InHand
<1> QED BY <1>2, <1>3

\* Once Claude has exited and no child of its holds the pipes, Execute takes a
\* bounded number of steps to its end: each leaves less to read.  With
\* ExecuteNeverStuck, which says that there is such a step until it returns,
\* that is all of ExecuteEnds that needs no fairness (Execute of claude.go).
THEOREM ReadingComesToAnEnd == Spec => ReadingEnds
<1>1. ExecutionInv /\ [Next]_vars =>
         [step = "claude" /\ claude = "exited" /\ ~helper =>
             \/ step' # "claude"
             \/ UNCHANGED executorVars
             \/ Unread("stdout")' + Unread("stderr")'
                   < Unread("stdout") + Unread("stderr")]_vars
  <2> SUFFICES ASSUME ExecutionInv, [Next]_vars, step = "claude", claude = "exited", ~helper,
                      step' = "claude", ~UNCHANGED executorVars
               PROVE  Unread("stdout")' + Unread("stderr")'
                         < Unread("stdout") + Unread("stderr")
    OBVIOUS
  <2>1. PICK s \in Streams : ReadOutput(s)
    BY ExecutorSteps
       DEF StartClaude, ClaudeStep, PrintLine, Unblock, SpawnHelper, HelperExits, ClaudeExit, Kill
  <2>2. ExecutorOK /\ ExecutorOK'
    BY NextExecutorInv DEF ExecutionInv, ExecutorInv
  <2>3. /\ "stdout" \in Streams /\ "stderr" \in Streams
        /\ s = "stdout" \/ s = "stderr"
    BY DEF Streams
  <2>4. /\ Unread("stdout") \in Nat /\ Unread("stderr") \in Nat
        /\ Unread("stdout")' \in Nat /\ Unread("stderr")' \in Nat
    BY <2>2, <2>3, UnreadIsNat
  <2>5. /\ Unread(s)' < Unread(s)
        /\ \A t \in Streams \ {s} : Unread(t)' = Unread(t)
    BY <2>1, <2>2, ReadingIsProgress
  <2>6. CASE s = "stdout"
    <3>1. Unread("stdout")' < Unread("stdout") /\ Unread("stderr")' = Unread("stderr")
      BY <2>3, <2>5, <2>6
    <3> QED BY <2>4, <3>1
  <2>7. CASE s = "stderr"
    <3>1. Unread("stderr")' < Unread("stderr") /\ Unread("stdout")' = Unread("stdout")
      BY <2>3, <2>5, <2>7
    <3> QED BY <2>4, <3>1
  <2> QED BY <2>3, <2>6, <2>7
<1> QED BY <1>1, ExecutionInvariant, PTL DEF Spec, ReadingEnds

-----------------------------------------------------------------------------
(***************************************************************************)
(* What GitHub holds.                                                      *)
(***************************************************************************)

\* Only a push, a merge and a rejection change a branch on GitHub.
LEMMA BranchSteps ==
    ASSUME Next, ~UNCHANGED <<base, result>>
    PROVE  \/ step = "push" /\ Push
           \/ Merge
           \/ Reject
BY DEF Next, Handle, Take, Settle, CloneGH, CloneGit, CreateBranch, Start, ClaudeStep,
       ExecuteReturns, SaveIteration, CommitChanges, PushBranch, OfferResult, SavePR,
       Users, Cancellation, Advance, repoVars, gitHubVars, RemoveWorkspace, Clone,
       Worked, Commit, CreatePR

\* A push that GitHub takes is a fast-forward, and a merge keeps the commits:
\* nothing gets lost between the jobs of a branch (Push of internal/git/git.go).
THEOREM WorkIsKept == Spec => GitHubKeepsWork
<1>1. [Next]_vars => [~Reject => OnGitHub \subseteq OnGitHub']_vars
  <2> SUFFICES ASSUME Next, ~Reject PROVE OnGitHub \subseteq OnGitHub'
    OBVIOUS
  <2>1. CASE UNCHANGED <<base, result>>
    BY <2>1 DEF OnGitHub
  <2>2. CASE Push
    BY <2>2 DEF Push, OnGitHub
  <2>3. CASE Merge
    BY <2>3 DEF Merge, OnGitHub
  <2> QED BY <2>1, <2>2, <2>3, BranchSteps
<1> QED BY <1>1, PTL DEF Spec, GitHubKeepsWork

-----------------------------------------------------------------------------
(***************************************************************************)
(* What a pull request holds.                                              *)
(***************************************************************************)

OwnCommit == Commits(task.id, "claude")

\* Before the final commit, and after one that failed, the workspace is the
\* source branch with at most the commit that Claude has made itself.
HeadIsKnown ==
    \/ step \in {"branch", "start", "claude", "save_iteration", "commit"}
    \/ work.dirty # {}
    => work.head \subseteq base \cup {OwnCommit}

\* A job finds no files of an earlier one.
WorkspaceIsFresh == step \in {"rest", "clone_gh", "clone_git"} => work.dirty = {}

\* What was pushed is what the workspace holds, unless a user has deleted the
\* branch since.
PushedIsHead == step = "create_pr" => result \in {work.head, NoBranch}

WorkInv == HeadIsKnown /\ WorkspaceIsFresh /\ PushedIsHead

\* The workspace and the branches agree at the start.
LEMMA InitWorkInv == Init => WorkInv
BY DEF Init, RepoInit, NoWorkspace, WorkInv, HeadIsKnown, WorkspaceIsFresh, PushedIsHead

\* Every step keeps the workspace and the branches in agreement.
LEMMA NextWorkInv == ExecutionInv /\ WorkInv /\ [Next]_vars => WorkInv'
<1> SUFFICES ASSUME ExecutionInv, WorkInv, [Next]_vars PROVE WorkInv'
  OBVIOUS
<1> USE DEF WorkInv, HeadIsKnown, WorkspaceIsFresh, PushedIsHead, OwnCommit
<1>1. CASE UNCHANGED vars
  BY <1>1 DEF vars, repoVars
<1>2. ASSUME NEW id \in Heads, Take(id) PROVE WorkInv'
  BY <1>2 DEF Take, repoVars
<1>3. CASE Settle
  BY <1>3 DEF Settle, RemoveWorkspace, NoWorkspace, gitHubVars
<1>4. CASE CloneGH \/ CloneGit
  BY <1>4 DEF CloneGH, CloneGit, Advance, Clone, RemoveWorkspace, NoWorkspace,
              gitHubVars, repoVars
<1>5. CASE CreateBranch \/ Start \/ ClaudeStep \/ SavePR
  BY <1>5 DEF CreateBranch, Start, ClaudeStep, SavePR, Advance, repoVars
<1>6. CASE ExecuteReturns
  <2>1. PICK own \in SUBSET {OwnCommit}, left \in SUBSET {Commits(task.id, "ralph")} :
           work' = [head |-> work.head \cup own, dirty |-> left]
    BY <1>6 DEF ExecuteReturns, Worked
  <2>2. /\ step = "claude" /\ step' \notin {"create_pr", "rest", "clone_gh", "clone_git"}
        /\ UNCHANGED <<base, result>>
    BY <1>6 DEF ExecuteReturns, Worked, gitHubVars, AfterExecute
  <2>3. task'.id = task.id
    BY <1>6 DEF ExecuteReturns, ExecutionInv, TaskOK, Task
  <2>4. work'.head = work.head \cup own
    BY <2>1
  <2>5. work.head \subseteq base \cup {OwnCommit}
    BY <2>2
  <2>6. work'.head \subseteq base' \cup {Commits(task'.id, "claude")}
    BY <2>2, <2>3, <2>4, <2>5
  <2> QED BY <2>2, <2>6
<1>7. CASE SaveIteration
  BY <1>7 DEF SaveIteration, AfterExecute, repoVars
<1>8. CASE CommitChanges
  BY <1>8 DEF CommitChanges, Advance, Commit, gitHubVars, repoVars
<1>9. CASE PushBranch
  BY <1>9 DEF PushBranch, Advance, Push, repoVars
<1>10. CASE OfferResult
  <2>1. task'.id = task.id
    BY <1>10 DEF OfferResult, ExecutionInv, TaskOK, Task
  <2> QED BY <1>10, <2>1 DEF OfferResult, CreatePR, repoVars
<1>11. CASE Users
  BY <1>11 DEF Users, Merge, Reject
<1>12. CASE Cancellation
  BY <1>12 DEF Cancellation, repoVars
<1> QED BY <1>1, <1>2, <1>3, <1>4, <1>5, <1>6, <1>7, <1>8, <1>9, <1>10, <1>11, <1>12
        DEF Next, Handle

\* A pull request that a job keeps has all the job's commits, and lacks what a
\* failed commit left behind only if Claude had committed something itself
\* (finalize of ralph.go, PushAndCreatePR of repo.go, CreatePR of gh.go).
THEOREM PRsHaveTheWork == Spec => PRHasTheWork
<1>1. WorkInv /\ [Next]_vars =>
         [step = "create_pr" /\ step' = "save_pr" =>
             /\ work.head \subseteq result
             /\ work.dirty = {} \/ Commits(task.id, "claude") \in result]_vars
  <2> SUFFICES ASSUME WorkInv, Next, step = "create_pr", step' = "save_pr"
               PROVE  /\ work.head \subseteq result
                      /\ work.dirty = {} \/ Commits(task.id, "claude") \in result
    OBVIOUS
  <2>1. CreatePR
    BY DEF Next, Handle, Take, Settle, CloneGH, CloneGit, CreateBranch, Start, ClaudeStep,
           ExecuteReturns, SaveIteration, CommitChanges, PushBranch, OfferResult, SavePR,
           Users, Cancellation, Advance
  <2>2. result = work.head /\ ~(result \subseteq base)
    BY <2>1 DEF CreatePR, WorkInv, PushedIsHead, NoBranch
  <2>3. work.dirty # {} => work.head \subseteq base \cup {Commits(task.id, "claude")}
    BY DEF WorkInv, HeadIsKnown, OwnCommit
  <2> QED BY <2>2, <2>3
<1>2. Init => WorkInv
  BY InitWorkInv
<1>3. ExecutionInv /\ WorkInv /\ [Next]_vars => WorkInv'
  BY NextWorkInv
<1> QED BY <1>1, <1>2, <1>3, ExecutionInvariant, PTL DEF Spec, PRHasTheWork

-----------------------------------------------------------------------------
(***************************************************************************)
(* Execution implements Handler.                                           *)
(***************************************************************************)

\* Where Handler's goroutine is, command by command.
LEMMA Places ==
    /\ step \in {"clone_gh", "clone_git", "branch", "start"} => HandlerPc = "setup"
    /\ step \in {"commit", "push", "create_pr"} => HandlerPc = "finalize"
    /\ step \in {"claude", "save_iteration", "save_pr", "complete", "fail"}
       => HandlerPc = step
BY DEF HandlerPc

\* The same after a step.
LEMMA PlacesAfter ==
    /\ step' \in {"clone_gh", "clone_git", "branch", "start"} => HandlerPc' = "setup"
    /\ step' \in {"commit", "push", "create_pr"} => HandlerPc' = "finalize"
    /\ step' \in {"claude", "save_iteration", "save_pr", "complete", "fail"}
       => HandlerPc' = step'
BY DEF HandlerPc

\* The command after Execute and the place after Claude are the same.
LEMMA SameAfterClaude ==
    ASSUME NEW job, NEW done, step' = AfterExecute(job, done)
    PROVE  HandlerPc' = Abstract!AfterClaude(job, done)
BY PlacesAfter
   DEF AfterExecute, Abstract!AfterClaude, HasReachedMaxIterations,
       Abstract!HasReachedMaxIterations

\* Each command is a step of Handler, or none.
LEMMA CommandSteps ==
    ASSUME ExecutionInv, Handle
    PROVE  Abstract!Handle \/ UNCHANGED <<rows, task, HandlerPc>>
<1>1. CASE CloneGH
  BY <1>1, Places, PlacesAfter DEF CloneGH, Advance
<1>2. CASE CloneGit \/ CreateBranch
  BY <1>2, Places, PlacesAfter DEF CloneGit, CreateBranch, Advance, Abstract!Handle, Abstract!Setup
<1>3. CASE Start
  BY <1>3, Places, PlacesAfter
     DEF Start, Abstract!Handle, Abstract!Setup, Abstract!CommandsStart
<1>4. CASE ClaudeStep
  BY <1>4 DEF ClaudeStep, HandlerPc
<1>5. CASE ExecuteReturns
  <2>1. /\ ParseIterations \in {0} \cup {line.iteration : line \in AllLines}
        /\ ContainsPromise \in BOOLEAN
    BY ParsedIsPrinted DEF ExecutionInv, ExecutorInv, ContainsPromise
  <2>2. HandlerPc = "claude" /\ UNCHANGED <<rows, ctxDone>>
    BY <1>5, Places DEF ExecuteReturns
  <2>3. CASE ParseIterations > task.job.iteration
    <3>1. HandlerPc' = "save_iteration"
      BY <1>5, <2>3, PlacesAfter DEF ExecuteReturns
    <3>2. task' = [task EXCEPT !.job.iteration = ParseIterations, !.done = ContainsPromise]
      BY <1>5, <2>3 DEF ExecuteReturns
    <3>3. Abstract!ClaudeExits(ParseIterations, ContainsPromise)
      BY <2>2, <2>3, <3>1, <3>2 DEF Abstract!ClaudeExits
    <3> QED BY <2>1, <3>3 DEF Abstract!Handle
  <2>4. CASE ~(ParseIterations > task.job.iteration)
    <3>1. HandlerPc' = Abstract!AfterClaude(task.job, ContainsPromise)
      BY <1>5, <2>4, SameAfterClaude DEF ExecuteReturns
    <3>2. task' = [task EXCEPT !.done = ContainsPromise]
      BY <1>5, <2>4 DEF ExecuteReturns
    <3>3. Abstract!ClaudeExits(ParseIterations, ContainsPromise)
      BY <2>2, <2>4, <3>1, <3>2 DEF Abstract!ClaudeExits
    <3> QED BY <2>1, <3>3 DEF Abstract!Handle
  <2> QED BY <2>3, <2>4
<1>6. CASE SaveIteration
  <2>1. HandlerPc = "save_iteration" /\ HandlerPc' = Abstract!AfterClaude(task.job, task.done)
    BY <1>6, Places, SameAfterClaude DEF SaveIteration
  <2> QED BY <1>6, <2>1
          DEF SaveIteration, Update, Abstract!Handle, Abstract!SaveIteration,
              Abstract!UpdateOrLog, Abstract!Update
<1>7. CASE CommitChanges
  BY <1>7, Places, PlacesAfter DEF CommitChanges, Advance
<1>8. CASE PushBranch
  BY <1>8, Places, PlacesAfter DEF PushBranch, Advance, Abstract!Handle, Abstract!Finalize
<1>9. CASE OfferResult
  BY <1>9, Places, PlacesAfter
     DEF OfferResult, Abstract!Handle, Abstract!Finalize, Abstract!PushAndCreatePR,
         Abstract!CommandsStart
<1>10. CASE SavePR
  BY <1>10, Places, PlacesAfter
     DEF SavePR, Update, Abstract!Handle, Abstract!SavePR, Abstract!UpdateOrLog,
         Abstract!Update
<1> QED BY <1>1, <1>2, <1>3, <1>4, <1>5, <1>6, <1>7, <1>8, <1>9, <1>10 DEF Handle

\* Whatever git, gh and Claude do, Handle changes the job, its row and its place
\* as module Handler says (Handle of ralph.go).
THEOREM ExecutionImplementsHandler == Spec => ImplementsHandler
<1>1. ExecutionInv /\ [Next]_vars =>
         [step \notin {"rest", "complete", "fail"} => Abstract!Handle
           ]_<<rows, task, HandlerPc>>
  <2> SUFFICES ASSUME ExecutionInv, [Next]_vars, step \notin {"rest", "complete", "fail"}
               PROVE  Abstract!Handle \/ UNCHANGED <<rows, task, HandlerPc>>
    OBVIOUS
  <2>1. CASE UNCHANGED vars
    BY <2>1 DEF vars, HandlerPc
  <2>2. CASE Users \/ Cancellation
    BY <2>2 DEF Users, Cancellation, HandlerPc
  <2>3. ~Settle /\ \A id \in Heads : ~Take(id)
    BY DEF Settle, Take
  <2> QED BY <2>1, <2>2, <2>3, CommandSteps DEF Next
<1> QED BY <1>1, ExecutionInvariant, PTL DEF Spec, ImplementsHandler

=============================================================================
