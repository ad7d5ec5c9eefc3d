# Ralph-o-matic in TLA+

Specifications of the job server of ralph-o-matic: the queue in its SQLite
table, the scheduler that takes jobs off it, the handler that runs Claude on
them, the HTTP endpoints and the `move` command that change jobs while all this
goes on; the handler once more from the inside, with Claude's process, the
workspace and the branches on GitHub; and the choice of the models. TLC checks the
modules on small instances; TLAPS proves the theorems for all sizes.

Paths below are relative to the root of the repository.

## 1. The system

| Component | Source | State | Operations | Hard behaviour |
|---|---|---|---|---|
| Job state machine | `internal/models/{job,status,priority}.go` | status, priority, position, iteration, timestamps, PR, error | `NewJob`, `Validate`, `TransitionTo`, `HasReachedMaxIterations` | legality is checked on a copy |
| Jobs table | `internal/db/jobs.go` | the rows | `Create`, `Get`, `Update`, `ListQueued`, `UpdatePositions`, `NextPosition` | `Update` writes all columns; positions are reused |
| Queue | `internal/queue/queue.go` | `q.mu` | `Enqueue`, `Dequeue`, `Pause`, `Resume`, `Complete`, `Fail`, `Cancel`, `Reorder`, `Update`, `Get` | locked per call, not per read-modify-write |
| Scheduler | `internal/queue/scheduler.go` | the loop, the signal channel | `Start`, `Signal`, `processNext`, `PauseJob`, `ResumeJob`, `CancelJob` | three-way `select`, holds a copy while the handler runs |
| Ralph handler | `internal/executor/ralph.go` | the job it was handed | `Handle`, `updateIteration`, `finalize` | logged-only failures, nil for "not done yet" |
| Claude executor | `internal/executor/claude.go` | process, pipes, readers, the output buffer | `Execute`, `readOutput`, `ParseIterations`, `ContainsPromise` | unsynchronised readers, long lines, children that outlive Claude, ignored exit status |
| Git and GitHub | `internal/git/*.go` | workspace, source and result branch, PR | `Setup`, `Commit`, `PushAndCreatePR` | commands that fail after their effect, a branch shared by many jobs |
| Job endpoints | `internal/api/{server,jobs}.go` | none | create, cancel, pause, resume, PATCH, reorder | concurrent requests read, then write |
| Configuration | `internal/models/config.go`, `internal/db/config.go`, `internal/api/config.go` | the config table | `Merge`, `MergeJSON`, `Validate`, `Get`, `Save`, PATCH | lost updates, zero values |
| Server | `cmd/server/main.go` | the process | start, shut down | crash, no recovery |
| Logs | `internal/db/logs.go` | log lines | `Append` | none: no decision reads them |
| Migrations | `internal/db/db.go` | schema version | `Migrate` | runs before anything else |
| Model selector | `internal/platform/{selector,catalog}.go` | none | `SelectModels`, `findBestPlacement` | four strategies in an order, boundary comparisons |
| Detection | `internal/platform/{hardware,ollama}.go` | none | parses command output | none |
| Command line client | `cmd/cli`, `internal/cli` | the list `move` read | HTTP calls, `move` | `move` reads, then reorders |
| Installer | `scripts/install.{sh,ps1}` | none | detects, recommends, writes config files | none |
| Dashboard | `internal/dashboard`, `web` | none | renders | none |

The components of the server share one thing, the jobs table. The endpoints never call the
scheduler and do not signal it; the scheduler never asks the table whether the
job it works on has been cancelled. What connects them is that both write whole
rows from copies read earlier. So the questions worth asking are: what of a
job's history survives a stale write (a status that was final, a place in the
queue, the agreement of the row's own fields); whether jobs are handed out in
order and each at most once; and whether everything submitted ends. Inside
`Handle` the shared things are others: two goroutines and a process share the
pipes and a buffer, and the jobs of one branch share its result branch and PR.

What makes a component correct:

- *job and table*: the fields of a row agree with one another; positions order the queue;
- *queue*: highest priority first and, within one, first come first served; a job that has left does not come back;
- *scheduler*: one job at a time, every waiting job is taken in the end, a cancelled context stops the loop;
- *handler*: a job that Claude finished is not reported complete without its PR; what it has stored of a job's progress it does not undo; a job that was taken ends;
- *executor*: what Claude printed is parsed, all of it; `Execute` ends, at the latest when it is cancelled;
- *git*: a PR has all the work of its job; nothing that has reached GitHub is lost;
- *move*: the job comes to the place asked for, no two jobs share one, and the others keep their order;
- *selector*: what is offered fits, and it is the five best pairs that do;
- *endpoints*: a job that has ended stays as it ended;
- *configuration*: what is stored is always valid; an update is lost only to an overlapping one.

## 2. The modules

```
Job          one job: statuses, legal moves, TransitionTo, Validate
 StaleTable  abstract: what the server promises of its table
 JobRepo     the jobs table: one operator per SQL statement or transaction
  Queue      the methods of queue.Queue, on the caller's copy of a job
   Api       the endpoints: requests in flight, each with the copy it read
    Cli        the move command: the list it read and the order it sends
   Handler   RalphHandler.Handle, step by step, on the copy Dequeue returned
    Scheduler    the loop, processNext, the signal
     RalphServer     Api + Scheduler + Handler over one table: Spec, LiveSpec
      MCRalphServer      small instances for TLC
      RalphSystem        RalphServer + Cli: SystemSpec, LiveSystem
   ShippedServer     Api alone, as cmd/server/main.go starts it
ClaudeExecutor   Execute: the process, its pipes, both readers, the buffer
RepoManager      the workspace, the source and result branch, the PR
 Execution       Queue + ClaudeExecutor + RepoManager: Handle, command by command
  MCExecution        small instances for TLC
Config       the configuration and its PATCH endpoint
 MCConfig    small instances for TLC
Selector     SelectModels and findBestPlacement
 MCSelector  the embedded catalog and 169 machines
```

Three modules implement a more abstract one. `RalphServer` implements `StaleTable`
(`Table == INSTANCE StaleTable WITH copies <- Held`): whatever endpoints, scheduler,
handler, crashes and failing writes do, a row only becomes what one legal step makes
of it as it was when some goroutine read it. `Execution` implements the steps of
`Handler` (`Abstract == INSTANCE Handler WITH pc <- HandlerPc, ...`), in which
cloning, Claude, committing and pushing are one step each and know of nothing
outside: so what is shown of the server with `Handler` in it holds with the commands.
`RalphSystem` in turn implements `RalphServer`, whose clients may send any order: what
is proved of the server alone holds with `move` around it.

The theorems are in `QueueProofs`, `RalphServerProofs`, `SettledProofs`,
`OrderProofs`, `TableProofs`, `ExecutionProofs`, `SelectorProofs` and `ConfigProofs`.

### State

| Variable | In the code |
|---|---|
| `rows` | the jobs table; ids are `AUTOINCREMENT` and nothing deletes a job, so it is a sequence and an id an index |
| `req[c]` | the goroutine of one HTTP request between `queue.Get` and the queue method: the operation and the `*models.Job` it read |
| `pc`, `task` | the scheduler's goroutine: where it is in `Start`, `processNext`, `Handle`, and the `*models.Job` from `Dequeue` with the promise Claude made |
| `signal` | a token in the scheduler's channel (capacity 1) |
| `ctxDone` | the context given to `Start` is cancelled |
| `move[m]` | one run of `move` between its two requests: the job, the place asked for, the list it got |
| `step`, `task`, `ctxDone` in `Execution` | the same goroutine at the command it is at |
| `claude`, `helper` | the process, and whether a child of it lives that has its ends of the pipes |
| `blocked`, `pipes`, `readers` | the write Claude waits in, the unread lines, and each `readOutput` goroutine: scanning, inside `WriteString`, done |
| `output`, `printed`, `overlapped` | `outputBuf`; all that Claude has printed, and whether two `WriteString`s have overlapped (history) |
| `base`, `result`, `pr` | the source branch, `ralph/<branch>-result` and the open PR on GitHub |
| `work` | the workspace of the job: its commits and its uncommitted files |
| `machine`, `answered`, `answer` | an input and the result of `SelectModels` |
| `config`, `req[c]` in `Config` | the config table; the request's body and the config it read |

A job keeps what the control flow reads or writes. Timestamps, the PR's URL and
the error are Booleans (set or not). Repository, branch, prompt, working
directory and env never change after `NewJob` and are left out, as is
`retry_count`, which no code changes. `paused_at`, `started_at` and
`completed_at` are kept because the transitions stamp them.

The output is the set of its lines: `ParseIterations` takes a greatest number and
`ContainsPromise` asks whether a line is there, so order and repetition do not count.
A line is what these two see of it, and whether it exceeds the scanner's 64 KB.
A history is the set of its commits, a commit the job it was made in and who made
it, and a fast-forward a superset; merges are true merges (a squash would look to
the next push like a new source branch, which `Push` may refuse anyhow).

In `Config` a field is a number, 0 being the zero value of its Go type, because
that is all `Merge` and `Validate` look at (for a device: whether it is one of
the four legal texts). What `Save` formats, `applyConfigValue` parses back to the
same value, so a stored row is the value itself.

### What is one step

- A method of `queue.Queue` holds `q.mu` throughout and is one step. `Create`
  runs `NextPosition` and the INSERT as two statements. The only writes that `q.mu`
  does not keep from falling between them are the handler's own `jobRepo.Update`;
  such a write changes another row than the INSERT does, so it is as if it came
  after both.
- `Dequeue` is `ListQueued`, `TransitionTo` and `Update` under `q.mu`. The only
  writer that could slip in without the lock is the handler, which the same
  goroutine runs after `Dequeue` has returned. SQL leaves the order of rows that
  agree on priority and position open: `Heads` is the set that may come first.
- An endpoint on one job is two steps, `queue.Get` and the queue method, and
  anything may happen in between. PATCH reads the body there.
- `Handle` takes a step per thing others can see or that can fail on its own:
  clone and start, Claude's exit, each write, push and PR.
- In `Execution` a command of git or gh is one step that may fail, and where it
  changes GitHub it may fail after the change: the answer is lost. A command on a
  cancelled context does not start. `Execute` takes a step per line printed, read
  and written, and per exit and kill.
- Two `WriteString`s on the shared buffer that overlap are a data race. What the
  buffer holds after it is any choice of the lines written meanwhile, and of lines
  with another iteration number, run together from two. A torn slice header may also
  panic, which is a crash.
- What Claude does to the workspace is seen when it has ended, in one step with the
  return of `Execute`. The workspace is forgotten when the job is settled: `Cleanup` is
  never called and the next `Setup` of the id removes it, and nobody looks at it in between.
- `move` is two steps, the GET and the PUT. One statement of `List` reads the ids,
  and `move` uses nothing else of the answer. `List` orders by creation time, which is
  taken to be the order of the ids.
- `SelectModels` is one step: it has no state.
- `PATCH /api/config` is two steps: the SELECT, and merge, validate and the
  transaction.
- In `RalphServer` a crash may happen between any two steps; SQLite keeps what was committed, and
  nothing repairs the table on the way up.

Left out of the steps on purpose: the 60 second timeout middleware (it cancels a
request's context, which no modelled handler passes to the database), the log
lines, `IsRunning`, and the goroutine that copies the prompt to Claude's stdin.
`Execution` has no crash: to a job it is what a failure of the next command is,
except that the row stays running, which `StaleWrites` covers. A clone of depth 1 (the
fallback to git) may make a push fail that a full one would allow; every push may
fail. The tight-fit flag of a placement is read by nobody. Only tests call
`SelectModels`; no program of the repository does yet.

### Inputs and bounds

`MaxJobs` bounds the jobs created, `Clients` the requests in flight; both are
constants. The other inputs are finite sets: priorities and `max_iterations` of a
create or PATCH, the lists of a reordering, what `ParseIterations` returns.
`Movers`, `MovedIds` and `Destinations` are the runs of `move` and their arguments, a
mistyped id included. `Lines` is what Claude may print on each stream, each line once,
and `PipeSize` what a pipe holds; `Jobs` and `MaxIterations` are the rows `Execution`
starts with. `Catalog` and `Machines` are the selector's, in half gigabytes, the unit
of the catalog. `FailingWrites` names which writes the database may refuse: `api`, `dequeue`,
`iteration`, `pr`, `settle` (Complete and Fail). `MayCancel` and `MayCrash` switch
the two outside events on.

## 3. The runs

Every property is preceded by a comment that states it. "Mutant" is the change
of the model that TLC must find to break the property.

| Run | Instance | Properties | Mutant |
|---|---|---|---|
| `StaleWrites` | 1 job, 2 requests of every kind, every write may fail, crashes (4.0 million states) | `TypeOK` | positions from zero |
| | | `RowCoherence` | the end of a job is not stamped |
| | | `FinishedHasPR` | a failed push is only logged |
| | | `SettledIsFinal` | transitions are not checked |
| | | `OnlyPatchRequeues` | a resumed job is queued |
| | | `OnlyTheseStrand` | Fail does not write the status |
| | | `ImplementsStaleTable` | `Update` writes the status column only |
| `QueueOrder` | 3 jobs, 2 priorities, cancel and pause, cancelled context, dequeues may fail (11.6 million) | `SubmissionOrder` | position is the number of waiting jobs |
| | | `LeftTheQueue` | Dequeue does not write the row |
| | | `RunningIsWorkedOn` | Fail does not write the status |
| | | `FirstComeFirstServed` | priorities are ignored |
| `Progress` | 2 jobs, 1 request, 1 move, pause, cancelled context, fair (238 thousand) | `OnlyStaleMoveCollides` | move sends its own job only |
| | | `MovedIsPlaced` | move sends its job among the others as well |
| | | `ProgressIsKept` | a paused job starts to count anew |
| | | `QueuedIsTaken` | the ticker does nothing |
| | | `TakenSettles` | Complete leaves a paused row alone |
| | | `CancelStops` | the context is looked at only after a signal |
| `Execution` | 2 jobs of one branch, up to 2 lines per stream, pipes of 1 line, fair (662 thousand) | `ImplementsHandler` | a failing gh is only logged |
| | | `OutputIsComplete` | the process is waited for, the readers are not |
| | | `PRHasTheWork` | a failing push is only logged |
| | | `GitHubKeepsWork` | `push --force` |
| | | `ExecuteIsNotStuck` | an empty pipe is taken for the end of the stream |
| | | `ReadingEnds` | a line is taken again and again |
| | | `ExecuteEnds` | the streams are read one after the other |
| | | `CancelEndsExecute` | the context is looked at in `cmd.Wait` only |
| `ModelSelection` | 5 models, 169 machines | `OffersFit` | Apple's memory counts as a GPU's own |
| | | `LargeKeepsGPU` | a split needs room for both models in the CPU memory |
| | | `BestIsFirst` | the first GPU counts, not the best |
| | | `OffersAreTheBest` | the small models are no longer tried after the first that fits |
| `ConfigRaces` | 2 PATCH requests with bodies of every kind (22 thousand) | `StoredIsValid` | saved without Validate |
| | | `OnlyOverlapReverts` | an object's absent Boolean counts as false |

Why the instances are big enough. What a stale copy does to a row involves the
row, the copy and the scheduler's copy, so one job with two requests and the
scheduler reaches every combination, a second stale writer included; other jobs
are not touched by it (`Writes` in the proofs). Order needs a job that starts, one
that is passed over and one that is added to a queue others have left: three. In
`Progress` a second job is what a collision, a lost signal and a ticker need, and one
iteration, stored between the read and the write of a request, is what can be forgotten.
Its move brings the younger job to the front; of the other places, the end and those that
do not exist, `MovesArePlaced` speaks.
In `StaleWrites` a job has two iterations, or none after a PATCH (a create with
none is refused), and Claude reports iteration 0 or 2: all branches of `Handle`.
In `Execution` the second job meets what the first has left on GitHub: a result
branch with or without a PR, merged, rejected, deleted or pushed and not
reported. One line in a pipe and another in the hands of a blocked Claude are what
it takes for a reader, a writer and the other stream to wait for each other; each
stream has a line of an iteration, stdout a promise, stderr a line too long. In
`ModelSelection` the machines have the exact size of a pair, one unit less, and common
sizes; the theorems are about every catalog and machine.

Deadlock is not looked for in `Execution`, where the jobs are finite and a child that
never exits keeps `Execute` waiting, and in `ModelSelection`, which answers once. In
`ExecuteEnds`, `ExecuteIsNotStuck` and `CancelEndsExecute` the exceptions are the point: `wg.Wait` comes
before `cmd.Wait`, and killing Claude does not kill its children, so a child that
keeps stdout open keeps `Execute` waiting however often the context is cancelled; and
a reader that gave up on a long line leaves its pipe to fill.

Where a property needs a quiet environment its comment says so ("without PATCH");
these are preconditions of the configuration and not of the property's formula:
the instance leaves the operation out, because with it the property is false and
another property says exactly how (`OnlyPatchRequeues`).

### Fairness

`LiveSpec` assumes

- weak fairness of the scheduler's goroutine: `select` wakes up at the latest
  after five seconds and every command the handler runs ends. The code sets no
  time limit on git, gh and claude, so their ending is an assumption about them;
- strong fairness of `SelectStop`: a case of `select` that is ready again and
  again is picked in the end, which the Go runtime's random choice gives with
  probability 1;
- strong fairness of a successful `Dequeue`: a database that refuses some writes
  does not refuse all of them.

Nothing is assumed of the clients, and in `RalphSystem` nothing of the users who run `move`.

`Execution` assumes weak fairness of each reader, of Claude going on after a write
that blocked it, of its exit when no write blocks it, of the kill once the context is
cancelled, and of `Execute`'s return. Nothing is assumed of Claude's children, of the
users or of the commands. The assumption that Claude ends is the one `LiveSpec` makes
of `Handle` as a whole; `ExecuteEnds` says what else it takes.

### Disagreements between the code and what is said of it

Each of these runs checks one claim and ends in a counterexample.

| Run | Claim | What the code does |
|---|---|---|
| `TerminalIsFinal` | `internal/models/status.go:51` "Terminal states cannot transition" | a job cancelled while it runs is overwritten by the scheduler's running copy and completed (`internal/queue/scheduler.go:108`) |
| `CompletedIsPromised` | `internal/executor/ralph.go:76` "Continue running (scheduler will handle re-execution)"; `docs/plans/2026-01-27-ralph-o-matic-design.md:855` | a job without a promise and with iterations left is marked completed, without a PR |
| `MoveKeepsOthers` | `cmd/cli/commands.go:222` "Get current queue"; `README.md:90` "Move to front of queue" | `List` answers newest first (`internal/db/jobs.go:211`) and `move` sends that as the new order: the jobs that were not moved are reversed |
| `ResumedIsRun` | `README.md:88` "Resume from where it left off" | a job is paused while its handler runs, and a resume reads the paused row; the handler ends and `Complete` or `Fail` settles the row (`internal/queue/scheduler.go:100`, `:108`); the resume then writes its copy (`internal/queue/queue.go:85`): the row is running, nobody works on it, and `Dequeue` looks at queued rows only |
| `ShippedServer` | `README.md:19` "Queue → Execute loop" | `cmd/server/main.go` builds no scheduler |
| `AcceptedIsApplied` | `internal/models/config.go:163` "correctly handling zero values (false, 0)" | `job_retention_days: 0` is accepted and dropped |

Met on the way and not given a run:

- with the context cancelled, a tick or signal that is also ready may still start a
  job (`internal/queue/scheduler.go:34` "processes jobs until context is cancelled");
- pausing a running job may set its stored iteration back, as the request writes the
  copy it read (`internal/queue/queue.go:65` says it preserves the count);
  `ProgressIsKept` says that nothing else does;
- the retries of `docs/plans/2026-01-27-ralph-o-matic-design.md:856` are not implemented;
- `concurrent_jobs` (`README.md:132`) is stored and never read by the scheduler;
- `move --after` (`docs/plans/2026-01-27-ralph-o-matic-design.md:572`) is parsed and ignored;
- `server-config set large_model.name ...` (`README.md:118`) sends a key with a dot in
  it (`cmd/cli/commands.go:322`), which the server drops;
- `docs/plans/2026-01-28-flexible-model-selection-design.md:136` and
  `docs/plans/2026-01-28-flexible-model-selection-implementation.md:2022` try the small
  model on the GPU before the large one; `internal/platform/selector.go:111` tries the
  large one first, as the model that "benefits most from GPU". `LargeKeepsGPU` states
  the code's order and is false of the plans';
- `docs/plans/2026-01-28-flexible-model-selection-design.md:320` has 24 GB of unified
  memory select 14b + 7b. 32b + 1.5b fits as well and has the same score, and the code
  puts it first, by the tie rule of line 343 of the same document ("prefer larger large
  model"), which is the one `BestIsFirst` states;
- `internal/platform/selector_test.go:76` has 14b + 1.5b on 16 GB, where the code puts
  14b + 7b first (15 GB, higher score), and the comment at line 205 leaves out 32b + 1.5b
  on 24 GB; the tests assert the large model, or its device, only;
- `docs/plans/2026-01-28-flexible-model-selection-design.md:341` lets one model serve as
  both the large and the small one; the code skips such a pair (`internal/platform/selector.go:28`),
  so `Pairs`, and with it `BestIsFirst` and `OffersAreTheBest`, leave it out, and a
  catalog of one model is an error on every machine;
- `docs/plans/2026-01-28-flexible-model-selection-design.md:132` and line 326 return the
  top configuration and "2-3 ranked alternatives"; the code (`internal/platform/selector.go:69`,
  and line 1980 of the implementation plan) returns up to five in all, which is what
  `OffersAreTheBest` states;
- the installer has rules of its own and does not ask `SelectModels`; what
  `README.md:108` and `README.md:109` say it recommends are smaller pairs than those
  `SelectModels` puts first (70b + 7b, 47 GB, on a 48 GB Mac; 14b + 7b, 15 GB, on 16 GB).

## 4. What is proved

For all values of the constants that satisfy the `ASSUME`s next to them:

| Theorem | States | Argument |
|---|---|---|
| `RalphServerProofs!TypeCorrect` | `Spec => []TypeOK` | `TypeOK` is inductive; a lemma per action says what it writes |
| `RalphServerProofs!RowsStayCoherent` | `Spec => []RowCoherence` | inductive with `TypeOK` |
| `SettledProofs!SettledStaysFinal` | `Spec => SettledIsFinal` | under `TypeOK`; whoever still holds the job agrees that it ended, and a terminal copy cannot transition |
| `SettledProofs!RequeuedByPatch` | `Spec => OnlyPatchRequeues` | under `TypeOK`, a case per action: the scheduler writes running or ended copies, and only a PATCH keeps the status it read |
| `SettledProofs!FinishedJobsHavePR` | `Spec => []FinishedHasPR` | inductive with "at `save_pr` the copy has a URL" |
| `SettledProofs!LeavingIsForGood` | `NoPatch`: `Spec => []LeftTheQueue` | inductive with `TypeOK` |
| `SettledProofs!HandlerForgetsNothing` | `NoPatch`: `Spec => ProgressIsKept` | `KnowsMost` is inductive with `LeftTheQueue` and `RowCoherence`: nobody knows more of a job than the handler that works on it |
| `OrderProofs!QueueKeepsSubmissionOrder` | `NoPatch`, `NoReorder`: `Spec => []SubmissionOrder` | inductive with `LeftTheQueue` |
| `OrderProofs!JobsStartInOrder` | `NoPatch`, `NoReorder`: `Spec => FirstComeFirstServed` | from the same invariant |
| `OrderProofs!OneJobRuns` | `NobodyStrands`: `Spec => []RunningIsWorkedOn` | inductive with `TypeOK` |
| `OrderProofs!StrandedInTheseWays` | `Spec => OnlyTheseStrand` | under `TypeOK`, a case per action: what a write leaves running is the copy of a resume, of a PATCH or of the scheduler's own job |
| `OrderProofs!PositionsCollideByStaleMoves` | `NoPatch`, `NoReorder`: `SystemSpec => OnlyStaleMoveCollides` | under `TypeOK` and "a move holds a list of ids": every step of the server takes jobs off the queue or adds one at `NextPosition`, and a list of all that wait numbers them apart |
| `OrderProofs!MovesArePlaced` | `SystemSpec => MovedIsPlaced` | `ListsOK` is inductive: a list names each of its jobs once; so the order sent is a bijection from the places to the jobs |
| `OrderProofs!SystemImplementsServer` | `AnyOrder`: `SystemSpec => Spec` | sending a list is a reordering of `Spec`, reading one a stutter |
| `OrderProofs!MovesBreakNoPromise` | `AnyOrder`: `SystemSpec` implies `[]RowCoherence`, `SettledIsFinal`, `OnlyPatchRequeues`, `OnlyTheseStrand`, `[]FinishedHasPR`, `ImplementsStaleTable` | the theorems about `Spec`, through `SystemImplementsServer` |
| `QueueProofs!QueueHasHead` | a queue with a job in it has a first one | a least priority and a least position exist |
| `TableProofs!ServerImplementsStaleTable` | `Spec => ImplementsStaleTable` | under `TypeOK`, a case per action: which abstract step it is |
| `ExecutionProofs!ExecutionImplementsHandler` | `Spec => ImplementsHandler` | with the type invariant, a case per command: a step of `Handler` or a stutter |
| `ExecutionProofs!OutputIsAlwaysComplete` | `Spec => OutputIsComplete` | `NothingIsLost`: a printed line is in a pipe, in a reader's hands or in the buffer, as long as no two writes of the buffer overlapped and no line is too long |
| `ExecutionProofs!ExecuteNeverStuck` | `Spec => []ExecuteIsNotStuck` | `EndInv` is inductive: a reader that is done met the end of its stream or a long line, which then stays at the head of the pipe |
| `ExecutionProofs!ReadingComesToAnEnd` | `Spec => ReadingEnds` | under the type invariant, a case per step of `Execute`: each makes `Unread` smaller, a natural number |
| `ExecutionProofs!PRsHaveTheWork` | `Spec => PRHasTheWork` | `WorkInv` is inductive: until the commit the workspace has nothing that is not on the source branch but the job's own commit, and after the push the branch is its head |
| `ExecutionProofs!WorkIsKept` | `Spec => GitHubKeepsWork` | a case per action: a push is a fast-forward, a merge a union |
| `SelectorProofs!OffersAlwaysFit` | `Spec => []OffersFit` | a case per strategy, and that the best GPU is one of the machine's |
| `SelectorProofs!LargeModelsKeepGPU` | `Spec => []LargeKeepsGPU` | the same cases from the other side |
| `SelectorProofs!BestOfferIsFirst` | `Spec => []BestIsFirst` | `Before` is a total order of finitely many pairs, so a placed pair comes first |
| `SelectorProofs!OffersAreAlwaysTheBest` | `Spec => []OffersAreTheBest` | places in the list follow `Before`; a list of more than five has the places 0 to 4 |
| `ConfigProofs!ConfigStaysValid` | `Spec => []StoredIsValid` | inductive: what a request read is valid too |
| `ConfigProofs!RevertsNeedOverlap` | `Spec => OnlyOverlapReverts` | from `StoredIsValid` and `MergeFacts` |

The hypotheses are about what clients and the database do. `NoPatch` leaves PATCH out
of `Ops`, because with it the property is false: a PATCH writes the status and the
position it read. `NoReorder` leaves the lists of `PUT /jobs/order` out, whose purpose
is another order. `NobodyStrands` leaves out resume, PATCH, a crash and a refused
`settle`, each of which does leave a running row without a handler. `AnyOrder` takes
nothing away: it lets the clients of `Spec` send every list of ids, as the endpoint does,
among them those that `move` sends.

The invariants had to be strengthened in most places. `RowCoherence` speaks of the
copies in flight as well as the rows: a row is only ever overwritten by a copy, so
its fields agree exactly if those of every copy do. `SubmissionOrder` is not
inductive alone: a pause or cancel with a copy from before could, as far as it
knows, write an old position over a waiting row. `LeftTheQueue` rules that out:
a copy that has left the queue belongs to a row that has left it, so the only rows
that wait are those nobody has written since they were created.
`ProgressIsKept` is about a write, and the handler writes its copy without looking at
the row: `KnowsMost` says that it may, and needs `LeftTheQueue`, since a job put back on
the queue would be handed out again with what the table has of it.
`FinishedHasPR` speaks of the point where `Complete` is due; the step before it,
the save of the PR, needs the URL to be in the copy already (`PRInv`).
`OutputIsComplete` speaks of one moment, the return, and needs to know where each line
is at every moment before it (`ExecutorInv`); `PRHasTheWork` needs the history of the
workspace since the clone (`WorkInv`); `ExecuteIsNotStuck` needs to know why each reader
ended (`EndInv`).
`TypeOK` contains the fact `processNext` relies on without saying so, that the
handler returns the job still marked running.

`QueueProofs` has the facts about the operators: that `NextPosition` exceeds
every waiting position (through a well-founded ordering of finite sets, since the
greatest element of a set is a `CHOOSE`), that `Heads` is not empty while a job waits,
what a transition sets, and what each SQL statement leaves alone.

Only model-checked: the five liveness properties `QueuedIsTaken`, `TakenSettles`,
`CancelStops`, `ExecuteEnds` and `CancelEndsExecute`, as fairness and `ENABLED` are out of
the prover's reach. What needs no fairness of `ExecuteEnds` is proved: some step is always
possible (`ExecuteNeverStuck`), and once Claude is gone there are only so many
(`ReadingComesToAnEnd`). Every other property of a passing run is a theorem. Nothing here
is recursive, so no proof needs an induction over data.

## 5. Not modelled

- `internal/db/db.go`, `internal/db/logs.go`: the migration runs alone before the
  server starts; log lines are appended and no decision reads them.
- `internal/platform/{hardware,ollama}.go`: the parsing of what system commands print
  and the calls of Ollama, which keep no state. What `SelectModels` relies on of it is
  modelled: a machine has one Apple GPU with the memory of the machine, or others.
- `cmd/cli`, `internal/cli`: every command but `move` is one request, a step of `Api` or
  `Config`, and the local configuration file is read once. `internal/dashboard`: renders
  what it reads in several statements; nothing acts on the page.
- `scripts/install.{sh,ps1}`: run once, before there is a server; their table of
  recommendations is a sequence of comparisons of its own.
- In modelled components: read-only operations; `JobRepo.Delete`, `ConfigRepo.Update`
  and `ConfigRepo.GetKey`, `Cleanup`, `GetPRURL`, `CheckoutBranch` and `GetLog`, which
  only tests call; the graceful shutdown of `cmd/server/main.go`; plain model names in
  an older config table.
- An empty PR URL: `gh pr create` is taken to print the URL when it succeeds.
- Jobs of different branches or repositories in `Execution`: they share nothing but
  the table, and one handler runs at a time.

## 6. Plan

What is left, in this order:

1. Theorems from `StaleTable` alone: which of the promises about the rows need
   nothing of the server but the steps it allows.
2. The part of `TakenSettles` that needs no fairness: a measure that every step of the
   handler makes smaller.
3. What a PATCH of the configuration does apply: the counterpart of `AcceptedIsApplied`
   for the values that are not zero, and its proof.
4. Crashes in `Execution`: the workspace and the branches after a restart, when the
   row stays running and another job of the branch is taken.
5. `Listing`: `List` and the dashboard in several statements against a changing table,
   worth a module once a client acts on more than the ids.
6. The selector with the detection before it, once the installer uses both.
