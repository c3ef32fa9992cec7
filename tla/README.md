# A TLA+ model of skene

skene is a Go library for durable workflows. A workflow is a graph of named
steps; every run of it is a log of events. To make progress a job replays the
run: it loads the log, skips what the log says is done, executes what is ready
and appends what happened. The logs are kept in PostgreSQL (or in memory), the
jobs in a River queue. This directory models the replayer with the child
workflows that steps run, the runner with its workers and callers, the event
stores, the projections that dashboards show, the definition of workflows and
the saga compensation.

## Inventory

| Part | State | Operations | Correct when |
|---|---|---|---|
| Event store (`event/store.go`) | a log per run | Append, AppendBatch, Load, LoadSince, GetLastSequence | logs are gapless, only ever extended, batches all or nothing |
| PostgreSQL store (`event/pgstore`) | table `skene_events`, advisory locks, open transactions | AppendBatch, AppendBatchTx, Load, ... | implements the above under concurrent transactions |
| Memory store (`event/memory`) | a map under one mutex | the same | the same |
| History (`workflow/history.go`) | indexes over a loaded log: steps, fatal errors, branch choices, signals, maps, children | queries, RecordBranchChoice | agrees with the log and with what this replay recorded |
| Replayer (`workflow/replay.go`, `signal.go`, `branch.go`) | new events, output cache, waiting signals, one goroutine per step of a wave | Replay, WaitForSignal, Branch.Execute, Record... | steps run after their dependencies, once each, with their inputs; nothing a goroutine did is lost |
| Map, Run, children (`workflow/map.go`, `context.go`) | map and child counters | Map, Run | children are started once and found again |
| Saga (`workflow/saga.go`) | none of its own | runCompensation (called by tests only; no path of Replay reaches it) | every compensation is tried, in reverse order of completion, and failures are recorded |
| Definition (`workflow/define.go`) | step graph | Define | known dependencies, no cycle |
| Registry (`river/registry.go`) | definitions by name and version | Register, SetLatest, Get, GetVersion | a run continues under the version it began with |
| Runner API (`river/runner.go`) | none of its own: event store and job queue | StartWorkflow(Tx), SendSignal, CancelWorkflow, GetRun, Stop | each call is checked against the log it changes |
| Workers (`river/workers.go`, `jobs.go`) | the job in hand, an open transaction | workflowWorker, signalTimeoutWorker, scheduledStartWorker | no job is lost, no replay is stored twice |
| Retry policies (`retry/policy.go`) | none | ShouldRetry, NextDelay | every granted attempt is made |
| Projections, queries (`project`, `query`) | none | folds over a log | agree with the log |

The parts interact through two shared stores. Callers and workers, in any number
of processes, load a run's log, decide, and append; the store accepts the append
only if its first sequence number follows the last one stored. There is no lock
across load and append, so all of the runner's correctness rests on that check.
What makes a run go on is a job: `StartWorkflow`, `SendSignal` and a timed-out
signal insert a workflow job, and a replay that waits inserts a timeout job.
Within one replay the goroutines of a wave share the context, the output cache,
the new events, the index of branch choices and the counters that number child
workflows and maps; each Map starts a group of goroutines of its own.

The hard behaviours are therefore: checks that are stale when the append comes;
two jobs replaying one run; crashes between an append, the job that belongs to it
and River's acknowledgement; the cancellation of sibling goroutines and of whole
jobs at arbitrary points; signals racing their own timeout and a cancellation;
children that are found again, or not, by a counter that restarts in every replay;
maps of which some items fail; views folded from logs with retries and repeated
replays; and the PostgreSQL transactions under the check. `PROJECT.json` lists them under
"hazards", each at its line with the properties that are about it.

## Modules

| Module | Models | State and actions |
|---|---|---|
| `Workflow` | definitions, events, history queries | constants and operators only |
| `Replayer` (extends `Workflow`) | one replay per process | `sess[w]`; one action per stretch of code between two points where goroutines interleave |
| `Children` (extends `Replayer`) | `Run` and `Map` inside a step's body | `sess[w]`; one action per call, per return and per item of a map |
| `Runner` (extends `Children`) | callers, workers, River, the log of one run | `log`, `jobs`, `wk`, `cl`, `faults` and `sess`; one action per load-and-check, per commit, per River operation |
| `Projections` (extends `Runner`) | `project/project.go` | operators on `log` |
| `EventLog` | what `event.EventStore` promises | `log`; one action, adding batches at the end |
| `MemoryStore` | `event/memory/store.go` | `events`; one action, a batch appended as a whole |
| `PgStore` | `event/pgstore/store.go` | `table`, `lock`, `tx`; one action per SQL statement that can block, fail or change something |
| `Definition` | `Define` and its topological sort | `steps`, `sort`; one action per check, per pop of the queue and per step of the list that the inner loop visits |
| `Saga` (extends `Definition`) | `runCompensation` | `saga`; one action per completed step collected and per compensation |
| `ReplayerProofs` (extends `Children`) | proofs: types of the steps of a replay, `Run` and `Map` included | |
| `RunnerProofs` (extends `Runner`, `ReplayerProofs`) | proofs: types, the checks before an append, signals, cancellation | |
| `SessionProofs` (extends `RunnerProofs`) | proofs: the invariant of one replay | |
| `HistoryProofs` (extends `SessionProofs`) | proofs: what the log says of steps, branches, attempts and the end of a run; what drives a run | |
| `ChildrenProofs` (extends `HistoryProofs`) | proofs: children and maps | |
| `ProjectionsProofs` (extends `Projections`, `ChildrenProofs`) | proofs: `GetRun` and the projections | |
| `PgStoreProofs` (extends `PgStore`) | proofs: the PostgreSQL store and what it implements | |
| `SagaProofs` (extends `Saga`) | proofs: the sort and the compensation | |
| `MCRunner`, `MCPgStore`, `MCSaga` | instances for TLC | |

**Workflow.** A step is a number and numbers follow the order of the names, in
which a wave is sorted. A branch is a step with cases; a case is a name outside
`Steps`, as in the code, where `Define` registers the branch and not its cases.
An event is its type, its name (step, case or signal) and the one datum that
control depends on: the choice of a branch, whether a failed attempt is retried,
or that a child has no output. Attempts are numbered, and the events of children
and maps carry the child's id. The queries of `History` are operators on a log.

**Replayer.** `NewReplayer` is the sequential code before the first wave.
`BeginWave`, `CompleteReplay` and `Suspend` are the top of the loop;
`CollectResult` and `EndWave` the code after `g.Wait()`. In between each
goroutine takes `EnterStep` or `EnterBranch`, `StartAttempt`, and one of
`StepSucceeds`, `StepWaits`, `StepFails`, or leaves by `GoContextError`. A body
is arbitrary user code: it returns a value, stops at the first signal it awaits
that is not resolved, or returns an error if it is one of `MayFail`, if its
context is done or if a signal it awaits timed out. Before it waits it makes the
calls that `Calls` lists for it. `GetOutput` and `BranchOutput` are what it reads.

**Children.** `CallRun` and `CallMap` take the next index and ask the history;
`RunReturns` and `ItemReturns` record how a child ended; `SkipItem`, `SpawnItem`,
`MapReturns` and `MapPanics` are the group of a map. A child is a replay of its own
from an empty history, of which the parent sees the result only: completed, failed,
or waiting or suspended, which both functions treat as completed without an
output (`ChildResults`, and the context). A body that gets an error from a call
returns it. A limit on the concurrency of a map only removes interleavings, and a
map without items returns before it takes an index; neither is modelled. The loop
of a map that looks for single children in the history is reduced to the case that
it finds none: `MapsWhole` shows that a stored child of a map never lacks the
outcome of its map, which is looked up first.

**Runner.** One run. `SendSignal`, `CancelWorkflow`, `LoadTimeout` and `LoadRun`
load the log and check it; `AppendSignal`, `AppendCancel`, `AppendTimeout`,
`CommitReplay` append later, if the log has not moved (`Accepts`), and
`ClientConflict`, `TimeoutConflict`, `ReplayConflict` are the refusals. `TxStore`
distinguishes the two kinds of store: with it the append and the jobs are one
transaction; without it `AppendReplay`, `FinishReplay`, `InsertJob` and
`WorkerInsert` are separate commits in the order of the code. River is external
and modelled from its use: it hands out jobs, counts attempts, tries again a job
whose `Work` returned an error or whose process died, and discards it after its
last attempt. `CancelReplay` is River cancelling a job's context at its timeout;
every later statement of that job then fails (`AbortReplay`). That is so for
PostgreSQL. The in-memory store, "suitable for testing and development", ignores its
context and would still take the append; a job that times out over that store is not
modelled. `Stop` waits for the running jobs, and a process that ends before they do is a `WorkerCrash`.
`GetRun` is the fold of `buildRunFromEvents`.

**PgStore.** A transaction takes the advisory lock of each run of its batch and
reads `MAX(sequence)` (`Validate`, `Conflict`), inserts (`InsertBatch`,
`DuplicateKey`, under `UNIQUE (run_id, sequence)`), and commits. A caller may use
any sequence numbers, because they come from a log it loaded at some time. Callers
in `SnapshotCallers` run under REPEATABLE READ, which the owner of a transaction
passed to `StartWorkflowTx` may choose. Deadlocks of locks, crashes and errors
are `Rollback`.

**EventLog** is refined by `PgStore`, with the table read as a sequence per run.
`Runner` starts from such a log: its actions only ever add to it. **MemoryStore** says more, which batches are accepted
and how they are stored; `PgStore` refines it too. Offered are the rows of an open
transaction, each once, in any order: the check of the in-memory store (`Valid`)
accepts the orders in which each run's rows are in the order of their numbers, and
they all leave the same logs.

**Projections.** Each projection is one fold (`Project`) of the step that the
code's `switch` makes. Where the code takes whichever entry a Go map yields first
(`findPendingAttempt`, `findRunningAttempt`), the fold keeps every possible result.
Both `StepInvocations` and `StepCounts` keep the attempts that have not ended under a
string, and `StepCounts` reads the attempt back from it. That string is modelled byte
by byte (`StepAttemptKey`, with Go's conversion of a number to a character,
`FindRunningAttempt` with its match by prefix and its single byte), from the bytes of
the names (the constant `Spelling`).

**Definition, Saga.** `RejectSteps` are the panics of `Define`; `StartSort`,
`PopQueue`, `ReduceDegree` (one step of the list in the loop over the dependents) and
`EndSort` are Kahn's algorithm; the first queue is in any order, as Go's map
iteration. A step may name a dependency twice, itself, or a name that no step has.
`CyclesFound` is what `DepsAssumption` of `Workflow` assumes. `Saga` goes on from an
accepted definition: steps complete, one fails, and `RunCompensation`, `CollectStep`
(the loop that collects the steps to undo), `StartCompensation`, `CompensateStep`,
`CompensationFails` and `EndCompensation` are `runCompensation`.
No path of `Replay` calls it yet; its caller (`CompleteStep`) is modelled as one
that hands over the completed steps in the order of completion, as the function's
comment and tests do.

Definitions whose comment begins with "Mutant:" are not part of any
specification. Each is a definition changed the way a plausible bug would change
it; `PROJECT.json` pairs it with the property that TLC finds violated when it
takes the place of the original. They show that the properties can fail.

## Runs

| Run | Instance | Shows |
|---|---|---|
| `runner_tx` | steps 1, 2 -> 3; 2 waits; 1 may fail; 2 workers, 1 caller, 1 fault; TxStore | signals resolved once, steps once and after their dependencies, completion and cancellation final, failures caused, status agrees with the log and between `GetRun` and `RunStatus`, no lost wakeup, the invariant the proofs use |
| `runner_plain` | two steps, one waits; 2 workers, 1 caller, 1 fault, a scheduled start; no TxStore | the log properties survive without transactions |
| `runner_branch` | a branch; then a step of two attempts that runs a child, maps two items and waits, beside a step that may fail; children may fail; 1 worker, a scheduled start, 1 fault; TxStore | retries, branch choice, inputs, results of a wave; children and maps recorded once and whole; counts, invocations, children and timeline agree with the log |
| `runner_live` | two steps, one waits; 2 workers, 1 caller, 1 fault; TxStore | a started run ends |
| `pgstore` | 2 runs, 2 connections (one REPEATABLE READ), batches of up to 2, sequence numbers up to 2 | gapless log, the lock keeps the check true, refinement of `EventLog` and of `MemoryStore` |
| `saga` | lists of four steps, each with one of eight dependency lists, names distinct or not; two sets of compensations | the sort accepts the acyclic lists and orders them; compensations run from the end, each once, whichever fail, and the events tell which did |
| `finding_*` | the smallest instance that shows it | see Findings |

*Bounds.* One run is enough because runs share only workers and connections. Two
workers make two replays of one run race; with one caller besides, three parties
race for one append. One fault (a crash or a cancelled context) at any point is
the case the code's comments claim to handle; `MaxFaults` bounds it. River grants
three attempts: one fault and two lost races use them up, which is what
`NoLostWakeup` and `EventuallyEnds` need. `jobs.go` intends three attempts as well,
but its `InsertOpts` returns a type of its own and so does not override River's
default of 25; more attempts only make the run's survival easier. Two sequence
numbers and batches of two in `pgstore` cover a gap, a repetition, a race for the
first and for a later number, and batches that span runs. In `runner_branch` one
worker is enough, because two replays of one run are the matter of `runner_tx`;
the signal is resolved by its timeout; two items make a map of which one fails
while the other runs, was not spawned, or is done. Four steps give `saga` cycles of
length one to four, cycles with steps that hang on them, chains and diamonds. Logs are finite because
steps are, and signals are resolved once; no state constraint is used. The
workers are symmetric in the runs without liveness.

*Deadlock.* The runner's runs set `CHECK_DEADLOCK FALSE`: a run that ended and
whose jobs are done has no next step. So does `saga`: a panic of `Define` and the
end of the compensation are ends. `pgstore` checks deadlock.

*Fairness.* Weak fairness of each worker's steps (River polls, and `Work` runs on
until it returns) and of a call once it has begun. There is none for the calls
themselves nor for faults. A timeout job is scheduled at a time that arrives, so
being taken eventually is what River guarantees. `EventuallyEnds` needs the
bounded number of faults: a job that loses all its attempts is discarded.

*Time* is left out: a timeout job may run as soon as it exists, which includes
every order that real times permit.

## Findings

Each is a run whose property, taken from a comment or a document, TLC refutes.

1. `finding_wakeup`: `pgstore.Store` is meant to be a `TxEventStore`, but its
   method takes `pgstore.Tx` and the interface wants `river.Tx`, so the runner
   falls back to separate commits. A crash after `signal.received` is stored
   leaves the run with no job, and a second `SendSignal` does nothing.
2. `finding_terminal`: `CancelWorkflow` accepts a failed run, whose terminal
   status then changes.
3. `finding_sibling`: a step that waits for a signal cancels its siblings'
   context; a sibling that notices is recorded as failed without retry, and the
   next replay fails the run.
4. `finding_branch`: completion is looked up under the branch's name and recorded
   under the case's, so a resumed run executes the case again. `StepCompletedOnce`
   is for this reason about steps that are not branches, and `BranchDecidedOnce`
   shows that at least the same case runs again.
5. `finding_children`: the index in a child's id restarts at 0 in every replay and
   does not name the step. A resumed run skips the step that ran child 0; the next
   step's `Run` takes index 0 again, finds the other step's output in the history
   and returns it, and its own child never runs. `ChildrenOnce` and `MapsWhole`
   are about ids, not about whose child it is, and hold (proved) for any number of
   calling steps.
6. `finding_names`: `findRunningAttempt` takes a key that begins with the step's name
   and a colon and reads one byte of it as the attempt. With steps named `a` and
   `a:b`, an attempt of `a:b` that runs (it waits for a signal) can be taken for one
   of `a`; the completion of `a` is then not counted, and `a` is shown as running for
   ever. Attempts from 80 on, which take more than one byte, are lost in the same way.
   `CountsAgree` is about workflows without such names and attempts: `runner_branch`
   checks one, and `CountsCorrect` proves it for all of them.

Observed while modelling, without a run of its own:

- A map whose context dies before any child failed calls `RecordMapFailed` with a
  nil error and panics (`MapPanics`); the attempt of the job is lost, the log is not
  touched.
- The per-child lookups of `Map` never find anything (see Children), so the
  "partial replay" of a map that `docs/design/02-WORKFLOW-MODEL.md` describes does
  not happen: a map that was interrupted runs again as a whole.
- A child that waits for a signal is recorded as completed; the parent goes on with
  a zero value, and a replay that finds the record fails to decode it.
- A step that waits leaves a `step.started` without an end in the log of each
  replay, so `StepCounts` and `StepInvocations` show it as running for ever.
  `CountsAgree` states what does hold.
- `Failed` of `StepCounts` counts every failed attempt, also those that were retried,
  against its comment "Failed (final, no retry)". The tests of `StepCounts` count as the
  code does, so `CountsAgree` does too: its counts of failures are the log's.
- A case step's own retry policy is ignored: the replayer takes the configuration of
  the branch, which is empty. A case therefore has one attempt in the model
  (`MaxAttemptsAssumption`), and `RetriesSpent` says of it that the one was made.
- `HasCompleted` also asks that the event has an output. An output that cannot be
  marshalled would leave none; the documents require serializable outputs, so in the
  model every completion has one.
- `buildRunFromEvents` has no case for `signal.timeout`: a run whose only signal timed
  out is shown by `GetRun` as waiting while its next steps run, until it ends, against
  the comment on `RunStatusWaiting` (`river/types.go`). `RunStatus` does know the
  timeout; `RunStatusAgrees` compares the waits of the two only before one.
- `RunStatus` keeps one waiting signal: with two, the first resolution ends the
  shown wait. The instances of the runs have one signal.
- In a workflow with branches a failed run can still complete. The fatal failure of a
  case is recorded under the case's name, `Replay` looks for fatal failures under the
  names of steps (`workflow/replay.go`, the check before the loop), and workers do not
  skip failed runs. The part of `StatusAgrees` that says a failed run does not complete
  is therefore about workflows without cases.
- The order of a definition, and with it which step's output is the final one,
  depends on Go's map order.
- A resumed run gets the latest registered definition, whatever version began it
  (`docs/design/09-VERSIONING.md` says it keeps its own).

## Proofs

The theorems hold for every workflow definition, any number of workers, callers,
items, attempts and faults, and both kinds of store, except where the table states a
hypothesis; those of `PgStoreProofs` for any runs, connections, isolation levels and
bounds; those of `SagaProofs` for any list of steps and any set of compensations.
Every safety property of a passing run is proved.

| Theorem | Module | Statement |
|---|---|---|
| `TypeCorrect` | `RunnerProofs` | `Spec => []TypeOK` |
| `ChecksCorrect` | `RunnerProofs` | `Spec => []TypeOK /\ []ChecksHold` |
| `SignalCorrect` | `RunnerProofs` | `Spec => []SignalResolvedOnce` |
| `CancelCorrect` | `RunnerProofs` | `Spec => []CancelStopsReplay` |
| `HistoryCorrect` | `HistoryProofs` | `Spec => []HistoryGood` |
| `StepOnceCorrect` | `HistoryProofs` | `Spec => []StepCompletedOnce` |
| `OrderCorrect` | `HistoryProofs` | no two branches share a case: `Spec => []StepAfterDeps` |
| `BranchOnceCorrect` | `HistoryProofs` | `Spec => []BranchDecidedOnce` |
| `CompletedCorrect` | `HistoryProofs` | `Spec => []CompletedIsFinal` |
| `FailedCorrect` | `HistoryProofs` | `Spec => []FailedHasCause` |
| `ResultsCorrect` | `HistoryProofs` | `Spec => []ResultsKept` |
| `InputsCorrect` | `HistoryProofs` | `Spec => []InputsAvailable` |
| `BodyCorrect` | `HistoryProofs` | `Spec => []BodyGood` |
| `RetriesCorrect` | `HistoryProofs` | `Spec => []RetriesSpent` |
| `WakeupCorrect` | `HistoryProofs` | `TxStore`: `Spec /\ [][NoneDiscarded]_vars => []NoLostWakeup` |
| `KidsCorrect` | `ChildrenProofs` | `Spec => []KidsHold` |
| `ChildrenCorrect` | `ChildrenProofs` | `Spec => []ChildrenOnce` |
| `MapsCorrect` | `ChildrenProofs` | `Spec => []MapsWhole` |
| `ShownCorrect` | `ProjectionsProofs` | `Spec => []ShownGood` |
| `StatusCorrect` | `ProjectionsProofs` | `CaseSteps = {}`: `Spec => []StatusAgrees` |
| `RunStatusCorrect` | `ProjectionsProofs` | `None \notin Signals`: `Spec => []RunStatusAgrees` |
| `CountsCorrect` | `ProjectionsProofs` | fewer than 80 attempts per step, no name begins with another and a colon: `Spec => []CountsAgree` |
| `ChildrenViewCorrect` | `ProjectionsProofs` | `Spec => []ChildrenShown` |
| `SortCorrect` | `SagaProofs` | `Spec => []SortGood(steps, sort)` |
| `OrderSoundCorrect` | `SagaProofs` | `Spec => []OrderIsSound` |
| `CyclesCorrect` | `SagaProofs` | `Spec => []CyclesFound` |
| `SagaCorrect` | `SagaProofs` | `Spec => []SagaGood(steps, saga)` |
| `UndoneCorrect` | `SagaProofs` | `Spec => []UndoneFromTheEnd` |
| `EachUndoneCorrect` | `SagaProofs` | `Spec => []EachUndoneOnce` |
| `StoreCorrect` | `PgStoreProofs` | `Spec => [](TypeOK /\ StoreGood)` |
| `PgTypeCorrect` | `PgStoreProofs` | `Spec => []TypeOK` |
| `GaplessCorrect` | `PgStoreProofs` | `Spec => []Gapless` |
| `ValidatedCorrect` | `PgStoreProofs` | `Spec => []ValidatedHolds` |
| `ConflictCorrect` | `PgStoreProofs` | `Spec => []LoserSeesConflict` |
| `EventLogCorrect` | `PgStoreProofs` | `Spec => ImplementsEventLog` |
| `MemoryCorrect` | `PgStoreProofs` | `Spec => ImplementsMemoryStore` |

`ReplayerProofs` proves that a step of a replay keeps its session typed and its
snapshot fixed (`ReplayStepType`, `ReplayStepOwn`), and the same of the steps of `Run`
and `Map` (`ChildStepType`, `ChildStepOwn`): whatever the children do, a session emits
replayer events only, about steps, cases and signals of the definition, a body
that runs has a name, and no call touches the history the replay resumed from or
the session of another process.

*The checks.* `SignalResolvedOnce` is not inductive, because a caller may have
checked the log long before it appends. `ChecksHold` adds what is missing:
whoever is about to append holds a history that is a prefix of the log
(`Snapshot`) and that passed the check. If the store accepts, the history has the
length of the log, so it *is* the log (`AcceptedIsLog`), and the check holds now.
From this `NextLogStep` derives the five ways in which a step can change the log
(`LogStep`): not at all; the first event; the resolution of a signal that is
waited for and unresolved; a cancellation of a run that is not cancelled; a batch
of a replay of such a run. The theorems on signals and cancellation follow from
`LogStep` alone. `ChecksHold` and `TypeOK` are inductive only together.

*One replay, then the log.* The trace of a replay is the history it resumed from
and the events it adds. `SessionGood` is the invariant of a replay alone: its trace
is a good log (`LogGood`: steps completed once, after their dependencies; branches
decided once; the end last), its wave, cache, goroutines and collected results
agree with that trace, and a goroutine that has failed for good leaves the cause.
It says nothing of other processes, so `SessionProofs` goes through the actions of
`Replayer` and `Children` once. `HistoryGood` adds that the log is good itself. By
`AcceptedIsLog` a batch is stored only if it continues the log as it is, and then
the new log is the trace of that replay: however many replays ran and raced, the
log is always the history of a single one, and what holds of traces holds of it.

*Attempts.* `BodyGood` is `Spent` of the log and, of each replay, that the events its
goroutines have gathered are a run of started and failed attempts that is as long
as the attempt counter says. The events of an attempt are gathered by the
goroutine and stored together, which is why nothing comes in between. It adds that
the end of an attempt comes right after its start, and that the attempt has a number
that the step's policy grants (`Paired`), which the views need.

*What drives a run.* `Woken` says that a run that has not ended has a workflow job, or
the timeout job of a signal that it waits for and that is not resolved, in the queue or
in a worker's hand. The second part is the reason why it needs more than the queue:
the worker inserts timeout jobs for the signals that the replay lists, so a replay
that waits must list one, and only such as its history leaves unresolved
(`WaitsListed`, an invariant of each replay). Every transaction that moves the run then
also inserts what wakes it, and a worker lets go of a job only when its replay is
stored, the run has ended or the signal of the job is resolved. Two hypotheses are needed. `TxStore`: without one
transaction for the append and the jobs the property is false, which is
`finding_wakeup`; `pgstore.Store` does not provide it today. `NoneDiscarded`: no job of
the run has used its last attempt, since River then discards it and nothing is left;
TLC checks the property for one fault and two lost races without that hypothesis.

*Children.* `KidsHold` is an argument of ownership. In the trace of a replay a child
that is spawned and has no outcome belongs to exactly one goroutine that waits for
it, and so does a map without an outcome; the shared counters keep the indexes of
the goroutines apart, and an index that a new call takes is not used, is over, or
is found in the history. A replay that ended has no goroutine left, so in what it
stores everything is over (`KidsOver`), and so it is in the log and in the history
of the next replay. Nothing is assumed of `Calls`: several steps may make calls in
one wave.

*The views.* A view is a fold of the log, and an induction over the log is out of the
prover's reach. What replaces it: the set of positions at which a fold is not as
claimed has a least element (`LeastNumber`, from the library's well-foundedness of
the natural numbers), and the step from the position before contradicts it. That the
recursive function exists at all is proved the same way (`FoldExists`). What the folds
need of the log is `ShownGood`: its first event starts the run and no other does,
nobody cancels a run that has not begun, and, in a workflow without cases, a run that
failed is not completed later, because every later replay finds the failure.
`CountsAgree` compares two folds that both keep a map of pending attempts from which
Go takes any matching entry. Under the two hypotheses the keys say what they should:
the character of an attempt is one byte (`FewAttempts`, `KeyBytes`), two keys are equal
only if name and attempt are (`KeyUnique`, from `NamesApart`), and a key that begins with
a name and a colon is one of that step, with the attempt that is read from it
(`KeyFound`). Since the end of an attempt is right behind its start, there is always
such a key, and which one is taken makes no difference to the tallies.
`ChildrenShown` rests on `KidsOver`.

*The sort.* `SortGood` says that the degree of a step is the number of entries in its
dependency list that name no step counted down so far, where the steps counted
down are the ones in the order, except that the last one counts only for the steps
of the list that the loop has passed; and that the steps of the queue and of the order
are, each once, exactly those of degree zero. So a step enters the order after its
dependencies, and what is left when the queue is empty is a set in which every step
depends on another: the largest circular set. `CyclesFound` is in this way the proof
of what `DepsAssumption` assumes of a definition.

*The compensation.* `SagaGood` says that the completed steps come after what they
depend on; that what is collected, tried and still to be undone are together the
steps with a compensation from the place of the loop on, from the end; and that each
is tried once. Of the events it says that the first one lists what is tried and
that the others, until the end, are those of the failures so far (`Told`), which is
what `EachUndoneOnce` claims of them at the end. `UndoneFromTheEnd` speaks of indirect dependencies, as the sets closed
under dependencies: the steps completed up to a place are such a set.

*The store.* `StoreGood` says of each transaction that the table with its own rows is a
log without a gap, that it holds the lock of every run it has rows of or has
validated, and that what it validated is the length of the log it sees: under the
lock nobody else can change it; under REPEATABLE READ the snapshot may be old, and
the UNIQUE constraint refuses the row. Where a log ends is found with the least
number that is missing (`LeastNumber`), in place of an induction. For the refinement of
`MemoryStore`, `Batched` adds that the rows of each open transaction are those of one
batch that goes on from the committed logs: the transaction's batches, one after
another. It stays so while others commit, because the transaction holds the locks of
its runs. The loop of the in-memory store then leaves exactly the logs of the table
after the commit (`MemoryAppends`).

*Assumptions.* Those on the constants (`DepsAssumption`: what `Define` checks; the types
of the others; `RunnerAssumption`; `SpellingAssumption`: names spelled alike are one
name; `PgStoreAssumption`; `DefinitionsAssumption`: a
definition is a list of steps), which TLC evaluates in the runs. The hypotheses of
single theorems:

- `OrderCorrect`: no two branches share a case step. A case's events carry its own
  name only, so with a shared case the log does not tell whose dependencies should
  have come first. `Define` does not check it.
- `StatusCorrect`: no branch has a case step. With one it is false (see Observed).
- `RunStatusCorrect`: the value that stands for no signal is not a signal. The code uses
  the empty string for it (`project/project.go`, `RunStatus`), and does not refuse a
  signal of that name.
- `CountsCorrect`: no name of a step or case begins with another name and a colon, and
  no step has 80 attempts or more. Otherwise it is false (finding 6). The code checks
  neither.
- `WakeupCorrect`: see above.

TLC finds no violation of the inductive invariants on the instances of `runner_tx`,
`runner_plain`, `runner_branch`, `pgstore` and `saga`, and of `Woken` on one with two
signals, with the infinite sets of numbers that they quantify over cut to small
ranges.

Only model-checked is `EventuallyEnds`: liveness under fairness is out of the prover's
reach. So are the counterexamples of the findings.

## Not modelled, and the plan

Next, in this order:

1. Versions: several definitions of one run, the one that began it and the latest
   that a resumed run gets. The registry itself is a map behind a mutex.
2. The connection pool: workers that hold one connection and need another.
3. The unlocked index of branch choices when a wave has two branches.

Left out for good: ids, timestamps, payloads, logging, queue names and
configuration defaults; delays of retry policies (no time); the check of `Define` that
the cases of a branch can be executed, which is about Go types; the DAG view of a
definition and the dashboard's listing queries, which only read; `query`, which has
interfaces only; the examples.
