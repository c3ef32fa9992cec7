------------------------------- MODULE Runner -------------------------------
(***************************************************************************)
(* The River runner (river/runner.go, river/workers.go) for one run: API   *)
(* callers start, signal and cancel the run, workers take its jobs from    *)
(* the River queue, replay it and append what the replay produced.  Runs   *)
(* share nothing but the pool of workers.                                  *)
(*                                                                         *)
(* The event store accepts a batch only if it continues the log (the       *)
(* sequence check of event/pgstore/store.go), so every caller that loaded  *)
(* an older history loses the race.  TxStore says whether the store is a   *)
(* TxEventStore: if so an append and the insertion of jobs are committed   *)
(* by one transaction, else the append commits by itself first.            *)
(*                                                                         *)
(* Time is left out: a scheduled job may be taken as soon as it exists.    *)
(***************************************************************************)
EXTENDS Children

CONSTANTS
    Workers,          \* River worker goroutines
    Clients,          \* concurrent API callers
    TxStore,          \* the store implements TxEventStore
    StartAttempts,    \* MaxAttempts of the job StartWorkflowTx inserts
    DefaultAttempts,  \* MaxAttempts of a job inserted without options
    MaxScheduled,     \* bound: scheduled-start jobs that exist at first
    MaxFaults         \* bound: crashes and context cancellations

VARIABLES
    log,      \* the run's events in the store, in sequence order
    jobs,     \* the River queue: how many jobs of each kind are available
    wk,       \* what each worker is doing
    cl,       \* what each API caller is doing
    faults    \* crashes so far

vars == <<sess, log, jobs, wk, cl, faults>>

ASSUME RunnerAssumption ==
    /\ Workers = Replayers
    /\ TxStore \in BOOLEAN
    /\ StartAttempts \in Nat \ {0}
    /\ DefaultAttempts \in Nat \ {0}
    /\ MaxScheduled \in Nat
    /\ MaxFaults \in Nat

-----------------------------------------------------------------------------
(* Jobs.  left is the number of attempts River still grants the job.       *)

Left == 0 .. StartAttempts + DefaultAttempts

Job == [kind : {"workflow", "scheduled"}, sig : {None}, left : Left]
         \cup [kind : {"timeout"}, sig : Signals, left : Left]

QueuedJob == {j \in Job : j.left > 0}

StartJob        == [kind |-> "workflow", sig |-> None, left |-> StartAttempts]

ResumeJob       == [kind |-> "workflow", sig |-> None, left |-> DefaultAttempts]

TimeoutJob(sig) == [kind |-> "timeout", sig |-> sig, left |-> DefaultAttempts]

ScheduledJob    == [kind |-> "scheduled", sig |-> None, left |-> DefaultAttempts]

NoJob           == [kind |-> "workflow", sig |-> None, left |-> 0]

Insert(js) == [j \in QueuedJob |-> IF j \in js THEN jobs[j] + 1 ELSE jobs[j]]

\* hist is the history a signalTimeoutWorker loaded.
Worker == [pc : {"idle", "load", "replay", "outcome", "append", "insert", "ack"},
           job : Job, hist : Seq(Event)]

IdleWorker == [pc |-> "idle", job |-> NoJob, hist |-> <<>>]

Client == [pc : {"idle", "append", "insert"},
           op : {"none", "start", "signal", "cancel"},
           sig : Signals \cup {None}, hist : Seq(Event)]

IdleClient == [pc |-> "idle", op |-> "none", sig |-> None, hist |-> <<>>]

Init ==
    /\ log = <<>>
    /\ \E n \in 0 .. MaxScheduled :
         jobs = [j \in QueuedJob |-> IF j = ScheduledJob THEN n ELSE 0]
    /\ sess = [w \in Workers |-> NoSession]
    /\ wk = [w \in Workers |-> IdleWorker]
    /\ cl = [c \in Clients |-> IdleClient]
    /\ faults = 0

-----------------------------------------------------------------------------
(* The store.                                                              *)

\* A batch numbered from LastSequence(h) + 1 is accepted iff it continues log.
Accepts(h) == LastSequence(log) = LastSequence(h)

StartedEvent   == Ev("workflow.started", None)
FailedEvent    == Ev("workflow.failed", None)
CancelledEvent == Ev("workflow.cancelled", None)

-----------------------------------------------------------------------------
(* API callers.  A call that returns without a write is no step.           *)

SetClient(c, v) == cl' = [cl EXCEPT ![c] = v]

\* StartWorkflow: sequence 1 is accepted by an empty log only.
StartWorkflow(c) ==
    /\ cl[c].pc = "idle"
    /\ Accepts(<<>>)
    /\ log' = Append(log, StartedEvent)
    /\ IF TxStore
       THEN jobs' = Insert({StartJob}) /\ UNCHANGED cl
       ELSE /\ SetClient(c, [IdleClient EXCEPT !.pc = "insert", !.op = "start"])
            /\ UNCHANGED jobs
    /\ UNCHANGED <<sess, wk, faults>>

\* Mutant: a signal that timed out is accepted.
SendSignalLate(c, sig) ==
    /\ cl[c].pc = "idle"
    /\ SignalWaiting(log, sig)
    /\ ~SignalReceived(log, sig)
    /\ SetClient(c, [pc |-> "append", op |-> "signal", sig |-> sig, hist |-> log])
    /\ UNCHANGED <<sess, log, jobs, wk, faults>>

\* SendSignal up to the transaction: the signal must be waited for and not
\* resolved in the loaded history.
SendSignal(c, sig) ==
    /\ cl[c].pc = "idle"
    /\ SignalWaiting(log, sig)
    /\ ~SignalResolved(log, sig)
    /\ SetClient(c, [pc |-> "append", op |-> "signal", sig |-> sig, hist |-> log])
    /\ UNCHANGED <<sess, log, jobs, wk, faults>>

\* Mutant: a completed run is cancelled.
CancelWorkflowAny(c) ==
    /\ cl[c].pc = "idle"
    /\ log # <<>>
    /\ ~IsCancelled(log)
    /\ SetClient(c, [pc |-> "append", op |-> "cancel", sig |-> None, hist |-> log])
    /\ UNCHANGED <<sess, log, jobs, wk, faults>>

\* CancelWorkflow up to the transaction.  The history knows of cancelled and
\* completed runs; a failed run passes.
CancelWorkflow(c) ==
    /\ cl[c].pc = "idle"
    /\ log # <<>>
    /\ ~IsCancelled(log)
    /\ ~IsCompleted(log)
    /\ SetClient(c, [pc |-> "append", op |-> "cancel", sig |-> None, hist |-> log])
    /\ UNCHANGED <<sess, log, jobs, wk, faults>>

\* The append of SendSignal, and with a TxStore the resume job.
AppendSignal(c) ==
    /\ cl[c].pc = "append"
    /\ cl[c].op = "signal"
    /\ Accepts(cl[c].hist)
    /\ log' = Append(log, Ev("signal.received", cl[c].sig))
    /\ IF TxStore
       THEN jobs' = Insert({ResumeJob}) /\ SetClient(c, IdleClient)
       ELSE /\ SetClient(c, [IdleClient EXCEPT !.pc = "insert", !.op = "signal"])
            /\ UNCHANGED jobs
    /\ UNCHANGED <<sess, wk, faults>>

\* The append of CancelWorkflow, which inserts no job.
AppendCancel(c) ==
    /\ cl[c].pc = "append"
    /\ cl[c].op = "cancel"
    /\ Accepts(cl[c].hist)
    /\ log' = Append(log, CancelledEvent)
    /\ SetClient(c, IdleClient)
    /\ UNCHANGED <<sess, jobs, wk, faults>>

\* Without a TxStore: the transaction that holds only the job commits.
InsertJob(c) ==
    /\ cl[c].pc = "insert"
    /\ jobs' = Insert({IF cl[c].op = "start" THEN StartJob ELSE ResumeJob})
    /\ SetClient(c, IdleClient)
    /\ UNCHANGED <<sess, log, wk, faults>>

\* The store refuses the event: the call returns the error.
ClientConflict(c) ==
    /\ cl[c].pc = "append"
    /\ ~Accepts(cl[c].hist)
    /\ SetClient(c, IdleClient)
    /\ UNCHANGED <<sess, log, jobs, wk, faults>>

\* The caller's process dies, or its commit fails, before the call returns.
ClientCrash(c) ==
    /\ cl[c].pc # "idle"
    /\ faults < MaxFaults
    /\ faults' = faults + 1
    /\ SetClient(c, IdleClient)
    /\ UNCHANGED <<sess, log, jobs, wk>>

-----------------------------------------------------------------------------
(* River: taking a job, ending an attempt.                                 *)

SetWorker(w, v) == wk' = [wk EXCEPT ![w] = v]

\* River counts an attempt when it hands the job out.
TakeJob(w) ==
    /\ wk[w].pc = "idle"
    /\ \E j \in QueuedJob :
         /\ jobs[j] > 0
         /\ jobs' = [jobs EXCEPT ![j] = @ - 1]
         /\ SetWorker(w, [IdleWorker EXCEPT !.pc = "load", !.job = [j EXCEPT !.left = @ - 1]])
    /\ UNCHANGED <<sess, log, cl, faults>>

\* The attempt of w ends with an error: the job is tried again while it has
\* attempts left, else it is discarded.
EndAttempt(w) ==
    /\ jobs' = IF wk[w].job.left > 0 THEN [jobs EXCEPT ![wk[w].job] = @ + 1] ELSE jobs
    /\ SetWorker(w, IdleWorker)
    /\ SetSession(w, NoSession)
    /\ UNCHANGED <<log, cl>>

\* Work returned nil: River completes the job.
CompleteJob(w) ==
    /\ wk[w].pc = "ack"
    /\ SetWorker(w, IdleWorker)
    /\ UNCHANGED <<sess, log, jobs, cl, faults>>

\* The worker's process dies or its connection breaks: nothing of an open
\* transaction remains, and River rescues the job.
WorkerCrash(w) ==
    /\ wk[w].pc # "idle"
    /\ faults < MaxFaults
    /\ faults' = faults + 1
    /\ EndAttempt(w)

-----------------------------------------------------------------------------
(* workflowWorker.Work.                                                    *)

\* A cancelled or completed run needs no replay.
SkipRun(w) ==
    /\ wk[w].pc = "load"
    /\ wk[w].job.kind = "workflow"
    /\ IsCancelled(log) \/ IsCompleted(log)
    /\ SetWorker(w, [wk[w] EXCEPT !.pc = "ack"])
    /\ UNCHANGED <<sess, log, jobs, cl, faults>>

\* Mutant: cancelled runs are replayed too.
LoadRunCancelled(w) ==
    /\ wk[w].pc = "load"
    /\ wk[w].job.kind = "workflow"
    /\ ~IsCompleted(log)
    /\ SetSession(w, NewReplayer(log))
    /\ SetWorker(w, [wk[w] EXCEPT !.pc = "replay"])
    /\ UNCHANGED <<log, jobs, cl, faults>>

LoadRun(w) ==
    /\ wk[w].pc = "load"
    /\ wk[w].job.kind = "workflow"
    /\ ~IsCancelled(log)
    /\ ~IsCompleted(log)
    /\ SetSession(w, NewReplayer(log))
    /\ SetWorker(w, [wk[w] EXCEPT !.pc = "replay"])
    /\ UNCHANGED <<log, jobs, cl, faults>>

Replay(w) ==
    /\ wk[w].pc = "replay"
    /\ ReplayStep(w) \/ ChildStep(w)
    /\ UNCHANGED <<log, jobs, wk, cl, faults>>

\* River cancels the job's context while it replays: the job took longer than
\* JobTimeout.
CancelReplay(w) ==
    /\ wk[w].pc = "replay"
    /\ faults < MaxFaults
    /\ faults' = faults + 1
    /\ CancelContext(w)
    /\ UNCHANGED <<log, jobs, wk, cl>>

\* With a dead context every statement fails, whatever the replay's result is:
\* the append, and for a suspended replay the insertion of the next job.  (So it
\* is with PostgreSQL; the in-memory store for tests never looks at its context.)
AbortReplay(w) ==
    /\ wk[w].pc = "replay"
    /\ sess[w].ctxDone
    /\ sess[w].result # "running"
    /\ EndAttempt(w)
    /\ UNCHANGED faults

\* A goroutine panicked: River recovers and the attempt fails, or the panic ends
\* the process and River rescues the job.
ReplayPanics(w) ==
    /\ wk[w].pc = "replay"
    /\ Panicked(sess[w])
    /\ EndAttempt(w)
    /\ UNCHANGED faults

\* Mutant: a result is stored although the context is dead.
ReplayEndedAnyContext(w) ==
    /\ wk[w].pc = "replay"
    /\ sess[w].result \in {"completed", "failed", "waiting"}

ReplayEnded(w) ==
    /\ wk[w].pc = "replay"
    /\ ~sess[w].ctxDone
    /\ sess[w].result \in {"completed", "failed", "waiting"}

\* What the result adds: workflow.failed, numbered NextSequence, or a timeout
\* job for each signal the run waits for.
ResultEvents(S) == IF S.result = "failed" THEN << FailedEvent >> ELSE <<>>

ResultJobs(S) ==
    IF S.result = "waiting" THEN {TimeoutJob(sig) : sig \in S.signals} ELSE {}

\* Mutant: the log becomes the history the worker knows and its new events.
CommitReplayOverwrites(w) ==
    /\ TxStore
    /\ ReplayEnded(w)
    /\ log' = sess[w].hist \o (sess[w].new \o ResultEvents(sess[w]))
    /\ jobs' = Insert(ResultJobs(sess[w]))
    /\ SetSession(w, NoSession)
    /\ SetWorker(w, [wk[w] EXCEPT !.pc = "ack"])
    /\ UNCHANGED <<cl, faults>>

\* Mutant: the new events are renumbered to fit the log.
CommitReplayRenumbered(w) ==
    /\ TxStore
    /\ ReplayEnded(w)
    /\ log' = log \o (sess[w].new \o ResultEvents(sess[w]))
    /\ jobs' = Insert(ResultJobs(sess[w]))
    /\ SetSession(w, NoSession)
    /\ SetWorker(w, [wk[w] EXCEPT !.pc = "ack"])
    /\ UNCHANGED <<cl, faults>>

\* TxStore: new events, workflow.failed and jobs are one transaction.  A replay
\* that ends with nothing new has failed, so there is always an append.
CommitReplay(w) ==
    /\ TxStore
    /\ ReplayEnded(w)
    /\ Accepts(sess[w].hist)
    /\ log' = log \o (sess[w].new \o ResultEvents(sess[w]))
    /\ jobs' = Insert(ResultJobs(sess[w]))
    /\ SetSession(w, NoSession)
    /\ SetWorker(w, [wk[w] EXCEPT !.pc = "ack"])
    /\ UNCHANGED <<cl, faults>>

\* Mutant: the new events are renumbered to fit the log.
AppendReplayRenumbered(w) ==
    /\ ~TxStore
    /\ ReplayEnded(w)
    /\ log' = log \o sess[w].new
    /\ SetWorker(w, [wk[w] EXCEPT !.pc = "outcome"])
    /\ UNCHANGED <<sess, jobs, cl, faults>>

\* No TxStore: AppendBatch commits the new events, if there are any.
AppendReplay(w) ==
    /\ ~TxStore
    /\ ReplayEnded(w)
    /\ sess[w].new = <<>> \/ Accepts(sess[w].hist)
    /\ log' = log \o sess[w].new
    /\ SetWorker(w, [wk[w] EXCEPT !.pc = "outcome"])
    /\ UNCHANGED <<sess, jobs, cl, faults>>

\* Mutant: workflow.failed is renumbered to fit the log.
FinishReplayRenumbered(w) ==
    /\ wk[w].pc = "outcome"
    /\ log' = log \o ResultEvents(sess[w])
    /\ jobs' = Insert(ResultJobs(sess[w]))
    /\ SetSession(w, NoSession)
    /\ SetWorker(w, [wk[w] EXCEPT !.pc = "ack"])
    /\ UNCHANGED <<cl, faults>>

\* ... then emitWorkflowFailed appends on its own, and the jobs commit last.
FinishReplay(w) ==
    /\ wk[w].pc = "outcome"
    /\ sess[w].result = "failed" => Accepts(sess[w].hist \o sess[w].new)
    /\ log' = log \o ResultEvents(sess[w])
    /\ jobs' = Insert(ResultJobs(sess[w]))
    /\ SetSession(w, NoSession)
    /\ SetWorker(w, [wk[w] EXCEPT !.pc = "ack"])
    /\ UNCHANGED <<cl, faults>>

\* The store refuses a batch: the attempt fails.
ReplayConflict(w) ==
    /\ \/ ReplayEnded(w) /\ (TxStore \/ sess[w].new # <<>>) /\ ~Accepts(sess[w].hist)
       \/ /\ wk[w].pc = "outcome"
          /\ sess[w].result = "failed"
          /\ ~Accepts(sess[w].hist \o sess[w].new)
    /\ EndAttempt(w)
    /\ UNCHANGED faults

-----------------------------------------------------------------------------
(* signalTimeoutWorker.Work.                                               *)

\* An unknown or resolved signal needs no timeout.
SkipTimeout(w) ==
    /\ wk[w].pc = "load"
    /\ wk[w].job.kind = "timeout"
    /\ ~SignalWaiting(log, wk[w].job.sig) \/ SignalResolved(log, wk[w].job.sig)
    /\ SetWorker(w, [wk[w] EXCEPT !.pc = "ack"])
    /\ UNCHANGED <<sess, log, jobs, cl, faults>>

\* Mutant: the signal may have been received.
LoadTimeoutReceived(w) ==
    /\ wk[w].pc = "load"
    /\ wk[w].job.kind = "timeout"
    /\ SignalWaiting(log, wk[w].job.sig)
    /\ ~SignalTimedOut(log, wk[w].job.sig)
    /\ SetWorker(w, [wk[w] EXCEPT !.pc = "append", !.hist = log])
    /\ UNCHANGED <<sess, log, jobs, cl, faults>>

LoadTimeout(w) ==
    /\ wk[w].pc = "load"
    /\ wk[w].job.kind = "timeout"
    /\ SignalWaiting(log, wk[w].job.sig)
    /\ ~SignalResolved(log, wk[w].job.sig)
    /\ SetWorker(w, [wk[w] EXCEPT !.pc = "append", !.hist = log])
    /\ UNCHANGED <<sess, log, jobs, cl, faults>>

\* Mutant: no job resumes the run.
AppendTimeoutNoJob(w) ==
    /\ wk[w].pc = "append"
    /\ Accepts(wk[w].hist)
    /\ log' = Append(log, Ev("signal.timeout", wk[w].job.sig))
    /\ SetWorker(w, [wk[w] EXCEPT !.pc = "ack", !.hist = <<>>])
    /\ UNCHANGED <<sess, jobs, cl, faults>>

AppendTimeout(w) ==
    /\ wk[w].pc = "append"
    /\ Accepts(wk[w].hist)
    /\ log' = Append(log, Ev("signal.timeout", wk[w].job.sig))
    /\ SetWorker(w, [wk[w] EXCEPT !.pc = IF TxStore THEN "ack" ELSE "insert", !.hist = <<>>])
    /\ jobs' = IF TxStore THEN Insert({ResumeJob}) ELSE jobs
    /\ UNCHANGED <<sess, cl, faults>>

TimeoutConflict(w) ==
    /\ wk[w].pc = "append"
    /\ ~Accepts(wk[w].hist)
    /\ EndAttempt(w)
    /\ UNCHANGED faults

-----------------------------------------------------------------------------
(* scheduledStartWorker.Work: StartWorkflowTx with the job's run id.       *)

ScheduledStart(w) ==
    /\ wk[w].pc = "load"
    /\ wk[w].job.kind = "scheduled"
    /\ Accepts(<<>>)
    /\ log' = Append(log, StartedEvent)
    /\ SetWorker(w, [wk[w] EXCEPT !.pc = IF TxStore THEN "ack" ELSE "insert"])
    /\ jobs' = IF TxStore THEN Insert({StartJob}) ELSE jobs
    /\ UNCHANGED <<sess, cl, faults>>

\* The run id is taken: every attempt of the job fails.
ScheduledConflict(w) ==
    /\ wk[w].pc = "load"
    /\ wk[w].job.kind = "scheduled"
    /\ ~Accepts(<<>>)
    /\ EndAttempt(w)
    /\ UNCHANGED faults

\* Without a TxStore: the job of a timeout or of a scheduled start commits.
WorkerInsert(w) ==
    /\ wk[w].pc = "insert"
    /\ jobs' = Insert({IF wk[w].job.kind = "scheduled" THEN StartJob ELSE ResumeJob})
    /\ SetWorker(w, [wk[w] EXCEPT !.pc = "ack"])
    /\ UNCHANGED <<sess, log, cl, faults>>

-----------------------------------------------------------------------------
(* GetRun: the status that buildRunFromEvents reads off the events.        *)

\* Mutant: a signal sets the status whatever it was.
NextStatusSignal(status, e) ==
    CASE e.type = "workflow.started"   -> "running"
      [] e.type = "workflow.completed" -> "completed"
      [] e.type = "workflow.failed"    -> "failed"
      [] e.type = "workflow.cancelled" -> "cancelled"
      [] e.type = "signal.waiting"  -> "waiting"
      [] e.type = "signal.received" -> "running"
      [] OTHER -> status

NextStatus(status, e) ==
    CASE e.type = "workflow.started"   -> "running"
      [] e.type = "workflow.completed" -> "completed"
      [] e.type = "workflow.failed"    -> "failed"
      [] e.type = "workflow.cancelled" -> "cancelled"
      [] e.type = "signal.waiting"  /\ status = "running" -> "waiting"
      [] e.type = "signal.received" /\ status = "waiting" -> "running"
      [] OTHER -> status

GetRun(h) ==
    LET status[i \in 0 .. Len(h)] ==
            IF i = 0 THEN "pending" ELSE NextStatus(status[i - 1], h[i])
    IN  status[Len(h)]

IsTerminal(status) == status \in {"completed", "failed", "cancelled"}

-----------------------------------------------------------------------------
ClientCall(c) ==
    \/ StartWorkflow(c)
    \/ CancelWorkflow(c)
    \/ \E sig \in Signals : SendSignal(c, sig)

ClientStep(c) ==
    \/ AppendSignal(c)
    \/ AppendCancel(c)
    \/ InsertJob(c)
    \/ ClientConflict(c)

WorkerStep(w) ==
    \/ TakeJob(w)
    \/ SkipRun(w)
    \/ LoadRun(w)
    \/ Replay(w)
    \/ AbortReplay(w)
    \/ ReplayPanics(w)
    \/ CommitReplay(w)
    \/ AppendReplay(w)
    \/ FinishReplay(w)
    \/ ReplayConflict(w)
    \/ SkipTimeout(w)
    \/ LoadTimeout(w)
    \/ AppendTimeout(w)
    \/ TimeoutConflict(w)
    \/ ScheduledStart(w)
    \/ ScheduledConflict(w)
    \/ WorkerInsert(w)
    \/ CompleteJob(w)

Next ==
    \/ \E c \in Clients : ClientCall(c) \/ ClientStep(c) \/ ClientCrash(c)
    \/ \E w \in Workers : WorkerStep(w) \/ CancelReplay(w) \/ WorkerCrash(w)

\* River keeps polling and a call once begun goes on; whether anyone calls the
\* API, and whether anything crashes, is open.
Fairness ==
    /\ \A w \in Workers : WF_vars(WorkerStep(w))
    /\ \A c \in Clients : WF_vars(ClientStep(c))

Spec == Init /\ [][Next]_vars /\ Fairness

-----------------------------------------------------------------------------
(* What the runner must guarantee.                                         *)

\* Every variable has its type.
TypeOK ==
    /\ log \in Seq(Event)
    /\ jobs \in [QueuedJob -> Nat]
    /\ sess \in [Workers -> Session]
    /\ wk \in [Workers -> Worker]
    /\ cl \in [Clients -> Client]
    /\ faults \in Nat

Resolution(e, sig) == e.type \in {"signal.received", "signal.timeout"} /\ e.name = sig

\* A signal is resolved at most once, by a payload or by its timeout, and only
\* after the run recorded that it waits for it: SendSignal and the timeout
\* worker check a history they loaded before they append.
SignalResolvedOnce ==
    \A i \in DOMAIN log : \A sig \in Signals :
        Resolution(log[i], sig) =>
            /\ \E k \in 1 .. i - 1 : log[k].type = "signal.waiting" /\ log[k].name = sig
            /\ \A j \in DOMAIN log : Resolution(log[j], sig) => j = i

\* h is what the log l was at some time: the store only appends.
Snapshot(h, l) ==
    /\ Len(h) <= Len(l)
    /\ \A i \in 1 .. Len(h) : h[i] = l[i]

\* What API caller x knows of the log l when it appends.
ClientChecked(x, l) == x.pc = "append" =>
    /\ Snapshot(x.hist, l)
    /\ x.op = "signal" =>
          /\ x.sig \in Signals
          /\ SignalWaiting(x.hist, x.sig)
          /\ ~SignalResolved(x.hist, x.sig)
    /\ x.op = "cancel" => ~IsCancelled(x.hist)

\* What worker x with replay S knows of the log l when it appends.
WorkerChecked(x, S, l) ==
    /\ x.pc = "append" =>
          /\ Snapshot(x.hist, l)
          /\ x.job.sig \in Signals
          /\ SignalWaiting(x.hist, x.job.sig)
          /\ ~SignalResolved(x.hist, x.job.sig)
    /\ x.pc \in {"replay", "outcome"} => ~IsCancelled(S.hist)
    /\ x.pc = "replay" => Snapshot(S.hist, l)
    /\ x.pc = "outcome" => Snapshot(S.hist \o S.new, l)

\* Whoever is about to append holds a snapshot of the log, and the snapshot
\* passed the check that the append relies on, however long ago that was.
ChecksHold ==
    /\ \A c \in Clients : ClientChecked(cl[c], log)
    /\ \A w \in Workers : WorkerChecked(wk[w], sess[w], log)

\* The names under which the completion of step s is recorded.
RecordedNames(s) == IF Cases[s] = {} THEN {s} ELSE {CaseName(s, c) : c \in Cases[s]}

StepDone(h, s) == \E n \in RecordedNames(s) : HasCompleted(h, n)

\* No step starts before the steps it depends on are completed in the log, in
\* whatever order workers and retries wrote it (findReadySteps).
StepAfterDeps ==
    \A i \in DOMAIN log : \A s \in Steps :
        (log[i].type = "step.started" /\ log[i].name \in RecordedNames(s)) =>
            \A d \in Deps[s] : StepDone(SubSeq(log, 1, i - 1), d)

\* A step that is not a branch completes once: a replay skips what the history
\* has, and of two replays that both run it only one is stored.
StepCompletedOnce ==
    \A s \in {t \in Steps : Cases[t] = {}} : \A i, j \in DOMAIN log :
        (log[i] = Ev("step.completed", s) /\ log[j] = Ev("step.completed", s)) => i = j

\* A run is completed only when each of its steps is, and then nothing is ever
\* appended: no late signal, timeout, cancellation or second replay.
CompletedIsFinal ==
    \A i \in DOMAIN log : log[i].type = "workflow.completed" =>
        /\ i = Len(log)
        /\ \A s \in Steps : StepDone(log, s)

\* After workflow.cancelled no replay adds to the run: what can still come is
\* the resolution of a signal.
CancelStopsReplay ==
    \A i \in DOMAIN log : log[i] = CancelledEvent =>
        \A j \in i + 1 .. Len(log) :
            log[j].type \in {"signal.received", "signal.timeout"}

\* A run fails only if one of its steps failed for good: neither a conflict nor
\* a crash nor the cancellation of the job's context fails a run by itself.
FailedHasCause ==
    \A i \in DOMAIN log : log[i].type = "workflow.failed" =>
        \E k \in 1 .. i - 1 : log[k].type = "step.failed" /\ log[k].data = "noRetry"

\* The log of a step that failed for good shows every attempt its policy
\* grants: no crash, conflict or resumed replay eats one (executeStepWithEvents).
RetriesSpent ==
    \A i \in DOMAIN log : \A s \in Steps :
        (/\ log[i].type = "step.failed"
         /\ log[i].name \in RecordedNames(s)
         /\ log[i].data = "noRetry") =>
            \A k \in 0 .. MaxAttempts[s] - 1 :
                /\ i - 2 * k > 1
                /\ log[i - 2 * k - 1]
                     = EvAttempt("step.started", log[i].name, None, MaxAttempts[s] - k)
                /\ k > 0 => log[i - 2 * k]
                     = EvAttempt("step.failed", log[i].name, "willRetry", MaxAttempts[s] - k)

\* A branch is decided once in the life of a run, however often it is replayed.
BranchDecidedOnce ==
    \A i, j \in DOMAIN log :
        (/\ log[i].type = "branch.evaluated"
         /\ log[j].type = "branch.evaluated"
         /\ log[i].name = log[j].name) => i = j

ChildEventOf(e, id) ==
    e.type \in {"child.spawned", "child.completed", "child.failed"} /\ e.child = id

\* However often a run is replayed, retried and crashes, a child is spawned once
\* and has one outcome, recorded after it was spawned (Run, MapWithOptions).
ChildrenOnce ==
    \A i \in DOMAIN log : log[i].type = "child.spawned" =>
        \E k \in i + 1 .. Len(log) :
            /\ log[k].type \in {"child.completed", "child.failed"}
            /\ {j \in DOMAIN log : ChildEventOf(log[j], log[i].child)} = {i, k}

\* A stored map has its outcome, so that a replay never finds a map half done:
\* results only if each child was spawned and completed, a failure only if the
\* child it names failed.
MapsWhole ==
    /\ \A i \in DOMAIN log : log[i].child.map # -1 =>
          \/ Settled(log, "map.completed", MapId(log[i].child.map))
          \/ GetMapError(log, log[i].child.map)
    /\ \A i \in DOMAIN log :
          /\ log[i].type = "map.completed" =>
                \A k \in Items : Settled(SubSeq(log, 1, i - 1), "child.completed",
                                         ItemId(log[i].child.map, k))
          /\ log[i].type = "map.failed" =>
                Settled(SubSeq(log, 1, i - 1), "child.failed", log[i].child)

\* While the body of a step runs it finds the output of every dependency, in
\* this replay's cache or in the history it resumed from; of a branch, the
\* output of the case on record (GetOutput, BranchOutput).
InputsAvailable ==
    \A w \in Workers : \A s \in sess[w].ready : sess[w].go[s].pc = "running" =>
        \A d \in Deps[s] :
            IF Cases[d] = {} THEN GetOutput(sess[w], d) ELSE BranchOutput(sess[w], d)

\* Whatever the result of a replay, the steps that completed during it are in
\* its new events: a sibling's failure or wait drops none (executeParallel).
ResultsKept ==
    \A w \in Workers : sess[w].result # "running" =>
        \A n \in sess[w].cache : HasCompleted(sess[w].new, n)

\* GetRun shows a run as cancelled, completed or failed exactly when the log
\* says so, whatever was appended afterwards.
StatusAgrees ==
    /\ GetRun(log) = "cancelled" <=> IsCancelled(log)
    /\ GetRun(log) = "completed" <=> IsCompleted(log)
    /\ GetRun(log) = "failed" <=> HasFailed(log) /\ ~IsCancelled(log)

Ended(h) == IsCompleted(h) \/ IsCancelled(h) \/ HasFailed(h)

\* A job that will be tried: queued, or in the hands of a worker that has not
\* yet done with it, or about to be inserted by a call that is under way.
LiveJob(kind, sig) ==
    \/ \E j \in QueuedJob : j.kind = kind /\ j.sig = sig /\ jobs[j] > 0
    \/ \E w \in Workers : /\ wk[w].pc \notin {"idle", "ack"}
                         /\ wk[w].job.kind = kind
                         /\ wk[w].job.sig = sig

Inserting ==
    \/ \E c \in Clients : cl[c].pc = "insert"
    \/ \E w \in Workers : wk[w].pc = "insert"

\* A run that has not ended is driven by something: a workflow job, or the
\* timeout job of a signal it waits for.
NoLostWakeup ==
    (log # <<>> /\ ~Ended(log)) =>
        \/ LiveJob("workflow", None)
        \/ Inserting
        \/ \E sig \in Signals : /\ SignalWaiting(log, sig)
                               /\ ~SignalResolved(log, sig)
                               /\ LiveJob("timeout", sig)

\* Once every signal that a run waited for is resolved, a job resumes the run:
\* SendSignal and the timeout worker insert it with the event they append.
ResolvedSignalResumes ==
    (/\ ~Ended(log)
     /\ \E sig \in Signals : SignalResolved(log, sig)
     /\ \A sig \in Signals : SignalWaiting(log, sig) => SignalResolved(log, sig))
        => LiveJob("workflow", None) \/ Inserting

\* A started run ends, even if no signal is ever sent.
EventuallyEnds == (log # <<>>) ~> Ended(log)

-----------------------------------------------------------------------------
(* What the repository says of the runner and the code does not keep.      *)

\* A terminal status is final (river/types.go, IsTerminal).
TerminalIsFinal ==
    [][IsTerminal(GetRun(log)) => GetRun(log') = GetRun(log)]_vars

\* Waiting for a signal is not a failure: where no body fails by itself and no
\* signal times out, no step fails (workflow/replay.go, Replay).
WaitIsNoFailure ==
    (MayFail = {} /\ \A sig \in Signals : ~SignalTimedOut(log, sig)) =>
        \A i \in DOMAIN log : log[i].type # "step.failed"

\* A replay skips what is completed: no name completes twice, the case steps of
\* branches included (workflow/replay.go, Replayer).
CompletedIsSkipped ==
    \A i, j \in DOMAIN log :
        (/\ log[i].type = "step.completed"
         /\ log[j].type = "step.completed"
         /\ log[i].name = log[j].name) => i = j

\* What Run and Map return to a body is the output of a child that the body
\* itself called: "completed children are skipped and their output is loaded
\* from events" (workflow/map.go, Run).
ChildOutputIsOwn ==
    \A w \in Workers : \A s \in sess[w].ready : \A i \in DOMAIN sess[w].go[s].got :
        sess[w].go[s].got[i] \in {sess[w].go[s].name, None}
=============================================================================
