--------------------------- MODULE HistoryProofs ----------------------------
(***************************************************************************)
(* What the log of a run says, whatever callers and workers do and however *)
(* often they crash (river/runner.go, river/workers.go): a replay that is  *)
(* stored continues the log that it started from, so that the log is       *)
(* always the history of a single replay, and what SessionProofs shows of  *)
(* one replay holds of the log.  The second half is about the attempts of  *)
(* a step (workflow/replay.go executeStepWithEvents, retry.go).            *)
(***************************************************************************)
EXTENDS SessionProofs

-----------------------------------------------------------------------------
(* The inductive invariant.                                                *)

\* In h, a workflow.failed comes after a step that failed for good.
FailsAfterCause(h) ==
    \A i \in DOMAIN h : h[i].type = "workflow.failed" =>
        \E k \in 1 .. i - 1 : h[k].type = "step.failed" /\ h[k].data = "noRetry"

\* A replay is stored only while its context lives.
StoredAlive(x, S) == x.pc = "outcome" => ~S.ctxDone

\* A caller that is about to cancel has seen the run open.
CancelsOpen(x) == x.pc = "append" /\ x.op = "cancel" => ~IsCompleted(x.hist)

\* The invariant of the log, of the replays and of who is about to write.
HistoryGood ==
    /\ LogGood(log)
    /\ FailsAfterCause(log)
    /\ \A w \in Workers : SessionGood(sess[w]) /\ StoredAlive(wk[w], sess[w])
    /\ \A c \in Clients : CancelsOpen(cl[c])

-----------------------------------------------------------------------------
(* The log.                                                                *)

\* A failure that is added to a history with a cause comes after it.
LEMMA CauseGrows ==
    ASSUME NEW h \in Seq(Event), NEW b \in Seq(Event), FailsAfterCause(h),
           (\E k \in DOMAIN b : b[k].type = "workflow.failed") => HasCause(h)
    PROVE  FailsAfterCause(h \o b)
<1> DEFINE t == h \o b
<1>0. /\ DOMAIN h = 1 .. Len(h) /\ DOMAIN b = 1 .. Len(b) /\ Len(h) \in Nat /\ Len(b) \in Nat
      /\ \A i \in DOMAIN h : t[i] = h[i]
      /\ \A i \in DOMAIN t : \/ i \in DOMAIN h /\ t[i] = h[i]
                             \/ i \notin DOMAIN h /\ \E k \in DOMAIN b : i = Len(h) + k /\ t[i] = b[k]
  BY Grown
<1> HIDE DEF t
<1>1. ASSUME NEW i \in DOMAIN t, t[i].type = "workflow.failed"
      PROVE  \E k \in 1 .. i - 1 : t[k].type = "step.failed" /\ t[k].data = "noRetry"
  <2>1. CASE i \in DOMAIN h /\ t[i] = h[i]
    <3>1. PICK k \in 1 .. i - 1 : h[k].type = "step.failed" /\ h[k].data = "noRetry"
      BY <1>1, <2>1 DEF FailsAfterCause
    <3>2. k \in DOMAIN h
      BY <1>0, <2>1
    <3> QED
      BY <1>0, <3>1, <3>2
  <2>2. CASE \E k \in DOMAIN b : i = Len(h) + k /\ t[i] = b[k]
    <3>1. PICK k \in DOMAIN h : h[k].type = "step.failed" /\ h[k].data = "noRetry"
      BY <1>1, <2>2 DEF HasCause
    <3>2. k \in 1 .. i - 1
      BY <1>0, <2>2
    <3> QED
      BY <1>0, <3>1, <3>2
  <2> QED
    BY <1>0, <2>1, <2>2
<1>2. FailsAfterCause(t)
  BY <1>1 DEF FailsAfterCause
<1> QED
  BY <1>2 DEF t

\* One event of another type, added to a history that is not completed.
LEMMA OneGrows ==
    ASSUME NEW h \in Seq(Event), NEW e \in Event, LogGood(h), FailsAfterCause(h), Open(h),
           e.type \notin Telling, e.type # "workflow.failed"
    PROVE  LogGood(Append(h, e)) /\ FailsAfterCause(Append(h, e))
<1> DEFINE b == << e >>
<1>1. b \in Seq(Event) /\ \A k \in DOMAIN b : b[k] = e
  OBVIOUS
<1>2. Append(h, e) = h \o b
  OBVIOUS
<1> HIDE DEF b
<1>3. LogGood(h \o b)
  BY <1>1, NeutralGrows
<1>4. FailsAfterCause(h \o b)
  BY <1>1, CauseGrows
<1> QED
  BY <1>2, <1>3, <1>4

\* A run that waits for a signal, and one that is not completed, is open.
LEMMA OpenLog ==
    ASSUME NEW h \in Seq(Event), LogGood(h),
           \/ ~IsCompleted(h)
           \/ \E sig \in Signals : SignalWaiting(h, sig) /\ ~SignalResolved(h, sig)
    PROVE  Open(h)
  BY DEF LogGood, EndIsLast, Open, IsCompleted, Logged

\* The history of a replay that the store accepts is the log.
LEMMA AcceptedEqual ==
    ASSUME TypeOK, NEW h \in Seq(Event), Snapshot(h, log), Accepts(h)
    PROVE  h = log
<1>1. log \in Seq(Event)
  BY DEF TypeOK
<1> QED
  BY <1>1, AcceptedIsLog, SeqEqual

\* The new events of a replay hold no workflow.failed: the worker writes it.
LEMMA NewKeepsCause ==
    ASSUME NEW S \in Session, FailsAfterCause(S.hist)
    PROVE  FailsAfterCause(Trace(S))
<1>1. S.hist \in Seq(Event) /\ S.new \in Seq(Event) /\ S.new \in Seq(ReplayerEvent)
  BY SessionTypes
<1>2. \A k \in DOMAIN S.new : S.new[k].type # "workflow.failed"
  BY <1>1 DEF ReplayerEvent, ReplayerTypes
<1> QED
  BY <1>1, <1>2, CauseGrows DEF Trace

\* The trace of a replay followed by what its result adds.
LEMMA ResultGrows ==
    ASSUME NEW S \in Session, SessionGood(S), FailsAfterCause(Trace(S)), ~S.ctxDone
    PROVE  LogGood(Trace(S) \o ResultEvents(S)) /\ FailsAfterCause(Trace(S) \o ResultEvents(S))
<1>0. Trace(S) \in Seq(Event) /\ LogGood(Trace(S))
  BY SessionTypes DEF SessionGood
<1>1. CASE S.result # "failed"
  <2>1. ResultEvents(S) = <<>>
    BY <1>1 DEF ResultEvents
  <2>2. Trace(S) \o <<>> = Trace(S)
    BY <1>0
  <2> QED
    BY <1>0, <2>1, <2>2
<1>2. CASE S.result = "failed"
  <2> DEFINE b == << FailedEvent >>
             h == Trace(S)
  <2>1. ResultEvents(S) = b
    BY <1>2 DEF ResultEvents
  <2>2. b \in Seq(Event) /\ \A k \in DOMAIN b : b[k].type = "workflow.failed"
    BY RunnerEvTypes DEF FailedEvent, Ev, EvData
  <2>3. h \in Seq(Event) /\ LogGood(h) /\ Open(h) /\ HasCause(h) /\ FailsAfterCause(h)
    BY <1>0, <1>2 DEF SessionGood, CauseKept
  <2> HIDE DEF b, h
  <2>4. \A k \in DOMAIN b : b[k].type \notin Telling
    BY <2>2 DEF Telling
  <2>5. LogGood(h \o b)
    BY <2>2, <2>3, <2>4, NeutralGrows
  <2>6. FailsAfterCause(h \o b)
    BY <2>2, <2>3, CauseGrows
  <2> QED
    BY <2>1, <2>5, <2>6 DEF h
<1> QED
  BY <1>1, <1>2
-----------------------------------------------------------------------------
(* Every step keeps the invariant of the log.                              *)

\* A run is started on an empty log.
LEMMA StartGood ==
    ASSUME TypeOK, Accepts(<<>>), log' = Append(log, StartedEvent)
    PROVE  LogGood(log') /\ FailsAfterCause(log')
<1>1. log = <<>> /\ log \in Seq(Event)
  BY DEF TypeOK, Accepts, LastSequence
<1>2. StartedEvent \in Event /\ StartedEvent.type = "workflow.started"
  BY RunnerEvTypes DEF StartedEvent, Ev, EvData
<1>3. FailsAfterCause(log)
  BY <1>1 DEF FailsAfterCause
<1>4. StartedEvent.type \notin Telling
  BY <1>2 DEF Telling
<1>5. LogGood(log) /\ Open(log)
  BY <1>1, EmptyGood
<1> QED
  BY <1>1, <1>2, <1>3, <1>4, <1>5, OneGrows

\* A signal, or its timeout, is appended to a log that waits for it.
LEMMA SignalGood ==
    ASSUME TypeOK, LogGood(log), FailsAfterCause(log),
           NEW h \in Seq(Event), Snapshot(h, log), Accepts(h),
           NEW sig \in Signals, SignalWaiting(h, sig), ~SignalResolved(h, sig),
           NEW type \in {"signal.received", "signal.timeout"},
           log' = Append(log, Ev(type, sig))
    PROVE  LogGood(log') /\ FailsAfterCause(log')
<1> DEFINE e == Ev(type, sig)
<1>1. e \in Event /\ e.type = type
  BY RunnerEvTypes DEF Ev, EvData
<1>2. h = log /\ log \in Seq(Event)
  BY AcceptedEqual DEF TypeOK
<1>3. Open(log)
  BY <1>2, OpenLog
<1>4. e.type \notin Telling /\ e.type # "workflow.failed"
  BY <1>1 DEF Telling
<1> HIDE DEF e
<1>5. LogGood(Append(log, e)) /\ FailsAfterCause(Append(log, e))
  BY <1>1, <1>2, <1>3, <1>4, OneGrows
<1> QED
  BY <1>5 DEF e

\* What an API caller appends.
LEMMA ClientLogGood ==
    ASSUME TypeOK, ChecksHold, HistoryGood, NEW c \in Clients,
           ClientCall(c) \/ ClientStep(c) \/ ClientCrash(c)
    PROVE  LogGood(log') /\ FailsAfterCause(log')
<1>0. LogGood(log) /\ FailsAfterCause(log) /\ cl[c].hist \in Seq(Event) /\ log \in Seq(Event)
  BY DEF HistoryGood, TypeOK, Client
<1>1. CASE StartWorkflow(c)
  BY <1>1, StartGood DEF StartWorkflow
<1>2. CASE AppendSignal(c)
  <2>1. /\ Snapshot(cl[c].hist, log) /\ Accepts(cl[c].hist)
        /\ cl[c].sig \in Signals
        /\ SignalWaiting(cl[c].hist, cl[c].sig)
        /\ ~SignalResolved(cl[c].hist, cl[c].sig)
        /\ log' = Append(log, Ev("signal.received", cl[c].sig))
    BY <1>2 DEF AppendSignal, ChecksHold, ClientChecked
  <2> QED
    BY <1>0, <2>1, SignalGood
<1>3. CASE AppendCancel(c)
  <2>1. /\ Snapshot(cl[c].hist, log) /\ Accepts(cl[c].hist)
        /\ ~IsCompleted(cl[c].hist)
        /\ log' = Append(log, CancelledEvent)
    BY <1>3 DEF AppendCancel, ChecksHold, ClientChecked, HistoryGood, CancelsOpen
  <2>2. cl[c].hist = log
    BY <1>0, <2>1, AcceptedEqual
  <2>3. Open(log)
    BY <1>0, <2>1, <2>2, OpenLog
  <2>4. CancelledEvent \in Event /\ CancelledEvent.type = "workflow.cancelled"
    BY RunnerEvTypes DEF CancelledEvent, Ev, EvData
  <2>5. CancelledEvent.type \notin Telling
    BY <2>4 DEF Telling
  <2> QED
    BY <1>0, <2>1, <2>3, <2>4, <2>5, OneGrows
<1>4. CASE UNCHANGED log
  BY <1>0, <1>4
<1> QED
  BY <1>1, <1>2, <1>3, <1>4 DEF ClientCall, ClientStep, ClientCrash, SendSignal,
     CancelWorkflow, InsertJob, ClientConflict

\* What a worker appends.
LEMMA WorkerLogGood ==
    ASSUME TypeOK, ChecksHold, HistoryGood, NEW w \in Workers,
           WorkerStep(w) \/ CancelReplay(w) \/ WorkerCrash(w)
    PROVE  LogGood(log') /\ FailsAfterCause(log')
<1> DEFINE S == sess[w]
           t == Trace(S)
           r == ResultEvents(S)
<1>0. /\ LogGood(log) /\ FailsAfterCause(log) /\ log \in Seq(Event)
      /\ S \in Session /\ SessionGood(S)
      /\ S.hist \in Seq(Event) /\ S.new \in Seq(Event) /\ r \in Seq(Event)
      /\ t \in Seq(Event)
  BY ReplayEventsTypes, SessionTypes DEF HistoryGood, TypeOK
<1>1. CASE CommitReplay(w)
  <2>1. /\ Snapshot(S.hist, log) /\ Accepts(S.hist) /\ ~S.ctxDone
        /\ log' = log \o (S.new \o r)
    BY <1>1 DEF CommitReplay, ReplayEnded, ChecksHold, WorkerChecked
  <2>2. S.hist = log
    BY <1>0, <2>1, AcceptedEqual
  <2>3. log' = t \o r
    <3>1. \A x, y, z \in Seq(Event) : x \o (y \o z) = (x \o y) \o z
      OBVIOUS
    <3> QED
      BY <1>0, <2>1, <2>2, <3>1, ZenonT(40) DEF Trace
  <2>4. FailsAfterCause(t)
    BY <1>0, <2>2, NewKeepsCause
  <2> QED
    BY <1>0, <2>1, <2>3, <2>4, ResultGrows
<1>2. CASE AppendReplay(w)
  <2>1. /\ Snapshot(S.hist, log) /\ (S.new = <<>> \/ Accepts(S.hist))
        /\ log' = log \o S.new
    BY <1>2 DEF AppendReplay, ReplayEnded, ChecksHold, WorkerChecked
  <2>2. CASE S.new = <<>>
    <3>1. log' = log
      BY <1>0, <2>1, <2>2
    <3> QED
      BY <1>0, <3>1
  <2>3. CASE Accepts(S.hist)
    <3>1. S.hist = log
      BY <1>0, <2>1, <2>3, AcceptedEqual
    <3>2. log' = t
      BY <2>1, <3>1 DEF Trace
    <3>3. FailsAfterCause(t)
      BY <1>0, <3>1, NewKeepsCause
    <3> QED
      BY <1>0, <3>2, <3>3 DEF SessionGood
  <2> QED
    BY <2>1, <2>2, <2>3
<1>3. CASE FinishReplay(w)
  <2>1. log' = log \o r /\ ~S.ctxDone /\ Snapshot(t, log)
    BY <1>3 DEF FinishReplay, ChecksHold, WorkerChecked, HistoryGood, StoredAlive, Trace
  <2>2. CASE S.result # "failed"
    <3>1. log' = log
      BY <1>0, <2>1, <2>2 DEF ResultEvents
    <3> QED
      BY <1>0, <3>1
  <2>3. CASE S.result = "failed"
    <3>1. Accepts(t)
      BY <1>3, <2>3 DEF FinishReplay, Trace
    <3>2. t = log
      BY <1>0, <2>1, <3>1, AcceptedEqual
    <3> QED
      BY <1>0, <2>1, <3>2, ResultGrows
  <2> QED
    BY <2>2, <2>3
<1>4. CASE AppendTimeout(w)
  <2>1. /\ Snapshot(wk[w].hist, log) /\ Accepts(wk[w].hist)
        /\ wk[w].job.sig \in Signals
        /\ SignalWaiting(wk[w].hist, wk[w].job.sig)
        /\ ~SignalResolved(wk[w].hist, wk[w].job.sig)
        /\ log' = Append(log, Ev("signal.timeout", wk[w].job.sig))
    BY <1>4 DEF AppendTimeout, ChecksHold, WorkerChecked
  <2>2. wk[w].hist \in Seq(Event)
    BY DEF TypeOK, Worker
  <2> QED
    BY <1>0, <2>1, <2>2, SignalGood
<1>5. CASE ScheduledStart(w)
  BY <1>5, StartGood DEF ScheduledStart
<1>6. CASE UNCHANGED log
  BY <1>0, <1>6
<1> QED
  BY <1>1, <1>2, <1>3, <1>4, <1>5, <1>6 DEF WorkerStep, CancelReplay, WorkerCrash, TakeJob,
     SkipRun, LoadRun, Replay, AbortReplay, ReplayPanics, ReplayConflict, SkipTimeout,
     LoadTimeout, TimeoutConflict, ScheduledConflict, WorkerInsert, CompleteJob, EndAttempt
-----------------------------------------------------------------------------
(* Every step keeps the invariant of the replays and of the callers.       *)

\* API callers have no replay.  A cancellation is prepared on an open log.
LEMMA ClientKeepsHistory ==
    ASSUME TypeOK, ChecksHold, HistoryGood, NEW c \in Clients,
           ClientCall(c) \/ ClientStep(c) \/ ClientCrash(c)
    PROVE  HistoryGood'
<1>1. UNCHANGED <<wk, sess>>
  BY DEF ClientCall, ClientStep, ClientCrash, StartWorkflow, CancelWorkflow, SendSignal,
     AppendSignal, AppendCancel, InsertJob, ClientConflict
<1>2. UNCHANGED cl \/ \E v : SetClient(c, v) /\ CancelsOpen(v)
  <2>1. /\ CancelsOpen(IdleClient)
        /\ CancelsOpen([IdleClient EXCEPT !.pc = "insert", !.op = "start"])
        /\ CancelsOpen([IdleClient EXCEPT !.pc = "insert", !.op = "signal"])
    BY DEF IdleClient, CancelsOpen
  <2>2. \A sig : CancelsOpen([pc |-> "append", op |-> "signal", sig |-> sig, hist |-> log])
    BY DEF CancelsOpen
  <2>3. CASE CancelWorkflow(c)
    BY <2>3 DEF CancelWorkflow, CancelsOpen
  <2> QED
    BY <2>1, <2>2, <2>3 DEF ClientCall, ClientStep, ClientCrash, StartWorkflow, SendSignal,
       AppendSignal, AppendCancel, InsertJob, ClientConflict
<1>3. \A d \in Clients : CancelsOpen(cl'[d])
  BY <1>2 DEF HistoryGood, SetClient, TypeOK
<1> QED
  BY <1>1, <1>3, ClientLogGood DEF HistoryGood

\* A worker's own replay.
LEMMA OwnReplayGood ==
    ASSUME TypeOK, ChecksHold, HistoryGood, NEW w \in Workers,
           WorkerStep(w) \/ CancelReplay(w) \/ WorkerCrash(w)
    PROVE  SessionGood(sess'[w]) /\ StoredAlive(wk'[w], sess'[w])
<1>0. /\ SessionGood(sess[w]) /\ StoredAlive(wk[w], sess[w]) /\ LogGood(log)
      /\ TypedSessions /\ w \in Replayers /\ log \in Seq(Event)
  BY RunnerAssumption DEF HistoryGood, TypeOK, TypedSessions
<1>1. CASE Replay(w) \/ CancelReplay(w)
  <2>1. /\ ReplayStep(w) \/ ChildStep(w) \/ CancelContext(w)
        /\ wk' = wk /\ wk[w].pc = "replay"
    BY <1>1 DEF Replay, CancelReplay
  <2> QED
    BY <1>0, <2>1, ReplayGood DEF StoredAlive
<1>2. CASE EndAttempt(w)
  <2>1. sess'[w] = NoSession /\ wk'[w] = IdleWorker
    BY <1>2, SetSessionSets, SetWorkerSets DEF EndAttempt
  <2> QED
    BY <2>1, NoSessionGood DEF StoredAlive, IdleWorker
<1>3. CASE LoadRun(w)
  <2>1. /\ ~IsCancelled(log) /\ ~IsCompleted(log)
        /\ sess'[w] = NewReplayer(log) /\ wk'[w] = [wk[w] EXCEPT !.pc = "replay"]
    BY <1>3, SetSessionSets, SetWorkerSets DEF LoadRun
  <2>2. wk'[w].pc = "replay"
    BY <2>1 DEF TypeOK, Worker
  <2> QED
    BY <1>0, <2>1, <2>2, NewReplayerGood DEF StoredAlive
<1>4. CASE CommitReplay(w) \/ FinishReplay(w)
  <2>1. sess'[w] = NoSession /\ wk'[w] = [wk[w] EXCEPT !.pc = "ack"]
    BY <1>4, SetSessionSets, SetWorkerSets DEF CommitReplay, FinishReplay
  <2>2. wk'[w].pc = "ack"
    BY <2>1 DEF TypeOK, Worker
  <2> QED
    BY <2>1, <2>2, NoSessionGood DEF StoredAlive
<1>5. CASE AppendReplay(w)
  <2>1. sess' = sess /\ ~sess[w].ctxDone
    BY <1>5 DEF AppendReplay, ReplayEnded
  <2> QED
    BY <1>0, <2>1 DEF StoredAlive
<1>6. ASSUME NEW v, SetWorker(w, v), v.pc # "outcome", sess' = sess
      PROVE  SessionGood(sess'[w]) /\ StoredAlive(wk'[w], sess'[w])
  BY <1>0, <1>6, SetWorkerSets DEF StoredAlive
<1>7. \A pc, h : /\ [wk[w] EXCEPT !.pc = pc].pc = pc
                /\ [wk[w] EXCEPT !.pc = pc, !.hist = h].pc = pc
  BY DEF TypeOK, Worker
<1>8. CASE TakeJob(w) \/ CompleteJob(w)
  <2>1. \A j : [IdleWorker EXCEPT !.pc = "load", !.job = j].pc = "load" /\ IdleWorker.pc = "idle"
    BY DEF IdleWorker
  <2> QED
    BY <1>6, <1>8, <2>1 DEF TakeJob, CompleteJob
<1>9. CASE SkipRun(w) \/ SkipTimeout(w) \/ WorkerInsert(w)
  BY <1>6, <1>7, <1>9, ZenonT(40) DEF SkipRun, SkipTimeout, WorkerInsert
<1>11. CASE LoadTimeout(w)
  <2> DEFINE v == [wk[w] EXCEPT !.pc = "append", !.hist = log]
  <2>1. SetWorker(w, v) /\ sess' = sess /\ v.pc = "append"
    BY <1>7, <1>11 DEF LoadTimeout
  <2> QED
    BY <1>6, <2>1
<1>10. CASE AppendTimeout(w) \/ ScheduledStart(w)
  BY <1>6, <1>7, <1>10, ZenonT(40) DEF AppendTimeout, ScheduledStart
<1> QED
  BY <1>1, <1>2, <1>3, <1>4, <1>5, <1>8, <1>9, <1>10, <1>11
     DEF WorkerStep, WorkerCrash, AbortReplay,
     ReplayPanics, ReplayConflict, TimeoutConflict, ScheduledConflict

\* A worker leaves the other workers and their replays alone.
LEMMA OthersReplay ==
    ASSUME TypeOK, NEW w \in Workers, WorkerStep(w) \/ CancelReplay(w) \/ WorkerCrash(w)
    PROVE  \A x \in Workers \ {w} : wk'[x] = wk[x] /\ sess'[x] = sess[x]
<1>1. CASE Replay(w)
  BY <1>1, RunnerAssumption, ReplayStepOwn, ChildStepOwn DEF Replay, TypeOK, TypedSessions
<1>2. CASE CancelReplay(w)
  BY <1>2, OthersStay DEF CancelReplay, CancelContext
<1>3. CASE ~Replay(w) /\ ~CancelReplay(w)
  <2>1. UNCHANGED wk \/ \E v : SetWorker(w, v)
    BY <1>3 DEF WorkerStep, WorkerCrash, TakeJob, SkipRun, LoadRun, AbortReplay,
       ReplayPanics, CommitReplay, AppendReplay, FinishReplay, ReplayConflict, SkipTimeout,
       LoadTimeout, AppendTimeout, TimeoutConflict, ScheduledStart, ScheduledConflict,
       WorkerInsert, CompleteJob, EndAttempt
  <2>2. UNCHANGED sess \/ \E S : SetSession(w, S)
    BY <1>3 DEF WorkerStep, WorkerCrash, TakeJob, SkipRun, LoadRun, AbortReplay,
       ReplayPanics, CommitReplay, AppendReplay, FinishReplay, ReplayConflict, SkipTimeout,
       LoadTimeout, AppendTimeout, TimeoutConflict, ScheduledStart, ScheduledConflict,
       WorkerInsert, CompleteJob, EndAttempt
  <2> QED
    BY <2>1, <2>2, OthersStay
<1> QED
  BY <1>1, <1>2, <1>3

\* A worker leaves the callers alone.
LEMMA WorkerKeepsHistory ==
    ASSUME TypeOK, ChecksHold, HistoryGood, NEW w \in Workers,
           WorkerStep(w) \/ CancelReplay(w) \/ WorkerCrash(w)
    PROVE  HistoryGood'
<1>1. UNCHANGED cl
  BY DEF WorkerStep, CancelReplay, WorkerCrash, TakeJob, SkipRun, LoadRun, Replay, AbortReplay,
     ReplayPanics, CommitReplay, AppendReplay, FinishReplay, ReplayConflict, SkipTimeout,
     LoadTimeout, AppendTimeout, TimeoutConflict, ScheduledStart, ScheduledConflict,
     WorkerInsert, CompleteJob, EndAttempt
<1>2. \A x \in Workers \ {w} : wk'[x] = wk[x] /\ sess'[x] = sess[x]
  BY OthersReplay
<1>3. \A x \in Workers : SessionGood(sess'[x]) /\ StoredAlive(wk'[x], sess'[x])
  BY <1>2, OwnReplayGood DEF HistoryGood
<1> QED
  BY <1>1, <1>3, WorkerLogGood DEF HistoryGood

\* At first the log is empty and nobody replays.
LEMMA InitHistory == Init => HistoryGood
<1> SUFFICES ASSUME Init PROVE HistoryGood
  OBVIOUS
<1>1. LogGood(log) /\ FailsAfterCause(log)
  BY EmptyGood DEF Init, FailsAfterCause
<1>2. \A w \in Workers : SessionGood(sess[w]) /\ StoredAlive(wk[w], sess[w])
  BY NoSessionGood DEF Init, StoredAlive, IdleWorker
<1>3. \A c \in Clients : CancelsOpen(cl[c])
  BY DEF Init, CancelsOpen, IdleClient
<1> QED
  BY <1>1, <1>2, <1>3 DEF HistoryGood

\* Every step of the runner keeps HistoryGood.
LEMMA NextHistory == TypeOK /\ ChecksHold /\ HistoryGood /\ [Next]_vars => HistoryGood'
<1> SUFFICES ASSUME TypeOK, ChecksHold, HistoryGood, [Next]_vars PROVE HistoryGood'
  OBVIOUS
<1>1. CASE UNCHANGED vars
  BY <1>1 DEF vars, HistoryGood
<1> QED
  BY <1>1, ClientKeepsHistory, WorkerKeepsHistory DEF Next

-----------------------------------------------------------------------------
(* The theorems.                                                           *)

\* The inductive invariant of the log, of the replays and of who is about to
\* write, for any workflow, any number of callers and workers and any number of
\* crashes: however replays race, the log is the history of one replay.
THEOREM HistoryCorrect == Spec => []HistoryGood
<1>1. Init => HistoryGood
  BY InitHistory
<1>2. TypeOK /\ ChecksHold /\ HistoryGood /\ [Next]_vars => HistoryGood'
  BY NextHistory
<1> QED
  BY <1>1, <1>2, ChecksCorrect, PTL DEF Spec

\* A run fails only because a step failed for good: neither a conflict nor a
\* crash nor a cancelled context makes a worker write workflow.failed.
THEOREM FailedCorrect == Spec => []FailedHasCause
<1>1. HistoryGood => FailedHasCause
  BY DEF HistoryGood, FailsAfterCause, FailedHasCause
<1> QED
  BY <1>1, HistoryCorrect, PTL

\* A step that is not a branch is recorded as completed once, though two replays
\* may both have run it.
THEOREM StepOnceCorrect == Spec => []StepCompletedOnce
<1>1. HistoryGood => StepCompletedOnce
  <2> SUFFICES ASSUME HistoryGood, NEW s \in Steps, Cases[s] = {},
                      NEW i \in DOMAIN log, NEW j \in DOMAIN log,
                      log[i] = Ev("step.completed", s), log[j] = Ev("step.completed", s)
               PROVE  i = j
    BY DEF StepCompletedOnce
  <2>1. /\ log[i].type = "step.completed" /\ log[i].name = s
        /\ log[j].type = "step.completed" /\ log[j].name = s
    BY DEF Ev, EvData
  <2> QED
    BY <2>1 DEF HistoryGood, LogGood, DoneOnce
<1> QED
  BY <1>1, HistoryCorrect, PTL

\* A branch is decided once in the life of a run, whatever is replayed.
THEOREM BranchOnceCorrect == Spec => []BranchDecidedOnce
<1>1. HistoryGood => BranchDecidedOnce
  BY DEF HistoryGood, LogGood, DecidedOnce, BranchDecidedOnce
<1> QED
  BY <1>1, HistoryCorrect, PTL

\* A run is completed only when all of its steps are, and nothing follows
\* workflow.completed: no signal, timeout, cancellation or second replay.
THEOREM CompletedCorrect == Spec => []CompletedIsFinal
<1>1. HistoryGood => CompletedIsFinal
  BY DEF HistoryGood, LogGood, EndIsLast, CompletedIsFinal, StepDone
<1> QED
  BY <1>1, HistoryCorrect, PTL

\* Whatever the result of a replay, what completed during it is in its new
\* events: the failure or the wait of a sibling drops nothing.
THEOREM ResultsCorrect == Spec => []ResultsKept
<1>1. HistoryGood => ResultsKept
  <2> SUFFICES ASSUME HistoryGood, NEW w \in Workers, sess[w].result # "running",
                      NEW n \in sess[w].cache
               PROVE  HasCompleted(sess[w].new, n)
    BY DEF ResultsKept
  <2>1. WaveShape(sess[w]) /\ CacheKept(sess[w])
    BY DEF HistoryGood, SessionGood
  <2>2. sess[w].left = {}
    BY <2>1 DEF WaveShape
  <2> QED
    BY <2>1, <2>2 DEF CacheKept
<1> QED
  BY <1>1, HistoryCorrect, PTL

\* A body finds the output of every step that it depends on, in the replay's
\* cache or in the history; of a branch, that of the case on record.
THEOREM InputsCorrect == Spec => []InputsAvailable
<1>1. TypeOK /\ HistoryGood => InputsAvailable
  <2> SUFFICES ASSUME TypeOK, HistoryGood, NEW w \in Workers, NEW s \in sess[w].ready,
                      NEW d \in Deps[s]
               PROVE  IF Cases[d] = {} THEN GetOutput(sess[w], d) ELSE BranchOutput(sess[w], d)
    BY DEF InputsAvailable
  <2> DEFINE S == sess[w]
             h == Trace(S)
  <2>1. S \in Session /\ h \in Seq(Event) /\ s \in Steps
    BY SessionTypes DEF TypeOK
  <2>2. StepsShape(S) /\ DecidedOnce(h)
    BY DEF HistoryGood, SessionGood, LogGood
  <2>3. d \in S.completed /\ d \in Steps
    BY <2>1, <2>2, DepsAssumption DEF StepsShape
  <2>4. PICK n \in Names : NameOf(h, d, n) /\ GetOutput(S, n) /\ (Cases[d] # {} => n # d)
    BY <2>2, <2>3 DEF StepsShape
  <2>5. CASE Cases[d] = {}
    BY <2>4, <2>5 DEF NameOf
  <2>6. CASE Cases[d] # {}
    <3>1. PICK c \in Cases[d] : n = CaseName(d, c) /\ Has(h, EvData("branch.evaluated", d, c))
      BY <2>4, <2>6 DEF NameOf
    <3>2. c # NoCase
      BY <2>4, <2>6, <3>1 DEF CaseName
    <3>3. PICK i \in DOMAIN h : h[i] = EvData("branch.evaluated", d, c)
      BY <3>1 DEF Has
    <3>4. h[i].type = "branch.evaluated" /\ h[i].name = d
      BY <3>3 DEF EvData
    <3>5. ASSUME NEW j \in i + 1 .. Len(h), h[j].type = "branch.evaluated"
          PROVE  h[j].name # d
      <4>1. j \in DOMAIN h /\ j # i
        BY <2>1
      <4> QED
        BY <2>2, <3>4, <3>5, <4>1 DEF DecidedOnce
    <3>6. Recorded(S, d, c)
      BY <3>3, <3>5 DEF Recorded, GetBranchChoice, Trace
    <3> QED
      BY <2>4, <2>6, <3>1, <3>2, <3>6 DEF BranchOutput
  <2> QED
    BY <2>5, <2>6
<1> QED
  BY <1>1, HistoryCorrect, TypeCorrect, PTL

\* No step starts before the steps that it depends on are completed in the log.
\* A case step tells whose it is only if no two branches share it.
THEOREM OrderCorrect ==
    ASSUME \A s, t \in Steps : s # t => Cases[s] \cap Cases[t] \subseteq {NoCase}
    PROVE  Spec => []StepAfterDeps
<1>1. ASSUME NEW s \in Steps, NEW t \in Steps, NEW n,
             n \in RecordedNames(s), n \in RecordedNames(t)
      PROVE  s = t
  <2>1. \A x \in Steps : n \in RecordedNames(x) => n = x \/ (n \in Cases[x] /\ n \in CaseSteps)
    BY CasesAssumption DEF RecordedNames, CaseName
  <2> QED
    BY <1>1, <2>1, NamesAreDistinct
<1>2. TypeOK /\ HistoryGood => StepAfterDeps
  <2> SUFFICES ASSUME TypeOK, HistoryGood, NEW i \in DOMAIN log, NEW s \in Steps,
                      log[i].type = "step.started", log[i].name \in RecordedNames(s),
                      NEW d \in Deps[s]
               PROVE  StepDone(SubSeq(log, 1, i - 1), d)
    BY DEF StepAfterDeps
  <2> DEFINE h == SubSeq(log, 1, i - 1)
  <2>1. PICK t \in Steps : /\ log[i].name \in RecordedNames(t)
                           /\ \A x \in Deps[t] : DoneBefore(log, i, x)
    BY DEF HistoryGood, LogGood, StartsAfterDeps
  <2>2. t = s
    BY <1>1, <2>1
  <2>3. PICK k \in DOMAIN log : /\ k < i /\ log[k].type = "step.completed"
                                /\ log[k].name \in RecordedNames(d)
    BY <2>1, <2>2 DEF DoneBefore
  <2>4. log \in Seq(Event)
    BY DEF TypeOK
  <2>5. k \in DOMAIN h /\ h[k] = log[k]
    BY <2>3, <2>4
  <2> HIDE DEF h
  <2>6. HasCompleted(h, log[k].name)
    BY <2>3, <2>5 DEF HasCompleted, Logged
  <2>7. StepDone(h, d)
    BY <2>3, <2>6 DEF StepDone
  <2> QED
    BY <2>7 DEF h
<1> QED
  BY <1>2, HistoryCorrect, TypeCorrect, PTL

-----------------------------------------------------------------------------
(* Attempts.                                                               *)

Fatal(e) == e.type = "step.failed" /\ e.data = "noRetry"

\* Before its entry i, h has each of the attempts that the policy of s grants.
AllAttempts(h, i, s) ==
    \A k \in 0 .. MaxAttempts[s] - 1 :
        /\ i - 2 * k > 1
        /\ h[i - 2 * k - 1] = EvAttempt("step.started", h[i].name, None, MaxAttempts[s] - k)
        /\ k > 0 => h[i - 2 * k]
                       = EvAttempt("step.failed", h[i].name, "willRetry", MaxAttempts[s] - k)

\* A step that failed for good made all of its attempts.
Spent(h) ==
    \A i \in DOMAIN h : Fatal(h[i]) =>
        \A s \in Steps : h[i].name \in RecordedNames(s) => AllAttempts(h, i, s)

\* An attempt has one of the numbers that the policy of some step grants; its end
\* comes right after its start, under the same name, and a failure with the same
\* number.
StepEnds == {"step.completed", "step.failed"}

StepEvents == StepEnds \cup {"step.started"}

EndsItsStart(h, i) ==
    /\ i - 1 \in DOMAIN h /\ h[i - 1].type = "step.started" /\ h[i - 1].name = h[i].name
    /\ h[i].type = "step.failed" => h[i - 1].attempt = h[i].attempt

Granted(e) == e.type = "step.started" => \E s \in Steps : e.attempt \in 1 .. MaxAttempts[s]

Paired(h) ==
    \A i \in DOMAIN h :
        /\ h[i].type \in StepEvents => h[i].name \in Names
        /\ h[i].type \in StepEnds => EndsItsStart(h, i)
        /\ Granted(h[i])

\* What the events of steps keep of the order in which they happened.
Kept(h) == Spent(h) /\ Paired(h)

\* Event number 2 * a - 1 of a goroutine is the start of attempt a, and event
\* number 2 * a says that it failed.
Started(g, a) ==
    2 * a - 1 \in DOMAIN g.evs /\ g.evs[2 * a - 1] = EvAttempt("step.started", g.name, None, a)

Retried(g, a) ==
    2 * a \in DOMAIN g.evs /\ g.evs[2 * a] = EvAttempt("step.failed", g.name, "willRetry", a)

\* The events of goroutine g of step s are those of its attempts, and the one
\* that says that the step failed for good comes with the last attempt.
Attempts(g, s) ==
    /\ g.attempt \in 1 .. MaxAttempts[s]
    /\ \A a \in 1 .. g.attempt - 1 : Started(g, a) /\ Retried(g, a)
    /\ g.pc = "enter" => g.attempt = 1 /\ g.evs = <<>>
    /\ g.pc = "attempt" => Len(g.evs) = 2 * (g.attempt - 1)
    /\ g.pc \in BodyPcs => Len(g.evs) = 2 * g.attempt - 1 /\ Started(g, g.attempt)
    /\ \A k \in DOMAIN g.evs : Fatal(g.evs[k]) =>
          k = 2 * MaxAttempts[s] /\ g.attempt = MaxAttempts[s] /\ Started(g, g.attempt)
    /\ Paired(g.evs)

AttemptsGood(S) == Kept(Trace(S)) /\ \A s \in S.ready : Attempts(S.go[s], s)

\* Steps that share a name have the same number of attempts: they are branches.
LEMMA SameAttempts ==
    ASSUME NEW s \in Steps, NEW t \in Steps, NEW n, n \in RecordedNames(s), n \in RecordedNames(t)
    PROVE  MaxAttempts[s] = MaxAttempts[t]
<1>1. \A x \in Steps : n \in RecordedNames(x) => n = x \/ (Cases[x] # {} /\ n \in CaseSteps)
  BY CasesAssumption DEF RecordedNames, CaseName
<1> QED
  BY <1>1, NamesAreDistinct, MaxAttemptsAssumption

\* Counting p entries back from position m of a sequence of length n, which is
\* position l + m when l entries come before.
LEMMA CountBack ==
    ASSUME NEW l \in Nat, NEW n \in Nat, NEW m \in 1 .. n, NEW p \in Nat, m - p > 1
    PROVE  /\ m - p - 1 \in 1 .. n /\ m - p \in 1 .. n
           /\ (l + m) - p - 1 = l + (m - p - 1)
           /\ (l + m) - p = l + (m - p)
           /\ (l + m) - p > 1
  OBVIOUS

\* Events that end no step for good keep Spent, and so do the events of a
\* goroutine that holds all attempts.
LEMMA SpentGrows ==
    ASSUME NEW h \in Seq(Event), NEW b \in Seq(Event), Spent(h), Spent(b)
    PROVE  Spent(h \o b)
<1> DEFINE t == h \o b
<1>0. /\ DOMAIN h = 1 .. Len(h) /\ DOMAIN b = 1 .. Len(b) /\ Len(h) \in Nat /\ Len(b) \in Nat
      /\ \A i \in DOMAIN h : t[i] = h[i]
      /\ \A k \in DOMAIN b : t[Len(h) + k] = b[k]
      /\ \A i \in DOMAIN t : \/ i \in DOMAIN h /\ t[i] = h[i]
                             \/ i \notin DOMAIN h /\ \E k \in DOMAIN b : i = Len(h) + k /\ t[i] = b[k]
  BY Grown
<1> HIDE DEF t
<1>1. ASSUME NEW i \in DOMAIN t, Fatal(t[i]), NEW s \in Steps, t[i].name \in RecordedNames(s),
             NEW k \in 0 .. MaxAttempts[s] - 1
      PROVE  /\ i - 2 * k > 1
             /\ t[i - 2 * k - 1] = EvAttempt("step.started", t[i].name, None, MaxAttempts[s] - k)
             /\ k > 0 => t[i - 2 * k]
                            = EvAttempt("step.failed", t[i].name, "willRetry", MaxAttempts[s] - k)
  <2>0. k \in Nat /\ MaxAttempts[s] \in Nat
    BY MaxAttemptsAssumption
  <2>1. CASE i \in DOMAIN h /\ t[i] = h[i]
    <3>1. AllAttempts(h, i, s)
      BY <1>1, <2>1 DEF Spent
    <3>2. /\ i - 2 * k > 1
          /\ h[i - 2 * k - 1] = EvAttempt("step.started", h[i].name, None, MaxAttempts[s] - k)
          /\ k > 0 => h[i - 2 * k]
                         = EvAttempt("step.failed", h[i].name, "willRetry", MaxAttempts[s] - k)
      BY <3>1 DEF AllAttempts
    <3>3. i - 2 * k - 1 \in DOMAIN h /\ i - 2 * k \in DOMAIN h
      BY <1>0, <2>0, <2>1, <3>2
    <3> QED
      BY <1>0, <2>1, <3>2, <3>3
  <2>2. CASE \E m \in DOMAIN b : i = Len(h) + m /\ t[i] = b[m]
    <3>0. PICK m \in DOMAIN b : i = Len(h) + m /\ t[i] = b[m]
      BY <2>2
    <3>1. AllAttempts(b, m, s)
      BY <1>1, <3>0 DEF Spent
    <3>2. /\ m - 2 * k > 1
          /\ b[m - 2 * k - 1] = EvAttempt("step.started", b[m].name, None, MaxAttempts[s] - k)
          /\ k > 0 => b[m - 2 * k]
                         = EvAttempt("step.failed", b[m].name, "willRetry", MaxAttempts[s] - k)
      BY <3>1 DEF AllAttempts
    <3>3. /\ m - 2 * k - 1 \in DOMAIN b /\ m - 2 * k \in DOMAIN b
          /\ i - 2 * k - 1 = Len(h) + (m - 2 * k - 1)
          /\ i - 2 * k = Len(h) + (m - 2 * k)
          /\ i - 2 * k > 1
      <4>1. /\ m \in 1 .. Len(b) /\ Len(b) \in Nat /\ Len(h) \in Nat /\ k \in Nat
            /\ i = Len(h) + m /\ m - 2 * k > 1 /\ DOMAIN b = 1 .. Len(b)
        BY <1>0, <2>0, <3>0, <3>2
      <4> DEFINE p == 2 * k
      <4>2. p \in Nat
        BY <2>0
      <4> HIDE DEF p
      <4>3. m - p > 1
        BY <4>1 DEF p
      <4>4. /\ m - p - 1 \in 1 .. Len(b) /\ m - p \in 1 .. Len(b)
            /\ (Len(h) + m) - p - 1 = Len(h) + (m - p - 1)
            /\ (Len(h) + m) - p = Len(h) + (m - p)
            /\ (Len(h) + m) - p > 1
        BY <4>1, <4>2, <4>3, CountBack
      <4> QED
        BY <4>1, <4>4 DEF p
    <3>4. t[i - 2 * k - 1] = b[m - 2 * k - 1] /\ t[i - 2 * k] = b[m - 2 * k]
      BY <1>0, <3>3
    <3> QED
      BY <3>0, <3>2, <3>3, <3>4
  <2> QED
    BY <1>0, <2>1, <2>2
<1>2. Spent(t)
  BY <1>1 DEF Spent, AllAttempts
<1> QED
  BY <1>2 DEF t

\* The events of a goroutine.
LEMMA AttemptsSpent ==
    ASSUME NEW s \in Steps, NEW g \in Goroutine, Attempts(g, s),
           \A k \in DOMAIN g.evs : g.evs[k].name = g.name,
           g.evs # <<>> => g.name \in RecordedNames(s)
    PROVE  Spent(g.evs)
<1> DEFINE N == MaxAttempts[s]
<1>0. g.evs \in Seq(Event) /\ N \in Nat /\ DOMAIN g.evs = 1 .. Len(g.evs)
  BY MaxAttemptsAssumption DEF Goroutine, ReplayerEvent
<1>1. ASSUME NEW i \in DOMAIN g.evs, Fatal(g.evs[i]), NEW t \in Steps,
             g.evs[i].name \in RecordedNames(t), NEW k \in 0 .. MaxAttempts[t] - 1
      PROVE  /\ i - 2 * k > 1
             /\ g.evs[i - 2 * k - 1]
                   = EvAttempt("step.started", g.evs[i].name, None, MaxAttempts[t] - k)
             /\ k > 0 => g.evs[i - 2 * k]
                   = EvAttempt("step.failed", g.evs[i].name, "willRetry", MaxAttempts[t] - k)
  <2>1. i = 2 * N /\ g.attempt = N /\ Started(g, N) /\ g.evs[i].name = g.name
    BY <1>1 DEF Attempts
  <2>2. MaxAttempts[t] = N
    BY <1>0, <1>1, <2>1, SameAttempts
  <2>3. \A a \in 1 .. N : Started(g, a)
    BY <1>0, <2>1 DEF Attempts
  <2>4. \A a \in 1 .. N - 1 : Retried(g, a)
    BY <2>1 DEF Attempts
  <2> HIDE DEF N
  <2>5. /\ N - k \in 1 .. N
        /\ i - 2 * k = 2 * (N - k)
        /\ i - 2 * k > 1
        /\ k > 0 => N - k \in 1 .. N - 1
    <3>1. N \in Nat /\ k \in 0 .. N - 1 /\ i = 2 * N
      BY <1>0, <2>1, <2>2
    <3> QED
      BY <3>1
  <2>6. Started(g, N - k) /\ (k > 0 => Retried(g, N - k))
    BY <2>3, <2>4, <2>5
  <2>7. 2 * (N - k) - 1 = i - 2 * k - 1
    BY <2>5
  <2> QED
    BY <2>1, <2>2, <2>5, <2>6, <2>7 DEF Started, Retried
<1> QED
  BY <1>1 DEF Spent, AllAttempts
\* Ends and starts stay together when batches are put one after the other.
LEMMA PairedGrows ==
    ASSUME NEW h \in Seq(Event), NEW b \in Seq(Event), Paired(h), Paired(b)
    PROVE  Paired(h \o b)
<1> DEFINE t == h \o b
<1>0. /\ DOMAIN h = 1 .. Len(h) /\ DOMAIN b = 1 .. Len(b) /\ Len(h) \in Nat /\ Len(b) \in Nat
      /\ \A i \in DOMAIN h : i \in DOMAIN t /\ t[i] = h[i]
      /\ \A k \in DOMAIN b : Len(h) + k \in DOMAIN t /\ t[Len(h) + k] = b[k]
      /\ \A i \in DOMAIN t : \/ i \in DOMAIN h /\ t[i] = h[i]
                             \/ i \notin DOMAIN h /\ \E k \in DOMAIN b : i = Len(h) + k /\ t[i] = b[k]
  BY Grown
<1> HIDE DEF t
<1>1. ASSUME NEW i \in DOMAIN t
      PROVE  /\ t[i].type \in StepEvents => t[i].name \in Names
             /\ t[i].type \in StepEnds => EndsItsStart(t, i)
             /\ Granted(t[i])
  <2>1. CASE i \in DOMAIN h /\ t[i] = h[i]
    <3>1. t[i].type \in StepEnds => EndsItsStart(h, i)
      BY <2>1 DEF Paired
    <3> QED
      BY <1>0, <2>1, <3>1 DEF Paired, EndsItsStart
  <2>2. CASE \E k \in DOMAIN b : i = Len(h) + k /\ t[i] = b[k]
    <3>0. PICK k \in DOMAIN b : i = Len(h) + k /\ t[i] = b[k]
      BY <2>2
    <3>1. t[i].type \in StepEnds => EndsItsStart(b, k)
      BY <3>0 DEF Paired
    <3>2. i - 1 = Len(h) + (k - 1)
      BY <1>0, <3>0
    <3>3. k - 1 \in DOMAIN b => i - 1 \in DOMAIN t /\ t[i - 1] = b[k - 1]
      BY <1>0, <3>2
    <3> QED
      BY <3>0, <3>1, <3>3 DEF Paired, EndsItsStart
  <2> QED
    BY <1>0, <2>1, <2>2
<1>2. Paired(t)
  BY <1>1 DEF Paired
<1> QED
  BY <1>2 DEF t

LEMMA KeptGrows ==
    ASSUME NEW h \in Seq(Event), NEW b \in Seq(Event), Kept(h), Kept(b)
    PROVE  Kept(h \o b)
  BY SpentGrows, PairedGrows DEF Kept

\* Events about anything else.
LEMMA OthersKept ==
    ASSUME NEW b, \A k \in DOMAIN b : b[k].type \notin StepEvents
    PROVE  Kept(b)
  BY DEF Kept, Spent, Fatal, Paired, Granted, StepEvents, StepEnds

\* One more event of a goroutine.
LEMMA PairedAppend ==
    ASSUME NEW q \in Seq(ReplayerEvent), NEW e, Paired(q), e.name \in Names, Granted(e),
           e.type \in StepEnds =>
              /\ Len(q) > 0 /\ q[Len(q)].type = "step.started" /\ q[Len(q)].name = e.name
              /\ e.type = "step.failed" => q[Len(q)].attempt = e.attempt
    PROVE  Paired(Append(q, e))
<1> DEFINE t == Append(q, e)
<1>0. /\ Len(q) \in Nat /\ DOMAIN q = 1 .. Len(q) /\ DOMAIN t = 1 .. Len(q) + 1
      /\ \A k \in DOMAIN q : t[k] = q[k]
      /\ t[Len(q) + 1] = e
  OBVIOUS
<1> HIDE DEF t
<1>1. ASSUME NEW i \in DOMAIN t
      PROVE  /\ t[i].type \in StepEvents => t[i].name \in Names
             /\ t[i].type \in StepEnds => EndsItsStart(t, i)
             /\ Granted(t[i])
  <2>1. CASE i \in DOMAIN q
    <3>1. i - 1 \in DOMAIN q => i - 1 \in DOMAIN t /\ t[i - 1] = q[i - 1]
      BY <1>0
    <3> QED
      BY <1>0, <2>1, <3>1 DEF Paired, EndsItsStart
  <2>2. CASE i = Len(q) + 1
    <3>1. t[i] = e /\ i - 1 = Len(q)
      BY <1>0, <2>2
    <3>2. Len(q) > 0 => i - 1 \in DOMAIN t /\ t[i - 1] = q[Len(q)]
      BY <1>0, <3>1
    <3> QED
      BY <3>1, <3>2 DEF EndsItsStart
  <2> QED
    BY <1>0, <2>1, <2>2
<1>2. Paired(t)
  BY <1>1 DEF Paired
<1> QED
  BY <1>2 DEF t

-----------------------------------------------------------------------------
(* Every step of a replay keeps AttemptsGood.                              *)

\* T adds to the events of S, none of them a second start of the run.
Adds(S, T) ==
    /\ T.hist = S.hist
    /\ \E b \in Seq(Event) : /\ T.new = S.new \o b
                             /\ \A k \in DOMAIN b : b[k].type # "workflow.started"

\* ... and none of them about the attempts of a step.
Loud == StepEvents \cup {"workflow.started"}

Quiet(S, T) ==
    /\ T.hist = S.hist
    /\ \E b \in Seq(Event) : /\ T.new = S.new \o b
                             /\ \A k \in DOMAIN b : b[k].type \notin Loud

\* What such events leave of the trace.
LEMMA QuietKept ==
    ASSUME NEW S \in Session, NEW T \in Session, Quiet(S, T), Kept(Trace(S))
    PROVE  Kept(Trace(T))
<1> PICK b \in Seq(Event) : T.new = S.new \o b /\ \A k \in DOMAIN b : b[k].type \notin Loud
  BY DEF Quiet
<1>1. Trace(T) = Trace(S) \o b /\ Trace(S) \in Seq(Event)
  BY TraceGrows, SessionTypes DEF Quiet
<1>2. Kept(b)
  BY OthersKept DEF Loud
<1> QED
  BY <1>1, <1>2, KeptGrows

\* No event, and one event of another type, is Quiet.
LEMMA QuietEvents ==
    ASSUME NEW S \in Session, NEW T \in Session, T.hist = S.hist,
           \/ T.new = S.new
           \/ \E e \in ReplayerEvent : T.new = Append(S.new, e) /\ e.type \notin Loud
    PROVE  Quiet(S, T)
<1>0. S.new \in Seq(ReplayerEvent)
  BY SessionTypes
<1>1. CASE T.new = S.new
  <2> DEFINE b == <<>>
  <2>1. T.new = S.new \o b /\ b \in Seq(Event) /\ DOMAIN b = {}
    BY <1>0, <1>1
  <2> HIDE DEF b
  <2> QED
    BY <2>1 DEF Quiet
<1>2. CASE \E e \in ReplayerEvent : T.new = Append(S.new, e) /\ e.type \notin Loud
  <2> PICK e \in ReplayerEvent : T.new = Append(S.new, e) /\ e.type \notin Loud
    BY <1>2
  <2> DEFINE b == << e >>
  <2>1. T.new = S.new \o b /\ b \in Seq(Event) /\ \A k \in DOMAIN b : b[k] = e
    BY <1>0, OneEvent
  <2> HIDE DEF b
  <2> QED
    BY <2>1 DEF Quiet
<1> QED
  BY <1>1, <1>2

\* A goroutine that adds no event, and does not go back to its start.
LEMMA AttemptsStay ==
    ASSUME NEW s \in Steps, NEW g, NEW x, Attempts(g, s),
           x.evs = g.evs, x.attempt = g.attempt, x.name = g.name,
           x.pc \notin {"enter", "attempt"}, x.pc \in BodyPcs => g.pc \in BodyPcs
    PROVE  Attempts(x, s)
  BY DEF Attempts, Started, Retried

\* A goroutine that has its name, and no event yet.
LEMMA AttemptsEnter ==
    ASSUME NEW s \in Steps, NEW g, NEW x, Attempts(g, s), g.pc = "enter",
           x.evs = g.evs, x.attempt = g.attempt, x.pc = "attempt"
    PROVE  Attempts(x, s)
<1>1. g.attempt = 1 /\ g.evs = <<>> /\ 1 \in 1 .. MaxAttempts[s]
  BY DEF Attempts
<1>2. 1 .. 1 - 1 = {} /\ Len(<<>>) = 2 * (1 - 1) /\ DOMAIN <<>> = {}
  OBVIOUS
<1> QED
  BY <1>1, <1>2 DEF Attempts, BodyPcs

\* The events of a goroutine that adds one.
LEMMA OneMoreAttempt ==
    ASSUME NEW q \in Seq(ReplayerEvent), NEW e
    PROVE  /\ Len(Append(q, e)) = Len(q) + 1 /\ Len(q) \in Nat /\ DOMAIN q = 1 .. Len(q)
           /\ DOMAIN Append(q, e) = 1 .. Len(q) + 1
           /\ \A k \in DOMAIN q : Append(q, e)[k] = q[k]
           /\ Append(q, e)[Len(q) + 1] = e
  OBVIOUS

\* ... keeps the attempts that are behind it.
LEMMA AttemptsBehind ==
    ASSUME NEW g \in Goroutine, NEW x, NEW e, x.evs = Append(g.evs, e), x.name = g.name
    PROVE  \A a : (Started(g, a) => Started(x, a)) /\ (Retried(g, a) => Retried(x, a))
<1>1. g.evs \in Seq(ReplayerEvent)
  BY DEF Goroutine
<1>2. /\ \A k \in DOMAIN g.evs : k \in DOMAIN x.evs /\ x.evs[k] = g.evs[k]
  BY <1>1, OneMoreAttempt
<1> QED
  BY <1>2 DEF Started, Retried

\* An attempt starts.
LEMMA AttemptsStart ==
    ASSUME NEW s \in Steps, NEW g \in Goroutine, NEW x, Attempts(g, s), g.pc = "attempt",
           x.evs = Append(g.evs, EvAttempt("step.started", g.name, None, g.attempt)),
           x.attempt = g.attempt, x.name = g.name, x.pc = "running"
    PROVE  Attempts(x, s)
<1> DEFINE e == EvAttempt("step.started", g.name, None, g.attempt)
           a == g.attempt
<1>0. g.evs \in Seq(ReplayerEvent) /\ x.evs = Append(g.evs, e) /\ ~Fatal(e)
  BY DEF Goroutine, Fatal, EvAttempt, EvData
<1>1. /\ a \in 1 .. MaxAttempts[s] /\ a \in Nat /\ Len(g.evs) = 2 * (a - 1)
      /\ \A c \in 1 .. a - 1 : Started(g, c) /\ Retried(g, c)
      /\ \A k \in DOMAIN g.evs : Fatal(g.evs[k]) => k = 2 * MaxAttempts[s] /\ a = MaxAttempts[s]
  BY MaxAttemptsAssumption DEF Attempts
<1>2. /\ Len(x.evs) = Len(g.evs) + 1 /\ DOMAIN g.evs = 1 .. Len(g.evs)
      /\ DOMAIN x.evs = 1 .. Len(g.evs) + 1
      /\ \A k \in DOMAIN g.evs : x.evs[k] = g.evs[k]
      /\ x.evs[Len(g.evs) + 1] = e
  <2> HIDE DEF e
  <2> QED
    BY <1>0, OneMoreAttempt
<1>3. /\ Len(g.evs) + 1 = 2 * a - 1
      /\ 2 * a - 1 \in DOMAIN x.evs
      /\ 2 * a \notin DOMAIN g.evs
  BY <1>1, <1>2
<1>4. Started(x, a)
  BY <1>2, <1>3 DEF Started
<1>5. \A k \in DOMAIN x.evs : ~Fatal(x.evs[k])
  <2>1. \A k \in DOMAIN g.evs : ~Fatal(g.evs[k])
    BY <1>1, <1>3
  <2>2. \A k \in DOMAIN x.evs : k \in DOMAIN g.evs \/ k = Len(g.evs) + 1
    BY <1>1, <1>2
  <2> QED
    BY <1>0, <1>2, <2>1, <2>2
<1>6. \A c \in 1 .. a - 1 : Started(x, c) /\ Retried(x, c)
  BY <1>0, <1>1, AttemptsBehind
<1>7. Paired(x.evs)
  <2>1. Paired(g.evs) /\ e.name \in Names /\ e.type \notin StepEnds /\ e.attempt = a
    BY DEF Attempts, Goroutine, BodyPcs, StepEnds, EvAttempt, EvData
  <2> HIDE DEF e
  <2>2. Granted(e)
    BY <1>1, <2>1 DEF Granted
  <2> QED
    BY <1>0, <2>1, <2>2, PairedAppend
<1> QED
  BY <1>1, <1>2, <1>3, <1>4, <1>5, <1>6, <1>7 DEF Attempts, BodyPcs

\* An attempt ends: the step is completed, is tried again, or failed for good.
LEMMA AttemptsEnd ==
    ASSUME NEW s \in Steps, NEW g \in Goroutine, NEW x, NEW e, Attempts(g, s), g.pc \in BodyPcs,
           x.evs = Append(g.evs, e), x.name = g.name, e.name = g.name,
           e.type # "step.started", e.type = "step.failed" => e.attempt = g.attempt,
           \/ x.pc = "ok" /\ x.attempt = g.attempt /\ ~Fatal(e)
           \/ /\ g.attempt < MaxAttempts[s]
              /\ x.pc = "attempt" /\ x.attempt = g.attempt + 1
              /\ e = EvAttempt("step.failed", g.name, "willRetry", g.attempt)
           \/ /\ ~(g.attempt < MaxAttempts[s])
              /\ x.pc = "error" /\ x.attempt = g.attempt
    PROVE  Attempts(x, s)
<1> DEFINE a == g.attempt
           N == MaxAttempts[s]
<1>0. g.evs \in Seq(ReplayerEvent) /\ N \in Nat
  BY MaxAttemptsAssumption DEF Goroutine
<1>1. /\ a \in 1 .. N /\ a \in Nat /\ Len(g.evs) = 2 * a - 1 /\ Started(g, a)
      /\ \A c \in 1 .. a - 1 : Started(g, c) /\ Retried(g, c)
      /\ \A k \in DOMAIN g.evs : Fatal(g.evs[k]) => k = 2 * N /\ a = N
  BY <1>0 DEF Attempts
<1>2. /\ Len(x.evs) = Len(g.evs) + 1 /\ DOMAIN g.evs = 1 .. Len(g.evs)
      /\ DOMAIN x.evs = 1 .. Len(g.evs) + 1
      /\ \A k \in DOMAIN g.evs : x.evs[k] = g.evs[k]
      /\ x.evs[Len(g.evs) + 1] = e
  BY <1>0, OneMoreAttempt
<1>3. Len(x.evs) = 2 * a /\ 2 * a \in DOMAIN x.evs /\ 2 * a \notin DOMAIN g.evs /\ x.evs[2 * a] = e
  BY <1>1, <1>2
<1>4. \A k \in DOMAIN x.evs : Fatal(x.evs[k]) => k = 2 * a /\ Fatal(e)
  <2>1. \A k \in DOMAIN g.evs : ~Fatal(g.evs[k])
    BY <1>1, <1>3
  <2>2. \A k \in DOMAIN x.evs : k \in DOMAIN g.evs \/ k = 2 * a
    BY <1>1, <1>2
  <2> QED
    BY <1>2, <1>3, <2>1, <2>2
<1>5. Started(x, a) /\ \A c \in 1 .. a - 1 : Started(x, c) /\ Retried(x, c)
  BY <1>1, AttemptsBehind
<1>9. Paired(x.evs)
  <2>1. Paired(g.evs) /\ e.name \in Names /\ Granted(e)
    BY DEF Attempts, Goroutine, Granted
  <2>2. /\ Len(g.evs) > 0 /\ g.evs[Len(g.evs)].type = "step.started"
        /\ g.evs[Len(g.evs)].name = e.name /\ g.evs[Len(g.evs)].attempt = a
    BY <1>1 DEF Started, EvAttempt, EvData
  <2> QED
    BY <1>0, <2>1, <2>2, PairedAppend
<1>6. CASE x.pc = "ok" /\ x.attempt = a /\ ~Fatal(e)
  BY <1>1, <1>4, <1>5, <1>6, <1>9 DEF Attempts, BodyPcs
<1>7. CASE /\ a < N /\ x.pc = "attempt" /\ x.attempt = a + 1
           /\ e = EvAttempt("step.failed", g.name, "willRetry", a)
  <2>1. Retried(x, a) /\ ~Fatal(e)
    BY <1>3, <1>7 DEF Retried, Fatal, EvAttempt, EvData
  <2>2. a + 1 \in 1 .. N /\ a + 1 - 1 = a /\ \A c \in 1 .. a : c \in 1 .. a - 1 \/ c = a
    <3>1. a \in 1 .. N /\ N \in Nat /\ a < N
      BY <1>0, <1>1, <1>7
    <3> HIDE DEF a, N
    <3> QED
      BY <3>1
  <2>3. x.attempt \in 1 .. MaxAttempts[s] /\ x.attempt - 1 = a /\ Len(x.evs) = 2 * (x.attempt - 1)
    <3>1. x.attempt = a + 1
      BY <1>7
    <3>2. x.attempt \in 1 .. MaxAttempts[s] /\ x.attempt - 1 = a
      <4>1. N \in Nat /\ a \in Nat /\ a + 1 <= N
        BY <1>0, <1>1, <1>7
      <4> HIDE DEF a, N
      <4>2. \A y : y = a + 1 => y \in 1 .. N /\ y - 1 = a
        BY <4>1
      <4> QED
        BY <3>1, <4>2 DEF N
    <3> QED
      BY <1>3, <3>2
  <2>4. \A c \in 1 .. x.attempt - 1 : Started(x, c) /\ Retried(x, c)
    BY <1>5, <2>1, <2>2, <2>3
  <2>5. \A k \in DOMAIN x.evs : ~Fatal(x.evs[k])
    BY <1>4, <2>1
  <2>6. x.pc = "attempt"
    BY <1>7
  <2> HIDE DEF a, N
  <2> QED
    BY <1>9, <2>3, <2>4, <2>5, <2>6 DEF Attempts, BodyPcs
<1>8. CASE ~(a < N) /\ x.pc = "error" /\ x.attempt = a
  <2>1. a = N
    BY <1>0, <1>1, <1>8
  <2> QED
    BY <1>1, <1>4, <1>5, <1>8, <1>9, <2>1 DEF Attempts, BodyPcs
<1> QED
  BY <1>6, <1>7, <1>8

\* Goroutine s moves, the others stay.
LEMMA MoveAttempts ==
    ASSUME NEW S \in Session, NEW T \in Session, AttemptsGood(S), Quiet(S, T), NEW s \in Steps,
           T.ready = S.ready, \A t \in Steps \ {s} : T.go[t] = S.go[t],
           s \in S.ready => Attempts(T.go[s], s)
    PROVE  AttemptsGood(T) /\ Adds(S, T)
<1>1. Kept(Trace(T)) /\ Adds(S, T)
  BY QuietKept DEF AttemptsGood, Quiet, Adds, Loud
<1>2. S.ready \subseteq Steps
  BY SessionTypes
<1> QED
  BY <1>1, <1>2 DEF AttemptsGood

\* The steps of executeStepWithEvents that add no event of their own.
LEMMA SilentAttempts ==
    ASSUME TypedSessions, NEW w \in Replayers, NEW s \in Steps, AttemptsGood(sess[w]),
           GoContextError(w, s) \/ EnterStep(w, s)
    PROVE  AttemptsGood(sess'[w]) /\ Adds(sess[w], sess'[w])
<1> DEFINE S == sess[w]
           T == sess'[w]
           g == S.go[s]
<1>0. S \in Session /\ T \in Session
  BY GoStepType DEF GoStep, TypedSessions
<1>1. g \in Goroutine /\ (s \in S.ready => Attempts(g, s))
  BY <1>0, SessionTypes DEF AttemptsGood
<1>2. CASE GoContextError(w, s)
  <2>1. T = [S EXCEPT !.go[s] = [g EXCEPT !.pc = "error"]]
    BY <1>2 DEF GoContextError, SetGo, SetSession, TypedSessions
  <2>2. g.pc \in {"enter", "attempt"}
    BY <1>2 DEF GoContextError
  <2> HIDE DEF S, T
  <2>3. /\ T.hist = S.hist /\ T.new = S.new /\ T.ready = S.ready
        /\ T.go[s] = [g EXCEPT !.pc = "error"] /\ \A t \in Steps \ {s} : T.go[t] = S.go[t]
    BY <1>0, <2>1, SetGoFields
  <2>4. /\ T.go[s].pc = "error" /\ T.go[s].evs = g.evs /\ T.go[s].name = g.name
        /\ T.go[s].attempt = g.attempt
    BY <1>1, <2>3 DEF Goroutine
  <2>5. s \in S.ready => Attempts(T.go[s], s)
    BY <1>1, <2>4, AttemptsStay DEF BodyPcs
  <2>6. Quiet(S, T) /\ AttemptsGood(S)
    BY <1>0, <2>3, QuietEvents DEF S
  <2>7. AttemptsGood(T) /\ Adds(S, T)
    BY <1>0, <2>3, <2>5, <2>6, MoveAttempts
  <2> QED
    BY <2>7 DEF S, T
<1>3. CASE EnterStep(w, s)
  <2>1. T = [S EXCEPT !.go[s] = [g EXCEPT !.pc = "attempt", !.name = s]]
    BY <1>3 DEF EnterStep, SetGo, SetSession, TypedSessions
  <2>2. g.pc = "enter"
    BY <1>3 DEF EnterStep
  <2> HIDE DEF S, T
  <2>3. /\ T.hist = S.hist /\ T.new = S.new /\ T.ready = S.ready
        /\ T.go[s] = [g EXCEPT !.pc = "attempt", !.name = s]
        /\ \A t \in Steps \ {s} : T.go[t] = S.go[t]
    BY <1>0, <2>1, SetGoFields
  <2>4. T.go[s].pc = "attempt" /\ T.go[s].evs = g.evs /\ T.go[s].attempt = g.attempt
    BY <1>1, <2>3 DEF Goroutine
  <2>5. s \in S.ready => Attempts(T.go[s], s)
    BY <1>1, <2>2, <2>4, AttemptsEnter
  <2>6. Quiet(S, T) /\ AttemptsGood(S)
    BY <1>0, <2>3, QuietEvents DEF S
  <2>7. AttemptsGood(T) /\ Adds(S, T)
    BY <1>0, <2>3, <2>5, <2>6, MoveAttempts
  <2> QED
    BY <2>7 DEF S, T
<1> QED
  BY <1>2, <1>3

\* The goroutine's own events: an attempt starts.
LEMMA StartsAttempts ==
    ASSUME TypedSessions, NEW w \in Replayers, NEW s \in Steps, AttemptsGood(sess[w]),
           StartAttempt(w, s)
    PROVE  AttemptsGood(sess'[w]) /\ Adds(sess[w], sess'[w])
<1> DEFINE S == sess[w]
           T == sess'[w]
           g == S.go[s]
           e == EvAttempt("step.started", g.name, None, g.attempt)
<1>0. S \in Session /\ T \in Session
  BY GoStepType DEF GoStep, TypedSessions
<1>1. g \in Goroutine /\ (s \in S.ready => Attempts(g, s)) /\ g.pc = "attempt"
  BY <1>0, SessionTypes DEF AttemptsGood, StartAttempt
<1>2. T = [S EXCEPT !.go[s] = [g EXCEPT !.pc = "running", !.got = <<>>, !.evs = Append(@, e)]]
  BY DEF StartAttempt, SetGo, SetSession, TypedSessions
<1> HIDE DEF S, T, e
<1>3. /\ T.hist = S.hist /\ T.new = S.new /\ T.ready = S.ready
      /\ T.go[s] = [g EXCEPT !.pc = "running", !.got = <<>>, !.evs = Append(@, e)]
      /\ \A t \in Steps \ {s} : T.go[t] = S.go[t]
  BY <1>0, <1>2, SetGoFields
<1>4. /\ T.go[s].pc = "running" /\ T.go[s].evs = Append(g.evs, e)
      /\ T.go[s].name = g.name /\ T.go[s].attempt = g.attempt
  BY <1>1, <1>3 DEF Goroutine
<1>5. s \in S.ready => Attempts(T.go[s], s)
  BY <1>1, <1>4, AttemptsStart DEF e
<1>6. Quiet(S, T) /\ AttemptsGood(S)
  BY <1>0, <1>3, QuietEvents DEF S
<1>7. AttemptsGood(T) /\ Adds(S, T)
  BY <1>0, <1>3, <1>5, <1>6, MoveAttempts
<1> QED
  BY <1>7 DEF S, T

\* A branch records its choice, or finds it on record.
LEMMA BranchAttempts ==
    ASSUME TypedSessions, NEW w \in Replayers, NEW s \in Steps, AttemptsGood(sess[w]),
           EnterBranch(w, s)
    PROVE  AttemptsGood(sess'[w]) /\ Adds(sess[w], sess'[w])
<1> DEFINE S == sess[w]
           T == sess'[w]
           g == S.go[s]
<1>0. S \in Session /\ T \in Session
  BY GoStepType DEF GoStep, TypedSessions
<1>1. g \in Goroutine /\ (s \in S.ready => Attempts(g, s)) /\ g.pc = "enter"
  BY <1>0, SessionTypes DEF AttemptsGood, EnterBranch
<1>2. PICK c \in Cases[s] :
        \/ T = [S EXCEPT !.go[s] = [g EXCEPT !.pc = "attempt", !.name = CaseName(s, c)]]
        \/ T = [S EXCEPT !.new = Append(@, EvData("branch.evaluated", s, c)),
                         !.go[s] = [g EXCEPT !.pc = "attempt", !.name = CaseName(s, c)]]
  BY DEF EnterBranch, SetGo, SetSession, TypedSessions
<1> DEFINE n == CaseName(s, c)
           e == EvData("branch.evaluated", s, c)
<1>3. e \in ReplayerEvent /\ e.type = "branch.evaluated"
  BY EvTypes, CasesAssumption DEF EvData
<1> HIDE DEF S, T, e, n
<1>4. /\ T.hist = S.hist /\ T.new \in {S.new, Append(S.new, e)} /\ T.ready = S.ready
      /\ T.go[s] = [g EXCEPT !.pc = "attempt", !.name = n]
      /\ \A t \in Steps \ {s} : T.go[t] = S.go[t]
  <2>1. CASE T = [S EXCEPT !.go[s] = [g EXCEPT !.pc = "attempt", !.name = n]]
    BY <1>0, <2>1, SetGoFields, SMTT(30)
  <2>2. CASE T = [S EXCEPT !.new = Append(@, e), !.go[s] = [g EXCEPT !.pc = "attempt", !.name = n]]
    BY <1>0, <2>2 DEF Session
  <2> QED
    BY <1>2, <2>1, <2>2 DEF e, n
<1>5. T.go[s].pc = "attempt" /\ T.go[s].evs = g.evs /\ T.go[s].attempt = g.attempt
  BY <1>1, <1>4 DEF Goroutine
<1>6. s \in S.ready => Attempts(T.go[s], s)
  BY <1>1, <1>5, AttemptsEnter
<1>7. e.type \notin Loud
  BY <1>3 DEF Loud, StepEvents, StepEnds
<1>8. Quiet(S, T) /\ AttemptsGood(S)
  BY <1>0, <1>3, <1>4, <1>7, QuietEvents DEF S
<1>9. AttemptsGood(T) /\ Adds(S, T)
  BY <1>0, <1>4, <1>6, <1>8, MoveAttempts
<1> QED
  BY <1>9 DEF S, T

\* The body stops in WaitForSignal.
LEMMA WaitsAttempts ==
    ASSUME TypedSessions, NEW w \in Replayers, NEW s \in Steps, AttemptsGood(sess[w]),
           StepWaits(w, s)
    PROVE  AttemptsGood(sess'[w]) /\ Adds(sess[w], sess'[w])
<1> DEFINE S == sess[w]
           T == sess'[w]
           g == S.go[s]
           n == g.name
<1>0. S \in Session /\ T \in Session
  BY GoStepType DEF GoStep, TypedSessions
<1>1. g \in Goroutine /\ (s \in S.ready => Attempts(g, s)) /\ g.pc = "running" /\ n \in Names
  BY <1>0, SessionTypes DEF AttemptsGood, StepWaits, Goroutine, BodyPcs
<1>2. PICK i \in DOMAIN Awaits[n] :
        T = [S EXCEPT !.new = IF SignalWaiting(S.hist, Awaits[n][i]) THEN @
                              ELSE Append(@, Ev("signal.waiting", Awaits[n][i])),
                      !.signals = @ \cup {Awaits[n][i]},
                      !.go[s] = [@ EXCEPT !.pc = "waiting"]]
  BY DEF StepWaits, SetSession, TypedSessions
<1> DEFINE sig == Awaits[n][i]
           e == Ev("signal.waiting", sig)
           new == IF SignalWaiting(S.hist, sig) THEN S.new ELSE Append(S.new, e)
<1>3. e \in ReplayerEvent /\ e.type = "signal.waiting"
  BY <1>1, AwaitsAssumption, EvTypes DEF Ev, EvData
<1>4. /\ T.hist = S.hist /\ T.new = new /\ T.ready = S.ready
      /\ T.go[s] = [g EXCEPT !.pc = "waiting"]
      /\ \A t \in Steps \ {s} : T.go[t] = S.go[t]
  <2>1. T = [S EXCEPT !.new = new, !.signals = @ \cup {sig},
                      !.go[s] = [@ EXCEPT !.pc = "waiting"]]
    BY <1>2
  <2> HIDE DEF S, T, new, sig
  <2> QED
    BY <1>0, <2>1 DEF Session
<1>5. T.new \in {S.new, Append(S.new, e)}
  BY <1>4
<1> HIDE DEF S, T, e, new
<1>6. /\ T.go[s].pc = "waiting" /\ T.go[s].evs = g.evs /\ T.go[s].name = g.name
      /\ T.go[s].attempt = g.attempt
  BY <1>1, <1>4 DEF Goroutine
<1>7. s \in S.ready => Attempts(T.go[s], s)
  BY <1>1, <1>6, AttemptsStay DEF BodyPcs
<1>8. e.type \notin Loud
  BY <1>3 DEF Loud, StepEvents, StepEnds
<1>9. Quiet(S, T) /\ AttemptsGood(S)
  BY <1>0, <1>3, <1>4, <1>5, <1>8, QuietEvents DEF S
<1>10. AttemptsGood(T) /\ Adds(S, T)
  BY <1>0, <1>4, <1>7, <1>9, MoveAttempts
<1> QED
  BY <1>10 DEF S, T

\* The body returns a value.
LEMMA SucceedsAttempts ==
    ASSUME TypedSessions, NEW w \in Replayers, NEW s \in Steps, AttemptsGood(sess[w]),
           StepSucceeds(w, s)
    PROVE  AttemptsGood(sess'[w]) /\ Adds(sess[w], sess'[w])
<1> DEFINE S == sess[w]
           T == sess'[w]
           g == S.go[s]
           n == g.name
           e == Ev("step.completed", n)
<1>0. S \in Session /\ T \in Session
  BY GoStepType DEF GoStep, TypedSessions
<1>1. /\ g \in Goroutine /\ (s \in S.ready => Attempts(g, s)) /\ g.pc \in BodyPcs
      /\ ~Fatal(e) /\ e.name = g.name /\ e.type \notin {"step.failed", "step.started"}
  BY <1>0, SessionTypes DEF AttemptsGood, StepSucceeds, BodyPcs, Fatal, Ev, EvData
<1>2. T = [S EXCEPT !.cache = @ \cup {n}, !.go[s] = [g EXCEPT !.pc = "ok", !.evs = Append(@, e)]]
  BY DEF StepSucceeds, SetSession, TypedSessions
<1>3. /\ T.hist = S.hist /\ T.new = S.new /\ T.ready = S.ready
      /\ T.go[s] = [g EXCEPT !.pc = "ok", !.evs = Append(@, e)]
      /\ \A t \in Steps \ {s} : T.go[t] = S.go[t]
  <2> HIDE DEF S, T, n, e
  <2> QED
    BY <1>0, <1>2 DEF Session
<1> HIDE DEF S, T, e
<1>4. /\ T.go[s].pc = "ok" /\ T.go[s].evs = Append(g.evs, e)
      /\ T.go[s].name = g.name /\ T.go[s].attempt = g.attempt
  BY <1>1, <1>3 DEF Goroutine
<1>5. s \in S.ready => Attempts(T.go[s], s)
  BY <1>1, <1>4, AttemptsEnd
<1>6. Quiet(S, T) /\ AttemptsGood(S)
  BY <1>0, <1>3, QuietEvents DEF S
<1>7. AttemptsGood(T) /\ Adds(S, T)
  BY <1>0, <1>3, <1>5, <1>6, MoveAttempts
<1> QED
  BY <1>7 DEF S, T

\* The body returns an error: the policy has an attempt left, or the step failed
\* for good.
LEMMA FailsAttempts ==
    ASSUME TypedSessions, NEW w \in Replayers, NEW s \in Steps, AttemptsGood(sess[w]),
           StepFails(w, s)
    PROVE  AttemptsGood(sess'[w]) /\ Adds(sess[w], sess'[w])
<1> DEFINE S == sess[w]
           T == sess'[w]
           g == S.go[s]
           willRetry == ShouldRetry(s, g.attempt)
           pc == IF willRetry THEN "attempt" ELSE "error"
           attempt == IF willRetry THEN g.attempt + 1 ELSE g.attempt
           e == EvAttempt("step.failed", g.name,
                          IF willRetry THEN "willRetry" ELSE "noRetry", g.attempt)
<1>0. S \in Session /\ T \in Session
  BY GoStepType DEF GoStep, TypedSessions
<1>1. /\ g \in Goroutine /\ (s \in S.ready => Attempts(g, s)) /\ g.pc \in BodyPcs
  BY <1>0, SessionTypes DEF AttemptsGood, StepFails, BodyMayFail, BodyPcs
<1>2. T = [S EXCEPT !.go[s] = [g EXCEPT !.pc = pc, !.attempt = attempt, !.evs = Append(@, e)]]
  BY DEF StepFails, SetGo, SetSession, TypedSessions
<1>3. \/ /\ g.attempt < MaxAttempts[s]
         /\ pc = "attempt" /\ attempt = g.attempt + 1
         /\ e = EvAttempt("step.failed", g.name, "willRetry", g.attempt)
      \/ /\ ~(g.attempt < MaxAttempts[s])
         /\ pc = "error" /\ attempt = g.attempt
  BY DEF ShouldRetry
<1>9. e.name = g.name /\ e.attempt = g.attempt /\ e.type # "step.started"
  BY DEF EvAttempt, EvData
<1> HIDE DEF S, T, e, pc, attempt, willRetry
<1>4. /\ T.hist = S.hist /\ T.new = S.new /\ T.ready = S.ready
      /\ T.go[s] = [g EXCEPT !.pc = pc, !.attempt = attempt, !.evs = Append(@, e)]
      /\ \A t \in Steps \ {s} : T.go[t] = S.go[t]
  BY <1>0, <1>2, SetGoFields
<1>5. /\ T.go[s].pc = pc /\ T.go[s].evs = Append(g.evs, e)
      /\ T.go[s].name = g.name /\ T.go[s].attempt = attempt
  <2> HIDE DEF g
  <2> QED
    BY <1>1, <1>4 DEF Goroutine
<1>6. s \in S.ready => Attempts(T.go[s], s)
  <2> HIDE DEF g
  <2> QED
    BY <1>1, <1>3, <1>5, <1>9, AttemptsEnd
<1>7. Quiet(S, T) /\ AttemptsGood(S)
  BY <1>0, <1>4, QuietEvents DEF S
<1>8. AttemptsGood(T) /\ Adds(S, T)
  BY <1>0, <1>4, <1>6, <1>7, MoveAttempts
<1> QED
  BY <1>8 DEF S, T

\* Run and Map stay inside the body.
LEMMA ChildAttempts ==
    ASSUME TypedSessions, NEW w \in Replayers, AttemptsGood(sess[w]), ChildStep(w)
    PROVE  AttemptsGood(sess'[w]) /\ Adds(sess[w], sess'[w])
<1> DEFINE S == sess[w]
           T == sess'[w]
<1>0. S \in Session /\ T \in Session
  BY ChildStepType DEF TypedSessions
<1>1. PICK s \in Steps : InBodyMove(S, T, s)
  BY ChildStepMoves
<1> HIDE DEF S, T
<1>2. PICK g, b : /\ b \in Seq(ReplayerEvent)
                  /\ BodyMove(S, T, s, g, b)
                  /\ InBody(S.go[s], g)
                  /\ \A k \in DOMAIN b : b[k].type \in ChildTypes
  BY <1>1 DEF InBodyMove
<1>3. b \in Seq(Event) /\ \A k \in DOMAIN b : b[k].type \notin Loud
  BY <1>2 DEF ReplayerEvent, ChildTypes, Loud, StepEvents, StepEnds
<1>4. Quiet(S, T) /\ AttemptsGood(S)
  BY <1>2, <1>3 DEF Quiet, BodyMove, S
<1>5. s \in S.ready => Attempts(S.go[s], s)
  BY <1>4 DEF AttemptsGood
<1>6. /\ g.evs = S.go[s].evs /\ g.attempt = S.go[s].attempt /\ g.name = S.go[s].name
      /\ g.pc \notin {"enter", "attempt"} /\ S.go[s].pc \in BodyPcs
  BY <1>2 DEF InBody, BodyPcs
<1>7. s \in S.ready => Attempts(g, s)
  BY <1>5, <1>6, AttemptsStay
<1>8. /\ T.ready = S.ready /\ T.go[s] = g /\ \A t \in Steps \ {s} : T.go[t] = S.go[t]
  BY <1>2 DEF BodyMove
<1>9. AttemptsGood(T) /\ Adds(S, T)
  BY <1>0, <1>4, <1>7, <1>8, MoveAttempts
<1> QED
  BY <1>9 DEF S, T

\* The wave loop: a wave begins or ends, or the replay does.
LEMMA WaveAttempts ==
    ASSUME TypedSessions, NEW w \in Replayers, AttemptsGood(sess[w]),
           Suspend(w) \/ CompleteReplay(w) \/ BeginWave(w) \/ EndWave(w) \/ CancelContext(w)
    PROVE  AttemptsGood(sess'[w]) /\ Adds(sess[w], sess'[w])
<1> DEFINE S == sess[w]
           T == sess'[w]
           e == Ev("workflow.completed", None)
<1>0. S \in Session /\ T \in Session
  <2>1. S \in Session
    BY DEF TypedSessions
  <2>2. CASE CancelContext(w)
    <3>1. T = [S EXCEPT !.ctxDone = TRUE]
      BY <2>2 DEF CancelContext, SetSession, TypedSessions
    <3> HIDE DEF S, T
    <3> QED
      BY <2>1, <3>1 DEF Session
  <2> QED
    BY <2>1, <2>2, ReplayStepType DEF ReplayStep, TypedSessions
<1>1. e \in ReplayerEvent /\ e.type \notin Loud
  BY EvTypes DEF Ev, EvData, Loud, StepEvents, StepEnds
<1>2. ASSUME T.hist = S.hist, T.new \in {S.new, Append(S.new, e)},
             \A s \in T.ready : Attempts(T.go[s], s)
      PROVE  AttemptsGood(T) /\ Adds(S, T)
  <2>1. Quiet(S, T) /\ AttemptsGood(S)
    <3> HIDE DEF S, T, e
    <3> QED
      BY <1>0, <1>1, <1>2, QuietEvents DEF S
  <2>2. Kept(Trace(T))
    BY <1>0, <2>1, QuietKept DEF AttemptsGood
  <2>3. Adds(S, T)
    BY <2>1 DEF Quiet, Adds, Loud
  <2> QED
    BY <1>2, <2>2, <2>3 DEF AttemptsGood
<1>3. CASE Suspend(w) \/ CancelContext(w)
  <2>1. T = [S EXCEPT !.result = "suspended"] \/ T = [S EXCEPT !.ctxDone = TRUE]
    BY <1>3 DEF Suspend, CancelContext, SetSession, TypedSessions
  <2>2. T.hist = S.hist /\ T.new = S.new /\ T.ready = S.ready /\ T.go = S.go
    <3> HIDE DEF S, T
    <3> QED
      BY <1>0, <2>1 DEF Session
  <2> QED
    BY <1>2, <2>2 DEF AttemptsGood
<1>4. CASE CompleteReplay(w)
  <2>1. T = [S EXCEPT !.new = Append(@, e), !.result = "completed"]
    BY <1>4 DEF CompleteReplay, SetSession, TypedSessions
  <2>2. T.hist = S.hist /\ T.new = Append(S.new, e) /\ T.ready = S.ready /\ T.go = S.go
    <3> HIDE DEF S, T, e
    <3> QED
      BY <1>0, <2>1 DEF Session
  <2> QED
    BY <1>2, <2>2 DEF AttemptsGood
<1>5. CASE BeginWave(w)
  <2> DEFINE ready == FindReadySteps(S)
             go == [s \in Steps |-> IF s \in ready THEN NewGoroutine ELSE NoGoroutine]
  <2>1. T = [S EXCEPT !.ready = ready, !.left = ready, !.go = go]
    BY <1>5 DEF BeginWave, SetSession, TypedSessions
  <2>2. \A s \in ready : s \in Steps /\ go[s] = NewGoroutine
    BY DEF FindReadySteps
  <2>3. ASSUME NEW s \in Steps PROVE Attempts(NewGoroutine, s)
    <3>1. /\ NewGoroutine.attempt = 1 /\ NewGoroutine.evs = <<>> /\ NewGoroutine.pc = "enter"
      BY DEF NewGoroutine, NoGoroutine
    <3>2. 1 \in 1 .. MaxAttempts[s] /\ 1 .. 1 - 1 = {} /\ DOMAIN <<>> = {}
      BY MaxAttemptsAssumption
    <3>3. Paired(<<>>)
      BY DEF Paired
    <3> HIDE DEF NewGoroutine
    <3> QED
      BY <3>1, <3>2, <3>3 DEF Attempts, BodyPcs
  <2>4. T.hist = S.hist /\ T.new = S.new /\ T.ready = ready /\ T.go = go
    <3> HIDE DEF S, T, ready, go
    <3> QED
      BY <1>0, <2>1 DEF Session
  <2> HIDE DEF ready, go
  <2>5. \A s \in T.ready : Attempts(T.go[s], s)
    BY <2>2, <2>3, <2>4
  <2> QED
    BY <1>2, <2>4, <2>5
<1>6. CASE EndWave(w)
  <2> DEFINE verdict == WaveVerdict(S)
  <2>1. T = [S EXCEPT !.ready = {}, !.go = NoGoroutines, !.result = verdict]
    BY <1>6 DEF EndWave, SetSession, TypedSessions
  <2>2. T.hist = S.hist /\ T.new = S.new /\ T.ready = {}
    <3> HIDE DEF S, T, verdict
    <3> QED
      BY <1>0, <2>1 DEF Session
  <2> QED
    BY <1>2, <2>2
<1> QED
  BY <1>3, <1>4, <1>5, <1>6

\* A result is collected: the goroutine's events, with all of its attempts, join
\* the new events.
LEMMA CollectAttempts ==
    ASSUME TypedSessions, NEW w \in Replayers, NEW s \in Steps, SessionGood(sess[w]),
           AttemptsGood(sess[w]), CollectResult(w, s)
    PROVE  AttemptsGood(sess'[w]) /\ Adds(sess[w], sess'[w])
<1> DEFINE S == sess[w]
           T == sess'[w]
           g == S.go[s]
           b == g.evs
           completed == IF g.pc = "ok" THEN S.completed \cup {s} ELSE S.completed
<1>0. S \in Session /\ T \in Session
  BY ReplayStepType DEF ReplayStep, TypedSessions
<1>1. s \in S.left /\ T = [S EXCEPT !.new = @ \o b, !.left = @ \ {s}, !.completed = completed]
  BY DEF CollectResult, SetSession, TypedSessions
<1>2. /\ SessionGood(S) /\ AttemptsGood(S) /\ b \in Seq(Event) /\ Trace(S) \in Seq(Event)
      /\ g \in Goroutine
  BY <1>0, SessionTypes
<1> HIDE DEF S, T, completed
<1>3. T.hist = S.hist /\ T.new = S.new \o b /\ T.ready = S.ready /\ T.go = S.go
  BY <1>0, <1>1 DEF Session
<1>4. Trace(T) = Trace(S) \o b
  BY <1>0, <1>2, <1>3, TraceGrows
<1>5. s \in S.ready /\ GoShape(S, s) /\ DecidedOnce(Trace(S))
  BY <1>1, <1>2 DEF SessionGood, WaveShape, LogGood
<1>6. b # <<>> => g.name \in RecordedNames(s)
  <2>1. b # <<>> => NameOf(Trace(S), s, g.name)
    BY <1>5 DEF GoShape
  <2> QED
    BY <1>5, <2>1, NameFacts
<1>7. Kept(b)
  <2>1. Attempts(g, s) /\ \A k \in DOMAIN g.evs : g.evs[k].name = g.name
    BY <1>2, <1>5 DEF AttemptsGood, GoShape
  <2> HIDE DEF g
  <2>2. Spent(b)
    BY <1>2, <1>6, <2>1, AttemptsSpent
  <2> QED
    BY <2>1, <2>2 DEF Kept, Attempts
<1>8. Kept(Trace(T))
  BY <1>2, <1>4, <1>7, KeptGrows DEF AttemptsGood
<1>9. AttemptsGood(T)
  BY <1>2, <1>3, <1>8 DEF AttemptsGood
<1>10. \A k \in DOMAIN b : b[k].type # "workflow.started"
  BY <1>5 DEF GoShape
<1>11. Adds(S, T)
  BY <1>2, <1>3, <1>10 DEF Adds
<1> QED
  BY <1>9, <1>11 DEF S, T

\* Every step of a replay.
LEMMA ReplayAttempts ==
    ASSUME TypedSessions, NEW w \in Replayers, SessionGood(sess[w]), AttemptsGood(sess[w]),
           ReplayStep(w) \/ ChildStep(w) \/ CancelContext(w)
    PROVE  AttemptsGood(sess'[w]) /\ Adds(sess[w], sess'[w])
<1>1. ASSUME NEW s \in Steps, GoStep(w, s) PROVE AttemptsGood(sess'[w]) /\ Adds(sess[w], sess'[w])
  BY <1>1, SilentAttempts, BranchAttempts, StartsAttempts, SucceedsAttempts, WaitsAttempts,
     FailsAttempts DEF GoStep
<1>2. ASSUME NEW s \in Steps, CollectResult(w, s) PROVE AttemptsGood(sess'[w]) /\ Adds(sess[w], sess'[w])
  BY <1>2, CollectAttempts
<1> QED
  BY <1>1, <1>2, ChildAttempts, WaveAttempts DEF ReplayStep

-----------------------------------------------------------------------------
(* The log.                                                                *)

\* The log, and every replay, shows all attempts of a step that failed for good,
\* and the end of each attempt right after its start.
BodyGood == Kept(log) /\ \A w \in Workers : AttemptsGood(sess[w])

\* An event about anything else, added to the log.
LEMMA KeptAppend ==
    ASSUME NEW h \in Seq(Event), Kept(h), NEW e \in Event, e.type \notin StepEvents
    PROVE  Kept(Append(h, e))
<1> DEFINE b == << e >>
<1>1. b \in Seq(Event) /\ Append(h, e) = h \o b /\ \A k \in DOMAIN b : b[k] = e
  OBVIOUS
<1> HIDE DEF b
<1>2. Kept(b)
  BY <1>1, OthersKept
<1> QED
  BY <1>1, <1>2, KeptGrows

\* What API callers and the workers of timeouts and scheduled starts append.
LEMMA RunnerAppends ==
    /\ StartedEvent \in Event /\ StartedEvent.type \notin StepEvents
    /\ CancelledEvent \in Event /\ CancelledEvent.type \notin StepEvents
    /\ FailedEvent \in Event /\ FailedEvent.type \notin StepEvents
    /\ \A sig \in Signals : \A type \in {"signal.received", "signal.timeout"} :
          Ev(type, sig) \in Event /\ Ev(type, sig).type \notin StepEvents
  BY RunnerEvTypes DEF StartedEvent, CancelledEvent, FailedEvent, Ev, EvData, StepEvents, StepEnds

\* API callers.
LEMMA ClientKeepsBody ==
    ASSUME TypeOK, ChecksHold, BodyGood, NEW c \in Clients,
           ClientCall(c) \/ ClientStep(c) \/ ClientCrash(c)
    PROVE  BodyGood'
<1>0. log \in Seq(Event) /\ Kept(log)
  BY DEF TypeOK, BodyGood
<1>1. UNCHANGED sess
  BY DEF ClientCall, ClientStep, ClientCrash, StartWorkflow, CancelWorkflow, SendSignal,
     AppendSignal, AppendCancel, InsertJob, ClientConflict
<1>2. Kept(log')
  <2>1. CASE StartWorkflow(c)
    BY <1>0, <2>1, RunnerAppends, KeptAppend DEF StartWorkflow
  <2>2. CASE AppendSignal(c)
    <3> DEFINE e == Ev("signal.received", cl[c].sig)
    <3>1. cl[c].sig \in Signals /\ log' = Append(log, e)
      BY <2>2 DEF AppendSignal, ChecksHold, ClientChecked
    <3>2. e \in Event /\ e.type \notin StepEvents
      BY <3>1, RunnerAppends
    <3> HIDE DEF e
    <3> QED
      BY <1>0, <3>1, <3>2, KeptAppend
  <2>3. CASE AppendCancel(c)
    BY <1>0, <2>3, RunnerAppends, KeptAppend DEF AppendCancel
  <2>4. CASE UNCHANGED log
    BY <1>0, <2>4
  <2> QED
    BY <2>1, <2>2, <2>3, <2>4 DEF ClientCall, ClientStep, ClientCrash, SendSignal,
       CancelWorkflow, InsertJob, ClientConflict
<1> QED
  BY <1>1, <1>2 DEF BodyGood

\* What the result of a replay adds.
LEMMA ResultKept ==
    ASSUME NEW S \in Session, NEW h \in Seq(Event), Kept(h)
    PROVE  Kept(h \o ResultEvents(S))
<1>1. CASE S.result = "failed"
  <2>1. ResultEvents(S) = << FailedEvent >> /\ FailedEvent \in Event
    BY <1>1, RunnerAppends DEF ResultEvents
  <2>2. h \o << FailedEvent >> = Append(h, FailedEvent)
    BY <2>1
  <2> QED
    BY <2>1, <2>2, RunnerAppends, KeptAppend
<1>2. CASE S.result # "failed"
  <2>1. ResultEvents(S) = <<>>
    BY <1>2 DEF ResultEvents
  <2> QED
    BY <2>1
<1> QED
  BY <1>1, <1>2

\* What a worker appends.
LEMMA WorkerLogKept ==
    ASSUME TypeOK, ChecksHold, BodyGood, NEW w \in Workers,
           WorkerStep(w) \/ CancelReplay(w) \/ WorkerCrash(w)
    PROVE  Kept(log')
<1> DEFINE S == sess[w]
           t == Trace(S)
           r == ResultEvents(S)
<1>0. /\ log \in Seq(Event) /\ Kept(log)
      /\ S \in Session /\ Kept(t)
      /\ S.hist \in Seq(Event) /\ S.new \in Seq(Event) /\ r \in Seq(Event) /\ t \in Seq(Event)
  BY ReplayEventsTypes, SessionTypes DEF BodyGood, AttemptsGood, TypeOK
<1>1. CASE CommitReplay(w)
  <2>1. /\ Snapshot(S.hist, log) /\ Accepts(S.hist)
        /\ log' = log \o (S.new \o r)
    BY <1>1 DEF CommitReplay, ReplayEnded, ChecksHold, WorkerChecked
  <2>2. S.hist = log
    BY <1>0, <2>1, AcceptedEqual
  <2>3. log' = t \o r
    <3>1. \A x, y, z \in Seq(Event) : x \o (y \o z) = (x \o y) \o z
      OBVIOUS
    <3> QED
      BY <1>0, <2>1, <2>2, <3>1, ZenonT(40) DEF Trace
  <2> QED
    BY <1>0, <2>3, ResultKept
<1>2. CASE AppendReplay(w)
  <2>1. /\ Snapshot(S.hist, log) /\ (S.new = <<>> \/ Accepts(S.hist))
        /\ log' = log \o S.new
    BY <1>2 DEF AppendReplay, ReplayEnded, ChecksHold, WorkerChecked
  <2>2. CASE S.new = <<>>
    <3>1. log' = log
      BY <1>0, <2>1, <2>2
    <3> QED
      BY <1>0, <3>1
  <2>3. CASE Accepts(S.hist)
    <3>1. S.hist = log
      BY <1>0, <2>1, <2>3, AcceptedEqual
    <3>2. log' = t
      BY <2>1, <3>1 DEF Trace
    <3> QED
      BY <1>0, <3>2
  <2> QED
    BY <2>1, <2>2, <2>3
<1>3. CASE FinishReplay(w)
  <2>1. log' = log \o r
    BY <1>3 DEF FinishReplay
  <2> QED
    BY <1>0, <2>1, ResultKept
<1>4. CASE AppendTimeout(w)
  <2> DEFINE e == Ev("signal.timeout", wk[w].job.sig)
  <2>1. wk[w].job.sig \in Signals /\ log' = Append(log, e)
    BY <1>4 DEF AppendTimeout, ChecksHold, WorkerChecked
  <2>2. e \in Event /\ e.type \notin StepEvents
    BY <2>1, RunnerAppends
  <2> HIDE DEF e
  <2> QED
    BY <1>0, <2>1, <2>2, KeptAppend
<1>5. CASE ScheduledStart(w)
  BY <1>0, <1>5, RunnerAppends, KeptAppend DEF ScheduledStart
<1>6. CASE UNCHANGED log
  BY <1>0, <1>6
<1> QED
  BY <1>1, <1>2, <1>3, <1>4, <1>5, <1>6 DEF WorkerStep, CancelReplay, WorkerCrash, TakeJob,
     SkipRun, LoadRun, Replay, AbortReplay, ReplayPanics, ReplayConflict, SkipTimeout,
     LoadTimeout, TimeoutConflict, ScheduledConflict, WorkerInsert, CompleteJob, EndAttempt

\* A worker without a replay has made no attempt.
LEMMA NoSessionAttempts == AttemptsGood(NoSession)
<1>1. NoSession.ready = {} /\ Trace(NoSession) = <<>>
  BY DEF NoSession, Trace
<1>2. Kept(<<>>)
  BY OthersKept
<1> QED
  BY <1>1, <1>2 DEF AttemptsGood

\* A new replay has made no attempt of its own.
LEMMA NewReplayerAttempts ==
    ASSUME NEW h \in Seq(Event), Kept(h)
    PROVE  AttemptsGood(NewReplayer(h))
<1> DEFINE e == Ev("workflow.started", None)
           S == NewReplayer(h)
<1>1. e \in Event /\ e.type \notin StepEvents
  BY RunnerEvTypes, EvTypes DEF Ev, EvData, ReplayerEvent, StepEvents, StepEnds
<1>2. S.hist = h /\ S.ready = {} /\ (S.new = <<>> \/ S.new = << e >>)
  BY DEF NewReplayer, NoSession
<1> HIDE DEF e, S
<1>3. h \o <<>> = h /\ h \o << e >> = Append(h, e)
  BY <1>1
<1>4. Trace(S) = h \/ Trace(S) = Append(h, e)
  BY <1>2, <1>3 DEF Trace
<1>5. AttemptsGood(S)
  BY <1>1, <1>2, <1>4, KeptAppend DEF AttemptsGood
<1> QED
  BY <1>5 DEF S

\* A worker's own replay.
LEMMA OwnReplayAttempts ==
    ASSUME TypeOK, HistoryGood, BodyGood, NEW w \in Workers,
           WorkerStep(w) \/ CancelReplay(w) \/ WorkerCrash(w)
    PROVE  AttemptsGood(sess'[w])
<1>0. /\ SessionGood(sess[w]) /\ AttemptsGood(sess[w]) /\ Kept(log)
      /\ TypedSessions /\ w \in Replayers /\ log \in Seq(Event)
  BY RunnerAssumption DEF HistoryGood, BodyGood, TypeOK, TypedSessions
<1>1. CASE Replay(w) \/ CancelReplay(w)
  <2>1. ReplayStep(w) \/ ChildStep(w) \/ CancelContext(w)
    BY <1>1 DEF Replay, CancelReplay
  <2> QED
    BY <1>0, <2>1, ReplayAttempts
<1>2. CASE EndAttempt(w)
  BY <1>2, SetSessionSets, NoSessionAttempts DEF EndAttempt
<1>3. CASE LoadRun(w)
  BY <1>0, <1>3, SetSessionSets, NewReplayerAttempts DEF LoadRun
<1>4. CASE CommitReplay(w) \/ FinishReplay(w)
  BY <1>4, SetSessionSets, NoSessionAttempts DEF CommitReplay, FinishReplay
<1>5. CASE UNCHANGED sess
  BY <1>0, <1>5
<1> QED
  BY <1>1, <1>2, <1>3, <1>4, <1>5
     DEF WorkerStep, WorkerCrash, AbortReplay, ReplayPanics, ReplayConflict, TimeoutConflict,
     ScheduledConflict, TakeJob, SkipRun, AppendReplay, SkipTimeout, LoadTimeout, AppendTimeout,
     ScheduledStart, WorkerInsert, CompleteJob

\* Every step of the runner keeps BodyGood.
LEMMA NextBody == TypeOK /\ ChecksHold /\ HistoryGood /\ BodyGood /\ [Next]_vars => BodyGood'
<1> SUFFICES ASSUME TypeOK, ChecksHold, HistoryGood, BodyGood, [Next]_vars PROVE BodyGood'
  OBVIOUS
<1>1. CASE UNCHANGED vars
  BY <1>1 DEF vars, BodyGood
<1>2. ASSUME NEW w \in Workers, WorkerStep(w) \/ CancelReplay(w) \/ WorkerCrash(w)
      PROVE  BodyGood'
  <2>1. \A x \in Workers \ {w} : sess'[x] = sess[x]
    BY <1>2, OthersReplay
  <2> QED
    BY <1>2, <2>1, WorkerLogKept, OwnReplayAttempts DEF BodyGood
<1> QED
  BY <1>1, <1>2, ClientKeepsBody DEF Next

-----------------------------------------------------------------------------
(* The theorems.                                                           *)

\* Each replay and the log keep the attempts of a step together.
THEOREM BodyCorrect == Spec => []BodyGood
<1>1. Init => BodyGood
  BY NoSessionAttempts, OthersKept DEF Init, BodyGood
<1>2. TypeOK /\ ChecksHold /\ HistoryGood /\ BodyGood /\ [Next]_vars => BodyGood'
  BY NextBody
<1> QED
  BY <1>1, <1>2, ChecksCorrect, HistoryCorrect, PTL DEF Spec

\* The log of a step that failed for good shows every attempt that its policy
\* grants, one after the other: no crash, no conflict, no sibling of its wave
\* and no resumed replay eats one or comes in between.
THEOREM RetriesCorrect == Spec => []RetriesSpent
<1>1. BodyGood => RetriesSpent
  BY DEF BodyGood, Kept, Spent, Fatal, AllAttempts, RetriesSpent
<1> QED
  BY <1>1, BodyCorrect, PTL

-----------------------------------------------------------------------------
(* What drives a run that has not ended (river/workers.go): the signals    *)
(* that a replay lists are what its worker inserts timeout jobs for.       *)

\* The signals that replay S lists are waited for, in its history or its new
\* events, and not resolved; a replay that waits, or is about to, lists one; and
\* one that completed says so.
WaitsListed(S) ==
    /\ \A sig \in S.signals : SignalWaiting(Trace(S), sig) /\ ~SignalResolved(S.hist, sig)
    /\ S.result = "waiting" \/ (\E s \in S.ready : S.go[s].pc = "waiting") => S.signals # {}
    /\ S.result = "completed" => IsCompleted(Trace(S))

\* What is logged in the trace of a replay stays logged.
LEMMA TraceKeeps ==
    ASSUME NEW S \in Session, NEW T \in Session, Adds(S, T)
    PROVE  \A type, name : Logged(Trace(S), type, name) => Logged(Trace(T), type, name)
<1>1. PICK b \in Seq(Event) : T.new = S.new \o b
  BY DEF Adds
<1>2. Trace(T) = Trace(S) \o b /\ Trace(S) \in Seq(Event)
  BY <1>1, TraceGrows, SessionTypes DEF Adds
<1> QED
  BY <1>2, GrownLogged

\* A replay that neither lists a signal nor newly waits or completes.
LEMMA ListedStays ==
    ASSUME NEW S \in Session, NEW T \in Session, Adds(S, T), WaitsListed(S),
           T.signals = S.signals,
           T.result \in {S.result, "running", "failed", "suspended"},
           \A s \in T.ready : T.go[s].pc = "waiting" => s \in S.ready /\ S.go[s].pc = "waiting"
    PROVE  WaitsListed(T)
<1>1. \A type, name : Logged(Trace(S), type, name) => Logged(Trace(T), type, name)
  BY TraceKeeps
<1>2. T.hist = S.hist
  BY DEF Adds
<1>3. ASSUME NEW sig \in T.signals
      PROVE  SignalWaiting(Trace(T), sig) /\ ~SignalResolved(T.hist, sig)
  BY <1>1, <1>2 DEF WaitsListed, SignalWaiting
<1>4. T.result = "waiting" \/ (\E s \in T.ready : T.go[s].pc = "waiting") => T.signals # {}
  BY DEF WaitsListed
<1>5. T.result = "completed" => IsCompleted(Trace(T))
  BY <1>1 DEF WaitsListed, IsCompleted
<1> QED
  BY <1>3, <1>4, <1>5 DEF WaitsListed

\* Every step of a goroutine but the wait lists nothing and does not wait.
LEMMA GoStepLists ==
    ASSUME TypedSessions, NEW w \in Replayers, NEW s \in Steps, GoStep(w, s), ~StepWaits(w, s)
    PROVE  /\ sess'[w].signals = sess[w].signals /\ sess'[w].result = sess[w].result
           /\ sess'[w].ready = sess[w].ready
           /\ sess'[w].go[s].pc # "waiting"
           /\ \A t \in Steps \ {s} : sess'[w].go[t] = sess[w].go[t]
<1> DEFINE S == sess[w]
           T == sess'[w]
           g == S.go[s]
           Goal == /\ T.signals = S.signals /\ T.result = S.result /\ T.ready = S.ready
                   /\ T.go[s].pc # "waiting"
                   /\ \A t \in Steps \ {s} : T.go[t] = S.go[t]
<1>0. S \in Session /\ g \in Goroutine /\ \A v : SetSession(w, v) => T = v
  BY SessionTypes DEF TypedSessions, SetSession
\* One goroutine, the new events and the cache are replaced.
<1>1. ASSUME NEW x, x.pc # "waiting", NEW new, NEW cache,
             T = [S EXCEPT !.new = new, !.cache = cache, !.go[s] = x]
      PROVE  Goal
  <2> HIDE DEF S, T
  <2>1. /\ T.signals = S.signals /\ T.result = S.result /\ T.ready = S.ready /\ T.go[s] = x
        /\ \A t \in Steps \ {s} : T.go[t] = S.go[t]
    BY <1>0, <1>1 DEF Session
  <2> QED
    BY <1>1, <2>1
<1>2. ASSUME NEW x, x.pc # "waiting", SetGo(w, s, x)
      PROVE  Goal
  <2>1. T = [S EXCEPT !.go[s] = x]
    BY <1>0, <1>2 DEF SetGo
  <2> HIDE DEF S, T
  <2> QED
    BY <1>0, <1>2, <2>1, SetGoFields
<1>3. /\ \A pc : [g EXCEPT !.pc = pc].pc = pc
      /\ \A pc, n : [g EXCEPT !.pc = pc, !.name = n].pc = pc
      /\ \A pc, q, e : [g EXCEPT !.pc = pc, !.got = q, !.evs = e].pc = pc
      /\ \A pc, a, e : [g EXCEPT !.pc = pc, !.attempt = a, !.evs = e].pc = pc
      /\ \A pc, e : [g EXCEPT !.pc = pc, !.evs = e].pc = pc
  <2> HIDE DEF g
  <2> QED
    BY <1>0 DEF Goroutine
<1>4. CASE GoContextError(w, s)
  <2> DEFINE x == [g EXCEPT !.pc = "error"]
  <2>1. SetGo(w, s, x) /\ x.pc = "error"
    BY <1>3, <1>4 DEF GoContextError
  <2> HIDE DEF x
  <2> QED
    BY <1>2, <2>1
<1>5. CASE EnterStep(w, s)
  <2> DEFINE x == [g EXCEPT !.pc = "attempt", !.name = s]
  <2>1. SetGo(w, s, x) /\ x.pc = "attempt"
    BY <1>3, <1>5 DEF EnterStep
  <2> HIDE DEF x
  <2> QED
    BY <1>2, <2>1
<1>6. CASE EnterBranch(w, s)
  <2>1. PICK c \in Cases[s] :
          \/ SetGo(w, s, [g EXCEPT !.pc = "attempt", !.name = CaseName(s, c)])
          \/ SetSession(w, [S EXCEPT !.new = Append(@, EvData("branch.evaluated", s, c)),
                                     !.go[s] = [@ EXCEPT !.pc = "attempt", !.name = CaseName(s, c)]])
    BY <1>6 DEF EnterBranch
  <2> DEFINE x == [g EXCEPT !.pc = "attempt", !.name = CaseName(s, c)]
             new == Append(S.new, EvData("branch.evaluated", s, c))
  <2>2. x.pc = "attempt"
    BY <1>3
  <2>3. SetGo(w, s, x) \/ T = [S EXCEPT !.new = new, !.go[s] = x]
    BY <1>0, <2>1
  <2>4. ASSUME T = [S EXCEPT !.new = new, !.go[s] = x] PROVE Goal
    <3> HIDE DEF x, new, S, T
    <3>1. T = [S EXCEPT !.new = new, !.cache = S.cache, !.go[s] = x]
      BY <1>0, <2>4 DEF Session
    <3> QED
      BY <1>1, <2>2, <3>1
  <2> HIDE DEF x, new
  <2> QED
    BY <1>2, <2>2, <2>3, <2>4
<1>7. CASE StartAttempt(w, s)
  <2> DEFINE x == [g EXCEPT !.pc = "running", !.got = <<>>,
                     !.evs = Append(@, EvAttempt("step.started", g.name, None, g.attempt))]
  <2>1. SetGo(w, s, x) /\ x.pc = "running"
    BY <1>3, <1>7 DEF StartAttempt
  <2> HIDE DEF x
  <2> QED
    BY <1>2, <2>1
<1>8. CASE StepSucceeds(w, s)
  <2> DEFINE x == [g EXCEPT !.pc = "ok", !.evs = Append(@, Ev("step.completed", g.name))]
             cache == S.cache \cup {g.name}
  <2>1. T = [S EXCEPT !.cache = cache, !.go[s] = x] /\ x.pc = "ok"
    BY <1>0, <1>3, <1>8 DEF StepSucceeds
  <2>2. T = [S EXCEPT !.new = S.new, !.cache = cache, !.go[s] = x]
    <3> HIDE DEF x, cache, S, T
    <3> QED
      BY <1>0, <2>1 DEF Session
  <2>3. x.pc # "waiting"
    BY <2>1
  <2> HIDE DEF x, cache, Goal
  <2>4. Goal
    BY <1>1, <2>2, <2>3, Zenon
  <2> QED
    BY <2>4 DEF Goal
<1>9. CASE StepFails(w, s)
  <2> DEFINE retry == ShouldRetry(s, g.attempt)
             x == [g EXCEPT !.pc = IF retry THEN "attempt" ELSE "error",
                            !.attempt = IF retry THEN @ + 1 ELSE @,
                            !.evs = Append(@, EvAttempt("step.failed", g.name,
                                       IF retry THEN "willRetry" ELSE "noRetry", g.attempt))]
  <2>1. SetGo(w, s, x) /\ x.pc # "waiting"
    BY <1>3, <1>9 DEF StepFails
  <2> HIDE DEF x
  <2> QED
    BY <1>2, <2>1
<1> QED
  BY <1>4, <1>5, <1>6, <1>7, <1>8, <1>9 DEF GoStep

\* WaitForSignal lists the signal that it waits for.
LEMMA StepWaitsLists ==
    ASSUME TypedSessions, NEW w \in Replayers, NEW s \in Steps, StepWaits(w, s),
           sess'[w] \in Session, Adds(sess[w], sess'[w]), WaitsListed(sess[w])
    PROVE  WaitsListed(sess'[w])
<1> DEFINE S == sess[w]
           T == sess'[w]
           n == S.go[s].name
<1>0. S \in Session /\ T \in Session /\ Adds(S, T) /\ WaitsListed(S)
  BY DEF TypedSessions
<1>1. PICK i \in DOMAIN Awaits[n] :
        /\ ~SignalResolved(S.hist, Awaits[n][i])
        /\ T = [S EXCEPT
                 !.new = IF SignalWaiting(S.hist, Awaits[n][i]) THEN @
                         ELSE Append(@, Ev("signal.waiting", Awaits[n][i])),
                 !.signals = @ \cup {Awaits[n][i]},
                 !.go[s] = [@ EXCEPT !.pc = "waiting"]]
  BY DEF StepWaits, SetSession, TypedSessions
<1> DEFINE sig == Awaits[n][i]
           e == Ev("signal.waiting", sig)
           new == IF SignalWaiting(S.hist, sig) THEN S.new ELSE Append(S.new, e)
<1>2. T.hist = S.hist /\ T.new = new /\ T.signals = S.signals \cup {sig} /\ T.result = S.result
  <2>1. T = [S EXCEPT !.new = new, !.signals = @ \cup {sig},
                      !.go[s] = [@ EXCEPT !.pc = "waiting"]]
    BY <1>1
  <2> HIDE DEF S, T, new, sig
  <2> QED
    BY <1>0, <2>1 DEF Session
<1>3. sig \in Signals /\ e.type = "signal.waiting" /\ e.name = sig /\ e \in ReplayerEvent
  <2>1. n \in Names
    BY GoTypes DEF StepWaits, BodyPcs
  <2> QED
    BY <2>1, AwaitsAssumption, EvTypes DEF Ev, EvData
<1>4. /\ S.hist \in Seq(Event) /\ T.new \in Seq(Event) /\ S.new \in Seq(ReplayerEvent)
      /\ \A type, name : Logged(Trace(S), type, name) => Logged(Trace(T), type, name)
  BY <1>0, SessionTypes, TraceKeeps
<1>5. SignalWaiting(Trace(T), sig)
  <2>1. /\ \A type, name : Logged(T.hist, type, name) => Logged(Trace(T), type, name)
        /\ \A type, name : Logged(T.new, type, name) => Logged(Trace(T), type, name)
    BY <1>2, <1>4, GrownLogged DEF Trace
  <2>2. SignalWaiting(S.hist, sig) \/ Logged(T.new, "signal.waiting", sig)
    <3> SUFFICES ASSUME T.new = Append(S.new, e) PROVE Logged(T.new, "signal.waiting", sig)
      BY <1>2
    <3> HIDE DEF e, sig, S, T, n
    <3>1. Len(S.new) + 1 \in DOMAIN T.new /\ T.new[Len(S.new) + 1] = e
      BY <1>4, OneMore
    <3> QED
      BY <1>3, <3>1 DEF Logged
  <2> QED
    BY <1>2, <2>1, <2>2 DEF SignalWaiting
<1> HIDE DEF S, T, sig
<1>6. ASSUME NEW x \in T.signals
      PROVE  SignalWaiting(Trace(T), x) /\ ~SignalResolved(T.hist, x)
  <2>1. CASE x = sig
    BY <1>1, <1>2, <1>5, <2>1 DEF sig
  <2>2. CASE x \in S.signals
    BY <1>0, <1>2, <1>4, <2>2 DEF WaitsListed, SignalWaiting
  <2> QED
    BY <1>2, <2>1, <2>2
<1>7. T.result = "completed" => IsCompleted(Trace(T))
  BY <1>0, <1>2, <1>4 DEF WaitsListed, IsCompleted
<1>8. T.signals # {}
  BY <1>2
<1>9. WaitsListed(T)
  BY <1>6, <1>7, <1>8 DEF WaitsListed
<1> QED
  BY <1>9 DEF T

\* The sequential steps of Replay: the verdict of a wave is to wait only if a
\* goroutine waits, and a completed replay records its completion.
LEMMA WaveLists ==
    ASSUME TypedSessions, NEW w \in Replayers, sess'[w] \in Session,
           Adds(sess[w], sess'[w]), WaitsListed(sess[w]),
           \/ Suspend(w) \/ CancelContext(w) \/ CompleteReplay(w) \/ BeginWave(w) \/ EndWave(w)
           \/ \E s \in Steps : CollectResult(w, s)
    PROVE  WaitsListed(sess'[w])
<1> DEFINE S == sess[w]
           T == sess'[w]
<1>0. /\ S \in Session /\ T \in Session /\ Adds(S, T) /\ WaitsListed(S)
      /\ \A v : SetSession(w, v) => T = v
  BY DEF TypedSessions, SetSession
<1>1. CASE Suspend(w) \/ CancelContext(w)
  <2>1. T = [S EXCEPT !.result = "suspended"] \/ T = [S EXCEPT !.ctxDone = TRUE]
    BY <1>0, <1>1 DEF Suspend, CancelContext
  <2>2. /\ T.signals = S.signals /\ T.go = S.go /\ T.ready = S.ready
        /\ T.result \in {S.result, "suspended"}
    <3> HIDE DEF S, T
    <3> QED
      BY <1>0, <2>1 DEF Session
  <2> QED
    BY <1>0, <2>2, ListedStays
<1>2. CASE CompleteReplay(w)
  <2> DEFINE e == Ev("workflow.completed", None)
             new == Append(S.new, e)
  <2>1. T = [S EXCEPT !.new = new, !.result = "completed"] /\ S.ready = {}
    BY <1>0, <1>2 DEF CompleteReplay, BetweenWaves
  <2>2. /\ T.signals = S.signals /\ T.go = S.go /\ T.ready = S.ready /\ T.new = new
        /\ T.hist = S.hist /\ T.result = "completed"
    <3> HIDE DEF S, T, new
    <3> QED
      BY <1>0, <2>1 DEF Session
  <2>3. /\ S.hist \in Seq(Event) /\ T.new \in Seq(Event) /\ S.new \in Seq(ReplayerEvent)
        /\ \A type, name : Logged(Trace(S), type, name) => Logged(Trace(T), type, name)
    BY <1>0, SessionTypes, TraceKeeps
  <2>4. e.type = "workflow.completed" /\ e.name = None
    BY DEF Ev, EvData
  <2>5. Logged(T.new, "workflow.completed", None)
    <3> HIDE DEF e, S, T
    <3>1. Len(S.new) + 1 \in DOMAIN T.new /\ T.new[Len(S.new) + 1] = e
      BY <2>2, <2>3, OneMore
    <3> QED
      BY <2>4, <3>1 DEF Logged
  <2>6. IsCompleted(Trace(T))
    BY <2>2, <2>3, <2>5, GrownLogged DEF Trace, IsCompleted
  <2>7. ASSUME NEW sig \in T.signals
        PROVE  SignalWaiting(Trace(T), sig) /\ ~SignalResolved(T.hist, sig)
    BY <1>0, <2>2, <2>3 DEF WaitsListed, SignalWaiting
  <2> QED
    BY <2>1, <2>2, <2>6, <2>7 DEF WaitsListed
<1>3. CASE BeginWave(w)
  <2> DEFINE ready == FindReadySteps(S)
             go == [s \in Steps |-> IF s \in ready THEN NewGoroutine ELSE NoGoroutine]
  <2>1. T = [S EXCEPT !.ready = ready, !.left = ready, !.go = go]
    BY <1>0, <1>3 DEF BeginWave
  <2>2. \A s \in ready : s \in Steps /\ go[s].pc # "waiting"
    BY DEF FindReadySteps, NewGoroutine, NoGoroutine
  <2>3. T.signals = S.signals /\ T.go = go /\ T.ready = ready /\ T.result = S.result
    <3> HIDE DEF S, T, ready, go
    <3> QED
      BY <1>0, <2>1 DEF Session
  <2> QED
    BY <1>0, <2>2, <2>3, ListedStays
<1>4. CASE EndWave(w)
  <2> DEFINE verdict == WaveVerdict(S)
  <2>1. T = [S EXCEPT !.ready = {}, !.go = NoGoroutines, !.result = verdict]
    BY <1>0, <1>4 DEF EndWave
  <2>2. /\ verdict \in {"waiting", "failed", "running"}
        /\ verdict = "waiting" => \E s \in S.ready : S.go[s].pc = "waiting"
    BY DEF WaveVerdict
  <2>3. T.signals = S.signals /\ T.ready = {} /\ T.result = verdict /\ T.hist = S.hist
    <3> HIDE DEF S, T, verdict
    <3> QED
      BY <1>0, <2>1 DEF Session
  <2>4. ASSUME NEW sig \in T.signals
        PROVE  SignalWaiting(Trace(T), sig) /\ ~SignalResolved(T.hist, sig)
    BY <1>0, <2>3, TraceKeeps DEF WaitsListed, SignalWaiting
  <2>5. T.result = "waiting" \/ (\E s \in T.ready : T.go[s].pc = "waiting") => T.signals # {}
    BY <1>0, <2>2, <2>3 DEF WaitsListed
  <2> QED
    BY <2>2, <2>3, <2>4, <2>5 DEF WaitsListed
<1>5. CASE \E s \in Steps : CollectResult(w, s)
  <2>1. PICK s \in Steps : CollectResult(w, s)
    BY <1>5
  <2> DEFINE new == S.new \o S.go[s].evs
             left == S.left \ {s}
             done == IF S.go[s].pc = "ok" THEN S.completed \cup {s} ELSE S.completed
  <2>2. T = [S EXCEPT !.new = new, !.left = left, !.completed = done]
    BY <1>0, <2>1 DEF CollectResult
  <2>3. T.signals = S.signals /\ T.go = S.go /\ T.ready = S.ready /\ T.result = S.result
    <3> HIDE DEF S, T, new, left, done
    <3> QED
      BY <1>0, <2>2 DEF Session
  <2> QED
    BY <1>0, <2>3, ListedStays
<1> QED
  BY <1>1, <1>2, <1>3, <1>4, <1>5

\* Every step of a replay.
LEMMA ReplayLists ==
    ASSUME TypedSessions, NEW w \in Replayers, SessionGood(sess[w]), AttemptsGood(sess[w]),
           WaitsListed(sess[w]),
           ReplayStep(w) \/ ChildStep(w) \/ CancelContext(w)
    PROVE  WaitsListed(sess'[w])
<1> DEFINE S == sess[w]
           T == sess'[w]
<1>0. S \in Session /\ T \in Session /\ Adds(S, T)
  <2>1. CASE ReplayStep(w) \/ ChildStep(w)
    BY <2>1, ReplayStepType, ChildStepType, ReplayAttempts DEF TypedSessions
  <2>2. CASE CancelContext(w)
    <3>1. T = [S EXCEPT !.ctxDone = TRUE] /\ S \in Session
      BY <2>2 DEF CancelContext, SetSession, TypedSessions
    <3>2. T \in Session
      <4> HIDE DEF S, T
      <4> QED
        BY <3>1 DEF Session
    <3> QED
      BY <3>1, <3>2, ReplayAttempts
  <2> QED
    BY <2>1, <2>2
<1>1. ASSUME NEW s \in Steps, GoStep(w, s) PROVE WaitsListed(T)
  <2>1. CASE StepWaits(w, s)
    BY <1>0, <2>1, StepWaitsLists
  <2>2. CASE ~StepWaits(w, s)
    <3>1. /\ T.signals = S.signals /\ T.result = S.result /\ T.ready = S.ready
          /\ T.go[s].pc # "waiting" /\ \A t \in Steps \ {s} : T.go[t] = S.go[t]
      BY <1>1, <2>2, GoStepLists
    <3>2. T.ready \subseteq Steps
      BY <1>0, SessionTypes
    <3> HIDE DEF S, T
    <3>3. WaitsListed(S)
      BY DEF S
    <3> QED
      BY <1>0, <3>1, <3>2, <3>3, ListedStays
  <2> QED
    BY <2>1, <2>2
<1>2. CASE ChildStep(w)
  <2>1. PICK s \in Steps : InBodyMove(S, T, s)
    BY <1>2, ChildStepMoves
  <2>2. /\ T.signals = S.signals /\ T.result = S.result /\ T.ready = S.ready
        /\ T.go[s].pc # "waiting" /\ \A t \in Steps \ {s} : T.go[t] = S.go[t]
    BY <2>1 DEF InBodyMove, BodyMove, InBody, BodyPcs
  <2>3. T.ready \subseteq Steps
    BY <1>0, SessionTypes
  <2> QED
    BY <1>0, <2>2, <2>3, ListedStays
<1> QED
  BY <1>0, <1>1, <1>2, WaveLists DEF ReplayStep

-----------------------------------------------------------------------------
(* The queue.                                                              *)

\* No job of the run uses up its attempts: an attempt that ends without success
\* has one left to follow it.  A scheduled start may be discarded.
NoneDiscarded ==
    \A w \in Workers :
        (/\ wk[w].job.kind # "scheduled"
         /\ wk[w].pc \notin {"idle", "ack"}
         /\ wk'[w].pc = "idle") => wk[w].job.left > 0

\* A workflow job, or the timeout job of a signal that the run waits for.
Driven ==
    \/ LiveJob("workflow", None)
    \/ \E sig \in Signals : /\ SignalWaiting(log, sig)
                            /\ ~SignalResolved(log, sig)
                            /\ LiveJob("timeout", sig)

\* The invariant of the queue with a TxStore, where no replay is stored in parts.
Woken ==
    /\ \A w \in Workers : WaitsListed(sess[w]) /\ wk[w].pc # "outcome"
    /\ log # <<>> /\ ~Ended(log) => Driven

\* What an insertion does to the queue.
LEMMA InsertKeeps ==
    ASSUME TypeOK, NEW js, jobs' = Insert(js)
    PROVE  /\ \A j \in QueuedJob : jobs[j] > 0 => jobs'[j] > 0
           /\ \A j \in QueuedJob : j \in js => jobs'[j] > 0
<1>1. jobs \in [QueuedJob -> Nat]
  BY DEF TypeOK
<1> QED
  BY <1>1 DEF Insert

\* Inserting a workflow job drives the run.
LEMMA InsertDrives ==
    ASSUME TypeOK, NEW j \in {StartJob, ResumeJob}, jobs' = Insert({j})
    PROVE  LiveJob("workflow", None)'
<1>1. j \in QueuedJob /\ j.kind = "workflow" /\ j.sig = None
  BY JobTypes DEF StartJob, ResumeJob
<1>2. jobs'[j] > 0
  BY <1>1, InsertKeeps
<1> QED
  BY <1>1, <1>2 DEF LiveJob

\* A live job stays live if the queue keeps its jobs and the worker that has it
\* goes on.
LEMMA LiveStays ==
    ASSUME NEW kind, NEW sig, LiveJob(kind, sig),
           \A j \in QueuedJob : jobs[j] > 0 => jobs'[j] > 0,
           \A x \in Workers : (/\ wk[x].pc \notin {"idle", "ack"}
                               /\ wk[x].job.kind = kind /\ wk[x].job.sig = sig) =>
                                  wk'[x].pc \notin {"idle", "ack"} /\ wk'[x].job = wk[x].job
    PROVE  LiveJob(kind, sig)'
<1>1. CASE \E j \in QueuedJob : j.kind = kind /\ j.sig = sig /\ jobs[j] > 0
  BY <1>1 DEF LiveJob
<1>2. CASE \E x \in Workers : /\ wk[x].pc \notin {"idle", "ack"}
                             /\ wk[x].job.kind = kind /\ wk[x].job.sig = sig
  <2>1. PICK x \in Workers : /\ wk[x].pc \notin {"idle", "ack"}
                            /\ wk[x].job.kind = kind /\ wk[x].job.sig = sig
    BY <1>2
  <2>2. wk'[x].pc \notin {"idle", "ack"} /\ wk'[x].job = wk[x].job
    BY <2>1
  <2> QED
    BY <2>1, <2>2 DEF LiveJob
<1> QED
  BY <1>1, <1>2 DEF LiveJob

\* While the log stays, a run is driven if its live jobs stay live.
LEMMA DrivenStays ==
    ASSUME log # <<>> /\ ~Ended(log) => Driven, log' = log,
           LiveJob("workflow", None) => LiveJob("workflow", None)',
           \A sig \in Signals : SignalWaiting(log, sig) /\ ~SignalResolved(log, sig)
                                /\ LiveJob("timeout", sig) => LiveJob("timeout", sig)'
    PROVE  (log # <<>> /\ ~Ended(log) => Driven)'
  BY DEF Driven

\* River takes a job off the queue: it is the worker's from then on.
LEMMA TakeKeeps ==
    ASSUME TypeOK, NEW w \in Workers, TakeJob(w), NEW kind, NEW sig, LiveJob(kind, sig)
    PROVE  LiveJob(kind, sig)'
<1>0. jobs \in [QueuedJob -> Nat]
  BY DEF TypeOK
<1>1. PICK i \in QueuedJob :
        /\ jobs' = [jobs EXCEPT ![i] = @ - 1]
        /\ SetWorker(w, [IdleWorker EXCEPT !.pc = "load", !.job = [i EXCEPT !.left = @ - 1]])
  BY DEF TakeJob
<1>2. wk'[w].pc = "load" /\ wk'[w].job.kind = i.kind /\ wk'[w].job.sig = i.sig
  <2>1. wk'[w] = [IdleWorker EXCEPT !.pc = "load", !.job = [i EXCEPT !.left = @ - 1]]
    BY <1>1, SetWorkerSets
  <2>2. i \in Job
    BY DEF QueuedJob
  <2>3. wk'[w].pc = "load" /\ wk'[w].job = [i EXCEPT !.left = @ - 1]
    BY <2>1 DEF IdleWorker
  <2> QED
    BY <2>2, <2>3 DEF Job
<1>3. wk[w].pc = "idle" /\ \A x \in Workers \ {w} : wk'[x] = wk[x]
  BY <1>1 DEF TakeJob, SetWorker, TypeOK
<1>4. CASE i.kind = kind /\ i.sig = sig
  BY <1>2, <1>4 DEF LiveJob
<1>5. CASE ~(i.kind = kind /\ i.sig = sig)
  <2>1. CASE \E j \in QueuedJob : j.kind = kind /\ j.sig = sig /\ jobs[j] > 0
    <3>1. PICK j \in QueuedJob : j.kind = kind /\ j.sig = sig /\ jobs[j] > 0
      BY <2>1
    <3>2. jobs'[j] = jobs[j]
      BY <1>0, <1>1, <1>5, <3>1
    <3> QED
      BY <3>1, <3>2 DEF LiveJob
  <2>2. CASE \E x \in Workers : /\ wk[x].pc \notin {"idle", "ack"}
                               /\ wk[x].job.kind = kind /\ wk[x].job.sig = sig
    BY <1>3, <2>2 DEF LiveJob
  <2> QED
    BY <2>1, <2>2 DEF LiveJob
<1> QED
  BY <1>4, <1>5

\* An attempt ends without success: the job goes back to the queue.
LEMMA EndKeeps ==
    ASSUME TypeOK, NoneDiscarded, NEW w \in Workers, EndAttempt(w),
           NEW kind \in {"workflow", "timeout"}, NEW sig, LiveJob(kind, sig)
    PROVE  LiveJob(kind, sig)'
<1> DEFINE i == wk[w].job
<1>0. jobs \in [QueuedJob -> Nat] /\ i \in Job /\ (i.left > 0 => i \in QueuedJob)
  BY JobTypes DEF TypeOK, Worker
<1>1. /\ jobs' = IF i.left > 0 THEN [jobs EXCEPT ![i] = @ + 1] ELSE jobs
      /\ wk'[w].pc = "idle"
      /\ \A x \in Workers \ {w} : wk'[x] = wk[x]
  <2>1. wk'[w] = IdleWorker
    BY SetWorkerSets DEF EndAttempt
  <2> QED
    BY <2>1 DEF EndAttempt, SetWorker, TypeOK, IdleWorker
<1>2. i.left > 0 => jobs'[i] > 0
  BY <1>0, <1>1
<1>3. \A j \in QueuedJob : jobs[j] > 0 => jobs'[j] > 0
  BY <1>0, <1>1
<1>4. CASE wk[w].pc \notin {"idle", "ack"} /\ i.kind = kind /\ i.sig = sig
  <2>1. i.left > 0
    BY <1>1, <1>4 DEF NoneDiscarded
  <2> QED
    BY <1>0, <1>2, <1>4, <2>1 DEF LiveJob
<1>5. CASE ~(wk[w].pc \notin {"idle", "ack"} /\ i.kind = kind /\ i.sig = sig)
  BY <1>1, <1>3, <1>5, LiveStays
<1> QED
  BY <1>4, <1>5

\* A replay that is stored ends the run or leaves a timeout job for a signal that
\* the run waits for.
LEMMA CommitDrives ==
    ASSUME TypeOK, ChecksHold, Woken, NEW w \in Workers, CommitReplay(w)
    PROVE  Ended(log') \/ Driven'
<1> DEFINE S == sess[w]
           t == Trace(S)
           r == ResultEvents(S)
<1>0. /\ log \in Seq(Event) /\ S \in Session /\ WaitsListed(S)
      /\ S.hist \in Seq(Event) /\ S.new \in Seq(Event) /\ S.new \in Seq(ReplayerEvent)
      /\ r \in Seq(Event) /\ t \in Seq(Event)
  BY ReplayEventsTypes, SessionTypes DEF Woken, TypeOK
<1>1. /\ Snapshot(S.hist, log) /\ Accepts(S.hist)
      /\ S.result \in {"completed", "failed", "waiting"}
      /\ log' = log \o (S.new \o r) /\ jobs' = Insert(ResultJobs(S))
  BY DEF CommitReplay, ReplayEnded, ChecksHold, WorkerChecked
<1>2. S.hist = log
  BY <1>0, <1>1, AcceptedEqual
<1>3. log' = t \o r
  <2>1. \A x, y, z \in Seq(Event) : x \o (y \o z) = (x \o y) \o z
    OBVIOUS
  <2> QED
    BY <1>0, <1>1, <1>2, <2>1, ZenonT(40) DEF Trace
<1>4. CASE S.result = "completed"
  <2>1. IsCompleted(t)
    BY <1>0, <1>4 DEF WaitsListed
  <2> QED
    BY <1>0, <1>3, <2>1, GrownLogged DEF IsCompleted, Ended
<1>5. CASE S.result = "failed"
  <2>1. r = << FailedEvent >>
    BY <1>5 DEF ResultEvents
  <2>2. FailedEvent.type = "workflow.failed" /\ FailedEvent.name = None
    BY DEF FailedEvent, Ev, EvData
  <2>3. Logged(r, "workflow.failed", None)
    <3>1. 1 \in DOMAIN r /\ r[1] = FailedEvent
      BY <2>1
    <3> QED
      BY <2>2, <3>1 DEF Logged
  <2> QED
    BY <1>0, <1>3, <2>3, GrownLogged DEF HasFailed, Ended
<1>6. CASE S.result = "waiting"
  <2>1. PICK sig \in S.signals : SignalWaiting(t, sig) /\ ~SignalResolved(S.hist, sig)
    BY <1>0, <1>6 DEF WaitsListed
  <2>2. sig \in Signals
    BY <1>0 DEF Session
  <2>3. log' = t
    BY <1>0, <1>3, <1>6 DEF ResultEvents
  <2>4. ~SignalResolved(t, sig)
    <3>1. \A name : ~Logged(S.new, "signal.received", name) /\ ~Logged(S.new, "signal.timeout", name)
      <4>1. \A q \in Seq(ReplayerEvent) : \A k \in DOMAIN q : q[k].type \in ReplayerTypes
        BY DEF ReplayerEvent
      <4> QED
        BY <1>0, <4>1 DEF Logged, ReplayerTypes
    <3>2. \A type, name : Logged(t, type, name) => Logged(S.hist, type, name) \/ Logged(S.new, type, name)
      BY <1>0, GrownLogged DEF Trace
    <3> QED
      BY <2>1, <3>1, <3>2 DEF SignalResolved, SignalReceived, SignalTimedOut
  <2>5. TimeoutJob(sig) \in QueuedJob /\ TimeoutJob(sig).kind = "timeout" /\ TimeoutJob(sig).sig = sig
    BY <2>2, JobTypes DEF TimeoutJob
  <2>6. jobs'[TimeoutJob(sig)] > 0
    <3>1. TimeoutJob(sig) \in ResultJobs(S)
      BY <1>6 DEF ResultJobs
    <3> QED
      BY <1>1, <2>5, <3>1, InsertKeeps
  <2>7. LiveJob("timeout", sig)'
    BY <2>5, <2>6 DEF LiveJob
  <2>8. SignalWaiting(log', sig) /\ ~SignalResolved(log', sig)
    BY <2>1, <2>3, <2>4
  <2> QED
    BY <2>2, <2>7, <2>8 DEF Driven
<1> QED
  BY <1>1, <1>4, <1>5, <1>6

\* What API callers do to the queue.
LEMMA ClientDrives ==
    ASSUME TxStore, TypeOK, Woken, NEW c \in Clients,
           ClientCall(c) \/ ClientStep(c) \/ ClientCrash(c)
    PROVE  Woken'
<1>0. log \in Seq(Event)
  BY DEF TypeOK
<1>1. UNCHANGED <<wk, sess>>
  BY DEF ClientCall, ClientStep, ClientCrash, StartWorkflow, CancelWorkflow, SendSignal,
     AppendSignal, AppendCancel, InsertJob, ClientConflict
<1>2. CASE StartWorkflow(c) \/ AppendSignal(c) \/ InsertJob(c)
  <2>1. \E j \in {StartJob, ResumeJob} : jobs' = Insert({j})
    BY <1>2 DEF StartWorkflow, AppendSignal, InsertJob
  <2>2. LiveJob("workflow", None)'
    BY <2>1, InsertDrives
  <2> QED
    BY <1>1, <2>2 DEF Woken, Driven
<1>3. CASE AppendCancel(c)
  <2>1. log' = Append(log, CancelledEvent)
    BY <1>3 DEF AppendCancel
  <2>2. CancelledEvent.type = "workflow.cancelled" /\ CancelledEvent.name = None
    BY DEF CancelledEvent, Ev, EvData
  <2>3. Len(log) + 1 \in DOMAIN log' /\ log'[Len(log) + 1] = CancelledEvent
    BY <1>0, <2>1
  <2>4. Ended(log')
    BY <2>2, <2>3 DEF Ended, IsCancelled, Logged
  <2> QED
    BY <1>1, <2>4 DEF Woken
<1>4. CASE UNCHANGED <<log, jobs>>
  <2>1. \A kind, sig : LiveJob(kind, sig) => LiveJob(kind, sig)'
    BY <1>1, <1>4 DEF LiveJob
  <2>2. (log # <<>> /\ ~Ended(log) => Driven)'
    BY <1>4, <2>1, DrivenStays DEF Woken
  <2> QED
    BY <1>1, <2>2 DEF Woken
<1> QED
  BY <1>2, <1>3, <1>4 DEF ClientCall, ClientStep, ClientCrash, SendSignal, CancelWorkflow,
     ClientConflict

\* A worker's own replay lists what it waits for.
LEMMA OwnLists ==
    ASSUME TxStore, TypeOK, ChecksHold, HistoryGood, BodyGood, Woken, NEW w \in Workers,
           WorkerStep(w) \/ CancelReplay(w) \/ WorkerCrash(w)
    PROVE  WaitsListed(sess'[w]) /\ wk'[w].pc # "outcome"
<1>0. /\ SessionGood(sess[w]) /\ AttemptsGood(sess[w]) /\ WaitsListed(sess[w])
      /\ wk[w].pc # "outcome" /\ wk[w] \in Worker
      /\ TypedSessions /\ w \in Replayers /\ log \in Seq(Event)
  BY RunnerAssumption DEF HistoryGood, BodyGood, Woken, TypeOK, TypedSessions
<1>1. WaitsListed(NoSession)
  BY DEF WaitsListed, NoSession
<1>2. CASE Replay(w) \/ CancelReplay(w)
  <2>1. (ReplayStep(w) \/ ChildStep(w) \/ CancelContext(w)) /\ wk' = wk
    BY <1>2 DEF Replay, CancelReplay
  <2> QED
    BY <1>0, <2>1, ReplayLists
<1>3. CASE EndAttempt(w)
  <2>1. sess'[w] = NoSession /\ wk'[w] = IdleWorker
    BY <1>3, SetSessionSets, SetWorkerSets DEF EndAttempt
  <2> QED
    BY <1>1, <2>1 DEF IdleWorker
<1>4. CASE LoadRun(w)
  <2> DEFINE S == NewReplayer(log)
  <2>1. sess'[w] = S /\ wk'[w] = [wk[w] EXCEPT !.pc = "replay"] /\ ~IsCompleted(log)
    BY <1>4, SetSessionSets, SetWorkerSets DEF LoadRun
  <2>2. S.signals = {} /\ S.ready = {} /\ S.result \in {"failed", "running"}
    BY <2>1 DEF NewReplayer, NoSession
  <2>3. WaitsListed(S)
    <3> HIDE DEF S
    <3> QED
      BY <2>2 DEF WaitsListed
  <2>4. wk'[w].pc = "replay"
    BY <1>0, <2>1 DEF Worker
  <2> QED
    BY <2>1, <2>3, <2>4
<1>5. CASE CommitReplay(w) \/ FinishReplay(w)
  <2>1. sess'[w] = NoSession /\ wk'[w] = [wk[w] EXCEPT !.pc = "ack"]
    BY <1>5, SetSessionSets, SetWorkerSets DEF CommitReplay, FinishReplay
  <2>2. wk'[w].pc = "ack"
    BY <1>0, <2>1 DEF Worker
  <2> QED
    BY <1>1, <2>1, <2>2
<1>6. ~AppendReplay(w)
  BY DEF AppendReplay
<1>7. ASSUME NEW v, SetWorker(w, v), v.pc # "outcome", sess' = sess
      PROVE  WaitsListed(sess'[w]) /\ wk'[w].pc # "outcome"
  BY <1>0, <1>7, SetWorkerSets
<1>8. \A pc, h : /\ [wk[w] EXCEPT !.pc = pc].pc = pc
                /\ [wk[w] EXCEPT !.pc = pc, !.hist = h].pc = pc
  BY <1>0 DEF Worker
<1>9. CASE TakeJob(w) \/ CompleteJob(w)
  <2>1. \A j : [IdleWorker EXCEPT !.pc = "load", !.job = j].pc = "load" /\ IdleWorker.pc = "idle"
    BY DEF IdleWorker
  <2> QED
    BY <1>7, <1>9, <2>1 DEF TakeJob, CompleteJob
<1>10. CASE SkipRun(w) \/ SkipTimeout(w) \/ WorkerInsert(w)
  <2> DEFINE v == [wk[w] EXCEPT !.pc = "ack"]
  <2>1. SetWorker(w, v) /\ sess' = sess
    BY <1>10 DEF SkipRun, SkipTimeout, WorkerInsert
  <2>2. v.pc = "ack"
    BY <1>8
  <2> QED
    BY <1>7, <2>1, <2>2
<1>11. CASE LoadTimeout(w)
  <2> DEFINE v == [wk[w] EXCEPT !.pc = "append", !.hist = log]
  <2>1. SetWorker(w, v) /\ sess' = sess /\ v.pc = "append"
    BY <1>8, <1>11 DEF LoadTimeout
  <2> QED
    BY <1>7, <2>1
<1>12. CASE AppendTimeout(w) \/ ScheduledStart(w)
  <2> DEFINE pc == IF TxStore THEN "ack" ELSE "insert"
             v == [wk[w] EXCEPT !.pc = pc, !.hist = <<>>]
             u == [wk[w] EXCEPT !.pc = pc]
  <2>1. v.pc = pc /\ u.pc = pc /\ pc # "outcome"
    BY <1>8
  <2>2. CASE AppendTimeout(w)
    <3>1. SetWorker(w, v) /\ sess' = sess
      BY <2>2 DEF AppendTimeout
    <3> HIDE DEF v, pc
    <3> QED
      BY <1>7, <2>1, <3>1
  <2>3. CASE ScheduledStart(w)
    <3>1. SetWorker(w, u) /\ sess' = sess
      BY <2>3 DEF ScheduledStart
    <3> HIDE DEF u, pc
    <3> QED
      BY <1>7, <2>1, <3>1
  <2> QED
    BY <1>12, <2>2, <2>3
<1> QED
  BY <1>2, <1>3, <1>4, <1>5, <1>6, <1>9, <1>10, <1>11, <1>12
     DEF WorkerStep, WorkerCrash, AbortReplay, ReplayPanics, ReplayConflict, TimeoutConflict,
     ScheduledConflict

\* What a worker does to the queue.
LEMMA WorkerDrives ==
    ASSUME TxStore, TypeOK, ChecksHold, Woken, NoneDiscarded, NEW w \in Workers,
           WorkerStep(w) \/ CancelReplay(w) \/ WorkerCrash(w)
    PROVE  (log # <<>> /\ ~Ended(log) => Driven)'
<1>0. /\ log # <<>> /\ ~Ended(log) => Driven
      /\ wk[w] \in Worker /\ wk[w].pc # "outcome"
      /\ \A x \in Workers \ {w} : wk'[x] = wk[x]
  BY OthersReplay DEF Woken, TypeOK
\* The worker goes on with its job.
<1>1. ASSUME UNCHANGED <<log, jobs>>, wk'[w].pc \notin {"idle", "ack"} \/ wk[w].pc \in {"idle", "ack"},
             wk'[w].job = wk[w].job
      PROVE  (log # <<>> /\ ~Ended(log) => Driven)'
  <2>1. ASSUME NEW kind, NEW sig, LiveJob(kind, sig) PROVE LiveJob(kind, sig)'
    BY <1>0, <1>1, <2>1, LiveStays
  <2> QED
    BY <1>0, <1>1, <2>1, DrivenStays
<1>2. CASE TakeJob(w)
  <2>1. log' = log
    BY <1>2 DEF TakeJob
  <2>2. ASSUME NEW kind, NEW sig, LiveJob(kind, sig) PROVE LiveJob(kind, sig)'
    BY <1>2, <2>2, TakeKeeps
  <2> QED
    BY <1>0, <2>1, <2>2, DrivenStays
<1>3. CASE EndAttempt(w)
  <2>1. log' = log
    BY <1>3 DEF EndAttempt
  <2>2. ASSUME NEW kind \in {"workflow", "timeout"}, NEW sig, LiveJob(kind, sig)
        PROVE  LiveJob(kind, sig)'
    BY <1>3, <2>2, EndKeeps
  <2> QED
    BY <1>0, <2>1, <2>2, DrivenStays
<1>4. CASE SkipRun(w)
  BY <1>4 DEF SkipRun, Ended
<1>5. CASE Replay(w) \/ CancelReplay(w)
  <2>1. UNCHANGED <<log, jobs, wk>> /\ wk[w].pc = "replay"
    BY <1>5 DEF Replay, CancelReplay
  <2> QED
    BY <1>1, <2>1
<1>6. CASE LoadRun(w) \/ LoadTimeout(w)
  <2>1. /\ UNCHANGED <<log, jobs>>
        /\ \/ wk'[w] = [wk[w] EXCEPT !.pc = "replay"]
           \/ wk'[w] = [wk[w] EXCEPT !.pc = "append", !.hist = log]
    BY <1>6, SetWorkerSets DEF LoadRun, LoadTimeout
  <2>2. wk'[w].pc \in {"replay", "append"} /\ wk'[w].job = wk[w].job
    BY <1>0, <2>1 DEF Worker
  <2> QED
    BY <1>1, <2>1, <2>2
<1>7. CASE CommitReplay(w)
  BY <1>7, CommitDrives
<1>8. ~AppendReplay(w) /\ ~FinishReplay(w)
  BY <1>0 DEF AppendReplay, FinishReplay
<1>9. CASE SkipTimeout(w)
  <2>1. /\ UNCHANGED <<log, jobs>> /\ wk[w].job.kind = "timeout"
        /\ ~SignalWaiting(log, wk[w].job.sig) \/ SignalResolved(log, wk[w].job.sig)
    BY <1>9 DEF SkipTimeout
  <2>2. LiveJob("workflow", None) => LiveJob("workflow", None)'
    BY <1>0, <2>1, LiveStays
  <2>3. ASSUME NEW sig \in Signals, SignalWaiting(log, sig), ~SignalResolved(log, sig),
               LiveJob("timeout", sig)
        PROVE  LiveJob("timeout", sig)'
    <3>1. wk[w].job.sig # sig
      BY <2>1, <2>3
    <3> QED
      BY <1>0, <2>1, <2>3, <3>1, LiveStays
  <2> QED
    BY <1>0, <2>1, <2>2, <2>3, DrivenStays
<1>10. CASE AppendTimeout(w) \/ ScheduledStart(w) \/ WorkerInsert(w)
  <2>1. \E j \in {StartJob, ResumeJob} : jobs' = Insert({j})
    BY <1>10 DEF AppendTimeout, ScheduledStart, WorkerInsert
  <2>2. LiveJob("workflow", None)'
    BY <2>1, InsertDrives
  <2> QED
    BY <2>2 DEF Driven
<1>11. CASE CompleteJob(w)
  <2>1. UNCHANGED <<log, jobs>> /\ wk[w].pc = "ack"
    BY <1>11 DEF CompleteJob
  <2>2. ASSUME NEW kind, NEW sig, LiveJob(kind, sig) PROVE LiveJob(kind, sig)'
    BY <1>0, <2>1, <2>2, LiveStays
  <2> QED
    BY <1>0, <2>1, <2>2, DrivenStays
<1> QED
  BY <1>2, <1>3, <1>4, <1>5, <1>6, <1>7, <1>8, <1>9, <1>10, <1>11
     DEF WorkerStep, WorkerCrash, AbortReplay, ReplayPanics, ReplayConflict, TimeoutConflict,
     ScheduledConflict

\* Every step that discards no job keeps the run driven.
LEMMA NextWoken ==
    ASSUME TxStore
    PROVE  TypeOK /\ ChecksHold /\ HistoryGood /\ BodyGood /\ Woken /\ [Next]_vars
             /\ [NoneDiscarded]_vars => Woken'
<1> SUFFICES ASSUME TypeOK, ChecksHold, HistoryGood, BodyGood, Woken, [Next]_vars,
                    [NoneDiscarded]_vars
             PROVE  Woken'
  OBVIOUS
<1>1. CASE UNCHANGED vars
  BY <1>1 DEF vars, Woken, Driven, LiveJob
<1>2. ASSUME NEW w \in Workers, WorkerStep(w) \/ CancelReplay(w) \/ WorkerCrash(w), NoneDiscarded
      PROVE  Woken'
  <2>1. \A x \in Workers \ {w} : wk'[x] = wk[x] /\ sess'[x] = sess[x]
    BY <1>2, OthersReplay
  <2>2. WaitsListed(sess'[w]) /\ wk'[w].pc # "outcome"
    BY <1>2, OwnLists
  <2>3. \A x \in Workers : WaitsListed(sess'[x]) /\ wk'[x].pc # "outcome"
    BY <2>1, <2>2 DEF Woken
  <2>4. (log # <<>> /\ ~Ended(log) => Driven)'
    BY <1>2, WorkerDrives
  <2> QED
    BY <2>3, <2>4 DEF Woken
<1> QED
  BY <1>1, <1>2, ClientDrives DEF Next

\* With a TxStore, as long as River discards no job of the run, a run that has not
\* ended has a workflow job or the timeout job of a signal that it waits for,
\* wherever callers and workers crash or lose a race: each transaction that takes
\* the run further also inserts what will wake it.
THEOREM WakeupCorrect ==
    ASSUME TxStore
    PROVE  Spec /\ [][NoneDiscarded]_vars => []NoLostWakeup
<1>1. Init => Woken
  <2> SUFFICES ASSUME Init PROVE Woken
    OBVIOUS
  <2>1. WaitsListed(NoSession)
    BY DEF WaitsListed, NoSession
  <2> QED
    BY <2>1 DEF Init, Woken, IdleWorker
<1>2. TypeOK /\ ChecksHold /\ HistoryGood /\ BodyGood /\ Woken /\ [Next]_vars
        /\ [NoneDiscarded]_vars => Woken'
  BY NextWoken
<1>3. Woken => NoLostWakeup
  BY DEF Woken, Driven, NoLostWakeup
<1> QED
  BY <1>1, <1>2, <1>3, ChecksCorrect, HistoryCorrect, BodyCorrect, PTL DEF Spec
=============================================================================
