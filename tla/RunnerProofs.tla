---------------------------- MODULE RunnerProofs ----------------------------
(***************************************************************************)
(* Proofs about the runner, for any workflow definition, any number of     *)
(* workers, callers and faults, with and without a TxStore.                *)
(***************************************************************************)
EXTENDS Runner, ReplayerProofs, SequenceTheorems

-----------------------------------------------------------------------------
(* Types.                                                                  *)

\* The events that the runner appends itself are events.
LEMMA RunnerEvTypes ==
    /\ StartedEvent \in Event
    /\ FailedEvent \in Event
    /\ CancelledEvent \in Event
    /\ \A sig \in Signals : Ev("signal.received", sig) \in Event
    /\ \A sig \in Signals : Ev("signal.timeout", sig) \in Event
<1>1. /\ NoChild \in ChildId /\ None \in EventData /\ None \in EventNames
      /\ Signals \subseteq EventNames
  BY DEF NoChild, ChildId, EventData, EventNames
<1>2. \A type \in EventTypes, name \in EventNames : Ev(type, name) \in Event
  BY <1>1 DEF Ev, EvData, Event
<1>3. {"workflow.started", "workflow.failed", "workflow.cancelled", "signal.received",
       "signal.timeout"} \subseteq EventTypes
  BY DEF EventTypes
<1> QED
  BY <1>1, <1>2, <1>3, Zenon DEF StartedEvent, FailedEvent, CancelledEvent

\* The jobs that the runner inserts are jobs River can queue.
LEMMA JobTypes ==
    /\ StartJob \in QueuedJob
    /\ ResumeJob \in QueuedJob
    /\ ScheduledJob \in QueuedJob
    /\ \A sig \in Signals : TimeoutJob(sig) \in QueuedJob
    /\ NoJob \in Job
    /\ \A j \in QueuedJob : [j EXCEPT !.left = @ - 1] \in Job
    /\ \A j \in Job : j.left > 0 => j \in QueuedJob
  BY RunnerAssumption DEF StartJob, ResumeJob, ScheduledJob, TimeoutJob, NoJob,
     QueuedJob, Job, Left

\* Inserting jobs keeps the queue typed.
LEMMA InsertType ==
    ASSUME jobs \in [QueuedJob -> Nat], NEW js
    PROVE  Insert(js) \in [QueuedJob -> Nat]
  BY DEF Insert

\* An idle worker and an idle caller have their types.
LEMMA IdleTypes ==
    /\ IdleWorker \in Worker
    /\ IdleClient \in Client
<1>1. <<>> \in Seq(Event)
  OBVIOUS
<1> QED
  BY <1>1, JobTypes DEF IdleWorker, IdleClient, Worker, Client

\* The runner starts in a typed state.
LEMMA InitTypeOK == Init => TypeOK
<1> SUFFICES ASSUME Init PROVE TypeOK
  OBVIOUS
<1>1. log \in Seq(Event)
  BY DEF Init
<1>2. jobs \in [QueuedJob -> Nat]
  BY DEF Init
<1>3. sess \in [Workers -> Session]
  BY NoSessionType DEF Init
<1>4. wk \in [Workers -> Worker] /\ cl \in [Clients -> Client]
  BY IdleTypes DEF Init
<1> QED
  BY <1>1, <1>2, <1>3, <1>4 DEF Init, TypeOK

\* A replay appends to the log a typed sequence.
LEMMA ReplayEventsTypes ==
    ASSUME TypeOK, NEW w \in Workers
    PROVE  /\ sess[w] \in Session
           /\ sess[w].new \in Seq(ReplayerEvent)
           /\ sess[w].new \in Seq(Event)
           /\ sess[w].hist \in Seq(Event)
           /\ ResultEvents(sess[w]) \in Seq(Event)
<1>1. sess[w] \in Session /\ sess[w].new \in Seq(ReplayerEvent) /\ sess[w].hist \in Seq(Event)
  BY DEF TypeOK, Session
<1>2. sess[w].new \in Seq(Event)
  BY <1>1 DEF ReplayerEvent
<1> QED
  BY <1>1, <1>2, RunnerEvTypes DEF ResultEvents

\* Replacing one worker by a typed one keeps the workers typed.
LEMMA SetWorkerType ==
    ASSUME TypeOK, NEW w \in Workers, NEW v \in Worker, SetWorker(w, v)
    PROVE  wk' \in [Workers -> Worker]
  BY DEF TypeOK, SetWorker

\* Replacing one caller by a typed one keeps the callers typed.
LEMMA SetClientType ==
    ASSUME TypeOK, NEW c \in Clients, NEW v \in Client, SetClient(c, v)
    PROVE  cl' \in [Clients -> Client]
  BY DEF TypeOK, SetClient

\* The worker moves to another pc and keeps its job.
LEMMA WorkerPcType ==
    ASSUME TypeOK, NEW w \in Workers,
           NEW pc \in {"idle", "load", "replay", "outcome", "append", "insert", "ack"}
    PROVE  /\ [wk[w] EXCEPT !.pc = pc] \in Worker
           /\ [wk[w] EXCEPT !.pc = pc, !.hist = log] \in Worker
           /\ [wk[w] EXCEPT !.pc = pc, !.hist = <<>>] \in Worker
<1>1. <<>> \in Seq(Event) /\ log \in Seq(Event) /\ wk[w] \in Worker
  BY DEF TypeOK
<1> QED
  BY <1>1 DEF Worker

\* Replacing one replay by a typed one keeps the replays typed.
LEMMA SessionsType ==
    ASSUME TypeOK, NEW w \in Workers, NEW S \in Session, SetSession(w, S)
    PROVE  sess' \in [Workers -> Session]
  BY DEF TypeOK, SetSession

\* River's end of an attempt, with or without a retry, keeps the types.
LEMMA EndAttemptType ==
    ASSUME TypeOK, NEW w \in Workers, EndAttempt(w), faults' \in Nat
    PROVE  TypeOK'
<1>1. wk' \in [Workers -> Worker]
  BY IdleTypes, SetWorkerType DEF EndAttempt
<1>2. sess' \in [Workers -> Session]
  BY NoSessionType, SessionsType DEF EndAttempt
<1>3. jobs' \in [QueuedJob -> Nat]
  <2>1. wk[w].job \in Job /\ jobs \in [QueuedJob -> Nat]
    BY DEF TypeOK, Worker
  <2>2. wk[w].job.left > 0 => wk[w].job \in QueuedJob
    BY <2>1, JobTypes
  <2> QED
    BY <2>1, <2>2 DEF EndAttempt
<1> QED
  BY <1>1, <1>2, <1>3 DEF EndAttempt, TypeOK

\* The first part of StartWorkflow, SendSignal and CancelWorkflow keeps the types.
LEMMA ClientCallType ==
    ASSUME TypeOK, NEW c \in Clients, ClientCall(c)
    PROVE  TypeOK'
<1>1. CASE StartWorkflow(c)
  <2>1. log' \in Seq(Event)
    BY <1>1, RunnerEvTypes DEF StartWorkflow, TypeOK
  <2>2. jobs' \in [QueuedJob -> Nat]
    BY <1>1, InsertType DEF StartWorkflow, TypeOK
  <2>3. [IdleClient EXCEPT !.pc = "insert", !.op = "start"] \in Client
    BY IdleTypes DEF Client
  <2>4. cl' \in [Clients -> Client]
    BY <1>1, <2>3, SetClientType DEF StartWorkflow, TypeOK
  <2> QED
    BY <1>1, <2>1, <2>2, <2>4 DEF StartWorkflow, TypeOK
<1>2. CASE CancelWorkflow(c)
  <2>1. [pc |-> "append", op |-> "cancel", sig |-> None, hist |-> log] \in Client
    BY DEF TypeOK, Client
  <2> QED
    BY <1>2, <2>1, SetClientType DEF CancelWorkflow, TypeOK
<1>3. CASE \E sig \in Signals : SendSignal(c, sig)
  <2> PICK sig \in Signals : SendSignal(c, sig)
    BY <1>3
  <2>1. [pc |-> "append", op |-> "signal", sig |-> sig, hist |-> log] \in Client
    BY DEF TypeOK, Client
  <2> QED
    BY <2>1, SetClientType DEF SendSignal, TypeOK
<1> QED
  BY <1>1, <1>2, <1>3 DEF ClientCall

\* The second part of an API call, its append and its job, keeps the types.
LEMMA ClientStepType ==
    ASSUME TypeOK, ChecksHold, NEW c \in Clients, ClientStep(c)
    PROVE  TypeOK'
<1>1. CASE AppendSignal(c)
  <2>1. log' \in Seq(Event)
    <3>1. cl[c].sig \in Signals
      BY <1>1 DEF AppendSignal, ChecksHold, ClientChecked, WorkerChecked
    <3> QED
      BY <1>1, <3>1, RunnerEvTypes DEF AppendSignal, TypeOK
  <2>2. jobs' \in [QueuedJob -> Nat]
    BY <1>1, InsertType DEF AppendSignal, TypeOK
  <2>3. [IdleClient EXCEPT !.pc = "insert", !.op = "signal"] \in Client
    BY IdleTypes DEF Client
  <2>4. cl' \in [Clients -> Client]
    BY <1>1, <2>3, IdleTypes, SetClientType DEF AppendSignal, TypeOK
  <2> QED
    BY <1>1, <2>1, <2>2, <2>4 DEF AppendSignal, TypeOK
<1>2. CASE AppendCancel(c)
  BY <1>2, RunnerEvTypes, IdleTypes, SetClientType DEF AppendCancel, TypeOK
<1>3. CASE InsertJob(c)
  BY <1>3, InsertType, IdleTypes, SetClientType DEF InsertJob, TypeOK
<1>4. CASE ClientConflict(c)
  BY <1>4, IdleTypes, SetClientType DEF ClientConflict, TypeOK
<1> QED
  BY <1>1, <1>2, <1>3, <1>4 DEF ClientStep

\* Every step of the three Work methods and of River keeps the types.
LEMMA WorkerStepType ==
    ASSUME TypeOK, ChecksHold, NEW w \in Workers, WorkerStep(w)
    PROVE  TypeOK'
<1> USE DEF TypeOK
<1>1. CASE TakeJob(w)
  <2> PICK j \in QueuedJob :
        /\ jobs[j] > 0
        /\ jobs' = [jobs EXCEPT ![j] = @ - 1]
        /\ SetWorker(w, [IdleWorker EXCEPT !.pc = "load", !.job = [j EXCEPT !.left = @ - 1]])
    BY <1>1 DEF TakeJob
  <2>1. [IdleWorker EXCEPT !.pc = "load", !.job = [j EXCEPT !.left = @ - 1]] \in Worker
    BY IdleTypes, JobTypes DEF Worker
  <2>2. jobs' \in [QueuedJob -> Nat]
    OBVIOUS
  <2> QED
    BY <1>1, <2>1, <2>2, SetWorkerType DEF TakeJob
<1>2. CASE SkipRun(w)
  BY <1>2, WorkerPcType, SetWorkerType DEF SkipRun
<1>3. CASE LoadRun(w)
  BY <1>3, WorkerPcType, SetWorkerType, NewReplayerType, SessionsType DEF LoadRun
<1>4. CASE Replay(w)
  <2>1. TypedSessions'
    BY <1>4, RunnerAssumption, ReplayStepType, ChildStepType DEF Replay, TypedSessions
  <2> QED
    BY <1>4, <2>1, RunnerAssumption DEF Replay, TypedSessions
<1>5. CASE AbortReplay(w)
  BY <1>5, EndAttemptType DEF AbortReplay
<1>18. CASE ReplayPanics(w)
  BY <1>18, EndAttemptType DEF ReplayPanics
<1>6. CASE CommitReplay(w)
  <2>1. log' \in Seq(Event)
    BY <1>6, ReplayEventsTypes DEF CommitReplay
  <2> QED
    BY <1>6, <2>1, InsertType, WorkerPcType, SetWorkerType, NoSessionType, SessionsType
       DEF CommitReplay
<1>7. CASE AppendReplay(w)
  <2>1. log' \in Seq(Event)
    BY <1>7, ReplayEventsTypes DEF AppendReplay
  <2> QED
    BY <1>7, <2>1, WorkerPcType, SetWorkerType DEF AppendReplay
<1>8. CASE FinishReplay(w)
  <2>1. log' \in Seq(Event)
    BY <1>8, ReplayEventsTypes DEF FinishReplay
  <2> QED
    BY <1>8, <2>1, InsertType, WorkerPcType, SetWorkerType, NoSessionType, SessionsType
       DEF FinishReplay
<1>9. CASE ReplayConflict(w)
  BY <1>9, EndAttemptType DEF ReplayConflict
<1>10. CASE SkipTimeout(w)
  BY <1>10, WorkerPcType, SetWorkerType DEF SkipTimeout
<1>11. CASE LoadTimeout(w)
  BY <1>11, WorkerPcType, SetWorkerType DEF LoadTimeout
<1>12. CASE AppendTimeout(w)
  <2>1. wk[w].job.sig \in Signals
    BY <1>12 DEF AppendTimeout, ChecksHold, ClientChecked, WorkerChecked
  <2>2. log' \in Seq(Event)
    BY <1>12, <2>1, RunnerEvTypes DEF AppendTimeout
  <2>3. jobs' \in [QueuedJob -> Nat]
    BY <1>12, InsertType DEF AppendTimeout
  <2>4. wk' \in [Workers -> Worker]
    BY <1>12, WorkerPcType, SetWorkerType DEF AppendTimeout
  <2> QED
    BY <1>12, <2>2, <2>3, <2>4 DEF AppendTimeout
<1>13. CASE TimeoutConflict(w)
  BY <1>13, EndAttemptType DEF TimeoutConflict
<1>14. CASE ScheduledStart(w)
  <2>1. log' \in Seq(Event) /\ jobs' \in [QueuedJob -> Nat]
    BY <1>14, RunnerEvTypes, InsertType DEF ScheduledStart
  <2>2. wk' \in [Workers -> Worker]
    BY <1>14, WorkerPcType, SetWorkerType DEF ScheduledStart
  <2> QED
    BY <1>14, <2>1, <2>2 DEF ScheduledStart
<1>15. CASE ScheduledConflict(w)
  BY <1>15, EndAttemptType DEF ScheduledConflict
<1>16. CASE WorkerInsert(w)
  BY <1>16, InsertType, WorkerPcType, SetWorkerType DEF WorkerInsert
<1>17. CASE CompleteJob(w)
  BY <1>17, IdleTypes, SetWorkerType DEF CompleteJob
<1> QED
  BY <1>1, <1>2, <1>3, <1>4, <1>5, <1>6, <1>7, <1>8, <1>9, <1>10, <1>11, <1>12,
     <1>13, <1>14, <1>15, <1>16, <1>17, <1>18 DEF WorkerStep

\* Crashes and cancelled contexts keep the types.
LEMMA FaultType ==
    ASSUME TypeOK, NEW c, NEW w,
           \/ c \in Clients /\ ClientCrash(c)
           \/ w \in Workers /\ (CancelReplay(w) \/ WorkerCrash(w))
    PROVE  TypeOK'
<1>1. CASE c \in Clients /\ ClientCrash(c)
  BY <1>1, IdleTypes, SetClientType DEF ClientCrash, TypeOK
<1>2. CASE w \in Workers /\ CancelReplay(w)
  <2>1. [sess[w] EXCEPT !.ctxDone = TRUE] \in Session
    BY <1>2, ZenonT(40) DEF TypeOK, Session
  <2> QED
    BY <1>2, <2>1, SessionsType DEF CancelReplay, CancelContext, TypeOK
<1>3. CASE w \in Workers /\ WorkerCrash(w)
  BY <1>3, EndAttemptType DEF WorkerCrash, TypeOK
<1> QED
  BY <1>1, <1>2, <1>3

\* Every step of the runner keeps the types.
LEMMA NextTypeOK == TypeOK /\ ChecksHold /\ [Next]_vars => TypeOK'
<1> SUFFICES ASSUME TypeOK, ChecksHold, [Next]_vars PROVE TypeOK'
  OBVIOUS
<1>1. CASE UNCHANGED vars
  BY <1>1 DEF vars, TypeOK
<1>2. CASE Next
  BY <1>2, ClientCallType, ClientStepType, WorkerStepType, FaultType DEF Next
<1> QED
  BY <1>1, <1>2

-----------------------------------------------------------------------------
(* The log only grows, and what is appended was checked against the log    *)
(* that it is appended to.                                                 *)

\* The length and the elements of a concatenation.
LEMMA ConcatFacts ==
    ASSUME NEW S, NEW s \in Seq(S), NEW t \in Seq(S)
    PROVE  /\ s \o t \in Seq(S)
           /\ Len(s \o t) = Len(s) + Len(t)
           /\ \A i \in 1 .. Len(s) : (s \o t)[i] = s[i]
           /\ \A i \in 1 .. Len(t) : (s \o t)[Len(s) + i] = t[i]
  OBVIOUS

\* An accepted snapshot is the log.
LEMMA AcceptedIsLog ==
    ASSUME TypeOK, NEW h \in Seq(Event), Snapshot(h, log), Accepts(h)
    PROVE  /\ Len(h) = Len(log)
           /\ \A i \in DOMAIN log : i \in DOMAIN h /\ log[i] = h[i]
           /\ \A type, name : Logged(log, type, name) => Logged(h, type, name)
           /\ \A type, name : Logged(h, type, name) => Logged(log, type, name)
<1>1. Len(h) = Len(log) /\ DOMAIN h = 1 .. Len(h) /\ DOMAIN log = 1 .. Len(log)
  BY DEF Accepts, LastSequence, TypeOK
<1>2. \A i \in 1 .. Len(h) : h[i] = log[i]
  BY DEF Snapshot
<1> QED
  BY <1>1, <1>2 DEF Logged

\* What a worker appends.
WorkEvent == ReplayerEvent \cup {FailedEvent}

\* The five ways in which a step can leave the log.
LogStep ==
    \/ UNCHANGED log
    \/ log = <<>> /\ log' = Append(log, StartedEvent)
    \/ \E sig \in Signals, type \in {"signal.received", "signal.timeout"} :
          /\ log' = Append(log, Ev(type, sig))
          /\ SignalWaiting(log, sig)
          /\ ~SignalResolved(log, sig)
    \/ log' = Append(log, CancelledEvent) /\ ~IsCancelled(log)
    \/ ~IsCancelled(log) /\ \E b \in Seq(WorkEvent) : log' = log \o b

\* What an API call does to the log is a LogStep.
LEMMA ClientLogStep ==
    ASSUME TypeOK, ChecksHold, NEW c \in Clients, ClientCall(c) \/ ClientStep(c)
    PROVE  LogStep
<1>0. cl[c].hist \in Seq(Event)
  BY DEF TypeOK, Client
<1>1. CASE StartWorkflow(c)
  <2>1. log = <<>>
    BY <1>1 DEF StartWorkflow, Accepts, LastSequence, TypeOK
  <2> QED
    BY <1>1, <2>1 DEF StartWorkflow, LogStep
<1>2. CASE CancelWorkflow(c) \/ \E sig \in Signals : SendSignal(c, sig)
  BY <1>2 DEF CancelWorkflow, SendSignal, LogStep
<1>3. CASE AppendSignal(c)
  <2>1. /\ cl[c].sig \in Signals
        /\ SignalWaiting(cl[c].hist, cl[c].sig)
        /\ ~SignalResolved(cl[c].hist, cl[c].sig)
        /\ Snapshot(cl[c].hist, log)
        /\ Accepts(cl[c].hist)
    BY <1>3 DEF AppendSignal, ChecksHold, ClientChecked, WorkerChecked
  <2>2. SignalWaiting(log, cl[c].sig) /\ ~SignalResolved(log, cl[c].sig)
    BY <1>0, <2>1, AcceptedIsLog
       DEF SignalWaiting, SignalResolved, SignalReceived, SignalTimedOut
  <2> QED
    BY <1>3, <2>1, <2>2 DEF AppendSignal, LogStep
<1>4. CASE AppendCancel(c)
  <2>1. /\ ~IsCancelled(cl[c].hist)
        /\ Snapshot(cl[c].hist, log)
        /\ Accepts(cl[c].hist)
    BY <1>4 DEF AppendCancel, ChecksHold, ClientChecked, WorkerChecked
  <2>2. ~IsCancelled(log)
    BY <1>0, <2>1, AcceptedIsLog DEF IsCancelled
  <2> QED
    BY <1>4, <2>2 DEF AppendCancel, LogStep
<1>5. CASE InsertJob(c) \/ ClientConflict(c)
  BY <1>5 DEF InsertJob, ClientConflict, LogStep
<1> QED
  BY <1>1, <1>2, <1>3, <1>4, <1>5 DEF ClientCall, ClientStep

\* An element of s \o t is one of s or one of t.
LEMMA ConcatElement ==
    ASSUME NEW S, NEW s \in Seq(S), NEW t \in Seq(S), NEW i \in DOMAIN (s \o t)
    PROVE  \/ i \in DOMAIN s /\ (s \o t)[i] = s[i]
           \/ i \notin DOMAIN s /\ \E k \in DOMAIN t : i = Len(s) + k /\ (s \o t)[i] = t[k]
<1>1. i \in 1 .. Len(s) + Len(t) /\ Len(s) \in Nat /\ Len(t) \in Nat
  BY ConcatFacts
<1>2. DOMAIN s = 1 .. Len(s) /\ DOMAIN t = 1 .. Len(t)
  OBVIOUS
<1>3. CASE i <= Len(s)
  BY <1>1, <1>2, <1>3, ConcatFacts
<1>4. CASE i > Len(s)
  <2>1. i - Len(s) \in 1 .. Len(t) /\ i = Len(s) + (i - Len(s))
    BY <1>1, <1>4
  <2>2. (s \o t)[Len(s) + (i - Len(s))] = t[i - Len(s)]
    BY <2>1, ConcatFacts
  <2> QED
    BY <1>1, <1>2, <1>4, <2>1, <2>2
<1> QED
  BY <1>1, <1>3, <1>4

\* A replay's new events hold no cancellation.
LEMMA NewNotCancelled ==
    ASSUME NEW h \in Seq(Event), NEW n \in Seq(ReplayerEvent), ~IsCancelled(h)
    PROVE  ~IsCancelled(h \o n)
<1>1. n \in Seq(Event)
  BY DEF ReplayerEvent
<1>2. \A k \in DOMAIN n : n[k].type # "workflow.cancelled"
  BY DEF ReplayerEvent, ReplayerTypes
<1>3. \A i \in DOMAIN h : h[i].type # "workflow.cancelled" \/ h[i].name # None
  BY DEF IsCancelled, Logged
<1>4. ASSUME NEW i \in DOMAIN (h \o n)
      PROVE  (h \o n)[i].type # "workflow.cancelled" \/ (h \o n)[i].name # None
  BY <1>1, <1>2, <1>3, ConcatElement
<1> QED
  BY <1>4 DEF IsCancelled, Logged

\* What a worker does to the log is a LogStep.
LEMMA WorkerLogStep ==
    ASSUME TypeOK, ChecksHold, NEW w \in Workers, WorkerStep(w)
    PROVE  LogStep
<1>0. /\ sess[w].hist \in Seq(Event)
      /\ sess[w].new \in Seq(ReplayerEvent)
      /\ sess[w].new \in Seq(Event)
      /\ sess[w].new \in Seq(WorkEvent)
      /\ ResultEvents(sess[w]) \in Seq(WorkEvent)
      /\ ResultEvents(sess[w]) \in Seq(Event)
      /\ log \in Seq(Event)
  <2>1. sess[w].new \in Seq(WorkEvent)
    BY ReplayEventsTypes DEF WorkEvent
  <2>2. ResultEvents(sess[w]) \in Seq(WorkEvent)
    <3>1. FailedEvent \in WorkEvent
      BY DEF WorkEvent
    <3>2. << FailedEvent >> \in Seq(WorkEvent) /\ <<>> \in Seq(WorkEvent)
      BY <3>1
    <3> QED
      BY <3>2 DEF ResultEvents
  <2> QED
    BY <2>1, <2>2, ReplayEventsTypes DEF TypeOK
<1>1. CASE CommitReplay(w)
  <2>1. ~IsCancelled(log)
    BY <1>0, <1>1, AcceptedIsLog DEF CommitReplay, ReplayEnded, ChecksHold, ClientChecked, WorkerChecked, IsCancelled
  <2>2. sess[w].new \o ResultEvents(sess[w]) \in Seq(WorkEvent)
    BY <1>0
  <2>3. log' = log \o (sess[w].new \o ResultEvents(sess[w]))
    BY <1>0, <1>1 DEF CommitReplay
  <2> QED
    BY <2>1, <2>2, <2>3 DEF LogStep
<1>2. CASE AppendReplay(w)
  <2>1. CASE sess[w].new = <<>>
    BY <1>0, <1>2, <2>1 DEF AppendReplay, LogStep
  <2>2. CASE Accepts(sess[w].hist)
    <3>1. ~IsCancelled(log)
      BY <1>0, <1>2, <2>2, AcceptedIsLog DEF AppendReplay, ReplayEnded, ChecksHold, ClientChecked, WorkerChecked, IsCancelled
    <3> QED
      BY <1>0, <1>2, <3>1 DEF AppendReplay, LogStep
  <2> QED
    BY <1>2, <2>1, <2>2 DEF AppendReplay
<1>3. CASE FinishReplay(w)
  <2>1. CASE sess[w].result = "failed"
    <3> DEFINE h == sess[w].hist \o sess[w].new
    <3>1. h \in Seq(Event) /\ Snapshot(h, log) /\ Accepts(h)
      BY <1>0, <1>3, <2>1 DEF FinishReplay, ChecksHold, ClientChecked, WorkerChecked
    <3>2. ~IsCancelled(h)
      BY <1>0, <1>3, NewNotCancelled DEF FinishReplay, ChecksHold, ClientChecked, WorkerChecked
    <3>3. ~IsCancelled(log)
      BY <3>1, <3>2, AcceptedIsLog DEF IsCancelled
    <3> QED
      BY <1>0, <1>3, <3>3 DEF FinishReplay, LogStep
  <2>2. CASE sess[w].result # "failed"
    BY <1>0, <1>3, <2>2 DEF FinishReplay, ResultEvents, LogStep
  <2> QED
    BY <2>1, <2>2
<1>4. CASE AppendTimeout(w)
  <2>0. wk[w].hist \in Seq(Event)
    BY DEF TypeOK, Worker
  <2>1. /\ wk[w].job.sig \in Signals
        /\ SignalWaiting(wk[w].hist, wk[w].job.sig)
        /\ ~SignalResolved(wk[w].hist, wk[w].job.sig)
        /\ Snapshot(wk[w].hist, log)
        /\ Accepts(wk[w].hist)
    BY <1>4 DEF AppendTimeout, ChecksHold, ClientChecked, WorkerChecked
  <2>2. SignalWaiting(log, wk[w].job.sig) /\ ~SignalResolved(log, wk[w].job.sig)
    BY <2>0, <2>1, AcceptedIsLog
       DEF SignalWaiting, SignalResolved, SignalReceived, SignalTimedOut
  <2> QED
    BY <1>4, <2>1, <2>2 DEF AppendTimeout, LogStep
<1>5. CASE ScheduledStart(w)
  <2>1. log = <<>>
    BY <1>0, <1>5 DEF ScheduledStart, Accepts, LastSequence
  <2> QED
    BY <1>5, <2>1 DEF ScheduledStart, LogStep
<1>6. CASE UNCHANGED log
  BY <1>6 DEF LogStep
<1> QED
  BY <1>1, <1>2, <1>3, <1>4, <1>5, <1>6 DEF WorkerStep, TakeJob, SkipRun, LoadRun,
     Replay, AbortReplay, ReplayPanics, ReplayConflict, SkipTimeout, LoadTimeout, TimeoutConflict,
     ScheduledConflict, WorkerInsert, CompleteJob, EndAttempt

\* Every step of the runner changes the log as LogStep says.
LEMMA NextLogStep == TypeOK /\ ChecksHold /\ [Next]_vars => LogStep
<1> SUFFICES ASSUME TypeOK, ChecksHold, [Next]_vars PROVE LogStep
  OBVIOUS
<1>1. CASE \E c \in Clients : ClientCall(c) \/ ClientStep(c)
  BY <1>1, ClientLogStep
<1>2. CASE \E w \in Workers : WorkerStep(w)
  BY <1>2, WorkerLogStep
<1>3. CASE UNCHANGED log
  BY <1>3 DEF LogStep
<1>4. CASE \/ UNCHANGED vars
           \/ \E c \in Clients : ClientCrash(c)
           \/ \E w \in Workers : CancelReplay(w) \/ WorkerCrash(w)
  <2>1. UNCHANGED log
    BY <1>4 DEF vars, ClientCrash, CancelReplay, WorkerCrash, EndAttempt
  <2> QED
    BY <1>3, <2>1
<1> QED
  BY <1>1, <1>2, <1>4 DEF Next

-----------------------------------------------------------------------------
(* ChecksHold is inductive.                                                *)

\* Each step appends a typed batch to the log.
LEMMA LogGrows ==
    ASSUME TypeOK, LogStep
    PROVE  \E b \in Seq(Event) : log' = log \o b
<1>1. CASE UNCHANGED log
  <2>1. log' = log \o <<>> /\ <<>> \in Seq(Event)
    BY <1>1 DEF TypeOK
  <2> QED
    BY <2>1
<1>2. ASSUME NEW e \in Event, log' = Append(log, e)
      PROVE  \E b \in Seq(Event) : log' = log \o b
  <2>1. log' = log \o << e >> /\ << e >> \in Seq(Event)
    BY <1>2 DEF TypeOK
  <2> QED
    BY <2>1
<1>3. CASE \E b \in Seq(WorkEvent) : log' = log \o b
  <2>1. WorkEvent \subseteq Event
    BY RunnerEvTypes DEF WorkEvent, ReplayerEvent
  <2>2. \A b \in Seq(WorkEvent) : b \in Seq(Event)
    BY <2>1
  <2> QED
    BY <1>3, <2>2
<1>4. CASE \E sig \in Signals, type \in {"signal.received", "signal.timeout"} :
             log' = Append(log, Ev(type, sig))
  BY <1>2, <1>4, RunnerEvTypes
<1> QED
  BY <1>1, <1>2, <1>3, <1>4, RunnerEvTypes DEF LogStep

\* A snapshot of the log stays one, and the log of now is one from then on.
LEMMA SnapshotStays ==
    ASSUME TypeOK, LogStep
    PROVE  /\ \A h \in Seq(Event) : Snapshot(h, log) => Snapshot(h, log')
           /\ Snapshot(log, log')
<1> PICK b \in Seq(Event) : log' = log \o b
  BY LogGrows
<1>1. /\ log \in Seq(Event)
      /\ Len(log') = Len(log) + Len(b)
      /\ Len(log) \in Nat /\ Len(b) \in Nat
      /\ \A i \in 1 .. Len(log) : log'[i] = log[i]
  BY ConcatFacts DEF TypeOK
<1>2. ASSUME NEW h \in Seq(Event), Snapshot(h, log)
      PROVE  Snapshot(h, log')
  <2>1. Len(h) \in Nat /\ Len(h) <= Len(log) /\ \A i \in 1 .. Len(h) : h[i] = log[i]
    BY <1>2 DEF Snapshot
  <2> QED
    BY <1>1, <2>1 DEF Snapshot
<1>3. Snapshot(log, log')
  BY <1>1 DEF Snapshot
<1> QED
  BY <1>2, <1>3

\* Callers: one caller moves to v, the others keep what they know.
LEMMA ClientsChecked ==
    ASSUME TypeOK, ChecksHold, LogStep, NEW c \in Clients, NEW v,
           SetClient(c, v), ClientChecked(v, log')
    PROVE  \A d \in Clients : ClientChecked(cl'[d], log')
<1> TAKE d \in Clients
<1>1. CASE d = c
  BY <1>1 DEF SetClient, TypeOK
<1>2. CASE d # c
  <2>1. cl'[d] = cl[d] /\ cl[d].hist \in Seq(Event)
    BY <1>2 DEF SetClient, TypeOK, Client
  <2>2. ClientChecked(cl[d], log)
    BY DEF ChecksHold
  <2> QED
    BY <2>1, <2>2, SnapshotStays DEF ClientChecked
<1> QED
  BY <1>1, <1>2

\* If no caller moves, each caller keeps what it knows while the log grows.
LEMMA ClientsStay ==
    ASSUME TypeOK, ChecksHold, LogStep, UNCHANGED cl
    PROVE  \A d \in Clients : ClientChecked(cl'[d], log')
<1> TAKE d \in Clients
<1>1. ClientChecked(cl[d], log) /\ cl'[d] = cl[d] /\ cl[d].hist \in Seq(Event)
  BY DEF ChecksHold, TypeOK, Client
<1> QED
  BY <1>1, SnapshotStays DEF ClientChecked

\* Workers: what a worker that does not move knows.
LEMMA WorkerStays ==
    ASSUME TypeOK, ChecksHold, LogStep, NEW w \in Workers,
           wk'[w] = wk[w],
           sess'[w].hist = sess[w].hist,
           sess'[w].new = sess[w].new \/ wk[w].pc # "outcome"
    PROVE  WorkerChecked(wk'[w], sess'[w], log')
<1>1. WorkerChecked(wk[w], sess[w], log)
  BY DEF ChecksHold
<1>2. wk[w].hist \in Seq(Event) /\ sess[w].hist \in Seq(Event) /\ sess[w].new \in Seq(Event)
  BY ReplayEventsTypes DEF TypeOK, Worker
<1>3. sess[w].hist \o sess[w].new \in Seq(Event)
  BY <1>2
<1> QED
  BY <1>1, <1>2, <1>3, SnapshotStays DEF WorkerChecked

\* If no worker moves, each worker keeps what it knows while the log grows.
LEMMA WorkersStay ==
    ASSUME TypeOK, ChecksHold, LogStep, UNCHANGED <<wk, sess>>
    PROVE  \A w \in Workers : WorkerChecked(wk'[w], sess'[w], log')
  BY WorkerStays

\* A worker that holds nothing to append has nothing to know.
LEMMA NothingToCheck ==
    ASSUME NEW x, NEW S, NEW l, x.pc \in {"idle", "load", "insert", "ack"}
    PROVE  WorkerChecked(x, S, l)
  BY DEF WorkerChecked

\* A step of worker w leaves the other workers and their replays alone.
LEMMA OthersStay ==
    ASSUME TypeOK, NEW w \in Workers,
           UNCHANGED wk \/ \E v : SetWorker(w, v),
           UNCHANGED sess \/ \E S : SetSession(w, S)
    PROVE  \A x \in Workers \ {w} : wk'[x] = wk[x] /\ sess'[x] = sess[x]
  BY DEF TypeOK, SetWorker, SetSession

\* The worker that a step sets has the value it is set to.
LEMMA SetWorkerSets ==
    ASSUME TypeOK, NEW w \in Workers, NEW v, SetWorker(w, v)
    PROVE  wk'[w] = v
  BY DEF TypeOK, SetWorker

\* The replay that a step sets has the value it is set to.
LEMMA SetSessionSets ==
    ASSUME TypeOK, NEW w \in Workers, NEW S, SetSession(w, S)
    PROVE  sess'[w] = S
  BY DEF TypeOK, SetSession

\* One worker moves to a state that knows enough; the others keep what they know.
LEMMA WorkersChecked ==
    ASSUME TypeOK, ChecksHold, LogStep, NEW w \in Workers,
           \A x \in Workers \ {w} : wk'[x] = wk[x] /\ sess'[x] = sess[x],
           WorkerChecked(wk'[w], sess'[w], log')
    PROVE  \A x \in Workers : WorkerChecked(wk'[x], sess'[x], log')
<1> TAKE x \in Workers
<1>1. CASE x = w
  BY <1>1
<1>2. CASE x # w
  BY <1>2, WorkerStays
<1> QED
  BY <1>1, <1>2

\* Every step of an API call keeps ChecksHold.
LEMMA ClientKeepsChecks ==
    ASSUME TypeOK, ChecksHold, LogStep, NEW c \in Clients,
           ClientCall(c) \/ ClientStep(c) \/ ClientCrash(c)
    PROVE  ChecksHold'
<1>0. UNCHANGED <<wk, sess>>
  BY DEF ClientCall, ClientStep, ClientCrash, StartWorkflow, CancelWorkflow, SendSignal,
     AppendSignal, AppendCancel, InsertJob, ClientConflict
<1>1. \A d \in Clients : ClientChecked(cl'[d], log')
  <2>1. CASE UNCHANGED cl
    BY <2>1, ClientsStay
  <2>2. CASE \E v : SetClient(c, v) /\ v.pc # "append"
    BY <2>2, ClientsChecked DEF ClientChecked
  <2>3. CASE CancelWorkflow(c)
    <3> DEFINE v == [pc |-> "append", op |-> "cancel", sig |-> None, hist |-> log]
    <3>1. SetClient(c, v) /\ log' = log /\ ~IsCancelled(log)
      BY <2>3 DEF CancelWorkflow
    <3>2. ClientChecked(v, log')
      BY <3>1, SnapshotStays DEF ClientChecked
    <3> QED
      BY <3>1, <3>2, ClientsChecked
  <2>4. CASE \E sig \in Signals : SendSignal(c, sig)
    <3> PICK sig \in Signals : SendSignal(c, sig)
      BY <2>4
    <3> DEFINE v == [pc |-> "append", op |-> "signal", sig |-> sig, hist |-> log]
    <3>1. /\ SetClient(c, v) /\ log' = log
          /\ SignalWaiting(log, sig) /\ ~SignalResolved(log, sig)
      BY DEF SendSignal
    <3>2. ClientChecked(v, log')
      BY <3>1, SnapshotStays DEF ClientChecked
    <3> QED
      BY <3>1, <3>2, ClientsChecked
  <2>5. /\ IdleClient.pc # "append"
        /\ [IdleClient EXCEPT !.pc = "insert", !.op = "start"].pc # "append"
        /\ [IdleClient EXCEPT !.pc = "insert", !.op = "signal"].pc # "append"
    BY DEF IdleClient
  <2> QED
    BY <2>1, <2>2, <2>3, <2>4, <2>5 DEF ClientCall, ClientStep, ClientCrash,
       StartWorkflow, AppendSignal, AppendCancel, InsertJob, ClientConflict
<1> QED
  BY <1>0, <1>1, WorkersStay DEF ChecksHold

\* A replay that goes on, or that loses its context, keeps its snapshot.
LEMMA ReplayKeepsChecks ==
    ASSUME TypeOK, ChecksHold, LogStep, NEW w \in Workers, Replay(w) \/ CancelReplay(w)
    PROVE  ChecksHold'
<1>1. UNCHANGED <<wk, cl>> /\ wk[w].pc = "replay"
  BY DEF Replay, CancelReplay
<1>2. /\ sess'[w].hist = sess[w].hist
      /\ \A x \in Workers \ {w} : sess'[x] = sess[x]
  <2>1. CASE Replay(w)
    BY <2>1, RunnerAssumption, ReplayStepOwn, ChildStepOwn DEF Replay, TypeOK, TypedSessions
  <2>2. CASE CancelReplay(w)
    BY <2>2 DEF CancelReplay, CancelContext, SetSession, TypeOK, Session
  <2> QED
    BY <2>1, <2>2
<1>3. WorkerChecked(wk'[w], sess'[w], log')
  BY <1>1, <1>2, WorkerStays
<1> QED
  BY <1>1, <1>2, <1>3, WorkersChecked, ClientsStay DEF ChecksHold

\* Every step of a worker keeps ChecksHold.
LEMMA WorkerKeepsChecks ==
    ASSUME TypeOK, ChecksHold, LogStep, NEW w \in Workers, WorkerStep(w) \/ WorkerCrash(w)
    PROVE  ChecksHold'
<1>1. SUFFICES ASSUME ~Replay(w) PROVE ChecksHold'
  BY ReplayKeepsChecks
<1>2. UNCHANGED cl
  BY <1>1 DEF WorkerStep, WorkerCrash, TakeJob, SkipRun, LoadRun, AbortReplay, ReplayPanics, CommitReplay,
     AppendReplay, FinishReplay, ReplayConflict, SkipTimeout, LoadTimeout, AppendTimeout,
     TimeoutConflict, ScheduledStart, ScheduledConflict, WorkerInsert, CompleteJob, EndAttempt
<1>3. ASSUME NEW v, SetWorker(w, v), v.pc \in {"idle", "load", "insert", "ack"},
             UNCHANGED sess \/ \E S : SetSession(w, S)
      PROVE  ChecksHold'
  <2>1. wk'[w] = v
    BY <1>3, SetWorkerSets
  <2>2. WorkerChecked(wk'[w], sess'[w], log')
    BY <1>3, <2>1, NothingToCheck
  <2>3. \A x \in Workers \ {w} : wk'[x] = wk[x] /\ sess'[x] = sess[x]
    BY <1>3, OthersStay
  <2> QED
    BY <1>2, <2>2, <2>3, WorkersChecked, ClientsStay DEF ChecksHold
<1>4. CASE EndAttempt(w)
  BY <1>3, <1>4 DEF EndAttempt, IdleWorker
<1>5. CASE LoadRun(w)
  <2>1. sess'[w].hist = log /\ wk'[w].pc = "replay" /\ log' = log /\ ~IsCancelled(log)
    BY <1>5 DEF LoadRun, SetSession, SetWorker, NewReplayer, NoSession, TypeOK, Worker
  <2>2. WorkerChecked(wk'[w], sess'[w], log')
    BY <2>1, SnapshotStays DEF WorkerChecked
  <2>3. \A x \in Workers \ {w} : wk'[x] = wk[x] /\ sess'[x] = sess[x]
    BY <1>5, OthersStay DEF LoadRun
  <2> QED
    BY <1>2, <2>2, <2>3, WorkersChecked, ClientsStay DEF ChecksHold
<1>6. CASE LoadTimeout(w)
  <2>1. /\ wk'[w].hist = log /\ wk'[w].pc = "append" /\ wk'[w].job = wk[w].job
        /\ log' = log /\ sess' = sess
        /\ SignalWaiting(log, wk[w].job.sig) /\ ~SignalResolved(log, wk[w].job.sig)
    BY <1>6 DEF LoadTimeout, SetWorker, TypeOK, Worker
  <2>2. wk[w].job.sig \in Signals
    BY <1>6 DEF LoadTimeout, TypeOK, Worker, Job
  <2>3. WorkerChecked(wk'[w], sess'[w], log')
    BY <2>1, <2>2, SnapshotStays DEF WorkerChecked
  <2>4. \A x \in Workers \ {w} : wk'[x] = wk[x] /\ sess'[x] = sess[x]
    BY <1>6, OthersStay DEF LoadTimeout
  <2> QED
    BY <1>2, <2>3, <2>4, WorkersChecked, ClientsStay DEF ChecksHold
<1>7. CASE AppendReplay(w)
  <2> DEFINE h == sess[w].hist
             n == sess[w].new
  <2>1. wk'[w].pc = "outcome" /\ sess' = sess /\ log' = log \o n
    BY <1>7 DEF AppendReplay, SetWorker, TypeOK, Worker
  <2>2. Snapshot(h, log) /\ ~IsCancelled(h)
    BY <1>7 DEF AppendReplay, ReplayEnded, ChecksHold, WorkerChecked
  <2>3. h \in Seq(Event) /\ n \in Seq(Event) /\ log \in Seq(Event)
    BY ReplayEventsTypes DEF TypeOK
  <2>4. Snapshot(h \o n, log')
    <3>1. CASE n = <<>>
      <4>1. h \o n = h
        BY <2>3, <3>1
      <4> QED
        BY <2>2, <2>3, <4>1, SnapshotStays
    <3>2. CASE Accepts(h)
      <4>1. h = log
        BY <2>2, <2>3, <3>2, AcceptedIsLog, SeqEqual
      <4>2. h \o n = log' /\ log' \in Seq(Event)
        BY <2>1, <2>3, <4>1
      <4>3. Snapshot(log', log')
        BY <4>2 DEF Snapshot
      <4> QED
        BY <4>2, <4>3
    <3> QED
      BY <1>7, <3>1, <3>2 DEF AppendReplay
  <2>5. WorkerChecked(wk'[w], sess'[w], log')
    BY <2>1, <2>2, <2>4 DEF WorkerChecked
  <2>6. \A x \in Workers \ {w} : wk'[x] = wk[x] /\ sess'[x] = sess[x]
    BY <1>7, OthersStay DEF AppendReplay
  <2> QED
    BY <1>2, <2>5, <2>6, WorkersChecked, ClientsStay DEF ChecksHold
<1>8. CASE TakeJob(w)
  <2>1. PICK j \in QueuedJob :
          SetWorker(w, [IdleWorker EXCEPT !.pc = "load", !.job = [j EXCEPT !.left = @ - 1]])
    BY <1>8 DEF TakeJob
  <2>2. [IdleWorker EXCEPT !.pc = "load", !.job = [j EXCEPT !.left = @ - 1]].pc = "load"
    BY DEF IdleWorker
  <2> QED
    BY <1>3, <1>8, <2>1, <2>2 DEF TakeJob
<1>9. \A pc, h : /\ [wk[w] EXCEPT !.pc = pc].pc = pc
                /\ [wk[w] EXCEPT !.pc = pc, !.hist = h].pc = pc
  BY DEF TypeOK, Worker
<1>10. CASE CompleteJob(w)
  BY <1>3, <1>10 DEF CompleteJob, IdleWorker
<1>11. CASE CommitReplay(w) \/ FinishReplay(w)
  BY <1>3, <1>9, <1>11 DEF CommitReplay, FinishReplay
<1>12. CASE SkipRun(w) \/ SkipTimeout(w) \/ WorkerInsert(w)
  BY <1>3, <1>9, <1>12 DEF SkipRun, SkipTimeout, WorkerInsert
<1>13. CASE AppendTimeout(w) \/ ScheduledStart(w)
  BY <1>3, <1>9, <1>13, ZenonT(40) DEF AppendTimeout, ScheduledStart
<1> QED
  BY <1>1, <1>4, <1>5, <1>6, <1>7, <1>8, <1>10, <1>11, <1>12, <1>13
     DEF WorkerStep, WorkerCrash, AbortReplay, ReplayPanics, ReplayConflict, TimeoutConflict, ScheduledConflict

\* At first nobody is about to append.
LEMMA InitChecksHold == Init => ChecksHold
<1> SUFFICES ASSUME Init PROVE ChecksHold
  OBVIOUS
<1>1. \A c \in Clients : cl[c].pc = "idle"
  BY DEF Init, IdleClient
<1>2. \A w \in Workers : wk[w].pc = "idle"
  BY DEF Init, IdleWorker
<1> QED
  BY <1>1, <1>2 DEF ChecksHold, ClientChecked, WorkerChecked

\* Every step of the runner keeps ChecksHold.
LEMMA NextChecksHold == TypeOK /\ ChecksHold /\ [Next]_vars => ChecksHold'
<1> SUFFICES ASSUME TypeOK, ChecksHold, [Next]_vars PROVE ChecksHold'
  OBVIOUS
<1>1. LogStep
  BY NextLogStep
<1>2. CASE UNCHANGED vars
  BY <1>1, <1>2, ClientsStay, WorkersStay DEF vars, ChecksHold
<1>3. CASE Next
  BY <1>1, <1>3, ClientKeepsChecks, WorkerKeepsChecks, ReplayKeepsChecks DEF Next
<1> QED
  BY <1>2, <1>3

-----------------------------------------------------------------------------
(* The theorems.                                                           *)

\* Every append of SendSignal, CancelWorkflow and the workers rests on a check
\* of a history loaded earlier; that history is still a prefix of the log, and
\* it passed the check.  TypeOK and ChecksHold hold together: a caller's signal is typed only because
\* its check found the wait of a signal, and a snapshot is one only while the
\* log grows by typed batches.
THEOREM ChecksCorrect == Spec => []TypeOK /\ []ChecksHold
<1>1. Init => TypeOK /\ ChecksHold
  BY InitTypeOK, InitChecksHold
<1>2. TypeOK /\ ChecksHold /\ [Next]_vars => TypeOK' /\ ChecksHold'
  BY NextTypeOK, NextChecksHold
<1> QED
  BY <1>1, <1>2, PTL DEF Spec

\* Type correctness of callers, workers, replays, queue and log, for any
\* workflow, any number of callers and workers and any number of crashes: what
\* SendSignal, Replay and the workers write are events of the run's own names.
THEOREM TypeCorrect == Spec => []TypeOK
  BY ChecksCorrect, PTL

\* What a replay or a failed run appends resolves and cancels nothing.
LEMMA WorkBatch ==
    ASSUME NEW b \in Seq(WorkEvent)
    PROVE  /\ b \in Seq(Event)
           /\ \A k \in DOMAIN b : b[k].type \notin {"signal.received", "signal.timeout",
                                                  "workflow.cancelled"}
<1>1. WorkEvent \subseteq Event
  BY RunnerEvTypes DEF WorkEvent, ReplayerEvent
<1>2. \A e \in WorkEvent : e.type \notin {"signal.received", "signal.timeout",
                                           "workflow.cancelled"}
  BY DEF WorkEvent, ReplayerEvent, ReplayerTypes, FailedEvent, Ev, EvData
<1>3. \A k \in DOMAIN b : b[k] \in WorkEvent
  OBVIOUS
<1> QED
  BY <1>1, <1>2, <1>3

\* Where an entry of the next log comes from.
LEMMA NextEntry ==
    ASSUME TypeOK, NEW b \in Seq(Event), log' = log \o b, NEW i \in DOMAIN log'
    PROVE  \/ i \in DOMAIN log /\ log'[i] = log[i]
           \/ i \notin DOMAIN log /\ \E k \in DOMAIN b : log'[i] = b[k]
  BY ConcatElement DEF TypeOK

\* What is in the log stays there, at its place.
LEMMA OldEntry ==
    ASSUME TypeOK, LogStep, NEW i \in DOMAIN log
    PROVE  i \in DOMAIN log' /\ log'[i] = log[i]
<1> PICK b \in Seq(Event) : log' = log \o b
  BY LogGrows
<1> QED
  BY ConcatFacts DEF TypeOK

\* A LogStep resolves no signal a second time and none that nobody waits for.
LEMMA ResolvedOnceStep == TypeOK /\ LogStep /\ SignalResolvedOnce => SignalResolvedOnce'
<1> SUFFICES ASSUME TypeOK, LogStep, SignalResolvedOnce PROVE SignalResolvedOnce'
  OBVIOUS
<1>0. DOMAIN log = 1 .. Len(log) /\ Len(log) \in Nat
  BY DEF TypeOK
\* A resolution of sig in the next log is an old one, or the first.
<1>1. ASSUME NEW i \in DOMAIN log', NEW sig \in Signals, Resolution(log'[i], sig)
      PROVE  \/ i \in DOMAIN log /\ log'[i] = log[i]
             \/ /\ i = Len(log) + 1
                /\ SignalWaiting(log, sig)
                /\ ~SignalResolved(log, sig)
  <2>1. CASE UNCHANGED log
    BY <1>1, <2>1
  <2>2. ASSUME NEW e \in Event, log' = Append(log, e)
        PROVE  \/ i \in DOMAIN log /\ log'[i] = log[i]
               \/ i = Len(log) + 1 /\ log'[i] = e
    <3>1. /\ DOMAIN log' = 1 .. Len(log) + 1
          /\ log'[Len(log) + 1] = e
          /\ \A k \in 1 .. Len(log) : log'[k] = log[k]
      BY <1>0, <2>2 DEF TypeOK
    <3>2. i \in 1 .. Len(log) \/ i = Len(log) + 1
      BY <1>0, <1>1, <3>1
    <3>3. CASE i = Len(log) + 1
      BY <3>1, <3>3
    <3>4. CASE i \in 1 .. Len(log)
      BY <1>0, <3>1, <3>4
    <3> QED
      BY <3>2, <3>3, <3>4
  <2>3. CASE log' = Append(log, StartedEvent) \/ log' = Append(log, CancelledEvent)
    BY <1>1, <2>2, <2>3, RunnerEvTypes DEF Resolution, StartedEvent, CancelledEvent, Ev, EvData
  <2>4. CASE \E s \in Signals, type \in {"signal.received", "signal.timeout"} :
               /\ log' = Append(log, Ev(type, s))
               /\ SignalWaiting(log, s)
               /\ ~SignalResolved(log, s)
    BY <1>1, <2>2, <2>4, RunnerEvTypes DEF Resolution, Ev, EvData
  <2>5. CASE \E b \in Seq(WorkEvent) : log' = log \o b
    <3> PICK b \in Seq(WorkEvent) : log' = log \o b
      BY <2>5
    <3> QED
      BY <1>1, WorkBatch, NextEntry DEF Resolution
  <2> QED
    BY <2>1, <2>3, <2>4, <2>5 DEF LogStep
<1>2. ASSUME NEW sig \in Signals, NEW i \in DOMAIN log, Resolution(log[i], sig)
      PROVE  SignalResolved(log, sig)
  BY <1>2 DEF Resolution, SignalResolved, SignalReceived, SignalTimedOut, Logged
<1>3. ASSUME NEW i \in DOMAIN log', NEW sig \in Signals, Resolution(log'[i], sig)
      PROVE  /\ \E k \in 1 .. i - 1 : log'[k].type = "signal.waiting" /\ log'[k].name = sig
             /\ \A j \in DOMAIN log' : Resolution(log'[j], sig) => j = i
  <2>1. CASE i \in DOMAIN log /\ log'[i] = log[i]
    <3>1. PICK k \in 1 .. i - 1 : log[k].type = "signal.waiting" /\ log[k].name = sig
      BY <1>3, <2>1 DEF SignalResolvedOnce
    <3>2. log'[k] = log[k]
      BY <1>0, <2>1, <3>1, OldEntry
    <3>3. SignalResolved(log, sig)
      BY <1>2, <1>3, <2>1
    <3>4. ASSUME NEW j \in DOMAIN log', Resolution(log'[j], sig) PROVE j = i
      <4>1. j \in DOMAIN log /\ log'[j] = log[j]
        BY <1>1, <3>3, <3>4
      <4> QED
        BY <1>3, <2>1, <3>4, <4>1 DEF SignalResolvedOnce
    <3> QED
      BY <3>1, <3>2, <3>4
  <2>2. CASE i = Len(log) + 1 /\ SignalWaiting(log, sig) /\ ~SignalResolved(log, sig)
    <3>1. PICK k \in DOMAIN log : log[k].type = "signal.waiting" /\ log[k].name = sig
      BY <2>2 DEF SignalWaiting, Logged
    <3>2. k \in 1 .. i - 1 /\ log'[k] = log[k]
      BY <1>0, <2>2, <3>1, OldEntry
    <3>3. ASSUME NEW j \in DOMAIN log', Resolution(log'[j], sig) PROVE j = i
      BY <1>1, <1>2, <2>2, <3>3
    <3> QED
      BY <3>1, <3>2, <3>3
  <2> QED
    BY <1>1, <1>3, <2>1, <2>2
<1> QED
  BY <1>3 DEF SignalResolvedOnce

\* Signals: whatever SendSignal and the timeout workers do, in any interleaving
\* and after any crash, a signal is resolved at most once and never before the
\* run waits for it.
THEOREM SignalCorrect == Spec => []SignalResolvedOnce
<1>1. Init => SignalResolvedOnce
  BY DEF Init, SignalResolvedOnce
<1>2. TypeOK /\ ChecksHold /\ [Next]_vars /\ SignalResolvedOnce => SignalResolvedOnce'
  BY NextLogStep, ResolvedOnceStep
<1> QED
  BY <1>1, <1>2, ChecksCorrect, PTL DEF Spec

\* A LogStep adds nothing but resolutions after a cancellation.
LEMMA CancelStep == TypeOK /\ LogStep /\ CancelStopsReplay => CancelStopsReplay'
<1> SUFFICES ASSUME TypeOK, LogStep, CancelStopsReplay PROVE CancelStopsReplay'
  OBVIOUS
<1>0. DOMAIN log = 1 .. Len(log) /\ Len(log) \in Nat
  BY DEF TypeOK
<1>1. CASE UNCHANGED log
  BY <1>1 DEF CancelStopsReplay
<1>2. ASSUME NEW e \in Event, log' = Append(log, e)
      PROVE  /\ Len(log') = Len(log) + 1 /\ DOMAIN log' = 1 .. Len(log')
             /\ log'[Len(log) + 1] = e
             /\ \A i \in 1 .. Len(log) : log'[i] = log[i]
  BY <1>0, <1>2 DEF TypeOK
<1>3. CASE \E s \in Signals, type \in {"signal.received", "signal.timeout"} :
             log' = Append(log, Ev(type, s))
  <2> PICK s \in Signals, type \in {"signal.received", "signal.timeout"} :
             log' = Append(log, Ev(type, s))
    BY <1>3
  <2>1. /\ Ev(type, s) \in Event
        /\ Ev(type, s).type \in {"signal.received", "signal.timeout"}
        /\ Ev(type, s) # CancelledEvent
    BY RunnerEvTypes DEF Ev, EvData, CancelledEvent
  <2> QED
    BY <1>0, <1>2, <2>1 DEF CancelStopsReplay
<1>4. ASSUME ~IsCancelled(log) PROVE \A i \in DOMAIN log : log[i] # CancelledEvent
  BY <1>4 DEF IsCancelled, Logged, CancelledEvent, Ev, EvData
<1>5. CASE log = <<>> /\ log' = Append(log, StartedEvent)
  <2>1. StartedEvent # CancelledEvent
    BY DEF StartedEvent, CancelledEvent, Ev, EvData
  <2> QED
    BY <1>0, <1>2, <1>5, <2>1, RunnerEvTypes DEF CancelStopsReplay
<1>6. CASE log' = Append(log, CancelledEvent) /\ ~IsCancelled(log)
  BY <1>0, <1>2, <1>4, <1>6, RunnerEvTypes DEF CancelStopsReplay
<1>7. CASE ~IsCancelled(log) /\ \E b \in Seq(WorkEvent) : log' = log \o b
  <2> PICK b \in Seq(WorkEvent) : log' = log \o b
    BY <1>7
  <2>1. b \in Seq(Event) /\ \A k \in DOMAIN b : b[k] # CancelledEvent
    BY WorkBatch DEF CancelledEvent, Ev, EvData
  <2>2. \A i \in DOMAIN log : log[i] # CancelledEvent
    BY <1>4, <1>7
  <2>3. ASSUME NEW i \in DOMAIN log' PROVE log'[i] # CancelledEvent
    BY <2>1, <2>2, NextEntry
  <2> QED
    BY <2>3 DEF CancelStopsReplay
<1> QED
  BY <1>1, <1>3, <1>5, <1>6, <1>7 DEF LogStep

\* Cancellation: once workflow.cancelled is stored, no replay that was under
\* way, on any worker, adds an event to the run.
THEOREM CancelCorrect == Spec => []CancelStopsReplay
<1>1. Init => CancelStopsReplay
  BY DEF Init, CancelStopsReplay
<1>2. TypeOK /\ ChecksHold /\ [Next]_vars /\ CancelStopsReplay => CancelStopsReplay'
  BY NextLogStep, CancelStep
<1> QED
  BY <1>1, <1>2, ChecksCorrect, PTL DEF Spec
=============================================================================
