------------------------- MODULE ProjectionsProofs --------------------------
(***************************************************************************)
(* Proofs about the views of a run: GetRun (river/runner.go) and the       *)
(* projections (project/project.go), which are folds of the log.  That     *)
(* such a recursive function exists, and what it computes, is shown with   *)
(* the least position at which it would fail.                              *)
(***************************************************************************)
EXTENDS Projections, ChildrenProofs, FiniteSetTheorems, WellFoundedInduction

-----------------------------------------------------------------------------
(* Folds.                                                                  *)

\* A set of numbers that is not empty has a least one.
LEMMA LeastNumber ==
    ASSUME NEW T, T \subseteq Nat, T # {}
    PROVE  \E n \in T : \A m \in T : n <= m
<1>1. PICK n \in T : \A m \in T : ~(<<m, n>> \in OpToRel(<, Nat))
  BY NatLessThanWellFounded, WFMin, Zenon
<1>2. \A m \in T : <<m, n>> \in OpToRel(<, Nat) <=> m < n
  BY DEF OpToRel
<1>3. \A m \in T : ~(m < n)
  BY <1>1, <1>2, Zenon
<1>4. \A m \in T : n <= m
  BY <1>3
<1> QED
  BY <1>4, Zenon

\* A set of positions that has the first one, and with each the next.
LEMMA AllPositions ==
    ASSUME NEW n \in Nat, NEW T, 0 \in T, \A i \in 1 .. n : i - 1 \in T => i \in T
    PROVE  \A i \in 0 .. n : i \in T
<1> DEFINE missing == {i \in 0 .. n : i \notin T}
<1>1. missing = {}
  <2> SUFFICES ASSUME missing # {} PROVE FALSE
    OBVIOUS
  <2>1. PICK i \in missing : \A j \in missing : i <= j
    <3>1. missing \subseteq Nat
      OBVIOUS
    <3> HIDE DEF missing
    <3> QED
      BY <3>1, LeastNumber
  <2>2. i \in 1 .. n /\ i - 1 \in 0 .. n /\ ~(i <= i - 1)
    OBVIOUS
  <2> QED
    BY <2>1, <2>2
<1> QED
  BY <1>1

\* f is the fold of F over the events of h, from base on.
IsFold(f, R, F, base, h) ==
    /\ f \in [0 .. Len(h) -> R] /\ f[0] = base
    /\ \A i \in 1 .. Len(h) : f[i] = F[<<f[i - 1], h[i]>>]

\* A function of the state and the event gives a state for every prefix of h.
LEMMA FoldExists ==
    ASSUME NEW R, NEW base \in R, NEW E, NEW F \in [R \X E -> R], NEW h \in Seq(E)
    PROVE  \E f : IsFold(f, R, F, base, h)
<1> DEFINE Is(f, n) == /\ f \in [0 .. n -> R] /\ f[0] = base
                       /\ \A i \in 1 .. n : f[i] = F[<<f[i - 1], h[i]>>]
           T == {n \in Nat : \E f : Is(f, n)}
<1>0. Len(h) \in Nat /\ DOMAIN h = 1 .. Len(h) /\ \A i \in 1 .. Len(h) : h[i] \in E
  OBVIOUS
<1>1. 0 \in T
  <2>1. Is([i \in 0 .. 0 |-> base], 0)
    OBVIOUS
  <2> QED
    BY <2>1
<1>2. ASSUME NEW n \in 1 .. Len(h), n - 1 \in T PROVE n \in T
  <2>1. PICK f : Is(f, n - 1)
    BY <1>2
  <2> DEFINE g == [i \in 0 .. n |-> IF i = n THEN F[<<f[n - 1], h[n]>>] ELSE f[i]]
  <2>2. f[n - 1] \in R /\ h[n] \in E
    BY <1>0, <2>1
  <2>3. F[<<f[n - 1], h[n]>>] \in R
    BY <2>2
  <2>4. \A i \in 0 .. n : i # n => i \in 0 .. n - 1
    BY <1>0
  <2>5. g \in [0 .. n -> R] /\ g[0] = base
    BY <1>0, <2>1, <2>3, <2>4
  <2>6. ASSUME NEW i \in 1 .. n PROVE g[i] = F[<<g[i - 1], h[i]>>]
    <3>1. i - 1 \in 0 .. n - 1 /\ i - 1 # n /\ i - 1 \in 0 .. n /\ i \in 0 .. n
      BY <1>0
    <3>2. g[i - 1] = f[i - 1]
      BY <3>1
    <3>3. CASE i = n
      BY <3>1, <3>2, <3>3
    <3>4. CASE i # n
      <4>1. i \in 1 .. n - 1
        BY <1>0, <3>4
      <4> QED
        BY <2>1, <3>1, <3>2, <3>4, <4>1
    <3> QED
      BY <3>3, <3>4
  <2>7. Is(g, n)
    BY <2>5, <2>6
  <2>8. n \in Nat
    BY <1>0
  <2> HIDE DEF g, Is
  <2> QED
    BY <2>7, <2>8
<1>3. Len(h) \in T
  <2> HIDE DEF T
  <2>1. \A i \in 0 .. Len(h) : i \in T
    BY <1>0, <1>1, <1>2, AllPositions
  <2> QED
    BY <1>0, <2>1
<1> QED
  BY <1>3 DEF IsFold

\* Two functions that begin alike and, where they agree, go on alike.
LEMMA FoldUnique ==
    ASSUME NEW n \in Nat, NEW f, NEW g, f[0] = g[0],
           \A i \in 1 .. n : f[i - 1] = g[i - 1] => f[i] = g[i]
    PROVE  \A i \in 0 .. n : f[i] = g[i]
<1> DEFINE T == {i \in 0 .. n : f[i] = g[i]}
<1>1. 0 \in T /\ \A i \in 1 .. n : i - 1 \in T => i \in T
  OBVIOUS
<1> HIDE DEF T
<1>2. \A i \in 0 .. n : i \in T
  BY <1>1, AllPositions
<1> QED
  BY <1>2 DEF T

-----------------------------------------------------------------------------
(* The status of a run.                                                    *)

Statuses == {"pending", "running", "waiting", "completed", "failed", "cancelled"}

\* f is what GetRun computes, after each event of h.
IsStatus(f, h) ==
    /\ f \in [0 .. Len(h) -> Statuses] /\ f[0] = "pending"
    /\ \A i \in 1 .. Len(h) : f[i] = NextStatus(f[i - 1], h[i])

\* GetRun follows the events of the log.
LEMMA GetRunFolds ==
    ASSUME NEW h \in Seq(Event)
    PROVE  \E f : IsStatus(f, h) /\ GetRun(h) = f[Len(h)]
<1> DEFINE D == 0 .. Len(h)
           F == [x \in Statuses \X Event |-> NextStatus(x[1], x[2])]
           Eqn(f) == f = [i \in D |-> IF i = 0 THEN "pending" ELSE NextStatus(f[i - 1], h[i])]
<1>0. Len(h) \in Nat /\ DOMAIN h = 1 .. Len(h) /\ \A i \in 1 .. Len(h) : h[i] \in Event
  OBVIOUS
<1>1. \A status \in Statuses, e \in Event : NextStatus(status, e) \in Statuses
  BY DEF NextStatus, Statuses
<1>2. F \in [Statuses \X Event -> Statuses]
  BY <1>1
<1>3. "pending" \in Statuses
  BY DEF Statuses
<1> HIDE DEF F
<1>4. PICK f : IsFold(f, Statuses, F, "pending", h)
  BY <1>2, <1>3, FoldExists
<1>5. \A i \in 1 .. Len(h) : i - 1 \in D /\ i \in D
  BY <1>0
<1>6. \A i \in 1 .. Len(h) : f[i] = NextStatus(f[i - 1], h[i])
  BY <1>0, <1>4, <1>5 DEF F, IsFold
<1>7. \A i \in D : i = 0 \/ i \in 1 .. Len(h)
  BY <1>0
<1>8. Eqn(f)
  BY <1>4, <1>6, <1>7 DEF IsFold
<1> DEFINE c == CHOOSE g : Eqn(g)
<1>9. Eqn(c)
  BY <1>8
<1>10. GetRun(h) = c[Len(h)]
  BY DEF GetRun
<1> HIDE DEF c
<1>11. c[0] = "pending" /\ \A i \in 1 .. Len(h) : c[i] = NextStatus(c[i - 1], h[i])
  BY <1>0, <1>5, <1>9
<1>12. \A i \in 1 .. Len(h) : f[i - 1] = c[i - 1] => f[i] = c[i]
  BY <1>6, <1>11
<1>13. \A i \in D : f[i] = c[i]
  <2>1. f[0] = c[0]
    BY <1>4, <1>11 DEF IsFold
  <2> QED
    BY <1>0, <1>12, <2>1, FoldUnique, ZenonT(60)
<1>14. GetRun(h) = f[Len(h)]
  BY <1>0, <1>10, <1>13
<1> QED
  BY <1>4, <1>6, <1>14 DEF IsStatus, IsFold

-----------------------------------------------------------------------------
(* What the views rely on.                                                 *)

\* workflow.started is the first event and no other, and the events that the
\* runner itself writes are as it writes them.
Framed(h) ==
    /\ h # <<>> => h[1] = StartedEvent
    /\ \A i \in DOMAIN h :
          /\ h[i].type = "workflow.started" => i = 1
          /\ h[i].type = "workflow.failed" => h[i] = FailedEvent
          /\ h[i].type = "workflow.cancelled" => h[i] = CancelledEvent
          /\ h[i].type = "signal.timeout" => h[i].name \in Signals

\* A failed run is not completed later, if no step has cases: the failure of a
\* case is recorded under the name of the case, and a replay looks for the
\* failures of the workflow's own steps.
FailsForGood(h) ==
    CaseSteps = {} /\ (\E i \in DOMAIN h : h[i].type = "workflow.failed") => Open(h)

\* A replay has begun with workflow.started, and completes only a run without a
\* step that failed for good.
ReplayShown(S) ==
    /\ Framed(Trace(S))
    /\ S.result # "idle" => Trace(S) # <<>>
    /\ ~Open(S.new) => \A s \in Steps : ~GetFatalError(S.hist, s)

\* A caller that is about to cancel has seen a run.
CancelsRun(x) == x.pc = "append" /\ x.op = "cancel" => x.hist # <<>>

ShownGood ==
    /\ Framed(log) /\ FailsForGood(log)
    /\ \A w \in Workers : ReplayShown(sess[w])
    /\ \A c \in Clients : CancelsRun(cl[c])

\* What is added to a run that has begun.
LEMMA FramedGrows ==
    ASSUME NEW h \in Seq(Event), NEW b \in Seq(Event), Framed(h), h # <<>>,
           \A k \in DOMAIN b :
              /\ b[k].type # "workflow.started"
              /\ b[k].type = "workflow.failed" => b[k] = FailedEvent
              /\ b[k].type = "workflow.cancelled" => b[k] = CancelledEvent
              /\ b[k].type = "signal.timeout" => b[k].name \in Signals
    PROVE  Framed(h \o b) /\ h \o b # <<>>
<1> DEFINE t == h \o b
<1>0. /\ 1 \in DOMAIN h /\ 1 \in DOMAIN t /\ \A i \in DOMAIN h : t[i] = h[i]
      /\ \A i \in DOMAIN t : \/ i \in DOMAIN h /\ t[i] = h[i]
                             \/ i \notin DOMAIN h /\ \E k \in DOMAIN b : i = Len(h) + k /\ t[i] = b[k]
  BY Grown
<1>1. t # <<>>
  BY <1>0
<1> HIDE DEF t
<1>2. t[1] = StartedEvent
  BY <1>0 DEF Framed
<1>3. \A i \in DOMAIN t :
          /\ t[i].type = "workflow.started" => i = 1
          /\ t[i].type = "workflow.failed" => t[i] = FailedEvent
          /\ t[i].type = "workflow.cancelled" => t[i] = CancelledEvent
          /\ t[i].type = "signal.timeout" => t[i].name \in Signals
  BY <1>0 DEF Framed
<1>4. Framed(t)
  BY <1>2, <1>3 DEF Framed
<1> QED
  BY <1>1, <1>4 DEF t

\* The log of a run that has just been started.
LEMMA FramedStart == Framed(<< StartedEvent >>) /\ FailsForGood(<< StartedEvent >>)
<1>1. StartedEvent.type = "workflow.started"
  BY DEF StartedEvent, Ev, EvData
<1> HIDE DEF StartedEvent
<1>2. << StartedEvent >>[1] = StartedEvent /\ \A i \in DOMAIN << StartedEvent >> : i = 1
  OBVIOUS
<1> QED
  BY <1>1, <1>2 DEF Framed, FailsForGood

-----------------------------------------------------------------------------
(* Every step of a replay keeps ReplayShown.                               *)

\* Only a replay that runs takes a step.
LEMMA ReplayRuns ==
    ASSUME TypedSessions, NEW w \in Replayers, SessionGood(sess[w]),
           ReplayStep(w) \/ ChildStep(w) \/ CancelContext(w)
    PROVE  sess[w].result = "running"
<1> DEFINE S == sess[w]
<1>1. \A s \in Steps : S.go[s].pc # "none" => S.result = "running"
  BY DEF SessionGood, WaveShape
<1>2. ASSUME NEW s \in Steps, GoStep(w, s) PROVE S.go[s].pc # "none"
  BY <1>2 DEF GoStep, GoContextError, EnterStep, EnterBranch, StartAttempt, StepSucceeds,
     StepWaits, StepFails, BodyMayFail
<1>3. ASSUME ChildStep(w) PROVE \E s \in Steps : S.go[s].pc # "none"
  <2>1. PICK s \in Steps : InBodyMove(S, sess'[w], s)
    BY <1>3, ChildStepMoves
  <2>2. S.go[s].pc \in BodyPcs
    BY <2>1 DEF InBodyMove, InBody
  <2> QED
    BY <2>2 DEF BodyPcs
<1> QED
  BY <1>1, <1>2, <1>3 DEF ReplayStep, Suspend, CompleteReplay, BeginWave, EndWave, CollectResult,
     CancelContext, BetweenWaves, WaveDone

\* What it adds.
LEMMA ReplayKeepsShown ==
    ASSUME TypedSessions, NEW w \in Replayers, SessionGood(sess[w]), AttemptsGood(sess[w]),
           sess'[w] \in Session,
           ReplayShown(sess[w]), ReplayStep(w) \/ ChildStep(w) \/ CancelContext(w)
    PROVE  ReplayShown(sess'[w])
<1> DEFINE S == sess[w]
           T == sess'[w]
<1>1. S \in Session /\ T \in Session /\ S.result = "running" /\ Adds(S, T)
  BY ReplayRuns, ReplayAttempts DEF TypedSessions
<1>2. /\ ReplayShown(S) /\ Trace(S) # <<>> /\ \A s \in Steps : ~GetFatalError(S.hist, s)
  BY <1>1 DEF ReplayShown, SessionGood, WaitsKept
<1> HIDE DEF S, T
<1>3. PICK b \in Seq(Event) : T.new = S.new \o b /\ \A k \in DOMAIN b : b[k].type # "workflow.started"
  BY <1>1 DEF Adds
<1>4. T.hist = S.hist /\ Trace(T) = Trace(S) \o b /\ Trace(S) \in Seq(Event)
  BY <1>1, <1>3, TraceGrows, SessionTypes DEF Adds
<1>5. \A k \in DOMAIN b : b[k].type \notin {"workflow.failed", "workflow.cancelled", "signal.timeout"}
  <2>1. S.new \in Seq(Event) /\ T.new \in Seq(ReplayerEvent)
    BY <1>1, SessionTypes
  <2>2. \A k \in DOMAIN b : Len(S.new) + k \in DOMAIN T.new /\ T.new[Len(S.new) + k] = b[k]
    BY <1>3, <2>1, Grown
  <2>3. \A i \in DOMAIN T.new :
           T.new[i].type \notin {"workflow.failed", "workflow.cancelled", "signal.timeout"}
    <3>1. \A q \in Seq(ReplayerEvent) : \A i \in DOMAIN q : q[i] \in ReplayerEvent
      OBVIOUS
    <3> QED
      BY <2>1, <3>1 DEF ReplayerEvent, ReplayerTypes
  <2> QED
    BY <2>2, <2>3
<1>6. Framed(Trace(T)) /\ Trace(T) # <<>>
  BY <1>2, <1>3, <1>4, <1>5, FramedGrows DEF ReplayShown
<1>7. ReplayShown(T)
  BY <1>2, <1>4, <1>6 DEF ReplayShown
<1> QED
  BY <1>7 DEF T

\* A worker without a replay.
LEMMA NoSessionShown == ReplayShown(NoSession)
<1>1. NoSession.result = "idle" /\ NoSession.new = <<>> /\ Trace(NoSession) = <<>>
  BY DEF NoSession, Trace
<1>2. Framed(<<>>) /\ Open(<<>>)
  BY DEF Framed, Open
<1> QED
  BY <1>1, <1>2 DEF ReplayShown

\* A replay begins with the first event of the history, or writes it.
LEMMA NewReplayerShown ==
    ASSUME NEW h \in Seq(Event), Framed(h), ~IsCancelled(h), ~IsCompleted(h)
    PROVE  ReplayShown(NewReplayer(h))
<1> DEFINE S == NewReplayer(h)
           b == IF GetWorkflowInput(h) THEN <<>> ELSE << StartedEvent >>
<1>1. S.hist = h /\ S.new = b
  BY DEF NewReplayer, NoSession, StartedEvent
<1>2. Open(b)
  BY DEF Open, StartedEvent, Ev, EvData
<1>3. CASE h # <<>>
  <2>1. 1 \in DOMAIN h /\ h[1].type = "workflow.started" /\ h[1].name = None
    BY <1>3 DEF Framed, StartedEvent, Ev, EvData
  <2>2. GetWorkflowInput(h)
    BY <2>1 DEF GetWorkflowInput, Logged
  <2>3. Trace(S) = h
    BY <1>1, <2>2 DEF Trace
  <2> QED
    BY <1>1, <1>2, <1>3, <2>3 DEF ReplayShown
<1>4. CASE h = <<>>
  <2>1. ~GetWorkflowInput(h)
    BY <1>4 DEF GetWorkflowInput, Logged
  <2>2. Trace(S) = << StartedEvent >>
    <3>1. StartedEvent \in Event
      BY RunnerEvTypes
    <3> HIDE DEF StartedEvent
    <3> QED
      BY <1>1, <1>4, <2>1, <3>1 DEF Trace
  <2>3. << StartedEvent >> # <<>>
    OBVIOUS
  <2> QED
    BY <1>1, <1>2, <2>2, <2>3, FramedStart DEF ReplayShown
<1> QED
  BY <1>3, <1>4

-----------------------------------------------------------------------------
(* Every step of the runner keeps ShownGood.                               *)

\* One event that is added to a run that is not completed.
LEMMA OneShown ==
    ASSUME NEW h \in Seq(Event), NEW e \in Event, Framed(h), h # <<>>, Open(h),
           e.type \notin {"workflow.started", "workflow.completed"},
           e.type = "workflow.failed" => e = FailedEvent,
           e.type = "workflow.cancelled" => e = CancelledEvent,
           e.type = "signal.timeout" => e.name \in Signals
    PROVE  Framed(Append(h, e)) /\ FailsForGood(Append(h, e))
<1> DEFINE b == << e >>
<1>1. b \in Seq(Event) /\ Append(h, e) = h \o b /\ \A k \in DOMAIN b : b[k] = e
  OBVIOUS
<1> HIDE DEF b
<1>2. Framed(h \o b)
  BY <1>1, FramedGrows
<1>3. Open(b)
  BY <1>1 DEF Open
<1>4. FailsForGood(h \o b)
  BY <1>1, <1>3, StaysOpen DEF FailsForGood
<1> QED
  BY <1>1, <1>2, <1>4

\* The start of a run.
LEMMA StartShown ==
    ASSUME TypeOK, Accepts(<<>>), log' = Append(log, StartedEvent)
    PROVE  Framed(log') /\ FailsForGood(log')
<1>1. log = <<>>
  BY DEF TypeOK, Accepts, LastSequence
<1>2. \A e \in Event : Append(<<>>, e) = << e >>
  OBVIOUS
<1>3. StartedEvent \in Event
  BY RunnerEvTypes
<1> QED
  BY <1>1, <1>2, <1>3, FramedStart

\* A signal, or its timeout, is appended to a log that waits for it.
LEMMA SignalShown ==
    ASSUME TypeOK, LogGood(log), Framed(log),
           NEW h \in Seq(Event), Snapshot(h, log), Accepts(h),
           NEW sig \in Signals, SignalWaiting(h, sig), ~SignalResolved(h, sig),
           NEW type \in {"signal.received", "signal.timeout"},
           log' = Append(log, Ev(type, sig))
    PROVE  Framed(log') /\ FailsForGood(log')
<1> DEFINE e == Ev(type, sig)
<1>1. e \in Event /\ e.type = type /\ e.name \in Signals
  BY RunnerEvTypes DEF Ev, EvData
<1>2. h = log /\ log \in Seq(Event)
  BY AcceptedEqual DEF TypeOK
<1>3. Open(log) /\ log # <<>>
  BY <1>2, OpenLog DEF SignalWaiting, Logged
<1> HIDE DEF e
<1>4. /\ e.type \notin {"workflow.started", "workflow.completed"}
      /\ e.type # "workflow.failed" /\ e.type # "workflow.cancelled"
  BY <1>1
<1>5. Framed(Append(log, e)) /\ FailsForGood(Append(log, e))
  BY <1>1, <1>2, <1>3, <1>4, OneShown
<1> QED
  BY <1>5 DEF e

\* What an API caller appends.
LEMMA ClientLogShown ==
    ASSUME TypeOK, ChecksHold, HistoryGood, ShownGood, NEW c \in Clients,
           ClientCall(c) \/ ClientStep(c) \/ ClientCrash(c)
    PROVE  Framed(log') /\ FailsForGood(log')
<1>0. /\ LogGood(log) /\ cl[c].hist \in Seq(Event) /\ log \in Seq(Event)
      /\ Framed(log) /\ FailsForGood(log)
  BY DEF HistoryGood, ShownGood, TypeOK, Client
<1>1. CASE StartWorkflow(c)
  BY <1>1, StartShown DEF StartWorkflow
<1>2. CASE AppendSignal(c)
  <2>1. /\ Snapshot(cl[c].hist, log) /\ Accepts(cl[c].hist)
        /\ cl[c].sig \in Signals
        /\ SignalWaiting(cl[c].hist, cl[c].sig)
        /\ ~SignalResolved(cl[c].hist, cl[c].sig)
        /\ log' = Append(log, Ev("signal.received", cl[c].sig))
    BY <1>2 DEF AppendSignal, ChecksHold, ClientChecked
  <2> QED
    BY <1>0, <2>1, SignalShown
<1>3. CASE AppendCancel(c)
  <2>1. /\ Snapshot(cl[c].hist, log) /\ Accepts(cl[c].hist)
        /\ ~IsCompleted(cl[c].hist) /\ cl[c].hist # <<>>
        /\ log' = Append(log, CancelledEvent)
    BY <1>3 DEF AppendCancel, ChecksHold, ClientChecked, HistoryGood, CancelsOpen, ShownGood,
       CancelsRun
  <2>2. cl[c].hist = log
    BY <1>0, <2>1, AcceptedEqual
  <2>3. Open(log) /\ log # <<>>
    BY <1>0, <2>1, <2>2, OpenLog
  <2>4. CancelledEvent \in Event /\ CancelledEvent.type = "workflow.cancelled"
    BY RunnerEvTypes DEF CancelledEvent, Ev, EvData
  <2> QED
    BY <1>0, <2>1, <2>3, <2>4, OneShown
<1>4. CASE UNCHANGED log
  BY <1>0, <1>4
<1> QED
  BY <1>1, <1>2, <1>3, <1>4 DEF ClientCall, ClientStep, ClientCrash, SendSignal,
     CancelWorkflow, InsertJob, ClientConflict

\* API callers have no replay.  A cancellation is prepared on a log with events.
LEMMA ClientKeepsShown ==
    ASSUME TypeOK, ChecksHold, HistoryGood, ShownGood, NEW c \in Clients,
           ClientCall(c) \/ ClientStep(c) \/ ClientCrash(c)
    PROVE  ShownGood'
<1>1. UNCHANGED sess
  BY DEF ClientCall, ClientStep, ClientCrash, StartWorkflow, CancelWorkflow, SendSignal,
     AppendSignal, AppendCancel, InsertJob, ClientConflict
<1>2. UNCHANGED cl \/ \E v : SetClient(c, v) /\ CancelsRun(v)
  <2>1. /\ CancelsRun(IdleClient)
        /\ CancelsRun([IdleClient EXCEPT !.pc = "insert", !.op = "start"])
        /\ CancelsRun([IdleClient EXCEPT !.pc = "insert", !.op = "signal"])
    BY DEF IdleClient, CancelsRun
  <2>2. \A sig : CancelsRun([pc |-> "append", op |-> "signal", sig |-> sig, hist |-> log])
    BY DEF CancelsRun
  <2>3. CASE CancelWorkflow(c)
    BY <2>3 DEF CancelWorkflow, CancelsRun
  <2> QED
    BY <2>1, <2>2, <2>3 DEF ClientCall, ClientStep, ClientCrash, StartWorkflow, SendSignal,
       AppendSignal, AppendCancel, InsertJob, ClientConflict
<1>3. \A d \in Clients : CancelsRun(cl'[d])
  BY <1>2 DEF ShownGood, SetClient, TypeOK
<1> QED
  BY <1>1, <1>3, ClientLogShown DEF ShownGood

\* A replay that continues a failed run fails again.
LEMMA TraceFails ==
    ASSUME NEW S \in Session, ReplayShown(S), FailsForGood(S.hist), FailsAfterCause(S.hist),
           Paired(S.hist)
    PROVE  FailsForGood(Trace(S))
<1> DEFINE h == S.hist
           n == S.new
<1>0. h \in Seq(Event) /\ n \in Seq(Event) /\ n \in Seq(ReplayerEvent) /\ Trace(S) = h \o n
  BY SessionTypes DEF Trace
<1> SUFFICES ASSUME CaseSteps = {}, NEW i \in DOMAIN Trace(S), Trace(S)[i].type = "workflow.failed"
             PROVE  Open(Trace(S))
  BY DEF FailsForGood
<1>1. FailsForGood(h) /\ FailsAfterCause(h) /\ Paired(h)
  OBVIOUS
<1> HIDE DEF h, n
<1>2. PICK j \in DOMAIN h : h[j].type = "workflow.failed"
  <2>1. \A q \in Seq(ReplayerEvent) : \A k \in DOMAIN q : q[k] \in ReplayerEvent
    OBVIOUS
  <2>2. \A k \in DOMAIN n : n[k].type # "workflow.failed"
    BY <1>0, <2>1 DEF ReplayerEvent, ReplayerTypes
  <2>3. \/ i \in DOMAIN h /\ Trace(S)[i] = h[i]
        \/ \E k \in DOMAIN n : Trace(S)[i] = n[k]
    BY <1>0, Grown
  <2> QED
    BY <2>2, <2>3
<1>3. Open(h)
  BY <1>1, <1>2 DEF FailsForGood
<1>4. PICK k \in 1 .. j - 1 : h[k].type = "step.failed" /\ h[k].data = "noRetry"
  BY <1>1, <1>2 DEF FailsAfterCause
<1>5. k \in DOMAIN h
  BY <1>0, <1>2, <1>4
<1>6. h[k].name \in Steps
  BY <1>1, <1>4, <1>5 DEF Paired, StepEvents, StepEnds, Names
<1>7. GetFatalError(h, h[k].name)
  BY <1>4, <1>5 DEF GetFatalError
<1>8. Open(n)
  BY <1>6, <1>7 DEF ReplayShown, h, n
<1> QED
  BY <1>0, <1>3, <1>8, StaysOpen

\* What the result of a replay adds.
LEMMA ResultShown ==
    ASSUME NEW S \in Session, SessionGood(S), NEW t \in Seq(Event), t = Trace(S),
           Framed(t), FailsForGood(t), S.result # "idle" => t # <<>>
    PROVE  Framed(t \o ResultEvents(S)) /\ FailsForGood(t \o ResultEvents(S))
<1>1. CASE S.result = "failed"
  <2>1. ResultEvents(S) = << FailedEvent >>
    BY <1>1 DEF ResultEvents
  <2>2. FailedEvent \in Event /\ FailedEvent.type = "workflow.failed"
    BY RunnerEvTypes DEF FailedEvent, Ev, EvData
  <2>3. t # <<>> /\ Open(t)
    BY <1>1 DEF SessionGood
  <2> HIDE DEF FailedEvent
  <2>4. t \o << FailedEvent >> = Append(t, FailedEvent)
    BY <2>2
  <2>5. Framed(Append(t, FailedEvent)) /\ FailsForGood(Append(t, FailedEvent))
    BY <2>2, <2>3, OneShown
  <2> QED
    BY <2>1, <2>4, <2>5
<1>2. CASE S.result # "failed"
  <2>1. ResultEvents(S) = <<>> /\ t \o <<>> = t
    BY <1>2 DEF ResultEvents
  <2> QED
    BY <2>1
<1> QED
  BY <1>1, <1>2

\* What a worker appends.
LEMMA WorkerLogShown ==
    ASSUME TypeOK, ChecksHold, HistoryGood, BodyGood, ShownGood, NEW w \in Workers,
           WorkerStep(w) \/ CancelReplay(w) \/ WorkerCrash(w)
    PROVE  Framed(log') /\ FailsForGood(log')
<1> DEFINE S == sess[w]
           t == Trace(S)
           r == ResultEvents(S)
<1>0. /\ LogGood(log) /\ FailsAfterCause(log) /\ log \in Seq(Event) /\ Paired(log)
      /\ Framed(log) /\ FailsForGood(log)
      /\ S \in Session /\ SessionGood(S) /\ ReplayShown(S)
      /\ S.hist \in Seq(Event) /\ S.new \in Seq(Event) /\ r \in Seq(Event)
      /\ t \in Seq(Event)
  BY ReplayEventsTypes, SessionTypes DEF HistoryGood, BodyGood, Kept, ShownGood, TypeOK
<1>7. S.hist = log => FailsForGood(t)
  BY <1>0, TraceFails
<1>8. Framed(t) /\ (S.result # "idle" => t # <<>>)
  BY <1>0 DEF ReplayShown
<1>1. CASE CommitReplay(w)
  <2>1. /\ Snapshot(S.hist, log) /\ Accepts(S.hist)
        /\ log' = log \o (S.new \o r)
    BY <1>1 DEF CommitReplay, ReplayEnded, ChecksHold, WorkerChecked
  <2>2. S.hist = log
    BY <1>0, <2>1, AcceptedEqual
  <2>3. log' = t \o r
    <3>1. \A x, y, z \in Seq(Event) : x \o (y \o z) = (x \o y) \o z
      OBVIOUS
    <3> QED
      BY <1>0, <2>1, <2>2, <3>1, ZenonT(40) DEF Trace
  <2> HIDE DEF t, r
  <2>4. Framed(t \o r) /\ FailsForGood(t \o r)
    BY <1>0, <1>7, <1>8, <2>2, ResultShown DEF t, r
  <2> QED
    BY <2>3, <2>4
<1>2. CASE AppendReplay(w)
  <2>1. /\ Snapshot(S.hist, log) /\ (S.new = <<>> \/ Accepts(S.hist))
        /\ log' = log \o S.new
    BY <1>2 DEF AppendReplay, ReplayEnded, ChecksHold, WorkerChecked
  <2>2. CASE S.new = <<>>
    <3>1. log' = log
      BY <1>0, <2>1, <2>2
    <3> QED
      BY <1>0, <3>1
  <2>3. CASE Accepts(S.hist)
    <3>1. S.hist = log
      BY <1>0, <2>1, <2>3, AcceptedEqual
    <3>2. log' = t
      BY <2>1, <3>1 DEF Trace
    <3> QED
      BY <1>7, <1>8, <3>1, <3>2
  <2> QED
    BY <2>1, <2>2, <2>3
<1>3. CASE FinishReplay(w)
  <2>1. log' = log \o r /\ Snapshot(t, log)
    BY <1>3 DEF FinishReplay, ChecksHold, WorkerChecked, Trace
  <2>2. CASE S.result # "failed"
    <3>1. log' = log
      BY <1>0, <2>1, <2>2 DEF ResultEvents
    <3> QED
      BY <1>0, <3>1
  <2>3. CASE S.result = "failed"
    <3>1. Accepts(t)
      BY <1>3, <2>3 DEF FinishReplay, Trace
    <3>2. t = log
      BY <1>0, <2>1, <3>1, AcceptedEqual
    <3>3. Framed(t \o r) /\ FailsForGood(t \o r)
      BY <1>0, <1>8, <3>2, ResultShown
    <3> QED
      BY <2>1, <3>2, <3>3
  <2> QED
    BY <2>2, <2>3
<1>4. CASE AppendTimeout(w)
  <2>1. /\ Snapshot(wk[w].hist, log) /\ Accepts(wk[w].hist)
        /\ wk[w].job.sig \in Signals
        /\ SignalWaiting(wk[w].hist, wk[w].job.sig)
        /\ ~SignalResolved(wk[w].hist, wk[w].job.sig)
        /\ log' = Append(log, Ev("signal.timeout", wk[w].job.sig))
    BY <1>4 DEF AppendTimeout, ChecksHold, WorkerChecked
  <2>2. wk[w].hist \in Seq(Event)
    BY DEF TypeOK, Worker
  <2> QED
    BY <1>0, <2>1, <2>2, SignalShown
<1>5. CASE ScheduledStart(w)
  BY <1>5, StartShown DEF ScheduledStart
<1>6. CASE UNCHANGED log
  BY <1>0, <1>6
<1> QED
  BY <1>1, <1>2, <1>3, <1>4, <1>5, <1>6 DEF WorkerStep, CancelReplay, WorkerCrash, TakeJob,
     SkipRun, LoadRun, Replay, AbortReplay, ReplayPanics, ReplayConflict, SkipTimeout,
     LoadTimeout, TimeoutConflict, ScheduledConflict, WorkerInsert, CompleteJob, EndAttempt

\* A worker's own replay.
LEMMA OwnReplayShown ==
    ASSUME TypeOK, TypeOK', HistoryGood, BodyGood, ShownGood, NEW w \in Workers,
           WorkerStep(w) \/ CancelReplay(w) \/ WorkerCrash(w)
    PROVE  ReplayShown(sess'[w])
<1>0. /\ SessionGood(sess[w]) /\ AttemptsGood(sess[w]) /\ ReplayShown(sess[w]) /\ Framed(log)
      /\ TypedSessions /\ w \in Replayers /\ log \in Seq(Event) /\ sess'[w] \in Session
  BY RunnerAssumption DEF HistoryGood, BodyGood, ShownGood, TypeOK, TypedSessions
<1>1. CASE Replay(w) \/ CancelReplay(w)
  <2>1. ReplayStep(w) \/ ChildStep(w) \/ CancelContext(w)
    BY <1>1 DEF Replay, CancelReplay
  <2> QED
    BY <1>0, <2>1, ReplayKeepsShown
<1>2. CASE EndAttempt(w)
  BY <1>2, SetSessionSets, NoSessionShown DEF EndAttempt
<1>3. CASE LoadRun(w)
  <2>1. ~IsCancelled(log) /\ ~IsCompleted(log) /\ sess'[w] = NewReplayer(log)
    BY <1>3, SetSessionSets DEF LoadRun
  <2> QED
    BY <1>0, <2>1, NewReplayerShown
<1>4. CASE CommitReplay(w) \/ FinishReplay(w)
  BY <1>4, SetSessionSets, NoSessionShown DEF CommitReplay, FinishReplay
<1>5. CASE UNCHANGED sess
  BY <1>0, <1>5
<1> QED
  BY <1>1, <1>2, <1>3, <1>4, <1>5
     DEF WorkerStep, WorkerCrash, AbortReplay, ReplayPanics, ReplayConflict, TimeoutConflict,
     ScheduledConflict, TakeJob, SkipRun, AppendReplay, SkipTimeout, LoadTimeout, AppendTimeout,
     ScheduledStart, WorkerInsert, CompleteJob

\* Every step of the runner keeps ShownGood.
LEMMA NextShown ==
    TypeOK /\ ChecksHold /\ HistoryGood /\ BodyGood /\ ShownGood /\ [Next]_vars => ShownGood'
<1> SUFFICES ASSUME TypeOK, ChecksHold, HistoryGood, BodyGood, ShownGood, [Next]_vars
             PROVE  ShownGood'
  OBVIOUS
<1>1. CASE UNCHANGED vars
  BY <1>1 DEF vars, ShownGood
<1>2. ASSUME NEW w \in Workers, WorkerStep(w) \/ CancelReplay(w) \/ WorkerCrash(w)
      PROVE  ShownGood'
  <2>1. \A x \in Workers \ {w} : sess'[x] = sess[x]
    BY <1>2, OthersReplay
  <2>2. UNCHANGED cl
    BY <1>2 DEF WorkerStep, CancelReplay, WorkerCrash, TakeJob, SkipRun, LoadRun, Replay,
       AbortReplay, ReplayPanics, CommitReplay, AppendReplay, FinishReplay, ReplayConflict,
       SkipTimeout, LoadTimeout, AppendTimeout, TimeoutConflict, ScheduledStart,
       ScheduledConflict, WorkerInsert, CompleteJob, EndAttempt
  <2>3. TypeOK'
    BY NextTypeOK
  <2> QED
    BY <1>2, <2>1, <2>2, <2>3, WorkerLogShown, OwnReplayShown DEF ShownGood
<1> QED
  BY <1>1, <1>2, ClientKeepsShown DEF Next

\* The first event of a run starts it, no other does, and, where no step has
\* cases, a failed run is not completed: the invariant that the views rely on.
THEOREM ShownCorrect == Spec => []ShownGood
<1>1. Init => ShownGood
  <2>1. Framed(<<>>) /\ FailsForGood(<<>>)
    BY DEF Framed, FailsForGood
  <2> QED
    BY <2>1, NoSessionShown DEF Init, ShownGood, CancelsRun, IdleClient
<1>2. TypeOK /\ ChecksHold /\ HistoryGood /\ BodyGood /\ ShownGood /\ [Next]_vars => ShownGood'
  BY NextShown
<1> QED
  BY <1>1, <1>2, ChecksCorrect, HistoryCorrect, BodyCorrect, PTL DEF Spec

-----------------------------------------------------------------------------
(* What GetRun shows.                                                      *)

\* What the log of a run keeps, for the views.
ViewGood(h) ==
    /\ h \in Seq(Event) /\ Framed(h) /\ FailsForGood(h) /\ LogGood(h) /\ Paired(h)
    /\ \A i \in DOMAIN h : h[i] = CancelledEvent =>
          \A j \in i + 1 .. Len(h) : h[j].type \in {"signal.received", "signal.timeout"}

\* The invariants say so.
THEOREM ViewCorrect == Spec => []ViewGood(log)
<1>1. TypeOK /\ HistoryGood /\ BodyGood /\ ShownGood /\ CancelStopsReplay => ViewGood(log)
  BY DEF TypeOK, HistoryGood, BodyGood, Kept, ShownGood, CancelStopsReplay, ViewGood
<1> QED
  BY <1>1, TypeCorrect, HistoryCorrect, BodyCorrect, ShownCorrect, CancelCorrect, PTL

\* The first i events of h have one of the type.
Seen(h, type, i) == \E j \in 1 .. i : h[j].type = type

\* ... one more event.
LEMMA SeenNext ==
    ASSUME NEW h, NEW type, NEW n \in Nat, NEW i \in 1 .. n
    PROVE  Seen(h, type, i) <=> Seen(h, type, i - 1) \/ h[i].type = type
<1>1. \A j \in 1 .. i : j \in 1 .. i - 1 \/ j = i
  OBVIOUS
<1>2. \A j \in 1 .. i - 1 : j \in 1 .. i
  OBVIOUS
<1>3. i \in 1 .. i
  OBVIOUS
<1> QED
  BY <1>1, <1>2, <1>3 DEF Seen

\* What cannot come after an event of a run.
LEMMA NothingAfter ==
    ASSUME NEW h, ViewGood(h), NEW i \in 1 .. Len(h)
    PROVE  /\ ~Seen(h, "workflow.completed", i - 1)
           /\ Seen(h, "workflow.cancelled", i - 1) =>
                 h[i].type \in {"signal.received", "signal.timeout"}
           /\ h[i].type = "workflow.started" <=> i = 1
           /\ CaseSteps = {} /\ Seen(h, "workflow.failed", i - 1) =>
                 h[i].type # "workflow.completed"
<1>0. /\ h \in Seq(Event) /\ Len(h) \in Nat /\ DOMAIN h = 1 .. Len(h) /\ i \in DOMAIN h
      /\ \A j \in 1 .. i - 1 : j \in DOMAIN h /\ j # Len(h) /\ i \in j + 1 .. Len(h)
  BY DEF ViewGood
<1>1. ~Seen(h, "workflow.completed", i - 1)
  BY <1>0 DEF Seen, ViewGood, LogGood, EndIsLast
<1>2. Seen(h, "workflow.cancelled", i - 1) => h[i].type \in {"signal.received", "signal.timeout"}
  BY <1>0 DEF Seen, ViewGood, Framed
<1>3. h[i].type = "workflow.started" <=> i = 1
  <2>1. h # <<>>
    <3>1. Len(h) # 0
      <4>1. Len(h) \in Nat
        BY <1>0
      <4> QED
        BY <4>1
    <3>2. Len(<<>>) = 0
      OBVIOUS
    <3> QED
      BY <3>1, <3>2
  <2>2. StartedEvent.type = "workflow.started"
    BY DEF StartedEvent, Ev, EvData
  <2> QED
    BY <1>0, <2>1, <2>2 DEF ViewGood, Framed
<1>4. CaseSteps = {} /\ Seen(h, "workflow.failed", i - 1) => h[i].type # "workflow.completed"
  BY <1>0 DEF Seen, ViewGood, FailsForGood, Open
<1> QED
  BY <1>1, <1>2, <1>3, <1>4

\* After i events, status s is what GetRun shows.
ShowsEnd(h, s, i) ==
    /\ s = "cancelled" <=> Seen(h, "workflow.cancelled", i)
    /\ s = "completed" <=> Seen(h, "workflow.completed", i)
    /\ s = "failed" <=> Seen(h, "workflow.failed", i) /\ ~Seen(h, "workflow.cancelled", i)

\* The end of a run is what its events say, after each of them.
LEMMA StatusFollows ==
    ASSUME CaseSteps = {}, NEW h, ViewGood(h), NEW f, IsStatus(f, h)
    PROVE  \A i \in 0 .. Len(h) : ShowsEnd(h, f[i], i)
<1>0. Len(h) \in Nat /\ f[0] = "pending"
  BY DEF ViewGood, IsStatus
<1> DEFINE T == {i \in 0 .. Len(h) : ShowsEnd(h, f[i], i)}
<1>1. 0 \in T
  <2>1. \A type : ~Seen(h, type, 0)
    BY DEF Seen
  <2> QED
    BY <1>0, <2>1 DEF ShowsEnd
<1>2. ASSUME NEW i \in 1 .. Len(h), i - 1 \in T PROVE i \in T
  <2>1. f[i] = NextStatus(f[i - 1], h[i]) /\ ShowsEnd(h, f[i - 1], i - 1) /\ i \in 0 .. Len(h)
    BY <1>0, <1>2 DEF IsStatus
  <2>2. \A type : Seen(h, type, i) <=> Seen(h, type, i - 1) \/ h[i].type = type
    BY <1>0, SeenNext
  <2>3. i = 1 => \A type : ~Seen(h, type, i - 1)
    BY DEF Seen
  <2> DEFINE a == f[i - 1]
             e == h[i]
             can == Seen(h, "workflow.cancelled", i - 1)
             com == Seen(h, "workflow.completed", i - 1)
             fai == Seen(h, "workflow.failed", i - 1)
  <2>4. /\ a = "cancelled" <=> can
        /\ a = "completed" <=> com
        /\ a = "failed" <=> fai /\ ~can
    BY <2>1 DEF ShowsEnd
  <2>5. /\ ~com
        /\ can => e.type \in {"signal.received", "signal.timeout"}
        /\ e.type = "workflow.started" => ~can /\ ~com /\ ~fai
        /\ fai => e.type # "workflow.completed"
    BY <2>3, NothingAfter
  <2>6. /\ Seen(h, "workflow.cancelled", i) <=> can \/ e.type = "workflow.cancelled"
        /\ Seen(h, "workflow.completed", i) <=> com \/ e.type = "workflow.completed"
        /\ Seen(h, "workflow.failed", i) <=> fai \/ e.type = "workflow.failed"
    BY <2>2
  <2>7. f[i] = NextStatus(a, e)
    BY <2>1
  <2> HIDE DEF a, e, can, com, fai
  <2>8. ShowsEnd(h, f[i], i)
    <3>1. CASE e.type = "workflow.started"
      BY <2>4, <2>5, <2>6, <2>7, <3>1 DEF ShowsEnd, NextStatus
    <3>2. CASE e.type = "workflow.completed"
      BY <2>4, <2>5, <2>6, <2>7, <3>2 DEF ShowsEnd, NextStatus
    <3>3. CASE e.type = "workflow.failed"
      BY <2>4, <2>5, <2>6, <2>7, <3>3 DEF ShowsEnd, NextStatus
    <3>4. CASE e.type = "workflow.cancelled"
      BY <2>4, <2>5, <2>6, <2>7, <3>4 DEF ShowsEnd, NextStatus
    <3>5. CASE e.type \notin {"workflow.started", "workflow.completed", "workflow.failed",
                              "workflow.cancelled"}
      BY <2>4, <2>5, <2>6, <2>7, <3>5 DEF ShowsEnd, NextStatus
    <3> QED
      BY <3>1, <3>2, <3>3, <3>4, <3>5
  <2> QED
    BY <2>1, <2>8
<1> HIDE DEF T
<1>3. \A i \in 0 .. Len(h) : i \in T
  BY <1>0, <1>1, <1>2, AllPositions
<1> QED
  BY <1>3 DEF T

\* GetRun shows a run as cancelled, completed or failed exactly when the log says
\* so, whatever is appended after a cancellation or a failure, if no step of the
\* workflow has cases.
THEOREM StatusCorrect ==
    ASSUME CaseSteps = {}
    PROVE  Spec => []StatusAgrees
<1>1. ViewGood(log) => StatusAgrees
  <2> SUFFICES ASSUME ViewGood(log) PROVE StatusAgrees
    OBVIOUS
  <2>0. log \in Seq(Event) /\ Len(log) \in 0 .. Len(log) /\ DOMAIN log = 1 .. Len(log)
    BY DEF ViewGood
  <2>1. PICK f : IsStatus(f, log) /\ GetRun(log) = f[Len(log)]
    BY <2>0, GetRunFolds
  <2>2. ShowsEnd(log, GetRun(log), Len(log))
    BY <2>0, <2>1, StatusFollows
  <2>3. /\ Seen(log, "workflow.cancelled", Len(log)) <=> IsCancelled(log)
        /\ Seen(log, "workflow.completed", Len(log)) <=> IsCompleted(log)
        /\ Seen(log, "workflow.failed", Len(log)) <=> HasFailed(log)
    <3>1. CancelledEvent.name = None /\ FailedEvent.name = None
      BY DEF CancelledEvent, FailedEvent, Ev, EvData
    <3>2. \A i \in DOMAIN log :
             log[i].type \in {"workflow.cancelled", "workflow.completed", "workflow.failed"} =>
                log[i].name = None
      BY <3>1 DEF ViewGood, Framed, LogGood, EndIsLast
    <3> QED
      BY <2>0, <3>2 DEF Seen, IsCancelled, IsCompleted, HasFailed, Logged
  <2> QED
    BY <2>2, <2>3 DEF StatusAgrees, ShowsEnd
<1> QED
  BY <1>1, ViewCorrect, PTL

-----------------------------------------------------------------------------
(* What RunStatus shows.                                                   *)

Running == [status |-> "running", sig |-> None]

RunState == [status : {"running", "completed", "failed", "cancelled"}, sig : EventNames]

\* r is what RunStatus has computed, after each event of h.
IsRunState(r, h) ==
    /\ r \in [0 .. Len(h) -> RunState] /\ r[0] = Running
    /\ \A i \in 1 .. Len(h) : r[i] = RunStatusStep(r[i - 1], h[i])

\* RunStatus follows the events of the log.
LEMMA RunStatusFolds ==
    ASSUME NEW h \in Seq(Event)
    PROVE  \E r : IsRunState(r, h) /\ Project(RunStatusStep, Running, h) = r[Len(h)]
<1> DEFINE D == 0 .. Len(h)
           F == [x \in RunState \X Event |-> RunStatusStep(x[1], x[2])]
           Eqn(r) == r = [i \in D |-> IF i = 0 THEN Running ELSE RunStatusStep(r[i - 1], h[i])]
<1>0. Len(h) \in Nat /\ DOMAIN h = 1 .. Len(h) /\ \A i \in 1 .. Len(h) : h[i] \in Event
  OBVIOUS
<1>1. \A r \in RunState, e \in Event : RunStatusStep(r, e) \in RunState
  <2> SUFFICES ASSUME NEW r \in RunState, NEW e \in Event PROVE RunStatusStep(r, e) \in RunState
    OBVIOUS
  <2>1. e.name \in EventNames /\ None \in EventNames
    BY DEF Event, EventNames
  <2> HIDE DEF Event, EventNames
  <2> QED
    BY <2>1 DEF RunStatusStep, RunState
<1>2. F \in [RunState \X Event -> RunState]
  BY <1>1
<1>3. Running \in RunState
  BY DEF Running, RunState, EventNames
<1> HIDE DEF F
<1>4. PICK r : IsFold(r, RunState, F, Running, h)
  BY <1>2, <1>3, FoldExists
<1>5. \A i \in 1 .. Len(h) : i - 1 \in D /\ i \in D
  BY <1>0
<1>6. \A i \in 1 .. Len(h) : r[i] = RunStatusStep(r[i - 1], h[i])
  BY <1>0, <1>4, <1>5 DEF F, IsFold
<1>7. \A i \in D : i = 0 \/ i \in 1 .. Len(h)
  BY <1>0
<1>8. Eqn(r)
  BY <1>4, <1>6, <1>7 DEF IsFold
<1> DEFINE c == CHOOSE g : Eqn(g)
<1>9. Eqn(c)
  BY <1>8
<1>10. Project(RunStatusStep, Running, h) = c[Len(h)]
  BY DEF Project
<1> HIDE DEF c
<1>11. c[0] = Running /\ \A i \in 1 .. Len(h) : c[i] = RunStatusStep(c[i - 1], h[i])
  BY <1>0, <1>5, <1>9
<1>12. \A i \in 1 .. Len(h) : r[i - 1] = c[i - 1] => r[i] = c[i]
  BY <1>6, <1>11
<1>13. \A i \in D : r[i] = c[i]
  <2>1. r[0] = c[0]
    BY <1>4, <1>11 DEF IsFold
  <2> QED
    BY <1>0, <1>12, <2>1, FoldUnique, ZenonT(60)
<1>14. Project(RunStatusStep, Running, h) = r[Len(h)]
  BY <1>0, <1>10, <1>13
<1> QED
  BY <1>4, <1>6, <1>14 DEF IsRunState, IsFold

\* Status s of GetRun and state r of RunStatus tell the same of a run, and the
\* same of its wait unless one has timed out.
Agreeing(s, r, timedOut) ==
    /\ r.status # "running" => s = r.status
    /\ r.status = "running" => s \in {"pending", "running", "waiting"}
    /\ ~timedOut /\ r.status = "running" => (s = "waiting" <=> r.sig # None)

\* One event.
LEMMA AgreeingStep ==
    ASSUME NEW s, NEW r \in RunState, NEW e \in Event, NEW before \in BOOLEAN,
           Agreeing(s, r, before), s # "pending", e.type # "workflow.started",
           e.type = "signal.waiting" => e.name # None
    PROVE  /\ Agreeing(NextStatus(s, e), RunStatusStep(r, e), before \/ e.type = "signal.timeout")
           /\ NextStatus(s, e) # "pending"
<1> DEFINE q == RunStatusStep(r, e)
           t == NextStatus(s, e)
<1>0. r.status \in {"running", "completed", "failed", "cancelled"}
  BY DEF RunState
<1>1. CASE e.type \in {"workflow.completed", "workflow.failed", "workflow.cancelled"}
  <2>1. q.status = t /\ t \in {"completed", "failed", "cancelled"}
    BY <1>1 DEF RunStatusStep, NextStatus, RunState
  <2> QED
    BY <2>1 DEF Agreeing
<1>2. CASE e.type = "signal.waiting"
  <2>1. q.status = r.status /\ q.sig = e.name /\ t = IF s = "running" THEN "waiting" ELSE s
    BY <1>2 DEF RunStatusStep, NextStatus, RunState
  <2> HIDE DEF q, t
  <2>2. Agreeing(t, q, before) /\ t # "pending"
    BY <1>0, <1>2, <2>1 DEF Agreeing
  <2> QED
    BY <2>2 DEF Agreeing, q, t
<1>3. CASE e.type = "signal.received"
  <2>1. q.status = r.status /\ q.sig = None /\ t = IF s = "waiting" THEN "running" ELSE s
    BY <1>3 DEF RunStatusStep, NextStatus, RunState
  <2> HIDE DEF q, t
  <2>2. Agreeing(t, q, before) /\ t # "pending"
    BY <1>0, <1>3, <2>1 DEF Agreeing
  <2> QED
    BY <2>2 DEF Agreeing, q, t
<1>4. CASE e.type = "signal.timeout"
  <2>1. q.status = r.status /\ t = s
    BY <1>4 DEF RunStatusStep, NextStatus, RunState
  <2> HIDE DEF q, t
  <2> QED
    BY <1>4, <2>1 DEF Agreeing, q, t
<1>5. CASE e.type \notin {"workflow.completed", "workflow.failed", "workflow.cancelled",
                          "signal.waiting", "signal.received", "signal.timeout"}
  <2>1. q = r /\ t = s
    BY <1>5 DEF RunStatusStep, NextStatus
  <2> HIDE DEF q, t
  <2>2. Agreeing(t, q, before) /\ t # "pending"
    BY <2>1
  <2> QED
    BY <2>2 DEF Agreeing, q, t
<1> QED
  BY <1>1, <1>2, <1>3, <1>4, <1>5

\* The two agree after every event of a run.
LEMMA StatesAgree ==
    ASSUME None \notin Signals, NEW h, ViewGood(h), NEW f, IsStatus(f, h), NEW r, IsRunState(r, h)
    PROVE  \A i \in 0 .. Len(h) :
              /\ Agreeing(f[i], r[i], Seen(h, "signal.timeout", i))
              /\ i # 0 => f[i] # "pending"
<1> DEFINE T == {i \in 0 .. Len(h) : /\ Agreeing(f[i], r[i], Seen(h, "signal.timeout", i))
                                     /\ i # 0 => f[i] # "pending"}
<1>0. /\ Len(h) \in Nat /\ DOMAIN h = 1 .. Len(h) /\ \A i \in 1 .. Len(h) : h[i] \in Event
      /\ f[0] = "pending" /\ r[0] = Running
  BY DEF ViewGood, IsStatus, IsRunState
<1>1. 0 \in T
  BY <1>0 DEF Agreeing, Running
<1>2. ASSUME NEW i \in 1 .. Len(h), i - 1 \in T PROVE i \in T
  <2>1. /\ f[i] = NextStatus(f[i - 1], h[i]) /\ r[i] = RunStatusStep(r[i - 1], h[i])
        /\ r[i - 1] \in RunState /\ h[i] \in Event /\ i \in 0 .. Len(h) /\ i \in DOMAIN h
    BY <1>0 DEF IsStatus, IsRunState
  <2>2. Seen(h, "signal.timeout", i) <=>
           Seen(h, "signal.timeout", i - 1) \/ h[i].type = "signal.timeout"
    BY <1>0, SeenNext
  <2>3. h[i].type = "workflow.started" <=> i = 1
    BY NothingAfter
  <2>4. CASE i = 1
    <3>1. f[i] = "running" /\ r[i] = Running
      <4>1. h[i].type = "workflow.started" /\ f[i - 1] = "pending" /\ r[i - 1] = Running
        BY <1>0, <2>3, <2>4
      <4> QED
        BY <2>1, <4>1 DEF NextStatus, RunStatusStep
    <3>2. Agreeing(f[i], r[i], Seen(h, "signal.timeout", i)) /\ f[i] # "pending"
      BY <3>1 DEF Agreeing, Running
    <3> QED
      BY <2>1, <3>2
  <2>5. CASE i # 1
    <3>1. h[i].type = "signal.waiting" => h[i].name # None
      <4>1. h[i].type = "signal.waiting" => h[i].name \in Signals
        BY <2>1, AwaitsAssumption DEF ViewGood, LogGood, WaitsHaveSteps
      <4> QED
        BY <4>1
    <3>2. Seen(h, "signal.timeout", i - 1) \in BOOLEAN
      BY DEF Seen
    <3>3. Agreeing(f[i - 1], r[i - 1], Seen(h, "signal.timeout", i - 1)) /\ f[i - 1] # "pending"
      <4>1. i - 1 # 0
        BY <1>0, <2>5
      <4> QED
        BY <1>2, <4>1
    <3> DEFINE a == f[i - 1]
               b == r[i - 1]
               o == Seen(h, "signal.timeout", i - 1)
               e == h[i]
    <3>4. b \in RunState /\ e \in Event /\ o \in BOOLEAN /\ Agreeing(a, b, o) /\ a # "pending"
          /\ e.type # "workflow.started" /\ (e.type = "signal.waiting" => e.name # None)
      BY <2>1, <2>3, <2>5, <3>1, <3>2, <3>3
    <3> HIDE DEF a, b, o, e
    <3>5. /\ Agreeing(NextStatus(a, e), RunStatusStep(b, e), o \/ e.type = "signal.timeout")
          /\ NextStatus(a, e) # "pending"
      BY <3>4, AgreeingStep
    <3>6. Agreeing(f[i], r[i], Seen(h, "signal.timeout", i)) /\ f[i] # "pending"
      BY <2>1, <2>2, <3>5 DEF a, b, o, e, Agreeing
    <3> QED
      BY <2>1, <3>6
  <2> QED
    BY <2>4, <2>5
<1> HIDE DEF T
<1>3. \A i \in 0 .. Len(h) : i \in T
  BY <1>0, <1>1, <1>2, AllPositions
<1> QED
  BY <1>3 DEF T

\* RunStatus of the projections and GetRun of the runner agree on every log of
\* the runner, as long as no signal timed out, and on the end of a run even then;
\* the empty string, with which the code says that nothing is waited for, must
\* not be the name of a signal.
THEOREM RunStatusCorrect ==
    ASSUME None \notin Signals
    PROVE  Spec => []RunStatusAgrees
<1>1. ViewGood(log) => RunStatusAgrees
  <2> SUFFICES ASSUME ViewGood(log) PROVE RunStatusAgrees
    OBVIOUS
  <2>0. /\ log \in Seq(Event) /\ Len(log) \in Nat /\ DOMAIN log = 1 .. Len(log)
        /\ Len(log) \in 0 .. Len(log) /\ (log = <<>> <=> Len(log) = 0)
    BY DEF ViewGood
  <2>1. PICK f : IsStatus(f, log) /\ GetRun(log) = f[Len(log)]
    BY <2>0, GetRunFolds
  <2>2. PICK r : IsRunState(r, log) /\ Project(RunStatusStep, Running, log) = r[Len(log)]
    BY <2>0, RunStatusFolds
  <2> DEFINE s == f[Len(log)]
             q == r[Len(log)]
             out == Seen(log, "signal.timeout", Len(log))
  <2>3. Agreeing(s, q, out) /\ (Len(log) # 0 => s # "pending")
    BY <2>0, <2>1, <2>2, StatesAgree
  <2>4. (\E sig \in Signals : SignalTimedOut(log, sig)) <=> out
    BY <2>0 DEF Seen, SignalTimedOut, Logged, ViewGood, Framed
  <2>5. RunStatus(log) = IF log = <<>> THEN "pending"
                         ELSE IF q.sig # None /\ q.status = "running" THEN "waiting"
                         ELSE q.status
    BY <2>2 DEF RunStatus, Running
  <2>6. q.status \in {"running", "completed", "failed", "cancelled"}
    BY <2>0, <2>2 DEF IsRunState, RunState
  <2>7. log = <<>> => s = "pending" /\ ~out
    BY <2>0, <2>1 DEF IsStatus, Seen
  <2> DEFINE view == RunStatus(log)
  <2>8. GetRun(log) = s
    BY <2>1
  <2> HIDE DEF s, q, out, view
  <2>9. out \in BOOLEAN
    BY DEF out, Seen
  <2>10. /\ ~out => view = s
         /\ \A status \in {"completed", "failed", "cancelled"} : view = status <=> s = status
    <3>1. CASE log = <<>>
      BY <2>5, <2>7, <3>1 DEF view
    <3>2. CASE log # <<>>
      BY <2>0, <2>3, <2>5, <2>6, <3>2 DEF view, Agreeing
    <3> QED
      BY <3>1, <3>2
  <2> QED
    BY <2>4, <2>8, <2>10 DEF view, RunStatusAgrees
<1> QED
  BY <1>1, ViewCorrect, PTL

-----------------------------------------------------------------------------
(* The keys of attempts.  A number below 80 is one byte of a key, and a    *)
(* key begins with a name and a colon for that name only, as long as no    *)
(* name continues another.                                                 *)

FewAttempts == \A s \in Steps : MaxAttempts[s] < 80

NamesApart == \A m, n \in Names : ~Continues(m, n)

LEMMA KeyBytes ==
    ASSUME NEW n \in Names, NEW a \in 1 .. 79
    PROVE  LET p == Spelling[n]
               k == StepAttemptKey(n, a)
           IN  /\ p \in Seq(0 .. 255) /\ Len(p) \in Nat /\ k \in Seq(0 .. 255)
               /\ Len(k) = Len(p) + 2
               /\ \A j \in 1 .. Len(p) : k[j] = p[j]
               /\ k[Len(p) + 1] = Colon /\ k[Len(p) + 2] = 48 + a
<1> DEFINE p == Spelling[n]
           b == 48 + a
           k == p \o <<Colon>> \o <<b>>
<1>1. p \in Seq(0 .. 255) /\ b \in 0 .. 127 /\ Colon \in 0 .. 255
  BY SpellingAssumption DEF Colon
<1>2. Rune(a) = b /\ UTF8(b) = <<b>>
  <2>1. b < 55296 /\ b < 128
    BY <1>1
  <2>2. Rune(a) = b
    BY <2>1 DEF Rune
  <2>3. UTF8(b) = <<b>>
    <3> HIDE DEF b
    <3> QED
      BY <1>1, <2>1 DEF UTF8
  <2> QED
    BY <2>2, <2>3
<1>3. StepAttemptKey(n, a) = k
  BY <1>2 DEF StepAttemptKey
<1> HIDE DEF p, b
<1>4. /\ Len(p) \in Nat /\ k \in Seq(0 .. 255) /\ Len(k) = Len(p) + 2
      /\ \A j \in 1 .. Len(p) : k[j] = p[j]
      /\ k[Len(p) + 1] = Colon /\ k[Len(p) + 2] = b
  BY <1>1
<1> QED
  BY <1>1, <1>3, <1>4 DEF p, b

\* Names are spelled apart.
LEMMA SameName ==
    ASSUME NEW m \in Names, NEW n \in Names, Len(Spelling[m]) = Len(Spelling[n]),
           \A j \in 1 .. Len(Spelling[n]) : Spelling[m][j] = Spelling[n][j]
    PROVE  m = n
<1>1. Spelling[m] \in Seq(0 .. 255) /\ Spelling[n] \in Seq(0 .. 255)
  BY SpellingAssumption
<1>2. Spelling[m] = Spelling[n]
  BY <1>1
<1> QED
  BY <1>2, SpellingAssumption

\* The attempt that findRunningAttempt reads from a key is that of the key, and
\* the key is one of the step.
LEMMA KeyFound ==
    ASSUME NamesApart, NEW n \in Names, NEW m \in Names, NEW a \in 1 .. 79, NEW k,
           k = StepAttemptKey(m, a), Len(k) > Len(Spelling[n]) + 1,
           SubSeq(k, 1, Len(Spelling[n])) = Spelling[n], k[Len(Spelling[n]) + 1] = Colon
    PROVE  m = n /\ (k[Len(Spelling[n]) + 2] - 48) % 256 = a
<1> DEFINE p == Spelling[n]
           q == Spelling[m]
<1>1. /\ q \in Seq(0 .. 255) /\ Len(q) \in Nat /\ k \in Seq(0 .. 255) /\ Len(k) = Len(q) + 2
      /\ \A j \in 1 .. Len(q) : k[j] = q[j]
      /\ k[Len(q) + 2] = 48 + a
  BY KeyBytes
<1>2. p \in Seq(0 .. 255) /\ Len(p) \in Nat /\ Len(k) > Len(p) + 1
      /\ SubSeq(k, 1, Len(p)) = p /\ k[Len(p) + 1] = Colon
  BY SpellingAssumption
<1>3. ~Continues(m, n)
  BY DEF NamesApart
<1>4. Continues(m, n) <=> Len(q) > Len(p) /\ SubSeq(q, 1, Len(p)) = p /\ q[Len(p) + 1] = Colon
  BY DEF Continues
<1>5. Len(q) = Len(p) /\ (\A j \in 1 .. Len(p) : q[j] = p[j]) => m = n
  BY SameName
<1> HIDE DEF p, q
<1>6. Len(q) >= Len(p) /\ \A j \in 1 .. Len(p) : k[j] = p[j]
  BY <1>1, <1>2
<1>7. CASE Len(q) > Len(p)
  <2>1. SubSeq(q, 1, Len(p)) = SubSeq(k, 1, Len(p)) /\ q[Len(p) + 1] = k[Len(p) + 1]
    BY <1>1, <1>2, <1>7
  <2> QED
    BY <1>2, <1>3, <1>4, <1>7, <2>1
<1>8. CASE Len(q) = Len(p)
  <2>1. m = n
    BY <1>1, <1>5, <1>6, <1>8
  <2>2. k[Len(p) + 2] = 48 + a
    BY <1>1, <1>8
  <2>3. (48 + a - 48) % 256 = a
    OBVIOUS
  <2> QED
    BY <2>1, <2>2, <2>3 DEF p
<1> QED
  BY <1>1, <1>2, <1>6, <1>7, <1>8

\* Different attempts have different keys.
LEMMA KeyUnique ==
    ASSUME NEW m \in Names, NEW n \in Names, NEW a \in 1 .. 79, NEW b \in 1 .. 79,
           StepAttemptKey(m, a) = StepAttemptKey(n, b)
    PROVE  m = n /\ a = b
<1> DEFINE p == Spelling[n]
           q == Spelling[m]
           k == StepAttemptKey(n, b)
<1>1. /\ Len(q) \in Nat /\ Len(k) = Len(q) + 2 /\ \A j \in 1 .. Len(q) : k[j] = q[j]
      /\ k[Len(q) + 2] = 48 + a
  <2> DEFINE x == StepAttemptKey(m, a)
  <2>1. /\ Len(q) \in Nat /\ Len(x) = Len(q) + 2 /\ \A j \in 1 .. Len(q) : x[j] = q[j]
        /\ x[Len(q) + 2] = 48 + a
    BY KeyBytes
  <2>2. x = k
    OBVIOUS
  <2> HIDE DEF x, k
  <2> QED
    BY <2>1, <2>2
<1>2. /\ Len(p) \in Nat /\ Len(k) = Len(p) + 2 /\ \A j \in 1 .. Len(p) : k[j] = p[j]
      /\ k[Len(p) + 2] = 48 + b
  BY KeyBytes
<1>3. Len(q) = Len(p) /\ (\A j \in 1 .. Len(p) : q[j] = p[j]) => m = n
  BY SameName
<1> HIDE DEF p, q, k
<1>4. Len(q) = Len(p)
  BY <1>1, <1>2
<1> QED
  BY <1>1, <1>2, <1>3, <1>4

\* What is granted by fewer than 80 attempts is at most 79.
LEMMA BelowEighty == \A n \in Nat : n < 80 => \A a \in 1 .. n : a \in 1 .. 79
  OBVIOUS

\* Starts and failures in the log have the number of an attempt that is granted.
LEMMA LogAttempt ==
    ASSUME FewAttempts, NEW h \in Seq(Event), Paired(h), NEW i \in DOMAIN h,
           h[i].type \in {"step.started", "step.failed"}
    PROVE  h[i].name \in Names /\ h[i].attempt \in 1 .. 79
<1>1. ASSUME NEW j \in DOMAIN h, h[j].type = "step.started" PROVE h[j].attempt \in 1 .. 79
  <2>1. PICK s \in Steps : h[j].attempt \in 1 .. MaxAttempts[s]
    BY <1>1 DEF Paired, Granted
  <2> DEFINE a == h[j].attempt
             N == MaxAttempts[s]
  <2>2. a \in 1 .. N /\ N \in Nat /\ N < 80
    BY <2>1, MaxAttemptsAssumption DEF FewAttempts
  <2> HIDE DEF a, N
  <2>3. a \in 1 .. 79
    BY <2>2, BelowEighty
  <2> QED
    BY <2>3 DEF a
<1>2. h[i].name \in Names
  BY DEF Paired, StepEvents, StepEnds
<1>3. CASE h[i].type = "step.failed"
  <2>1. EndsItsStart(h, i)
    BY <1>3 DEF Paired, StepEnds
  <2> QED
    BY <1>1, <1>2, <1>3, <2>1 DEF EndsItsStart
<1> QED
  BY <1>1, <1>2, <1>3

LEMMA LogKey ==
    ASSUME FewAttempts, NEW h \in Seq(Event), Paired(h), NEW i \in DOMAIN h,
           h[i].type = "step.started"
    PROVE  StartedKey(h[i]) = StepAttemptKey(h[i].name, h[i].attempt)
<1> DEFINE a == h[i].attempt
<1>1. a \in 1 .. 79
  BY LogAttempt
<1>2. a # 0
  <2> HIDE DEF a
  <2> QED
    BY <1>1
<1> QED
  BY <1>2 DEF StartedKey

-----------------------------------------------------------------------------
(* What StepCounts shows.                                                  *)

\* How many of the first i events of h have the type and the name.
Number(h, type, n, i) == Cardinality({j \in 1 .. i : h[j].type = type /\ h[j].name = n})

\* ... one more event.
LEMMA NumberNext ==
    ASSUME NEW h, NEW type, NEW n, NEW i \in Nat, i # 0
    PROVE  /\ Number(h, type, n, i - 1) \in Nat
           /\ Number(h, type, n, i) = IF h[i].type = type /\ h[i].name = n
                                      THEN Number(h, type, n, i - 1) + 1
                                      ELSE Number(h, type, n, i - 1)
<1> DEFINE At(k) == {j \in 1 .. k : h[j].type = type /\ h[j].name = n}
<1>1. IsFiniteSet(1 .. i - 1) /\ At(i - 1) \in SUBSET (1 .. i - 1) /\ i \notin 1 .. i - 1
  BY FS_Interval
<1>2. IsFiniteSet(At(i - 1)) /\ i \notin At(i - 1)
  BY <1>1, FS_Subset
<1>3. \A j : j \in 1 .. i <=> j \in 1 .. i - 1 \/ j = i
  OBVIOUS
<1>4. At(i) = IF h[i].type = type /\ h[i].name = n THEN At(i - 1) \cup {i} ELSE At(i - 1)
  BY <1>3
<1>5. /\ Number(h, type, n, i) = Cardinality(At(i))
      /\ Number(h, type, n, i - 1) = Cardinality(At(i - 1))
  BY DEF Number
<1> HIDE DEF At
<1>6. /\ Cardinality(At(i - 1)) \in Nat
      /\ Cardinality(At(i - 1) \cup {i}) = Cardinality(At(i - 1)) + 1
  BY <1>2, FS_AddElement, FS_CardinalityType
<1> QED
  BY <1>4, <1>5, <1>6

\* ... none yet.
LEMMA NumberNone ==
    ASSUME NEW h, NEW type, NEW n
    PROVE  Number(h, type, n, 0) = 0
<1>1. {j \in 1 .. 0 : h[j].type = type /\ h[j].name = n} = {}
  OBVIOUS
<1> QED
  BY <1>1, FS_EmptySet DEF Number

Counter == [total : Int, completed : Int, failed : Int, running : Int]

KeyType == {StartedKey(e) : e \in Event}

CountState == [counts : [Names -> Counter], keys : SUBSET KeyType]

NoCount == [counts |-> NoCounts, keys |-> {}]

CountsSteps(cs, e) == UNION {CountsStep(c, e) : c \in cs}

\* The counters of step n after a start, a completion and a failure.
UpStarted(c) ==
    [total |-> c.total + 1, completed |-> c.completed, failed |-> c.failed, running |-> c.running + 1]

UpCompleted(c) ==
    [total |-> c.total, completed |-> c.completed + 1, failed |-> c.failed, running |-> c.running - 1]

UpFailed(c) ==
    [total |-> c.total, completed |-> c.completed, failed |-> c.failed + 1, running |-> c.running - 1]

LEMMA CountsChange ==
    ASSUME NEW counts \in [Names -> Counter], NEW n
    PROVE  /\ [counts EXCEPT ![n].total = @ + 1, ![n].running = @ + 1]
                = [m \in Names |-> IF m = n THEN UpStarted(counts[m]) ELSE counts[m]]
           /\ [counts EXCEPT ![n].running = @ - 1, ![n].completed = @ + 1]
                = [m \in Names |-> IF m = n THEN UpCompleted(counts[m]) ELSE counts[m]]
           /\ [counts EXCEPT ![n].running = @ - 1, ![n].failed = @ + 1]
                = [m \in Names |-> IF m = n THEN UpFailed(counts[m]) ELSE counts[m]]
<1>1. ASSUME NEW c \in Counter
      PROVE  /\ [[c EXCEPT !.total = @ + 1] EXCEPT !.running = @ + 1] = UpStarted(c)
             /\ [[c EXCEPT !.running = @ - 1] EXCEPT !.completed = @ + 1] = UpCompleted(c)
             /\ [[c EXCEPT !.running = @ - 1] EXCEPT !.failed = @ + 1] = UpFailed(c)
  <2> DEFINE a == [c EXCEPT !.total = @ + 1]
             b == [c EXCEPT !.running = @ - 1]
  <2>1. /\ a = [total |-> c.total + 1, completed |-> c.completed, failed |-> c.failed, running |-> c.running]
        /\ b = [total |-> c.total, completed |-> c.completed, failed |-> c.failed, running |-> c.running - 1]
    BY DEF Counter
  <2> HIDE DEF a, b
  <2>2. [a EXCEPT !.running = @ + 1] = UpStarted(c)
    BY <2>1 DEF UpStarted
  <2>3. [b EXCEPT !.completed = @ + 1] = UpCompleted(c)
    BY <2>1 DEF UpCompleted
  <2>4. [b EXCEPT !.failed = @ + 1] = UpFailed(c)
    BY <2>1 DEF UpFailed
  <2> QED
    BY <2>2, <2>3, <2>4 DEF a, b
<1>2. CASE n \in Names
  <2>1. /\ counts[n] \in Counter
        /\ [counts EXCEPT ![n].total = @ + 1, ![n].running = @ + 1]
             = [counts EXCEPT ![n] = [[counts[n] EXCEPT !.total = @ + 1] EXCEPT !.running = @ + 1]]
        /\ [counts EXCEPT ![n].running = @ - 1, ![n].completed = @ + 1]
             = [counts EXCEPT ![n] = [[counts[n] EXCEPT !.running = @ - 1] EXCEPT !.completed = @ + 1]]
        /\ [counts EXCEPT ![n].running = @ - 1, ![n].failed = @ + 1]
             = [counts EXCEPT ![n] = [[counts[n] EXCEPT !.running = @ - 1] EXCEPT !.failed = @ + 1]]
    BY <1>2
  <2> QED
    BY <1>1, <1>2, <2>1, ZenonT(60)
<1>3. CASE n \notin Names
  BY <1>3
<1> QED
  BY <1>2, <1>3

LEMMA CountsStepType ==
    ASSUME NEW c \in CountState, NEW e \in Event
    PROVE  CountsStep(c, e) \subseteq CountState
<1>0. c.counts \in [Names -> Counter] /\ c.keys \subseteq KeyType /\ StartedKey(e) \in KeyType
  BY DEF CountState, KeyType
<1> DEFINE up   == [c.counts EXCEPT ![e.name].total = @ + 1, ![e.name].running = @ + 1]
           done == [c.counts EXCEPT ![e.name].running = @ - 1, ![e.name].completed = @ + 1]
           lost == [c.counts EXCEPT ![e.name].running = @ - 1, ![e.name].failed = @ + 1]
<1>1. up \in [Names -> Counter] /\ done \in [Names -> Counter] /\ lost \in [Names -> Counter]
  <2>1. \A d \in Counter : UpStarted(d) \in Counter /\ UpCompleted(d) \in Counter
                            /\ UpFailed(d) \in Counter
    BY DEF Counter, UpStarted, UpCompleted, UpFailed
  <2>2. /\ up = [m \in Names |-> IF m = e.name THEN UpStarted(c.counts[m]) ELSE c.counts[m]]
        /\ done = [m \in Names |-> IF m = e.name THEN UpCompleted(c.counts[m]) ELSE c.counts[m]]
        /\ lost = [m \in Names |-> IF m = e.name THEN UpFailed(c.counts[m]) ELSE c.counts[m]]
    BY <1>0, CountsChange
  <2> HIDE DEF up, done, lost
  <2> QED
    BY <1>0, <2>1, <2>2
<1>2. CASE e.type = "step.started"
  <2>1. CountsStep(c, e) = {[counts |-> CountStart(c.counts, e.name),
                             keys |-> c.keys \cup {StartedKey(e)}]}
    BY <1>2 DEF CountsStep
  <2>2. CountStart(c.counts, e.name) \in [Names -> Counter]
    BY <1>1 DEF CountStart
  <2> HIDE DEF up, done, lost
  <2> QED
    BY <1>0, <2>1, <2>2 DEF CountState
<1>3. \A attempt : CountEnds(c, e, attempt) \in CountState
  <2>1. CountEnd(c.counts, e) \in [Names -> Counter]
    BY <1>1 DEF CountEnd
  <2> HIDE DEF up, done, lost
  <2> QED
    BY <1>0, <2>1 DEF CountState, CountEnds
<1>4. CASE e.type \in {"step.completed", "step.failed"}
  BY <1>3, <1>4 DEF CountsStep
<1>5. CASE e.type \notin {"step.started", "step.completed", "step.failed"}
  BY <1>5 DEF CountsStep
<1> QED
  BY <1>2, <1>4, <1>5

\* cs has what StepCounts may have computed, after each event of h.
IsCounting(cs, h) ==
    /\ cs \in [0 .. Len(h) -> SUBSET CountState] /\ cs[0] = {NoCount}
    /\ \A i \in 1 .. Len(h) : cs[i] = CountsSteps(cs[i - 1], h[i])

\* StepCounts follows the events of the log.
LEMMA StepCountsFolds ==
    ASSUME NEW h \in Seq(Event)
    PROVE  \E cs : IsCounting(cs, h) /\ StepCounts(h) = {c.counts : c \in cs[Len(h)]}
<1> DEFINE D == 0 .. Len(h)
           R == SUBSET CountState
           F == [x \in R \X Event |-> CountsSteps(x[1], x[2])]
           Eqn(g) == g = [i \in D |-> IF i = 0 THEN {NoCount} ELSE CountsSteps(g[i - 1], h[i])]
<1>0. Len(h) \in Nat /\ DOMAIN h = 1 .. Len(h) /\ \A i \in 1 .. Len(h) : h[i] \in Event
  OBVIOUS
<1>1. \A cs \in R, e \in Event : CountsSteps(cs, e) \in R
  BY CountsStepType DEF CountsSteps
<1>2. F \in [R \X Event -> R]
  BY <1>1
<1>3. {NoCount} \in R
  BY DEF NoCount, NoCounts, CountState, Counter
<1> HIDE DEF F, R
<1>4. PICK cs : IsFold(cs, R, F, {NoCount}, h)
  BY <1>2, <1>3, FoldExists
<1>5. \A i \in 1 .. Len(h) : i - 1 \in D /\ i \in D
  BY <1>0
<1>6. \A i \in 1 .. Len(h) : cs[i] = CountsSteps(cs[i - 1], h[i])
  BY <1>0, <1>4, <1>5 DEF F, IsFold
<1>7. \A i \in D : i = 0 \/ i \in 1 .. Len(h)
  BY <1>0
<1>8. Eqn(cs)
  BY <1>4, <1>6, <1>7 DEF IsFold
<1> DEFINE f == CHOOSE g : Eqn(g)
<1>9. Eqn(f)
  BY <1>8
<1>10. StepCounts(h) = {c.counts : c \in f[Len(h)]}
  BY DEF StepCounts, Project, NoCount, CountsSteps
<1> HIDE DEF f
<1>11. f[0] = {NoCount} /\ \A i \in 1 .. Len(h) : f[i] = CountsSteps(f[i - 1], h[i])
  BY <1>0, <1>5, <1>9
<1>12. \A i \in 1 .. Len(h) : cs[i - 1] = f[i - 1] => cs[i] = f[i]
  BY <1>6, <1>11
<1>13. \A i \in D : cs[i] = f[i]
  <2>1. cs[0] = f[0]
    BY <1>4, <1>11 DEF IsFold
  <2> QED
    BY <1>0, <1>12, <2>1, FoldUnique, ZenonT(60)
<1>14. StepCounts(h) = {c.counts : c \in cs[Len(h)]}
  BY <1>0, <1>10, <1>13
<1> QED
  BY <1>4, <1>6, <1>14 DEF IsCounting, IsFold, R

\* What the first i events of h say of step n.
Tally(h, n, i) ==
    [total     |-> Number(h, "step.started", n, i),
     completed |-> Number(h, "step.completed", n, i),
     failed    |-> Number(h, "step.failed", n, i),
     running   |-> Number(h, "step.started", n, i) - Number(h, "step.completed", n, i)
                      - Number(h, "step.failed", n, i)]

LEMMA TallyNext ==
    ASSUME NEW h, NEW n, NEW i \in Nat, i # 0
    PROVE  Tally(h, n, i) =
              IF h[i].name = n /\ h[i].type = "step.started" THEN UpStarted(Tally(h, n, i - 1))
              ELSE IF h[i].name = n /\ h[i].type = "step.completed" THEN UpCompleted(Tally(h, n, i - 1))
              ELSE IF h[i].name = n /\ h[i].type = "step.failed" THEN UpFailed(Tally(h, n, i - 1))
              ELSE Tally(h, n, i - 1)
<1> DEFINE a == Number(h, "step.started", n, i - 1)
           b == Number(h, "step.completed", n, i - 1)
           c == Number(h, "step.failed", n, i - 1)
           x == Number(h, "step.started", n, i)
           y == Number(h, "step.completed", n, i)
           z == Number(h, "step.failed", n, i)
           e == h[i]
<1>1. a \in Nat /\ x = IF e.type = "step.started" /\ e.name = n THEN a + 1 ELSE a
  BY NumberNext
<1>2. b \in Nat /\ y = IF e.type = "step.completed" /\ e.name = n THEN b + 1 ELSE b
  BY NumberNext
<1>3. c \in Nat /\ z = IF e.type = "step.failed" /\ e.name = n THEN c + 1 ELSE c
  BY NumberNext
<1>4. /\ Tally(h, n, i) = [total |-> x, completed |-> y, failed |-> z, running |-> x - y - z]
      /\ Tally(h, n, i - 1) = [total |-> a, completed |-> b, failed |-> c, running |-> a - b - c]
  BY DEF Tally
<1> HIDE DEF a, b, c, x, y, z, e
<1>5. CASE e.name = n /\ e.type = "step.started"
  BY <1>1, <1>2, <1>3, <1>4, <1>5 DEF UpStarted, e
<1>6. CASE e.name = n /\ e.type = "step.completed"
  BY <1>1, <1>2, <1>3, <1>4, <1>6 DEF UpCompleted, e
<1>7. CASE e.name = n /\ e.type = "step.failed"
  BY <1>1, <1>2, <1>3, <1>4, <1>7 DEF UpFailed, e
<1>8. CASE ~(e.name = n /\ e.type \in {"step.started", "step.completed", "step.failed"})
  BY <1>1, <1>2, <1>3, <1>4, <1>8 DEF e
<1> QED
  BY <1>5, <1>6, <1>7, <1>8

\* The counts are those of the log, the keys are those of attempts, and the
\* attempt that started last is pending.
Tallied(h, c, i) ==
    /\ c.counts = [n \in Names |-> Tally(h, n, i)]
    /\ \A k \in c.keys : \E n \in Names, a \in 1 .. 79 : k = StepAttemptKey(n, a)
    /\ i # 0 /\ h[i].type = "step.started" =>
          StepAttemptKey(h[i].name, h[i].attempt) \in c.keys

\* The attempt that findRunningAttempt takes for a completion is one that runs.
LEMMA RunningFound ==
    ASSUME NamesApart, NEW keys, NEW n \in Names, NEW a \in 1 .. 79,
           StepAttemptKey(n, a) \in keys,
           \A k \in keys : \E m \in Names, b \in 1 .. 79 : k = StepAttemptKey(m, b),
           NEW x \in FindRunningAttempt(keys, n)
    PROVE  x \in 1 .. 79 /\ StepAttemptKey(n, x) \in keys
<1> DEFINE len   == Len(Spelling[n])
           found == {k \in keys : /\ Len(k) > len + 1
                                  /\ SubSeq(k, 1, len) = Spelling[n]
                                  /\ k[len + 1] = Colon}
<1>1. StepAttemptKey(n, a) \in found
  <2> DEFINE p == Spelling[n]
             k == StepAttemptKey(n, a)
  <2>1. /\ p \in Seq(0 .. 255) /\ len = Len(p) /\ Len(p) \in Nat /\ k \in Seq(0 .. 255)
        /\ Len(k) = Len(p) + 2
        /\ \A j \in 1 .. Len(p) : k[j] = p[j]
        /\ k[Len(p) + 1] = Colon
    BY KeyBytes
  <2>2. k \in keys
    OBVIOUS
  <2> HIDE DEF p, k, len
  <2>3. Len(k) > len + 1 /\ SubSeq(k, 1, len) = p /\ k[len + 1] = Colon
    BY <2>1
  <2> QED
    BY <2>2, <2>3 DEF p, k
<1>2. PICK k \in found : x = (k[len + 2] - 48) % 256
  BY <1>1 DEF FindRunningAttempt
<1>3. PICK m \in Names, b \in 1 .. 79 : k = StepAttemptKey(m, b)
  BY <1>2
<1>4. m = n /\ x = b
  BY <1>2, <1>3, KeyFound
<1> QED
  BY <1>2, <1>3, <1>4

\* One event: a start, an end that has its start right before it, or another.
LEMMA CountedStep ==
    ASSUME FewAttempts, NamesApart, NEW h \in Seq(Event), Paired(h), NEW i \in 1 .. Len(h),
           NEW c \in CountState, Tallied(h, c, i - 1), NEW d \in CountsStep(c, h[i])
    PROVE  Tallied(h, d, i)
<1> DEFINE e == h[i]
           old(n) == Tally(h, n, i - 1)
<1>0. /\ i \in Nat /\ i # 0 /\ i \in DOMAIN h /\ e \in Event
      /\ c.counts \in [Names -> Counter] /\ c.counts = [n \in Names |-> old(n)]
      /\ \A k \in c.keys : \E n \in Names, a \in 1 .. 79 : k = StepAttemptKey(n, a)
  BY DEF CountState, Tallied
<1>2. \A n : Tally(h, n, i) =
         IF e.name = n /\ e.type = "step.started" THEN UpStarted(old(n))
         ELSE IF e.name = n /\ e.type = "step.completed" THEN UpCompleted(old(n))
         ELSE IF e.name = n /\ e.type = "step.failed" THEN UpFailed(old(n))
         ELSE old(n)
  BY <1>0, TallyNext
<1>3. d \in CountsStep(c, e)
  OBVIOUS
<1>4. e.type \in StepEnds =>
         d.counts = CountEnd(c.counts, e) /\ d.keys \subseteq c.keys
  <2> SUFFICES ASSUME e.type \in StepEnds
               PROVE  d.counts = CountEnd(c.counts, e) /\ d.keys \subseteq c.keys
    OBVIOUS
  <2>1. EndsItsStart(h, i)
    BY <1>0 DEF Paired
  <2> DEFINE a == h[i - 1].attempt
  <2>2. /\ i - 1 # 0 /\ i - 1 \in DOMAIN h /\ h[i - 1].type = "step.started"
        /\ h[i - 1].name = e.name /\ (e.type = "step.failed" => e.attempt = a)
    BY <1>0, <2>1 DEF EndsItsStart
  <2>3. e.name \in Names /\ a \in 1 .. 79 /\ StepAttemptKey(e.name, a) \in c.keys
    BY <2>2, LogAttempt DEF Tallied
  <2> HIDE DEF e, a
  <2>4. \A b \in 1 .. 79 : StepAttemptKey(e.name, b) \in c.keys =>
           /\ CountEnds(c, e, b).counts = CountEnd(c.counts, e)
           /\ CountEnds(c, e, b).keys \subseteq c.keys
    BY DEF CountEnds
  <2>5. CASE e.type = "step.failed"
    BY <1>3, <2>2, <2>3, <2>4, <2>5 DEF CountsStep
  <2>6. CASE e.type = "step.completed"
    <3>1. PICK b \in FindRunningAttempt(c.keys, e.name) : d = CountEnds(c, e, b)
      BY <1>3, <2>6 DEF CountsStep
    <3>2. b \in 1 .. 79 /\ StepAttemptKey(e.name, b) \in c.keys
      BY <1>0, <2>3, RunningFound
    <3> QED
      BY <2>4, <3>1, <3>2
  <2> QED
    BY <2>5, <2>6 DEF StepEnds
<1>9. e.type = "step.started" => /\ e.name \in Names /\ e.attempt \in 1 .. 79
                                 /\ StartedKey(e) = StepAttemptKey(e.name, e.attempt)
  BY <1>0, LogAttempt, LogKey
<1> HIDE DEF e, old
<1>5. CASE e.type = "step.started"
  <2>1. d.counts = CountStart(c.counts, e.name) /\ d.keys = c.keys \cup {StepAttemptKey(e.name, e.attempt)}
    BY <1>3, <1>5, <1>9 DEF CountsStep
  <2>2. d.counts = [m \in Names |-> IF m = e.name THEN UpStarted(c.counts[m]) ELSE c.counts[m]]
    BY <1>0, <2>1, CountsChange DEF CountStart
  <2>3. d.counts = [n \in Names |-> Tally(h, n, i)]
    BY <1>0, <1>2, <1>5, <2>2
  <2>4. \A k \in d.keys : \E n \in Names, a \in 1 .. 79 : k = StepAttemptKey(n, a)
    BY <1>0, <1>5, <1>9, <2>1
  <2> QED
    BY <2>1, <2>3, <2>4 DEF Tallied, e
<1>6. CASE e.type = "step.completed"
  <2>1. d.counts = CountEnd(c.counts, e) /\ d.keys \subseteq c.keys
    BY <1>4, <1>6 DEF StepEnds
  <2>2. d.counts = [m \in Names |-> IF m = e.name THEN UpCompleted(c.counts[m]) ELSE c.counts[m]]
    <3>1. CountEnd(c.counts, e)
            = [c.counts EXCEPT ![e.name].running = @ - 1, ![e.name].completed = @ + 1]
      BY <1>6 DEF CountEnd
    <3> QED
      BY <1>0, <2>1, <3>1, CountsChange
  <2>3. d.counts = [n \in Names |-> Tally(h, n, i)]
    BY <1>0, <1>2, <1>6, <2>2
  <2>4. \A k \in d.keys : \E n \in Names, a \in 1 .. 79 : k = StepAttemptKey(n, a)
    BY <1>0, <2>1
  <2> QED
    BY <1>6, <2>3, <2>4 DEF Tallied, e
<1>7. CASE e.type = "step.failed"
  <2>1. d.counts = CountEnd(c.counts, e) /\ d.keys \subseteq c.keys
    BY <1>4, <1>7 DEF StepEnds
  <2>2. d.counts = [m \in Names |-> IF m = e.name THEN UpFailed(c.counts[m]) ELSE c.counts[m]]
    <3>1. CountEnd(c.counts, e)
            = [c.counts EXCEPT ![e.name].running = @ - 1, ![e.name].failed = @ + 1]
      BY <1>7 DEF CountEnd
    <3> QED
      BY <1>0, <2>1, <3>1, CountsChange
  <2>3. d.counts = [n \in Names |-> Tally(h, n, i)]
    BY <1>0, <1>2, <1>7, <2>2
  <2>4. \A k \in d.keys : \E n \in Names, a \in 1 .. 79 : k = StepAttemptKey(n, a)
    BY <1>0, <2>1
  <2> QED
    BY <1>7, <2>3, <2>4 DEF Tallied, e
<1>8. CASE e.type \notin StepEvents
  <2>1. d = c
    BY <1>3, <1>8 DEF CountsStep, StepEvents, StepEnds
  <2>2. d.counts = [n \in Names |-> Tally(h, n, i)]
    BY <1>0, <1>2, <1>8, <2>1 DEF StepEvents, StepEnds
  <2> QED
    BY <1>0, <1>8, <2>1, <2>2 DEF Tallied, e, StepEvents
<1> QED
  BY <1>5, <1>6, <1>7, <1>8 DEF StepEvents, StepEnds

\* Whichever attempt a completion is matched with, StepCounts shows the numbers
\* of starts, completions and failures that the log has.
LEMMA CountsFollow ==
    ASSUME FewAttempts, NamesApart, NEW h \in Seq(Event), Paired(h), NEW counts \in StepCounts(h)
    PROVE  counts = [n \in Names |-> Tally(h, n, Len(h))]
<1>0. Len(h) \in Nat
  OBVIOUS
<1>1. PICK cs : IsCounting(cs, h) /\ StepCounts(h) = {c.counts : c \in cs[Len(h)]}
  BY StepCountsFolds
<1> DEFINE T == {i \in 0 .. Len(h) : \A c \in cs[i] : Tallied(h, c, i)}
<1>2. 0 \in T
  <2>1. Tallied(h, NoCount, 0)
    BY NumberNone DEF Tallied, NoCount, NoCounts, Tally
  <2> QED
    BY <1>0, <1>1, <2>1 DEF IsCounting
<1>3. ASSUME NEW i \in 1 .. Len(h), i - 1 \in T PROVE i \in T
  <2>1. ASSUME NEW d \in cs[i] PROVE Tallied(h, d, i)
    <3>1. cs[i] = CountsSteps(cs[i - 1], h[i]) /\ cs[i - 1] \subseteq CountState
      BY <1>0, <1>1 DEF IsCounting
    <3>2. PICK c \in cs[i - 1] : d \in CountsStep(c, h[i])
      BY <2>1, <3>1 DEF CountsSteps
    <3>3. c \in CountState /\ Tallied(h, c, i - 1)
      BY <1>3, <3>1, <3>2
    <3> QED
      BY <3>2, <3>3, CountedStep
  <2>2. i \in 0 .. Len(h)
    BY <1>0
  <2> QED
    BY <2>1, <2>2
<1> HIDE DEF T
<1>4. \A i \in 0 .. Len(h) : i \in T
  BY <1>0, <1>2, <1>3, AllPositions
<1>5. Len(h) \in T
  BY <1>0, <1>4
<1> QED
  BY <1>1, <1>5 DEF T, Tallied

-----------------------------------------------------------------------------
(* What StepInvocations shows.                                             *)

EntryStatuses == {"started", "completed", "failed", "retrying"}

Entry == [name : EventNames, status : EntryStatuses]

\* How many invocations of step n the list shows with one of the statuses.
Shows(q, n, sts) == Cardinality({j \in DOMAIN q : q[j].name = n /\ q[j].status \in sts})

\* What the list shows of step n.
ListTally(q, n) ==
    [total     |-> Shows(q, n, EntryStatuses),
     completed |-> Shows(q, n, {"completed"}),
     failed    |-> Shows(q, n, {"failed", "retrying"}),
     running   |-> Shows(q, n, {"started"})]

LEMMA ShowsNumber ==
    ASSUME NEW q \in Seq(Entry), NEW n, NEW sts
    PROVE  /\ IsFiniteSet({j \in DOMAIN q : q[j].name = n /\ q[j].status \in sts})
           /\ Shows(q, n, sts) \in Nat
<1> DEFINE Q == {j \in DOMAIN q : q[j].name = n /\ q[j].status \in sts}
<1>1. Len(q) \in Nat /\ DOMAIN q = 1 .. Len(q)
  OBVIOUS
<1>2. IsFiniteSet(1 .. Len(q)) /\ Q \in SUBSET (1 .. Len(q))
  BY <1>1, FS_Interval
<1>3. IsFiniteSet(Q)
  BY <1>2, FS_Subset
<1> QED
  BY <1>3, FS_CardinalityType DEF Shows

\* An invocation starts.
LEMMA ShowsStarted ==
    ASSUME NEW q \in Seq(Entry), NEW m \in EventNames, NEW n, NEW sts
    PROVE  Shows(Append(q, [name |-> m, status |-> "started"]), n, sts)
              = IF m = n /\ "started" \in sts THEN Shows(q, n, sts) + 1 ELSE Shows(q, n, sts)
<1> DEFINE x == [name |-> m, status |-> "started"]
           t == Append(q, x)
           Sel(u) == {j \in DOMAIN u : u[j].name = n /\ u[j].status \in sts}
           k == Len(q) + 1
<1>1. /\ Len(q) \in Nat /\ k \notin DOMAIN q
      /\ \A j : j \in DOMAIN t <=> j \in DOMAIN q \/ j = k
      /\ t[k] = x /\ \A j \in DOMAIN q : t[j] = q[j]
  OBVIOUS
<1>2. x.name = m /\ x.status = "started"
  OBVIOUS
<1> HIDE DEF x, t, k
<1>3. Sel(t) = IF m = n /\ "started" \in sts THEN Sel(q) \cup {k} ELSE Sel(q)
  BY <1>1, <1>2
<1>4. IsFiniteSet(Sel(q)) /\ k \notin Sel(q)
  <2>1. IsFiniteSet(Sel(q))
    BY ShowsNumber
  <2> QED
    BY <1>1, <2>1
<1>5. Shows(t, n, sts) = Cardinality(Sel(t)) /\ Shows(q, n, sts) = Cardinality(Sel(q))
  BY DEF Shows
<1> HIDE DEF Sel
<1>6. Cardinality(Sel(q) \cup {k}) = Cardinality(Sel(q)) + 1
  BY <1>4, FS_AddElement
<1>7. Shows(t, n, sts) = IF m = n /\ "started" \in sts THEN Shows(q, n, sts) + 1 ELSE Shows(q, n, sts)
  BY <1>3, <1>5, <1>6
<1> QED
  BY <1>7 DEF t, x

\* An invocation ends.
LEMMA ShowsEnded ==
    ASSUME NEW q \in Seq(Entry), NEW p \in DOMAIN q, q[p].status = "started",
           NEW s \in EntryStatuses, NEW n, NEW sts
    PROVE  Shows([q EXCEPT ![p].status = s], n, sts)
              = IF q[p].name # n \/ ("started" \in sts <=> s \in sts) THEN Shows(q, n, sts)
                ELSE IF s \in sts THEN Shows(q, n, sts) + 1
                ELSE Shows(q, n, sts) - 1
<1> DEFINE t == [q EXCEPT ![p].status = s]
           Sel(u) == {j \in DOMAIN u : u[j].name = n /\ u[j].status \in sts}
<1>0. \A j \in DOMAIN q : q[j] \in Entry
  OBVIOUS
<1>1. /\ DOMAIN t = DOMAIN q /\ \A j \in DOMAIN q : j # p => t[j] = q[j]
      /\ t[p].name = q[p].name /\ t[p].status = s
  BY <1>0 DEF Entry
<1> HIDE DEF t
<1>2. CASE q[p].name # n \/ ("started" \in sts <=> s \in sts)
  <2>1. Sel(t) = Sel(q)
    BY <1>1, <1>2
  <2> QED
    BY <1>2, <2>1 DEF Shows, t
<1>3. CASE q[p].name = n /\ s \in sts /\ "started" \notin sts
  <2>1. Sel(t) = Sel(q) \cup {p} /\ p \notin Sel(q)
    BY <1>1, <1>3
  <2>2. IsFiniteSet(Sel(q))
    BY ShowsNumber
  <2>3. Shows(t, n, sts) = Cardinality(Sel(t)) /\ Shows(q, n, sts) = Cardinality(Sel(q))
    BY DEF Shows
  <2> HIDE DEF Sel
  <2>4. Cardinality(Sel(q) \cup {p}) = Cardinality(Sel(q)) + 1
    BY <2>1, <2>2, FS_AddElement
  <2> QED
    BY <1>3, <2>1, <2>3, <2>4 DEF t
<1>4. CASE q[p].name = n /\ s \notin sts /\ "started" \in sts
  <2>1. Sel(t) = Sel(q) \ {p} /\ p \in Sel(q)
    BY <1>1, <1>4
  <2>2. IsFiniteSet(Sel(q))
    BY ShowsNumber
  <2>3. Shows(t, n, sts) = Cardinality(Sel(t)) /\ Shows(q, n, sts) = Cardinality(Sel(q))
    BY DEF Shows
  <2> HIDE DEF Sel
  <2>4. Cardinality(Sel(q) \ {p}) = Cardinality(Sel(q)) - 1
    BY <2>1, <2>2, FS_RemoveElement
  <2> QED
    BY <1>4, <2>1, <2>3, <2>4 DEF t
<1> QED
  BY <1>2, <1>3, <1>4

\* The two changes of a list, counted.
LEMMA TallyStarted ==
    ASSUME NEW q \in Seq(Entry), NEW m \in EventNames, NEW n
    PROVE  ListTally(Append(q, [name |-> m, status |-> "started"]), n)
              = IF m = n THEN UpStarted(ListTally(q, n)) ELSE ListTally(q, n)
<1> DEFINE t == Append(q, [name |-> m, status |-> "started"])
<1>1. \A sts : Shows(t, n, sts) = IF m = n /\ "started" \in sts THEN Shows(q, n, sts) + 1
                                  ELSE Shows(q, n, sts)
  BY ShowsStarted
<1> HIDE DEF t
<1>2. /\ Shows(t, n, EntryStatuses) = IF m = n THEN Shows(q, n, EntryStatuses) + 1
                                      ELSE Shows(q, n, EntryStatuses)
      /\ Shows(t, n, {"completed"}) = Shows(q, n, {"completed"})
      /\ Shows(t, n, {"failed", "retrying"}) = Shows(q, n, {"failed", "retrying"})
      /\ Shows(t, n, {"started"}) = IF m = n THEN Shows(q, n, {"started"}) + 1
                                    ELSE Shows(q, n, {"started"})
  BY <1>1 DEF EntryStatuses
<1>3. ListTally(t, n) = IF m = n THEN UpStarted(ListTally(q, n)) ELSE ListTally(q, n)
  BY <1>2 DEF ListTally, UpStarted
<1> QED
  BY <1>3 DEF t

LEMMA TallyEnded ==
    ASSUME NEW q \in Seq(Entry), NEW p \in DOMAIN q, q[p].status = "started",
           NEW s \in EntryStatuses \ {"started"}, NEW n
    PROVE  ListTally([q EXCEPT ![p].status = s], n)
              = IF q[p].name # n THEN ListTally(q, n)
                ELSE IF s = "completed" THEN UpCompleted(ListTally(q, n))
                ELSE UpFailed(ListTally(q, n))
<1> DEFINE t == [q EXCEPT ![p].status = s]
           m == q[p].name
<1>1. \A sts : Shows(t, n, sts) = IF m # n \/ ("started" \in sts <=> s \in sts)
                                  THEN Shows(q, n, sts)
                                  ELSE IF s \in sts THEN Shows(q, n, sts) + 1
                                  ELSE Shows(q, n, sts) - 1
  BY ShowsEnded
<1>2. s \in {"completed", "failed", "retrying"}
  BY DEF EntryStatuses
<1> HIDE DEF t, m
<1>3. CASE m # n
  BY <1>1, <1>3 DEF ListTally, t, m
<1>4. CASE m = n /\ s = "completed"
  <2>1. /\ Shows(t, n, EntryStatuses) = Shows(q, n, EntryStatuses)
        /\ Shows(t, n, {"completed"}) = Shows(q, n, {"completed"}) + 1
        /\ Shows(t, n, {"failed", "retrying"}) = Shows(q, n, {"failed", "retrying"})
        /\ Shows(t, n, {"started"}) = Shows(q, n, {"started"}) - 1
    BY <1>1, <1>4 DEF EntryStatuses
  <2> QED
    BY <1>4, <2>1 DEF ListTally, UpCompleted, t, m
<1>5. CASE m = n /\ s # "completed"
  <2>1. /\ Shows(t, n, EntryStatuses) = Shows(q, n, EntryStatuses)
        /\ Shows(t, n, {"completed"}) = Shows(q, n, {"completed"})
        /\ Shows(t, n, {"failed", "retrying"}) = Shows(q, n, {"failed", "retrying"}) + 1
        /\ Shows(t, n, {"started"}) = Shows(q, n, {"started"}) - 1
    BY <1>1, <1>2, <1>5 DEF EntryStatuses
  <2> QED
    BY <1>5, <2>1 DEF ListTally, UpFailed, t, m
<1> QED
  BY <1>3, <1>4, <1>5

PendingEntry == [name : EventNames, attempt : Nat, at : Nat]

Pendings == UNION {[K -> PendingEntry] : K \in SUBSET KeyType}

Invocations == [list : Seq(Entry), pending : Pendings]

NoInvocation == [list |-> <<>>, pending |-> <<>>]

InvocationsSteps(vs, e) == UNION {InvocationsStep(v, e) : v \in vs}

\* The attempt that is pending under the key k ends.
EndedView(v, e, k) ==
    [list    |-> [v.list EXCEPT ![v.pending[k].at].status = Outcome(e)],
     pending |-> [j \in DOMAIN v.pending \ {k} |-> v.pending[j]]]

LEMMA PendingType ==
    ASSUME NEW v \in Invocations
    PROVE  /\ v.list \in Seq(Entry) /\ DOMAIN v.pending \subseteq KeyType
           /\ \A k \in DOMAIN v.pending : v.pending[k] \in PendingEntry /\ v.pending[k].at \in Nat
<1>1. PICK K \in SUBSET KeyType : v.pending \in [K -> PendingEntry]
  BY DEF Invocations, Pendings
<1>2. \A x \in PendingEntry : x.at \in Nat
  BY DEF PendingEntry
<1> QED
  BY <1>1, <1>2 DEF Invocations

LEMMA InvocationsStepType ==
    ASSUME NEW v \in Invocations, NEW e \in Event
    PROVE  InvocationsStep(v, e) \subseteq Invocations
<1>0. /\ v.list \in Seq(Entry) /\ DOMAIN v.pending \subseteq KeyType
      /\ \A k \in DOMAIN v.pending : v.pending[k] \in PendingEntry /\ v.pending[k].at \in Nat
      /\ StartedKey(e) \in KeyType /\ e.name \in EventNames /\ e.attempt \in Nat
      /\ Outcome(e) \in EntryStatuses
  <2>1. e.name \in EventNames /\ e.attempt \in Nat
    BY DEF Event
  <2>2. StartedKey(e) \in KeyType
    BY DEF KeyType
  <2> QED
    BY <2>1, <2>2, PendingType DEF Outcome, EntryStatuses
<1>1. InvocationStarts(v, e) \in Invocations
  <2> DEFINE k0 == StartedKey(e)
             K == DOMAIN v.pending \cup {k0}
             y == [name |-> e.name, attempt |-> IF e.attempt = 0 THEN 1 ELSE e.attempt,
                   at |-> Len(v.list) + 1]
             p == [k \in K |-> IF k = k0 THEN y ELSE v.pending[k]]
             q == Append(v.list, [name |-> e.name, status |-> "started"])
  <2>1. y \in PendingEntry
    <3>1. Len(v.list) + 1 \in Nat /\ (IF e.attempt = 0 THEN 1 ELSE e.attempt) \in Nat
      BY <1>0
    <3> QED
      BY <1>0, <3>1 DEF PendingEntry
  <2>2. q \in Seq(Entry)
    <3>1. [name |-> e.name, status |-> "started"] \in Entry
      BY <1>0 DEF Entry, EntryStatuses
    <3> QED
      BY <1>0, <3>1
  <2>3. InvocationStarts(v, e) = [list |-> q, pending |-> p]
    BY DEF InvocationStarts
  <2>4. K \subseteq KeyType /\ p \in [K -> PendingEntry]
    <3> HIDE DEF k0, y
    <3> QED
      BY <1>0, <2>1 DEF k0
  <2> HIDE DEF K, p, q
  <2> QED
    BY <2>2, <2>3, <2>4 DEF Invocations, Pendings
<1>2. ASSUME NEW k \in DOMAIN v.pending PROVE EndedView(v, e, k) \in Invocations
  <2> DEFINE K == DOMAIN v.pending \ {k}
             p == [j \in K |-> v.pending[j]]
             i == v.pending[k].at
             q == [v.list EXCEPT ![i].status = Outcome(e)]
  <2>1. K \subseteq KeyType /\ p \in [K -> PendingEntry]
    BY <1>0
  <2>2. q \in Seq(Entry)
    <3>1. \A x \in Entry, s \in EntryStatuses : [x EXCEPT !.status = s] \in Entry
      BY DEF Entry
    <3>2. ASSUME NEW s \in Seq(Entry), NEW j \in DOMAIN s, NEW x \in Entry
          PROVE  [s EXCEPT ![j] = x] \in Seq(Entry)
      BY ExceptSeq
    <3> HIDE DEF i
    <3>3. CASE i \in DOMAIN v.list
      <4>1. v.list[i] \in Entry
        BY <1>0, <3>3
      <4>2. [v.list[i] EXCEPT !.status = Outcome(e)] \in Entry
        BY <1>0, <3>1, <4>1
      <4> QED
        BY <1>0, <3>2, <3>3, <4>2
    <3>4. CASE i \notin DOMAIN v.list
      <4>1. q = v.list
        BY <1>0, <3>4
      <4> QED
        BY <1>0, <4>1
    <3> QED
      BY <3>3, <3>4
  <2>3. EndedView(v, e, k) = [list |-> q, pending |-> p]
    BY DEF EndedView
  <2> HIDE DEF K, p, q
  <2> QED
    BY <2>1, <2>2, <2>3 DEF Invocations, Pendings
<1>3. \A attempt : InvocationEnds(v, e, attempt) \in Invocations
  BY <1>2 DEF InvocationEnds, EndedView
<1>4. CASE e.type = "step.started"
  BY <1>1, <1>4 DEF InvocationsStep
<1>5. CASE e.type \in {"step.completed", "step.failed"}
  BY <1>3, <1>5 DEF InvocationsStep
<1>6. CASE e.type \notin {"step.started", "step.completed", "step.failed"}
  BY <1>6 DEF InvocationsStep
<1> QED
  BY <1>4, <1>5, <1>6

\* vs has what StepInvocations may have computed, after each event of h.
IsListing(vs, h) ==
    /\ vs \in [0 .. Len(h) -> SUBSET Invocations] /\ vs[0] = {NoInvocation}
    /\ \A i \in 1 .. Len(h) : vs[i] = InvocationsSteps(vs[i - 1], h[i])

\* StepInvocations follows the events of the log.
LEMMA StepInvocationsFolds ==
    ASSUME NEW h \in Seq(Event)
    PROVE  \E vs : IsListing(vs, h) /\ StepInvocations(h) = {v.list : v \in vs[Len(h)]}
<1> DEFINE D == 0 .. Len(h)
           R == SUBSET Invocations
           F == [x \in R \X Event |-> InvocationsSteps(x[1], x[2])]
           Eqn(g) == g = [i \in D |-> IF i = 0 THEN {NoInvocation}
                                      ELSE InvocationsSteps(g[i - 1], h[i])]
<1>0. Len(h) \in Nat /\ DOMAIN h = 1 .. Len(h) /\ \A i \in 1 .. Len(h) : h[i] \in Event
  OBVIOUS
<1>1. \A vs \in R, e \in Event : InvocationsSteps(vs, e) \in R
  BY InvocationsStepType DEF InvocationsSteps
<1>2. F \in [R \X Event -> R]
  BY <1>1
<1>3. {NoInvocation} \in R
  <2>1. <<>> \in [{} -> PendingEntry] /\ {} \in SUBSET KeyType /\ <<>> \in Seq(Entry)
    OBVIOUS
  <2>2. <<>> \in Pendings
    BY <2>1 DEF Pendings
  <2> QED
    BY <2>1, <2>2 DEF NoInvocation, Invocations
<1> HIDE DEF F, R
<1>4. PICK vs : IsFold(vs, R, F, {NoInvocation}, h)
  BY <1>2, <1>3, FoldExists
<1>5. \A i \in 1 .. Len(h) : i - 1 \in D /\ i \in D
  BY <1>0
<1>6. \A i \in 1 .. Len(h) : vs[i] = InvocationsSteps(vs[i - 1], h[i])
  BY <1>0, <1>4, <1>5 DEF F, IsFold
<1>7. \A i \in D : i = 0 \/ i \in 1 .. Len(h)
  BY <1>0
<1>8. Eqn(vs)
  BY <1>4, <1>6, <1>7 DEF IsFold
<1> DEFINE f == CHOOSE g : Eqn(g)
<1>9. Eqn(f)
  BY <1>8
<1>10. StepInvocations(h) = {v.list : v \in f[Len(h)]}
  BY DEF StepInvocations, Project, NoInvocation, InvocationsSteps
<1> HIDE DEF f
<1>11. f[0] = {NoInvocation} /\ \A i \in 1 .. Len(h) : f[i] = InvocationsSteps(f[i - 1], h[i])
  BY <1>0, <1>5, <1>9
<1>12. \A i \in 1 .. Len(h) : vs[i - 1] = f[i - 1] => vs[i] = f[i]
  BY <1>6, <1>11
<1>13. \A i \in D : vs[i] = f[i]
  <2>1. vs[0] = f[0]
    BY <1>4, <1>11 DEF IsFold
  <2> QED
    BY <1>0, <1>12, <2>1, FoldUnique, ZenonT(60)
<1>14. StepInvocations(h) = {v.list : v \in vs[Len(h)]}
  BY <1>0, <1>10, <1>13
<1> QED
  BY <1>4, <1>6, <1>14 DEF IsListing, IsFold, R

\* The list shows what the log has, each pending attempt has its own key and an
\* invocation of its own that has started, and the attempt that started last is
\* pending.
PendingGood(v, k) ==
    /\ v.pending[k].name \in Names /\ v.pending[k].attempt \in 1 .. 79
    /\ k = StepAttemptKey(v.pending[k].name, v.pending[k].attempt)
    /\ v.pending[k].at \in DOMAIN v.list
    /\ v.list[v.pending[k].at] = [name |-> v.pending[k].name, status |-> "started"]
    /\ \A j \in DOMAIN v.pending : v.pending[j].at = v.pending[k].at => j = k

Listed(h, v, i) ==
    /\ \A n \in Names : ListTally(v.list, n) = Tally(h, n, i)
    /\ \A k \in DOMAIN v.pending : PendingGood(v, k)
    /\ i # 0 /\ h[i].type = "step.started" =>
          StepAttemptKey(h[i].name, h[i].attempt) \in DOMAIN v.pending

\* The end of an attempt ends one that is pending for its step.
LEMMA PendingEnds ==
    ASSUME NEW v \in Invocations, \A k \in DOMAIN v.pending : PendingGood(v, k),
           NEW e, e.type \in StepEnds, e.name \in Names, NEW a \in 1 .. 79,
           StepAttemptKey(e.name, a) \in DOMAIN v.pending,
           e.type = "step.failed" => e.attempt = a, NEW x \in InvocationsStep(v, e)
    PROVE  \E k \in DOMAIN v.pending : v.pending[k].name = e.name /\ x = EndedView(v, e, k)
<1> DEFINE P == DOMAIN v.pending
           k0 == StepAttemptKey(e.name, a)
<1>1. k0 \in P /\ v.pending[k0].name = e.name
  <2>1. /\ k0 \in P /\ v.pending[k0].name \in Names /\ v.pending[k0].attempt \in 1 .. 79
        /\ k0 = StepAttemptKey(v.pending[k0].name, v.pending[k0].attempt)
    BY DEF PendingGood
  <2> QED
    BY <2>1, KeyUnique
<1>2. \A b \in 1 .. 79 : StepAttemptKey(e.name, b) \in P =>
         InvocationEnds(v, e, b) = EndedView(v, e, StepAttemptKey(e.name, b))
  BY DEF InvocationEnds, EndedView
<1>3. CASE e.type = "step.failed"
  <2>1. x = InvocationEnds(v, e, a)
    BY <1>3 DEF InvocationsStep
  <2> QED
    BY <1>1, <1>2, <2>1
<1>4. CASE e.type = "step.completed"
  <2>1. PICK b \in FindPendingAttempt(v.pending, e.name) : x = InvocationEnds(v, e, b)
    BY <1>4 DEF InvocationsStep
  <2>2. PICK k \in P : v.pending[k].name = e.name /\ b = v.pending[k].attempt
    <3>1. {k \in P : v.pending[k].name = e.name} # {}
      BY <1>1
    <3> HIDE DEF k0
    <3> QED
      BY <2>1, <3>1 DEF FindPendingAttempt
  <2>3. b \in 1 .. 79 /\ k = StepAttemptKey(e.name, b)
    BY <2>2 DEF PendingGood
  <2> QED
    BY <1>2, <2>1, <2>2, <2>3
<1> QED
  BY <1>3, <1>4 DEF StepEnds

\* One event.
LEMMA ListedStep ==
    ASSUME FewAttempts, NEW h \in Seq(Event), Paired(h), NEW i \in 1 .. Len(h),
           NEW v \in Invocations, Listed(h, v, i - 1), NEW x \in InvocationsStep(v, h[i])
    PROVE  Listed(h, x, i)
<1> DEFINE e == h[i]
           P == DOMAIN v.pending
<1>0. /\ i \in Nat /\ i # 0 /\ i \in DOMAIN h /\ e \in Event /\ e.name \in EventNames
      /\ v.list \in Seq(Entry)
  <2>1. i \in Nat /\ i # 0 /\ i \in DOMAIN h /\ e \in Event
    OBVIOUS
  <2>2. e.name \in EventNames
    BY <2>1 DEF Event
  <2>3. v.list \in Seq(Entry)
    BY PendingType
  <2> QED
    BY <2>1, <2>2, <2>3
<1>1. \A n : Tally(h, n, i) =
         IF e.name = n /\ e.type = "step.started" THEN UpStarted(Tally(h, n, i - 1))
         ELSE IF e.name = n /\ e.type = "step.completed" THEN UpCompleted(Tally(h, n, i - 1))
         ELSE IF e.name = n /\ e.type = "step.failed" THEN UpFailed(Tally(h, n, i - 1))
         ELSE Tally(h, n, i - 1)
  BY <1>0, TallyNext
<1>2. \A n \in Names : ListTally(v.list, n) = Tally(h, n, i - 1)
  BY DEF Listed
<1>5. \A k \in P : PendingGood(v, k)
  BY DEF Listed
<1>3. e.type \notin StepEvents => x = v
  BY DEF InvocationsStep, StepEvents, StepEnds
<1>4. e.type \in StepEnds => \E k \in P : v.pending[k].name = e.name /\ x = EndedView(v, e, k)
  <2> SUFFICES ASSUME e.type \in StepEnds
               PROVE  \E k \in P : v.pending[k].name = e.name /\ x = EndedView(v, e, k)
    OBVIOUS
  <2>1. EndsItsStart(h, i)
    BY <1>0 DEF Paired
  <2> DEFINE a == h[i - 1].attempt
  <2>2. /\ i - 1 # 0 /\ i - 1 \in DOMAIN h /\ h[i - 1].type = "step.started"
        /\ h[i - 1].name = e.name /\ (e.type = "step.failed" => e.attempt = a)
    BY <1>0, <2>1 DEF EndsItsStart
  <2>3. e.name \in Names /\ a \in 1 .. 79 /\ StepAttemptKey(e.name, a) \in P
    BY <2>2, LogAttempt DEF Listed
  <2>4. x \in InvocationsStep(v, e)
    OBVIOUS
  <2> HIDE DEF e, a
  <2> QED
    BY <1>5, <2>2, <2>3, <2>4, PendingEnds
<1>9. e.type = "step.started" => /\ e.name \in Names /\ e.attempt \in 1 .. 79
                                 /\ StartedKey(e) = StepAttemptKey(e.name, e.attempt)
                                 /\ x = InvocationStarts(v, e)
  BY <1>0, LogAttempt, LogKey DEF InvocationsStep
<1> HIDE DEF e
<1>6. CASE e.type = "step.started"
  <2> DEFINE q == v.list
             y == [name |-> e.name, status |-> "started"]
             t == Append(q, y)
             k0 == StepAttemptKey(e.name, e.attempt)
             r == [name |-> e.name, attempt |-> e.attempt, at |-> Len(q) + 1]
             z == [k \in P \cup {k0} |-> IF k = k0 THEN r ELSE v.pending[k]]
  <2>1. x.list = t /\ x.pending = z
    <3>1. e.attempt # 0
      <4> DEFINE a == e.attempt
      <4>1. a \in 1 .. 79
        BY <1>6, <1>9
      <4> HIDE DEF a
      <4>2. a # 0
        BY <4>1
      <4> QED
        BY <4>2 DEF a
    <3> QED
      BY <1>6, <1>9, <3>1 DEF InvocationStarts
  <2>2. \A n \in Names : ListTally(t, n) = Tally(h, n, i)
    BY <1>0, <1>1, <1>2, <1>6, TallyStarted
  <2>3. /\ Len(q) \in Nat /\ Len(q) + 1 \in DOMAIN t /\ Len(q) + 1 \notin DOMAIN q
        /\ t[Len(q) + 1] = y /\ \A j \in DOMAIN q : j \in DOMAIN t /\ t[j] = q[j]
    BY <1>0
  <2>4. r.name = e.name /\ r.attempt = e.attempt /\ r.at = Len(q) + 1
    OBVIOUS
  <2>5. /\ DOMAIN z = P \cup {k0} /\ z[k0] = r /\ \A k \in P : k # k0 => z[k] = v.pending[k]
    OBVIOUS
  <2>6. \A j \in P : v.pending[j].at \in DOMAIN q /\ v.pending[j].at # Len(q) + 1
    BY <1>5, <2>3 DEF PendingGood
  <2>7. \A k \in P : /\ v.pending[k].name \in Names /\ v.pending[k].attempt \in 1 .. 79
                     /\ k = StepAttemptKey(v.pending[k].name, v.pending[k].attempt)
                     /\ q[v.pending[k].at] = [name |-> v.pending[k].name, status |-> "started"]
                     /\ \A j \in P : v.pending[j].at = v.pending[k].at => j = k
    BY <1>5 DEF PendingGood
  <2>8. k0 = StepAttemptKey(e.name, e.attempt) /\ y = [name |-> e.name, status |-> "started"]
    OBVIOUS
  <2> HIDE DEF q, t, r, z, k0, y, P
  <2>9. ASSUME NEW k \in DOMAIN z
        PROVE  PendingGood(x, k)
    <3>1. \A j \in DOMAIN z : z[j].at = z[k].at => j = k
      <4>1. \A j \in DOMAIN z : j = k0 \/ (j # k0 /\ j \in P /\ z[j] = v.pending[j])
        BY <2>5
      <4>2. z[k0].at = Len(q) + 1
        BY <2>4, <2>5
      <4>3. CASE k = k0
        BY <2>6, <4>1, <4>2, <4>3
      <4>4. CASE k # k0
        BY <2>6, <2>7, <4>1, <4>2, <4>4
      <4> QED
        BY <4>3, <4>4
    <3>2. CASE k = k0
      BY <1>6, <1>9, <2>1, <2>3, <2>4, <2>5, <2>8, <3>1, <3>2 DEF PendingGood
    <3>3. CASE k # k0
      <4>1. k \in P /\ z[k] = v.pending[k]
        BY <2>5, <3>3
      <4>2. v.pending[k].at \in DOMAIN t /\ t[v.pending[k].at] = q[v.pending[k].at]
        BY <2>3, <2>6, <4>1
      <4> QED
        BY <2>1, <2>7, <3>1, <4>1, <4>2 DEF PendingGood
    <3> QED
      BY <3>2, <3>3
  <2> QED
    BY <2>1, <2>2, <2>5, <2>8, <2>9 DEF Listed, e
<1>7. CASE e.type \in StepEnds
  <2>1. PICK k \in P : v.pending[k].name = e.name /\ x = EndedView(v, e, k)
    BY <1>4, <1>7
  <2> DEFINE q == v.list
             p == v.pending[k].at
             t == [q EXCEPT ![p].status = Outcome(e)]
             z == [j \in P \ {k} |-> v.pending[j]]
  <2>3. x.list = t /\ x.pending = z
    BY <2>1 DEF EndedView
  <2>4. p \in DOMAIN q /\ q[p].status = "started" /\ q[p].name = e.name
    <3>1. p \in DOMAIN q /\ q[p] = [name |-> e.name, status |-> "started"]
      BY <1>5, <2>1 DEF PendingGood
    <3> HIDE DEF p, q
    <3> QED
      BY <3>1
  <2>5. /\ Outcome(e) \in EntryStatuses \ {"started"}
        /\ Outcome(e) = "completed" <=> e.type = "step.completed"
    BY <1>7 DEF Outcome, EntryStatuses, StepEnds
  <2>6. DOMAIN t = DOMAIN q /\ \A j \in DOMAIN q : j # p => t[j] = q[j]
    BY <1>0
  <2>7. \A n \in Names : ListTally(t, n) = IF e.name # n THEN ListTally(q, n)
                                           ELSE IF e.type = "step.completed" THEN UpCompleted(ListTally(q, n))
                                           ELSE UpFailed(ListTally(q, n))
    <3>1. q \in Seq(Entry)
      BY <1>0
    <3> HIDE DEF q, p
    <3>2. \A n \in Names : ListTally(t, n) = IF q[p].name # n THEN ListTally(q, n)
                                             ELSE IF Outcome(e) = "completed" THEN UpCompleted(ListTally(q, n))
                                             ELSE UpFailed(ListTally(q, n))
      <4> DEFINE s == Outcome(e)
      <4>1. s \in EntryStatuses \ {"started"}
        BY <2>5
      <4> HIDE DEF s
      <4>2. \A n : ListTally([q EXCEPT ![p].status = s], n) =
               IF q[p].name # n THEN ListTally(q, n)
               ELSE IF s = "completed" THEN UpCompleted(ListTally(q, n))
               ELSE UpFailed(ListTally(q, n))
        <5> HIDE DEF P
        <5> QED
          BY <2>4, <3>1, <4>1, TallyEnded
      <4> QED
        BY <4>2 DEF s
    <3> HIDE DEF t
    <3> QED
      BY <2>4, <2>5, <3>2
  <2>8. \A n \in Names : ListTally(t, n) = Tally(h, n, i)
    BY <1>1, <1>2, <1>7, <2>7 DEF StepEnds
  <2>9. DOMAIN z = P \ {k} /\ \A j \in P \ {k} : z[j] = v.pending[j]
    OBVIOUS
  <2> HIDE DEF t, z
  <2>10. ASSUME NEW j \in DOMAIN z
         PROVE  PendingGood(x, j)
    <3>1. j \in P /\ z[j] = v.pending[j] /\ v.pending[j].at # p /\ v.pending[j].at \in DOMAIN q
      BY <1>5, <2>1, <2>9 DEF PendingGood
    <3>2. t[z[j].at] = q[z[j].at] /\ z[j].at \in DOMAIN t
      BY <2>6, <3>1
    <3>3. \A m \in DOMAIN z : z[m].at = z[j].at => m = j
      BY <1>5, <2>9, <3>1 DEF PendingGood
    <3>4. /\ v.pending[j].name \in Names /\ v.pending[j].attempt \in 1 .. 79
          /\ j = StepAttemptKey(v.pending[j].name, v.pending[j].attempt)
          /\ q[v.pending[j].at] = [name |-> v.pending[j].name, status |-> "started"]
      BY <1>5, <3>1 DEF PendingGood
    <3> HIDE DEF q, p, P
    <3> QED
      BY <2>3, <3>1, <3>2, <3>3, <3>4 DEF PendingGood
  <2> QED
    BY <1>7, <2>3, <2>8, <2>10 DEF Listed, e, StepEnds
<1>8. CASE e.type \notin StepEvents
  <2>1. x = v
    BY <1>3, <1>8
  <2>2. \A n \in Names : ListTally(x.list, n) = Tally(h, n, i)
    BY <1>1, <1>2, <1>8, <2>1 DEF StepEvents, StepEnds
  <2> QED
    BY <1>5, <1>8, <2>1, <2>2 DEF Listed, e, StepEvents
<1> QED
  BY <1>6, <1>7, <1>8 DEF StepEvents

\* Whichever attempt a completion is matched with, StepInvocations shows the
\* numbers of starts, completions and failures that the log has.
LEMMA InvocationsFollow ==
    ASSUME FewAttempts, NEW h \in Seq(Event), Paired(h), NEW list \in StepInvocations(h)
    PROVE  \A n \in Names : ListTally(list, n) = Tally(h, n, Len(h))
<1>0. Len(h) \in Nat
  OBVIOUS
<1>1. PICK vs : IsListing(vs, h) /\ StepInvocations(h) = {v.list : v \in vs[Len(h)]}
  BY StepInvocationsFolds
<1> DEFINE T == {i \in 0 .. Len(h) : \A v \in vs[i] : Listed(h, v, i)}
<1>2. 0 \in T
  <2>1. \A n \in Names : ListTally(<<>>, n) = Tally(h, n, 0)
    <3>1. \A n, sts : Shows(<<>>, n, sts) = 0
      <4>1. \A n, sts : {j \in DOMAIN <<>> : <<>>[j].name = n /\ <<>>[j].status \in sts} = {}
        OBVIOUS
      <4> QED
        BY <4>1, FS_EmptySet, Zenon DEF Shows
    <3>2. 0 - 0 - 0 = 0
      OBVIOUS
    <3> QED
      BY <3>1, <3>2, NumberNone DEF ListTally, Tally
  <2>2. Listed(h, NoInvocation, 0)
    BY <2>1 DEF Listed, NoInvocation
  <2> QED
    BY <1>0, <1>1, <2>2 DEF IsListing
<1>3. ASSUME NEW i \in 1 .. Len(h), i - 1 \in T PROVE i \in T
  <2>1. ASSUME NEW x \in vs[i] PROVE Listed(h, x, i)
    <3>1. vs[i] = InvocationsSteps(vs[i - 1], h[i]) /\ vs[i - 1] \subseteq Invocations
      BY <1>0, <1>1 DEF IsListing
    <3>2. PICK v \in vs[i - 1] : x \in InvocationsStep(v, h[i])
      BY <2>1, <3>1 DEF InvocationsSteps
    <3>3. v \in Invocations /\ Listed(h, v, i - 1)
      BY <1>3, <3>1, <3>2
    <3> QED
      BY <3>2, <3>3, ListedStep
  <2>2. i \in 0 .. Len(h)
    BY <1>0
  <2> QED
    BY <2>1, <2>2
<1> HIDE DEF T
<1>4. \A i \in 0 .. Len(h) : i \in T
  BY <1>0, <1>2, <1>3, AllPositions
<1>5. Len(h) \in T
  BY <1>0, <1>4
<1> QED
  BY <1>1, <1>5 DEF T, Listed

\* In a workflow where no step has 80 attempts or more and no name begins with
\* another one and a colon, however often steps were retried, resumed and run
\* again, and whichever entry of its maps the code takes first, StepCounts and
\* StepInvocations (project/project.go) agree with each other and with the log:
\* no end of an attempt is lost.  Without the condition on the names it is not so
\* (CompletionsCounted).
THEOREM CountsCorrect ==
    ASSUME \A s \in Steps : MaxAttempts[s] < 80, \A m, n \in Names : ~Continues(m, n)
    PROVE  Spec => []CountsAgree
<1>0. FewAttempts /\ NamesApart
  BY DEF FewAttempts, NamesApart
<1>1. ViewGood(log) => CountsAgree
  <2> SUFFICES ASSUME ViewGood(log), NEW counts \in StepCounts(log),
                      NEW list \in StepInvocations(log), NEW n \in Names
               PROVE  LET Shown(status) ==
                              Cardinality({i \in DOMAIN list : list[i].name = n /\ list[i].status \in status})
                      IN  /\ counts[n].total = Shown({"started", "completed", "failed", "retrying"})
                          /\ counts[n].running = Shown({"started"})
                          /\ counts[n].completed = Shown({"completed"})
                          /\ counts[n].completed = Count(log, "step.completed", n)
                          /\ counts[n].failed = Shown({"failed", "retrying"})
                          /\ counts[n].failed = Count(log, "step.failed", n)
    BY DEF CountsAgree
  <2>0. log \in Seq(Event) /\ Paired(log) /\ DOMAIN log = 1 .. Len(log)
    BY DEF ViewGood
  <2>1. counts[n] = Tally(log, n, Len(log))
    BY <1>0, <2>0, CountsFollow
  <2>2. ListTally(list, n) = Tally(log, n, Len(log))
    BY <1>0, <2>0, InvocationsFollow
  <2>3. \A type : Count(log, type, n) = Number(log, type, n, Len(log))
    BY <2>0 DEF Count, Number
  <2>4. /\ counts[n].completed = Count(log, "step.completed", n)
        /\ counts[n].failed = Count(log, "step.failed", n)
    BY <2>1, <2>3 DEF Tally
  <2>5. /\ counts[n].total = Shows(list, n, EntryStatuses)
        /\ counts[n].running = Shows(list, n, {"started"})
        /\ counts[n].completed = Shows(list, n, {"completed"})
        /\ counts[n].failed = Shows(list, n, {"failed", "retrying"})
    BY <2>1, <2>2 DEF ListTally
  <2> QED
    BY <2>4, <2>5 DEF Shows, EntryStatuses
<1> QED
  BY <1>1, ViewCorrect, PTL

-----------------------------------------------------------------------------
(* What ChildWorkflows and Timeline show.                                  *)

\* f is what Timeline has computed, after each event of h.
IsTimeline(f, h) ==
    /\ f \in [0 .. Len(h) -> Seq(Event)] /\ f[0] = <<>>
    /\ \A i \in 1 .. Len(h) : f[i] = TimelineStep(f[i - 1], h[i])

\* Timeline follows the events of the log.
LEMMA TimelineFolds ==
    ASSUME NEW h \in Seq(Event)
    PROVE  \E f : IsTimeline(f, h) /\ Timeline(h) = f[Len(h)]
<1> DEFINE D == 0 .. Len(h)
           R == Seq(Event)
           F == [x \in R \X Event |-> TimelineStep(x[1], x[2])]
           Eqn(g) == g = [i \in D |-> IF i = 0 THEN <<>> ELSE TimelineStep(g[i - 1], h[i])]
<1>0. Len(h) \in Nat /\ DOMAIN h = 1 .. Len(h) /\ \A i \in 1 .. Len(h) : h[i] \in Event
  OBVIOUS
<1>1. \A r \in R, e \in Event : TimelineStep(r, e) \in R
  BY DEF TimelineStep
<1>2. F \in [R \X Event -> R]
  BY <1>1
<1>3. <<>> \in R
  OBVIOUS
<1> HIDE DEF F, R
<1>4. PICK f : IsFold(f, R, F, <<>>, h)
  BY <1>2, <1>3, FoldExists
<1>5. \A i \in 1 .. Len(h) : i - 1 \in D /\ i \in D
  BY <1>0
<1>6. \A i \in 1 .. Len(h) : f[i] = TimelineStep(f[i - 1], h[i])
  BY <1>0, <1>4, <1>5 DEF F, IsFold
<1>7. \A i \in D : i = 0 \/ i \in 1 .. Len(h)
  BY <1>0
<1>8. Eqn(f)
  BY <1>4, <1>6, <1>7 DEF IsFold
<1> DEFINE c == CHOOSE g : Eqn(g)
<1>9. Eqn(c)
  BY <1>8
<1>10. Timeline(h) = c[Len(h)]
  BY DEF Project, Timeline
<1> HIDE DEF c
<1>11. c[0] = <<>> /\ \A i \in 1 .. Len(h) : c[i] = TimelineStep(c[i - 1], h[i])
  BY <1>0, <1>5, <1>9
<1>12. \A i \in 1 .. Len(h) : f[i - 1] = c[i - 1] => f[i] = c[i]
  BY <1>6, <1>11
<1>13. \A i \in D : f[i] = c[i]
  <2>1. f[0] = c[0]
    BY <1>4, <1>11 DEF IsFold
  <2> QED
    BY <1>0, <1>12, <2>1, FoldUnique, ZenonT(60)
<1>14. Timeline(h) = f[Len(h)]
  BY <1>0, <1>10, <1>13
<1> QED
  BY <1>4, <1>6, <1>14 DEF IsTimeline, IsFold, R

SpawnedIn(h) == Project(SpawnedStep, <<>>, h)

\* f has the children spawned, after each event of h.
IsSpawned(f, h) ==
    /\ f \in [0 .. Len(h) -> Seq(ChildId)] /\ f[0] = <<>>
    /\ \A i \in 1 .. Len(h) : f[i] = SpawnedStep(f[i - 1], h[i])

\* ... follows the events.
LEMMA SpawnedFolds ==
    ASSUME NEW h \in Seq(Event)
    PROVE  \E f : IsSpawned(f, h) /\ SpawnedIn(h) = f[Len(h)]
<1> DEFINE D == 0 .. Len(h)
           R == Seq(ChildId)
           F == [x \in R \X Event |-> SpawnedStep(x[1], x[2])]
           Eqn(g) == g = [i \in D |-> IF i = 0 THEN <<>> ELSE SpawnedStep(g[i - 1], h[i])]
<1>0. Len(h) \in Nat /\ DOMAIN h = 1 .. Len(h) /\ \A i \in 1 .. Len(h) : h[i] \in Event
  OBVIOUS
<1>1. \A r \in R, e \in Event : SpawnedStep(r, e) \in R
  BY DEF SpawnedStep, Event
<1>2. F \in [R \X Event -> R]
  BY <1>1
<1>3. <<>> \in R
  OBVIOUS
<1> HIDE DEF F, R
<1>4. PICK f : IsFold(f, R, F, <<>>, h)
  BY <1>2, <1>3, FoldExists
<1>5. \A i \in 1 .. Len(h) : i - 1 \in D /\ i \in D
  BY <1>0
<1>6. \A i \in 1 .. Len(h) : f[i] = SpawnedStep(f[i - 1], h[i])
  BY <1>0, <1>4, <1>5 DEF F, IsFold
<1>7. \A i \in D : i = 0 \/ i \in 1 .. Len(h)
  BY <1>0
<1>8. Eqn(f)
  BY <1>4, <1>6, <1>7 DEF IsFold
<1> DEFINE c == CHOOSE g : Eqn(g)
<1>9. Eqn(c)
  BY <1>8
<1>10. SpawnedIn(h) = c[Len(h)]
  BY DEF Project, SpawnedIn
<1> HIDE DEF c
<1>11. c[0] = <<>> /\ \A i \in 1 .. Len(h) : c[i] = SpawnedStep(c[i - 1], h[i])
  BY <1>0, <1>5, <1>9
<1>12. \A i \in 1 .. Len(h) : f[i - 1] = c[i - 1] => f[i] = c[i]
  BY <1>6, <1>11
<1>13. \A i \in D : f[i] = c[i]
  <2>1. f[0] = c[0]
    BY <1>4, <1>11 DEF IsFold
  <2> QED
    BY <1>0, <1>12, <2>1, FoldUnique, ZenonT(60)
<1>14. SpawnedIn(h) = f[Len(h)]
  BY <1>0, <1>10, <1>13
<1> QED
  BY <1>4, <1>6, <1>14 DEF IsSpawned, IsFold, R

ChildEntry == [child : ChildId, status : {"running", "completed", "failed"}]

\* f is what ChildWorkflows has computed, after each event of h.
IsChildren(f, h) ==
    /\ f \in [0 .. Len(h) -> Seq(ChildEntry)] /\ f[0] = <<>>
    /\ \A i \in 1 .. Len(h) : f[i] = ChildrenStep(f[i - 1], h[i])

\* ChildWorkflows follows the events of the log.
LEMMA ChildrenFolds ==
    ASSUME NEW h \in Seq(Event)
    PROVE  \E f : IsChildren(f, h) /\ ChildWorkflows(h) = f[Len(h)]
<1> DEFINE D == 0 .. Len(h)
           R == Seq(ChildEntry)
           F == [x \in R \X Event |-> ChildrenStep(x[1], x[2])]
           Eqn(g) == g = [i \in D |-> IF i = 0 THEN <<>> ELSE ChildrenStep(g[i - 1], h[i])]
<1>0. Len(h) \in Nat /\ DOMAIN h = 1 .. Len(h) /\ \A i \in 1 .. Len(h) : h[i] \in Event
  OBVIOUS
<1>1. \A r \in R, e \in Event : ChildrenStep(r, e) \in R
  <2> SUFFICES ASSUME NEW r \in R, NEW e \in Event PROVE ChildrenStep(r, e) \in R
    OBVIOUS
  <2>0. e.child \in ChildId /\ Len(r) \in Nat /\ DOMAIN r = 1 .. Len(r)
    BY DEF Event
  <2>1. CASE e.type = "child.spawned"
    <3>1. [child |-> e.child, status |-> "running"] \in ChildEntry
      BY <2>0 DEF ChildEntry
    <3>2. ChildrenStep(r, e) = Append(r, [child |-> e.child, status |-> "running"])
      BY <2>1 DEF ChildrenStep
    <3> QED
      BY <3>1, <3>2
  <2>2. CASE e.type \in Outcomes
    <3> DEFINE y(i) == IF i \in LastSpawn(r, e.child) /\ r[i].status = "running"
                       THEN [r[i] EXCEPT !.status = IF e.type = "child.failed" THEN "failed"
                                                    ELSE "completed"]
                       ELSE r[i]
    <3>1. ChildrenStep(r, e) = [i \in DOMAIN r |-> y(i)]
      BY <2>2 DEF ChildrenStep, Outcomes
    <3>2. \A i \in DOMAIN r : y(i) \in ChildEntry
      <4>1. \A i \in DOMAIN r : r[i] \in ChildEntry
        OBVIOUS
      <4>2. \A x \in ChildEntry : [x EXCEPT !.status = "failed"] \in ChildEntry
                                  /\ [x EXCEPT !.status = "completed"] \in ChildEntry
        BY DEF ChildEntry
      <4> QED
        BY <4>1, <4>2
    <3> HIDE DEF y
    <3> QED
      BY <2>0, <3>1, <3>2
  <2>3. CASE e.type \notin Outcomes /\ e.type # "child.spawned"
    BY <2>3 DEF ChildrenStep, Outcomes
  <2> QED
    BY <2>1, <2>2, <2>3
<1>2. F \in [R \X Event -> R]
  BY <1>1
<1>3. <<>> \in R
  OBVIOUS
<1> HIDE DEF F, R
<1>4. PICK f : IsFold(f, R, F, <<>>, h)
  BY <1>2, <1>3, FoldExists
<1>5. \A i \in 1 .. Len(h) : i - 1 \in D /\ i \in D
  BY <1>0
<1>6. \A i \in 1 .. Len(h) : f[i] = ChildrenStep(f[i - 1], h[i])
  BY <1>0, <1>4, <1>5 DEF F, IsFold
<1>7. \A i \in D : i = 0 \/ i \in 1 .. Len(h)
  BY <1>0
<1>8. Eqn(f)
  BY <1>4, <1>6, <1>7 DEF IsFold
<1> DEFINE c == CHOOSE g : Eqn(g)
<1>9. Eqn(c)
  BY <1>8
<1>10. ChildWorkflows(h) = c[Len(h)]
  BY DEF Project, ChildWorkflows
<1> HIDE DEF c
<1>11. c[0] = <<>> /\ \A i \in 1 .. Len(h) : c[i] = ChildrenStep(c[i - 1], h[i])
  BY <1>0, <1>5, <1>9
<1>12. \A i \in 1 .. Len(h) : f[i - 1] = c[i - 1] => f[i] = c[i]
  BY <1>6, <1>11
<1>13. \A i \in D : f[i] = c[i]
  <2>1. f[0] = c[0]
    BY <1>4, <1>11 DEF IsFold
  <2> QED
    BY <1>0, <1>12, <2>1, FoldUnique, ZenonT(60)
<1>14. ChildWorkflows(h) = f[Len(h)]
  BY <1>0, <1>10, <1>13
<1> QED
  BY <1>4, <1>6, <1>14 DEF IsChildren, IsFold, R

\* One more event: what was spawned before stays.
LEMMA SpawnedAppend ==
    ASSUME NEW q \in Seq(Event), NEW e \in Event
    PROVE  SpawnedIn(Append(q, e)) = SpawnedStep(SpawnedIn(q), e)
<1> DEFINE t == Append(q, e)
<1>0. /\ t \in Seq(Event) /\ Len(q) \in Nat /\ Len(t) = Len(q) + 1 /\ t[Len(q) + 1] = e
      /\ \A i \in 1 .. Len(q) : t[i] = q[i] /\ i \in 1 .. Len(t)
      /\ Len(q) + 1 \in 1 .. Len(t) /\ (Len(q) + 1) - 1 = Len(q)
  OBVIOUS
<1> HIDE DEF t
<1>1. PICK f : IsSpawned(f, t) /\ SpawnedIn(t) = f[Len(t)]
  BY <1>0, SpawnedFolds
<1>2. PICK g : IsSpawned(g, q) /\ SpawnedIn(q) = g[Len(q)]
  BY SpawnedFolds
<1>3. \A i \in 1 .. Len(q) : g[i - 1] = f[i - 1] => g[i] = f[i]
  BY <1>0, <1>1, <1>2 DEF IsSpawned
<1>4. g[0] = f[0]
  BY <1>1, <1>2 DEF IsSpawned
<1>5. \A i \in 0 .. Len(q) : g[i] = f[i]
  BY <1>0, <1>3, <1>4, FoldUnique, ZenonT(60)
<1>6. f[Len(q)] = SpawnedIn(q)
  BY <1>0, <1>2, <1>5
<1>7. f[Len(q) + 1] = SpawnedStep(f[(Len(q) + 1) - 1], t[Len(q) + 1])
  BY <1>0, <1>1 DEF IsSpawned
<1>8. SpawnedIn(t) = SpawnedStep(SpawnedIn(q), e)
  BY <1>0, <1>1, <1>6, <1>7
<1> QED
  BY <1>8 DEF t

LEMMA SpawnedNone == SpawnedIn(<<>>) = <<>>
<1>1. <<>> \in Seq(Event) /\ Len(<<>>) = 0
  OBVIOUS
<1>2. PICK f : IsSpawned(f, <<>>) /\ SpawnedIn(<<>>) = f[Len(<<>>)]
  BY <1>1, SpawnedFolds
<1> QED
  BY <1>1, <1>2 DEF IsSpawned

\* A child is spawned once, then it has one outcome.
OnceEach(h) ==
    /\ \A p, q \in DOMAIN h :
          h[p].type = "child.spawned" /\ h[q].type = "child.spawned" /\ h[p].child = h[q].child => p = q
    /\ \A p, q \in DOMAIN h :
          h[p].type \in Outcomes /\ h[q].type \in Outcomes /\ h[p].child = h[q].child => p = q
    /\ \A p, q \in DOMAIN h :
          h[p].type = "child.spawned" /\ h[q].type \in Outcomes /\ h[p].child = h[q].child => p < q
    /\ \A p \in DOMAIN h : h[p].type = "child.spawned" =>
          \E q \in DOMAIN h : h[q].type \in Outcomes /\ h[q].child = h[p].child

LEMMA KidsOnce ==
    ASSUME NEW h \in Seq(Event), KidsOver(h)
    PROVE  OnceEach(h)
<1>1. ASSUME NEW p \in DOMAIN h, NEW id, h[p].child = id, h[p].type \in Outcomes \cup {"child.spawned"}
      PROVE  \E i, k \in DOMAIN h :
                /\ i < k /\ h[i].type = "child.spawned" /\ h[k].type \in Outcomes
                /\ h[k].child = id
                /\ \A j \in DOMAIN h : h[j].child = id /\ h[j].type \in Outcomes \cup {"child.spawned"}
                      => j \in {i, k}
  <2>1. id \in ChildId
    <3>1. h[p] \in Event
      OBVIOUS
    <3> QED
      BY <1>1, <3>1 DEF Event
  <2>2. p \in Of(h, id)
    BY <1>1 DEF Of, ChildEventOf, Outcomes
  <2>3. PICK i, k \in DOMAIN h : /\ i < k /\ h[i].type = "child.spawned" /\ h[k].type \in Outcomes
                                 /\ Of(h, id) = {i, k}
    BY <2>1, <2>2 DEF KidsOver, Whole, Unknown, Of
  <2> QED
    BY <2>3 DEF Of, ChildEventOf, Outcomes
<1>2. "child.spawned" \notin Outcomes
  BY DEF Outcomes
<1>3. ASSUME NEW p \in DOMAIN h, NEW q \in DOMAIN h, h[p].child = h[q].child,
             h[p].type \in Outcomes \cup {"child.spawned"},
             h[q].type \in Outcomes \cup {"child.spawned"}
      PROVE  /\ h[p].type = "child.spawned" /\ h[q].type = "child.spawned" => p = q
             /\ h[p].type \in Outcomes /\ h[q].type \in Outcomes => p = q
             /\ h[p].type = "child.spawned" /\ h[q].type \in Outcomes => p < q
  BY <1>1, <1>2, <1>3
<1>4. ASSUME NEW p \in DOMAIN h, h[p].type = "child.spawned"
      PROVE  \E q \in DOMAIN h : h[q].type \in Outcomes /\ h[q].child = h[p].child
  BY <1>1, <1>4
<1> QED
  BY <1>3, <1>4 DEF OnceEach

\* The list v, after i events of h, has each child that was spawned once, with
\* the outcome that these events have for it.
Told(h, v, i) ==
    /\ \A j \in DOMAIN v : \E p \in 1 .. i : h[p].type = "child.spawned" /\ h[p].child = v[j].child
    /\ \A j, m \in DOMAIN v : v[j].child = v[m].child => j = m
    /\ \A j \in DOMAIN v :
          /\ v[j].status = "completed" <=>
                \E p \in 1 .. i : h[p].type = "child.completed" /\ h[p].child = v[j].child
          /\ v[j].status = "failed" <=>
                \E p \in 1 .. i : h[p].type = "child.failed" /\ h[p].child = v[j].child

\* A child is spawned.
LEMMA ToldSpawn ==
    ASSUME NEW h \in Seq(Event), OnceEach(h), NEW i \in 1 .. Len(h), h[i].type = "child.spawned",
           NEW v \in Seq(ChildEntry), Told(h, v, i - 1)
    PROVE  Told(h, ChildrenStep(v, h[i]), i)
<1> DEFINE id == h[i].child
           y == [child |-> id, status |-> "running"]
           t == Append(v, y)
           k == Len(v) + 1
<1>0. /\ DOMAIN h = 1 .. Len(h) /\ i \in DOMAIN h /\ i \in 1 .. i
      /\ \A p \in 1 .. i - 1 : p \in DOMAIN h /\ p < i /\ p # i /\ ~(i < p) /\ p \in 1 .. i
      /\ \A p \in 1 .. i : p \in 1 .. i - 1 \/ p = i
  OBVIOUS
<1>1. ChildrenStep(v, h[i]) = t
  BY DEF ChildrenStep
<1>2. /\ \A j : j \in DOMAIN t <=> j \in DOMAIN v \/ j = k
      /\ k \notin DOMAIN v /\ t[k] = y /\ \A j \in DOMAIN v : t[j] = v[j]
  OBVIOUS
<1>3. y.child = id /\ y.status = "running"
  OBVIOUS
<1> HIDE DEF y, t, k
<1>4. \A j \in DOMAIN v : v[j].child # id
  BY <1>0 DEF Told, OnceEach
<1>5. \A p \in 1 .. i : h[p].type \in Outcomes => h[p].child # id
  <2>1. h[i].type \notin Outcomes
    BY DEF Outcomes
  <2> QED
    BY <1>0, <2>1 DEF OnceEach
<1>6. \A j \in DOMAIN t : \E p \in 1 .. i : h[p].type = "child.spawned" /\ h[p].child = t[j].child
  BY <1>0, <1>2, <1>3 DEF Told
<1>7. \A j, m \in DOMAIN t : t[j].child = t[m].child => j = m
  BY <1>2, <1>3, <1>4 DEF Told
<1>8. ASSUME NEW j \in DOMAIN t
      PROVE  /\ t[j].status = "completed" <=>
                   \E p \in 1 .. i : h[p].type = "child.completed" /\ h[p].child = t[j].child
             /\ t[j].status = "failed" <=>
                   \E p \in 1 .. i : h[p].type = "child.failed" /\ h[p].child = t[j].child
  <2>1. CASE j = k
    BY <1>2, <1>3, <1>5, <2>1 DEF Outcomes
  <2>2. CASE j \in DOMAIN v
    BY <1>0, <1>2, <2>2 DEF Told
  <2> QED
    BY <1>2, <2>1, <2>2
<1>9. Told(h, t, i)
  BY <1>6, <1>7, <1>8 DEF Told
<1> QED
  BY <1>1, <1>9

\* A child ends.
LEMMA ToldEnd ==
    ASSUME NEW h \in Seq(Event), OnceEach(h), NEW i \in 1 .. Len(h), h[i].type \in Outcomes,
           NEW v \in Seq(ChildEntry), Told(h, v, i - 1)
    PROVE  Told(h, ChildrenStep(v, h[i]), i)
<1> DEFINE id == h[i].child
           end == IF h[i].type = "child.failed" THEN "failed" ELSE "completed"
           y(j) == IF j \in LastSpawn(v, id) /\ v[j].status = "running"
                   THEN [v[j] EXCEPT !.status = end] ELSE v[j]
           t == [j \in DOMAIN v |-> y(j)]
<1>0. /\ DOMAIN h = 1 .. Len(h) /\ i \in DOMAIN h /\ i \in 1 .. i
      /\ \A p \in 1 .. i - 1 : p \in DOMAIN h /\ p # i /\ p \in 1 .. i
      /\ \A p \in 1 .. i : p \in 1 .. i - 1 \/ p = i
  OBVIOUS
<1>1. ChildrenStep(v, h[i]) = t
  BY DEF ChildrenStep, Outcomes
<1>2. /\ Len(v) \in Nat /\ DOMAIN v = 1 .. Len(v)
      /\ \A j \in DOMAIN v : v[j] \in ChildEntry /\ \A m \in j + 1 .. Len(v) : m \in DOMAIN v /\ m # j
  OBVIOUS
<1>3. \A p \in 1 .. i - 1 : h[p].type \in Outcomes => h[p].child # id
  BY <1>0 DEF OnceEach
<1>4. ASSUME NEW j \in DOMAIN v, v[j].child = id
      PROVE  j \in LastSpawn(v, id) /\ v[j].status = "running"
  <2>1. v[j].status \in {"running", "completed", "failed"}
    BY <1>2 DEF ChildEntry
  <2>2. v[j].status \notin {"completed", "failed"}
    BY <1>3, <1>4 DEF Told, Outcomes
  <2>3. \A m \in j + 1 .. Len(v) : v[m].child # id
    <3>1. \A m \in DOMAIN v : v[m].child = v[j].child => m = j
      BY DEF Told
    <3> HIDE DEF id
    <3> QED
      BY <1>2, <1>4, <3>1
  <2> QED
    BY <1>4, <2>1, <2>2, <2>3 DEF LastSpawn
<1>5. \A j \in DOMAIN v : /\ t[j].child = v[j].child
                          /\ t[j].status = IF v[j].child = id THEN end ELSE v[j].status
  <2>1. ASSUME NEW j \in DOMAIN v
        PROVE  y(j).child = v[j].child /\ y(j).status = IF v[j].child = id THEN end ELSE v[j].status
    <3>1. v[j].child # id => j \notin LastSpawn(v, id)
      BY DEF LastSpawn
    <3>2. v[j] \in ChildEntry
      BY <1>2
    <3>3. \A x \in ChildEntry : [x EXCEPT !.status = end].child = x.child
                                /\ [x EXCEPT !.status = end].status = end
      BY DEF ChildEntry
    <3> QED
      BY <1>4, <3>1, <3>2, <3>3
  <2> HIDE DEF y
  <2> QED
    BY <2>1
<1>6. DOMAIN t = DOMAIN v
  OBVIOUS
<1> HIDE DEF t
<1>7. \A j \in DOMAIN t : \E p \in 1 .. i : h[p].type = "child.spawned" /\ h[p].child = t[j].child
  BY <1>0, <1>5, <1>6 DEF Told
<1>8. \A j, m \in DOMAIN t : t[j].child = t[m].child => j = m
  BY <1>5, <1>6 DEF Told
<1>9. ASSUME NEW j \in DOMAIN t
      PROVE  /\ t[j].status = "completed" <=>
                   \E p \in 1 .. i : h[p].type = "child.completed" /\ h[p].child = t[j].child
             /\ t[j].status = "failed" <=>
                   \E p \in 1 .. i : h[p].type = "child.failed" /\ h[p].child = t[j].child
  <2>1. CASE v[j].child = id
    <3>1. t[j].child = id /\ t[j].status = end
      BY <1>5, <1>6, <2>1
    <3>2. CASE h[i].type = "child.completed"
      BY <1>0, <1>3, <3>1, <3>2 DEF Outcomes
    <3>3. CASE h[i].type = "child.failed"
      BY <1>0, <1>3, <3>1, <3>3 DEF Outcomes
    <3> QED
      BY <3>2, <3>3 DEF Outcomes
  <2>2. CASE v[j].child # id
    <3>1. t[j].child = v[j].child /\ t[j].status = v[j].status
      BY <1>5, <1>6, <2>2
    <3> QED
      BY <1>0, <1>6, <2>2, <3>1 DEF Told
  <2> QED
    BY <2>1, <2>2
<1>10. Told(h, t, i)
  BY <1>7, <1>8, <1>9 DEF Told
<1> QED
  BY <1>1, <1>10

\* One event.
LEMMA ToldStep ==
    ASSUME NEW h \in Seq(Event), OnceEach(h), NEW i \in 1 .. Len(h),
           NEW v \in Seq(ChildEntry), Told(h, v, i - 1)
    PROVE  Told(h, ChildrenStep(v, h[i]), i)
<1>1. CASE h[i].type \notin Outcomes \cup {"child.spawned"}
  <2>1. ChildrenStep(v, h[i]) = v
    BY <1>1 DEF ChildrenStep, Outcomes
  <2>2. \A p \in 1 .. i - 1 : p \in 1 .. i
    OBVIOUS
  <2>3. \A p \in 1 .. i : p \in 1 .. i - 1 \/ p = i
    OBVIOUS
  <2>4. Told(h, v, i)
    BY <1>1, <2>2, <2>3 DEF Told, Outcomes
  <2> QED
    BY <2>1, <2>4
<1> QED
  BY <1>1, ToldSpawn, ToldEnd

\* The list v of children and the timeline t, after some events, name the same
\* children in the same order.
SameOrder(v, t) ==
    /\ t \in Seq(Event) /\ SpawnedIn(t) \in Seq(ChildId) /\ Len(v) = Len(SpawnedIn(t))
    /\ \A j \in DOMAIN v : v[j].child = SpawnedIn(t)[j]

LEMMA SameOrderStep ==
    ASSUME NEW v \in Seq(ChildEntry), NEW t, SameOrder(v, t), NEW e \in Event
    PROVE  SameOrder(ChildrenStep(v, e), TimelineStep(t, e))
<1> DEFINE w == ChildrenStep(v, e)
           u == TimelineStep(t, e)
           s == SpawnedIn(t)
<1>0. /\ t \in Seq(Event) /\ s \in Seq(ChildId) /\ Len(v) = Len(s)
      /\ \A j \in DOMAIN v : v[j].child = s[j]
      /\ e.child \in ChildId /\ e.type \in EventTypes
  BY DEF SameOrder, Event
<1>1. u \in Seq(Event) /\ SpawnedIn(u) = SpawnedStep(s, e)
  <2>1. CASE e.type \in TimelineTypes
    BY <1>0, <2>1, SpawnedAppend DEF TimelineStep
  <2>2. CASE e.type \notin TimelineTypes
    <3>1. e.type # "child.spawned" /\ u = t
      BY <1>0, <2>2 DEF TimelineTypes, TimelineStep
    <3> QED
      BY <1>0, <3>1 DEF SpawnedStep
  <2> QED
    BY <2>1, <2>2
<1> HIDE DEF u, s
<1>2. CASE e.type = "child.spawned"
  <2> DEFINE y == [child |-> e.child, status |-> "running"]
  <2>1. w = Append(v, y) /\ SpawnedIn(u) = Append(s, e.child) /\ y.child = e.child
    BY <1>1, <1>2 DEF ChildrenStep, SpawnedStep
  <2> HIDE DEF y, w
  <2>2. /\ Append(s, e.child) \in Seq(ChildId) /\ Len(Append(s, e.child)) = Len(s) + 1
        /\ \A j \in 1 .. Len(s) : Append(s, e.child)[j] = s[j]
        /\ Append(s, e.child)[Len(s) + 1] = e.child
    BY <1>0
  <2>3. /\ Len(Append(v, y)) = Len(v) + 1 /\ Append(v, y)[Len(v) + 1] = y /\ Len(v) \in Nat
        /\ \A j \in 1 .. Len(v) : Append(v, y)[j] = v[j] /\ j \in DOMAIN v
        /\ \A j \in DOMAIN Append(v, y) : j \in 1 .. Len(v) \/ j = Len(v) + 1
    OBVIOUS
  <2>4. \A j \in DOMAIN w : w[j].child = SpawnedIn(u)[j]
    BY <1>0, <2>1, <2>2, <2>3
  <2>5. Len(w) = Len(SpawnedIn(u)) /\ SpawnedIn(u) \in Seq(ChildId)
    BY <1>0, <2>1, <2>2, <2>3
  <2> QED
    BY <1>1, <2>4, <2>5 DEF SameOrder, w, u
<1>3. CASE e.type \in Outcomes
  <2>1. SpawnedIn(u) = s
    BY <1>1, <1>3 DEF SpawnedStep, Outcomes
  <2> DEFINE end == IF e.type = "child.failed" THEN "failed" ELSE "completed"
             y(j) == IF j \in LastSpawn(v, e.child) /\ v[j].status = "running"
                     THEN [v[j] EXCEPT !.status = end] ELSE v[j]
  <2>2. w = [j \in DOMAIN v |-> y(j)]
    BY <1>3 DEF ChildrenStep, Outcomes
  <2>3. \A j \in DOMAIN v : y(j).child = v[j].child
    <3>1. \A x \in ChildEntry : [x EXCEPT !.status = end].child = x.child
      BY DEF ChildEntry
    <3>2. \A j \in DOMAIN v : v[j] \in ChildEntry
      OBVIOUS
    <3> QED
      BY <3>1, <3>2
  <2> HIDE DEF y, w
  <2>4. DOMAIN v = 1 .. Len(v) /\ Len(v) \in Nat
    OBVIOUS
  <2>5. Len(w) = Len(v)
    BY <2>2, <2>4
  <2>6. \A j \in DOMAIN w : w[j].child = s[j]
    BY <1>0, <2>2, <2>3
  <2> QED
    BY <1>0, <1>1, <2>1, <2>5, <2>6 DEF SameOrder, w, u
<1>4. CASE e.type \notin Outcomes \cup {"child.spawned"}
  <2>1. w = v /\ SpawnedIn(u) = s
    BY <1>1, <1>4 DEF ChildrenStep, SpawnedStep, Outcomes
  <2> QED
    BY <1>0, <1>1, <2>1 DEF SameOrder, w, u
<1> QED
  BY <1>2, <1>3, <1>4

\* What ChildWorkflows and Timeline show of a log whose children are over.
LEMMA ChildrenFollow ==
    ASSUME NEW h \in Seq(Event), KidsOver(h)
    PROVE  /\ ChildWorkflows(h) \in Seq(ChildEntry) /\ Told(h, ChildWorkflows(h), Len(h))
           /\ SameOrder(ChildWorkflows(h), Timeline(h))
<1>0. Len(h) \in Nat /\ Len(h) \in 0 .. Len(h) /\ DOMAIN h = 1 .. Len(h) /\ OnceEach(h)
  BY KidsOnce
<1>1. PICK v : IsChildren(v, h) /\ ChildWorkflows(h) = v[Len(h)]
  BY ChildrenFolds
<1>2. PICK t : IsTimeline(t, h) /\ Timeline(h) = t[Len(h)]
  BY TimelineFolds
<1> DEFINE T == {i \in 0 .. Len(h) : Told(h, v[i], i) /\ SameOrder(v[i], t[i])}
<1>3. 0 \in T
  <2>1. v[0] = <<>> /\ t[0] = <<>> /\ 0 \in 0 .. Len(h)
    BY <1>0, <1>1, <1>2 DEF IsChildren, IsTimeline
  <2>2. Told(h, <<>>, 0)
    BY DEF Told
  <2>3. SameOrder(<<>>, <<>>)
    <3>1. <<>> \in Seq(Event) /\ <<>> \in Seq(ChildId) /\ DOMAIN <<>> = {}
      OBVIOUS
    <3> QED
      BY <3>1, SpawnedNone, Zenon DEF SameOrder
  <2> QED
    BY <2>1, <2>2, <2>3
<1>4. ASSUME NEW i \in 1 .. Len(h), i - 1 \in T PROVE i \in T
  <2>1. /\ v[i] = ChildrenStep(v[i - 1], h[i]) /\ t[i] = TimelineStep(t[i - 1], h[i])
        /\ v[i - 1] \in Seq(ChildEntry) /\ i \in 0 .. Len(h) /\ h[i] \in Event
    BY <1>0, <1>1, <1>2 DEF IsChildren, IsTimeline
  <2>2. Told(h, v[i - 1], i - 1) /\ SameOrder(v[i - 1], t[i - 1])
    BY <1>4
  <2>3. Told(h, v[i], i)
    BY <1>0, <2>1, <2>2, ToldStep
  <2>4. SameOrder(v[i], t[i])
    BY <2>1, <2>2, SameOrderStep
  <2> QED
    BY <2>1, <2>3, <2>4
<1> HIDE DEF T
<1>5. \A i \in 0 .. Len(h) : i \in T
  BY <1>0, <1>3, <1>4, AllPositions
<1>6. Len(h) \in T
  BY <1>0, <1>5
<1>7. v[Len(h)] \in Seq(ChildEntry)
  BY <1>0, <1>1 DEF IsChildren
<1> QED
  BY <1>1, <1>2, <1>6, <1>7 DEF T

\* Every child that the log has is shown once, with the outcome that the log has
\* for it and never as running, and the timeline shows the spawns in the same
\* order.
THEOREM ChildrenViewCorrect == Spec => []ChildrenShown
<1>1. TypeOK /\ KidsHold => ChildrenShown
  <2> SUFFICES ASSUME TypeOK, KidsHold PROVE ChildrenShown
    OBVIOUS
  <2> DEFINE v == ChildWorkflows(log)
             spawned == Project(SpawnedStep, <<>>, Timeline(log))
  <2>0. log \in Seq(Event) /\ KidsOver(log) /\ DOMAIN log = 1 .. Len(log) /\ OnceEach(log)
    BY KidsOnce DEF TypeOK, KidsHold
  <2>1. v \in Seq(ChildEntry) /\ Told(log, v, Len(log)) /\ SameOrder(v, Timeline(log))
    BY <2>0, ChildrenFollow
  <2>2. Len(v) = Len(spawned) /\ \A i \in DOMAIN v : v[i].child = spawned[i]
    BY <2>1 DEF SameOrder, SpawnedIn
  <2> HIDE DEF v, spawned
  <2>3. ASSUME NEW i \in DOMAIN v
        PROVE  /\ v[i].status = "completed" <=> Settled(log, "child.completed", v[i].child)
               /\ v[i].status = "failed" <=> Settled(log, "child.failed", v[i].child)
               /\ v[i].status # "running"
    <3>1. /\ v[i].status = "completed" <=> Settled(log, "child.completed", v[i].child)
          /\ v[i].status = "failed" <=> Settled(log, "child.failed", v[i].child)
      BY <2>0, <2>1, ZenonT(60) DEF Told, Settled
    <3>2. PICK p \in DOMAIN log : log[p].type = "child.spawned" /\ log[p].child = v[i].child
      BY <2>0, <2>1 DEF Told
    <3>3. PICK q \in DOMAIN log : log[q].type \in Outcomes /\ log[q].child = v[i].child
      BY <2>0, <3>2 DEF OnceEach
    <3> QED
      BY <3>1, <3>3 DEF Settled, Outcomes
  <2> QED
    BY <2>2, <2>3 DEF ChildrenShown, v, spawned
<1> QED
  BY <1>1, TypeCorrect, KidsCorrect, PTL
=============================================================================
