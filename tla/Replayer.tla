------------------------------ MODULE Replayer ------------------------------
(***************************************************************************)
(* The replayer (workflow/replay.go, signal.go, branch.go): from a loaded  *)
(* history it runs the steps that are ready, one wave after another, each  *)
(* step of a wave in a goroutine of its own, and collects the new events.  *)
(*                                                                         *)
(* sess[w] is the replay that process w has under way; several processes   *)
(* may replay the same run at the same time, each from its own snapshot.   *)
(* One action is one stretch of code between two points where goroutines   *)
(* can interleave: the check of the context, the start of an attempt, the  *)
(* return of the step's body, and the sequential code after g.Wait().      *)
(***************************************************************************)
EXTENDS Workflow

CONSTANT Replayers      \* the processes that run replays

VARIABLE sess

\* The events a replay produces; the rest are the runner's.
ReplayerTypes == { "workflow.started", "workflow.completed", "step.started",
                   "step.completed", "step.failed", "branch.evaluated",
                   "signal.waiting", "child.spawned", "child.completed",
                   "child.failed", "map.started", "map.completed", "map.failed" }

ReplayerEvent == {e \in Event : e.type \in ReplayerTypes}

\* A goroutine: where executeStepWithEvents is, the attempt, the name its
\* events carry (known once the step is entered) and the events collected; of
\* the attempt's Run and Map calls, what each returned (whose output, None for
\* a zero value), and of the one under way its index, its children and the
\* item that failed first.  "failing": a call returned an error, which the body
\* returns.
GoPcs == {"none", "enter", "attempt", "running", "child", "mapping", "failing",
          "panic", "ok", "waiting", "error"}

BodyPcs == {"running", "child", "mapping", "failing", "panic"}

KidStates == {"new", "running", "done", "failed", "cancelled"}

Goroutine ==
    {g \in [pc : GoPcs, attempt : Nat, name : Names \cup {None}, evs : Seq(ReplayerEvent),
            got : Seq(EventNames), index : Nat, kids : [Items -> KidStates], first : Int] :
        g.pc \in BodyPcs \cup {"attempt", "ok"} => g.name \in Names}

NoGoroutine == [pc |-> "none", attempt |-> 1, name |-> None, evs |-> <<>>, got |-> <<>>,
                index |-> 0, kids |-> [i \in Items |-> "new"], first |-> -1]

NewGoroutine == [NoGoroutine EXCEPT !.pc = "enter"]

\* hist: the snapshot; new: newEvents; completed, cache: Replay's completed map
\* and the output cache; ready: the wave; left: its results not yet collected;
\* signals: waitingSignals; childCount, mapCount: childCounter and mapCounter;
\* ctxDone: the caller's context was cancelled.
Session == [hist : Seq(Event), new : Seq(ReplayerEvent), completed : SUBSET Steps,
            cache : SUBSET Names, ready : SUBSET Steps, left : SUBSET Steps,
            go : [Steps -> Goroutine], signals : SUBSET Signals,
            childCount : Nat, mapCount : Nat, ctxDone : BOOLEAN,
            result : {"idle", "running", "completed", "failed", "waiting", "suspended"}]

NoGoroutines == [s \in Steps |-> NoGoroutine]

NoSession == [hist |-> <<>>, new |-> <<>>, completed |-> {}, cache |-> {},
              ready |-> {}, left |-> {}, go |-> NoGoroutines, signals |-> {},
              childCount |-> 0, mapCount |-> 0, ctxDone |-> FALSE, result |-> "idle"]

\* Mutant: a step that failed for good in the history is not looked for.
NewReplayerNoFatal(h) ==
    [NoSession EXCEPT
        !.hist = h,
        !.completed = {s \in Steps : HasCompleted(h, s)},
        !.result = IF IsCancelled(h) THEN "failed"
                   ELSE IF IsCompleted(h) THEN "completed" ELSE "running"]

\* NewReplayer and the part of Replay before the first wave: a cancelled or
\* completed history ends it at once, an empty one gets its workflow.started,
\* and a step that failed for good in the history fails the replay.
NewReplayer(h) ==
    [NoSession EXCEPT
        !.hist = h,
        !.new = IF IsCancelled(h) \/ IsCompleted(h) \/ GetWorkflowInput(h)
                THEN <<>> ELSE << Ev("workflow.started", None) >>,
        !.completed = {s \in Steps : HasCompleted(h, s)},
        !.result = IF IsCancelled(h) THEN "failed"
                   ELSE IF IsCompleted(h) THEN "completed"
                   ELSE IF \E s \in Steps : GetFatalError(h, s) THEN "failed"
                   ELSE "running"]

SetSession(w, S) == sess' = [sess EXCEPT ![w] = S]

-----------------------------------------------------------------------------
(* The wave loop of Replay.                                                *)

\* Mutant: one completed dependency is enough.
FindReadyStepsAnyDep(S) ==
    {s \in Steps : /\ s \notin S.completed
                   /\ ~GetFatalError(S.hist, s)
                   /\ Deps[s] = {} \/ Deps[s] \cap S.completed # {}}

FindReadySteps(S) ==
    {s \in Steps : /\ s \notin S.completed
                   /\ ~GetFatalError(S.hist, s)
                   /\ Deps[s] \subseteq S.completed}

BetweenWaves(S) == S.result = "running" /\ S.ready = {}

\* The context is dead at the top of the loop: the replay is suspended.
Suspend(w) ==
    /\ BetweenWaves(sess[w])
    /\ sess[w].ctxDone
    /\ SetSession(w, [sess[w] EXCEPT !.result = "suspended"])

\* No step is ready: emitWorkflowCompleted.
CompleteReplay(w) ==
    /\ BetweenWaves(sess[w])
    /\ ~sess[w].ctxDone
    /\ FindReadySteps(sess[w]) = {}
    /\ SetSession(w, [sess[w] EXCEPT !.new = Append(@, Ev("workflow.completed", None)),
                                     !.result = "completed"])

\* executeParallel starts a goroutine for each ready step.
BeginWave(w) ==
    /\ BetweenWaves(sess[w])
    /\ ~sess[w].ctxDone
    /\ FindReadySteps(sess[w]) # {}
    /\ LET ready == FindReadySteps(sess[w])
       IN  SetSession(w, [sess[w] EXCEPT
                             !.ready = ready,
                             !.left = ready,
                             !.go = [s \in Steps |->
                                       IF s \in ready THEN NewGoroutine ELSE NoGoroutine]])

\* The context dies under a running replay (runner stop, job timeout).
CancelContext(w) ==
    /\ sess[w].result = "running"
    /\ ~sess[w].ctxDone
    /\ SetSession(w, [sess[w] EXCEPT !.ctxDone = TRUE])

-----------------------------------------------------------------------------
(* The goroutine of one step: executeStepWithEvents.                       *)

\* The group's context is cancelled by the first goroutine that returns any
\* error, ErrReplayWaiting included; a step alone in its wave has no group.
ContextDone(S, s) ==
    \/ S.ctxDone
    \/ \E t \in S.ready \ {s} : S.go[t].pc \in {"waiting", "error"}

SetGo(w, s, g) == SetSession(w, [sess[w] EXCEPT !.go[s] = g])

\* An error of the context, seen at either check, ends the goroutine and adds
\* no event.
GoContextError(w, s) ==
    /\ sess[w].go[s].pc \in {"enter", "attempt"}
    /\ ContextDone(sess[w], s)
    /\ SetGo(w, s, [sess[w].go[s] EXCEPT !.pc = "error"])

\* Mutant: the name of the events is set for branches only.
EnterStepUnnamed(w, s) ==
    /\ sess[w].go[s].pc = "enter"
    /\ ~ContextDone(sess[w], s)
    /\ Cases[s] = {}
    /\ SetGo(w, s, [sess[w].go[s] EXCEPT !.pc = "attempt"])

\* A plain step: its events carry its own name.
EnterStep(w, s) ==
    /\ sess[w].go[s].pc = "enter"
    /\ ~ContextDone(sess[w], s)
    /\ Cases[s] = {}
    /\ SetGo(w, s, [sess[w].go[s] EXCEPT !.pc = "attempt", !.name = s])

\* Mutant: choices made by earlier replays are not looked up.
RecordedNow(S, b, choice) == GetBranchChoice(S.new, b, choice)

\* RecordBranchEvaluated keeps the choice in the history's index and emits it
\* at once, so the index is what hist and newEvents hold together.
Recorded(S, b, choice) == GetBranchChoice(S.hist \o S.new, b, choice)

\* A branch: its events carry the name of the case step, or its own name when
\* the choice has no case.
CaseName(b, choice) == IF choice = NoCase THEN b ELSE choice

EnterBranch(w, s) ==
    /\ sess[w].go[s].pc = "enter"
    /\ ~ContextDone(sess[w], s)
    /\ Cases[s] # {}
    /\ \E choice \in Cases[s] :
         \/ /\ Recorded(sess[w], s, choice)
            /\ SetGo(w, s, [sess[w].go[s] EXCEPT !.pc = "attempt",
                                                 !.name = CaseName(s, choice)])
         \/ /\ \A c \in Cases[s] : ~Recorded(sess[w], s, c)
            /\ SetSession(w, [sess[w] EXCEPT
                    !.new = Append(@, EvData("branch.evaluated", s, choice)),
                    !.go[s] = [@ EXCEPT !.pc = "attempt", !.name = CaseName(s, choice)]])

\* What a body reads: a step's output from this replay's cache or from the
\* history, and a branch's as the output of the case on record.
GetOutput(S, n) == n \in S.cache \/ HasCompleted(S.hist, n)

BranchOutput(S, b) ==
    \E choice \in Cases[b] \ {NoCase} :
        Recorded(S, b, choice) /\ GetOutput(S, CaseName(b, choice))

\* One attempt starts: step.started, then the body runs from its beginning.
StartAttempt(w, s) ==
    /\ sess[w].go[s].pc = "attempt"
    /\ ~ContextDone(sess[w], s)
    /\ SetGo(w, s, [sess[w].go[s] EXCEPT
                      !.pc = "running",
                      !.got = <<>>,
                      !.evs = Append(@, EvAttempt("step.started", sess[w].go[s].name, None,
                                                  sess[w].go[s].attempt))])

\* A branch whose choice has no case has no body: Branch.Execute is an error.
HasBody(S, s) == ~(Cases[s] # {} /\ S.go[s].name = s)

\* The body has made all its Run and Map calls.
CallsMade(S, s) == Len(S.go[s].got) = Len(Calls[S.go[s].name])

\* Mutant: the output of a branch is cached under the branch's name.
StepSucceedsBranchKey(w, s) ==
    LET S == sess[w]
        n == S.go[s].name
    IN  /\ S.go[s].pc = "running"
        /\ HasBody(S, s)
        /\ CallsMade(S, s)
        /\ \A i \in DOMAIN Awaits[n] : SignalResolved(S.hist, Awaits[n][i])
        /\ SetSession(w, [S EXCEPT
               !.cache = @ \cup {s},
               !.go[s] = [S.go[s] EXCEPT !.pc = "ok",
                                         !.evs = Append(@, Ev("step.completed", n))]])

\* The body returns a value: its calls returned and every signal it waits for is
\* resolved.
StepSucceeds(w, s) ==
    LET S == sess[w]
        n == S.go[s].name
    IN  /\ S.go[s].pc = "running"
        /\ HasBody(S, s)
        /\ CallsMade(S, s)
        /\ \A i \in DOMAIN Awaits[n] : SignalResolved(S.hist, Awaits[n][i])
        /\ SetSession(w, [S EXCEPT
               !.cache = @ \cup {n},
               !.go[s] = [S.go[s] EXCEPT !.pc = "ok",
                                         !.evs = Append(@, Ev("step.completed", n))]])

\* The body reaches WaitForSignal for its first unresolved signal: the wait is
\* recorded unless the history has it, and the body returns ErrReplayWaiting.
StepWaits(w, s) ==
    LET S == sess[w]
        n == S.go[s].name
    IN  /\ S.go[s].pc = "running"
        /\ HasBody(S, s)
        /\ CallsMade(S, s)
        /\ \E i \in DOMAIN Awaits[n] :
             /\ ~SignalResolved(S.hist, Awaits[n][i])
             /\ \A j \in 1 .. i - 1 : SignalResolved(S.hist, Awaits[n][j])
             /\ SetSession(w, [S EXCEPT
                    !.new = IF SignalWaiting(S.hist, Awaits[n][i]) THEN @
                            ELSE Append(@, Ev("signal.waiting", Awaits[n][i])),
                    !.signals = @ \cup {Awaits[n][i]},
                    !.go[s] = [@ EXCEPT !.pc = "waiting"]])

\* The context a body runs in: its step's timeout may expire.
BodyContextDone(S, s) == ContextDone(S, s) \/ S.go[s].name \in MayFail

\* The body may return an error when it can fail by itself, when its context
\* is done, when a call failed, when a signal it waits for timed out, or when it
\* has no case.
BodyMayFail(S, s) ==
    \/ S.go[s].pc = "failing"
    \/ /\ S.go[s].pc = "running"
       /\ \/ BodyContextDone(S, s)
          \/ ~HasBody(S, s)
          \/ /\ CallsMade(S, s)
             /\ \E i \in DOMAIN Awaits[S.go[s].name] :
                    SignalTimedOut(S.hist, Awaits[S.go[s].name][i])

\* Mutant: the last attempt of the policy is not made.
ShouldRetryEarly(s, attempt) == attempt + 1 < MaxAttempts[s]

\* The retry policy looks at the number of the attempt only.
ShouldRetry(s, attempt) == attempt < MaxAttempts[s]

\* step.failed, and another attempt if the policy has one left.
StepFails(w, s) ==
    LET g == sess[w].go[s]
        willRetry == ShouldRetry(s, g.attempt)
    IN  /\ BodyMayFail(sess[w], s)
        /\ SetGo(w, s, [g EXCEPT
               !.pc = IF willRetry THEN "attempt" ELSE "error",
               !.attempt = IF willRetry THEN @ + 1 ELSE @,
               !.evs = Append(@, EvAttempt("step.failed", g.name,
                          IF willRetry THEN "willRetry" ELSE "noRetry", g.attempt))])

-----------------------------------------------------------------------------
(* After g.Wait(): the results, in name order, then the verdict.           *)

WaveDone(S) ==
    /\ S.result = "running"
    /\ \A s \in S.ready : S.go[s].pc \in {"ok", "waiting", "error"}

\* Mutant: the events of a wave with an error are dropped.
CollectResultFailFast(w, s) ==
    /\ WaveDone(sess[w])
    /\ s \in sess[w].left
    /\ \A t \in sess[w].left : s <= t
    /\ SetSession(w, [sess[w] EXCEPT
            !.new = IF \E t \in sess[w].ready : sess[w].go[t].pc = "error"
                    THEN @ ELSE @ \o sess[w].go[s].evs,
            !.left = @ \ {s},
            !.completed = IF sess[w].go[s].pc = "ok" THEN @ \cup {s} ELSE @])

\* One result: its events are emitted; without an error the step is completed.
CollectResult(w, s) ==
    /\ WaveDone(sess[w])
    /\ s \in sess[w].left
    /\ \A t \in sess[w].left : s <= t
    /\ SetSession(w, [sess[w] EXCEPT
            !.new = @ \o sess[w].go[s].evs,
            !.left = @ \ {s},
            !.completed = IF sess[w].go[s].pc = "ok" THEN @ \cup {s} ELSE @])

\* The verdict on the wave: waiting comes before failed, else the next wave.
WaveVerdict(S) ==
    IF \E s \in S.ready : S.go[s].pc = "waiting" THEN "waiting"
    ELSE IF \E s \in S.ready : S.go[s].pc = "error" THEN "failed"
    ELSE "running"

EndWave(w) ==
    /\ WaveDone(sess[w])
    /\ sess[w].ready # {}
    /\ sess[w].left = {}
    /\ SetSession(w, [sess[w] EXCEPT !.ready = {}, !.go = NoGoroutines,
                                     !.result = WaveVerdict(sess[w])])

-----------------------------------------------------------------------------
\* A step of w's replay.
GoStep(w, s) ==
    \/ GoContextError(w, s)
    \/ EnterStep(w, s)
    \/ EnterBranch(w, s)
    \/ StartAttempt(w, s)
    \/ StepSucceeds(w, s)
    \/ StepWaits(w, s)
    \/ StepFails(w, s)

ReplayStep(w) ==
    \/ Suspend(w)
    \/ CompleteReplay(w)
    \/ BeginWave(w)
    \/ EndWave(w)
    \/ \E s \in Steps : GoStep(w, s) \/ CollectResult(w, s)

=============================================================================
