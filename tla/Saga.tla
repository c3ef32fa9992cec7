-------------------------------- MODULE Saga --------------------------------
(***************************************************************************)
(* Compensation (workflow/saga.go): after a step failed, runCompensation   *)
(* undoes the completed steps that have a compensation, the last one       *)
(* first, and goes on when one of them fails.                              *)
(*                                                                         *)
(* Replay does not call runCompensation: its caller is modelled as one     *)
(* that runs the steps of an accepted definition, each after the steps it  *)
(* depends on, and hands over the completed ones in the order of their     *)
(* completion.                                                             *)
(***************************************************************************)
EXTENDS Definition

CONSTANTS
    CompensationSets,   \* the sets of names that may have a compensation
    NoStep              \* no name

VARIABLE saga

\* completed: completedSteps; at: where the loop over them is; undo: stepsToUndo,
\* later what is left of it; compensated: StepsCompensated; failed: the steps of
\* compensationErrors; events: the events emitted.
SagaInit ==
    /\ Init
    /\ saga = [pc |-> "run", completed |-> <<>>, trigger |-> NoStep, compensation |-> {},
               at |-> 0, undo |-> <<>>, compensated |-> <<>>, failed |-> <<>>, events |-> <<>>]

-----------------------------------------------------------------------------
(* The caller (external).                                                  *)

Done == ToSet(saga.completed)

Runnable == {n \in StepNames \ Done : \A d \in StepNames : DependsOn(n, d) => d \in Done}

CompleteStep ==
    /\ sort.pc = "accepted"
    /\ saga.pc = "run"
    /\ \E n \in Runnable :
         saga' = [saga EXCEPT !.completed = Append(@, n)]
    /\ UNCHANGED <<steps, sort>>

-----------------------------------------------------------------------------
(* runCompensation.                                                        *)

\* A step fails.
RunCompensation ==
    /\ sort.pc = "accepted"
    /\ saga.pc = "run"
    /\ \E n \in Runnable, compensation \in CompensationSets :
         saga' = [saga EXCEPT !.pc = "collect", !.trigger = n, !.compensation = compensation,
                              !.at = Len(saga.completed)]
    /\ UNCHANGED <<steps, sort>>

\* The steps to undo with n added, if it has a compensation.
WithStep(undo, n) == IF n \in saga.compensation THEN Append(undo, n) ELSE undo

\* Mutant: the completed steps are collected from the first on.
CollectStepForward ==
    /\ saga.pc = "collect"
    /\ saga.at > 0
    /\ LET n == saga.completed[Len(saga.completed) + 1 - saga.at]
       IN  saga' = [saga EXCEPT !.at = @ - 1, !.undo = WithStep(@, n)]
    /\ UNCHANGED <<steps, sort>>

\* The loop over the completed steps, the last one first.
CollectStep ==
    /\ saga.pc = "collect"
    /\ saga.at > 0
    /\ saga' = [saga EXCEPT !.at = @ - 1, !.undo = WithStep(@, saga.completed[saga.at])]
    /\ UNCHANGED <<steps, sort>>

\* Without a step to undo there is no event.
StartCompensation ==
    /\ saga.pc = "collect"
    /\ saga.at = 0
    /\ saga' = IF saga.undo = <<>> THEN [saga EXCEPT !.pc = "ended"]
               ELSE [saga EXCEPT !.pc = "undo",
                       !.events = Append(@, [type |-> "compensation.started",
                                             steps |-> saga.undo])]
    /\ UNCHANGED <<steps, sort>>

Undoing == saga.pc = "undo" /\ saga.undo # <<>>

CompensateStep ==
    /\ Undoing
    /\ saga' = [saga EXCEPT !.undo = Tail(@), !.compensated = Append(@, Head(saga.undo))]
    /\ UNCHANGED <<steps, sort>>

FailedEvent(n) == [type |-> "compensation.failed", steps |-> <<n>>]

\* Mutant: only the first failure is recorded, as in FailedStep of the result.
CompensationFailsFirst ==
    /\ Undoing
    /\ saga' = [saga EXCEPT
            !.undo = Tail(@), !.failed = Append(@, Head(saga.undo)),
            !.events = IF saga.failed = <<>> THEN Append(@, FailedEvent(Head(saga.undo))) ELSE @]
    /\ UNCHANGED <<steps, sort>>

\* The compensation of a step returns an error: recorded, and the next one runs.
CompensationFails ==
    /\ Undoing
    /\ saga' = [saga EXCEPT
            !.undo = Tail(@), !.failed = Append(@, Head(saga.undo)),
            !.events = Append(@, FailedEvent(Head(saga.undo)))]
    /\ UNCHANGED <<steps, sort>>

\* compensation.completed only if no compensation failed.
EndCompensation ==
    /\ saga.pc = "undo"
    /\ saga.undo = <<>>
    /\ saga' = [saga EXCEPT
            !.pc = "ended",
            !.events = IF saga.failed # <<>> THEN @
                       ELSE Append(@, [type |-> "compensation.completed",
                                       steps |-> saga.compensated])]
    /\ UNCHANGED <<steps, sort>>

SagaStep ==
    \/ CompleteStep
    \/ RunCompensation
    \/ CollectStep
    \/ StartCompensation
    \/ CompensateStep
    \/ CompensationFails
    \/ EndCompensation

vars == <<steps, sort, saga>>

Spec == SagaInit /\ [][(DefineStep /\ UNCHANGED saga) \/ SagaStep]_vars

-----------------------------------------------------------------------------
(* What the compensation must guarantee.                                   *)

Tried == ToSet(saga.compensated) \cup ToSet(saga.failed)

\* n needs d, directly or through other steps: d is in every set that has n and,
\* with a step, what it depends on.
Needs(n, d) ==
    \A T \in SUBSET StepNames :
        (n \in T /\ \A x \in T : \A y \in StepNames : DependsOn(x, y) => y \in T) => d \in T

\* Nothing is undone under a step that still stands: when the compensation of a
\* step is tried, that of every completed step that needs it has been tried, steps
\* without a compensation in between or not.
UndoneFromTheEnd ==
    \A n, d \in Done :
        (n # d /\ d \in Tried /\ Needs(n, d) /\ n \in saga.compensation) => n \in Tried

\* Whichever compensations fail, each completed step that has one is tried
\* exactly once and nothing else is, and the events tell what is left undone:
\* compensation.started lists the steps tried, every failure has its event, in the
\* order in which they failed, and compensation.completed comes, with the steps
\* undone, if and only if there was none.
EachUndoneOnce ==
    saga.pc = "ended" =>
        /\ Tried = ToSet(saga.completed) \cap saga.compensation
        /\ Len(saga.compensated) + Len(saga.failed) = Cardinality(Tried)
        /\ saga.events = <<>> <=> Tried = {}
        /\ Tried # {} =>
              /\ saga.events[1].type = "compensation.started"
              /\ ToSet(saga.events[1].steps) = Tried
              /\ IF saga.failed # <<>> THEN Len(saga.events) = Len(saga.failed) + 1
                 ELSE /\ Len(saga.events) = 2
                      /\ saga.events[2] = [type |-> "compensation.completed",
                                           steps |-> saga.compensated]
              /\ \A i \in DOMAIN saga.failed : saga.events[i + 1] = FailedEvent(saga.failed[i])
=============================================================================
