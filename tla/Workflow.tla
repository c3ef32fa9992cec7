------------------------------ MODULE Workflow ------------------------------
(***************************************************************************)
(* A workflow definition (workflow/define.go, replay.go WorkflowDef), the  *)
(* events of a run's history (event/event.go) and the questions that the   *)
(* replayer and the runner ask of a history (workflow/history.go).         *)
(*                                                                         *)
(* A step is a number: step i is the i-th step of the definition in name   *)
(* order, so sorting a wave by name is taking numbers in order.  A branch  *)
(* is a step with a non-empty set of cases; each case is a step of its own *)
(* name, outside Steps, because Define registers the branch only.          *)
(***************************************************************************)
EXTENDS Integers, Sequences

CONSTANTS
    NumSteps,      \* the definition has steps 1 .. NumSteps
    Deps,          \* Deps[s]: the steps named in step s's After(...)
    CaseSteps,     \* the names of the case steps of all branches
    Cases,         \* Cases[s]: the choices s's selector may return; {} if s is no branch
    NoCase,        \* the choice of a selector that matches no case (and no default)
    Signals,       \* signal names
    Awaits,        \* Awaits[n]: the signals the body named n waits for, in order
    MaxAttempts,   \* MaxAttempts[s]: attempts of s's retry policy, 1 without a policy
    MayFail,       \* the bodies that may return an error of their own or time out
    Calls,         \* Calls[n]: the Run and Map calls the body named n makes, in order,
                   \* before it waits for a signal
    NumItems,      \* the items of a Map call
    ChildResults,  \* ChildResults[n]: how the children that n calls may end
    None           \* no name, no data

Steps == 1 .. NumSteps

\* The names a step event can carry: a step's, or a case step's.
Names == Steps \cup CaseSteps

ASSUME NumStepsAssumption == NumSteps \in Nat

\* What Define checks (define.go): dependencies are steps of the workflow and
\* have no cycle, that is every non-empty set of steps has one with no
\* dependency inside the set.
ASSUME DepsAssumption ==
    /\ Deps \in [Steps -> SUBSET Steps]
    /\ \A T \in SUBSET Steps :
          T # {} => \E s \in T : Deps[s] \cap T = {}

ASSUME CasesAssumption == Cases \in [Steps -> SUBSET (CaseSteps \cup {NoCase})]

ASSUME AwaitsAssumption == Awaits \in [Names -> Seq(Signals)]

\* A branch has no retry policy of its own (branch.go, Config).
ASSUME MaxAttemptsAssumption ==
    /\ MaxAttempts \in [Steps -> Nat \ {0}]
    /\ \A s \in Steps : Cases[s] # {} => MaxAttempts[s] = 1

\* Map returns at once when there is no item, before it takes an index.
ASSUME CallsAssumption ==
    /\ Calls \in [Names -> Seq({"run", "map"})]
    /\ NumItems \in Nat \ {0}
    /\ ChildResults \in [Names -> SUBSET {"completed", "failed", "waiting"}]

ASSUME NamesAreDistinct ==
    /\ Steps \cap CaseSteps = {}
    /\ NoCase \notin CaseSteps

-----------------------------------------------------------------------------
(* Events.  Data is the branch choice, whether a failed attempt will be    *)
(* retried, or that a child has no output; payloads, ids and timestamps    *)
(* are left out.  A child's event carries the name of the body that called *)
(* it, for the output that it stands for.                                  *)

EventTypes == { "workflow.started", "workflow.completed", "workflow.failed",
                "workflow.cancelled", "step.started", "step.completed",
                "step.failed", "branch.evaluated", "signal.waiting",
                "signal.received", "signal.timeout", "child.spawned",
                "child.completed", "child.failed", "map.started",
                "map.completed", "map.failed" }

\* The run id of a child: "<run>-child-<item>" of Run, "<run>-map-<map>-<item>"
\* of Map; map.started and map.completed carry the index of the map only.
ChildId     == [map : Int, item : Int]
NoChild     == [map |-> -1, item |-> -1]
RunId(i)    == [map |-> -1, item |-> i]
MapId(m)    == [map |-> m, item |-> -1]
ItemId(m, i) == [map |-> m, item |-> i]

Items == 0 .. NumItems - 1

EventNames == Names \cup Signals \cup {None}

EventData == CaseSteps \cup {NoCase, None, "willRetry", "noRetry", "noOutput"}

Event == [type : EventTypes, name : EventNames, data : EventData,
          attempt : Nat, child : ChildId]

EvData(type, name, data) ==
    [type |-> type, name |-> name, data |-> data, attempt |-> 0, child |-> NoChild]

Ev(type, name) == EvData(type, name, None)

EvAttempt(type, name, data, attempt) == [EvData(type, name, data) EXCEPT !.attempt = attempt]

EvChild(type, name, data, id) == [EvData(type, name, data) EXCEPT !.child = id]

-----------------------------------------------------------------------------
(* The history index.                                                      *)

Logged(h, type, name) ==
    \E i \in DOMAIN h : h[i].type = type /\ h[i].name = name

LastSequence(h) == Len(h)

\* A run has its input once workflow.started is indexed.
GetWorkflowInput(h) == Logged(h, "workflow.started", None)

IsCompleted(h) == Logged(h, "workflow.completed", None)

IsCancelled(h) == Logged(h, "workflow.cancelled", None)

\* The code also wants the event to have an output, as it has unless the output
\* cannot be marshalled to JSON.
HasCompleted(h, n) == Logged(h, "step.completed", n)

GetFatalError(h, n) ==
    \E i \in DOMAIN h : h[i].type = "step.failed" /\ h[i].name = n /\ h[i].data = "noRetry"

\* The index keeps the last choice recorded for a branch.
GetBranchChoice(h, b, choice) ==
    \E i \in DOMAIN h :
        /\ h[i] = EvData("branch.evaluated", b, choice)
        /\ \A j \in i + 1 .. Len(h) : h[j].type = "branch.evaluated" => h[j].name # b

SignalWaiting(h, sig)  == Logged(h, "signal.waiting", sig)

SignalReceived(h, sig) == Logged(h, "signal.received", sig)

SignalTimedOut(h, sig) == Logged(h, "signal.timeout", sig)

SignalResolved(h, sig) == SignalReceived(h, sig) \/ SignalTimedOut(h, sig)

\* An event about the child or map id; the index keeps the last of its type.
Settled(h, type, id) == \E i \in DOMAIN h : h[i].type = type /\ h[i].child = id

LastSettled(h, i, type, id) ==
    /\ h[i].type = type /\ h[i].child = id
    /\ \A j \in i + 1 .. Len(h) : ~(h[j].type = type /\ h[j].child = id)

\* GetChildOutput and GetMapResults: event i of the history holds the output.
GetChildOutput(h, id, i) == LastSettled(h, i, "child.completed", id)

GetMapResults(h, m, i) == LastSettled(h, i, "map.completed", MapId(m))

GetChildError(h, id) == Settled(h, "child.failed", id)

\* map.failed names the item that failed first.
GetMapError(h, m) == \E i \in DOMAIN h : h[i].type = "map.failed" /\ h[i].child.map = m

\* workflow.failed is in the log, though no History query sees it.
HasFailed(h) == Logged(h, "workflow.failed", None)
=============================================================================
