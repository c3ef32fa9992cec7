----------------------------- MODULE Definition -----------------------------
(***************************************************************************)
(* Define and its topological sort (workflow/define.go): a list of steps   *)
(* with their dependencies becomes a definition, or Define panics.  That   *)
(* the definition is well-founded is what Workflow assumes of Deps.        *)
(*                                                                         *)
(* The sort is Kahn's algorithm: one pop of the queue at a time, and after *)
(* it one step of the list at a time.  A step may name a dependency twice, *)
(* and itself.                                                             *)
(***************************************************************************)
EXTENDS Integers, FiniteSets, SequencesExt

CONSTANTS
    Names,        \* step names, and names that no step has
    Definitions   \* the lists of steps that Define may be given

VARIABLES
    steps,        \* the list that Define was given
    sort          \* where Define is, and the variables of topologicalSort

\* After(deps...) keeps the list of its arguments as it is.
ConfiguredStep == [name : Names, deps : Seq(Names)]

ASSUME DefinitionsAssumption == Definitions \subseteq Seq(ConfiguredStep)

StepNames == {steps[i].name : i \in DOMAIN steps}

\* How often a step's dependencies name d.
Mentions(s, d) == Cardinality({k \in DOMAIN s.deps : s.deps[k] = d})

Init ==
    /\ steps \in Definitions
    /\ sort = [pc |-> "check", inDegree |-> <<>>, queue |-> <<>>, order |-> <<>>, next |-> 0,
               cycle |-> {}]

-----------------------------------------------------------------------------
(* The checks of Define, in their order.                                   *)

Duplicate == \E i, j \in DOMAIN steps : i # j /\ steps[i].name = steps[j].name

UnknownDep == \E i \in DOMAIN steps : ~(ToSet(steps[i].deps) \subseteq StepNames)

\* Define panics: no step, a name used twice, or an unknown dependency.
RejectSteps ==
    /\ sort.pc = "check"
    /\ steps = <<>> \/ Duplicate \/ UnknownDep
    /\ sort' = [sort EXCEPT !.pc = "rejected"]
    /\ UNCHANGED steps

\* Mutant: a dependency named twice counts once.
InDegreeOnce(s) == Cardinality(ToSet(s.deps))

InDegree(s) == Len(s.deps)

\* In-degrees, and the first queue in the random order of a Go map.
StartSort ==
    /\ sort.pc = "check"
    /\ ~(steps = <<>> \/ Duplicate \/ UnknownDep)
    /\ LET degree == [n \in StepNames |->
                        InDegree(steps[CHOOSE i \in DOMAIN steps : steps[i].name = n])]
       IN  \E first \in SetToSeqs({n \in StepNames : degree[n] = 0}) :
             sort' = [sort EXCEPT !.pc = "sort", !.inDegree = degree, !.queue = first]
    /\ UNCHANGED steps

\* The next step of the order is taken from the queue.
PopQueue ==
    /\ sort.pc = "sort"
    /\ sort.queue # <<>>
    /\ sort' = [sort EXCEPT !.pc = "reduce", !.queue = Tail(@),
                            !.order = Append(@, Head(sort.queue)), !.next = 1]
    /\ UNCHANGED steps

\* The loop over the dependents goes on with the next step of the list.
Onward == IF sort.next = Len(steps) THEN "sort" ELSE "reduce"

\* Mutant: a dependent is queued by its first dependency.
ReduceDegreeFirst ==
    /\ sort.pc = "reduce"
    /\ LET s     == steps[sort.next]
           ready == Mentions(s, Last(sort.order)) > 0 /\ sort.inDegree[s.name] > 0
       IN  sort' = [sort EXCEPT !.pc = Onward, !.next = @ + 1,
               !.inDegree[s.name] = IF ready THEN 0 ELSE @,
               !.queue = IF ready THEN Append(@, s.name) ELSE @]
    /\ UNCHANGED steps

\* A dependent of the step that was popped loses a degree for each time it names
\* it, and is queued when none is left.
ReduceDegree ==
    /\ sort.pc = "reduce"
    /\ LET s    == steps[sort.next]
           m    == Mentions(s, Last(sort.order))
           left == sort.inDegree[s.name] - m
       IN  sort' = [sort EXCEPT !.pc = Onward, !.next = @ + 1, !.inDegree[s.name] = left,
               !.queue = IF m > 0 /\ left = 0 THEN Append(@, s.name) ELSE @]
    /\ UNCHANGED steps

\* Every step is in the order, which is the definition's; or Define panics and
\* names the steps that have a degree left.
EndSort ==
    /\ sort.pc = "sort"
    /\ sort.queue = <<>>
    /\ sort' = IF Len(sort.order) = Len(steps) THEN [sort EXCEPT !.pc = "accepted"]
               ELSE [sort EXCEPT !.pc = "cycle",
                                 !.cycle = {n \in StepNames : sort.inDegree[n] > 0}]
    /\ UNCHANGED steps

DefineStep == RejectSteps \/ StartSort \/ PopQueue \/ ReduceDegree \/ EndSort

-----------------------------------------------------------------------------
(* What Define must guarantee.                                             *)

DependsOn(n, d) == \E i \in DOMAIN steps : steps[i].name = n /\ d \in ToSet(steps[i].deps)

\* No step of T can go first: each depends on a step of T.
Circular(T) == T # {} /\ \A n \in T : \E d \in T : DependsOn(n, d)

\* The order of an accepted definition has each step once, after all the steps
\* it depends on, whatever order Go's maps gave the first queue.
OrderIsSound ==
    sort.pc = "accepted" =>
        /\ ToSet(sort.order) = StepNames
        /\ \A i, j \in DOMAIN sort.order :
              /\ sort.order[i] = sort.order[j] => i = j
              /\ DependsOn(sort.order[i], sort.order[j]) => j < i

\* Define accepts a list exactly when its names are distinct, its dependencies
\* are known and no set of steps is circular; a panic about a cycle names the
\* steps of every cycle and those that depend on them, and no other.
CyclesFound ==
    LET circular == {T \in SUBSET StepNames : Circular(T)}
    IN  /\ sort.pc = "accepted" => ~Duplicate /\ ~UnknownDep /\ circular = {}
        /\ sort.pc = "cycle" => circular # {} /\ sort.cycle = UNION circular
=============================================================================
