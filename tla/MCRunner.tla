------------------------------ MODULE MCRunner ------------------------------
(***************************************************************************)
(* Workflow definitions for the runs of Runner.                            *)
(***************************************************************************)
EXTENDS Projections, TLC

CONSTANTS caseA, approve

\* Step 2 waits for a signal beside step 1; step 3 needs both.
WaitDeps   == <<{}, {}, {1, 2}>>
NoCases    == [s \in Steps |-> {}]
WaitAwaits == [n \in Names |-> IF n = 2 THEN <<approve>> ELSE <<>>]
OneAttempt == [s \in Steps |-> 1]

\* Step 1 is a branch.  Step 2 needs it, runs a child, maps two items, waits for
\* a signal and is retried once; step 3 needs the branch too and may fail beside
\* step 2.
BranchDeps    == <<{}, {1}, {1}>>
BranchCases   == [s \in Steps |-> IF s = 1 THEN {caseA, NoCase} ELSE {}]
BranchCalls   == [n \in Names |-> IF n = 2 THEN <<"run", "map">> ELSE <<>>]
TwoAttempts   == [s \in Steps |-> IF s = 2 THEN 2 ELSE 1]
ChildMayFail  == [n \in Names |-> {"completed", "failed"}]
NoCalls       == [n \in Names |-> <<>>]

\* Step 1 is a branch, beside step 2, which waits for a signal.
PairDeps    == <<{}, {}>>
PairCases   == [s \in Steps |-> IF s = 1 THEN {caseA} ELSE {}]

\* Steps 1 and 3 each run a child; step 2 waits in between.
TwoCallers  == [n \in Names |-> IF n \in {1, 3} THEN <<"run">> ELSE <<>>]
ChildrenEnd == [n \in Names |-> {"completed"}]

\* The names a, ab and abc; the case step is c:a.
PlainNames == [n \in Names |-> IF n \in Steps THEN SubSeq(<<97, 98, 99>>, 1, n) ELSE <<99, 58, 97>>]

\* Step 1, a, needs step 3, c; step 2, a:b, waits for a signal.
ColonDeps  == <<{3}, {}, {}>>
ColonNames == <<<<97>>, <<97, 58, 98>>, <<99>>>>

WorkerSymmetry == Permutations(Workers)
=============================================================================
