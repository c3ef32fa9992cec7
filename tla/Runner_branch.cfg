CONSTANTS
    NumSteps = 3
    Deps <- BranchDeps
    CaseSteps = {caseA}
    Cases <- BranchCases
    NoCase = NoCase
    caseA = caseA
    approve = approve
    Signals = {approve}
    Awaits <- WaitAwaits
    MaxAttempts <- TwoAttempts
    MayFail = {3}
    Calls <- BranchCalls
    NumItems = 2
    ChildResults <- ChildMayFail
    None = None
    Spelling <- PlainNames
    Workers = {w1}
    Replayers = {w1}
    Clients = {}
    TxStore = TRUE
    StartAttempts = 2
    DefaultAttempts = 1
    MaxScheduled = 1
    MaxFaults = 1
SPECIFICATION Spec
CHECK_DEADLOCK FALSE
INVARIANTS
    RetriesSpent
    BranchDecidedOnce
    InputsAvailable
    ResultsKept
    CompletedIsFinal
    ChildrenOnce
    MapsWhole
    
    ChildrenShown
