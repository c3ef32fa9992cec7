CONSTANTS
    NumSteps = 3
    Deps <- WaitDeps
    CaseSteps = {}
    Cases <- NoCases
    NoCase = NoCase
    caseA = caseA
    approve = approve
    Signals = {approve}
    Awaits <- WaitAwaits
    MaxAttempts <- OneAttempt
    MayFail = {}
    Calls <- TwoCallers
    NumItems = 1
    ChildResults <- ChildrenEnd
    None = None
    Spelling <- PlainNames
    Workers = {w1}
    Replayers = {w1}
    Clients = {c1}
    TxStore = TRUE
    StartAttempts = 3
    DefaultAttempts = 3
    MaxScheduled = 0
    MaxFaults = 0
SPECIFICATION Spec
CHECK_DEADLOCK FALSE
INVARIANT ChildOutputIsOwn
