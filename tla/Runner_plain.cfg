CONSTANTS
    NumSteps = 2
    Deps <- PairDeps
    CaseSteps = {}
    Cases <- NoCases
    NoCase = NoCase
    caseA = caseA
    approve = approve
    Signals = {approve}
    Awaits <- WaitAwaits
    MaxAttempts <- OneAttempt
    MayFail = {}
    Calls <- NoCalls
    NumItems = 1
    ChildResults <- ChildrenEnd
    None = None
    Spelling <- PlainNames
    Workers = {w1, w2}
    Replayers = {w1, w2}
    Clients = {c1}
    TxStore = FALSE
    StartAttempts = 3
    DefaultAttempts = 3
    MaxScheduled = 1
    MaxFaults = 1
SPECIFICATION Spec
CHECK_DEADLOCK FALSE
SYMMETRY WorkerSymmetry
INVARIANTS
    SignalResolvedOnce
    StepCompletedOnce
    CompletedIsFinal
    CancelStopsReplay
    FailedHasCause
    ChecksHold
