CONSTANTS
    NumSteps = 3
    Deps <- WaitDeps
    CaseSteps = {}
    Cases <- NoCases
    NoCase = NoCase
    caseA = caseA
    approve = approve
    Signals = {approve}
    Awaits <- WaitAwaits
    MaxAttempts <- OneAttempt
    MayFail = {1}
    Calls <- NoCalls
    NumItems = 1
    ChildResults <- ChildrenEnd
    None = None
    Spelling <- PlainNames
    Workers = {w1, w2}
    Replayers = {w1, w2}
    Clients = {c1}
    TxStore = TRUE
    StartAttempts = 3
    DefaultAttempts = 3
    MaxScheduled = 0
    MaxFaults = 1
SPECIFICATION Spec
CHECK_DEADLOCK FALSE
SYMMETRY WorkerSymmetry
INVARIANTS
    TypeOK
    SignalResolvedOnce
    StepAfterDeps
    StepCompletedOnce
    CompletedIsFinal
    CancelStopsReplay
    FailedHasCause
    StatusAgrees
    NoLostWakeup
    ChecksHold
    RunStatusAgrees
