CONSTANTS
    Names <- SomeNames
    Definitions <- FourSteps
    CompensationSets <- Compensations
    NoStep = NoStep
SPECIFICATION Spec
CHECK_DEADLOCK FALSE
INVARIANTS
    OrderIsSound
    CyclesFound
    UndoneFromTheEnd
    
