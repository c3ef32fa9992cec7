CONSTANTS
    Runs = {r1, r2}
    Callers = {c1, c2}
    SnapshotCallers = {c2}
    NoCaller = NoCaller
    MaxSeq = 2
    MaxBatch = 2
SPECIFICATION Spec
INVARIANTS
    TypeOK
    Gapless
    ValidatedHolds
    LoserSeesConflict
PROPERTIES
    ImplementsEventLog
    ImplementsMemoryStore
