SPECIFICATION Spec
CONSTANTS
    d1 = d1
    d2 = d2
    Docs = {d1}
    NoDoc = NoDoc
    Handlers = {h1}
    Workers = {w1, w2}
    Batches <- MCBatches
    MaxDocs = 0
    MaxRetries = 1
    FaultBounds <- EveryFault
INVARIANT TypeOK
INVARIANT TaskInputsExist
INVARIANT RowsHavePoints
INVARIANT ReadyMeansIndexed
INVARIANT OneExecution
INVARIANT NoDuplicateChunks
INVARIANT NotForgotten
INVARIANT CopiesBounded
PROPERTY ReadyIsFinal
PROPERTY ImplementsLifecycle
CHECK_DEADLOCK FALSE
SYMMETRY Symmetric
