SPECIFICATION FairSpec
CONSTANTS
    d1 = d1
    d2 = d2
    Docs = {d1}
    NoDoc = NoDoc
    Handlers = {h1}
    Workers = {w1, w2}
    Batches <- MCBatches
    MaxDocs = 0
    MaxRetries = 1
    FaultBounds <- TrackedFaults
PROPERTY Settles
CHECK_DEADLOCK FALSE
