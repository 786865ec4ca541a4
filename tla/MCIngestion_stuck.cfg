SPECIFICATION FairSpec
CONSTANTS
    d1 = d1
    d2 = d2
    Docs = {d2}
    NoDoc = NoDoc
    Handlers = {h1}
    Workers = {w1}
    Batches <- MCBatches
    MaxDocs = 0
    MaxRetries = 0
    FaultBounds <- PostgresFault
PROPERTY Settles
CHECK_DEADLOCK FALSE
