SPECIFICATION RetrievalSpec
CONSTANTS
    d1 = d1
    d2 = d2
    d3 = d3
    f1 = f1
    g1 = g1
    t1 = t1
    t2 = t2
    u1 = u1
    u2 = u2
    u3 = u3
    Docs = {d1, d2, d3}
    NoDoc = NoDoc
    NoUser = NoUser
    Handlers = {h1, h2}
    Workers = {w1}
    Readers = {r1}
    Batches <- MCBatches
    MaxDocs = 1
    MaxRetries = 1
    FaultBounds <- ServiceFault
    Callers <- MCCallers
    Owner <- MCOwner
    OtherDocs = {f1, g1}
    Selections <- MCSelections
    TopK = 3
    RerankTopK = 2
    Tokens <- MCTokens
    MaxTokens = 5
    Reserve = 1
INVARIANT SourcesWithinReach
INVARIANT SourcesResolve
INVARIANT NoRepeatedSource
INVARIANT ContextIsLongestPrefix
INVARIANT QuotaOvershootBounded
CHECK_DEADLOCK FALSE
SYMMETRY Symmetric
