SPECIFICATION Spec
CONSTANTS
    s1 = s1
    s2 = s2
    q1 = q1
    q2 = q2
    q3 = q3
    q4 = q4
    c1 = c1
    c2 = c2
    alice = alice
    bob = bob
    Sessions = {s1}
    Queries = {q1, q2, q3, q4}
    Closers = {}
    Users = {alice}
    Owner <- MCOwner
    Caller <- OnlyAlice
    NoUser = NoUser
    NoSession = NoSession
    NotCached = NotCached
    Window = 2
    Tokens <- MCTokens
    MaxTokens = 3
    Outcomes <- LlmWorks
    Concurrency = 1
    MaxAborts = 0
    MaxExpiries = 1
INVARIANT ContextIsRollingWindow
CHECK_DEADLOCK FALSE
