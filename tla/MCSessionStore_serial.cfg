SPECIFICATION Spec
CONSTANTS
    s1 = s1
    s2 = s2
    q1 = q1
    q2 = q2
    q3 = q3
    q4 = q4
    c1 = c1
    c2 = c2
    alice = alice
    bob = bob
    Sessions = {s1}
    Queries = {q1, q2, q3}
    Closers = {c1, c2}
    Users = {alice, bob, NoUser}
    Owner <- MCOwner
    Caller <- MCCaller
    NoUser = NoUser
    NoSession = NoSession
    NotCached = NotCached
    Window = 6
    Tokens <- MCTokens
    MaxTokens = 3
    Outcomes <- AllOutcomes
    Concurrency = 1
    MaxAborts = 1
    MaxExpiries = 2
INVARIANT ContextIsHistory
INVARIANT PromptIsRecentHistory
INVARIANT NoLostTurn
CHECK_DEADLOCK FALSE
