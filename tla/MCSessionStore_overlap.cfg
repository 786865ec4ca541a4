SPECIFICATION Spec
CONSTANTS
    s1 = s1
    s2 = s2
    q1 = q1
    q2 = q2
    q3 = q3
    q4 = q4
    c1 = c1
    c2 = c2
    alice = alice
    bob = bob
    Sessions = {s1, s2}
    Queries = {q1, q2, q4}
    Closers = {}
    Users = {alice, bob}
    Owner <- MCOwner
    Caller <- MCCaller
    NoUser = NoUser
    NoSession = NoSession
    NotCached = NotCached
    Window = 3
    Tokens <- MCTokens
    MaxTokens = 3
    Outcomes <- TextOrNone
    Concurrency = 2
    MaxAborts = 1
    MaxExpiries = 2
INVARIANT TypeOK
INVARIANT AnswersFollowQuestions
INVARIANT NoRepeatedMessage
INVARIANT AnswersReachStore
INVARIANT HistoriesIsolated
CHECK_DEADLOCK FALSE
SYMMETRY Symmetric
