SPECIFICATION FairSpec
CONSTANTS
    Containers = {c1, c2}
    Slots = {s1, s2}
    MaxFaults = 1
INVARIANT TypeOK
INVARIANT ServingIsPrepared
INVARIANT IndexesLostOnlyByFault
INVARIANT RestartsBounded
PROPERTY Recovers
CHECK_DEADLOCK FALSE
