SPECIFICATION Spec
CONSTANTS
    Containers = {c1}
    Slots = {s1, s2}
    MaxFaults = 1
INVARIANT CollectionComplete
CHECK_DEADLOCK FALSE
SYMMETRY Symmetric
