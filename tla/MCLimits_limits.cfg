SPECIFICATION Spec
CONSTANTS
    Requests = {r1, r2, r3, r4}
    Cost = 2
    Capacity = 4
    KeyLife = 4
    Limit = 2
    Window = 3
    None = None
    MaxTime = 4
    MaxEvictions = 1
    MaxCrashes = 1
INVARIANT TypeOK
INVARIANT OverdraftBounded
INVARIANT LoginsPerWindow
INVARIANT LockoutOnlyByCrash
PROPERTY WindowNotExtended
CHECK_DEADLOCK FALSE
SYMMETRY Symmetric
