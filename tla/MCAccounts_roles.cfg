SPECIFICATION Spec
CONSTANTS
    Requests = {r1, r2, r3, r4}
    Emails = {e1, e2, e3}
    None = None
    MaxExpiries = 1
    MaxCrashes = 1
INVARIANT TypeOK
INVARIANT OneOwner
INVARIANT AdminsByOwner
INVARIANT OwnerTokens
INVARIANT GrantedWithin
PROPERTY DeactivationSticks
CHECK_DEADLOCK FALSE
SYMMETRY Symmetric
