\* A valid text after a malformed one, at the same address.
SPECIFICATION Spec
CONSTANTS
    t1 = t1
    t2 = t2
    p1 = p1
    p2 = p2
    Callers <- MCCallers
    Addresses <- MCAddresses
    Null = Null
    MaxCalls = 2
    MaxEvents = 2
INVARIANTS
    ValidTextParses
CHECK_DEADLOCK FALSE
