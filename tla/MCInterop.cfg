\* Two threads, up to two calls of Parse and two of Dump, three together.
SPECIFICATION FairInteropSpec
CONSTANTS
    t1 = t1
    t2 = t2
    p1 = p1
    p2 = p2
    Callers <- MCCallers
    Addresses <- MCAddresses
    Null = Null
    MaxCalls = 2
    MaxEvents = 1
    MaxDumps = 2
    MaxBoth = 3
    MaxDocuments = 2
    MaxAll = 2
INVARIANTS
    TypeOK
    CallsDoNotMix
    SuccessLeavesNoEntry
    DumpsAreWhole
    AbortsFollowFailures
PROPERTIES
    EveryCallEnds
CHECK_DEADLOCK FALSE
