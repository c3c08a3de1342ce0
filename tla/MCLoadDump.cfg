\* Streams of at most eight events, whose documents, if they have three nodes or fewer,
\* are edited twice.
SPECIFICATION MCSpec
CONSTANTS
    Anchors = {"a"}
    NoAnchor = "no anchor"
    Tags = {"x"}
    NoTag = "no tag"
    MaxEvents = 8
    MaxEdits = 2
    MaxNodes = 3
    Rooms = {3, 100}
INVARIANTS
    TypeOK
    DumpRestoresStream
    DumpLoadsBack
    RefusesBadAnchorsOnly
    StringsAreFreedOnce
CHECK_DEADLOCK FALSE
