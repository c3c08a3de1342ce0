\* Streams of up to eight events: a document of five, or two of one node each.
SPECIFICATION MCSpec
CONSTANTS
    a = a
    Anchors <- MCAnchors
    NoAnchor = NoAnchor
    Texts = {"x", "y"}
    MaxEvents = 8
INVARIANTS
    TypeOK
    StackMirrorsStream
    OnlyDocumentsThrow
    DocumentsMirrorEvents
    AliasesResolveInTheirDocument
    DumpedEventsRebuild
CHECK_DEADLOCK FALSE
