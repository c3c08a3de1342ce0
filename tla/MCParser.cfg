\* Every token sequence, every mix of directives and tag handles, and the calls
\* after STREAM-END, with collections two deep.
SPECIFICATION FairSpec
CONSTANTS
    a = a
    Anchors <- MCAnchors
    NoAnchor = NoAnchor
    Handles <- MCHandles
    DefaultHandles <- MCDefaultHandles
    Verbatim = Verbatim
    NoTag = NoTag
    NoData = NoData
    NoToken = NoToken
    ScanState <- AnyScan
    InitScan = "any"
    Supply <- AnyToken
    MaxDepth = 3
INVARIANTS
    TypeOK
    OpenerAtHead
    StackDiscipline
    MarksOfOpenCollections
    DirectiveScope
PROPERTIES
    EventsFormStream
    EndOfInputEndsStream
