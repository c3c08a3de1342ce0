\* The grammar with single pairs without a key: the code rejects some of them.
SPECIFICATION Spec
CONSTANTS
    a = a
    Anchors <- MCAnchors
    NoAnchor = NoAnchor
    Handles <- MCHandles
    DefaultHandles <- MCDefaultHandles
    Verbatim = Verbatim
    NoTag = NoTag
    NoData = NoData
    NoToken = NoToken
    ScanState <- GrammarScan
    InitScan <- Start
    Supply <- AnyToken
    MaxDepth = 12
    EmptyPairKeys = TRUE
    KeylessValues = FALSE
    MaxSymbols = 9
INVARIANTS
    AcceptsGrammar
