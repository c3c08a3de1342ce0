\* Every token sequence, beside the grammar without the two productions the
\* code does not implement.
SPECIFICATION Spec
CONSTANTS
    a = a
    Anchors <- MCAnchors
    NoAnchor = NoAnchor
    Handles <- MCHandles
    DefaultHandles <- MCDefaultHandles
    Verbatim = Verbatim
    NoTag = NoTag
    NoData = NoData
    NoToken = NoToken
    ScanState <- GrammarScan
    InitScan <- Start
    Supply <- AnyToken
    MaxDepth = 12
    EmptyPairKeys = FALSE
    KeylessValues = FALSE
    MaxSymbols = 9
INVARIANTS
    AcceptsGrammar
    AcceptsOnlyGrammar
