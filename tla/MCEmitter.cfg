\* Streams of well-formed events that cost at most five.
SPECIFICATION MCSpec
CONSTANTS
    Anchors = {"a"}
    NoAnchor = "no anchor"
    BadAnchor = "?"
    Handles = {"!!"}
    BadHandle = "?"
    TagPrefixes = {"yaml:", "app:"}
    NoTag = "no tag"
    EmptyTag = ""
    Defaults <- DefaultDirectives
    Modes <- UsedModes
    Menus = {"structures", "texts"}
    Alphabet <- SmallAlphabet
    Words <- WordsAndBlanks
    Signs <- ManySigns
    MaxLength = 3
    MaxWords = 4
    MaxSigns = 2
    Rooms <- WriteFailures
    EmptyRoots = FALSE
    FoldedBlanks = FALSE
    MaxCost = 5
    MaxCostLost = 4
INVARIANTS
    TypeOK
    DocumentsStartClean
    TextReadsBack
    NothingStaysBehind
PROPERTIES
    RefusedForGood
CHECK_DEADLOCK FALSE
