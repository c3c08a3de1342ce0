\* Lines of five columns, flow collections two deep.
SPECIFICATION Spec
CONSTANTS
    FlowStart <- OneFlowStart
    FlowEnd <- OneFlowEnd
    Property <- OneProperty
    KeyLimit = 3
    MaxColumn = 4
    MaxFlow = 2
INVARIANTS
    TypeOK
    KeysPointIntoQueue
    StacksMatchLevels
    BlockCollectionsBalance
    StreamEndsOnce
PROPERTIES
    RequiredKeysGetValues
