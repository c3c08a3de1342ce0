\* A line may begin in the middle: after a scalar or a flow collection of two lines.
SPECIFICATION Spec
CONSTANTS
    FlowStart <- OneFlowStart
    FlowEnd <- OneFlowEnd
    Property <- OneProperty
    KeyLimit = 3
    MaxColumn = 4
    MaxFlow = 2
INVARIANT RequiredKeysAreAllowed
