SPECIFICATION Spec
CONSTANTS
    Processes = {p1}
    Grammars = {p1}
    MaxFrames = 2
    MaxRequests = 1
    MaxStreams = 1
INVARIANT RestartsAfterUpdate
CHECK_DEADLOCK FALSE
