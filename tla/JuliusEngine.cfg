SPECIFICATION FairSpec
CONSTANTS
    Processes = {p1, p2}
    Grammars = {p2}
    MaxFrames = 4
    MaxRequests = 3
    MaxStreams = 2
INVARIANTS
    TypeOK
    SegmentAnswered
    BracketsMatch
    StopsAtOnce
    OnlineWhileRecognising
PROPERTY StopHonoured
CHECK_DEADLOCK FALSE
