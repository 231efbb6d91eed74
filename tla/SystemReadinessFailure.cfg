SPECIFICATION FairSpec
CONSTANTS
    Components = {c1, h}
    Hidden = {h}
    Cpp = {}
    IgnoreStalled = {}
    MayFail = {c1}
    MayCrash = {}
    PingBound = 1
    MaxStarts = 2
PROPERTIES
    OutageLasts
    FailureAnnounced
