SPECIFICATION FairSpec
CONSTANTS
    Components = {c1, c2}
    Hidden = {}
    Cpp = {}
    IgnoreStalled = {}
    MayFail = {}
    MayCrash = {c1}
    PingBound = 1
    MaxStarts = 2
PROPERTY CrashDetected
