SPECIFICATION Spec
CONSTANTS
    Components = {c1}
    Hidden = {}
    Cpp = {}
    IgnoreStalled = {}
    MayFail = {}
    MayCrash = {}
    PingBound = 1
    MaxStarts = 1
INVARIANT WaitingComponentReportedBack
