SPECIFICATION Spec
CONSTANTS
    Components = {c1, c2}
    Hidden = {}
    Cpp = {c1}
    IgnoreStalled = {c2}
    MayFail = {}
    MayCrash = {c1}
    PingBound = 1
    MaxStarts = 3
INVARIANTS
    TypeOK
    Agreement
    
PROPERTY OutageLasts
