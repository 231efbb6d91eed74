SPECIFICATION FairSpec
CONSTANTS
    Ids = {a1, a2}
    NoAnimation = NoAnimation
    Kinds = {"audio", "FAP"}
    Faults = {"send", "audio"}
    MaxMessages = 5
INVARIANTS
    TypeOK
    HandedIsComplete
    PlayedOnce
    ReadyIsStable
    OneSoundAtATime
PROPERTIES
    LifeSpec
    TriggeredIsPlayed
CHECK_DEADLOCK FALSE
