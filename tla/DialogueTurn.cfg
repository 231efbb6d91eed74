SPECIFICATION FairSpec
CONSTANTS
    MaxQueue = 2
    MaxUserEvents = 2
    MaxTurns = 1
    MaxResets = 1
    AfterFailure = FALSE
INVARIANTS
    TurnTakingTypeOK
    WaitingTogether
    NotTakenForSpeaking
    RequestKept
PROPERTY SilenceEnds
CHECK_DEADLOCK FALSE
