SPECIFICATION FairSpec
CONSTANTS
    Hashes = {h1, h2}
    MaxOutputs = 2
    MaxData = 1
    QueueWait = 2
    Faults = {"send", "lost", "delete", "clock", "response"}
INVARIANTS
    TypeOK
    TriggeredOnce
    PreparationTracked
    TurnStateAgrees
    IntentionUsedUp
PROPERTIES
    TurnGivenBack
    AgentTurnSpec
CHECK_DEADLOCK FALSE
