SPECIFICATION FairSpec
CONSTANTS
    Receivers = {r1, r2}
    NoReceiver = NoReceiver
    MaxMessages = 2
    TimedReadyWaits = {TRUE, FALSE}
INVARIANTS
    TypeOK
    AlertHasMessage
    AlertedOnce
    NoLostWakeup
    AtMostOneOverrun
PROPERTIES
    DeliverySpec
    EveryMessageTaken
    TimedExitHonoured
CHECK_DEADLOCK FALSE
