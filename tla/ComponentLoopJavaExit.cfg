SPECIFICATION FairSpec
CONSTANTS
    Receivers = {r1}
    NoReceiver = NoReceiver
    MaxMessages = 1
    TimedReadyWaits = {FALSE}
PROPERTY ExitHonoured
CHECK_DEADLOCK FALSE
