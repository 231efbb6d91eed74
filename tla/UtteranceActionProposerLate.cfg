SPECIFICATION Spec
CONSTANTS
    Hashes = {h1, h2}
    MaxOutputs = 2
    MaxData = 1
    QueueWait = 1
    Faults = {}
PROPERTY StartIsExpected
CHECK_DEADLOCK FALSE
