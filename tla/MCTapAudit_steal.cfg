CONSTANTS
    Ours <- MCOurs
    Other <- MCOther
    MaxFailures = 0
    MaxTimeouts = 1
    MaxOther = 2
SPECIFICATION Spec
PROPERTY NoStealLiveCollector
CHECK_DEADLOCK FALSE
