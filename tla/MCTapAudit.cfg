CONSTANTS
    Ours <- MCOurs
    Other <- MCOther
    MaxFailures = 1
    MaxTimeouts = 2
    MaxOther = 2
SPECIFICATION Spec
INVARIANT TypeOK
 
CHECK_DEADLOCK FALSE
