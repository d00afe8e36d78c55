SPECIFICATION Spec
CONSTANTS
    PROC_WAIT_TIME = 2
    MaxFailures = 1
    MaxCrashes = 1
    MaxCmds = 2
INVARIANTS TypeOK EnableSucceeded
PROPERTY CommandTerminates
CHECK_DEADLOCK FALSE
