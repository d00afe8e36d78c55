SPECIFICATION Spec
CONSTANTS
    PROC_WAIT_TIME = 2
    MaxFailures = 1
    MaxCrashes = 0
    MaxCmds = 2
INVARIANT DisableSucceeded
CHECK_DEADLOCK FALSE
