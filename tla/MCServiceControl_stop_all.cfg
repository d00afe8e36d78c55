SPECIFICATION Spec
CONSTANTS
    PROC_WAIT_TIME = 2
    MaxFailures = 0
    MaxCrashes = 0
    MaxCmds = 1
INVARIANT StopAllStopsAuditd
CHECK_DEADLOCK FALSE
