CONSTANTS
    DATA_COLLECTION = DATA_COLLECTION
    DESIRED_RULES = DESIRED_RULES
    m1 = m1
    c1 = c1
    c2 = c2
    None = None
    Categories <- MCCategories
    Msgs <- MCMsgs
    Clients <- MCClients
    MaxUpdates = 2
    MaxReports = 1
    MaxFailures = 1
SPECIFICATION QSpec
INVARIANTS QTypeOK ReportsAreSnapshots StatusIsFresh
PROPERTIES StopTerminates
CHECK_DEADLOCK FALSE
