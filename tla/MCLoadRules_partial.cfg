CONSTANTS
    k1 = k1
    k2 = k2
    s1 = s1
    s2 = s2
    auoms = auoms
    other = other
    MergeKeys <- MCMergeKeys
    Syscalls <- MCSyscalls
    Tags <- MCTags
    AUOMS_RULE_KEY = auoms
    ConfigRules <- MCConfigRules
    MaxConfig = 2
    MaxKernel = 2
    MaxFailures = 1
    MaxExternal = 0
    MaxCrashes = 0
    MaxFaults = 2
SYMMETRY Symmetry
SPECIFICATION Spec
INVARIANT ForeignCoverageKeptDespiteFailures
CHECK_DEADLOCK FALSE
