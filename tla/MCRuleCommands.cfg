CONSTANTS
    k1 = k1
    k2 = k2
    s1 = s1
    auoms = auoms
    other = other
    MergeKeys <- MCMergeKeys
    Syscalls <- MCSyscalls
    Tags <- MCTags
    AUOMS_RULE_KEY = auoms
    RuleSpace <- MCRuleSpace
    MaxKernel = 2
    MaxFile = 2
    MaxFailures = 1
    MaxTimeouts = 1
    MaxExternal = 1
SYMMETRY Symmetry
SPECIFICATION Spec
INVARIANTS TypeOK ListIsSnapshot ExitZeroMeansDone
CHECK_DEADLOCK FALSE
