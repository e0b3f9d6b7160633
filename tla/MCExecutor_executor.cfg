SPECIFICATION MCSpec
CONSTANTS
    c1 = c1
    c2 = c2
    None = None
    Calls <- MCCalls
    MaxAttempts = 2
    Configs <- MCConfigs
CHECK_DEADLOCK FALSE
INVARIANTS ApprovedSends OneEffectPerAttempt
PROPERTY WorkersGoOn
