\* Three callers of one broker, every provider kind, budgets, TTLs, timeouts.
CONSTANTS
    Callers = {c1, c2, c3}
    c1 = c1
    c2 = c2
    c3 = c3
    None = None
    Configs <- MCConfigs
    Requests <- MCRequests
    Responses <- MCResponses
SPECIFICATION FairSpec
INVARIANT WithinBudget
PROPERTIES SameQuestion TimedCallsEnd
CHECK_DEADLOCK FALSE
