\* One client, one fault, one resend, one stop.
SPECIFICATION FairSpec
CONSTANTS
    c1 = c1
    Clients = {c1}
    FirstId <- MCFirstId
    MaxId = 3
    MaxRuns = 3
    MaxEvents = 1
    MaxFaults = 1
    MaxResends = 1
    MaxStops = 1
INVARIANTS OneRunPerRequest LedgerTellsTheRun
PROPERTIES ForgottenOnlyWhenRecorded RunsEnd FollowerReturns
CHECK_DEADLOCK FALSE
