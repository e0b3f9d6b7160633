\* The daemon, a local run and an agent, each syncing; batches of two events.
SPECIFICATION FairSpec
CONSTANTS
    daemon = daemon
    run = run
    agent = agent
    reader = reader
    t = t
    p = p
    Actors = {daemon, run, agent}
    Daemon = daemon
    Scripts <- MCScripts
    Rows <- MCRows
    Batch = 2
    MaxEvents = 3
    MaxTroubles = 2
INVARIANT FinishedRunHasTrace
PROPERTIES RefinesView ReadYourWrites CaughtUp
CHECK_DEADLOCK FALSE
