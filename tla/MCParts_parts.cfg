SPECIFICATION PartsSpec
CHECK_DEADLOCK FALSE
INVARIANTS
    VerdictCorrect
    OverridesRevoke
    AnswersAreWhole
    LayersExplain
    OpeningsAreSafe
    AgentsAreVerified
    LocalPartsAreMasked
    CachesAreFresh
    ViewIsTheStream
CONSTANTS
    Absent = Absent
    Bad = Bad
    Namespaces = {"n1", "n2"}
    Overrides <- MCOverrides
    Requests <- MCRequests
    ModelCalls <- MCModelCalls
    Captures <- MCCaptures
    Rings <- MCRings
    MaxCapture = 9
    Queries <- MCQueries
    Fragments = {"a", "b", "x"}
    MaxDepth = 4
    ParamNames = {"x", "y"}
    Documents <- MCDocuments
    Expressions <- MCExpressions
    Rank <- MCRank
    Clients <- MCClients
    Daemons <- MCDaemons
    RefLists <- MCRefLists
    Bundles <- MCBundles
    Worlds <- MCWorlds
    Routings <- MCRoutings
    a = a
    b = b
    c = c
    ghost = ghost
    Nodes = {a, b, c}
    Names = {a, b, c, ghost}
    EdgeLists <- MCEdgeLists
    MaxEdges = 4
    Readers = {"r1", "r2"}
    Loaders = {"l1", "l2"}
    Ttl = 1
    MaxTime = 2
    MaxVersions = 3
    None = None
    MaxEvents = 3
    Feed <- MCFeed
