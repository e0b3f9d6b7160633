SPECIFICATION Spec
CHECK_DEADLOCK FALSE
SYMMETRY Symmetry
INVARIANTS
    DedupeInv
    AtMostOnce
    NoLeakedReservation
CONSTANTS
    p1 = p1
    p2 = p2
    s1 = s1
    s2 = s2
    d1 = d1
    m0 = m0
    m1 = m1
    m2 = m2
    data = data
    drops = drops
    Publishers = {p1, p2}
    Subs = {s1}
    Msgs = {m1, m2}
    Topics = {data, drops}
    DropTopic = drops
    Notice = Notice
    TopicOf <- MCTopicOf
    ExpiresAt <- MCExpiresAt
    Decisions = {m1}
    KindOf <- AllAgents
    AclChoices = {{"agent"}}
    QueueCapacity = 1
    DedupeCapacity = 1
    DedupeMaxAge = 0
    MaxTime = 1
    MaxCalls = 4
