SPECIFICATION DrainSpec
CHECK_DEADLOCK FALSE
PROPERTIES
    CloseEndsSubscribers
CONSTANTS
    p1 = p1
    p2 = p2
    s1 = s1
    s2 = s2
    d1 = d1
    m0 = m0
    m1 = m1
    m2 = m2
    data = data
    drops = drops
    Publishers = {p1, p2}
    Subs = {s1}
    Msgs = {m1}
    Topics = {data, drops}
    DropTopic = drops
    Notice = Notice
    TopicOf <- MCTopicOf
    ExpiresAt <- MCExpiresAt
    Decisions = {}
    KindOf <- AllAgents
    AclChoices = {}
    QueueCapacity = 1
    DedupeCapacity = 2
    DedupeMaxAge = 9
    MaxTime = 0
    MaxCalls = 1
