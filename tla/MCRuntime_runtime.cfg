SPECIFICATION Spec
CONSTANTS
    none = none
    ns1 = ns1
    ns2 = ns2
    s1 = s1
    s2 = s2
    Absent = none
    Namespaces = {ns1, ns2}
    Setups <- MCSetups
    Secrets = {s1}
    OnAllow = TRUE
    OnDeny = TRUE
    MailboxSize = 1
    MaxSends = 2
CHECK_DEADLOCK FALSE
INVARIANT ReadyGate
PROPERTY SpawnsSettle
