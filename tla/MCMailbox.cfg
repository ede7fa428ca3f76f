CONSTANTS
    Senders = {s1, s2}
    Closers = {c1, c2}
    Drainers = {c2}
    Capacities = {1, 2}
    InitCapacity = 2
    MaxSends = 1
SPECIFICATION FairSpec
CHECK_DEADLOCK FALSE
INVARIANTS
    MailboxSound
    InOrder
PROPERTIES
    NobodyStuck
