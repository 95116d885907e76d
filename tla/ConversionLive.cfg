CONSTANTS
    s1 = s1
    s2 = s2
    c1 = c1
    c2 = c2
    None = None
    Sweeps = {s1, s2}
    Correlations = {c1}
    SweepsIds <- OnePair
    REDIS_TTL = 1
    EXPIRY_MARGIN = 1
    QUEUE_MAX = 1
    MAX_REDELIVERIES = 1
    MAX_FAULTS = 1

SPECIFICATION FairSpec
PROPERTIES
    PendingResolved
    MainDrains
