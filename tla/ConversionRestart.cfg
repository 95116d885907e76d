CONSTANTS
    s1 = s1
    s2 = s2
    c1 = c1
    None = None
    Sweeps = {s1, s2}
    Correlations = {c1}
    SweepsIds <- OnePair
    REDIS_TTL = 2
    EXPIRY_MARGIN = 1
    QUEUE_MAX = 1
    MAX_REDELIVERIES = 0
    MAX_FAULTS = 1
    MAX_MISHAPS = 1

SPECIFICATION RestartSpec
INVARIANTS
    RestartTypeOK
    StopsClean
PROPERTIES
    OnlyStopsForget
    ImplementsStreamJoinAcrossStops
