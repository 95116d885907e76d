SPECIFICATION FairSpec
CONSTANTS
    s1 = s1
    s2 = s2
    Sweeps = {s1, s2}
    Messages <- OneOfEach
    MAX_REDELIVERIES = 1
    MAX_CRASHES = 1
    MAX_FAULTS = 1
    MAX_MISHAPS = 2
    None = None
INVARIANTS LaserOnce TraceWithElec DocumentPerDelivery UploadedWhole
PROPERTIES EventuallyStored
CHECK_DEADLOCK FALSE
