SPECIFICATION FairAcquisition
CONSTANTS
    Sweeps = {s1, s2}
    PARTITIONS = 2
    DEFAULT_PARTITIONS = 1
    MAX_REDELIVERIES = 1
    MAX_CRASHES = 1
    MAX_FAULTS = 1
    MAX_FAILURES = 1
    MAX_MISHAPS = 2
    None = None
INVARIANTS AcquisitionTypeOK CorrelationsNest OnlyFirstsSkipped HalfSentExplained
           SweepsInTurn PartitionsExplained
PROPERTIES ImplementsCorrelationService EverySweepHandled
CHECK_DEADLOCK FALSE
