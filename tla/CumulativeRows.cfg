\* Two neighbours of four points in one fibre, one point in the other, one outside.
CONSTANTS
    POINTS = 6
    T_INITIAL = 0
    T_FINAL = 4
    RH_INITIAL = 4
    RH_FINAL = 5
    THRESHOLD = 4
    LARGEST = 4
    NEIGHBOURS = 2
    Shifts <- SmallOrLarge
    Memories <- Leftovers
    EXACT = 24
    GRAINS = {4, 16}
    NaN = NaN
    INF = INF
    MAX_PAIRS = 3

SPECIFICATION Spec
CHECK_DEADLOCK FALSE

INVARIANTS
    OutsideExact
    RepairedSmooth
    SpoiltOnlyByMemory
    StepsRepeated
