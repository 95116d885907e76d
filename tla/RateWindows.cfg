SPECIFICATION Spec
CONSTANTS
    Workers = {w1, w2}
    Members = {ann}
    Visitors = {host}
    Tiers = {basic}
    Rows = {r1}
    Amounts <- SomeAmounts
    Periods <- SomePeriods
    DEFAULT_LIMIT = 1
    DEFAULT_PERIOD = 2
    MAX_TIME = 3
    MAX_REQUESTS = 3
    MAX_CHANGES = 4
    MAX_FAILURES = 1
    None = None
SYMMETRY Alike
INVARIANTS TypeOK WithinLimit NoneRefusedEarly CountersExpire
CHECK_DEADLOCK FALSE
