SPECIFICATION Spec
CONSTANTS
    Workers = {w1}
    Users = {ann}
    Posts = {p1}
    Pages = {g1}
    POST_LIFE = 2
    LIST_LIFE = 1
    MAX_PATCHES = 0
    MAX_FAILURES = 0
    None = None
INVARIANT ErasedUnlisted
CHECK_DEADLOCK FALSE
