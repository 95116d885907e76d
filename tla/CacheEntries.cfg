SPECIFICATION Spec
CONSTANTS
    Workers = {w1, w2}
    Users = {ann, bob}
    Posts = {p1}
    Pages = {g1}
    POST_LIFE = 2
    LIST_LIFE = 1
    MAX_PATCHES = 2
    MAX_FAILURES = 1
    None = None
SYMMETRY Alike
INVARIANTS TypeOK StaleExplained ArmedUnlessFailed
CHECK_DEADLOCK FALSE
