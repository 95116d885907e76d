SPECIFICATION FairSpec
CONSTANTS
    Workers = {w1, w2}
    Users = {ann}
    Posts = {p1}
    Pages = {g1, g2}
    POST_LIFE = 2
    LIST_LIFE = 1
    MAX_PATCHES = 1
    MAX_FAILURES = 0
    None = None
PROPERTIES StaleGoes
CHECK_DEADLOCK FALSE
