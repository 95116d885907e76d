SPECIFICATION Spec
CONSTANTS
    admin = admin
    ann = ann
    e1 = e1
    e2 = e2
    Clients = {c1, c2}
    Names = {admin, ann}
    Emails = {e1, e2}
    Registrations <- Newcomers
    Patches <- OneAtATime
    Access = {a1, a2}
    Refresh = {f1, f2}
    ADMIN_USERNAME = admin
    ADMIN_EMAIL = e2
    MAX_USERS = 2
    MAX_REQUESTS = 6
    MAX_FAULTS = 1
    None = None
SYMMETRY Alike
INVARIANTS UniqueAccounts ActsForItsAccount LogoutFinal SessionsApart
CHECK_DEADLOCK FALSE
