CONSTANTS
    Records = {p1}
    Students = {}
    Codes = {k1, k2}
    Batches = {b1, b2}
    Tokens = {t1, t2}
    Emails = {e1, e2}
    Users = {u1, u2}
    People = {r1, r2}
    Admins = {a1}
    MaxFailures = 1
    MaxFaults = 2
    LostReplies = TRUE
    None = None
SYMMETRY Symmetry
CONSTRAINT Calm
SPECIFICATION Spec
INVARIANTS LinkedLogin
PROPERTIES LoginKept
