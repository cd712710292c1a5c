CONSTANTS
    Records = {p1}
    Students = {p1}
    Codes = {k1, k2}
    Batches = {b1, b2}
    Tokens = {t1, t2}
    Emails = {e1}
    Users = {u1, u2}
    People = {r1, r2}
    Admins = {a1}
    MaxFailures = 1
    MaxFaults = 0
    LostReplies = FALSE
    None = None
SYMMETRY Symmetry
CONSTRAINT OneExpiry
SPECIFICATION Spec
INVARIANTS CodesConsistent NothingLeftBehind ClaimResolved
