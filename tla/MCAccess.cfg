SPECIFICATION AccessSpec
CONSTANTS
    Users = {u1, u2}
    Tokens = {t1, t2}
    Requests = {r1, r2}
    MaxFaults = 1
    None = None
    Teachers = {ann, ben}
    Grades = {g1, g2}
    Societies = {s1}
    Rows = {1, 2, 3}
    Calls = {c1, c2}
    Nobody = Nobody
    Tables <- Staffed
    MaxChanges = 2
SYMMETRY Symmetry
VIEW Relevant
INVARIANTS LinksConsistent DefaultsHandled AppointmentsKept AccessHasGround
