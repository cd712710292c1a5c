CONSTANTS
    Tables = {t1, t2}
    Classes = {c1, c2}
    Slots = {s1}
    Resources = {x1}
    Requests = {r1, r2}
    MaxVersion = 2
    None = None
SYMMETRY Symmetry
SPECIFICATION Spec
INVARIANTS VersionsConsistent NoDoubleBooking
PROPERTIES StatusOrder
