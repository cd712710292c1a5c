CONSTANTS
    Runs = {x1, x2}
    Scopes = {s1, s2}
    Cells = {c1, c2}
    Requests = {r1, r2}
    None = None
SPECIFICATION FairSpec
INVARIANTS RunsConsistent NoLostEdit
PROPERTIES ImplementsLifecycle EveryRequestEnds
