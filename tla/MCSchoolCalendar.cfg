CONSTANTS
    Years = {y1, y2}
    Orders <- OneOrder
    GoLives = {g1}
    Rollovers = {v1}
    Requests = {r1, r2}
    None = None
SPECIFICATION Spec
CHECK_DEADLOCK FALSE
SYMMETRY Symmetry
VIEW Relevant
CONSTRAINT Calm
INVARIANTS CalendarConsistent
PROPERTIES GoLivesHold RecordedStays
