SPECIFICATION YearEndSpec
CONSTANTS
    Nowhere = Nowhere
    first = first
    second = second
    third = third
    Students <- MCStudents
    Enrolled <- MCEnrolled
    Classes = {c1, c2}
    WorkflowRuns = {r1, r2, r3}
    AtFirst = 1
    MaxEdits = 1
    Number <- Numbers
SYMMETRY Symmetry
CHECK_DEADLOCK FALSE
INVARIANTS SeatsConsistent
PROPERTIES LaterWorkStays RevertRestores
