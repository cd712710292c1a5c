CONSTANTS
    Students = {s1}
    Users = {u1}
    Requests = {r1, r2}
    Retention = Retention
    Retry = Retry
    Faults = {"database", "deadline", "server"}
    MaxFaults = 1
    None = None
SPECIFICATION FairSpec
CHECK_DEADLOCK FALSE
INVARIANTS CleanupRecorded
PROPERTIES RecordedIsCleaned KeepsPromise
