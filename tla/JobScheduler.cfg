SPECIFICATION FairSchedulerSpec
CONSTANTS
    Jobs = {backup, cleanup}
    Starters = {g1, g2}
    Nobody = Nobody
    Required = {backup}
    Keep = 1
    MaxRuns = 4
    MaxFaults = 2
INVARIANTS HistoryConsistent
PROPERTIES EveryRunEnds
