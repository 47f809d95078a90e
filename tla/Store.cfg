SPECIFICATION FairSpec
CONSTANTS
    m1 = m1
    m2 = m2
    Ids = {m1, m2}
    Capacity = 1
    Ttl = 2
    MaxTime = 2
    MaxVersion = 1
    MaxMessages = 2
    MaxWrites = 3
    MaxStarts = 2
    MaxFailures = 1
CHECK_DEADLOCK FALSE
INVARIANTS
    SuppressionEnds
    SavedStays
    CrashIsNoticed
PROPERTIES
    NoReprocess
    EveryChangeLands
