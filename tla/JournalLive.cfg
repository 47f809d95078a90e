SPECIFICATION FairSpec
CONSTANTS
    e1 = e1
    e2 = e2
    Entries = {e1, e2}
    Broken = {e1}
    Faults = {}
    PassLimit = 1
    Capacity = 2
    MaxRevision = 2
    MaxCrashes = 1
    MaxSaveFailures = 0
PROPERTIES
    EveryRecordEnds
