SPECIFICATION Spec
CONSTANTS
    e1 = e1
    e2 = e2
    Entries = {e1}
    Broken = {}
    Faults = {"request", "save"}
    PassLimit = 1
    Capacity = 2
    MaxRevision = 3
    MaxCrashes = 2
    MaxSaveFailures = 1
INVARIANTS
    AtMostOnce
    SyncedIsShown
    NoticeIsHonest
