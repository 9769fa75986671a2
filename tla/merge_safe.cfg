CONSTANTS
    x1 = x1
    x2 = x2
    r1 = r1
    r2 = r2
    Tasks = {1, 2}
    Titles = {x1}
    TitleOf <- SameTitle
    Replicas = {r1}
    MaxAttempts = 1
    Requests = {"cancel", "retry"}
    Faults = {"lost", "corrupt", "refused", "late", "other", "crash"}
SPECIFICATION Spec
CHECK_DEADLOCK FALSE
INVARIANTS
    NothingLost
    MergeAccounted
