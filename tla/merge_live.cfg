CONSTANTS
    x1 = x1
    x2 = x2
    r1 = r1
    r2 = r2
    Tasks = {1, 2}
    Titles = {x1, x2}
    TitleOf <- OwnTitle
    Replicas = {r1}
    MaxAttempts = 2
    Requests = {"cancel"}
    Faults = {"job", "upload", "dropped", "other"}
SPECIFICATION FairSpec
CHECK_DEADLOCK FALSE
INVARIANTS
    OneJobAtATime
PROPERTIES
    MergeConcluded
