CONSTANTS
    a1 = a1
    a2 = a2
    h1 = h1
    h2 = h2
    h3 = h3
    t1 = t1
    t2 = t2
    w1 = w1
    w2 = w2
    NoTitle = NoTitle
    NoHash = NoHash
    Old = Old
    Avids = {a1}
    Hashes = {h1, h2}
    Trackers = {t1}
    Workers = {w1}
    MaxCandidates = 2
    MaxAttempts = 2
    Content <- JunkFirst
    FolderAvid <- OneTitle
    HeldBefore = {a1}
    Handlers = {"replace"}
    Faults = {"filing", "crash"}
SPECIFICATION Spec
CHECK_DEADLOCK FALSE
INVARIANTS
    ArchivedMeansHeld
    ReplacedOnlyForANewCopy
