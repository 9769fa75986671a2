SPECIFICATION TitlesSpec
CONSTANTS
    a1 = a1  a2 = a2  h1 = h1  h2 = h2
    Avids = {a1, a2}
    Hashes = {h1, h2}
    MaxCandidates = 2
    s1 = s1  s2 = s2  t1 = t1  t2 = t2  u1 = u1  i1 = i1  i2 = i2  b1 = b1  b2 = b2
    cat1 = cat1  cat2 = cat2
    Cats <- MCCats
    SubOrder <- MCSubOrder
    FeedOf <- MCFeedOf
    CatOf <- MCCatOf
    Successor <- MCSuccessor
    TitleOf <- MCTitleOf
    CanList <- MCCanList
    Cast <- MCCast
    Talents = {s1}
    Feeds = {t1, t2, u1}
    Items = {i1, i2}
    WithMagnet = {i1}
    Queue = Queue
    Nobody = Nobody
    FeedTrouble = 1
    CanHold = {b2}
    FastChecks = {3, 6, 12}
    MergeWithin = 1
    Interval = 10
    MaxPoll = 4
    MaxTime = 25
    MaxSubmissions = 3
    Crossing = FALSE
    Folders = {"f1", "f2"}
    Groups = {"g"}
    MaxParts = 2
    PartsOf <- MCPartsOf
    Kind <- MCKind
    Priority = {"f1"}
    BrandRouted = FALSE
    Piecemeal = FALSE
    Faults = {"rename", "discard", "crash"}
    MaxFaults = 1
    MaxAsks = 1
    MaxPasses = 3
    Names <- MCNames
    Sizes = {2, 5}
    MaxVideos = 3
    Dashed = FALSE
    vid = vid  cd1 = cd1   dir1 = dir1  dir2 = dir2  nfo = nfo  nfo1 = nfo1 
    Stems = {vid, cd1}
    TitleDirs = {dir1, dir2}
    Sidecars = {nfo, nfo1}
    Starts <- MCStarts
    Length <- MCLength
    Parts = {cd1}
    Rules <- MCRules
    NoTitle = NoTitle
    MaxChanges = 4
CONSTRAINT Contender
INVARIANTS
    LedgerAccounted SubmissionPolled CopiesAccounted SelectionRight
PROPERTIES
    PastKept FeedsAccounted MirrorFollows
CHECK_DEADLOCK FALSE
