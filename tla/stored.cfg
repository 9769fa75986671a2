SPECIFICATION StoredSpec
CONSTANTS
    actor = actor  v1 = v1  v2 = v2  f1 = f1  f2 = f2  name = name  stage1 = stage1  stage2 = stage2
    Actors = {actor}
    PlanTitles = {v1, v2}
    Files = {f1, f2}
    PlanIds = {p1}
    Requests = {q1}
    Callers = {c1}
    Nothing = Nothing
    MaxMishaps = 2
    ListedBy <- MCListedBy
    VideoTitle <- MCVideoTitle
    NameOf <- MCNameOf
    Staging <- MCPlanStaging
    lc = lc  cc = cc  dd = dd  src = src  src1 = src1  dst = dst
    Sources = {src, src1}
    Destinations = {dst}
    DestinationOf <- MCDestinationOf
    None = None
    MaxFaults = 0
    StoredPlans = {1}
    ApplyIds = {2}
    Owners = {o1}
    Null = Null
    QueueLimit = 1
    LocalCands = {lc}
    CloudCands = {cc, dd}
    SourceOf <- MCSourceOf
    Selections <- MCSelections
    JournalSteps = {"prepared", "reconciled"}
    CloudSteps = {"prepared", "failed"}
    Verdicts = {"moved"}
    w1 = w1  w2 = w2  w3 = w3  k1 = k1  k2 = k2  k3 = k3  k4 = k4  d1 = d1  d2 = d2  st = st  n1 = n1  n2 = n2
    NoTarget = NoTarget
    Order <- MCOrder
    Mappings = {k1, k2, k3, k4}
    VideoOf <- MCVideoOf
    TargetOf <- MCTargetOf
    StagingOf <- MCStagingOf
    Arrivals <- MCArrivals
    Misnamed = {}
    MaxChanges = 3
    r1 = r1  r2 = r2
    Replicas = {r1, r2}
    Release <- MCRelease
    Default = plain
    Settings = {plain, edited}
    Secrets = {key}
    Blank = Blank
    AnyVersion = AnyVersion
    Unset = Unset
    MaxSaves = 2
    MaxCrashes = 1
    RowStored = TRUE
    Labels = {Actor, Rank, feed}
    DefaultActor = Actor
    DefaultRank = Rank
    Dirs = {inbox}
    EmptyText = EmptyText
    NoKey = NoKey
    NotThere = NotThere
    Catalog = {HTTM}
    Brands = {HTTM}
    Numbers = {66}
    MaxTitles = 2
    t1 = t1  t2 = t2  clt = clt  vr = vr  lib = lib
    MultiPart <- MCMultiPart
    Routes <- MCRoutes
    LibraryOf <- MCLibraryOf
    HeldIn <- MCHeldIn
    FetchedBy <- MCFetchedBy
    Nowhere = Nowhere
    Unsupported = {}
    Stackable = {}
    Everything = TRUE
    PauseOnFailure = FALSE
    Overlap = FALSE
    MaxWorks = 2
    Video = Video
    Audio = Audio
    Data = Data
    Parts = 3
    Layouts <- MCLayouts
    Space = 9
    Reserve = 1
    MaxUpload = 5
    MaxKills = 2
VIEW NoReply
CONSTRAINT OneClient
INVARIANTS
    PlansAccounted PlannedAsSeen UpgradeKeeps OutputAccounted
PROPERTIES
    StoreKept StoreHolds NeverPickedAgain
CHECK_DEADLOCK FALSE
