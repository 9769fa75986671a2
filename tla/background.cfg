SPECIFICATION BackgroundSpec
CONSTANTS
    m1 = m1  m2 = m2  l1 = l1  l2 = l2  v1 = v1  v2 = v2  a1 = a1  a2 = a2
    NoManager = NoManager
    Jobs = {1, 2}
    Applies = {2}
    Managers = {m1, m2}
    MaxConcurrent = 2
    MaxActive = 2
    Unsteady = {m1}
    Faults = {"slow", "db"}
    MaxReports = 2
    MaxFailures = 2
    Others = {rss}
    Paths = {f1}
    Versions = {new}
    Absent = Absent
    MaxEdits = 2
    MaxTriggers = 1
    MaxTrouble = 1
    Lists = {l1, l2}
    Movies = {v1, v2}
    Ranking <- MCRanking
    PlaylistIds = {p1, p2, p3, p4}
    NoPlaylist = NoPlaylist
    Deleted = Deleted
    PlaylistTrouble = 1
    Avids = {a1, a2}
    Junk = Junk
    Fills = {first}
    Manuals = {paste}
    Gap <- MCGap
    Pasted <- MCPasted
    MaxLines = 2
    NoFill = NoFill
    MaxTroubles = 1
INVARIANTS
    WorkAccounted StaleIsPending
PROPERTIES
    OutcomeStays JobConcluded ProgressShown SchedulerDelivers PlaylistsConverge FilledTitlesMoveOn
\* The bounds on edits, failures and requests let a behaviour come to rest.
CHECK_DEADLOCK FALSE
