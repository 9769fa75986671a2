---------------------------- MODULE CloudPlanning ----------------------------
(***************************************************************************)
(* What a scan plans to move inside CloudDrive (fill_actor/service.py,     *)
(* cloud_moves.py): title by title, the strm files of the other libraries  *)
(* name the videos, and the listings of their directories, each made once  *)
(* a scan, say which are there and whether their place in the staging      *)
(* directory is taken.  Meanwhile other plans move videos, the archive     *)
(* takes them from the staging directory, and new ones arrive.             *)
(***************************************************************************)
EXTENDS Naturals, Sequences, FiniteSets

CONSTANTS
    Order,          \* the titles, in the order of their ids
    Mappings,       \* strm files of the other libraries
    VideoOf,        \* VideoOf[m]: the title whose id their name starts with
    TargetOf,       \* TargetOf[m]: the path they name, <<directory, name>>, or NoTarget
    NoTarget,       \* not a strm, or it names no video under its library's root
    Misnamed,       \* paths whose name is not that of the title
    StagingOf,        \* Staging[v]: the directory the title's videos are moved to
    Arrivals,       \* paths at which a video may appear
    MaxChanges

Videos == {Order[i] : i \in DOMAIN Order}
Targets == {TargetOf[m] : m \in Mappings} \ {NoTarget}
Dest(m) == <<StagingOf[VideoOf[m]], TargetOf[m][2]>>
VideoPaths == Targets \union Arrivals \union {Dest(m) : m \in {k \in Mappings : TargetOf[k] # NoTarget}}
ListedDirs == {p[1] : p \in VideoPaths} \union {StagingOf[v] : v \in Videos}

ASSUME PlanningAssumption ==
    /\ Order \in Seq(Videos) /\ VideoOf \in [Mappings -> Videos]
    /\ NoTarget \notin VideoPaths
    /\ MaxChanges \in Nat

VARIABLES
    onCloud,        \* the paths at which CloudDrive has a video
    look,           \* the scan: where it is, and its listings
    planned,        \* what it planned: candidates, those marked as conflicts, the titles' states
    held, free,     \* the paths that had, and had no video at some time of the scan
    changes

planningVars == <<onCloud, look, planned, held, free, changes>>

Unlisted == {NoTarget}
NotBegun == [pc |-> "rest", left |-> <<>>, todo |-> {}, existing |-> {}, listing |-> [d \in ListedDirs |-> Unlisted]]
Empty == [candidates |-> {}, conflicts |-> {}, state |-> [v \in Videos |-> "none"]]

PlanningInit ==
    /\ onCloud \in SUBSET VideoPaths
    /\ look = NotBegun
    /\ planned = Empty
    /\ held = {} /\ free = {}
    /\ changes = 0

NextVideo == Head(look.left)
Of(v) == {m \in Mappings : VideoOf[m] = v}
IsListed(d) == look.listing[d] # Unlisted
----------------------------------------------------------------------------
(* Mutant: the listings of the last scan serve again.                       *)
BeginCloudScanWith ==
    /\ look.pc = "rest"
    /\ look' = [look EXCEPT !.pc = "title", !.left = Order]
    /\ planned' = Empty
    /\ held' = onCloud /\ free' = VideoPaths \ onCloud
    /\ UNCHANGED <<onCloud, changes>>

BeginCloudScan ==
    /\ look.pc = "rest"
    /\ look' = [NotBegun EXCEPT !.pc = "title", !.left = Order]
    /\ planned' = Empty
    /\ held' = onCloud /\ free' = VideoPaths \ onCloud
    /\ UNCHANGED <<onCloud, changes>>

(* A title without a file in the other libraries is missing.                *)
TakeTitle ==
    /\ look.pc = "title" /\ look.left # <<>>
    /\ IF Of(NextVideo) = {}
       THEN /\ look' = [look EXCEPT !.left = Tail(@)]
            /\ planned' = [planned EXCEPT !.state[NextVideo] = "missing"]
       ELSE /\ look' = [look EXCEPT !.pc = "mapping", !.todo = Of(NextVideo), !.existing = {}]
            /\ UNCHANGED planned
    /\ UNCHANGED <<onCloud, held, free, changes>>

(* The staging directory is listed first, then that of each video.          *)
Wanted ==
    IF ~IsListed(StagingOf[NextVideo]) THEN {StagingOf[NextVideo]}
    ELSE {TargetOf[m][1] : m \in {k \in look.todo : TargetOf[k] # NoTarget}}

ListDirectory ==
    /\ look.pc = "mapping"
    /\ \E d \in Wanted :
          /\ ~IsListed(d)
          /\ look' = [look EXCEPT !.listing[d] = {p \in onCloud : p[1] = d}]
    /\ UNCHANGED <<onCloud, planned, held, free, changes>>

(* A listing that fails fails the title, with what was planned of it.       *)
ListingFails ==
    /\ look.pc = "mapping" /\ \E d \in Wanted : ~IsListed(d)
    /\ changes < MaxChanges /\ changes' = changes + 1
    /\ look' = [look EXCEPT !.pc = "title", !.left = Tail(@)]
    /\ planned' = [planned EXCEPT !.candidates = {m \in @ : VideoOf[m] # NextVideo},
                            !.conflicts = {m \in @ : VideoOf[m] # NextVideo},
                            !.state[NextVideo] = "scan_failed"]
    /\ UNCHANGED <<onCloud, held, free>>

(* One mapping: a video that is there is a candidate, one that is not but   *)
(* is in the staging directory exists; any other is a warning.              *)
Consider(m) ==
    /\ look.pc = "mapping" /\ m \in look.todo /\ IsListed(StagingOf[NextVideo])
    /\ TargetOf[m] # NoTarget => IsListed(TargetOf[m][1])
    /\ LET there == TargetOf[m] # NoTarget /\ TargetOf[m] \in look.listing[TargetOf[m][1]]
           taken == TargetOf[m] # NoTarget /\ Dest(m) \in look.listing[StagingOf[NextVideo]]
           fits == there /\ TargetOf[m] \notin Misnamed
       IN  /\ look' = [look EXCEPT !.todo = @ \ {m},
                                   !.existing = IF taken /\ ~there THEN @ \union {Dest(m)} ELSE @]
           /\ planned' = [planned EXCEPT !.candidates = IF fits THEN @ \union {m} ELSE @,
                                         !.conflicts = IF fits /\ taken THEN @ \union {m} ELSE @]
    /\ UNCHANGED <<onCloud, held, free, changes>>

ConcludeTitle ==
    /\ look.pc = "mapping" /\ look.todo = {} /\ IsListed(StagingOf[NextVideo])
    /\ planned' = [planned EXCEPT !.state[NextVideo] =
          IF \E m \in planned.candidates : VideoOf[m] = NextVideo THEN "additional_found"
          ELSE IF look.existing # {} THEN "exists" ELSE "scan_failed"]
    /\ look' = [look EXCEPT !.pc = "title", !.left = Tail(@)]
    /\ UNCHANGED <<onCloud, held, free, changes>>

(* _mark_duplicate_destination_conflicts.                                   *)
Duplicates == {m \in planned.candidates : \E k \in planned.candidates \ {m} : Dest(k) = Dest(m)}

MarkDuplicates ==
    /\ look.pc = "title" /\ look.left = <<>>
    /\ planned' = [planned EXCEPT !.conflicts = @ \union Duplicates]
    /\ look' = [look EXCEPT !.pc = "planned"]
    /\ UNCHANGED <<onCloud, held, free, changes>>

(* The plan is saved, and the next scan may begin.                          *)
SaveCloudPlan ==
    /\ look.pc = "planned"
    /\ look' = [look EXCEPT !.pc = "rest"]
    /\ UNCHANGED <<onCloud, planned, held, free, changes>>
----------------------------------------------------------------------------
(* Anyone else at CloudDrive.                                               *)
Changes(after) ==
    /\ changes < MaxChanges /\ changes' = changes + 1
    /\ onCloud' = after
    /\ held' = held \union after /\ free' = free \union (VideoPaths \ after)
    /\ UNCHANGED <<look, planned>>

MovedByOther(m) ==
    /\ TargetOf[m] \in onCloud /\ Dest(m) \notin onCloud
    /\ Changes((onCloud \ {TargetOf[m]}) \union {Dest(m)})

Archived(v) == \E p \in onCloud : p[1] = StagingOf[v] /\ Changes(onCloud \ {p})

Arrives(p) == p \notin onCloud /\ Changes(onCloud \union {p})

PlanningNext ==
    \/ BeginCloudScan \/ TakeTitle \/ ListDirectory \/ ListingFails \/ ConcludeTitle
    \/ MarkDuplicates \/ SaveCloudPlan
    \/ \E m \in Mappings : Consider(m) \/ (TargetOf[m] # NoTarget /\ MovedByOther(m))
    \/ \E v \in Videos : Archived(v)
    \/ \E p \in Arrivals : Arrives(p)

PlanningSpec == PlanningInit /\ [][PlanningNext]_planningVars
----------------------------------------------------------------------------
(* A plan only holds what the scan saw, whatever was moved while its        *)
(* listings were made: each candidate was at its place, and unless it is    *)
(* marked as a conflict its destination was free and is no other            *)
(* candidate's; a title that "exists" had a video in the staging directory; *)
(* and a title is missing only if no library has a file of it.              *)
PlannedAsSeen ==
    look.pc = "planned" =>
        /\ \A m \in planned.candidates : TargetOf[m] \in held \ Misnamed
        /\ \A m \in planned.candidates \ planned.conflicts :
              /\ Dest(m) \in free
              /\ \A k \in planned.candidates \ {m} : Dest(k) # Dest(m)
        /\ \A v \in Videos :
              LET found == planned.candidates \intersect Of(v) IN
              /\ planned.state[v] = "additional_found" <=> found # {}
              /\ planned.state[v] = "exists" => \E m \in Of(v) : TargetOf[m] # NoTarget /\ Dest(m) \in held
              /\ planned.state[v] = "missing" <=> Of(v) = {}
============================================================================
