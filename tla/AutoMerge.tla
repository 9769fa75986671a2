------------------------------ MODULE AutoMerge ------------------------------
(****************************************************************************)
(* Which titles are merged, and when: the scan of the mapping tree          *)
(* (merge/detect.py) behind its cache (merge/api.TitleScanCache), the       *)
(* operator's requests (create_task), and the loop that queues titles by    *)
(* itself (merge/auto.AutoMerger).  What happens to a task once it is       *)
(* queued is MergeTask's; here it only ends, and the mapping tree learns of *)
(* it later.                                                                *)
(*                                                                          *)
(* A title's directory holds all its parts, parts with a gap, the parts     *)
(* beside a whole copy, the whole copy alone, or nothing of it.             *)
(****************************************************************************)
EXTENDS Integers, Sequences, FiniteSets

CONSTANTS
    MultiPart,    \* the titles, in the order a scan lists them
    Routes,       \* intake routes, in their order
    LibraryOf,    \* LibraryOf[s]: the library directory route s feeds
    HeldIn,       \* HeldIn[t]: the library directory title t is held in
    FetchedBy,    \* FetchedBy[t]: the route of the ledger's task directory, or Nowhere
    Nowhere,
    Unsupported,  \* titles whose container the worker cannot write
    Stackable,    \* titles Emby stacks by itself
    Everything,   \* merge.auto_include_stackable
    PauseOnFailure,
    Overlap,      \* whether a task may be both queued and ended within one round
    MaxWorks      \* bound: tasks, restarts and copies filed beside parts in a run

ASSUME AutoAssumption ==
    /\ MultiPart \in Seq({MultiPart[i] : i \in DOMAIN MultiPart})
    /\ \A t \in {MultiPart[i] : i \in DOMAIN MultiPart} :
          HeldIn[t] \in {LibraryOf[s] : s \in DOMAIN LibraryOf} \cup {Nowhere}
    /\ DOMAIN LibraryOf = {Routes[i] : i \in DOMAIN Routes}
    /\ {Everything, PauseOnFailure, Overlap} \subseteq BOOLEAN
    /\ MaxWorks \in Nat

VARIABLES
    cloud,    \* cloud[t]: the title's files at CloudDrive
    tree,     \* tree[t]: its strm files in the mapping tree
    cached,   \* cached[t]: the listing CloudDrive answers without a refresh
    walk,     \* the last full scan: what it saw, and whether it is out of date
    task,     \* task[t]: how its tasks stand
    room,     \* whether a merge fits on the work volume
    round,    \* the round of the loop
    sizes, refused,   \* what the loop remembers between rounds
    asked,    \* the operator's request under way
    works

autoVars == <<cloud, tree, cached, walk, task, room, round, sizes, refused, asked, works>>
worldVars == <<cloud, tree, cached, room>>
memoryVars == <<sizes, refused>>

MergeTitles == {MultiPart[i] : i \in DOMAIN MultiPart}
NoWalk == [seen |-> [t \in MergeTitles |-> "none"], known |-> FALSE, old |-> FALSE]
NoRound == [at |-> "idle"]
NoAsk == [at |-> "idle"]
NoTask == [live |-> "none", past |-> {}]

AutoInit ==
    /\ cloud \in [MergeTitles -> {"parts", "gap", "both"}]
    /\ tree = cloud /\ cached = cloud
    /\ walk = NoWalk
    /\ task = [t \in MergeTitles |-> NoTask]
    /\ room = TRUE
    /\ round = NoRound
    /\ sizes = {} /\ refused = {}
    /\ asked = NoAsk
    /\ works = 0

-----------------------------------------------------------------------------
(* The scan.                                                                *)

\* A title the scan lists: at least two parts, whatever is beside them.
Listed(held) == held \in {"parts", "gap", "both"}

\* Mergeable: no part missing and no problem, a whole copy being one.
Complete(held) == held = "parts"

\* The one route that feeds the directory, else the one the ledger remembers.
SourceForLibraryDir(dir) ==
    LET feeding == {s \in DOMAIN LibraryOf : LibraryOf[s] = dir} IN
    IF Cardinality(feeding) = 1 THEN CHOOSE s \in feeding : TRUE ELSE Nowhere

ResolveSource(t) ==
    IF SourceForLibraryDir(HeldIn[t]) # Nowhere THEN SourceForLibraryDir(HeldIn[t])
    ELSE FetchedBy[t]

\* enqueue() refuses the title, as its directory now holds it.
Refusal(t, held) ==
    \/ ~Complete(held)
    \/ HeldIn[t] = Nowhere
    \/ t \in Unsupported
    \/ ResolveSource(t) = Nowhere

\* The index admits one unfinished task per title.
Created(t) == [task EXCEPT ![t].live = "queued"]

-----------------------------------------------------------------------------
(* A round of the loop: every action ends at an await.                      *)

Unfinished == {t \in MergeTitles : task[t].live # "none"}
Failed == {t \in MergeTitles : task[t].live = "failed"}

\* Why no title may be queued now.
Blocked ==
    \/ PauseOnFailure /\ Failed # {}
    \/ Unfinished # Failed

RoundBegins ==
    /\ round.at = "idle"
    /\ round' = IF Blocked THEN NoRound ELSE [at |-> "scan", failed |-> Failed]
    /\ ~Blocked
    /\ UNCHANGED <<worldVars, walk, task, memoryVars, asked, works>>

\* The cached scan does unless there is none, a task ended since, or it is
\* a day old; the walk itself takes its time.
RoundScans ==
    /\ round.at = "scan"
    /\ round' = IF walk.known /\ ~walk.old THEN [round EXCEPT !.at = "settle"]
                ELSE [at |-> "walk", failed |-> round.failed, seen |-> tree]
    /\ UNCHANGED <<worldVars, walk, task, memoryVars, asked, works>>

\* The walk ends: what it saw is the scan, and nothing is refused any more.
RoundScanned ==
    /\ round.at = "walk"
    /\ walk' = [seen |-> round.seen, known |-> TRUE, old |-> FALSE]
    /\ refused' = {}
    /\ round' = [at |-> "settle", failed |-> round.failed]
    /\ UNCHANGED <<worldVars, task, sizes, asked, works>>

\* Only the merged ones.
SettledMerged == {t \in MergeTitles : "done" \in task[t].past}

\* The titles whose task was cancelled or already merged them.
Settled == {t \in MergeTitles : task[t].past # {}}

\* What the round goes by: the room there is, the settled titles, the scan.
RoundSettles ==
    /\ round.at = "settle"
    /\ round' = [at |-> "pick", next |-> 1, failed |-> round.failed,
                 settled |-> Settled, fits |-> room, seen |-> walk.seen]
    /\ UNCHANGED <<worldVars, walk, task, memoryVars, asked, works>>

Eligible(t) ==
    /\ Complete(round.seen[t])
    /\ t \notin round.settled
    /\ Everything \/ t \notin Stackable

Candidate == MultiPart[round.next]

\* A failed title and a refused one are passed over; at the end the round is over.
PassOver ==
    /\ round.at = "pick"
    /\ IF round.next > Len(MultiPart) THEN round' = NoRound
       ELSE /\ \/ ~Eligible(Candidate)
               \/ Candidate \in round.failed
               \/ Candidate \in refused
            /\ round' = [round EXCEPT !.next = @ + 1]
    /\ UNCHANGED <<worldVars, walk, task, memoryVars, asked, works>>

\* The size, remembered or from a listing that need not be fresh; a listing
\* that fails or does not show the parts skips the title for this round.
Size ==
    /\ round.at = "pick" /\ round.next <= Len(MultiPart)
    /\ Eligible(Candidate) /\ Candidate \notin round.failed /\ Candidate \notin refused
    /\ LET t == Candidate
           known == t \in sizes \/ Listed(cached[t]) IN
       /\ sizes' = IF known THEN sizes \cup {t} ELSE sizes
       /\ round' = IF known /\ round.fits THEN [round EXCEPT !.at = "list"]
                   ELSE [round EXCEPT !.next = @ + 1]
    /\ UNCHANGED <<worldVars, walk, task, refused, asked, works>>

\* The listing asked afresh: every part there, and no whole copy beside them.
ListAfresh ==
    /\ round.at = "list"
    /\ LET t == Candidate
           gone == cloud[t] \notin {"parts", "both"}
           whole == cloud[t] = "both" IN
       /\ cached' = [cached EXCEPT ![t] = cloud[t]]
       /\ sizes' = IF gone \/ whole THEN sizes \ {t} ELSE sizes
       /\ refused' = IF whole THEN refused \cup {t} ELSE refused
       /\ round' = IF gone \/ whole THEN [round EXCEPT !.at = "pick", !.next = @ + 1]
                   ELSE [round EXCEPT !.at = "look"]
    /\ UNCHANGED <<cloud, tree, room, walk, task, asked, works>>

\* Its directory read once more ...
LookAgain ==
    /\ round.at = "look"
    /\ round' = [at |-> "queue", next |-> round.next, failed |-> round.failed,
                 settled |-> round.settled, fits |-> round.fits, seen |-> round.seen, now |-> tree[Candidate]]
    /\ UNCHANGED <<worldVars, walk, task, memoryVars, asked, works>>

\* ... and queued, unless it is refused or someone else queued it meanwhile.
AutoQueues ==
    /\ round.at = "queue"
    /\ LET t == Candidate IN
       IF Refusal(t, round.now) \/ task[t].live # "none"
       THEN /\ refused' = refused \cup {t}
            /\ round' = [at |-> "pick", next |-> round.next + 1, failed |-> round.failed,
                         settled |-> round.settled, fits |-> round.fits, seen |-> round.seen]
            /\ UNCHANGED <<task, works>>
       ELSE /\ works < MaxWorks
            /\ works' = works + 1
            /\ task' = Created(t)
            /\ round' = NoRound
            /\ UNCHANGED refused
    /\ UNCHANGED <<worldVars, walk, sizes, asked>>

-----------------------------------------------------------------------------
(* The operator.                                                            *)

\* POST /tasks reads the title's directory, then queues it.
AskMerge(t) ==
    /\ asked.at = "idle"
    /\ works < MaxWorks
    /\ works' = works + 1
    /\ asked' = [at |-> "queue", title |-> t, now |-> tree[t]]
    /\ UNCHANGED <<worldVars, walk, task, round, memoryVars>>

AskQueues ==
    /\ asked.at = "queue"
    /\ LET t == asked.title IN
       task' = IF Refusal(t, asked.now) \/ task[t].live # "none" THEN task ELSE Created(t)
    /\ asked' = NoAsk
    /\ UNCHANGED <<worldVars, walk, round, memoryVars, works>>

\* A task that ends within a round was there when it began, unless Overlap:
\* merging takes longer than looking.
Settling(t) == Overlap \/ round.at = "idle" \/ t \in Failed

CancelTask(t) ==
    /\ task[t].live # "none" /\ Settling(t)
    /\ task' = [task EXCEPT ![t] = [live |-> "none", past |-> @.past \cup {"cancelled"}]]
    /\ UNCHANGED <<worldVars, walk, round, memoryVars, asked, works>>

RetryTask(t) ==
    /\ task[t].live = "failed"
    /\ works < MaxWorks
    /\ works' = works + 1
    /\ task' = [task EXCEPT ![t].live = "queued"]
    /\ UNCHANGED <<worldVars, walk, round, memoryVars, asked>>

-----------------------------------------------------------------------------
(* Around it.                                                               *)

\* The task is done: the parts are gone and the whole copy filed.
TaskEnds(t) ==
    /\ task[t].live = "queued" /\ Settling(t)
    /\ \/ /\ task' = [task EXCEPT ![t] = [live |-> "none", past |-> @.past \cup {"done"}]]
          /\ cloud' = [cloud EXCEPT ![t] = "whole"]
          /\ walk' = [walk EXCEPT !.old = walk.known]
       \/ /\ task' = [task EXCEPT ![t].live = "failed"]
          /\ UNCHANGED <<cloud, walk>>
    /\ room' = TRUE
    /\ UNCHANGED <<tree, cached, round, memoryVars, asked, works>>

\* The work volume fills with what waits to be uploaded, and empties.
VolumeFills ==
    /\ room /\ Unfinished # {}
    /\ room' = FALSE
    /\ UNCHANGED <<cloud, tree, cached, walk, task, round, memoryVars, asked, works>>

VolumeEmpties ==
    /\ ~room
    /\ room' = TRUE
    /\ UNCHANGED <<cloud, tree, cached, walk, task, round, memoryVars, asked, works>>

\* The mapping run brings a directory up to date.
MapTitle(t) ==
    /\ tree[t] # cloud[t]
    /\ tree' = [tree EXCEPT ![t] = cloud[t]]
    /\ UNCHANGED <<cloud, cached, room, walk, task, round, memoryVars, asked, works>>

\* CloudDrive's own cache catches up.
CacheAges(t) ==
    /\ cached[t] # cloud[t]
    /\ cached' = [cached EXCEPT ![t] = cloud[t]]
    /\ UNCHANGED <<cloud, tree, room, walk, task, round, memoryVars, asked, works>>

\* The missing part is filed, or a whole copy beside the parts goes.
PartsComplete(t) ==
    /\ cloud[t] \in {"gap", "both"}
    /\ task[t].live = "none"
    /\ cloud' = [cloud EXCEPT ![t] = "parts"]
    /\ UNCHANGED <<tree, cached, room, walk, task, round, memoryVars, asked, works>>

\* A whole copy is filed beside the parts.
WholeFiled(t) ==
    /\ cloud[t] = "parts" /\ task[t].live = "none"
    /\ works < MaxWorks
    /\ works' = works + 1
    /\ cloud' = [cloud EXCEPT ![t] = "both"]
    /\ UNCHANGED <<tree, cached, room, walk, task, round, memoryVars, asked>>

\* A scan older than a day is not used again.
ScanAges ==
    /\ walk.known /\ ~walk.old
    /\ walk' = [walk EXCEPT !.old = TRUE]
    /\ UNCHANGED <<worldVars, task, round, memoryVars, asked, works>>

\* A restart: only the tasks are stored.
AutoRestart ==
    /\ works < MaxWorks
    /\ works' = works + 1
    /\ walk' = NoWalk
    /\ round' = NoRound /\ asked' = NoAsk
    /\ sizes' = {} /\ refused' = {}
    /\ UNCHANGED <<worldVars, task>>

RoundSteps == \/ RoundBegins \/ RoundScans \/ RoundScanned \/ RoundSettles
         \/ PassOver \/ Size \/ ListAfresh \/ LookAgain \/ AutoQueues

AutoNext ==
    \/ RoundSteps
    \/ AskQueues \/ VolumeFills \/ VolumeEmpties \/ ScanAges \/ AutoRestart
    \/ \E t \in MergeTitles :
          \/ AskMerge(t) \/ CancelTask(t) \/ RetryTask(t) \/ TaskEnds(t)
          \/ MapTitle(t) \/ CacheAges(t) \/ PartsComplete(t) \/ WholeFiled(t)

AutoSpec == AutoInit /\ [][AutoNext]_autoVars

-----------------------------------------------------------------------------
(* Properties.                                                              *)

\* The loop never queues a title whose task was cancelled, removed or already
\* merged it, however long the mapping tree and CloudDrive's cache go on
\* showing its parts (AutoMerger.step).
NeverPickedAgain ==
    [][\A t \in MergeTitles : AutoQueues /\ task[t].live = "none" /\ task'[t].live = "queued"
          => task[t].past = {}]_autoVars

=============================================================================
