----------------------------- MODULE LibraryFiling -----------------------------
(***************************************************************************)
(* How copies of one title get into the library beside the tracker: the    *)
(* archive run (ReconcileScanner over the route folders, then              *)
(* MoveInSweeper over the staging tree, both through ArchivePipeline) in   *)
(* its worker thread, and in other threads the library check that RSS and  *)
(* manual submissions make, which moves files too.  Every rename is a      *)
(* step: nothing holds a lock on the library.                              *)
(***************************************************************************)
EXTENDS Integers, FiniteSets, Sequences

CONSTANTS
    Folders, Groups,    \* folders in the routes; sets of staged files
    MaxParts, PartsOf,  \* how many videos a copy may have; how many each comes to hold
    Kind,               \* what a folder turns out to be: clear, unnamed, unclear, unknown or junk
    Priority,           \* those of a priority route
    BrandRouted,        \* brand_mapping pins the brand to one directory
    Piecemeal,          \* a sweep may come between the files of one apply
    Faults, MaxFaults,  \* among rename, discard, crash
    MaxAsks, MaxPasses

Copies == Folders \cup Groups
Dirs == {"priority", "normal", "brand"}
Numbers == 0..MaxParts          \* 0 is AVID.ext, n is AVID-cdn.ext
Free == <<"free", 0>>

ASSUME FilingAssumption ==
    /\ MaxParts \in Nat /\ \A c \in Copies : PartsOf[c] \in 1..MaxParts
    /\ Folders \cap Groups = {} /\ Priority \subseteq Copies
    /\ BrandRouted \in BOOLEAN /\ Piecemeal \in BOOLEAN

VARIABLES
    arrived, here,      \* how many videos have come; those still there
    grew,               \* it grew since the last look
    seen,               \* _seen: its size at the last pass, -1 when never
    reported,           \* _reported
    lib,                \* what each directory and number holds
    row,                \* state of the title's acquisition row
    pass,               \* the archive run: where it is, what is left, its snapshot
    filing,                \* the copy it is filing
    ask,                \* a library check in another thread
    bounds              \* faults, checks and passes so far

filingVars == <<arrived, here, grew, seen, reported, lib, row, pass, filing, ask, bounds>>
copyVars == <<arrived, here, grew>>

NoJob == [pc |-> "none", copy |-> "none", files |-> <<>>, left |-> {}, moved |-> 0, outcome |-> "none", read |-> "none"]
NoAsk == [pc |-> "none", dir |-> "normal", source |-> "rss", left |-> {}, found |-> {}]
Resting == [phase |-> "rest", todo |-> {}, active |-> FALSE]

FilingInit ==
    /\ arrived = [c \in Copies |-> 0] /\ here = [c \in Copies |-> {}] /\ grew = [c \in Copies |-> FALSE]
    /\ seen = [f \in Folders |-> -1] /\ reported = {}
    /\ lib = [d \in Dirs |-> [n \in Numbers |-> Free]]
    /\ row = "none"
    /\ pass = Resting /\ filing = NoJob /\ ask = NoAsk
    /\ bounds = [faults |-> 0, asks |-> 0, passes |-> 0]

Tracked == {"discovered", "downloading"}
SettledByFeed == {"discovered", "resolve_failed", "exhausted"}

May(fault) == fault \in Faults /\ bounds.faults < MaxFaults
Counted(what) == [bounds EXCEPT ![what] = @ + 1]

\* _matching_archived.
Holding(d) == {n \in Numbers : lib[d][n] # Free}
\* find_dst_dir.
DirOf(c) == IF BrandRouted THEN "brand" ELSE IF c \in Priority THEN "priority" ELSE "normal"
Put(c, i, d, n) == [lib EXCEPT ![d][n] = <<c, i>>]
Promoted(n) == [lib EXCEPT !["priority"][n] = lib["normal"][n], !["normal"][n] = Free]
-----------------------------------------------------------------------------
(* What turns up. *)

\* A folder is copied in video by video, without a break as long as two
\* passes; the fill actor moves one file after the other.
Arrive(c) ==
    /\ arrived[c] < PartsOf[c] /\ (here[c] # {} \/ arrived[c] = 0)
    /\ IF c \in Groups /\ ~Piecemeal
       THEN /\ pass.phase = "rest"
            /\ arrived' = [arrived EXCEPT ![c] = PartsOf[c]] /\ here' = [here EXCEPT ![c] = 1..PartsOf[c]]
       ELSE /\ arrived' = [arrived EXCEPT ![c] = @ + 1] /\ here' = [here EXCEPT ![c] = @ \cup {arrived[c] + 1}]
    /\ grew' = [grew EXCEPT ![c] = TRUE]
    /\ UNCHANGED <<seen, reported, lib, row, pass, filing, ask, bounds>>

\* The pipelines that own the row, here without a download of their own.
RowMoves ==
    /\ \/ row = "discovered" /\ row' \in {"downloading", "resolve_failed"}
       \/ row = "downloading" /\ row' = "exhausted"
    /\ ask.pc = "none"
    /\ UNCHANGED <<copyVars, seen, reported, lib, pass, filing, ask, bounds>>
-----------------------------------------------------------------------------
(* The pass. *)

\* ReconcileScanner.run reads the active titles once.
BeginPass ==
    /\ pass.phase = "rest" /\ bounds.passes < MaxPasses
    /\ pass' = [phase |-> "folders", todo |-> {f \in Folders : here[f] # {}}, active |-> row \in Tracked]
    /\ bounds' = Counted("passes")
    /\ UNCHANGED <<copyVars, seen, reported, lib, row, filing, ask>>

\* Priority routes first; a folder named as an active title is left alone.
Upcoming(f) == pass.phase = "folders" /\ filing = NoJob /\ f \in pass.todo /\ (f \notin Priority => pass.todo \cap Priority = {})
Done(f) == [pass EXCEPT !.todo = @ \ {f}]
HasTitle(f) == Kind[f] \notin {"unnamed", "unknown"}

LeaveToTracker(f) ==
    /\ Upcoming(f) /\ pass.active /\ HasTitle(f)
    /\ pass' = Done(f)
    /\ UNCHANGED <<copyVars, seen, reported, lib, row, filing, ask, bounds>>

\* Mutant: the first look is taken for a second.
SettledAtOnce(f) == seen[f] \in {-1, Cardinality(here[f])}

Settled(f) == seen[f] = Cardinality(here[f])

\* _is_settled, and the copying that goes on in the meantime.
Look(f) ==
    /\ Upcoming(f) /\ ~(pass.active /\ HasTitle(f))
    /\ arrived[f] < PartsOf[f] => grew[f]
    /\ seen' = [seen EXCEPT ![f] = Cardinality(here[f])]
    /\ grew' = [grew EXCEPT ![f] = FALSE]
    /\ pass' = Done(f)
    /\ filing' = IF Settled(f) THEN [NoJob EXCEPT !.pc = "inspect", !.copy = f] ELSE NoJob
    /\ UNCHANGED <<arrived, here, reported, lib, row, ask, bounds>>

Sweep ==
    /\ pass.phase = "folders" /\ pass.todo = {} /\ filing = NoJob
    /\ pass' = [pass EXCEPT !.phase = "groups", !.todo = {g \in Groups : here[g] # {}}]
    /\ UNCHANGED <<copyVars, seen, reported, lib, row, filing, ask, bounds>>

\* MoveInSweeper does not ask who owns the title.
FileGroup(g) ==
    /\ pass.phase = "groups" /\ filing = NoJob /\ g \in pass.todo
    /\ pass' = Done(g)
    /\ filing' = [NoJob EXCEPT !.pc = "inspect", !.copy = g]
    /\ UNCHANGED <<copyVars, seen, reported, lib, row, ask, bounds>>

EndPass ==
    /\ pass.phase = "groups" /\ pass.todo = {} /\ filing = NoJob
    /\ pass' = [pass EXCEPT !.phase = "rest"]
    /\ UNCHANGED <<copyVars, seen, reported, lib, row, filing, ask, bounds>>
-----------------------------------------------------------------------------
(* Filing one copy. *)

At(pc) == filing.pc = pc
C == filing.copy
OutOfJob == UNCHANGED <<reported, pass, ask, seen, arrived, grew>>
Over == filing' = NoJob
Result(outcome) == filing' = [filing EXCEPT !.pc = "result", !.outcome = outcome]

\* In name order; an index of its own for each of several.
InOrder(P) == [k \in 1..Cardinality(P) |-> CHOOSE i \in P : Cardinality({j \in P : j <= i}) = k]

Inspect ==
    /\ At("inspect")
    /\ LET selects == C \in Groups \/ Kind[C] \in {"clear", "unnamed"}
       IN  filing' = IF selects
                  THEN [filing EXCEPT !.files = InOrder(here[C]),
                                   !.pc = IF BrandRouted THEN "targets" ELSE IF C \in Priority THEN "promote" ELSE "held",
                                   !.left = IF C \in Priority /\ ~BrandRouted THEN Holding("normal") ELSE {}]
                  ELSE IF Kind[C] = "junk" THEN NoJob
                  ELSE [filing EXCEPT !.pc = "result", !.outcome = "attention"]
    /\ UNCHANGED <<here, lib, row, bounds>> /\ OutOfJob

\* _promote_from_normal: what is in the way stays, what is gone raises.
Promote ==
    /\ At("promote") /\ filing.left # {}
    /\ \E n \in filing.left :
          /\ \A m \in filing.left : n <= m
          /\ \/ /\ lib["priority"][n] # Free \/ lib["normal"][n] # Free
                /\ lib' = IF lib["priority"][n] = Free THEN Promoted(n) ELSE lib
                /\ filing' = [filing EXCEPT !.left = @ \ {n}]
                /\ UNCHANGED bounds
             \/ /\ lib["priority"][n] = Free /\ lib["normal"][n] = Free
                /\ Over /\ UNCHANGED <<lib, bounds>>
             \/ /\ May("rename") /\ bounds' = Counted("faults")
                /\ Over /\ UNCHANGED lib
    /\ UNCHANGED <<here, row>> /\ OutOfJob

PromotedAll ==
    /\ At("promote") /\ filing.left = {}
    /\ filing' = [filing EXCEPT !.pc = "targets"]
    /\ UNCHANGED <<here, lib, row, bounds>> /\ OutOfJob

HeldByPriority ==
    /\ At("held")
    /\ IF Holding("priority") # {} THEN Result("attention") ELSE filing' = [filing EXCEPT !.pc = "targets"]
    /\ UNCHANGED <<here, lib, row, bounds>> /\ OutOfJob

Number(k) == IF Len(filing.files) = 1 THEN 0 ELSE k

Targets ==
    /\ At("targets")
    /\ IF \E k \in 1..Len(filing.files) : lib[DirOf(C)][Number(k)] # Free
       THEN Result("attention") ELSE filing' = [filing EXCEPT !.pc = "move"]
    /\ UNCHANGED <<here, lib, row, bounds>> /\ OutOfJob

\* rename puts the file in the place of whatever is there.
MoveOne ==
    /\ At("move") /\ filing.moved < Len(filing.files)
    /\ LET k == filing.moved + 1
       IN  \/ /\ lib' = Put(C, filing.files[k], DirOf(C), Number(k))
              /\ here' = [here EXCEPT ![C] = @ \ {filing.files[k]}]
              /\ filing' = [filing EXCEPT !.moved = k]
              /\ UNCHANGED bounds
           \/ /\ May("rename") /\ bounds' = Counted("faults")
              /\ Over /\ UNCHANGED <<lib, here>>
    /\ UNCHANGED row /\ OutOfJob

\* _discard deletes a folder with what is left in it, and may fail.
Discard ==
    /\ At("move") /\ filing.moved = Len(filing.files)
    /\ Result("archived")
    /\ \/ /\ here' = IF C \in Groups THEN here ELSE [here EXCEPT ![C] = {}]
          /\ UNCHANGED bounds
       \/ C \in Folders /\ May("discard") /\ bounds' = Counted("faults") /\ UNCHANGED here
    /\ UNCHANGED <<lib, row>> /\ OutOfJob

\* _record_archived and _record_attention: the row is read, made when there
\* is none, and moved on from the state that was read.
ReadRow ==
    /\ At("result")
    /\ IF C \in Folders /\ Kind[C] = "unknown"
       THEN Over /\ reported' = reported \cup {C} /\ UNCHANGED row
       ELSE /\ UNCHANGED reported
            /\ IF row \in {filing.outcome, "archived"} THEN Over /\ UNCHANGED row
               ELSE /\ row' = IF row = "none" THEN "discovered" ELSE row
                    /\ filing' = [filing EXCEPT !.pc = "record", !.read = row']
    /\ UNCHANGED <<copyVars, lib, pass, ask, seen, bounds>>

\* A transition whose row has moved on does nothing.
Record ==
    /\ At("record") /\ Over
    /\ row' = IF row = filing.read THEN filing.outcome ELSE row
    /\ UNCHANGED <<copyVars, lib, reported, pass, ask, seen, bounds>>

\* The process ends: passes and checks are lost, and what the scanner remembers.
Crash ==
    /\ May("crash") /\ bounds' = Counted("faults")
    /\ pass' = Resting /\ filing' = NoJob /\ ask' = NoAsk
    /\ seen' = [f \in Folders |-> -1] /\ reported' = {}
    /\ UNCHANGED <<copyVars, lib, row>>
-----------------------------------------------------------------------------
(* The library check of RSS and of manual submissions. *)

\* RSS has made the row by then; a priority directory promotes.
AskBegin(d, source) ==
    /\ ask.pc = "none" /\ bounds.asks < MaxAsks
    /\ source = "rss" => row \in SettledByFeed \cup {"none"}
    /\ row' = IF source = "rss" /\ row = "none" THEN "discovered" ELSE row
    /\ ask' = [NoAsk EXCEPT !.pc = IF d = "priority" /\ ~BrandRouted THEN "promote" ELSE "look", !.dir = d, !.source = source,
                            !.left = IF d = "priority" /\ ~BrandRouted THEN Holding("normal") ELSE {}]
    /\ bounds' = Counted("asks")
    /\ UNCHANGED <<copyVars, seen, reported, lib, pass, filing>>

\* A file that is gone raises: what cannot be verified is not held.
AskPromote ==
    /\ ask.pc = "promote"
    /\ \/ ask.left = {} /\ ask' = [ask EXCEPT !.pc = "look"] /\ UNCHANGED lib
       \/ \E n \in ask.left :
          /\ \A m \in ask.left : n <= m
          /\ lib' = IF lib["priority"][n] = Free /\ lib["normal"][n] # Free THEN Promoted(n) ELSE lib
          /\ ask' = IF lib["priority"][n] = Free /\ lib["normal"][n] = Free THEN [ask EXCEPT !.pc = "answer"]
                    ELSE [ask EXCEPT !.left = @ \ {n}]
    /\ UNCHANGED <<copyVars, seen, reported, row, pass, filing, bounds>>

\* The destinations of the priority routes, then those of the others.
AskLook ==
    /\ \/ ask.pc = "look" /\ ask' = [ask EXCEPT !.pc = "look_on", !.found = Holding("priority") \cup Holding("brand")]
       \/ ask.pc = "look_on" /\ ask' = [ask EXCEPT !.pc = "answer", !.found = @ \cup Holding("normal")]
    /\ UNCHANGED <<copyVars, seen, reported, lib, row, pass, filing, bounds>>

\* _skip_library_held settles the row; without a copy the title is queued.
AskAnswer ==
    /\ ask.pc = "answer" /\ ask' = NoAsk
    /\ row' = IF ask.found # {} THEN IF ask.source = "rss" /\ row \in SettledByFeed THEN "archived" ELSE row
              ELSE IF row = "none" THEN "discovered" ELSE row
    /\ UNCHANGED <<copyVars, seen, reported, lib, pass, filing, bounds>>
-----------------------------------------------------------------------------
PassNext ==
    \/ BeginPass \/ Sweep \/ EndPass \/ \E f \in Folders : LeaveToTracker(f) \/ Look(f)
    \/ \E g \in Groups : FileGroup(g)
    \/ Inspect \/ Promote \/ PromotedAll \/ HeldByPriority \/ Targets \/ MoveOne \/ Discard \/ ReadRow \/ Record

FilingNext ==
    \/ \E c \in Copies : Arrive(c)
    \/ RowMoves \/ PassNext \/ Crash
    \/ \E d \in {"priority", "normal"}, source \in {"rss", "manual"} : AskBegin(d, source)
    \/ AskPromote \/ AskLook \/ AskAnswer

FilingSpec == FilingInit /\ [][FilingNext]_filingVars
-----------------------------------------------------------------------------
(* Properties. *)

Present(c, i) == i \in here[c] \/ \E d \in Dirs, n \in Numbers : lib[d][n] = <<c, i>>

\* Renaming over, promoting and discarding take no video from anyone: each one
\* that came is in its folder or in the library, whatever fails on the way and
\* whoever else moves files.  A folder that is copied in without a break is
\* filed when it is whole, and no look at the library is too early for the
\* rename it allows.
NothingLost == \A c \in Copies : \A i \in 1..arrived[c] : Present(c, i)

\* "a copy arriving there can claim an AVID already filed under a normal
\* route": while a priority copy is moved in, what a normal route still holds
\* is what the priority directory had its own of.
PriorityWins ==
    (At("move") /\ C \in Priority /\ ~BrandRouted) =>
        \A n \in Holding("normal") : n \in Holding("priority")

\* What filing promises of every copy, whichever of the filers took it: it is
\* not lost, and a priority copy is the one the library keeps.
CopiesAccounted == NothingLost /\ PriorityWins

\* "The videos travel in name order, which the -cdN naming of staged parts
\* already encodes": a staged part keeps its number in the library.  Does not
\* hold when a sweep comes between two files of one apply (Piecemeal; README,
\* section 6).
StagedKeepTheirNumber ==
    \A g \in Groups, i \in 1..MaxParts, d \in Dirs, n \in Numbers :
        PartsOf[g] > 1 /\ lib[d][n] = <<g, i>> => n = i
===============================================================================
