------------------------------ MODULE LocalMove ------------------------------
(***************************************************************************)
(* Moving a video of a brand library into the staging tree when the files  *)
(* are on a mounted file system: FillActorService._run_move, its renames   *)
(* and its hard-link fallback, the move journal, and the recovery of moves *)
(* a crash interrupted.  One move runs at a time (the mutation lock is     *)
(* shared by all processes), every path operation is a step of its own,    *)
(* and between any two the process may die, a database write may fail, the *)
(* share may be unmounted, and other programs may write, replace or create *)
(* files.                                                                  *)
(***************************************************************************)
EXTENDS FillActorMoves

CONSTANTS
    Quarantines,    \* the hidden paths .embyx-reconcile-<sha> of the staging tree
    QuarantineOf,
    Foreign,        \* files other programs may put in place
    Writable,       \* sources other programs write to
    Flapping        \* an outage of the share may end within one step of a move

ASSUME LocalAssumption ==
    /\ QuarantineOf \in [LocalCands -> Quarantines]
    /\ \A c, d \in LocalCands : QuarantineOf[c] = QuarantineOf[d] => c = d
    /\ (Sources \cup Destinations) \cap Quarantines = {}
    /\ Foreign \cap (Sources \cup {None}) = {}
    /\ Flapping \in BOOLEAN /\ Writable \subseteq Sources

VARIABLES
    renameat2,  \* the file system can rename without replacing; it never changes
    fs,         \* the file at each path
    library,    \* files the archive took out of the staging tree
    erased,     \* files whose last name another program removed or replaced
    written,    \* files whose content changed since the scan
    touched,    \* files whose ctime changed since the scan
    mounted,    \* the library roots can be reached
    journal,    \* the move journal, by candidate
    result,     \* the stored results, by candidate
    work,       \* the move that holds the mutation lock
    faults      \* faults so far

files == <<renameat2, fs, library, erased, written, touched>>
stored == <<journal, result>>
outside == <<renameat2, library, erased, written, mounted, faults>>
moveVars == <<renameat2, fs, library, erased, written, touched, mounted, journal, result, work, faults>>

LocalPaths == Sources \cup Destinations \cup Quarantines
Files == Sources \cup Foreign
JournalStates == {"none", "prepared", "linked", "source_removed", "reconciled"}
Outcomes == {"moved", "stale", "conflict", "failed"}
Pcs == {"look", "check", "rename", "verify", "rollback", "link", "linked", "isolate", "unlink",
        "setaside", "undo", "misplaced", "putback", "restored",
        "settle", "linkrow", "removedrow", "resultrow", "endrow"}
Works == {Idle} \cup [on : LocalCands, mode : {"apply", "reconcile"}, pc : Pcs, state : JournalStates,
                      out : Outcomes \cup {"none"}]

MoveTypeOK ==
    /\ renameat2 \in BOOLEAN
    /\ fs \in [LocalPaths -> Files \cup {None}]
    /\ library \subseteq Files /\ erased \subseteq Files
    /\ written \subseteq Files /\ touched \subseteq Files
    /\ mounted \in BOOLEAN
    /\ journal \in [LocalCands -> JournalStates]
    /\ result \in [LocalCands -> Outcomes \cup {"none"}]
    /\ work \in Works
    /\ faults \in 0 .. MaxFaults

MoveInit ==
    /\ renameat2 \in BOOLEAN
    /\ fs = [p \in LocalPaths |-> IF p \in Sources THEN p ELSE None]
    /\ library = {} /\ erased = {} /\ written = {} /\ touched = {}
    /\ mounted = TRUE
    /\ journal = [c \in LocalCands |-> "none"]
    /\ result = [c \in LocalCands |-> "none"]
    /\ work = Idle
    /\ faults = 0

-----------------------------------------------------------------------------
(* What the code sees of a path. *)

Qtn(c) == QuarantineOf[c]

\* What is found at a path: nothing while the share is away.
Visible(p) == IF mounted THEN fs[p] ELSE None

\* _matches_linked_fingerprint_if_present: device, inode, size and mtime.
Linked(p, c) == Visible(p) = Planned(c) /\ Planned(c) \notin written

\* _fingerprint, with the ctime that a rename or a link changes.
Unchanged(p, c) == Linked(p, c) /\ Planned(c) \notin touched

\* The names p, q of a rename that does not replace: it fails if q is taken.
CanRename(p, q) == Visible(p) # None /\ Visible(q) = None
Renamed(p, q) ==
    /\ fs' = [fs EXCEPT ![p] = None, ![q] = fs[p]]
    /\ touched' = touched \cup {fs[p]}

OnPc(c, pc) == work.on = c /\ work.pc = pc
GoOn(pc) == work' = [work EXCEPT !.pc = pc]
Concludes(out) == work' = [work EXCEPT !.pc = "settle", !.out = out]
Leaves == work' = Idle

-----------------------------------------------------------------------------
(* Taking up a move. *)

Holding(c, mode, pc) ==
    work' = [on |-> c, mode |-> mode, pc |-> pc, state |-> journal[c], out |-> "none"]

\* _run_move: a candidate without a result is journalled and moved, or
\* recovered when a journal of an earlier attempt is open.
Apply(c) ==
    /\ work = Idle /\ mounted /\ result[c] = "none"
    /\ \/ /\ journal[c] = "none"
          /\ journal' = [journal EXCEPT ![c] = "prepared"]
          /\ work' = [on |-> c, mode |-> "apply", pc |-> "check", state |-> "prepared", out |-> "none"]
       \/ /\ journal[c] \notin {"none", "reconciled"}
          /\ Holding(c, "reconcile", "look")
          /\ UNCHANGED journal
    /\ UNCHANGED <<files, mounted, result, faults>>

\* Mutant: the recovery does not look for a stored result.
ReconcileAgain(c) ==
    /\ work = Idle /\ mounted /\ journal[c] \notin {"none", "reconciled"}
    /\ Holding(c, "reconcile", "look")
    /\ UNCHANGED <<files, mounted, journal, result, faults>>

\* Mutant: only moves that stopped before their first journal row are taken up.
ReconcilePrepared(c) ==
    /\ work = Idle /\ mounted /\ journal[c] = "prepared"
    /\ Holding(c, "reconcile", "look")
    /\ UNCHANGED <<files, mounted, journal, result, faults>>

\* reconcile_moves and _reconcile_candidate: an open journal whose result was
\* stored is closed, another is compared with the files.
Reconcile(c) ==
    /\ work = Idle /\ mounted /\ journal[c] \notin {"none", "reconciled"}
    /\ \/ /\ result[c] # "none"
          /\ journal' = [journal EXCEPT ![c] = "reconciled"]
          /\ UNCHANGED work
       \/ /\ result[c] = "none"
          /\ Holding(c, "reconcile", "look")
          /\ UNCHANGED journal
    /\ UNCHANGED <<files, mounted, result, faults>>

-----------------------------------------------------------------------------
(* _apply_one and the hard-link fallback. *)

\* A result move_rollback_failed: the apply leaves the journal open, the
\* recovery stores it like any other failure.
RollbackFailed == IF work.mode = "apply" THEN Leaves ELSE Concludes("failed")

\* The checks before the rename.
Check(c) ==
    /\ OnPc(c, "check")
    /\ \/ ~Unchanged(Src(c), c) /\ Concludes("stale")
       \/ Unchanged(Src(c), c) /\ Visible(Dst(c)) # None /\ Concludes("conflict")
       \/ Unchanged(Src(c), c) /\ Visible(Dst(c)) = None /\ GoOn("rename")
    /\ UNCHANGED <<fs, touched, stored, outside>>

\* _rename_no_replace, or os.link where the file system refuses its flag.
Rename(c) ==
    /\ OnPc(c, "rename")
    /\ \/ /\ Visible(Src(c)) = None /\ Concludes("failed")
          /\ UNCHANGED <<fs, touched>>
       \/ /\ Visible(Src(c)) # None /\ Visible(Dst(c)) # None /\ Concludes("conflict")
          /\ UNCHANGED <<fs, touched>>
       \/ /\ renameat2 /\ CanRename(Src(c), Dst(c))
          /\ Renamed(Src(c), Dst(c)) /\ GoOn("verify")
       \/ /\ ~renameat2 /\ CanRename(Src(c), Dst(c))
          /\ IF Visible(Qtn(c)) # None
             THEN RollbackFailed /\ UNCHANGED <<fs, touched>>
             ELSE /\ fs' = [fs EXCEPT ![Dst(c)] = fs[Src(c)]]
                  /\ touched' = touched \cup {fs[Src(c)]}
                  /\ GoOn("linked")
    /\ UNCHANGED <<stored, outside>>

\* What was renamed is compared with what was planned.
Verify(c) ==
    /\ OnPc(c, "verify")
    /\ IF Linked(Dst(c), c) THEN Concludes("moved") ELSE GoOn("rollback")
    /\ UNCHANGED <<fs, touched, stored, outside>>

Rollback(c) ==
    /\ OnPc(c, "rollback")
    /\ IF CanRename(Dst(c), Src(c))
       THEN Renamed(Dst(c), Src(c)) /\ Concludes("stale")
       ELSE RollbackFailed /\ UNCHANGED <<fs, touched>>
    /\ UNCHANGED <<stored, outside>>

\* After the link: a foreign file was linked, the source is gone or another,
\* or both names are the planned file and the source is to go.
AfterLink(c) ==
    /\ OnPc(c, "linked")
    /\ IF ~Linked(Dst(c), c) THEN GoOn("misplaced")
       ELSE IF ~Linked(Src(c), c) THEN Concludes("moved")
       ELSE GoOn("isolate")
    /\ UNCHANGED <<fs, touched, stored, outside>>

\* _move_to_quarantine of the source, from the apply or from the recovery.
Isolate(c) ==
    /\ OnPc(c, "isolate") \/ OnPc(c, "setaside")
    /\ IF CanRename(Src(c), Qtn(c))
       THEN Renamed(Src(c), Qtn(c)) /\ GoOn("unlink")
       ELSE /\ IF work.pc = "isolate" THEN RollbackFailed ELSE Leaves
            /\ UNCHANGED <<fs, touched>>
    /\ UNCHANGED <<stored, outside>>

\* _restore_quarantine_no_replace to p: an error if p holds another file; the
\* quarantine is unlinked if both are one file; else it is renamed back, or
\* linked back and unlinked in the step that follows.
CanRestore(c, p) == Visible(Qtn(c)) # None /\ Visible(p) \in {None, fs[Qtn(c)]}
RestoredAtOnce(p) == renameat2 \/ fs[p] # None
Restore(c, p, out) ==
    /\ fs' = [fs EXCEPT ![p] = fs[Qtn(c)],
                       ![Qtn(c)] = IF RestoredAtOnce(p) THEN None ELSE fs[Qtn(c)]]
    /\ touched' = touched \cup {fs[Qtn(c)]}
    /\ work' = [work EXCEPT !.pc = IF RestoredAtOnce(p) THEN "settle" ELSE "restored", !.out = out]

\* Mutant: the quarantine is dropped without a look at the destination.
UnlinkBlind(c) ==
    /\ OnPc(c, "unlink")
    /\ fs' = [fs EXCEPT ![Qtn(c)] = None]
    /\ touched' = touched \cup {fs[Qtn(c)]}
    /\ Concludes("moved")
    /\ UNCHANGED <<stored, outside>>

\* _finish_quarantined_reconcile
Unlink(c) ==
    /\ OnPc(c, "unlink")
    /\ \/ /\ Linked(Qtn(c), c) /\ Linked(Dst(c), c)
          /\ fs' = [fs EXCEPT ![Qtn(c)] = None]
          /\ touched' = touched \cup {fs[Qtn(c)]}
          /\ Concludes("moved")
       \/ /\ Linked(Qtn(c), c) # Linked(Dst(c), c)
          /\ CanRestore(c, Src(c))
          /\ Restore(c, Src(c), IF Linked(Dst(c), c) THEN "moved" ELSE "stale")
       \/ /\ IF Linked(Qtn(c), c) = Linked(Dst(c), c) THEN ~Linked(Dst(c), c) ELSE ~CanRestore(c, Src(c))
          /\ Leaves
          /\ UNCHANGED <<fs, touched>>
    /\ UNCHANGED <<stored, outside>>

\* _rollback_unexpected_link: what was linked is not the planned file.
Misplaced(c) ==
    /\ OnPc(c, "misplaced")
    /\ IF CanRename(Dst(c), Qtn(c))
       THEN Renamed(Dst(c), Qtn(c)) /\ GoOn("putback")
       ELSE RollbackFailed /\ UNCHANGED <<fs, touched>>
    /\ UNCHANGED <<stored, outside>>

PutBack(c) ==
    /\ OnPc(c, "putback")
    /\ \/ /\ Visible(Qtn(c)) # None /\ Visible(Src(c)) = fs[Qtn(c)]
          /\ fs' = [fs EXCEPT ![Qtn(c)] = None]
          /\ touched' = touched \cup {fs[Qtn(c)]}
          /\ Concludes("stale")
       \/ /\ ~(Visible(Qtn(c)) # None /\ Visible(Src(c)) = fs[Qtn(c)])
          /\ IF CanRestore(c, Dst(c)) THEN Restore(c, Dst(c), "conflict")
             ELSE RollbackFailed /\ UNCHANGED <<fs, touched>>
    /\ UNCHANGED <<stored, outside>>

\* The second half of a restore by link.
Restored(c) ==
    LET p == IF work.out = "conflict" THEN Dst(c) ELSE Src(c) IN
    /\ OnPc(c, "restored")
    /\ IF Visible(Qtn(c)) # None /\ Visible(p) = fs[Qtn(c)]
       THEN fs' = [fs EXCEPT ![Qtn(c)] = None] /\ GoOn("settle")
       ELSE /\ IF work.out = "conflict" THEN RollbackFailed ELSE Leaves
            /\ UNCHANGED fs
    /\ UNCHANGED <<touched, stored, outside>>

-----------------------------------------------------------------------------
(* _reconcile_filesystem: what the recovery makes of the files it finds. *)

\* Mutant: the quarantine is not looked for.
LookPast(c) ==
    /\ OnPc(c, "look")
    /\ Concludes(IF Linked(Dst(c), c) THEN "moved" ELSE "stale")
    /\ UNCHANGED <<fs, touched, stored, outside>>

Look(c) ==
    LET prepared == work.state = "prepared"
        there == Visible(Dst(c)) # None
    IN
    /\ OnPc(c, "look")
    /\ IF Visible(Qtn(c)) # None THEN GoOn("unlink")
       ELSE IF Linked(Src(c), c) /\ Linked(Dst(c), c) THEN GoOn("setaside")
       ELSE IF Linked(Dst(c), c) THEN Concludes("moved")
       ELSE IF Unchanged(Src(c), c) /\ ~there /\ prepared THEN GoOn("check")
       ELSE IF prepared /\ there THEN (IF Visible(Src(c)) # None THEN Leaves ELSE GoOn("undo"))
       ELSE IF Visible(Src(c)) # None /\ ~Linked(Src(c), c) THEN Concludes("stale")
       ELSE IF there THEN Concludes("conflict")
       ELSE Concludes(IF prepared THEN "stale" ELSE "failed")
    /\ UNCHANGED <<fs, touched, stored, outside>>

\* A rename whose comparison was lost is undone.
Undo(c) ==
    /\ OnPc(c, "undo")
    /\ IF CanRename(Dst(c), Src(c)) /\ renameat2
       THEN Renamed(Dst(c), Src(c)) /\ Concludes("stale")
       ELSE Leaves /\ UNCHANGED <<fs, touched>>
    /\ UNCHANGED <<stored, outside>>

-----------------------------------------------------------------------------
(* _persist_move_completion, a write at a time. *)

\* Nothing is stored of a move that failed while the share was away.
Settle(c) ==
    /\ OnPc(c, "settle")
    /\ IF work.out # "moved" /\ ~mounted THEN Leaves
       ELSE GoOn(IF work.out # "moved" THEN "resultrow"
                 ELSE CASE work.state = "prepared" -> "linkrow"
                        [] work.state = "linked" -> "removedrow"
                        [] OTHER -> "resultrow")
    /\ UNCHANGED <<fs, touched, stored, outside>>

\* validate_journal_transition
JournalEdges == [none |-> {"prepared"},
                 prepared |-> {"prepared", "linked", "reconciled"},
                 linked |-> {"linked", "source_removed", "reconciled"},
                 source_removed |-> {"source_removed", "reconciled"},
                 reconciled |-> {"reconciled"}]

\* A write the journal refuses would leave the move as an interruption does.
JournalRow(c, pc, state, next) ==
    /\ OnPc(c, pc)
    /\ state \in JournalEdges[journal[c]]
    /\ journal' = [journal EXCEPT ![c] = state]
    /\ IF next = "idle" THEN work' = Idle ELSE GoOn(next)
    /\ UNCHANGED <<fs, touched, result, outside>>

ResultRow(c) ==
    /\ OnPc(c, "resultrow")
    /\ result' = [result EXCEPT ![c] = work.out]
    /\ GoOn("endrow")
    /\ UNCHANGED <<fs, touched, journal, outside>>

Persist(c) ==
    \/ Settle(c)
    \/ JournalRow(c, "linkrow", "linked", "removedrow")
    \/ JournalRow(c, "removedrow", "source_removed", "resultrow")
    \/ ResultRow(c)
    \/ JournalRow(c, "endrow", "reconciled", "idle")

-----------------------------------------------------------------------------
(* Interruptions and other programs. *)

\* The process dies, or a write to the database fails, at any step.
CutOff ==
    /\ work # Idle /\ faults < MaxFaults
    /\ work' = Idle /\ faults' = faults + 1
    /\ UNCHANGED <<files, mounted, stored>>

Named == {fs[p] : p \in LocalPaths} \cup library
Erased(f, p) == IF f \in {fs[q] : q \in LocalPaths \ {p}} \cup {None} THEN {} ELSE {f}

\* Another program puts a file at a path, over the one there if it is a source.
PutForeign ==
    /\ faults < MaxFaults /\ faults' = faults + 1
    /\ \E p \in Sources \cup Destinations, f \in Foreign \ (Named \cup erased) :
          /\ p \in Destinations => fs[p] = None
          /\ fs' = [fs EXCEPT ![p] = f]
          /\ erased' = erased \cup Erased(fs[p], p)
    /\ UNCHANGED <<renameat2, library, written, touched, mounted, stored, work>>

WriteFile ==
    /\ faults < MaxFaults /\ faults' = faults + 1
    /\ \E f \in (Writable \cap {fs[p] : p \in LocalPaths}) \ written :
          /\ written' = written \cup {f} /\ touched' = touched \cup {f}
    /\ UNCHANGED <<renameat2, fs, library, erased, mounted, stored, work>>

Unmount ==
    /\ mounted /\ faults < MaxFaults
    /\ mounted' = FALSE /\ faults' = faults + 1
    /\ UNCHANGED <<files, stored, work>>

\* Unless Flapping, an outage outlasts the move that met it.
Mount ==
    /\ ~mounted /\ (work = Idle \/ Flapping)
    /\ mounted' = TRUE
    /\ UNCHANGED <<files, stored, work, faults>>

\* The archive run takes a file of the staging tree into the library.
Archive(p) ==
    /\ mounted /\ fs[p] # None
    /\ library' = library \cup {fs[p]}
    /\ fs' = [fs EXCEPT ![p] = None]
    /\ touched' = touched \cup {fs[p]}
    /\ UNCHANGED <<renameat2, erased, written, mounted, stored, work, faults>>

-----------------------------------------------------------------------------
Step(c) ==
    \/ Check(c) \/ Rename(c) \/ Verify(c) \/ Rollback(c) \/ AfterLink(c) \/ Isolate(c)
    \/ Unlink(c) \/ Misplaced(c) \/ PutBack(c) \/ Restored(c) \/ Look(c) \/ Undo(c) \/ Persist(c)

Outside ==
    \/ CutOff \/ PutForeign \/ WriteFile \/ Unmount \/ Mount
    \/ \E p \in Destinations : Archive(p)

MoveNext == Outside \/ \E c \in LocalCands : Apply(c) \/ Reconcile(c) \/ Step(c)

\* A running move goes on, the share comes back, and the maintenance loop
\* takes every open journal in turn, so none is passed over for ever.
MoveFairness ==
    /\ \A c \in LocalCands : WF_moveVars(Step(c)) /\ SF_moveVars(Reconcile(c))
    /\ WF_moveVars(Mount)

MoveSpec == MoveInit /\ [][MoveNext]_moveVars /\ MoveFairness

-----------------------------------------------------------------------------
(* Properties. *)

\* No step of a move, its rollback or its recovery removes the last name of a
\* file, whoever put it there and wherever the move was interrupted: a file
\* only goes when another program replaced it.
KeepsFiles == [][Named \subseteq Named' \cup erased' \cup {None}]_moveVars

Delivered(c) == Planned(c) \in library \/ fs[Dst(c)] = Planned(c)

\* A result "moved" is of a file that is in the staging tree or already in the
\* library, however the move got there; it is only found in the brand library
\* again if another plan's move of it was rolled back.
MovedIsDelivered ==
    \A c \in LocalCands : result[c] = "moved" =>
        /\ Delivered(c)
        /\ fs[Src(c)] = Planned(c) => \E d \in LocalCands : Src(d) = Src(c) /\ result[d] # "moved"

\* The planned file never waits under its hidden name without an open journal
\* that makes the recovery come back for it.
QuarantineIsJournalled ==
    \A c \in LocalCands : fs[Qtn(c)] = Planned(c) /\ Planned(c) \notin written
        => journal[c] \notin {"none", "reconciled"}

\* The planned file, unchanged, is not left delivered by a move whose result
\* says it was not moved, unless another plan's candidate moved it.
KeptIsNotDelivered ==
    \A c \in LocalCands : /\ result[c] \notin {"none", "moved"}
                     /\ fs[Dst(c)] = Planned(c) /\ Planned(c) \notin written
        => \E d \in LocalCands \ {c} : Src(d) = Src(c)

\* Together, with the types: wherever a file ended, its result or its journal says so.
MoveAccounted == MoveTypeOK /\ MovedIsDelivered /\ QuarantineIsJournalled /\ KeptIsNotDelivered

\* What the recovery cannot decide and leaves to the operator: another file
\* where the move was going, or one waiting in the quarantine.
Contested(c) ==
    \/ fs[Dst(c)] # None /\ ~(fs[Dst(c)] = Planned(c) /\ Planned(c) \notin written)
    \/ fs[Qtn(c)] # None

\* Every move an interruption left open is closed, or contested.
JournalSettled ==
    \A c \in LocalCands : journal[c] \notin {"none", "reconciled"} ~> journal[c] = "reconciled" \/ Contested(c)

\* The move keeps the contract of an applied plan.
Contract == INSTANCE MoveContract WITH
    Cands <- LocalCands,
    said <- [c \in LocalCands |-> IF result[c] \in {"none", "moved"} THEN result[c] ELSE "kept"],
    arrived <- {c \in LocalCands : Delivered(c)}
ContractKept == Contract!ContractSpec
=============================================================================
