--------------------------- MODULE LocalMoveProofs ---------------------------
(***************************************************************************)
(* What a move on a mounted file system keeps, for any candidates and      *)
(* paths, wherever the process dies, the share goes away or another        *)
(* program writes: the types, the last name of every file, what the        *)
(* results and the journal say of the places of the files, and with it     *)
(* the contract of an applied plan.                                        *)
(***************************************************************************)
EXTENDS LocalMove, TLAPS

USE DEF Src, Dst, Qtn, Planned, Idle, Cands, LocalPaths

Held == [on : LocalCands, mode : {"apply", "reconcile"}, pc : Pcs, state : JournalStates,
         out : Outcomes \cup {"none"}]

(* The paths of a candidate are three, and a file is planned.               *)
LEMMA PathsOfACandidate ==
    ASSUME NEW c \in LocalCands
    PROVE  /\ Src(c) \in LocalPaths /\ Dst(c) \in LocalPaths /\ Qtn(c) \in LocalPaths
           /\ Src(c) # Dst(c) /\ Src(c) # Qtn(c) /\ Dst(c) # Qtn(c)
           /\ Planned(c) \in Files /\ Planned(c) # None
BY CandidateAssumption, LocalAssumption DEF Files

(* While a move holds the lock its record is complete.                      *)
LEMMA HeldIsRecord ==
    ASSUME MoveTypeOK, NEW c \in LocalCands, work.on = c
    PROVE  work \in Held
BY CandidateAssumption DEF MoveTypeOK, Works, Held

(* A move goes on, concludes or leaves: its record stays one.               *)
LEMMA HeldGoesOn ==
    ASSUME MoveTypeOK, NEW c \in LocalCands, work.on = c,
           NEW pc \in Pcs, NEW out \in Outcomes \cup {"none"},
           \/ work' = [work EXCEPT !.pc = pc]
           \/ work' = [work EXCEPT !.pc = pc, !.out = out]
           \/ work' = Idle
    PROVE  work' \in Works
<1>1. work \in Held
  BY HeldIsRecord
<1>2. CASE work' = [work EXCEPT !.pc = pc]
  BY <1>1, <1>2 DEF Held, Works
<1>3. CASE work' = [work EXCEPT !.pc = pc, !.out = out]
  <2>1. work' = [on |-> work.on, mode |-> work.mode, pc |-> pc, state |-> work.state, out |-> out]
    BY <1>1, <1>3 DEF Held
  <2>2. QED
    BY <1>1, <2>1 DEF Held, Works
<1>4. CASE work' = Idle
  BY <1>4 DEF Works
<1>5. QED
  BY <1>2, <1>3, <1>4

-----------------------------------------------------------------------------
(* The three ways a step of a move changes the names of files.              *)

(* Every file that had a name still has one, here or in the library.        *)
NamesKept ==
    /\ \A p \in LocalPaths : fs[p] = None \/ fs[p] \in library' \/ \E q \in LocalPaths : fs'[q] = fs[p]
    /\ library \subseteq library'

(* A rename to a free name, or onto another name of the same file.          *)
LEMMA RenameKeeps ==
    ASSUME MoveTypeOK, NEW p \in LocalPaths, NEW q \in LocalPaths, p # q, fs[q] \in {None, fs[p]},
           fs' = [fs EXCEPT ![p] = None, ![q] = fs[p]], library' = library
    PROVE  NamesKept /\ fs' \in [LocalPaths -> Files \cup {None}]
<1> USE DEF MoveTypeOK
<1>1. \A r \in LocalPaths : fs'[r] = IF r = q THEN fs[p] ELSE IF r = p THEN None ELSE fs[r]
  OBVIOUS
<1>2. QED
  BY <1>1 DEF NamesKept

(* A second name for a file.                                                *)
LEMMA LinkKeeps ==
    ASSUME MoveTypeOK, NEW p \in LocalPaths, NEW q \in LocalPaths, fs[q] \in {None, fs[p]},
           fs' = [fs EXCEPT ![q] = fs[p]], library' = library
    PROVE  NamesKept /\ fs' \in [LocalPaths -> Files \cup {None}]
<1> USE DEF MoveTypeOK
<1>1. \A r \in LocalPaths : fs'[r] = IF r = q THEN fs[p] ELSE fs[r]
  OBVIOUS
<1>2. QED
  BY <1>1 DEF NamesKept

(* A name is dropped of a file that has another one.                        *)
LEMMA DropKeeps ==
    ASSUME MoveTypeOK, NEW p \in LocalPaths, NEW q \in LocalPaths, p # q, fs[q] = fs[p],
           fs' = [fs EXCEPT ![p] = None], library' = library
    PROVE  NamesKept /\ fs' \in [LocalPaths -> Files \cup {None}]
<1> USE DEF MoveTypeOK
<1>1. \A r \in LocalPaths : fs'[r] = IF r = p THEN None ELSE fs[r]
  OBVIOUS
<1>2. QED
  BY <1>1 DEF NamesKept

(* Nothing changes.                                                         *)
LEMMA SameKeeps ==
    ASSUME MoveTypeOK, UNCHANGED <<fs, library>>
    PROVE  NamesKept /\ fs' \in [LocalPaths -> Files \cup {None}]
BY DEF NamesKept, MoveTypeOK

(* A restore puts the quarantined file back where nothing or itself is.     *)
LEMMA RestoreKeeps ==
    ASSUME MoveTypeOK, NEW c \in LocalCands, NEW p \in {Src(c), Dst(c)}, NEW out,
           CanRestore(c, p), Restore(c, p, out), library' = library
    PROVE  NamesKept /\ fs' \in [LocalPaths -> Files \cup {None}] /\ touched' \subseteq Files
<1>1. p \in LocalPaths /\ Qtn(c) \in LocalPaths /\ p # Qtn(c)
  BY PathsOfACandidate
<1>2. mounted /\ fs[Qtn(c)] # None /\ fs[p] \in {None, fs[Qtn(c)]}
  BY DEF CanRestore, Visible
<1>3. fs[Qtn(c)] \in Files /\ touched' = touched \cup {fs[Qtn(c)]}
  BY <1>1, <1>2 DEF Restore, MoveTypeOK
<1>4. \A r \in LocalPaths : fs'[r] = IF r = Qtn(c) THEN (IF RestoredAtOnce(p) THEN None ELSE fs[Qtn(c)])
                                     ELSE IF r = p THEN fs[Qtn(c)] ELSE fs[r]
  BY <1>1 DEF Restore, MoveTypeOK
<1>5. fs' \in [LocalPaths -> Files \cup {None}]
  BY <1>1, <1>3 DEF Restore, MoveTypeOK
<1>6. NamesKept
  BY <1>1, <1>2, <1>4 DEF NamesKept, MoveTypeOK
<1>7. QED
  BY <1>3, <1>5, <1>6 DEF MoveTypeOK

-----------------------------------------------------------------------------
(* The steps of a move: each keeps the types and the names of files.        *)

Safe == MoveTypeOK' /\ NamesKept

(* What a step of the move itself owes, having left alone what it must.     *)
LEMMA StepIsSafe ==
    ASSUME MoveTypeOK, UNCHANGED <<stored, outside>>, NamesKept,
           fs' \in [LocalPaths -> Files \cup {None}], touched' \subseteq Files, work' \in Works
    PROVE  Safe
BY DEF MoveTypeOK, stored, outside, Safe

(* Check, Verify, AfterLink, Look and Settle only look and go on.           *)
LEMMA LooksAreSafe ==
    ASSUME MoveTypeOK, NEW c \in LocalCands, Check(c) \/ Verify(c) \/ AfterLink(c) \/ Look(c) \/ Settle(c)
    PROVE  Safe
<1>1. UNCHANGED <<fs, touched, stored, outside>> /\ work.on = c
  BY DEF Check, Verify, AfterLink, Look, Settle, OnPc
<1>2. \/ work' = Idle
      \/ \E pc \in Pcs : work' = [work EXCEPT !.pc = pc]
      \/ \E out \in Outcomes : work' = [work EXCEPT !.pc = "settle", !.out = out]
  BY Zenon DEF Check, Verify, AfterLink, Look, Settle, GoOn, Concludes, Leaves, Pcs, Outcomes
<1>3. work' \in Works
  BY <1>1, <1>2, HeldGoesOn DEF Pcs
<1>4. NamesKept /\ fs' \in [LocalPaths -> Files \cup {None}]
  BY <1>1, SameKeeps DEF outside
<1>5. touched' \subseteq Files
  BY <1>1 DEF MoveTypeOK
<1>6. QED
  BY <1>1, <1>3, <1>4, <1>5, StepIsSafe

(* A rename of a file that is seen, to a path where nothing is.             *)
LEMMA RenamedIsSafe ==
    ASSUME MoveTypeOK, UNCHANGED <<stored, outside>>, work' \in Works,
           NEW p \in LocalPaths, NEW q \in LocalPaths, p # q, CanRename(p, q), Renamed(p, q)
    PROVE  Safe
<1>1. mounted /\ fs[p] # None /\ fs[q] = None /\ library' = library
  BY DEF CanRename, Visible, outside
<1>2. fs' = [fs EXCEPT ![p] = None, ![q] = fs[p]] /\ touched' = touched \cup {fs[p]}
  BY DEF Renamed
<1>3. NamesKept /\ fs' \in [LocalPaths -> Files \cup {None}]
  BY <1>1, <1>2, RenameKeeps
<1>4. fs[p] \in Files /\ touched' \subseteq Files
  BY <1>1, <1>2 DEF MoveTypeOK
<1>5. QED
  BY <1>3, <1>4, StepIsSafe

(* A step that moves nothing.                                               *)
LEMMA NothingMovedIsSafe ==
    ASSUME MoveTypeOK, UNCHANGED <<fs, touched, stored, outside>>, work' \in Works
    PROVE  Safe
<1>1. NamesKept /\ fs' \in [LocalPaths -> Files \cup {None}]
  BY SameKeeps DEF outside
<1>2. QED
  BY <1>1, StepIsSafe DEF MoveTypeOK

(* _rename_no_replace, or os.link: the destination was free.                *)
LEMMA RenameIsSafe ==
    ASSUME MoveTypeOK, NEW c \in LocalCands, Rename(c)
    PROVE  Safe
<1>1. UNCHANGED <<stored, outside>> /\ work.on = c
  BY DEF Rename, OnPc
<1>2. work' \in Works
  <2>1. \/ work' = Idle
        \/ \E pc \in {"verify", "linked"} : work' = [work EXCEPT !.pc = pc]
        \/ \E out \in Outcomes : work' = [work EXCEPT !.pc = "settle", !.out = out]
    BY Zenon DEF Rename, GoOn, Concludes, Leaves, RollbackFailed, Outcomes
  <2>2. QED
    BY <1>1, <2>1, HeldGoesOn DEF Pcs
<1>3. CASE UNCHANGED <<fs, touched>>
  BY <1>1, <1>2, <1>3, NothingMovedIsSafe
<1>4. CASE CanRename(Src(c), Dst(c)) /\ Renamed(Src(c), Dst(c))
  BY <1>1, <1>2, <1>4, PathsOfACandidate, RenamedIsSafe
<1>5. CASE /\ CanRename(Src(c), Dst(c))
           /\ fs' = [fs EXCEPT ![Dst(c)] = fs[Src(c)]]
           /\ touched' = touched \cup {fs[Src(c)]}
  <2>1. fs[Src(c)] \in Files /\ fs[Dst(c)] = None /\ library' = library
    BY <1>1, <1>5, PathsOfACandidate DEF CanRename, Visible, MoveTypeOK, outside
  <2>2. NamesKept /\ fs' \in [LocalPaths -> Files \cup {None}]
    BY <1>5, <2>1, PathsOfACandidate, LinkKeeps
  <2>3. touched' \subseteq Files
    BY <1>5, <2>1 DEF MoveTypeOK
  <2>4. QED
    BY <1>1, <1>2, <2>2, <2>3, StepIsSafe
<1>6. QED
  BY <1>3, <1>4, <1>5, Zenon DEF Rename

(* Rollback, Undo, Isolate and Misplaced rename back, or aside.             *)
LEMMA RenamesAreSafe ==
    ASSUME MoveTypeOK, NEW c \in LocalCands, Rollback(c) \/ Undo(c) \/ Isolate(c) \/ Misplaced(c)
    PROVE  Safe
<1>1. UNCHANGED <<stored, outside>> /\ work.on = c
  BY DEF Rollback, Undo, Isolate, Misplaced, OnPc
<1>2. work' \in Works
  <2>1. \/ work' = Idle
        \/ \E pc \in {"unlink", "putback"} : work' = [work EXCEPT !.pc = pc]
        \/ \E out \in Outcomes : work' = [work EXCEPT !.pc = "settle", !.out = out]
    BY Zenon DEF Rollback, Undo, Isolate, Misplaced, GoOn, Concludes, Leaves, RollbackFailed, Outcomes
  <2>2. QED
    BY <1>1, <2>1, HeldGoesOn DEF Pcs
<1>3. \/ UNCHANGED <<fs, touched>>
      \/ \E p \in {Src(c), Dst(c), Qtn(c)}, q \in {Src(c), Dst(c), Qtn(c)} :
            p # q /\ CanRename(p, q) /\ Renamed(p, q)
  BY PathsOfACandidate DEF Rollback, Undo, Isolate, Misplaced
<1>4. CASE UNCHANGED <<fs, touched>>
  BY <1>1, <1>2, <1>4, NothingMovedIsSafe
<1>5. ASSUME NEW p \in {Src(c), Dst(c), Qtn(c)}, NEW q \in {Src(c), Dst(c), Qtn(c)},
             p # q, CanRename(p, q), Renamed(p, q)
      PROVE  Safe
  BY <1>1, <1>2, <1>5, PathsOfACandidate, RenamedIsSafe
<1>6. QED
  BY <1>3, <1>4, <1>5

(* A quarantined file is dropped once it is at another path too.            *)
LEMMA DroppedIsSafe ==
    ASSUME MoveTypeOK, UNCHANGED <<stored, outside>>, work' \in Works,
           NEW c \in LocalCands, NEW p \in {Src(c), Dst(c)}, fs[Qtn(c)] # None, fs[p] = fs[Qtn(c)],
           fs' = [fs EXCEPT ![Qtn(c)] = None],
           touched' \in {touched, touched \cup {fs[Qtn(c)]}}
    PROVE  Safe
<1>1. NamesKept /\ fs' \in [LocalPaths -> Files \cup {None}]
  BY PathsOfACandidate, DropKeeps DEF outside
<1>2. touched' \subseteq Files
  BY PathsOfACandidate DEF MoveTypeOK
<1>3. QED
  BY <1>1, <1>2, StepIsSafe

(* _finish_quarantined_reconcile: the quarantined file is the one delivered, *)
(* or it goes back.                                                         *)
LEMMA UnlinkIsSafe ==
    ASSUME MoveTypeOK, NEW c \in LocalCands, Unlink(c)
    PROVE  Safe
<1>1. UNCHANGED <<stored, outside>> /\ work.on = c
  BY DEF Unlink, OnPc
<1>2. work' \in Works
  <2>1. \/ work' = Idle
        \/ \E pc \in {"settle", "restored"}, out \in Outcomes : work' = [work EXCEPT !.pc = pc, !.out = out]
    BY Zenon DEF Unlink, Restore, Concludes, Leaves, Outcomes
  <2>2. QED
    BY <1>1, <2>1, HeldGoesOn DEF Pcs
<1>3. CASE UNCHANGED <<fs, touched>>
  BY <1>1, <1>2, <1>3, NothingMovedIsSafe
<1>4. CASE /\ Linked(Qtn(c), c) /\ Linked(Dst(c), c)
           /\ fs' = [fs EXCEPT ![Qtn(c)] = None]
           /\ touched' = touched \cup {fs[Qtn(c)]}
  <2>1. fs[Qtn(c)] # None /\ fs[Dst(c)] = fs[Qtn(c)]
    BY <1>4, PathsOfACandidate DEF Linked, Visible
  <2>2. QED
    BY <1>1, <1>2, <1>4, <2>1, DroppedIsSafe
<1>5. ASSUME NEW out, CanRestore(c, Src(c)), Restore(c, Src(c), out)
      PROVE  Safe
  BY <1>1, <1>2, <1>5, RestoreKeeps, StepIsSafe DEF outside
<1>6. QED
  BY <1>3, <1>4, <1>5, Zenon DEF Unlink

(* _rollback_unexpected_link: what was set aside goes where it came from.   *)
LEMMA PutBackIsSafe ==
    ASSUME MoveTypeOK, NEW c \in LocalCands, PutBack(c)
    PROVE  Safe
<1>1. UNCHANGED <<stored, outside>> /\ work.on = c
  BY DEF PutBack, OnPc
<1>2. work' \in Works
  <2>1. \/ work' = Idle
        \/ \E pc \in {"settle", "restored"}, out \in Outcomes : work' = [work EXCEPT !.pc = pc, !.out = out]
    BY Zenon DEF PutBack, Restore, Concludes, Leaves, RollbackFailed, Outcomes
  <2>2. QED
    BY <1>1, <2>1, HeldGoesOn DEF Pcs
<1>3. CASE UNCHANGED <<fs, touched>>
  BY <1>1, <1>2, <1>3, NothingMovedIsSafe
<1>4. CASE /\ Visible(Qtn(c)) # None /\ Visible(Src(c)) = fs[Qtn(c)]
           /\ fs' = [fs EXCEPT ![Qtn(c)] = None]
           /\ touched' = touched \cup {fs[Qtn(c)]}
  <2>1. fs[Qtn(c)] # None /\ fs[Src(c)] = fs[Qtn(c)]
    BY <1>4 DEF Visible
  <2>2. QED
    BY <1>1, <1>2, <1>4, <2>1, DroppedIsSafe
<1>5. CASE CanRestore(c, Dst(c)) /\ Restore(c, Dst(c), "conflict")
  BY <1>1, <1>2, <1>5, RestoreKeeps, StepIsSafe DEF outside
<1>6. QED
  BY <1>3, <1>4, <1>5, Zenon DEF PutBack

(* The second half of a restore by link.                                    *)
LEMMA RestoredIsSafe ==
    ASSUME MoveTypeOK, NEW c \in LocalCands, Restored(c)
    PROVE  Safe
<1>1. UNCHANGED <<touched, stored, outside>> /\ work.on = c
  BY Zenon DEF Restored, OnPc
<1>2. work' \in Works
  <2>1. \/ work' = Idle
        \/ work' = [work EXCEPT !.pc = "settle"]
        \/ work' = [work EXCEPT !.pc = "settle", !.out = "failed"]
    BY Zenon DEF Restored, GoOn, Concludes, Leaves, RollbackFailed
  <2>2. QED
    BY <1>1, <2>1, HeldGoesOn DEF Pcs, Outcomes
<1>3. CASE UNCHANGED fs
  BY <1>1, <1>2, <1>3, NothingMovedIsSafe
<1>4. ASSUME NEW p \in {Src(c), Dst(c)}, Visible(Qtn(c)) # None, Visible(p) = fs[Qtn(c)],
             fs' = [fs EXCEPT ![Qtn(c)] = None]
      PROVE  Safe
  <2>1. fs[Qtn(c)] # None /\ fs[p] = fs[Qtn(c)]
    BY <1>4 DEF Visible
  <2>2. QED
    BY <1>1, <1>2, <1>4, <2>1, DroppedIsSafe
<1>5. QED
  BY <1>3, <1>4, Zenon DEF Restored

(* A move is taken up, or its rows are written: no file changes its name.   *)
LEMMA RowsAreSafe ==
    ASSUME MoveTypeOK, NEW c \in LocalCands,
           \/ Apply(c) \/ Reconcile(c) \/ ResultRow(c)
           \/ JournalRow(c, "linkrow", "linked", "removedrow")
           \/ JournalRow(c, "removedrow", "source_removed", "resultrow")
           \/ JournalRow(c, "endrow", "reconciled", "idle")
    PROVE  Safe
<1>1. UNCHANGED <<renameat2, fs, library, erased, written, touched, mounted, faults>>
  BY DEF Apply, Reconcile, ResultRow, JournalRow, files, outside
<1>2. NamesKept
  BY <1>1, SameKeeps
<1>3. journal' \in [LocalCands -> JournalStates]
  BY DEF Apply, Reconcile, ResultRow, JournalRow, MoveTypeOK, JournalStates
<1>4. result' \in [LocalCands -> Outcomes \cup {"none"}]
  <2>1. CASE ResultRow(c)
    <3>1. work.out \in Outcomes \cup {"none"}
      BY <2>1, HeldIsRecord DEF ResultRow, OnPc, Held
    <3>2. QED
      BY <2>1, <3>1 DEF ResultRow, MoveTypeOK
  <2>2. CASE result' = result
    BY <2>2 DEF MoveTypeOK
  <2>3. QED
    BY <2>1, <2>2 DEF Apply, Reconcile, JournalRow
<1>5. work' \in Works
  <2>1. CASE Apply(c) \/ Reconcile(c)
    <3>1. journal[c] \in JournalStates
      BY DEF MoveTypeOK
    <3>2. QED
      BY <2>1, <3>1 DEF Apply, Reconcile, Holding, MoveTypeOK, Works, Pcs, JournalStates
  <2>2. CASE ~(Apply(c) \/ Reconcile(c))
    <3>1. /\ work.on = c
          /\ work' = Idle \/ \E pc \in {"removedrow", "resultrow", "endrow"} : work' = [work EXCEPT !.pc = pc]
      BY <2>2, Zenon DEF ResultRow, JournalRow, OnPc, GoOn
    <3>2. QED
      BY <3>1, HeldGoesOn DEF Pcs
  <2>3. QED
    BY <2>1, <2>2
<1>6. QED
  BY <1>1, <1>2, <1>3, <1>4, <1>5 DEF Safe, MoveTypeOK

-----------------------------------------------------------------------------
(* Other programs, interruptions, and all of it together.                   *)

(* Another program's file goes to a path; the one it replaced is noted.     *)
LEMMA PutForeignLeaves ==
    ASSUME MoveTypeOK, PutForeign
    PROVE  MoveTypeOK' /\ Named \subseteq Named' \cup erased' \cup {None}
<1>1. PICK p \in Sources \cup Destinations, f \in Foreign \ (Named \cup erased) :
           /\ fs' = [fs EXCEPT ![p] = f]
           /\ erased' = erased \cup Erased(fs[p], p)
  BY DEF PutForeign
<1>2. UNCHANGED <<renameat2, library, written, touched, mounted, journal, result, work>> /\ faults' \in 0 .. MaxFaults
  BY CandidateAssumption DEF PutForeign, MoveTypeOK, stored
<1>3. p \in LocalPaths /\ f \in Files
  BY DEF Files
<1>4. \A r \in LocalPaths : fs'[r] = IF r = p THEN f ELSE fs[r]
  BY <1>1, <1>3 DEF MoveTypeOK
<1>5. Erased(fs[p], p) \subseteq Files
  BY <1>3 DEF Erased, MoveTypeOK
<1>6. MoveTypeOK'
  BY <1>1, <1>2, <1>3, <1>5 DEF MoveTypeOK
<1>7. ASSUME NEW r \in LocalPaths
      PROVE  fs[r] \in Named' \cup erased' \cup {None}
  <2>1. CASE r # p
    BY <1>4, <2>1 DEF Named
  <2>2. CASE r = p /\ fs[p] \in {fs[q] : q \in LocalPaths \ {p}} \cup {None}
    BY <1>4, <2>2 DEF Named
  <2>3. CASE r = p /\ fs[p] \notin {fs[q] : q \in LocalPaths \ {p}} \cup {None}
    BY <1>1, <2>3 DEF Erased
  <2>4. QED
    BY <2>1, <2>2, <2>3
<1>8. library \subseteq Named'
  BY <1>2 DEF Named
<1>9. QED
  BY <1>6, <1>7, <1>8 DEF Named

(* The archive takes a file, which the library holds from then on.          *)
LEMMA ArchiveIsSafe ==
    ASSUME MoveTypeOK, NEW p \in Destinations, Archive(p)
    PROVE  Safe
<1>1. p \in LocalPaths /\ fs[p] \in Files
  BY DEF Archive, MoveTypeOK
<1>2. \A r \in LocalPaths : fs'[r] = IF r = p THEN None ELSE fs[r]
  BY <1>1 DEF Archive, MoveTypeOK
<1>3. NamesKept
  BY <1>1, <1>2 DEF NamesKept, Archive
<1>4. QED
  BY <1>1, <1>3 DEF Archive, MoveTypeOK, Safe, stored

(* A crash, a write to a file, and the share going and coming back.         *)
LEMMA OthersAreSafe ==
    ASSUME MoveTypeOK, CutOff \/ WriteFile \/ Unmount \/ Mount \/ UNCHANGED moveVars
    PROVE  Safe
<1>1. UNCHANGED <<renameat2, fs, library, erased, journal, result>>
  BY DEF CutOff, WriteFile, Unmount, Mount, moveVars, files, stored
<1>2. NamesKept
  BY <1>1, SameKeeps
<1>3. work' \in Works /\ mounted' \in BOOLEAN
  BY DEF CutOff, WriteFile, Unmount, Mount, moveVars, MoveTypeOK, Works, stored, files
<1>4. faults' \in 0 .. MaxFaults
  BY CandidateAssumption DEF CutOff, WriteFile, Unmount, Mount, moveVars, MoveTypeOK
<1>5. written' \subseteq Files /\ touched' \subseteq Files
  BY LocalAssumption DEF CutOff, WriteFile, Unmount, Mount, moveVars, MoveTypeOK, files, Files
<1>6. QED
  BY <1>1, <1>2, <1>3, <1>4, <1>5 DEF Safe, MoveTypeOK

(* Every step keeps the types, and every file its name unless another       *)
(* program replaced it.                                                     *)
LEMMA EveryStep ==
    ASSUME MoveTypeOK, [MoveNext]_moveVars
    PROVE  MoveTypeOK' /\ Named \subseteq Named' \cup erased' \cup {None}
<1>1. Safe => MoveTypeOK' /\ Named \subseteq Named' \cup erased' \cup {None}
  BY DEF Safe, NamesKept, Named
<1>2. ASSUME NEW c \in LocalCands, Apply(c) \/ Reconcile(c) \/ Step(c)
      PROVE  Safe
  BY <1>2, LooksAreSafe, RenameIsSafe, RenamesAreSafe, UnlinkIsSafe, PutBackIsSafe, RestoredIsSafe, RowsAreSafe
     DEF Step, Persist
<1>3. CASE PutForeign
  BY <1>3, PutForeignLeaves
<1>4. CASE CutOff \/ WriteFile \/ Unmount \/ Mount \/ UNCHANGED moveVars \/ \E p \in Destinations : Archive(p)
  BY <1>1, <1>4, OthersAreSafe, ArchiveIsSafe
<1>5. QED
  BY <1>1, <1>2, <1>3, <1>4 DEF MoveNext, Outside

(* The move under way, the journal and the files always have their types.   *)
THEOREM MoveTypes == MoveSpec => []MoveTypeOK
<1>1. MoveInit => MoveTypeOK
  BY CandidateAssumption, LocalAssumption
     DEF MoveInit, MoveTypeOK, Works, JournalStates, Outcomes, Files
<1>2. MoveTypeOK /\ [MoveNext]_moveVars => MoveTypeOK'
  BY EveryStep
<1>3. QED
  BY <1>1, <1>2, PTL DEF MoveSpec

(* No step of a move, of its rollback or of its recovery removes the last   *)
(* name of a file (_apply_one, _finish_quarantined_reconcile,               *)
(* _rollback_unexpected_link, _reconcile_filesystem), whoever put it there  *)
(* and wherever the move was interrupted.                                   *)
THEOREM MovesKeepFiles == MoveSpec => KeepsFiles
<1>1. MoveTypeOK /\ [MoveNext]_moveVars => [Named \subseteq Named' \cup erased' \cup {None}]_moveVars
  BY EveryStep
<1>2. QED
  BY <1>1, MoveTypes, PTL DEF MoveSpec, KeepsFiles

-----------------------------------------------------------------------------
(* Where the files are, and what the journal and the results say of it.     *)

Shared(c) == \E d \in LocalCands \ {c} : Src(d) = Src(c)

(* Candidates that name one place name one file, which no other program     *)
(* writes to.                                                               *)
Undisputed ==
    \A c, d \in LocalCands : c # d /\ Dst(c) = Dst(d) => Src(c) = Src(d) /\ Src(c) \notin Writable

(* The planned file, as it was planned, at a path of the candidate.         *)
InQuarantine(c) == fs[Qtn(c)] = Planned(c) /\ Planned(c) \notin written
InPlace(c) == fs[Dst(c)] = Planned(c) /\ Planned(c) \notin written

NowhereElse(f) == \A p \in LocalPaths \ {f} : fs[p] # f

(* A file nobody touched since the scan is where the scan found it.         *)
FreshIsAtHome ==
    \A f \in Sources : f \notin touched => f \notin library /\ NowhereElse(f)

(* The candidates of a file have it in one place at most,                   *)
OnePlace ==
    \A c, d \in LocalCands : Src(c) = Src(d) /\ InPlace(c) /\ InPlace(d) => Dst(c) = Dst(d)

(* and in one quarantine, whose candidate then is the one that placed it;   *)
OthersWithout(c) ==
    \A d \in LocalCands \ {c} : Src(d) = Src(c) =>
        ~InQuarantine(d) /\ (InPlace(d) => Dst(d) = Dst(c))

OneQuarantine == \A c \in LocalCands : InQuarantine(c) => OthersWithout(c)

(* never under all of its three names.                                      *)
NotThrice ==
    \A c \in LocalCands : InQuarantine(c) /\ InPlace(c) => fs[Src(c)] # Planned(c)

UnjournalledIsUnmoved ==
    \A c \in LocalCands : journal[c] = "none" => fs[Dst(c)] # Planned(c) \/ Shared(c)

SettledIsNotAside == \A c \in LocalCands : result[c] # "none" => ~InQuarantine(c)

PlacesInv ==
    /\ written \subseteq Writable
    /\ FreshIsAtHome /\ OnePlace /\ OneQuarantine /\ NotThrice
    /\ UnjournalledIsUnmoved /\ SettledIsNotAside
    /\ MovedIsDelivered /\ QuarantineIsJournalled /\ KeptIsNotDelivered

(* What the move that holds the lock has established where it stands.       *)
Arrived(c) == Delivered(c) /\ fs[Src(c)] # Planned(c)

Verdict(c, out) ==
    /\ ~InQuarantine(c)
    /\ out = "moved" => Arrived(c)
    /\ out # "moved" => ~InPlace(c) \/ Shared(c)

Stage(c, pc, out) ==
    /\ pc # "endrow" => result[c] = "none"
    /\ pc = "endrow" => result[c] # "none"
    /\ pc \in {"settle", "resultrow", "restored"} => out # "none"
    /\ pc \in {"check", "rename", "verify", "rollback", "undo", "misplaced", "putback"} => ~InQuarantine(c)
    /\ pc = "check" => fs[Dst(c)] # Planned(c) \/ Shared(c)
    /\ pc = "rename" => NowhereElse(Planned(c))
    /\ pc = "verify" => fs[Src(c)] # Planned(c)
    /\ pc \in {"rollback", "undo", "misplaced"} => (mounted => ~InPlace(c))
    /\ pc \in {"linked", "isolate", "setaside"} => fs[Qtn(c)] = None
    /\ pc \in {"linked", "isolate"} => fs[Src(c)] # None
    /\ pc \in {"isolate", "setaside"} => (Planned(c) \notin written => OthersWithout(c))
    /\ pc = "putback" => ~InPlace(c)
    /\ pc = "restored" =>
          /\ out \in {"moved", "conflict"} => ~InQuarantine(c)
          /\ out = "moved" => Arrived(c)
          /\ out # "moved" => ~InPlace(c)
    /\ pc = "settle" => (out = "moved" \/ mounted => Verdict(c, out))
    /\ pc \in {"linkrow", "removedrow"} => out = "moved"
    /\ pc \in {"linkrow", "removedrow", "resultrow"} => Verdict(c, out)

WorkInv ==
    \A c \in LocalCands : work.on = c =>
        journal[c] \notin {"none", "reconciled"} /\ Stage(c, work.pc, work.out)

MoveInv == MoveTypeOK /\ PlacesInv /\ WorkInv

-----------------------------------------------------------------------------
(* What each kind of step owes the places of the files.                     *)

(* A step of the move of c leaves alone what is not the candidate's, and    *)
(* what it puts somewhere it touches.                                       *)
LeavesOthers(c) ==
    /\ UNCHANGED <<library, written, mounted, journal, result>>
    /\ \A p \in LocalPaths : p \in {Src(c), Dst(c), Qtn(c)} \/ fs'[p] = fs[p]
    /\ touched \subseteq touched'
    /\ \A p \in {Src(c), Dst(c), Qtn(c)} : fs'[p] \in {fs[p], None} \cup touched'

(* The planned file comes to a path only from where the checks before said, *)
(* and never leaves its place.                                              *)
Justified(c) == Planned(c) \notin written =>
    /\ fs'[Dst(c)] = Planned(c) => fs[Dst(c)] = Planned(c) \/ NowhereElse(Planned(c))
    /\ fs'[Qtn(c)] = Planned(c) => fs[Qtn(c)] = Planned(c) \/ OthersWithout(c)
    /\ fs'[Src(c)] = Planned(c) => fs[Src(c)] = Planned(c) \/ fs[Qtn(c)] = Planned(c)
    /\ fs[Dst(c)] = Planned(c) => fs'[Dst(c)] = Planned(c)
    /\ ~(\A p \in {Src(c), Dst(c), Qtn(c)} : fs'[p] = Planned(c))

(* Two candidates have two quarantines, and one place only for one file.    *)
LEMMA PathsApart ==
    ASSUME Undisputed, NEW c \in LocalCands, NEW d \in LocalCands
    PROVE  /\ Qtn(d) \notin {Src(c), Dst(c)} /\ Dst(d) \notin {Src(c), Qtn(c)} /\ Src(d) \notin {Dst(c), Qtn(c)}
           /\ Qtn(d) = Qtn(c) => c = d
           /\ Dst(d) = Dst(c) => Src(d) = Src(c) /\ (d = c \/ Src(c) \notin Writable)
           /\ Src(d) \in Sources
BY CandidateAssumption, LocalAssumption DEF Undisputed

(* Such a step keeps everything said of the places.                         *)
LEMMA StepKeepsPlaces ==
    ASSUME Undisputed, PlacesInv, NEW c \in LocalCands, journal[c] \notin {"none", "reconciled"},
           result[c] = "none", LeavesOthers(c), Justified(c)
    PROVE  PlacesInv'
<1>0. /\ \A d \in LocalCands : d # c => fs'[Qtn(d)] = fs[Qtn(d)]
      /\ \A d \in LocalCands : Dst(d) # Dst(c) => fs'[Dst(d)] = fs[Dst(d)]
      /\ \A d \in LocalCands : Src(d) # Src(c) => fs'[Src(d)] = fs[Src(d)]
      /\ \A d \in LocalCands : Dst(d) = Dst(c) => Src(d) = Src(c)
  BY PathsApart, PathsOfACandidate DEF LeavesOthers
<1>1. UNCHANGED <<library, written, journal, result>>
  BY DEF LeavesOthers
<1>2. FreshIsAtHome'
  <2>1. SUFFICES ASSUME NEW f \in Sources, f \notin touched'
                 PROVE  f \notin library' /\ NowhereElse(f)'
    BY DEF FreshIsAtHome
  <2>2. f \notin library /\ NowhereElse(f) /\ f # None
    BY <2>1, CandidateAssumption DEF FreshIsAtHome, PlacesInv, LeavesOthers
  <2>3. \A p \in LocalPaths : fs'[p] = f => fs[p] = f
    BY <2>1, <2>2 DEF LeavesOthers
  <2>4. QED
    BY <1>1, <2>2, <2>3 DEF NowhereElse
<1>3. OnePlace'
  <2>1. SUFFICES ASSUME NEW d \in LocalCands, NEW e \in LocalCands, Src(d) = Src(e), InPlace(d)', InPlace(e)',
                        Dst(d) # Dst(e)
                 PROVE  FALSE
    BY DEF OnePlace
  <2>2. ~InPlace(d) \/ ~InPlace(e)
    BY <2>1 DEF OnePlace, PlacesInv
  <2>3. ASSUME NEW a \in LocalCands, NEW b \in LocalCands, Src(a) = Src(b), InPlace(a)', InPlace(b)',
               Dst(a) # Dst(b), ~InPlace(a)
        PROVE  FALSE
    <3>1. Dst(a) = Dst(c) /\ Src(a) = Src(c) /\ fs[Dst(c)] # Planned(c) /\ fs'[Dst(c)] = Planned(c)
          /\ Planned(c) \notin written
      BY <1>0, <1>1, <2>3 DEF InPlace
    <3>2. fs[Dst(b)] = Planned(c)
      BY <1>0, <2>3, <3>1 DEF InPlace
    <3>3. NowhereElse(Planned(c)) /\ Dst(b) # Planned(c)
      BY <3>1, PathsApart DEF Justified
    <3>4. QED
      BY <3>2, <3>3, PathsOfACandidate DEF NowhereElse
  <2>4. QED
    BY <2>1, <2>2, <2>3
<1>4. ASSUME NEW d \in LocalCands, Src(d) = Src(c), InPlace(d)', ~InPlace(d)
      PROVE  NowhereElse(Planned(c)) /\ Dst(d) = Dst(c)
  BY <1>0, <1>1, <1>4 DEF Justified, InPlace
<1>5. ASSUME NEW d \in LocalCands, d # c, InQuarantine(d), Src(d) = Src(c)
      PROVE  ~NowhereElse(Planned(c)) /\ ~InQuarantine(c)'
  <2>1. fs[Qtn(d)] = Planned(c) /\ Qtn(d) # Planned(c) /\ Planned(c) \notin written
    BY <1>5, PathsApart DEF InQuarantine
  <2>2. ~NowhereElse(Planned(c))
    BY <2>1, PathsOfACandidate DEF NowhereElse
  <2>3. OthersWithout(d)
    BY <1>5 DEF PlacesInv, OneQuarantine
  <2>4. ~InQuarantine(c) /\ ~OthersWithout(c)
    BY <1>5, <2>3 DEF OthersWithout
  <2>5. QED
    BY <1>1, <2>1, <2>2, <2>4 DEF InQuarantine, Justified
<1>6. OneQuarantine'
  <2>1. SUFFICES ASSUME NEW d \in LocalCands, InQuarantine(d)', NEW e \in LocalCands, e # d, Src(e) = Src(d)
                 PROVE  ~InQuarantine(e)' /\ (InPlace(e)' => Dst(e) = Dst(d))
    BY DEF OneQuarantine, OthersWithout
  <2>2. CASE d = c
    <3>1. OthersWithout(c) /\ Planned(c) \notin written
      BY <1>1, <2>1, <2>2 DEF InQuarantine, Justified, PlacesInv, OneQuarantine
    <3>2. ~InQuarantine(e) /\ (InPlace(e) => Dst(e) = Dst(d))
      BY <2>1, <2>2, <3>1 DEF OthersWithout
    <3>3. QED
      BY <1>0, <1>1, <1>4, <2>1, <2>2, <3>2 DEF InQuarantine
  <2>3. CASE d # c
    <3>1. InQuarantine(d)
      BY <1>0, <1>1, <2>1, <2>3 DEF InQuarantine
    <3>2. ~InQuarantine(e) /\ (InPlace(e) => Dst(e) = Dst(d))
      BY <2>1, <3>1 DEF PlacesInv, OneQuarantine, OthersWithout
    <3>3. ~InQuarantine(e)'
      BY <1>0, <1>1, <1>5, <2>1, <2>3, <3>1, <3>2 DEF InQuarantine
    <3>4. ASSUME InPlace(e)', ~InPlace(e) PROVE FALSE
      <4>1. Src(e) = Src(c)
        BY <1>0, <1>1, <3>4 DEF InPlace
      <4>2. QED
        BY <1>4, <1>5, <2>1, <2>3, <3>1, <3>4, <4>1
    <3>5. QED
      BY <3>2, <3>3, <3>4
  <2>4. QED
    BY <2>2, <2>3
<1>7. NotThrice'
  <2>1. SUFFICES ASSUME NEW d \in LocalCands, InQuarantine(d)', InPlace(d)', fs'[Src(d)] = Planned(d)
                 PROVE  FALSE
    BY DEF NotThrice
  <2>2. CASE d = c
    BY <1>1, <2>1, <2>2 DEF InQuarantine, InPlace, Justified
  <2>3. CASE d # c /\ Src(d) # Src(c)
    BY <1>0, <1>1, <2>1, <2>3 DEF InQuarantine, InPlace, NotThrice, PlacesInv
  <2>4. CASE d # c /\ Src(d) = Src(c)
    <3>1. InQuarantine(d)
      BY <1>0, <1>1, <2>1, <2>4 DEF InQuarantine
    <3>2. InPlace(d)
      BY <1>4, <1>5, <2>1, <2>4, <3>1
    <3>3. fs[Src(c)] # Planned(c)
      BY <2>4, <3>1, <3>2 DEF NotThrice, PlacesInv
    <3>4. InQuarantine(c)
      BY <2>1, <2>4, <3>1, <3>3 DEF Justified, InQuarantine
    <3>5. QED
      BY <2>4, <3>1, <3>4 DEF PlacesInv, OneQuarantine, OthersWithout
  <2>5. QED
    BY <2>2, <2>3, <2>4
<1>8. UnjournalledIsUnmoved'
  <2>1. SUFFICES ASSUME NEW d \in LocalCands, journal[d] = "none", ~Shared(d)
                 PROVE  fs'[Dst(d)] # Planned(d)
    BY <1>1 DEF UnjournalledIsUnmoved, Shared
  <2>2. Dst(d) # Dst(c)
    BY <1>0, <2>1 DEF Shared
  <2>3. QED
    BY <1>0, <2>1, <2>2 DEF UnjournalledIsUnmoved, PlacesInv
<1>9. SettledIsNotAside' /\ QuarantineIsJournalled'
  BY <1>0, <1>1 DEF SettledIsNotAside, QuarantineIsJournalled, InQuarantine, PlacesInv
<1>10. MovedIsDelivered'
  <2>1. SUFFICES ASSUME NEW d \in LocalCands, result[d] = "moved"
                 PROVE  /\ Delivered(d)'
                        /\ fs'[Src(d)] = Planned(d) =>
                              \E e \in LocalCands : Src(e) = Src(d) /\ result[e] # "moved"
    BY <1>1 DEF MovedIsDelivered
  <2>2. Delivered(d)
    BY <2>1 DEF MovedIsDelivered, PlacesInv
  <2>3. Delivered(d)'
    <3>1. CASE Dst(d) # Dst(c)
      BY <1>0, <1>1, <2>2, <3>1 DEF Delivered
    <3>2. CASE Dst(d) = Dst(c)
      <4>1. Src(c) \notin written /\ Src(d) = Src(c)
        BY <2>1, <3>2, PathsApart DEF PlacesInv
      <4>2. QED
        BY <1>1, <2>2, <3>2, <4>1 DEF Delivered, Justified
    <3>3. QED
      BY <3>1, <3>2
  <2>4. CASE Src(d) = Src(c)
    BY <2>3, <2>4
  <2>5. CASE Src(d) # Src(c)
    BY <1>0, <2>1, <2>3, <2>5 DEF MovedIsDelivered, PlacesInv
  <2>6. QED
    BY <2>4, <2>5
<1>11. KeptIsNotDelivered'
  <2>1. SUFFICES ASSUME NEW d \in LocalCands, result[d] \notin {"none", "moved"},
                        fs'[Dst(d)] = Planned(d), Planned(d) \notin written
                 PROVE  \E e \in LocalCands \ {d} : Src(e) = Src(d)
    BY <1>1 DEF KeptIsNotDelivered
  <2>2. CASE Dst(d) = Dst(c)
    BY <1>0, <2>1, <2>2
  <2>3. CASE Dst(d) # Dst(c)
    BY <1>0, <2>1, <2>3 DEF KeptIsNotDelivered, PlacesInv
  <2>4. QED
    BY <2>2, <2>3
<1>12. QED
  BY <1>1, <1>2, <1>3, <1>6, <1>7, <1>8, <1>9, <1>10, <1>11 DEF PlacesInv

(* The steps that look only, and the write of a row, leave the places.      *)
LEMMA SamePlaces ==
    ASSUME UNCHANGED <<fs, library, written, touched>>
    PROVE  /\ \A c \in LocalCands : InQuarantine(c)' = InQuarantine(c) /\ InPlace(c)' = InPlace(c)
           /\ \A c \in LocalCands : Delivered(c)' = Delivered(c) /\ OthersWithout(c)' = OthersWithout(c)
           /\ \A f : NowhereElse(f)' = NowhereElse(f)
<1>1. \A c \in LocalCands : InQuarantine(c)' = InQuarantine(c) /\ InPlace(c)' = InPlace(c)
  BY DEF InQuarantine, InPlace
<1>2. \A c \in LocalCands : OthersWithout(c)' = OthersWithout(c)
  BY <1>1 DEF OthersWithout
<1>3. QED
  BY <1>1, <1>2 DEF Delivered, NowhereElse

LEMMA LooksKeepPlaces ==
    ASSUME PlacesInv, UNCHANGED <<fs, touched, stored, outside>>
    PROVE  PlacesInv'
<1>1. UNCHANGED <<fs, library, written, touched, journal, result>>
  BY DEF stored, outside
<1>2. QED
  BY <1>1 DEF PlacesInv, FreshIsAtHome, NowhereElse, OnePlace, OneQuarantine, OthersWithout, NotThrice,
     UnjournalledIsUnmoved, SettledIsNotAside, MovedIsDelivered, QuarantineIsJournalled, KeptIsNotDelivered,
     InQuarantine, InPlace, Delivered, Shared

(* Where a move stands after a step: it has left, or it is at pc with the   *)
(* verdict out.                                                             *)
LEMMA StandsAt ==
    ASSUME NEW c \in LocalCands, work \in Held, work.on = c,
           NEW pc \in Pcs, NEW out \in Outcomes \cup {"none"},
           \/ work' = Idle
           \/ /\ \/ work' = [work EXCEPT !.pc = pc] /\ out = work.out
                 \/ work' = [work EXCEPT !.pc = pc, !.out = out]
              /\ journal'[c] \notin {"none", "reconciled"}
              /\ Stage(c, pc, out)'
    PROVE  WorkInv'
<1>1. CASE work' = Idle
  BY <1>1, CandidateAssumption DEF WorkInv
<1>2. CASE work' # Idle
  <2>1. work'.on = c /\ work'.pc = pc /\ work'.out = out
    BY <1>2 DEF Held
  <2>2. SUFFICES ASSUME NEW d \in LocalCands, work'.on = d
                 PROVE  journal'[d] \notin {"none", "reconciled"} /\ Stage(d, work.pc, work.out)'
    BY DEF WorkInv
  <2>3. d = c /\ Stage(c, pc, out)'
    BY <1>2, <2>1, <2>2
  <2>4. QED
    BY <1>2, <2>1, <2>3 DEF Stage, Verdict, Arrived
<1>3. QED
  BY <1>1, <1>2

(* What a step of the move of c starts from.                                *)
Holds(c) ==
    /\ MoveTypeOK /\ PlacesInv
    /\ work \in Held /\ work.on = c
    /\ journal[c] \notin {"none", "reconciled"}
    /\ Stage(c, work.pc, work.out)

LEMMA LockHolds ==
    ASSUME MoveInv, NEW c \in LocalCands, work.on = c
    PROVE  Holds(c)
BY HeldIsRecord DEF MoveInv, WorkInv, Holds

(* The candidate's file is at its source and in its place, so that no other *)
(* plan of the file has it anywhere else.                                   *)
LEMMA TwiceIsAlone ==
    ASSUME PlacesInv, NEW c \in LocalCands, InPlace(c), fs[Src(c)] = Planned(c)
    PROVE  OthersWithout(c)
<1>1. SUFFICES ASSUME NEW d \in LocalCands \ {c}, Src(d) = Src(c)
               PROVE  ~InQuarantine(d) /\ (InPlace(d) => Dst(d) = Dst(c))
  BY DEF OthersWithout
<1>2. InPlace(d) => Dst(d) = Dst(c)
  BY <1>1 DEF PlacesInv, OnePlace
<1>3. ASSUME InQuarantine(d) PROVE FALSE
  <2>1. OthersWithout(d)
    BY <1>3 DEF PlacesInv, OneQuarantine
  <2>2. Dst(c) = Dst(d)
    BY <1>1, <2>1 DEF OthersWithout
  <2>3. InPlace(d)
    BY <1>1, <2>2 DEF InPlace
  <2>4. QED
    BY <1>1, <1>3, <2>3 DEF PlacesInv, NotThrice
<1>4. QED
  BY <1>2, <1>3

-----------------------------------------------------------------------------
(* The steps of a move.                                                     *)

Kept == PlacesInv' /\ WorkInv'

(* Check, Verify, AfterLink, Look and Settle.                               *)
LEMMA CheckKeeps ==
    ASSUME NEW c \in LocalCands, Holds(c), Check(c)
    PROVE  Kept
<1>1. UNCHANGED <<fs, touched, stored, outside>> /\ Stage(c, "check", work.out)
  BY DEF Check, Holds, OnPc
<1>2. PICK out \in Outcomes \cup {"none"} : out = work.out
  BY DEF Holds, Held
<1>3. UNCHANGED <<fs, library, written, touched, mounted, journal, result>>
  BY <1>1 DEF stored, outside
<1>4. ASSUME NEW o \in {"stale", "conflict"}, Concludes(o)
      PROVE  WorkInv'
  <2>1. Stage(c, "settle", o)'
    BY <1>1, <1>3, SamePlaces DEF Stage, Verdict, InPlace, Shared
  <2>2. QED
    BY <1>3, <1>4, <2>1, StandsAt DEF Concludes, Holds, Pcs, Outcomes
<1>5. ASSUME Unchanged(Src(c), c), GoOn("rename")
      PROVE  WorkInv'
  <2>1. NowhereElse(Planned(c))
    BY <1>5, CandidateAssumption DEF Unchanged, Holds, PlacesInv, FreshIsAtHome
  <2>2. Stage(c, "rename", out)'
    BY <1>1, <1>3, <2>1, SamePlaces DEF Stage
  <2>3. QED
    BY <1>2, <1>3, <1>5, <2>2, StandsAt DEF GoOn, Holds, Pcs
<1>6. WorkInv'
  BY <1>4, <1>5 DEF Check
<1>7. QED
  BY <1>1, <1>6, LooksKeepPlaces DEF Holds, Kept

LEMMA VerifyKeeps ==
    ASSUME NEW c \in LocalCands, Holds(c), Verify(c)
    PROVE  Kept
<1>1. UNCHANGED <<fs, touched, stored, outside>> /\ Stage(c, "verify", work.out)
  BY DEF Verify, Holds, OnPc
<1>2. PICK out \in Outcomes \cup {"none"} : out = work.out
  BY DEF Holds, Held
<1>3. UNCHANGED <<fs, library, written, touched, mounted, journal, result>>
  BY <1>1 DEF stored, outside
<1>4. CASE Linked(Dst(c), c)
  <2>1. Delivered(c)
    BY <1>4, PathsOfACandidate DEF Linked, Visible, Delivered
  <2>2. Stage(c, "settle", "moved")'
    BY <1>1, <1>3, <2>1, SamePlaces DEF Stage, Verdict, Arrived
  <2>3. QED
    BY <1>1, <1>3, <1>4, <2>2, StandsAt, LooksKeepPlaces DEF Verify, Concludes, Holds, Pcs, Outcomes, Kept
<1>5. CASE ~Linked(Dst(c), c)
  <2>1. mounted => ~InPlace(c)
    BY <1>5 DEF Linked, Visible, InPlace
  <2>2. Stage(c, "rollback", out)'
    BY <1>1, <1>3, <2>1, SamePlaces DEF Stage
  <2>3. QED
    BY <1>1, <1>2, <1>3, <1>5, <2>2, StandsAt, LooksKeepPlaces DEF Verify, GoOn, Holds, Pcs, Kept
<1>6. QED
  BY <1>4, <1>5

LEMMA AfterLinkKeeps ==
    ASSUME NEW c \in LocalCands, Holds(c), AfterLink(c)
    PROVE  Kept
<1>1. UNCHANGED <<fs, touched, stored, outside>> /\ Stage(c, "linked", work.out)
  BY DEF AfterLink, Holds, OnPc
<1>2. PICK out \in Outcomes \cup {"none"} : out = work.out
  BY DEF Holds, Held
<1>3. UNCHANGED <<fs, library, written, touched, mounted, journal, result>>
  BY <1>1 DEF stored, outside
<1>4. ~InQuarantine(c)
  BY <1>1, PathsOfACandidate DEF Stage, InQuarantine
<1>5. CASE ~Linked(Dst(c), c)
  <2>1. mounted => ~InPlace(c)
    BY <1>5 DEF Linked, Visible, InPlace
  <2>2. Stage(c, "misplaced", out)'
    BY <1>1, <1>3, <1>4, <2>1, SamePlaces DEF Stage
  <2>3. QED
    BY <1>1, <1>2, <1>3, <1>5, <2>2, StandsAt, LooksKeepPlaces DEF AfterLink, GoOn, Holds, Pcs, Kept
<1>6. CASE Linked(Dst(c), c)
  <2>1. mounted /\ InPlace(c) /\ Delivered(c) /\ Planned(c) \notin written
    BY <1>6, PathsOfACandidate DEF Linked, Visible, Delivered, InPlace
  <2>2. CASE ~Linked(Src(c), c)
    <3>1. fs[Src(c)] # Planned(c)
      BY <2>1, <2>2 DEF Linked, Visible
    <3>2. Stage(c, "settle", "moved")'
      BY <1>1, <1>3, <1>4, <2>1, <3>1, SamePlaces DEF Stage, Verdict, Arrived
    <3>3. QED
      BY <1>1, <1>3, <1>6, <2>2, <3>2, StandsAt, LooksKeepPlaces
         DEF AfterLink, Concludes, Holds, Pcs, Outcomes, Kept
  <2>3. CASE Linked(Src(c), c)
    <3>1. OthersWithout(c)
      BY <2>1, <2>3, TwiceIsAlone DEF Linked, Visible, Holds
    <3>2. Stage(c, "isolate", out)'
      BY <1>1, <1>3, <3>1, SamePlaces DEF Stage
    <3>3. QED
      BY <1>1, <1>2, <1>3, <1>6, <2>3, <3>2, StandsAt, LooksKeepPlaces DEF AfterLink, GoOn, Holds, Pcs, Kept
  <2>4. QED
    BY <2>2, <2>3
<1>7. QED
  BY <1>5, <1>6

LEMMA LookKeeps ==
    ASSUME NEW c \in LocalCands, Holds(c), Look(c)
    PROVE  Kept
<1>1. UNCHANGED <<fs, touched, stored, outside>> /\ Stage(c, "look", work.out)
  BY DEF Look, Holds, OnPc
<1>2. PICK out \in Outcomes \cup {"none"} : out = work.out
  BY DEF Holds, Held
<1>3. UNCHANGED <<fs, library, written, touched, mounted, journal, result>>
  BY <1>1 DEF stored, outside
<1>4. PlacesInv'
  BY <1>1, LooksKeepPlaces DEF Holds
<1>5. result[c] = "none"
  BY <1>1 DEF Stage
<1>6. CASE Visible(Qtn(c)) # None
  <2>1. GoOn("unlink")
    BY <1>6 DEF Look
  <2>2. Stage(c, "unlink", out)'
    BY <1>3, <1>5 DEF Stage
  <2>3. QED
    BY <1>2, <1>3, <1>4, <2>1, <2>2, StandsAt DEF GoOn, Holds, Pcs, Kept
<1>7. CASE Visible(Qtn(c)) = None
  <2>1. mounted => fs[Qtn(c)] = None /\ ~InQuarantine(c)
    BY <1>7, PathsOfACandidate DEF Visible, InQuarantine
  <2>2. /\ Linked(Dst(c), c) => mounted /\ InPlace(c) /\ Delivered(c) /\ Planned(c) \notin written
        /\ mounted /\ ~Linked(Dst(c), c) => ~InPlace(c)
    BY PathsOfACandidate DEF Linked, Visible, Delivered, InPlace
  <2>3. CASE Linked(Src(c), c) /\ Linked(Dst(c), c)
    <3>1. GoOn("setaside")
      BY <1>7, <2>3 DEF Look
    <3>2. OthersWithout(c)
      BY <2>2, <2>3, TwiceIsAlone DEF Linked, Visible, Holds
    <3>3. Stage(c, "setaside", out)'
      BY <1>3, <1>5, <2>1, <2>2, <2>3, <3>2, SamePlaces DEF Stage
    <3>4. QED
      BY <1>2, <1>3, <1>4, <3>1, <3>3, StandsAt DEF GoOn, Holds, Pcs, Kept
  <2>4. CASE ~Linked(Src(c), c) /\ Linked(Dst(c), c)
    <3>1. Concludes("moved")
      BY <1>7, <2>4 DEF Look
    <3>2. fs[Src(c)] # Planned(c)
      BY <2>2, <2>4 DEF Linked, Visible
    <3>3. Stage(c, "settle", "moved")'
      BY <1>3, <1>5, <2>1, <2>2, <2>4, <3>2, SamePlaces DEF Stage, Verdict, Arrived
    <3>4. QED
      BY <1>3, <1>4, <3>1, <3>3, StandsAt DEF Concludes, Holds, Pcs, Outcomes, Kept
  <2>5. ASSUME ~Linked(Dst(c), c), NEW o \in Outcomes \ {"moved"}, Concludes(o)
        PROVE  Kept
    <3>1. Stage(c, "settle", o)'
      BY <1>3, <1>5, <2>1, <2>2, <2>5, SamePlaces DEF Stage, Verdict, InPlace, Shared, Outcomes
    <3>2. QED
      BY <1>3, <1>4, <2>5, <3>1, StandsAt DEF Concludes, Holds, Pcs, Kept
  <2>6. ASSUME Unchanged(Src(c), c), Visible(Dst(c)) = None, GoOn("check")
        PROVE  Kept
    <3>1. mounted /\ fs[Dst(c)] = None
      BY <2>6, PathsOfACandidate DEF Unchanged, Linked, Visible
    <3>2. Stage(c, "check", out)'
      BY <1>3, <1>5, <2>1, <3>1, PathsOfACandidate, SamePlaces DEF Stage
    <3>3. QED
      BY <1>2, <1>3, <1>4, <2>6, <3>2, StandsAt DEF GoOn, Holds, Pcs, Kept
  <2>7. ASSUME ~Linked(Dst(c), c), Visible(Dst(c)) # None, GoOn("undo")
        PROVE  Kept
    <3>1. mounted
      BY <2>7 DEF Visible
    <3>2. Stage(c, "undo", out)'
      BY <1>3, <1>5, <2>1, <2>2, <2>7, <3>1, SamePlaces DEF Stage
    <3>3. QED
      BY <1>2, <1>3, <1>4, <2>7, <3>2, StandsAt DEF GoOn, Holds, Pcs, Kept
  <2>8. ASSUME Leaves PROVE Kept
    BY <1>4, <2>8, StandsAt DEF Leaves, Holds, Pcs, Outcomes, Kept
  <2>9. CASE ~Linked(Dst(c), c)
    <3>1. \/ Leaves
          \/ Visible(Dst(c)) # None /\ GoOn("undo")
          \/ Unchanged(Src(c), c) /\ Visible(Dst(c)) = None /\ GoOn("check")
          \/ \E o \in Outcomes \ {"moved"} : Concludes(o)
      BY <1>7, <2>9, Zenon DEF Look, Outcomes
    <3>2. QED
      BY <2>5, <2>6, <2>7, <2>8, <2>9, <3>1
  <2>10. QED
    BY <2>3, <2>4, <2>9
<1>8. QED
  BY <1>6, <1>7

LEMMA SettleKeeps ==
    ASSUME NEW c \in LocalCands, Holds(c), Settle(c)
    PROVE  Kept
<1>1. UNCHANGED <<fs, touched, stored, outside>> /\ Stage(c, "settle", work.out)
  BY DEF Settle, Holds, OnPc
<1>2. PICK out \in Outcomes \cup {"none"} : out = work.out
  BY DEF Holds, Held
<1>3. UNCHANGED <<fs, library, written, touched, mounted, journal, result>>
  BY <1>1 DEF stored, outside
<1>4. PlacesInv'
  BY <1>1, LooksKeepPlaces DEF Holds
<1>5. CASE work' = Idle
  BY <1>4, <1>5, StandsAt DEF Holds, Pcs, Outcomes, Kept
<1>6. ASSUME NEW pc \in {"linkrow", "removedrow", "resultrow"}, GoOn(pc),
             out # "moved" => mounted, pc # "resultrow" => out = "moved"
      PROVE  Kept
  <2>1. Verdict(c, out) /\ result[c] = "none" /\ out # "none"
    BY <1>1, <1>2, <1>6 DEF Stage
  <2>2. Verdict(c, out)'
    BY <1>3, <2>1, SamePlaces DEF Verdict, Arrived, Shared
  <2>3. Stage(c, pc, out)'
    BY <1>3, <1>6, <2>1, <2>2 DEF Stage
  <2>4. QED
    BY <1>2, <1>3, <1>4, <1>6, <2>3, StandsAt DEF GoOn, Holds, Pcs, Kept
<1>7. \/ work' = Idle
      \/ \E pc \in {"linkrow", "removedrow", "resultrow"} :
            GoOn(pc) /\ (out # "moved" => mounted) /\ (pc # "resultrow" => out = "moved")
  BY <1>2, Zenon DEF Settle, Leaves
<1>8. QED
  BY <1>5, <1>6, <1>7

-----------------------------------------------------------------------------
(* The steps that rename, link and unlink.                                  *)

(* What a renaming step of c reads of the lock, and writes nothing else.    *)
LEMMA Apart ==
    ASSUME NEW c \in LocalCands, UNCHANGED <<stored, outside>>, Holds(c)
    PROVE  /\ UNCHANGED <<library, written, mounted, journal, result>>
           /\ fs \in [LocalPaths -> Files \cup {None}]
           /\ \A p, q \in {Src(c), Dst(c), Qtn(c)} : Renamed(p, q) /\ p # q => fs'[p] = None /\ fs'[q] = fs[p]
BY PathsOfACandidate DEF stored, outside, Holds, MoveTypeOK, Renamed

(* A rename between two of the candidate's three paths.                     *)
LEMMA RenamedLeavesOthers ==
    ASSUME NEW c \in LocalCands, UNCHANGED <<stored, outside>>, Holds(c),
           NEW p \in {Src(c), Dst(c), Qtn(c)}, NEW q \in {Src(c), Dst(c), Qtn(c)}, p # q, Renamed(p, q)
    PROVE  /\ LeavesOthers(c)
           /\ fs'[p] = None /\ fs'[q] = fs[p]
           /\ \A r \in {Src(c), Dst(c), Qtn(c)} : r \notin {p, q} => fs'[r] = fs[r]
<1>1. fs \in [LocalPaths -> Files \cup {None}]
  BY DEF Holds, MoveTypeOK
<1>2. \A r \in LocalPaths : fs'[r] = IF r = q THEN fs[p] ELSE IF r = p THEN None ELSE fs[r]
  BY <1>1 DEF Renamed
<1>3. touched' = touched \cup {fs[p]}
  BY DEF Renamed
<1>4. QED
  BY <1>2, <1>3, PathsOfACandidate DEF LeavesOthers, stored, outside

LEMMA MovedKeeps ==
    ASSUME Undisputed, NEW c \in LocalCands, Holds(c), result[c] = "none", LeavesOthers(c), Justified(c),
           NEW pc \in Pcs, NEW out \in Outcomes \cup {"none"},
           \/ work' = Idle
           \/ /\ \/ work' = [work EXCEPT !.pc = pc] /\ out = work.out
                 \/ work' = [work EXCEPT !.pc = pc, !.out = out]
              /\ Stage(c, pc, out)'
    PROVE  Kept
<1>1. PlacesInv'
  BY StepKeepsPlaces DEF Holds
<1>2. journal'[c] \notin {"none", "reconciled"}
  BY DEF LeavesOthers, Holds
<1>3. QED
  BY <1>1, <1>2, StandsAt DEF Holds, Kept

(* Nothing is moved and the move gives up, its verdict kept.                *)
LEMMA GivenUpKeeps ==
    ASSUME NEW c \in LocalCands, Holds(c), UNCHANGED <<fs, touched, stored, outside>>,
           Leaves \/ RollbackFailed, result[c] = "none", mounted => ~InQuarantine(c) /\ ~InPlace(c)
    PROVE  Kept
<1>1. PlacesInv'
  BY LooksKeepPlaces DEF Holds
<1>2. UNCHANGED <<fs, library, written, touched, mounted, journal, result>>
  BY DEF stored, outside
<1>3. Stage(c, "settle", "failed")'
  BY <1>2, SamePlaces DEF Stage, Verdict
<1>4. work' = Idle \/ work' = [work EXCEPT !.pc = "settle", !.out = "failed"]
  BY DEF Leaves, RollbackFailed, Concludes
<1>5. QED
  BY <1>1, <1>2, <1>3, <1>4, StandsAt DEF Holds, Pcs, Outcomes, Kept

(* _rename_no_replace, or os.link with the source still there.              *)
LEMMA RenameKeepsAll ==
    ASSUME Undisputed, NEW c \in LocalCands, Holds(c), Rename(c)
    PROVE  Kept
<1>1. UNCHANGED <<stored, outside>> /\ Stage(c, "rename", work.out)
  BY DEF Rename, Holds, OnPc
<1>2. PICK out \in Outcomes \cup {"none"} : out = work.out
  BY DEF Holds, Held
<1>3. /\ result[c] = "none" /\ ~InQuarantine(c) /\ NowhereElse(Planned(c))
      /\ fs[Dst(c)] # Planned(c) /\ ~InPlace(c)
  BY <1>1, PathsOfACandidate DEF Stage, NowhereElse, InPlace
<1>4. UNCHANGED <<library, written, mounted, journal, result>>
  BY <1>1 DEF stored, outside
<1>5. ASSUME UNCHANGED <<fs, touched>>, NEW o \in {"failed", "conflict"}, Concludes(o)
      PROVE  Kept
  <2>1. UNCHANGED <<fs, library, written, touched>>
    BY <1>4, <1>5
  <2>2. Stage(c, "settle", o)'
    BY <1>3, <1>4, <1>5, <2>1, SamePlaces DEF Stage, Verdict
  <2>3. QED
    BY <1>1, <1>4, <1>5, <2>2, StandsAt, LooksKeepPlaces DEF Concludes, Holds, Pcs, Outcomes, Kept
<1>6. CASE CanRename(Src(c), Dst(c)) /\ Renamed(Src(c), Dst(c)) /\ GoOn("verify")
  <2>1. LeavesOthers(c) /\ fs'[Src(c)] = None /\ fs'[Qtn(c)] = fs[Qtn(c)]
    BY <1>1, <1>6, RenamedLeavesOthers, PathsOfACandidate
  <2>2. Justified(c)
    BY <1>3, <2>1, PathsOfACandidate DEF Justified
  <2>3. Stage(c, "verify", out)'
    BY <1>3, <1>4, <2>1, PathsOfACandidate DEF Stage, InQuarantine
  <2>4. QED
    BY <1>2, <1>3, <1>6, <2>1, <2>2, <2>3, MovedKeeps DEF GoOn, Pcs
<1>7. CASE /\ CanRename(Src(c), Dst(c)) /\ Visible(Qtn(c)) = None
           /\ fs' = [fs EXCEPT ![Dst(c)] = fs[Src(c)]]
           /\ touched' = touched \cup {fs[Src(c)]}
           /\ GoOn("linked")
  <2>1. \A r \in LocalPaths : fs'[r] = IF r = Dst(c) THEN fs[Src(c)] ELSE fs[r]
    BY <1>7 DEF Holds, MoveTypeOK
  <2>2. LeavesOthers(c)
    BY <1>4, <1>7, <2>1, PathsOfACandidate DEF LeavesOthers
  <2>3. fs'[Qtn(c)] = None /\ fs'[Src(c)] # None /\ fs'[Qtn(c)] = fs[Qtn(c)] /\ fs'[Src(c)] = fs[Src(c)]
    BY <1>7, <2>1, PathsOfACandidate DEF CanRename, Visible
  <2>4. Justified(c)
    BY <1>3, <2>3, PathsOfACandidate DEF Justified
  <2>5. Stage(c, "linked", out)'
    BY <1>3, <1>4, <2>3 DEF Stage
  <2>6. QED
    BY <1>2, <1>3, <1>7, <2>2, <2>4, <2>5, MovedKeeps DEF GoOn, Pcs
<1>8. CASE UNCHANGED <<fs, touched>> /\ RollbackFailed
  BY <1>1, <1>3, <1>8, GivenUpKeeps
<1>9. QED
  BY <1>5, <1>6, <1>7, <1>8, Zenon DEF Rename

(* Rollback and Undo rename back what is not the planned file.              *)
LEMMA BackKeeps ==
    ASSUME Undisputed, NEW c \in LocalCands, Holds(c), Rollback(c) \/ Undo(c)
    PROVE  Kept
<1>1. UNCHANGED <<stored, outside>> /\ (Stage(c, "rollback", work.out) \/ Stage(c, "undo", work.out))
  BY DEF Rollback, Undo, Holds, OnPc
<1>2. result[c] = "none" /\ ~InQuarantine(c) /\ (mounted => ~InPlace(c))
  BY <1>1 DEF Stage
<1>3. CASE CanRename(Dst(c), Src(c)) /\ Renamed(Dst(c), Src(c)) /\ Concludes("stale")
  <2>1. /\ LeavesOthers(c) /\ fs'[Dst(c)] = None
        /\ fs'[Src(c)] = fs[Dst(c)] /\ fs'[Qtn(c)] = fs[Qtn(c)]
    BY <1>1, <1>3, RenamedLeavesOthers, PathsOfACandidate
  <2>2. ~InPlace(c)
    BY <1>2, <1>3 DEF CanRename, Visible
  <2>3. Justified(c)
    BY <1>2, <2>1, <2>2, PathsOfACandidate DEF Justified, InQuarantine, InPlace
  <2>4. Stage(c, "settle", "stale")'
    BY <1>1, <1>2, <2>1, PathsOfACandidate DEF Stage, Verdict, InQuarantine, InPlace, stored, outside
  <2>5. QED
    BY <1>2, <1>3, <2>1, <2>3, <2>4, MovedKeeps DEF Concludes, Pcs, Outcomes
<1>4. CASE UNCHANGED <<fs, touched>> /\ (Leaves \/ RollbackFailed)
  BY <1>1, <1>2, <1>4, GivenUpKeeps
<1>5. QED
  BY <1>3, <1>4, Zenon DEF Rollback, Undo

(* _move_to_quarantine of the source, which is in its place as well.        *)
LEMMA IsolateKeeps ==
    ASSUME Undisputed, NEW c \in LocalCands, Holds(c), Isolate(c)
    PROVE  Kept
<1>1. UNCHANGED <<stored, outside>> /\ (Stage(c, "isolate", work.out) \/ Stage(c, "setaside", work.out))
  BY DEF Isolate, Holds, OnPc
<1>2. PICK out \in Outcomes \cup {"none"} : out = work.out
  BY DEF Holds, Held
<1>3. result[c] = "none" /\ fs[Qtn(c)] = None /\ (Planned(c) \notin written => OthersWithout(c))
  BY <1>1 DEF Stage
<1>4. CASE CanRename(Src(c), Qtn(c)) /\ Renamed(Src(c), Qtn(c)) /\ GoOn("unlink")
  <2>1. LeavesOthers(c) /\ fs'[Src(c)] = None /\ fs'[Dst(c)] = fs[Dst(c)]
    BY <1>1, <1>4, RenamedLeavesOthers, PathsOfACandidate
  <2>2. Justified(c)
    BY <1>3, <2>1, PathsOfACandidate DEF Justified
  <2>3. Stage(c, "unlink", out)'
    BY <1>1, <1>3 DEF Stage, stored
  <2>4. QED
    BY <1>2, <1>3, <1>4, <2>1, <2>2, <2>3, MovedKeeps DEF GoOn, Pcs
<1>5. CASE ~CanRename(Src(c), Qtn(c)) /\ UNCHANGED <<fs, touched>>
  <2>1. CASE work.pc = "isolate"
    <3>1. Stage(c, "isolate", work.out) /\ RollbackFailed
      BY <1>5, <2>1 DEF Holds, Isolate
    <3>2. ~mounted
      BY <1>3, <1>5, <3>1 DEF Stage, CanRename, Visible
    <3>3. QED
      BY <1>1, <1>3, <1>5, <3>1, <3>2, GivenUpKeeps
  <2>2. CASE work.pc # "isolate"
    <3>1. Leaves /\ UNCHANGED <<fs, touched, stored, outside>>
      BY <1>1, <1>5, <2>2 DEF Isolate
    <3>2. QED
      BY <3>1, LooksKeepPlaces, StandsAt DEF Leaves, Holds, Pcs, Outcomes, Kept
  <2>3. QED
    BY <2>1, <2>2
<1>6. QED
  BY <1>4, <1>5 DEF Isolate

(* A restore of the quarantined file to the source or to the place.         *)
LEMMA RestoreLeavesOthers ==
    ASSUME NEW c \in LocalCands, UNCHANGED <<stored, outside>>, Holds(c),
           NEW p \in {Src(c), Dst(c)}, NEW out, CanRestore(c, p), Restore(c, p, out)
    PROVE  /\ LeavesOthers(c) /\ mounted
           /\ fs[p] \in {None, fs[Qtn(c)]} /\ fs'[p] = fs[Qtn(c)]
           /\ \A r \in {Src(c), Dst(c)} : r # p => fs'[r] = fs[r]
           /\ fs'[Qtn(c)] = IF RestoredAtOnce(p) THEN None ELSE fs[Qtn(c)]
<1>1. fs \in [LocalPaths -> Files \cup {None}]
  BY DEF Holds, MoveTypeOK
<1>2. p \in LocalPaths /\ p # Qtn(c) /\ Qtn(c) \in LocalPaths
  BY PathsOfACandidate
<1>3. \A r \in LocalPaths : fs'[r] = IF r = Qtn(c) THEN (IF RestoredAtOnce(p) THEN None ELSE fs[Qtn(c)])
                                     ELSE IF r = p THEN fs[Qtn(c)] ELSE fs[r]
  BY <1>1, <1>2 DEF Restore
<1>4. touched' = touched \cup {fs[Qtn(c)]}
  BY DEF Restore
<1>5. mounted /\ fs[p] \in {None, fs[Qtn(c)]}
  BY DEF CanRestore, Visible
<1>6. QED
  BY <1>2, <1>3, <1>4, <1>5, PathsOfACandidate DEF LeavesOthers, stored, outside

(* _finish_quarantined_reconcile                                            *)
LEMMA UnlinkKeeps ==
    ASSUME Undisputed, NEW c \in LocalCands, Holds(c), Unlink(c)
    PROVE  Kept
<1>1. UNCHANGED <<stored, outside>> /\ result[c] = "none"
  BY DEF Unlink, Holds, OnPc, Stage
<1>2. UNCHANGED <<library, written, mounted, journal, result>>
  BY <1>1 DEF stored, outside
<1>3. CASE /\ Linked(Qtn(c), c) /\ Linked(Dst(c), c)
           /\ fs' = [fs EXCEPT ![Qtn(c)] = None]
           /\ touched' = touched \cup {fs[Qtn(c)]}
           /\ Concludes("moved")
  <2>1. \A r \in LocalPaths : fs'[r] = IF r = Qtn(c) THEN None ELSE fs[r]
    BY <1>3 DEF Holds, MoveTypeOK
  <2>2. LeavesOthers(c)
    BY <1>2, <1>3, <2>1, PathsOfACandidate DEF LeavesOthers
  <2>3. InQuarantine(c) /\ InPlace(c)
    BY <1>3, PathsOfACandidate DEF Linked, Visible, InQuarantine, InPlace
  <2>4. fs[Src(c)] # Planned(c)
    BY <2>3 DEF Holds, PlacesInv, NotThrice
  <2>5. Justified(c)
    BY <2>1, PathsOfACandidate DEF Justified
  <2>6. Stage(c, "settle", "moved")'
    BY <1>1, <1>2, <2>1, <2>3, <2>4, PathsOfACandidate
       DEF Stage, Verdict, Arrived, Delivered, InQuarantine, InPlace
  <2>7. QED
    BY <1>1, <1>3, <2>2, <2>5, <2>6, MovedKeeps DEF Concludes, Pcs, Outcomes
<1>4. ASSUME Linked(Qtn(c), c) # Linked(Dst(c), c), CanRestore(c, Src(c)),
             NEW out \in {"moved", "stale"}, out = "moved" <=> Linked(Dst(c), c), Restore(c, Src(c), out)
      PROVE  Kept
  <2>1. /\ LeavesOthers(c) /\ mounted /\ fs'[Dst(c)] = fs[Dst(c)] /\ fs'[Src(c)] = fs[Qtn(c)]
        /\ fs'[Qtn(c)] = IF RestoredAtOnce(Src(c)) THEN None ELSE fs[Qtn(c)]
        /\ fs[Src(c)] \in {None, fs[Qtn(c)]}
    BY <1>1, <1>4, RestoreLeavesOthers, PathsOfACandidate
  <2>2. /\ out = "moved" => ~InQuarantine(c) /\ InPlace(c) /\ fs[Qtn(c)] # Planned(c)
        /\ out # "moved" => ~InPlace(c)
        /\ ~(InQuarantine(c) /\ InPlace(c))
    BY <1>4, <2>1 DEF Linked, Visible, InQuarantine, InPlace
  <2>3. Justified(c)
    BY <2>1, <2>2, PathsOfACandidate DEF Justified, InQuarantine, InPlace
  <2>4. /\ out = "moved" => ~InQuarantine(c)' /\ Arrived(c)'
        /\ out # "moved" => ~InPlace(c)'
        /\ RestoredAtOnce(Src(c)) => ~InQuarantine(c)'
    BY <1>2, <2>1, <2>2, PathsOfACandidate DEF InQuarantine, InPlace, Arrived, Delivered
  <2>5. CASE RestoredAtOnce(Src(c))
    <3>1. Stage(c, "settle", out)'
      BY <1>1, <1>2, <1>4, <2>4, <2>5 DEF Stage, Verdict
    <3>2. work' = [work EXCEPT !.pc = "settle", !.out = out]
      BY <1>4, <2>5 DEF Restore
    <3>3. QED
      BY <1>1, <2>1, <2>3, <3>1, <3>2, MovedKeeps DEF Pcs, Outcomes
  <2>6. CASE ~RestoredAtOnce(Src(c))
    <3>1. Stage(c, "restored", out)'
      BY <1>1, <1>2, <1>4, <2>4 DEF Stage
    <3>2. work' = [work EXCEPT !.pc = "restored", !.out = out]
      BY <1>4, <2>6 DEF Restore
    <3>3. QED
      BY <1>1, <2>1, <2>3, <3>1, <3>2, MovedKeeps DEF Pcs, Outcomes
  <2>7. QED
    BY <2>5, <2>6
<1>5. CASE Leaves /\ UNCHANGED <<fs, touched>>
  BY <1>1, <1>5, LooksKeepPlaces, StandsAt DEF Leaves, Holds, Pcs, Outcomes, Kept
<1>6. QED
  <2>1. CASE Linked(Dst(c), c)
    BY <1>3, <1>4, <1>5, <2>1, Zenon DEF Unlink
  <2>2. CASE ~Linked(Dst(c), c)
    <3>1. "stale" # "moved"
      OBVIOUS
    <3>2. QED
      BY <1>3, <1>4, <1>5, <2>2, <3>1, Zenon DEF Unlink
  <2>3. QED
    BY <2>1, <2>2

(* _rollback_unexpected_link: the foreign file is set aside,                *)
LEMMA MisplacedKeeps ==
    ASSUME Undisputed, NEW c \in LocalCands, Holds(c), Misplaced(c)
    PROVE  Kept
<1>1. UNCHANGED <<stored, outside>> /\ Stage(c, "misplaced", work.out)
  BY DEF Misplaced, Holds, OnPc
<1>2. PICK out \in Outcomes \cup {"none"} : out = work.out
  BY DEF Holds, Held
<1>3. result[c] = "none" /\ ~InQuarantine(c) /\ (mounted => ~InPlace(c))
  BY <1>1 DEF Stage
<1>4. CASE CanRename(Dst(c), Qtn(c)) /\ Renamed(Dst(c), Qtn(c)) /\ GoOn("putback")
  <2>1. /\ LeavesOthers(c) /\ fs'[Dst(c)] = None
        /\ fs'[Qtn(c)] = fs[Dst(c)] /\ fs'[Src(c)] = fs[Src(c)]
    BY <1>1, <1>4, RenamedLeavesOthers, PathsOfACandidate
  <2>2. ~InPlace(c)
    BY <1>3, <1>4 DEF CanRename, Visible
  <2>3. Justified(c)
    BY <2>1, <2>2, PathsOfACandidate DEF Justified, InPlace
  <2>4. Stage(c, "putback", out)'
    BY <1>1, <1>3, <2>1, <2>2, PathsOfACandidate DEF Stage, InQuarantine, InPlace, stored, outside
  <2>5. QED
    BY <1>2, <1>3, <1>4, <2>1, <2>3, <2>4, MovedKeeps DEF GoOn, Pcs
<1>5. CASE UNCHANGED <<fs, touched>> /\ RollbackFailed
  BY <1>1, <1>3, <1>5, GivenUpKeeps
<1>6. QED
  BY <1>4, <1>5, Zenon DEF Misplaced

(* A quarantined file that is not the planned one is dropped, being at p.   *)
LEMMA DroppedKeeps ==
    ASSUME NEW c \in LocalCands, Holds(c), UNCHANGED <<library, written, mounted, journal, result>>,
           fs' = [fs EXCEPT ![Qtn(c)] = None], touched \subseteq touched'
    PROVE  /\ LeavesOthers(c) /\ Justified(c) /\ ~InQuarantine(c)'
           /\ InPlace(c)' = InPlace(c) /\ Arrived(c)' = Arrived(c)
<1>1. \A r \in LocalPaths : fs'[r] = IF r = Qtn(c) THEN None ELSE fs[r]
  BY DEF Holds, MoveTypeOK
<1>2. LeavesOthers(c)
  BY <1>1, PathsOfACandidate DEF LeavesOthers
<1>3. Justified(c)
  BY <1>1, PathsOfACandidate DEF Justified
<1>4. QED
  BY <1>1, <1>2, <1>3, PathsOfACandidate DEF InQuarantine, InPlace, Arrived, Delivered

(* and goes back where it came from.                                        *)
LEMMA PutBackKeeps ==
    ASSUME Undisputed, NEW c \in LocalCands, Holds(c), PutBack(c)
    PROVE  Kept
<1>1. UNCHANGED <<stored, outside>> /\ Stage(c, "putback", work.out)
  BY DEF PutBack, Holds, OnPc
<1>2. UNCHANGED <<library, written, mounted, journal, result>>
  BY <1>1 DEF stored, outside
<1>3. result[c] = "none" /\ ~InQuarantine(c) /\ ~InPlace(c)
  BY <1>1 DEF Stage
<1>4. CASE /\ fs' = [fs EXCEPT ![Qtn(c)] = None]
           /\ touched' = touched \cup {fs[Qtn(c)]}
           /\ Concludes("stale")
  <2>1. /\ LeavesOthers(c) /\ Justified(c) /\ ~InQuarantine(c)'
        /\ InPlace(c)' = InPlace(c)
    BY <1>2, <1>4, DroppedKeeps
  <2>2. Stage(c, "settle", "stale")'
    BY <1>2, <1>3, <2>1 DEF Stage, Verdict
  <2>3. QED
    BY <1>3, <1>4, <2>1, <2>2, MovedKeeps DEF Concludes, Pcs, Outcomes
<1>5. CASE CanRestore(c, Dst(c)) /\ Restore(c, Dst(c), "conflict")
  <2>1. /\ LeavesOthers(c) /\ fs'[Src(c)] = fs[Src(c)] /\ fs'[Dst(c)] = fs[Qtn(c)]
        /\ fs'[Qtn(c)] = IF RestoredAtOnce(Dst(c)) THEN None ELSE fs[Qtn(c)]
        /\ fs[Dst(c)] \in {None, fs[Qtn(c)]}
    BY <1>1, <1>5, RestoreLeavesOthers, PathsOfACandidate
  <2>2. Justified(c)
    BY <1>3, <2>1, PathsOfACandidate DEF Justified, InQuarantine, InPlace
  <2>3. ~InQuarantine(c)' /\ ~InPlace(c)'
    BY <1>2, <1>3, <2>1, PathsOfACandidate DEF InQuarantine, InPlace
  <2>4. CASE RestoredAtOnce(Dst(c))
    <3>1. Stage(c, "settle", "conflict")'
      BY <1>2, <1>3, <2>3 DEF Stage, Verdict
    <3>2. work' = [work EXCEPT !.pc = "settle", !.out = "conflict"]
      BY <1>5, <2>4 DEF Restore
    <3>3. QED
      BY <1>3, <2>1, <2>2, <3>1, <3>2, MovedKeeps DEF Pcs, Outcomes
  <2>5. CASE ~RestoredAtOnce(Dst(c))
    <3>1. Stage(c, "restored", "conflict")'
      BY <1>2, <1>3, <2>3 DEF Stage
    <3>2. work' = [work EXCEPT !.pc = "restored", !.out = "conflict"]
      BY <1>5, <2>5 DEF Restore
    <3>3. QED
      BY <1>3, <2>1, <2>2, <3>1, <3>2, MovedKeeps DEF Pcs, Outcomes
  <2>6. QED
    BY <2>4, <2>5
<1>6. CASE UNCHANGED <<fs, touched>> /\ RollbackFailed
  BY <1>1, <1>3, <1>6, GivenUpKeeps
<1>7. QED
  BY <1>4, <1>5, <1>6, Zenon DEF PutBack

(* The second half of a restore by link.                                    *)
LEMMA RestoredKeeps ==
    ASSUME Undisputed, NEW c \in LocalCands, Holds(c), Restored(c)
    PROVE  Kept
<1>1. UNCHANGED <<touched, stored, outside>> /\ Stage(c, "restored", work.out)
  BY Zenon DEF Restored, Holds, OnPc
<1>2. UNCHANGED <<library, written, mounted, journal, result>>
  BY <1>1 DEF stored, outside
<1>3. PICK out \in Outcomes \cup {"none"} : out = work.out
  BY DEF Holds, Held
<1>4. /\ result[c] = "none" /\ out # "none"
      /\ out \in {"moved", "conflict"} => ~InQuarantine(c)
      /\ out = "moved" => Arrived(c)
      /\ out # "moved" => ~InPlace(c)
  BY <1>1, <1>3 DEF Stage
<1>5. CASE fs' = [fs EXCEPT ![Qtn(c)] = None] /\ GoOn("settle")
  <2>1. /\ LeavesOthers(c) /\ Justified(c) /\ ~InQuarantine(c)'
        /\ InPlace(c)' = InPlace(c) /\ Arrived(c)' = Arrived(c)
    BY <1>1, <1>2, <1>5, DroppedKeeps
  <2>2. Stage(c, "settle", out)'
    BY <1>2, <1>4, <2>1 DEF Stage, Verdict
  <2>3. QED
    BY <1>3, <1>4, <1>5, <2>1, <2>2, MovedKeeps DEF GoOn, Pcs
<1>6. CASE UNCHANGED fs /\ work.out = "conflict" /\ RollbackFailed
  BY <1>1, <1>3, <1>4, <1>6, GivenUpKeeps
<1>7. CASE UNCHANGED fs /\ Leaves
  BY <1>1, <1>7, LooksKeepPlaces, StandsAt DEF Leaves, Holds, Pcs, Outcomes, Kept
<1>8. QED
  BY <1>5, <1>6, <1>7, Zenon DEF Restored

-----------------------------------------------------------------------------
(* The rows of the journal and of the results.                              *)

(* A row of the journal that stays open is written, or the first one.       *)
LEMMA OpenRowKeeps ==
    ASSUME PlacesInv, NEW c \in LocalCands, NEW state \in {"prepared", "linked", "source_removed"},
           journal' = [journal EXCEPT ![c] = state], journal \in [LocalCands -> JournalStates],
           UNCHANGED <<fs, library, written, touched, result>>
    PROVE  PlacesInv'
<1>1. \A d \in LocalCands : journal'[d] = IF d = c THEN state ELSE journal[d]
  OBVIOUS
<1>2. QED
  BY <1>1 DEF PlacesInv, FreshIsAtHome, NowhereElse, OnePlace, OneQuarantine, OthersWithout, NotThrice,
     UnjournalledIsUnmoved, SettledIsNotAside, MovedIsDelivered, QuarantineIsJournalled, KeptIsNotDelivered,
     InQuarantine, InPlace, Delivered, Shared

(* A journal is closed of a candidate with a result.                        *)
LEMMA ClosedRowKeeps ==
    ASSUME PlacesInv, NEW c \in LocalCands, result[c] # "none",
           journal' = [journal EXCEPT ![c] = "reconciled"], journal \in [LocalCands -> JournalStates],
           UNCHANGED <<fs, library, written, touched, result>>
    PROVE  PlacesInv'
<1>1. \A d \in LocalCands : journal'[d] = IF d = c THEN "reconciled" ELSE journal[d]
  OBVIOUS
<1>2. QED
  BY <1>1 DEF PlacesInv, FreshIsAtHome, NowhereElse, OnePlace, OneQuarantine, OthersWithout, NotThrice,
     UnjournalledIsUnmoved, SettledIsNotAside, MovedIsDelivered, QuarantineIsJournalled, KeptIsNotDelivered,
     InQuarantine, InPlace, Delivered, Shared

LEMMA JournalRowKeeps ==
    ASSUME NEW c \in LocalCands, Holds(c),
           \/ JournalRow(c, "linkrow", "linked", "removedrow")
           \/ JournalRow(c, "removedrow", "source_removed", "resultrow")
           \/ JournalRow(c, "endrow", "reconciled", "idle")
    PROVE  Kept
<1>1. UNCHANGED <<fs, library, written, touched, mounted, result>> /\ journal \in [LocalCands -> JournalStates]
  BY DEF JournalRow, outside, Holds, MoveTypeOK
<1>2. PICK out \in Outcomes \cup {"none"} : out = work.out
  BY DEF Holds, Held
<1>3. CASE JournalRow(c, "endrow", "reconciled", "idle")
  <2>1. result[c] # "none" /\ journal' = [journal EXCEPT ![c] = "reconciled"] /\ work' = Idle
    BY <1>3 DEF JournalRow, Holds, OnPc, Stage
  <2>2. PlacesInv'
    BY <1>1, <2>1, ClosedRowKeeps DEF Holds
  <2>3. QED
    BY <2>1, <2>2, StandsAt DEF Holds, Pcs, Outcomes, Kept
<1>4. ASSUME NEW pc \in {"linkrow", "removedrow"}, NEW state \in {"linked", "source_removed"},
             NEW next \in {"removedrow", "resultrow"}, JournalRow(c, pc, state, next)
      PROVE  Kept
  <2>1. /\ journal' = [journal EXCEPT ![c] = state] /\ work' = [work EXCEPT !.pc = next]
        /\ Stage(c, pc, out)
    BY <1>2, <1>4 DEF JournalRow, Holds, OnPc, GoOn
  <2>2. out = "moved" /\ Verdict(c, out) /\ result[c] = "none"
    BY <2>1 DEF Stage
  <2>3. Verdict(c, out)'
    BY <1>1, <2>2, SamePlaces DEF Verdict, Arrived
  <2>4. Stage(c, next, out)'
    BY <1>1, <2>2, <2>3 DEF Stage
  <2>5. PlacesInv'
    BY <1>1, <2>1, OpenRowKeeps DEF Holds
  <2>6. journal'[c] = state
    BY <1>1, <2>1
  <2>7. QED
    BY <1>2, <2>1, <2>4, <2>5, <2>6, StandsAt DEF Holds, Pcs, Kept
<1>5. QED
  BY <1>3, <1>4

(* The result is stored that the verdict says.                              *)
LEMMA ResultRowKeeps ==
    ASSUME NEW c \in LocalCands, Holds(c), ResultRow(c)
    PROVE  Kept
<1>1. UNCHANGED <<fs, library, written, touched, mounted, journal>> /\ Stage(c, "resultrow", work.out)
  BY DEF ResultRow, outside, Holds, OnPc
<1>2. PICK out \in Outcomes \cup {"none"} : out = work.out
  BY DEF Holds, Held
<1>3. out # "none" /\ Verdict(c, out) /\ result[c] = "none"
  BY <1>1, <1>2 DEF Stage
<1>4. \A d \in LocalCands : result'[d] = IF d = c THEN out ELSE result[d]
  BY <1>2 DEF ResultRow, Holds, MoveTypeOK
<1>5. (FreshIsAtHome /\ OnePlace /\ OneQuarantine /\ NotThrice /\ UnjournalledIsUnmoved /\ QuarantineIsJournalled)'
  BY <1>1, SamePlaces
     DEF Holds, PlacesInv, FreshIsAtHome, OnePlace, OneQuarantine, NotThrice, UnjournalledIsUnmoved,
         QuarantineIsJournalled, Shared, InQuarantine
<1>6. SettledIsNotAside'
  BY <1>1, <1>3, <1>4, SamePlaces DEF SettledIsNotAside, Holds, PlacesInv, Verdict
<1>7. MovedIsDelivered'
  <2>1. SUFFICES ASSUME NEW d \in LocalCands, result'[d] = "moved"
                 PROVE  /\ Delivered(d)
                        /\ fs[Src(d)] = Planned(d) =>
                              \E e \in LocalCands : Src(e) = Src(d) /\ result'[e] # "moved"
    BY <1>1, SamePlaces DEF MovedIsDelivered
  <2>2. CASE d = c
    BY <1>3, <1>4, <2>1, <2>2 DEF Verdict, Arrived
  <2>3. CASE d # c
    <3>1. Delivered(d)
      BY <1>4, <2>1, <2>3 DEF MovedIsDelivered, Holds, PlacesInv
    <3>2. ASSUME fs[Src(d)] = Planned(d)
          PROVE  \E e \in LocalCands : Src(e) = Src(d) /\ result'[e] # "moved"
      <4>1. PICK e \in LocalCands : Src(e) = Src(d) /\ result[e] # "moved"
        BY <1>4, <2>1, <2>3, <3>2 DEF MovedIsDelivered, Holds, PlacesInv
      <4>2. ~(e = c /\ out = "moved")
        BY <1>3, <3>2, <4>1 DEF Verdict, Arrived
      <4>3. QED
        BY <1>4, <4>1, <4>2
    <3>3. QED
      BY <3>1, <3>2
  <2>4. QED
    BY <2>2, <2>3
<1>8. KeptIsNotDelivered'
  <2>1. SUFFICES ASSUME NEW d \in LocalCands, result'[d] \notin {"none", "moved"}, InPlace(d)
                 PROVE  Shared(d)
    BY <1>1 DEF KeptIsNotDelivered, InPlace, Shared
  <2>2. CASE d = c
    BY <1>3, <1>4, <2>1, <2>2 DEF Verdict
  <2>3. CASE d # c
    BY <1>4, <2>1, <2>3 DEF KeptIsNotDelivered, InPlace, Shared, Holds, PlacesInv
  <2>4. QED
    BY <2>2, <2>3
<1>9. PlacesInv'
  BY <1>1, <1>5, <1>6, <1>7, <1>8 DEF PlacesInv, Holds
<1>10. Stage(c, "endrow", out)'
  BY <1>3, <1>4 DEF Stage
<1>11. work' = [work EXCEPT !.pc = "endrow"]
  BY DEF ResultRow, GoOn
<1>12. QED
  BY <1>1, <1>2, <1>9, <1>10, <1>11, StandsAt DEF Holds, Pcs, Kept

(* A move or a recovery is taken up.                                        *)
LEMMA TakenUpKeeps ==
    ASSUME MoveInv, NEW c \in LocalCands, Apply(c) \/ Reconcile(c)
    PROVE  Kept
<1>1. /\ UNCHANGED <<fs, library, written, touched, mounted, result>> /\ journal \in [LocalCands -> JournalStates]
      /\ PlacesInv
  BY DEF Apply, Reconcile, files, MoveInv, MoveTypeOK
<1>2. CASE /\ result[c] = "none" /\ journal[c] \notin {"none", "reconciled"}
           /\ Holding(c, "reconcile", "look") /\ UNCHANGED journal
  <2>1. PlacesInv'
    BY <1>1, <1>2, LooksKeepPlaces, SamePlaces
       DEF PlacesInv, FreshIsAtHome, NowhereElse, OnePlace, OneQuarantine, OthersWithout, NotThrice,
           UnjournalledIsUnmoved, SettledIsNotAside, MovedIsDelivered, QuarantineIsJournalled, KeptIsNotDelivered,
           InQuarantine, InPlace, Delivered, Shared
  <2>2. work'.on = c /\ work'.pc = "look" /\ work'.out = "none"
    BY <1>2 DEF Holding
  <2>3. WorkInv'
    BY <1>1, <1>2, <2>2 DEF WorkInv, Stage
  <2>4. QED
    BY <2>1, <2>3 DEF Kept
<1>3. CASE /\ result[c] = "none" /\ journal[c] = "none"
           /\ journal' = [journal EXCEPT ![c] = "prepared"]
           /\ work' = [on |-> c, mode |-> "apply", pc |-> "check", state |-> "prepared", out |-> "none"]
  <2>1. PlacesInv'
    BY <1>1, <1>3, OpenRowKeeps
  <2>2. ~InQuarantine(c) /\ (fs[Dst(c)] # Planned(c) \/ Shared(c))
    BY <1>1, <1>3 DEF PlacesInv, QuarantineIsJournalled, UnjournalledIsUnmoved, InQuarantine
  <2>3. work'.on = c /\ work'.pc = "check" /\ work'.out = "none" /\ journal'[c] = "prepared"
    BY <1>1, <1>3
  <2>4. WorkInv'
    BY <1>1, <1>3, <2>2, <2>3 DEF WorkInv, Stage, InQuarantine, Shared
  <2>5. QED
    BY <2>1, <2>4 DEF Kept
<1>4. CASE result[c] # "none" /\ journal' = [journal EXCEPT ![c] = "reconciled"] /\ work = Idle /\ UNCHANGED work
  <2>1. WorkInv'
    BY <1>4, CandidateAssumption DEF WorkInv
  <2>2. QED
    BY <1>1, <1>4, <2>1, ClosedRowKeeps DEF Kept
<1>5. QED
  BY <1>2, <1>3, <1>4 DEF Apply, Reconcile

-----------------------------------------------------------------------------
(* Other programs and interruptions.                                        *)

(* They put no planned file anywhere, take nothing out of a quarantine,     *)
(* empty no source, and take a delivered file to the library only.          *)
Harmless ==
    /\ UNCHANGED <<journal, result>>
    /\ \A p \in LocalPaths : fs'[p] \in Sources => fs'[p] = fs[p]
    /\ \A c \in LocalCands : fs'[Qtn(c)] = fs[Qtn(c)] /\ (fs[Src(c)] # None => fs'[Src(c)] # None)
    /\ written \subseteq written' /\ written' \subseteq Writable /\ touched \subseteq touched'
    /\ \A f \in Sources : f \in library' => f \in library \/ f \in touched'
    /\ \A c \in LocalCands : Delivered(c) => Delivered(c)'

LEMMA HarmlessKeeps ==
    ASSUME MoveInv, Harmless, work' = Idle \/ (work' = work /\ (mounted' => mounted))
    PROVE  Kept
<1>1. /\ \A c \in LocalCands : InQuarantine(c)' => InQuarantine(c)
      /\ \A c \in LocalCands : InPlace(c)' => InPlace(c)
      /\ \A c \in LocalCands : fs'[Src(c)] = Planned(c) => fs[Src(c)] = Planned(c)
      /\ \A c \in LocalCands : fs'[Dst(c)] = Planned(c) => fs[Dst(c)] = Planned(c)
      /\ \A c \in LocalCands : Planned(c) \notin written' => Planned(c) \notin written
      /\ \A f \in Sources : NowhereElse(f) => NowhereElse(f)'
      /\ UNCHANGED <<journal, result>>
  BY PathsOfACandidate, CandidateAssumption DEF Harmless, InQuarantine, InPlace, NowhereElse
<1>2. \A c \in LocalCands : OthersWithout(c) => OthersWithout(c)'
  BY <1>1 DEF OthersWithout
<1>3. PlacesInv'
  <2>1. FreshIsAtHome' /\ written' \subseteq Writable
    BY <1>1 DEF Harmless, MoveInv, PlacesInv, FreshIsAtHome
  <2>2. OnePlace' /\ OneQuarantine' /\ NotThrice'
    BY <1>1, <1>2 DEF MoveInv, PlacesInv, OnePlace, OneQuarantine, NotThrice
  <2>3. UnjournalledIsUnmoved' /\ SettledIsNotAside'
    BY <1>1 DEF MoveInv, PlacesInv, UnjournalledIsUnmoved, SettledIsNotAside, Shared
  <2>4. MovedIsDelivered'
    BY <1>1 DEF MoveInv, PlacesInv, MovedIsDelivered, Harmless
  <2>5. QuarantineIsJournalled' /\ KeptIsNotDelivered'
    BY <1>1 DEF MoveInv, PlacesInv, QuarantineIsJournalled, KeptIsNotDelivered, Harmless
  <2>6. QED
    BY <2>1, <2>2, <2>3, <2>4, <2>5 DEF PlacesInv
<1>4. CASE work' = Idle
  BY <1>3, <1>4, CandidateAssumption DEF WorkInv, Kept
<1>5. CASE work' = work /\ (mounted' => mounted)
  <2>1. SUFFICES ASSUME NEW c \in LocalCands, work.on = c
                 PROVE  journal'[c] \notin {"none", "reconciled"} /\ Stage(c, work.pc, work.out)'
    BY <1>3, <1>5 DEF WorkInv, Kept
  <2>2. journal[c] \notin {"none", "reconciled"} /\ Stage(c, work.pc, work.out) /\ Planned(c) \in Sources
    BY <2>1, CandidateAssumption DEF MoveInv, WorkInv
  <2>3. (Arrived(c) => Arrived(c)') /\ (fs'[Qtn(c)] = fs[Qtn(c)])
        /\ (fs[Src(c)] # None => fs'[Src(c)] # None)
    BY <1>1 DEF Harmless, Arrived
  <2>4. Stage(c, work.pc, work.out)'
    BY <1>1, <1>2, <1>5, <2>2, <2>3 DEF Stage, Verdict, Shared
  <2>5. QED
    BY <1>1, <2>2, <2>4
<1>6. QED
  BY <1>4, <1>5

LEMMA OutsideKeeps ==
    ASSUME ~Flapping, MoveInv, Outside \/ UNCHANGED moveVars
    PROVE  Kept /\ Harmless
<1>1. fs \in [LocalPaths -> Files \cup {None}] /\ written \subseteq Writable
  BY DEF MoveInv, MoveTypeOK, PlacesInv
<1>2. CASE CutOff \/ Unmount \/ Mount \/ UNCHANGED moveVars
  <2>1. UNCHANGED <<fs, library, written, touched, journal, result>>
    BY <1>2 DEF CutOff, Unmount, Mount, moveVars, files, stored
  <2>2. Harmless
    BY <1>1, <2>1, SamePlaces DEF Harmless
  <2>3. work' = Idle \/ (work' = work /\ (mounted' => mounted))
    BY <1>2 DEF CutOff, Unmount, Mount, moveVars, files, stored
  <2>4. QED
    BY <2>2, <2>3, HarmlessKeeps
<1>3. CASE WriteFile
  <2>1. /\ UNCHANGED <<fs, library, journal, result, work, mounted>>
        /\ written \subseteq written' /\ written' \subseteq Writable /\ touched \subseteq touched'
    BY <1>1, <1>3 DEF WriteFile, stored
  <2>2. Harmless
    BY <2>1 DEF Harmless, Delivered
  <2>3. QED
    BY <2>1, <2>2, HarmlessKeeps
<1>4. CASE PutForeign
  <2>1. PICK p \in Sources \cup Destinations, f \in Foreign \ (Named \cup erased) :
             /\ p \in Destinations => fs[p] = None
             /\ fs' = [fs EXCEPT ![p] = f]
    BY <1>4 DEF PutForeign
  <2>2. UNCHANGED <<library, written, touched, mounted, journal, result, work>>
    BY <1>4 DEF PutForeign, stored
  <2>3. \A r \in LocalPaths : fs'[r] = IF r = p THEN f ELSE fs[r]
    BY <1>1, <2>1
  <2>4. f \notin Sources /\ f # None
    BY LocalAssumption
  <2>5. \A c \in LocalCands : Delivered(c) => Delivered(c)'
    <3>1. SUFFICES ASSUME NEW c \in LocalCands, fs[Dst(c)] = Planned(c)
                   PROVE  fs'[Dst(c)] = Planned(c)
      BY <2>2 DEF Delivered
    <3>2. Dst(c) # p
      BY <2>1, <3>1, CandidateAssumption
    <3>3. QED
      BY <2>3, <3>1, <3>2, PathsOfACandidate
  <2>6. \A c \in LocalCands : Qtn(c) # p
    BY CandidateAssumption, LocalAssumption
  <2>7. Harmless
    BY <1>1, <2>2, <2>3, <2>4, <2>5, <2>6, PathsOfACandidate DEF Harmless
  <2>8. QED
    BY <2>2, <2>7, HarmlessKeeps
<1>5. ASSUME NEW p \in Destinations, Archive(p)
      PROVE  Kept /\ Harmless
  <2>1. \A r \in LocalPaths : fs'[r] = IF r = p THEN None ELSE fs[r]
    BY <1>1, <1>5 DEF Archive
  <2>2. /\ UNCHANGED <<written, mounted, journal, result, work>>
        /\ library' = library \cup {fs[p]} /\ touched' = touched \cup {fs[p]}
    BY <1>5 DEF Archive, stored
  <2>3. None \notin Sources /\ \A c \in LocalCands : Qtn(c) # p /\ Src(c) # p
    BY CandidateAssumption, LocalAssumption
  <2>4. \A c \in LocalCands : Delivered(c) => Delivered(c)'
    BY <2>1, <2>2, PathsOfACandidate DEF Delivered
  <2>5. Harmless
    BY <1>1, <2>1, <2>2, <2>3, <2>4, PathsOfACandidate DEF Harmless
  <2>6. QED
    BY <2>2, <2>5, HarmlessKeeps
<1>6. QED
  BY <1>2, <1>3, <1>4, <1>5 DEF Outside

-----------------------------------------------------------------------------
(* All of it together.                                                      *)

LEMMA StepKeeps ==
    ASSUME Undisputed, MoveInv, NEW c \in LocalCands, Step(c)
    PROVE  Kept
<1>1. work.on = c
  BY DEF Step, Persist, Check, Rename, Verify, Rollback, AfterLink, Isolate, Unlink, Misplaced, PutBack,
     Restored, Look, Undo, Settle, JournalRow, ResultRow, OnPc
<1>2. Holds(c)
  BY <1>1, LockHolds
<1>3. QED
  BY <1>2, CheckKeeps, VerifyKeeps, AfterLinkKeeps, LookKeeps, SettleKeeps, RenameKeepsAll, BackKeeps,
     IsolateKeeps, UnlinkKeeps, MisplacedKeeps, PutBackKeeps, RestoredKeeps, JournalRowKeeps, ResultRowKeeps, Zenon
     DEF Step, Persist

LEMMA MoveInvHolds ==
    ASSUME ~Flapping, Undisputed
    PROVE  MoveSpec => []MoveInv
<1>1. MoveInit => MoveInv
  <2>1. SUFFICES ASSUME MoveInit PROVE MoveInv
    OBVIOUS
  <2>2. MoveTypeOK
    BY <2>1, CandidateAssumption, LocalAssumption
       DEF MoveInit, MoveTypeOK, Works, JournalStates, Outcomes, Files
  <2>3. /\ \A c \in LocalCands : fs[Dst(c)] = None /\ fs[Qtn(c)] = None /\ Planned(c) # None
        /\ \A f \in Sources : NowhereElse(f)
    BY <2>1, PathsOfACandidate, CandidateAssumption, LocalAssumption DEF MoveInit, NowhereElse
  <2>4. \A c \in LocalCands : ~InQuarantine(c) /\ ~InPlace(c)
    BY <2>3 DEF InQuarantine, InPlace
  <2>5. PlacesInv
    BY <2>1, <2>3, <2>4
       DEF MoveInit, PlacesInv, FreshIsAtHome, OnePlace, OneQuarantine, NotThrice, UnjournalledIsUnmoved,
           SettledIsNotAside, MovedIsDelivered, QuarantineIsJournalled, KeptIsNotDelivered
  <2>6. WorkInv
    BY <2>1, CandidateAssumption DEF MoveInit, WorkInv
  <2>7. QED
    BY <2>2, <2>5, <2>6 DEF MoveInv
<1>2. MoveInv /\ [MoveNext]_moveVars => MoveInv'
  <2>1. SUFFICES ASSUME MoveInv, [MoveNext]_moveVars PROVE MoveInv'
    OBVIOUS
  <2>2. MoveTypeOK'
    BY <2>1, EveryStep DEF MoveInv
  <2>3. Kept
    BY <2>1, OutsideKeeps, TakenUpKeeps, StepKeeps DEF MoveNext
  <2>4. QED
    BY <2>2, <2>3 DEF Kept, MoveInv
<1>3. QED
  BY <1>1, <1>2, PTL DEF MoveSpec

(* Wherever a video ended, its result or its journal says so               *)
(* (_run_move, _reconcile_filesystem, _persist_move_completion): a move     *)
(* said to be done is of a file that is in the staging tree or archived, a  *)
(* file waits under its hidden name only while the recovery will come back  *)
(* for it, and one said to be kept is not delivered.  Provided an outage    *)
(* outlasts the move that met it, and plans that name one place name one    *)
(* file, which no other program writes to.                                  *)
THEOREM MovesStayAccounted ==
    MoveSpec /\ ~Flapping /\ Undisputed => []MoveAccounted
<1>1. MoveInv => MoveAccounted
  BY DEF MoveInv, PlacesInv, MoveAccounted
<1>2. SUFFICES ASSUME ~Flapping, Undisputed
               PROVE  MoveSpec => []MoveAccounted
  BY Zenon DEF Undisputed
<1>3. QED
  BY <1>1, <1>2, MoveInvHolds, PTL

-----------------------------------------------------------------------------
(* The move keeps the contract of an applied plan.                          *)

Said(c) == IF result[c] \in {"none", "moved"} THEN result[c] ELSE "kept"

(* A step that gives no result delivers files or takes deliveries back; it  *)
(* takes none back of which "moved" was said.                               *)
LEMMA DeliveryIsContract ==
    ASSUME PlacesInv', UNCHANGED result,
           \/ \A c \in LocalCands : Delivered(c) => Delivered(c)'
           \/ \A c \in LocalCands : Delivered(c)' => Delivered(c)
    PROVE  [Contract!ContractNext]_(Contract!contractVars)
<1> DEFINE arr == {c \in LocalCands : Delivered(c)}
           said == [c \in LocalCands |-> Said(c)]
<1>1. \A c \in LocalCands : result[c] = "moved" => Delivered(c)'
  BY DEF PlacesInv, MovedIsDelivered
<1>2. UNCHANGED said
  BY DEF Said
<1>3. \A c \in LocalCands : said[c] = "moved" => result[c] = "moved"
  BY DEF Said
<1>4. CASE \A c \in LocalCands : Delivered(c) => Delivered(c)'
  <2>1. arr' = arr \cup arr' /\ arr' \in SUBSET LocalCands
    BY <1>4
  <2>2. Contract!Arrive
    BY <1>2, <2>1 DEF Contract!Arrive, Said
  <2>3. QED
    BY <2>2 DEF Contract!ContractNext
<1>5. CASE \A c \in LocalCands : Delivered(c)' => Delivered(c)
  <2>1. arr' = arr \ (arr \ arr')
    BY <1>5
  <2>2. arr \ arr' \in SUBSET {c \in LocalCands : said[c] # "moved"}
    BY <1>1, <1>3
  <2>3. Contract!Return
    BY <1>2, <2>1, <2>2 DEF Contract!Return, Said
  <2>4. QED
    BY <2>3 DEF Contract!ContractNext
<1>6. QED
  BY <1>4, <1>5

(* What a step of a move does to the places: it fills one, or empties one.  *)
LEMMA StepDeliversOrReturns ==
    ASSUME MoveTypeOK, NEW c \in LocalCands, Step(c), ~ResultRow(c)
    PROVE  /\ UNCHANGED result
           /\ \/ \A d \in LocalCands : Delivered(d) => Delivered(d)'
              \/ \A d \in LocalCands : Delivered(d)' => Delivered(d)
<1>1. UNCHANGED <<library, result>>
  BY DEF Step, Persist, Check, Rename, Verify, Rollback, AfterLink, Isolate, Unlink, Misplaced, PutBack,
     Restored, Look, Undo, Settle, JournalRow, stored, outside
<1>2. /\ fs \in [LocalPaths -> Files \cup {None}]
      /\ \A d \in LocalCands : /\ Dst(d) \in LocalPaths /\ Dst(d) \notin {Src(c), Qtn(c)}
                               /\ Planned(d) # None
  BY PathsOfACandidate, CandidateAssumption, LocalAssumption DEF MoveTypeOK
<1>3. \/ fs' = fs
      \/ \E p, q \in {Src(c), Dst(c), Qtn(c)} : p # q /\ CanRename(p, q) /\ Renamed(p, q)
      \/ fs[Dst(c)] = None /\ fs' = [fs EXCEPT ![Dst(c)] = fs[Src(c)]]
      \/ fs' = [fs EXCEPT ![Qtn(c)] = None]
      \/ \E p \in {Src(c), Dst(c)}, out \in Outcomes : CanRestore(c, p) /\ Restore(c, p, out)
  <2>1. CASE Check(c) \/ Verify(c) \/ AfterLink(c) \/ Look(c) \/ Persist(c)
    BY <2>1 DEF Check, Verify, AfterLink, Look, Persist, Settle, JournalRow, ResultRow
  <2>2. CASE Rename(c)
    <3>1. Visible(Dst(c)) = None /\ mounted => fs[Dst(c)] = None
      BY DEF Visible
    <3>2. CanRename(Src(c), Dst(c)) => mounted
      BY DEF CanRename, Visible
    <3>3. \/ fs' = fs
          \/ CanRename(Src(c), Dst(c)) /\ Renamed(Src(c), Dst(c))
          \/ CanRename(Src(c), Dst(c)) /\ fs' = [fs EXCEPT ![Dst(c)] = fs[Src(c)]]
      BY <2>2, Zenon DEF Rename
    <3>4. QED
      BY <3>1, <3>2, <3>3, PathsOfACandidate DEF CanRename
  <2>3. CASE Rollback(c) \/ Isolate(c) \/ Misplaced(c) \/ Undo(c)
    <3>1. \/ fs' = fs
          \/ CanRename(Dst(c), Src(c)) /\ Renamed(Dst(c), Src(c))
          \/ CanRename(Src(c), Qtn(c)) /\ Renamed(Src(c), Qtn(c))
          \/ CanRename(Dst(c), Qtn(c)) /\ Renamed(Dst(c), Qtn(c))
      BY <2>3, Zenon DEF Rollback, Isolate, Misplaced, Undo
    <3>2. QED
      BY <3>1, PathsOfACandidate
  <2>4. CASE Unlink(c) \/ PutBack(c) \/ Restored(c)
    <3>1. \/ fs' = fs
          \/ fs' = [fs EXCEPT ![Qtn(c)] = None]
          \/ \E out \in Outcomes : CanRestore(c, Src(c)) /\ Restore(c, Src(c), out)
          \/ \E out \in Outcomes : CanRestore(c, Dst(c)) /\ Restore(c, Dst(c), out)
      BY <2>4, Zenon DEF Unlink, PutBack, Restored, Outcomes
    <3>2. QED
      BY <3>1
  <2>5. QED
    BY <2>1, <2>2, <2>3, <2>4, Zenon DEF Step
<1>4. CASE fs' = fs
  BY <1>1, <1>4 DEF Delivered
<1>5. ASSUME NEW p \in {Src(c), Dst(c), Qtn(c)}, NEW q \in {Src(c), Dst(c), Qtn(c)}, p # q,
             CanRename(p, q), Renamed(p, q)
      PROVE  \/ \A d \in LocalCands : Delivered(d) => Delivered(d)'
             \/ \A d \in LocalCands : Delivered(d)' => Delivered(d)
  <2>1. \A r \in LocalPaths : fs'[r] = IF r = q THEN fs[p] ELSE IF r = p THEN None ELSE fs[r]
    BY <1>2, <1>5 DEF Renamed
  <2>2. fs[q] = None
    BY <1>5 DEF CanRename, Visible
  <2>3. CASE p = Dst(c)
    <3>1. \A d \in LocalCands : Delivered(d)' => Delivered(d)
      BY <1>1, <1>2, <1>5, <2>1, <2>3 DEF Delivered
    <3>2. QED
      BY <3>1
  <2>4. CASE p # Dst(c)
    <3>1. \A d \in LocalCands : Delivered(d) => Delivered(d)'
      BY <1>1, <1>2, <1>5, <2>1, <2>2, <2>4 DEF Delivered
    <3>2. QED
      BY <3>1
  <2>5. QED
    BY <2>3, <2>4
<1>6. CASE fs[Dst(c)] = None /\ fs' = [fs EXCEPT ![Dst(c)] = fs[Src(c)]]
  BY <1>1, <1>2, <1>6 DEF Delivered
<1>7. CASE fs' = [fs EXCEPT ![Qtn(c)] = None]
  BY <1>1, <1>2, <1>7 DEF Delivered
<1>8. ASSUME NEW p \in {Src(c), Dst(c)}, NEW out \in Outcomes, CanRestore(c, p), Restore(c, p, out)
      PROVE  \A d \in LocalCands : Delivered(d) => Delivered(d)'
  <2>1. \A r \in LocalPaths : r \notin {p, Qtn(c)} => fs'[r] = fs[r]
    BY <1>2, <1>8 DEF Restore
  <2>2. fs[p] \in {None, fs[Qtn(c)]}
    BY <1>8 DEF CanRestore, Visible
  <2>3. p \in LocalPaths /\ p # Qtn(c) => fs'[p] = fs[Qtn(c)]
    BY <1>2, <1>8 DEF Restore
  <2>4. p \in LocalPaths /\ p # Qtn(c)
    BY PathsOfACandidate
  <2>5. QED
    BY <1>1, <1>2, <2>1, <2>2, <2>3, <2>4 DEF Delivered
<1>9. QED
  BY <1>1, <1>3, <1>4, <1>5, <1>6, <1>7, <1>8

(* The row of the result says what is true.                                 *)
LEMMA ResultRowIsSay ==
    ASSUME NEW c \in LocalCands, Holds(c), ResultRow(c)
    PROVE  Contract!ContractNext
<1>1. Stage(c, "resultrow", work.out) /\ UNCHANGED <<fs, library>> /\ work.out \in Outcomes \cup {"none"}
  BY DEF ResultRow, outside, Holds, Held, OnPc
<1>2. result[c] = "none" /\ work.out \in Outcomes /\ (work.out = "moved" => Delivered(c))
  BY <1>1 DEF Stage, Verdict, Arrived
<1>3. PICK v \in {"moved", "kept"} : v = IF work.out = "moved" THEN "moved" ELSE "kept"
  OBVIOUS
<1>4. \A d \in LocalCands : result'[d] = IF d = c THEN work.out ELSE result[d]
  BY DEF ResultRow, Holds, MoveTypeOK
<1>5. \A d \in LocalCands : Said(d)' = IF d = c THEN v ELSE Said(d)
  BY <1>2, <1>3, <1>4 DEF Said, Outcomes
<1>6. [d \in LocalCands |-> Said(d)]' = [[d \in LocalCands |-> Said(d)] EXCEPT ![c] = v]
  BY <1>5
<1>7. UNCHANGED {d \in LocalCands : Delivered(d)}
  BY <1>1 DEF Delivered
<1>8. Contract!Say(c)
  BY <1>2, <1>3, <1>6, <1>7 DEF Contract!Say, Said
<1>9. QED
  BY <1>8 DEF Contract!ContractNext

(* The move on a mounted share keeps the contract of an applied plan: a     *)
(* result "moved" is given only of a delivered file, which is never taken   *)
(* back, and no result is given twice (_apply_one, _reconcile_candidate,    *)
(* _persist_move_completion).                                               *)
THEOREM MoveImplementsContract ==
    MoveSpec /\ ~Flapping /\ Undisputed => ContractKept
<1>1. MoveInit => Contract!ContractInit
  BY CandidateAssumption, PathsOfACandidate, LocalAssumption DEF MoveInit, Contract!ContractInit, Delivered
<1>2. ASSUME ~Flapping, Undisputed, MoveInv, MoveInv', [MoveNext]_moveVars
      PROVE  [Contract!ContractNext]_(Contract!contractVars)
  <2>1. PlacesInv'
    BY <1>2 DEF MoveInv
  <2>2. CASE Outside \/ UNCHANGED moveVars
    <3>1. Harmless
      BY <1>2, <2>2, OutsideKeeps
    <3>2. QED
      BY <2>1, <3>1, DeliveryIsContract DEF Harmless
  <2>3. ASSUME NEW c \in LocalCands, Apply(c) \/ Reconcile(c)
        PROVE  [Contract!ContractNext]_(Contract!contractVars)
    <3>1. UNCHANGED <<fs, library, result>>
      BY <2>3 DEF Apply, Reconcile, files
    <3>2. QED
      BY <2>1, <3>1, DeliveryIsContract DEF Delivered
  <2>4. ASSUME NEW c \in LocalCands, Step(c), ~ResultRow(c)
        PROVE  [Contract!ContractNext]_(Contract!contractVars)
    BY <1>2, <2>1, <2>4, StepDeliversOrReturns, DeliveryIsContract DEF MoveInv
  <2>5. ASSUME NEW c \in LocalCands, ResultRow(c)
        PROVE  [Contract!ContractNext]_(Contract!contractVars)
    <3>1. Holds(c)
      BY <1>2, <2>5, LockHolds DEF ResultRow, OnPc
    <3>2. QED
      BY <2>5, <3>1, ResultRowIsSay
  <2>6. QED
    BY <1>2, <2>2, <2>3, <2>4, <2>5 DEF MoveNext
<1>3. SUFFICES ASSUME ~Flapping, Undisputed
               PROVE  MoveSpec => ContractKept
  BY Zenon DEF Undisputed
<1>4. MoveSpec => []MoveInv
  BY <1>3, MoveInvHolds
<1>5. MoveInv /\ MoveInv' /\ [MoveNext]_moveVars => [Contract!ContractNext]_(Contract!contractVars)
  BY <1>2, <1>3
<1>6. QED
  BY <1>1, <1>4, <1>5, PTL DEF MoveSpec, ContractKept, Contract!ContractSpec
=============================================================================
