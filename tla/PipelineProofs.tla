--------------------------- MODULE PipelineProofs ---------------------------
(****************************************************************************)
(* Three things about the pipeline, for any titles, hashes, trackers,       *)
(* workers, sources and faults.  It drives the ledger only along its own    *)
(* operations, so what is proved of LedgerSpec for any callers holds while  *)
(* the tracker, the intake and the operator interleave and crash.  The two  *)
(* endings a row can record are true when they are recorded: a lost         *)
(* download is gone from CloudDrive, an archived title is in the library.   *)
(* And a replacement that took the old copy out has a new one to file.      *)
(*                                                                          *)
(* The second and third parts are invariants about what each process has    *)
(* read and not yet used, and one lemma per kind of shared state (rows,     *)
(* attempts, tasks, folders, library) about what a step of anybody else     *)
(* does to it.                                                              *)
(****************************************************************************)
EXTENDS AcquisitionPipeline, AcquisitionLedgerProofs

Fields == {"pc", "op", "listing", "todo", "a", "n", "m", "st", "dir", "verdict"}

(* A process about to record a pasted magnet has one.                       *)
Pasted(r) == r.pc = "record_chosen" => r.dir \in Hashes

ProcInv ==
    /\ DOMAIN proc = Procs
    /\ \A p \in Procs : DOMAIN proc[p] = Fields /\ Pasted(proc[p])

LEMMA IdleIsUnpasted ==
    /\ DOMAIN Idle = Fields
    /\ Idle.pc = "idle"
BY DEF Idle, Fields

(* A process goes on to a label, to its next title, or out of what it did.  *)
LEMMA GotoKeeps ==
    ASSUME ProcInv, NEW p \in Procs, NEW l, l # "record_chosen", Goto(p, l)
    PROVE  ProcInv'
BY DEF ProcInv, Goto, Pasted, Fields

LEMMA DoneKeeps ==
    ASSUME ProcInv, NEW p \in Procs, Done(p)
    PROVE  ProcInv'
BY IdleIsUnpasted DEF ProcInv, Done, Pasted, Fields, LoopOf

LEMMA AbortKeeps ==
    ASSUME ProcInv, NEW p \in Procs, Abort(p)
    PROVE  ProcInv'
BY IdleIsUnpasted DEF ProcInv, Abort, Pasted, Fields

USE DEF Procs

(* The poll.                                                                *)
LEMMA PollKeeps ==
    ASSUME ProcInv, NEW t \in Trackers, Poll(t)
    PROVE  ProcInv'
<1> USE DEF At
<1>1. ASSUME PollList(t) \/ PollJoin(t) \/ Inspect(t) \/ Snapshot(t) PROVE ProcInv'
  BY <1>1 DEF ProcInv, Pasted, Fields, PollList, PollJoin, Inspect, Snapshot
<1>2. ASSUME Advance(t) PROVE ProcInv'
  <2>1. CASE \E x \in proc[t].todo :
            proc' = [proc EXCEPT ![t] =
                IF AdvanceTo(t, x) = "advance"
                THEN [proc[t] EXCEPT !.todo = @ \ {x}]
                ELSE [proc[t] EXCEPT !.pc = AdvanceTo(t, x), !.todo = @ \ {x},
                                     !.a = x[1], !.n = x[2], !.st = x[3], !.verdict = "error"]]
    <3>1. PICK x \in proc[t].todo :
            proc' = [proc EXCEPT ![t] =
                IF AdvanceTo(t, x) = "advance"
                THEN [proc[t] EXCEPT !.todo = @ \ {x}]
                ELSE [proc[t] EXCEPT !.pc = AdvanceTo(t, x), !.todo = @ \ {x},
                                     !.a = x[1], !.n = x[2], !.st = x[3], !.verdict = "error"]]
      BY <2>1
    <3>2. AdvanceTo(t, x) \in {"check", "conclude", "progress", "advance"}
      BY DEF AdvanceTo
    <3>3. QED
      BY <1>2, <3>1, <3>2 DEF ProcInv, Pasted, Fields, Advance
  <2>2. CASE Goto(t, "snapshot")
    BY <2>2, GotoKeeps
  <2>3. QED
    BY <1>2, <2>1, <2>2 DEF Advance
<1>3. ASSUME Progress(t) PROVE ProcInv'
  <2>1. CASE Done(t)
    BY <2>1, DoneKeeps
  <2>2. CASE proc' = [proc EXCEPT ![t].pc = "conclude", ![t].verdict = "stalled"]
    BY <2>2 DEF ProcInv, Pasted, Fields
  <2>3. QED
    BY <1>3, <2>1, <2>2 DEF Progress
<1>4. ASSUME Check(t) \/ Finish(t) \/ Claim(t) \/ Release(t) \/ SettleRow(t) PROVE ProcInv'
  BY <1>4, DoneKeeps, GotoKeeps DEF Check, Finish, Claim, Release, SettleRow, CasAttemptOr
<1>5. ASSUME Locate(t) PROVE ProcInv'
  <2>1. CASE \E d : proc' = [proc EXCEPT ![t].pc = "file", ![t].dir = d]
    BY <2>1 DEF ProcInv, Pasted, Fields
  <2>2. QED
    BY <1>5, <2>1, GotoKeeps DEF Locate
<1>6. ASSUME File(t) \/ TryNext(t) \/ Add(t) \/ Unsubmit(t) \/ Exhaust(t) PROVE ProcInv'
  BY <1>6, GotoKeeps DEF File, TryNext, Add, AddOr, Unsubmit, Exhaust
<1>7. ASSUME NEW v, proc' = [proc EXCEPT ![t].pc = "settle", ![t].verdict = v] PROVE ProcInv'
  BY <1>7 DEF ProcInv, Pasted, Fields
<1>8. ASSUME Delete(t) \/ Move(t) PROVE ProcInv'
  BY <1>7, <1>8, GotoKeeps DEF Delete, Move
<1>9. ASSUME SettleAttempt(t) PROVE ProcInv'
  BY <1>9, DoneKeeps, GotoKeeps DEF SettleAttempt
<1>10. ASSUME Conclude(t) PROVE ProcInv'
  BY <1>10, DoneKeeps, GotoKeeps, AbortKeeps DEF Conclude, CasAttemptOr
<1>11. ASSUME Submit(t) PROVE ProcInv'
  BY <1>11, GotoKeeps DEF Submit, ClaimOr, ProcInv, Pasted, Fields
<1>12. ASSUME Remove(t) PROVE ProcInv'
  BY <1>12, DoneKeeps DEF Remove
<1>13. ASSUME Sweep(t) PROVE ProcInv'
  <2>1. ASSUME NEW x, NEW d,
               LET picked == [proc[t] EXCEPT !.todo = @ \ {x}, !.a = x[1], !.n = x[2],
                                             !.st = x[3], !.verdict = "lost"]
               IN  \/ proc' = [proc EXCEPT ![t] = [picked EXCEPT !.pc = "finish", !.dir = d]]
                   \/ proc' = [proc EXCEPT ![t] = [picked EXCEPT !.pc = "conclude"]]
        PROVE  ProcInv'
    BY ZenonT(40), <2>1 DEF ProcInv, Pasted, Fields
  <2>2. QED
    BY <1>13, <2>1, GotoKeeps DEF Sweep
<1>14. ASSUME Clear(t) \/ Cleared(t) \/ Due(t) \/ Retry(t) PROVE ProcInv'
  <2>1. CASE Clear(t)
    BY <2>1, IdleIsUnpasted DEF ProcInv, Pasted, Fields, Clear
  <2>2. CASE Cleared(t)
    BY <2>2, IdleIsUnpasted DEF ProcInv, Pasted, Fields, Cleared
  <2>3. CASE Due(t)
    BY <2>3, IdleIsUnpasted DEF ProcInv, Pasted, Fields, Due
  <2>4. ASSUME NEW x, proc' = [proc EXCEPT ![t].pc = "record", ![t].todo = @ \ {x},
                                          ![t].a = x[1], ![t].st = x[3]]
        PROVE  ProcInv'
    BY <2>4 DEF ProcInv, Pasted, Fields
  <2>5. CASE Retry(t)
    BY <2>4, <2>5, IdleIsUnpasted DEF ProcInv, Pasted, Fields, Retry
  <2>6. QED
    BY <1>14, <2>1, <2>2, <2>3, <2>5
<1>15. QED
  BY <1>1, <1>2, <1>3, <1>4, <1>5, <1>6, <1>8, <1>9, <1>10, <1>11, <1>12, <1>13, <1>14 DEF Poll

LEMMA IntakeKeeps ==
    ASSUME ProcInv, NEW p \in Procs, Intake(p)
    PROVE  ProcInv'
<1>1. ASSUME Record(p) \/ AddNext(p) \/ UnsubmitNext(p) PROVE ProcInv'
  BY <1>1, GotoKeeps DEF Record, AddNext, AddOr, UnsubmitNext
<1>2. ASSUME ClaimNext(p) PROVE ProcInv'
  BY <1>2, GotoKeeps, DoneKeeps DEF ClaimNext, ClaimOr, ProcInv, Pasted, Fields
<1>3. ASSUME Reread(p) \/ Park(p) PROVE ProcInv'
  <2>1. ASSUME NEW l \in {"lift", "repark"}, NEW s, proc' = [proc EXCEPT ![p].pc = l, ![p].st = s]
        PROVE  ProcInv'
    BY <2>1 DEF ProcInv, Pasted, Fields
  <2>2. QED
    BY <1>3, <2>1, DoneKeeps DEF Reread, Park
<1>4. ASSUME Lift(p) \/ Repark(p) PROVE ProcInv'
  BY <1>4, DoneKeeps, AbortKeeps DEF Lift, Repark
<1>5. QED
  BY <1>1, <1>2, <1>3, <1>4 DEF Intake

(* A request, or a source's sighting, and what follows.                     *)
LEMMA WorkerKeeps ==
    ASSUME ProcInv, NEW w \in Workers, Continue(w) \/ \E a \in Avids : Request(w, a)
    PROVE  ProcInv'
<1>1. ASSUME Discover(w) \/ RearmAccepted(w) \/ Held(w) PROVE ProcInv'
  BY <1>1, GotoKeeps, DoneKeeps DEF Discover, RearmAccepted, Held
<1>2. ASSUME OpClaim(w) \/ Pick(w) \/ RecordChosen(w) PROVE ProcInv'
  <2>1. CASE OpClaim(w)
    BY <2>1, DoneKeeps DEF OpClaim, ClaimOr, ProcInv, Pasted, Fields
  <2>2. CASE Pick(w)
    BY <2>2 DEF Pick, ProcInv, Pasted, Fields
  <2>3. CASE RecordChosen(w)
    BY <2>3 DEF RecordChosen, ProcInv, Pasted, Fields
  <2>4. QED
    BY <1>2, <2>1, <2>2, <2>3
<1>3. ASSUME ClaimChosen(w) \/ OpAdd(w) \/ OpUnsubmit(w) PROVE ProcInv'
  BY <1>3, GotoKeeps, DoneKeeps DEF ClaimChosen, OpAdd, AddOr, OpUnsubmit
<1>4. ASSUME NEW a \in Avids, Request(w, a) PROVE ProcInv'
  <2>1. ASSUME NEW l \in {"op_claim", "pick"}, NEW op, Begin(w, op, a, l) PROVE ProcInv'
    BY <2>1 DEF Begin, ProcInv, Pasted, Fields
  <2>2. ASSUME NEW op, proc' = [proc EXCEPT ![w].pc = "discover", ![w].op = op, ![w].a = a] PROVE ProcInv'
    BY <2>2 DEF ProcInv, Pasted, Fields
  <2>3. ASSUME OpReplace(w, a) PROVE ProcInv'
    <3>1. PICK h \in (Hashes \ Tried(a)) \union {NoHash} :
            proc' = [proc EXCEPT ![w] = [Idle EXCEPT
                      !.pc = IF h = NoHash THEN "record" ELSE "record_chosen",
                      !.op = "replace", !.a = a, !.st = "discovered", !.dir = h]]
      BY <2>3 DEF OpReplace
    <3>2. QED
      BY <3>1, IdleIsUnpasted DEF ProcInv, Pasted, Fields
  <2>4. QED
    BY <1>4, <2>1, <2>2, <2>3 DEF Request, Sight, OpRetry, OpMagnet
<1>5. QED
  BY <1>1, <1>2, <1>3, <1>4, IntakeKeeps DEF Continue

(* Every step.                                                              *)
LEMMA StepKeeps == ProcInv /\ [Next]_vars => ProcInv'
<1> SUFFICES ASSUME ProcInv, [Next]_vars PROVE ProcInv'
  OBVIOUS
<1>1. ASSUME UNCHANGED proc PROVE ProcInv'
  BY <1>1 DEF ProcInv
<1>2. ASSUME NEW p \in Procs, Crash(p) \/ Restart(p) PROVE ProcInv'
  BY <1>2, IdleIsUnpasted DEF Crash, Restart, ProcInv, Pasted, Fields
<1>3. ASSUME NEW h \in Hashes, Cloud(h) PROVE ProcInv'
  BY <1>1, <1>3 DEF Cloud, CloudFinishes, CloudFails, CloudDrops, MountShows, GraceEnds
<1>4. ASSUME NEW a \in Avids, OpIgnore(a) \/ OpResume(a) \/ RetryTimer(a) PROVE ProcInv'
  BY <1>1, <1>4 DEF OpIgnore, OpResume, RetryTimer
<1>5. QED
  BY <1>1, <1>2, <1>3, <1>4, PollKeeps, IntakeKeeps, WorkerKeeps DEF Next, vars

-----------------------------------------------------------------------------
(* What the callers write are steps of the ledger.                          *)
Drives == [LedgerNext]_ledgerVars

(* A compare-and-set of a row, and its timer.                               *)
LEMMA RowWrites ==
    ASSUME LedgerTypeOK, NEW a, NEW timer \in Timers,
           \/ \E expected, target : CasRow(a, expected, target, timer) \/ Transition(a, expected, target, timer)
           \/ Insert(a, timer) \/ Rearm(a, timer)
    PROVE  Drives
<1>1. CASE a \notin Avids
  BY <1>1 DEF Drives, LedgerTypeOK, CasRow, Transition, Insert, Rearm, ledgerVars
<1>2. ASSUME a \in Avids, NEW expected, NEW target, Transition(a, expected, target, timer) PROVE Drives
  <2>1. expected \in AcqStates
    BY <1>2 DEF LedgerTypeOK, Row, Transition
  <2>2. target \in AcqStates
    BY <1>2, <2>1, EdgesStayInStates DEF Transition
  <2>3. QED
    BY <1>2, <2>1, <2>2 DEF Drives, LedgerNext, RowStep
<1>3. QED
  BY <1>1, <1>2 DEF Drives, LedgerNext, RowStep, CasRow

(* A compare-and-set of an attempt, a claim, a progress record.             *)
LEMMA AttemptWrites ==
    ASSUME LedgerTypeOK, NEW a, NEW n,
           \/ \E expected, target : CasAttempt(a, n, expected, target)
           \/ ClaimNextPending(a, n) \/ ClaimAttempt(a, n) \/ RecordProgress(a, n)
    PROVE  Drives
<1>1. CASE a \notin Avids
  BY <1>1 DEF Drives, LedgerTypeOK, CasAttempt, TransitionAttempt, SetAttempt, ClaimNextPending, ClaimAttempt,
              RecordProgress, ledgerVars
<1>2. ASSUME a \in Avids, n \in DOMAIN attempts[a], NEW expected, NEW target,
             TransitionAttempt(a, n, expected, target)
      PROVE  Drives
  <2>1. attempts[a][n] \in Attempt
    BY <1>2 DEF LedgerTypeOK
  <2>2. expected \in AttemptStates
    BY <1>2, <2>1 DEF Attempt, TransitionAttempt
  <2>3. target \in AttemptStates
    BY <1>2, <2>2, EdgesStayInStates DEF TransitionAttempt
  <2>4. QED
    BY <1>2, <2>2, <2>3 DEF Drives, LedgerNext, AttemptStep
<1>3. QED
  BY <1>1, <1>2 DEF Drives, LedgerNext, AttemptStep, CasAttempt, TransitionAttempt, ClaimNextPending, ClaimAttempt,
                    Claimable, RecordProgress

(* Candidates recorded, a resolver's or a pasted one.                       *)
LEMMA CandidateWrites ==
    ASSUME LedgerTypeOK, NEW a, NEW fresh \in CandidateLists \cup {<<h>> : h \in Hashes}, AddAttempts(a, fresh)
    PROVE  Drives
<1>1. CASE a \notin Avids
  BY <1>1 DEF Drives, LedgerTypeOK, AddAttempts, ledgerVars
<1>2. fresh \in CandidateLists
  <2>1. ASSUME NEW h \in Hashes PROVE <<h>> \in [1..1 -> Hashes]
    OBVIOUS
  <2>2. 1 \in 1..MaxCandidates
    BY MaxCandidatesAssumption
  <2>3. QED
    BY <2>1, <2>2 DEF CandidateLists
<1>3. QED
  BY <1>1, <1>2 DEF Drives, LedgerNext, AttemptStep

LEMMA ClaimDrives ==
    ASSUME LedgerTypeOK, NEW p, NEW won, NEW none, ClaimOr(p, won, none)
    PROVE  Drives
BY AttemptWrites DEF ClaimOr, Drives

LEMMA PollDrives ==
    ASSUME LedgerTypeOK, NEW t \in Trackers, Poll(t)
    PROVE  Drives
<1>1. ASSUME UNCHANGED ledgerVars PROVE Drives
  BY <1>1 DEF Drives
<1>2. ASSUME PollList(t) \/ PollJoin(t) \/ Advance(t) \/ Check(t) \/ Locate(t) \/ File(t) \/ Inspect(t) \/ Delete(t)
             \/ Move(t) \/ TryNext(t) \/ Add(t) \/ Remove(t) \/ Snapshot(t) \/ Sweep(t) \/ Clear(t) \/ Cleared(t)
             \/ Due(t) \/ Retry(t)
      PROVE  Drives
  BY <1>1, <1>2 DEF PollList, PollJoin, Advance, Check, Locate, File, Inspect, Delete, Move, TryNext, Add, Remove,
                    Snapshot, Sweep, Clear, Cleared, Due, Retry
<1>3. ASSUME Progress(t) \/ Finish(t) \/ Claim(t) \/ Release(t) \/ SettleAttempt(t) \/ Conclude(t) \/ Unsubmit(t)
      PROVE  Drives
  BY <1>1, <1>3, AttemptWrites DEF Progress, Finish, Claim, Release, SettleAttempt, Conclude, Unsubmit, CasAttemptOr
<1>4. ASSUME SettleRow(t) \/ Exhaust(t) PROVE Drives
  BY <1>4, RowWrites DEF SettleRow, Exhaust, Timers
<1>5. ASSUME Submit(t) PROVE Drives
  BY <1>5, ClaimDrives DEF Submit
<1>6. QED
  BY <1>2, <1>3, <1>4, <1>5 DEF Poll

LEMMA IntakeDrives ==
    ASSUME LedgerTypeOK, NEW p \in Procs, Intake(p)
    PROVE  Drives
<1>1. ASSUME UNCHANGED ledgerVars PROVE Drives
  BY <1>1 DEF Drives
<1>2. ASSUME Record(p) PROVE Drives
  BY <1>1, <1>2, CandidateWrites DEF Record
<1>3. ASSUME ClaimNext(p) PROVE Drives
  BY <1>3, ClaimDrives DEF ClaimNext
<1>4. ASSUME AddNext(p) \/ Reread(p) \/ Park(p) PROVE Drives
  BY <1>1, <1>4 DEF AddNext, Reread, Park
<1>5. ASSUME UnsubmitNext(p) PROVE Drives
  BY <1>5, AttemptWrites DEF UnsubmitNext
<1>6. ASSUME Lift(p) \/ Repark(p) PROVE Drives
  BY <1>1, <1>6, RowWrites DEF Lift, Repark, Timers
<1>7. QED
  BY <1>2, <1>3, <1>4, <1>5, <1>6 DEF Intake

LEMMA WorkerDrives ==
    ASSUME LedgerTypeOK, ProcInv, NEW w \in Workers, Continue(w) \/ \E a \in Avids : Request(w, a)
    PROVE  Drives
<1>1. ASSUME UNCHANGED ledgerVars PROVE Drives
  BY <1>1 DEF Drives
<1>2. ASSUME Discover(w) \/ RearmAccepted(w) \/ Held(w) PROVE Drives
  BY <1>1, <1>2, RowWrites DEF Discover, RearmAccepted, Held, Timers
<1>3. ASSUME OpClaim(w) PROVE Drives
  BY <1>3, ClaimDrives DEF OpClaim
<1>4. ASSUME Pick(w) \/ OpAdd(w) PROVE Drives
  BY <1>1, <1>4 DEF Pick, OpAdd
<1>5. ASSUME ClaimChosen(w) \/ OpUnsubmit(w) PROVE Drives
  BY <1>1, <1>5, AttemptWrites DEF ClaimChosen, OpUnsubmit
<1>6. ASSUME RecordChosen(w) PROVE Drives
  <2>1. proc[w].dir \in Hashes
    BY <1>6 DEF ProcInv, Pasted, RecordChosen, At
  <2>2. QED
    BY <1>1, <1>6, <2>1, CandidateWrites DEF RecordChosen
<1>7. ASSUME NEW a \in Avids, Request(w, a) PROVE Drives
  <2>1. ASSUME OpReplace(w, a) PROVE Drives
    BY <2>1 DEF OpReplace, Drives, LedgerNext, RowStep
  <2>2. ASSUME NEW h \in Hashes, OpMagnet(w, a, h) PROVE Drives
    BY <2>2, CandidateWrites DEF OpMagnet
  <2>3. QED
    BY <1>1, <1>7, <2>1, <2>2 DEF Request, Sight, OpRetry
<1>8. QED
  BY <1>2, <1>3, <1>4, <1>5, <1>6, <1>7, IntakeDrives DEF Continue

LEMMA StepDrives == LedgerTypeOK /\ ProcInv /\ [Next]_vars => Drives
<1> SUFFICES ASSUME LedgerTypeOK, ProcInv, [Next]_vars PROVE Drives
  OBVIOUS
<1>1. ASSUME UNCHANGED ledgerVars PROVE Drives
  BY <1>1 DEF Drives
<1>2. ASSUME NEW p \in Procs, Crash(p) \/ Restart(p) PROVE Drives
  BY <1>1, <1>2 DEF Crash, Restart
<1>3. ASSUME NEW h \in Hashes, Cloud(h) PROVE Drives
  BY <1>1, <1>3 DEF Cloud, CloudFinishes, CloudFails, CloudDrops, MountShows, GraceEnds
<1>4. ASSUME NEW a \in Avids, OpIgnore(a) \/ OpResume(a) PROVE Drives
  BY <1>4, RowWrites DEF OpIgnore, OpResume, Timers
<1>5. ASSUME NEW a \in Avids, RetryTimer(a) PROVE Drives
  BY <1>5 DEF RetryTimer, Drives, LedgerNext, RowStep
<1>6. CASE UNCHANGED vars
  BY <1>1, <1>6 DEF vars, ledgerVars
<1>7. QED
  BY <1>2, <1>3, <1>4, <1>5, <1>6, PollDrives, IntakeDrives, WorkerDrives DEF Next

-----------------------------------------------------------------------------
(* Whatever the tracker, the sources and the operator do, and wherever they *)
(* crash, they drive the ledger only along its own operations.              *)
THEOREM PipelineImplementsLedger == Spec => LedgerRefined
<1>1. Init => LedgerInit /\ LedgerTypeOK /\ ProcInv
  BY InitialLedger, IdleIsUnpasted DEF Init, ProcInv, Pasted
<1>2. LedgerTypeOK /\ ProcInv /\ [Next]_vars => [LedgerNext]_ledgerVars /\ LedgerTypeOK' /\ ProcInv'
  BY StepDrives, StepKeeps, TypeStep DEF Drives
<1>3. QED
  BY <1>1, <1>2, PTL DEF Spec, LedgerSpec, LedgerRefined

(* Hence no hash is tried twice for a title, or live twice at CloudDrive,   *)
(* and no replacement floor outlives its replacement, in any run of the     *)
(* pipeline (add_attempts, the partial unique index, transition).           *)
THEOREM PipelineAccounted == Spec => []LedgerAccounted
BY PipelineImplementsLedger, LedgerStaysAccounted, PTL DEF LedgerRefined

(* And none of its steps rewrites what a title has been through.            *)
THEOREM PipelineKeepsPast == Spec => PastKept
BY PipelineImplementsLedger, PastStays, PTL DEF LedgerRefined
-----------------------------------------------------------------------------
(***************************************************************************)
(* Where each process is, and what it may rely on there.                   *)
(***************************************************************************)
(* The labels at which the tracker holds an attempt, those at which a       *)
(* process holds a title, and those at which it holds a magnet it claims.   *)
AttemptLabels == {"progress", "check", "finish", "claim", "locate", "release", "file", "inspect", "delete", "move",
                  "settle", "settle_row", "conclude", "next", "submit", "add", "unsubmit", "exhaust", "remove"}
TitleLabels == {"discover", "rearm", "held", "record", "record_chosen", "claim_next", "add_next", "unsubmit_next",
                "reread", "lift", "park", "repark", "op_claim", "op_add", "op_unsubmit", "pick", "claim_chosen"}
AddLabels == {"add", "add_next", "op_add"}
MagnetLabels == AddLabels \union {"unsubmit", "unsubmit_next", "op_unsubmit", "claim_chosen"}
FolderLabels == {"file", "inspect", "delete", "move"}
PollLabels == {"join", "advance", "progress", "check", "locate", "snapshot"}
RestLabels == {"idle", "down", "due", "cleared"}

(* What a process read keeps naming rows and attempts there are.            *)
TodoThere(todo, op, ats) ==
    \A x \in todo : x[1] \in Avids /\ (op \in {"poll", "sweep"} => x[2] \in DOMAIN ats[x[1]])

Placed(r, ats) ==
    /\ r.pc \in AttemptLabels => r.a \in Avids /\ r.n \in DOMAIN ats[r.a] /\ r.op \in {"poll", "sweep"}
    /\ r.pc \notin AttemptLabels => r.n = 0
    /\ r.pc \in TitleLabels => r.a \in Avids /\ r.op \notin {"poll", "sweep"}
    /\ r.pc \notin AttemptLabels \union TitleLabels => r.a = NoTitle
    /\ r.pc \in MagnetLabels => r.m \in DOMAIN ats[r.a]
    /\ r.pc = "pick" => 1 \in DOMAIN ats[r.a]
    /\ r.pc \in RestLabels => r.op = "none"
    /\ r.pc \in PollLabels => r.op = "poll"
    /\ r.pc \in {"sweeping", "clear"} => r.op = "sweep"
    /\ r.pc = "retrying" => r.op = "due"
    /\ TodoThere(r.todo, r.op, ats)
    /\ r.dir \in Hashes \union {NoHash}
    /\ r.pc \in FolderLabels \/ (r.pc \in {"finish", "claim"} /\ r.op # "poll") => r.dir \in Hashes

ProcsPlaced == \A p \in Procs : Placed(proc[p], attempts)

CloudTypeOK ==
    /\ task \in [Hashes -> {"none", "running", "finished", "error"}]
    /\ folder \in [Hashes -> {"none", "hidden", "visible"}]
    /\ library \in [Avids -> Hashes \union {NoHash, Old}]
    /\ recent \subseteq Hashes

(* A replacement ends with the archived row, and occurs only if asked for.  *)
ReplacingIsOpen == \A a \in Avids : acq[a].replacing => acq[a].state # "archived" /\ "replace" \in Handlers

(* Only an RSS run asks the library.                                        *)
HeldIsFeeds == \A w \in Procs : proc[w].op = "rss" \/ At(w, "held") => "rss" \in Handlers

(* The tracker that filed a title knows it is in the library, and the one   *)
(* about to take the old copy out that the row is not archived.             *)
FiledIsHeld ==
    \A t \in Trackers : proc[t].pc \in {"settle", "settle_row"} /\ proc[t].verdict = "archived"
        => library[proc[t].a] # NoHash
OpenWhileReplaced ==
    \A t \in Trackers : proc[t].pc \in {"inspect", "delete"} => acq[proc[t].a].state # "archived" /\ "replace" \in Handlers

(* Whatever is about to be handed to CloudDrive is in its grace period.     *)
AddedIsRecent == \A p \in Procs : proc[p].pc \in AddLabels => HashOf(proc[p].a, proc[p].m) \in recent

(* CloudDrive had what it has at the time of the listing, but for the       *)
(* magnets handed to it since.                                              *)
ListedOrRecent ==
    \A t \in Trackers : proc[t].op = "poll" =>
        \A h \in Hashes : proc[t].listing[h] = "none" /\ h \notin recent => task[h] = "none"

(* An attempt that was not listed is over, or gone from CloudDrive.         *)
Gone(a, n) ==
    /\ StateOf(a, n) # "pending"
    /\ StateOf(a, n) \in InFlightStates => task[HashOf(a, n)] = "none" /\ HashOf(a, n) \notin recent
SweptIsGone ==
    \A t \in Trackers :
        /\ proc[t].op = "sweep" => \A x \in proc[t].todo : Gone(x[1], x[2])
        /\ At(t, "conclude") /\ proc[t].verdict = "lost" => Gone(proc[t].a, proc[t].n)
(* Attempts are never removed, and neither a hash nor a conclusion changes: *)
(* what is not in flight any more, nor about to be, never is again.         *)
Grown ==
    \A a \in Avids : \A i \in DOMAIN attempts[a] :
        /\ i \in DOMAIN attempts'[a]
        /\ attempts'[a][i].hash = attempts[a][i].hash
        /\ StateOf(a, i) # "pending" => StateOf(a, i)' # "pending"
        /\ StateOf(a, i) # "pending" /\ StateOf(a, i)' \in InFlightStates => StateOf(a, i) \in InFlightStates

LEMMA AttemptsGrow == LedgerTypeOK /\ Drives => Grown
<1> SUFFICES ASSUME LedgerTypeOK, Drives PROVE Grown
  OBVIOUS
<1>1. HistoryStep
  BY HistoryStepKept DEF Drives
<1>2. SUFFICES ASSUME NEW a \in Avids, NEW i \in DOMAIN attempts[a],
                      attempts'[a][i].state # attempts[a][i].state, attempts[a][i].state # "pending"
               PROVE  /\ attempts'[a][i].state # "pending"
                      /\ attempts'[a][i].state \in InFlightStates => attempts[a][i].state \in InFlightStates
  BY <1>1 DEF HistoryStep, Grown, StateOf
<1>3. CASE \E b \in Avids : RowStep(b)
  BY <1>2, <1>3, RowStepEffect
<1>4. CASE \E b \in Avids : \E fresh \in CandidateLists : AddAttempts(b, fresh)
  BY <1>2, <1>4, AddAttemptsEffect
<1>5. ASSUME NEW b \in Avids, NEW n \in DOMAIN attempts[b], AttemptMove(b, n)
      PROVE  /\ attempts'[a][i].state # "pending"
             /\ attempts'[a][i].state \in InFlightStates => attempts[a][i].state \in InFlightStates
  <2>1. ASSUME NEW s, SetAttempt(b, n, s), s # "pending",
               s \in InFlightStates => attempts[b][n].state \in {"pending"} \union InFlightStates
        PROVE  /\ attempts'[a][i].state # "pending"
               /\ attempts'[a][i].state \in InFlightStates => attempts[a][i].state \in InFlightStates
    <3>1. attempts \in [Avids -> Seq(Attempt)]
      BY DEF LedgerTypeOK
    <3>2. b = a /\ n = i /\ attempts'[a][i].state = s
      BY <1>2, <2>1, <3>1 DEF SetAttempt, Attempt
    <3>3. QED
      BY <1>2, <2>1, <3>2
  <2>2. CASE ClaimNextPending(b, n) \/ ClaimAttempt(b, n) \/ RecordProgress(b, n)
    BY <2>1, <2>2 DEF ClaimNextPending, ClaimAttempt, RecordProgress, Claimable, InFlightStates
  <2>3. ASSUME NEW expected \in AttemptStates, NEW target, TransitionAttempt(b, n, expected, target)
        PROVE  /\ attempts'[a][i].state # "pending"
               /\ attempts'[a][i].state \in InFlightStates => attempts[a][i].state \in InFlightStates
    <3>1. target # "pending" /\ (target \in InFlightStates => expected \in {"pending"} \union InFlightStates)
      BY <2>3 DEF TransitionAttempt, AttemptEdges, AttemptStates, InFlightStates
    <3>2. QED
      BY <2>1, <2>3, <3>1 DEF TransitionAttempt
  <2>4. QED
    BY <1>5, <2>2, <2>3 DEF AttemptMove
<1>6. CASE UNCHANGED ledgerVars
  BY <1>2, <1>6 DEF ledgerVars
<1>7. QED
  BY <1>3, <1>4, <1>5, <1>6, StepCases DEF Drives

LEMMA PlacedGrows ==
    ASSUME Grown, NEW r, Placed(r, attempts)
    PROVE  Placed(r, attempts')
<1>1. \A a \in Avids : DOMAIN attempts[a] \subseteq DOMAIN attempts'[a]
  BY DEF Grown
<1>2. r.pc \in MagnetLabels => r.pc \in AttemptLabels \union TitleLabels
  BY DEF MagnetLabels, AddLabels, AttemptLabels, TitleLabels
<1>3. r.pc = "pick" => r.pc \in TitleLabels
  BY DEF TitleLabels
<1>4. TodoThere(r.todo, r.op, attempts) => TodoThere(r.todo, r.op, attempts')
  BY <1>1 DEF TodoThere
<1>5. QED
  BY <1>1, <1>2, <1>3, <1>4 DEF Placed

(* A step of a process leaves the others where they are.                    *)
Alone(p) == \A q \in Procs \ {p} : proc'[q] = proc[q]

LEMMA OneIsPlaced ==
    ASSUME ProcsPlaced, Grown, NEW p, Alone(p), Placed(proc'[p], attempts)
    PROVE  ProcsPlaced'
<1>1. Placed(proc'[p], attempts')
  BY PlacedGrows
<1>2. QED
  BY <1>1, PlacedGrows DEF ProcsPlaced, Alone

(* Going on, with the same title or the same attempt.                       *)
LEMMA GotoPlaced ==
    ASSUME ProcInv, ProcsPlaced, NEW p \in Procs, NEW l, Goto(p, l),
           \/ /\ l \in AttemptLabels \ ({"finish", "claim"} \union PollLabels)
              /\ proc[p].pc \in AttemptLabels
              /\ l \in FolderLabels => proc[p].dir \in Hashes
           \/ l \in TitleLabels \ {"pick"} /\ proc[p].pc \in TitleLabels,
           l \in MagnetLabels => proc[p].m \in DOMAIN attempts[proc[p].a]
    PROVE  Alone(p) /\ Placed(proc'[p], attempts)
<1>1. proc'[p] = [proc[p] EXCEPT !.pc = l] /\ Alone(p)
  BY DEF Goto, ProcInv, Alone
<1>2. Placed(proc[p], attempts)
  BY DEF ProcsPlaced
<1>3. /\ proc'[p].pc = l /\ proc'[p].op = proc[p].op /\ proc'[p].a = proc[p].a /\ proc'[p].n = proc[p].n
      /\ proc'[p].m = proc[p].m /\ proc'[p].dir = proc[p].dir /\ proc'[p].todo = proc[p].todo
  BY <1>1 DEF ProcInv, Fields
<1>4. CASE l \in TitleLabels
  <2>1. l \notin AttemptLabels \union FolderLabels \union RestLabels \union
               PollLabels \union {"sweeping", "clear", "retrying", "finish", "claim"}
    BY <1>4 DEF TitleLabels, AttemptLabels, FolderLabels, RestLabels, PollLabels
  <2>2. proc[p].pc \notin AttemptLabels /\ proc[p].pc \in TitleLabels
    BY <1>4, <2>1 DEF TitleLabels, AttemptLabels
  <2>3. QED
    BY <1>1, <1>2, <1>3, <1>4, <2>1, <2>2 DEF Placed
<1>5. CASE l \in AttemptLabels
  <2>1. l \notin TitleLabels \union RestLabels \union {"sweeping", "clear", "retrying", "pick"}
    BY <1>5 DEF TitleLabels, AttemptLabels, RestLabels
  <2>2. proc[p].pc \in AttemptLabels
    BY <1>5, <2>1
  <2>3. QED
    BY <1>1, <1>2, <1>3, <1>5, <2>1, <2>2 DEF Placed
<1>6. QED
  BY <1>4, <1>5

(* What is left of a loop.                                                  *)
LEMMA TodoLess ==
    ASSUME NEW todo, NEW op, NEW ats, TodoThere(todo, op, ats)
    PROVE  /\ \A x : TodoThere(todo \ {x}, op, ats)
           /\ \A x \in todo : x[1] \in Avids /\ (op \in {"poll", "sweep"} => x[2] \in DOMAIN ats[x[1]])
BY DEF TodoThere

LEMMA NothingToDo ==
    ASSUME NEW op, NEW ats
    PROVE  TodoThere({}, op, ats)
BY DEF TodoThere

LEMMA IdlePlaced ==
    ASSUME NEW l, NEW op, NEW todo, NEW listing, NEW ats,
           \/ l \in RestLabels /\ op = "none"
           \/ l \in {"advance", "snapshot"} /\ op = "poll"
           \/ l \in {"sweeping", "clear"} /\ op = "sweep"
           \/ l = "retrying" /\ op = "due",
           TodoThere(todo, op, ats)
    PROVE  Placed([Idle EXCEPT !.pc = l, !.op = op, !.listing = listing, !.todo = todo], ats)
BY NothingToDo DEF Placed, Idle, AttemptLabels, TitleLabels, MagnetLabels, AddLabels, FolderLabels, RestLabels,
   PollLabels

(* A process done with its title, or out of what it did.                    *)
LEMMA DonePlaced ==
    ASSUME ProcInv, ProcsPlaced, NEW p \in Procs, Done(p)
    PROVE  Alone(p) /\ Placed(proc'[p], attempts)
<1>1. Placed(proc[p], attempts)
  BY DEF ProcsPlaced
<1>2. CASE proc[p].op \in {"poll", "sweep", "due"}
  <2>1. proc'[p] = [Idle EXCEPT !.pc = LoopOf[proc[p].op], !.op = proc[p].op,
                                !.listing = proc[p].listing, !.todo = proc[p].todo] /\ Alone(p)
    BY <1>2 DEF Done, ProcInv, Alone, LoopOf
  <2>2. TodoThere(proc[p].todo, proc[p].op, attempts)
    BY <1>1 DEF Placed
  <2>3. Placed([Idle EXCEPT !.pc = LoopOf[proc[p].op], !.op = proc[p].op,
                            !.listing = proc[p].listing, !.todo = proc[p].todo], attempts)
    <3>1. CASE proc[p].op = "poll"
      <4>1. LoopOf[proc[p].op] = "advance"
        BY <3>1 DEF LoopOf
      <4>2. QED
        BY <2>2, <3>1, <4>1, IdlePlaced
    <3>2. CASE proc[p].op = "sweep"
      <4>1. LoopOf[proc[p].op] = "sweeping"
        BY <3>2 DEF LoopOf
      <4>2. QED
        BY <2>2, <3>2, <4>1, IdlePlaced
    <3>3. CASE proc[p].op = "due"
      <4>1. LoopOf[proc[p].op] = "retrying"
        BY <3>3 DEF LoopOf
      <4>2. QED
        BY <2>2, <3>3, <4>1, IdlePlaced
    <3>4. QED
      BY <1>2, <3>1, <3>2, <3>3
  <2>4. QED
    BY <2>1, <2>3
<1>3. CASE proc[p].op \notin {"poll", "sweep", "due"}
  <2>1. proc'[p] = Idle /\ Alone(p)
    BY <1>3 DEF Done, ProcInv, Alone, LoopOf
  <2>2. QED
    BY <2>1, NothingToDo DEF Placed, Idle, AttemptLabels, TitleLabels, MagnetLabels, AddLabels, FolderLabels,
       RestLabels, PollLabels
<1>4. QED
  BY <1>2, <1>3

LEMMA RestPlaced ==
    ASSUME NEW l \in RestLabels, NEW ats
    PROVE  Placed([Idle EXCEPT !.pc = l], ats)
BY NothingToDo DEF Placed, Idle, AttemptLabels, TitleLabels, MagnetLabels, AddLabels, FolderLabels, RestLabels,
   PollLabels

LEMMA AbortPlaced ==
    ASSUME ProcInv, ProcsPlaced, NEW p \in Procs, Abort(p)
    PROVE  Alone(p) /\ Placed(proc'[p], attempts)
<1>1. Idle = [Idle EXCEPT !.pc = "idle"]
  BY DEF Idle
<1>2. Alone(p) /\ proc'[p] \in {[Idle EXCEPT !.pc = "due"], Idle}
  BY DEF Abort, ProcInv, Alone
<1>3. QED
  BY <1>1, <1>2, RestPlaced DEF RestLabels

(* The next one of a poll or a sweep.                                       *)
LEMMA PickedPlaced ==
    ASSUME ProcInv, ProcsPlaced, NEW p \in Procs, NEW x \in proc[p].todo,
           \/ proc[p].pc = "advance" /\ proc'[p].pc \in {"progress", "check", "conclude"} /\ proc'[p].dir = proc[p].dir
           \/ /\ proc[p].pc = "sweeping"
              /\ \/ proc'[p].pc = "finish" /\ proc'[p].dir \in Hashes
                 \/ proc'[p].pc = "conclude" /\ proc'[p].dir = proc[p].dir,
           proc'[p].op = proc[p].op, proc'[p].todo = proc[p].todo \ {x}, proc'[p].a = x[1], proc'[p].n = x[2]
    PROVE  Placed(proc'[p], attempts)
<1>1. Placed(proc[p], attempts) /\ proc[p].op \in {"poll", "sweep"}
  BY DEF ProcsPlaced, Placed, PollLabels
<1>2. x[1] \in Avids /\ x[2] \in DOMAIN attempts[x[1]] /\ TodoThere(proc'[p].todo, proc'[p].op, attempts)
  <2>1. TodoThere(proc[p].todo, proc[p].op, attempts)
    BY <1>1 DEF Placed
  <2>2. TodoThere(proc[p].todo \ {x}, proc[p].op, attempts)
    BY <2>1, TodoLess
  <2>3. x[1] \in Avids /\ x[2] \in DOMAIN attempts[x[1]]
    BY <1>1, <2>1, TodoLess
  <2>4. QED
    BY <2>2, <2>3
<1>3. proc'[p].a \in Avids /\ proc'[p].n \in DOMAIN attempts[proc'[p].a]
  BY <1>2
<1>4. proc'[p].pc \in {"progress", "check", "conclude", "finish"}
  OBVIOUS
<1>5. proc'[p].dir \in Hashes \union {NoHash}
  BY <1>1 DEF Placed
<1>6. proc'[p].pc \in PollLabels => proc'[p].op = "poll"
  BY <1>1 DEF Placed, PollLabels
<1>7. proc'[p].pc = "finish" => proc'[p].dir \in Hashes
  OBVIOUS
<1>8. QED
  BY <1>1, <1>2, <1>3, <1>4, <1>5, <1>6, <1>7 DEF Placed, AttemptLabels, TitleLabels, MagnetLabels, AddLabels,
     FolderLabels, RestLabels

LEMMA HashesThere ==
    ASSUME LedgerTypeOK, NEW a \in Avids, NEW n \in DOMAIN attempts[a]
    PROVE  HashOf(a, n) \in Hashes
<1>1. attempts[a] \in Seq(Attempt)
  BY DEF LedgerTypeOK
<1>2. attempts[a][n] \in Attempt
  BY <1>1
<1>3. QED
  BY <1>2 DEF HashOf, Attempt

LEMMA PollPlaced ==
    ASSUME LedgerTypeOK, ProcInv, ProcsPlaced, NEW t \in Trackers, Poll(t)
    PROVE  Alone(t) /\ Placed(proc'[t], attempts)
<1> USE DEF At
<1> DEFINE Goal == Alone(t) /\ Placed(proc'[t], attempts)
<1>r. Placed(proc[t], attempts)
  BY DEF ProcsPlaced
<1>k. /\ DOMAIN attempts = Avids /\ \A a \in Avids : DOMAIN attempts[a] \subseteq Nat
      /\ \A s : InState(s) = {k \in UNION {{a} \X DOMAIN attempts[a] : a \in Avids} : StateOf(k[1], k[2]) \in s}
  BY DEF LedgerTypeOK, InState
<1>s. ASSUME NEW keys, \A k \in keys : k[1] \in Avids /\ k[2] \in DOMAIN attempts[k[1]]
      PROVE  \A op : TodoThere(AsRead(keys), op, attempts)
  BY <1>s DEF AsRead, TodoThere
<1>i. ASSUME NEW s, NEW k \in InState(s) PROVE k[1] \in Avids /\ k[2] \in DOMAIN attempts[k[1]]
  BY <1>i DEF InState
<1>t. /\ \A x : TodoThere(proc[t].todo \ {x}, proc[t].op, attempts)
      /\ \A x \in proc[t].todo :
            x[1] \in Avids /\ (proc[t].op \in {"poll", "sweep"} => x[2] \in DOMAIN attempts[x[1]])
  BY <1>r, TodoLess DEF Placed
<1>1. ASSUME PollList(t) PROVE Goal
  BY <1>1, <1>r DEF TodoThere, PollList, Alone, ProcInv, Fields, Placed, AttemptLabels, TitleLabels, MagnetLabels,
     AddLabels, FolderLabels, RestLabels, PollLabels
<1>2. ASSUME PollJoin(t) PROVE Goal
  BY <1>2, <1>r, <1>s, <1>i DEF PollJoin, Alone, ProcInv, Fields, Placed, AttemptLabels, TitleLabels, MagnetLabels,
     AddLabels, FolderLabels, RestLabels, PollLabels
<1>3. ASSUME Advance(t) PROVE Goal
  <2>1. ASSUME NEW rest, TodoThere(rest, proc[t].op, attempts),
               proc' = [proc EXCEPT ![t] = [proc[t] EXCEPT !.todo = rest]]
        PROVE  Goal
    BY <1>3, <2>1, <1>r, <1>t DEF Advance, Alone, ProcInv, Fields, Placed, AttemptLabels, TitleLabels, MagnetLabels,
       AddLabels, FolderLabels, RestLabels, PollLabels
  <2>2. ASSUME NEW x \in proc[t].todo, NEW l \in {"check", "conclude", "progress"},
               proc' = [proc EXCEPT ![t] = [proc[t] EXCEPT !.pc = l, !.todo = @ \ {x},
                                                     !.a = x[1], !.n = x[2], !.st = x[3], !.verdict = "error"]]
        PROVE  Goal
    BY <1>3, <2>2, PickedPlaced DEF Advance, ProcInv, Fields, Alone
  <2>3. CASE Goto(t, "snapshot")
    BY <1>3, <2>3, <1>r DEF Advance, Goto, Alone, ProcInv, Fields, Placed, AttemptLabels, TitleLabels, MagnetLabels,
       AddLabels, FolderLabels, RestLabels, PollLabels
  <2>4. \A x : AdvanceTo(t, x) \in {"check", "conclude", "progress", "advance"}
    BY DEF AdvanceTo
  <2>5. ASSUME NEW x \in proc[t].todo,
               proc' = [proc EXCEPT ![t] =
                   IF AdvanceTo(t, x) = "advance"
                   THEN [proc[t] EXCEPT !.todo = @ \ {x}]
                   ELSE [proc[t] EXCEPT !.pc = AdvanceTo(t, x), !.todo = @ \ {x},
                                  !.a = x[1], !.n = x[2], !.st = x[3], !.verdict = "error"]]
        PROVE  Goal
    <3>1. CASE AdvanceTo(t, x) = "advance"
      BY <1>t, <2>1, <2>5, <3>1
    <3>2. CASE AdvanceTo(t, x) # "advance"
      <4>1. AdvanceTo(t, x) \in {"check", "conclude", "progress"}
        BY <2>4, <3>2
      <4>2. QED
        BY <2>2, <2>5, <3>2, <4>1
    <3>3. QED
      BY <3>1, <3>2
  <2>6. QED
    BY <1>3, <2>3, <2>5 DEF Advance
<1>4. ASSUME Progress(t) PROVE Goal
  BY <1>4, <1>r, DonePlaced DEF Progress, Alone, ProcInv, Fields, Placed, AttemptLabels, TitleLabels, MagnetLabels,
     AddLabels, FolderLabels, RestLabels, PollLabels
<1>5. ASSUME Check(t) PROVE Goal
  <2>1. ASSUME NEW l \in {"claim", "finish"}, Goto(t, l) PROVE Goal
    BY <1>5, <2>1, <1>r DEF Check, Goto, Alone, ProcInv, Fields, Placed, AttemptLabels, TitleLabels, MagnetLabels,
       AddLabels, FolderLabels, RestLabels, PollLabels
  <2>2. QED
    BY <1>5, <2>1, DonePlaced DEF Check
<1>6. ASSUME Finish(t) \/ Claim(t) PROVE Goal
  BY <1>6, <1>r, DonePlaced DEF Finish, Claim, CasAttemptOr, Goto, Alone, ProcInv, Fields, Placed, AttemptLabels,
     TitleLabels, MagnetLabels, AddLabels, FolderLabels, RestLabels, PollLabels
<1>7. ASSUME Locate(t) PROVE Goal
  <2>1. proc[t].a \in Avids /\ proc[t].n \in DOMAIN attempts[proc[t].a]
    BY <1>7, <1>r DEF Locate, Placed, AttemptLabels
  <2>2. HashOf(proc[t].a, proc[t].n) \in Hashes
    BY <2>1, HashesThere
  <2>3. ASSUME NEW d \in Hashes, proc' = [proc EXCEPT ![t].pc = "file", ![t].dir = d] PROVE Goal
    BY <1>7, <2>3, <1>r DEF Locate, Alone, ProcInv, Fields, Placed, AttemptLabels, TitleLabels, MagnetLabels,
       AddLabels, FolderLabels, RestLabels, PollLabels
  <2>4. CASE Goto(t, "release")
    BY <1>7, <2>4, GotoPlaced DEF Locate, AttemptLabels, MagnetLabels, AddLabels, FolderLabels, PollLabels
  <2>5. QED
    BY <1>7, <2>2, <2>3, <2>4 DEF Locate, FoldersFor
<1>8. ASSUME Release(t) \/ SettleRow(t) \/ Remove(t) PROVE Goal
  BY <1>8, DonePlaced DEF Release, SettleRow, Remove
<1>9. ASSUME File(t) PROVE Goal
  BY <1>9, <1>r, GotoPlaced DEF File, Placed, AttemptLabels, MagnetLabels, AddLabels, FolderLabels, PollLabels
<1>10. ASSUME Inspect(t) PROVE Goal
  BY <1>10, <1>r DEF Inspect, Goto, Alone, ProcInv, Fields, Placed, AttemptLabels, TitleLabels, MagnetLabels,
     AddLabels, FolderLabels, RestLabels, PollLabels
<1>11. ASSUME NEW v, proc[t].pc \in {"delete", "move"}, proc' = [proc EXCEPT ![t].pc = "settle", ![t].verdict = v]
       PROVE Goal
  BY <1>11, <1>r DEF Alone, ProcInv, Fields, Placed, AttemptLabels, TitleLabels, MagnetLabels, AddLabels,
                    FolderLabels, RestLabels, PollLabels
<1>12. ASSUME Delete(t) \/ Move(t) PROVE Goal
  <2>1. CASE Goto(t, "move") /\ At(t, "delete")
    BY <2>1, <1>r, GotoPlaced DEF Placed, AttemptLabels, MagnetLabels, AddLabels, FolderLabels, PollLabels
  <2>2. QED
    BY <2>1, <1>11, <1>12 DEF Delete, Move
<1>13. ASSUME SettleAttempt(t) \/ Conclude(t) PROVE Goal
  <2>1. CASE Goto(t, "settle_row") /\ At(t, "settle")
    BY <2>1, GotoPlaced DEF AttemptLabels, MagnetLabels, AddLabels, FolderLabels, PollLabels
  <2>2. CASE Goto(t, "next") /\ proc[t].pc \in {"settle", "conclude"}
    BY <2>2, GotoPlaced DEF AttemptLabels, MagnetLabels, AddLabels, FolderLabels, PollLabels
  <2>3. QED
    BY <1>13, <2>1, <2>2, DonePlaced, AbortPlaced DEF SettleAttempt, Conclude, CasAttemptOr
<1>14. ASSUME TryNext(t) \/ Exhaust(t) PROVE Goal
  <2>1. ASSUME NEW l \in {"remove", "exhaust", "submit"}, Goto(t, l), proc[t].pc \in {"next", "exhaust"} PROVE Goal
    BY <2>1, GotoPlaced DEF AttemptLabels, MagnetLabels, AddLabels, FolderLabels, PollLabels
  <2>2. QED
    BY <1>14, <2>1 DEF TryNext, Exhaust
<1>15. ASSUME Submit(t) PROVE Goal
  <2>1. ASSUME NEW m \in Claimable(proc[t].a), proc' = [proc EXCEPT ![t].pc = "add", ![t].m = m] PROVE Goal
    BY <1>15, <2>1, <1>r DEF Claimable, Submit, Alone, ProcInv, Fields, Placed, AttemptLabels, TitleLabels,
       MagnetLabels, AddLabels, FolderLabels, RestLabels, PollLabels
  <2>2. CASE Goto(t, "exhaust")
    BY <1>15, <2>2, GotoPlaced DEF Submit, AttemptLabels, MagnetLabels, AddLabels, FolderLabels, PollLabels
  <2>3. QED
    BY <1>15, <2>1, <2>2 DEF Submit, ClaimOr
<1>16. ASSUME Add(t) \/ Unsubmit(t) PROVE Goal
  <2>1. ASSUME NEW l \in {"remove", "next"}, Goto(t, l), proc[t].pc \in {"add", "unsubmit"} PROVE Goal
    BY <2>1, GotoPlaced DEF AttemptLabels, MagnetLabels, AddLabels, FolderLabels, PollLabels
  <2>2. CASE Goto(t, "unsubmit") /\ At(t, "add")
    BY <2>2, <1>r, GotoPlaced DEF Placed, AttemptLabels, MagnetLabels, AddLabels, FolderLabels, PollLabels
  <2>3. QED
    BY <1>16, <2>1, <2>2 DEF Add, AddOr, Unsubmit
<1>17. ASSUME Snapshot(t) PROVE Goal
  BY <1>17, <1>r, <1>s, <1>i DEF Snapshot, Alone, ProcInv, Fields, Placed, AttemptLabels, TitleLabels, MagnetLabels,
     AddLabels, FolderLabels, RestLabels, PollLabels
<1>18. ASSUME Sweep(t) PROVE Goal
  <2>1. ASSUME NEW x \in proc[t].todo, NEW d \in Hashes,
               proc' = [proc EXCEPT ![t] = [[proc[t] EXCEPT !.todo = @ \ {x}, !.a = x[1], !.n = x[2],
                                               !.st = x[3], !.verdict = "lost"] EXCEPT !.pc = "finish", !.dir = d]]
        PROVE  Goal
    <3>1. proc[t].pc = "sweeping"
      BY <1>18 DEF Sweep
    <3>2. /\ Alone(t) /\ proc'[t].pc = "finish" /\ proc'[t].todo = proc[t].todo \ {x} /\ proc'[t].a = x[1]
          /\ proc'[t].op = proc[t].op /\ proc'[t].n = x[2] /\ proc'[t].dir = d
      BY <2>1 DEF Alone, ProcInv, Fields
    <3>3. QED
      BY <2>1, <3>1, <3>2, PickedPlaced
  <2>2. ASSUME NEW x \in proc[t].todo,
               proc' = [proc EXCEPT ![t] = [[proc[t] EXCEPT !.todo = @ \ {x}, !.a = x[1], !.n = x[2],
                                               !.st = x[3], !.verdict = "lost"] EXCEPT !.pc = "conclude"]]
        PROVE  Goal
    <3>1. proc[t].pc = "sweeping"
      BY <1>18 DEF Sweep
    <3>2. /\ Alone(t) /\ proc'[t].pc = "conclude" /\ proc'[t].todo = proc[t].todo \ {x} /\ proc'[t].a = x[1]
          /\ proc'[t].op = proc[t].op /\ proc'[t].n = x[2] /\ proc'[t].dir = proc[t].dir
      BY <2>2 DEF Alone, ProcInv, Fields
    <3>3. QED
      BY <2>2, <3>1, <3>2, PickedPlaced
  <2>3. CASE Goto(t, "clear")
    BY <1>18, <2>3, <1>r DEF Sweep, Goto, Alone, ProcInv, Fields, Placed, AttemptLabels, TitleLabels, MagnetLabels,
       AddLabels, FolderLabels, RestLabels, PollLabels
  <2>4. QED
    BY <1>18, <2>1, <2>2, <2>3 DEF Sweep, FoldersFor
<1>19. ASSUME Clear(t) \/ Cleared(t) PROVE Goal
  <2>1. ASSUME NEW l \in RestLabels, NEW listing, proc' = [proc EXCEPT ![t] = [Idle EXCEPT !.pc = l, !.listing = listing]]
        PROVE  Goal
    BY <2>1, NothingToDo DEF Idle, Alone, ProcInv, Fields, Placed, AttemptLabels, TitleLabels, MagnetLabels,
       AddLabels, FolderLabels, RestLabels, PollLabels
  <2>2. CASE Cleared(t)
    BY <2>2, RestPlaced DEF Cleared, Alone, ProcInv, RestLabels
  <2>3. QED
    BY <1>19, <2>1, <2>2 DEF Clear, RestLabels
<1>20. ASSUME Due(t) PROVE Goal
  BY <1>20, <1>r DEF Due, TodoThere, Idle, Alone, ProcInv, Fields, Placed, AttemptLabels, TitleLabels, MagnetLabels,
     AddLabels, FolderLabels, RestLabels, PollLabels
<1>21. ASSUME Retry(t) PROVE Goal
  <2>1. ASSUME NEW a \in Avids, NEW s, NEW rest, TodoThere(rest, proc[t].op, attempts),
               proc' = [proc EXCEPT ![t].pc = "record", ![t].todo = rest, ![t].a = a, ![t].st = s]
        PROVE  Goal
    <3>1. proc[t].pc = "retrying" /\ proc[t].op = "due" /\ proc[t].n = 0
      BY <1>21, <1>r DEF Retry, Placed, AttemptLabels
    <3>2. /\ Alone(t) /\ proc'[t].pc = "record" /\ proc'[t].todo = rest /\ proc'[t].a = a
          /\ proc'[t].op = "due" /\ proc'[t].n = 0 /\ proc'[t].dir = proc[t].dir
      BY <2>1, <3>1 DEF Alone, ProcInv, Fields
    <3>3. QED
      BY <2>1, <3>1, <3>2, <1>r DEF Placed, AttemptLabels, TitleLabels, MagnetLabels, AddLabels,
                    FolderLabels, RestLabels, PollLabels
  <2>2. CASE proc' = [proc EXCEPT ![t] = Idle]
    BY <2>2, NothingToDo DEF Idle, Alone, ProcInv, Placed, AttemptLabels, TitleLabels, MagnetLabels, AddLabels,
                    FolderLabels, RestLabels, PollLabels
  <2>3. QED
    BY <1>21, <1>t, <2>1, <2>2 DEF Retry
<1>22. QED
  BY <1>1, <1>2, <1>3, <1>4, <1>5, <1>6, <1>7, <1>8, <1>9, <1>10, <1>12, <1>13, <1>14, <1>15, <1>16, <1>17, <1>18,
     <1>19, <1>20, <1>21 DEF Poll

LEMMA IntakePlaced ==
    ASSUME LedgerTypeOK, ProcInv, ProcsPlaced, NEW p \in Procs, Intake(p)
    PROVE  Alone(p) /\ Placed(proc'[p], attempts)
<1> USE DEF At
<1> DEFINE Goal == Alone(p) /\ Placed(proc'[p], attempts)
<1>r. Placed(proc[p], attempts)
  BY DEF ProcsPlaced
<1>1. ASSUME NEW l \in {"claim_next", "repark", "park", "reread"}, Goto(p, l), proc[p].pc \in TitleLabels PROVE Goal
  BY <1>1, GotoPlaced DEF TitleLabels, MagnetLabels, AddLabels
<1>2. ASSUME Record(p) PROVE Goal
  BY <1>1, <1>2 DEF Record, TitleLabels
<1>3. ASSUME ClaimNext(p) PROVE Goal
  <2>1. ASSUME NEW m \in Claimable(proc[p].a), proc' = [proc EXCEPT ![p].pc = "add_next", ![p].m = m] PROVE Goal
    BY <1>3, <2>1, <1>r DEF Claimable, ClaimNext, Alone, ProcInv, Fields, Placed, AttemptLabels, TitleLabels,
                            MagnetLabels, AddLabels, FolderLabels, RestLabels, PollLabels
  <2>2. QED
    BY <1>1, <1>3, <2>1, DonePlaced DEF ClaimNext, ClaimOr, TitleLabels
<1>4. ASSUME AddNext(p) PROVE Goal
  <2>1. CASE Goto(p, "unsubmit_next")
    BY <1>4, <2>1, <1>r, GotoPlaced DEF AddNext, Placed, TitleLabels, MagnetLabels, AddLabels
  <2>2. QED
    BY <1>1, <1>4, <2>1 DEF AddNext, AddOr, TitleLabels
<1>5. ASSUME UnsubmitNext(p) PROVE Goal
  BY <1>1, <1>5 DEF UnsubmitNext, TitleLabels
<1>6. ASSUME NEW l \in {"lift", "repark"}, NEW s, proc' = [proc EXCEPT ![p].pc = l, ![p].st = s],
             proc[p].pc \in TitleLabels
      PROVE  Goal
  <2>1. proc[p].pc \notin AttemptLabels
    BY <1>6 DEF TitleLabels, AttemptLabels
  <2>2. QED
    BY <1>6, <2>1, <1>r DEF Alone, ProcInv, Fields, Placed, AttemptLabels, TitleLabels,
                            MagnetLabels, AddLabels, FolderLabels, RestLabels, PollLabels
<1>7. ASSUME Reread(p) \/ Park(p) PROVE Goal
  BY <1>6, <1>7, DonePlaced DEF Reread, Park, TitleLabels
<1>8. ASSUME Lift(p) \/ Repark(p) PROVE Goal
  BY <1>8, DonePlaced, AbortPlaced DEF Lift, Repark
<1>9. QED
  BY <1>2, <1>3, <1>4, <1>5, <1>7, <1>8 DEF Intake

(* A request begins.                                                        *)
LEMMA BegunPlaced ==
    ASSUME ProcInv, NEW w \in Procs, NEW l \in {"discover", "op_claim"}, NEW op, op \notin {"poll", "sweep"},
           NEW a \in Avids, Placed(proc[w], attempts), proc[w].pc = "idle",
           proc'[w].pc = l, proc'[w].op = op, proc'[w].a = a, proc'[w].n = proc[w].n,
           proc'[w].todo = proc[w].todo, proc'[w].dir = proc[w].dir
    PROVE  Placed(proc'[w], attempts)
<1>1. TodoThere(proc'[w].todo, op, attempts)
  BY DEF Placed, TodoThere
<1>2. proc[w].n = 0 /\ proc[w].dir \in Hashes \union {NoHash}
  BY DEF Placed, AttemptLabels
<1>3. QED
  BY <1>1, <1>2 DEF Placed, AttemptLabels, TitleLabels, MagnetLabels, AddLabels, FolderLabels, RestLabels, PollLabels

LEMMA ContinuePlaced ==
    ASSUME LedgerTypeOK, ProcInv, ProcsPlaced, NEW w \in Procs, Continue(w), ~RecordChosen(w)
    PROVE  Alone(w) /\ Placed(proc'[w], attempts)
<1> USE DEF At
<1> DEFINE Goal == Alone(w) /\ Placed(proc'[w], attempts)
<1>r. Placed(proc[w], attempts)
  BY DEF ProcsPlaced
<1>1. ASSUME NEW l \in {"rearm", "held", "record", "lift", "park"}, Goto(w, l), proc[w].pc \in TitleLabels PROVE Goal
  BY <1>1, GotoPlaced DEF TitleLabels, MagnetLabels, AddLabels
<1>2. ASSUME Discover(w) PROVE Goal
  <2>1. PICK l \in {"rearm", "held", "record"} : Goto(w, l) \/ Done(w)
    BY <1>2 DEF Discover
  <2>2. QED
    BY <1>1, <1>2, <2>1, DonePlaced DEF Discover, TitleLabels
<1>3. ASSUME RearmAccepted(w) \/ Held(w) PROVE Goal
  BY <1>1, <1>3, DonePlaced DEF RearmAccepted, Held, TitleLabels
<1>4. ASSUME OpClaim(w) PROVE Goal
  <2>1. ASSUME NEW m \in Claimable(proc[w].a), proc' = [proc EXCEPT ![w].pc = "op_add", ![w].m = m] PROVE Goal
    BY <1>4, <2>1, <1>r DEF Claimable, OpClaim, Alone, ProcInv, Fields, Placed, AttemptLabels, TitleLabels,
                            MagnetLabels, AddLabels, FolderLabels, RestLabels, PollLabels
  <2>2. QED
    BY <1>4, <2>1, DonePlaced DEF OpClaim, ClaimOr
<1>5. ASSUME Pick(w) PROVE Goal
  <2>1. proc[w].pc = "pick" /\ proc[w].a \in Avids /\ 1 \in DOMAIN attempts[proc[w].a]
    BY <1>5, <1>r DEF Pick, Placed, TitleLabels
  <2>2. attempts[proc[w].a] \in Seq(Attempt)
    BY <2>1 DEF LedgerTypeOK
  <2>3. Len(attempts[proc[w].a]) \in DOMAIN attempts[proc[w].a]
    BY <2>1, <2>2
  <2>4. QED
    BY <1>5, <2>1, <2>3, <1>r DEF Pick, Alone, ProcInv, Fields, Placed, AttemptLabels, TitleLabels,
                            MagnetLabels, AddLabels, FolderLabels, RestLabels, PollLabels
<1>6. ASSUME ClaimChosen(w) PROVE Goal
  <2>1. CASE Goto(w, "op_add")
    BY <1>6, <2>1, <1>r, GotoPlaced DEF ClaimChosen, Placed, TitleLabels, MagnetLabels, AddLabels
  <2>2. QED
    BY <1>1, <1>6, <2>1, DonePlaced DEF ClaimChosen, TitleLabels
<1>7. ASSUME OpAdd(w) PROVE Goal
  <2>1. CASE Goto(w, "op_unsubmit")
    BY <1>7, <2>1, <1>r, GotoPlaced DEF OpAdd, Placed, TitleLabels, MagnetLabels, AddLabels
  <2>2. QED
    BY <1>1, <1>7, <2>1, DonePlaced DEF OpAdd, AddOr, TitleLabels
<1>8. ASSUME OpUnsubmit(w) PROVE Goal
  BY <1>1, <1>8, DonePlaced DEF OpUnsubmit, TitleLabels
<1>9. QED
  BY <1>2, <1>3, <1>4, <1>5, <1>6, <1>7, <1>8, IntakePlaced DEF Continue

(* The two steps that record a pasted magnet go on to pick it.              *)
LEMMA PastedPlaced ==
    ASSUME LedgerTypeOK, ProcInv, ProcsPlaced, Grown, NEW w \in Procs,
           RecordChosen(w) \/ \E a \in Avids, h \in Hashes : OpMagnet(w, a, h)
    PROVE  ProcsPlaced'
<1>r. Placed(proc[w], attempts)
  BY DEF ProcsPlaced
<1>1. ASSUME NEW a \in Avids, NEW h \in Hashes, AddAttempts(a, <<h>>) PROVE 1 \in DOMAIN attempts'[a]
  <2>1. <<h>> \in CandidateLists
    <3>1. <<h>> \in [1..1 -> Hashes] /\ 1 \in 1..MaxCandidates
      BY MaxCandidatesAssumption
    <3>2. QED
      BY <3>1 DEF CandidateLists
  <2>2. attempts[a] \in Seq(Attempt) /\ attempts'[a] = attempts[a] \o [i \in DOMAIN <<h>> |-> [hash |-> <<h>>[i], state |-> "pending"]]
    BY <1>1 DEF AddAttempts, LedgerTypeOK
  <2>3. [i \in DOMAIN <<h>> |-> [hash |-> <<h>>[i], state |-> "pending"]] \in Seq(Attempt)
        /\ Len([i \in DOMAIN <<h>> |-> [hash |-> <<h>>[i], state |-> "pending"]]) = 1
    BY DEF Attempt, AttemptStates
  <2>4. QED
    BY <2>2, <2>3
<1>2. ASSUME NEW a \in Avids, 1 \in DOMAIN attempts'[a], Alone(w), proc'[w].pc = "pick", proc'[w].a = a,
             proc'[w].op \notin {"poll", "sweep"}, proc'[w].n = 0, proc'[w].todo = proc[w].todo,
             proc'[w].dir \in Hashes \union {NoHash}
      PROVE  ProcsPlaced'
  <2>1. Placed(proc[w], attempts')
    BY <1>r, PlacedGrows
  <2>2. TodoThere(proc'[w].todo, proc'[w].op, attempts')
    BY <1>2, <2>1 DEF Placed, TodoThere
  <2>3. Placed(proc'[w], attempts')
    BY <1>2, <2>2 DEF Placed, AttemptLabels, TitleLabels, MagnetLabels, AddLabels, FolderLabels, RestLabels,
       PollLabels
  <2>4. \A q \in Procs \ {w} : Placed(proc'[q], attempts')
    BY <1>2, PlacedGrows DEF ProcsPlaced, Alone
  <2>5. QED
    BY <2>3, <2>4 DEF ProcsPlaced
<1>3. ASSUME NEW a \in Avids, NEW h \in Hashes, OpMagnet(w, a, h) PROVE ProcsPlaced'
  <2>1. proc[w].pc = "idle" /\ proc[w].n = 0 /\ proc[w].dir \in Hashes \union {NoHash}
    BY <1>3, <1>r DEF OpMagnet, Begin, At, Placed, AttemptLabels
  <2>2. /\ Alone(w) /\ proc'[w].pc = "pick" /\ proc'[w].a = a /\ proc'[w].op = "magnet" /\ proc'[w].n = 0
        /\ proc'[w].todo = proc[w].todo /\ proc'[w].dir = proc[w].dir
    <3>1. proc' = [proc EXCEPT ![w].pc = "pick", ![w].op = "magnet", ![w].a = a, ![w].st = acq[a].state]
      BY <1>3 DEF OpMagnet, Begin
    <3>2. QED
      BY <2>1, <3>1 DEF ProcInv, Fields, Alone
  <2>3. QED
    BY <1>1, <1>2, <1>3, <2>1, <2>2 DEF OpMagnet
<1>4. ASSUME RecordChosen(w) PROVE ProcsPlaced'
  <2>1. /\ proc[w].pc = "record_chosen" /\ proc[w].n = 0 /\ proc[w].dir \in Hashes /\ proc[w].a \in Avids
        /\ proc[w].op \notin {"poll", "sweep"}
    BY <1>4, <1>r DEF RecordChosen, At, Placed, AttemptLabels, TitleLabels, ProcInv, Pasted
  <2>2. CASE proc[w].dir \in Tried(proc[w].a)
    <3>1. /\ Alone(w) /\ proc'[w].pc = "park" /\ proc'[w].a = proc[w].a /\ proc'[w].op = proc[w].op /\ proc'[w].n = 0
          /\ proc'[w].todo = proc[w].todo /\ proc'[w].dir = NoHash
      BY <1>4, <2>1, <2>2 DEF RecordChosen, ProcInv, Fields, Alone
    <3>2. Placed(proc'[w], attempts)
      BY <2>1, <3>1, <1>r DEF Placed, AttemptLabels, TitleLabels, MagnetLabels, AddLabels, FolderLabels, RestLabels,
         PollLabels
    <3>3. QED
      BY <3>1, <3>2, OneIsPlaced
  <2>3. CASE proc[w].dir \notin Tried(proc[w].a)
    <3>1. /\ Alone(w) /\ proc'[w].pc = "pick" /\ proc'[w].a = proc[w].a /\ proc'[w].op = proc[w].op /\ proc'[w].n = 0
          /\ proc'[w].todo = proc[w].todo /\ proc'[w].dir = NoHash
      BY <1>4, <2>1, <2>3 DEF RecordChosen, ProcInv, Fields, Alone
    <3>2. 1 \in DOMAIN attempts'[proc[w].a]
      BY <1>1, <1>4, <2>1, <2>3 DEF RecordChosen
    <3>3. QED
      BY <1>2, <2>1, <3>1, <3>2
  <2>4. QED
    BY <2>2, <2>3
<1>5. QED
  BY <1>3, <1>4

LEMMA RequestPlaced ==
    ASSUME LedgerTypeOK, ProcInv, ProcsPlaced, NEW w \in Procs, NEW a \in Avids,
           Sight(w, a) \/ OpRetry(w, a) \/ OpReplace(w, a)
    PROVE  Alone(w) /\ Placed(proc'[w], attempts)
<1> USE DEF At
<1>r. Placed(proc[w], attempts)
  BY DEF ProcsPlaced
<1>1. CASE Sight(w, a)
  <2>1. PICK op \in {"manual", "queue", "rss"} : proc' = [proc EXCEPT ![w].pc = "discover", ![w].op = op, ![w].a = a]
    BY <1>1 DEF Sight
  <2>2. QED
    <3>1. /\ Alone(w) /\ proc'[w].pc = "discover" /\ proc'[w].op = op /\ proc'[w].a = a /\ proc'[w].n = proc[w].n
          /\ proc'[w].todo = proc[w].todo /\ proc'[w].dir = proc[w].dir
      BY <2>1 DEF ProcInv, Fields, Alone
    <3>2. proc[w].pc = "idle" /\ op \notin {"poll", "sweep"}
      BY <1>1, <2>1 DEF Sight
    <3>3. QED
      BY <3>1, <3>2, <1>r, BegunPlaced
<1>2. CASE OpRetry(w, a)
  BY ZenonT(40), <1>2, <1>r, BegunPlaced DEF OpRetry, Begin, ProcInv, Fields, Alone
<1>3. CASE OpReplace(w, a)
  <2>1. PICK h \in Hashes \union {NoHash} :
            proc' = [proc EXCEPT ![w] = [Idle EXCEPT
                      !.pc = IF h = NoHash THEN "record" ELSE "record_chosen",
                      !.op = "replace", !.a = a, !.st = "discovered", !.dir = h]]
    BY <1>3 DEF OpReplace
  <2>2. /\ Alone(w) /\ proc'[w].pc \in {"record", "record_chosen"} /\ proc'[w].a = a /\ proc'[w].op = "replace"
        /\ proc'[w].n = 0 /\ proc'[w].todo = {} /\ proc'[w].dir = h
    BY <2>1 DEF Idle, ProcInv, Alone
  <2>3. QED
    BY <2>2, NothingToDo DEF Placed, AttemptLabels, TitleLabels, MagnetLabels, AddLabels, FolderLabels, RestLabels,
       PollLabels
<1>4. QED
  BY <1>1, <1>2, <1>3

(* Every step.                                                              *)
LEMMA StepPlaced == LedgerTypeOK /\ ProcInv /\ ProcsPlaced /\ [Next]_vars => ProcsPlaced'
<1> SUFFICES ASSUME LedgerTypeOK, ProcInv, ProcsPlaced, [Next]_vars PROVE ProcsPlaced'
  OBVIOUS
<1>g. Grown
  BY StepDrives, AttemptsGrow
<1>1. CASE UNCHANGED proc
  BY <1>1, <1>g, PlacedGrows DEF ProcsPlaced
<1>2. ASSUME NEW p \in Procs, Crash(p) \/ Restart(p) PROVE ProcsPlaced'
  <2>1. Alone(p) /\ proc'[p] \in {[Idle EXCEPT !.pc = "down"], Idle}
    BY <1>2 DEF Crash, Restart, ProcInv, Alone
  <2>2. Idle = [Idle EXCEPT !.pc = "idle"]
    BY DEF Idle
  <2>3. QED
    BY <1>g, <2>1, <2>2, RestPlaced, OneIsPlaced DEF RestLabels
<1>3. ASSUME NEW h \in Hashes, Cloud(h) PROVE ProcsPlaced'
  BY <1>1, <1>3 DEF Cloud, CloudFinishes, CloudFails, CloudDrops, MountShows, GraceEnds
<1>4. ASSUME NEW a \in Avids, OpIgnore(a) \/ OpResume(a) \/ RetryTimer(a) PROVE ProcsPlaced'
  BY <1>1, <1>4 DEF OpIgnore, OpResume, RetryTimer
<1>5. ASSUME NEW t \in Trackers, Poll(t) \/ Intake(t) PROVE ProcsPlaced'
  BY <1>5, <1>g, PollPlaced, IntakePlaced, OneIsPlaced
<1>6. ASSUME NEW w \in Workers, Continue(w) \/ \E a \in Avids : Request(w, a) PROVE ProcsPlaced'
  BY <1>6, <1>g, ContinuePlaced, PastedPlaced, RequestPlaced, OneIsPlaced DEF Request
<1>7. QED
  BY <1>1, <1>2, <1>3, <1>4, <1>5, <1>6 DEF Next, vars

(* What a step of a process makes of its record, as far as it matters to    *)
(* the others: the magnet it is about to hand over is in its grace period;  *)
(* the listing it acts on is the one it took, and the attempts it sweeps    *)
(* were missing from it; a filed title was moved in, and an old copy is     *)
(* only gone after for a row that says so.                                  *)
Traced(p) ==
    LET r == proc[p]
        s == proc'[p]
    IN  /\ s.pc \in AddLabels => HashOf(s.a, s.m) \in recent'
        /\ s.op = "poll" => s.listing = task \/ (r.op = "poll" /\ s.listing = r.listing)
        /\ s.op = "sweep" =>
              \/ r.op = "sweep" /\ s.todo \subseteq r.todo
              \/ /\ r.op = "poll"
                 /\ UNCHANGED <<attempts, task, recent>>
                 /\ \A x \in s.todo :
                       /\ x[1] \in Avids
                       /\ StateOf(x[1], x[2]) \in InFlightStates
                       /\ HashOf(x[1], x[2]) \notin recent
                       /\ r.listing[HashOf(x[1], x[2])] = "none"
        /\ s.pc = "conclude" /\ s.verdict = "lost" =>
              r.op = "sweep" /\ \E x \in r.todo : s.a = x[1] /\ s.n = x[2]
        /\ s.pc \in {"settle", "settle_row"} /\ s.verdict = "archived" =>
              s.a = r.a /\ (library'[r.a] # NoHash \/ (r.pc = "settle" /\ r.verdict = "archived"))
        /\ s.pc \in {"inspect", "delete"} =>
              s.a = r.a /\ UNCHANGED acq /\ (r.pc = "inspect" \/ acq[r.a].replacing)
        /\ s.op = "rss" \/ s.pc = "held" => r.op = "rss" \/ "rss" \in Handlers

NotedLabels == AddLabels \union {"conclude", "settle", "settle_row", "inspect", "delete", "held"}

(* Going on, done, or out.                                                  *)
LEMMA GotoTraced ==
    ASSUME ProcInv, NEW p \in Procs, NEW l, l \notin NotedLabels, Goto(p, l)
    PROVE  Traced(p)
BY DEF Goto, ProcInv, Fields, Traced, NotedLabels

LEMMA DoneTraced ==
    ASSUME ProcInv, NEW p \in Procs, Done(p)
    PROVE  Traced(p)
<1>1. CASE proc[p].op \in {"poll", "sweep", "due"}
  <2>1. LoopOf[proc[p].op] \in {"advance", "sweeping", "retrying"}
    BY <1>1 DEF LoopOf
  <2>2. /\ proc'[p].pc = LoopOf[proc[p].op] /\ proc'[p].op = proc[p].op /\ proc'[p].listing = proc[p].listing
        /\ proc'[p].todo = proc[p].todo
    BY <1>1 DEF Done, ProcInv, LoopOf, Idle
  <2>3. QED
    BY <1>1, <2>1, <2>2 DEF Traced, AddLabels
<1>2. CASE proc[p].op \notin {"poll", "sweep", "due"}
  <2>1. proc'[p] = Idle
    BY <1>2 DEF Done, ProcInv, LoopOf
  <2>2. QED
    BY <2>1 DEF Idle, Traced, AddLabels
<1>3. QED
  BY <1>1, <1>2

LEMMA RestTraced ==
    ASSUME NEW p \in Procs, proc'[p].pc \in RestLabels, proc'[p].op = "none"
    PROVE  Traced(p)
BY DEF Traced, AddLabels, RestLabels

LEMMA AbortTraced ==
    ASSUME ProcInv, NEW p \in Procs, Abort(p)
    PROVE  Traced(p)
<1>1. proc'[p] \in {[Idle EXCEPT !.pc = "due"], Idle}
  BY DEF Abort, ProcInv
<1>2. QED
  BY <1>1, RestTraced DEF Idle, RestLabels

(* A claim starts the grace period of what it claimed.                      *)
LEMMA ClaimTraced ==
    ASSUME LedgerTypeOK, ProcInv, NEW p \in Procs, NEW won \in AddLabels, NEW none, ClaimOr(p, won, none), none => Traced(p)
    PROVE  Traced(p)
<1>1. ASSUME NEW m \in Claimable(proc[p].a), ClaimNextPending(proc[p].a, m),
             recent' = recent \union {HashOf(proc[p].a, m)},
             proc' = [proc EXCEPT ![p].pc = won, ![p].m = m]
      PROVE  Traced(p)
  <2>1. /\ proc'[p].pc = won /\ proc'[p].m = m /\ proc'[p].a = proc[p].a /\ proc'[p].op = proc[p].op
        /\ proc'[p].listing = proc[p].listing /\ proc'[p].todo = proc[p].todo
    BY <1>1 DEF ProcInv, Fields
  <2>2. HashOf(proc'[p].a, proc'[p].m) \in recent'
    BY <1>1, <2>1
  <2>3. QED
    BY <2>1, <2>2 DEF Traced, AddLabels
<1>2. QED
  BY <1>1 DEF ClaimOr

LEMMA InspectionValues ==
    ASSUME NEW a, NEW h
    PROVE  Inspection(a, h) \in {"failed", "junk", "attention", "fileable"}
BY DEF Inspection

LEMMA PollTraced ==
    ASSUME LedgerTypeOK, ProcInv, ProcsPlaced, CloudTypeOK, NEW t \in Trackers, Poll(t)
    PROVE  Traced(t)
<1> USE DEF At
<1>r. Placed(proc[t], attempts)
  BY DEF ProcsPlaced
<1>n. NotedLabels = {"add", "add_next", "op_add", "conclude", "settle", "settle_row", "inspect", "delete", "held"}
  BY DEF NotedLabels, AddLabels
<1>4. ASSUME NEW l \in {"claim", "finish", "locate", "file", "snapshot", "release", "move", "next", "remove", "exhaust",
                        "submit", "unsubmit", "clear"}, Goto(t, l)
      PROVE  Traced(t)
  BY <1>4, <1>n, GotoTraced
<1>1. ASSUME PollList(t) \/ PollJoin(t) PROVE Traced(t)
  <2>1. CASE PollList(t)
    BY <2>1 DEF PollList, ProcInv, Fields, Traced, AddLabels
  <2>2. CASE PollJoin(t)
    BY <2>2, <1>r DEF PollJoin, ProcInv, Fields, Traced, AddLabels, Placed, PollLabels
  <2>3. QED
    BY <1>1, <2>1, <2>2
<1>2. ASSUME Advance(t) PROVE Traced(t)
  <2>1. proc[t].op = "poll"
    BY <1>2, <1>r DEF Advance, Placed, PollLabels
  <2>2. ASSUME NEW x \in proc[t].todo,
               proc' = [proc EXCEPT ![t] =
                   IF AdvanceTo(t, x) = "advance"
                   THEN [proc[t] EXCEPT !.todo = @ \ {x}]
                   ELSE [proc[t] EXCEPT !.pc = AdvanceTo(t, x), !.todo = @ \ {x},
                                        !.a = x[1], !.n = x[2], !.st = x[3], !.verdict = "error"]]
        PROVE  Traced(t)
    <3>1. AdvanceTo(t, x) \in {"check", "conclude", "progress", "advance"}
      BY DEF AdvanceTo
    <3>2. /\ proc'[t].op = "poll" /\ proc'[t].listing = proc[t].listing
          /\ proc'[t].pc \in {"check", "conclude", "progress", "advance"}
          /\ proc'[t].pc = "conclude" => proc'[t].verdict = "error"
      BY <1>2, <2>1, <2>2, <3>1 DEF Advance, ProcInv, Fields
    <3>3. QED
      BY <2>1, <3>2 DEF Traced, AddLabels
  <2>3. QED
    BY <1>2, <1>4, <2>2 DEF Advance
<1>3. ASSUME Progress(t) PROVE Traced(t)
  <2>1. CASE proc' = [proc EXCEPT ![t].pc = "conclude", ![t].verdict = "stalled"]
    BY <2>1 DEF ProcInv, Fields, Traced, AddLabels
  <2>2. QED
    BY <1>3, <2>1, DoneTraced DEF Progress
<1>5. ASSUME Check(t) \/ Finish(t) \/ Claim(t) PROVE Traced(t)
  BY <1>4, <1>5, DoneTraced DEF Check, Finish, Claim, CasAttemptOr
<1>6. ASSUME Locate(t) PROVE Traced(t)
  <2>1. ASSUME NEW d, proc' = [proc EXCEPT ![t].pc = "file", ![t].dir = d] PROVE Traced(t)
    BY <2>1 DEF ProcInv, Fields, Traced, AddLabels
  <2>2. QED
    BY <1>4, <1>6, <2>1 DEF Locate
<1>7. ASSUME Release(t) \/ SettleRow(t) \/ Remove(t) PROVE Traced(t)
  BY <1>7, DoneTraced DEF Release, SettleRow, Remove
<1>8. ASSUME File(t) PROVE Traced(t)
  <2>1. CASE Goto(t, "inspect") /\ acq[proc[t].a].replacing
    BY <1>8, <2>1 DEF File, Goto, ledgerVars, ProcInv, Fields, Traced, AddLabels
  <2>2. QED
    BY <1>4, <1>8, <2>1 DEF File
<1>9. ASSUME Inspect(t) PROVE Traced(t)
  <2>1. /\ proc'[t].pc \in {"delete", "settle"} /\ proc'[t].verdict # "archived" /\ proc'[t].a = proc[t].a
        /\ proc'[t].op = proc[t].op /\ proc'[t].listing = proc[t].listing /\ proc'[t].todo = proc[t].todo
    BY <1>9, InspectionValues DEF Inspect, ProcInv, Fields
  <2>2. QED
    BY <1>9, <2>1 DEF Inspect, ledgerVars, Traced, AddLabels
<1>10. ASSUME NEW v, v # "archived" \/ library'[proc[t].a] # NoHash,
              proc' = [proc EXCEPT ![t].pc = "settle", ![t].verdict = v]
       PROVE  Traced(t)
  BY <1>10 DEF ProcInv, Fields, Traced, AddLabels
<1>11. ASSUME Delete(t) PROVE Traced(t)
  BY <1>4, <1>10, <1>11 DEF Delete
<1>12. ASSUME Move(t) PROVE Traced(t)
  <2>1. proc[t].a \in Avids /\ proc[t].dir \in Hashes
    BY <1>12, <1>r DEF Move, Placed, AttemptLabels, FolderLabels
  <2>2. CASE library' = [library EXCEPT ![proc[t].a] = proc[t].dir]
    <3>1. library'[proc[t].a] # NoHash
      BY <1>12, <2>1, <2>2, PipelineAssumption DEF CloudTypeOK
    <3>2. QED
      BY <1>10, <1>12, <3>1 DEF Move
  <2>3. QED
    BY <1>10, <1>12, <2>2, InspectionValues DEF Move
<1>13. ASSUME SettleAttempt(t) PROVE Traced(t)
  <2>1. CASE Goto(t, "settle_row")
    BY <1>13, <2>1 DEF SettleAttempt, Goto, ProcInv, Fields, Traced, AddLabels
  <2>2. QED
    BY <1>4, <1>13, <2>1, DoneTraced DEF SettleAttempt
<1>14. ASSUME Conclude(t) PROVE Traced(t)
  BY <1>4, <1>14, DoneTraced, AbortTraced DEF Conclude, CasAttemptOr
<1>15. ASSUME TryNext(t) \/ Unsubmit(t) \/ Exhaust(t) \/ Add(t) PROVE Traced(t)
  BY <1>4, <1>15 DEF TryNext, Unsubmit, Exhaust, Add, AddOr
<1>16. ASSUME Submit(t) PROVE Traced(t)
  BY <1>4, <1>16, ClaimTraced DEF Submit, AddLabels
<1>17. ASSUME Snapshot(t) PROVE Traced(t)
  <2> DEFINE missing == {k \in InState(InFlightStates) :
                      /\ proc[t].listing[HashOf(k[1], k[2])] = "none"
                      /\ HashOf(k[1], k[2]) \notin recent}
  <2>1. proc[t].op = "poll"
    BY <1>17, <1>r DEF Snapshot, Placed, PollLabels
  <2>2. proc'[t].pc = "sweeping" /\ proc'[t].op = "sweep" /\ proc'[t].todo = AsRead(missing)
    BY <1>17 DEF Snapshot, ProcInv, Fields
  <2>3. \A x \in AsRead(missing) :
           /\ x[1] \in Avids
           /\ StateOf(x[1], x[2]) \in InFlightStates
           /\ HashOf(x[1], x[2]) \notin recent
           /\ proc[t].listing[HashOf(x[1], x[2])] = "none"
    BY DEF AsRead, InState
  <2>4. UNCHANGED <<attempts, task, recent>>
    BY <1>17 DEF Snapshot, ledgerVars, cloudVars
  <2>5. QED
    BY <2>1, <2>2, <2>3, <2>4 DEF Traced, AddLabels
<1>18. ASSUME Sweep(t) PROVE Traced(t)
  <2>1. proc[t].op = "sweep"
    BY <1>18, <1>r DEF Sweep, Placed
  <2>2. ASSUME NEW x \in proc[t].todo, proc'[t].pc \in {"finish", "conclude"}, proc'[t].op = proc[t].op,
               proc'[t].todo = proc[t].todo \ {x}, proc'[t].a = x[1], proc'[t].n = x[2]
        PROVE  Traced(t)
    BY <2>1, <2>2 DEF Traced, AddLabels
  <2>3. ASSUME NEW x \in proc[t].todo, NEW d,
               LET picked == [proc[t] EXCEPT !.todo = @ \ {x}, !.a = x[1], !.n = x[2],
                                             !.st = x[3], !.verdict = "lost"]
               IN  \/ proc' = [proc EXCEPT ![t] = [picked EXCEPT !.pc = "finish", !.dir = d]]
                   \/ proc' = [proc EXCEPT ![t] = [picked EXCEPT !.pc = "conclude"]]
        PROVE  Traced(t)
    <3>1. /\ proc'[t].pc \in {"finish", "conclude"} /\ proc'[t].op = proc[t].op
          /\ proc'[t].a = x[1] /\ proc'[t].n = x[2]
      <4> DEFINE rest == proc[t].todo \ {x}
                 picked == [proc[t] EXCEPT !.todo = rest, !.a = x[1], !.n = x[2], !.st = x[3], !.verdict = "lost"]
      <4>1. proc'[t] \in {[picked EXCEPT !.pc = "finish", !.dir = d], [picked EXCEPT !.pc = "conclude"]}
        BY <2>3 DEF ProcInv
      <4> HIDE DEF rest
      <4>2. QED
        BY <4>1 DEF ProcInv, Fields
    <3>2. proc'[t].todo = proc[t].todo \ {x}
      BY ZenonT(40), <2>3 DEF ProcInv, Fields
    <3>3. QED
      BY <2>2, <3>1, <3>2
  <2>4. QED
    BY <1>4, <1>18, <2>3 DEF Sweep
<1>19. ASSUME Clear(t) \/ Cleared(t) PROVE Traced(t)
  BY ZenonT(40), <1>19, RestTraced DEF Clear, Cleared, Idle, ProcInv, RestLabels
<1>20. ASSUME Due(t) PROVE Traced(t)
  BY <1>20 DEF Due, Idle, ProcInv, Traced, AddLabels
<1>21. ASSUME Retry(t) PROVE Traced(t)
  <2>1. proc[t].op = "due"
    BY <1>21, <1>r DEF Retry, Placed
  <2>2. ASSUME NEW x, NEW todo, proc' = [proc EXCEPT ![t].pc = "record", ![t].todo = todo, ![t].a = x[1], ![t].st = x[3]]
        PROVE  Traced(t)
    BY <2>1, <2>2 DEF ProcInv, Fields, Traced, AddLabels
  <2>3. CASE proc' = [proc EXCEPT ![t] = Idle]
    BY <2>3, RestTraced DEF Idle, ProcInv, RestLabels
  <2>4. QED
    BY <1>21, <2>2, <2>3 DEF Retry
<1>22. QED
  BY <1>1, <1>2, <1>3, <1>5, <1>6, <1>7, <1>8, <1>9, <1>11, <1>12, <1>13, <1>14, <1>15, <1>16, <1>17, <1>18, <1>19,
     <1>20, <1>21 DEF Poll

LEMMA IntakeTraced ==
    ASSUME LedgerTypeOK, ProcInv, NEW p \in Procs, Intake(p)
    PROVE  Traced(p)
<1>1. ASSUME NEW l \in {"claim_next", "repark", "park", "reread", "unsubmit_next"}, Goto(p, l) PROVE Traced(p)
  BY <1>1, GotoTraced DEF NotedLabels, AddLabels
<1>2. ASSUME Record(p) \/ AddNext(p) \/ UnsubmitNext(p) PROVE Traced(p)
  BY <1>1, <1>2 DEF Record, AddNext, AddOr, UnsubmitNext
<1>3. ASSUME ClaimNext(p) PROVE Traced(p)
  <2> DEFINE none == CASE proc[p].op = "due" -> Goto(p, "repark")
                       [] proc[p].op = "replace" -> Goto(p, "park")
                       [] OTHER                  -> Done(p)
  <2>1. none => Traced(p)
    BY <1>1, DoneTraced
  <2>2. ClaimOr(p, "add_next", none)
    BY <1>3 DEF ClaimNext
  <2> HIDE DEF none
  <2>3. QED
    BY <2>1, <2>2, ClaimTraced DEF AddLabels
<1>4. ASSUME NEW l \in {"lift", "repark"}, NEW s, proc' = [proc EXCEPT ![p].pc = l, ![p].st = s] PROVE Traced(p)
  BY <1>4 DEF ProcInv, Fields, Traced, AddLabels
<1>5. ASSUME Reread(p) \/ Park(p) PROVE Traced(p)
  BY <1>4, <1>5, DoneTraced DEF Reread, Park
<1>6. ASSUME Lift(p) \/ Repark(p) PROVE Traced(p)
  BY <1>6, DoneTraced, AbortTraced DEF Lift, Repark
<1>7. QED
  BY <1>2, <1>3, <1>5, <1>6 DEF Intake

LEMMA WorkerTraced ==
    ASSUME LedgerTypeOK, ProcInv, ProcsPlaced, NEW w \in Workers, Continue(w) \/ \E a \in Avids : Request(w, a)
    PROVE  Traced(w)
<1>1. ASSUME NEW l \in {"rearm", "record", "lift", "park", "op_unsubmit"}, Goto(w, l) PROVE Traced(w)
  BY <1>1, GotoTraced DEF NotedLabels, AddLabels
<1>2. ASSUME Discover(w) PROVE Traced(w)
  <2>1. ASSUME Goto(w, "held"), proc[w].op = "rss" PROVE Traced(w)
    BY <2>1 DEF Goto, ProcInv, Fields, Traced, AddLabels
  <2>2. CASE proc[w].op = "queue"
    BY <1>1, <1>2, <2>2, DoneTraced DEF Discover
  <2>3. CASE proc[w].op = "rss"
    BY <1>2, <2>1, <2>3, DoneTraced DEF Discover
  <2>4. CASE proc[w].op \notin {"queue", "rss"}
    BY <1>1, <1>2, <2>4, DoneTraced DEF Discover
  <2>5. QED
    BY <2>2, <2>3, <2>4
<1>3. ASSUME RearmAccepted(w) \/ Held(w) PROVE Traced(w)
  BY <1>1, <1>3, DoneTraced DEF RearmAccepted, Held
<1>4. ASSUME OpClaim(w) PROVE Traced(w)
  BY <1>4, ClaimTraced, DoneTraced DEF OpClaim, AddLabels
<1>5. ASSUME Pick(w) \/ RecordChosen(w) PROVE Traced(w)
  <2>1. ASSUME NEW l \in {"claim_chosen", "pick", "park"}, NEW m, NEW d,
               \/ proc' = [proc EXCEPT ![w].pc = l, ![w].m = m]
               \/ proc' = [proc EXCEPT ![w].pc = l, ![w].dir = d]
        PROVE  Traced(w)
    BY <2>1 DEF ProcInv, Fields, Traced, AddLabels
  <2>2. QED
    BY <1>5, <2>1 DEF Pick, RecordChosen
<1>6. ASSUME ClaimChosen(w) PROVE Traced(w)
  <2>1. CASE recent' = recent \union {HashOf(proc[w].a, proc[w].m)} /\ Goto(w, "op_add") /\ ClaimAttempt(proc[w].a, proc[w].m)
    <3>1. /\ proc'[w].pc = "op_add" /\ proc'[w].m = proc[w].m /\ proc'[w].a = proc[w].a /\ proc'[w].op = proc[w].op
          /\ proc'[w].listing = proc[w].listing /\ proc'[w].todo = proc[w].todo
      BY <2>1 DEF Goto, ProcInv, Fields
    <3>2. HashOf(proc'[w].a, proc'[w].m) \in recent'
      BY <2>1, <3>1
    <3>3. QED
      BY <3>1, <3>2 DEF Traced, AddLabels
  <2>2. QED
    BY <1>1, <1>6, <2>1, DoneTraced DEF ClaimChosen
<1>7. ASSUME OpAdd(w) \/ OpUnsubmit(w) PROVE Traced(w)
  BY <1>1, <1>7, DoneTraced DEF OpAdd, AddOr, OpUnsubmit
<1>8. ASSUME NEW a \in Avids, Request(w, a) PROVE Traced(w)
  <2>1. ASSUME NEW l \in {"discover", "op_claim", "pick"}, NEW op \in Handlers, op \notin {"poll", "sweep"}, NEW st,
               \/ proc' = [proc EXCEPT ![w].pc = l, ![w].op = op, ![w].a = a, ![w].st = st]
               \/ proc' = [proc EXCEPT ![w].pc = l, ![w].op = op, ![w].a = a]
        PROVE  Traced(w)
    BY <2>1 DEF ProcInv, Fields, Traced, AddLabels
  <2>2. CASE Sight(w, a)
    BY <2>1, <2>2 DEF Sight
  <2>3. ASSUME NEW h, OpRetry(w, a) \/ OpMagnet(w, a, h) PROVE Traced(w)
    BY <2>1, <2>3 DEF OpRetry, OpMagnet, Begin
  <2>4. CASE OpReplace(w, a)
    <3>1. proc'[w].pc \in {"record", "record_chosen"} /\ proc'[w].op = "replace"
      BY <2>4 DEF OpReplace, Idle, ProcInv
    <3>2. QED
      BY <3>1 DEF Traced, AddLabels
  <2>5. QED
    BY <1>8, <2>2, <2>3, <2>4 DEF Request
<1>9. QED
  BY <1>2, <1>3, <1>4, <1>5, <1>6, <1>7, <1>8, IntakeTraced DEF Continue

(* A row becomes archived when the tracker that filed the title says so, or *)
(* when the library already had it; and only a replacement reopens one.     *)
RowsTraced ==
    \A a \in Avids :
        /\ acq'[a].state = "archived" =>
              \/ acq[a].state = "archived"
              \/ \E t \in Trackers : At(t, "settle_row") /\ proc[t].verdict = "archived" /\ proc[t].a = a
              \/ \E w \in Procs : At(w, "held") /\ library[a] # NoHash
        /\ acq'[a].replacing =>
              \/ acq[a].replacing /\ acq'[a].state # "archived"
              \/ acq[a].replacing /\ acq[a].state = "archived"
              \/ "replace" \in Handlers /\ acq'[a].state # "archived"

LEMMA RowsStay ==
    ASSUME UNCHANGED acq, ReplacingIsOpen
    PROVE  RowsTraced
BY DEF RowsTraced, ReplacingIsOpen

LEMMA TransitionTraced ==
    ASSUME LedgerTypeOK, ReplacingIsOpen, NEW a, NEW expected, NEW target, NEW timer,
           \/ CasRow(a, expected, target, timer)
           \/ Transition(a, expected, target, timer),
           target = "archived" =>
              \/ \E t \in Trackers : At(t, "settle_row") /\ proc[t].verdict = "archived" /\ proc[t].a = a
              \/ \E w \in Procs : At(w, "held") /\ library[a] # NoHash
    PROVE  RowsTraced
<1>1. CASE Transition(a, expected, target, timer)
  <2>1. acq' = [acq EXCEPT ![a] = [state |-> target, timer |-> timer,
                                   replacing |-> acq[a].replacing /\ target # "archived",
                                   floor |-> IF target = "archived" THEN 0 ELSE acq[a].floor]]
    BY <1>1 DEF Transition
  <2>2. \A b \in Avids \ {a} : acq'[b] = acq[b]
    BY <2>1 DEF LedgerTypeOK
  <2>3. a \in Avids => acq'[a].state = target /\ (acq'[a].replacing = (acq[a].replacing /\ target # "archived"))
    BY <2>1 DEF LedgerTypeOK
  <2>4. QED
    BY <2>2, <2>3 DEF RowsTraced, ReplacingIsOpen
<1>2. QED
  BY <1>1, RowsStay DEF CasRow, ledgerVars

LEMMA TimerTraced ==
    ASSUME LedgerTypeOK, ReplacingIsOpen, NEW a, NEW timer, Insert(a, timer) \/ Rearm(a, timer) \/ TimerExpires(a)
    PROVE  RowsTraced
<1>1. \A b \in Avids \ {a} : acq'[b] = acq[b]
  BY DEF LedgerTypeOK, Insert, Rearm, TimerExpires
<1>2. CASE Insert(a, timer)
  <2>1. a \in Avids => acq'[a].state = "discovered" /\ ~acq'[a].replacing
    BY <1>2 DEF Insert, LedgerTypeOK
  <2>2. QED
    BY <1>1, <2>1 DEF RowsTraced, ReplacingIsOpen
<1>3. CASE Rearm(a, timer) \/ TimerExpires(a)
  <2>1. a \in Avids => acq'[a].state = acq[a].state /\ acq'[a].replacing = acq[a].replacing
    BY <1>3 DEF Rearm, TimerExpires, LedgerTypeOK, Row
  <2>2. QED
    BY <1>1, <2>1 DEF RowsTraced, ReplacingIsOpen
<1>4. QED
  BY <1>2, <1>3

LEMMA PollRows ==
    ASSUME LedgerTypeOK, ReplacingIsOpen, NEW t \in Trackers, Poll(t)
    PROVE  RowsTraced
<1> USE DEF ledgerVars
<1>1. ASSUME PollList(t) \/ PollJoin(t) \/ Advance(t) \/ Check(t) \/ Locate(t) \/ File(t) \/ Inspect(t) \/ Delete(t)
             \/ Move(t) \/ TryNext(t) \/ Add(t) \/ Remove(t) \/ Snapshot(t) \/ Sweep(t) \/ Clear(t) \/ Cleared(t)
             \/ Due(t) \/ Retry(t)
      PROVE RowsTraced
  BY <1>1, RowsStay DEF PollList, PollJoin, Advance, Check, Locate, File, Inspect, Delete, Move, TryNext, Add, Remove,
                    Snapshot, Sweep, Clear, Cleared, Due, Retry
<1>2. ASSUME Progress(t) \/ Finish(t) \/ Claim(t) \/ Release(t) \/ SettleAttempt(t) \/ Conclude(t) \/ Unsubmit(t)
             \/ Submit(t)
      PROVE RowsTraced
  BY <1>2, RowsStay DEF Progress, Finish, Claim, Release, SettleAttempt, Conclude, Unsubmit, CasAttemptOr, CasAttempt,
                    TransitionAttempt, RecordProgress, Submit, ClaimOr, ClaimNextPending
<1>3. ASSUME SettleRow(t) PROVE RowsTraced
  BY <1>3, TransitionTraced DEF SettleRow
<1>4. ASSUME Exhaust(t) PROVE RowsTraced
  BY <1>4, TransitionTraced DEF Exhaust
<1>5. QED
  BY <1>1, <1>2, <1>3, <1>4 DEF Poll

LEMMA IntakeRows ==
    ASSUME LedgerTypeOK, ReplacingIsOpen, NEW p \in Procs, Intake(p)
    PROVE  RowsTraced
<1> USE DEF ledgerVars
<1>1. ASSUME Record(p) \/ AddNext(p) \/ Reread(p) \/ Park(p) \/ UnsubmitNext(p) \/ ClaimNext(p) PROVE RowsTraced
  BY <1>1, RowsStay DEF Record, AddAttempts, AddNext, Reread, Park, UnsubmitNext, CasAttempt, TransitionAttempt,
                    ClaimNext, ClaimOr, ClaimNextPending
<1>2. ASSUME Lift(p) \/ Repark(p) PROVE RowsTraced
  BY <1>2, RowsStay, TransitionTraced DEF Lift, Repark
<1>3. QED
  BY <1>1, <1>2 DEF Intake

LEMMA WorkerRows ==
    ASSUME LedgerTypeOK, ReplacingIsOpen, NEW w \in Workers, Continue(w) \/ \E a \in Avids : Request(w, a)
    PROVE  RowsTraced
<1> USE DEF ledgerVars
<1>1. ASSUME Discover(w) \/ RearmAccepted(w) PROVE RowsTraced
  BY <1>1, RowsStay, TimerTraced DEF Discover, RearmAccepted
<1>2. ASSUME Held(w) PROVE RowsTraced
  BY <1>2, RowsStay, TransitionTraced DEF Held
<1>3. ASSUME OpClaim(w) \/ Pick(w) \/ ClaimChosen(w) \/ OpAdd(w) \/ OpUnsubmit(w) \/ RecordChosen(w) PROVE RowsTraced
  BY <1>3, RowsStay DEF OpClaim, ClaimOr, ClaimNextPending, Pick, ClaimChosen, ClaimAttempt, OpAdd, OpUnsubmit,
     CasAttempt, TransitionAttempt, RecordChosen, AddAttempts
<1>4. ASSUME NEW a \in Avids, OpReplace(w, a) PROVE RowsTraced
  <2>1. /\ \A b \in Avids \ {a} : acq'[b] = acq[b]
        /\ acq'[a].state = "discovered" /\ acq'[a].replacing /\ "replace" \in Handlers
    BY <1>4 DEF OpReplace, BeginReplacement, LedgerTypeOK
  <2>2. QED
    BY <2>1 DEF RowsTraced, ReplacingIsOpen
<1>5. ASSUME NEW a \in Avids, Request(w, a) PROVE RowsTraced
  BY <1>4, <1>5, RowsStay DEF Request, Sight, OpRetry, OpMagnet, AddAttempts
<1>6. QED
  BY <1>1, <1>2, <1>3, <1>5, IntakeRows DEF Continue

LEMMA StepRows == LedgerTypeOK /\ ReplacingIsOpen /\ [Next]_vars => RowsTraced
<1> SUFFICES ASSUME LedgerTypeOK, ReplacingIsOpen, [Next]_vars PROVE RowsTraced
  OBVIOUS
<1> USE DEF ledgerVars
<1>1. ASSUME NEW p \in Procs, Crash(p) \/ Restart(p) PROVE RowsTraced
  BY <1>1, RowsStay DEF Crash, Restart
<1>2. ASSUME NEW h \in Hashes, Cloud(h) PROVE RowsTraced
  BY <1>2, RowsStay DEF Cloud, CloudFinishes, CloudFails, CloudDrops, MountShows, GraceEnds
<1>3. ASSUME NEW a \in Avids, OpIgnore(a) \/ OpResume(a) \/ RetryTimer(a) PROVE RowsTraced
  BY <1>3, TransitionTraced, TimerTraced DEF OpIgnore, OpResume, RetryTimer
<1>4. CASE UNCHANGED vars
  BY <1>4, RowsStay DEF vars
<1>5. QED
  BY <1>1, <1>2, <1>3, <1>4, PollRows, IntakeRows, WorkerRows DEF Next
-----------------------------------------------------------------------------
(* What a step does around the ledger: a task appears only for a magnet     *)
(* handed over; a grace period ends only while no tracker polls and the     *)
(* magnet is not being handed over, and starts only for a hash no live      *)
(* attempt has; and only a replacement takes a copy out of the library.     *)
WorldTraced ==
    /\ \A h \in Hashes : task[h] = "none" /\ task'[h] # "none" =>
          recent' = recent /\ \E p \in Procs : proc[p].pc \in AddLabels /\ h = HashOf(proc[p].a, proc[p].m)
    /\ \A h \in recent \ recent' :
          /\ UNCHANGED <<attempts, task, proc>>
          /\ "slow" \in Faults \/ \A t \in Trackers : proc[t].pc \in {"idle", "due", "down"} \/ proc[t].op = "due"
          /\ \A p \in Procs : proc[p].pc \in AddLabels => HashOf(proc[p].a, proc[p].m) # h
    /\ \A h \in recent' \ recent : ~HashLive(h)
    /\ \A a \in Avids : library[a] # NoHash /\ library'[a] = NoHash =>
          \E t \in Trackers : At(t, "delete") /\ proc[t].a = a

LEMMA WorldStays ==
    ASSUME UNCHANGED <<task, recent, library>>
    PROVE  WorldTraced
BY DEF WorldTraced

LEMMA ClaimWorld ==
    ASSUME NEW a, NEW m \in Claimable(a), recent' = recent \union {HashOf(a, m)}, UNCHANGED <<task, library>>
    PROVE  WorldTraced
BY DEF WorldTraced, Claimable, HashOf

LEMMA AddWorld ==
    ASSUME CloudTypeOK, NEW p \in Procs, proc[p].pc \in AddLabels, AcceptTask(HashOf(proc[p].a, proc[p].m)),
           UNCHANGED <<recent, library>>
    PROVE  WorldTraced
<1>1. \A h \in Hashes : task[h] = "none" /\ task'[h] # "none" => h = HashOf(proc[p].a, proc[p].m)
  BY DEF AcceptTask, CloudTypeOK
<1>2. QED
  BY <1>1 DEF WorldTraced

LEMMA FreedWorld ==
    ASSUME \A h \in Hashes : task[h] = "none" => task'[h] = "none", UNCHANGED <<recent, library>>
    PROVE  WorldTraced
BY DEF WorldTraced

LEMMA PollWorld ==
    ASSUME LedgerTypeOK, ProcsPlaced, CloudTypeOK, NEW t \in Trackers, Poll(t)
    PROVE  WorldTraced
<1> USE DEF ledgerVars, cloudVars
<1>1. ASSUME PollList(t) \/ PollJoin(t) \/ Advance(t) \/ Progress(t) \/ Check(t) \/ Finish(t) \/ Claim(t) \/ Locate(t)
             \/ Release(t) \/ File(t) \/ Inspect(t) \/ SettleAttempt(t) \/ SettleRow(t) \/ Conclude(t) \/ TryNext(t)
             \/ Unsubmit(t) \/ Exhaust(t) \/ Snapshot(t) \/ Sweep(t) \/ Clear(t) \/ Due(t) \/ Retry(t)
      PROVE WorldTraced
  BY <1>1, WorldStays DEF PollList, PollJoin, Advance, Progress, Check, Finish, Claim, Locate, Release, File, Inspect,
                    SettleAttempt, SettleRow, Conclude, TryNext, Unsubmit, Exhaust, Snapshot, Sweep, Clear, Due, Retry
<1>2. ASSUME Submit(t) PROVE WorldTraced
  BY <1>2, WorldStays, ClaimWorld DEF Submit, ClaimOr
<1>3. ASSUME Add(t) PROVE WorldTraced
  BY <1>3, WorldStays, AddWorld DEF Add, AddOr, At, AddLabels
<1>4. ASSUME Remove(t) \/ Cleared(t) PROVE WorldTraced
  <2>1. \A h \in Hashes : task[h] = "none" => task'[h] = "none"
    BY <1>4 DEF Remove, Cleared, CloudTypeOK
  <2>2. QED
    BY <1>4, <2>1, FreedWorld DEF Remove, Cleared
<1>5. ASSUME Delete(t) PROVE WorldTraced
  <2>1. \A a \in Avids \ {proc[t].a} : library'[a] = library[a]
    BY <1>5 DEF Delete, CloudTypeOK
  <2>2. UNCHANGED <<task, recent>> /\ At(t, "delete")
    BY <1>5 DEF Delete
  <2>3. QED
    BY <2>1, <2>2 DEF WorldTraced
<1>6. ASSUME Move(t) PROVE WorldTraced
  <2>1. proc[t].dir \in Hashes
    BY <1>6 DEF ProcsPlaced, Placed, Move, At, FolderLabels
  <2>2. library' = [library EXCEPT ![proc[t].a] = proc[t].dir] \/ library' = library
    BY <1>6 DEF Move
  <2>3. \A a \in Avids : library[a] # NoHash => library'[a] # NoHash
    BY <2>1, <2>2, PipelineAssumption DEF CloudTypeOK
  <2>4. UNCHANGED <<task, recent>>
    BY <1>6 DEF Move
  <2>5. QED
    BY <2>3, <2>4 DEF WorldTraced
<1>7. QED
  BY <1>1, <1>2, <1>3, <1>4, <1>5, <1>6 DEF Poll

LEMMA IntakeWorld ==
    ASSUME CloudTypeOK, NEW p \in Procs, Intake(p)
    PROVE  WorldTraced
<1> USE DEF cloudVars
<1>1. ASSUME Record(p) \/ Reread(p) \/ Park(p) \/ UnsubmitNext(p) \/ Lift(p) \/ Repark(p) PROVE WorldTraced
  BY <1>1, WorldStays DEF Record, Reread, Park, UnsubmitNext, Lift, Repark
<1>2. ASSUME ClaimNext(p) PROVE WorldTraced
  BY <1>2, WorldStays, ClaimWorld DEF ClaimNext, ClaimOr
<1>3. ASSUME AddNext(p) PROVE WorldTraced
  BY <1>3, WorldStays, AddWorld DEF AddNext, AddOr, At, AddLabels
<1>4. QED
  BY <1>1, <1>2, <1>3 DEF Intake

LEMMA WorkerWorld ==
    ASSUME CloudTypeOK, NEW w \in Workers, Continue(w) \/ \E a \in Avids : Request(w, a)
    PROVE  WorldTraced
<1> USE DEF cloudVars
<1>1. ASSUME Discover(w) \/ RearmAccepted(w) \/ Held(w) \/ Pick(w) \/ OpUnsubmit(w) \/ RecordChosen(w)
      PROVE WorldTraced
  BY <1>1, WorldStays DEF Discover, RearmAccepted, Held, Pick, OpUnsubmit, RecordChosen
<1>2. ASSUME OpClaim(w) PROVE WorldTraced
  BY <1>2, WorldStays, ClaimWorld DEF OpClaim, ClaimOr
<1>3. ASSUME ClaimChosen(w) PROVE WorldTraced
  BY <1>3, WorldStays, ClaimWorld DEF ClaimChosen, ClaimAttempt
<1>4. ASSUME OpAdd(w) PROVE WorldTraced
  BY <1>4, WorldStays, AddWorld DEF OpAdd, AddOr, At, AddLabels
<1>5. ASSUME NEW a \in Avids, Request(w, a) PROVE WorldTraced
  BY <1>5, WorldStays DEF Request, Sight, OpRetry, OpReplace, OpMagnet
<1>6. QED
  BY <1>1, <1>2, <1>3, <1>4, <1>5, IntakeWorld DEF Continue

LEMMA StepWorld == LedgerTypeOK /\ ProcsPlaced /\ CloudTypeOK /\ [Next]_vars => WorldTraced
<1> SUFFICES ASSUME LedgerTypeOK, ProcsPlaced, CloudTypeOK, [Next]_vars PROVE WorldTraced
  OBVIOUS
<1> USE DEF ledgerVars, cloudVars
<1>1. ASSUME NEW p \in Procs, Crash(p) \/ Restart(p) PROVE WorldTraced
  BY <1>1, WorldStays DEF Crash, Restart
<1>2. ASSUME NEW h \in Hashes, CloudFinishes(h) \/ CloudFails(h) \/ CloudDrops(h) \/ MountShows(h) PROVE WorldTraced
  <2>1. \A g \in Hashes : task[g] = "none" => task'[g] = "none"
    BY <1>2 DEF CloudFinishes, CloudFails, CloudDrops, MountShows, CloudTypeOK
  <2>2. QED
    BY <1>2, <2>1, FreedWorld DEF CloudFinishes, CloudFails, CloudDrops, MountShows
<1>3. ASSUME NEW h \in Hashes, GraceEnds(h) PROVE WorldTraced
  BY <1>3 DEF GraceEnds, WorldTraced, AddLabels
<1>4. ASSUME NEW a \in Avids, OpIgnore(a) \/ OpResume(a) \/ RetryTimer(a) PROVE WorldTraced
  BY <1>4, WorldStays DEF OpIgnore, OpResume, RetryTimer
<1>5. CASE UNCHANGED vars
  BY <1>5, WorldStays DEF vars
<1>6. QED
  BY <1>1, <1>2, <1>3, <1>4, <1>5, PollWorld, IntakeWorld, WorkerWorld DEF Next, Cloud
-----------------------------------------------------------------------------
(* Whose step it is, and where it left that process.                        *)
ActedOn(p) ==
    /\ Alone(p)
    /\ Traced(p)
    /\ proc'[p].pc \in AddLabels \union {"conclude"} => Placed(proc'[p], attempts)

LEMMA StepActs ==
    LedgerTypeOK /\ ProcInv /\ ProcsPlaced /\ CloudTypeOK /\ [Next]_vars
        => UNCHANGED proc \/ \E p \in Procs : ActedOn(p)
<1> SUFFICES ASSUME LedgerTypeOK, ProcInv, ProcsPlaced, CloudTypeOK, [Next]_vars
             PROVE  UNCHANGED proc \/ \E p \in Procs : ActedOn(p)
  OBVIOUS
<1>1. ASSUME NEW p \in Procs, Crash(p) \/ Restart(p) PROVE ActedOn(p)
  <2>1. Alone(p) /\ proc'[p] \in {[Idle EXCEPT !.pc = "down"], Idle}
    BY <1>1 DEF Crash, Restart, ProcInv, Alone
  <2>2. proc'[p].pc \in {"idle", "down"} /\ proc'[p].op = "none"
    BY <2>1 DEF Idle
  <2>3. QED
    BY <2>1, <2>2, RestTraced DEF RestLabels, ActedOn, AddLabels
<1>2. ASSUME NEW h \in Hashes, Cloud(h) PROVE UNCHANGED proc
  BY <1>2 DEF Cloud, CloudFinishes, CloudFails, CloudDrops, MountShows, GraceEnds
<1>3. ASSUME NEW a \in Avids, OpIgnore(a) \/ OpResume(a) \/ RetryTimer(a) PROVE UNCHANGED proc
  BY <1>3 DEF OpIgnore, OpResume, RetryTimer
<1>4. ASSUME NEW t \in Trackers, Poll(t) \/ Intake(t) PROVE ActedOn(t)
  BY <1>4, PollPlaced, PollTraced, IntakePlaced, IntakeTraced DEF ActedOn
<1>5. ASSUME NEW w \in Workers, RecordChosen(w) \/ \E a \in Avids, h \in Hashes : OpMagnet(w, a, h) PROVE ActedOn(w)
  <2>1. Traced(w)
    BY <1>5, WorkerTraced DEF Continue, Request
  <2>2. Alone(w) /\ proc'[w].pc \in {"pick", "park"}
    <3>1. CASE RecordChosen(w)
      BY <3>1 DEF RecordChosen, ProcInv, Fields, Alone
    <3>2. ASSUME NEW a, NEW h, OpMagnet(w, a, h) PROVE Alone(w) /\ proc'[w].pc \in {"pick", "park"}
      <4>1. proc' = [proc EXCEPT ![w].pc = "pick", ![w].op = "magnet", ![w].a = a, ![w].st = acq[a].state]
        BY <3>2 DEF OpMagnet, Begin
      <4>2. QED
        BY <4>1 DEF ProcInv, Fields, Alone
    <3>3. QED
      BY <1>5, <3>1, <3>2
  <2>3. QED
    BY <2>1, <2>2 DEF ActedOn, AddLabels
<1>6. ASSUME NEW w \in Workers, Continue(w) \/ \E a \in Avids : Request(w, a) PROVE ActedOn(w)
  BY <1>5, <1>6, ContinuePlaced, RequestPlaced, WorkerTraced DEF ActedOn, Request
<1>7. QED
  BY <1>1, <1>2, <1>3, <1>4, <1>6 DEF Next, vars

(* CloudDrive, the mount and the library.                                   *)
LEMMA StepCloud == LedgerTypeOK /\ ProcInv /\ ProcsPlaced /\ CloudTypeOK /\ [Next]_vars => CloudTypeOK'
<1> SUFFICES ASSUME LedgerTypeOK, ProcInv, ProcsPlaced, CloudTypeOK, [Next]_vars PROVE CloudTypeOK'
  OBVIOUS
<1> USE DEF ledgerVars, cloudVars
<1>1. ASSUME UNCHANGED <<task, folder, library, recent>> PROVE CloudTypeOK'
  BY <1>1 DEF CloudTypeOK
<1>2. ASSUME NEW a \in Avids, NEW n \in DOMAIN attempts[a], recent' = recent \union {HashOf(a, n)},
             UNCHANGED <<task, folder, library>>
      PROVE  CloudTypeOK'
  <2>1. HashOf(a, n) \in Hashes
    BY HashesThere
  <2>2. QED
    BY <1>2, <2>1 DEF CloudTypeOK
<1>3. ASSUME NEW p \in Procs, NEW none, ClaimOr(p, "add", none) \/ ClaimOr(p, "add_next", none) \/ ClaimOr(p, "op_add", none),
             proc[p].a \in Avids, UNCHANGED <<task, folder, library>>
      PROVE  CloudTypeOK'
  BY <1>1, <1>2, <1>3 DEF ClaimOr, Claimable
<1>4. ASSUME NEW p \in Procs, NEW yes, NEW no, AddOr(p, yes, no), UNCHANGED <<folder, library, recent>>
      PROVE CloudTypeOK'
  BY <1>4 DEF AddOr, AcceptTask, CloudTypeOK
<1>5. ASSUME NEW t \in Trackers, Poll(t) PROVE CloudTypeOK'
  <2>0. Placed(proc[t], attempts)
    BY DEF ProcsPlaced
  <2>1. CASE PollList(t) \/ PollJoin(t) \/ Advance(t) \/ Progress(t) \/ Check(t) \/ Finish(t) \/ Claim(t) \/ Locate(t)
             \/ Release(t) \/ File(t) \/ Inspect(t) \/ SettleAttempt(t) \/ SettleRow(t) \/ Conclude(t) \/ TryNext(t)
             \/ Unsubmit(t) \/ Exhaust(t) \/ Snapshot(t) \/ Sweep(t) \/ Clear(t) \/ Due(t) \/ Retry(t)
    BY <1>1, <2>1 DEF PollList, PollJoin, Advance, Progress, Check, Finish, Claim, Locate, Release, File, Inspect,
                    SettleAttempt, SettleRow, Conclude, TryNext, Unsubmit, Exhaust, Snapshot, Sweep, Clear, Due, Retry
  <2>2. CASE Submit(t)
    BY <1>3, <2>0, <2>2 DEF Submit, Placed, At, AttemptLabels
  <2>3. CASE Add(t)
    BY <1>4, <2>3 DEF Add
  <2>4. CASE Remove(t) \/ Cleared(t)
    BY <2>4 DEF Remove, Cleared, CloudTypeOK
  <2>5. CASE Delete(t)
    BY <2>5 DEF Delete, CloudTypeOK
  <2>6. CASE Move(t)
    <3>1. proc[t].dir \in Hashes
      BY <2>0, <2>6 DEF Placed, Move, At, FolderLabels
    <3>2. QED
      BY <2>6, <3>1 DEF Move, CloudTypeOK
  <2>7. QED
    BY <1>5, <2>1, <2>2, <2>3, <2>4, <2>5, <2>6 DEF Poll
<1>6. ASSUME NEW p \in Procs, Intake(p) PROVE CloudTypeOK'
  <2>1. CASE Record(p) \/ Reread(p) \/ Park(p) \/ UnsubmitNext(p) \/ Lift(p) \/ Repark(p)
    BY <1>1, <2>1 DEF Record, Reread, Park, UnsubmitNext, Lift, Repark
  <2>2. CASE ClaimNext(p)
    <3>1. proc[p].a \in Avids
      BY <2>2 DEF ClaimNext, ProcsPlaced, Placed, At, TitleLabels
    <3>2. QED
      BY <1>3, <2>2, <3>1 DEF ClaimNext
  <2>3. CASE AddNext(p)
    BY <1>4, <2>3 DEF AddNext
  <2>4. QED
    BY <1>6, <2>1, <2>2, <2>3 DEF Intake
<1>7. ASSUME NEW w \in Workers, Continue(w) \/ \E a \in Avids : Request(w, a) PROVE CloudTypeOK'
  <2>0. Placed(proc[w], attempts)
    BY DEF ProcsPlaced
  <2>1. CASE Discover(w) \/ RearmAccepted(w) \/ Held(w) \/ Pick(w) \/ OpUnsubmit(w) \/ RecordChosen(w)
    BY <1>1, <2>1 DEF Discover, RearmAccepted, Held, Pick, OpUnsubmit, RecordChosen
  <2>2. CASE OpClaim(w)
    BY <1>3, <2>0, <2>2 DEF OpClaim, Placed, At, TitleLabels
  <2>3. CASE ClaimChosen(w)
    <3>1. proc[w].a \in Avids
      BY <2>0, <2>3 DEF ClaimChosen, Placed, At, TitleLabels
    <3>2. QED
      BY <1>1, <1>2, <2>3, <3>1 DEF ClaimChosen, ClaimAttempt, Claimable
  <2>4. CASE OpAdd(w)
    BY <1>4, <2>4 DEF OpAdd
  <2>5. CASE \E a \in Avids : Request(w, a)
    BY <1>1, <2>5 DEF Request, Sight, OpRetry, OpReplace, OpMagnet
  <2>6. QED
    BY <1>6, <1>7, <2>1, <2>2, <2>3, <2>4, <2>5 DEF Continue
<1>8. ASSUME NEW p \in Procs, Crash(p) \/ Restart(p) PROVE CloudTypeOK'
  BY <1>1, <1>8 DEF Crash, Restart
<1>9. ASSUME NEW h \in Hashes, Cloud(h) PROVE CloudTypeOK'
  BY <1>9 DEF Cloud, CloudFinishes, CloudFails, CloudDrops, MountShows, GraceEnds, CloudTypeOK
<1>10. ASSUME NEW a \in Avids, OpIgnore(a) \/ OpResume(a) \/ RetryTimer(a) PROVE CloudTypeOK'
  BY <1>1, <1>10 DEF OpIgnore, OpResume, RetryTimer
<1>11. CASE UNCHANGED vars
  BY <1>1, <1>11 DEF vars
<1>12. QED
  BY <1>5, <1>6, <1>7, <1>8, <1>9, <1>10, <1>11 DEF Next
-----------------------------------------------------------------------------
(* What an attempt that was not listed has come to stays so: nobody claims  *)
(* the hash of a live attempt, so nothing is handed to CloudDrive for it.   *)
LEMMA GoneStays ==
    ASSUME LedgerTypeOK, Grown, WorldTraced, AddedIsRecent, NEW a \in Avids, NEW n \in DOMAIN attempts[a], Gone(a, n)
    PROVE  Gone(a, n)'
<1> DEFINE h == HashOf(a, n)
<1>1. h \in Hashes /\ HashOf(a, n)' = h
  BY HashesThere DEF Grown, HashOf
<1>2. StateOf(a, n)' # "pending"
  BY DEF Grown, Gone
<1>3. ASSUME StateOf(a, n)' \in InFlightStates PROVE task'[h] = "none" /\ h \notin recent'
  <2>1. StateOf(a, n) \in InFlightStates /\ task[h] = "none" /\ h \notin recent
    BY <1>3 DEF Grown, Gone
  <2>2. HashLive(h)
    BY <2>1 DEF HashLive, LiveAt, LiveStates, HashOf, StateOf
  <2>3. h \notin recent'
    BY <2>1, <2>2 DEF WorldTraced
  <2>4. task'[h] = "none"
    BY <1>1, <2>1 DEF WorldTraced, AddedIsRecent
  <2>5. QED
    BY <2>3, <2>4
<1>4. QED
  BY <1>1, <1>2, <1>3 DEF Gone

LEMMA AddedStep ==
    ASSUME LedgerTypeOK, Grown, ProcsPlaced, WorldTraced, UNCHANGED proc \/ \E p \in Procs : ActedOn(p), AddedIsRecent
    PROVE  AddedIsRecent'
<1> SUFFICES ASSUME NEW q \in Procs, proc'[q].pc \in AddLabels
             PROVE  HashOf(proc[q].a, proc[q].m)' \in recent'
  BY DEF AddedIsRecent
<1>1. CASE proc'[q] = proc[q]
  <2>1. proc[q].a \in Avids /\ proc[q].m \in DOMAIN attempts[proc[q].a]
    BY <1>1 DEF ProcsPlaced, Placed, MagnetLabels, AddLabels, AttemptLabels, TitleLabels
  <2>2. HashOf(proc[q].a, proc[q].m)' = HashOf(proc[q].a, proc[q].m)
    BY <1>1, <2>1 DEF Grown, HashOf
  <2>3. HashOf(proc[q].a, proc[q].m) \in recent'
    BY <1>1 DEF AddedIsRecent, WorldTraced
  <2>4. QED
    BY <1>1, <2>2, <2>3
<1>2. CASE ActedOn(q)
  <2>1. Placed(proc'[q], attempts) /\ HashOf(proc'[q].a, proc'[q].m) \in recent'
    BY <1>2 DEF ActedOn, Traced
  <2>2. proc'[q].a \in Avids /\ proc'[q].m \in DOMAIN attempts[proc'[q].a]
    BY <2>1 DEF Placed, MagnetLabels, AddLabels, AttemptLabels, TitleLabels
  <2>3. QED
    BY <2>1, <2>2 DEF Grown, HashOf
<1>3. QED
  BY <1>1, <1>2 DEF ActedOn, Alone

LEMMA ListedStep ==
    ASSUME ProcsPlaced, WorldTraced, UNCHANGED proc \/ \E p \in Procs : ActedOn(p), AddedIsRecent, ListedOrRecent,
           "slow" \notin Faults
    PROVE  ListedOrRecent'
<1>1. ASSUME NEW h \in Hashes, task[h] = "none", h \notin recent' PROVE task'[h] = "none"
  BY <1>1 DEF WorldTraced, AddedIsRecent
<1>2. ASSUME NEW t \in Trackers, proc[t].op = "poll", NEW h \in Hashes, proc[t].listing[h] = "none", h \notin recent'
      PROVE  task'[h] = "none"
  <2>1. h \notin recent
    <3>1. proc[t].pc \notin RestLabels /\ proc[t].op # "due"
      BY <1>2 DEF ProcsPlaced, Placed
    <3>2. QED
      BY <1>2, <3>1 DEF WorldTraced, RestLabels
  <2>2. QED
    BY <1>1, <1>2, <2>1 DEF ListedOrRecent
<1>3. ASSUME NEW t \in Trackers, proc'[t].op = "poll", NEW h \in Hashes, proc'[t].listing[h] = "none", h \notin recent'
      PROVE  task'[h] = "none"
  <2>1. CASE proc'[t] = proc[t]
    BY <1>2, <1>3, <2>1
  <2>2. CASE ActedOn(t)
    BY <1>1, <1>2, <1>3, <2>2 DEF ActedOn, Traced
  <2>3. QED
    BY <2>1, <2>2 DEF ActedOn, Alone
<1>4. QED
  BY <1>3 DEF ListedOrRecent

LEMMA SweptStep ==
    ASSUME LedgerTypeOK, Grown, ProcsPlaced, ProcsPlaced', WorldTraced,
           UNCHANGED proc \/ \E p \in Procs : ActedOn(p), AddedIsRecent, ListedOrRecent, SweptIsGone
    PROVE  SweptIsGone'
<1>1. ASSUME NEW t \in Trackers, proc[t].op = "sweep", NEW x \in proc[t].todo
      PROVE  x[1] \in Avids /\ x[2] \in DOMAIN attempts[x[1]] /\ Gone(x[1], x[2])'
  <2>1. x[1] \in Avids /\ x[2] \in DOMAIN attempts[x[1]]
    BY <1>1 DEF ProcsPlaced, Placed, TodoThere
  <2>2. QED
    BY <1>1, <2>1, GoneStays DEF SweptIsGone
<1>2. ASSUME NEW t \in Trackers, At(t, "conclude"), proc[t].verdict = "lost"
      PROVE  Gone(proc[t].a, proc[t].n)' \/ proc'[t] # proc[t]
  <2>1. proc[t].a \in Avids /\ proc[t].n \in DOMAIN attempts[proc[t].a]
    BY <1>2 DEF ProcsPlaced, Placed, At, AttemptLabels
  <2>2. Gone(proc[t].a, proc[t].n)
    BY <1>2 DEF SweptIsGone
  <2>3. ASSUME NEW a \in Avids, NEW n \in DOMAIN attempts[a], Gone(a, n), proc[t].a = a, proc[t].n = n, proc'[t] = proc[t]
        PROVE  Gone(proc[t].a, proc[t].n)'
    <3>1. Gone(a, n)'
      BY <2>3, GoneStays
    <3>2. proc'[t].a = a /\ proc'[t].n = n
      BY <2>3
    <3>3. QED
      BY <3>1, <3>2 DEF Gone, StateOf, HashOf
  <2>4. QED
    BY <2>1, <2>2, <2>3
<1>3. ASSUME NEW t \in Trackers, proc'[t].op = "sweep", NEW x \in proc'[t].todo PROVE Gone(x[1], x[2])'
  <2>1. CASE proc'[t] = proc[t]
    BY <1>1, <1>3, <2>1
  <2>2. CASE ActedOn(t) /\ proc[t].op = "sweep" /\ proc'[t].todo \subseteq proc[t].todo
    BY <1>1, <1>3, <2>2
  <2>3. CASE /\ proc[t].op = "poll"
             /\ UNCHANGED <<attempts, task, recent>>
             /\ \A y \in proc'[t].todo :
                   /\ y[1] \in Avids
                   /\ StateOf(y[1], y[2]) \in InFlightStates
                   /\ HashOf(y[1], y[2]) \notin recent
                   /\ proc[t].listing[HashOf(y[1], y[2])] = "none"
    <3>1. x[1] \in Avids /\ x[2] \in DOMAIN attempts[x[1]]
      BY <1>3, <2>3 DEF ProcsPlaced, Placed, TodoThere
    <3>2. HashOf(x[1], x[2]) \in Hashes
      BY <3>1, HashesThere
    <3>3. task[HashOf(x[1], x[2])] = "none"
      BY <1>3, <2>3, <3>2 DEF ListedOrRecent
    <3>4. Gone(x[1], x[2])
      BY <1>3, <2>3, <3>3 DEF Gone, InFlightStates
    <3>5. QED
      BY <2>3, <3>4 DEF Gone, StateOf, HashOf
  <2>4. CASE ActedOn(t)
    BY <1>3, <2>2, <2>3, <2>4 DEF ActedOn, Traced
  <2>5. QED
    BY <2>1, <2>4 DEF ActedOn, Alone
<1>4. ASSUME NEW t \in Trackers, At(t, "conclude")', proc'[t].verdict = "lost" PROVE Gone(proc[t].a, proc[t].n)'
  <2>1. CASE proc'[t] = proc[t]
    BY <1>2, <1>4, <2>1 DEF At
  <2>2. CASE ActedOn(t)
    <3>1. PICK x \in proc[t].todo : proc[t].op = "sweep" /\ proc'[t].a = x[1] /\ proc'[t].n = x[2]
      BY <1>4, <2>2 DEF ActedOn, Traced, At
    <3>2. Gone(x[1], x[2])'
      BY <1>1, <3>1
    <3>3. QED
      BY <3>1, <3>2 DEF Gone, StateOf, HashOf
  <2>3. QED
    BY <2>1, <2>2 DEF ActedOn, Alone
<1>5. QED
  BY <1>3, <1>4 DEF SweptIsGone
-----------------------------------------------------------------------------
(* A replacement alone: no RSS run asks the library while an old copy is    *)
(* about to be taken out of it, and no other tracker files the title.       *)
ReplacesAlone == "replace" \in Handlers => "rss" \notin Handlers /\ \A t, u \in Trackers : t = u

ArchiveInv == ReplacingIsOpen /\ HeldIsFeeds /\ FiledIsHeld /\ OpenWhileReplaced /\ ArchivedMeansHeld

LEMMA ArchiveStep ==
    ASSUME ReplacesAlone, LedgerTypeOK, ProcsPlaced, ProcsPlaced', WorldTraced, RowsTraced,
           UNCHANGED proc \/ \E p \in Procs : ActedOn(p), ArchiveInv
    PROVE  ArchiveInv'
<1> USE DEF At
<1>1. ReplacingIsOpen'
  BY DEF RowsTraced, ArchiveInv, ReplacingIsOpen
<1>2. HeldIsFeeds'
  <2>1. ASSUME NEW p \in Procs, ActedOn(p), proc'[p].op = "rss" \/ proc'[p].pc = "held" PROVE "rss" \in Handlers
    BY <2>1 DEF ActedOn, Traced, ArchiveInv, HeldIsFeeds
  <2>2. QED
    BY <2>1 DEF ActedOn, Alone, ArchiveInv, HeldIsFeeds
<1>3. ASSUME NEW a \in Avids, library[a] # NoHash, library'[a] = NoHash
      PROVE  /\ "replace" \in Handlers /\ "rss" \notin Handlers
             /\ acq[a].state # "archived"
             /\ \A t \in Trackers : At(t, "delete") /\ proc[t].a = a
  BY <1>3 DEF WorldTraced, ArchiveInv, OpenWhileReplaced, ReplacesAlone
<1>4. FiledIsHeld'
  <2> SUFFICES ASSUME NEW t \in Trackers, proc'[t].pc \in {"settle", "settle_row"}, proc'[t].verdict = "archived"
               PROVE  library'[proc'[t].a] # NoHash
    BY DEF FiledIsHeld
  <2>1. ASSUME proc[t].pc \in {"settle", "settle_row"}, proc[t].verdict = "archived"
        PROVE  library'[proc[t].a] # NoHash
    <3>1. proc[t].a \in Avids /\ library[proc[t].a] # NoHash
      BY <2>1 DEF ProcsPlaced, Placed, AttemptLabels, ArchiveInv, FiledIsHeld
    <3>2. QED
      BY <1>3, <2>1, <3>1
  <2>2. CASE proc'[t] = proc[t]
    BY <2>1, <2>2
  <2>3. CASE ActedOn(t)
    BY <2>1, <2>3 DEF ActedOn, Traced
  <2>4. QED
    BY <2>2, <2>3 DEF ActedOn, Alone
<1>5. OpenWhileReplaced'
  <2> SUFFICES ASSUME NEW t \in Trackers, proc'[t].pc \in {"inspect", "delete"}
               PROVE  acq'[proc'[t].a].state # "archived" /\ "replace" \in Handlers
    BY DEF OpenWhileReplaced
  <2>1. ASSUME proc[t].pc \in {"inspect", "delete"}
        PROVE  acq'[proc[t].a].state # "archived" /\ "replace" \in Handlers
    <3>1. proc[t].a \in Avids /\ acq[proc[t].a].state # "archived" /\ "replace" \in Handlers
      BY <2>1 DEF ProcsPlaced, Placed, AttemptLabels, ArchiveInv, OpenWhileReplaced
    <3>2. "rss" \notin Handlers /\ \A u \in Trackers : u = t
      BY <3>1 DEF ReplacesAlone
    <3>3. \A p \in Procs : proc[p].pc # "held"
      BY <3>2 DEF ArchiveInv, HeldIsFeeds
    <3>4. QED
      BY <2>1, <3>1, <3>2, <3>3 DEF RowsTraced
  <2>2. CASE proc'[t] = proc[t]
    BY <2>1, <2>2
  <2>3. CASE ActedOn(t)
    <3>1. proc'[t].a = proc[t].a /\ UNCHANGED acq /\ (proc[t].pc = "inspect" \/ acq[proc[t].a].replacing)
      BY <2>3 DEF ActedOn, Traced
    <3>2. CASE proc[t].pc = "inspect"
      BY <2>1, <3>1, <3>2
    <3>3. CASE acq[proc[t].a].replacing
      <4>1. proc'[t].a \in Avids
        BY DEF ProcsPlaced, Placed, AttemptLabels
      <4>2. QED
        BY <3>1, <3>3, <4>1 DEF ArchiveInv, ReplacingIsOpen
    <3>4. QED
      BY <3>1, <3>2, <3>3
  <2>4. QED
    BY <2>2, <2>3 DEF ActedOn, Alone
<1>6. ArchivedMeansHeld'
  <2> SUFFICES ASSUME NEW a \in Avids, acq'[a].state = "archived", library'[a] = NoHash
               PROVE  FALSE
    BY DEF ArchivedMeansHeld
  <2>1. CASE acq[a].state = "archived"
    BY <1>3, <2>1 DEF ArchiveInv, ArchivedMeansHeld
  <2>2. ASSUME NEW t \in Trackers, At(t, "settle_row"), proc[t].verdict = "archived", proc[t].a = a PROVE FALSE
    BY <1>3, <2>2 DEF ArchiveInv, FiledIsHeld
  <2>3. ASSUME NEW w \in Procs, At(w, "held"), library[a] # NoHash PROVE FALSE
    BY <1>3, <2>3 DEF ArchiveInv, HeldIsFeeds
  <2>4. QED
    BY <2>1, <2>2, <2>3 DEF RowsTraced
<1>7. QED
  BY <1>1, <1>2, <1>4, <1>5, <1>6 DEF ArchiveInv
-----------------------------------------------------------------------------
PlacedInv == LedgerTypeOK /\ ProcInv /\ ProcsPlaced /\ CloudTypeOK
LostInv == AddedIsRecent /\ ListedOrRecent /\ SweptIsGone

LEMMA InitialPlaces == Init => PlacedInv /\ LostInv /\ ArchiveInv
<1> SUFFICES ASSUME Init PROVE PlacedInv /\ LostInv /\ ArchiveInv
  OBVIOUS
<1>1. LedgerTypeOK /\ ProcInv
  BY InitialLedger, IdleIsUnpasted DEF Init, ProcInv, Pasted
<1>2. /\ \A p \in Procs : proc[p] = Idle
      /\ \A a \in Avids : acq[a] = NoRow
  BY DEF Init, LedgerInit
<1>3. ProcsPlaced
  <2>1. Idle = [Idle EXCEPT !.pc = "idle"]
    BY DEF Idle
  <2>2. Placed(Idle, attempts)
    BY <2>1, RestPlaced DEF RestLabels
  <2>3. QED
    BY <1>2, <2>2 DEF ProcsPlaced
<1>4. CloudTypeOK
  BY DEF Init, CloudTypeOK, NoTasks
<1>5. LostInv
  BY <1>2 DEF LostInv, AddedIsRecent, ListedOrRecent, SweptIsGone, Idle, AddLabels, At
<1>6. ArchiveInv
  BY <1>2 DEF ArchiveInv, ReplacingIsOpen, HeldIsFeeds, FiledIsHeld, OpenWhileReplaced, ArchivedMeansHeld, Idle,
     NoRow, At
<1>7. QED
  BY <1>1, <1>3, <1>4, <1>5, <1>6 DEF PlacedInv

LEMMA PlacesStay == PlacedInv /\ [Next]_vars => PlacedInv'
BY StepDrives, StepKeeps, TypeStep, StepPlaced, StepCloud DEF PlacedInv, Drives

LEMMA LostStays == "slow" \notin Faults /\ PlacedInv /\ LostInv /\ [Next]_vars => LostInv'
<1> SUFFICES ASSUME "slow" \notin Faults, PlacedInv, LostInv, [Next]_vars PROVE LostInv'
  OBVIOUS
<1>1. PlacedInv' /\ Grown /\ WorldTraced /\ (UNCHANGED proc \/ \E p \in Procs : ActedOn(p))
  BY PlacesStay, StepDrives, AttemptsGrow, StepWorld, StepActs DEF PlacedInv
<1>2. QED
  BY <1>1, AddedStep, ListedStep, SweptStep DEF PlacedInv, LostInv

LEMMA ArchiveStays == ReplacesAlone /\ PlacedInv /\ ArchiveInv /\ [Next]_vars => ArchiveInv'
<1> SUFFICES ASSUME ReplacesAlone, PlacedInv, ArchiveInv, [Next]_vars PROVE ArchiveInv'
  OBVIOUS
<1>1. /\ PlacedInv' /\ WorldTraced /\ (UNCHANGED proc \/ \E p \in Procs : ActedOn(p))
      /\ RowsTraced
  BY PlacesStay, StepWorld, StepActs, StepRows DEF PlacedInv, ArchiveInv
<1>2. QED
  BY <1>1, ArchiveStep DEF PlacedInv

(* What a tracker, a source or a request goes on with after an await always *)
(* names a row and an attempt there are, whoever wrote to the ledger in     *)
(* between, and CloudDrive, the mount and the library stay well formed:     *)
(* with any trackers, handlers and faults.                                  *)
THEOREM PipelineTypeCorrect == Spec => []TypeOK
<1>1. Init => PlacedInv
  BY InitialPlaces
<1>2. PlacedInv => TypeOK
  BY DEF PlacedInv, TypeOK, ProcsPlaced, Placed, CloudTypeOK, AttemptLabels, TitleLabels
<1>3. QED
  BY <1>1, <1>2, PlacesStay, PTL DEF Spec

(* Within the grace period absence from the listing means nothing: however  *)
(* many replicas poll, claim, retry and crash at once, a download that one  *)
(* of them declares lost is gone from CloudDrive (_sweep_lost), as long as  *)
(* a poll takes less than submit_grace_seconds.                             *)
THEOREM LostAreGone == Spec /\ "slow" \notin Faults => []LostMeansGone
<1> SUFFICES ASSUME "slow" \notin Faults PROVE Spec => []LostMeansGone
  OBVIOUS
<1>1. Init => PlacedInv /\ LostInv
  BY InitialPlaces
<1>2. PlacedInv /\ LostInv /\ [Next]_vars => PlacedInv' /\ LostInv'
  BY PlacesStay, LostStays
<1>3. PlacedInv /\ LostInv => LostMeansGone
  BY DEF LostInv, SweptIsGone, Gone, LostMeansGone
<1>4. QED
  BY <1>1, <1>2, <1>3, PTL DEF Spec

(* An archived title is in the library: for any number of replicas and any  *)
(* requests but a replacement, and for a replacement when one tracker works *)
(* and no RSS run asks the library meanwhile (without that it is not so:    *)
(* see the README on what two of them do).                                  *)
THEOREM ArchivedAreHeld == Spec /\ ReplacesAlone => []ArchivedMeansHeld
<1> SUFFICES ASSUME ReplacesAlone PROVE Spec => []ArchivedMeansHeld
  OBVIOUS
<1>1. Init => PlacedInv /\ ArchiveInv
  BY InitialPlaces
<1>2. PlacedInv /\ ArchiveInv /\ [Next]_vars => PlacedInv' /\ ArchiveInv'
  BY PlacesStay, ArchiveStays
<1>3. ArchiveInv => ArchivedMeansHeld
  BY DEF ArchiveInv
<1>4. QED
  BY <1>1, <1>2, <1>3, PTL DEF Spec

(* What the row of a download says is so, under both conditions.            *)
THEOREM EndingsStayTrue == Spec /\ ReplacesAlone /\ "slow" \notin Faults => []EndingsAreTrue
BY PipelineTypeCorrect, LostAreGone, ArchivedAreHeld, PTL DEF EndingsAreTrue
-----------------------------------------------------------------------------
(***************************************************************************)
(* A replacement never leaves a title without a copy to come.  That takes  *)
(* three things: a magnet is handed to CloudDrive once, so a download that *)
(* is on the mount stays as it is; the tracker takes the old copy out for  *)
(* a folder it has just found fileable; and the folder it removes with a   *)
(* download it gives up is never the one the title is waiting for.         *)
(***************************************************************************)
(* The labels at which a download was given up.                             *)
GivenUpLabels == {"next", "submit", "add", "unsubmit", "exhaust", "remove"}

(* What the resolvers find for one title is not a magnet of another.        *)
MagnetsApart == \A a, b \in Avids : Tried(a) \cap Tried(b) # {} => a = b

OneTracker == \A t, u \in Trackers : t = u

(* A magnet that was claimed, and that nobody is about to hand over.        *)
Handing(p, h) == proc[p].pc \in AddLabels /\ HashOf(proc[p].a, proc[p].m) = h
HandedOver(h) ==
    /\ \E a \in Avids : \E i \in DOMAIN attempts[a] : HashOf(a, i) = h /\ StateOf(a, i) # "pending"
    /\ \A p \in Procs : ~Handing(p, h)

HandedAlone ==
    /\ \A p \in Procs : proc[p].pc \in AddLabels => StateOf(proc[p].a, proc[p].m) # "pending"
    /\ \A p, q \in Procs : \A h \in Hashes : Handing(p, h) /\ Handing(q, h) => p = q
HandedOnce ==
    \A h \in Hashes :
        /\ task[h] # "none" \/ folder[h] # "none" => HandedOver(h)
        /\ folder[h] # "none" => task[h] \in {"none", "finished"}

(* A download listed as failed has left nothing, and never will.            *)
Failed(h) == HandedOver(h) /\ folder[h] = "none" /\ task[h] \in {"none", "error"}
ErrorsFailed == \A t \in Trackers : \A h \in Hashes : proc[t].listing[h] = "error" => Failed(h)

(* The titles whose old copy is gone, and that they have a folder but this. *)
Waiting(a) == acq[a].replacing /\ library[a] = NoHash
Kept(h) == \A a \in Avids : Waiting(a) => \E g \in Hashes \ {h} : folder[g] = "visible" /\ Fileable(a, g)

(* The folder the tracker is filing is there, and fits if it was inspected. *)
Shown(r) ==
    /\ r.pc \in FolderLabels \/ (r.pc \in {"finish", "claim"} /\ r.op # "poll") => folder[r.dir] = "visible"
    /\ r.pc = "delete" => Fileable(r.a, r.dir)

(* What may come to be removed is not what a title waits for.               *)
MayRemove(r) ==
    /\ r.op = "poll"
    /\ \/ r.pc \in {"conclude", "file", "inspect"} \union GivenUpLabels
       \/ r.pc = "move" /\ Content[r.dir] = "junk"
       \/ r.pc = "settle" /\ r.verdict = "junk"
Spared(r, own) ==
    \/ r.pc = "conclude" /\ r.verdict = "error" /\ r.listing[own] = "error"
    \/ r.pc \in {"file", "inspect", "move"} /\ r.dir = own
    \/ r.pc # "conclude" /\ Kept(own)
Spares(r) == MayRemove(r) => Spared(r, HashOf(r.a, r.n))

FilingSpares == \A t \in Trackers : Shown(proc[t]) /\ Spares(proc[t])

HandingInv == HandedAlone /\ HandedOnce /\ ErrorsFailed
ReplacedInv == FilingSpares /\ ReplacedOnlyForANewCopy

(* One attempt to a magnet.                                                 *)
LEMMA OneAttempt ==
    ASSUME MagnetsApart, HashTriedOnce, NEW a \in Avids, NEW b \in Avids, NEW i \in DOMAIN attempts[a],
           NEW j \in DOMAIN attempts[b], HashOf(a, i) = HashOf(b, j)
    PROVE  a = b /\ i = j
<1>1. HashOf(a, i) \in Tried(a) \cap Tried(b)
  BY DEF Tried, HashOf
<1>2. a = b
  BY <1>1 DEF MagnetsApart
<1>3. QED
  BY <1>2 DEF HashTriedOnce, HashOf

(* What a step of a process makes of its record: it comes to hand a magnet  *)
(* over by claiming it, it lists what there is, and what it goes on to file *)
(* or to remove is right in the state it goes on from.                      *)
Followed(p) ==
    LET r == proc[p]
        s == proc'[p]
    IN  /\ s.pc \in AddLabels =>
              /\ s.a \in Avids /\ s.m \in DOMAIN attempts[s.a]
              /\ StateOf(s.a, s.m) = "pending"
              /\ attempts'[s.a][s.m].state # "pending"
        /\ \A h \in Hashes : s.listing[h] = "error" => r.listing[h] = "error" \/ task[h] = "error"
        /\ Shown(s) /\ Spares(s)

FollowedLabels == AddLabels \union FolderLabels \union {"finish", "claim", "settle", "conclude"} \union GivenUpLabels

LEMMA OtherLabels ==
    ASSUME NEW r, r.pc \notin FollowedLabels
    PROVE  Shown(r) /\ Spares(r) /\ r.pc \notin AddLabels
BY DEF Shown, Spares, MayRemove, FollowedLabels, FolderLabels

LEMMA GotoFollowed ==
    ASSUME ProcInv, NEW p \in Procs, NEW l, l \notin FollowedLabels, Goto(p, l)
    PROVE  Followed(p)
<1>1. proc'[p].pc = l /\ proc'[p].listing = proc[p].listing
  BY DEF Goto, ProcInv, Fields
<1>2. QED
  BY <1>1, OtherLabels DEF Followed

LEMMA IdleFollowed ==
    ASSUME NEW p \in Procs, proc'[p].pc \notin FollowedLabels, proc'[p].listing = NoTasks
    PROVE  Followed(p)
BY OtherLabels DEF Followed, NoTasks

LEMMA DoneFollowed ==
    ASSUME ProcInv, NEW p \in Procs, Done(p)
    PROVE  Followed(p)
<1>1. CASE proc[p].op \in {"poll", "sweep", "due"}
  <2>1. LoopOf[proc[p].op] \notin FollowedLabels
    BY <1>1 DEF LoopOf, FollowedLabels, AddLabels, FolderLabels, GivenUpLabels
  <2>2. proc'[p].pc = LoopOf[proc[p].op] /\ proc'[p].listing = proc[p].listing
    BY <1>1 DEF Done, ProcInv, LoopOf, Idle
  <2>3. QED
    BY <2>1, <2>2, OtherLabels DEF Followed
<1>2. CASE proc[p].op \notin {"poll", "sweep", "due"}
  <2>1. proc'[p] = Idle
    BY <1>2 DEF Done, ProcInv, LoopOf
  <2>2. QED
    BY <2>1, IdleFollowed DEF Idle, FollowedLabels, AddLabels, FolderLabels, GivenUpLabels
<1>3. QED
  BY <1>1, <1>2

LEMMA AbortFollowed ==
    ASSUME ProcInv, NEW p \in Procs, Abort(p)
    PROVE  Followed(p)
<1>1. proc'[p] \in {[Idle EXCEPT !.pc = "due"], Idle}
  BY DEF Abort, ProcInv
<1>2. QED
  BY <1>1, IdleFollowed DEF Idle, FollowedLabels, AddLabels, FolderLabels, GivenUpLabels

(* A title waits for another folder than one that is not to be seen, or     *)
(* that holds no video.                                                     *)
LEMMA OthersKept ==
    ASSUME ReplacedOnlyForANewCopy, NEW h, folder[h] # "visible" \/ Content[h] # "video"
    PROVE  Kept(h)
BY DEF ReplacedOnlyForANewCopy, Kept, Waiting, Fileable

(* Going on with a download that was given up.                              *)
LEMMA GivenUpFollowed ==
    ASSUME ProcInv, NEW p \in Procs, NEW l \in GivenUpLabels \ {"add"}, Goto(p, l),
           proc[p].op = "poll" => Kept(HashOf(proc[p].a, proc[p].n))
    PROVE  Followed(p)
<1>1. /\ proc'[p].pc = l /\ proc'[p].listing = proc[p].listing /\ proc'[p].op = proc[p].op
      /\ proc'[p].a = proc[p].a /\ proc'[p].n = proc[p].n
  BY DEF Goto, ProcInv, Fields
<1>2. l \notin AddLabels \union FolderLabels \union {"finish", "claim", "conclude"}
  BY DEF GivenUpLabels, AddLabels, FolderLabels
<1>3. Shown(proc'[p])
  BY <1>1, <1>2 DEF Shown, FolderLabels
<1>4. Spares(proc'[p])
  BY <1>1, <1>2 DEF Spares, Spared, MayRemove
<1>5. QED
  BY <1>1, <1>2, <1>3, <1>4 DEF Followed

(* A claim, also one that follows a download given up.                      *)
LEMMA ClaimFollowed ==
    ASSUME LedgerTypeOK, ProcInv, NEW p \in Procs, proc[p].a \in Avids, NEW won \in AddLabels, NEW none,
           ClaimOr(p, won, none), none => Followed(p), won = "add" /\ proc[p].op = "poll" => Kept(HashOf(proc[p].a, proc[p].n))
    PROVE  Followed(p)
<1>1. ASSUME NEW m \in Claimable(proc[p].a), ClaimNextPending(proc[p].a, m),
             proc' = [proc EXCEPT ![p].pc = won, ![p].m = m]
      PROVE  Followed(p)
  <2>1. /\ proc'[p].pc = won /\ proc'[p].m = m /\ proc'[p].a = proc[p].a /\ proc'[p].op = proc[p].op
        /\ proc'[p].listing = proc[p].listing /\ proc'[p].n = proc[p].n
    BY <1>1 DEF ProcInv, Fields
  <2>2. m \in DOMAIN attempts[proc[p].a] /\ StateOf(proc[p].a, m) = "pending"
    BY <1>1 DEF Claimable, StateOf
  <2>3. attempts'[proc[p].a][m].state = "submitted"
    <3>1. attempts \in [Avids -> Seq(Attempt)] /\ attempts' = [attempts EXCEPT ![proc[p].a][m].state = "submitted"]
      BY <1>1 DEF ClaimNextPending, SetAttempt, LedgerTypeOK
    <3>2. attempts[proc[p].a][m] \in Attempt
      BY <2>2, <3>1
    <3>3. QED
      BY <2>2, <3>1, <3>2 DEF Attempt
  <2>4. Shown(proc'[p]) /\ Spares(proc'[p])
    BY <2>1 DEF Shown, Spares, Spared, MayRemove, AddLabels, FolderLabels, GivenUpLabels
  <2>5. QED
    BY <2>1, <2>2, <2>3, <2>4 DEF Followed
<1>2. QED
  BY <1>1 DEF ClaimOr

LEMMA InspectionTells ==
    ASSUME NEW a, NEW h
    PROVE  /\ Inspection(a, h) = "fileable" => Fileable(a, h)
           /\ Inspection(a, h) = "junk" => Content[h] = "junk"
BY DEF Inspection

LEMMA PollFollowed ==
    ASSUME LedgerTypeOK, ProcInv, ProcsPlaced, ErrorsFailed, FilingSpares, ReplacedOnlyForANewCopy,
           "stall" \notin Faults, NEW t \in Trackers, Poll(t)
    PROVE  Followed(t)
<1> USE DEF At
<1> DEFINE own == HashOf(proc[t].a, proc[t].n)
<1>r. Placed(proc[t], attempts) /\ Shown(proc[t]) /\ Spares(proc[t])
  BY DEF ProcsPlaced, FilingSpares
<1>f. DOMAIN proc[t] = Fields
  BY DEF ProcInv
<1>n. FollowedLabels = {"add", "add_next", "op_add", "file", "inspect", "delete", "move", "finish", "claim", "settle",
                        "conclude", "next", "submit", "unsubmit", "exhaust", "remove"}
  BY DEF FollowedLabels, AddLabels, FolderLabels, GivenUpLabels
<1>g. ASSUME NEW l, Goto(t, l)
     
            PROVE  /\ proc'[t].pc = l /\ proc'[t].op = proc[t].op /\ proc'[t].listing = proc[t].listing /\ proc'[t].a = proc[t].a
             /\ proc'[t].n = proc[t].n /\ proc'[t].dir = proc[t].dir /\ proc'[t].verdict = proc[t].verdict
  BY <1>g DEF Goto, ProcInv, Fields
<1>o. ASSUME NEW l \in {"snapshot", "release", "locate", "settle_row", "clear"}, Goto(t, l) PROVE Followed(t)
  BY <1>o, <1>n, GotoFollowed
<1>u. ASSUME NEW l \in {"next", "submit", "unsubmit", "exhaust", "remove"}, Goto(t, l), proc[t].op = "poll" => Kept(own)
      PROVE  Followed(t)
  BY <1>u, GivenUpFollowed DEF GivenUpLabels, AddLabels
<1>x. ASSUME proc'[t].pc \notin FollowedLabels, proc'[t].listing \in {proc[t].listing, NoTasks} PROVE Followed(t)
  BY <1>x, OtherLabels DEF Followed, NoTasks
(* To a label with a folder or a verdict, the same listing in hand.         *)
<1>y. ASSUME proc'[t].pc \notin AddLabels, proc'[t].listing = proc[t].listing, Shown(proc'[t]), Spares(proc'[t])
      PROVE  Followed(t)
  BY <1>y DEF Followed
<1>1. ASSUME PollList(t) \/ PollJoin(t) PROVE Followed(t)
  <2>1. CASE PollList(t)
    <3>1. proc'[t].pc = "join" /\ proc'[t].listing = task
      BY <2>1, <1>f DEF PollList, ProcInv, Fields
    <3>2. QED
      BY <3>1, <1>n, OtherLabels DEF Followed
  <2>2. CASE PollJoin(t)
    <3>1. proc'[t].pc = "advance" /\ proc'[t].listing = proc[t].listing
      BY <2>2, <1>f DEF PollJoin, ProcInv, Fields
    <3>2. QED
      BY <3>1, <1>n, <1>x
  <2>3. QED
    BY <1>1, <2>1, <2>2
<1>2. ASSUME Advance(t) PROVE Followed(t)
  <2>1. ASSUME NEW x \in proc[t].todo,
               proc' = [proc EXCEPT ![t] =
                   IF AdvanceTo(t, x) = "advance"
                   THEN [proc[t] EXCEPT !.todo = @ \ {x}]
                   ELSE [proc[t] EXCEPT !.pc = AdvanceTo(t, x), !.todo = @ \ {x},
                                        !.a = x[1], !.n = x[2], !.st = x[3], !.verdict = "error"]]
        PROVE  Followed(t)
    <3>1. /\ AdvanceTo(t, x) \in {"check", "conclude", "progress", "advance"}
          /\ AdvanceTo(t, x) = "conclude" => proc[t].listing[HashOf(x[1], x[2])] = "error"
      BY DEF AdvanceTo
    <3>2. CASE AdvanceTo(t, x) = "advance"
      <4>1. proc'[t].pc = "advance" /\ proc'[t].listing = proc[t].listing
        BY <1>2, <2>1, <3>2, <1>f DEF Advance, ProcInv, Fields
      <4>2. QED
        BY <4>1, <1>n, <1>x
    <3>3. CASE AdvanceTo(t, x) # "advance"
      <4>1. proc'[t] = [proc[t] EXCEPT !.pc = AdvanceTo(t, x), !.todo = @ \ {x}, !.a = x[1], !.n = x[2], !.st = x[3],
                                       !.verdict = "error"]
        BY <2>1, <3>3 DEF ProcInv
      <4>2. /\ proc'[t].pc = AdvanceTo(t, x) /\ proc'[t].listing = proc[t].listing
            /\ proc'[t].a = x[1] /\ proc'[t].n = x[2] /\ proc'[t].verdict = "error"
        BY <4>1, <1>f DEF Fields
      <4>3. CASE AdvanceTo(t, x) = "conclude"
        <5>1. Shown(proc'[t]) /\ Spares(proc'[t])
          BY <3>1, <4>2, <4>3 DEF Shown, Spares, Spared, FolderLabels
        <5>2. QED
          BY <4>2, <4>3, <5>1, <1>y DEF AddLabels
      <4>4. CASE AdvanceTo(t, x) # "conclude"
        BY <3>1, <3>3, <4>2, <4>4, <1>n, <1>x
      <4>5. QED
        BY <4>3, <4>4
    <3>4. QED
      BY <3>2, <3>3
  <2>2. QED
    BY <1>2, <1>o, <2>1 DEF Advance
<1>3. ASSUME Progress(t) \/ Release(t) \/ SettleRow(t) \/ Remove(t) PROVE Followed(t)
  BY <1>3, DoneFollowed DEF Progress, Release, SettleRow, Remove
<1>4. ASSUME Check(t) PROVE Followed(t)
  <2>1. proc[t].op = "poll"
    BY <1>4, <1>r DEF Check, Placed, PollLabels
  <2>2. ASSUME NEW l \in {"claim", "finish"}, Goto(t, l) PROVE Followed(t)
    <3>1. Shown(proc'[t]) /\ Spares(proc'[t])
      BY <2>1, <2>2, <1>g DEF Shown, Spares, MayRemove, FolderLabels, GivenUpLabels
    <3>2. QED
      BY <2>2, <3>1, <1>g, <1>y DEF AddLabels
  <2>3. QED
    BY <1>4, <2>2, DoneFollowed DEF Check
<1>5. ASSUME Finish(t) PROVE Followed(t)
  <2>1. ASSUME Goto(t, "claim") PROVE Followed(t)
    <3>1. Shown(proc'[t]) /\ Spares(proc'[t])
      BY <2>1, <1>5, <1>g, <1>r DEF Finish, Shown, Spares, MayRemove, FolderLabels, GivenUpLabels
    <3>2. QED
      BY <2>1, <3>1, <1>g, <1>y DEF AddLabels
  <2>2. QED
    BY <1>5, <2>1, DoneFollowed DEF Finish, CasAttemptOr
<1>6. ASSUME Claim(t) PROVE Followed(t)
  <2>1. ASSUME Goto(t, "file"), proc[t].op # "poll" PROVE Followed(t)
    <3>1. Shown(proc'[t]) /\ Spares(proc'[t])
      BY <2>1, <1>6, <1>g, <1>r DEF Claim, Shown, Spares, MayRemove, FolderLabels, GivenUpLabels
    <3>2. QED
      BY <2>1, <3>1, <1>g, <1>y DEF AddLabels
  <2>2. QED
    BY <1>6, <1>o, <2>1, DoneFollowed DEF Claim, CasAttemptOr
<1>7. ASSUME Locate(t) PROVE Followed(t)
  <2>1. ASSUME NEW d, folder[d] = "visible", folder[own] = "visible" => d = own,
               proc' = [proc EXCEPT ![t].pc = "file", ![t].dir = d]
        PROVE  Followed(t)
    <3>1. /\ proc'[t].pc = "file" /\ proc'[t].op = proc[t].op /\ proc'[t].listing = proc[t].listing
          /\ proc'[t].a = proc[t].a /\ proc'[t].n = proc[t].n /\ proc'[t].dir = d
      BY <2>1, <1>f DEF ProcInv, Fields
    <3>2. d = own \/ Kept(own)
      BY <2>1, OthersKept
    <3>3. Shown(proc'[t]) /\ Spares(proc'[t])
      BY <2>1, <3>1, <3>2 DEF Shown, Spares, Spared
    <3>4. QED
      BY <3>1, <3>3, <1>y DEF AddLabels
  <2>2. QED
    BY <1>7, <1>o, <2>1 DEF Locate, FoldersFor
<1>8. ASSUME File(t) PROVE Followed(t)
  <2>1. ASSUME NEW l \in {"inspect", "move"}, Goto(t, l) PROVE Followed(t)
    <3>1. Shown(proc'[t])
      BY <1>8, <2>1, <1>g, <1>r DEF File, Shown, FolderLabels
    <3>2. Spares(proc'[t])
      BY <1>8, <2>1, <1>g, <1>r DEF File, Spares, Spared, MayRemove, GivenUpLabels
    <3>3. QED
      BY <2>1, <3>1, <3>2, <1>g, <1>y DEF AddLabels
  <2>2. QED
    BY <1>8, <2>1 DEF File
(* The verdict of a folder with nothing usable.                             *)
<1>j. ASSUME proc[t].pc \in {"inspect", "move"}, NEW v, proc' = [proc EXCEPT ![t].pc = "settle", ![t].verdict = v],
             v = "junk" => Content[proc[t].dir] = "junk"
      PROVE  Followed(t)
  <2>1. /\ proc'[t].pc = "settle" /\ proc'[t].op = proc[t].op /\ proc'[t].listing = proc[t].listing
        /\ proc'[t].a = proc[t].a /\ proc'[t].n = proc[t].n /\ proc'[t].verdict = v
    BY <1>j, <1>f DEF ProcInv, Fields
  <2>2. Spares(proc'[t])
    <3>1. SUFFICES ASSUME proc[t].op = "poll", v = "junk" PROVE Kept(own)
      BY <2>1 DEF Spares, Spared, MayRemove, GivenUpLabels
    <3>2. MayRemove(proc[t])
      BY <1>j, <3>1 DEF MayRemove
    <3>3. proc[t].dir = own \/ Kept(own)
      BY <1>j, <1>r, <3>2 DEF Spares, Spared
    <3>4. QED
      BY <1>j, <3>1, <3>3, OthersKept
  <2>3. QED
    BY <2>1, <2>2, <1>y DEF Shown, AddLabels, FolderLabels
<1>9. ASSUME Inspect(t) PROVE Followed(t)
  <2> DEFINE found == Inspection(proc[t].a, proc[t].dir)
  <2>1. CASE found = "fileable"
    <3>1. /\ proc'[t].pc = "delete" /\ proc'[t].op = proc[t].op /\ proc'[t].listing = proc[t].listing
          /\ proc'[t].a = proc[t].a /\ proc'[t].dir = proc[t].dir
      BY <1>9, <2>1, <1>f DEF Inspect, ProcInv, Fields
    <3>2. Shown(proc'[t])
      BY <1>9, <2>1, <3>1, <1>r, InspectionTells DEF Inspect, Shown, FolderLabels
    <3>3. QED
      BY <3>1, <3>2, <1>y DEF Spares, MayRemove, AddLabels, GivenUpLabels
  <2>2. CASE found # "fileable"
    BY ZenonT(40), <1>9, <1>j, <2>2, InspectionTells DEF Inspect
  <2>3. QED
    BY <2>1, <2>2
<1>10. ASSUME Delete(t) PROVE Followed(t)
  <2>1. folder[proc[t].dir] = "visible" /\ Fileable(proc[t].a, proc[t].dir)
    BY <1>10, <1>r DEF Delete, Shown, FolderLabels
  <2>2. ASSUME Goto(t, "move") PROVE Followed(t)
    BY <2>1, <2>2, <1>g, <1>y DEF Fileable, Shown, Spares, MayRemove, AddLabels, GivenUpLabels
  <2>3. ASSUME proc' = [proc EXCEPT ![t].pc = "settle", ![t].verdict = "failed"] PROVE Followed(t)
    <3>1. proc'[t].pc = "settle" /\ proc'[t].verdict = "failed" /\ proc'[t].listing = proc[t].listing
      BY <2>3, <1>f DEF ProcInv, Fields
    <3>2. QED
      BY <3>1, <1>y DEF Shown, Spares, MayRemove, AddLabels, FolderLabels, GivenUpLabels
  <2>4. QED
    BY <1>10, <2>2, <2>3 DEF Delete
<1>11. ASSUME Move(t) PROVE Followed(t)
  BY <1>11, <1>j, InspectionTells DEF Move
<1>12. ASSUME SettleAttempt(t) PROVE Followed(t)
  <2>1. ASSUME proc[t].verdict = "junk", proc[t].op = "poll" PROVE Kept(own)
    BY <1>12, <2>1, <1>r DEF SettleAttempt, Spares, Spared, MayRemove
  <2>2. QED
    BY <1>12, <1>o, <1>u, <2>1, DoneFollowed DEF SettleAttempt
<1>13. ASSUME Conclude(t) PROVE Followed(t)
  <2>1. ASSUME proc[t].op = "poll" PROVE Kept(own)
    <3>1. proc[t].listing[own] = "error"
      BY <1>13, <2>1, <1>r DEF Conclude, Spares, Spared, MayRemove
    <3>2. own \in Hashes
      BY <1>13, <1>r, HashesThere DEF Conclude, Placed, AttemptLabels
    <3>3. QED
      BY <3>1, <3>2, OthersKept DEF ErrorsFailed, Failed
  <2>2. QED
    BY <1>13, <1>u, <2>1, DoneFollowed, AbortFollowed DEF Conclude, CasAttemptOr
<1>k. ASSUME proc[t].pc \in GivenUpLabels, proc[t].op = "poll" PROVE Kept(own)
  BY <1>k, <1>r DEF Spares, Spared, MayRemove, GivenUpLabels
<1>14. ASSUME TryNext(t) \/ Add(t) \/ Unsubmit(t) \/ Exhaust(t) PROVE Followed(t)
  BY <1>14, <1>k, <1>u DEF TryNext, Add, AddOr, Unsubmit, Exhaust, GivenUpLabels
<1>15. ASSUME Submit(t) PROVE Followed(t)
  <2>1. proc[t].a \in Avids
    BY <1>15, <1>r DEF Submit, Placed, AttemptLabels
  <2>2. proc[t].op = "poll" => Kept(own)
    BY <1>15, <1>k DEF Submit, GivenUpLabels
  <2>3. Goto(t, "exhaust") => Followed(t)
    BY <2>2, <1>u
  <2>4. QED
    BY <1>15, <2>1, <2>2, <2>3, ClaimFollowed DEF Submit, AddLabels
<1>16. ASSUME Snapshot(t) \/ Clear(t) \/ Cleared(t) \/ Due(t) \/ Retry(t) PROVE Followed(t)
  <2>1. CASE Snapshot(t)
    <3>1. proc'[t].pc = "sweeping" /\ proc'[t].listing = proc[t].listing
      BY <2>1, <1>f DEF Snapshot, ProcInv, Fields
    <3>2. QED
      BY <3>1, <1>n, <1>x
  <2>2. CASE Clear(t)
    <3>1. proc'[t].pc \in {"due", "cleared"} /\ \A h \in Hashes : proc'[t].listing[h] # "error"
      BY <2>2 DEF Clear, Idle, ProcInv
    <3>2. QED
      BY <3>1, <1>n, OtherLabels DEF Followed
  <2>3. CASE Cleared(t) \/ Due(t)
    <3>1. proc'[t].pc \in {"due", "retrying"} /\ proc'[t].listing = NoTasks
      BY <2>3 DEF Cleared, Due, Idle, ProcInv
    <3>2. QED
      BY <3>1, <1>n, <1>x
  <2>4. CASE Retry(t)
    <3>1. ASSUME NEW x, NEW todo, proc' = [proc EXCEPT ![t].pc = "record", ![t].todo = todo, ![t].a = x[1], ![t].st = x[3]]
          PROVE  Followed(t)
      <4>1. proc'[t].pc = "record" /\ proc'[t].listing = proc[t].listing
        BY <3>1, <1>f DEF ProcInv, Fields
      <4>2. QED
        BY <4>1, <1>n, <1>x
    <3>2. ASSUME proc' = [proc EXCEPT ![t] = Idle] PROVE Followed(t)
      <4>1. proc'[t].pc = "idle" /\ proc'[t].listing = NoTasks
        BY <3>2 DEF Idle, ProcInv
      <4>2. QED
        BY <4>1, <1>n, <1>x
    <3>3. QED
      BY <2>4, <3>1, <3>2 DEF Retry
  <2>5. QED
    BY <1>16, <2>1, <2>2, <2>3, <2>4
<1>17. ASSUME Sweep(t) PROVE Followed(t)
  <2>1. proc[t].op = "sweep"
    BY <1>17, <1>r DEF Sweep, Placed
  <2>2. ASSUME NEW x, NEW todo, NEW d, folder[d] = "visible",
               proc'[t] = [proc[t] EXCEPT !.todo = todo, !.a = x[1], !.n = x[2], !.st = x[3], !.verdict = "lost",
                                          !.pc = "finish", !.dir = d]
        PROVE  Followed(t)
    <3>1. proc'[t].pc = "finish" /\ proc'[t].op = "sweep" /\ proc'[t].dir = d /\ proc'[t].listing = proc[t].listing
      BY <2>1, <2>2, <1>f DEF Fields
    <3>2. QED
      BY <2>2, <3>1, <1>y DEF Shown, Spares, MayRemove, AddLabels
  <2>3. ASSUME NEW x, NEW todo,
               proc'[t] = [proc[t] EXCEPT !.todo = todo, !.a = x[1], !.n = x[2], !.st = x[3], !.verdict = "lost",
                                          !.pc = "conclude"]
        PROVE  Followed(t)
    <3>1. proc'[t].pc = "conclude" /\ proc'[t].op = "sweep" /\ proc'[t].listing = proc[t].listing
      BY <2>1, <2>3, <1>f DEF Fields
    <3>2. QED
      BY <2>3, <3>1, <1>y DEF Shown, Spares, MayRemove, AddLabels, FolderLabels
  <2>4. ASSUME NEW x \in proc[t].todo,
               LET picked == [proc[t] EXCEPT !.todo = @ \ {x}, !.a = x[1], !.n = x[2],
                                             !.st = x[3], !.verdict = "lost"]
               IN  \/ \E d \in FoldersFor(x[1]) : proc' = [proc EXCEPT ![t] = [picked EXCEPT !.pc = "finish", !.dir = d]]
                   \/ proc' = [proc EXCEPT ![t] = [picked EXCEPT !.pc = "conclude"]]
        PROVE  Followed(t)
    <3> DEFINE rest == proc[t].todo \ {x}
               picked == [proc[t] EXCEPT !.todo = rest, !.a = x[1], !.n = x[2], !.st = x[3], !.verdict = "lost"]
    <3>1. \/ proc'[t] = [picked EXCEPT !.pc = "conclude"]
          \/ \E d \in FoldersFor(x[1]) : proc'[t] = [picked EXCEPT !.pc = "finish", !.dir = d]
      BY <2>4 DEF ProcInv
    <3> HIDE DEF rest
    <3>2. ASSUME proc'[t] = [picked EXCEPT !.pc = "conclude"] PROVE Followed(t)
      BY <3>2, <2>3
    <3>3. ASSUME NEW d \in FoldersFor(x[1]), proc'[t] = [picked EXCEPT !.pc = "finish", !.dir = d] PROVE Followed(t)
      <4>1. folder[d] = "visible"
        BY DEF FoldersFor
      <4>2. QED
        BY ZenonT(40), <3>3, <4>1, <2>2
    <3>4. QED
      BY <3>1, <3>2, <3>3
  <2>5. QED
    BY <1>17, <1>o, <2>4 DEF Sweep
<1>18. QED
  BY <1>1, <1>2, <1>3, <1>4, <1>5, <1>6, <1>7, <1>8, <1>9, <1>10, <1>11, <1>12, <1>13, <1>14, <1>15, <1>16, <1>17
     DEF Poll

LEMMA IntakeFollowed ==
    ASSUME LedgerTypeOK, ProcInv, ProcsPlaced, NEW p \in Procs, Intake(p)
    PROVE  Followed(p)
<1>n. FollowedLabels = {"add", "add_next", "op_add", "file", "inspect", "delete", "move", "finish", "claim", "settle",
                        "conclude", "next", "submit", "unsubmit", "exhaust", "remove"}
  BY DEF FollowedLabels, AddLabels, FolderLabels, GivenUpLabels
<1>1. ASSUME NEW l \in {"claim_next", "repark", "park", "reread", "unsubmit_next"}, Goto(p, l) PROVE Followed(p)
  BY <1>1, <1>n, GotoFollowed
<1>2. ASSUME Record(p) \/ AddNext(p) \/ UnsubmitNext(p) PROVE Followed(p)
  BY <1>1, <1>2 DEF Record, AddNext, AddOr, UnsubmitNext
<1>3. ASSUME ClaimNext(p) PROVE Followed(p)
  <2> DEFINE none == CASE proc[p].op = "due" -> Goto(p, "repark")
                       [] proc[p].op = "replace" -> Goto(p, "park")
                       [] OTHER                  -> Done(p)
  <2>1. none => Followed(p)
    BY <1>1, DoneFollowed
  <2>2. ClaimOr(p, "add_next", none) /\ proc[p].a \in Avids
    BY <1>3 DEF ClaimNext, At, ProcsPlaced, Placed, TitleLabels
  <2> HIDE DEF none
  <2>3. QED
    BY <2>1, <2>2, ClaimFollowed DEF AddLabels
<1>4. ASSUME NEW l \in {"lift", "repark"}, NEW s, proc' = [proc EXCEPT ![p].pc = l, ![p].st = s] PROVE Followed(p)
  <2>1. proc'[p].pc = l /\ proc'[p].listing = proc[p].listing
    BY <1>4 DEF ProcInv, Fields
  <2>2. QED
    BY <2>1, <1>n, OtherLabels DEF Followed
<1>5. ASSUME Reread(p) \/ Park(p) PROVE Followed(p)
  BY <1>4, <1>5, DoneFollowed DEF Reread, Park
<1>6. ASSUME Lift(p) \/ Repark(p) PROVE Followed(p)
  BY <1>6, DoneFollowed, AbortFollowed DEF Lift, Repark
<1>7. QED
  BY <1>2, <1>3, <1>5, <1>6 DEF Intake

LEMMA WorkerFollowed ==
    ASSUME LedgerTypeOK, ProcInv, ProcsPlaced, NEW w \in Workers, Continue(w) \/ \E a \in Avids : Request(w, a)
    PROVE  Followed(w)
<1>n. FollowedLabels = {"add", "add_next", "op_add", "file", "inspect", "delete", "move", "finish", "claim", "settle",
                        "conclude", "next", "submit", "unsubmit", "exhaust", "remove"}
  BY DEF FollowedLabels, AddLabels, FolderLabels, GivenUpLabels
<1>1. ASSUME NEW l \in {"rearm", "record", "held", "lift", "park", "op_unsubmit"}, Goto(w, l) PROVE Followed(w)
  BY <1>1, <1>n, GotoFollowed
<1>2. ASSUME Discover(w) \/ RearmAccepted(w) \/ Held(w) \/ OpAdd(w) \/ OpUnsubmit(w) PROVE Followed(w)
  <2>1. CASE Discover(w)
    BY <1>1, <2>1, DoneFollowed DEF Discover
  <2>2. CASE RearmAccepted(w) \/ Held(w)
    BY <1>1, <2>2, DoneFollowed DEF RearmAccepted, Held
  <2>3. CASE OpAdd(w) \/ OpUnsubmit(w)
    BY <1>1, <2>3, DoneFollowed DEF OpAdd, AddOr, OpUnsubmit
  <2>4. QED
    BY <1>2, <2>1, <2>2, <2>3
<1>3. ASSUME OpClaim(w) PROVE Followed(w)
  <2>1. proc[w].a \in Avids
    BY <1>3 DEF OpClaim, At, ProcsPlaced, Placed, TitleLabels
  <2>2. QED
    BY <1>3, <2>1, ClaimFollowed, DoneFollowed DEF OpClaim, AddLabels
<1>x. ASSUME proc'[w].pc \notin FollowedLabels, proc'[w].listing \in {proc[w].listing, NoTasks} PROVE Followed(w)
  BY <1>x, OtherLabels DEF Followed, NoTasks
<1>4. ASSUME Pick(w) \/ RecordChosen(w) PROVE Followed(w)
  <2>1. proc'[w].pc \in {"claim_chosen", "pick", "park"} /\ proc'[w].listing = proc[w].listing
    BY <1>4 DEF Pick, RecordChosen, ProcInv, Fields
  <2>2. QED
    BY <2>1, <1>n, <1>x
<1>5. ASSUME ClaimChosen(w) PROVE Followed(w)
  <2> DEFINE a == proc[w].a
             m == proc[w].m
  <2>1. CASE Goto(w, "op_add") /\ ClaimAttempt(a, m)
    <3>1. /\ proc'[w].pc = "op_add" /\ proc'[w].m = m /\ proc'[w].a = a /\ proc'[w].listing = proc[w].listing
      BY <2>1 DEF Goto, ProcInv, Fields
    <3>2. a \in Avids /\ m \in DOMAIN attempts[a] /\ StateOf(a, m) = "pending"
      BY <1>5, <2>1 DEF ClaimChosen, At, ProcsPlaced, Placed, TitleLabels, ClaimAttempt, Claimable, StateOf
    <3>3. attempts'[a][m].state = "submitted"
      <4>1. attempts \in [Avids -> Seq(Attempt)] /\ attempts' = [attempts EXCEPT ![a][m].state = "submitted"]
        BY <2>1 DEF ClaimAttempt, SetAttempt, LedgerTypeOK
      <4>2. attempts[a][m] \in Attempt
        BY <3>2, <4>1
      <4> HIDE DEF a, m
      <4>3. QED
        BY <3>2, <4>1, <4>2 DEF Attempt
    <3>4. Shown(proc'[w]) /\ Spares(proc'[w])
      BY <3>1 DEF Shown, Spares, MayRemove, FolderLabels, GivenUpLabels
    <3>5. QED
      BY <3>1, <3>2, <3>3, <3>4 DEF Followed
  <2>2. QED
    BY <1>1, <1>5, <2>1, DoneFollowed DEF ClaimChosen
<1>6. ASSUME NEW a \in Avids, Request(w, a) PROVE Followed(w)
  <2>1. ASSUME NEW l \in {"discover", "op_claim", "pick"}, NEW op, NEW st,
               \/ proc' = [proc EXCEPT ![w].pc = l, ![w].op = op, ![w].a = a, ![w].st = st]
               \/ proc' = [proc EXCEPT ![w].pc = l, ![w].op = op, ![w].a = a]
        PROVE  Followed(w)
    <3>1. proc'[w].pc = l /\ proc'[w].listing = proc[w].listing
      BY <2>1 DEF ProcInv, Fields
    <3>2. QED
      BY <3>1, <1>n, <1>x
  <2>2. CASE Sight(w, a)
    BY <2>1, <2>2 DEF Sight
  <2>3. ASSUME NEW h, OpRetry(w, a) \/ OpMagnet(w, a, h) PROVE Followed(w)
    BY <2>1, <2>3 DEF OpRetry, OpMagnet, Begin
  <2>4. CASE OpReplace(w, a)
    <3>1. proc'[w].pc \in {"record", "record_chosen"} /\ proc'[w].listing = NoTasks
      BY <2>4 DEF OpReplace, Idle, ProcInv
    <3>2. QED
      BY <3>1, <1>n, <1>x
  <2>5. QED
    BY <1>6, <2>2, <2>3, <2>4 DEF Request
<1>7. QED
  BY <1>2, <1>3, <1>4, <1>5, <1>6, IntakeFollowed DEF Continue

(* Whose step it is, and what it leaves of what that process relies on.     *)
Leads(p) == Alone(p) /\ Followed(p) /\ (p \in Trackers => Placed(proc'[p], attempts))

LEMMA StepLeads ==
    "stall" \notin Faults /\ PlacedInv /\ ErrorsFailed /\ ReplacedInv /\ [Next]_vars
        => UNCHANGED proc \/ \E p \in Procs : Leads(p)
<1> SUFFICES ASSUME "stall" \notin Faults, PlacedInv, ErrorsFailed, ReplacedInv, [Next]_vars
             PROVE  UNCHANGED proc \/ \E p \in Procs : Leads(p)
  OBVIOUS
<1> USE DEF PlacedInv, ReplacedInv
<1>1. ASSUME NEW p \in Procs, Crash(p) \/ Restart(p) PROVE Leads(p)
  <2>1. Alone(p) /\ proc'[p] \in {[Idle EXCEPT !.pc = "down"], Idle}
    BY <1>1 DEF Crash, Restart, ProcInv, Alone
  <2>2. Followed(p)
    BY <2>1, IdleFollowed DEF Idle, FollowedLabels, AddLabels, FolderLabels, GivenUpLabels
  <2>3. Idle = [Idle EXCEPT !.pc = "idle"]
    BY DEF Idle
  <2>4. QED
    BY <2>1, <2>2, <2>3, RestPlaced DEF Leads, RestLabels
<1>2. ASSUME NEW h \in Hashes, Cloud(h) PROVE UNCHANGED proc
  BY <1>2 DEF Cloud, CloudFinishes, CloudFails, CloudDrops, MountShows, GraceEnds
<1>3. ASSUME NEW a \in Avids, OpIgnore(a) \/ OpResume(a) \/ RetryTimer(a) PROVE UNCHANGED proc
  BY <1>3 DEF OpIgnore, OpResume, RetryTimer
<1>4. ASSUME NEW t \in Trackers, Poll(t) \/ Intake(t) PROVE Leads(t)
  <2>1. Alone(t) /\ Placed(proc'[t], attempts)
    BY <1>4, PollPlaced, IntakePlaced
  <2>2. Followed(t)
    BY <1>4, PollFollowed, IntakeFollowed
  <2>3. QED
    BY <2>1, <2>2 DEF Leads
<1>5. ASSUME NEW w \in Workers, Continue(w) \/ \E a \in Avids : Request(w, a) PROVE Leads(w)
  <2>1. Followed(w) /\ w \notin Trackers
    BY <1>5, WorkerFollowed, PipelineAssumption
  <2>2. CASE RecordChosen(w)
    BY <2>1, <2>2 DEF RecordChosen, ProcInv, Alone, Leads
  <2>3. ASSUME NEW a, NEW h, OpMagnet(w, a, h) PROVE Alone(w)
    <3>1. proc' = [proc EXCEPT ![w].pc = "pick", ![w].op = "magnet", ![w].a = a, ![w].st = acq[a].state]
      BY <2>3 DEF OpMagnet, Begin
    <3>2. QED
      BY <3>1 DEF ProcInv, Alone
  <2>4. QED
    BY <1>5, <2>1, <2>2, <2>3, ContinuePlaced, RequestPlaced DEF Leads, Request
<1>6. QED
  BY <1>1, <1>2, <1>3, <1>4, <1>5 DEF Next, vars

-----------------------------------------------------------------------------
(* What a step does to the mount and to the library: it takes nothing away  *)
(* that anybody waits for, unless it is the tracker at one of three labels. *)
Undisturbed ==
    /\ \A h \in Hashes : folder[h] = "visible" => folder'[h] = "visible"
    /\ \A a \in Avids : library[a] # NoHash => library'[a] # NoHash
    /\ \A a \in Avids : acq'[a].replacing => acq[a].replacing \/ library'[a] # NoHash

DeletesOld(t) ==
    /\ At(t, "delete")
    /\ UNCHANGED <<acq, folder>>
    /\ proc'[t].pc = "move" \/ (proc'[t].pc = "settle" /\ proc'[t].verdict = "failed")
    /\ proc'[t].dir = proc[t].dir
    /\ \A a \in Avids \ {proc[t].a} : library'[a] = library[a]
RemovesOwn(t) ==
    /\ At(t, "remove") /\ proc[t].op = "poll"
    /\ UNCHANGED <<acq, library>>
    /\ \A h \in Hashes \ {HashOf(proc[t].a, proc[t].n)} : folder'[h] = folder[h]
    /\ proc'[t].pc = "advance"
MovesIn(t) ==
    /\ At(t, "move") /\ Fileable(proc[t].a, proc[t].dir)
    /\ UNCHANGED acq
    /\ library' = [library EXCEPT ![proc[t].a] = proc[t].dir]
    /\ folder' = [folder EXCEPT ![proc[t].dir] = "none"]
    /\ proc'[t].pc = "settle" /\ proc'[t].verdict = "archived"

Disturbed == \E t \in Trackers : DeletesOld(t) \/ RemovesOwn(t) \/ MovesIn(t)

(* And to CloudDrive's tasks: one starts for a magnet handed over, fails,   *)
(* or finishes, and then its download is on its way to the mount.           *)
TasksTraced ==
    /\ \A h \in Hashes : task'[h] # task[h] =>
          \/ task'[h] = "none"
          \/ task[h] = "running" /\ task'[h] \in {"finished", "error"}
          \/ \E p \in Procs : Handing(p, h) /\ proc'[p].pc \notin AddLabels
    /\ \A h \in Hashes : folder'[h] # folder[h] =>
          \/ folder'[h] = "none"
          \/ folder[h] = "hidden" /\ folder'[h] = "visible"
          \/ task[h] = "running" /\ task'[h] = "finished"

(* No row becomes one that is being replaced.                               *)
Unreplaced == \A a \in Avids : acq'[a].replacing => acq[a].replacing

LEMMA RowUnreplaced ==
    ASSUME LedgerTypeOK, NEW a, NEW timer,
           \/ \E expected, target : CasRow(a, expected, target, timer) \/ Transition(a, expected, target, timer)
           \/ Insert(a, timer) \/ Rearm(a, timer)
           \/ TimerExpires(a)
    PROVE  Unreplaced
<1>1. \A b \in Avids : acq[b] \in Row
  BY DEF LedgerTypeOK
<1>2. acq \in [Avids -> Row]
  BY DEF LedgerTypeOK
<1>3. ASSUME NEW row, acq' = [acq EXCEPT ![a] = row], a \in Avids /\ row.replacing => acq[a].replacing
      PROVE Unreplaced
  BY <1>2, <1>3 DEF Unreplaced
<1>4. ASSUME NEW expected, NEW target, Transition(a, expected, target, timer) PROVE Unreplaced
  <2> DEFINE row == [state |-> target, timer |-> timer, replacing |-> acq[a].replacing /\ target # "archived",
                     floor |-> IF target = "archived" THEN 0 ELSE acq[a].floor]
  <2>1. acq' = [acq EXCEPT ![a] = row]
    BY <1>2, <1>4 DEF Transition
  <2>2. row.replacing => acq[a].replacing
    OBVIOUS
  <2> HIDE DEF row
  <2>3. QED
    BY <1>3, <2>1, <2>2
<1>5. CASE Insert(a, timer)
  BY <1>3, <1>5 DEF Insert
<1>6. ASSUME NEW x, acq' = [acq EXCEPT ![a].timer = x] PROVE Unreplaced
  <2>1. acq' = [acq EXCEPT ![a] = [acq[a] EXCEPT !.timer = x]]
    BY <1>2, <1>6
  <2>2. a \in Avids /\ [acq[a] EXCEPT !.timer = x].replacing => acq[a].replacing
    BY <1>1 DEF Row
  <2>3. QED
    BY <1>3, <2>1, <2>2
<1>7. UNCHANGED acq => Unreplaced
  BY DEF Unreplaced
<1>8. QED
  BY <1>4, <1>5, <1>6, <1>7 DEF CasRow, Rearm, TimerExpires, ledgerVars

LEMMA CalmStep ==
    ASSUME Unreplaced, UNCHANGED <<task, folder, library>>
    PROVE  TasksTraced /\ Undisturbed
BY DEF Unreplaced, TasksTraced, Undisturbed

LEMMA HandingStep ==
    ASSUME CloudTypeOK, NEW p \in Procs, proc[p].pc \in AddLabels, proc'[p].pc \notin AddLabels,
           AcceptTask(HashOf(proc[p].a, proc[p].m)), UNCHANGED <<acq, folder, library>>
    PROVE  TasksTraced /\ Undisturbed
<1>1. \A h \in Hashes : task'[h] # task[h] => h = HashOf(proc[p].a, proc[p].m)
  BY DEF AcceptTask, CloudTypeOK
<1>2. TasksTraced
  BY <1>1 DEF TasksTraced, Handing
<1>3. Undisturbed
  BY DEF Undisturbed
<1>4. QED
  BY <1>2, <1>3

LEMMA DoneLabel ==
    ASSUME ProcInv, NEW p \in Procs, Done(p)
    PROVE  /\ proc'[p].pc \notin AddLabels
           /\ proc[p].op = "poll" => proc'[p].pc = "advance"
<1>1. CASE proc[p].op \in {"poll", "sweep", "due"}
  <2>1. LoopOf[proc[p].op] \notin AddLabels /\ (proc[p].op = "poll" => LoopOf[proc[p].op] = "advance")
    BY <1>1 DEF LoopOf, AddLabels
  <2>2. proc'[p].pc = LoopOf[proc[p].op]
    BY <1>1 DEF Done, ProcInv, LoopOf, Idle
  <2>3. QED
    BY <2>1, <2>2
<1>2. CASE proc[p].op \notin {"poll", "sweep", "due"}
  BY <1>2 DEF Done, ProcInv, LoopOf, Idle, AddLabels
<1>3. QED
  BY <1>1, <1>2

LEMMA GotoLabel ==
    ASSUME ProcInv, NEW p \in Procs, NEW l, Goto(p, l)
    PROVE  proc'[p].pc = l
BY DEF Goto, ProcInv, Fields

LEMMA PollMount ==
    ASSUME PlacedInv, NEW t \in Trackers, Poll(t)
    PROVE  TasksTraced /\ (Undisturbed \/ Disturbed)
<1> USE DEF ledgerVars, cloudVars, PlacedInv
<1>u. ASSUME UNCHANGED acq PROVE Unreplaced
  BY <1>u DEF Unreplaced
<1>1. ASSUME PollList(t) \/ PollJoin(t) \/ Advance(t) \/ Check(t) \/ Locate(t) \/ File(t) \/ Inspect(t) \/ TryNext(t)
             \/ Snapshot(t) \/ Sweep(t) \/ Clear(t) \/ Due(t) \/ Retry(t)
      PROVE  TasksTraced /\ Undisturbed
  BY <1>1, <1>u, CalmStep DEF PollList, PollJoin, Advance, Check, Locate, File, Inspect, TryNext, Snapshot, Sweep,
     Clear, Due, Retry
<1>2. ASSUME Progress(t) \/ Finish(t) \/ Claim(t) \/ Release(t) \/ SettleAttempt(t) \/ Conclude(t) \/ Unsubmit(t)
             \/ Submit(t)
      PROVE  TasksTraced /\ Undisturbed
  BY <1>2, <1>u, CalmStep DEF Progress, Finish, Claim, Release, SettleAttempt, Conclude, Unsubmit, Submit, ClaimOr,
     CasAttemptOr, CasAttempt, TransitionAttempt, RecordProgress, ClaimNextPending
<1>3. ASSUME SettleRow(t) \/ Exhaust(t) PROVE TasksTraced /\ Undisturbed
  BY <1>3, RowUnreplaced, CalmStep DEF SettleRow, Exhaust
<1>4. ASSUME Add(t) PROVE TasksTraced /\ Undisturbed
  BY <1>4, <1>u, CalmStep, HandingStep, GotoLabel DEF Add, AddOr, At, AddLabels
<1>5. ASSUME Cleared(t) PROVE TasksTraced /\ Undisturbed
  <2>1. \A h \in Hashes : task'[h] # task[h] => task'[h] = "none"
    BY <1>5 DEF Cleared, CloudTypeOK
  <2>2. UNCHANGED <<acq, folder, library>>
    BY <1>5 DEF Cleared
  <2>3. QED
    BY <2>1, <2>2 DEF TasksTraced, Undisturbed
<1>6. ASSUME Remove(t) PROVE TasksTraced /\ (Undisturbed \/ Disturbed)
  <2> DEFINE own == HashOf(proc[t].a, proc[t].n)
  <2>1. CASE UNCHANGED cloudVars
    BY <1>6, <1>u, <2>1, CalmStep DEF Remove
  <2>2. CASE /\ proc[t].op = "poll"
             /\ task' = [task EXCEPT ![own] = "none"]
             /\ folder' = [folder EXCEPT ![own] = "none"]
    <3>1. /\ \A h \in Hashes : task'[h] # task[h] => task'[h] = "none"
          /\ \A h \in Hashes : folder'[h] # folder[h] => folder'[h] = "none"
          /\ \A h \in Hashes \ {own} : folder'[h] = folder[h]
      BY <2>2 DEF CloudTypeOK
    <3>2. proc'[t].pc = "advance"
      BY <1>6, <2>2, DoneLabel DEF Remove
    <3>3. RemovesOwn(t)
      BY <1>6, <2>2, <3>1, <3>2 DEF RemovesOwn, Remove
    <3>4. QED
      BY <3>1, <3>3 DEF TasksTraced, Disturbed
  <2>3. QED
    BY <1>6, <2>1, <2>2 DEF Remove
<1>7. ASSUME Delete(t) PROVE TasksTraced /\ (Undisturbed \/ Disturbed)
  <2>1. \A a \in Avids \ {proc[t].a} : library'[a] = library[a]
    BY <1>7 DEF Delete, CloudTypeOK
  <2>2. UNCHANGED <<acq, task, folder>> /\ At(t, "delete")
    BY <1>7 DEF Delete
  <2>3. /\ proc'[t].pc = "move" \/ (proc'[t].pc = "settle" /\ proc'[t].verdict = "failed")
        /\ proc'[t].dir = proc[t].dir
    BY <1>7 DEF Delete, Goto, ProcInv, Fields
  <2>4. DeletesOld(t) /\ TasksTraced
    BY <2>1, <2>2, <2>3 DEF DeletesOld, TasksTraced
  <2>5. QED
    BY <2>4 DEF Disturbed
<1>8. ASSUME Move(t) PROVE TasksTraced /\ (Undisturbed \/ Disturbed)
  <2>1. CASE UNCHANGED <<library, folder>>
    BY <1>8, <1>u, <2>1, CalmStep DEF Move
  <2>2. CASE /\ Inspection(proc[t].a, proc[t].dir) = "fileable"
             /\ proc' = [proc EXCEPT ![t].pc = "settle", ![t].verdict = "archived"]
             /\ library' = [library EXCEPT ![proc[t].a] = proc[t].dir]
             /\ folder' = [folder EXCEPT ![proc[t].dir] = "none"]
    <3>1. proc'[t].pc = "settle" /\ proc'[t].verdict = "archived"
      BY <2>2 DEF ProcInv, Fields
    <3>2. MovesIn(t)
      BY <1>8, <2>2, <3>1, InspectionTells DEF MovesIn, Move
    <3>3. TasksTraced
      BY <1>8, <2>2 DEF TasksTraced, Move, CloudTypeOK
    <3>4. QED
      BY <3>2, <3>3 DEF Disturbed
  <2>3. QED
    BY <1>8, <2>1, <2>2 DEF Move
<1>9. QED
  BY <1>1, <1>2, <1>3, <1>4, <1>5, <1>6, <1>7, <1>8 DEF Poll

LEMMA IntakeMount ==
    ASSUME PlacedInv, NEW p \in Procs, Intake(p)
    PROVE  TasksTraced /\ Undisturbed
<1> USE DEF ledgerVars, cloudVars, PlacedInv
<1>u. ASSUME UNCHANGED acq PROVE Unreplaced
  BY <1>u DEF Unreplaced
<1>1. ASSUME Record(p) \/ ClaimNext(p) \/ UnsubmitNext(p) \/ Reread(p) \/ Park(p) PROVE TasksTraced /\ Undisturbed
  BY <1>1, <1>u, CalmStep DEF Record, AddAttempts, ClaimNext, ClaimOr, ClaimNextPending, UnsubmitNext, CasAttempt,
     TransitionAttempt, Reread, Park
<1>2. ASSUME AddNext(p) PROVE TasksTraced /\ Undisturbed
  BY <1>2, <1>u, CalmStep, HandingStep, GotoLabel DEF AddNext, AddOr, At, AddLabels
<1>3. ASSUME Lift(p) \/ Repark(p) PROVE TasksTraced /\ Undisturbed
  BY <1>3, <1>u, RowUnreplaced, CalmStep DEF Lift, Repark
<1>4. QED
  BY <1>1, <1>2, <1>3 DEF Intake

LEMMA WorkerMount ==
    ASSUME PlacedInv, NEW w \in Workers, Continue(w) \/ \E a \in Avids : Request(w, a)
    PROVE  TasksTraced /\ Undisturbed
<1> USE DEF ledgerVars, cloudVars, PlacedInv
<1>u. ASSUME UNCHANGED acq PROVE Unreplaced
  BY <1>u DEF Unreplaced
<1>1. ASSUME Discover(w) \/ RearmAccepted(w) \/ Held(w) PROVE TasksTraced /\ Undisturbed
  BY <1>1, <1>u, RowUnreplaced, CalmStep DEF Discover, RearmAccepted, Held
<1>2. ASSUME OpClaim(w) \/ Pick(w) \/ ClaimChosen(w) \/ OpUnsubmit(w) \/ RecordChosen(w)
      PROVE TasksTraced /\ Undisturbed
  BY <1>2, <1>u, CalmStep DEF OpClaim, ClaimOr, ClaimNextPending, Pick, ClaimChosen, ClaimAttempt, OpUnsubmit,
     CasAttempt, TransitionAttempt, RecordChosen, AddAttempts
<1>3. ASSUME OpAdd(w) PROVE TasksTraced /\ Undisturbed
  BY <1>3, <1>u, CalmStep, HandingStep, GotoLabel, DoneLabel DEF OpAdd, AddOr, At, AddLabels
<1>4. ASSUME NEW a \in Avids, Request(w, a) PROVE TasksTraced /\ Undisturbed
  <2>1. CASE OpReplace(w, a)
    <3>1. \A b \in Avids : acq'[b].replacing => acq[b].replacing \/ library[b] # NoHash
      BY <2>1 DEF OpReplace, BeginReplacement, LedgerTypeOK
    <3>2. UNCHANGED <<task, folder, library>>
      BY <2>1 DEF OpReplace
    <3>3. QED
      BY <3>1, <3>2 DEF TasksTraced, Undisturbed
  <2>2. ASSUME NEW h, Sight(w, a) \/ OpRetry(w, a) \/ OpMagnet(w, a, h) PROVE TasksTraced /\ Undisturbed
    BY <1>u, <2>2, CalmStep DEF Sight, OpRetry, OpMagnet, AddAttempts
  <2>3. QED
    BY <1>4, <2>1, <2>2 DEF Request
<1>5. QED
  BY <1>1, <1>2, <1>3, <1>4, IntakeMount DEF Continue

LEMMA StepMount ==
    PlacedInv /\ HandedOnce /\ [Next]_vars => TasksTraced /\ (Undisturbed \/ Disturbed)
<1> SUFFICES ASSUME PlacedInv, HandedOnce, [Next]_vars PROVE TasksTraced /\ (Undisturbed \/ Disturbed)
  OBVIOUS
<1> USE DEF ledgerVars, cloudVars
<1>u. ASSUME UNCHANGED acq PROVE Unreplaced
  BY <1>u DEF Unreplaced
<1>1. ASSUME NEW p \in Procs, Crash(p) \/ Restart(p) PROVE TasksTraced /\ Undisturbed
  BY <1>1, <1>u, CalmStep DEF Crash, Restart
<1>2. ASSUME NEW h \in Hashes, CloudFinishes(h) PROVE TasksTraced /\ Undisturbed
  <2>1. task[h] = "running" /\ folder[h] = "none"
    BY <1>2 DEF CloudFinishes, HandedOnce
  <2>2. /\ \A g \in Hashes \ {h} : task'[g] = task[g] /\ folder'[g] = folder[g]
        /\ task'[h] = "finished" /\ UNCHANGED <<acq, library>>
    BY <1>2 DEF CloudFinishes, PlacedInv, CloudTypeOK
  <2>3. QED
    BY <2>1, <2>2 DEF TasksTraced, Undisturbed
<1>3. ASSUME NEW h \in Hashes, CloudFails(h) \/ CloudDrops(h) PROVE TasksTraced /\ Undisturbed
  <2>1. \A g \in Hashes : task'[g] # task[g] => task'[g] = "none" \/ (task[g] = "running" /\ task'[g] = "error")
    BY <1>3 DEF CloudFails, CloudDrops, PlacedInv, CloudTypeOK
  <2>2. UNCHANGED <<acq, folder, library>>
    BY <1>3 DEF CloudFails, CloudDrops
  <2>3. QED
    BY <2>1, <2>2 DEF TasksTraced, Undisturbed
<1>4. ASSUME NEW h \in Hashes, MountShows(h) PROVE TasksTraced /\ Undisturbed
  <2>1. \A g \in Hashes : folder'[g] # folder[g] => folder[g] = "hidden" /\ folder'[g] = "visible"
    BY <1>4 DEF MountShows, PlacedInv, CloudTypeOK
  <2>2. UNCHANGED <<acq, task, library>>
    BY <1>4 DEF MountShows
  <2>3. QED
    BY <2>1, <2>2 DEF TasksTraced, Undisturbed
<1>5. ASSUME NEW h \in Hashes, GraceEnds(h) PROVE TasksTraced /\ Undisturbed
  BY <1>5, <1>u, CalmStep DEF GraceEnds
<1>6. ASSUME NEW a \in Avids, OpIgnore(a) \/ OpResume(a) \/ RetryTimer(a) PROVE TasksTraced /\ Undisturbed
  BY <1>6, RowUnreplaced, CalmStep DEF OpIgnore, OpResume, RetryTimer, PlacedInv
<1>7. CASE UNCHANGED vars
  BY <1>7, <1>u, CalmStep DEF vars
<1>8. QED
  BY <1>1, <1>2, <1>3, <1>4, <1>5, <1>6, <1>7, PollMount, IntakeMount, WorkerMount DEF Next, Cloud
-----------------------------------------------------------------------------
(* A process about to hand a magnet over was so before, or has just claimed *)
(* what was pending.                                                        *)
LEMMA HandingWas ==
    ASSUME Grown, ProcsPlaced, UNCHANGED proc \/ \E p \in Procs : Leads(p), NEW q \in Procs, NEW h, Handing(q, h)'
    PROVE  /\ proc'[q].a \in Avids /\ proc'[q].m \in DOMAIN attempts[proc'[q].a]
           /\ HashOf(proc'[q].a, proc'[q].m) = h
           /\ \/ Handing(q, h) /\ proc'[q] = proc[q]
              \/ Leads(q) /\ StateOf(proc'[q].a, proc'[q].m) = "pending"
<1>1. proc'[q].pc \in AddLabels /\ attempts'[proc'[q].a][proc'[q].m].hash = h
  BY DEF Handing, HashOf
<1>2. CASE proc'[q] = proc[q]
  <2>1. proc[q].a \in Avids /\ proc[q].m \in DOMAIN attempts[proc[q].a]
    BY <1>1, <1>2 DEF ProcsPlaced, Placed, AddLabels, MagnetLabels, AttemptLabels, TitleLabels
  <2>2. QED
    BY <1>1, <1>2, <2>1 DEF Grown, HashOf, Handing
<1>3. CASE Leads(q)
  <2>1. proc'[q].a \in Avids /\ proc'[q].m \in DOMAIN attempts[proc'[q].a] /\ StateOf(proc'[q].a, proc'[q].m) = "pending"
    BY <1>1, <1>3 DEF Leads, Followed
  <2>2. QED
    BY <1>1, <1>3, <2>1 DEF Grown, HashOf
<1>4. QED
  BY <1>2, <1>3 DEF Leads, Alone

LEMMA HandedOverStays ==
    ASSUME MagnetsApart, HashTriedOnce, Grown, ProcsPlaced, UNCHANGED proc \/ \E p \in Procs : Leads(p), NEW h, HandedOver(h)
    PROVE  HandedOver(h)'
<1>0. PICK a \in Avids : \E i \in DOMAIN attempts[a] : HashOf(a, i) = h /\ StateOf(a, i) # "pending"
  BY DEF HandedOver
<1>1. PICK i \in DOMAIN attempts[a] : HashOf(a, i) = h /\ StateOf(a, i) # "pending"
  BY <1>0
<1>2. i \in DOMAIN attempts'[a] /\ HashOf(a, i)' = h /\ StateOf(a, i)' # "pending"
  BY <1>1 DEF Grown, HashOf, StateOf
<1>3. ASSUME NEW q \in Procs, Handing(q, h)' PROVE FALSE
  <2>1. Leads(q) /\ StateOf(proc'[q].a, proc'[q].m) = "pending"
    BY <1>3, HandingWas DEF HandedOver
  <2>2. proc'[q].a = a /\ proc'[q].m = i
    BY <1>1, <1>3, HandingWas, OneAttempt
  <2>3. QED
    BY <1>1, <2>1, <2>2
<1>4. QED
  BY <1>2, <1>3 DEF HandedOver

(* A magnet is handed to CloudDrive by one process, once.                   *)
LEMMA HandingStays ==
    ASSUME MagnetsApart, HashTriedOnce, PlacedInv, Grown, TasksTraced, UNCHANGED proc \/ \E p \in Procs : Leads(p),
           HandingInv
    PROVE  HandingInv'
<1> USE DEF PlacedInv, HandingInv
<1>1. HandedAlone'
  <2>1. ASSUME NEW p \in Procs, proc'[p].pc \in AddLabels PROVE attempts'[proc'[p].a][proc'[p].m].state # "pending"
    <3>1. CASE proc'[p] = proc[p]
      <4>1. proc[p].a \in Avids /\ proc[p].m \in DOMAIN attempts[proc[p].a]
        BY <2>1, <3>1 DEF ProcsPlaced, Placed, AddLabels, MagnetLabels, AttemptLabels, TitleLabels
      <4>2. StateOf(proc[p].a, proc[p].m) # "pending"
        BY <2>1, <3>1 DEF HandedAlone
      <4>3. QED
        BY <3>1, <4>1, <4>2 DEF Grown, StateOf
    <3>2. CASE Leads(p)
      BY <2>1, <3>2 DEF Leads, Followed
    <3>3. QED
      BY <3>1, <3>2 DEF Leads, Alone
  <2>2. ASSUME NEW p \in Procs, NEW q \in Procs, NEW h \in Hashes, Handing(p, h)', Handing(q, h)', p # q PROVE FALSE
    <3>1. /\ proc'[p].a \in Avids /\ proc'[p].m \in DOMAIN attempts[proc'[p].a] /\ HashOf(proc'[p].a, proc'[p].m) = h
          /\ proc'[q].a \in Avids /\ proc'[q].m \in DOMAIN attempts[proc'[q].a] /\ HashOf(proc'[q].a, proc'[q].m) = h
      BY <2>2, HandingWas
    <3>2. proc'[p].a = proc'[q].a /\ proc'[p].m = proc'[q].m
      BY <3>1, OneAttempt
    <3>3. ASSUME NEW u \in Procs, Handing(u, h), proc'[u] = proc[u] PROVE StateOf(proc'[u].a, proc'[u].m) # "pending"
      BY <3>3 DEF HandedAlone, Handing
    <3>4. ~(Handing(p, h) /\ Handing(q, h))
      BY <2>2 DEF HandedAlone
    <3>5. /\ (Handing(p, h) /\ proc'[p] = proc[p]) \/ (Leads(p) /\ StateOf(proc'[p].a, proc'[p].m) = "pending")
          /\ (Handing(q, h) /\ proc'[q] = proc[q]) \/ (Leads(q) /\ StateOf(proc'[q].a, proc'[q].m) = "pending")
      BY <2>2, HandingWas
    <3>6. CASE StateOf(proc'[p].a, proc'[p].m) = "pending"
      <4>1. StateOf(proc'[q].a, proc'[q].m) = "pending"
        BY <3>2, <3>6
      <4>2. Leads(p) /\ Leads(q)
        BY <3>3, <3>5, <3>6, <4>1
      <4>3. proc'[p] = proc[p] /\ proc[p].pc \in AddLabels
        BY <2>2, <4>2 DEF Leads, Alone, Handing
      <4>4. QED
        BY <3>6, <4>3 DEF HandedAlone
    <3>7. QED
      BY <3>2, <3>4, <3>5, <3>6
  <2>3. QED
    BY <2>1, <2>2 DEF HandedAlone, StateOf
<1>2. ASSUME NEW h \in Hashes, HandedOver(h), task'[h] # task[h] PROVE task'[h] = "none" \/ task[h] = "running"
  BY <1>2 DEF TasksTraced, HandedOver
<1>3. ASSUME NEW h \in Hashes, task'[h] # "none" \/ folder'[h] # "none" PROVE HandedOver(h)'
  <2>1. CASE HandedOver(h)
    BY <2>1, HandedOverStays
  <2>2. CASE ~HandedOver(h)
    <3>1. task[h] = "none" /\ folder[h] = "none"
      BY <2>2 DEF HandedOnce
    <3>2. PICK p \in Procs : Handing(p, h) /\ proc'[p].pc \notin AddLabels
      BY <1>3, <3>1 DEF TasksTraced
    <3>3. /\ proc[p].a \in Avids /\ proc[p].m \in DOMAIN attempts[proc[p].a]
          /\ HashOf(proc[p].a, proc[p].m) = h /\ StateOf(proc[p].a, proc[p].m) # "pending"
      BY <3>2 DEF Handing, HandedAlone, ProcsPlaced, Placed, AddLabels, MagnetLabels, AttemptLabels, TitleLabels
    <3>4. \E a \in Avids : \E i \in DOMAIN attempts'[a] : attempts'[a][i].hash = h /\ attempts'[a][i].state # "pending"
      BY <3>3 DEF Grown, HashOf, StateOf
    <3>5. ASSUME NEW q \in Procs, Handing(q, h)' PROVE FALSE
      <4>1. q # p
        BY <3>2, <3>5 DEF Handing
      <4>2. proc'[p] # proc[p]
        BY <3>2 DEF Handing
      <4>3. proc'[q] = proc[q]
        BY <4>1, <4>2 DEF Leads, Alone
      <4>4. proc[q].pc \in AddLabels
        BY <3>5, <4>3 DEF Handing
      <4>5. Handing(q, h)
        <5>1. HashOf(proc'[q].a, proc'[q].m) = h
          BY <3>5, HandingWas
        <5>2. QED
          BY <4>3, <4>4, <5>1 DEF Handing
      <4>6. QED
        BY <3>2, <4>1, <4>5 DEF HandedAlone
    <3>6. QED
      BY <3>4, <3>5 DEF HandedOver, HashOf, StateOf
  <2>3. QED
    BY <2>1, <2>2
<1>4. ASSUME NEW h \in Hashes, folder'[h] # "none" PROVE task'[h] \in {"none", "finished"}
  <2>1. CASE folder[h] # "none"
    BY <1>2, <2>1 DEF HandedOnce
  <2>2. CASE folder[h] = "none"
    BY <1>4, <2>2 DEF TasksTraced
  <2>3. QED
    BY <2>1, <2>2
<1>5. HandedOnce'
  BY <1>3, <1>4 DEF HandedOnce
<1>6. ASSUME NEW h \in Hashes, Failed(h) PROVE Failed(h)'
  <2>1. HandedOver(h)'
    BY <1>6, HandedOverStays DEF Failed
  <2>2. task'[h] \in {"none", "error"}
    BY <1>2, <1>6 DEF Failed
  <2>3. folder'[h] = "none"
    BY <1>6 DEF Failed, TasksTraced
  <2>4. QED
    BY <2>1, <2>2, <2>3 DEF Failed
<1>7. ErrorsFailed'
  <2> SUFFICES ASSUME NEW t \in Trackers, NEW h \in Hashes, proc'[t].listing[h] = "error"
               PROVE  Failed(h)
    BY <1>6 DEF ErrorsFailed
  <2>1. proc[t].listing[h] = "error" \/ task[h] = "error"
    BY DEF Leads, Alone, Followed
  <2>2. task[h] = "error" => Failed(h)
    BY DEF Failed, HandedOnce
  <2>3. QED
    BY <2>1, <2>2 DEF ErrorsFailed
<1>8. QED
  BY <1>1, <1>5, <1>7

(* What a tracker relies on in the state it goes on from is so in the next. *)
LEMMA KeptStays ==
    ASSUME Undisturbed, NEW h, Kept(h)
    PROVE  Kept(h)'
<1> SUFFICES ASSUME NEW a \in Avids, acq'[a].replacing, library'[a] = NoHash
             PROVE  \E g \in Hashes \ {h} : folder'[g] = "visible" /\ Fileable(a, g)
  BY DEF Kept, Waiting, Fileable
<1>1. Waiting(a)
  BY DEF Undisturbed, Waiting
<1>2. QED
  BY <1>1 DEF Kept, Undisturbed

LEMMA FilingStays ==
    ASSUME OneTracker, PlacedInv, PlacedInv', Grown, UNCHANGED proc \/ \E p \in Procs : Leads(p),
           Undisturbed \/ Disturbed, ReplacedInv
    PROVE  FilingSpares'
<1> SUFFICES ASSUME NEW t \in Trackers PROVE Shown(proc[t])' /\ Spares(proc[t])'
  BY DEF FilingSpares
<1>1. Shown(proc'[t]) /\ Spares(proc'[t])
  BY DEF Leads, Alone, Followed, ReplacedInv, FilingSpares
<1>p. Placed(proc'[t], attempts')
  BY DEF PlacedInv, ProcsPlaced
<1>2. CASE Undisturbed
  <2>1. Shown(proc[t])'
    <3>1. proc'[t].pc \in FolderLabels \/ (proc'[t].pc \in {"finish", "claim"} /\ proc'[t].op # "poll")
              => proc'[t].dir \in Hashes
      BY <1>p DEF Placed
    <3>2. QED
      BY <1>1, <1>2, <3>1 DEF Shown, Undisturbed, Fileable
  <2>2. Spares(proc[t])'
    <3>1. SUFFICES ASSUME MayRemove(proc'[t]) PROVE Spared(proc[t], HashOf(proc[t].a, proc[t].n))'
      BY DEF Spares, MayRemove
    <3> DEFINE own == HashOf(proc'[t].a, proc'[t].n)
    <3>2. Spared(proc'[t], own)
      BY <1>1, <3>1 DEF Spares
    <3>3. HashOf(proc[t].a, proc[t].n)' = own
      <4>1. CASE proc'[t] = proc[t]
        <5>1. proc[t].a \in Avids /\ proc[t].n \in DOMAIN attempts[proc[t].a]
          BY <3>1, <4>1 DEF MayRemove, GivenUpLabels, PlacedInv, ProcsPlaced, Placed, AttemptLabels
        <5>2. QED
          BY <4>1, <5>1 DEF Grown, HashOf
      <4>2. CASE proc'[t] # proc[t]
        <5>1. Placed(proc'[t], attempts)
          BY <4>2 DEF Leads, Alone
        <5>2. proc'[t].a \in Avids /\ proc'[t].n \in DOMAIN attempts[proc'[t].a]
          BY <3>1, <5>1 DEF MayRemove, GivenUpLabels, Placed, AttemptLabels
        <5>3. QED
          BY <5>2 DEF Grown, HashOf
      <4>3. QED
        BY <4>1, <4>2
    <3>4. ASSUME NEW h, h = own, Spared(proc'[t], h) PROVE Spared(proc[t], h)'
      BY <1>2, <3>4, KeptStays DEF Spared
    <3>5. PICK h : h = own
      OBVIOUS
    <3>6. Spared(proc[t], h)'
      BY <3>2, <3>4, <3>5
    <3>7. HashOf(proc[t].a, proc[t].n)' = h
      BY <3>3, <3>5
    <3> HIDE DEF own
    <3>8. QED
      BY <3>6, <3>7 DEF Spared, Kept
  <2>3. QED
    BY <2>1, <2>2
<1>3. CASE Disturbed
  <2>1. DeletesOld(t) \/ RemovesOwn(t) \/ MovesIn(t)
    BY <1>3 DEF Disturbed, OneTracker
  <2>2. CASE DeletesOld(t)
    <3>1. folder[proc[t].dir] = "visible" /\ Fileable(proc[t].a, proc[t].dir)
      BY <2>2 DEF DeletesOld, At, ReplacedInv, FilingSpares, Shown, FolderLabels
    <3>2. ~MayRemove(proc'[t])
      BY <2>2, <3>1 DEF DeletesOld, MayRemove, GivenUpLabels, Fileable
    <3>3. Shown(proc[t])'
      BY <2>2, <1>1 DEF DeletesOld, Shown, Fileable
    <3>4. QED
      BY <3>2, <3>3 DEF Spares, MayRemove
  <2>3. CASE RemovesOwn(t) \/ MovesIn(t)
    <3>1. ~MayRemove(proc'[t])
      BY <2>3 DEF RemovesOwn, MovesIn, MayRemove, GivenUpLabels
    <3>2. Shown(proc[t])'
      BY <2>3 DEF RemovesOwn, MovesIn, Shown, FolderLabels
    <3>3. QED
      BY <3>1, <3>2 DEF Spares, MayRemove
  <2>4. QED
    BY <2>1, <2>2, <2>3
<1>4. QED
  BY <1>2, <1>3

LEMMA ReplacedStays ==
    ASSUME OneTracker, PlacedInv, PlacedInv', Undisturbed \/ Disturbed, ReplacedInv
    PROVE  ReplacedOnlyForANewCopy'
<1> SUFFICES ASSUME NEW a \in Avids, acq'[a].replacing, library'[a] = NoHash
             PROVE  \E h \in Hashes : folder'[h] = "visible" /\ Fileable(a, h)
  BY DEF ReplacedOnlyForANewCopy, Fileable
<1>1. CASE Undisturbed
  <2>1. Waiting(a)
    BY <1>1 DEF Undisturbed, Waiting
  <2>2. PICK h \in Hashes : folder[h] = "visible" /\ Fileable(a, h)
    BY <2>1 DEF ReplacedInv, ReplacedOnlyForANewCopy, Waiting
  <2>3. QED
    BY <1>1, <2>2 DEF Undisturbed
<1>2. ASSUME NEW t \in Trackers, DeletesOld(t) \/ RemovesOwn(t) \/ MovesIn(t)
      PROVE  \E h \in Hashes : folder'[h] = "visible" /\ Fileable(a, h)
  <2>1. /\ Placed(proc[t], attempts) /\ Shown(proc[t]) /\ Spares(proc[t])
        /\ \A b \in Avids : Waiting(b) => \E h \in Hashes : folder[h] = "visible" /\ Fileable(b, h)
    BY DEF PlacedInv, ProcsPlaced, ReplacedInv, FilingSpares, ReplacedOnlyForANewCopy, Waiting
  <2>2. CASE DeletesOld(t)
    <3>1. proc[t].dir \in Hashes /\ folder[proc[t].dir] = "visible" /\ Fileable(proc[t].a, proc[t].dir)
      BY <2>1, <2>2 DEF DeletesOld, At, Shown, Placed, FolderLabels
    <3>2. CASE a = proc[t].a
      BY <2>2, <3>1, <3>2 DEF DeletesOld
    <3>3. CASE a # proc[t].a
      <4>1. Waiting(a)
        BY <2>2, <3>3 DEF DeletesOld, Waiting
      <4>2. QED
        BY <2>1, <2>2, <4>1 DEF DeletesOld
    <3>4. QED
      BY <3>2, <3>3
  <2>3. CASE RemovesOwn(t)
    <3>1. Waiting(a)
      BY <2>3 DEF RemovesOwn, Waiting
    <3>2. Kept(HashOf(proc[t].a, proc[t].n))
      BY <2>1, <2>3 DEF RemovesOwn, At, Spares, Spared, MayRemove, GivenUpLabels
    <3>3. QED
      BY <2>3, <3>1, <3>2 DEF RemovesOwn, Kept
  <2>4. CASE MovesIn(t)
    <3>1. proc[t].a \in Avids /\ proc[t].dir \in Hashes
      BY <2>1, <2>4 DEF MovesIn, At, Placed, AttemptLabels, FolderLabels
    <3>2. library'[proc[t].a] # NoHash
      BY <2>4, <3>1, PipelineAssumption DEF MovesIn, PlacedInv, CloudTypeOK
    <3>3. a # proc[t].a /\ Waiting(a)
      BY <2>4, <3>2 DEF MovesIn, PlacedInv, CloudTypeOK, Waiting
    <3>4. PICK h \in Hashes : folder[h] = "visible" /\ Fileable(a, h)
      BY <2>1, <3>3
    <3>5. h # proc[t].dir
      BY <2>4, <3>3, <3>4 DEF MovesIn, Fileable
    <3>6. folder'[h] = "visible"
      BY <2>4, <3>4, <3>5 DEF MovesIn, PlacedInv, CloudTypeOK
    <3>7. QED
      BY <3>4, <3>6
  <2>5. QED
    BY <1>2, <2>2, <2>3, <2>4
<1>3. QED
  BY <1>1, <1>2 DEF Disturbed

LEMMA InitialReplacements == Init => HandingInv /\ ReplacedInv
<1> SUFFICES ASSUME Init PROVE HandingInv /\ ReplacedInv
  OBVIOUS
<1>1. \A p \in Procs : proc[p].pc = "idle" /\ proc[p].op = "none" /\ proc[p].listing = NoTasks
  BY DEF Init, Idle
<1>2. \A a \in Avids : ~acq[a].replacing
  BY DEF Init, LedgerInit, NoRow
<1>3. \A h \in Hashes : task[h] = "none" /\ folder[h] = "none"
  BY DEF Init, NoTasks
<1>4. HandingInv
  BY <1>1, <1>3 DEF HandingInv, HandedAlone, Handing, HandedOnce, ErrorsFailed, AddLabels, NoTasks
<1>5. ReplacedInv
  BY <1>1, <1>2 DEF ReplacedInv, FilingSpares, Shown, Spares, MayRemove, FolderLabels, ReplacedOnlyForANewCopy
<1>6. QED
  BY <1>4, <1>5

LEMMA ReplacementsStay ==
    "stall" \notin Faults /\ OneTracker /\ MagnetsApart /\ HashTriedOnce /\ PlacedInv /\ HandingInv /\ ReplacedInv
        /\ [Next]_vars => HandingInv' /\ ReplacedInv'
<1> SUFFICES ASSUME "stall" \notin Faults, OneTracker, MagnetsApart, HashTriedOnce, PlacedInv, HandingInv, ReplacedInv,
                    [Next]_vars
             PROVE  HandingInv' /\ ReplacedInv'
  OBVIOUS
<1>1. PlacedInv' /\ Grown
  BY PlacesStay, StepDrives, AttemptsGrow DEF PlacedInv
<1>2. UNCHANGED proc \/ \E p \in Procs : Leads(p)
  BY StepLeads DEF HandingInv
<1>3. TasksTraced /\ (Undisturbed \/ Disturbed)
  BY StepMount DEF HandingInv
<1>4. QED
  BY <1>1, <1>2, <1>3, HandingStays, FilingStays, ReplacedStays DEF ReplacedInv

(* "The old copy goes only once the new download is known to be fileable"   *)
(* (_file, _remove_replaced): while a replacement has taken the copy out of *)
(* the library, a download that can be filed is on the mount, and nobody    *)
(* removes it, whatever fails and wherever the tracker crashes.  Three      *)
(* things are asked for, and without any of them it is not so: one tracker  *)
(* (two delete behind each other's back), no download given up as stalled   *)
(* on an old listing, and no magnet that two titles share.                  *)
THEOREM ReplacementsKeepACopy ==
    Spec /\ OneTracker /\ "stall" \notin Faults /\ []MagnetsApart => []ReplacedOnlyForANewCopy
<1> SUFFICES ASSUME OneTracker, "stall" \notin Faults PROVE Spec /\ []MagnetsApart => []ReplacedOnlyForANewCopy
  OBVIOUS
<1>1. Init => PlacedInv /\ HandingInv /\ ReplacedInv
  BY InitialPlaces, InitialReplacements
<1>2. LedgerAccounted => HashTriedOnce
  BY DEF LedgerAccounted, HashesAccounted
<1>3. MagnetsApart /\ HashTriedOnce /\ PlacedInv /\ HandingInv /\ ReplacedInv /\ [Next]_vars
          => PlacedInv' /\ HandingInv' /\ ReplacedInv'
  BY PlacesStay, ReplacementsStay
<1>4. ReplacedInv => ReplacedOnlyForANewCopy
  BY DEF ReplacedInv
<1>5. QED
  BY <1>1, <1>2, <1>3, <1>4, PipelineAccounted, PTL DEF Spec
=============================================================================
