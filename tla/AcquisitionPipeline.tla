------------------------ MODULE AcquisitionPipeline ------------------------
(***************************************************************************)
(* Who drives the acquisition ledger: the tracker loop of every replica    *)
(* (monitor/tracker.py, then the retry leg of monitor/intake.py), the      *)
(* sources that sight or queue a title (monitor/intake.py, rss.py,         *)
(* manual.py), the operator's requests (monitor/api.py, replace.py), and   *)
(* CloudDrive's offline task list around them.                             *)
(*                                                                         *)
(* A process stops at every await that reads or writes shared state: one   *)
(* action is the code between two of them, so other processes interleave   *)
(* exactly where the event loop and other replicas can.  What a process    *)
(* has read and not yet used (a listing, a row, an attempt's state) is in  *)
(* its record.                                                             *)
(***************************************************************************)
EXTENDS AcquisitionLedger, FiniteSets

CONSTANTS
    Trackers,       \* tracker loops, one per replica
    Workers,        \* requests and source runs in progress at a time
    MaxAttempts,    \* archive.max_attempts
    Content,        \* what a magnet holds: [Hashes -> {"video", "junk", "wrong"}]
    FolderAvid,     \* the AVID a download's folder name reads as: [Hashes -> Avids]
    HeldBefore,     \* titles with a copy in the library from before the ledger
    Handlers,       \* the sources and operator requests that occur
    Faults,         \* what may go wrong
    NoTitle, NoHash, Old

ASSUME PipelineAssumption ==
    /\ MaxAttempts \in Nat \ {0}
    /\ Content \in [Hashes -> {"video", "junk", "wrong"}]
    /\ FolderAvid \in [Hashes -> Avids]
    /\ HeldBefore \subseteq Avids
    /\ Handlers \subseteq {"manual", "queue", "rss", "retry", "magnet", "ignore",
                           "resume", "replace"}
    /\ Faults \subseteq {"reject", "error", "stall", "cancelled", "cleared", "filing",
                         "cleanup", "slow", "crash"}
    /\ Trackers \cap Workers = {}
    /\ NoHash \notin Hashes \union {Old}

VARIABLES
    task,           \* CloudDrive's offline task of each hash
    folder,         \* its download on the mount: none, not listed yet, or visible
    library,        \* the copy the library holds of each title
    recent,         \* hashes submitted less than submit_grace_seconds ago
    proc            \* the processes

cloudVars == <<task, folder>>
vars == <<acq, attempts, task, folder, library, recent, proc>>

Procs == Trackers \union Workers
----------------------------------------------------------------------------
NoTasks == [h \in Hashes |-> "none"]

Idle == [pc |-> "idle", op |-> "none", listing |-> NoTasks, todo |-> {},
         a |-> NoTitle, n |-> 0, m |-> 0, st |-> "none", dir |-> NoHash,
         verdict |-> "none"]

(* The loop a tracker is in the middle of; a worker has none.               *)
LoopOf == [poll |-> "advance", sweep |-> "sweeping", due |-> "retrying"]

At(p, label) == proc[p].pc = label

Goto(p, label) == proc' = [proc EXCEPT ![p].pc = label]

(* The process is done with its title: the next one of its loop, or idle.   *)
Done(p) ==
    proc' = [proc EXCEPT ![p] =
               IF @.op \in DOMAIN LoopOf
               THEN [Idle EXCEPT !.pc = LoopOf[proc[p].op], !.op = proc[p].op,
                                 !.listing = proc[p].listing, !.todo = proc[p].todo]
               ELSE Idle]

(* An exception leaves the poll for its finally clause, the retry leg; any  *)
(* other process simply ends.                                               *)
Abort(p) ==
    proc' = [proc EXCEPT ![p] =
               IF @.op \in {"poll", "sweep"} THEN [Idle EXCEPT !.pc = "due"] ELSE Idle]

StateOf(a, n) == attempts[a][n].state
HashOf(a, n) == attempts[a][n].hash

(* Compare-and-set as the callers see it: a row that moved on is no error.  *)
CasRow(a, expected, target, timer) ==
    IF acq[a].state = expected
    THEN Transition(a, expected, target, timer)
    ELSE UNCHANGED ledgerVars

CasAttempt(a, n, expected, target) ==
    IF StateOf(a, n) = expected
    THEN TransitionAttempt(a, n, expected, target)
    ELSE UNCHANGED ledgerVars

(* The same, the process going on at "won" only if the write took.          *)
CasAttemptOr(p, a, n, expected, target, won) ==
    /\ CasAttempt(a, n, expected, target)
    /\ IF StateOf(a, n) = expected THEN Goto(p, won) ELSE Done(p)

InState(states) ==
    {k \in UNION {{a} \X DOMAIN attempts[a] : a \in Avids} : StateOf(k[1], k[2]) \in states}

AsRead(keys) == {<<k[1], k[2], StateOf(k[1], k[2])>> : k \in keys}

Fileable(a, h) == Content[h] = "video" /\ FolderAvid[h] = a

(* archive.inspect_folder, with the AVID the tracker expects.               *)
Inspection(a, h) ==
    IF folder[h] = "none" THEN "failed"
    ELSE IF Content[h] = "junk" THEN "junk"
    ELSE IF ~Fileable(a, h) THEN "attention"
    ELSE "fileable"

(* Folders of a title that a walk of the routes would find.                 *)
FoldersFor(a) == {h \in Hashes : folder[h] = "visible" /\ FolderAvid[h] = a}
----------------------------------------------------------------------------
TypeOK ==
    /\ LedgerTypeOK
    /\ task \in [Hashes -> {"none", "running", "finished", "error"}]
    /\ folder \in [Hashes -> {"none", "hidden", "visible"}]
    /\ library \in [Avids -> Hashes \union {NoHash, Old}]
    /\ recent \subseteq Hashes
    /\ \A p \in Procs :
          /\ proc[p].a \in Avids \union {NoTitle}
          /\ proc[p].a # NoTitle /\ proc[p].n > 0 => proc[p].n \in DOMAIN attempts[proc[p].a]
          /\ proc[p].dir \in Hashes \union {NoHash}

Init ==
    /\ LedgerInit
    /\ task = NoTasks
    /\ folder = [h \in Hashes |-> "none"]
    /\ library = [a \in Avids |-> IF a \in HeldBefore THEN Old ELSE NoHash]
    /\ recent = {}
    /\ proc = [p \in Procs |-> Idle]
----------------------------------------------------------------------------
(* The tracker's poll.                                                      *)

(* list_offline_files over the polled directories.                          *)
PollList(t) ==
    /\ At(t, "idle")
    /\ proc' = [proc EXCEPT ![t].pc = "join", ![t].op = "poll", ![t].listing = task]
    /\ UNCHANGED <<ledgerVars, cloudVars, library, recent>>

(* attempts_by_info_hash: the live attempts of the listed hashes.           *)
PollJoin(t) ==
    /\ At(t, "join")
    /\ LET listed == {k \in InState(LiveStates) :
                        proc[t].listing[HashOf(k[1], k[2])] # "none"}
       IN  proc' = [proc EXCEPT ![t].pc = "advance", ![t].todo = AsRead(listed)]
    /\ UNCHANGED <<ledgerVars, cloudVars, library, recent>>

(* _advance: where each attempt goes depends on the listing read above.     *)
AdvanceTo(t, x) ==
    CASE proc[t].listing[HashOf(x[1], x[2])] = "finished" -> "check"
      [] proc[t].listing[HashOf(x[1], x[2])] = "error"    -> "conclude"
      [] OTHER -> IF x[3] \in InFlightStates THEN "progress" ELSE "advance"

Advance(t) ==
    /\ At(t, "advance")
    /\ \/ \E x \in proc[t].todo :
            proc' = [proc EXCEPT ![t] =
                IF AdvanceTo(t, x) = "advance"
                THEN [proc[t] EXCEPT !.todo = @ \ {x}]
                ELSE [proc[t] EXCEPT !.pc = AdvanceTo(t, x), !.todo = @ \ {x},
                                     !.a = x[1], !.n = x[2], !.st = x[3], !.verdict = "error"]]
       \/ proc[t].todo = {} /\ Goto(t, "snapshot")
    /\ UNCHANGED <<ledgerVars, cloudVars, library, recent>>

(* _refresh_progress: nothing is written while the download stands still,   *)
(* and one that has for stall_timeout_hours is given up.                    *)
Progress(t) ==
    LET a == proc[t].a  n == proc[t].n IN
    /\ At(t, "progress")
    /\ \/ RecordProgress(a, n) /\ Done(t)
       \/ /\ StateOf(a, n) # "submitted"
          /\ UNCHANGED ledgerVars
          /\ \/ Done(t)
             \/ /\ "stall" \in Faults
                /\ proc' = [proc EXCEPT ![t].pc = "conclude", ![t].verdict = "stalled"]
    /\ UNCHANGED <<cloudVars, library, recent>>

(* _archive_finished: only while the tracker owns the title.                *)
Check(t) ==
    /\ At(t, "check")
    /\ IF acq[proc[t].a].state # "downloading"
       THEN Done(t)
       ELSE Goto(t, IF proc[t].st = "finished" THEN "claim" ELSE "finish")
    /\ UNCHANGED <<ledgerVars, cloudVars, library, recent>>

(* Both compare-and-sets of the claim; the first is skipped for an attempt  *)
(* read as finished.                                                        *)
Finish(t) ==
    /\ At(t, "finish")
    /\ CasAttemptOr(t, proc[t].a, proc[t].n, proc[t].st, "finished", "claim")
    /\ UNCHANGED <<cloudVars, library, recent>>

Claim(t) ==
    /\ At(t, "claim")
    /\ CasAttemptOr(t, proc[t].a, proc[t].n, "finished", "archiving",
                    IF proc[t].op = "poll" THEN "locate" ELSE "file")
    /\ UNCHANGED <<cloudVars, library, recent>>

(* _locate: the task's own folder, else any folder that reads as the AVID.  *)
Locate(t) ==
    LET own == HashOf(proc[t].a, proc[t].n)
        found == IF folder[own] = "visible" THEN {own} ELSE FoldersFor(proc[t].a)
    IN  /\ At(t, "locate")
        /\ \/ \E d \in found : proc' = [proc EXCEPT ![t].pc = "file", ![t].dir = d]
           \/ found = {} /\ Goto(t, "release")
        /\ UNCHANGED <<ledgerVars, cloudVars, library, recent>>

Release(t) ==
    /\ At(t, "release")
    /\ CasAttempt(proc[t].a, proc[t].n, "archiving", "finished")
    /\ Done(t)
    /\ UNCHANGED <<cloudVars, library, recent>>

(* Mutant: the old copy is deleted without looking into the new folder.     *)
FileUninspected(t) ==
    /\ At(t, "file")
    /\ Goto(t, IF acq[proc[t].a].replacing THEN "delete" ELSE "move")
    /\ UNCHANGED <<ledgerVars, cloudVars, library, recent>>

(* _file: a replacement looks into the folder before it deletes anything.   *)
File(t) ==
    /\ At(t, "file")
    /\ Goto(t, IF acq[proc[t].a].replacing THEN "inspect" ELSE "move")
    /\ UNCHANGED <<ledgerVars, cloudVars, library, recent>>

Inspect(t) ==
    LET found == Inspection(proc[t].a, proc[t].dir) IN
    /\ At(t, "inspect")
    /\ proc' = [proc EXCEPT ![t].pc = IF found = "fileable" THEN "delete" ELSE "settle",
                            ![t].verdict = found]
    /\ UNCHANGED <<ledgerVars, cloudVars, library, recent>>

(* _remove_replaced: by path, so it takes whatever copy is there now.  A    *)
(* call that fails, or a mount that still shows the files, is "failed".     *)
Delete(t) ==
    /\ At(t, "delete")
    /\ \/ /\ library' = [library EXCEPT ![proc[t].a] = NoHash]
          /\ Goto(t, "move")
       \/ /\ "filing" \in Faults
          /\ library' \in {library, [library EXCEPT ![proc[t].a] = NoHash]}
          /\ proc' = [proc EXCEPT ![t].pc = "settle", ![t].verdict = "failed"]
    /\ UNCHANGED <<ledgerVars, cloudVars, recent>>

(* Mutant: an error while filing is swallowed.                              *)
MoveSwallowing(t) ==
    LET a == proc[t].a
        d == proc[t].dir
    IN  /\ At(t, "move")
        /\ proc' = [proc EXCEPT ![t].pc = "settle", ![t].verdict = "archived"]
        /\ \/ /\ Fileable(a, d)
              /\ library[a] = NoHash
              /\ library' = [library EXCEPT ![a] = d]
              /\ folder' = [folder EXCEPT ![d] = "none"]
           \/ UNCHANGED <<library, folder>>
        /\ UNCHANGED <<ledgerVars, task, recent>>

(* archive_folder, or file_selection once inspected: refuse a title the     *)
(* library holds, else move the video in and delete the folder.             *)
Move(t) ==
    LET a == proc[t].a
        d == proc[t].dir
        found == Inspection(a, d)
        Settle(v) == proc' = [proc EXCEPT ![t].pc = "settle", ![t].verdict = v]
    IN  /\ At(t, "move")
        /\ \/ /\ found # "fileable"
              /\ Settle(found)
              /\ UNCHANGED <<library, folder>>
           \/ /\ found = "fileable"
              /\ library[a] # NoHash
              /\ Settle("attention")
              /\ UNCHANGED <<library, folder>>
           \/ /\ found = "fileable"
              /\ library[a] = NoHash
              /\ Settle("archived")
              /\ library' = [library EXCEPT ![a] = d]
              /\ folder' = [folder EXCEPT ![d] = "none"]
           \/ /\ "filing" \in Faults
              /\ Settle("failed")
              /\ UNCHANGED <<library, folder>>
        /\ UNCHANGED <<ledgerVars, task, recent>>

(* _settle: the attempt first ...                                           *)
SettleAttempt(t) ==
    LET v == proc[t].verdict
        target == CASE v \in {"archived", "junk"} -> v [] OTHER -> "finished"
    IN  /\ At(t, "settle")
        /\ CasAttempt(proc[t].a, proc[t].n, "archiving", target)
        /\ CASE v \in {"archived", "attention"} -> Goto(t, "settle_row")
             [] v = "junk"                      -> Goto(t, "next")
             [] OTHER                           -> Done(t)
        /\ UNCHANGED <<cloudVars, library, recent>>

(* ... then the title.                                                      *)
SettleRow(t) ==
    /\ At(t, "settle_row")
    /\ CasRow(proc[t].a, "downloading",
              IF proc[t].verdict = "archived" THEN "archived" ELSE "needs_attention", "none")
    /\ Done(t)
    /\ UNCHANGED <<cloudVars, library, recent>>
----------------------------------------------------------------------------
(* Giving an attempt up.                                                    *)

(* _give_up: the write is the claim on what follows.  From the state read   *)
(* for an attempt already being filed there is no such edge, and it raises. *)
Conclude(t) ==
    /\ At(t, "conclude")
    /\ IF proc[t].verdict \in AttemptEdges[proc[t].st]
       THEN CasAttemptOr(t, proc[t].a, proc[t].n, proc[t].st, proc[t].verdict, "next")
       ELSE Abort(t) /\ UNCHANGED ledgerVars
    /\ UNCHANGED <<cloudVars, library, recent>>

TriedSince(a) ==
    Cardinality({i \in DOMAIN attempts[a] : i > acq[a].floor /\ StateOf(a, i) # "pending"})

(* _try_next: what it reads before it claims.                               *)
TryNext(t) ==
    LET a == proc[t].a IN
    /\ At(t, "next")
    /\ Goto(t, CASE acq[a].state # "downloading"     -> "remove"
                 [] TriedSince(a) >= MaxAttempts     -> "exhaust"
                 [] OTHER                            -> "submit")
    /\ UNCHANGED <<ledgerVars, cloudVars, library, recent>>

(* claim_next_pending; going on at "won" with the claimed number.           *)
ClaimOr(p, won, none) ==
    LET a == proc[p].a IN
    \/ \E m \in Claimable(a) :
          /\ ClaimNextPending(a, m)
          /\ recent' = recent \union {HashOf(a, m)}
          /\ proc' = [proc EXCEPT ![p].pc = won, ![p].m = m]
    \/ /\ Claimable(a) = {}
       /\ none
       /\ UNCHANGED <<ledgerVars, recent>>

(* Mutant: a title out of magnets is left as it is.                         *)
SubmitOrLeave(t) ==
    /\ At(t, "submit")
    /\ ClaimOr(t, "add", Goto(t, "remove"))
    /\ UNCHANGED <<cloudVars, library>>

Submit(t) ==
    /\ At(t, "submit")
    /\ ClaimOr(t, "add", Goto(t, "exhaust"))
    /\ UNCHANGED <<cloudVars, library>>

(* add_offline_files: a task that exists already counts as accepted.        *)
AcceptTask(h) == task' = [task EXCEPT ![h] = IF @ = "none" THEN "running" ELSE @]

AddOr(p, accepted, rejected) ==
    \/ AcceptTask(HashOf(proc[p].a, proc[p].m)) /\ accepted
    \/ "reject" \in Faults /\ rejected /\ UNCHANGED task

Add(t) ==
    /\ At(t, "add")
    /\ AddOr(t, Goto(t, "remove"), Goto(t, "unsubmit"))
    /\ UNCHANGED <<ledgerVars, folder, library, recent>>

Unsubmit(t) ==
    /\ At(t, "unsubmit")
    /\ CasAttempt(proc[t].a, proc[t].m, "submitted", "error")
    /\ Goto(t, "next")
    /\ UNCHANGED <<cloudVars, library, recent>>

(* _exhaust: the row is read, its release date looked up, and the           *)
(* compare-and-set repeats the condition that was read.                     *)
Exhaust(t) ==
    /\ At(t, "exhaust")
    /\ CasRow(proc[t].a, "downloading", "exhausted", "armed")
    /\ Goto(t, "remove")
    /\ UNCHANGED <<cloudVars, library, recent>>

(* _remove_task, with its files; nothing is listed any more to remove for   *)
(* an attempt the sweep concluded.                                          *)
Remove(t) ==
    LET h == HashOf(proc[t].a, proc[t].n) IN
    /\ At(t, "remove")
    /\ \/ /\ proc[t].op = "poll"
          /\ task[h] # "none"
          /\ task' = [task EXCEPT ![h] = "none"]
          /\ folder' = [folder EXCEPT ![h] = "none"]
       \/ /\ proc[t].op # "poll" \/ task[h] = "none" \/ "cleanup" \in Faults
          /\ UNCHANGED cloudVars
    /\ Done(t)
    /\ UNCHANGED <<ledgerVars, library, recent>>
----------------------------------------------------------------------------
(* After the listed attempts.                                               *)

(* Mutant: no grace for a magnet CloudDrive has not registered yet.         *)
SnapshotAtOnce(t) ==
    LET missing == {k \in InState(InFlightStates) :
                      proc[t].listing[HashOf(k[1], k[2])] = "none"}
    IN  /\ At(t, "snapshot")
        /\ proc' = [proc EXCEPT ![t].pc = "sweeping", ![t].op = "sweep",
                                ![t].todo = AsRead(missing)]
        /\ UNCHANGED <<ledgerVars, cloudVars, library, recent>>

(* _sweep_lost: in flight, not listed, and past the grace period.           *)
Snapshot(t) ==
    LET missing == {k \in InState(InFlightStates) :
                      /\ proc[t].listing[HashOf(k[1], k[2])] = "none"
                      /\ HashOf(k[1], k[2]) \notin recent}
    IN  /\ At(t, "snapshot")
        /\ proc' = [proc EXCEPT ![t].pc = "sweeping", ![t].op = "sweep",
                                ![t].todo = AsRead(missing)]
        /\ UNCHANGED <<ledgerVars, cloudVars, library, recent>>

Sweep(t) ==
    /\ At(t, "sweeping")
    /\ \/ \E x \in proc[t].todo :
            LET picked == [proc[t] EXCEPT !.todo = @ \ {x}, !.a = x[1], !.n = x[2],
                                          !.st = x[3], !.verdict = "lost"]
            IN  \/ \E d \in FoldersFor(x[1]) :
                     proc' = [proc EXCEPT ![t] = [picked EXCEPT !.pc = "finish", !.dir = d]]
                \/ /\ FoldersFor(x[1]) = {}
                   /\ proc' = [proc EXCEPT ![t] = [picked EXCEPT !.pc = "conclude"]]
       \/ proc[t].todo = {} /\ Goto(t, "clear")
    /\ UNCHANGED <<ledgerVars, cloudVars, library, recent>>

(* _clear_archived: the finished tasks of archived attempts, their files    *)
(* kept.                                                                    *)
Clear(t) ==
    LET done == {h \in Hashes : /\ proc[t].listing[h] = "finished"
                                /\ ~HashLive(h)
                                /\ \E k \in InState({"archived"}) : HashOf(k[1], k[2]) = h}
    IN  /\ At(t, "clear")
        /\ proc' = [proc EXCEPT ![t] =
                      [Idle EXCEPT !.pc = IF done = {} THEN "due" ELSE "cleared",
                         !.listing = [h \in Hashes |-> IF h \in done THEN "finished" ELSE "none"]]]
        /\ UNCHANGED <<ledgerVars, cloudVars, library, recent>>

Cleared(t) ==
    /\ At(t, "cleared")
    /\ \/ task' = [h \in Hashes |-> IF proc[t].listing[h] = "finished" THEN "none" ELSE task[h]]
       \/ "cleanup" \in Faults /\ UNCHANGED task
    /\ proc' = [proc EXCEPT ![t] = [Idle EXCEPT !.pc = "due"]]
    /\ UNCHANGED <<ledgerVars, folder, library, recent>>

(* retry_due: the titles whose timer was reached, as read here.             *)
Due(t) ==
    /\ At(t, "due")
    /\ LET ready == {a \in Avids : acq[a].state \in DueStates /\ acq[a].timer = "due"}
       IN  proc' = [proc EXCEPT ![t] =
                      [Idle EXCEPT !.pc = "retrying", !.op = "due",
                                   !.todo = {<<a, 0, acq[a].state>> : a \in ready}]]
    /\ UNCHANGED <<ledgerVars, cloudVars, library, recent>>

Retry(t) ==
    /\ At(t, "retrying")
    /\ \/ \E x \in proc[t].todo :
            proc' = [proc EXCEPT ![t].pc = "record", ![t].todo = @ \ {x},
                                 ![t].a = x[1], ![t].st = x[3]]
       \/ proc[t].todo = {} /\ proc' = [proc EXCEPT ![t] = Idle]
    /\ UNCHANGED <<ledgerVars, cloudVars, library, recent>>
----------------------------------------------------------------------------
(* The intake: sightings by workers, and the tracker's retry leg.           *)

(* A manual list and a queueing source skip a title the library holds; an   *)
(* RSS run asks the library only after discovery.                           *)
Sight(w, a) ==
    /\ At(w, "idle")
    /\ \E op \in Handlers \intersect {"manual", "queue", "rss"} :
          /\ op # "rss" => library[a] = NoHash
          /\ proc' = [proc EXCEPT ![w].pc = "discover", ![w].op = op, ![w].a = a]
    /\ UNCHANGED <<ledgerVars, cloudVars, library, recent>>

(* discover: insert, or accept a row that still waits for magnets.  An RSS  *)
(* item that carries a magnet wakes a row that is cooling down.             *)
Accepts(a, wake) ==
    \/ acq[a].state = "discovered"
    \/ acq[a].state \in RetryableStates /\ (wake \/ acq[a].timer # "armed")

Discover(w) ==
    LET a == proc[w].a
        queued == proc[w].op = "queue"
        accepted == CASE queued -> "rearm" [] proc[w].op = "rss" -> "held" [] OTHER -> "record"
    IN  /\ At(w, "discover")
        /\ \/ /\ Insert(a, IF queued THEN "due" ELSE "none")
              /\ IF queued THEN Done(w) ELSE Goto(w, accepted)
           \/ /\ acq[a].state # "absent"
              /\ UNCHANGED ledgerVars
              /\ \E wake \in IF proc[w].op = "rss" THEN BOOLEAN ELSE {FALSE} :
                    IF Accepts(a, wake) THEN Goto(w, accepted) ELSE Done(w)
        /\ UNCHANGED <<cloudVars, library, recent>>

(* discover: the timer of the accepted row, whatever became of it since.    *)
RearmAccepted(w) ==
    /\ At(w, "rearm")
    /\ Rearm(proc[w].a, "due")
    /\ Done(w)
    /\ UNCHANGED <<cloudVars, library, recent>>

(* Mutant: the library's answer read the wrong way round.                   *)
HeldInverted(w) ==
    LET a == proc[w].a IN
    /\ At(w, "held")
    /\ IF library[a] # NoHash
       THEN Goto(w, "record") /\ UNCHANGED ledgerVars
       ELSE /\ Done(w)
            /\ IF acq[a].state \in DueStates
               THEN Transition(a, acq[a].state, "archived", "none")
               ELSE UNCHANGED ledgerVars
    /\ UNCHANGED <<cloudVars, library, recent>>

(* _skip_library_held: a title the library holds is settled, not fetched.   *)
Held(w) ==
    LET a == proc[w].a IN
    /\ At(w, "held")
    /\ IF library[a] = NoHash
       THEN Goto(w, "record") /\ UNCHANGED ledgerVars
       ELSE /\ Done(w)
            /\ IF acq[a].state \in DueStates
               THEN Transition(a, acq[a].state, "archived", "none")
               ELSE UNCHANGED ledgerVars
    /\ UNCHANGED <<cloudVars, library, recent>>

(* resolve returns distinct hashes, best first, and add_attempts records    *)
(* the ones not tried yet: some, or none of them.                           *)
Record(p) ==
    /\ At(p, "record")
    /\ \/ \E fresh \in CandidateLists : AddAttempts(proc[p].a, fresh) /\ Goto(p, "claim_next")
       \/ Tried(proc[p].a) # {} /\ UNCHANGED ledgerVars /\ Goto(p, "claim_next")
       \/ /\ UNCHANGED ledgerVars    \* nothing found, or the resolvers failed
          /\ Goto(p, CASE proc[p].op = "due"     -> "repark"
                       [] proc[p].op = "replace" -> "claim_next"
                       [] OTHER                  -> "park")
    /\ UNCHANGED <<cloudVars, library, recent>>

(* _submit_next.  A pass with nothing left to claim is parked again by the  *)
(* retry leg and by a replacement; enqueue and the RSS run just report it.  *)
ClaimNext(p) ==
    /\ At(p, "claim_next")
    /\ ClaimOr(p, "add_next", CASE proc[p].op = "due"     -> Goto(p, "repark")
                                [] proc[p].op = "replace" -> Goto(p, "park")
                                [] OTHER                  -> Done(p))
    /\ UNCHANGED <<cloudVars, library>>

AddNext(p) ==
    /\ At(p, "add_next")
    /\ AddOr(p, Goto(p, "reread"), Goto(p, "unsubmit_next"))
    /\ UNCHANGED <<ledgerVars, folder, library, recent>>

(* Mutant: a rejected magnet goes back to the list.                         *)
UnsubmitNextAgain(p) ==
    /\ At(p, "unsubmit_next")
    /\ SetAttempt(proc[p].a, proc[p].m, "pending")
    /\ Goto(p, "claim_next")
    /\ UNCHANGED <<acq, cloudVars, library, recent>>

UnsubmitNext(p) ==
    /\ At(p, "unsubmit_next")
    /\ CasAttempt(proc[p].a, proc[p].m, "submitted", "error")
    /\ Goto(p, "claim_next")
    /\ UNCHANGED <<cloudVars, library, recent>>

Reread(p) ==
    LET s == acq[proc[p].a].state IN
    /\ At(p, "reread")
    /\ IF s = "downloading"
       THEN Done(p)
       ELSE proc' = [proc EXCEPT ![p].pc = "lift", ![p].st = s]
    /\ UNCHANGED <<ledgerVars, cloudVars, library, recent>>

(* The title starts downloading, from the state it was read in; asking for  *)
(* what is not an edge raises.                                              *)
Lift(p) ==
    /\ At(p, "lift")
    /\ IF "downloading" \in AcqEdges[proc[p].st]
       THEN CasRow(proc[p].a, proc[p].st, "downloading", "none") /\ Done(p)
       ELSE Abort(p) /\ UNCHANGED ledgerVars
    /\ UNCHANGED <<cloudVars, library, recent>>

(* park_unresolved: from whatever parkable state the title is in now.       *)
Park(p) ==
    LET s == acq[proc[p].a].state IN
    /\ At(p, "park")
    /\ IF s \in DueStates
       THEN proc' = [proc EXCEPT ![p].pc = "repark", ![p].st = s]
       ELSE Done(p)
    /\ UNCHANGED <<ledgerVars, cloudVars, library, recent>>

(* Mutant: the parked title keeps the timer that was reached.               *)
ReparkAsDue(p) ==
    /\ At(p, "repark")
    /\ CasRow(proc[p].a, proc[p].st, "resolve_failed", acq[proc[p].a].timer)
    /\ Done(p)
    /\ UNCHANGED <<cloudVars, library, recent>>

Repark(p) ==
    /\ At(p, "repark")
    /\ CasRow(proc[p].a, proc[p].st, "resolve_failed", "armed")
    /\ Done(p)
    /\ UNCHANGED <<cloudVars, library, recent>>
----------------------------------------------------------------------------
(* The operator.                                                            *)

Begin(w, op, a, label) ==
    /\ At(w, "idle")
    /\ op \in Handlers
    /\ proc' = [proc EXCEPT ![w].pc = label, ![w].op = op, ![w].a = a, ![w].st = acq[a].state]

(* retry: the title's next magnet, now.                                     *)
OpRetry(w, a) ==
    /\ acq[a].state \notin {"absent", "archived"}
    /\ Begin(w, "retry", a, "op_claim")
    /\ UNCHANGED <<ledgerVars, cloudVars, library, recent>>

OpClaim(w) ==
    /\ At(w, "op_claim")
    /\ ClaimOr(w, "op_add", Done(w))
    /\ UNCHANGED <<cloudVars, library>>

(* magnet: record the operator's magnet, then submit exactly that one.      *)
OpMagnet(w, a, h) ==
    /\ acq[a].state # "archived"
    /\ AddAttempts(a, <<h>>)
    /\ Begin(w, "magnet", a, "pick")
    /\ UNCHANGED <<cloudVars, library, recent>>

Pick(w) ==
    /\ At(w, "pick")
    /\ proc' = [proc EXCEPT ![w].pc = "claim_chosen", ![w].m = Len(attempts[proc[w].a])]
    /\ UNCHANGED <<ledgerVars, cloudVars, library, recent>>

(* A magnet that is live elsewhere ends the request; one no longer pending  *)
(* ends it too, a replacement being parked first.                           *)
ClaimChosen(w) ==
    LET a == proc[w].a
        m == proc[w].m
    IN  /\ At(w, "claim_chosen")
        /\ \/ /\ ClaimAttempt(a, m)
              /\ recent' = recent \union {HashOf(a, m)}
              /\ Goto(w, "op_add")
           \/ /\ m \notin Claimable(a)
              /\ IF proc[w].op = "replace" /\ StateOf(a, m) # "pending"
                 THEN Goto(w, "park")
                 ELSE Done(w)
              /\ UNCHANGED <<ledgerVars, recent>>
        /\ UNCHANGED <<cloudVars, library>>

OpAdd(w) ==
    /\ At(w, "op_add")
    /\ AddOr(w, IF proc[w].st = "downloading" THEN Done(w) ELSE Goto(w, "lift"),
                Goto(w, "op_unsubmit"))
    /\ UNCHANGED <<ledgerVars, folder, library, recent>>

OpUnsubmit(w) ==
    /\ At(w, "op_unsubmit")
    /\ CasAttempt(proc[w].a, proc[w].m, "submitted", "error")
    /\ IF proc[w].op = "replace" THEN Goto(w, "park") ELSE Done(w)
    /\ UNCHANGED <<cloudVars, library, recent>>

(* ignore and resume load the row and compare-and-set it from that state: a *)
(* lost race is a 409 that changes nothing.                                 *)
OpIgnore(a) ==
    /\ "ignore" \in Handlers
    /\ acq[a].state # "archived"
    /\ Transition(a, acq[a].state, "ignored", "none")
    /\ UNCHANGED <<cloudVars, library, recent, proc>>

OpResume(a) ==
    /\ "resume" \in Handlers
    /\ Transition(a, "needs_attention", "downloading", "none")
    /\ UNCHANGED <<cloudVars, library, recent, proc>>

(* replace: a title the library holds is handed back for another copy, with *)
(* a magnet the operator pasted or with the resolvers'.                     *)
OpReplace(w, a) ==
    /\ library[a] # NoHash
    /\ BeginReplacement(a)
    /\ At(w, "idle")
    /\ "replace" \in Handlers
    /\ \E h \in (Hashes \ Tried(a)) \union {NoHash} :
          proc' = [proc EXCEPT ![w] = [Idle EXCEPT
                      !.pc = IF h = NoHash THEN "record" ELSE "record_chosen",
                      !.op = "replace", !.a = a, !.st = "discovered", !.dir = h]]
    /\ UNCHANGED <<cloudVars, library, recent>>

RecordChosen(w) ==
    LET a == proc[w].a
        h == proc[w].dir
    IN  /\ At(w, "record_chosen")
        /\ IF h \in Tried(a) THEN UNCHANGED ledgerVars ELSE AddAttempts(a, <<h>>)
        /\ proc' = [proc EXCEPT ![w].pc = IF h \in Tried(a) THEN "park" ELSE "pick",
                                ![w].dir = NoHash]
        /\ UNCHANGED <<cloudVars, library, recent>>
----------------------------------------------------------------------------
(* CloudDrive, the mount, time, and crashes.                                *)

CloudFinishes(h) ==
    /\ task[h] = "running"
    /\ task' = [task EXCEPT ![h] = "finished"]
    /\ folder' = [folder EXCEPT ![h] = "hidden"]
    /\ UNCHANGED <<ledgerVars, library, recent, proc>>

CloudFails(h) ==
    /\ "error" \in Faults
    /\ task[h] = "running"
    /\ task' = [task EXCEPT ![h] = "error"]
    /\ UNCHANGED <<ledgerVars, folder, library, recent, proc>>

(* A task record disappears behind our back: the download is cancelled, or  *)
(* a finished one's record is cleared and its files stay.                   *)
CloudDrops(h) ==
    /\ \/ "cancelled" \in Faults /\ task[h] = "running"
       \/ "cleared" \in Faults /\ task[h] = "finished"
    /\ task' = [task EXCEPT ![h] = "none"]
    /\ UNCHANGED <<ledgerVars, folder, library, recent, proc>>

MountShows(h) ==
    /\ folder[h] = "hidden"
    /\ folder' = [folder EXCEPT ![h] = "visible"]
    /\ UNCHANGED <<ledgerVars, task, library, recent, proc>>

(* submit_grace_seconds pass.  Handing a claimed magnet to CloudDrive takes *)
(* less than that and, unless the run allows "slow" polls, so does a poll.  *)
GraceEnds(h) ==
    /\ h \in recent
    /\ "slow" \in Faults \/
          \A t \in Trackers : proc[t].pc \in {"idle", "due", "down"} \/ proc[t].op = "due"
    /\ \A p \in Procs : proc[p].pc \in {"add", "add_next", "op_add"} =>
                            HashOf(proc[p].a, proc[p].m) # h
    /\ recent' = recent \ {h}
    /\ UNCHANGED <<ledgerVars, cloudVars, library, proc>>

RetryTimer(a) ==
    /\ TimerExpires(a)
    /\ UNCHANGED <<cloudVars, library, recent, proc>>

(* A process ends between two steps, and starts over from nothing.          *)
Crash(p) ==
    /\ "crash" \in Faults
    /\ proc[p].pc \notin {"idle", "down"}
    /\ proc' = [proc EXCEPT ![p] = [Idle EXCEPT !.pc = "down"]]
    /\ UNCHANGED <<ledgerVars, cloudVars, library, recent>>

Restart(p) ==
    /\ At(p, "down")
    /\ proc' = [proc EXCEPT ![p] = Idle]
    /\ UNCHANGED <<ledgerVars, cloudVars, library, recent>>
----------------------------------------------------------------------------
Poll(t) ==
    \/ PollList(t) \/ PollJoin(t) \/ Advance(t) \/ Progress(t) \/ Check(t) \/ Finish(t)
    \/ Claim(t) \/ Locate(t) \/ Release(t) \/ File(t) \/ Inspect(t) \/ Delete(t)
    \/ Move(t) \/ SettleAttempt(t) \/ SettleRow(t) \/ Conclude(t) \/ TryNext(t)
    \/ Submit(t) \/ Add(t) \/ Unsubmit(t) \/ Exhaust(t) \/ Remove(t) \/ Snapshot(t)
    \/ Sweep(t) \/ Clear(t) \/ Cleared(t) \/ Due(t) \/ Retry(t)

Intake(p) ==
    \/ Record(p) \/ ClaimNext(p) \/ AddNext(p) \/ UnsubmitNext(p) \/ Reread(p)
    \/ Lift(p) \/ Park(p) \/ Repark(p)

Continue(w) ==
    \/ Discover(w) \/ RearmAccepted(w) \/ Held(w) \/ Intake(w) \/ OpClaim(w) \/ Pick(w)
    \/ ClaimChosen(w) \/ OpAdd(w) \/ OpUnsubmit(w) \/ RecordChosen(w)

Request(w, a) ==
    \/ Sight(w, a) \/ OpRetry(w, a) \/ OpReplace(w, a)
    \/ \E h \in Hashes : OpMagnet(w, a, h)

Cloud(h) ==
    CloudFinishes(h) \/ CloudFails(h) \/ CloudDrops(h) \/ MountShows(h) \/ GraceEnds(h)

Next ==
    \/ \E t \in Trackers : Poll(t) \/ Intake(t)
    \/ \E w \in Workers : Continue(w) \/ \E a \in Avids : Request(w, a)
    \/ \E a \in Avids : OpIgnore(a) \/ OpResume(a) \/ RetryTimer(a)
    \/ \E h \in Hashes : Cloud(h)
    \/ \E p \in Procs : Crash(p) \/ Restart(p)

Spec == Init /\ [][Next]_vars

(* The tracker loop never stops, a request runs to its end, downloads end,  *)
(* the mount catches up, and time passes.                                   *)
Fairness ==
    /\ \A t \in Trackers : WF_vars(Poll(t) \/ Intake(t))
    /\ \A w \in Workers : WF_vars(Continue(w))
    /\ \A h \in Hashes : /\ WF_vars(CloudFinishes(h))
                         /\ WF_vars(MountShows(h))
                         /\ SF_vars(GraceEnds(h))
    /\ \A a \in Avids : WF_vars(RetryTimer(a))

FairSpec == Spec /\ Fairness

(* The same, with finitely many crashes.                                    *)
RestartSpec == FairSpec /\ <>[](\A p \in Procs : ~At(p, "down"))
----------------------------------------------------------------------------
(* An archived title is in the library: the row only says so after the      *)
(* video was moved in, and nothing takes the copy out of a title that is    *)
(* not being replaced.                                                      *)
ArchivedMeansHeld ==
    \A a \in Avids : acq[a].state = "archived" => library[a] # NoHash

(* "The old copy goes only once the new download is known to be fileable":  *)
(* while a replacement has taken the copy out of the library, the download  *)
(* that is to follow it is on the mount and can be filed.                   *)
ReplacedOnlyForANewCopy ==
    \A a \in Avids : acq[a].replacing /\ library[a] = NoHash =>
        \E h \in Hashes : folder[h] = "visible" /\ Fileable(a, h)

(* A download is only declared lost when CloudDrive does not have its task: *)
(* within the grace period absence from the listing means nothing.          *)
LostMeansGone ==
    \A t \in Trackers : At(t, "conclude") /\ proc[t].verdict = "lost" =>
        LET h == HashOf(proc[t].a, proc[t].n)
        IN  task[h] = "none" \/ StateOf(proc[t].a, proc[t].n) \notin InFlightStates

(* What the row of a download says is so: neither of its two endings is     *)
(* recorded ahead of what it stands for, whoever else looks at the download.*)
EndingsAreTrue == TypeOK /\ ArchivedMeansHeld /\ LostMeansGone

(* Every download is driven to a conclusion.                                *)
DownloadConcluded ==
    \A a \in Avids : acq[a].state = "downloading" ~> acq[a].state # "downloading"

(* A title whose timer was reached gets its pass, and the pass re-arms it   *)
(* or moves it on.                                                          *)
DueTaken ==
    \A a \in Avids :
        (acq[a].state \in DueStates /\ acq[a].timer = "due")
            ~> ~(acq[a].state \in DueStates /\ acq[a].timer = "due")

(* An AVID with no usable magnet is parked with a timer until the schedule  *)
(* says to look again: no title stays discovered with nobody to look at it. *)
DiscoveredMovesOn ==
    \A a \in Avids : acq[a].state = "discovered" ~> acq[a].state # "discovered"

(* No title is forgotten between two passes.                                *)
TitlesMoveOn == DueTaken /\ DiscoveredMovesOn

(* Whatever the callers do, they drive the ledger only along its own        *)
(* operations.                                                              *)
LedgerRefined == LedgerSpec
============================================================================
