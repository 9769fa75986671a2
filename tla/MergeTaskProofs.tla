-------------------------- MODULE MergeTaskProofs --------------------------
(***************************************************************************)
(* Merging with a single replica loses no title, for any tasks, titles,    *)
(* attempts, requests and faults.  The invariant has two halves: what the  *)
(* rows say of the files, and what the replica's program counter says of   *)
(* both.  Two replicas do lose one (README, section 6): what one knows     *)
(* must not be changed by the other.                                       *)
(***************************************************************************)
EXTENDS MergeTask, WellFoundedInduction, TLAPS

OneReplica == \A r, s \in Replicas : r = s

Rows == [state : States, failed : Working \union {"none"}, named : BOOLEAN, merged : BOOLEAN,
         tries : 0..MaxAttempts, waited : BOOLEAN]

Labels ==
    {"idle", "next", "end", "fail", "look", "start", "started", "report", "job", "merged",
     "tidy_job", "copies", "kept", "issue", "restart", "count", "uploaded", "requeue", "stat",
     "promote", "delete", "move", "arrived", "tidy", "replaced", "intake", "filed",
     "discard_look", "discard", "kill", "drop", "cancelled", "unname", "resume"}

Procs == [pc : Labels, t : Tasks \union {0}, seen : [Tasks -> Rows], todo : SUBSET Tasks,
          busy : BOOLEAN]

Types ==
    /\ MergeTypeOK
    /\ proc \in [Replicas -> Procs]
----------------------------------------------------------------------------
(* What the rows say of the files.                                         *)

(* The step a task is in, or failed in.                                    *)
StepIn(task) == IF task.state = "failed" THEN task.failed ELSE task.state
StepOf(t) == StepIn(row[t])

Uploads == {"queued", "merging", "uploading", "verifying"}

Whole(x) == target[x] = "good" \/ library[x] = "good"

OneOpen == \A t, u \in Tasks : Open(t) /\ Open(u) /\ TitleOf[t] = TitleOf[u] => t = u

PartsKept ==
    \A t \in Tasks : StepOf(t) \in Uploads => parts[TitleOf[t]] = "all"

CopyOver ==
    \A t \in Tasks : row[t].state = "verifying" \/ StepOf(t) = "replacing" => copy[t] # "running"

Replaceable ==
    \A t \in Tasks : StepOf(t) = "replacing" =>
        /\ staged[t] \in {"none", "good"}
        /\ staged[t] = "good" \/ Whole(TitleOf[t])

Archivable ==
    \A t \in Tasks : StepOf(t) = "archiving" =>
        Whole(TitleOf[t]) /\ parts[TitleOf[t]] = "none"

NeverBad == \A x \in Titles : target[x] # "bad" /\ library[x] # "bad"

(* Where a title is whose parts went: in place of NothingLost, with the    *)
(* task that will bring it in.                                             *)
StillThere ==
    \A x \in Titles :
        \/ parts[x] = "all"
        \/ Whole(x)
        \/ \E t \in Tasks : TitleOf[t] = x /\ StepOf(t) = "replacing" /\ staged[t] = "good"

FilesInv ==
    /\ OneOpen /\ PartsKept /\ CopyOver /\ Replaceable /\ Archivable /\ DoneMeansWhole
    /\ NeverBad /\ StillThere
----------------------------------------------------------------------------
(* What a replica knows.                                                   *)

Taken(r) == proc[r].pc \notin {"idle", "next", "end"}

(* Where a replica at pc has found its task, which nobody else moves.      *)
InStep(r, pc) ==
    LET state == row[proc[r].t].state
        step == StepOf(proc[r].t)
    IN  /\ pc \in {"start", "started"} => state = "queued"
        /\ pc = "look" => state \in {"queued", "verifying"}
        /\ pc \in {"report", "job", "merged"} => state = "merging"
        /\ pc \in {"copies", "kept", "issue", "restart", "count", "uploaded", "requeue"}
              => state = "uploading"
        /\ pc \in {"stat", "promote"} => state = "verifying"
        /\ pc \in {"delete", "move", "arrived", "tidy", "replaced"} => state = "replacing"
        /\ pc \in {"intake", "filed"} => state = "archiving"
        /\ pc = "fail" => state \in Working
        /\ pc \in {"kill", "drop", "cancelled"} => state \in Cancellable /\ step # "replacing"
        /\ pc \in {"discard_look", "discard"} => state = "failed" /\ step = "archiving"
        /\ pc \in {"unname", "resume"} => state = "failed"

(* What it has seen and relies on at pc.                                   *)
Facts(r, pc) ==
    LET t == proc[r].t
    IN  /\ pc = "kept" => copy[t] = "none"
        /\ pc = "uploaded" => copy[t] # "running"
        /\ pc \in {"restart", "count"} => Seen(r).tries < MaxAttempts
        /\ pc = "look" => row[t].state = "queued" \/ staged[t] = "good"
        /\ pc = "promote" => staged[t] = "good"
        /\ pc \in {"move", "arrived", "tidy", "replaced"} => parts[Title(r)] = "none"
        /\ pc \in {"tidy", "replaced"} => Whole(Title(r))
        /\ pc \in {"discard", "filed"} => library[Title(r)] = "good"

Acts(r) == Taken(r) /\ proc[r].pc # "tidy_job"

Knows(r) ==
    /\ Taken(r) => proc[r].t \in Tasks \ proc[r].todo
    /\ Acts(r) =>
          /\ row[proc[r].t].state = Seen(r).state
          /\ row[proc[r].t].failed = Seen(r).failed
          /\ InStep(r, proc[r].pc)
          /\ Facts(r, proc[r].pc)
    /\ \A u \in proc[r].todo :
          /\ row[u].state \in Working
          /\ row[u].state = proc[r].seen[u].state
          /\ row[u].failed = proc[r].seen[u].failed

MergeInv == Types /\ FilesInv /\ \A r \in Replicas : Knows(r)
----------------------------------------------------------------------------
(* Moving on to a label.                                                   *)
LEMMA Going ==
    ASSUME Types, NEW r \in Replicas, NEW l \in Labels, Goto(r, l)
    PROVE  /\ proc' \in [Replicas -> Procs]
           /\ proc'[r].pc = l
           /\ proc'[r].todo = proc[r].todo
           /\ l # "next" => proc'[r].t = proc[r].t /\ proc'[r].seen = proc[r].seen
           /\ l = "next" => \A u \in Tasks \ {proc[r].t} : proc'[r].seen[u] = proc[r].seen[u]
<1>1. NoRow \in Rows
  BY MergeAssumption DEF NoRow, Rows, States, Working
<1>2. proc[r] \in Procs
  BY DEF Types
<1>3. CASE l = "next"
  <2>1. proc' = [proc EXCEPT ![r] = [proc[r] EXCEPT !.pc = l, !.t = 0, !.seen[proc[r].t] = NoRow]]
    BY <1>3 DEF Goto
  <2>2. [proc[r].seen EXCEPT ![proc[r].t] = NoRow] \in [Tasks -> Rows]
    BY <1>1, <1>2 DEF Procs
  <2>3. [proc[r] EXCEPT !.pc = l, !.t = 0, !.seen[proc[r].t] = NoRow] \in Procs
    BY <1>2, <2>2 DEF Procs
  <2>4. QED
    BY <1>2, <1>3, <2>1, <2>3 DEF Types, Procs
<1>4. CASE l # "next"
  BY <1>2, <1>4 DEF Goto, Types, Procs
<1>5. QED
  BY <1>3, <1>4

(* What the files are does not depend on the replicas.                     *)
LEMMA FilesUnmoved ==
    ASSUME FilesInv, UNCHANGED <<row, copy, staged, fileVars>>
    PROVE  FilesInv'
BY DEF FilesInv, OneOpen, Open, PartsKept, CopyOver, Replaceable, Archivable, DoneMeansWhole,
       NeverBad, StillThere, StepOf, StepIn, Whole, fileVars

(* A replica goes on with its task as it is.                               *)
LEMMA Continues ==
    ASSUME Types, NEW r \in Replicas, NEW l \in Labels \ {"idle"}, Knows(r), Goto(r, l), Taken(r),
           Acts(r) \/ l = "next", UNCHANGED row, InStep(r, l), l # "next" => Facts(r, l)'
    PROVE  Knows(r)'
<1>1. CASE l \in {"next", "end", "tidy_job"}
  BY <1>1, Going DEF Knows, Acts, Taken, Types, Procs
<1>2. CASE l \notin {"next", "end", "tidy_job"}
  <2>1. InStep(r, l)'
    BY <1>2, Going DEF InStep, StepOf, StepIn
  <2>2. QED
    BY <1>2, <2>1, Going DEF Knows, Acts, Taken, Seen, Types, Procs
<1>3. QED
  BY <1>1, <1>2

(* Or it only looks.                                                       *)
LEMMA Decides ==
    ASSUME MergeInv, OneReplica, NEW r \in Replicas, NEW l \in Labels \ {"idle"}, Acts(r), Decide(r, l),
           InStep(r, l), Facts(r, l)
    PROVE  MergeInv'
<1>1. Goto(r, l) /\ UNCHANGED <<row, world>>
  BY DEF Decide
<1>2. Types'
  BY <1>1, Going DEF MergeInv, Types, MergeTypeOK, Procs, world, jobVars, cloudVars, fileVars
<1>3. FilesInv'
  BY <1>1, FilesUnmoved DEF MergeInv, world, cloudVars
<1>4. l # "next" => Facts(r, l)'
  BY <1>1, Going DEF MergeInv, Facts, Seen, Title, Whole, world, cloudVars, fileVars
<1>5. Knows(r)'
  BY <1>1, <1>4, Continues DEF MergeInv, Acts
<1>6. QED
  BY <1>2, <1>3, <1>5 DEF MergeInv, OneReplica

(* A write to its row, after which it has done with the task: the task     *)
(* stays on the same side of the step that deletes the parts, or may cross *)
(* it.                                                                     *)
LEMMA Writes ==
    ASSUME MergeInv, OneReplica, NEW r \in Replicas, NEW l \in {"next", "end", "tidy_job"}, Acts(r),
           NEW new \in Rows,
           row' = [row EXCEPT ![proc[r].t] = new], Goto(r, l), UNCHANGED world,
           new.state = "failed" => new.failed # "none",
           StepIn(new) \in Uploads => StepOf(proc[r].t) \in Uploads,
           new.state = "verifying" \/ StepIn(new) = "replacing" => copy[proc[r].t] # "running",
           StepIn(new) = "replacing" => StepOf(proc[r].t) = "replacing" \/ staged[proc[r].t] = "good",
           StepIn(new) = "archiving" => Whole(Title(r)) /\ parts[Title(r)] = "none",
           new.state = "done" => library[Title(r)] = "good" /\ parts[Title(r)] = "none",
           StepOf(proc[r].t) = "replacing" => StepIn(new) = "replacing" \/ Whole(Title(r))
    PROVE  MergeInv'
<1> DEFINE t == proc[r].t
<1>1. /\ t \in Tasks /\ t \notin proc[r].todo
      /\ row \in [Tasks -> Rows] /\ row[t].state \in Working \cup {"failed"}
  <2>1. row \in [Tasks -> Rows]
    BY DEF MergeInv, Types, MergeTypeOK, Rows
  <2>2. proc[r].pc \in Labels
    BY DEF MergeInv, Types, Procs
  <2>3. Knows(r)
    BY DEF MergeInv
  <2>4. t \in Tasks /\ t \notin proc[r].todo /\ InStep(r, proc[r].pc)
    BY <2>3 DEF Knows, Acts
  <2>5. row[t].state \in Working \cup {"failed"}
    BY <2>2, <2>4 DEF InStep, Acts, Taken, Labels, Working, Cancellable
  <2>6. QED
    BY <2>1, <2>4, <2>5
<1>2. row'[t] = new /\ \A u \in Tasks \ {t} : row'[u] = row[u]
  BY <1>1
<1>3. Types'
  <2>1. proc' \in [Replicas -> Procs]
    BY Going DEF MergeInv, Labels
  <2>2. row' \in [Tasks -> Rows]
    BY <1>1
  <2>3. \A u \in Tasks : row'[u].state = "failed" => row'[u].failed # "none"
    BY <1>2 DEF MergeInv, Types, MergeTypeOK
  <2>4. QED
    BY <2>1, <2>2, <2>3
       DEF MergeInv, Types, MergeTypeOK, Rows, Procs, world, jobVars, cloudVars, fileVars
<1>4. FilesInv'
  <2> USE <1>1, <1>2 DEF MergeInv, FilesInv, StepOf, world, cloudVars, fileVars
  <2>1. OneOpen'
    BY DEF OneOpen, Open
  <2>2. PartsKept' /\ CopyOver' /\ Archivable' /\ NeverBad'
    BY DEF PartsKept, CopyOver, Archivable, NeverBad, Whole, Title
  <2>3. Replaceable'
    BY DEF Replaceable, Whole, Title
  <2>4. DoneMeansWhole'
    BY DEF DoneMeansWhole, Title
  <2>5. StillThere'
    BY DEF StillThere, Whole, Title
  <2>6. QED
    BY <2>1, <2>2, <2>3, <2>4, <2>5
<1>5. Knows(r)'
  <2>1. /\ Types /\ proc'[r].pc = l /\ proc'[r].todo = proc[r].todo
        /\ l # "next" => proc'[r].t = t
        /\ \A u \in proc[r].todo : proc'[r].seen[u] = proc[r].seen[u] /\ row'[u] = row[u]
    BY <1>1, <1>2, Going DEF MergeInv, Labels, Types, Procs
  <2>2. Knows(r)
    BY DEF MergeInv
  <2>3. QED
    BY <1>1, <2>1, <2>2 DEF Knows, Acts, Taken
<1>6. QED
  BY <1>3, <1>4, <1>5 DEF MergeInv, OneReplica

(* Write takes, since the task is as the replica has found it.             *)
LEMMA WriteTakes ==
    ASSUME MergeInv, NEW r \in Replicas, Acts(r), NEW expected, NEW changed, NEW l,
           Write(r, expected, changed, l), row[proc[r].t].state = expected
    PROVE  /\ row' = [row EXCEPT ![proc[r].t] = [changed EXCEPT !.waited = FALSE]]
           /\ Goto(r, l)
           /\ UNCHANGED world
BY DEF Write
----------------------------------------------------------------------------
(* The steps that only look.                                               *)
LEMMA LooksKeep ==
    ASSUME MergeInv, OneReplica, NEW r \in Replicas,
           \/ Look(r) \/ Report(r) \/ Job(r) \/ Copies(r) \/ Kept(r) \/ Stat(r)
           \/ Arrived(r) \/ Intake(r) \/ DiscardLook(r)
    PROVE  MergeInv'
<1>1. SUFFICES \E l \in Labels \ {"idle"} : Decide(r, l) /\ InStep(r, l) /\ Facts(r, l)
  <2>1. Acts(r)
    BY DEF Acts, Taken, At, Look, Report, Job, Copies, Kept, Stat, Arrived, Intake, DiscardLook
  <2>2. QED
    BY <2>1, Decides
<1>0. Acts(r) => /\ proc[r].t \in Tasks
                 /\ row[proc[r].t].state = Seen(r).state
                 /\ InStep(r, proc[r].pc)
                 /\ Facts(r, proc[r].pc)
                 /\ Seen(r).tries \in Nat
  <2>1. ASSUME Acts(r) PROVE Seen(r) \in Rows /\ proc[r].t \in Tasks
    BY <2>1 DEF MergeInv, Knows, Acts, Types, Procs, Seen
  <2>2. QED
    BY <2>1, MergeAssumption DEF MergeInv, Knows, Acts, Rows
<1>9. ASSUME Acts(r)
      PROVE  /\ target[Title(r)] \in {"none", "good"} /\ library[Title(r)] \in {"none", "good"}
             /\ row[proc[r].t].state = "archiving" => Whole(Title(r))
  <2>1. proc[r].t \in Tasks /\ Title(r) \in Titles
    BY <1>0, <1>9, MergeAssumption DEF Title
  <2>2. target[Title(r)] \in {"none", "good"} /\ library[Title(r)] \in {"none", "good"}
    BY <2>1 DEF MergeInv, FilesInv, NeverBad, Types, MergeTypeOK
  <2>3. row[proc[r].t].state = "archiving" => Whole(Title(r))
    BY <2>1 DEF MergeInv, FilesInv, Archivable, StepOf, StepIn, Title
  <2>4. QED
    BY <2>2, <2>3
<1> DEFINE Fits(l) == InStep(r, l) /\ Facts(r, l)
<1>2. Fits("next") /\ Fits("end")
  BY DEF InStep, Facts
<1>3. CASE Look(r)
  <2>0. At(r, "look")
    BY <1>3 DEF Look
  <2>1. Fits("fail")
    BY <1>0, <2>0 DEF At, Acts, Taken, InStep, Facts, Working
  <2>2. row[proc[r].t].state = "queued" => Fits("start")
    BY <1>0, <2>0 DEF At, Acts, Taken, InStep, Facts, Working
  <2>3. row[proc[r].t].state # "queued" => Fits("promote")
    BY <1>0, <2>0 DEF At, Acts, Taken, InStep, Facts, Working
  <2>4. QED
    BY <1>0, <1>2, <1>3, <2>0, <2>1, <2>2, <2>3 DEF Look, Labels, Acts, Taken, At
<1>4. CASE Report(r)
  <2>0. At(r, "report")
    BY <1>4 DEF Report
  <2>1. Fits("fail") /\ Fits("merged") /\ Fits("job")
    BY <1>0, <2>0 DEF At, Acts, Taken, InStep, Facts, Working
  <2>2. QED
    BY <1>0, <1>2, <1>4, <2>0, <2>1 DEF Report, Labels, Acts, Taken, At
<1>5. CASE Job(r)
  <2>0. At(r, "job")
    BY <1>5 DEF Job
  <2>1. Fits("fail")
    BY <1>0, <2>0 DEF At, Acts, Taken, InStep, Facts, Working
  <2>2. QED
    BY <1>0, <1>2, <1>5, <2>0, <2>1 DEF Job, Labels, Acts, Taken, At
<1>6. CASE Copies(r)
  <2>0. At(r, "copies")
    BY <1>6 DEF Copies
  <2>1. Fits("fail") /\ Fits("requeue") /\ Fits("issue")
    BY <1>0, <2>0 DEF At, Acts, Taken, InStep, Facts, Working
  <2>2. copy[proc[r].t] = "completed" => Fits("uploaded")
    BY <1>0, <2>0 DEF At, Acts, Taken, InStep, Facts, Working
  <2>3. copy[proc[r].t] = "none" => Fits("kept")
    BY <1>0, <2>0 DEF At, Acts, Taken, InStep, Facts, Working
  <2>4. ~(Seen(r).tries >= MaxAttempts) => Fits("restart")
    BY <1>0, <2>0, MergeAssumption DEF At, Acts, Taken, InStep, Facts, Working
  <2>5. QED
    BY <1>0, <1>2, <1>6, <2>0, <2>1, <2>2, <2>3, <2>4 DEF Copies, Labels, Acts, Taken, At
<1>7. CASE Kept(r)
  <2>0. At(r, "kept")
    BY <1>7 DEF Kept
  <2>1. Fits("uploaded") /\ Fits("issue")
    BY <1>0, <2>0 DEF At, Acts, Taken, InStep, Facts, Working
  <2>2. QED
    BY <1>0, <1>2, <1>7, <2>0, <2>1 DEF Kept, Labels, Acts, Taken, At
<1>8. CASE Stat(r)
  <2>0. At(r, "stat")
    BY <1>8 DEF Stat
  <2>1. Fits("fail")
    BY <1>0, <2>0 DEF At, Acts, Taken, InStep, Facts, Working
  <2>2. staged[proc[r].t] = "good" => Fits("look")
    BY <1>0, <2>0 DEF At, Acts, Taken, InStep, Facts, Working
  <2>3. QED
    BY <1>0, <1>2, <1>8, <2>0, <2>1, <2>2 DEF Stat, Labels, Acts, Taken, At
<1>13. CASE Arrived(r)
  <2>0. At(r, "arrived")
    BY <1>13 DEF Arrived
  <2>1. Fits("fail")
    BY <1>0, <2>0 DEF At, Acts, Taken, InStep, Facts, Working
  <2>2. target[Title(r)] # "none" => Fits("tidy")
    BY <1>0, <2>0, <1>9 DEF Whole, At, Acts, Taken, InStep, Facts, Working
  <2>3. QED
    BY <1>0, <1>2, <1>13, <2>0, <2>1, <2>2 DEF Arrived, Labels, Acts, Taken, At
<1>10. CASE Intake(r)
  <2>0. At(r, "intake")
    BY <1>10 DEF Intake
  <2>1. Fits("fail")
    BY <1>0, <2>0 DEF At, Acts, Taken, InStep, Facts, Working
  <2>2. target[Title(r)] = "none" => Fits("filed")
    BY <1>0, <2>0, <1>9 DEF Whole, At, Acts, Taken, InStep, Facts, Working
  <2>3. QED
    BY <1>0, <1>2, <1>10, <2>0, <2>1, <2>2 DEF Intake, Labels, Acts, Taken, At
<1>11. CASE DiscardLook(r)
  <2>0. At(r, "discard_look")
    BY <1>11 DEF DiscardLook
  <2>1. library[Title(r)] # "none" => Fits("discard")
    BY <1>0, <2>0, <1>9 DEF Whole, At, Acts, Taken, InStep, Facts, Working
  <2>2. QED
    BY <1>0, <1>2, <1>11, <2>0, <2>1 DEF DiscardLook, Labels, Acts, Taken, At
<1>12. QED
  BY <1>1, <1>3, <1>4, <1>5, <1>6, <1>7, <1>8, <1>13, <1>10, <1>11
(* The steps that write the row.                                           *)
LEMMA WritesKeep ==
    ASSUME MergeInv, OneReplica, NEW r \in Replicas,
           \/ Fail(r) \/ Started(r) \/ Merged(r) \/ Count(r) \/ Uploaded(r) \/ Requeue(r)
           \/ Promote(r) \/ Replaced(r) \/ Filed(r) \/ Cancelled(r) \/ Resumed(r)
    PROVE  MergeInv'
<1> DEFINE t == proc[r].t
<1>1. Acts(r)
  BY DEF Acts, Taken, At, Fail, Started, Merged, Count, Uploaded, Requeue, Promote, Replaced, Filed,
         Cancelled, Resumed
<1>2. /\ t \in Tasks /\ row[t] \in Rows /\ Seen(r) \in Rows
      /\ Seen(r).state = row[t].state /\ Seen(r).failed = row[t].failed
  BY <1>1 DEF MergeInv, Types, MergeTypeOK, Procs, Knows, Acts, Rows, Seen
<1>3. InStep(r, proc[r].pc) /\ Facts(r, proc[r].pc)
  BY <1>1 DEF MergeInv, Knows
<1>4. /\ row[t].state = "failed" => row[t].failed # "none"
      /\ row[t].state = "verifying" \/ StepOf(t) = "replacing" => copy[t] # "running"
      /\ StepOf(t) = "archiving" => Whole(Title(r)) /\ parts[Title(r)] = "none"
  BY <1>2 DEF MergeInv, FilesInv, CopyOver, Archivable, Types, MergeTypeOK, Title
<1> USE DEF StepOf, StepIn, Working, Uploads, At
<1>5. CASE Fail(r)
  <2> DEFINE new == [row[t] EXCEPT !.state = "failed", !.failed = row[t].state, !.waited = FALSE]
  <2>1. proc[r].pc = "fail"
    BY <1>5 DEF Fail
  <2>2. row[t].state \in Working
    BY <1>2, <1>3, <1>4, <2>1, MergeAssumption DEF InStep, Facts, Rows
  <2>3. row' = [row EXCEPT ![t] = new] /\ Goto(r, "next") /\ UNCHANGED world
    BY <1>1, <1>2, <1>5, <2>2, WriteTakes DEF Fail, MoveTo
  <2>4. new \in Rows /\ new.state = "failed" /\ new.failed = row[t].state
    BY <1>2, <2>2, MergeAssumption DEF Rows, States, Finished
  <2>5. QED
    BY <1>1, <1>2, <1>4, <2>2, <2>3, <2>4, Writes
<1>6. CASE Started(r)
  <2> DEFINE new == [row[t] EXCEPT !.state = "merging", !.named = TRUE, !.waited = FALSE]
  <2>1. proc[r].pc = "started"
    BY <1>6 DEF Started
  <2>2. row[t].state = "queued"
    BY <1>2, <1>3, <1>4, <2>1, MergeAssumption DEF InStep, Facts, Rows
  <2>3. row' = [row EXCEPT ![t] = new] /\ Goto(r, "next") /\ UNCHANGED world
    BY <1>1, <1>2, <1>6, <2>2, WriteTakes DEF Started, MoveTo
  <2>4. new \in Rows /\ new.state = "merging"
    BY <1>2, <2>2, MergeAssumption DEF Rows, States, Finished
  <2>5. QED
    BY <1>1, <1>2, <1>4, <2>2, <2>3, <2>4, Writes
<1>7. CASE Merged(r)
  <2> DEFINE new == [row[t] EXCEPT !.state = "uploading", !.merged = TRUE, !.tries = 0, !.waited = FALSE]
  <2>1. proc[r].pc = "merged"
    BY <1>7 DEF Merged
  <2>2. row[t].state = "merging"
    BY <1>2, <1>3, <1>4, <2>1, MergeAssumption DEF InStep, Facts, Rows
  <2>3. /\ row' = [row EXCEPT ![t] = new]
        /\ Goto(r, IF Seen(r).named THEN "tidy_job" ELSE "next")
        /\ UNCHANGED world
    BY <1>1, <1>2, <1>7, <2>2, WriteTakes DEF Merged, MoveTo
  <2>4. new \in Rows /\ new.state = "uploading"
    <3>1. 0 \in 0..MaxAttempts
      BY MergeAssumption
    <3>2. QED
      BY <1>2, <3>1 DEF Rows, States
  <2>5. QED
    BY <1>1, <1>2, <1>4, <2>2, <2>3, <2>4, Writes
<1>8. CASE Count(r)
  <2> DEFINE new == [row[t] EXCEPT !.tries = Seen(r).tries + 1, !.waited = FALSE]
  <2>1. proc[r].pc = "count"
    BY <1>8 DEF Count
  <2>2. row[t].state = "uploading" /\ Seen(r).tries + 1 \in 0..MaxAttempts
    BY <1>2, <1>3, <1>4, <2>1, MergeAssumption DEF InStep, Facts, Rows
  <2>3. row' = [row EXCEPT ![t] = new] /\ Goto(r, "next") /\ UNCHANGED world
    BY <1>1, <1>2, <1>8, <2>2, WriteTakes DEF Count, MoveTo
  <2>4. new \in Rows /\ new.state = "uploading"
    BY <1>2, <2>2, MergeAssumption DEF Rows, States, Finished
  <2>5. QED
    BY <1>1, <1>2, <1>4, <2>2, <2>3, <2>4, Writes
<1>9. CASE Uploaded(r)
  <2> DEFINE new == [row[t] EXCEPT !.state = "verifying", !.waited = FALSE]
  <2>1. proc[r].pc = "uploaded"
    BY <1>9 DEF Uploaded
  <2>2. row[t].state = "uploading" /\ copy[t] # "running"
    BY <1>2, <1>3, <1>4, <2>1, MergeAssumption DEF InStep, Facts, Rows
  <2>3. row' = [row EXCEPT ![t] = new] /\ Goto(r, "next") /\ UNCHANGED world
    BY <1>1, <1>2, <1>9, <2>2, WriteTakes DEF Uploaded, MoveTo
  <2>4. new \in Rows /\ new.state = "verifying"
    BY <1>2, <2>2, MergeAssumption DEF Rows, States, Finished
  <2>5. QED
    BY <1>1, <1>2, <1>4, <2>2, <2>3, <2>4, Writes
<1>10. CASE Requeue(r)
  <2> DEFINE new == [row[t] EXCEPT !.state = "queued", !.named = FALSE, !.merged = FALSE, !.waited = FALSE]
  <2>1. proc[r].pc = "requeue"
    BY <1>10 DEF Requeue
  <2>2. row[t].state = "uploading"
    BY <1>2, <1>3, <1>4, <2>1, MergeAssumption DEF InStep, Facts, Rows
  <2>3. row' = [row EXCEPT ![t] = new] /\ Goto(r, "next") /\ UNCHANGED world
    BY <1>1, <1>2, <1>10, <2>2, WriteTakes DEF Requeue, MoveTo
  <2>4. new \in Rows /\ new.state = "queued"
    BY <1>2, <2>2, MergeAssumption DEF Rows, States, Finished
  <2>5. QED
    BY <1>1, <1>2, <1>4, <2>2, <2>3, <2>4, Writes
<1>11. CASE Promote(r)
  <2> DEFINE new == [row[t] EXCEPT !.state = "replacing", !.waited = FALSE]
  <2>1. proc[r].pc = "promote"
    BY <1>11 DEF Promote
  <2>2. row[t].state = "verifying" /\ staged[t] = "good"
    BY <1>2, <1>3, <1>4, <2>1, MergeAssumption DEF InStep, Facts, Rows
  <2>3. row' = [row EXCEPT ![t] = new] /\ Goto(r, "next") /\ UNCHANGED world
    BY <1>1, <1>2, <1>11, <2>2, WriteTakes DEF Promote, MoveTo
  <2>4. new \in Rows /\ new.state = "replacing"
    BY <1>2, <2>2, MergeAssumption DEF Rows, States, Finished
  <2>5. QED
    BY <1>1, <1>2, <1>4, <2>2, <2>3, <2>4, Writes
<1>12. CASE Replaced(r)
  <2> DEFINE new == [row[t] EXCEPT !.state = "archiving", !.waited = FALSE]
  <2>1. proc[r].pc = "replaced"
    BY <1>12 DEF Replaced
  <2>2. row[t].state = "replacing" /\ Whole(Title(r)) /\ parts[Title(r)] = "none"
    BY <1>2, <1>3, <1>4, <2>1, MergeAssumption DEF InStep, Facts, Rows
  <2>3. row' = [row EXCEPT ![t] = new] /\ Goto(r, "next") /\ UNCHANGED world
    BY <1>1, <1>2, <1>12, <2>2, WriteTakes DEF Replaced, MoveTo
  <2>4. new \in Rows /\ new.state = "archiving"
    BY <1>2, <2>2, MergeAssumption DEF Rows, States, Finished
  <2>5. QED
    BY <1>1, <1>2, <1>4, <2>2, <2>3, <2>4, Writes
<1>13. CASE Filed(r)
  <2> DEFINE new == [row[t] EXCEPT !.state = "done", !.waited = FALSE]
  <2>1. proc[r].pc = "filed"
    BY <1>13 DEF Filed
  <2>2. row[t].state = "archiving" /\ library[Title(r)] = "good"
    BY <1>2, <1>3, <1>4, <2>1, MergeAssumption DEF InStep, Facts, Rows
  <2>3. row' = [row EXCEPT ![t] = new] /\ Goto(r, "next") /\ UNCHANGED world
    BY <1>1, <1>2, <1>13, <2>2, WriteTakes DEF Filed, MoveTo
  <2>4. new \in Rows /\ new.state = "done"
    BY <1>2, <2>2, MergeAssumption DEF Rows, States, Finished
  <2>5. QED
    BY <1>1, <1>2, <1>4, <2>2, <2>3, <2>4, Writes
<1>14. CASE Cancelled(r)
  <2> DEFINE new == [row[t] EXCEPT !.state = "cancelled", !.waited = FALSE]
  <2>1. proc[r].pc = "cancelled"
    BY <1>14 DEF Cancelled
  <2>2. StepOf(t) # "replacing"
    BY <1>2, <1>3, <1>4, <2>1, MergeAssumption DEF InStep, Facts, Rows
  <2>3. row' = [row EXCEPT ![t] = new] /\ Goto(r, "end") /\ UNCHANGED world
    BY <1>1, <1>2, <1>14, <2>2, WriteTakes DEF Cancelled, MoveTo
  <2>4. new \in Rows /\ new.state = "cancelled"
    BY <1>2, <2>2, MergeAssumption DEF Rows, States, Finished
  <2>5. QED
    BY <1>1, <1>2, <1>4, <2>2, <2>3, <2>4, Writes
<1>15. CASE Resumed(r)
  <2> DEFINE to == Resume[Seen(r).failed]
  <2> DEFINE new == [[row[t] EXCEPT !.state = to, !.failed = "none", !.named = @ /\ to # "queued",
                                    !.tries = IF to = "uploading" THEN 0 ELSE @] EXCEPT !.waited = FALSE]
  <2>1. proc[r].pc = "resume"
    BY <1>15 DEF Resumed
  <2>2. row[t].state = "failed" /\ row[t].failed \in Working
    BY <1>2, <1>3, <1>4, <2>1 DEF InStep, Rows
  <2>3. row' = [row EXCEPT ![t] = new] /\ Goto(r, "end") /\ UNCHANGED world
    <3>1. Write(r, "failed", [row[t] EXCEPT !.state = to, !.failed = "none", !.named = @ /\ to # "queued",
                                            !.tries = IF to = "uploading" THEN 0 ELSE @], "end")
      BY <1>15, Zenon DEF Resumed
    <3>2. QED
      BY <2>2, <3>1, Zenon DEF Write
  <2>4. /\ to \in Working \ {"verifying"}
        /\ to \in Uploads <=> StepOf(t) \in Uploads
        /\ to = "replacing" <=> StepOf(t) = "replacing"
        /\ to = "archiving" <=> StepOf(t) = "archiving"
    BY <1>2, <2>2 DEF Resume
  <2>5. new \in Rows /\ new.state = to
    <3> HIDE DEF to
    <3>1. to \in States /\ 0 \in 0..MaxAttempts
      BY <2>4, MergeAssumption DEF States
    <3>2. QED
      BY <1>2, <3>1 DEF Rows
  <2> HIDE DEF to, new
  <2>6. QED
    BY <1>1, <1>2, <1>4, <2>2, <2>3, <2>4, <2>5, Writes
<1>16. QED
  BY <1>5, <1>6, <1>7, <1>8, <1>9, <1>10, <1>11, <1>12, <1>13, <1>14, <1>15
----------------------------------------------------------------------------
(* The steps that act on the world.                                        *)
WorldTypes ==
    /\ job \in [Tasks -> {"none", "running", "written", "succeeded", "failed", "ending"}]
    /\ status \in [Tasks -> {"none", "done", "failed"}]
    /\ output \subseteq Titles
    /\ copy \in [Tasks -> {"none", "running", "fatal", "failed", "completed"}]
    /\ staged \in [Tasks -> {"none", "good", "bad"}]
    /\ parts \in [Titles -> {"all", "some", "none"}]
    /\ target \in [Titles -> {"none", "good", "bad"}]
    /\ library \in [Titles -> {"none", "good", "bad"}]

(* The types of the world, which a replica's steps change by themselves.   *)
LEMMA WorldTyped == Types => WorldTypes
BY DEF Types, MergeTypeOK, WorldTypes

(* The task of a replica that acts on it.                                  *)
LEMMA ActsOn ==
    ASSUME MergeInv, NEW r \in Replicas, Taken(r)
    PROVE  /\ proc[r].t \in Tasks /\ Title(r) \in Titles /\ Title(r) = TitleOf[proc[r].t]
           /\ Acts(r) => /\ row[proc[r].t].state \in Working \cup {"failed"}
                         /\ Seen(r) \in Rows
                         /\ InStep(r, proc[r].pc)
                         /\ Facts(r, proc[r].pc)
<1>1. proc[r] \in Procs /\ Knows(r)
  BY DEF MergeInv, Types
<1>2. proc[r].t \in Tasks /\ Title(r) \in Titles
  BY <1>1, MergeAssumption DEF Knows, Title
<1>3. ASSUME Acts(r)
      PROVE  InStep(r, proc[r].pc) /\ Facts(r, proc[r].pc) /\ Seen(r) \in Rows
  BY <1>1, <1>2, <1>3 DEF Knows, Seen, Procs
<1>4. ASSUME Acts(r) PROVE row[proc[r].t].state \in Working \cup {"failed"}
  <2>1. proc[r].pc \in Labels
    BY <1>1 DEF Procs
  <2>2. QED
    BY <1>3, <1>4, <2>1 DEF InStep, Acts, Taken, Labels, Working, Cancellable
<1>5. QED
  BY <1>2, <1>3, <1>4 DEF Title

(* A replica goes on with its task after changing the world.               *)
LEMMA Works ==
    ASSUME MergeInv, OneReplica, NEW r \in Replicas, NEW l \in Labels \ {"idle"}, Taken(r),
           Acts(r) \/ l = "next", Goto(r, l), UNCHANGED row, WorldTypes', FilesInv',
           InStep(r, l), l # "next" => Facts(r, l)'
    PROVE  MergeInv'
<1>1. Types'
  BY Going DEF MergeInv, Types, MergeTypeOK, WorldTypes, Procs
<1>2. Knows(r)'
  BY Continues DEF MergeInv
<1>3. QED
  BY <1>1, <1>2 DEF MergeInv, OneReplica

(* The Job is not among the files.                                         *)
LEMMA JobsKeep ==
    ASSUME MergeInv, OneReplica, NEW r \in Replicas,
           Start(r) \/ TidyJob(r) \/ Kill(r) \/ Unname(r)
    PROVE  MergeInv'
<1>1. Taken(r)
  BY DEF Taken, At, Start, TidyJob, Kill, Unname
<1>2. WorldTypes' /\ FilesInv' /\ UNCHANGED row
  <2>1. WorldTypes
    BY WorldTyped DEF MergeInv
  <2>2. WorldTypes'
    BY <2>1 DEF WorldTypes, Start, TidyJob, Kill, Unname, JobDeleted, cloudVars, fileVars
  <2>3. FilesInv'
    BY FilesUnmoved DEF MergeInv, Start, TidyJob, Kill, Unname, cloudVars
  <2>4. QED
    BY <2>2, <2>3 DEF Start, TidyJob, Kill, Unname
<1>3. InStep(r, "next")
  BY DEF InStep
<1>4. CASE Start(r)
  <2>1. Acts(r) /\ InStep(r, "start")
    BY <1>1, <1>4, ActsOn DEF Acts, Taken, Start, At
  <2>2. InStep(r, "started") /\ Facts(r, "started")'
    BY <2>1 DEF InStep, Facts
  <2>3. QED
    BY <1>1, <1>2, <1>3, <1>4, <2>1, <2>2, Works DEF Start, Labels
<1>5. CASE TidyJob(r)
  BY <1>1, <1>2, <1>3, <1>5, Works DEF TidyJob, Labels
<1>6. CASE Kill(r)
  <2>1. Acts(r) /\ InStep(r, "kill")
    BY <1>1, <1>6, ActsOn DEF Acts, Taken, Kill, At
  <2>2. InStep(r, "drop") /\ Facts(r, "drop")'
    BY <2>1 DEF InStep, Facts
  <2>3. QED
    BY <1>1, <1>2, <1>6, <2>1, <2>2, Works DEF Kill, Labels
<1>7. CASE Unname(r)
  <2>1. Acts(r) /\ InStep(r, "unname")
    BY <1>1, <1>7, ActsOn DEF Acts, Taken, Unname, At
  <2>2. InStep(r, "resume") /\ Facts(r, "resume")'
    BY <2>1 DEF InStep, Facts
  <2>3. QED
    BY <1>1, <1>2, <1>7, <2>1, <2>2, Works DEF Unname, Labels
<1>8. QED
  BY <1>4, <1>5, <1>6, <1>7

(* A copy is only started for a task that uploads.                         *)
LEMMA CopiesKeep ==
    ASSUME MergeInv, OneReplica, NEW r \in Replicas, Issue(r) \/ Restart(r)
    PROVE  MergeInv'
<1> DEFINE t == proc[r].t
<1>1. Taken(r) /\ Acts(r)
  BY DEF Taken, Acts, At, Issue, Restart
<1>2. /\ t \in Tasks /\ Seen(r) \in Rows /\ row[t].state = "uploading"
      /\ Restart(r) => Seen(r).tries < MaxAttempts
  BY <1>1, ActsOn DEF InStep, Facts, At, Issue, Restart
<1>3. UNCHANGED <<row, staged, fileVars>> /\ \A u \in Tasks \ {t} : copy'[u] = copy[u]
  BY WorldTyped DEF MergeInv, WorldTypes, Issue, Restart
<1>4. WorldTypes'
  <2>1. WorldTypes
    BY WorldTyped DEF MergeInv
  <2>2. QED
    BY <1>2, <2>1 DEF WorldTypes, Issue, Restart, jobVars, fileVars
<1>5. FilesInv'
  <2>1. CopyOver'
    BY <1>2, <1>3 DEF MergeInv, FilesInv, CopyOver, StepOf, StepIn
  <2>2. QED
    BY <1>3, <2>1
       DEF MergeInv, FilesInv, OneOpen, Open, PartsKept, Replaceable, Archivable, DoneMeansWhole,
       NeverBad, StillThere, StepOf, StepIn, Whole, fileVars
<1>6. InStep(r, "next") /\ InStep(r, "fail") /\ InStep(r, "count")
  BY <1>2 DEF InStep, Working
<1>7. Facts(r, "fail")'
  BY DEF Facts
<1>8. ASSUME Goto(r, "count"), Seen(r).tries < MaxAttempts PROVE Facts(r, "count")'
  BY <1>8, Going DEF Facts, Seen, MergeInv, Labels
<1>9. CASE Restart(r)
  BY <1>1, <1>2, <1>3, <1>4, <1>5, <1>6, <1>8, <1>9, Works DEF Restart, Labels
<1>10. CASE Issue(r)
  <2>1. CASE Seen(r).tries >= MaxAttempts
    BY <1>1, <1>3, <1>4, <1>5, <1>6, <1>7, <1>10, <2>1, Works DEF Issue, Labels
  <2>2. CASE ~(Seen(r).tries >= MaxAttempts)
    <3>1. Seen(r).tries < MaxAttempts
      BY <1>2, <2>2, MergeAssumption DEF Rows
    <3>2. QED
      BY <1>1, <1>3, <1>4, <1>5, <1>6, <1>8, <1>10, <2>2, <3>1, Works DEF Issue, Labels
  <2>3. QED
    BY <2>1, <2>2
<1>11. QED
  BY <1>9, <1>10

(* The step that deletes the parts: its task is the only one of the title, *)
(* and the merged file is there.                                           *)
LEMMA DeletingKeeps ==
    ASSUME MergeInv, OneReplica, NEW r \in Replicas, DeleteParts(r)
    PROVE  MergeInv'
<1> DEFINE t == proc[r].t
<1> DEFINE x == Title(r)
<1>1. Taken(r) /\ Acts(r)
  BY DEF Taken, Acts, At, DeleteParts
<1>2. /\ t \in Tasks /\ row[t].state = "replacing" /\ x = TitleOf[t] /\ x \in Titles
  BY <1>1, ActsOn DEF InStep, At, DeleteParts
<1>3. /\ UNCHANGED <<row, copy, staged, target, library>>
      /\ \A y \in Titles \ {x} : parts'[y] = parts[y]
      /\ parts'[x] = "none" \/ (parts[x] # "none" /\ parts'[x] \in {parts[x], "some"})
  BY <1>2, WorldTyped DEF MergeInv, WorldTypes, DeleteParts, cloudVars
<1>4. WorldTypes'
  BY <1>2, WorldTyped DEF MergeInv, WorldTypes, DeleteParts, cloudVars, jobVars
<1>5. FilesInv'
  <2> USE DEF MergeInv, FilesInv, StepOf, StepIn
  <2>1. OneOpen' /\ CopyOver' /\ NeverBad'
    BY <1>3 DEF OneOpen, Open, CopyOver, NeverBad
  <2>2. PartsKept'
    <3>1. ASSUME NEW u \in Tasks, StepOf(u) \in Uploads PROVE TitleOf[u] # x
      BY <1>2, <3>1 DEF OneOpen, Open, Uploads, Working
    <3>2. QED
      BY <1>3, <3>1, MergeAssumption DEF PartsKept
  <2>3. Replaceable'
    BY <1>3 DEF Replaceable, Whole
  <2>4. Archivable' /\ DoneMeansWhole'
    BY <1>3, MergeAssumption DEF Archivable, DoneMeansWhole, Whole
  <2>5. StillThere'
    BY <1>2, <1>3 DEF StillThere, Replaceable, Whole
  <2>6. QED
    BY <2>1, <2>2, <2>3, <2>4, <2>5
<1>6. InStep(r, "next") /\ InStep(r, "move")
  BY <1>2 DEF InStep
<1>7. ASSUME parts'[x] = "none", Goto(r, "move") PROVE Facts(r, "move")'
  BY <1>7, Going DEF Facts, Title, MergeInv, Labels
<1>8. CASE Goto(r, "next")
  BY <1>1, <1>3, <1>4, <1>5, <1>6, <1>8, Works DEF Labels
<1>9. CASE parts' = [parts EXCEPT ![x] = "none"] /\ Goto(r, "move")
  <2>1. parts'[x] = "none"
    BY <1>2, <1>9, WorldTyped DEF MergeInv, WorldTypes
  <2>2. QED
    BY <1>1, <1>3, <1>4, <1>5, <1>6, <1>7, <1>9, <2>1, Works DEF Labels
<1>10. QED
  BY <1>8, <1>9 DEF DeleteParts

(* The move into the intake, which takes the merged file along.            *)
LEMMA MovingKeeps ==
    ASSUME MergeInv, OneReplica, NEW r \in Replicas, Move(r)
    PROVE  MergeInv'
<1> DEFINE t == proc[r].t
<1> DEFINE x == Title(r)
<1>1. Taken(r) /\ Acts(r)
  BY DEF Taken, Acts, At, Move
<1>2. /\ t \in Tasks /\ row[t].state = "replacing" /\ x = TitleOf[t] /\ x \in Titles
      /\ parts[x] = "none"
  BY <1>1, ActsOn DEF InStep, Facts, At, Move
<1>3. /\ UNCHANGED <<row, copy, parts, library>>
      /\ \/ UNCHANGED <<staged, target>>
         \/ /\ target[x] = "none" /\ staged[t] # "none"
            /\ target' = [target EXCEPT ![x] = staged[t]]
            /\ staged' = [staged EXCEPT ![t] = "none"]
  BY DEF Move
<1>4. WorldTypes'
  <2>1. WorldTypes
    BY WorldTyped DEF MergeInv
  <2>2. QED
    BY <1>2, <2>1 DEF WorldTypes, Move, jobVars
<1>5. FilesInv'
  <2>1. CASE UNCHANGED <<staged, target>>
    BY <1>3, <2>1, FilesUnmoved DEF MergeInv, fileVars
  <2>2. CASE /\ target[x] = "none" /\ staged[t] # "none"
             /\ target' = [target EXCEPT ![x] = staged[t]]
             /\ staged' = [staged EXCEPT ![t] = "none"]
    <3> USE DEF MergeInv, FilesInv, StepOf, StepIn
    <3>1. staged[t] = "good"
      BY <1>2, <2>2 DEF Replaceable
    <3>2. /\ target'[x] = "good" /\ staged'[t] = "none"
          /\ \A y \in Titles \ {x} : target'[y] = target[y]
          /\ \A u \in Tasks \ {t} : staged'[u] = staged[u]
      BY <1>2, <2>2, <3>1, WorldTyped DEF WorldTypes
    <3>3. \A y \in Titles : Whole(y) => Whole(y)'
      BY <1>3, <3>2 DEF Whole
    <3>4. OneOpen' /\ PartsKept' /\ CopyOver' /\ NeverBad' /\ DoneMeansWhole'
      BY <1>3, <3>2 DEF OneOpen, Open, PartsKept, CopyOver, NeverBad, DoneMeansWhole
    <3>5. Replaceable'
      BY <1>2, <1>3, <3>2, <3>3, MergeAssumption DEF Replaceable, Whole
    <3>6. Archivable'
      BY <1>3, <3>3, MergeAssumption DEF Archivable
    <3>7. StillThere'
      BY <1>2, <1>3, <3>2, <3>3, MergeAssumption DEF StillThere, Whole
    <3>8. QED
      BY <3>4, <3>5, <3>6, <3>7
  <2>3. QED
    BY <1>3, <2>1, <2>2
<1>6. InStep(r, "next") /\ InStep(r, "arrived")
  BY <1>2 DEF InStep
<1>7. ASSUME Goto(r, "arrived") PROVE Facts(r, "arrived")'
  BY <1>2, <1>3, <1>7, Going DEF Facts, Title, MergeInv, Labels
<1>8. QED
  BY <1>1, <1>3, <1>4, <1>5, <1>6, <1>7, Works DEF Move, Labels

(* What is swept away once the merged file has left the staging folder, or *)
(* with a cancelled task, which had not come to the parts.                 *)
LEMMA SweepingKeeps ==
    ASSUME MergeInv, OneReplica, NEW r \in Replicas, Tidy(r) \/ Drop(r)
    PROVE  MergeInv'
<1> DEFINE t == proc[r].t
<1> DEFINE x == Title(r)
<1>1. Taken(r) /\ Acts(r)
  BY DEF Taken, Acts, At, Tidy, Drop
<1>2. /\ t \in Tasks /\ x = TitleOf[t] /\ x \in Titles
      /\ Tidy(r) => row[t].state = "replacing" /\ Whole(x) /\ parts[x] = "none"
      /\ Drop(r) => row[t].state \in Cancellable /\ StepOf(t) # "replacing"
  BY <1>1, ActsOn DEF InStep, Facts, At, Tidy, Drop
<1>3. /\ UNCHANGED <<row, fileVars>>
      /\ \A u \in Tasks \ {t} : staged'[u] = staged[u]
      /\ staged'[t] \in {staged[t], "none"}
      /\ \A u \in Tasks : copy'[u] = "running" => copy[u] = "running"
  <2>1. WorldTypes
    BY WorldTyped DEF MergeInv
  <2>2. QED
    BY <1>2, <2>1 DEF WorldTypes, Tidy, Drop, cloudVars
<1>4. WorldTypes'
  <2>1. WorldTypes
    BY WorldTyped DEF MergeInv
  <2>2. QED
    BY <1>2, <2>1 DEF WorldTypes, Tidy, Drop, jobVars, cloudVars, fileVars
<1>5. StepOf(t) = "replacing" => Whole(x)
  BY <1>2 DEF Tidy, Drop
<1>6. FilesInv'
  <2> USE DEF MergeInv, FilesInv, StepOf, StepIn, fileVars
  <2>1. OneOpen' /\ PartsKept' /\ Archivable' /\ DoneMeansWhole' /\ NeverBad'
    BY <1>3 DEF OneOpen, Open, PartsKept, Archivable, DoneMeansWhole, NeverBad, Whole
  <2>2. CopyOver'
    BY <1>3 DEF CopyOver
  <2>3. Replaceable'
    BY <1>2, <1>3, <1>5 DEF Replaceable, Whole
  <2>4. StillThere'
    BY <1>2, <1>3, <1>5, MergeAssumption DEF StillThere, Whole
  <2>5. QED
    BY <2>1, <2>2, <2>3, <2>4
<1>7. CASE Tidy(r)
  <2>1. InStep(r, "replaced")
    BY <1>2, <1>7 DEF InStep
  <2>2. Facts(r, "replaced")'
    BY <1>2, <1>3, <1>7, Going DEF Facts, Title, Whole, fileVars, Tidy, MergeInv, Labels
  <2>3. QED
    BY <1>1, <1>3, <1>4, <1>6, <1>7, <2>1, <2>2, Works DEF Tidy, Labels
<1>8. CASE Drop(r)
  <2>1. InStep(r, "cancelled") /\ Facts(r, "cancelled")'
    BY <1>2, <1>8 DEF InStep, Facts
  <2>2. QED
    BY <1>1, <1>3, <1>4, <1>6, <1>8, <2>1, Works DEF Drop, Labels
<1>9. QED
  BY <1>7, <1>8

(* The merged copy of a cancelled task is only discarded where the library *)
(* holds another.                                                          *)
LEMMA DiscardingKeeps ==
    ASSUME MergeInv, OneReplica, NEW r \in Replicas, Discard(r)
    PROVE  MergeInv'
<1> DEFINE t == proc[r].t
<1> DEFINE x == Title(r)
<1>1. Taken(r) /\ Acts(r)
  BY DEF Taken, Acts, At, Discard
<1>2. /\ t \in Tasks /\ x = TitleOf[t] /\ x \in Titles /\ library[x] = "good"
      /\ row[t].state = "failed" /\ StepOf(t) = "archiving"
  BY <1>1, ActsOn DEF InStep, Facts, At, Discard
<1>3. /\ UNCHANGED <<row, copy, staged, parts, library>>
      /\ \A y \in Titles \ {x} : target'[y] = target[y]
      /\ target'[x] \in {target[x], "none"}
  BY <1>2, WorldTyped DEF MergeInv, WorldTypes, Discard, cloudVars
<1>4. WorldTypes'
  <2>1. WorldTypes
    BY WorldTyped DEF MergeInv
  <2>2. QED
    BY <1>2, <2>1 DEF WorldTypes, Discard, jobVars, cloudVars
<1>5. \A y \in Titles : Whole(y) => Whole(y)'
  BY <1>2, <1>3 DEF Whole
<1>6. FilesInv'
  <2> USE DEF MergeInv, FilesInv, StepOf, StepIn
  <2>1. OneOpen' /\ PartsKept' /\ CopyOver' /\ DoneMeansWhole' /\ NeverBad'
    BY <1>3 DEF OneOpen, Open, PartsKept, CopyOver, DoneMeansWhole, NeverBad
  <2>2. Archivable' /\ Replaceable' /\ StillThere'
    BY <1>3, <1>5, MergeAssumption DEF Archivable, Replaceable, StillThere
  <2>3. QED
    BY <2>1, <2>2
<1>7. InStep(r, "kill") /\ InStep(r, "end")
  BY <1>2 DEF InStep, Cancellable
<1>8. Facts(r, "kill")' /\ Facts(r, "end")'
  BY DEF Facts
<1>9. QED
  BY <1>1, <1>3, <1>4, <1>6, <1>7, <1>8, Works DEF Discard, Labels
----------------------------------------------------------------------------
(* The oldest of some tasks is one of them.                                *)
LEMMA MinIsIn ==
    ASSUME NEW S, S \subseteq Nat, S # {}
    PROVE  Min(S) \in S
<1>1. PICK m \in S : \A k \in S : ~ (<<k, m>> \in OpToRel(<, Nat))
  BY WFMin, NatLessThanWellFounded
<1>2. \A k \in S : ~ (k < m)
  BY <1>1, Zenon DEF OpToRel
<1>3. \A k \in S : m =< k
  BY <1>2, SMT
<1>4. QED
  BY <1>3 DEF Min

(* A replica comes to another task, or another step of its round.          *)
LEMMA TakingUp ==
    ASSUME MergeInv, OneReplica, NEW r \in Replicas, proc' \in [Replicas -> Procs],
           UNCHANGED <<row, world>>, Knows(r)'
    PROVE  MergeInv'
<1>1. Types'
  BY DEF MergeInv, Types, MergeTypeOK, Procs, world, jobVars, cloudVars, fileVars
<1>2. FilesInv'
  BY FilesUnmoved DEF MergeInv, world, cloudVars
<1>3. QED
  BY <1>1, <1>2 DEF MergeInv, OneReplica

(* A replica at rest.                                                      *)
LEMMA IdleProc == Idle \in Procs
<1>1. NoRow \in Rows
  BY MergeAssumption DEF NoRow, Rows, States, Working
<1>2. QED
  BY <1>1 DEF Idle, Procs, Labels

(* A replica gives its task up, at its end or in a crash.                  *)
LEMMA LayingDown ==
    ASSUME MergeInv, OneReplica, NEW r \in Replicas, proc' = [proc EXCEPT ![r] = Idle],
           UNCHANGED <<row, world>>
    PROVE  MergeInv'
<1>1. proc'[r] = Idle /\ proc' \in [Replicas -> Procs]
  BY IdleProc DEF MergeInv, Types
<1>2. Knows(r)'
  BY <1>1 DEF Knows, Acts, Taken, Idle
<1>3. QED
  BY <1>1, <1>2, TakingUp

(* A round begins with the rows as they are.                               *)
LEMMA TicksKeep ==
    ASSUME MergeInv, OneReplica, NEW r \in Replicas, Tick(r)
    PROVE  MergeInv'
<1> DEFINE p == [Idle EXCEPT !.pc = "next", !.seen = row,
                             !.todo = {t \in Tasks : row[t].state \in Working},
                             !.busy = \E t \in Tasks : row[t].state = "merging"]
<1>1. proc' = [proc EXCEPT ![r] = p] /\ UNCHANGED <<row, world>>
  BY DEF Tick
<1>2. row \in [Tasks -> Rows] /\ proc \in [Replicas -> Procs]
  BY DEF MergeInv, Types, MergeTypeOK, Rows
<1>3. /\ p \in Procs /\ p.pc = "next" /\ p.seen = row
      /\ p.todo = {t \in Tasks : row[t].state \in Working}
  BY <1>2, IdleProc DEF Procs, Labels
<1> HIDE DEF p
<1>4. proc'[r] = p /\ proc' \in [Replicas -> Procs]
  BY <1>1, <1>2, <1>3
<1>5. Knows(r)'
  BY <1>1, <1>3, <1>4 DEF Knows, Acts, Taken
<1>6. QED
  BY <1>1, <1>4, <1>5, TakingUp

(* The next task of the round, with the first look at it.                  *)
LEMMA StepsKeep ==
    ASSUME MergeInv, OneReplica, NEW r \in Replicas, Step(r)
    PROVE  MergeInv'
<1>1. CASE proc[r].todo = {}
  BY <1>1, LayingDown DEF Step
<1>2. CASE proc[r].todo # {}
  <2>1. proc[r] \in Procs /\ Knows(r) /\ proc \in [Replicas -> Procs] /\ proc[r].pc = "next"
    BY DEF MergeInv, Types, Step, At
  <2>2. PICK t \in proc[r].todo : t = Min(proc[r].todo)
    BY <1>2, <2>1, MinIsIn, MergeAssumption DEF Procs
  <2>3. /\ t \in Tasks /\ row[t].state \in Working
        /\ row[t].state = proc[r].seen[t].state /\ row[t].failed = proc[r].seen[t].failed
    BY <2>1, <2>2 DEF Knows, Procs
  <2>4. PICK s \in Working : s = proc[r].seen[t].state
    BY <2>3
  <2>5. PICK l \in Labels : l = FirstStep[s]
    BY DEF FirstStep, Working, Labels
  <2> DEFINE n == Min(proc[r].todo)
  <2>6. /\ UNCHANGED <<row, world>>
        /\ \/ proc' = [proc EXCEPT ![r].todo = @ \ {n}]
           \/ proc' = [proc EXCEPT ![r].todo = @ \ {n}, ![r].t = n,
                                     ![r].pc = FirstStep[proc[r].seen[n].state],
                                     ![r].busy = @ \/ proc[r].seen[n].state = "queued"]
    BY <1>2, Zenon DEF Step
  <2>7. CASE proc' = [proc EXCEPT ![r].todo = @ \ {n}]
    <3>1. /\ proc' \in [Replicas -> Procs] /\ proc'[r].pc = "next" /\ proc'[r].seen = proc[r].seen
          /\ proc'[r].todo = proc[r].todo \ {t}
      BY <2>1, <2>2, <2>7 DEF Procs
    <3>2. Knows(r)'
      BY <2>1, <2>6, <3>1 DEF Knows, Acts, Taken
    <3>3. QED
      BY <2>6, <2>7, <3>1, <3>2, TakingUp
  <2>8. CASE proc' = [proc EXCEPT ![r].todo = @ \ {n}, ![r].t = n,
                                     ![r].pc = FirstStep[proc[r].seen[n].state],
                                     ![r].busy = @ \/ proc[r].seen[n].state = "queued"]
    <3>1. /\ proc' \in [Replicas -> Procs] /\ proc'[r].pc = l /\ proc'[r].t = t
          /\ proc'[r].seen = proc[r].seen /\ proc'[r].todo = proc[r].todo \ {t}
      BY <2>1, <2>2, <2>3, <2>4, <2>5, <2>8 DEF Procs
    <3>2. InStep(r, l)' /\ Facts(r, l)'
      <4>1. proc'[r].t = t /\ row'[t].state = s
        BY <2>3, <2>4, <2>6, <3>1
      <4>2. /\ s = "queued" => l = "look"
            /\ s = "merging" => l = "report"
            /\ s = "uploading" => l = "copies"
            /\ s = "verifying" => l = "stat"
            /\ s = "replacing" => l = "delete"
            /\ s = "archiving" => l = "intake"
        BY <2>5 DEF FirstStep
      <4>3. QED
        BY <2>4, <4>1, <4>2 DEF InStep, Facts, Working
    <3>3. /\ UNCHANGED row /\ t \in Tasks \ proc'[r].todo
          /\ row[t].state = proc'[r].seen[t].state /\ row[t].failed = proc'[r].seen[t].failed
          /\ \A u \in proc'[r].todo : /\ row[u].state \in Working
                                     /\ row[u].state = proc'[r].seen[u].state
                                     /\ row[u].failed = proc'[r].seen[u].failed
      BY SMTT(20), <2>1, <2>3, <2>6, <3>1 DEF Knows
    <3>4. Knows(r)'
      BY <3>1, <3>2, <3>3 DEF Knows, Seen
    <3>5. QED
      BY <2>6, <3>1, <3>4, TakingUp
  <2>9. QED
    BY <2>6, <2>7, <2>8
<1>3. QED
  BY <1>1, <1>2

(* A request of the operator.                                              *)
LEMMA RequestsKeep ==
    ASSUME MergeInv, OneReplica, NEW r \in Replicas, NEW t \in Tasks, Cancel(r, t) \/ Retry(r, t)
    PROVE  MergeInv'
<1>1. row \in [Tasks -> Rows] /\ proc \in [Replicas -> Procs]
  BY DEF MergeInv, Types, MergeTypeOK, Rows
<1>2. ASSUME NEW l \in {"kill", "discard_look", "unname", "resume"}, Take(r, t, l),
             l = "kill" => row[t].state \in Cancellable /\ StepOf(t) # "replacing",
             l = "discard_look" => row[t].state = "failed" /\ StepOf(t) = "archiving",
             l \in {"unname", "resume"} => row[t].state = "failed"
      PROVE  MergeInv'
  <2> DEFINE p == [Idle EXCEPT !.pc = l, !.t = t, !.seen = row]
  <2>1. proc' = [proc EXCEPT ![r] = p] /\ UNCHANGED <<row, world>>
    BY <1>2 DEF Take
  <2>2. p \in Procs /\ p.pc = l /\ p.t = t /\ p.seen = row /\ p.todo = {}
    BY <1>1, <1>2, IdleProc DEF Procs, Labels, Idle
  <2> HIDE DEF p
  <2>3. proc'[r] = p /\ proc' \in [Replicas -> Procs]
    BY <1>1, <2>1, <2>2
  <2>4. InStep(r, l)' /\ Facts(r, l)'
    BY <1>2, <2>1, <2>2, <2>3 DEF InStep, Facts, StepOf, StepIn
  <2>5. Knows(r)'
    BY <1>1, <2>1, <2>2, <2>3, <2>4 DEF Knows, Acts, Taken, Seen
  <2>6. QED
    BY <2>1, <2>3, <2>5, TakingUp
<1>3. CASE Cancel(r, t)
  <2>1. /\ row[t].state \in Cancellable
        /\ ~(row[t].state = "failed" /\ row[t].failed = "replacing")
    BY <1>3 DEF Cancel
  <2>2. StepOf(t) # "replacing"
    BY <2>1 DEF StepOf, StepIn, Cancellable
  <2>3. CASE row[t].state = "failed" /\ row[t].failed = "archiving"
    BY <1>2, <1>3, <2>3 DEF Cancel, StepOf, StepIn
  <2>4. CASE ~(row[t].state = "failed" /\ row[t].failed = "archiving")
    BY <1>2, <1>3, <2>1, <2>2, <2>4 DEF Cancel
  <2>5. QED
    BY <2>3, <2>4
<1>4. CASE Retry(r, t)
  BY <1>2, <1>4 DEF Retry
<1>5. QED
  BY <1>3, <1>4
----------------------------------------------------------------------------
(* What the operator, the Job, CloudDrive, the archive and time do.        *)

(* A replica still knows what it knew, if its task is where it was.        *)
LEMMA Undisturbed ==
    ASSUME MergeInv, NEW r \in Replicas, UNCHANGED proc,
           \A t \in Tasks : row[t].state \in Working \cup {"failed"} =>
               row'[t].state = row[t].state /\ row'[t].failed = row[t].failed,
           Acts(r) => Facts(r, proc[r].pc)'
    PROVE  Knows(r)'
<1>1. Knows(r) /\ proc[r] \in Procs
  BY DEF MergeInv, Types
<1>2. ASSUME Acts(r)
      PROVE  /\ row'[proc[r].t].state = row[proc[r].t].state
             /\ row'[proc[r].t].failed = row[proc[r].t].failed
  BY <1>2, ActsOn DEF Acts
<1>3. InStep(r, proc[r].pc) /\ Acts(r) => InStep(r, proc[r].pc)'
  BY <1>2 DEF InStep, StepOf, StepIn
<1>4. \A u \in proc[r].todo : row'[u].state = row[u].state /\ row'[u].failed = row[u].failed
  BY <1>1 DEF Knows, Procs
<1>5. QED
  BY <1>1, <1>2, <1>3, <1>4 DEF Knows, Acts, Taken, Seen

(* A new task is the only open one of a title with all its parts.          *)
LEMMA CreatesKeep ==
    ASSUME MergeInv, NEW t \in Tasks, Create(t)
    PROVE  MergeInv'
<1>1. row \in [Tasks -> Rows]
  BY DEF MergeInv, Types, MergeTypeOK, Rows
<1>2. /\ row[t].state = "absent" /\ row' = [row EXCEPT ![t].state = "queued"]
      /\ \A u \in Tasks : TitleOf[u] = TitleOf[t] => ~Open(u)
      /\ parts[TitleOf[t]] = "all" /\ UNCHANGED <<world, proc>>
  BY DEF Create
<1>3. /\ row' \in [Tasks -> Rows] /\ row'[t].state = "queued"
      /\ \A u \in Tasks \ {t} : row'[u] = row[u]
  BY <1>1, <1>2 DEF Rows, States, Working
<1>4. Types'
  BY <1>2, <1>3 DEF MergeInv, Types, MergeTypeOK, Rows, world, jobVars, cloudVars, fileVars
<1>5. FilesInv'
  <2> USE <1>2, <1>3 DEF MergeInv, FilesInv, StepOf, StepIn, world, cloudVars, fileVars
  <2>1. OneOpen'
    BY DEF OneOpen, Open
  <2>2. PartsKept' /\ CopyOver' /\ Archivable' /\ NeverBad' /\ DoneMeansWhole'
    BY DEF PartsKept, CopyOver, Archivable, NeverBad, DoneMeansWhole, Whole
  <2>3. Replaceable' /\ StillThere'
    BY DEF Replaceable, StillThere, Whole
  <2>4. QED
    BY <2>1, <2>2, <2>3
<1>6. ASSUME NEW r \in Replicas PROVE Knows(r)'
  <2>1. \A u \in Tasks : row[u].state \in Working \cup {"failed"} => row'[u] = row[u]
    BY <1>2, <1>3 DEF Working
  <2>2. ASSUME Acts(r) PROVE Facts(r, proc[r].pc)'
    BY <1>2, <2>1, <2>2, ActsOn DEF Acts, Facts, Seen, Title, Whole, world, cloudVars, fileVars
  <2>3. QED
    BY <1>2, <2>1, <2>2, Undisturbed
<1>7. QED
  BY <1>4, <1>5, <1>6 DEF MergeInv

(* Time only ends waits.                                                   *)
LEMMA WaitsKeep ==
    ASSUME MergeInv, NEW t \in Tasks, WaitEnds(t)
    PROVE  MergeInv'
<1>1. row \in [Tasks -> Rows]
  BY DEF MergeInv, Types, MergeTypeOK, Rows
<1>2. /\ row' \in [Tasks -> Rows] /\ UNCHANGED <<world, proc>>
      /\ \A u \in Tasks : row'[u].state = row[u].state /\ row'[u].failed = row[u].failed
  BY <1>1 DEF WaitEnds, Rows
<1>3. Types'
  BY <1>2 DEF MergeInv, Types, MergeTypeOK, Rows, world, jobVars, cloudVars, fileVars
<1>4. FilesInv'
  BY <1>2 DEF MergeInv, FilesInv, OneOpen, Open, PartsKept, CopyOver, Replaceable, Archivable,
       DoneMeansWhole, NeverBad, StillThere, StepOf, StepIn, Whole, world, cloudVars, fileVars
<1>5. ASSUME NEW r \in Replicas PROVE Knows(r)'
  <2>1. ASSUME Acts(r) PROVE Facts(r, proc[r].pc)'
    BY <1>2, <2>1, ActsOn DEF Acts, Facts, Seen, Title, Whole, world, cloudVars, fileVars
  <2>2. QED
    BY <1>2, <2>1, Undisturbed
<1>6. QED
  BY <1>3, <1>4, <1>5 DEF MergeInv

(* The Job and the work volume.                                            *)
LEMMA WorkersKeep ==
    ASSUME MergeInv,
           \/ \E t \in Tasks : Worker(t)
           \/ \E x \in Titles : OutputLost(x)
    PROVE  MergeInv'
<1>1. UNCHANGED <<row, cloudVars, fileVars, proc>>
  BY DEF Worker, Written, Reported, JobFails, PodEnds, OutputLost
<1>2. WorldTypes'
  <2>1. WorldTypes
    BY WorldTyped DEF MergeInv
  <2>2. CASE \E t \in Tasks : Worker(t)
    BY <2>1, <2>2, MergeAssumption
       DEF WorldTypes, Worker, Written, Reported, JobFails, PodEnds, cloudVars, fileVars
  <2>3. CASE \E x \in Titles : OutputLost(x)
    BY <2>1, <2>3 DEF WorldTypes, OutputLost, jobVars, cloudVars, fileVars
  <2>4. QED
    BY <2>2, <2>3
<1>3. Types'
  BY <1>1, <1>2 DEF MergeInv, Types, MergeTypeOK, WorldTypes
<1>4. FilesInv'
  BY <1>1, FilesUnmoved DEF MergeInv, cloudVars
<1>5. ASSUME NEW r \in Replicas PROVE Knows(r)'
  BY <1>1
     DEF MergeInv, Knows, Acts, Taken, InStep, Facts, Seen, Title, Whole, StepOf, StepIn,
         cloudVars, fileVars
<1>6. QED
  BY <1>3, <1>4, <1>5 DEF MergeInv

(* CloudDrive only writes the staging folder of a task whose copy runs.    *)
LEMMA DriveKeeps ==
    ASSUME MergeInv, NEW t \in Tasks, CopyEnds(t) \/ CopyForgotten(t)
    PROVE  MergeInv'
<1>1. /\ UNCHANGED <<row, jobVars, output, fileVars, proc>>
      /\ \A u \in Tasks : /\ copy'[u] = "running" => copy[u] = "running"
                          /\ copy[u] = "none" => copy'[u] = "none"
                          /\ staged'[u] = staged[u] \/ copy[u] = "running"
      /\ WorldTypes'
  <2>1. WorldTypes
    BY WorldTyped DEF MergeInv
  <2>2. QED
    BY <2>1 DEF WorldTypes, CopyEnds, CopyForgotten, jobVars, fileVars
<1>2. Types'
  BY <1>1 DEF MergeInv, Types, MergeTypeOK, WorldTypes
<1>3. FilesInv'
  BY <1>1 DEF MergeInv, FilesInv, OneOpen, Open, PartsKept, CopyOver, Replaceable, Archivable,
       DoneMeansWhole, NeverBad, StillThere, StepOf, StepIn, Whole, fileVars
<1>4. ASSUME NEW r \in Replicas PROVE Knows(r)'
  <2>1. ASSUME Acts(r) PROVE Facts(r, proc[r].pc)'
    <3>1. /\ proc[r].t \in Tasks /\ InStep(r, proc[r].pc) /\ Facts(r, proc[r].pc)
      BY <2>1, ActsOn DEF Acts
    <3>2. row[proc[r].t].state = "verifying" => copy[proc[r].t] # "running"
      BY <3>1 DEF MergeInv, FilesInv, CopyOver
    <3>3. QED
      BY <1>1, <3>1, <3>2 DEF InStep, Facts, Seen, Title, Whole, fileVars
  <2>2. QED
    BY <1>1, <2>1, Undisturbed
<1>5. QED
  BY <1>2, <1>4, <1>3 DEF MergeInv

(* The archive and other downloads only bring whole copies to the library. *)
LEMMA LibraryKeeps ==
    ASSUME MergeInv, NEW x \in Titles, ArchiveFiles(x) \/ OtherCopyFiled(x)
    PROVE  MergeInv'
<1>1. /\ UNCHANGED <<row, jobVars, output, cloudVars, parts, proc>>
      /\ \A y \in Titles : /\ Whole(y) => Whole(y)'
                           /\ library[y] = "good" => library'[y] = "good"
                           /\ target'[y] # "bad" /\ library'[y] # "bad"
      /\ WorldTypes'
  <2>1. /\ WorldTypes
        /\ \A y \in Titles : target[y] \in {"none", "good"} /\ library[y] \in {"none", "good"}
    BY WorldTyped DEF MergeInv, FilesInv, NeverBad, WorldTypes
  <2>2. QED
    BY <2>1 DEF WorldTypes, ArchiveFiles, OtherCopyFiled, Whole, jobVars, cloudVars
<1>2. Types'
  BY <1>1 DEF MergeInv, Types, MergeTypeOK, WorldTypes
<1>3. FilesInv'
  <2> USE <1>1, MergeAssumption DEF MergeInv, FilesInv, StepOf, StepIn, cloudVars
  <2>1. OneOpen' /\ PartsKept' /\ CopyOver' /\ DoneMeansWhole' /\ NeverBad'
    BY DEF OneOpen, Open, PartsKept, CopyOver, DoneMeansWhole, NeverBad
  <2>2. Replaceable' /\ Archivable' /\ StillThere'
    BY DEF Replaceable, Archivable, StillThere
  <2>3. QED
    BY <2>1, <2>2
<1>4. ASSUME NEW r \in Replicas PROVE Knows(r)'
  <2>1. ASSUME Acts(r) PROVE Facts(r, proc[r].pc)'
    <3>1. Title(r) \in Titles /\ Facts(r, proc[r].pc)
      BY <2>1, ActsOn DEF Acts
    <3>2. QED
      BY <1>1, <3>1 DEF Facts, Seen, Title, cloudVars
  <2>2. QED
    BY <1>1, <2>1, Undisturbed
<1>5. QED
  BY <1>2, <1>3, <1>4 DEF MergeInv
----------------------------------------------------------------------------
(* Every step keeps the invariant.                                         *)
LEMMA NextKeeps == MergeInv /\ OneReplica /\ [Next]_vars => MergeInv'
<1> SUFFICES ASSUME MergeInv, OneReplica, [Next]_vars PROVE MergeInv'
  OBVIOUS
<1>1. CASE \E t \in Tasks : Create(t)
  BY <1>1, CreatesKeep
<1>2. ASSUME NEW r \in Replicas, Tick(r) \/ Crash(r) \/ End(r)
      PROVE  MergeInv'
  BY <1>2, TicksKeep, LayingDown DEF Crash, End
<1>3. ASSUME NEW r \in Replicas, Poll(r) PROVE MergeInv'
  BY <1>3, StepsKeep, LooksKeep, WritesKeep, JobsKeep, CopiesKeep, DeletingKeeps, MovingKeeps,
     SweepingKeeps
     DEF Poll
<1>4. ASSUME NEW r \in Replicas, Serve(r) PROVE MergeInv'
  BY <1>2, <1>4, LooksKeep, WritesKeep, JobsKeep, SweepingKeeps, DiscardingKeeps DEF Serve
<1>5. CASE \E r \in Replicas, t \in Tasks : Cancel(r, t) \/ Retry(r, t)
  BY <1>5, RequestsKeep
<1>6. CASE \E t \in Tasks : Worker(t) \/ CopyEnds(t) \/ CopyForgotten(t) \/ WaitEnds(t)
  BY <1>6, WorkersKeep, DriveKeeps, WaitsKeep
<1>7. CASE \E x \in Titles : OutputLost(x) \/ ArchiveFiles(x) \/ OtherCopyFiled(x)
  BY <1>7, WorkersKeep, LibraryKeeps
<1>8. CASE UNCHANGED vars
  <2>1. UNCHANGED <<row, job, status, output, copy, staged, parts, target, library, proc>>
    BY <1>8 DEF vars, world, jobVars, cloudVars, fileVars
  <2>2. Types'
    BY <2>1 DEF MergeInv, Types, MergeTypeOK
  <2>3. FilesInv'
    BY <2>1, FilesUnmoved DEF MergeInv, fileVars
  <2>4. ASSUME NEW r \in Replicas PROVE Knows(r)'
    BY <2>1 DEF MergeInv, Knows, Acts, Taken, InStep, Facts, Seen, Title, Whole, StepOf, StepIn
  <2>5. QED
    BY <2>2, <2>3, <2>4 DEF MergeInv
<1>9. QED
  BY <1>1, <1>2, <1>3, <1>4, <1>5, <1>6, <1>7, <1>8 DEF Next

(* With one replica, what the rows and the replica know of the files is    *)
(* so.                                                                     *)
THEOREM MergeInvHolds == Spec /\ OneReplica => []MergeInv
<1> SUFFICES ASSUME OneReplica PROVE Spec => []MergeInv
  OBVIOUS
<1>1. Init => MergeInv
  <2> SUFFICES ASSUME Init PROVE MergeInv
    OBVIOUS
  <2>1. NoRow \in Rows /\ NoRow.state = "absent"
    BY MergeAssumption DEF NoRow, Rows, States, Working
  <2>2. /\ row \in [Tasks -> Rows] /\ \A t \in Tasks : row[t].state = "absent"
        /\ \A x \in Titles : parts[x] = "all" /\ target[x] = "none" /\ library[x] = "none"
        /\ \A r \in Replicas : proc[r] = Idle
    BY <2>1 DEF Init
  <2>3. Types
    BY <2>2, IdleProc DEF Init, Types, MergeTypeOK, Rows, Procs
  <2>4. FilesInv
    BY <2>2
       DEF FilesInv, OneOpen, Open, PartsKept, CopyOver, Replaceable, Archivable, DoneMeansWhole,
         NeverBad, StillThere, StepOf, StepIn, Uploads, Working
  <2>5. \A r \in Replicas : Knows(r)
    BY <2>2 DEF Knows, Acts, Taken, Idle
  <2>6. QED
    BY <2>3, <2>4, <2>5 DEF MergeInv
<1>2. MergeInv /\ [Next]_vars => MergeInv'
  BY NextKeeps
<1>3. QED
  BY <1>1, <1>2, PTL DEF Spec

(* Whatever fails, is cancelled, retried or crashes, wherever the replica  *)
(* is in its poll or in a request, a title keeps a copy (_replace,         *)
(* _verify, _discard_duplicate).                                           *)
THEOREM MergeLosesNothing == Spec /\ OneReplica => []NothingLost
<1>1. MergeInv => NothingLost
  BY DEF MergeInv, FilesInv, StillThere, Whole, NothingLost
<1>2. QED
  BY <1>1, MergeInvHolds, PTL

(* Rows are well formed, uploads are tried no more than                    *)
(* MAX_UPLOAD_ATTEMPTS times, and a task that is done left one whole copy  *)
(* and no parts.                                                           *)
THEOREM MergeStaysAccounted == Spec /\ OneReplica => []MergeAccounted
<1>1. MergeInv => MergeAccounted
  BY DEF MergeInv, Types, FilesInv, MergeAccounted
<1>2. QED
  BY <1>1, MergeInvHolds, PTL
----------------------------------------------------------------------------
(* One Job at a time.                                                      *)

Active(t) == job[t] \in {"running", "written"}

NoneMerging == \A t \in Tasks : row[t].state # "merging"

(* A Job that writes is that of the task that is merging, which knows it    *)
(* by name, or of the one about to be so; and it has not reported.          *)
ActiveIsMerging ==
    \A t \in Tasks : Active(t) =>
        /\ status[t] = "none"
        /\ \/ row[t].state = "merging" /\ row[t].named
           \/ \E r \in Replicas : At(r, "started") /\ proc[r].t = t

OneMerging ==
    \A t, u \in Tasks : row[t].state = "merging" /\ row[u].state = "merging" => t = u

Requesting == {"discard_look", "discard", "kill", "drop", "cancelled", "unname", "resume", "end"}

Polling(r) == proc[r].pc \notin Requesting \union {"idle"}

(* The replica has the one place of a Job for its task.                     *)
Claims(r) ==
    \/ proc[r].pc \in {"start", "started"}
    \/ At(r, "look") /\ Seen(r).state = "queued"

MindsSlot(r) ==
    /\ Polling(r) /\ ~proc[r].busy => NoneMerging
    /\ Claims(r) => proc[r].busy /\ NoneMerging
    /\ proc[r].pc \in {"fail", "merged", "drop", "cancelled"} => ~Active(proc[r].t)
    /\ Acts(r) => row[proc[r].t].named = Seen(r).named
    /\ \A u \in proc[r].todo : row[u].named = proc[r].seen[u].named

SlotInv == ActiveIsMerging /\ OneMerging /\ \A r \in Replicas : MindsSlot(r)

(* The faults under which a Job may be there that no row tells of: its      *)
(* creation was not answered, or the replica ended before it wrote the row. *)
JobsKnown == "kube" \notin Faults /\ "crash" \notin Faults

(* Moving on leaves the count of the round alone.                          *)
LEMMA GoingBusy ==
    ASSUME Types, NEW r \in Replicas, NEW l \in Labels, Goto(r, l)
    PROVE  proc'[r].busy = proc[r].busy
<1>1. proc[r] \in Procs /\ proc \in [Replicas -> Procs]
  BY DEF Types
<1>2. QED
  BY <1>1 DEF Goto, Procs

(* Whatever is neither merging nor about to be has no Job that writes.     *)
LEMMA NotActive ==
    ASSUME SlotInv, NEW t \in Tasks, row[t].state # "merging",
           \A r \in Replicas : ~At(r, "started")
    PROVE  ~Active(t)
BY DEF SlotInv, ActiveIsMerging

(* A replica goes on, and starts no Job.                                   *)
LEMMA SlotAhead ==
    ASSUME MergeInv, OneReplica, SlotInv, NEW r \in Replicas, NEW l \in Labels \ {"idle"},
           Goto(r, l), Taken(r), proc[r].pc # "started",
           \A t \in Tasks : Active(t)' =>
              /\ Active(t) /\ status'[t] = "none"
              /\ row'[t].state = row[t].state /\ row'[t].named = row[t].named,
           \A t \in Tasks : row'[t].state = "merging" => row[t].state = "merging",
           \A u \in Tasks \ {proc[r].t} : row'[u].named = row[u].named,
           l \notin {"next", "end", "tidy_job"} =>
               Acts(r) /\ row'[proc[r].t].named = row[proc[r].t].named,
           l \notin Requesting => Polling(r),
           l \in {"start", "started"} => Claims(r),
           l = "look" /\ Seen(r).state = "queued" => Claims(r),
           l \in {"fail", "merged", "drop", "cancelled"} => job'[proc[r].t] \notin {"running", "written"}
    PROVE  SlotInv'
<1>1. /\ Types /\ MindsSlot(r) /\ proc[r].t \in Tasks /\ proc[r].t \notin proc[r].todo
      /\ proc[r].todo \subseteq Tasks
  BY DEF MergeInv, SlotInv, Types, Procs, Knows
<1>2. /\ proc'[r].pc = l /\ proc'[r].todo = proc[r].todo /\ proc'[r].busy = proc[r].busy
      /\ l # "next" => proc'[r].t = proc[r].t /\ proc'[r].seen = proc[r].seen
      /\ \A u \in proc[r].todo : proc'[r].seen[u] = proc[r].seen[u]
  BY <1>1, Going, GoingBusy
<1>3. ActiveIsMerging'
  BY DEF SlotInv, ActiveIsMerging, At, OneReplica
<1>4. OneMerging'
  BY DEF SlotInv, OneMerging
<1>5. NoneMerging => NoneMerging'
  BY DEF NoneMerging
<1>6. MindsSlot(r)'
  <2>1. (Polling(r) /\ ~proc[r].busy => NoneMerging)'
    BY <1>1, <1>2, <1>5 DEF MindsSlot, Polling
  <2>2. (Claims(r) => proc[r].busy /\ NoneMerging)'
    BY <1>1, <1>2, <1>5 DEF MindsSlot, Claims, At, Seen
  <2>3. (proc[r].pc \in {"fail", "merged", "drop", "cancelled"} => ~Active(proc[r].t))'
    BY <1>2 DEF Active
  <2>4. (Acts(r) => row[proc[r].t].named = Seen(r).named)'
    BY <1>1, <1>2 DEF MindsSlot, Acts, Taken, Seen
  <2>5. (\A u \in proc[r].todo : row[u].named = proc[r].seen[u].named)'
    BY <1>1, <1>2 DEF MindsSlot
  <2>6. QED
    BY <2>1, <2>2, <2>3, <2>4, <2>5 DEF MindsSlot
<1>7. QED
  BY <1>3, <1>4, <1>6 DEF SlotInv, OneReplica

(* The steps that only look: a task that fails over its Job, or whose Job   *)
(* has reported, has none that writes any more.                            *)
LEMMA SlotLooks ==
    ASSUME MergeInv, OneReplica, SlotInv, NEW r \in Replicas,
           \/ Look(r) \/ Report(r) \/ Job(r) \/ Copies(r) \/ Kept(r) \/ Stat(r)
           \/ Arrived(r) \/ Intake(r) \/ DiscardLook(r)
    PROVE  SlotInv'
<1> DEFINE t == proc[r].t
<1>1. Acts(r) /\ Taken(r) /\ proc[r].pc # "started"
  BY DEF Acts, Taken, At, Look, Report, Job, Copies, Kept, Stat, Arrived, Intake, DiscardLook
<1>2. /\ t \in Tasks /\ InStep(r, proc[r].pc) /\ row[t].state = Seen(r).state
      /\ row[t].named = Seen(r).named
  BY <1>1, ActsOn DEF MergeInv, Knows, SlotInv, MindsSlot
<1>3. \A s \in Replicas : ~At(s, "started")
  BY <1>1 DEF OneReplica, At
<1>4. \A u \in Tasks : Active(u) => status[u] = "none" /\ row[u].state = "merging" /\ row[u].named
  BY <1>3 DEF SlotInv, ActiveIsMerging
<1>5. ASSUME NEW l \in Labels \ {"idle"}, Decide(r, l), l \notin Requesting => Polling(r),
             l \in {"start", "started"} => Claims(r),
             l = "look" /\ Seen(r).state = "queued" => Claims(r),
             l \in {"fail", "merged", "drop", "cancelled"} => ~Active(t)
      PROVE  SlotInv'
  <2>1. Goto(r, l) /\ UNCHANGED <<row, job, status>>
    BY <1>5 DEF Decide, world, jobVars
  <2>2. \A u : Active(u)' <=> Active(u)
    BY <2>1 DEF Active
  <2>3. l \in {"fail", "merged", "drop", "cancelled"} => job'[proc[r].t] \notin {"running", "written"}
    BY <1>5, <2>1 DEF Active
  <2>4. QED
    BY <1>1, <1>4, <1>5, <2>1, <2>2, <2>3, SlotAhead
<1>6. CASE Report(r)
  <2>1. At(r, "report") /\ Polling(r)
    BY <1>6 DEF Report, At, Polling, Requesting
  <2>2. status[t] # "none" => ~Active(t)
    BY <1>2, <1>4
  <2>3. CASE status[t] # "none"
    BY <1>5, <1>6, <2>1, <2>2, <2>3 DEF Report, Labels
  <2>4. CASE status[t] = "none"
    BY <1>5, <1>6, <2>1, <2>4 DEF Report, Labels
  <2>5. QED
    BY <2>3, <2>4
<1>7. CASE Job(r)
  <2>1. At(r, "job") /\ Polling(r)
    BY <1>7 DEF Job, At, Polling, Requesting
  <2> DEFINE over == \/ ~Seen(r).named
                     \/ job[t] \in {"none", "ending", "failed"}
                     \/ job[t] = "succeeded" /\ status[t] = "none"
  <2>2. over => ~Active(t)
    BY <1>2, <1>4 DEF Active
  <2>3. CASE over
    BY <1>5, <1>7, <2>1, <2>2, <2>3 DEF Job, Labels
  <2>4. CASE ~over
    BY <1>5, <1>7, <2>1, <2>4 DEF Job, Labels
  <2>5. QED
    BY <2>3, <2>4
<1>8. CASE \/ Look(r) \/ Copies(r) \/ Kept(r) \/ Stat(r) \/ Arrived(r) \/ Intake(r)
           \/ DiscardLook(r)
  <2>1. row[t].state # "merging"
    BY <1>2, <1>8
       DEF Look, Copies, Kept, Stat, Arrived, Intake, DiscardLook, At, InStep, StepOf, StepIn
  <2>2. ~Active(t)
    BY <1>2, <1>4, <2>1
  <2>3. CASE Look(r)
    BY <1>2, <1>5, <1>8, <2>2, <2>3 DEF Look, Claims, At, Polling, Requesting, Labels
  <2>4. CASE DiscardLook(r)
    BY <1>5, <2>2, <2>4 DEF DiscardLook, Requesting, Labels
  <2>5. CASE Stat(r)
    <3>1. row[t].state = "verifying" /\ Polling(r)
      BY <1>2, <2>5 DEF Stat, At, InStep, Polling, Requesting
    <3>2. Seen(r).state # "queued"
      BY <1>2, <3>1
    <3>3. QED
      BY <1>5, <2>2, <2>5, <3>1, <3>2 DEF Stat, Labels
  <2>6. CASE Copies(r) \/ Kept(r) \/ Arrived(r) \/ Intake(r)
    <3>1. Polling(r)
      BY <2>6 DEF Copies, Kept, Arrived, Intake, At, Polling, Requesting
    <3>2. PICK l \in Labels \ {"idle", "start", "started", "look", "drop", "cancelled"} : Decide(r, l)
      BY <2>6 DEF Copies, Kept, Arrived, Intake, Labels
    <3>3. QED
      BY <1>5, <2>2, <3>1, <3>2
  <2>7. QED
    BY <1>8, <2>3, <2>4, <2>5, <2>6
<1>9. QED
  BY <1>6, <1>7, <1>8

(* The steps that write the row take it out of merging, but for the one     *)
(* that puts it there.                                                     *)
LEMMA SlotWrites ==
    ASSUME MergeInv, OneReplica, SlotInv, NEW r \in Replicas,
           \/ Fail(r) \/ Merged(r) \/ Count(r) \/ Uploaded(r) \/ Requeue(r)
           \/ Promote(r) \/ Replaced(r) \/ Filed(r) \/ Cancelled(r) \/ Resumed(r)
    PROVE  SlotInv'
<1> DEFINE t == proc[r].t
<1>1. Acts(r) /\ Taken(r) /\ proc[r].pc # "started"
  BY DEF Acts, Taken, At, Fail, Merged, Count, Uploaded, Requeue, Promote, Replaced, Filed,
         Cancelled, Resumed
<1>2. /\ t \in Tasks /\ InStep(r, proc[r].pc) /\ row[t].state = Seen(r).state
      /\ row \in [Tasks -> Rows]
      /\ proc[r].pc \in {"fail", "merged", "drop", "cancelled"} => ~Active(t)
  BY <1>1, ActsOn DEF MergeInv, Knows, SlotInv, MindsSlot, Types, MergeTypeOK, Rows
<1>0. At(r, "resume") => Seen(r).failed \in Working
  <2>1. Seen(r).failed = row[t].failed /\ (row[t].state = "failed" => row[t].failed # "none")
    BY <1>1, <1>2 DEF MergeInv, Knows, Types, MergeTypeOK
  <2>2. QED
    BY <1>2, <2>1 DEF At, InStep, Rows
<1>3. \A u \in Tasks : Active(u) => status[u] = "none" /\ row[u].state = "merging" /\ row[u].named
  BY <1>1 DEF OneReplica, At, SlotInv, ActiveIsMerging
<1>4. ~Active(t)
  BY <1>2, <1>3 DEF Fail, Merged, Count, Uploaded, Requeue, Promote, Replaced, Filed, Cancelled,
       Resumed, MoveTo, At, InStep, StepOf, StepIn
<1> DEFINE Leaves == /\ UNCHANGED world
                     /\ \A u \in Tasks \ {t} : row'[u] = row[u]
                     /\ row'[t].state # "merging"
                     /\ \E l \in {"next", "end", "tidy_job"} : Goto(r, l) /\ (l # "end" => Polling(r))
<1>5. Leaves
  <2>1. CASE Fail(r)
    BY <1>2, <2>1 DEF Fail, MoveTo, Write, Rows, At, InStep, StepOf, StepIn, Polling, Requesting
  <2>2. CASE Merged(r)
    BY <1>2, <2>2 DEF Merged, MoveTo, Write, Rows, At, InStep, StepOf, StepIn, Polling, Requesting
  <2>3. CASE Count(r)
    BY <1>2, <2>3 DEF Count, MoveTo, Write, Rows, At, InStep, StepOf, StepIn, Polling, Requesting
  <2>4. CASE Uploaded(r)
    BY <1>2, <2>4 DEF Uploaded, MoveTo, Write, Rows, At, InStep, StepOf, StepIn, Polling, Requesting
  <2>5. CASE Requeue(r)
    BY <1>2, <2>5 DEF Requeue, MoveTo, Write, Rows, At, InStep, StepOf, StepIn, Polling, Requesting
  <2>6. CASE Promote(r)
    BY <1>2, <2>6 DEF Promote, MoveTo, Write, Rows, At, InStep, StepOf, StepIn, Polling, Requesting
  <2>7. CASE Replaced(r)
    BY <1>2, <2>7 DEF Replaced, MoveTo, Write, Rows, At, InStep, StepOf, StepIn, Polling, Requesting
  <2>8. CASE Filed(r)
    BY <1>2, <2>8 DEF Filed, MoveTo, Write, Rows, At, InStep, StepOf, StepIn, Polling, Requesting
  <2>9. CASE Cancelled(r)
    BY <1>2, <2>9 DEF Cancelled, MoveTo, Write, Rows, At, InStep, StepOf, StepIn, Polling, Requesting
  <2>10. CASE Resumed(r)
    BY <1>2, <1>0, <2>10 DEF Resumed, MoveTo, Write, Rows, At, InStep, StepOf, StepIn, Polling, Requesting, Resume,
       Working
  <2>11. QED
    BY <2>1, <2>2, <2>3, <2>4, <2>5, <2>6, <2>7, <2>8, <2>9, <2>10
<1>6. PICK l \in {"next", "end", "tidy_job"} : Goto(r, l) /\ (l # "end" => Polling(r))
  BY <1>5
<1>7. \A u \in Tasks : Active(u)' => /\ Active(u) /\ status'[u] = "none"
                                    /\ row'[u] = row[u]
  BY <1>3, <1>4, <1>5 DEF Active, world, jobVars
<1>8. \A u \in Tasks : row'[u].state = "merging" => row[u].state = "merging"
  BY <1>5
<1>9. l \in Labels \ {"idle"} /\ (l \notin Requesting => Polling(r))
  BY <1>6 DEF Labels, Requesting
<1>10. QED
  BY <1>1, <1>5, <1>6, <1>7, <1>8, <1>9, SlotAhead

(* A Job is started when no task is merging, and the row then says so.     *)
LEMMA SlotStarts ==
    ASSUME MergeInv, OneReplica, SlotInv, JobsKnown, NEW r \in Replicas,
           Start(r) \/ Started(r)
    PROVE  SlotInv'
<1> DEFINE t == proc[r].t
<1>1. /\ Acts(r) /\ Taken(r) /\ Claims(r)
      /\ t \in Tasks /\ row[t].state = "queued" /\ row[t].named = Seen(r).named
  <2>1. Acts(r) /\ Taken(r) /\ Claims(r)
    BY DEF Acts, Taken, Claims, At, Start, Started
  <2>2. /\ t \in Tasks /\ InStep(r, proc[r].pc) /\ row[t].named = Seen(r).named
    BY <2>1, ActsOn DEF SlotInv, MindsSlot
  <2>3. QED
    BY <2>1, <2>2 DEF Start, Started, At, InStep
<1>2. proc[r].busy /\ NoneMerging /\ MindsSlot(r)
  BY <1>1 DEF SlotInv, MindsSlot
<1>3. \A u \in Tasks : Active(u) => At(r, "started") /\ u = t /\ status[u] = "none"
  BY <1>2 DEF SlotInv, ActiveIsMerging, NoneMerging, OneReplica
<1>4. Types /\ t \notin proc[r].todo /\ proc[r].todo \subseteq Tasks
  BY <1>1 DEF MergeInv, Knows, Types, Procs, Taken, Acts
<1>5. CASE Start(r)
  <2>1. /\ At(r, "start")
        /\ status' = [status EXCEPT ![t] = "none"]
        /\ job' = [job EXCEPT ![t] = IF @ \in {"none", "ending"} THEN "running" ELSE @]
        /\ Goto(r, "started") /\ UNCHANGED row
    BY <1>5 DEF Start, JobsKnown
  <2>2. /\ proc'[r].pc = "started" /\ proc'[r].todo = proc[r].todo
        /\ proc'[r].busy = proc[r].busy /\ proc'[r].t = t /\ proc'[r].seen = proc[r].seen
    BY <1>4, <2>1, Going, GoingBusy DEF Labels
  <2>3. status'[t] = "none" /\ \A u \in Tasks \ {t} : ~Active(u)'
    BY <1>1, <1>3, <1>4, <2>1 DEF Active, Types, MergeTypeOK, At
  <2>4. ActiveIsMerging'
    BY <2>2, <2>3 DEF ActiveIsMerging, At
  <2>5. OneMerging' /\ NoneMerging'
    BY <1>2, <2>1 DEF SlotInv, OneMerging, NoneMerging
  <2>6. MindsSlot(r)'
    BY <1>1, <1>2, <2>1, <2>2, <2>5 DEF MindsSlot, Polling, Claims, Acts, Taken, Seen, At
  <2>7. QED
    BY <2>4, <2>5, <2>6 DEF SlotInv, OneReplica
<1>6. CASE Started(r)
  <2>1. /\ row' = [row EXCEPT ![t] = [[row[t] EXCEPT !.state = "merging", !.named = TRUE] EXCEPT !.waited = FALSE]]
        /\ Goto(r, "next") /\ UNCHANGED <<job, status>>
    BY <1>1, <1>6 DEF Started, Write, world, jobVars
  <2>2. /\ proc'[r].pc = "next" /\ proc'[r].todo = proc[r].todo /\ proc'[r].busy = proc[r].busy
        /\ \A u \in proc[r].todo : proc'[r].seen[u] = proc[r].seen[u]
    BY <1>4, <2>1, Going, GoingBusy DEF Labels
  <2>3. row \in [Tasks -> Rows]
    BY <1>4 DEF Types, MergeTypeOK, Rows
  <2>4. /\ row'[t].state = "merging" /\ row'[t].named
        /\ \A u \in Tasks \ {t} : row'[u] = row[u]
    BY <1>1, <2>1, <2>3 DEF Rows
  <2>5. ActiveIsMerging'
    BY <1>3, <2>1, <2>4 DEF ActiveIsMerging, Active
  <2>6. OneMerging'
    BY <1>2, <2>4 DEF OneMerging, NoneMerging
  <2>7. MindsSlot(r)'
    BY <1>2, <1>4, <2>2, <2>4 DEF MindsSlot, Polling, Claims, Acts, Taken, Seen, At
  <2>8. QED
    BY <2>5, <2>6, <2>7 DEF SlotInv, OneReplica
<1>7. QED
  BY <1>5, <1>6

(* The steps that change the world: a Job deleted by name writes no more.  *)
LEMMA SlotWorks ==
    ASSUME MergeInv, OneReplica, SlotInv, JobsKnown, NEW r \in Replicas,
           \/ TidyJob(r) \/ Kill(r) \/ Unname(r) \/ Issue(r) \/ Restart(r) \/ DeleteParts(r)
           \/ Move(r) \/ Tidy(r) \/ Discard(r) \/ Drop(r)
    PROVE  SlotInv'
<1> DEFINE t == proc[r].t
<1>1. Taken(r) /\ proc[r].pc # "started" /\ (At(r, "tidy_job") \/ Acts(r))
  BY DEF Acts, Taken, At, TidyJob, Kill, Unname, Issue, Restart, DeleteParts, Move, Tidy, Discard,
         Drop
<1>2. /\ t \in Tasks /\ Types /\ (Acts(r) => row[t].named = Seen(r).named)
      /\ (proc[r].pc = "drop" => ~Active(t))
  BY <1>1, ActsOn DEF MergeInv, SlotInv, MindsSlot
<1>3. \A u \in Tasks : Active(u) => status[u] = "none" /\ row[u].state = "merging" /\ row[u].named
  BY <1>1 DEF OneReplica, At, SlotInv, ActiveIsMerging
<1>4. ASSUME NEW u \in Tasks, JobDeleted(u)
      PROVE  job'[u] \notin {"running", "written"} /\ \A v \in Tasks : Active(v)' => Active(v)
  BY <1>2, <1>4 DEF JobDeleted, JobsKnown, Active, Types, MergeTypeOK
<1>5. ASSUME NEW l \in Labels \ {"idle", "start", "started", "look", "merged"}, Goto(r, l), UNCHANGED row,
             \A u \in Tasks : Active(u)' => Active(u),
             status' = status \/ status' = [status EXCEPT ![t] = "none"],
             l \notin {"next", "end", "tidy_job"} => Acts(r), l \notin Requesting => Polling(r),
             l \in {"fail", "drop", "cancelled"} => job'[t] \notin {"running", "written"}
      PROVE  SlotInv'
  <2>1. \A u \in Tasks : Active(u)' => /\ Active(u) /\ status'[u] = "none"
                                     /\ row'[u].state = row[u].state /\ row'[u].named = row[u].named
    BY <1>2, <1>3, <1>5 DEF Types, MergeTypeOK
  <2>2. l \in {"fail", "merged", "drop", "cancelled"} => job'[proc[r].t] \notin {"running", "written"}
    BY <1>5
  <2>3. QED
    BY <1>1, <1>5, <2>1, <2>2, SlotAhead
<1>6. CASE TidyJob(r)
  BY <1>2, <1>4, <1>5, <1>6 DEF TidyJob, Labels, Polling, Requesting, At
<1>7. CASE Kill(r)
  <2>1. Acts(r) /\ ~(Seen(r).named) => ~Active(t)
    BY <1>2, <1>3
  <2>2. Acts(r)
    BY <1>1, <1>7 DEF Kill, At
  <2>3. job'[t] \notin {"running", "written"} /\ \A u \in Tasks : Active(u)' => Active(u)
    BY <1>2, <1>4, <1>7, <2>1, <2>2 DEF Kill, Active
  <2>4. QED
    BY <1>5, <1>7, <2>2, <2>3 DEF Kill, Labels, Requesting
<1>8. CASE Unname(r)
  <2>1. Acts(r)
    BY <1>1, <1>8 DEF Unname, At
  <2>2. QED
    BY <1>2, <1>4, <1>5, <1>8, <2>1 DEF Unname, Labels, Requesting
<1>9. CASE Drop(r)
  <2>1. Acts(r)
    BY <1>1, <1>9 DEF Drop, At
  <2>2. job'[t] \notin {"running", "written"} /\ \A u \in Tasks : Active(u)' => Active(u)
    BY <1>2, <1>9 DEF Drop, Active, At
  <2>3. QED
    BY <1>5, <1>9, <2>1, <2>2 DEF Drop, Labels, Requesting
<1>10. CASE Issue(r) \/ Restart(r) \/ DeleteParts(r) \/ Move(r) \/ Tidy(r) \/ Discard(r)
  <2>1. Acts(r) /\ UNCHANGED <<row, job>>
    BY <1>1, <1>10 DEF Issue, Restart, DeleteParts, Move, Tidy, Discard, At, jobVars
  <2>2. \A u \in Tasks : Active(u)' <=> Active(u)
    BY <2>1 DEF Active
  <2>3. CASE Issue(r)
    <3>1. row[t].state = "uploading" /\ Polling(r)
      BY <1>1, <2>1, <2>3, ActsOn DEF Issue, At, InStep, Polling, Requesting
    <3>2. job'[t] \notin {"running", "written"}
      BY <1>2, <1>3, <2>1, <3>1 DEF Active
    <3>3. PICK l \in {"fail", "count"} : Goto(r, l)
      BY <2>3 DEF Issue
    <3>4. UNCHANGED status
      BY <2>3 DEF Issue, jobVars
    <3>5. QED
      BY <1>5, <2>1, <2>2, <3>1, <3>2, <3>3, <3>4 DEF Labels
  <2>4. CASE Restart(r)
    BY <1>5, <2>1, <2>2, <2>4 DEF Restart, Labels, jobVars, Polling, Requesting, At
  <2>5. CASE DeleteParts(r) \/ Move(r) \/ Tidy(r) \/ Discard(r)
    <3>1. /\ status' = status \/ status' = [status EXCEPT ![t] = "none"]
          /\ \E l \in {"move", "next", "arrived", "replaced", "kill", "end"} :
                 Goto(r, l) /\ (l \notin Requesting => Polling(r))
      BY <2>5 DEF DeleteParts, Move, Tidy, Discard, jobVars, Polling, Requesting, At
    <3>2. QED
      BY <1>5, <2>1, <2>2, <3>1 DEF Labels
  <2>6. QED
    BY <1>10, <2>3, <2>4, <2>5
<1>11. QED
  BY <1>6, <1>7, <1>8, <1>9, <1>10

(* A replica takes up a task, begins a round or a request, or ends it.     *)
LEMMA SlotTakes ==
    ASSUME MergeInv, OneReplica, SlotInv, NEW r \in Replicas, UNCHANGED <<row, world>>,
           ~At(r, "started"), NEW p \in Procs, proc' = [proc EXCEPT ![r] = p], p.pc # "started",
           p.pc \notin Requesting \union {"idle"} /\ ~p.busy => NoneMerging,
           p.pc \notin {"start", "fail", "merged", "drop", "cancelled"},
           p.pc = "look" /\ p.seen[p.t].state = "queued" => p.busy /\ NoneMerging,
           p.pc \notin {"idle", "next", "end"} => row[p.t].named = p.seen[p.t].named,
           \A u \in p.todo : row[u].named = p.seen[u].named
    PROVE  SlotInv'
<1>1. proc'[r] = p /\ UNCHANGED <<row, job, status>>
  BY DEF MergeInv, Types, world, jobVars
<1>2. ActiveIsMerging' /\ OneMerging' /\ (NoneMerging => NoneMerging')
  BY <1>1 DEF SlotInv, ActiveIsMerging, OneMerging, NoneMerging, OneReplica, At, Active
<1>3. MindsSlot(r)'
  BY <1>1, <1>2 DEF MindsSlot, Polling, Claims, Acts, Taken, Seen, At
<1>4. QED
  BY <1>2, <1>3 DEF SlotInv, OneReplica

LEMMA SlotRounds ==
    ASSUME MergeInv, OneReplica, SlotInv, NEW r \in Replicas, Tick(r) \/ Step(r) \/ End(r)
    PROVE  SlotInv'
<1>1. /\ row \in [Tasks -> Rows] /\ proc \in [Replicas -> Procs] /\ proc[r] \in Procs
      /\ Knows(r) /\ MindsSlot(r)
      /\ UNCHANGED <<row, world>> /\ ~At(r, "started")
  BY DEF MergeInv, Types, MergeTypeOK, Rows, SlotInv, Tick, Step, End, At
<1>2. CASE proc' = [proc EXCEPT ![r] = Idle]
  BY <1>1, <1>2, IdleProc, SlotTakes DEF Idle
<1>3. CASE Tick(r)
  <2> DEFINE p == [Idle EXCEPT !.pc = "next", !.seen = row,
                             !.todo = {t \in Tasks : row[t].state \in Working},
                             !.busy = \E t \in Tasks : row[t].state = "merging"]
  <2>1. proc' = [proc EXCEPT ![r] = p]
    BY <1>3 DEF Tick
  <2>2. /\ p \in Procs /\ p.pc = "next" /\ p.seen = row
        /\ p.busy = \E t \in Tasks : row[t].state = "merging"
        /\ p.todo \subseteq Tasks
    BY <1>1, IdleProc DEF Procs, Labels
  <2> HIDE DEF p
  <2>3. ~p.busy => NoneMerging
    BY <2>2 DEF NoneMerging
  <2>4. QED
    BY <1>1, <2>1, <2>2, <2>3, SlotTakes
<1>4. CASE Step(r) /\ proc[r].todo # {}
  <2> DEFINE n == Min(proc[r].todo)
  <2>1. PICK t \in proc[r].todo : t = n
    BY <1>1, <1>4, MinIsIn, MergeAssumption DEF Procs
  <2>2. /\ t \in Tasks /\ row[t].state \in Working
        /\ row[t].state = proc[r].seen[t].state /\ row[t].named = proc[r].seen[t].named
    BY <1>1, <2>1 DEF Knows, MindsSlot, Procs
  <2>3. proc[r].pc = "next" /\ (~proc[r].busy => NoneMerging)
    BY <1>1, <1>4 DEF Step, At, MindsSlot, Polling, Requesting
  <2>4. PICK s \in Working : s = proc[r].seen[t].state
    BY <2>2
  <2>5. PICK l \in Labels : l = FirstStep[s]
    BY DEF FirstStep, Working, Labels
  <2>6. l \notin {"idle", "end", "start", "started", "fail", "merged", "drop", "cancelled"}
        /\ (l = "look" => s = "queued")
    BY <2>4, <2>5 DEF FirstStep, Working
  <2>7. \/ proc' = [proc EXCEPT ![r].todo = @ \ {n}]
        \/ /\ ~(proc[r].seen[n].state = "queued" /\ proc[r].busy)
           /\ proc' = [proc EXCEPT ![r].todo = @ \ {n}, ![r].t = n,
                                     ![r].pc = FirstStep[proc[r].seen[n].state],
                                     ![r].busy = @ \/ proc[r].seen[n].state = "queued"]
    BY <1>4, Zenon DEF Step
  <2>8. CASE proc' = [proc EXCEPT ![r].todo = @ \ {n}]
    <3> DEFINE p == [proc[r] EXCEPT !.todo = @ \ {t}]
    <3>1. proc' = [proc EXCEPT ![r] = p]
      BY <1>1, <2>1, <2>8
    <3>2. /\ p \in Procs /\ p.pc = "next" /\ p.seen = proc[r].seen /\ p.busy = proc[r].busy
          /\ p.todo \subseteq proc[r].todo
      BY <1>1, <2>3 DEF Procs
    <3> HIDE DEF p
    <3>3. QED
      BY <1>1, <2>3, <3>1, <3>2, SlotTakes DEF MindsSlot
  <2>9. CASE /\ ~(proc[r].seen[n].state = "queued" /\ proc[r].busy)
             /\ proc' = [proc EXCEPT ![r].todo = @ \ {n}, ![r].t = n,
                                     ![r].pc = FirstStep[proc[r].seen[n].state],
                                     ![r].busy = @ \/ proc[r].seen[n].state = "queued"]
    <3> DEFINE p == [proc[r] EXCEPT !.todo = @ \ {t}, !.t = t, !.pc = l, !.busy = @ \/ s = "queued"]
    <3>1. proc' = [proc EXCEPT ![r] = p]
      BY <1>1, <2>1, <2>4, <2>5, <2>9
    <3>2. p.busy \in BOOLEAN
      BY <1>1 DEF Procs
    <3>3. /\ p \in Procs /\ p.pc = l /\ p.t = t /\ p.seen = proc[r].seen
          /\ p.todo \subseteq proc[r].todo
      BY <1>1, <2>2, <3>2 DEF Procs
    <3>4. (p.busy <=> proc[r].busy \/ s = "queued") /\ (s = "queued" => ~proc[r].busy)
      BY <1>1, <2>1, <2>4, <2>9 DEF Procs
    <3> HIDE DEF p
    <3>5. QED
      BY <1>1, <2>2, <2>3, <2>4, <2>6, <3>1, <3>3, <3>4, SlotTakes DEF MindsSlot
  <2>10. QED
    BY <2>7, <2>8, <2>9
<1>5. QED
  BY <1>2, <1>3, <1>4 DEF Step, End

LEMMA SlotRequests ==
    ASSUME MergeInv, OneReplica, SlotInv, NEW r \in Replicas, NEW t \in Tasks,
           Cancel(r, t) \/ Retry(r, t)
    PROVE  SlotInv'
<1>1. row \in [Tasks -> Rows] /\ proc \in [Replicas -> Procs]
  BY DEF MergeInv, Types, MergeTypeOK, Rows
<1>2. PICK l \in {"kill", "discard_look", "unname", "resume"} : Take(r, t, l)
  BY DEF Cancel, Retry
<1> DEFINE p == [Idle EXCEPT !.pc = l, !.t = t, !.seen = row]
<1>3. proc' = [proc EXCEPT ![r] = p] /\ UNCHANGED <<row, world>> /\ ~At(r, "started")
  BY <1>2 DEF Take, At
<1>4. p \in Procs /\ p.pc = l /\ p.t = t /\ p.seen = row /\ p.todo = {}
  BY <1>1, IdleProc DEF Procs, Labels, Idle
<1> HIDE DEF p
<1>5. QED
  BY <1>3, <1>4, SlotTakes DEF Requesting

(* The Job's worker starts none, and reports with its end; nothing else in  *)
(* the world knows of Jobs.                                                *)
LEMMA SlotAside ==
    ASSUME MergeInv, SlotInv,
           \/ \E t \in Tasks : Create(t) \/ Worker(t) \/ CopyEnds(t) \/ CopyForgotten(t) \/ WaitEnds(t)
           \/ \E x \in Titles : OutputLost(x) \/ ArchiveFiles(x) \/ OtherCopyFiled(x)
           \/ UNCHANGED vars
    PROVE  SlotInv'
<1>1. UNCHANGED proc
  BY DEF Create, Worker, Written, Reported, JobFails, PodEnds, CopyEnds, CopyForgotten, WaitEnds,
         OutputLost, ArchiveFiles, OtherCopyFiled, vars
<1>2. row \in [Tasks -> Rows] /\ Types
  BY DEF MergeInv, Types, MergeTypeOK, Rows
<1>3. \A u \in Tasks : /\ row'[u].named = row[u].named
                       /\ row'[u].state = "merging" <=> row[u].state = "merging"
  <2>1. CASE \E t \in Tasks : Create(t) \/ WaitEnds(t)
    BY <1>2, <2>1 DEF Create, WaitEnds, Rows
  <2>2. CASE UNCHANGED row
    BY <2>2
  <2>3. QED
    BY <2>1, <2>2 DEF Worker, Written, Reported, JobFails, PodEnds, CopyEnds, CopyForgotten,
         OutputLost, ArchiveFiles, OtherCopyFiled, vars
<1>4. \A u \in Tasks : Active(u)' => Active(u) /\ (status[u] = "none" => status'[u] = "none")
  <2> DEFINE Stops == \A u \in Tasks : Active(u)' => Active(u) /\ (status[u] = "none" => status'[u] = "none")
  <2>1. ASSUME NEW t \in Tasks, Worker(t) PROVE Stops
    <3>1. CASE Written(t)
      BY <1>2, <3>1 DEF Written, Active, Types, MergeTypeOK
    <3>2. CASE Reported(t)
      BY <1>2, <3>2 DEF Reported, Active, Types, MergeTypeOK
    <3>3. CASE JobFails(t)
      BY <1>2, <3>3 DEF JobFails, Active, Types, MergeTypeOK
    <3>4. CASE PodEnds(t)
      BY <1>2, <3>4 DEF PodEnds, Active, Types, MergeTypeOK
    <3>5. QED
      BY <2>1, <3>1, <3>2, <3>3, <3>4 DEF Worker
  <2>2. CASE UNCHANGED <<job, status>>
    BY <2>2 DEF Active
  <2>3. QED
    BY <2>1, <2>2 DEF Create, WaitEnds, CopyEnds, CopyForgotten, OutputLost, ArchiveFiles,
         OtherCopyFiled, vars, world, jobVars
<1>5. ActiveIsMerging' /\ OneMerging' /\ (NoneMerging => NoneMerging')
  BY <1>1, <1>3, <1>4 DEF SlotInv, ActiveIsMerging, OneMerging, NoneMerging, At
<1>6. ASSUME NEW r \in Replicas PROVE MindsSlot(r)'
  <2>1. MindsSlot(r) /\ (Taken(r) => proc[r].t \in Tasks) /\ proc[r].todo \subseteq Tasks
    BY DEF SlotInv, MergeInv, Knows, Types, Procs
  <2>2. (proc[r].pc \in {"fail", "merged", "drop", "cancelled"} => ~Active(proc[r].t))'
    BY <1>1, <1>4, <2>1 DEF MindsSlot, Taken, Active
  <2>3. (Acts(r) => row[proc[r].t].named = Seen(r).named)'
    BY <1>1, <1>3, <2>1 DEF MindsSlot, Acts, Taken, Seen
  <2>4. QED
    BY <1>1, <1>3, <1>5, <2>1, <2>2, <2>3 DEF MindsSlot, Polling, Claims, At, Seen
<1>7. QED
  BY <1>5, <1>6 DEF SlotInv

(* "One title merges at a time" (_advance_all, _start_merge): with a single *)
(* replica whose calls to Kubernetes are answered and which is not          *)
(* restarted, no two Jobs write, whatever else fails, is cancelled or       *)
(* retried.                                                                *)
THEOREM OneJobRuns == Spec /\ OneReplica /\ JobsKnown => []OneJobAtATime
<1> SUFFICES ASSUME OneReplica, JobsKnown PROVE Spec => []OneJobAtATime
  OBVIOUS
<1>1. Init => SlotInv
  <2> SUFFICES ASSUME Init PROVE SlotInv
    OBVIOUS
  <2>1. /\ \A t \in Tasks : row[t].state = "absent" /\ job[t] = "none"
        /\ \A r \in Replicas : proc[r].pc = "idle" /\ proc[r].todo = {}
    BY DEF Init, Idle, NoRow
  <2>2. QED
    BY <2>1 DEF SlotInv, ActiveIsMerging, OneMerging, MindsSlot, Active, Polling, Claims, Acts,
         Taken, At
<1>2. MergeInv /\ SlotInv /\ [Next]_vars => SlotInv'
  <2> SUFFICES ASSUME MergeInv, SlotInv, [Next]_vars PROVE SlotInv'
    OBVIOUS
  <2>1. ASSUME NEW r \in Replicas, Poll(r) PROVE SlotInv'
    BY <2>1, SlotRounds, SlotLooks, SlotWrites, SlotStarts, SlotWorks DEF Poll
  <2>2. ASSUME NEW r \in Replicas, Serve(r) PROVE SlotInv'
    BY <2>2, SlotRounds, SlotLooks, SlotWrites, SlotWorks DEF Serve
  <2>3. ASSUME NEW r \in Replicas, Tick(r) \/ Crash(r) PROVE SlotInv'
    BY <2>3, SlotRounds DEF Crash, JobsKnown
  <2>4. ASSUME NEW r \in Replicas, NEW t \in Tasks, Cancel(r, t) \/ Retry(r, t) PROVE SlotInv'
    BY <2>4, SlotRequests
  <2>5. QED
    BY <2>1, <2>2, <2>3, <2>4, SlotAside DEF Next
<1>3. SlotInv => OneJobAtATime
  <2>1. ASSUME SlotInv, NEW t \in Tasks, NEW u \in Tasks, Active(t), Active(u) PROVE t = u
    <3>1. CASE row[t].state = "merging" /\ row[u].state = "merging"
      BY <2>1, <3>1 DEF SlotInv, OneMerging
    <3>2. CASE ~(row[t].state = "merging" /\ row[u].state = "merging")
      <4>1. PICK r \in Replicas : At(r, "started")
        BY <2>1, <3>2 DEF SlotInv, ActiveIsMerging
      <4>2. NoneMerging
        BY <2>1, <4>1 DEF SlotInv, MindsSlot, Claims, At
      <4>3. QED
        BY <2>1, <4>1, <4>2 DEF SlotInv, ActiveIsMerging, NoneMerging, OneReplica
    <3>3. QED
      BY <3>1, <3>2
  <2>2. QED
    BY <2>1 DEF OneJobAtATime, Active
<1>4. QED
  BY <1>1, <1>2, <1>3, MergeInvHolds, PTL DEF Spec
============================================================================
