----------------------------- MODULE MergeTask -----------------------------
(***************************************************************************)
(* Merging a title's parts into one file (merge/service.py, tasks.py): the *)
(* task rows, the replicas that move them, the Kubernetes Job that merges, *)
(* CloudDrive that uploads, and the archive that files the result.         *)
(*                                                                         *)
(* A replica does one thing at a time, a poll or an operator's request,    *)
(* since MergeService._tick_lock serialises them; nothing but the          *)
(* compare-and-set on the row orders it against another replica.  One      *)
(* action is the code between two awaits.                                  *)
(***************************************************************************)
EXTENDS Naturals, FiniteSetsExt

CONSTANTS
    Tasks,          \* task ids, in the order they are given out
    Titles,
    TitleOf,        \* the title of each task: [Tasks -> Titles]
    Replicas,
    MaxAttempts,    \* MAX_UPLOAD_ATTEMPTS
    Requests,       \* the operator requests that occur, of "cancel" and "retry"
    Faults          \* what may go wrong

ASSUME MergeAssumption ==
    /\ Tasks \subseteq Nat
    /\ TitleOf \in [Tasks -> Titles]
    /\ MaxAttempts \in Nat \ {0}
    /\ Requests \subseteq {"cancel", "retry"}
    /\ Faults \subseteq {"kube", "job", "lost", "upload", "corrupt", "dropped",
                         "refused", "late", "other", "crash"}

VARIABLES
    row,            \* the merge_tasks row of each task
    job,            \* its Kubernetes Job; "ending" once deleted with its pod alive
    status,         \* the worker's report in the status file
    output,         \* titles whose merged file is on the work volume
    copy,           \* CloudDrive's copy task into the staging folder of each task
    staged,         \* the file in that folder
    parts,          \* how many of a title's parts the library lists
    target,         \* the merged file in the title's intake folder
    library,        \* the whole copy the library holds of each title
    proc            \* the replicas

jobVars   == <<job, status>>
cloudVars == <<copy, staged>>
fileVars  == <<parts, target, library>>
world == <<jobVars, output, cloudVars, fileVars>>
vars == <<row, world, proc>>
----------------------------------------------------------------------------
Working     == {"queued", "merging", "uploading", "verifying", "replacing", "archiving"}
Finished    == {"done", "cancelled"}
Cancellable == {"queued", "merging", "uploading", "verifying", "failed"}
States      == Working \union Finished \union {"absent", "failed"}

(* merged: merged_sha1 is known; waited: what the code measures from        *)
(* state_changed_at (from updated_at for a copy to be listed) has passed.   *)
NoRow == [state |-> "absent", failed |-> "none", named |-> FALSE, merged |-> FALSE,
          tries |-> 0, waited |-> FALSE]

Idle == [pc |-> "idle", t |-> 0, seen |-> [t \in Tasks |-> NoRow], todo |-> {},
         busy |-> FALSE]

Open(t) == row[t].state \in Working \union {"failed"}

At(r, label) == proc[r].pc = label

(* A replica done with its task forgets what it read of it.                 *)
Goto(r, label) ==
    proc' = [proc EXCEPT ![r] =
               IF label = "next" THEN [@ EXCEPT !.pc = label, !.t = 0, !.seen[proc[r].t] = NoRow]
               ELSE [@ EXCEPT !.pc = label]]

(* What the replica read of its task when it took it up, and the title.     *)
Seen(r) == proc[r].seen[proc[r].t]
Title(r) == TitleOf[proc[r].t]

(* A step that only looks, and what it goes on to.                          *)
Decide(r, next) == Goto(r, next) /\ UNCHANGED <<row, world>>

(* transition: the write takes only in the state expected; leaving a state  *)
(* starts its waits anew.                                                   *)
Write(r, expected, changed, next) ==
    /\ row' = [row EXCEPT ![proc[r].t] =
                 IF @.state = expected THEN [changed EXCEPT !.waited = FALSE] ELSE @]
    /\ Goto(r, next)
    /\ UNCHANGED world

MoveTo(r, expected, state) ==
    Write(r, expected, [row[proc[r].t] EXCEPT !.state = state], "next")

(* delete_job, in the background: the pod outlives the Job for a moment.    *)
JobDeleted(t) ==
    \/ job' = [job EXCEPT ![t] = IF @ \in {"running", "written", "ending"} THEN "ending"
                                 ELSE "none"]
    \/ "kube" \in Faults /\ UNCHANGED job
----------------------------------------------------------------------------
MergeTypeOK ==
    /\ row \in [Tasks -> [state : States, failed : Working \union {"none"},
                          named : BOOLEAN, merged : BOOLEAN, tries : 0..MaxAttempts,
                          waited : BOOLEAN]]
    /\ \A t \in Tasks : row[t].state = "failed" => row[t].failed # "none"
    /\ job \in [Tasks -> {"none", "running", "written", "succeeded", "failed", "ending"}]
    /\ status \in [Tasks -> {"none", "done", "failed"}]
    /\ output \subseteq Titles
    /\ copy \in [Tasks -> {"none", "running", "fatal", "failed", "completed"}]
    /\ staged \in [Tasks -> {"none", "good", "bad"}]
    /\ parts \in [Titles -> {"all", "some", "none"}]
    /\ target \in [Titles -> {"none", "good", "bad"}]
    /\ library \in [Titles -> {"none", "good", "bad"}]
    /\ \A r \in Replicas : proc[r].t \in Tasks \union {0} /\ proc[r].todo \subseteq Tasks

Init ==
    /\ row = [t \in Tasks |-> NoRow]
    /\ job = [t \in Tasks |-> "none"]
    /\ status = [t \in Tasks |-> "none"]
    /\ output = {}
    /\ copy = [t \in Tasks |-> "none"]
    /\ staged = [t \in Tasks |-> "none"]
    /\ parts = [x \in Titles |-> "all"]
    /\ target = [x \in Titles |-> "none"]
    /\ library = [x \in Titles |-> "none"]
    /\ proc = [r \in Replicas |-> Idle]
----------------------------------------------------------------------------
(* enqueue and create, by the operator or the automatic merger: the parts   *)
(* are all there, and the unique index admits one open task of a title.     *)
Create(t) ==
    /\ row[t].state = "absent"
    /\ \A u \in Tasks : u < t => row[u].state # "absent"
    /\ \A u \in Tasks : TitleOf[u] = TitleOf[t] => ~Open(u)
    /\ parts[TitleOf[t]] = "all"
    /\ row' = [row EXCEPT ![t].state = "queued"]
    /\ UNCHANGED <<world, proc>>
----------------------------------------------------------------------------
(* The poll.                                                                *)

(* tick: every open task as it is now; "merging" as this snapshot has it.   *)
Tick(r) ==
    /\ At(r, "idle")
    /\ proc' = [proc EXCEPT ![r] =
                  [Idle EXCEPT !.pc = "next", !.seen = row,
                               !.todo = {t \in Tasks : row[t].state \in Working},
                               !.busy = \E t \in Tasks : row[t].state = "merging"]]
    /\ UNCHANGED <<row, world>>

(* The handler of each state begins with what it looks at first.            *)
FirstStep == [queued |-> "look", merging |-> "report", uploading |-> "copies",
              verifying |-> "stat", replacing |-> "delete", archiving |-> "intake"]

(* Mutant: a Job in the snapshot does not hold the queue back.              *)
StepUnheld(r) ==
    /\ At(r, "next")
    /\ IF proc[r].todo = {} THEN proc' = [proc EXCEPT ![r] = Idle]
       ELSE LET t == Min(proc[r].todo)
                s == proc[r].seen[t].state
            IN  proc' = [proc EXCEPT ![r] = [@ EXCEPT !.todo = @ \ {t}, !.t = t,
                                                      !.pc = FirstStep[s]]]
    /\ UNCHANGED <<row, world>>

(* One step per task, oldest first; no queued one while one is merging.     *)
Step(r) ==
    /\ At(r, "next")
    /\ IF proc[r].todo = {} THEN proc' = [proc EXCEPT ![r] = Idle]
       ELSE LET t == Min(proc[r].todo)
                s == proc[r].seen[t].state
            IN  IF s = "queued" /\ proc[r].busy
                THEN proc' = [proc EXCEPT ![r].todo = @ \ {t}]
                ELSE proc' = [proc EXCEPT ![r].todo = @ \ {t}, ![r].t = t,
                                          ![r].pc = FirstStep[s],
                                          ![r].busy = @ \/ s = "queued"]
    /\ UNCHANGED <<row, world>>

(* MergeFailedError: the task fails where it was, unless it has moved on.   *)
Fail(r) ==
    /\ At(r, "fail")
    /\ Write(r, Seen(r).state,
             [row[proc[r].t] EXCEPT !.state = "failed", !.failed = Seen(r).state], "next")

(* _refuse_whole_copy: before the Job is started, and as the last look      *)
(* before the parts are deleted.                                            *)
Look(r) ==
    /\ At(r, "look")
    /\ Decide(r, CASE library[Title(r)] # "none" -> "fail"
                   [] Seen(r).state = "queued"   -> "start"
                   [] OTHER                      -> "promote")

(* _start_merge: a Job already there under the name counts as started; an   *)
(* error leaves the task queued, whether or not the Job was made.           *)
Start(r) ==
    LET t == proc[r].t IN
    /\ At(r, "start")
    /\ status' = [status EXCEPT ![t] = "none"]
    /\ \/ /\ job' = [job EXCEPT ![t] = IF @ \in {"none", "ending"} THEN "running" ELSE @]
          /\ \/ Goto(r, "started")
             \/ "kube" \in Faults /\ Goto(r, "next")
       \/ "kube" \in Faults /\ UNCHANGED job /\ Goto(r, "next")
    /\ UNCHANGED <<row, output, cloudVars, fileVars>>

Started(r) ==
    /\ At(r, "started")
    /\ Write(r, "queued",
             [row[proc[r].t] EXCEPT !.state = "merging", !.named = TRUE], "next")

(* _watch_merge: the worker's report first, then the Job.                   *)
Report(r) ==
    LET said == status[proc[r].t] IN
    /\ At(r, "report")
    /\ Decide(r, CASE said = "done"   -> (IF Title(r) \in output THEN "merged" ELSE "fail")
                   [] said = "failed" -> "fail"
                   [] OTHER           -> "job")

(* A Job that succeeded may have reported since the read above.             *)
Job(r) ==
    LET t == proc[r].t IN
    /\ At(r, "job")
    /\ LET over == \/ ~Seen(r).named
                   \/ job[t] \in {"none", "ending", "failed"}
                   \/ job[t] = "succeeded" /\ status[t] = "none"
       IN  Decide(r, IF over THEN "fail" ELSE "next")

Merged(r) ==
    /\ At(r, "merged")
    /\ Write(r, "merging",
             [row[proc[r].t] EXCEPT !.state = "uploading", !.merged = TRUE, !.tries = 0],
             IF Seen(r).named THEN "tidy_job" ELSE "next")

TidyJob(r) ==
    /\ At(r, "tidy_job")
    /\ JobDeleted(proc[r].t)
    /\ status' = [status EXCEPT ![proc[r].t] = "none"]
    /\ Goto(r, "next")
    /\ UNCHANGED <<row, output, cloudVars, fileVars>>
----------------------------------------------------------------------------
(* _watch_upload.  An upload CloudDrive gave up on may be refused for good, *)
(* and one just restarted is given a moment.                                *)
Copies(r) ==
    LET t == proc[r].t
        spent == Seen(r).tries >= MaxAttempts
        tried == Seen(r).tries > 0
    IN  /\ At(r, "copies")
        /\ \/ Decide(r, CASE copy[t] = "completed"  -> "uploaded"
                          [] Title(r) \notin output -> "requeue"
                          [] copy[t] = "running"    -> "next"
                          [] copy[t] = "none"       -> (IF tried THEN "kept" ELSE "issue")
                          [] OTHER                  -> (IF spent THEN "fail" ELSE "restart"))
           \/ /\ copy[t] = "fatal" /\ Title(r) \in output
              /\ \/ Decide(r, "fail")
                 \/ tried /\ ~spent /\ ~Seen(r).waited /\ Decide(r, "next")

(* CloudDrive may have dropped a finished task from its list, or not listed *)
(* a fresh one yet; a file of another size was not staged.                  *)
Kept(r) ==
    LET t == proc[r].t IN
    /\ At(r, "kept")
    /\ \/ staged[t] # "none" /\ Decide(r, "uploaded")
       \/ /\ staged[t] # "good" \/ "late" \in Faults
          /\ Decide(r, IF Seen(r).waited THEN "issue" ELSE "next")

(* _issue_copy: CloudDrive may refuse to queue the copy.                    *)
Issue(r) ==
    LET t == proc[r].t IN
    /\ At(r, "issue")
    /\ IF Seen(r).tries >= MaxAttempts
       THEN Goto(r, "fail") /\ UNCHANGED copy
       ELSE /\ Goto(r, "count")
            /\ \/ copy' = [copy EXCEPT ![t] = "running"]
               \/ "refused" \in Faults /\ UNCHANGED copy
    /\ UNCHANGED <<row, jobVars, output, staged, fileVars>>

(* restart_copy_task, for a copy or its upload that CloudDrive gave up on.  *)
Restart(r) ==
    /\ At(r, "restart")
    /\ copy' = [copy EXCEPT ![proc[r].t] = IF @ = "none" THEN @ ELSE "running"]
    /\ Goto(r, "count")
    /\ UNCHANGED <<row, jobVars, output, staged, fileVars>>

(* update: the count as it was read, plus one, whatever the state is now.   *)
Count(r) ==
    /\ At(r, "count")
    /\ row' = [row EXCEPT ![proc[r].t] =
                 [@ EXCEPT !.tries = Seen(r).tries + 1, !.waited = FALSE]]
    /\ Goto(r, "next")
    /\ UNCHANGED world

Uploaded(r) ==
    /\ At(r, "uploaded")
    /\ MoveTo(r, "uploading", "verifying")

(* The merged file is gone from the work volume: merge again.               *)
Requeue(r) ==
    /\ At(r, "requeue")
    /\ Write(r, "uploading",
             [row[proc[r].t] EXCEPT !.state = "queued", !.named = FALSE, !.merged = FALSE],
             "next")
----------------------------------------------------------------------------
(* _verify and _replace.                                                    *)

(* Mutant: the SHA-1 is not compared.                                       *)
StatAny(r) ==
    /\ At(r, "stat")
    /\ Decide(r, CASE staged[proc[r].t] # "none" -> "look"
                   [] Seen(r).waited             -> "fail"
                   [] OTHER                      -> "next")

(* The staged file has the merged one's size and SHA-1.  The listing may    *)
(* trail, and the hash be late, for as long as the waits.                   *)
Stat(r) ==
    LET t == proc[r].t IN
    /\ At(r, "stat")
    /\ \/ staged[t] = "good" /\ Decide(r, "look")
       \/ staged[t] = "bad"  /\ Decide(r, "fail")
       \/ /\ staged[t] = "none" \/ "late" \in Faults
          /\ Decide(r, IF Seen(r).waited THEN "fail" ELSE "next")

Promote(r) ==
    /\ At(r, "promote")
    /\ MoveTo(r, "verifying", "replacing")

(* The parts go first; while any is still listed the step is repeated.      *)
DeleteParts(r) ==
    /\ At(r, "delete")
    /\ \/ /\ parts' = [parts EXCEPT ![Title(r)] = "none"]
          /\ Goto(r, "move")
       \/ /\ "refused" \in Faults
          /\ parts[Title(r)] # "none"
          /\ \E left \in {parts[Title(r)], "some"} : parts' = [parts EXCEPT ![Title(r)] = left]
          /\ Goto(r, "next")
    /\ UNCHANGED <<row, jobVars, output, cloudVars, target, library>>

(* move_file, which does not overwrite.                                     *)
Move(r) ==
    LET t == proc[r].t IN
    /\ At(r, "move")
    /\ \/ staged[t] = "none" /\ Goto(r, "arrived") /\ UNCHANGED <<staged, target>>
       \/ /\ staged[t] # "none"
          /\ IF target[Title(r)] = "none"
             THEN /\ target' = [target EXCEPT ![Title(r)] = staged[t]]
                  /\ staged' = [staged EXCEPT ![t] = "none"]
             ELSE UNCHANGED <<staged, target>>
          /\ Goto(r, "arrived")
       \/ /\ "refused" \in Faults
          /\ staged[t] # "none"
          /\ Goto(r, "next")
          /\ UNCHANGED <<staged, target>>
    /\ UNCHANGED <<row, jobVars, output, copy, parts, library>>

Arrived(r) ==
    /\ At(r, "arrived")
    /\ Decide(r, IF target[Title(r)] = "none" THEN "fail" ELSE "tidy")

(* The staging folder, best effort, and the work files.                     *)
Tidy(r) ==
    LET t == proc[r].t IN
    /\ At(r, "tidy")
    /\ staged' = [staged EXCEPT ![t] = "none"]
    /\ output' = output \ {Title(r)}
    /\ status' = [status EXCEPT ![t] = "none"]
    /\ Goto(r, "replaced")
    /\ UNCHANGED <<row, job, copy, fileVars>>

Replaced(r) ==
    /\ At(r, "replaced")
    /\ MoveTo(r, "replacing", "archiving")

(* Mutant: the wait for the archive has no end.                             *)
IntakePatient(r) ==
    /\ At(r, "intake")
    /\ Decide(r, IF target[Title(r)] = "none" THEN "filed" ELSE "next")

(* _watch_archive: done once the folder has left the intake.                *)
Intake(r) ==
    /\ At(r, "intake")
    /\ Decide(r, CASE target[Title(r)] = "none" -> "filed"
                   [] Seen(r).waited            -> "fail"
                   [] OTHER                     -> "next")

Filed(r) ==
    /\ At(r, "filed")
    /\ MoveTo(r, "archiving", "done")
----------------------------------------------------------------------------
(* The operator.                                                            *)

Take(r, t, label) ==
    /\ At(r, "idle")
    /\ proc' = [proc EXCEPT ![r] = [Idle EXCEPT !.pc = label, !.t = t, !.seen = row]]
    /\ UNCHANGED <<row, world>>

(* cancel.  A task that failed while replacing is not cancellable: its      *)
(* parts may be gone.  One that failed while archiving has a merged copy    *)
(* to discard.                                                              *)
Cancel(r, t) ==
    /\ "cancel" \in Requests
    /\ row[t].state \in Cancellable
    /\ ~(row[t].state = "failed" /\ row[t].failed = "replacing")
    /\ Take(r, t, IF row[t].state = "failed" /\ row[t].failed = "archiving"
                  THEN "discard_look" ELSE "kill")

(* Mutant: the merged copy is discarded without looking for another.        *)
DiscardBlind(r) ==
    /\ At(r, "discard_look")
    /\ Decide(r, "discard")

(* _discard_duplicate: only when the library holds the title whole.         *)
DiscardLook(r) ==
    /\ At(r, "discard_look")
    /\ Decide(r, IF library[Title(r)] = "none" THEN "end" ELSE "discard")

Discard(r) ==
    /\ At(r, "discard")
    /\ \/ target' = [target EXCEPT ![Title(r)] = "none"] /\ Goto(r, "kill")
       \/ "refused" \in Faults /\ UNCHANGED target /\ Goto(r, "end")
    /\ UNCHANGED <<row, jobVars, output, cloudVars, parts, library>>

Kill(r) ==
    /\ At(r, "kill")
    /\ IF Seen(r).named THEN JobDeleted(proc[r].t) ELSE UNCHANGED job
    /\ Goto(r, "drop")
    /\ UNCHANGED <<row, status, output, cloudVars, fileVars>>

(* The copy and the staging folder, best effort, then the work files.       *)
Drop(r) ==
    LET t == proc[r].t IN
    /\ At(r, "drop")
    /\ \/ /\ Seen(r).merged
          /\ copy' = [copy EXCEPT ![t] = IF @ = "completed" THEN @ ELSE "none"]
          /\ staged' = [staged EXCEPT ![t] = "none"]
       \/ /\ ~Seen(r).merged \/ "refused" \in Faults
          /\ UNCHANGED cloudVars
    /\ output' = output \ {Title(r)}
    /\ status' = [status EXCEPT ![t] = "none"]
    /\ Goto(r, "cancelled")
    /\ UNCHANGED <<row, job, fileVars>>

Cancelled(r) ==
    /\ At(r, "cancelled")
    /\ Write(r, Seen(r).state, [row[proc[r].t] EXCEPT !.state = "cancelled"], "end")

(* retry: where each failed step resumes.                                   *)
Resume == [queued |-> "queued", merging |-> "queued", uploading |-> "uploading",
           verifying |-> "uploading", replacing |-> "replacing", archiving |-> "archiving"]

Retry(r, t) ==
    /\ "retry" \in Requests
    /\ row[t].state = "failed"
    /\ Take(r, t, IF Resume[row[t].failed] = "queued" /\ row[t].named THEN "unname" ELSE "resume")

(* The failed Job holds the name the new one is started under.              *)
Unname(r) ==
    /\ At(r, "unname")
    /\ JobDeleted(proc[r].t)
    /\ Goto(r, "resume")
    /\ UNCHANGED <<row, status, output, cloudVars, fileVars>>

Resumed(r) ==
    LET to == Resume[Seen(r).failed] IN
    /\ At(r, "resume")
    /\ Write(r, "failed",
          [row[proc[r].t] EXCEPT !.state = to, !.failed = "none", !.named = @ /\ to # "queued",
                                 !.tries = IF to = "uploading" THEN 0 ELSE @], "end")

End(r) ==
    /\ At(r, "end")
    /\ proc' = [proc EXCEPT ![r] = Idle]
    /\ UNCHANGED <<row, world>>
----------------------------------------------------------------------------
(* The Job's worker: the merged file appears whole, then the report.        *)

Written(t) ==
    /\ job[t] \in {"running", "ending"}
    /\ parts[TitleOf[t]] = "all"
    /\ output' = output \union {TitleOf[t]}
    /\ job' = [job EXCEPT ![t] = IF @ = "running" THEN "written" ELSE "none"]
    /\ UNCHANGED <<row, status, cloudVars, fileVars, proc>>

Reported(t) ==
    /\ job[t] = "written"
    /\ job' = [job EXCEPT ![t] = "succeeded"]
    /\ status' = [status EXCEPT ![t] = "done"]
    /\ UNCHANGED <<row, output, cloudVars, fileVars, proc>>

(* Refused as unmergeable (the Job succeeds), failed, or killed.            *)
JobFails(t) ==
    /\ \/ job[t] = "running"
       \/ job[t] = "written"
    /\ "job" \in Faults \/ parts[TitleOf[t]] # "all"
    /\ \/ /\ job[t] = "running"
          /\ status' = [status EXCEPT ![t] = "failed"]
          /\ \E end \in {"succeeded", "failed"} : job' = [job EXCEPT ![t] = end]
       \/ job' = [job EXCEPT ![t] = "failed"] /\ UNCHANGED status
    /\ UNCHANGED <<row, output, cloudVars, fileVars, proc>>

PodEnds(t) ==
    /\ job[t] = "ending"
    /\ job' = [job EXCEPT ![t] = "none"]
    /\ UNCHANGED <<row, status, output, cloudVars, fileVars, proc>>

OutputLost(x) ==
    /\ "lost" \in Faults
    /\ x \in output
    /\ output' = output \ {x}
    /\ UNCHANGED <<row, jobVars, cloudVars, fileVars, proc>>
----------------------------------------------------------------------------
(* CloudDrive.                                                              *)

(* The copy overwrites what is staged; one whose source is gone fails.      *)
CopyEnds(t) ==
    /\ copy[t] = "running"
    /\ \/ /\ TitleOf[t] \in output
          /\ copy' = [copy EXCEPT ![t] = "completed"]
          /\ \E kind \in {"good"} \union (IF "corrupt" \in Faults THEN {"bad"} ELSE {}) :
                staged' = [staged EXCEPT ![t] = kind]
       \/ /\ "upload" \in Faults \/ TitleOf[t] \notin output
          /\ \E end \in {"failed", "fatal"} : copy' = [copy EXCEPT ![t] = end]
          /\ UNCHANGED staged
    /\ UNCHANGED <<row, jobVars, output, fileVars, proc>>

(* A finished task drops off CloudDrive's list.                             *)
CopyForgotten(t) ==
    /\ "dropped" \in Faults
    /\ copy[t] = "completed"
    /\ copy' = [copy EXCEPT ![t] = "none"]
    /\ UNCHANGED <<row, jobVars, output, staged, fileVars, proc>>
----------------------------------------------------------------------------
(* The archive files what is in the intake unless the library holds the     *)
(* title; another download may bring a whole copy.                          *)
ArchiveFiles(x) ==
    /\ target[x] # "none"
    /\ library[x] = "none"
    /\ parts[x] = "none"
    /\ library' = [library EXCEPT ![x] = target[x]]
    /\ target' = [target EXCEPT ![x] = "none"]
    /\ UNCHANGED <<row, jobVars, output, cloudVars, parts, proc>>

OtherCopyFiled(x) ==
    /\ "other" \in Faults
    /\ library[x] = "none"
    /\ library' = [library EXCEPT ![x] = "good"]
    /\ UNCHANGED <<row, jobVars, output, cloudVars, parts, target, proc>>

WaitEnds(t) ==
    /\ row[t].state \in {"uploading", "verifying", "archiving"}
    /\ ~row[t].waited
    /\ row' = [row EXCEPT ![t].waited = TRUE]
    /\ UNCHANGED <<world, proc>>

Crash(r) ==
    /\ "crash" \in Faults
    /\ ~At(r, "idle")
    /\ proc' = [proc EXCEPT ![r] = Idle]
    /\ UNCHANGED <<row, world>>
----------------------------------------------------------------------------
Poll(r) ==
    \/ Step(r) \/ Fail(r) \/ Look(r) \/ Start(r) \/ Started(r) \/ Report(r) \/ Job(r)
    \/ Merged(r) \/ TidyJob(r) \/ Copies(r) \/ Kept(r) \/ Issue(r) \/ Restart(r)
    \/ Count(r) \/ Uploaded(r) \/ Requeue(r) \/ Stat(r) \/ Promote(r) \/ DeleteParts(r)
    \/ Move(r) \/ Arrived(r) \/ Tidy(r) \/ Replaced(r) \/ Intake(r) \/ Filed(r)

Serve(r) ==
    \/ DiscardLook(r) \/ Discard(r) \/ Kill(r) \/ Drop(r) \/ Cancelled(r)
    \/ Unname(r) \/ Resumed(r) \/ End(r)

Worker(t) == Written(t) \/ Reported(t) \/ JobFails(t) \/ PodEnds(t)

Next ==
    \/ \E t \in Tasks : Create(t)
    \/ \E r \in Replicas : Tick(r) \/ Poll(r) \/ Serve(r) \/ Crash(r)
    \/ \E r \in Replicas, t \in Tasks : Cancel(r, t) \/ Retry(r, t)
    \/ \E t \in Tasks : Worker(t) \/ CopyEnds(t) \/ CopyForgotten(t) \/ WaitEnds(t)
    \/ \E x \in Titles : OutputLost(x) \/ ArchiveFiles(x) \/ OtherCopyFiled(x)

Spec == Init /\ [][Next]_vars

(* The poll loop never stops, Jobs and copies end, the archive files what   *)
(* it may, and time passes.                                                 *)
Fairness ==
    /\ \A r \in Replicas : SF_vars(Tick(r)) /\ WF_vars(Poll(r) \/ Serve(r))
    /\ \A t \in Tasks : WF_vars(Worker(t)) /\ WF_vars(CopyEnds(t)) /\ WF_vars(WaitEnds(t))
    /\ \A x \in Titles : WF_vars(ArchiveFiles(x))

FairSpec == Spec /\ Fairness
----------------------------------------------------------------------------
(* No title is ever without a copy: its parts are all in the library, or a  *)
(* verified merged file is staged, in the intake, or filed.                 *)
NothingLost ==
    \A x \in Titles :
        \/ parts[x] = "all"
        \/ target[x] = "good"
        \/ library[x] = "good"
        \/ \E t \in Tasks : TitleOf[t] = x /\ staged[t] = "good"

(* A task that is done replaced its parts: the library holds the title      *)
(* whole and none of them.                                                  *)
DoneMeansWhole ==
    \A t \in Tasks : row[t].state = "done" =>
        library[TitleOf[t]] = "good" /\ parts[TitleOf[t]] = "none"

(* The rows are well formed, the uploads within their cap, and "done" so.   *)
MergeAccounted == MergeTypeOK /\ DoneMeansWhole

(* "One title merges at a time": no two Jobs write to the work volume, but  *)
(* for the pod of a cancelled one on its way out.                           *)
OneJobAtATime ==
    \A t, u \in Tasks : job[t] \in {"running", "written"} /\ job[u] \in {"running", "written"}
        => t = u

(* "Every step can be repeated after a restart without harm": a task that   *)
(* fails in replacing, which only says the merged file is in neither place, *)
(* fails because it is lost, not because the archive has filed it.  Does    *)
(* not hold: see README, section 6.                                         *)
ReplacingFailsOnlyIfLost ==
    \A t \in Tasks : row[t].state = "failed" /\ row[t].failed = "replacing"
        => library[TitleOf[t]] = "none"

(* Every task that is under way comes to an end or to the operator.         *)
MergeConcluded ==
    \A t \in Tasks : row[t].state \in Working ~> row[t].state \in Finished \union {"failed"}
============================================================================
