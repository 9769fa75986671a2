------------------------------ MODULE JobQueue ------------------------------
(***************************************************************************)
(* The fill-actor job queue (fill_actor/jobs.py over the job statements of *)
(* postgres_repository.py): durable jobs, managers whose workers claim     *)
(* them under a lease, heartbeats that keep the lease, a reaper that fails *)
(* what nobody holds, cancellation, shutdown and crashes.                  *)
(*                                                                         *)
(* A statement or transaction on the jobs table is atomic; between two     *)
(* awaits of a manager everything else may happen.                         *)
(***************************************************************************)
EXTENDS Naturals, FiniteSets

CONSTANTS
    Jobs,           \* job ids, in the order they are enqueued
    Applies,        \* those that apply a plan; the others create one
    Managers,
    NoManager,
    MaxConcurrent,  \* workers of a manager
    MaxActive,      \* queued and running jobs, over all managers
    Unsteady,       \* the managers that may crash or be shut down
    Faults          \* what may go wrong, of "slow" (a held lease expires) and "db"

ASSUME JobQueueAssumption ==
    /\ Jobs \subseteq Nat
    /\ Applies \subseteq Jobs
    /\ Unsteady \subseteq Managers
    /\ NoManager \notin Managers
    /\ MaxConcurrent \in Nat \ {0}
    /\ MaxActive \in Nat /\ MaxConcurrent <= MaxActive

VARIABLES
    jobs,           \* the rows of fill_actor_jobs
    exec,           \* where each manager is with each job
    cancels,        \* its cancel requests, by job
    phase,          \* "up", the stages of aclose, "down"
    began,          \* how often the work of a job was begun
    done            \* the jobs whose work was done to the end

vars == <<jobs, exec, cancels, phase, began, done>>
----------------------------------------------------------------------------
Active   == {"queued", "running"}
Terminal == {"completed", "failed"}      \* partial_failed is completed here

Row(state, error) ==
    [state |-> state, owner |-> NoManager, live |-> FALSE, error |-> error]

(* pc: "claimed" while only the row says so, then the awaits of the task    *)
(* that runs the job; stop: the reason its cancellation was asked for.      *)
NoExec == [pc |-> "none", stop |-> "none", result |-> "none"]

ActiveJobs == {j \in Jobs : jobs[j].state \in Active}

(* In _executions, with a task.                                             *)
Registered(m, j) == exec[m][j].pc \notin {"none", "claimed"}

Working(m, j) == exec[m][j].pc \in {"working", "drain"}

(* What every statement on an owned job asks for.                           *)
Owns(m, j) == jobs[j].state = "running" /\ jobs[j].owner = m /\ jobs[j].live

At(m, j, pc) == exec[m][j].pc = pc

Goto(m, j, pc) ==
    exec' = [exec EXCEPT ![m][j] = IF pc = "none" THEN NoExec ELSE [@ EXCEPT !.pc = pc]]

(* Reasons to stop, a later one replacing those before it: the cancelled    *)
(* worker gives none, then _STOP_REASON_PRIORITY.                           *)
Rank == [none |-> 0, worker |-> 1, shutdown |-> 2, lost |-> 3, user |-> 4]

Stopped(e, reason) == IF Rank[reason] > Rank[e.stop] THEN [e EXCEPT !.stop = reason] ELSE e
----------------------------------------------------------------------------
JobRows ==
    [state : Active \union Terminal \union {"absent"}, owner : Managers \union {NoManager},
     live : BOOLEAN, error : {"none", "cancelled", "interrupted", "failed"}]

Execs ==
    [pc : {"none", "claimed", "revalidate", "ready", "working", "finish", "drain",
           "cleanup", "last"},
     stop : {"none", "worker", "shutdown", "lost", "user"},
     result : {"none", "completed", "failed"}]

JobTypeOK ==
    /\ jobs \in [Jobs -> JobRows]
    /\ \A j \in Jobs : jobs[j].owner # NoManager <=> jobs[j].state = "running"
    /\ exec \in [Managers -> [Jobs -> Execs]]
    /\ cancels \in [Managers -> [Jobs -> {"idle", "signal", "wait", "returned"}]]
    /\ phase \in [Managers -> {"up", "closing", "stopping", "cancelling", "down"}]
    /\ began \in [Jobs -> Nat]
    /\ done \subseteq Jobs

Init ==
    /\ jobs = [j \in Jobs |-> Row("absent", "none")]
    /\ exec = [m \in Managers |-> [j \in Jobs |-> NoExec]]
    /\ cancels = [m \in Managers |-> [j \in Jobs |-> "idle"]]
    /\ phase = [m \in Managers |-> "up"]
    /\ began = [j \in Jobs |-> 0]
    /\ done = {}
----------------------------------------------------------------------------
(* Requests.                                                                *)

(* enqueue_job and enqueue_apply_job, under the advisory lock: a full queue *)
(* refuses, an id already there changes nothing.                            *)
Enqueue(m, j) ==
    /\ phase[m] = "up"
    /\ jobs[j].state = "absent"
    /\ \A i \in Jobs : i < j => jobs[i].state # "absent"
    /\ Cardinality(ActiveJobs) < MaxActive
    /\ jobs' = [jobs EXCEPT ![j] = Row("queued", "none")]
    /\ UNCHANGED <<exec, cancels, phase, began, done>>

(* cancel_job, of a plan only; a job cancelled before is signalled again.   *)
Cancel(m, j) ==
    /\ phase[m] = "up"
    /\ cancels[m][j] = "idle"
    /\ j \notin Applies
    /\ \/ /\ jobs[j].state \in Active
          /\ jobs' = [jobs EXCEPT ![j] = Row("failed", "cancelled")]
       \/ /\ jobs[j].state = "failed" /\ jobs[j].error = "cancelled"
          /\ UNCHANGED jobs
    /\ cancels' = [cancels EXCEPT ![m][j] = "signal"]
    /\ UNCHANGED <<exec, phase, began, done>>

(* The execution on this manager, if there is one by now, is asked to stop. *)
Signal(m, j) ==
    /\ cancels[m][j] = "signal"
    /\ exec' = IF Registered(m, j)
               THEN [exec EXCEPT ![m][j] = Stopped(@, "user")] ELSE exec
    /\ cancels' = [cancels EXCEPT ![m][j] = IF Registered(m, j) THEN "wait" ELSE "returned"]
    /\ UNCHANGED <<jobs, phase, began, done>>

Awaited(m, j) ==
    /\ cancels[m][j] = "wait"
    /\ ~Registered(m, j)
    /\ cancels' = [cancels EXCEPT ![m][j] = "returned"]
    /\ UNCHANGED <<jobs, exec, phase, began, done>>
----------------------------------------------------------------------------
(* A worker and the task that runs its job.                                 *)

(* claim_next_job: the oldest.  A worker past its look at _closing may      *)
(* still claim.                                                             *)
Claim(m, j) ==
    /\ phase[m] \in {"up", "closing", "stopping"}
    /\ Cardinality({i \in Jobs : ~At(m, i, "none")}) < MaxConcurrent
    /\ jobs[j].state = "queued"
    /\ \A i \in Jobs : jobs[i].state = "queued" => j <= i
    /\ jobs' = [jobs EXCEPT ![j] = [@ EXCEPT !.state = "running", !.owner = m, !.live = TRUE]]
    /\ exec' = [exec EXCEPT ![m][j] = [NoExec EXCEPT !.pc = "claimed"]]
    /\ UNCHANGED <<cancels, phase, began, done>>

Register(m, j) ==
    /\ At(m, j, "claimed")
    /\ phase[m] # "cancelling"
    /\ Goto(m, j, "revalidate")
    /\ UNCHANGED <<jobs, cancels, phase, began, done>>

Begin(m, j) == Goto(m, j, "working") /\ began' = [began EXCEPT ![j] = @ + 1]

(* Mutant: the claim is trusted.                                            *)
RevalidateNot(m, j) ==
    /\ At(m, j, "revalidate")
    /\ exec[m][j].stop = "none"
    /\ IF j \in Applies THEN Goto(m, j, "ready") /\ UNCHANGED began
       ELSE Begin(m, j)
    /\ UNCHANGED <<jobs, cancels, phase, done>>

(* _revalidate_claim: nothing is begun unless the lease is still held.      *)
Revalidate(m, j) ==
    /\ At(m, j, "revalidate")
    /\ exec[m][j].stop = "none"
    /\ \/ ~Owns(m, j) /\ Goto(m, j, "none") /\ UNCHANGED began
       \/ Owns(m, j) /\ j \in Applies /\ Goto(m, j, "ready") /\ UNCHANGED began
       \/ Owns(m, j) /\ j \notin Applies /\ Begin(m, j)
    /\ UNCHANGED <<jobs, cancels, phase, done>>

(* An apply looks whether moves may be made, then reads its payload.        *)
Ready(m, j) ==
    /\ At(m, j, "ready")
    /\ exec[m][j].stop = "none"
    /\ \/ Begin(m, j)
       \/ /\ exec' = [exec EXCEPT ![m][j] = [@ EXCEPT !.pc = "finish", !.result = "failed"]]
          /\ UNCHANGED began
    /\ UNCHANGED <<jobs, cancels, phase, done>>

WorkEnds(m, j) ==
    /\ At(m, j, "working")
    /\ exec[m][j].stop = "none"
    /\ \E result \in {"completed", "failed"} :
          /\ exec' = [exec EXCEPT ![m][j] = [@ EXCEPT !.pc = "finish", !.result = result]]
          /\ done' = IF result = "completed" THEN done \union {j} ELSE done
    /\ UNCHANGED <<jobs, cancels, phase, began>>

(* The heartbeat finds the job no longer owned; a renewal that succeeds     *)
(* changes nothing here.                                                    *)
Beat(m, j) ==
    /\ Working(m, j)
    /\ ~Owns(m, j)
    /\ Rank[exec[m][j].stop] < Rank["lost"]
    /\ exec' = [exec EXCEPT ![m][j] = Stopped(@, "lost")]
    /\ UNCHANGED <<jobs, cancels, phase, began, done>>

(* The cancellation reaches the task before its first step or in its work:  *)
(* an apply lets its move end, the cleanup of a failed plan is shielded.    *)
Interrupt(m, j) ==
    /\ exec[m][j].stop # "none"
    /\ \/ At(m, j, "revalidate") /\ Goto(m, j, "none")
       \/ exec[m][j].pc \in {"revalidate", "ready"} /\ Goto(m, j, "cleanup")
       \/ At(m, j, "working") /\ Goto(m, j, IF j \in Applies THEN "drain" ELSE "cleanup")
    /\ UNCHANGED <<jobs, cancels, phase, began, done>>

(* ... or in its finish: once that has closed the reporter it is not made   *)
(* again, before that an apply still reports what it did.                   *)
InterruptFinish(m, j) ==
    /\ exec[m][j].stop # "none"
    /\ At(m, j, "finish")
    /\ j \in Applies \/ exec[m][j].result = "completed"
    /\ \/ Goto(m, j, "none")
       \/ exec' = [exec EXCEPT ![m][j] =
             [@ EXCEPT !.pc = "cleanup",
                       !.result = IF j \in Applies THEN exec[m][j].result ELSE "failed"]]
    /\ UNCHANGED <<jobs, cancels, phase, began, done>>

(* The apply stops after the move it is at, which may be its last.          *)
Drain(m, j) ==
    /\ At(m, j, "drain")
    /\ \E result \in {"completed", "failed"} :
          /\ exec' = [exec EXCEPT ![m][j] = [@ EXCEPT !.pc = "cleanup", !.result = result]]
          /\ done' = IF result = "completed" THEN done \union {j} ELSE done
    /\ UNCHANGED <<jobs, cancels, phase, began>>

(* Whoever asked for the stop has settled the job, or it was a shutdown.    *)
Cleanup(m, j) ==
    /\ At(m, j, "cleanup")
    /\ IF exec[m][j].stop \in {"user", "lost"} THEN Goto(m, j, "none")
       ELSE exec' = [exec EXCEPT ![m][j] =
               [@ EXCEPT !.pc = "last",
                         !.result = IF exec[m][j].result = "completed"
                                    THEN "completed" ELSE "failed"]]
    /\ UNCHANGED <<jobs, cancels, phase, began, done>>

(* Mutant: whatever became of the job.                                      *)
FinishBlind(m, j) ==
    /\ exec[m][j].pc \in {"finish", "last"}
    /\ jobs' = [jobs EXCEPT ![j] =
          Row(exec[m][j].result, IF exec[m][j].result = "failed" THEN "failed" ELSE "none")]
    /\ Goto(m, j, "none")
    /\ UNCHANGED <<cancels, phase, began, done>>

(* finish_owned_job; an error is logged and the job left to the reaper.     *)
Finish(m, j) ==
    /\ exec[m][j].pc \in {"finish", "last"}
    /\ \/ /\ Owns(m, j)
          /\ jobs' = [jobs EXCEPT ![j] =
                Row(exec[m][j].result, IF exec[m][j].result = "failed" THEN "failed" ELSE "none")]
       \/ ~Owns(m, j) /\ UNCHANGED jobs
       \/ "db" \in Faults /\ UNCHANGED jobs
    /\ Goto(m, j, "none")
    /\ UNCHANGED <<cancels, phase, began, done>>
----------------------------------------------------------------------------
(* Leases, the reaper, and managers that stop.                              *)

LeaseExpires(j) ==
    /\ jobs[j].state = "running" /\ jobs[j].live
    /\ ~Working(jobs[j].owner, j) \/ "slow" \in Faults
    /\ jobs' = [jobs EXCEPT ![j].live = FALSE]
    /\ UNCHANGED <<exec, cancels, phase, began, done>>

(* fail_expired_jobs.                                                       *)
Reaped ==
    [j \in Jobs |-> IF jobs[j].state = "running" /\ ~jobs[j].live
                    THEN Row("failed", "interrupted") ELSE jobs[j]]

(* Mutant: only a job whose owner is gone from this manager is failed.      *)
ReapOwn(m) ==
    /\ phase[m] # "down"
    /\ \E j \in Jobs : jobs[j].state = "running" /\ ~jobs[j].live /\ jobs[j].owner = m
    /\ jobs' = [j \in Jobs |-> IF jobs[j].owner = m THEN Reaped[j] ELSE jobs[j]]
    /\ UNCHANGED <<exec, cancels, phase, began, done>>

Reap(m) ==
    /\ phase[m] # "down"
    /\ \E j \in Jobs : jobs[j].state = "running" /\ ~jobs[j].live
    /\ jobs' = Reaped
    /\ UNCHANGED <<exec, cancels, phase, began, done>>

Crash(m) ==
    /\ m \in Unsteady
    /\ phase[m] # "down"
    /\ phase' = [phase EXCEPT ![m] = "down"]
    /\ exec' = [exec EXCEPT ![m] = [j \in Jobs |-> NoExec]]
    /\ cancels' = [cancels EXCEPT ![m] = [j \in Jobs |-> "idle"]]
    /\ UNCHANGED <<jobs, began, done>>

(* start: what was interrupted is failed before anything is claimed.        *)
Start(m) ==
    /\ phase[m] = "down"
    /\ phase' = [phase EXCEPT ![m] = "up"]
    /\ jobs' = Reaped
    /\ UNCHANGED <<exec, cancels, began, done>>

(* aclose: cancel requests under way are waited for, ...                    *)
Close(m) ==
    /\ m \in Unsteady
    /\ phase[m] = "up"
    /\ phase' = [phase EXCEPT ![m] = "closing"]
    /\ UNCHANGED <<jobs, exec, cancels, began, done>>

(* ... then every execution is asked to stop and waited for, ...            *)
StopAll(m) ==
    /\ phase[m] = "closing"
    /\ \A j \in Jobs : cancels[m][j] \in {"idle", "returned"}
    /\ phase' = [phase EXCEPT ![m] = "stopping"]
    /\ exec' = [exec EXCEPT ![m] =
                  [j \in Jobs |-> IF Registered(m, j) THEN Stopped(@[j], "shutdown") ELSE @[j]]]
    /\ UNCHANGED <<jobs, cancels, began, done>>

(* ... then the workers are cancelled, with what they may have claimed      *)
(* since, and the reaper.                                                   *)
CancelWorkers(m) ==
    /\ phase[m] = "stopping"
    /\ \A j \in Jobs : exec[m][j].stop # "shutdown"
    /\ phase' = [phase EXCEPT ![m] = "cancelling"]
    /\ exec' = [exec EXCEPT ![m] =
                  [j \in Jobs |-> IF Registered(m, j) THEN Stopped(@[j], "worker") ELSE NoExec]]
    /\ UNCHANGED <<jobs, cancels, began, done>>

Closed(m) ==
    /\ phase[m] = "cancelling"
    /\ \A j \in Jobs : At(m, j, "none")
    /\ phase' = [phase EXCEPT ![m] = "down"]
    /\ UNCHANGED <<jobs, exec, cancels, began, done>>
----------------------------------------------------------------------------
Run(m, j) ==
    \/ Register(m, j) \/ Revalidate(m, j) \/ Ready(m, j) \/ WorkEnds(m, j)
    \/ Interrupt(m, j) \/ InterruptFinish(m, j) \/ Drain(m, j) \/ Cleanup(m, j)
    \/ Finish(m, j)

Request(m, j) == Enqueue(m, j) \/ Cancel(m, j) \/ Signal(m, j) \/ Awaited(m, j)

Life(m) ==
    \/ Crash(m) \/ Start(m) \/ Close(m) \/ StopAll(m) \/ CancelWorkers(m) \/ Closed(m)

Next ==
    \/ \E m \in Managers, j \in Jobs :
          Request(m, j) \/ Claim(m, j) \/ Run(m, j) \/ Beat(m, j)
    \/ \E j \in Jobs : LeaseExpires(j)
    \/ \E m \in Managers : Reap(m) \/ Life(m)

Spec == Init /\ [][Next]_vars

(* Workers and reapers run while their manager does; work ends; a lease     *)
(* nobody renews expires.                                                   *)
Fairness ==
    /\ \A m \in Managers :
          /\ WF_vars(Reap(m))
          /\ WF_vars(\E j \in Jobs : Claim(m, j))
          /\ \A j \in Jobs : WF_vars(Run(m, j))
    /\ \A j \in Jobs : WF_vars(LeaseExpires(j))

FairSpec == Spec /\ Fairness
----------------------------------------------------------------------------
(* No job's work is begun twice, whatever crashes, expires or is asked for  *)
(* again: an apply moves files, and a job that was interrupted is failed,   *)
(* not queued anew.                                                         *)
BegunOnce == \A j \in Jobs : began[j] <= 1

(* Once a cancel request has been answered, this manager is not at work on  *)
(* the job and never will be, even if it had claimed the job and not yet    *)
(* registered the execution when the cancel looked for one.                 *)
CancelStopped ==
    \A m \in Managers, j \in Jobs : cancels[m][j] = "returned" => ~Working(m, j)

(* A job reported as completed had all its work done, also when a shutdown  *)
(* interrupted it.                                                          *)
CompletedIsDone == \A j \in Jobs : jobs[j].state = "completed" => j \in done

(* What is said of a job's work is so, whichever manager says it.           *)
WorkAccounted == JobTypeOK /\ BegunOnce /\ CancelStopped /\ CompletedIsDone

(* What a job ended with stays: a finish, a reap or a cancel that comes too *)
(* late changes nothing.                                                    *)
OutcomeStays ==
    [][\A j \in Jobs : jobs[j].state \in Terminal => jobs'[j] = jobs[j]]_vars

(* Every job that was accepted ends.                                        *)
JobConcluded == \A j \in Jobs : jobs[j].state \in Active ~> jobs[j].state \in Terminal
============================================================================
