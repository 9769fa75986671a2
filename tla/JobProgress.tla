----------------------------- MODULE JobProgress -----------------------------
(***************************************************************************)
(* How far a job has come, as its row says (_OwnedProgressReporter of      *)
(* fill_actor/jobs.py): reports are kept at once and written at most once  *)
(* an interval, by the report itself or by a timer, under one lock; a      *)
(* finish closes the reporter and writes the last of them with the         *)
(* outcome.  Reports are numbered; a database statement is a step of its   *)
(* own, with the lock held.                                                *)
(***************************************************************************)
EXTENDS Naturals

CONSTANTS
    MaxReports,     \* bound on the reports of the job
    MaxFailures     \* bound on the statements that fail

ASSUME ProgressAssumption == MaxReports \in Nat /\ MaxFailures \in Nat

VARIABLES
    reported,       \* _current: the last report taken
    shown,          \* the report in the row
    jobRow,         \* "running" for this manager, "taken" from it, or "ended" by it
    dirty,          \* _dirty
    owned,          \* _owned
    recent,         \* _last_flush is less than the interval ago
    timer,          \* _timer: "none", "asleep", "awake" (wants the lock)
    lock,           \* who is writing: "none", "report" or "timer"
    course,           \* "going", "over" (interrupted or at its end), "closed", "gone"
    failures

reporter == <<reported, dirty, owned, recent, timer>>
progressVars == <<reported, shown, jobRow, dirty, owned, recent, timer, lock, course, failures>>

ProgressInit ==
    /\ reported = 0 /\ shown = 0
    /\ jobRow = "running"
    /\ dirty = FALSE /\ owned = TRUE /\ recent = FALSE
    /\ timer = "none" /\ lock = "none"
    /\ course = "going"
    /\ failures = 0
----------------------------------------------------------------------------
(* _schedule_locked.                                                        *)
Scheduled == IF timer = "none" THEN "asleep" ELSE timer

(* __call__: a new scope, or a report after the interval, is written at     *)
(* once, any other by the timer.                                            *)
Report ==
    /\ course = "going" /\ lock = "none"
    /\ owned
    /\ reported < MaxReports
    /\ reported' = reported + 1
    /\ dirty' = TRUE
    /\ \E scopeChanged \in BOOLEAN :
          IF scopeChanged \/ ~recent
          THEN lock' = "report" /\ timer' = timer
          ELSE lock' = "none" /\ timer' = Scheduled
    /\ UNCHANGED <<shown, jobRow, owned, recent, course, failures>>

(* _flush_locked, its statement answered: the row may be another's by now.  *)
Flushed ==
    /\ lock # "none"
    /\ dirty' = FALSE
    /\ IF jobRow = "running"
       THEN shown' = reported /\ recent' = TRUE /\ owned' = owned
       ELSE owned' = FALSE /\ UNCHANGED <<shown, recent>>
    /\ lock' = "none"
    /\ UNCHANGED <<reported, jobRow, timer, course, failures>>

(* Mutant: the next report will write it.                                   *)
FlushFailsQuietly ==
    /\ lock # "none"
    /\ failures < MaxFailures
    /\ failures' = failures + 1
    /\ recent' = TRUE
    /\ lock' = "none"
    /\ UNCHANGED <<reported, shown, jobRow, dirty, owned, timer, course>>

(* ... or failed, whether or not the row has it: it is tried again.         *)
FlushFails ==
    /\ lock # "none"
    /\ failures < MaxFailures
    /\ failures' = failures + 1
    /\ shown' \in {shown} \union {n \in {reported} : jobRow = "running"}
    /\ recent' = TRUE
    /\ timer' = Scheduled
    /\ lock' = "none"
    /\ UNCHANGED <<reported, jobRow, dirty, owned, course>>

(* _flush_after: the timer sleeps out the interval, ...                     *)
IntervalPasses ==
    /\ recent \/ timer = "asleep"
    /\ recent' = FALSE
    /\ timer' = IF timer = "asleep" THEN "awake" ELSE timer
    /\ UNCHANGED <<reported, shown, jobRow, dirty, owned, lock, course, failures>>

(* ... then takes the lock, and writes what nobody has written since.       *)
TimerTakesLock ==
    /\ timer = "awake" /\ lock = "none"
    /\ timer' = "none"
    /\ lock' = IF dirty /\ owned /\ course # "closed" THEN "timer" ELSE "none"
    /\ UNCHANGED <<reported, shown, jobRow, dirty, owned, recent, course, failures>>

(* The task is cancelled, possibly while its report is being written.       *)
Interrupted ==
    /\ course = "going"
    /\ course' = "over"
    /\ IF lock = "report"
       THEN lock' = "none" /\ shown' \in {shown} \union {n \in {reported} : jobRow = "running"}
       ELSE UNCHANGED <<lock, shown>>
    /\ UNCHANGED <<reporter, jobRow, failures>>

WorkOver ==
    /\ course = "going" /\ lock # "report"
    /\ course' = "over"
    /\ UNCHANGED <<reporter, shown, jobRow, lock, failures>>

(* finish: the reporter is closed and its timer ended, ...                  *)
FinishCloses ==
    /\ course = "over" /\ lock = "none"
    /\ course' = "closed"
    /\ timer' = "none"
    /\ UNCHANGED <<reported, shown, jobRow, dirty, owned, recent, lock, failures>>

(* ... and the outcome written with the last report, if the row is still    *)
(* this manager's.                                                          *)
FinishWrites ==
    /\ course = "closed"
    /\ course' = "gone"
    /\ \/ /\ owned /\ jobRow = "running"
          /\ jobRow' = "ended" /\ shown' = reported /\ UNCHANGED failures
       \/ ~(owned /\ jobRow = "running") /\ UNCHANGED <<jobRow, shown, failures>>
       \/ /\ failures < MaxFailures
          /\ failures' = failures + 1 /\ UNCHANGED <<jobRow, shown>>
    /\ UNCHANGED <<reporter, lock>>

(* The job is cancelled, or fails as its lease ran out: the row keeps what  *)
(* it shows.                                                                *)
Taken ==
    /\ jobRow = "running"
    /\ jobRow' = "taken"
    /\ UNCHANGED <<reporter, shown, lock, course, failures>>

(* mark_unowned, by a heartbeat that was refused; the task is then stopped. *)
MarkUnowned ==
    /\ jobRow = "taken" /\ owned /\ lock = "none" /\ course = "going"
    /\ owned' = FALSE /\ dirty' = FALSE /\ timer' = "none"
    /\ course' = "over"
    /\ UNCHANGED <<reported, shown, jobRow, recent, lock, failures>>

ProgressNext ==
    \/ Report \/ Flushed \/ FlushFails \/ IntervalPasses \/ TimerTakesLock
    \/ Interrupted \/ WorkOver \/ FinishCloses \/ FinishWrites
    \/ Taken \/ MarkUnowned

(* Statements are answered, time passes, a task that is over is finished,   *)
(* and a row nobody renews is failed.                                       *)
ProgressFairness ==
    /\ WF_progressVars(Flushed \/ FlushFails)
    /\ WF_progressVars(IntervalPasses) /\ WF_progressVars(TimerTakesLock)
    /\ WF_progressVars(FinishCloses) /\ WF_progressVars(FinishWrites)
    /\ WF_progressVars(course = "gone" /\ Taken)

ProgressSpec == ProgressInit /\ [][ProgressNext]_progressVars /\ ProgressFairness
----------------------------------------------------------------------------
(* What was reported is shown before long while the job goes on, and with   *)
(* its outcome once it ends, although writes are held back, fail, or are    *)
(* cut off with the task: only a row that was taken away may show less.     *)
ProgressShown ==
    \A n \in 1 .. MaxReports :
        reported = n ~> shown >= n \/ jobRow = "taken"
============================================================================
