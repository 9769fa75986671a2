----------------------------- MODULE TrackerWake -----------------------------
(***************************************************************************)
(* When the tracker polls (monitor/scheduler.py): a loop that polls on an  *)
(* interval, and whose sleep a submission cuts short to take a burst of    *)
(* fast checks at fixed offsets after it.  Time is the monotonic clock in  *)
(* ticks; what happens within a tick may happen in any order.              *)
(***************************************************************************)
EXTENDS Naturals, FiniteSets, FiniteSetsExt

CONSTANTS
    FastChecks,       \* TRACKER_FAST_CHECKS_SECONDS
    MergeWithin,      \* TRACKER_SUBMISSION_MERGE_SECONDS
    Interval,         \* tracker_interval_seconds
    MaxPoll,          \* how long a poll takes at most
    MaxTime,          \* bound on the clock
    MaxSubmissions,   \* bound on the magnets queued
    Crossing          \* whether a submission may come as a check falls due

ASSUME WakeAssumption ==
    /\ FastChecks \subseteq Nat \ {0} /\ \E last \in FastChecks : \A o \in FastChecks : o <= last
    /\ MergeWithin \in Nat \ {0} /\ \A o \in FastChecks : MergeWithin <= o
    /\ Interval \in Nat \ {0}
    /\ MaxPoll \in Nat
    /\ Crossing \in BOOLEAN

VARIABLES
    now,              \* time.monotonic()
    loop,             \* "polling" or "sleeping"
    since,            \* when the poll, or the sleep, began
    regular,          \* regular_at: the deadline of the interval
    due,              \* when the sleep ends
    submittedAt,      \* _tracker_submitted_at
    submission,       \* the event _tracker_submission
    owed,             \* when the magnets were queued that no poll has begun after
    queued            \* how many were queued

wakeVars == <<now, loop, since, regular, due, submittedAt, submission, owed, queued>>

WakeInit ==
    /\ now = 0 /\ loop = "polling" /\ since = 0
    /\ regular = Interval /\ due = 0
    /\ submittedAt = {} /\ submission = FALSE
    /\ owed = {} /\ queued = 0
----------------------------------------------------------------------------
(* The bursts still running, and the deadlines still ahead of now.          *)
Recent == {t \in submittedAt : now - t < Max(FastChecks)}

PendingFastChecks ==
    {t + o : t \in Recent, o \in FastChecks} \ 0 .. now

(* Mutant: only the first check of a burst is made.                         *)
SleepToFirst ==
    /\ submission' = FALSE
    /\ submittedAt' = Recent
    /\ due' = Min({regular'} \union ({t + Min(FastChecks) : t \in Recent} \ 0 .. now))

(* Every turn of _wait_next_tracker_poll.                                   *)
Sleep ==
    /\ submission' = FALSE
    /\ submittedAt' = Recent
    /\ due' = Min({regular'} \union PendingFastChecks)

(* notify_submission: a magnet queued just after another shares its burst.  *)
NotifySubmission ==
    /\ queued < MaxSubmissions
    /\ loop = "sleeping" /\ now >= due => Crossing
    /\ submittedAt' = IF submittedAt # {} /\ now - Max(submittedAt) < MergeWithin
                      THEN submittedAt ELSE submittedAt \union {now}
    /\ submission' = TRUE
    /\ owed' = owed \union {now}
    /\ queued' = queued + 1
    /\ UNCHANGED <<now, loop, since, regular, due>>

(* A poll has ended, in whatever way, or was skipped because the tracker is *)
(* not configured: the interval runs from here.                             *)
PollEnds ==
    /\ loop = "polling"
    /\ regular' = now + Interval
    /\ Sleep
    /\ loop' = "sleeping" /\ since' = now
    /\ UNCHANGED <<now, owed, queued>>

(* Woken by a submission: the sleep goes on to what is due now, unless that *)
(* is past.                                                                 *)
WokenBySubmission ==
    /\ loop = "sleeping" /\ submission
    /\ regular' = regular
    /\ Sleep
    /\ UNCHANGED <<now, loop, since, owed, queued>>

(* The sleep is over.                                                       *)
PollBegins ==
    /\ loop = "sleeping" /\ ~submission /\ now >= due
    /\ loop' = "polling" /\ since' = now
    /\ owed' = {}
    /\ UNCHANGED <<now, regular, due, submittedAt, submission, queued>>

(* The loop wakes at its deadline and takes an event at once.               *)
Tick ==
    /\ now < MaxTime
    /\ loop = "polling" => now < since + MaxPoll
    /\ loop = "sleeping" => now < due /\ ~submission
    /\ now' = now + 1
    /\ UNCHANGED <<loop, since, regular, due, submittedAt, submission, owed, queued>>

WakeNext == NotifySubmission \/ PollEnds \/ WokenBySubmission \/ PollBegins \/ Tick

WakeSpec == WakeInit /\ [][WakeNext]_wakeVars
----------------------------------------------------------------------------
(* The sleep never lasts past the interval, nor past a fast check of a      *)
(* magnet no poll has begun after, whatever else was submitted meanwhile    *)
(* and whether or not it shares a burst: only checks that fell into a poll  *)
(* under way, or within MergeWithin of its end, are missed.                 *)
SubmissionPolled ==
    loop = "sleeping" =>
        /\ due <= regular /\ regular = since + Interval
        /\ ~submission => \A s \in owed, o \in FastChecks :
              s + o >= since + MergeWithin => due <= s + o
============================================================================
