---------------------------- MODULE MCBackground ----------------------------
(* What runs in the background and has to get there in the end, one of these parts *)
(* at work in a behaviour: the fill actor's jobs and the reports of their progress, *)
(* the scheduler with the mapping pipeline, the playlists, and lists of titles.     *)
EXTENDS JobQueue, JobProgress, MonitorScheduler, PlaylistSync, TitleBatches, TLC

CONSTANTS m1, m2, l1, l2, v1, v2, a1, a2

\* The second database drops a list and turns the other around.
MCRanking == << l1 :> <<v1, v2>> @@ l2 :> <<v2>>, l1 :> <<v2, v1>> >>

\* A gap of two titles, the first of which an operator pastes after a line of nonsense.
MCGap == <<a1, a2>>
MCPasted == <<Junk, a1>>

VARIABLE subject
backgroundVars == <<subject, vars, progressVars, schedVars, playlistVars, batchVars>>

\* No titles, and lists of the published version that are empty.
PlaylistsAtRest ==
    /\ list = [l \in Lists |-> [there |-> FALSE, enabled |-> TRUE, version |-> 1, id |-> NoPlaylist, error |-> FALSE]]
    /\ stored = 1 /\ published = 1 /\ library = {} /\ sync = NotRunning /\ mishaps = 0
    /\ server = [p \in PlaylistIds |-> NoPlaylist]

BackgroundInit ==
    /\ subject \in {"jobs", "reports", "scheduler", "playlists", "batches"}
    /\ Init /\ ProgressInit
    /\ SchedInit /\ (subject # "scheduler" => \A f \in Paths : source[f] = Absent)
    /\ IF subject = "playlists" THEN PlaylistInit ELSE PlaylistsAtRest
    /\ BatchInit /\ (subject # "batches" => shelf = {} /\ \A a \in Avids : rows[a].state = "absent")

BackgroundNext ==
    /\ UNCHANGED subject
    /\ \/ subject = "jobs" /\ Next /\ UNCHANGED <<progressVars, schedVars, playlistVars, batchVars>>
       \/ subject = "reports" /\ ProgressNext /\ UNCHANGED <<vars, schedVars, playlistVars, batchVars>>
       \/ subject = "scheduler" /\ SchedNext /\ UNCHANGED <<vars, progressVars, playlistVars, batchVars>>
       \/ subject = "playlists" /\ PlaylistNext /\ UNCHANGED <<vars, progressVars, schedVars, batchVars>>
       \/ subject = "batches" /\ BatchNext /\ UNCHANGED <<vars, progressVars, schedVars, playlistVars>>

\* The fairness of each part, while it is at work.
JobsFair ==
    /\ \A m \in Managers :
          /\ WF_vars(subject = "jobs" /\ Reap(m))
          /\ WF_vars(subject = "jobs" /\ \E j \in Jobs : Claim(m, j))
          /\ \A j \in Jobs : WF_vars(subject = "jobs" /\ Run(m, j))
    /\ \A j \in Jobs : WF_vars(subject = "jobs" /\ LeaseExpires(j))

ReportsFair ==
    /\ WF_progressVars(subject = "reports" /\ (Flushed \/ FlushFails))
    /\ WF_progressVars(subject = "reports" /\ IntervalPasses)
    /\ WF_progressVars(subject = "reports" /\ TimerTakesLock)
    /\ WF_progressVars(subject = "reports" /\ FinishCloses)
    /\ WF_progressVars(subject = "reports" /\ FinishWrites)
    /\ WF_progressVars(subject = "reports" /\ course = "gone" /\ Taken)

SchedulerFair ==
    /\ \A p \in Pipelines : WF_schedVars(subject = "scheduler" /\ ManualBegins(p))
                            /\ WF_schedVars(subject = "scheduler" /\ Executes(p))
    /\ WF_schedVars(subject = "scheduler" /\ MappingWork)
    /\ WF_schedVars(subject = "scheduler" /\ SyncObserver)
    /\ WF_schedVars(subject = "scheduler" /\ StartupSync)
    /\ SF_schedVars(subject = "scheduler" /\ FullSync)
    /\ WF_schedVars(subject = "scheduler" /\ TakeBatch)
    /\ WF_schedVars(subject = "scheduler" /\ OnEvent)
    /\ WF_schedVars(subject = "scheduler" /\ Debounced)
    /\ WF_schedVars(subject = "scheduler" /\ FullSyncDue)
    /\ WF_schedVars(subject = "scheduler" /\ ClosedDown)
    /\ WF_schedVars(subject = "scheduler" /\ Restart)

PlaylistsFair ==
    WF_playlistVars(subject = "playlists" /\ SyncStarts) /\ WF_playlistVars(subject = "playlists" /\ SyncSteps)

BatchesFair ==
    /\ \A b \in Batches : WF_batchVars(subject = "batches" /\ Step(b))
    /\ \A a \in Avids : WF_batchVars(subject = "batches" /\ RetryDue(a))

BackgroundSpec ==
    BackgroundInit /\ [][BackgroundNext]_backgroundVars
    /\ JobsFair /\ ReportsFair /\ SchedulerFair /\ PlaylistsFair /\ BatchesFair
=============================================================================
