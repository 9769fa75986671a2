-------------------------- MODULE MonitorScheduler --------------------------
(***************************************************************************)
(* The monitor scheduler of one process: the runs of its pipelines under   *)
(* their locks, and the mapping pipeline, which mirrors a tree of .strm    *)
(* files by full syncs and by debounced batches of watchdog events.  A     *)
(* path of the source stands for the mirrored file it maps to.             *)
(***************************************************************************)
EXTENDS Naturals, Sequences, FiniteSets

CONSTANTS Others,       \* the pipelines besides mapping; their work is opaque
          Paths,        \* the .strm paths of the source tree
          Versions,     \* what a file can hold
          Absent,       \* a file that is not there
          MaxEdits,     \* bound: changes of the source tree
          MaxTriggers,  \* bound: requests of the operator, and periodic runs of the others
          MaxTrouble    \* bound: failures, configuration edits, ends of the process

Pipelines == Others \cup {"mapping"}
Files == [Paths -> Versions \cup {Absent}]
Ended == {"completed", "failed", "cancelled"}

VARIABLES
    process,    \* the process: "up", "closing", "down"
    row,        \* row[p]: the state of the latest run of p in pipeline_runs
    run,        \* run[p]: who holds the lock of p, and where its run stands
    caller,     \* caller[p]: the operator's request to trigger p
    loop,       \* the mapping loop: "startup" until a full sync completed
    due,        \* whether the next full sync is due
    enabled,    \* whether mapping is enabled and runnable
    watching,   \* whether the observer runs
    source, mirror,
    events,     \* watchdog events on their way to the event loop
    changed, deleted,   \* the pending paths
    quiet,      \* whether the debounce time has passed since the last event
    noisy,      \* whether an event came since the scheduled full sync began
    work,       \* the paths the running sync still has to treat
    lost,       \* the paths whose change nothing pending tells of (for the properties)
    edits, triggers, trouble    \* what the bounds count

runVars == <<process, row, run, caller>>
treeVars == <<source, mirror, events>>
pendingVars == <<changed, deleted, quiet, noisy>>
loopVars == <<loop, due, enabled, watching>>
boundVars == <<edits, triggers, trouble>>
schedVars == <<runVars, treeVars, pendingVars, loopVars, work, lost, boundVars>>

Free == [pc |-> "free", by |-> "none", kind |-> "none", stop |-> FALSE, result |-> "none"]
NoWork == [up |-> {}, gone |-> {}, upFailed |-> {}, goneFailed |-> {}]

SchedInit ==
    /\ process = "up"
    /\ row = [p \in Pipelines |-> "none"]
    /\ run = [p \in Pipelines |-> Free]
    /\ caller = [p \in Pipelines |-> "none"]
    /\ loop = "startup"
    /\ due = FALSE /\ enabled = TRUE /\ watching = FALSE
    /\ source \in Files
    /\ mirror = [p \in Paths |-> Absent]
    /\ events = <<>>
    /\ changed = {} /\ deleted = {} /\ quiet = TRUE /\ noisy = FALSE
    /\ work = NoWork
    /\ lost = {p \in Paths : source[p] # Absent}
    /\ edits = 0 /\ triggers = 0 /\ trouble = 0

Trouble == trouble < MaxTrouble /\ trouble' = trouble + 1

-----------------------------------------------------------------------------
(* Runs *)

\* _execute up to its first await: a held lock is answered at once.
BeginRun(p, by, kind) ==
    /\ run[p].pc = "free"
    /\ run' = [run EXCEPT ![p] = [Free EXCEPT !.pc = "starting", !.by = by, !.kind = kind]]

Tell(p, answer) == caller' = [caller EXCEPT ![p] = IF @ = "waiting" /\ run[p].by = "manual" THEN answer ELSE @]

\* The operator's trigger checks the lock and creates the task.
Trigger(p) ==
    /\ process = "up" /\ triggers < MaxTriggers /\ caller[p] # "waiting"
    /\ p = "mapping" => enabled
    /\ triggers' = triggers + 1
    /\ caller' = [caller EXCEPT ![p] = IF run[p].pc = "free" THEN "waiting" ELSE "busy"]
    /\ UNCHANGED <<process, row, run, treeVars, pendingVars, loopVars, work, lost, edits, trouble>>

\* Mutant: a task that finds the lock held returns without a word.
ManualBeginsSilent(p) ==
    /\ process = "up" /\ caller[p] = "waiting"
    /\ BeginRun(p, "manual", IF p = "mapping" THEN "full" ELSE "plain")
    /\ UNCHANGED <<process, row, caller, treeVars, pendingVars, loopVars, work, lost, boundVars>>

\* The task the trigger created takes its first step.
ManualBegins(p) ==
    /\ process = "up" /\ caller[p] = "waiting"
    /\ \/ /\ BeginRun(p, "manual", IF p = "mapping" THEN "full" ELSE "plain")
          /\ UNCHANGED caller
       \/ /\ run[p].pc # "free" /\ run[p].by = "loop"
          /\ caller' = [caller EXCEPT ![p] = "busy"]
          /\ UNCHANGED run
    /\ UNCHANGED <<process, row, treeVars, pendingVars, loopVars, work, lost, boundVars>>

\* start_run answers; the work of a mapping run begins.
StartRun(p) ==
    /\ process = "up" /\ run[p].pc = "starting"
    /\ run' = [run EXCEPT ![p].pc = "running"]
    /\ row' = [row EXCEPT ![p] = "running"]
    /\ Tell(p, "told")
    /\ work' = IF p # "mapping" \/ run[p].kind = "batch" THEN work
               ELSE [NoWork EXCEPT !.up = Paths, !.gone = Paths]
    /\ UNCHANGED <<process, treeVars, pendingVars, loopVars, lost, boundVars>>

Reschedule == due' = FALSE

\* Mutant: a full sync has what is pending behind it whatever came in during it.
LoopReturnsSure(kind, result) ==
    /\ loop' = IF kind = "startup" /\ result = "completed" THEN "regular" ELSE loop
    /\ IF kind = "full" /\ result = "completed"
       THEN changed' = {} /\ deleted' = {}
       ELSE UNCHANGED <<changed, deleted>>
    /\ IF kind = "batch" THEN UNCHANGED due ELSE Reschedule
    /\ UNCHANGED <<enabled, watching, quiet, noisy>>

\* What the mapping loop does when _execute returns it result, "none" included.
LoopReturns(kind, result) ==
    /\ loop' = IF kind = "startup" /\ result = "completed" THEN "regular" ELSE loop
    /\ IF kind = "full" /\ result = "completed" /\ ~noisy
       THEN changed' = {} /\ deleted' = {}
       ELSE UNCHANGED <<changed, deleted>>
    /\ IF kind = "batch" THEN UNCHANGED due ELSE Reschedule
    /\ UNCHANGED <<enabled, watching, quiet, noisy>>

LoopOrNot(p, result) ==
    IF p = "mapping" /\ run[p].by = "loop" THEN LoopReturns(run[p].kind, result)
                                           ELSE UNCHANGED <<loopVars, pendingVars>>

\* The INSERT fails: no run, and the batch that was taken for it is gone.
StartRunFails(p) ==
    /\ process = "up" /\ run[p].pc = "starting" /\ Trouble
    /\ run' = [run EXCEPT ![p] = Free]
    /\ Tell(p, "error")
    /\ LoopOrNot(p, "none")
    /\ IF p = "mapping" THEN lost' = lost \cup work.up \cup work.gone /\ work' = NoWork
                        ELSE UNCHANGED <<lost, work>>
    /\ UNCHANGED <<process, row, treeVars, edits, triggers>>

\* cancel_running, for a run that is active.
CancelRun(p) ==
    /\ process = "up" /\ run[p].pc = "running" /\ ~run[p].stop /\ triggers < MaxTriggers
    /\ triggers' = triggers + 1
    /\ run' = [run EXCEPT ![p].stop = TRUE]
    /\ UNCHANGED <<process, row, caller, treeVars, pendingVars, loopVars, work, lost, edits, trouble>>

\* The work of a run ends, in whatever way; what is left of a mapping batch is dropped.
Leave(p, result) ==
    /\ run' = [run EXCEPT ![p].pc = "finishing", ![p].result = result]
    /\ IF p = "mapping"
       THEN lost' = (IF run[p].kind = "batch" /\ result # "completed"
                     THEN lost \cup work.up \cup work.gone \cup work.upFailed \cup work.goneFailed
                     ELSE lost)
            /\ work' = NoWork
       ELSE UNCHANGED <<lost, work>>

OtherEnds(p) ==
    /\ p # "mapping" /\ run[p].pc = "running"
    /\ \/ Leave(p, "completed") /\ UNCHANGED trouble
       \/ Leave(p, "failed") /\ Trouble
       \/ run[p].stop /\ Leave(p, "cancelled") /\ UNCHANGED trouble
    /\ UNCHANGED <<process, row, caller, treeVars, pendingVars, loopVars, edits, triggers>>

\* check_cancelled, before every path.
StopHeeded ==
    /\ run["mapping"].pc = "running" /\ run["mapping"].stop
    /\ work.up \cup work.gone # {}
    /\ Leave("mapping", "cancelled")
    /\ UNCHANGED <<process, row, caller, treeVars, pendingVars, loopVars, boundVars>>

\* finish_run is written, or fails and is suppressed; the lock is released and
\* the loop goes on.
FinishRun(p) ==
    /\ run[p].pc = "finishing"
    /\ \/ row' = [row EXCEPT ![p] = run[p].result] /\ UNCHANGED trouble
       \/ UNCHANGED row /\ Trouble
    /\ run' = [run EXCEPT ![p] = Free]
    /\ LoopOrNot(p, run[p].result)
    /\ UNCHANGED <<process, caller, treeVars, work, lost, edits, triggers>>

\* The periodic loops of the other pipelines.
LoopRuns(p) ==
    /\ process = "up" /\ p # "mapping" /\ triggers < MaxTriggers
    /\ triggers' = triggers + 1
    /\ BeginRun(p, "loop", "plain")
    /\ UNCHANGED <<process, row, caller, treeVars, pendingVars, loopVars, work, lost, edits, trouble>>

-----------------------------------------------------------------------------
(* The mapping pipeline, in its thread *)

Pending == changed \cup deleted \cup {events[i][1] : i \in DOMAIN events}
              \cup work.up \cup work.gone \cup work.upFailed \cup work.goneFailed

\* A loss is made good once the file is right and nothing pending may change that.
Stale(f) == mirror[f] # source[f] \/ f \in Pending

Mapping == run["mapping"].pc = "running" /\ ~run["mapping"].stop
Batch == run["mapping"].kind = "batch"

\* update_one: a source that is there is copied, one that is not is skipped.
UpdateOne(f) ==
    /\ Mapping /\ f \in work.up /\ (Batch => work.gone = {})
    /\ work' = [work EXCEPT !.up = @ \ {f}]
    /\ mirror' = IF source[f] = Absent THEN mirror ELSE [mirror EXCEPT ![f] = source[f]]
    /\ UNCHANGED <<runVars, source, events, pendingVars, loopVars, boundVars>>
    /\ lost' = {g \in lost : Stale(g)'}

\* delete_one deletes without a look at the source; _delete_strays looks.
DeleteOne(f) ==
    /\ Mapping /\ f \in work.gone /\ (~Batch => work.up = {})
    /\ work' = [work EXCEPT !.gone = @ \ {f}]
    /\ mirror' = IF Batch \/ source[f] = Absent THEN [mirror EXCEPT ![f] = Absent] ELSE mirror
    /\ UNCHANGED <<runVars, source, events, pendingVars, loopVars, boundVars>>
    /\ lost' = {g \in lost : Stale(g)'}

\* A path fails: a batch goes on without it, a full sync ends.
PathFails(f) ==
    /\ Mapping /\ Trouble
    /\ IF Batch
       THEN /\ \/ f \in work.gone /\ work' = [work EXCEPT !.gone = @ \ {f}, !.goneFailed = @ \cup {f}]
               \/ /\ f \in work.up /\ work.gone = {}
                  /\ work' = [work EXCEPT !.up = @ \ {f}, !.upFailed = @ \cup {f}]
            /\ UNCHANGED <<run, lost>>
       ELSE /\ f \in (IF work.up # {} THEN work.up ELSE work.gone)
            /\ Leave("mapping", "failed")
    /\ UNCHANGED <<process, row, caller, treeVars, pendingVars, loopVars, edits, triggers>>

\* The thread returns; the failed paths of a batch are pending again, a deletion
\* also if its file came back in the meantime: that one will undo the update.
Synced ==
    /\ run["mapping"].pc = "running" /\ work.up \cup work.gone = {}
    /\ run' = [run EXCEPT !["mapping"].pc = "finishing", !["mapping"].result = "completed"]
    /\ work' = NoWork
    /\ changed' = changed \cup work.upFailed
    /\ deleted' = deleted \cup work.goneFailed
    /\ quiet' = IF work.upFailed \cup work.goneFailed = {} THEN quiet ELSE FALSE
    /\ lost' = lost \cup {f \in work.goneFailed : source[f] # Absent}
    /\ UNCHANGED <<process, row, caller, treeVars, noisy, loopVars, boundVars>>

-----------------------------------------------------------------------------
(* The mapping loop and its observer *)

\* _sync_observer, at the head of every round.  Events the observer holds may
\* be dropped when it is stopped.
SyncObserver ==
    /\ process = "up" /\ watching # enabled /\ run["mapping"].by # "loop"
    /\ watching' = enabled
    /\ IF enabled THEN UNCHANGED <<events, lost>>
       ELSE \E n \in 0 .. Len(events) :
               /\ events' = SubSeq(events, 1, n)
               /\ lost' = lost \cup {events[i][1] : i \in n + 1 .. Len(events)}
    /\ UNCHANGED <<runVars, source, mirror, pendingVars, loop, due, enabled, work, boundVars>>

Round == process = "up" /\ watching = enabled /\ enabled /\ run["mapping"].by # "loop"

\* The full sync at startup, repeated until it completes.
StartupSync ==
    /\ Round /\ loop = "startup"
    /\ BeginRun("mapping", "loop", "startup")
    /\ UNCHANGED <<process, row, caller, treeVars, pendingVars, loopVars, work, lost, boundVars>>

\* The periodic full sync; with the lock held it is put off.
FullSync ==
    /\ Round /\ loop = "regular" /\ due
    /\ \/ /\ BeginRun("mapping", "loop", "full")
          /\ noisy' = FALSE
          /\ UNCHANGED due
       \/ run["mapping"].pc # "free" /\ Reschedule /\ UNCHANGED <<run, noisy>>
    /\ UNCHANGED <<process, row, caller, treeVars, changed, deleted, quiet, loop, enabled, watching, work, lost, boundVars>>

\* _take_debounced_batch empties the pending sets before the lock is asked for.
TakeBatch ==
    /\ Round /\ loop = "regular" /\ ~due /\ quiet /\ changed \cup deleted # {}
    /\ changed' = {} /\ deleted' = {}
    /\ \/ /\ BeginRun("mapping", "loop", "batch")
          /\ work' = [NoWork EXCEPT !.up = changed, !.gone = deleted]
          /\ UNCHANGED lost
       \/ /\ run["mapping"].pc # "free"
          /\ lost' = lost \cup changed \cup deleted
          /\ UNCHANGED <<run, work>>
    /\ UNCHANGED <<process, row, caller, treeVars, quiet, noisy, loopVars, boundVars>>

\* _on_fs_event.
OnEvent ==
    /\ process = "up" /\ events # <<>>
    /\ LET f == Head(events)[1] IN
       IF Head(events)[2] THEN changed' = changed \ {f} /\ deleted' = deleted \cup {f}
                          ELSE deleted' = deleted \ {f} /\ changed' = changed \cup {f}
    /\ events' = Tail(events)
    /\ noisy' = TRUE /\ quiet' = FALSE
    /\ UNCHANGED <<runVars, source, mirror, loopVars, work, lost, boundVars>>

Debounced ==
    /\ ~quiet /\ quiet' = TRUE
    /\ UNCHANGED <<runVars, treeVars, changed, deleted, noisy, loopVars, work, lost, boundVars>>

FullSyncDue ==
    /\ loop = "regular" /\ enabled /\ ~due /\ due' = TRUE
    /\ UNCHANGED <<runVars, treeVars, pendingVars, loop, enabled, watching, work, lost, boundVars>>

-----------------------------------------------------------------------------
(* The environment, and the life of the process *)

\* Another program changes the source tree; the observer sees it if it runs.
Edit(f) ==
    /\ edits < MaxEdits /\ edits' = edits + 1
    /\ \E v \in (Versions \cup {Absent}) \ {source[f]} :
          /\ source' = [source EXCEPT ![f] = v]
          /\ IF watching /\ process = "up"
             THEN events' = Append(events, <<f, v = Absent>>) /\ UNCHANGED lost
             ELSE lost' = lost \cup {f} /\ UNCHANGED events
    /\ UNCHANGED <<runVars, mirror, pendingVars, loopVars, work, triggers, trouble>>

Configure ==
    /\ process = "up" /\ Trouble
    /\ enabled' = ~enabled
    /\ UNCHANGED <<runVars, treeVars, pendingVars, loop, due, watching, work, lost, edits, triggers>>

\* What the process had in memory is gone.
Forget ==
    /\ events' = <<>> /\ changed' = {} /\ deleted' = {} /\ work' = NoWork
    /\ quiet' = TRUE /\ noisy' = FALSE
    /\ lost' = lost \cup Pending
    /\ loop' = "startup" /\ due' = FALSE /\ watching' = FALSE
    /\ UNCHANGED <<source, mirror, enabled>>

\* aclose cancels every task: work ends as cancelled, a run that is being
\* started or finished is left as the database has it.
CloseDown ==
    /\ process = "up" /\ Trouble
    /\ process' = "closing"
    /\ run' = [p \in Pipelines |->
                 IF run[p].pc = "running" THEN [run[p] EXCEPT !.pc = "finishing", !.result = "cancelled"]
                                          ELSE Free]
    /\ \E done \in SUBSET {p \in Pipelines : run[p].pc = "finishing"},
         begun \in SUBSET {p \in Pipelines : run[p].pc = "starting"} :
          row' = [p \in Pipelines |-> IF p \in done THEN run[p].result
                                      ELSE IF p \in begun THEN "running" ELSE row[p]]
    /\ Forget
    /\ UNCHANGED <<caller, edits, triggers>>

ClosedDown ==
    /\ process = "closing" /\ \A p \in Pipelines : run[p].pc = "free"
    /\ process' = "down"
    /\ UNCHANGED <<row, run, caller, treeVars, pendingVars, loopVars, work, lost, boundVars>>

Die ==
    /\ process # "down" /\ Trouble
    /\ process' = "down"
    /\ run' = [p \in Pipelines |-> Free]
    /\ Forget
    /\ UNCHANGED <<row, caller, edits, triggers>>

\* start fails the runs a dead process left.
Restart ==
    /\ process = "down" /\ process' = "up"
    /\ row' = [p \in Pipelines |-> IF row[p] = "running" THEN "failed" ELSE row[p]]
    /\ caller' = [p \in Pipelines |-> "none"]
    /\ UNCHANGED <<run, treeVars, pendingVars, loopVars, work, lost, boundVars>>

-----------------------------------------------------------------------------
MappingWork == StopHeeded \/ Synced \/ \E f \in Paths : UpdateOne(f) \/ DeleteOne(f)
Executes(p) == StartRun(p) \/ OtherEnds(p) \/ FinishRun(p)

SchedNext ==
    \/ \E p \in Pipelines :
          \/ Trigger(p) \/ ManualBegins(p) \/ StartRunFails(p) \/ CancelRun(p)
          \/ Executes(p) \/ LoopRuns(p)
    \/ MappingWork \/ \E f \in Paths : PathFails(f) \/ Edit(f)
    \/ SyncObserver \/ StartupSync \/ FullSync \/ TakeBatch
    \/ OnEvent \/ Debounced \/ FullSyncDue
    \/ Configure \/ CloseDown \/ ClosedDown \/ Die \/ Restart

SchedFairness ==
    /\ \A p \in Pipelines : WF_schedVars(ManualBegins(p)) /\ WF_schedVars(Executes(p))
    /\ WF_schedVars(MappingWork) /\ WF_schedVars(SyncObserver)
    /\ WF_schedVars(StartupSync) /\ SF_schedVars(FullSync) /\ WF_schedVars(TakeBatch)
    /\ WF_schedVars(OnEvent) /\ WF_schedVars(Debounced) /\ WF_schedVars(FullSyncDue)
    /\ WF_schedVars(ClosedDown) /\ WF_schedVars(Restart)

SchedSpec == SchedInit /\ [][SchedNext]_schedVars /\ SchedFairness

-----------------------------------------------------------------------------
(* Properties *)

\* A mirrored file that differs from its source is one something still tells of: a pending
\* path, an event, the running sync, or one of the losses the full sync is there for.  The
\* sets are cleared after a full sync only if no event came during it (scheduler.py:539).
StaleIsPending == \A f \in Paths : mirror[f] # source[f] => f \in Pending \cup lost

\* Once the source rests and mapping stays enabled, the mirror comes to equal it, whatever
\* batches were dropped before: the full sync heals (scheduler.py:516).
MirrorCatchesUp == <>[]enabled => <>[](mirror = source)

\* A trigger is answered with a run or a refusal while the process is up: its task tells
\* the caller on every path of _execute (scheduler.py:289).
TriggerAnswered ==
    \A p \in Pipelines : caller[p] = "waiting" ~> (caller[p] # "waiting" \/ process # "up")

\* What the scheduler promises of the mirror and of those who ask it for a run.
SchedulerDelivers == MirrorCatchesUp /\ TriggerAnswered
=============================================================================
