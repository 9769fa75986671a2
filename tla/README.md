# A TLA+ development of embyx-manager

embyx-manager keeps an Emby library: it finds magnets for titles (AVIDs), has
CloudDrive download them, files the result into the library, merges multi-part
videos into one file, moves videos between libraries on request, and mirrors the
library into the media server. Almost all of it is coordination: rows in
PostgreSQL, moved by compare-and-set, by loops and requests that interleave at
every `await` and, when two replicas run, across processes, around a cloud drive
and a file system that lose, delay and fail things. That coordination is what is
specified here; parsing, scraping and formats are abstracted to what they decide.

Source paths below are relative to `src/src/embyx_manager/`.

## 1. The system

| component | code | state it keeps | operations |
|---|---|---|---|
| acquisition ledger | `monitor/acquisitions.py`, `db.py` | one row per title (state, timer, replacement marker and floor) and the numbered attempts made for it | discover, begin_replacement, transition, add_attempts, two claims, transition_attempt, record_progress |
| tracker and its wake-ups | `monitor/tracker.py`, `scheduler.py` | one poll; the deadlines of the sleep | poll, claim and file a finished download, give up and try the next, sweep for lost tasks, clear records; sleep, fast checks |
| intake and title batches | `monitor/intake.py`, `manual.py`, `playlists_api.py` | fill jobs in memory | enqueue, queue, retry_due, submit the next magnet, park; a list of titles pasted or filled |
| feeds | `monitor/rss.py`, `subscriptions.py` | subscriptions with their seen keys | poll, seed, relink a talent, file a title under a category |
| operator requests | `monitor/api.py`, `replace.py` | none | retry, magnet, ignore, resume, replace |
| archive, reconcile, move-in | `monitor/archive.py`, `reconcile.py`, `move_in.py` | the file system, sizes seen at the last pass | select the videos of a folder, promote, move, discard; scan, settle, sweep |
| scheduler and mirror | `monitor/scheduler.py`, `mapping.py`, `runs.py` | pending paths, run rows, the mirrored tree | observe, debounce, incremental batch, full sync, trigger, shut down |
| playlists | `monitor/playlist_sync.py`, `playlists.py` | stored lists | refresh, create, rebuild, retire |
| merging of parts | `merge/tasks.py`, `service.py`, `worker.py`, `auto.py`, `detect.py`, `kube.py` | one task row per merge, a Kubernetes Job, work files, the cloud copy | detect, queue, tick (one step per open task), cancel, retry, the worker |
| fill-actor jobs | `fill_actor/jobs.py`, `postgres_repository.py` | leased job rows, progress | submit, claim, renew, report, finish, cancel, reap |
| fill-actor plans | `fill_actor/service.py`, `persistence.py`, `postgres_repository.py` | plans, candidates, results | scan, plan, apply, expire, purge |
| fill-actor moves | `fill_actor/service.py`, `cloud_moves.py` | a move journal, cloud operations | move, roll back, recover |
| configuration, migrations, locks | `config/store.py`, `db.py`, `locking.py` | versioned sections, schema version, advisory locks | load, save, refresh, migrate |
| clients, core, front end | `clients/`, `core/`, `frontend/` | caches | protocol adapters, regular expressions, rendering |

How they interact. Feeds, batches and the operator put titles and magnets in the
ledger through the intake; the tracker joins CloudDrive's task list to the
attempts on the info hash and moves both forward; its pass ends, in a `finally`,
with the intake's retry leg. Filing a download, the archive run and the library
checks of RSS and of manual submissions all move files into the same library
without a lock. A fill-actor scan looks titles up in the libraries, queues the
missing ones in the ledger and plans moves of the others into a staging tree that
the archive's sweep files from. Merging takes parts from the library and brings
its result in through the intake directory the archive files from. The mapping
pipeline mirrors the library for Emby. Nothing but compare-and-sets, unique
indexes and advisory locks orders these against each other; the in-process locks
do not reach another replica.

What is hard: every process acts on what it read some awaits ago; two replicas
poll the same tasks; a database and a file system cannot be written together, so a
crash lands between them; CloudDrive's listings lag, its answers and records are
lost, and a request may take effect after it was given up; events arrive in bursts
while the work they ask for is under way; and everything that fails must still end
somewhere a timer or a recovery picks it up.

What makes each part correct:

- *ledger*: history is append-only and final states final; one live attempt per
  hash; no hash tried twice for a title; archived is final but for a replacement.
- *tracker, intake, operator*: archived implies in the library; a replacement
  gives up the old copy only for a fileable new one; no registered task is called
  lost; every download is concluded, every due title gets its pass.
- *feeds and batches*: what was read is never forgotten, and the earliest category
  decides where a title goes; every title of a fill comes to be tried.
- *library*: whoever files a copy, it is not lost, and a priority copy is kept;
  what is discarded with a folder is a lesser cut of what is filed.
- *merging*: the parts are deleted only once the whole copy is verified and safe;
  every merge ends; what was cancelled is not queued again.
- *jobs*: a request is run at most once and its outcome stays; a job whose holder
  is gone is failed as interrupted.
- *plans*: a plan is of one configuration, accounts for every title, and holds
  only what its scan saw.
- *moves*: no step removes the last name of a file; a result is given once and is
  true; after an interruption every open journal ends or waits for the operator.
- *scheduler, mirror, playlists*: whatever failed meanwhile, the mirror and the
  lists catch up once changes stop; nothing that belongs there is deleted.
- *configuration and migrations*: no save overwrites one it has not seen; an
  upgrade keeps titles and settings.

## 2. Plan

Written in this order, the most important first: the ledger, the pipeline around
it, merging, the job queue (first part of the development); then moves and their
recovery (`LocalMove`, `CloudMove`, with `MoveContract` as what both implement),
plans and their store (`FillActorPlans`, `CloudPlanning`, `FillActorTables`
implementing `FillActorStore`), the library and the sources of titles
(`LibraryFiling`, `FolderSelection`, `FeedPolling`, `TitleBatches`), the loops in the
background (`MonitorScheduler`, `TrackerWake`, `StrmMirror`, `PlaylistSync`,
`JobProgress`), merging's two ends (`AutoMerge`, `MergeWorker`) and what is stored
(`ConfigStore`, `SchemaMigrations`). All of it is there.

The abstract specifications are `LedgerSpec`, `MoveContract` and `FillActorStore`;
every invariant and action property of the passing runs is a theorem too (section 5).
What is left would be the liveness properties, which stay with TLC.

## 3. Modules and how they correspond to the code

In every module an action is the code between two awaits of one process (or one
path operation, one statement or transaction where these are what interleaves),
and a mutant, marked as such, is a plausible bug of the definition that follows it.

### Titles and downloads

**AcquisitionLedger.** `acq[a]` is a title's row: `state`, `timer` (`next_action_at`:
NULL, in the future, reached), `replacing` (`replace_paths` not empty), `floor`
(`replace_after_attempt`). `attempts[a]` is the sequence of its attempt rows. Every
operator under "The repository's operations" is one statement or transaction of
`AcquisitionRepository`; its guard is the WHERE clause, its effect the SET.
`LedgerNext` lets anybody issue any operation at any time, so what holds of
`LedgerSpec` holds for any callers. Notes, paths, progress figures and dates are
left out: no guard reads them.

**AcquisitionPipeline** adds CloudDrive (`task`, `folder`), the `library`, the
hashes within their `recent` submission grace, and `proc`, one record per process:
a program counter and what it has read and not used yet. Trackers loop through
`poll` (`PollList` ... `Move`, `Settle*`), giving up (`Conclude` ... `Remove`), the
sweep, clearing and the retry leg; an exception goes to the retry leg, as the
`finally` clause does. Workers run one source or request at a time. `Faults` and
`Handlers` are constants, so a run says which it is about. A magnet is its hash;
its content is video, junk or another title; a move is one step here (its parts
are in `LibraryFiling`); one task directory is polled.

**TrackerWake** is the tracker's sleep: `regular_at`, the submission event, the
fast checks at fixed offsets, in ticks of the monotonic clock.

**TitleBatches** is `manual.py` and the fill of `playlists_api.py`: the library
question, the ledger's answer, discover and queue of each title of each batch, with
a failure midway, next to the retry leg and to downloads that fail or are held.

**FeedPolling** is one RSS run over the subscriptions (`poll`: fetch, relink a talent
whose feed answers 404, file each title, discover, submit, store the keys) with the
dashboard patching and deleting rows, another source queueing the same titles, and
the retry leg and tracker moving them on.

**LibraryFiling** is the archive run over one title's copies: the scan with its
settling (`_seen`), the snapshot of active titles, promotion from the normal to the
priority directory, the moves part by part, discarding, the row's transition, and
the move-in sweep; `ask` is the library check RSS and manual submissions make in
other threads, which promotes too. **FolderSelection** is what `select` keeps of a
folder: collapsing cuts, ordering parts, phone rips, expected AVIDs. The claims
`OneOfEachCut` and `StagedKeepTheirNumber` (section 6) do not hold and are not run.

### The mirror and the lists

**MonitorScheduler**: `run[p]` is who holds a pipeline's lock and where the run
stands, `row[p]` its `pipeline_runs` row; the mapping loop's startup sync, observer,
event queue, debounce, `pending` and `batch`; full syncs and batches go path by path
over a source tree that changes. `lost` is no variable of the program: it names the
paths whose change nothing pending tells of (nobody watched, the batch or the events
were dropped, a failed deletion was queued again after the file came back: section 6),
which only the next full sync puts right.
**StrmMirror** is the mirror of one source directory with the strms' titles, sidecars
and cleanup: a full sync file by file, with title rules that changed since the last
one, and the batches path by path. `coming[s]` are the events of a path on their way
to the loop (TRUE for a deletion), `pending` and `batch` the scheduler's sets and what
a batch has still to treat or failed to. A batched deletion takes the copy without a
look at the source, as `delete_one` does. `untold` is no variable of the program
either: the strms whose last change nothing tells of, because no observer ran or
because a failed deletion was queued again after the strm came back and was updated.
**PlaylistSync** is the playlists pipeline, one action for each request to Emby or
the database, each of which may fail or lose its answer.

### Merging

**MergeTask**: `row[t]` is a task's row (`state`, the state it `failed` in, `named`,
`merged`, `tries`, and `waited`, which stands for every wait measured from
`state_changed_at` or `updated_at`). The environment is the Kubernetes Job (`job`,
with `ending` for a deleted Job whose pod is alive), the `status` file, the merged
`output`, CloudDrive's `copy` task, the `staged` file, the `parts` listed, the file
in the intake (`target`) and the `library`. A replica is one process, since
`_tick_lock` serialises polls and requests; `Tick` reads all open tasks (`seen`) and
each gets one step from what was read. `Write` is the compare-and-set. `Crash` allows
an exception or the end of the process at any point.
**AutoMerge** is the scan behind its cache, the round of the automatic queue and the
operator's requests in between, until a task is queued. **MergeWorker** is the body
of the Job: space and layout checks, reordering, concatenation under the stall
watch, verification and the rename, killed and restarted anywhere.

### The fill actor

**JobQueue**: `jobs[j]` is a row of `fill_actor_jobs`, `exec[m][j]` what manager `m`
has in memory of it (`pc` the await its task stands at, `stop` why it is being
cancelled), `cancels` the cancel requests, `phase` the stage of `aclose`; `began` and
`done` are for the properties. `Enqueue`, `Cancel`, `Claim`, `Finish`, `Reaped` are
the repository's transactions. **JobProgress** is `_OwnedProgressReporter`: reports,
the timer, the lock, a finish that closes it.

**FillActorPlans** is the life of a plan: listing, library lookup, queueing the
missing titles, the settings recheck, storing, applying job by job or without one,
expiry and the purge taken statement by statement. **CloudPlanning** is the scan of
CloudDrive directories with one listing of each.
**FillActorStore** is the repository as its in-memory implementation has it
(`persistence.py`): calls on maps. **FillActorTables** is the PostgreSQL one: rows,
cascading keys, the partial unique index. The second implements the first.

**FillActorMoves** holds the candidates both kinds of move share. **LocalMove** is
`_run_move` and the recovery with every path operation a step: the fingerprint
check, `renameat2` without replacing or the hard-link fallback (link, isolate in
the quarantine, verify, unlink), rollback, the journal row before and after each;
other programs write, replace or create files, the share is unmounted, a database
write fails, the process dies. **CloudMove** is `_run_cloud_move`: the operation
written ahead, the one MoveFile call, observation, and recovery, with a request
that takes effect late, an answer that is lost, and an archive that takes the file
from staging. **MoveContract** is what both promise: a result is given once and is
true, a delivered file stays delivered.

### What is stored

**ConfigStore** is one section of the configuration at several processes: the
migration of the start, load, a save under its row lock with the version check, the
refresh, and the CloudDrive client rebuilt from the snapshot. **SchemaMigrations**
is what migrations 4 to 18 do to the rows they rewrite, one action each.

The `MC` modules give the constants. `MCMoves`, `MCTitles`, `MCStored` and
`MCBackground` hold several components that share no state: a behaviour picks one
(`subject`, `mode`) and the others rest in an initial state, so each is explored in
full as if alone and the counts add up.

## 4. Runs

| run | about, and bounds | properties |
|---|---|---|
| `pipe_downloads` | one title, two magnets (the first junk), one tracker, one manual submission at a time; rejected, cancelled and cleared tasks | `EndingsAreTrue` (types, `ArchivedMeansHeld`, `LostMeansGone`), `LedgerRefined`: every step is a step of `LedgerSpec` |
| `pipe_operator` | one title, two magnets (the first of another title), RSS and retry, magnet, ignore, resume; rejected magnets, a cleanup that fails | `ArchivedMeansHeld` under every race with the operator |
| `pipe_replace` | a title held from before; replacements; failing deletes and moves; crashes anywhere | `ArchivedMeansHeld`, `ReplacedOnlyForANewCopy` |
| `pipe_live` | a queued title; rejected, failing, stalled and cancelled tasks; fair | `DownloadConcluded`, `TitlesMoveOn` |
| `merge_safe` | two tasks of one title, one replica, one upload attempt; cancels, retries, crashes, a lost work file, corrupt uploads, refused operations, late listings, a whole copy from elsewhere | `NothingLost`, `MergeAccounted` |
| `merge_live` | a task of each of two titles, two upload attempts; cancels, Jobs and uploads that fail, copy tasks that drop off the list; fair | `OneJobAtATime`, `MergeConcluded` |
| `moves` | two plans of one file, or one of a file other programs write to, on a share with and without `renameat2`; two plans of one file inside CloudDrive; two faults each; fair | `MoveAccounted`, `KeepsFiles`, `ContractKept`, `CalledOnceJournalled`, `CloudAccounted`, `CloudContractKept`, `OpenMovesEnd` |
| `titles` | the ledger (two titles, two hashes), the feeds, the tracker's sleep, a title's copies, all folders of up to three videos of the named kinds, the mirror | `LedgerAccounted`, `PastKept`, `FeedsAccounted`, `SubmissionPolled`, `CopiesAccounted`, `SelectionRight`, `MirrorFollows` |
| `stored` | plans, the two stores, cloud planning, configuration at an old and a new replica, migrations, the automatic merge queue, the worker with three parts | `PlansAccounted`, `StoreKept`, `PlannedAsSeen`, `StoreHolds`, `UpgradeKeeps`, `NeverPickedAgain`, `OutputAccounted` |
| `background` | a plan and an apply at two managers of two workers; progress reports; the scheduler with one mirrored path; two lists and two movies; a fill beside a pasted batch; all fair | `WorkAccounted`, `StaleIsPending`, `OutcomeStays`, `JobConcluded`, `ProgressShown`, `SchedulerDelivers`, `PlaylistsConverge`, `FilledTitlesMoveOn` |

Why the bounds are enough. The properties of the ledger relate at most two titles
or two attempts, and both are there; the second title only contends for hashes
(`Contender`), since rows of different titles meet nowhere else. In the pipeline one
magnet that fails and one that works exercise every edge between attempts. Two
tasks of one title meet in the staging folder, the work file and the unique index;
tasks of two titles in the Job slot. Moves meet in a source path (two plans of one
file) or with another program, and two faults allow an interruption of the
recovery of an interruption. A plan needs a title that is found and one that is
missing, and two files of one name for the conflict. Two managers and two jobs
have every pair of steps of the queue. The mirror has a whole video and a part of it,
two directories and four changes or failures, enough for a strm that goes and comes
back around a batch whose deletion fails. Three sightings settle a folder that grew.
`OneClient` keeps the second replica of `ConfigStore` without a CloudDrive client:
what one process does with its client is not seen by the other. `NoReply`, the
`VIEW` of `stored`, leaves out what the last call of the repository returned, which
decides no later step; the step properties still see it on the steps TLC takes.

Deadlock is not checked: the bounds, and in the program an idle service, leave
nothing to do. Every bound is a constant whose comment says "bound" or whose name
begins with `Max`, `Faults` or ends in `Trouble`.

Three constants exclude cases in which a property is known to fail; section 6
describes each: `Flapping` (an outage of the share that ends within a step), `Late` (a
CloudDrive request still under way after its grace period), `Piecemeal` (a sweep
between the files of one apply). So do `Crossing`, `Overlap` and `RowStored`.

Fairness. *Pipeline*: the tracker loop runs for ever (`bootstrap.py` restarts the
pass and a pass catches its errors), a request that has started runs to its end, a
CloudDrive task that is never interfered with ends, a finished folder appears on
the mount, time passes (strong fairness for the end of a grace period, which a poll
may disable for its duration). *Merging*: the poll loop catches what a tick raises
and an asyncio lock is first come first served (strong fairness of `Tick`); Jobs and
copies end; the archive files what it may. `merge_live` leaves out the faults
"refused", "kube", "lost", "crash" and retries: there the code deliberately repeats a
step for ever. *Moves*: a move that holds the lock goes on, the share comes back, and
the recovery is asked for again and again at every start and apply (strong
fairness, since the lock is taken and released in between); a request made of
CloudDrive takes effect or is lost. *Jobs*: workers claim while they run, work ends, a
lease nobody renews runs out, the reaper runs; the steady manager stands for the
program being restarted. *Scheduler*: the loops of a process that is up go on, and
it is started again; strong fairness of the full sync, which competes for its lock
with manual runs. *Playlists, batches, reports*: the periodic run starts, requests and
tasks go on, timers fire. Requests, edits and faults are never fair.

### Violations: where the code and its own words part

| run | property | what the code does |
|---|---|---|
| `two_replicas_replace` | `ArchivedMeansHeld` | the archive claim passes through the edge that releases it (`monitor/tracker.py:325`), so two replicas file one replacement; deleting by path, the second removes the copy the first just moved in, and the title is archived without one |
| `crash_midfile` | `DownloadConcluded` | a crash after the files moved and before the attempt is settled leaves a title downloading for ever: every poll claims, finds no folder, releases (`tracker.py:331`) |

Replicas are part of the program's design (`monitor/tracker.py:13`,
`monitor/acquisitions.py:11`, `config/store.py:6`), but the tracker's and the merge
service's locks are of one process.

## 5. Proofs

Each is for every value of the constants, under the assumptions named in the module
that declares them.

**`AcquisitionLedgerProofs`** (`MaxCandidatesAssumption`): any titles, hashes and
number of candidates. The type invariant is inductive by itself. `HashTriedOnce`
follows from the only operation that appends, whose hashes are fresh and distinct.
`FloorWithinHistory` is inductive with it: only `BeginReplacement` sets the floor, to
the present length, and attempts only grow. For `LiveHashUnique`, an attempt becomes
live only in a claim, whose guard says no live attempt holds the hash; lemmas about
`SetAttempt` reduce each step to the attempt it writes. The action properties follow
from the same case split. `LedgerStaysAccounted` and `PastStays`
state them as the run checks them.

**`BackgroundProofs`** has three parts.

*Jobs* (`JobQueueAssumption`; any jobs, managers and workers): one inductive
invariant, `JobInv`. That work is begun once needs that a queued job has no
execution (`QueuedIsUntouched`), that a job has at most one over all managers
(`OneRunner`) and that nothing has begun before it (`BegunByThen`). That an answered
cancel leaves no work needs that the row was failed first (`CancelSettled`), so that a
revalidation cannot let the work start. That a completed job was done needs that a
result is held only by an execution that did the work (`ResultIsWork`). Four lemmas
carry `JobInv` through the shapes of a step. `WorkStaysAccounted` and `OutcomesStay` are
what the run checks.

*The tables* (`TablesAssumption`: "no plan" is no candidate; any candidates, plans,
jobs, owners and bound of the queue): `TablesImplementStore` (`StoreKept`), that every
statement and transaction on the SQL tables has the effect and the answer of that call
on the maps of `FillActorStore`. `TablesInv` is what keys, cascades and the partial
unique index let the rows be: results, journals and operations only of the candidates of
stored plans, one of each, and one open operation per source (`MoveRowsSound`); one row
of each job, finitely many, and a payload row for each apply job (`JobRowsSound`). The
refinement mapping reads the maps off the rows; one lemma per call shows that the rows
it writes read as the maps it should, and that what it returns is what the map returns.

*The mirror that is behind* (`MonitorScheduler`, no assumption; any tree, edits,
failures, cancels, manual runs and ends of the process): `StaleStaysPending`
(`StaleIsPending`). `SchedInv` says of every path that is not lost sight of (`PathsTold`)
that the last event on its way has its state (`LastTold`); that without an event it is
to be updated or deleted when it is behind, and what is to be deleted although its
source is back is to be updated after that (`Told`); and that a full sync of the loop
that no event came in has put right what it is through with (`Visited`), which is why
what was pending may be cleared then. The work of a full sync does not count as
telling, since it may end on the way.

**`LocalMoveProofs`** (`CandidateAssumption`, `LocalAssumption`; any candidates, paths
and faults): `MovesKeepFiles`. A step of the program changes a name in
one of four ways: a rename to a path that is free, a hard link, dropping a name, or
nothing; each keeps `NamesKept`, that every file that had a name has one after the
step or is in the library. Dropping needs that the same file has another name, which
is what the guards of `Unlink`, `PutBack` and `Undo` establish in the step itself: no
history is needed, hence neither is an invariant beyond the types, nor are the
hypotheses of the next two theorems.

What results and journal say of a file (`MoveAccounted`) needs to know where it can be:
`MoveInv` says that a file nobody touched is at its source alone (`FreshIsAtHome`), that
the plans of one file have it in one place (`OnePlace`) and in one quarantine, whose
plan is the one that placed it (`OneQuarantine`), never under all three names at once
(`NotThrice`), and for each step of the move under the lock what the steps before
it saw that still holds (`Stage`). A step of a move is reduced to two facts, that it
leaves other paths alone (`LeavesOthers`) and that the planned file comes to a path
only from where the checks said (`Justified`); a step of another program to one,
`Harmless`. From the same invariant a step simulation shows that the moves implement
`MoveContract` (`MoveImplementsContract`). Both theorems assume `~Flapping` and
`Undisputed`, that plans with one destination are of one file which no other program
writes to: without either TLC finds a file said to be moved that is not there
(section 6).

**`CloudMoveProofs`** (`CandidateAssumption`, `CloudAssumption`): two inductive
invariants. `CloudInv` says that the move under the lock is exactly as far as its
operation on record (`WorkMatchesRow`), that what was called is on record as
submitted or later (`OnRecord`), and that an open operation has no result yet
(`OpenUnsaid`); from it follow `MoveFileCalledOnce` and, by a step simulation, that the
moves implement `MoveContract` (`CloudMoveImplementsContract`). `DriveInv` adds where the
files are and which requests CloudDrive still has: a planned file is in one place
and does not come back (`Whereabouts`), an aged request is not pending any more
(`AgedDone`, which is `~Late`), at most one operation is open for a source
(`OneOpenPerSource`, the partial unique index), and a file that left its source was
asked for by a candidate that was not given up (`OthersMovedIt`).
`CloudStaysAccounted` follows, and its assumption `~Late` is needed: with `Late`, TLC
finds a request taking effect after its operation was given up.

**`PipelineProofs`** (`PipelineAssumption`, `MaxCandidatesAssumption`; any titles, hashes,
trackers, workers, handlers, faults and crashes) has three parts. The first is
`PipelineImplementsLedger`, that `AcquisitionPipeline` implements `LedgerSpec`: each
step of each process is one operation of the ledger with the parameters it was
called with, or a stutter; the operations compare and set by themselves, so little
has to be known of the caller (`ProcInv`). The ledger's theorems then hold of the
pipeline: `PipelineAccounted`, `PipelineKeepsPast`.

The second says what is true of the world around the ledger. `ProcsPlaced`, that
what a process has read names a row and an attempt there are, is kept because
attempts only grow (`Grown`); with it `PipelineTypeCorrect`. The steps are then
described once each by what they can change: rows (`RowsTraced`), tasks, folders
and the library (`WorldTraced`), the acting process (`ActedOn`), and the invariants
are carried through these descriptions instead of through every action.
`LostAreGone`: a live attempt that is not in the listing of a running poll has a
recent hash or is gone (`ListedOrRecent`), what the sweep chose is gone
(`SweptIsGone`), and gone it stays, since nobody submits a hash that is live. It
needs `"slow"` not in `Faults`, a poll shorter than the grace period; otherwise
section 6 shows it false. `ArchivedAreHeld`: a row is archived by the tracker after a
move (`FiledIsHeld`) or by the library check, and a copy is only taken away in a
replacement, during which the row is open (`OpenWhileReplaced`, `ReplacingIsOpen`).
That step needs that nobody else archives the row meanwhile, which is `ReplacesAlone`:
where replacements are asked for, one tracker and no RSS run. Both halves are needed
(the run `two_replicas_replace`; section 6, *A replacement crosses an RSS run*).
Without replacements there is no restriction. `EndingsStayTrue` is the two together.

The third is about what a replacement deletes. `ReplacementsKeepACopy`
(`ReplacedOnlyForANewCopy`): once the old copy was taken out, a download that can be
filed is on the mount until it is filed. `HandingInv` says that one process at a time
hands a magnet to CloudDrive, and each magnet once (`HandedAlone`, `HandedOnce`), so
that a download listed as failed left nothing and never will (`ErrorsFailed`);
`FilingSpares` that the folder a tracker is filing is there, and that one it may come to
remove is not the last that a title waits for. Each step is described by what it leaves
undisturbed on the mount. It assumes one tracker (`OneTracker`; with two,
`two_replicas_replace`), no magnet that two titles have at once (`MagnetsApart`: giving
up on one title's download would delete the other's), and `"stall"` not in `Faults`:
with it TLC finds a download that finished and was given up on an older listing (section
6).

**`StoredProofs`** has one part for each of six components, with an inductive
invariant each.

*Plans* (`PlansAssumption`; any libraries, plans, jobs, callers, settings and faults):
`PlansInv` says that what a scan has found is of settings from its begin on, and of
those alone once it looked at the settings again (`ScanSound`), that a title it is
through with was found, wanted or is still to be queued (`ScanCounts`), that an apply
is of a finished plan whose job keeps it from the purge (`ApplySound`), that a journal
is of a stored plan a purge takes only from under a file known as orphaned
(`JournalSound`), and that a file in the staging directory was reported or has a
journal whose target is where it is, other than the one of an apply that has only
just taken it up (`TakenUp`, `StagedIsReported`). `PlansStayAccounted`
(`PlansAccounted`) follows. It assumes `NeverReturned`, that a staging directory is
not configured again after another one was: a recovery under the other one calls a
file it had moved invalid, and with one interruption and two changes of the settings
TLC finds the file waiting unreported when the first directory is back.

*Planning inside CloudDrive* (`PlanningAssumption`; any titles, mappings and
directories): `PlanningInv` says that what is in a listing, or missing from it, was
there, or away, at some time since the scan began (`ListingsSeen`), and that each
title the scan is through with stands as its listings showed (`TitlesDone`,
`CandidatesSound`). `CloudPlansAsSeen` (`PlannedAsSeen`) follows.

*Migrations* (`MigrationsAssumption`; any labels, directories, brands and numbers):
`MigrationsInv` gives each section as a function of what the old release stored and of
the version (`SectionsKept`), keeps keys unique (`OneKeyEach`), attempts with their
title (`AttemptsKept`) and says which keys are not padded yet and why (`KeysPadded`).
`UpgradesKeep` (`UpgradeKeeps`) follows; migration 13 needs that a title takes the padded
key only where no other title has it or would (`RenamedApart`).

*Configuration* (`Unset` is no value of a section; any processes, sections and
releases): `StoreInv` says that a save that has read its row holds the row's lock and
that the row is still what it read, and that the applied migrations are the first of
the known ones, read only under the migration lock. `StoreKeepsItsWord` follows. It
assumes `RowStored`: `SELECT ... FOR UPDATE` locks nothing where there is no row.

*Automatic merging* (`MultiPart` is a list of titles; any titles and requests): `AutoInv`
says that what a round has read covers which titles had failed or were settled before
it, and that within a round only a task that had failed ends; so what a round picks has
no past (`NeverPicked`). It assumes `~Overlap`: a task both queued and ended within a
round escapes what the round read.

*The merge worker* (`WorkerAssumption`; any number and sizes of parts, layouts, space,
caps and kills): `WorkerInv` says that once no part strays the concat is given parts of
one order, and which are restaged until then (`StraysNamed`), that what ffmpeg has
written is the first parts as they were given (`PartsWritten`), that the space checked
for is still there for what is to be staged and written (`RoomLeft`), and that what has
the final name is the whole title (`OutputIsWhole`). `OutputStaysAccounted`
(`OutputAccounted`) follows, without a further hypothesis. The space checks are sums
over sets of files, defined by recursion: that such sums exist, agree and grow
(`SumsExist`, `SumsAgree`, `TotalsGrow`) is shown on the least size of a set for which
they would not (`SmallestIs`, from `WFMin`).

**`MergeTaskProofs`** (`MergeAssumption`; any tasks, titles, attempts, requests and faults,
*one replica*): `MergeInv` has two halves. `FilesInv` ties the rows to the files: one
open task per title; a task before *replacing* has all its parts; one in *replacing* (or
failed there) has a staged file that is good, and that no copy overwrites, or the
merged file is in the intake or the library already; one in *archiving* has it there
and no parts. `Knows` says what the replica knows at each label: that its task is
still in the state it was read in, and what it has seen of the files. A step between
two awaits is then safe because the replica that decides on what it saw is the only
one that changes it. `MergeLosesNothing` (`NothingLost`) and `MergeStaysAccounted`
(`MergeAccounted`) follow. With two replicas the premise fails, and so does
`NothingLost` (section 6). On top of `MergeInv`, `SlotInv` says that a Job that writes is
that of the one task that is merging, which has its name on record and no report
yet, or of the task about to become it (`ActiveIsMerging`), and that the replica's
`busy` is right (`MindsSlot`); hence `OneJobRuns` (`OneJobAtATime`). It assumes
`JobsKnown`, the faults "kube" and "crash" left out: with either alone TLC finds two
Jobs (section 6).

**`TitlesProofs`** has one part for each of five components.

*The tracker's sleep* (`WakeAssumption`; any offsets, intervals, lengths of a poll and
submissions): `WakeInv` says that a sleep lasts no longer than to the regular poll
(`SleepSound`) and to the first check, of any submission so far, that comes after it
began, unless a submission that has come meanwhile ends it before that check
(`ChecksMade`), and that a magnet no poll has begun after belongs to the burst that is
kept (`OwedHaveBursts`).
`SubmissionsArePolled` (`SubmissionPolled`) follows. It assumes `~Crossing`, that no
submission comes at the instant a check falls due (section 6).

*Copies* (`FilingAssumption`; any folders, staged groups, numbers of parts, routes,
faults and library checks): `FilingInv` says that a folder that has not all of its
videos yet has all that came, and is larger than at the last look when it grew since
(`FoldersGrow`), so that a settled one is whole; that what a folder being filed still
holds is among the files still to be moved (`FilesSound`), so that discarding it
loses nothing; and that the numbers the files are still to go to are free, and what a
normal route holds is in the priority directory too or still to be looked at
(`PlacesSound`), so that a rename or a promotion takes the place of nothing, whoever
promotes beside the filer. `CopiesStayAccounted` (`CopiesAccounted`) follows, without a
further hypothesis. It rests on what the model takes from the way folders are filled:
a folder that has not all of its videos grows between two looks.

*Feeds* (`FeedAssumption`; any subscriptions, categories, feeds, titles and faults, with
the dashboard, the queue, the retry leg and the tracker at work during a run):
`FeedInv` says that what the run's copy of a row remembers as read was offered too, as
the run writes that copy back with what it read itself (`CursorSound`), and that each
item it has read is offered, still to be filed or being filed (`ReadSound`); that the
run's map has the category of each talent it follows, whose id may change on the way
(`FollowsSound`), so that a sighting files under the first of all the categories it
claims for (`FilingLeads`, `SightingSound`); and that a title still wanted has the
source its directory was chosen by, unless the queue took it over (`SightingSound`),
although any number of other sightings come between the choice and the magnet.
`FeedsStayAccounted` (`FeedsAccounted`) follows. It assumes `OnesOwn`, that no two
subscribed talents go by one id, at first or later; without it TLC finds a title with the
wrong owner (section 6). Of the order of the feeds it uses nothing.

*The mirror* (`MirrorAssumption`; any strms, title directories, rules, names Emby
gives its files, changes and failures). What a full sync takes out (`MirrorKept`)
needs no history, as `_moved` looks for the other copy in the step that deletes the
stray one. A batch does take out a strm the source has again; that its update is then
still to come rests on `BatchInv`: the last event on its way to the loop tells that
the strm is there (`Returned`), and with none on its way a deletion, pending or in the
batch, stands beside an update that comes after it (`RedoneNext`, `RedoneSoon`), since
a batch makes all its deletions first; the strms of `untold` are left out. What
`_owner` finds longest among the names at hand is longest among all when
it is listed (`OwnerListed`, `OrphansAre`). What a full sync has achieved
(`FullSyncCleans`) follows from `SyncSound`: as long as nothing interfered, what is not
still to be visited is in place, and then what is in a directory is at home there or
still to be looked at. Both make `MirrorStaysFollowed` (`MirrorFollows`), without a
further hypothesis; that a file's name has finitely many beginnings is what makes one
of its owners the longest (`LongestIs`).

*Selection* (`SelectionAssumption`; any number of videos, any names and sizes):
`SelectionStaysRight` (`SelectionRight`). Sorting by name gives each video the number of
those that rank no higher, so it is a bijection when no two rank alike (`ByNameIs`); a
run of numbers or letters is one by counting (`SortedIs`); collapsing leaves one of
each cut, and a lesser one has its better among them (`CollapseIs`). It assumes
`PlainlyNamed`: a phone rip is written without a letter or " (1)", and no lettered part
lies beside a file of its number without a letter. Without either TLC finds a folder
where it fails (section 6, *A phone rip's own copy*, *A lettered part beside a plain one*).

**Only model-checked**: liveness, that is `DownloadConcluded`, `TitlesMoveOn`,
`MergeConcluded`, `OpenMovesEnd`, `JobConcluded`, `ProgressShown`, `SchedulerDelivers`,
`PlaylistsConverge` and `FilledTitlesMoveOn`, and with it what the modules `JobProgress`,
`PlaylistSync` and `TitleBatches` are there for: liveness under fairness and ENABLED are
out of the prover's reach. Every invariant and action property of the passing runs is
a theorem. Theorems that take an operator, the library's inductions among them, cannot
be used; where an induction was needed (sums, the least of a set, the longest
beginning of a name), it is over a set of numbers, by `WFMin`.

## 6. Behaviours seen while modelling and left without a run

They are in the models, unless marked *(excluded)*: then a constant or a guard named
here keeps them out so that the rest can be checked, or *(source)*: read in the code
and outside what is modelled. A property in parentheses fails when it is added to a
configuration of its module, with the constants changed as the entry says (two
fills, two replicas, another fault, a constant that excludes the case turned over).

### Tracker, intake and sources

- *Two replicas, one attempt* (`tracker.py` 263): the archive claim is two
  compare-and-sets, the first of which takes an attempt read as ARCHIVING back to
  FINISHED, so a second poll takes over a claim another still files under.
- *Two submitters, one title* (`intake.py` 300): an RSS run and the retry leg each
  claim a magnet of the same discovered title; two downloads run.
- *Rejected and unparked* (`intake.py` 125): a manual submission whose magnets
  CloudDrive all rejects leaves the row discovered with no timer, which the retry
  leg never selects (`DiscoveredMovesOn` with a manual submission and "reject").
- *Ignored in mid-submission* (`intake.py` 320): re-read as IGNORED, the requested
  transition is not an edge and raises. *In mid-retry* (`tracker.py` 490): an ignore
  between the check and the claim leaves the next magnet submitted.
- *A talent's id taken over* (`rss.py` 272): a talent is unsubscribed during a run and
  another is relinked to its id; `setdefault` keeps the category of the one that is
  gone, and titles credited to the other are filed under it *(excluded in the theorem
  by `OnesOwn`; `EarliestOwns` with two talents and one successor)*.
- *A poll longer than the grace period* (`tracker.py` 562): the sweep measures grace
  to the moment it runs, not to the reading of the listing *(excluded: only with the
  fault "slow")*; `LostMeansGone` fails with it.
- *A finished task's record is cleared* (`tracker.py` 284): a download released because
  the mount does not show its folder yet is never looked at again once CloudDrive's
  record is gone (`DownloadConcluded` with "clear" and a slow mount).
- *A sibling from before a replacement* (`replace.py` 125): a download submitted before
  the replacement began may be filed as the new copy.
- *A replacement filed from another download's folder*: while its own folder is hidden, a
  finished download takes the title's other folder; if its move fails after the old
  copy is deleted and the same listing has that other download stalled, the give-up
  deletes the folder too (`ReplacedOnlyForANewCopy` with "filing" and "stall"). The same
  ends the download a replacement waits for when it was listed as stalled and finished
  since: the give-up goes by the listing *(excluded in the theorem: "stall")*.
- *A replacement crosses an RSS run* (`rss.py` 445-480): the check of titles the library
  holds archives the row while a tracker is about to delete that copy for the new
  one; if the move then fails the title is archived without a copy
  (`ArchivedMeansHeld` with "replace" and "rss" handled by one tracker).
- *Left out of the pipeline's steps*: `_remove_replaced` hands a title to the
  operator at once when no mount prefix is set or the copy is outside it (`tracker.py`
  350, 361), before anything is deleted; the model takes the mount as configured. The check of held titles (`rss.py` 462-483) is one step without its error path.
- *A task directory re-pointed* (`acquisitions.py` 321) while a download in the old one
  is in flight; *a hash freed* (`tracker.py` 473) before its task is deleted at CloudDrive.
- *A fast check lost* (`scheduler.py` 435): a submission that comes as a check falls due
  restarts the sleep *(excluded: `Crossing`)*; a poll longer than the last offset
  forgets the burst.
- *Two fills of one playlist* (`playlists_api.py` 261): both pass the test before either
  job is recorded (`FillStartedOnce`). A batch that fails midway after queueing some
  titles does not wake the tracker; a library that cannot be read counts as not
  holding a title.
- *Feeds* (`rss.py`): a url patched during a seeding poll gets the old feed's keys and
  counts as seeded; a title read may be left to nobody's timer when its submission
  fails (`ReadMeansTimed`); the category is decided from a row read before `discover`.

### The library

- *Two filers of one title* (`archive.py` 601): both find the target free, and the second
  rename silently overwrites the first.
- *A promotion crosses the library check* (`archive.py` 675): a title looked for first
  where it will be and then where it was is downloaded again.
- *A half-filed set* (`archive.py` 612): parts moved before an error are found in the way
  at the next attempt, and the copy needs attention for ever.
- *Staged parts renumbered* (`move_in.py`): a sweep between the files of one apply files
  the first part alone *(excluded: `Piecemeal`;
  `StagedKeepTheirNumber` fails with it)*; ten parts sort by name, -cd10 before -cd2 *(source)*.
- *1080p and 2160p cuts filed as parts* (`archive.py` 83-93): names that differ in digits
  only count as parts before cuts are collapsed (`OneOfEachCut`), although the
  comment at 502-506 says one of them wins.
- *A phone rip's own copy* (`archive.py` 525): a folder of `X-5.mp4` and an `X-5 (1).mp4`
  twice its size keeps the copy as the main video and drops the other as its phone
  rip *(excluded in the theorem by `PlainlyNamed`; `SelectionRight` with such names)*.
- *A lettered part beside a plain one* (`archive.py` 83-93, 493): `X.mp4` and `X-B.mp4` count
  as parts, and sort by name with `-B` first, as "-" comes before "." *(excluded in the
  theorem by `PlainlyNamed`; `SelectionRight` with such names and `Dashed`)*.
- *A scan's snapshot*: the sweep does not ask for active titles; a folder whose name
  cannot be read is filed even while its title is active; a same title under
  another extension gives two copies; a record is dropped when its row moved on.

### Merging

- *Cancel by one replica, promotion by another* (`merge/service.py` 589): the staging
  folder is deleted before the compare-and-set (`NothingLost` with two replicas).
- *The archive filed it first* (`merge/service.py` 507): the merge then fails in
  replacing, so again on each retry (`ReplacingFailsOnlyIfLost`).
- *A report unlinked* (`merge/service.py` 259) by a start that finds its Job there;
  *two Jobs* (270): `create_job` made the Job but its answer was lost, or the process
  ended before the row said so, and a cancel before the next poll finds no Job to
  delete (`OneJobAtATime` with "kube" or "crash"); *a failed verification retried* (647)
  finds the same copy.
- *The automatic queue*: a request of the operator within a round gives a second open
  task, and a task queued and ended within one round is picked again *(excluded:
  `Overlap`)*; a scan is stamped with the time it ends.
- *The worker*: the stall watch may fire as ffmpeg ends; a staging directory left by a
  killed pod is not reclaimed, and the output left by a kill after the rename counts
  against space.

### Jobs, plans and moves

- *Work under a lost lease* (`jobs.py` 634) goes on until the next heartbeat; *done,
  reported interrupted* (149): a shutdown that reaches an apply in its finish.
- *Purge and an apply without a job* (`postgres_repository.py`): a journal written
  between the purge's SELECT and DELETE is cascaded away in mid-move; an apply job
  enqueued there loses its plan. A repeat of an apply request after the purge is a
  conflict.
- *Settings and applies*: recovery moves a file under settings newer than its plan's
  (`AppliedUnderItsConfig`); a staging directory changed after an interruption turns
  a moved file into an invalid path; `queue_missing` runs before the recheck.
- *Two plans of one file, written in between* (`service.py`, recovery of PREPARED): the
  second plan's recovery renames back what the first moved *(excluded: `Writable`
  leaves out shared files)*.
- *Two files of one name* (`service.py` 1895, recovery of PREPARED): in two plans they
  have one destination; when the first's move was cut off after its rename and the
  archive took the file, and the second's was then delivered there, recovery takes
  that for a foreign file and renames it to the source of the first *(in the model;
  excluded in the theorems by `Undisputed`)*.
- *A share that flaps* within one step *(excluded: `Flapping`)*.
- *Check and unlink* of two names of one file (`service.py` 1199, 1929, 1967) are one step
  of `LocalMove`: another program that replaces the other name in between is left out.
- *After an interruption*: a destination the archive took is reported as a missing
  source; a file written since as a conflict; a foreign file at the destination keeps
  the journal open for the operator (`Contested`).
- *CloudDrive*: a request may take effect after its grace period *(excluded: `Late`)*;
  an operation whose file was archived before it was observed stays unknown and
  blocks the deletion of its plan; a listing older than another makes a moved file a
  missing one, which the apply then refuses.
- *(source)* In cloud mode open journals of local moves are not recovered; the mutation
  lock is an advisory lock of a database session and goes with its connection.

### Background and stored state

- *A batched deletion does not look at the source* (`mapping.py` 110): the copy of a strm
  that is back by then is gone until its update, which is in the same batch or still
  to come (`MirrorFollows`).
- *A failed deletion queued again* (`scheduler.py` 335) although its file came back and was
  updated: a later batch deletes the live copy, and only the next full sync puts it
  back *(excluded from the properties by `lost` and `untold`)*. A batch taken
  before its lock is dropped when a manual run holds it; an observer disabled and
  enabled again misses changes.
- *A second replica's start* fails the first's live run rows; locks of runs are of one
  process *(source)*.
- *A playlist created as the answer is lost* stays on the server as an orphan.
- *The first save of a section* by two replicas both see no row (`StoreHolds` with
  `RowStored = FALSE`); a refresh that read before a save puts the older values back
  until the next; the CloudDrive client is closed under a running user.
- *An old release beside migration 13* goes on recording unpadded ids.
- *The mirror*: an error ends the full sync before its cleanup; a directory whose title
  can no longer be read keeps its files.

## 7. Not modelled

- *Text parsing* (AVIDs, magnets, media names): regular expressions over characters;
  modelled by what they decide.
- *External clients and scrapers*, generated stubs: what CloudDrive, Emby, Kubernetes
  and the sources do is the environment of the modules that call them.
- *The retry cadence's days*: no transition depends on the number, only on the timer.
- *Settings forms, authentication, views, the web front end*: rendering and request
  shapes; the requests that change state are actions of the modules above.
- *Application wiring* (`bootstrap.py`) beyond what it adds to the tracker pass, to
  clients on a change of settings and to shutdown.
- Of modelled components: subtitle and image files of a folder, the cap on the number
  of seen keys, connection pools, and the columns no guard reads.
