---------------------------- MODULE FillActorPlans ----------------------------
(***************************************************************************)
(* The life of a fill-actor plan: a scan lists the titles of its actors,   *)
(* looks each up in the libraries, hands the missing ones to the           *)
(* acquisition ledger and stores what it found; applies move the files     *)
(* found; settings are saved, plans expire and are purged, jobs are        *)
(* cancelled and the process dies meanwhile.  The queue the jobs wait in   *)
(* is JobQueue, the move of one file LocalMove and CloudMove: here a scan  *)
(* or an apply just begins, and a file is delivered in one step.           *)
(***************************************************************************)
EXTENDS Integers, FiniteSets

CONSTANTS
    Actors, ListedBy,   \* the actors asked for, and the titles each lists
    PlanTitles,
    Files, VideoTitle,     \* the videos of the libraries
    NameOf,             \* their file names: two libraries may hold files of one name
    PlanIds,            \* also the ids of the scan jobs
    Requests,           \* ids of apply jobs, chosen by the caller
    Callers,            \* those who apply without a job
    Staging,            \* the staging directory of each version of the settings
    Nothing,
    MaxMishaps          \* bound on failures, crashes, saved settings and other events

Appliers == Requests \cup Callers
Versions == DOMAIN Staging

ASSUME PlansAssumption ==
    /\ ListedBy \in [Actors -> SUBSET PlanTitles] /\ VideoTitle \in [Files -> PlanTitles]
    /\ Requests \cap PlanIds = {} /\ Requests \cap Callers = {}
    /\ IsFiniteSet(Versions) /\ Versions = 1 .. Cardinality(Versions) /\ Versions # {}
    /\ Nothing \notin Files \cup PlanIds
    /\ \A v \in Versions : Staging[v] \notin {"brand", "extra"}

VARIABLES
    settings,   \* the version of the configuration in force
    place,      \* where a file is: the actor library "brand", "extra", or a staging directory
    wanted,     \* titles the scans have queued in the ledger
    plan,       \* the stored plans
    answer,     \* the stored results of their candidates
    journal,    \* the candidates with an open move journal
    job,        \* the rows of the jobs: state, and the plan (NULL once that is deleted)
    scan,       \* the scans at work
    apply,      \* the applies at work
    purging,    \* the plans a purge found expired and not needed
    delivered,  \* files whose result said "moved", for ever
    orphaned,   \* files taken up without an active job while their plan was being deleted
    mishaps

plansVars == <<settings, place, wanted, plan, answer, journal, job, scan, apply, purging,
              delivered, orphaned, mishaps>>
library == <<place, wanted>>
rows == <<plan, answer, journal, purging, delivered, orphaned>>

NoPlan == [version |-> 0]
NoScan == [pc |-> "none"]
NoApply == [pc |-> "none", plan |-> Nothing, left |-> {}, at |-> Nothing, to |-> Nothing, how |-> "none"]
Absent == [state |-> "absent", plan |-> Nothing]
Finished == {"completed", "partial_failed"}
Active(j) == job[j].state \in {"queued", "running"}
Named(state, j) == [job[j] EXCEPT !.state = state]

\* Answers of one plan, and of a plan that is gone.
Unanswered == [f \in Files |-> "none"]

Mishap == mishaps < MaxMishaps /\ mishaps' = mishaps + 1

PlansInit ==
    /\ settings = 1
    /\ place \in [Files -> {"brand", "extra"}]
    /\ wanted = {}
    /\ plan = [p \in PlanIds |-> NoPlan]
    /\ answer = [p \in PlanIds |-> Unanswered]
    /\ journal = {}
    /\ job = [j \in PlanIds \cup Requests |-> Absent]
    /\ scan = [p \in PlanIds |-> NoScan]
    /\ apply = [a \in Appliers |-> NoApply]
    /\ purging = {} /\ delivered = {} /\ orphaned = {}
    /\ mishaps = 0

-----------------------------------------------------------------------------
(* A scan. *)

ScanAt(p, pc) == scan[p].pc = pc
Scans(p, s) == scan' = [scan EXCEPT ![p] = s]

\* start_plan: the job's id is the plan's.
StartPlan(p) ==
    /\ job[p].state = "absent"
    /\ job' = [job EXCEPT ![p] = [state |-> "queued", plan |-> p]]
    /\ UNCHANGED <<settings, library, rows, scan, apply, mishaps>>

\* create_plan begins: it remembers the version of the settings.
BeginScan(p) ==
    /\ job[p].state = "queued"
    /\ job' = [job EXCEPT ![p] = Named("running", p)]
    /\ Scans(p, [pc |-> "actors", version |-> settings, actors |-> Actors, partial |-> FALSE,
                 titles |-> {}, current |-> Nothing, found |-> [f \in Files |-> 0], missing |-> {}])
    /\ UNCHANGED <<settings, library, rows, apply, mishaps>>

\* The catalogue lists an actor's titles, or fails and the plan is partial.
ListActor(p) ==
    /\ ScanAt(p, "actors")
    /\ \E a \in scan[p].actors :
          \/ /\ Scans(p, [scan[p] EXCEPT !.actors = @ \ {a}, !.titles = @ \cup ListedBy[a]])
             /\ UNCHANGED mishaps
          \/ /\ Mishap
             /\ Scans(p, [scan[p] EXCEPT !.actors = @ \ {a}, !.partial = TRUE])
    /\ UNCHANGED <<settings, library, rows, job, apply>>

ActorsListed(p) ==
    /\ ScanAt(p, "actors") /\ scan[p].actors = {}
    /\ Scans(p, [scan[p] EXCEPT !.pc = "titles"])
    /\ UNCHANGED <<settings, library, rows, job, apply, mishaps>>

FilesOf(t, where) == {f \in Files : VideoTitle[f] = t /\ place[f] = where}

\* A title that is in the actor library exists; another is looked for in the
\* other libraries next.
LookInBrand(p) ==
    /\ ScanAt(p, "titles")
    /\ \E t \in scan[p].titles :
          Scans(p, [scan[p] EXCEPT !.titles = @ \ {t},
                       !.pc = IF FilesOf(t, "brand") # {} THEN "titles" ELSE "extra",
                       !.current = IF FilesOf(t, "brand") # {} THEN Nothing ELSE t])
    /\ UNCHANGED <<settings, library, rows, job, apply, mishaps>>

\* Each file found becomes a candidate whose destination is that of the
\* settings now in force; a title without any is missing.
LookInOthers(p) ==
    /\ ScanAt(p, "extra")
    /\ LET t == scan[p].current
           others == FilesOf(t, "extra")
       IN  Scans(p, [scan[p] EXCEPT !.pc = "titles", !.current = Nothing,
                        !.found = [f \in Files |-> IF f \in others THEN settings ELSE @[f]],
                        !.missing = IF others = {} THEN @ \cup {t} ELSE @])
    /\ UNCHANGED <<settings, library, rows, job, apply, mishaps>>

\* Either look may fail; the title is then reported so.
LookFails(p) ==
    /\ Mishap
    /\ \/ /\ ScanAt(p, "extra")
          /\ Scans(p, [scan[p] EXCEPT !.pc = "titles", !.current = Nothing, !.partial = TRUE])
       \/ /\ ScanAt(p, "titles")
          /\ \E t \in scan[p].titles : Scans(p, [scan[p] EXCEPT !.titles = @ \ {t}, !.partial = TRUE])
    /\ UNCHANGED <<settings, library, rows, job, apply>>

TitlesLookedUp(p) ==
    /\ ScanAt(p, "titles") /\ scan[p].titles = {}
    /\ Scans(p, [scan[p] EXCEPT !.pc = "queue"])
    /\ UNCHANGED <<settings, library, rows, job, apply, mishaps>>

\* _queue_missing: each missing title goes to the ledger, in any order; one
\* that could not be queued leaves a warning.
QueueMissing(p) ==
    /\ ScanAt(p, "queue")
    /\ \E t \in scan[p].missing :
          \/ /\ wanted' = wanted \cup {t}
             /\ Scans(p, [scan[p] EXCEPT !.missing = @ \ {t}])
             /\ UNCHANGED mishaps
          \/ /\ Mishap
             /\ Scans(p, [scan[p] EXCEPT !.missing = @ \ {t}, !.partial = TRUE])
             /\ UNCHANGED wanted
    /\ UNCHANGED <<settings, place, rows, job, apply>>

\* Mutant: the settings are not looked at again.
RecheckNothing(p) ==
    /\ ScanAt(p, "queue") /\ scan[p].missing = {}
    /\ Scans(p, [scan[p] EXCEPT !.pc = "save"])
    /\ UNCHANGED <<settings, library, rows, job, apply, mishaps>>

\* A scan during which settings were saved is refused: its job fails.
RecheckSettings(p) ==
    /\ ScanAt(p, "queue") /\ scan[p].missing = {}
    /\ IF settings = scan[p].version
       THEN Scans(p, [scan[p] EXCEPT !.pc = "save"]) /\ UNCHANGED job
       ELSE /\ Scans(p, NoScan)
            /\ job' = IF Active(p) THEN [job EXCEPT ![p] = Named("failed", p)] ELSE job
    /\ UNCHANGED <<settings, library, rows, apply, mishaps>>

\* save_plan, in one transaction.
SavePlan(p) ==
    /\ ScanAt(p, "save")
    /\ plan' = [plan EXCEPT ![p] =
          [version |-> scan[p].version, fresh |-> TRUE, found |-> scan[p].found]]
    /\ Scans(p, [scan[p] EXCEPT !.pc = "finish"])
    /\ UNCHANGED <<settings, library, answer, journal, purging, delivered, orphaned, job, apply, mishaps>>

\* finish_owned_job: nothing if the job was cancelled or reaped meanwhile.
FinishScan(p) ==
    /\ ScanAt(p, "finish")
    /\ job' = IF ~Active(p) THEN job
              ELSE [job EXCEPT ![p] = Named(IF scan[p].partial THEN "partial_failed" ELSE "completed", p)]
    /\ Scans(p, NoScan)
    /\ UNCHANGED <<settings, library, rows, apply, mishaps>>

\* cancel_plan, and the reaping of a job whose lease ran out.
EndJob(j) ==
    /\ Mishap
    /\ job[j].state = "running" \/ (job[j].state = "queued" /\ j \in PlanIds)
    /\ job' = [job EXCEPT ![j] = Named("failed", j)]
    /\ UNCHANGED <<settings, library, rows, scan, apply>>

\* The scan of a job that ended is cancelled at one of its awaits.
StopScan(p) ==
    /\ scan[p] # NoScan /\ ~Active(p)
    /\ Scans(p, NoScan)
    /\ UNCHANGED <<settings, library, rows, job, apply, mishaps>>

ScanSteps(p) ==
    \/ BeginScan(p) \/ ListActor(p) \/ ActorsListed(p) \/ LookInBrand(p) \/ LookInOthers(p)
    \/ LookFails(p) \/ TitlesLookedUp(p) \/ QueueMissing(p) \/ RecheckSettings(p)
    \/ SavePlan(p) \/ FinishScan(p) \/ StopScan(p)

-----------------------------------------------------------------------------
(* Applying. *)

Applies(a, w) == apply' = [apply EXCEPT ![a] = w]
Candidates(p) == {f \in Files : plan[p].found[f] # 0}

\* _get_plan: stored, made under the settings in force, and not expired.
Applicable(p) == plan[p] # NoPlan /\ plan[p].version = settings /\ plan[p].fresh

\* The routes: only the plan of a finished scan is applied.
MayApply(p) == job[p].state \in Finished

\* create_apply_job: a request id already taken is answered from its job ...
RequestApply(r, p) ==
    /\ job[r].state = "absent" /\ apply[r] = NoApply
    /\ MayApply(p) /\ Applicable(p)
    /\ \E C \in (SUBSET Candidates(p)) \ {{}} :
          Applies(r, [NoApply EXCEPT !.pc = "asked", !.plan = p, !.left = C])
    /\ UNCHANGED <<settings, library, rows, job, scan, mishaps>>

\* ... another is enqueued, with the plan looked at before.
EnqueueApply(r) ==
    /\ apply[r].pc = "asked"
    /\ job' = [job EXCEPT ![r] = [state |-> "queued", plan |-> apply[r].plan]]
    /\ Applies(r, [apply[r] EXCEPT !.pc = "queued"])
    /\ UNCHANGED <<settings, library, rows, scan, mishaps>>

\* _run_apply: a job whose plan is no longer in its row fails.
ClaimApply(r) ==
    /\ apply[r].pc = "queued" /\ job[r].state = "queued"
    /\ IF job[r].plan = Nothing
       THEN /\ job' = [job EXCEPT ![r] = Named("failed", r)]
            /\ Applies(r, NoApply)
       ELSE /\ job' = [job EXCEPT ![r] = Named("running", r)]
            /\ Applies(r, [apply[r] EXCEPT !.pc = "called"])
    /\ UNCHANGED <<settings, library, rows, scan, mishaps>>

\* apply_plan: the same without a job.
CallApply(c, p) ==
    /\ apply[c] = NoApply
    /\ MayApply(p) /\ plan[p] # NoPlan
    /\ \E C \in (SUBSET Candidates(p)) \ {{}} :
          Applies(c, [NoApply EXCEPT !.pc = "called", !.plan = p, !.left = C])
    /\ UNCHANGED <<settings, library, rows, job, scan, mishaps>>

\* apply: one at a time in a process; the plan is looked at once.
BeginApply(a) ==
    /\ apply[a].pc = "called"
    /\ \A b \in Appliers : apply[b].pc # "moving"
    /\ IF Applicable(apply[a].plan)
       THEN Applies(a, [apply[a] EXCEPT !.pc = "moving"]) /\ UNCHANGED job
       ELSE /\ Applies(a, NoApply)
            /\ job' = IF a \in Requests /\ Active(a) THEN [job EXCEPT ![a] = Named("failed", a)] ELSE job
    /\ UNCHANGED <<settings, library, rows, scan, mishaps>>

\* _persist_move_completion, of a candidate that is still stored.
Answers(p, f, v) ==
    IF plan[p] = NoPlan THEN UNCHANGED <<answer, delivered, journal>>
    ELSE /\ answer' = [answer EXCEPT ![p][f] = v]
         /\ delivered' = IF v = "moved" THEN delivered \cup {f} ELSE delivered
         /\ journal' = journal \ {<<p, f>>}

Target(p, f) == Staging[plan[p].found[f]]

\* The next candidate: its answer is known, or its plan was purged and no
\* journal can be written, or it is journalled and taken up.
TakeCandidate(a) ==
    /\ apply[a].pc = "moving" /\ apply[a].at = Nothing
    /\ LET p == apply[a].plan
       IN  \E f \in apply[a].left :
              IF plan[p] = NoPlan \/ answer[p][f] # "none"
              THEN /\ Applies(a, [apply[a] EXCEPT !.left = @ \ {f}])
                   /\ UNCHANGED <<journal, orphaned>>
              ELSE /\ Applies(a, [apply[a] EXCEPT !.left = @ \ {f}, !.at = f, !.to = Target(p, f),
                                     !.how = IF <<p, f>> \in journal THEN "recover" ELSE "move"])
                   /\ journal' = journal \cup {<<p, f>>}
                   /\ orphaned' = IF p \in purging /\ ~(a \in Requests /\ Active(a)) THEN orphaned \cup {f} ELSE orphaned
    /\ UNCHANGED <<settings, library, plan, answer, purging, delivered, job, scan, mishaps>>

\* The destination must be inside the present staging directory, and free.
Deliverable(f, to) ==
    /\ place[f] = "extra" /\ to = Staging[settings]
    /\ \A g \in Files : NameOf[g] = NameOf[f] => place[g] # to

\* What a recovery says of a file that it cannot deliver: that it was, if it
\* is where the plan wants it.
Recovered(f, to) == IF to = Staging[settings] /\ place[f] = to THEN "moved" ELSE "kept"

Moves(a, how) == Applies(a, [apply[a] EXCEPT !.how = how])
Leaves(a) == Applies(a, [apply[a] EXCEPT !.at = Nothing, !.to = Nothing, !.how = "none"])

Deliver(a) ==
    /\ apply[a].at # Nothing /\ apply[a].how # "moved"
    /\ Deliverable(apply[a].at, apply[a].to)
    /\ place' = [place EXCEPT ![apply[a].at] = apply[a].to]
    /\ Moves(a, "moved")
    /\ UNCHANGED <<settings, wanted, rows, job, scan, mishaps>>

\* The result is stored with the end of the journal.
Answer(a) ==
    /\ apply[a].at # Nothing
    /\ apply[a].how = "moved" \/ ~Deliverable(apply[a].at, apply[a].to)
    /\ Answers(apply[a].plan, apply[a].at,
               CASE apply[a].how = "moved" -> "moved"
                 [] apply[a].how = "recover" -> Recovered(apply[a].at, apply[a].to)
                 [] apply[a].how = "move" -> "kept")
    /\ Leaves(a)
    /\ UNCHANGED <<settings, library, plan, purging, orphaned, job, scan, mishaps>>

\* A share or the database is away: the candidate fails, its journal stays.
Unsettled(a) ==
    /\ apply[a].at # Nothing /\ Mishap
    /\ Leaves(a)
    /\ UNCHANGED <<settings, library, rows, job, scan>>

\* Ends after the last candidate, or after the one it was at when its job was lost.
EndApply(a) ==
    /\ apply[a].pc = "moving" /\ apply[a].at = Nothing
    /\ apply[a].left = {} \/ (a \in Requests /\ ~Active(a))
    /\ Applies(a, NoApply)
    /\ job' = IF a \in Requests /\ Active(a) THEN [job EXCEPT ![a] = Named("completed", a)] ELSE job
    /\ UNCHANGED <<settings, library, rows, scan, mishaps>>

\* reconcile_moves: an open journal is settled by where the file is, or by
\* moving it now, whatever the settings have become.
Reconcile(p, f) ==
    /\ <<p, f>> \in journal /\ \A a \in Appliers : apply[a].at = Nothing
    /\ IF Deliverable(f, Target(p, f))
       THEN place' = [place EXCEPT ![f] = Target(p, f)] /\ Answers(p, f, "moved")
       ELSE UNCHANGED place /\ Answers(p, f, Recovered(f, Target(p, f)))
    /\ UNCHANGED <<settings, wanted, plan, purging, orphaned, job, scan, apply, mishaps>>

ApplySteps(a) ==
    \/ BeginApply(a) \/ TakeCandidate(a) \/ Deliver(a) \/ Answer(a) \/ Unsettled(a) \/ EndApply(a)

-----------------------------------------------------------------------------
(* What goes on besides. *)

SaveSettings ==
    /\ Mishap /\ settings + 1 \in Versions
    /\ settings' = settings + 1
    /\ UNCHANGED <<library, rows, job, scan, apply>>

Expire(p) ==
    /\ plan[p] # NoPlan /\ plan[p].fresh
    /\ plan' = [plan EXCEPT ![p].fresh = FALSE]
    /\ UNCHANGED <<settings, library, answer, journal, purging, delivered, orphaned, job, scan, apply, mishaps>>

\* What keeps an expired plan: open journals and apply jobs.
Needed(p) ==
    \/ \E f \in Files : <<p, f>> \in journal
    \/ \E r \in Requests : job[r].plan = p /\ Active(r)

\* purge_expired_plans first finds and locks the plans that may go ...
PurgeFinds ==
    /\ purging = {}
    /\ purging' = {p \in PlanIds : plan[p] # NoPlan /\ ~plan[p].fresh /\ ~Needed(p)}
    /\ purging' # {}
    /\ UNCHANGED <<settings, library, plan, answer, journal, delivered, orphaned, job, scan, apply, mishaps>>

\* ... then deletes them, whose rows go with them and whose jobs forget them.
Purge ==
    /\ purging # {} /\ purging' = {}
    /\ plan' = [p \in PlanIds |-> IF p \in purging THEN NoPlan ELSE plan[p]]
    /\ answer' = [p \in PlanIds |-> IF p \in purging THEN Unanswered ELSE answer[p]]
    /\ journal' = {c \in journal : c[1] \notin purging}
    /\ job' = [j \in DOMAIN job |-> IF job[j].plan \in purging THEN [job[j] EXCEPT !.plan = Nothing] ELSE job[j]]
    /\ UNCHANGED <<settings, library, delivered, orphaned, scan, apply, mishaps>>

\* The archive run takes a file from the staging directory to the actor library.
ArchiveFile(f) ==
    /\ place[f] = Staging[settings]
    /\ place' = [place EXCEPT ![f] = "brand"]
    /\ UNCHANGED <<settings, wanted, rows, job, scan, apply, mishaps>>

\* The process dies; queued jobs wait for the next one.
Die ==
    /\ Mishap
    /\ scan' = [p \in PlanIds |-> NoScan]
    /\ apply' = [a \in Appliers |-> IF apply[a].pc = "queued" THEN apply[a] ELSE NoApply]
    /\ UNCHANGED <<settings, library, rows, job>>

PlansNext ==
    \/ \E p \in PlanIds : StartPlan(p) \/ ScanSteps(p) \/ Expire(p)
    \/ \E r \in Requests : EnqueueApply(r) \/ ClaimApply(r) \/ \E p \in PlanIds : RequestApply(r, p)
    \/ \E c \in Callers, p \in PlanIds : CallApply(c, p)
    \/ \E a \in Appliers : ApplySteps(a)
    \/ \E p \in PlanIds, f \in Files : Reconcile(p, f)
    \/ \E j \in PlanIds \cup Requests : EndJob(j)
    \/ \E f \in Files : ArchiveFile(f)
    \/ SaveSettings \/ PurgeFinds \/ Purge \/ Die

PlansSpec == PlansInit /\ [][PlansNext]_plansVars

-----------------------------------------------------------------------------
\* All destinations of a stored plan were computed under the settings it is
\* stamped with, although each was computed at its own moment of a scan
\* during which settings may be saved.
PlanOfOneConfig ==
    \A p \in PlanIds : plan[p] # NoPlan => \A f \in Candidates(p) : plan[p].found[f] = plan[p].version

\* A scan that calls itself completed accounts for every title its actors
\* list: the libraries hold it or the ledger was given it.
CompletedAccounts ==
    \A p \in PlanIds : job[p].state = "completed" =>
        \A a \in Actors : \A t \in ListedBy[a] : t \in wanted \/ \E f \in Files : VideoTitle[f] = t

\* A file that waits in the staging directory was reported as moved, or an
\* open journal still says that it has to be, whoever died or purged the
\* plan meanwhile.  Not so for a caller without a job, or whose job was reaped:
\* a purge that began before the journal was written may delete the plan and
\* the journal in the middle of the move.
\* (A staging directory that was given up is not returned to here: a recovery
\* calls a file outside the present one invalid.)
MovedIsReported ==
    \A f \in Files : place[f] = Staging[settings] =>
        f \in delivered \cup orphaned \/ \E p \in PlanIds : <<p, f>> \in journal

\* Files are moved for finished scans only: the plan of a scan that was
\* cancelled between storing it and finishing its job is never applied.
OnlyFinishedPlansMove == \A c \in journal : job[c[1]].state \in Finished

\* What a plan may be trusted with from its scan to its purge: it is of one
\* configuration, accounts for every title, and moves files only when its scan
\* is finished and only with a report.
PlansAccounted == PlanOfOneConfig /\ CompletedAccounts /\ MovedIsReported /\ OnlyFinishedPlansMove

\* A plan made under other settings "must not be applied": a file is moved
\* only under the settings its plan was made with.  Does not hold: recovery
\* moves under newer ones (README, section 6).
AppliedUnderItsConfig ==
    [][\A f \in Files : place[f] = "extra" /\ place'[f] # "extra" =>
          \E p \in PlanIds : <<p, f>> \in journal /\ plan[p].version = settings]_plansVars
===============================================================================
