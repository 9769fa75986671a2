---------------------------- MODULE FillActorStore ----------------------------
(***************************************************************************)
(* What the fill actor asks of its repository: MemoryFillActorRepository,  *)
(* the one its tests run against, in which every call holds one lock and   *)
(* works on dictionaries.  FillActorTables, the SQL of the program that is *)
(* deployed, implements this module.                                       *)
(***************************************************************************)
EXTENDS Integers, FiniteSets

CONSTANTS
    PlanIds,            \* also the ids of the jobs that create them
    Requests,           \* ids of apply jobs
    LocalCands, CloudCands,
    SourceOf,           \* the CloudDrive path of a cloud candidate
    Owners, Null,
    MaxActive,
    Selections,         \* the sets of candidates that are stored or asked for
    JournalSteps, CloudSteps, Verdicts      \* the states and results that are written

Cands == LocalCands \cup CloudCands
Jobs == PlanIds \cup Requests

VARIABLES
    plans,      \* the candidates of each stored plan
    results, journal, cloud,    \* by plan and candidate
    jobs,       \* job rows
    applies,    \* what the apply jobs were asked to do, and their results
    reply       \* what the last call returned

storeVars == <<plans, results, journal, cloud, jobs, applies, reply>>

NoPlan == {"no plan"}
NoJob == [state |-> "absent", plan |-> Null, owner |-> Null, live |-> FALSE, error |-> "none"]
NoApply == [asked |-> {}, result |-> "none"]
Open == {"queued", "running"}
Terminal == {"succeeded", "conflict", "failed"}
NoRows == [c \in Cands |-> "none"]

StoreInit ==
    /\ plans = [p \in PlanIds |-> NoPlan]
    /\ results = [p \in PlanIds |-> NoRows] /\ journal = results /\ cloud = results
    /\ jobs = [j \in Jobs |-> NoJob]
    /\ applies = [r \in Requests |-> NoApply]
    /\ reply = <<"said", "none">>

Returns(v) == reply' = <<"said", v>>
Fails == Returns("error")
NothingButReply == UNCHANGED <<plans, results, journal, cloud, jobs, applies>>
JobsOnly == UNCHANGED <<plans, results, journal, cloud>>
MovesOnly == UNCHANGED <<plans, jobs, applies>>

\* validate_journal_transition and validate_cloud_move_transition.
JournalEdge(from, to) ==
    \/ from = to /\ from # "none"
    \/ <<from, to>> \in {<<"none", "prepared">>, <<"prepared", "linked">>, <<"linked", "source_removed">>}
    \/ to = "reconciled" /\ from # "none"

CloudEdge(from, to) ==
    \/ from = to /\ from # "none"
    \/ <<from, to>> \in {<<"none", "prepared">>, <<"prepared", "submitting">>, <<"submitting", "verifying">>,
                         <<"submitting", "unknown">>, <<"verifying", "unknown">>}
    \/ from = "prepared" /\ to \in {"conflict", "failed"}
    \/ from \in {"verifying", "unknown"} /\ to \in Terminal

Stored(p, c) == plans[p] # NoPlan /\ c \in plans[p]
-----------------------------------------------------------------------------
(* Plans. *)

\* What was known of candidates the plan no longer has is dropped.
Kept(byCand, C) == [c \in Cands |-> IF c \in C THEN byCand[c] ELSE "none"]

SavePlan(p, C) ==
    /\ plans' = [plans EXCEPT ![p] = C]
    /\ results' = [results EXCEPT ![p] = Kept(@, C)]
    /\ journal' = [journal EXCEPT ![p] = Kept(@, C)]
    /\ cloud' = [cloud EXCEPT ![p] = Kept(@, C)]
    /\ Returns("saved") /\ UNCHANGED <<jobs, applies>>

\* Moves under way and apply jobs keep a plan.
Blocked(p) ==
    \/ \E c \in Cands : journal[p][c] \notin {"none", "reconciled"}
    \/ \E c \in Cands : cloud[p][c] \notin Terminal \cup {"none"}
    \/ \E r \in Requests : jobs[r].plan = p /\ jobs[r].state \in Open

\* _delete_plan_dependents.
Without(byPlan, P) == [p \in PlanIds |-> IF p \in P THEN NoRows ELSE byPlan[p]]
Forgetting(P) == [j \in Jobs |-> IF jobs[j].plan \in P THEN [jobs[j] EXCEPT !.plan = Null] ELSE jobs[j]]

Deletes(P) ==
    /\ plans' = [p \in PlanIds |-> IF p \in P THEN NoPlan ELSE plans[p]]
    /\ results' = Without(results, P) /\ journal' = Without(journal, P) /\ cloud' = Without(cloud, P)
    /\ jobs' = Forgetting(P)
    /\ UNCHANGED applies

DeletePlan(p) ==
    /\ plans[p] # NoPlan
    /\ IF Blocked(p) THEN Returns("no") /\ NothingButReply ELSE Returns("yes") /\ Deletes({p})

\* Of the plans P that are past their time.
PurgeExpired(P) ==
    LET gone == {p \in P : plans[p] # NoPlan /\ ~Blocked(p)}
    IN  Deletes(gone) /\ reply' = <<"count", Cardinality(gone)>>

SaveResult(p, c, v) ==
    IF Stored(p, c) THEN results' = [results EXCEPT ![p][c] = v] /\ Returns("saved") /\ MovesOnly /\ UNCHANGED <<journal, cloud>>
    ELSE Fails /\ NothingButReply
-----------------------------------------------------------------------------
(* Jobs. *)

Count == Cardinality({j \in Jobs : jobs[j].state \in Open})
Queued(p) == [NoJob EXCEPT !.state = "queued", !.plan = p]
Owned(j, o) == jobs[j].state = "running" /\ jobs[j].owner = o /\ jobs[j].live
Ended(j, state, error) == [NoJob EXCEPT !.state = state, !.plan = jobs[j].plan, !.error = error]

EnqueueJob(p) ==
    /\ IF Count >= MaxActive \/ jobs[p].state # "absent" THEN Returns("no") /\ UNCHANGED jobs
       ELSE Returns("yes") /\ jobs' = [jobs EXCEPT ![p] = Queued(p)]
    /\ JobsOnly /\ UNCHANGED applies

\* A request made before is answered by its job if it asks for the same.
EnqueueApply(r, p, C) ==
    /\ \/ /\ jobs[r].state # "absent"
          /\ Returns(IF jobs[r].plan = p /\ applies[r].asked = C THEN "existing" ELSE "conflict")
          /\ UNCHANGED <<jobs, applies>>
       \/ /\ jobs[r].state = "absent" /\ Count >= MaxActive
          /\ Returns("full") /\ UNCHANGED <<jobs, applies>>
       \/ /\ jobs[r].state = "absent" /\ Count < MaxActive
          /\ Returns("enqueued")
          /\ jobs' = [jobs EXCEPT ![r] = Queued(p)]
          /\ applies' = [applies EXCEPT ![r] = [asked |-> C, result |-> "none"]]
    /\ JobsOnly

\* Creation times follow the order of the ids.
Oldest == CHOOSE j \in Jobs : jobs[j].state = "queued" /\ \A i \in Jobs : jobs[i].state = "queued" => j <= i

ClaimNext(o) ==
    /\ IF \A j \in Jobs : jobs[j].state # "queued" THEN Returns("nothing") /\ UNCHANGED jobs
       ELSE /\ reply' = <<"job", Oldest>>
            /\ jobs' = [jobs EXCEPT ![Oldest] = [@ EXCEPT !.state = "running", !.owner = o, !.live = TRUE]]
    /\ JobsOnly /\ UNCHANGED applies

\* renew_owned_job_lease and update_owned_job_progress, without the times.
Renew(j, o) == Returns(IF Owned(j, o) THEN "yes" ELSE "no") /\ NothingButReply

\* A result only of an apply job; an error changes nothing.
Finish(j, o, state, result) ==
    /\ IF ~Owned(j, o) THEN Returns("no") /\ UNCHANGED <<jobs, applies>>
       ELSE IF result # "none" /\ j \notin Requests THEN Fails /\ UNCHANGED <<jobs, applies>>
       ELSE /\ Returns("yes")
            /\ jobs' = [jobs EXCEPT ![j] = Ended(j, state, IF state = "failed" THEN "failed" ELSE "none")]
            /\ applies' = IF result = "none" THEN applies ELSE [applies EXCEPT ![j].result = result]
    /\ JobsOnly

CancelJob(j) ==
    /\ \/ jobs[j].state = "absent" /\ Returns("not_found") /\ UNCHANGED jobs
       \/ jobs[j].state # "absent" /\ j \in Requests /\ Returns("not_cancellable") /\ UNCHANGED jobs
       \/ /\ jobs[j].state \notin Open \cup {"absent"} /\ j \notin Requests
          /\ Returns(IF jobs[j].error = "cancelled" THEN "already_cancelled" ELSE "already_terminal")
          /\ UNCHANGED jobs
       \/ /\ jobs[j].state \in Open /\ j \notin Requests
          /\ Returns("cancelled")
          /\ jobs' = [jobs EXCEPT ![j] = Ended(j, "failed", "cancelled")]
    /\ JobsOnly /\ UNCHANGED applies

FailExpired ==
    LET expired == {j \in Jobs : jobs[j].state = "running" /\ ~jobs[j].live}
    IN  /\ reply' = <<"count", Cardinality(expired)>>
        /\ jobs' = [j \in Jobs |-> IF j \in expired THEN Ended(j, "failed", "interrupted") ELSE jobs[j]]
        /\ JobsOnly /\ UNCHANGED applies

\* Time: a lease runs out.
LeaseEnds(j) ==
    /\ jobs[j].state = "running" /\ jobs[j].live
    /\ jobs' = [jobs EXCEPT ![j].live = FALSE]
    /\ JobsOnly /\ UNCHANGED <<applies, reply>>
-----------------------------------------------------------------------------
(* Moves. *)

SaveJournal(p, c, s) ==
    IF Stored(p, c) /\ JournalEdge(journal[p][c], s)
    THEN journal' = [journal EXCEPT ![p][c] = s] /\ Returns("saved") /\ MovesOnly /\ UNCHANGED <<results, cloud>>
    ELSE Fails /\ NothingButReply

\* _save_cloud_move_operation_locked: one unresolved operation per source.
MaySaveOperation(p, c, s) ==
    /\ Stored(p, c) /\ c \in CloudCands /\ CloudEdge(cloud[p][c], s)
    /\ s \notin Terminal =>
          \A q \in PlanIds, d \in CloudCands :
             <<q, d>> # <<p, c>> /\ SourceOf[d] = SourceOf[c] => cloud[q][d] \in Terminal \cup {"none"}

SaveOperation(p, c, s) ==
    IF s \notin Terminal /\ MaySaveOperation(p, c, s)
    THEN cloud' = [cloud EXCEPT ![p][c] = s] /\ Returns("saved") /\ MovesOnly /\ UNCHANGED <<results, journal>>
    ELSE Fails /\ NothingButReply

FinalizeMove(p, c, s, v) ==
    IF s \in Terminal /\ MaySaveOperation(p, c, s)
    THEN /\ cloud' = [cloud EXCEPT ![p][c] = s] /\ results' = [results EXCEPT ![p][c] = v]
         /\ Returns("saved") /\ MovesOnly /\ UNCHANGED journal
    ELSE Fails /\ NothingButReply
-----------------------------------------------------------------------------
StoreNext ==
    \/ \E p \in PlanIds : \/ \E C \in Selections : SavePlan(p, C)
                          \/ DeletePlan(p) \/ PurgeExpired({p}) \/ EnqueueJob(p)
    \/ \E p \in PlanIds, c \in Cands :
          \/ \E v \in Verdicts : SaveResult(p, c, v)
          \/ c \in LocalCands /\ \E s \in JournalSteps : SaveJournal(p, c, s)
          \/ \E s \in CloudSteps : SaveOperation(p, c, s) \/ \E v \in Verdicts : FinalizeMove(p, c, s, v)
    \/ \E r \in Requests, p \in PlanIds, C \in Selections : EnqueueApply(r, p, C)
    \/ \E o \in Owners : ClaimNext(o)
    \/ \E j \in Jobs : CancelJob(j) \/ LeaseEnds(j)
    \/ \E j \in Jobs, o \in Owners :
          \/ Renew(j, o)
          \/ \E state \in {"completed", "failed"}, v \in {"none", "result"} : Finish(j, o, state, v)
    \/ FailExpired

StoreSpec == StoreInit /\ [][StoreNext]_storeVars
===============================================================================
