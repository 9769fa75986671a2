---------------------------- MODULE FillActorTables ----------------------------
(***************************************************************************)
(* PostgresFillActorRepository: the statements of each call on the tables  *)
(* fill_actor_plans, _candidates, _move_results, _move_journal,            *)
(* _cloud_move_operations, _jobs and _apply_jobs, with the keys that       *)
(* cascade and the unique index on unresolved sources.  A transaction is   *)
(* one step; FillActorPlans takes a purge apart.                           *)
(***************************************************************************)
EXTENDS FillActorMoves

CONSTANTS
    StoredPlans,        \* also the ids of the jobs that create them
    ApplyIds,           \* ids of apply jobs
    Owners, Null,
    QueueLimit,
    Selections,     \* the sets of candidates that are stored or asked for
    JournalSteps, CloudSteps, Verdicts      \* the states and results that are written

ASSUME TablesAssumption ==
    /\ StoredPlans \cup ApplyIds \subseteq Nat /\ StoredPlans \cap ApplyIds = {}
    /\ Null \notin Owners \cup StoredPlans \cup ApplyIds
    /\ "no plan" \notin Cands      \* what is read of no plan is not a plan's candidates
    /\ QueueLimit \in Nat /\ Selections \subseteq SUBSET Cands
    /\ JournalSteps \subseteq {"prepared", "linked", "source_removed", "reconciled"}
    /\ CloudSteps \subseteq {"prepared", "submitting", "verifying", "unknown", "succeeded", "conflict", "failed"}

VARIABLES
    planRows, candRows,             \* plan ids; pairs of a plan and a candidate
    resultRows, journalRows, operationRows,     \* plan, candidate and value
    jobRows, applyRows,             \* records with a job id
    returned                        \* what the last call returned

tableVars == <<planRows, candRows, resultRows, journalRows, operationRows, jobRows, applyRows, returned>>
planTables == <<planRows, candRows, resultRows, journalRows, operationRows>>

AllJobs == StoredPlans \cup ApplyIds

Valued(rows) ==
    [p \in StoredPlans |-> [c \in Cands |->
        IF \E r \in rows : r[1] = p /\ r[2] = c THEN (CHOOSE r \in rows : r[1] = p /\ r[2] = c)[3] ELSE "none"]]

Job(j) == CHOOSE r \in jobRows : r.job = j
HasJob(j) == \E r \in jobRows : r.job = j

\* What the repository holds, read back as its callers do.
PlansRead == [p \in StoredPlans |-> IF p \in planRows THEN {c \in Cands : <<p, c>> \in candRows} ELSE {"no plan"}]
JobsRead ==
    [j \in AllJobs |->
        IF HasJob(j) THEN [state |-> Job(j).state, plan |-> Job(j).plan, owner |-> Job(j).owner,
                           live |-> Job(j).live, error |-> Job(j).error]
        ELSE [state |-> "absent", plan |-> Null, owner |-> Null, live |-> FALSE, error |-> "none"]]
AppliesRead ==
    [j \in ApplyIds |->
        IF \E r \in applyRows : r.job = j
        THEN LET r == CHOOSE x \in applyRows : x.job = j IN [asked |-> r.asked, result |-> r.result]
        ELSE [asked |-> {}, result |-> "none"]]

Store == INSTANCE FillActorStore WITH
            plans <- PlansRead, results <- Valued(resultRows), journal <- Valued(journalRows),
            cloud <- Valued(operationRows), MaxActive <- QueueLimit, jobs <- JobsRead, applies <- AppliesRead, reply <- returned,
            PlanIds <- StoredPlans, Requests <- ApplyIds

TablesInit ==
    /\ planRows = {} /\ candRows = {} /\ resultRows = {} /\ journalRows = {} /\ operationRows = {}
    /\ jobRows = {} /\ applyRows = {}
    /\ returned = <<"said", "none">>

Return(v) == returned' = <<"said", v>>
NoRowChanges == UNCHANGED <<planTables, jobRows, applyRows>>

\* INSERT ... ON CONFLICT (plan_id, candidate_id) DO UPDATE.
Upsert(rows, p, c, v) == {r \in rows : r[1] # p \/ r[2] # c} \cup {<<p, c, v>>}
ValueAt(rows, p, c) == Valued(rows)[p][c]

\* REFERENCES fill_actor_candidates ... ON DELETE CASCADE.
Cascade(rows, cands) == {r \in rows : <<r[1], r[2]>> \in cands}
CandidatesBecome(cands) ==
    /\ candRows' = cands
    /\ resultRows' = Cascade(resultRows, cands)
    /\ journalRows' = Cascade(journalRows, cands)
    /\ operationRows' = Cascade(operationRows, cands)
-----------------------------------------------------------------------------
(* Plans. *)

\* Mutant: candidates the plan no longer has are left behind.
SavePlanRowsAdding(p, C) ==
    /\ planRows' = planRows \cup {p}
    /\ CandidatesBecome(candRows \cup {<<p, c>> : c \in C})
    /\ Return("saved") /\ UNCHANGED <<jobRows, applyRows>>

SavePlanRows(p, C) ==
    /\ planRows' = planRows \cup {p}
    /\ CandidatesBecome({r \in candRows : r[1] # p \/ r[2] \in C} \cup {<<p, c>> : c \in C})
    /\ Return("saved") /\ UNCHANGED <<jobRows, applyRows>>

BlockedRow(p) ==
    \/ \E r \in journalRows : r[1] = p /\ r[3] # "reconciled"
    \/ \E r \in operationRows : r[1] = p /\ r[3] \notin {"succeeded", "conflict", "failed"}
    \/ \E r \in jobRows : r.plan = p /\ r.job \in ApplyIds /\ r.state \in {"queued", "running"}

\* Jobs are kept, their plan_id set to NULL; the rest cascades.
DeleteRows(P) ==
    /\ jobRows' = {IF r.plan \in P THEN [r EXCEPT !.plan = Null] ELSE r : r \in jobRows}
    /\ planRows' = planRows \ P
    /\ CandidatesBecome({r \in candRows : r[1] \notin P})
    /\ UNCHANGED applyRows

DeletePlanRow(p) ==
    /\ p \in planRows
    /\ IF BlockedRow(p) THEN Return("no") /\ NoRowChanges ELSE Return("yes") /\ DeleteRows({p})

PurgeRows(P) ==
    LET expired == {p \in P \cap planRows : ~BlockedRow(p)}
    IN  DeleteRows(expired) /\ returned' = <<"count", Cardinality(expired)>>

InsertResult(p, c, v) ==
    IF <<p, c>> \in candRows
    THEN /\ resultRows' = Upsert(resultRows, p, c, v) /\ Return("saved")
         /\ UNCHANGED <<planRows, candRows, journalRows, operationRows, jobRows, applyRows>>
    ELSE Return("error") /\ NoRowChanges
-----------------------------------------------------------------------------
(* Jobs. *)

ActiveCount == Cardinality({r \in jobRows : r.state \in {"queued", "running"}})
NewJob(j, p) == [job |-> j, state |-> "queued", plan |-> p, owner |-> Null, live |-> FALSE, error |-> "none"]
Update(r, new) == jobRows' = (jobRows \ {r}) \cup {new}
OwnedRow(j, o) == {r \in jobRows : r.job = j /\ r.owner = o /\ r.state = "running" /\ r.live}
TerminalRow(r, state, error) == [r EXCEPT !.state = state, !.error = error, !.owner = Null, !.live = FALSE]

InsertJob(p) ==
    /\ IF ActiveCount >= QueueLimit \/ HasJob(p) THEN Return("no") /\ UNCHANGED jobRows
       ELSE Return("yes") /\ jobRows' = jobRows \cup {NewJob(p, p)}
    /\ UNCHANGED <<planTables, applyRows>>

\* Under the advisory lock; the row of a request is joined with its payload.
InsertApply(r, p, C) ==
    /\ IF HasJob(r)
       THEN /\ Return(IF Job(r).plan = p /\ \E x \in applyRows : x.job = r /\ x.asked = C THEN "existing" ELSE "conflict")
            /\ UNCHANGED <<jobRows, applyRows>>
       ELSE IF ActiveCount >= QueueLimit THEN Return("full") /\ UNCHANGED <<jobRows, applyRows>>
       ELSE /\ Return("enqueued")
            /\ jobRows' = jobRows \cup {NewJob(r, p)}
            /\ applyRows' = applyRows \cup {[job |-> r, asked |-> C, result |-> "none"]}
    /\ UNCHANGED planTables

\* ORDER BY created_at, job_id LIMIT 1.
ClaimRow(o) ==
    LET queued == {r \in jobRows : r.state = "queued"}
    IN  /\ \/ queued = {} /\ Return("nothing") /\ UNCHANGED jobRows
           \/ \E r \in queued :
                 /\ \A s \in queued : r.job <= s.job
                 /\ Update(r, [r EXCEPT !.state = "running", !.owner = o, !.live = TRUE])
                 /\ returned' = <<"job", r.job>>
        /\ UNCHANGED <<planTables, applyRows>>

RenewRow(j, o) == Return(IF OwnedRow(j, o) # {} THEN "yes" ELSE "no") /\ NoRowChanges

FinishRow(j, o, state, result) ==
    /\ \/ OwnedRow(j, o) = {} /\ Return("no") /\ UNCHANGED <<jobRows, applyRows>>
       \/ \* the transaction is rolled back
          /\ OwnedRow(j, o) # {} /\ result # "none" /\ ~\E x \in applyRows : x.job = j
          /\ Return("error") /\ UNCHANGED <<jobRows, applyRows>>
       \/ \E r \in OwnedRow(j, o) :
          /\ result = "none" \/ \E x \in applyRows : x.job = j
          /\ Update(r, TerminalRow(r, state, IF state = "failed" THEN "failed" ELSE "none"))
          /\ applyRows' = {IF x.job = j /\ result # "none" THEN [x EXCEPT !.result = result] ELSE x : x \in applyRows}
          /\ Return("yes")
    /\ UNCHANGED planTables

CancelRow(j) ==
    /\ \/ ~HasJob(j) /\ Return("not_found") /\ UNCHANGED jobRows
       \/ /\ HasJob(j)
          /\ LET r == Job(j)
             IN  \/ j \in ApplyIds /\ Return("not_cancellable") /\ UNCHANGED jobRows
                 \/ /\ j \notin ApplyIds /\ r.state \notin {"queued", "running"}
                    /\ Return(IF r.error = "cancelled" THEN "already_cancelled" ELSE "already_terminal")
                    /\ UNCHANGED jobRows
                 \/ /\ j \notin ApplyIds /\ r.state \in {"queued", "running"}
                    /\ Update(r, TerminalRow(r, "failed", "cancelled"))
                    /\ Return("cancelled")
    /\ UNCHANGED <<planTables, applyRows>>

FailExpiredRows ==
    LET expired == {r \in jobRows : r.state = "running" /\ ~r.live}
    IN  /\ jobRows' = {IF r \in expired THEN TerminalRow(r, "failed", "interrupted") ELSE r : r \in jobRows}
        /\ returned' = <<"count", Cardinality(expired)>>
        /\ UNCHANGED <<planTables, applyRows>>

LeaseRunsOut(j) ==
    /\ \E r \in jobRows : r.job = j /\ r.state = "running" /\ r.live /\ Update(r, [r EXCEPT !.live = FALSE])
    /\ UNCHANGED <<planTables, applyRows, returned>>
-----------------------------------------------------------------------------
(* Moves. *)

InsertJournal(p, c, s) ==
    IF <<p, c>> \in candRows /\ Store!JournalEdge(ValueAt(journalRows, p, c), s)
    THEN /\ journalRows' = Upsert(journalRows, p, c, s) /\ Return("saved")
         /\ UNCHANGED <<planRows, candRows, resultRows, operationRows, jobRows, applyRows>>
    ELSE Return("error") /\ NoRowChanges

\* fill_actor_cloud_move_operations_active_source_idx.
UniqueSource(rows) ==
    \A r, s \in {x \in rows : x[3] \notin Store!Terminal} : SourceOf[r[2]] = SourceOf[s[2]] => r = s

InsertsOperation(p, c, s) ==
    /\ <<p, c>> \in candRows /\ c \in CloudCands /\ Store!CloudEdge(ValueAt(operationRows, p, c), s)
    /\ UniqueSource(Upsert(operationRows, p, c, s))

InsertOperation(p, c, s) ==
    IF s \notin Store!Terminal /\ InsertsOperation(p, c, s)
    THEN /\ operationRows' = Upsert(operationRows, p, c, s) /\ Return("saved")
         /\ UNCHANGED <<planRows, candRows, resultRows, journalRows, jobRows, applyRows>>
    ELSE Return("error") /\ NoRowChanges

\* The operation and its result in one transaction.
FinalizeRows(p, c, s, v) ==
    IF s \in Store!Terminal /\ InsertsOperation(p, c, s)
    THEN /\ operationRows' = Upsert(operationRows, p, c, s) /\ resultRows' = Upsert(resultRows, p, c, v)
         /\ Return("saved") /\ UNCHANGED <<planRows, candRows, journalRows, jobRows, applyRows>>
    ELSE Return("error") /\ NoRowChanges
-----------------------------------------------------------------------------
TablesNext ==
    \/ \E p \in StoredPlans : \/ \E C \in Selections : SavePlanRows(p, C)
                          \/ DeletePlanRow(p) \/ PurgeRows({p}) \/ InsertJob(p)
    \/ \E p \in StoredPlans, c \in Cands :
          \/ \E v \in Verdicts : InsertResult(p, c, v)
          \/ c \in LocalCands /\ \E s \in JournalSteps : InsertJournal(p, c, s)
          \/ \E s \in CloudSteps : InsertOperation(p, c, s) \/ \E v \in Verdicts : FinalizeRows(p, c, s, v)
    \/ \E r \in ApplyIds, p \in StoredPlans, C \in Selections : InsertApply(r, p, C)
    \/ \E o \in Owners : ClaimRow(o)
    \/ \E j \in AllJobs : CancelRow(j) \/ LeaseRunsOut(j)
    \/ \E j \in AllJobs, o \in Owners :
          \/ RenewRow(j, o)
          \/ \E state \in {"completed", "failed"}, v \in {"none", "result"} : FinishRow(j, o, state, v)
    \/ FailExpiredRows

TablesSpec == TablesInit /\ [][TablesNext]_tableVars
-----------------------------------------------------------------------------
\* The tables, read back, behave as the repository the tests run against:
\* every call has the same effect and the same answer, also those that follow
\* a plan's deletion or a scan that stores a plan again.
StoreKept == Store!StoreSpec
===============================================================================
