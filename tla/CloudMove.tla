------------------------------ MODULE CloudMove ------------------------------
(***************************************************************************)
(* Moving a video inside CloudDrive: FillActorService._run_cloud_move, the *)
(* operation it writes ahead, the observation of what became of it and the *)
(* recovery of operations an interruption left open.  CloudDrive's MoveFile *)
(* takes paths and no file identity; its answer may be lost, and a request *)
(* may take effect long after.                                             *)
(***************************************************************************)
EXTENDS FillActorMoves

CONSTANTS
    Other,          \* files of another identity
    VerifyAttempts, \* CLOUD_VERIFY_ATTEMPTS
    Late            \* a request may still be under way when the grace period is over

ASSUME CloudAssumption ==
    /\ Other \cap (Sources \cup {None}) = {}
    /\ VerifyAttempts \in Nat \ {0} /\ Late \in BOOLEAN

VARIABLES
    cloud,      \* the file at each CloudDrive path
    cloudLibrary,    \* files the archive took from the staging directory
    op,         \* the stored operation of a candidate: its state, or how it ended
    aged,       \* operations written more than the grace period ago
    cloudResult,     \* the stored results, by candidate
    calls,      \* how often MoveFile was called for a candidate
    pending,    \* candidates whose request CloudDrive has not carried out yet
    cloudWork,       \* the move that holds the mutation lock
    cloudFaults

drive == <<cloud, cloudLibrary, pending>>
cloudRows == <<op, aged, cloudResult>>
cloudVars == <<cloud, cloudLibrary, op, aged, cloudResult, calls, pending, cloudWork, cloudFaults>>

CloudFiles == Sources \cup Other

OpenStates == {"prepared", "submitting", "verifying", "unknown"}
Failures == {"changed", "rejected", "unobserved", "unsubmitted"}     \* error codes of "failed"
Endings == {"succeeded", "conflict"} \cup Failures
OpenOperation(c) == op[c] \in OpenStates

CloudTypeOK ==
    /\ cloud \in [Sources \cup Destinations -> CloudFiles \cup {None}]
    /\ cloudLibrary \subseteq CloudFiles
    /\ op \in [CloudCands -> OpenStates \cup Endings \cup {"none"}]
    /\ aged \subseteq CloudCands /\ pending \subseteq CloudCands
    /\ cloudResult \in [CloudCands -> {"none", "moved", "stale", "conflict", "invalid", "failed"}]
    /\ calls \in [CloudCands -> 0 .. 1]
    /\ cloudWork \in {Idle} \cup
         [on : CloudCands, pc : {"look", "recheck", "prepare", "submit", "call", "wait", "source", "destination"},
          answer : {"none", "done", "rejected"}, tries : 0 .. VerifyAttempts,
          seen : {"none", "planned", "other"}]
    /\ cloudFaults \in 0 .. MaxFaults

CloudInit ==
    /\ cloud = [p \in Sources \cup Destinations |-> IF p \in Sources THEN p ELSE None]
    /\ cloudLibrary = {} /\ aged = {} /\ pending = {}
    /\ op = [c \in CloudCands |-> "none"]
    /\ cloudResult = [c \in CloudCands |-> "none"]
    /\ calls = [c \in CloudCands |-> 0]
    /\ cloudWork = Idle
    /\ cloudFaults = 0

-----------------------------------------------------------------------------
(* The database. *)

\* validate_cloud_move_transition
OperationEdges == [none |-> {"prepared"},
                   prepared |-> {"prepared", "submitting", "conflict", "failed"},
                   submitting |-> {"submitting", "verifying", "unknown"},
                   verifying |-> {"verifying", "unknown", "succeeded", "conflict", "failed"},
                   unknown |-> {"unknown", "succeeded", "conflict", "failed"},
                   succeeded |-> {"succeeded"}, conflict |-> {"conflict"}, failed |-> {"failed"}]
StateOf(ending) == IF ending \in Failures THEN "failed" ELSE ending

\* Each write of an open operation sets its updated_at; the partial unique
\* index lets one unresolved operation name a source.
SaveOperation(c, state) ==
    /\ state \in OperationEdges[StateOf(op[c])]
    /\ op' = [op EXCEPT ![c] = state]
    /\ aged' = aged \ {c}
    /\ UNCHANGED cloudResult

SourceTaken(c) == \E d \in CloudCands \ {c} : Src(d) = Src(c) /\ OpenOperation(d)

\* finalize_cloud_move: how the operation ended and the result, at once.
Finalize(c, ending, out) ==
    /\ StateOf(ending) \in OperationEdges[StateOf(op[c])]
    /\ op' = [op EXCEPT ![c] = ending]
    /\ aged' = aged \ {c}
    /\ cloudResult' = [cloudResult EXCEPT ![c] = out]

CloudOnPc(c, pc) == cloudWork.on = c /\ cloudWork.pc = pc
CloudGoto(pc) == cloudWork' = [cloudWork EXCEPT !.pc = pc]

Takes(c, pc) ==
    cloudWork' = [on |-> c, pc |-> pc, answer |-> "none", tries |-> VerifyAttempts, seen |-> "none"]

-----------------------------------------------------------------------------
(* _run_cloud_move *)

\* Mutant: an operation on record is looked for, not a result.
ApplyCloudAgain(c) ==
    /\ cloudWork = Idle /\ op[c] = "none"
    /\ Takes(c, "look")
    /\ UNCHANGED <<drive, cloudRows, calls, cloudFaults>>

ApplyCloud(c) ==
    /\ cloudWork = Idle /\ cloudResult[c] = "none" /\ op[c] = "none"
    /\ Takes(c, "look")
    /\ UNCHANGED <<drive, cloudRows, calls, cloudFaults>>

\* The preflight and its repetition right before the operation is written.
Inspect(c) ==
    /\ CloudOnPc(c, "look") \/ CloudOnPc(c, "recheck")
    /\ \/ /\ \/ cloud[Src(c)] # Planned(c) /\ cloudResult' = [cloudResult EXCEPT ![c] = "stale"]
             \/ cloud[Src(c)] = Planned(c) /\ cloud[Dst(c)] # None
                  /\ cloudResult' = [cloudResult EXCEPT ![c] = "conflict"]
          /\ cloudWork' = Idle
       \/ /\ cloud[Src(c)] = Planned(c) /\ cloud[Dst(c)] = None
          /\ CloudGoto(IF cloudWork.pc = "look" THEN "recheck" ELSE "prepare")
          /\ UNCHANGED cloudResult
    /\ UNCHANGED <<drive, op, aged, calls, cloudFaults>>

\* The .strm mapping no longer names the file, or its directory cannot be made.
Unmapped(c) ==
    /\ CloudOnPc(c, "look") /\ cloudFaults < MaxFaults /\ cloudFaults' = cloudFaults + 1
    /\ \E out \in {"stale", "invalid"} : cloudResult' = [cloudResult EXCEPT ![c] = out]
    /\ cloudWork' = Idle
    /\ UNCHANGED <<drive, op, aged, calls>>

\* Mutant: without the unique index on the source.
PrepareUnindexed(c) ==
    /\ CloudOnPc(c, "prepare")
    /\ SaveOperation(c, "prepared") /\ CloudGoto("submit")
    /\ UNCHANGED <<drive, calls, cloudFaults>>

\* The operation is written before anything is asked of CloudDrive, unless
\* another move of the source is open.
Prepare(c) ==
    /\ CloudOnPc(c, "prepare")
    /\ IF SourceTaken(c)
       THEN cloudWork' = Idle /\ UNCHANGED cloudRows
       ELSE SaveOperation(c, "prepared") /\ CloudGoto("submit")
    /\ UNCHANGED <<drive, calls, cloudFaults>>

Submit(c) ==
    /\ CloudOnPc(c, "submit")
    /\ SaveOperation(c, "submitting") /\ CloudGoto("call")
    /\ UNCHANGED <<drive, calls, cloudFaults>>

Call(c) ==
    /\ CloudOnPc(c, "call")
    /\ calls' = [calls EXCEPT ![c] = @ + 1]
    /\ pending' = pending \cup {c}
    /\ CloudGoto("wait")
    /\ UNCHANGED <<cloud, cloudLibrary, cloudRows, cloudFaults>>

\* CloudDrive says it did, says it did not, or the call fails without telling.
Answered(c) ==
    /\ CloudOnPc(c, "wait")
    /\ \E answer \in {"done", "rejected"} :
          /\ answer = "rejected" => c \notin pending
          /\ SaveOperation(c, "verifying")
          /\ cloudWork' = [cloudWork EXCEPT !.pc = "source", !.answer = answer]
    /\ UNCHANGED <<drive, calls, cloudFaults>>

CallFails(c) ==
    /\ CloudOnPc(c, "wait") /\ cloudFaults < MaxFaults /\ cloudFaults' = cloudFaults + 1
    /\ SaveOperation(c, "unknown")
    /\ cloudWork' = [cloudWork EXCEPT !.pc = "source", !.tries = 1]
    /\ UNCHANGED <<drive, calls>>

\* Mutant: a call that was interrupted is taken for one that was not made.
RecoverHasty(c) ==
    /\ cloudWork = Idle /\ OpenOperation(c)
    /\ Finalize(c, "unsubmitted", "failed")
    /\ UNCHANGED <<drive, calls, cloudWork, cloudFaults>>

\* _recover_cloud_move: what was not submitted failed; the rest is observed once.
Recover(c) ==
    /\ cloudWork = Idle /\ OpenOperation(c)
    /\ \/ /\ op[c] = "prepared"
          /\ Finalize(c, "unsubmitted", "failed")
          /\ UNCHANGED cloudWork
       \/ /\ op[c] = "submitting"
          /\ SaveOperation(c, "unknown")
          /\ cloudWork' = [on |-> c, pc |-> "source", answer |-> "none", tries |-> 1, seen |-> "none"]
       \/ /\ op[c] \in {"verifying", "unknown"}
          /\ cloudWork' = [on |-> c, pc |-> "source", answer |-> "none", tries |-> 1, seen |-> "none"]
          /\ UNCHANGED cloudRows
    /\ UNCHANGED <<drive, calls, cloudFaults>>

-----------------------------------------------------------------------------
(* _observe_cloud_move: the source is looked at, then the destination. *)

Kind(f, c) == IF f = None THEN "none" ELSE IF f = Planned(c) THEN "planned" ELSE "other"

ObserveSource(c) ==
    /\ CloudOnPc(c, "source")
    /\ cloudWork' = [cloudWork EXCEPT !.pc = "destination", !.seen = Kind(cloud[Src(c)], c)]
    /\ UNCHANGED <<drive, cloudRows, calls, cloudFaults>>

\* An operation of which nothing is known yet stays open; one already unknown
\* keeps the time it was written, so that the grace period runs out.
StaysUnknown(c) ==
    IF op[c] = "unknown" THEN UNCHANGED cloudRows ELSE SaveOperation(c, "unknown")

ObserveDestination(c) ==
    LET source == cloudWork.seen
        there == Kind(cloud[Dst(c)], c)
        untouched == source = "planned" /\ there = "none"
        final == cloudWork.tries = 1
    IN
    /\ CloudOnPc(c, "destination")
    /\ \/ /\ \/ source = "none" /\ there = "planned" /\ Finalize(c, "succeeded", "moved")
             \/ source = "planned" /\ there = "other" /\ Finalize(c, "conflict", "conflict")
             \/ source = "other" /\ Finalize(c, "changed", "stale")
             \/ untouched /\ cloudWork.answer = "rejected" /\ Finalize(c, "rejected", "failed")
             \/ untouched /\ cloudWork.answer = "none" /\ final /\ c \in aged /\ Finalize(c, "unobserved", "failed")
          /\ cloudWork' = Idle
       \/ /\ \/ source = "none" /\ there # "planned"
             \/ source = "planned" /\ there = "planned"
             \/ untouched /\ cloudWork.answer = "done"
             \/ untouched /\ cloudWork.answer = "none" /\ ~(final /\ c \in aged)
          /\ IF final
             THEN StaysUnknown(c) /\ cloudWork' = Idle
             ELSE cloudWork' = [cloudWork EXCEPT !.pc = "source", !.tries = @ - 1] /\ UNCHANGED cloudRows
    /\ UNCHANGED <<drive, calls, cloudFaults>>

\* CloudDrive could not be asked.
ObserveFails(c) ==
    /\ CloudOnPc(c, "source") \/ CloudOnPc(c, "destination")
    /\ cloudFaults < MaxFaults /\ cloudFaults' = cloudFaults + 1
    /\ StaysUnknown(c) /\ cloudWork' = Idle
    /\ UNCHANGED <<drive, calls>>

-----------------------------------------------------------------------------
(* CloudDrive, time, other programs, crashes. *)

\* A request is carried out, or comes to nothing where it cannot be.
CarryOut(c) ==
    /\ c \in pending
    /\ pending' = pending \ {c}
    /\ IF cloud[Src(c)] # None /\ cloud[Dst(c)] = None
       THEN cloud' = [cloud EXCEPT ![Src(c)] = None, ![Dst(c)] = cloud[Src(c)]]
       ELSE UNCHANGED cloud
    /\ UNCHANGED <<cloudLibrary, cloudRows, calls, cloudWork, cloudFaults>>

LoseRequest(c) ==
    /\ c \in pending /\ cloudFaults < MaxFaults
    /\ pending' = pending \ {c} /\ cloudFaults' = cloudFaults + 1
    /\ UNCHANGED <<cloud, cloudLibrary, cloudRows, calls, cloudWork>>

\* The grace period runs out for an operation; unless Late, CloudDrive is done
\* with the request by then.
GraceEnds(c) ==
    /\ OpenOperation(c) /\ c \notin aged /\ (Late \/ c \notin pending) /\ ~(cloudWork.on = c)
    /\ aged' = aged \cup {c}
    /\ UNCHANGED <<drive, op, cloudResult, calls, cloudWork, cloudFaults>>

ArchiveTakes(p) ==
    /\ cloud[p] # None
    /\ cloudLibrary' = cloudLibrary \cup {cloud[p]}
    /\ cloud' = [cloud EXCEPT ![p] = None]
    /\ UNCHANGED <<pending, cloudRows, calls, cloudWork, cloudFaults>>

PutOther ==
    /\ cloudFaults < MaxFaults /\ cloudFaults' = cloudFaults + 1
    /\ \E c \in CloudCands, f \in Other : \E p \in {Src(c), Dst(c)} :
          /\ p \in Destinations => cloud[p] = None
          /\ f \notin {cloud[q] : q \in Sources \cup Destinations} \cup cloudLibrary
          /\ cloud' = [cloud EXCEPT ![p] = f]
    /\ UNCHANGED <<cloudLibrary, pending, cloudRows, calls, cloudWork>>

CloudCrash ==
    /\ cloudWork # Idle /\ cloudFaults < MaxFaults
    /\ cloudWork' = Idle /\ cloudFaults' = cloudFaults + 1
    /\ UNCHANGED <<drive, cloudRows, calls>>

-----------------------------------------------------------------------------
CloudStep(c) ==
    \/ Inspect(c) \/ Prepare(c) \/ Submit(c) \/ Call(c) \/ Answered(c)
    \/ ObserveSource(c) \/ ObserveDestination(c)

CloudNext ==
    \/ CloudCrash \/ PutOther
    \/ \E p \in Destinations : ArchiveTakes(p)
    \/ \E c \in CloudCands :
          \/ ApplyCloud(c) \/ Recover(c) \/ CloudStep(c)
          \/ Unmapped(c) \/ CallFails(c) \/ ObserveFails(c)
          \/ CarryOut(c) \/ LoseRequest(c) \/ GraceEnds(c)

\* A move goes on, CloudDrive deals with a request, time passes, and the
\* maintenance loop observes every open operation in turn.
CloudFairness ==
    \A c \in CloudCands :
        /\ WF_cloudVars(CloudStep(c)) /\ SF_cloudVars(Recover(c))
        /\ WF_cloudVars(CarryOut(c)) /\ SF_cloudVars(GraceEnds(c))

CloudSpec == CloudInit /\ [][CloudNext]_cloudVars /\ CloudFairness

-----------------------------------------------------------------------------
(* Properties. *)

DeliveredInCloud(c) == Planned(c) \in cloudLibrary \/ cloud[Dst(c)] = Planned(c)

\* Whatever crashed or timed out and however often a plan is applied again,
\* MoveFile is called at most once for a candidate, with its operation written
\* before: a request CloudDrive still works on is never on record as not made.
CalledOnceJournalled ==
    \A c \in CloudCands : calls[c] <= 1 /\ (calls[c] = 1 => op[c] \notin {"none", "prepared", "unsubmitted"})

\* Two moves of one file are never asked of CloudDrive at the same time, unless
\* the first was ended on seeing another file in its way or in its place.
OneRequestPerSource ==
    \A c, d \in pending :
        Src(c) = Src(d) /\ c # d => op[c] \in {"conflict", "changed"} \/ op[d] \in {"conflict", "changed"}

\* "moved" is said of a file that is in the staging directory or was archived.
CloudMovedIsDelivered ==
    \A c \in CloudCands : cloudResult[c] = "moved" => DeliveredInCloud(c)

\* An operation given up as never carried out, not submitted or refused has not
\* delivered its file: a fresh plan finds it where it was.
GivenUpIsNotDelivered ==
    \A c \in CloudCands : op[c] \in {"rejected", "unobserved", "unsubmitted"} /\ DeliveredInCloud(c)
        => \E d \in CloudCands \ {c} : Src(d) = Src(c) /\ calls[d] = 1

\* Together, with the types: what the operations on record say of the requests made
\* of CloudDrive is so.
CloudAccounted == CloudTypeOK /\ OneRequestPerSource /\ CloudMovedIsDelivered /\ GivenUpIsNotDelivered

\* Every operation is concluded, unless its file is neither where it was nor
\* where it was to go.
OperationConcluded ==
    \A c \in CloudCands : OpenOperation(c) ~> ~OpenOperation(c) \/ (cloud[Src(c)] = None /\ cloud[Dst(c)] # Planned(c))

\* The move keeps the contract of an applied plan.
CloudContract == INSTANCE MoveContract WITH
    Cands <- CloudCands,
    said <- [c \in CloudCands |-> IF cloudResult[c] \in {"none", "moved"} THEN cloudResult[c] ELSE "kept"],
    arrived <- {c \in CloudCands : DeliveredInCloud(c)}
CloudContractKept == CloudContract!ContractSpec
=============================================================================
