--------------------------- MODULE CloudMoveProofs ---------------------------
(***************************************************************************)
(* What a move inside CloudDrive keeps for any candidates, sources and     *)
(* destinations, however often the process dies, a call fails or another   *)
(* program puts files in place.                                            *)
(*                                                                         *)
(* Two inductive invariants.  CloudInv ties the move under way to the      *)
(* operation on record: MoveFile is called once, and a result is only      *)
(* given where none was.  DriveInv adds where the files are and which      *)
(* requests CloudDrive still has; it needs that CloudDrive is done with a  *)
(* request when its grace period is over (~Late).                          *)
(***************************************************************************)
EXTENDS CloudMove, TLAPS

----------------------------------------------------------------------------
(* The parts of CloudInv.                                                   *)

OnRecord ==
    \A c \in CloudCands : calls[c] = 1 => op[c] \notin {"none", "prepared", "unsubmitted"}

(* The move that holds the lock is as far as its operation says.            *)
WorkMatchesRow ==
    \A c \in CloudCands : cloudWork.on = c =>
        /\ cloudWork.tries \in 1 .. VerifyAttempts
        /\ cloudResult[c] = "none"
        /\ cloudWork.pc \in {"look", "recheck", "prepare"} => op[c] = "none"
        /\ cloudWork.pc = "submit" => op[c] = "prepared"
        /\ cloudWork.pc \in {"call", "wait"} => op[c] = "submitting"
        /\ cloudWork.pc = "call" => calls[c] = 0
        /\ cloudWork.pc \in {"source", "destination"} => op[c] \in {"verifying", "unknown"}

OpenUnsaid == \A c \in CloudCands : OpenOperation(c) => cloudResult[c] = "none"

CloudInv == CloudTypeOK /\ OnRecord /\ WorkMatchesRow /\ OpenUnsaid /\ CloudMovedIsDelivered

----------------------------------------------------------------------------
(* The parts of DriveInv.                                                   *)

(* A source holds the file found there or another program's; the planned    *)
(* file is in one place and does not come back.                             *)
Whereabouts ==
    \A s \in Sources :
        /\ cloud[s] \in {s, None} \cup Other
        /\ cloud[s] = s => s \notin cloudLibrary /\ \A p \in Destinations : cloud[p] # s

PendingCalled ==
    \A c \in pending :
        /\ calls[c] = 1
        /\ op[c] \in {"submitting", "verifying", "unknown", "succeeded", "conflict", "changed"}

AgedDone ==
    /\ aged \cap pending = {}
    /\ \A c \in CloudCands : cloudWork.on = c /\ cloudWork.pc = "call" => c \notin aged

RejectedDone ==
    \A c \in CloudCands : cloudWork.on = c /\ cloudWork.answer = "rejected"
        => c \notin pending /\ cloudWork.pc \in {"source", "destination"}

(* What the partial unique index of the operations keeps.                   *)
OneOpenPerSource ==
    \A c, d \in CloudCands : OpenOperation(c) /\ OpenOperation(d) /\ Src(c) = Src(d) => c = d

SucceededLeft == \A c \in CloudCands : op[c] = "succeeded" => cloud[Src(c)] # Planned(c)

(* Who passed the preflight found the file in its place, so no move of it   *)
(* had succeeded.                                                           *)
NoneSucceeded ==
    \A c, d \in CloudCands :
        cloudWork.on = c /\ cloudWork.pc \in {"prepare", "submit", "call"} /\ Src(c) = Src(d) => op[d] # "succeeded"

(* A file that left its source was asked for; one whose operation was given *)
(* up, or is about to be, by another candidate's.                           *)
Gone(c) == Planned(c) \in cloudLibrary \/ \E p \in Destinations : cloud[p] = Planned(c)
MovedByOther(c) == \E d \in CloudCands \ {c} : Src(d) = Src(c) /\ calls[d] = 1
GivenUp(c) ==
    \/ op[c] \in {"rejected", "unobserved", "unsubmitted"}
    \/ /\ cloudWork.on = c /\ cloudWork.pc = "destination" /\ cloudWork.seen = "planned"
       /\ c \in aged \/ cloudWork.answer = "rejected"

OthersMovedIt ==
    \A c \in CloudCands : Gone(c) =>
        /\ \E d \in CloudCands : Src(d) = Src(c) /\ calls[d] = 1
        /\ GivenUp(c) => MovedByOther(c)

DriveInv ==
    /\ Whereabouts /\ PendingCalled /\ AgedDone /\ RejectedDone /\ OneOpenPerSource
    /\ SucceededLeft /\ NoneSucceeded /\ OthersMovedIt /\ OneRequestPerSource

USE DEF Src, Dst, Planned, Idle, Cands, drive, cloudRows, OpenOperation, OpenStates,
        Endings, Failures, StateOf, OperationEdges, CloudFiles

----------------------------------------------------------------------------
(* What the writes and the observation do.                                  *)

CloudWorks ==
    [on : CloudCands, pc : {"look", "recheck", "prepare", "submit", "call", "wait", "source", "destination"},
     answer : {"none", "done", "rejected"}, tries : 0 .. VerifyAttempts, seen : {"none", "planned", "other"}]

(* While a move holds the lock its record is complete.                      *)
LEMMA WorkIsRecord ==
    ASSUME CloudTypeOK, NEW c \in CloudCands, cloudWork.on = c
    PROVE  cloudWork \in CloudWorks
BY CandidateAssumption DEF CloudTypeOK, CloudWorks

(* What a write of an open operation leaves on record.                      *)
LEMMA SavedOperation ==
    ASSUME CloudTypeOK, NEW c \in CloudCands, NEW state \in OpenStates, SaveOperation(c, state)
    PROVE  /\ op' \in [CloudCands -> OpenStates \cup Endings \cup {"none"}]
           /\ \A d \in CloudCands : op'[d] = IF d = c THEN state ELSE op[d]
           /\ aged' = aged \ {c}
           /\ cloudResult' = cloudResult
BY DEF CloudTypeOK, SaveOperation

Ends(c, e, r) ==
    /\ cloudWork' = Idle
    /\ op' \in [CloudCands -> OpenStates \cup Endings \cup {"none"}]
    /\ \A d \in CloudCands : op'[d] = IF d = c THEN e ELSE op[d]
    /\ aged' = aged \ {c}
    /\ cloudResult' \in [CloudCands -> {"none", "moved", "stale", "conflict", "invalid", "failed"}]
    /\ \A d \in CloudCands : cloudResult'[d] = IF d = c THEN r ELSE cloudResult[d]
    /\ r = "moved" \/ e = "succeeded" => cloud[Dst(c)] = Planned(c)
    /\ e = "rejected" => cloudWork.seen = "planned" /\ cloudWork.answer = "rejected"
    /\ e = "unobserved" => cloudWork.seen = "planned" /\ c \in aged

Stays(c) ==
    /\ cloudWork' = Idle
    /\ op' \in [CloudCands -> OpenStates \cup Endings \cup {"none"}]
    /\ \A d \in CloudCands : op'[d] = IF d = c THEN "unknown" ELSE op[d]
    /\ aged' \subseteq aged
    /\ cloudResult' = cloudResult

LooksAgain(c) ==
    /\ cloudWork.tries # 1
    /\ cloudWork' = [on |-> c, pc |-> "source", answer |-> cloudWork.answer,
                     tries |-> cloudWork.tries - 1, seen |-> cloudWork.seen]
    /\ UNCHANGED cloudRows

(* The last look concludes the operation, leaves it unknown or looks again. *)
LEMMA ObserveEffect ==
    ASSUME CloudInv, NEW c \in CloudCands, ObserveDestination(c)
    PROVE  /\ UNCHANGED <<cloud, cloudLibrary, pending, calls, cloudFaults>>
           /\ cloudWork.on = c /\ cloudWork.pc = "destination" /\ cloudWork \in CloudWorks
           /\ \/ \E e \in {"succeeded", "conflict", "changed", "rejected", "unobserved"},
                   r \in {"moved", "conflict", "stale", "failed"} : Ends(c, e, r)
              \/ Stays(c)
              \/ LooksAgain(c)
<1> USE DEF CloudInv, CloudTypeOK
<1>1. cloudWork.on = c /\ cloudWork.pc = "destination" /\ cloudWork \in CloudWorks
  BY WorkIsRecord DEF ObserveDestination, CloudOnPc
<1>2. ASSUME StaysUnknown(c), cloudWork' = Idle
      PROVE  Stays(c)
  BY <1>2 DEF Stays, StaysUnknown, SaveOperation
<1>3. ASSUME NEW e \in {"succeeded", "conflict", "changed", "rejected", "unobserved"},
             NEW r \in {"moved", "conflict", "stale", "failed"},
             Finalize(c, e, r), cloudWork' = Idle,
             r = "moved" \/ e = "succeeded" => cloud[Dst(c)] = Planned(c),
             e = "rejected" => cloudWork.seen = "planned" /\ cloudWork.answer = "rejected",
             e = "unobserved" => cloudWork.seen = "planned" /\ c \in aged
      PROVE  Ends(c, e, r)
  BY <1>3 DEF Ends, Finalize
<1>4. Kind(cloud[Dst(c)], c) = "planned" => cloud[Dst(c)] = Planned(c)
  BY DEF Kind
<1>5. ASSUME cloudWork' = [cloudWork EXCEPT !.pc = "source", !.tries = @ - 1]
      PROVE  cloudWork' = [on |-> c, pc |-> "source", answer |-> cloudWork.answer,
                           tries |-> cloudWork.tries - 1, seen |-> cloudWork.seen]
  BY <1>1, <1>5 DEF CloudWorks
<1>6. QED
  BY <1>1, <1>2, <1>3, <1>4, <1>5 DEF ObserveDestination, LooksAgain

----------------------------------------------------------------------------
(* Every step keeps CloudInv.                                               *)

(* A move begins where there is neither an operation nor a result.          *)
LEMMA ApplyCloudKeeps ==
    ASSUME CloudInv, NEW c \in CloudCands, ApplyCloud(c)
    PROVE  CloudInv'
<1> USE CandidateAssumption, CloudAssumption DEF CloudInv, ApplyCloud, Takes
<1>1. CloudTypeOK'
  BY DEF CloudTypeOK, WorkMatchesRow
<1>2. OnRecord'
  BY DEF CloudTypeOK, OnRecord, WorkMatchesRow
<1>3. WorkMatchesRow'
  BY DEF CloudTypeOK, WorkMatchesRow, OnRecord
<1>4. OpenUnsaid'
  BY DEF CloudTypeOK, OpenUnsaid, WorkMatchesRow
<1>5. CloudMovedIsDelivered'
  BY DEF CloudTypeOK, CloudMovedIsDelivered, DeliveredInCloud
<1>6. QED
  BY <1>1, <1>2, <1>3, <1>4, <1>5

(* The preflight gives a result, or finds the file and a free destination.  *)
LEMMA InspectKeeps ==
    ASSUME CloudInv, NEW c \in CloudCands, Inspect(c)
    PROVE  CloudInv'
<1> USE CandidateAssumption, CloudAssumption DEF CloudInv, Inspect, CloudOnPc, CloudGoto
<1>1. CloudTypeOK'
  BY DEF CloudTypeOK, WorkMatchesRow
<1>2. OnRecord'
  BY DEF CloudTypeOK, OnRecord, WorkMatchesRow
<1>3. WorkMatchesRow'
  BY DEF CloudTypeOK, WorkMatchesRow, OnRecord
<1>4. OpenUnsaid'
  BY DEF CloudTypeOK, OpenUnsaid, WorkMatchesRow
<1>5. CloudMovedIsDelivered'
  BY DEF CloudTypeOK, CloudMovedIsDelivered, DeliveredInCloud
<1>6. QED
  BY <1>1, <1>2, <1>3, <1>4, <1>5

(* The move ends before anything was written or asked.                      *)
LEMMA UnmappedKeeps ==
    ASSUME CloudInv, NEW c \in CloudCands, Unmapped(c)
    PROVE  CloudInv'
<1> USE CandidateAssumption, CloudAssumption DEF CloudInv, Unmapped, CloudOnPc
<1>1. CloudTypeOK'
  BY DEF CloudTypeOK, WorkMatchesRow
<1>2. OnRecord'
  BY DEF CloudTypeOK, OnRecord, WorkMatchesRow
<1>3. WorkMatchesRow'
  BY DEF CloudTypeOK, WorkMatchesRow, OnRecord
<1>4. OpenUnsaid'
  BY DEF CloudTypeOK, OpenUnsaid, WorkMatchesRow
<1>5. CloudMovedIsDelivered'
  BY DEF CloudTypeOK, CloudMovedIsDelivered, DeliveredInCloud
<1>6. QED
  BY <1>1, <1>2, <1>3, <1>4, <1>5

(* The operation is written, unless another one is open for the source.     *)
LEMMA PrepareKeeps ==
    ASSUME CloudInv, NEW c \in CloudCands, Prepare(c)
    PROVE  CloudInv'
<1> USE CandidateAssumption, CloudAssumption DEF CloudInv, Prepare, CloudOnPc, CloudGoto,
     SaveOperation, SourceTaken
<1>1. CloudTypeOK'
  BY DEF CloudTypeOK, WorkMatchesRow
<1>2. OnRecord'
  BY DEF CloudTypeOK, OnRecord, WorkMatchesRow
<1>3. WorkMatchesRow'
  BY DEF CloudTypeOK, WorkMatchesRow, OnRecord
<1>4. OpenUnsaid'
  BY DEF CloudTypeOK, OpenUnsaid, WorkMatchesRow
<1>5. CloudMovedIsDelivered'
  BY DEF CloudTypeOK, CloudMovedIsDelivered, DeliveredInCloud
<1>6. QED
  BY <1>1, <1>2, <1>3, <1>4, <1>5

(* The operation is on record as submitted before the call is made.         *)
LEMMA SubmitKeeps ==
    ASSUME CloudInv, NEW c \in CloudCands, Submit(c)
    PROVE  CloudInv'
<1> USE CandidateAssumption, CloudAssumption DEF CloudInv, Submit, CloudOnPc, CloudGoto, SaveOperation
<1>1. CloudTypeOK'
  BY DEF CloudTypeOK, WorkMatchesRow
<1>2. OnRecord'
  BY DEF CloudTypeOK, OnRecord, WorkMatchesRow
<1>3. WorkMatchesRow'
  BY DEF CloudTypeOK, WorkMatchesRow, OnRecord
<1>4. OpenUnsaid'
  BY DEF CloudTypeOK, OpenUnsaid, WorkMatchesRow
<1>5. CloudMovedIsDelivered'
  BY DEF CloudTypeOK, CloudMovedIsDelivered, DeliveredInCloud
<1>6. QED
  BY <1>1, <1>2, <1>3, <1>4, <1>5

(* The one call: the operation was submitted and no call was made before.   *)
LEMMA CallKeeps ==
    ASSUME CloudInv, NEW c \in CloudCands, Call(c)
    PROVE  CloudInv'
<1> USE CandidateAssumption, CloudAssumption DEF CloudInv, Call, CloudOnPc, CloudGoto
<1>1. CloudTypeOK'
  BY DEF CloudTypeOK, WorkMatchesRow
<1>2. OnRecord'
  BY DEF CloudTypeOK, OnRecord, WorkMatchesRow
<1>3. WorkMatchesRow'
  BY DEF CloudTypeOK, WorkMatchesRow, OnRecord
<1>4. OpenUnsaid'
  BY DEF CloudTypeOK, OpenUnsaid, WorkMatchesRow
<1>5. CloudMovedIsDelivered'
  BY DEF CloudTypeOK, CloudMovedIsDelivered, DeliveredInCloud
<1>6. QED
  BY <1>1, <1>2, <1>3, <1>4, <1>5

(* CloudDrive answered; a refused request is not under way any more.        *)
LEMMA AnsweredKeeps ==
    ASSUME CloudInv, NEW c \in CloudCands, Answered(c)
    PROVE  CloudInv'
<1> USE CandidateAssumption, CloudAssumption DEF CloudInv, Answered, CloudOnPc, SaveOperation
<1>1. CloudTypeOK'
  <2>1. SaveOperation(c, "verifying") /\ \E answer \in {"done", "rejected"} :
           cloudWork' = [cloudWork EXCEPT !.pc = "source", !.answer = answer]
    OBVIOUS
  <2>2. cloudWork' \in CloudWorks
    BY <2>1, WorkIsRecord DEF CloudWorks
  <2>3. QED
    BY <2>1, <2>2, SavedOperation DEF CloudTypeOK, CloudWorks
<1>2. OnRecord'
  BY DEF CloudTypeOK, OnRecord, WorkMatchesRow
<1>3. WorkMatchesRow'
  BY DEF CloudTypeOK, WorkMatchesRow, OnRecord
<1>4. OpenUnsaid'
  BY DEF CloudTypeOK, OpenUnsaid, WorkMatchesRow
<1>5. CloudMovedIsDelivered'
  BY DEF CloudTypeOK, CloudMovedIsDelivered, DeliveredInCloud
<1>6. QED
  BY <1>1, <1>2, <1>3, <1>4, <1>5

(* The call failed without telling, the operation is unknown.               *)
LEMMA CallFailsKeeps ==
    ASSUME CloudInv, NEW c \in CloudCands, CallFails(c)
    PROVE  CloudInv'
<1> USE CandidateAssumption, CloudAssumption DEF CloudInv, CallFails, CloudOnPc, SaveOperation
<1>1. CloudTypeOK'
  <2>1. cloudWork \in CloudWorks /\ 1 \in 0 .. VerifyAttempts
    BY WorkIsRecord
  <2>2. cloudWork' \in CloudWorks
    BY <2>1 DEF CloudWorks
  <2>3. QED
    BY <2>2, SavedOperation DEF CloudTypeOK, CloudWorks
<1>2. OnRecord'
  BY DEF CloudTypeOK, OnRecord, WorkMatchesRow
<1>3. WorkMatchesRow'
  BY DEF CloudTypeOK, WorkMatchesRow, OnRecord
<1>4. OpenUnsaid'
  BY DEF CloudTypeOK, OpenUnsaid, WorkMatchesRow
<1>5. CloudMovedIsDelivered'
  BY DEF CloudTypeOK, CloudMovedIsDelivered, DeliveredInCloud
<1>6. QED
  BY <1>1, <1>2, <1>3, <1>4, <1>5

(* Recovery fails what was not submitted and observes the rest.             *)
LEMMA RecoverKeeps ==
    ASSUME CloudInv, NEW c \in CloudCands, Recover(c)
    PROVE  CloudInv'
<1> USE CandidateAssumption, CloudAssumption DEF CloudInv, Recover, Finalize, SaveOperation
<1>1. CloudTypeOK'
  BY DEF CloudTypeOK, WorkMatchesRow
<1>2. OnRecord'
  BY DEF CloudTypeOK, OnRecord, WorkMatchesRow
<1>3. WorkMatchesRow'
  <2>1. CASE cloudWork' = cloudWork
    BY <2>1 DEF CloudTypeOK, WorkMatchesRow
  <2>2. CASE cloudWork' = [on |-> c, pc |-> "source", answer |-> "none", tries |-> 1, seen |-> "none"]
    <3>1. cloudResult'[c] = "none" /\ op'[c] \in {"verifying", "unknown"}
      BY <2>2 DEF CloudTypeOK, OpenUnsaid
    <3>2. QED
      BY <2>2, <3>1 DEF WorkMatchesRow
  <2>3. QED
    BY <2>1, <2>2
<1>4. OpenUnsaid'
  BY DEF CloudTypeOK, OpenUnsaid, WorkMatchesRow
<1>5. CloudMovedIsDelivered'
  BY DEF CloudTypeOK, CloudMovedIsDelivered, DeliveredInCloud
<1>6. QED
  BY <1>1, <1>2, <1>3, <1>4, <1>5

(* What is seen at the source is remembered.                                *)
LEMMA ObserveSourceKeeps ==
    ASSUME CloudInv, NEW c \in CloudCands, ObserveSource(c)
    PROVE  CloudInv'
<1> USE CandidateAssumption, CloudAssumption DEF CloudInv, ObserveSource, CloudOnPc, Kind
<1>1. CloudTypeOK'
  BY DEF CloudTypeOK, WorkMatchesRow
<1>2. OnRecord'
  BY DEF CloudTypeOK, OnRecord, WorkMatchesRow
<1>3. WorkMatchesRow'
  BY DEF CloudTypeOK, WorkMatchesRow, OnRecord
<1>4. OpenUnsaid'
  BY DEF CloudTypeOK, OpenUnsaid, WorkMatchesRow
<1>5. CloudMovedIsDelivered'
  BY DEF CloudTypeOK, CloudMovedIsDelivered, DeliveredInCloud
<1>6. QED
  BY <1>1, <1>2, <1>3, <1>4, <1>5

(* The observation ends the operation, leaves it unknown, or goes on.       *)
LEMMA ObserveDestinationKeeps ==
    ASSUME CloudInv, NEW c \in CloudCands, ObserveDestination(c)
    PROVE  CloudInv'
<1> USE CandidateAssumption, CloudAssumption DEF CloudInv
<1>0. UNCHANGED <<cloud, cloudLibrary, pending, calls, cloudFaults>> /\ cloudWork.on = c /\ cloudWork.pc = "destination" /\ cloudWork \in CloudWorks
  BY ObserveEffect
<1>1. ASSUME NEW e \in {"succeeded", "conflict", "changed", "rejected", "unobserved"},
             NEW r \in {"moved", "conflict", "stale", "failed"}, Ends(c, e, r)
      PROVE  CloudInv'
  <2>1. CloudTypeOK'
    BY <1>0, <1>1 DEF Ends, CloudTypeOK, WorkMatchesRow
  <2>2. OnRecord'
    BY <1>0, <1>1 DEF Ends, CloudTypeOK, OnRecord, WorkMatchesRow
  <2>3. WorkMatchesRow'
    BY <1>0, <1>1 DEF Ends, CloudTypeOK, WorkMatchesRow, OnRecord
  <2>4. OpenUnsaid'
    BY <1>0, <1>1 DEF Ends, CloudTypeOK, OpenUnsaid, WorkMatchesRow
  <2>5. CloudMovedIsDelivered'
    BY <1>0, <1>1 DEF Ends, CloudTypeOK, CloudMovedIsDelivered, DeliveredInCloud
  <2>6. QED
    BY <2>1, <2>2, <2>3, <2>4, <2>5
<1>2. CASE Stays(c)
  <2>1. CloudTypeOK'
    BY <1>0, <1>2 DEF Stays, CloudTypeOK, WorkMatchesRow
  <2>2. OnRecord'
    BY <1>0, <1>2 DEF Stays, CloudTypeOK, OnRecord, WorkMatchesRow
  <2>3. WorkMatchesRow'
    BY <1>0, <1>2 DEF Stays, CloudTypeOK, WorkMatchesRow, OnRecord
  <2>4. OpenUnsaid'
    BY <1>0, <1>2 DEF Stays, CloudTypeOK, OpenUnsaid, WorkMatchesRow
  <2>5. CloudMovedIsDelivered'
    BY <1>0, <1>2 DEF Stays, CloudTypeOK, CloudMovedIsDelivered, DeliveredInCloud
  <2>6. QED
    BY <2>1, <2>2, <2>3, <2>4, <2>5
<1>3. CASE LooksAgain(c)
  <2>1. CloudTypeOK'
    BY <1>0, <1>3 DEF LooksAgain, CloudTypeOK, WorkMatchesRow, CloudWorks
  <2>2. OnRecord'
    BY <1>0, <1>3 DEF LooksAgain, CloudTypeOK, OnRecord, WorkMatchesRow, CloudWorks
  <2>3. WorkMatchesRow'
    BY <1>0, <1>3 DEF LooksAgain, CloudTypeOK, WorkMatchesRow, OnRecord, CloudWorks
  <2>4. OpenUnsaid'
    BY <1>0, <1>3 DEF LooksAgain, CloudTypeOK, OpenUnsaid, WorkMatchesRow, CloudWorks
  <2>5. CloudMovedIsDelivered'
    BY <1>0, <1>3 DEF LooksAgain, CloudTypeOK, CloudMovedIsDelivered, DeliveredInCloud, CloudWorks
  <2>6. QED
    BY <2>1, <2>2, <2>3, <2>4, <2>5
<1>4. QED
  BY <1>1, <1>2, <1>3, ObserveEffect

(* CloudDrive could not be asked: the operation stays open.                 *)
LEMMA ObserveFailsKeeps ==
    ASSUME CloudInv, NEW c \in CloudCands, ObserveFails(c)
    PROVE  CloudInv'
<1> USE CandidateAssumption, CloudAssumption DEF CloudInv, ObserveFails, CloudOnPc, StaysUnknown,
     SaveOperation
<1>1. CloudTypeOK'
  BY DEF CloudTypeOK, WorkMatchesRow
<1>2. OnRecord'
  BY DEF CloudTypeOK, OnRecord, WorkMatchesRow
<1>3. WorkMatchesRow'
  BY DEF CloudTypeOK, WorkMatchesRow, OnRecord
<1>4. OpenUnsaid'
  BY DEF CloudTypeOK, OpenUnsaid, WorkMatchesRow
<1>5. CloudMovedIsDelivered'
  BY DEF CloudTypeOK, CloudMovedIsDelivered, DeliveredInCloud
<1>6. QED
  BY <1>1, <1>2, <1>3, <1>4, <1>5

(* CloudDrive carries a request out, or drops it.                           *)
LEMMA CarryOutKeeps ==
    ASSUME CloudInv, NEW c \in CloudCands, CarryOut(c)
    PROVE  CloudInv'
<1> USE CandidateAssumption, CloudAssumption DEF CloudInv, CarryOut
<1>1. CloudTypeOK'
  BY DEF CloudTypeOK, WorkMatchesRow
<1>2. OnRecord'
  BY DEF CloudTypeOK, OnRecord, WorkMatchesRow
<1>3. WorkMatchesRow'
  BY DEF CloudTypeOK, WorkMatchesRow, OnRecord
<1>4. OpenUnsaid'
  BY DEF CloudTypeOK, OpenUnsaid, WorkMatchesRow
<1>5. CloudMovedIsDelivered'
  BY DEF CloudTypeOK, CloudMovedIsDelivered, DeliveredInCloud
<1>6. QED
  BY <1>1, <1>2, <1>3, <1>4, <1>5

(* A request is lost.                                                       *)
LEMMA LoseRequestKeeps ==
    ASSUME CloudInv, NEW c \in CloudCands, LoseRequest(c)
    PROVE  CloudInv'
<1> USE CandidateAssumption, CloudAssumption DEF CloudInv, LoseRequest
<1>1. CloudTypeOK'
  BY DEF CloudTypeOK, WorkMatchesRow
<1>2. OnRecord'
  BY DEF CloudTypeOK, OnRecord, WorkMatchesRow
<1>3. WorkMatchesRow'
  BY DEF CloudTypeOK, WorkMatchesRow, OnRecord
<1>4. OpenUnsaid'
  BY DEF CloudTypeOK, OpenUnsaid, WorkMatchesRow
<1>5. CloudMovedIsDelivered'
  BY DEF CloudTypeOK, CloudMovedIsDelivered, DeliveredInCloud
<1>6. QED
  BY <1>1, <1>2, <1>3, <1>4, <1>5

(* The grace period of an open operation runs out.                          *)
LEMMA GraceEndsKeeps ==
    ASSUME CloudInv, NEW c \in CloudCands, GraceEnds(c)
    PROVE  CloudInv'
<1> USE CandidateAssumption, CloudAssumption DEF CloudInv, GraceEnds
<1>1. CloudTypeOK'
  BY DEF CloudTypeOK, WorkMatchesRow
<1>2. OnRecord'
  BY DEF CloudTypeOK, OnRecord, WorkMatchesRow
<1>3. WorkMatchesRow'
  BY DEF CloudTypeOK, WorkMatchesRow, OnRecord
<1>4. OpenUnsaid'
  BY DEF CloudTypeOK, OpenUnsaid, WorkMatchesRow
<1>5. CloudMovedIsDelivered'
  BY DEF CloudTypeOK, CloudMovedIsDelivered, DeliveredInCloud
<1>6. QED
  BY <1>1, <1>2, <1>3, <1>4, <1>5

(* The archive takes a file from the staging tree.                          *)
LEMMA ArchiveTakesKeeps ==
    ASSUME CloudInv, NEW p \in Destinations, ArchiveTakes(p)
    PROVE  CloudInv'
<1> USE CandidateAssumption, CloudAssumption DEF CloudInv, ArchiveTakes
<1>1. CloudTypeOK'
  BY DEF CloudTypeOK, WorkMatchesRow
<1>2. OnRecord'
  BY DEF CloudTypeOK, OnRecord, WorkMatchesRow
<1>3. WorkMatchesRow'
  BY DEF CloudTypeOK, WorkMatchesRow, OnRecord
<1>4. OpenUnsaid'
  BY DEF CloudTypeOK, OpenUnsaid, WorkMatchesRow
<1>5. CloudMovedIsDelivered'
  BY DEF CloudTypeOK, CloudMovedIsDelivered, DeliveredInCloud
<1>6. QED
  BY <1>1, <1>2, <1>3, <1>4, <1>5

(* Another program puts a file of another identity somewhere.               *)
LEMMA PutOtherKeeps ==
    ASSUME CloudInv, PutOther
    PROVE  CloudInv'
<1> USE CandidateAssumption, CloudAssumption DEF CloudInv, PutOther
<1>1. CloudTypeOK'
  BY DEF CloudTypeOK, WorkMatchesRow
<1>2. OnRecord'
  BY DEF CloudTypeOK, OnRecord, WorkMatchesRow
<1>3. WorkMatchesRow'
  BY DEF CloudTypeOK, WorkMatchesRow, OnRecord
<1>4. OpenUnsaid'
  BY DEF CloudTypeOK, OpenUnsaid, WorkMatchesRow
<1>5. CloudMovedIsDelivered'
  BY DEF CloudTypeOK, CloudMovedIsDelivered, DeliveredInCloud
<1>6. QED
  BY <1>1, <1>2, <1>3, <1>4, <1>5

(* The process dies, what was written stays.                                *)
LEMMA CloudCrashKeeps ==
    ASSUME CloudInv, CloudCrash
    PROVE  CloudInv'
<1> USE CandidateAssumption, CloudAssumption DEF CloudInv, CloudCrash
<1>1. CloudTypeOK'
  BY DEF CloudTypeOK, WorkMatchesRow
<1>2. OnRecord'
  BY DEF CloudTypeOK, OnRecord, WorkMatchesRow
<1>3. WorkMatchesRow'
  BY DEF CloudTypeOK, WorkMatchesRow, OnRecord
<1>4. OpenUnsaid'
  BY DEF CloudTypeOK, OpenUnsaid, WorkMatchesRow
<1>5. CloudMovedIsDelivered'
  BY DEF CloudTypeOK, CloudMovedIsDelivered, DeliveredInCloud
<1>6. QED
  BY <1>1, <1>2, <1>3, <1>4, <1>5

(* Every step of the specification keeps CloudInv.                          *)
LEMMA CloudNextKeeps == CloudInv /\ [CloudNext]_cloudVars => CloudInv'
<1> SUFFICES ASSUME CloudInv, [CloudNext]_cloudVars PROVE CloudInv'
  OBVIOUS
<1>1. ASSUME NEW c \in CloudCands,
             ApplyCloud(c) \/ Recover(c) \/ CloudStep(c) \/ Unmapped(c) \/ CallFails(c) \/ ObserveFails(c)
      PROVE  CloudInv'
  BY <1>1, ApplyCloudKeeps, RecoverKeeps, InspectKeeps, PrepareKeeps, SubmitKeeps, CallKeeps,
       AnsweredKeeps,
     ObserveSourceKeeps, ObserveDestinationKeeps, UnmappedKeeps, CallFailsKeeps,
          ObserveFailsKeeps DEF CloudStep
<1>2. ASSUME NEW c \in CloudCands, CarryOut(c) \/ LoseRequest(c) \/ GraceEnds(c)
      PROVE  CloudInv'
  BY <1>2, CarryOutKeeps, LoseRequestKeeps, GraceEndsKeeps
<1>3. CASE CloudCrash \/ PutOther \/ \E p \in Destinations : ArchiveTakes(p)
  BY <1>3, CloudCrashKeeps, PutOtherKeeps, ArchiveTakesKeeps
<1>4. CASE UNCHANGED cloudVars
  BY <1>4 DEF cloudVars, CloudInv, CloudTypeOK, OnRecord, WorkMatchesRow, OpenUnsaid,
              CloudMovedIsDelivered, DeliveredInCloud
<1>5. QED
  BY <1>1, <1>2, <1>3, <1>4 DEF CloudNext

(* The move under way and the operation on record always agree              *)
(* (_run_cloud_move, _recover_cloud_move, _observe_cloud_move).             *)
THEOREM CloudInvHolds == CloudSpec => []CloudInv
<1>1. CloudInit => CloudInv
  <2> SUFFICES ASSUME CloudInit PROVE CloudInv
    OBVIOUS
  <2>1. CloudTypeOK
    BY CandidateAssumption, CloudAssumption DEF CloudInit, CloudTypeOK
  <2>2. OnRecord /\ OpenUnsaid /\ CloudMovedIsDelivered
    BY DEF CloudInit, OnRecord, OpenUnsaid, CloudMovedIsDelivered
  <2>3. WorkMatchesRow
    BY CandidateAssumption DEF CloudInit, WorkMatchesRow
  <2>4. QED
    BY <2>1, <2>2, <2>3 DEF CloudInv
<1>2. QED
  BY <1>1, CloudNextKeeps, PTL DEF CloudSpec

(* MoveFile is called at most once for a candidate, after its operation was *)
(* written, whatever crashes, times out or is applied again.                *)
THEOREM MoveFileCalledOnce == CloudSpec => []CalledOnceJournalled
<1>1. CloudInv => CalledOnceJournalled
  BY DEF CloudInv, CloudTypeOK, OnRecord, CalledOnceJournalled
<1>2. QED
  BY <1>1, CloudInvHolds, PTL

(* What was delivered stays delivered: a file leaves its destination only   *)
(* for the library.                                                         *)
LEMMA DeliveriesStay ==
    ASSUME CloudInv, [CloudNext]_cloudVars, NEW c \in CloudCands, DeliveredInCloud(c)
    PROVE  DeliveredInCloud(c)'
<1> USE CandidateAssumption, CloudAssumption DEF CloudInv, CloudTypeOK, DeliveredInCloud
<1>1. CASE UNCHANGED <<cloud, cloudLibrary>>
  BY <1>1
<1>2. ASSUME NEW d \in CloudCands, CarryOut(d)
      PROVE  DeliveredInCloud(c)'
  BY <1>2 DEF CarryOut
<1>3. CASE PutOther
  <2>1. Dst(c) \in Destinations /\ Planned(c) \in Sources
    OBVIOUS
  <2>2. cloudLibrary' = cloudLibrary
    BY <1>3 DEF PutOther
  <2>3. cloud[Dst(c)] # None => cloud'[Dst(c)] = cloud[Dst(c)]
    BY <1>3, <2>1 DEF PutOther
  <2>4. QED
    BY <2>1, <2>2, <2>3
<1>4. ASSUME NEW p \in Destinations, ArchiveTakes(p)
      PROVE  DeliveredInCloud(c)'
  BY <1>4 DEF ArchiveTakes
<1>5. QED
  BY <1>1, <1>2, <1>3, <1>4 DEF CloudNext, CloudStep, cloudVars, ApplyCloud, Recover, Inspect,
       Prepare, Submit,
     Call, Answered, ObserveSource, ObserveDestination, Unmapped, CallFails, ObserveFails, LoseRequest,
     GraceEnds, CloudCrash

(* A step gives at most one result, where none was, and moves nothing then. *)
OneResult(c) ==
    /\ cloudResult[c] = "none" /\ cloudResult'[c] # "none"
    /\ \A d \in CloudCands \ {c} : cloudResult'[d] = cloudResult[d]
    /\ UNCHANGED <<cloud, cloudLibrary>>

(* A step changes no result but one that was not given yet.                 *)
LEMMA ResultsOnceGiven ==
    ASSUME CloudInv, [CloudNext]_cloudVars
    PROVE  cloudResult' = cloudResult \/ \E c \in CloudCands : OneResult(c)
<1> USE DEF CloudInv, CloudTypeOK, OneResult
<1>1. ASSUME NEW c \in CloudCands, Inspect(c) \/ Unmapped(c)
      PROVE  cloudResult' = cloudResult \/ OneResult(c)
  <2>1. cloudResult[c] = "none"
    BY <1>1 DEF Inspect, Unmapped, CloudOnPc, WorkMatchesRow
  <2>2. cloudResult' = cloudResult
          \/ \E out \in {"stale", "conflict", "invalid"} : cloudResult' = [cloudResult EXCEPT ![c] = out]
    BY <1>1 DEF Inspect, Unmapped
  <2>3. QED
    BY <1>1, <2>1, <2>2 DEF Inspect, Unmapped
<1>2. ASSUME NEW c \in CloudCands, Recover(c)
      PROVE  cloudResult' = cloudResult \/ OneResult(c)
  BY <1>2 DEF Recover, OpenUnsaid, Finalize, SaveOperation
<1>3. ASSUME NEW c \in CloudCands, ObserveDestination(c)
      PROVE  cloudResult' = cloudResult \/ OneResult(c)
  <2>1. cloudResult[c] = "none" /\ UNCHANGED <<cloud, cloudLibrary>>
    BY <1>3, ObserveEffect DEF WorkMatchesRow
  <2>2. QED
    BY <1>3, <2>1, ObserveEffect DEF Ends, Stays, LooksAgain
<1>4. ASSUME NEW c \in CloudCands,
             ApplyCloud(c) \/ Prepare(c) \/ Submit(c) \/ Call(c) \/ Answered(c) \/ ObserveSource(c)
               \/ CallFails(c) \/ ObserveFails(c) \/ CarryOut(c) \/ LoseRequest(c) \/ GraceEnds(c)
      PROVE  cloudResult' = cloudResult
  BY <1>4 DEF ApplyCloud, Prepare, Submit, Call, Answered, ObserveSource, CallFails, ObserveFails,
       CarryOut,
              LoseRequest, GraceEnds, SaveOperation, StaysUnknown
<1>5. CASE CloudCrash \/ PutOther \/ (\E p \in Destinations : ArchiveTakes(p)) \/ UNCHANGED cloudVars
  BY <1>5 DEF CloudCrash, PutOther, ArchiveTakes, cloudVars
<1>6. QED
  BY <1>1, <1>2, <1>3, <1>4, <1>5 DEF CloudNext, CloudStep

(* A move inside CloudDrive implements the contract of an applied plan: a   *)
(* result is given once, "moved" only of a delivered file, and what was     *)
(* reported as moved stays delivered.                                       *)
THEOREM CloudMoveImplementsContract == CloudSpec => CloudContractKept
<1> DEFINE said == [c \in CloudCands |-> IF cloudResult[c] \in {"none", "moved"} THEN cloudResult[c] ELSE "kept"]
           arrived == {c \in CloudCands : DeliveredInCloud(c)}
<1>1. CloudInit => CloudContract!ContractInit
  BY CandidateAssumption DEF CloudInit, CloudContract!ContractInit, DeliveredInCloud
<1>2. CloudInv /\ CloudInv' /\ [CloudNext]_cloudVars => [CloudContract!ContractNext]_<<said, arrived>>
  <2> SUFFICES ASSUME CloudInv, CloudInv', [CloudNext]_cloudVars
               PROVE  CloudContract!ContractNext
    OBVIOUS
  <2>1. CASE cloudResult' = cloudResult
    <3>1. said' = said
      BY <2>1
    <3>2. arrived' = arrived \cup arrived' /\ arrived' \in SUBSET CloudCands
      BY DeliveriesStay
    <3>3. CloudContract!Arrive
      BY <3>1, <3>2 DEF CloudContract!Arrive
    <3>4. QED
      BY <3>3 DEF CloudContract!ContractNext
  <2>2. ASSUME NEW c \in CloudCands, OneResult(c)
        PROVE  CloudContract!Say(c)
    <3>1. arrived' = arrived
      BY <2>2 DEF OneResult, DeliveredInCloud
    <3>2. said[c] = "none"
      BY <2>2 DEF OneResult
    <3>3. PICK v \in {"moved", "kept"} : v = said'[c]
      BY <2>2 DEF OneResult
    <3>4. said' = [said EXCEPT ![c] = v]
      BY <2>2, <3>3 DEF OneResult
    <3>5. v = "moved" => c \in arrived
      BY <3>1, <3>3 DEF CloudInv, CloudMovedIsDelivered
    <3>6. QED
      BY <3>1, <3>2, <3>4, <3>5 DEF CloudContract!Say
  <2>3. QED
    BY <2>1, <2>2, ResultsOnceGiven DEF CloudContract!ContractNext
<1>3. QED
  BY <1>1, <1>2, CloudInvHolds, PTL
     DEF CloudSpec, CloudContractKept, CloudContract!ContractSpec, CloudContract!contractVars

----------------------------------------------------------------------------
(* Every step keeps DriveInv.                                               *)

(* A move begins where there is neither an operation nor a result.          *)
LEMMA ApplyCloudKeepsDrive ==
    ASSUME CloudInv, DriveInv, ~Late, NEW c \in CloudCands, ApplyCloud(c)
    PROVE  DriveInv'
<1> USE CandidateAssumption, CloudAssumption DEF CloudInv, DriveInv, ApplyCloud, Takes
<1>1. Whereabouts'
  BY DEF Whereabouts, CloudTypeOK
<1>2. PendingCalled'
  BY DEF PendingCalled, AgedDone, RejectedDone, CloudTypeOK, WorkMatchesRow, OnRecord
<1>3. AgedDone'
  BY DEF AgedDone, CloudTypeOK, PendingCalled, WorkMatchesRow
<1>4. RejectedDone'
  BY DEF RejectedDone, CloudTypeOK, WorkMatchesRow, PendingCalled
<1>5. OneOpenPerSource'
  BY DEF OneOpenPerSource, CloudTypeOK, WorkMatchesRow
<1>6. SucceededLeft'
  BY DEF SucceededLeft, CloudTypeOK, Whereabouts, WorkMatchesRow
<1>7. NoneSucceeded'
  BY DEF NoneSucceeded, CloudTypeOK, WorkMatchesRow, SucceededLeft
<1>8. OthersMovedIt'
  BY DEF OthersMovedIt, GivenUp, MovedByOther, Gone, Whereabouts, CloudTypeOK, WorkMatchesRow,
       PendingCalled, AgedDone, RejectedDone, OnRecord
<1>9. OneRequestPerSource'
  BY DEF OneRequestPerSource, CloudTypeOK, PendingCalled, WorkMatchesRow, OneOpenPerSource,
       NoneSucceeded
<1>10. QED
  BY <1>1, <1>2, <1>3, <1>4, <1>5, <1>6, <1>7, <1>8, <1>9

(* The preflight gives a result, or finds the file and a free destination.  *)
LEMMA InspectKeepsDrive ==
    ASSUME CloudInv, DriveInv, ~Late, NEW c \in CloudCands, Inspect(c)
    PROVE  DriveInv'
<1> USE CandidateAssumption, CloudAssumption DEF CloudInv, DriveInv, Inspect, CloudOnPc, CloudGoto
<1>1. Whereabouts'
  BY DEF Whereabouts, CloudTypeOK
<1>2. PendingCalled'
  BY DEF PendingCalled, AgedDone, RejectedDone, CloudTypeOK, WorkMatchesRow, OnRecord
<1>3. AgedDone'
  BY DEF AgedDone, CloudTypeOK, PendingCalled, WorkMatchesRow
<1>4. RejectedDone'
  BY DEF RejectedDone, CloudTypeOK, WorkMatchesRow, PendingCalled
<1>5. OneOpenPerSource'
  BY DEF OneOpenPerSource, CloudTypeOK, WorkMatchesRow
<1>6. SucceededLeft'
  BY DEF SucceededLeft, CloudTypeOK, Whereabouts, WorkMatchesRow
<1>7. NoneSucceeded'
  BY DEF NoneSucceeded, CloudTypeOK, WorkMatchesRow, SucceededLeft
<1>8. OthersMovedIt'
  BY DEF OthersMovedIt, GivenUp, MovedByOther, Gone, Whereabouts, CloudTypeOK, WorkMatchesRow,
       PendingCalled, AgedDone, RejectedDone, OnRecord
<1>9. OneRequestPerSource'
  BY DEF OneRequestPerSource, CloudTypeOK, PendingCalled, WorkMatchesRow, OneOpenPerSource,
       NoneSucceeded
<1>10. QED
  BY <1>1, <1>2, <1>3, <1>4, <1>5, <1>6, <1>7, <1>8, <1>9

(* The move ends before anything was written or asked.                      *)
LEMMA UnmappedKeepsDrive ==
    ASSUME CloudInv, DriveInv, ~Late, NEW c \in CloudCands, Unmapped(c)
    PROVE  DriveInv'
<1> USE CandidateAssumption, CloudAssumption DEF CloudInv, DriveInv, Unmapped, CloudOnPc
<1>1. Whereabouts'
  BY DEF Whereabouts, CloudTypeOK
<1>2. PendingCalled'
  BY DEF PendingCalled, AgedDone, RejectedDone, CloudTypeOK, WorkMatchesRow, OnRecord
<1>3. AgedDone'
  BY DEF AgedDone, CloudTypeOK, PendingCalled, WorkMatchesRow
<1>4. RejectedDone'
  BY DEF RejectedDone, CloudTypeOK, WorkMatchesRow, PendingCalled
<1>5. OneOpenPerSource'
  BY DEF OneOpenPerSource, CloudTypeOK, WorkMatchesRow
<1>6. SucceededLeft'
  BY DEF SucceededLeft, CloudTypeOK, Whereabouts, WorkMatchesRow
<1>7. NoneSucceeded'
  BY DEF NoneSucceeded, CloudTypeOK, WorkMatchesRow, SucceededLeft
<1>8. OthersMovedIt'
  BY DEF OthersMovedIt, GivenUp, MovedByOther, Gone, Whereabouts, CloudTypeOK, WorkMatchesRow,
       PendingCalled, AgedDone, RejectedDone, OnRecord
<1>9. OneRequestPerSource'
  BY DEF OneRequestPerSource, CloudTypeOK, PendingCalled, WorkMatchesRow, OneOpenPerSource,
       NoneSucceeded
<1>10. QED
  BY <1>1, <1>2, <1>3, <1>4, <1>5, <1>6, <1>7, <1>8, <1>9

(* The operation is written, unless another one is open for the source.     *)
LEMMA PrepareKeepsDrive ==
    ASSUME CloudInv, DriveInv, ~Late, NEW c \in CloudCands, Prepare(c)
    PROVE  DriveInv'
<1> USE CandidateAssumption, CloudAssumption DEF CloudInv, DriveInv, Prepare, CloudOnPc, CloudGoto,
     SaveOperation, SourceTaken
<1>1. Whereabouts'
  BY DEF Whereabouts, CloudTypeOK
<1>2. PendingCalled'
  BY DEF PendingCalled, AgedDone, RejectedDone, CloudTypeOK, WorkMatchesRow, OnRecord
<1>3. AgedDone'
  BY DEF AgedDone, CloudTypeOK, PendingCalled, WorkMatchesRow
<1>4. RejectedDone'
  BY DEF RejectedDone, CloudTypeOK, WorkMatchesRow, PendingCalled
<1>5. OneOpenPerSource'
  BY DEF OneOpenPerSource, CloudTypeOK, WorkMatchesRow
<1>6. SucceededLeft'
  BY DEF SucceededLeft, CloudTypeOK, Whereabouts, WorkMatchesRow
<1>7. NoneSucceeded'
  BY DEF NoneSucceeded, CloudTypeOK, WorkMatchesRow, SucceededLeft
<1>8. OthersMovedIt'
  BY DEF OthersMovedIt, GivenUp, MovedByOther, Gone, Whereabouts, CloudTypeOK, WorkMatchesRow,
       PendingCalled, AgedDone, RejectedDone, OnRecord
<1>9. OneRequestPerSource'
  BY DEF OneRequestPerSource, CloudTypeOK, PendingCalled, WorkMatchesRow, OneOpenPerSource,
       NoneSucceeded
<1>10. QED
  BY <1>1, <1>2, <1>3, <1>4, <1>5, <1>6, <1>7, <1>8, <1>9

(* The operation is on record as submitted before the call is made.         *)
LEMMA SubmitKeepsDrive ==
    ASSUME CloudInv, DriveInv, ~Late, NEW c \in CloudCands, Submit(c)
    PROVE  DriveInv'
<1> USE CandidateAssumption, CloudAssumption DEF CloudInv, DriveInv, Submit, CloudOnPc, CloudGoto,
     SaveOperation
<1>1. Whereabouts'
  BY DEF Whereabouts, CloudTypeOK
<1>2. PendingCalled'
  BY DEF PendingCalled, AgedDone, RejectedDone, CloudTypeOK, WorkMatchesRow, OnRecord
<1>3. AgedDone'
  BY DEF AgedDone, CloudTypeOK, PendingCalled, WorkMatchesRow
<1>4. RejectedDone'
  BY DEF RejectedDone, CloudTypeOK, WorkMatchesRow, PendingCalled
<1>5. OneOpenPerSource'
  BY DEF OneOpenPerSource, CloudTypeOK, WorkMatchesRow
<1>6. SucceededLeft'
  BY DEF SucceededLeft, CloudTypeOK, Whereabouts, WorkMatchesRow
<1>7. NoneSucceeded'
  BY DEF NoneSucceeded, CloudTypeOK, WorkMatchesRow, SucceededLeft
<1>8. OthersMovedIt'
  BY DEF OthersMovedIt, GivenUp, MovedByOther, Gone, Whereabouts, CloudTypeOK, WorkMatchesRow,
       PendingCalled, AgedDone, RejectedDone, OnRecord
<1>9. OneRequestPerSource'
  BY DEF OneRequestPerSource, CloudTypeOK, PendingCalled, WorkMatchesRow, OneOpenPerSource,
       NoneSucceeded
<1>10. QED
  BY <1>1, <1>2, <1>3, <1>4, <1>5, <1>6, <1>7, <1>8, <1>9

(* The one call: the operation was submitted and no call was made before.   *)
LEMMA CallKeepsDrive ==
    ASSUME CloudInv, DriveInv, ~Late, NEW c \in CloudCands, Call(c)
    PROVE  DriveInv'
<1> USE CandidateAssumption, CloudAssumption DEF CloudInv, DriveInv, Call, CloudOnPc, CloudGoto
<1>1. Whereabouts'
  BY DEF Whereabouts, CloudTypeOK
<1>2. PendingCalled'
  BY DEF PendingCalled, AgedDone, RejectedDone, CloudTypeOK, WorkMatchesRow, OnRecord
<1>3. AgedDone'
  BY DEF AgedDone, CloudTypeOK, PendingCalled, WorkMatchesRow
<1>4. RejectedDone'
  BY DEF RejectedDone, CloudTypeOK, WorkMatchesRow, PendingCalled
<1>5. OneOpenPerSource'
  BY DEF OneOpenPerSource, CloudTypeOK, WorkMatchesRow
<1>6. SucceededLeft'
  BY DEF SucceededLeft, CloudTypeOK, Whereabouts, WorkMatchesRow
<1>7. NoneSucceeded'
  BY DEF NoneSucceeded, CloudTypeOK, WorkMatchesRow, SucceededLeft
<1>8. OthersMovedIt'
  BY DEF OthersMovedIt, GivenUp, MovedByOther, Gone, Whereabouts, CloudTypeOK, WorkMatchesRow,
       PendingCalled, AgedDone, RejectedDone, OnRecord
<1>9. OneRequestPerSource'
  BY DEF OneRequestPerSource, CloudTypeOK, PendingCalled, WorkMatchesRow, OneOpenPerSource,
       NoneSucceeded
<1>10. QED
  BY <1>1, <1>2, <1>3, <1>4, <1>5, <1>6, <1>7, <1>8, <1>9

(* CloudDrive answered; a refused request is not under way any more.        *)
LEMMA AnsweredKeepsDrive ==
    ASSUME CloudInv, DriveInv, ~Late, NEW c \in CloudCands, Answered(c)
    PROVE  DriveInv'
<1> USE CandidateAssumption, CloudAssumption DEF CloudInv, DriveInv, Answered, CloudOnPc, SaveOperation
<1>1. Whereabouts'
  BY DEF Whereabouts, CloudTypeOK
<1>2. PendingCalled'
  BY DEF PendingCalled, AgedDone, RejectedDone, CloudTypeOK, WorkMatchesRow, OnRecord
<1>3. AgedDone'
  BY DEF AgedDone, CloudTypeOK, PendingCalled, WorkMatchesRow
<1>4. RejectedDone'
  BY DEF RejectedDone, CloudTypeOK, WorkMatchesRow, PendingCalled
<1>5. OneOpenPerSource'
  BY DEF OneOpenPerSource, CloudTypeOK, WorkMatchesRow
<1>6. SucceededLeft'
  BY DEF SucceededLeft, CloudTypeOK, Whereabouts, WorkMatchesRow
<1>7. NoneSucceeded'
  BY DEF NoneSucceeded, CloudTypeOK, WorkMatchesRow, SucceededLeft
<1>8. OthersMovedIt'
  BY DEF OthersMovedIt, GivenUp, MovedByOther, Gone, Whereabouts, CloudTypeOK, WorkMatchesRow,
       PendingCalled, AgedDone, RejectedDone, OnRecord
<1>9. OneRequestPerSource'
  BY DEF OneRequestPerSource, CloudTypeOK, PendingCalled, WorkMatchesRow, OneOpenPerSource,
       NoneSucceeded
<1>10. QED
  BY <1>1, <1>2, <1>3, <1>4, <1>5, <1>6, <1>7, <1>8, <1>9

(* The call failed without telling, the operation is unknown.               *)
LEMMA CallFailsKeepsDrive ==
    ASSUME CloudInv, DriveInv, ~Late, NEW c \in CloudCands, CallFails(c)
    PROVE  DriveInv'
<1> USE CandidateAssumption, CloudAssumption DEF CloudInv, DriveInv, CallFails, CloudOnPc, SaveOperation
<1>1. Whereabouts'
  BY DEF Whereabouts, CloudTypeOK
<1>2. PendingCalled'
  BY DEF PendingCalled, AgedDone, RejectedDone, CloudTypeOK, WorkMatchesRow, OnRecord
<1>3. AgedDone'
  BY DEF AgedDone, CloudTypeOK, PendingCalled, WorkMatchesRow
<1>4. RejectedDone'
  BY DEF RejectedDone, CloudTypeOK, WorkMatchesRow, PendingCalled
<1>5. OneOpenPerSource'
  BY DEF OneOpenPerSource, CloudTypeOK, WorkMatchesRow
<1>6. SucceededLeft'
  BY DEF SucceededLeft, CloudTypeOK, Whereabouts, WorkMatchesRow
<1>7. NoneSucceeded'
  BY DEF NoneSucceeded, CloudTypeOK, WorkMatchesRow, SucceededLeft
<1>8. OthersMovedIt'
  BY DEF OthersMovedIt, GivenUp, MovedByOther, Gone, Whereabouts, CloudTypeOK, WorkMatchesRow,
       PendingCalled, AgedDone, RejectedDone, OnRecord
<1>9. OneRequestPerSource'
  BY DEF OneRequestPerSource, CloudTypeOK, PendingCalled, WorkMatchesRow, OneOpenPerSource,
       NoneSucceeded
<1>10. QED
  BY <1>1, <1>2, <1>3, <1>4, <1>5, <1>6, <1>7, <1>8, <1>9

(* Recovery fails what was not submitted and observes the rest.             *)
LEMMA RecoverKeepsDrive ==
    ASSUME CloudInv, DriveInv, ~Late, NEW c \in CloudCands, Recover(c)
    PROVE  DriveInv'
<1> USE CandidateAssumption, CloudAssumption DEF CloudInv, DriveInv, Recover, Finalize, SaveOperation
<1>1. Whereabouts'
  BY DEF Whereabouts, CloudTypeOK
<1>2. PendingCalled'
  BY DEF PendingCalled, AgedDone, RejectedDone, CloudTypeOK, WorkMatchesRow, OnRecord
<1>3. AgedDone'
  BY DEF AgedDone, CloudTypeOK, PendingCalled, WorkMatchesRow
<1>4. RejectedDone'
  BY DEF RejectedDone, CloudTypeOK, WorkMatchesRow, PendingCalled
<1>5. OneOpenPerSource'
  BY DEF OneOpenPerSource, CloudTypeOK, WorkMatchesRow
<1>6. SucceededLeft'
  BY DEF SucceededLeft, CloudTypeOK, Whereabouts, WorkMatchesRow
<1>7. NoneSucceeded'
  BY DEF NoneSucceeded, CloudTypeOK, WorkMatchesRow, SucceededLeft
<1>8. OthersMovedIt'
  BY DEF OthersMovedIt, GivenUp, MovedByOther, Gone, Whereabouts, CloudTypeOK, WorkMatchesRow,
       PendingCalled, AgedDone, RejectedDone, OnRecord
<1>9. OneRequestPerSource'
  BY DEF OneRequestPerSource, CloudTypeOK, PendingCalled, WorkMatchesRow, OneOpenPerSource,
       NoneSucceeded
<1>10. QED
  BY <1>1, <1>2, <1>3, <1>4, <1>5, <1>6, <1>7, <1>8, <1>9

(* What is seen at the source is remembered.                                *)
LEMMA ObserveSourceKeepsDrive ==
    ASSUME CloudInv, DriveInv, ~Late, NEW c \in CloudCands, ObserveSource(c)
    PROVE  DriveInv'
<1> USE CandidateAssumption, CloudAssumption DEF CloudInv, DriveInv, ObserveSource, CloudOnPc, Kind
<1>1. Whereabouts'
  BY DEF Whereabouts, CloudTypeOK
<1>2. PendingCalled'
  BY DEF PendingCalled, AgedDone, RejectedDone, CloudTypeOK, WorkMatchesRow, OnRecord
<1>3. AgedDone'
  BY DEF AgedDone, CloudTypeOK, PendingCalled, WorkMatchesRow
<1>4. RejectedDone'
  BY DEF RejectedDone, CloudTypeOK, WorkMatchesRow, PendingCalled
<1>5. OneOpenPerSource'
  BY DEF OneOpenPerSource, CloudTypeOK, WorkMatchesRow
<1>6. SucceededLeft'
  BY DEF SucceededLeft, CloudTypeOK, Whereabouts, WorkMatchesRow
<1>7. NoneSucceeded'
  BY DEF NoneSucceeded, CloudTypeOK, WorkMatchesRow, SucceededLeft
<1>8. OthersMovedIt'
  BY DEF OthersMovedIt, GivenUp, MovedByOther, Gone, Whereabouts, CloudTypeOK, WorkMatchesRow,
       PendingCalled, AgedDone, RejectedDone, OnRecord
<1>9. OneRequestPerSource'
  BY DEF OneRequestPerSource, CloudTypeOK, PendingCalled, WorkMatchesRow, OneOpenPerSource,
       NoneSucceeded
<1>10. QED
  BY <1>1, <1>2, <1>3, <1>4, <1>5, <1>6, <1>7, <1>8, <1>9

(* The observation ends the operation, leaves it unknown, or goes on.       *)
LEMMA ObserveDestinationKeepsDrive ==
    ASSUME CloudInv, DriveInv, ~Late, NEW c \in CloudCands, ObserveDestination(c)
    PROVE  DriveInv'
<1> USE CandidateAssumption, CloudAssumption DEF CloudInv, DriveInv
<1>0. UNCHANGED <<cloud, cloudLibrary, pending, calls, cloudFaults>> /\ cloudWork.on = c /\ cloudWork.pc = "destination" /\ cloudWork \in CloudWorks
  BY ObserveEffect
<1>1. ASSUME NEW e \in {"succeeded", "conflict", "changed", "rejected", "unobserved"},
             NEW r \in {"moved", "conflict", "stale", "failed"}, Ends(c, e, r)
      PROVE  DriveInv'
  <2>1. Whereabouts'
    BY <1>0, <1>1 DEF Ends, Whereabouts, CloudTypeOK
  <2>2. PendingCalled'
    BY <1>0, <1>1 DEF Ends, PendingCalled, AgedDone, RejectedDone, CloudTypeOK, WorkMatchesRow, OnRecord
  <2>3. AgedDone'
    BY <1>0, <1>1 DEF Ends, AgedDone, CloudTypeOK, PendingCalled, WorkMatchesRow
  <2>4. RejectedDone'
    BY <1>0, <1>1 DEF Ends, RejectedDone, CloudTypeOK, WorkMatchesRow, PendingCalled
  <2>5. OneOpenPerSource'
    BY <1>0, <1>1 DEF Ends, OneOpenPerSource, CloudTypeOK, WorkMatchesRow
  <2>6. SucceededLeft'
    BY <1>0, <1>1 DEF Ends, SucceededLeft, CloudTypeOK, Whereabouts, WorkMatchesRow
  <2>7. NoneSucceeded'
    BY <1>0, <1>1 DEF Ends, NoneSucceeded, CloudTypeOK, WorkMatchesRow, SucceededLeft
  <2>8. OthersMovedIt'
    BY <1>0, <1>1 DEF Ends, OthersMovedIt, GivenUp, MovedByOther, Gone, Whereabouts, CloudTypeOK,
         WorkMatchesRow, PendingCalled, AgedDone, RejectedDone, OnRecord
  <2>9. OneRequestPerSource'
    BY <1>0, <1>1 DEF Ends, OneRequestPerSource, CloudTypeOK, PendingCalled, WorkMatchesRow,
         OneOpenPerSource, NoneSucceeded
  <2>10. QED
    BY <2>1, <2>2, <2>3, <2>4, <2>5, <2>6, <2>7, <2>8, <2>9
<1>2. CASE Stays(c)
  <2>1. Whereabouts'
    BY <1>0, <1>2 DEF Stays, Whereabouts, CloudTypeOK
  <2>2. PendingCalled'
    BY <1>0, <1>2 DEF Stays, PendingCalled, AgedDone, RejectedDone, CloudTypeOK, WorkMatchesRow,
         OnRecord
  <2>3. AgedDone'
    BY <1>0, <1>2 DEF Stays, AgedDone, CloudTypeOK, PendingCalled, WorkMatchesRow
  <2>4. RejectedDone'
    BY <1>0, <1>2 DEF Stays, RejectedDone, CloudTypeOK, WorkMatchesRow, PendingCalled
  <2>5. OneOpenPerSource'
    BY <1>0, <1>2 DEF Stays, OneOpenPerSource, CloudTypeOK, WorkMatchesRow
  <2>6. SucceededLeft'
    BY <1>0, <1>2 DEF Stays, SucceededLeft, CloudTypeOK, Whereabouts, WorkMatchesRow
  <2>7. NoneSucceeded'
    BY <1>0, <1>2 DEF Stays, NoneSucceeded, CloudTypeOK, WorkMatchesRow, SucceededLeft
  <2>8. OthersMovedIt'
    BY <1>0, <1>2 DEF Stays, OthersMovedIt, GivenUp, MovedByOther, Gone, Whereabouts, CloudTypeOK,
         WorkMatchesRow, PendingCalled, AgedDone, RejectedDone, OnRecord
  <2>9. OneRequestPerSource'
    BY <1>0, <1>2 DEF Stays, OneRequestPerSource, CloudTypeOK, PendingCalled, WorkMatchesRow,
         OneOpenPerSource, NoneSucceeded
  <2>10. QED
    BY <2>1, <2>2, <2>3, <2>4, <2>5, <2>6, <2>7, <2>8, <2>9
<1>3. CASE LooksAgain(c)
  <2>1. Whereabouts'
    BY <1>0, <1>3 DEF LooksAgain, Whereabouts, CloudTypeOK, CloudWorks
  <2>2. PendingCalled'
    BY <1>0, <1>3 DEF LooksAgain, PendingCalled, AgedDone, RejectedDone, CloudTypeOK,
         WorkMatchesRow, OnRecord, CloudWorks
  <2>3. AgedDone'
    BY <1>0, <1>3 DEF LooksAgain, AgedDone, CloudTypeOK, PendingCalled, WorkMatchesRow, CloudWorks
  <2>4. RejectedDone'
    BY <1>0, <1>3 DEF LooksAgain, RejectedDone, CloudTypeOK, WorkMatchesRow, PendingCalled, CloudWorks
  <2>5. OneOpenPerSource'
    BY <1>0, <1>3 DEF LooksAgain, OneOpenPerSource, CloudTypeOK, WorkMatchesRow, CloudWorks
  <2>6. SucceededLeft'
    BY <1>0, <1>3 DEF LooksAgain, SucceededLeft, CloudTypeOK, Whereabouts, WorkMatchesRow, CloudWorks
  <2>7. NoneSucceeded'
    BY <1>0, <1>3 DEF LooksAgain, NoneSucceeded, CloudTypeOK, WorkMatchesRow, SucceededLeft, CloudWorks
  <2>8. OthersMovedIt'
    BY <1>0, <1>3 DEF LooksAgain, OthersMovedIt, GivenUp, MovedByOther, Gone, Whereabouts,
         CloudTypeOK, WorkMatchesRow, PendingCalled, AgedDone, RejectedDone, OnRecord, CloudWorks
  <2>9. OneRequestPerSource'
    BY <1>0, <1>3 DEF LooksAgain, OneRequestPerSource, CloudTypeOK, PendingCalled, WorkMatchesRow,
         OneOpenPerSource, NoneSucceeded, CloudWorks
  <2>10. QED
    BY <2>1, <2>2, <2>3, <2>4, <2>5, <2>6, <2>7, <2>8, <2>9
<1>4. QED
  BY <1>1, <1>2, <1>3, ObserveEffect

(* CloudDrive could not be asked: the operation stays open.                 *)
LEMMA ObserveFailsKeepsDrive ==
    ASSUME CloudInv, DriveInv, ~Late, NEW c \in CloudCands, ObserveFails(c)
    PROVE  DriveInv'
<1> USE CandidateAssumption, CloudAssumption DEF CloudInv, DriveInv, ObserveFails, CloudOnPc,
     StaysUnknown, SaveOperation
<1>1. Whereabouts'
  BY DEF Whereabouts, CloudTypeOK
<1>2. PendingCalled'
  BY DEF PendingCalled, AgedDone, RejectedDone, CloudTypeOK, WorkMatchesRow, OnRecord
<1>3. AgedDone'
  BY DEF AgedDone, CloudTypeOK, PendingCalled, WorkMatchesRow
<1>4. RejectedDone'
  BY DEF RejectedDone, CloudTypeOK, WorkMatchesRow, PendingCalled
<1>5. OneOpenPerSource'
  BY DEF OneOpenPerSource, CloudTypeOK, WorkMatchesRow
<1>6. SucceededLeft'
  BY DEF SucceededLeft, CloudTypeOK, Whereabouts, WorkMatchesRow
<1>7. NoneSucceeded'
  BY DEF NoneSucceeded, CloudTypeOK, WorkMatchesRow, SucceededLeft
<1>8. OthersMovedIt'
  BY DEF OthersMovedIt, GivenUp, MovedByOther, Gone, Whereabouts, CloudTypeOK, WorkMatchesRow,
       PendingCalled, AgedDone, RejectedDone, OnRecord
<1>9. OneRequestPerSource'
  BY DEF OneRequestPerSource, CloudTypeOK, PendingCalled, WorkMatchesRow, OneOpenPerSource,
       NoneSucceeded
<1>10. QED
  BY <1>1, <1>2, <1>3, <1>4, <1>5, <1>6, <1>7, <1>8, <1>9

(* CloudDrive carries a request out, or drops it.                           *)
LEMMA CarryOutKeepsDrive ==
    ASSUME CloudInv, DriveInv, ~Late, NEW c \in CloudCands, CarryOut(c)
    PROVE  DriveInv'
<1> USE CandidateAssumption, CloudAssumption DEF CloudInv, DriveInv, CarryOut
<1>1. Whereabouts'
  BY DEF Whereabouts, CloudTypeOK
<1>2. PendingCalled'
  BY DEF PendingCalled, AgedDone, RejectedDone, CloudTypeOK, WorkMatchesRow, OnRecord
<1>3. AgedDone'
  BY DEF AgedDone, CloudTypeOK, PendingCalled, WorkMatchesRow
<1>4. RejectedDone'
  BY DEF RejectedDone, CloudTypeOK, WorkMatchesRow, PendingCalled
<1>5. OneOpenPerSource'
  BY DEF OneOpenPerSource, CloudTypeOK, WorkMatchesRow
<1>6. SucceededLeft'
  BY DEF SucceededLeft, CloudTypeOK, Whereabouts, WorkMatchesRow
<1>7. NoneSucceeded'
  BY DEF NoneSucceeded, CloudTypeOK, WorkMatchesRow, SucceededLeft
<1>8. OthersMovedIt'
  BY DEF OthersMovedIt, GivenUp, MovedByOther, Gone, Whereabouts, CloudTypeOK, WorkMatchesRow,
       PendingCalled, AgedDone, RejectedDone, OnRecord
<1>9. OneRequestPerSource'
  BY DEF OneRequestPerSource, CloudTypeOK, PendingCalled, WorkMatchesRow, OneOpenPerSource,
       NoneSucceeded
<1>10. QED
  BY <1>1, <1>2, <1>3, <1>4, <1>5, <1>6, <1>7, <1>8, <1>9

(* A request is lost.                                                       *)
LEMMA LoseRequestKeepsDrive ==
    ASSUME CloudInv, DriveInv, ~Late, NEW c \in CloudCands, LoseRequest(c)
    PROVE  DriveInv'
<1> USE CandidateAssumption, CloudAssumption DEF CloudInv, DriveInv, LoseRequest
<1>1. Whereabouts'
  BY DEF Whereabouts, CloudTypeOK
<1>2. PendingCalled'
  BY DEF PendingCalled, AgedDone, RejectedDone, CloudTypeOK, WorkMatchesRow, OnRecord
<1>3. AgedDone'
  BY DEF AgedDone, CloudTypeOK, PendingCalled, WorkMatchesRow
<1>4. RejectedDone'
  BY DEF RejectedDone, CloudTypeOK, WorkMatchesRow, PendingCalled
<1>5. OneOpenPerSource'
  BY DEF OneOpenPerSource, CloudTypeOK, WorkMatchesRow
<1>6. SucceededLeft'
  BY DEF SucceededLeft, CloudTypeOK, Whereabouts, WorkMatchesRow
<1>7. NoneSucceeded'
  BY DEF NoneSucceeded, CloudTypeOK, WorkMatchesRow, SucceededLeft
<1>8. OthersMovedIt'
  BY DEF OthersMovedIt, GivenUp, MovedByOther, Gone, Whereabouts, CloudTypeOK, WorkMatchesRow,
       PendingCalled, AgedDone, RejectedDone, OnRecord
<1>9. OneRequestPerSource'
  BY DEF OneRequestPerSource, CloudTypeOK, PendingCalled, WorkMatchesRow, OneOpenPerSource,
       NoneSucceeded
<1>10. QED
  BY <1>1, <1>2, <1>3, <1>4, <1>5, <1>6, <1>7, <1>8, <1>9

(* The grace period of an open operation runs out.                          *)
LEMMA GraceEndsKeepsDrive ==
    ASSUME CloudInv, DriveInv, ~Late, NEW c \in CloudCands, GraceEnds(c)
    PROVE  DriveInv'
<1> USE CandidateAssumption, CloudAssumption DEF CloudInv, DriveInv, GraceEnds
<1>1. Whereabouts'
  BY DEF Whereabouts, CloudTypeOK
<1>2. PendingCalled'
  BY DEF PendingCalled, AgedDone, RejectedDone, CloudTypeOK, WorkMatchesRow, OnRecord
<1>3. AgedDone'
  BY DEF AgedDone, CloudTypeOK, PendingCalled, WorkMatchesRow
<1>4. RejectedDone'
  BY DEF RejectedDone, CloudTypeOK, WorkMatchesRow, PendingCalled
<1>5. OneOpenPerSource'
  BY DEF OneOpenPerSource, CloudTypeOK, WorkMatchesRow
<1>6. SucceededLeft'
  BY DEF SucceededLeft, CloudTypeOK, Whereabouts, WorkMatchesRow
<1>7. NoneSucceeded'
  BY DEF NoneSucceeded, CloudTypeOK, WorkMatchesRow, SucceededLeft
<1>8. OthersMovedIt'
  BY DEF OthersMovedIt, GivenUp, MovedByOther, Gone, Whereabouts, CloudTypeOK, WorkMatchesRow,
       PendingCalled, AgedDone, RejectedDone, OnRecord
<1>9. OneRequestPerSource'
  BY DEF OneRequestPerSource, CloudTypeOK, PendingCalled, WorkMatchesRow, OneOpenPerSource,
       NoneSucceeded
<1>10. QED
  BY <1>1, <1>2, <1>3, <1>4, <1>5, <1>6, <1>7, <1>8, <1>9

(* The archive takes a file from the staging tree.                          *)
LEMMA ArchiveTakesKeepsDrive ==
    ASSUME CloudInv, DriveInv, ~Late, NEW p \in Destinations, ArchiveTakes(p)
    PROVE  DriveInv'
<1> USE CandidateAssumption, CloudAssumption DEF CloudInv, DriveInv, ArchiveTakes
<1>1. Whereabouts'
  BY DEF Whereabouts, CloudTypeOK
<1>2. PendingCalled'
  BY DEF PendingCalled, AgedDone, RejectedDone, CloudTypeOK, WorkMatchesRow, OnRecord
<1>3. AgedDone'
  BY DEF AgedDone, CloudTypeOK, PendingCalled, WorkMatchesRow
<1>4. RejectedDone'
  BY DEF RejectedDone, CloudTypeOK, WorkMatchesRow, PendingCalled
<1>5. OneOpenPerSource'
  BY DEF OneOpenPerSource, CloudTypeOK, WorkMatchesRow
<1>6. SucceededLeft'
  BY DEF SucceededLeft, CloudTypeOK, Whereabouts, WorkMatchesRow
<1>7. NoneSucceeded'
  BY DEF NoneSucceeded, CloudTypeOK, WorkMatchesRow, SucceededLeft
<1>8. OthersMovedIt'
  BY DEF OthersMovedIt, GivenUp, MovedByOther, Gone, Whereabouts, CloudTypeOK, WorkMatchesRow,
       PendingCalled, AgedDone, RejectedDone, OnRecord
<1>9. OneRequestPerSource'
  BY DEF OneRequestPerSource, CloudTypeOK, PendingCalled, WorkMatchesRow, OneOpenPerSource,
       NoneSucceeded
<1>10. QED
  BY <1>1, <1>2, <1>3, <1>4, <1>5, <1>6, <1>7, <1>8, <1>9

(* Another program puts a file of another identity somewhere.               *)
LEMMA PutOtherKeepsDrive ==
    ASSUME CloudInv, DriveInv, ~Late, PutOther
    PROVE  DriveInv'
<1> USE CandidateAssumption, CloudAssumption DEF CloudInv, DriveInv, PutOther
<1>1. Whereabouts'
  BY DEF Whereabouts, CloudTypeOK
<1>2. PendingCalled'
  BY DEF PendingCalled, AgedDone, RejectedDone, CloudTypeOK, WorkMatchesRow, OnRecord
<1>3. AgedDone'
  BY DEF AgedDone, CloudTypeOK, PendingCalled, WorkMatchesRow
<1>4. RejectedDone'
  BY DEF RejectedDone, CloudTypeOK, WorkMatchesRow, PendingCalled
<1>5. OneOpenPerSource'
  BY DEF OneOpenPerSource, CloudTypeOK, WorkMatchesRow
<1>6. SucceededLeft'
  BY DEF SucceededLeft, CloudTypeOK, Whereabouts, WorkMatchesRow
<1>7. NoneSucceeded'
  BY DEF NoneSucceeded, CloudTypeOK, WorkMatchesRow, SucceededLeft
<1>8. OthersMovedIt'
  BY DEF OthersMovedIt, GivenUp, MovedByOther, Gone, Whereabouts, CloudTypeOK, WorkMatchesRow,
       PendingCalled, AgedDone, RejectedDone, OnRecord
<1>9. OneRequestPerSource'
  BY DEF OneRequestPerSource, CloudTypeOK, PendingCalled, WorkMatchesRow, OneOpenPerSource,
       NoneSucceeded
<1>10. QED
  BY <1>1, <1>2, <1>3, <1>4, <1>5, <1>6, <1>7, <1>8, <1>9

(* The process dies, what was written stays.                                *)
LEMMA CloudCrashKeepsDrive ==
    ASSUME CloudInv, DriveInv, ~Late, CloudCrash
    PROVE  DriveInv'
<1> USE CandidateAssumption, CloudAssumption DEF CloudInv, DriveInv, CloudCrash
<1>1. Whereabouts'
  BY DEF Whereabouts, CloudTypeOK
<1>2. PendingCalled'
  BY DEF PendingCalled, AgedDone, RejectedDone, CloudTypeOK, WorkMatchesRow, OnRecord
<1>3. AgedDone'
  BY DEF AgedDone, CloudTypeOK, PendingCalled, WorkMatchesRow
<1>4. RejectedDone'
  BY DEF RejectedDone, CloudTypeOK, WorkMatchesRow, PendingCalled
<1>5. OneOpenPerSource'
  BY DEF OneOpenPerSource, CloudTypeOK, WorkMatchesRow
<1>6. SucceededLeft'
  BY DEF SucceededLeft, CloudTypeOK, Whereabouts, WorkMatchesRow
<1>7. NoneSucceeded'
  BY DEF NoneSucceeded, CloudTypeOK, WorkMatchesRow, SucceededLeft
<1>8. OthersMovedIt'
  BY DEF OthersMovedIt, GivenUp, MovedByOther, Gone, Whereabouts, CloudTypeOK, WorkMatchesRow,
       PendingCalled, AgedDone, RejectedDone, OnRecord
<1>9. OneRequestPerSource'
  BY DEF OneRequestPerSource, CloudTypeOK, PendingCalled, WorkMatchesRow, OneOpenPerSource,
       NoneSucceeded
<1>10. QED
  BY <1>1, <1>2, <1>3, <1>4, <1>5, <1>6, <1>7, <1>8, <1>9

(* Every step of the specification keeps DriveInv.                          *)
LEMMA DriveNextKeeps ==
    ASSUME CloudInv, DriveInv, ~Late, [CloudNext]_cloudVars
    PROVE  DriveInv'
<1>1. ASSUME NEW c \in CloudCands,
             ApplyCloud(c) \/ Recover(c) \/ CloudStep(c) \/ Unmapped(c) \/ CallFails(c) \/ ObserveFails(c)
      PROVE  DriveInv'
  BY <1>1, ApplyCloudKeepsDrive, RecoverKeepsDrive, InspectKeepsDrive, PrepareKeepsDrive,
       SubmitKeepsDrive,
     CallKeepsDrive, AnsweredKeepsDrive, ObserveSourceKeepsDrive, ObserveDestinationKeepsDrive,
     UnmappedKeepsDrive, CallFailsKeepsDrive, ObserveFailsKeepsDrive DEF CloudStep
<1>2. ASSUME NEW c \in CloudCands, CarryOut(c) \/ LoseRequest(c) \/ GraceEnds(c)
      PROVE  DriveInv'
  BY <1>2, CarryOutKeepsDrive, LoseRequestKeepsDrive, GraceEndsKeepsDrive
<1>3. CASE CloudCrash \/ PutOther \/ \E p \in Destinations : ArchiveTakes(p)
  BY <1>3, CloudCrashKeepsDrive, PutOtherKeepsDrive, ArchiveTakesKeepsDrive
<1>4. CASE UNCHANGED cloudVars
  BY <1>4 DEF cloudVars, DriveInv, Whereabouts, PendingCalled, AgedDone, RejectedDone, OneOpenPerSource,
              SucceededLeft, NoneSucceeded, OthersMovedIt, Gone, GivenUp, MovedByOther, OneRequestPerSource
<1>5. QED
  BY <1>1, <1>2, <1>3, <1>4 DEF CloudNext

(* Where the files are and which requests are still under way, as long as   *)
(* CloudDrive is done with a request when its grace period is over.         *)
LEMMA DriveInvHolds == CloudSpec /\ ~Late => []DriveInv
<1>1. CloudInit => DriveInv
  <2> SUFFICES ASSUME CloudInit PROVE DriveInv
    OBVIOUS
  <2> USE CandidateAssumption, CloudAssumption DEF CloudInit
  <2>1. Whereabouts
    BY DEF Whereabouts
  <2>2. PendingCalled /\ AgedDone /\ RejectedDone /\ OneRequestPerSource
    BY DEF PendingCalled, AgedDone, RejectedDone, OneRequestPerSource
  <2>3. OneOpenPerSource /\ SucceededLeft /\ NoneSucceeded
    BY DEF OneOpenPerSource, SucceededLeft, NoneSucceeded
  <2>4. OthersMovedIt
    BY DEF OthersMovedIt, Gone
  <2>5. QED
    BY <2>1, <2>2, <2>3, <2>4 DEF DriveInv
<1>2. ~Late /\ CloudInv /\ DriveInv /\ [CloudNext]_cloudVars => DriveInv'
  BY DriveNextKeeps
<1>3. ~Late => [](~Late)
  OBVIOUS
<1>4. QED
  BY <1>1, <1>2, <1>3, CloudInvHolds, PTL DEF CloudSpec

(* What the operations on record say of the requests made of CloudDrive is  *)
(* so: two moves of one file are not asked for at once, what is reported as *)
(* moved was delivered, and what was given up was not moved by its own      *)
(* request, as long as CloudDrive is done with a request when its grace     *)
(* period is over.                                                          *)
THEOREM CloudStaysAccounted == CloudSpec /\ ~Late => []CloudAccounted
<1>1. DriveInv => GivenUpIsNotDelivered
  <2> SUFFICES ASSUME DriveInv, NEW c \in CloudCands,
                      op[c] \in {"rejected", "unobserved", "unsubmitted"}, DeliveredInCloud(c)
               PROVE  MovedByOther(c)
    BY DEF GivenUpIsNotDelivered, MovedByOther
  <2>1. Gone(c)
    BY CandidateAssumption DEF Gone, DeliveredInCloud
  <2>2. GivenUp(c)
    BY DEF GivenUp
  <2>3. QED
    BY <2>1, <2>2 DEF DriveInv, OthersMovedIt
<1>2. CloudInv /\ DriveInv => CloudAccounted
  BY <1>1 DEF CloudInv, DriveInv, CloudAccounted
<1>3. QED
  BY <1>2, CloudInvHolds, DriveInvHolds, PTL
=============================================================================
