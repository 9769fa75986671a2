------------------------- MODULE AcquisitionLedger -------------------------
(***************************************************************************)
(* The acquisition ledger (monitor/acquisitions.py): one row per AVID, and *)
(* the numbered list of magnets tried for it.  Each operator below is one  *)
(* SQL statement or transaction of AcquisitionRepository, so it is atomic; *)
(* the module's own Next lets any caller issue any of them at any time.    *)
(* It is what the repository promises whoever calls it, and in what order  *)
(* (AcquisitionPipeline has the callers).                                  *)
(***************************************************************************)
EXTENDS Naturals, Sequences

CONSTANTS
    Avids,          \* the titles
    Hashes,         \* info hashes of the magnets a resolver or an operator supplies
    MaxCandidates   \* the most candidates one resolve pass records (intake.MAX_CANDIDATES)

ASSUME MaxCandidatesAssumption == MaxCandidates \in Nat \ {0}

VARIABLES
    acq,            \* the archive_acquisitions row of each AVID
    attempts        \* its archive_magnet_attempts rows, attempt_no being the index

ledgerVars == <<acq, attempts>>
----------------------------------------------------------------------------
(* A row that does not exist is in state "absent".  Its timer is            *)
(* next_action_at: NULL, in the future, or reached.                         *)
AcqStates == {"absent", "discovered", "downloading", "archived",
              "resolve_failed", "exhausted", "needs_attention", "ignored"}

ActiveStates      == {"discovered", "downloading"}
ReplaceableStates == {"archived", "ignored", "resolve_failed", "exhausted"}
RetryableStates   == {"resolve_failed", "exhausted"}
DueStates         == RetryableStates \union {"discovered"}

Timers == {"none", "armed", "due"}

AcqEdges ==
    [ absent          |-> {},
      discovered      |-> {"downloading", "resolve_failed", "needs_attention",
                           "archived", "ignored"},
      downloading     |-> {"downloading", "archived", "exhausted",
                           "needs_attention", "ignored"},
      resolve_failed  |-> {"downloading", "resolve_failed", "exhausted",
                           "needs_attention", "archived", "ignored"},
      exhausted       |-> {"downloading", "resolve_failed", "needs_attention",
                           "archived", "ignored"},
      needs_attention |-> {"downloading", "archived", "exhausted", "ignored"},
      archived        |-> {},
      ignored         |-> {"discovered"} ]

AttemptStates == {"pending", "submitted", "downloading", "finished",
                  "archiving", "archived", "junk", "error", "stalled", "lost"}

InFlightStates == {"submitted", "downloading"}
LiveStates     == InFlightStates \union {"finished", "archiving"}
FinalStates    == {"archived", "junk", "error", "stalled", "lost"}

AttemptEdges ==
    [ pending     |-> {"submitted", "error"},
      submitted   |-> {"downloading", "finished", "error", "stalled", "lost"},
      downloading |-> {"downloading", "finished", "error", "stalled", "lost"},
      finished    |-> {"archiving", "lost"},
      archiving   |-> {"archived", "junk", "finished"},
      archived    |-> {},
      junk        |-> {},
      error       |-> {},
      stalled     |-> {},
      lost        |-> {} ]
----------------------------------------------------------------------------
NoRow == [state |-> "absent", timer |-> "none", replacing |-> FALSE, floor |-> 0]

Attempt == [hash : Hashes, state : AttemptStates]

(* replacing: replace_paths is not empty; floor: replace_after_attempt,     *)
(* which every reader takes as 0 when it is NULL.                           *)
Row == [state : AcqStates, timer : Timers, replacing : BOOLEAN, floor : Nat]

LedgerTypeOK ==
    /\ acq \in [Avids -> Row]
    /\ attempts \in [Avids -> Seq(Attempt)]

LedgerInit ==
    /\ acq = [a \in Avids |-> NoRow]
    /\ attempts = [a \in Avids |-> << >>]
----------------------------------------------------------------------------
(* What the queries read.                                                   *)

Tried(a) == {attempts[a][i].hash : i \in DOMAIN attempts[a]}

LiveAt(a, i) == attempts[a][i].state \in LiveStates

HashLive(h) ==
    \E a \in Avids : \E i \in DOMAIN attempts[a] :
        attempts[a][i].hash = h /\ LiveAt(a, i)

(* The pending attempts claim_next_pending considers: those whose hash no   *)
(* live attempt of any AVID holds.                                          *)
Claimable(a) ==
    {i \in DOMAIN attempts[a] :
        attempts[a][i].state = "pending" /\ ~HashLive(attempts[a][i].hash)}

CandidateLists == UNION {[1..k -> Hashes] : k \in 1..MaxCandidates}
----------------------------------------------------------------------------
(* The repository's operations.                                             *)

SetAttempt(a, n, s) == attempts' = [attempts EXCEPT ![a][n].state = s]

(* discover: the INSERT, for an AVID with no row yet.                       *)
Insert(a, timer) ==
    /\ acq[a].state = "absent"
    /\ acq' = [acq EXCEPT ![a] = [state |-> "discovered", timer |-> timer,
                                  replacing |-> FALSE, floor |-> 0]]
    /\ UNCHANGED attempts

(* discover: the UPDATE that re-arms the timer of an accepted row.  It      *)
(* names the row only, not the state it was read in.                        *)
Rearm(a, timer) ==
    /\ acq[a].state # "absent"
    /\ acq' = [acq EXCEPT ![a].timer = timer]
    /\ UNCHANGED attempts

(* begin_replacement: one transaction holding the row lock.                 *)
BeginReplacement(a) ==
    /\ acq[a].state \in ReplaceableStates \union {"absent"}
    /\ acq' = [acq EXCEPT ![a] = [state |-> "discovered", timer |-> "none",
                                  replacing |-> TRUE, floor |-> Len(attempts[a])]]
    /\ UNCHANGED attempts

(* Mutant: the write does not repeat the expected state.                    *)
TransitionBlind(a, expected, target, timer) ==
    /\ target \in AcqEdges[expected]
    /\ acq' = [acq EXCEPT ![a] = [@ EXCEPT !.state = target, !.timer = timer]]
    /\ UNCHANGED attempts

(* Mutant: archiving ends the replacement and keeps its floor.              *)
TransitionKeepingFloor(a, expected, target, timer) ==
    /\ target \in AcqEdges[expected]
    /\ acq[a].state = expected
    /\ acq' = [acq EXCEPT ![a] = [@ EXCEPT !.state = target, !.timer = timer,
                                           !.replacing = @ /\ target # "archived"]]
    /\ UNCHANGED attempts

(* transition: compare-and-set one row along an edge.                       *)
Transition(a, expected, target, timer) ==
    /\ target \in AcqEdges[expected]
    /\ acq[a].state = expected
    /\ acq' = [acq EXCEPT ![a] =
                 [state     |-> target,
                  timer     |-> timer,
                  replacing |-> @.replacing /\ target # "archived",
                  floor     |-> IF target = "archived" THEN 0 ELSE @.floor]]
    /\ UNCHANGED attempts

(* add_attempts: "fresh" is what is left of the candidates once the hashes  *)
(* this AVID ever tried, and repeats, are skipped.                          *)
AddAttempts(a, fresh) ==
    /\ acq[a].state # "absent"
    /\ \A i \in DOMAIN fresh : fresh[i] \notin Tried(a)
    /\ \A i, j \in DOMAIN fresh : fresh[i] = fresh[j] => i = j
    /\ attempts' = [attempts EXCEPT ![a] =
                      @ \o [i \in DOMAIN fresh |-> [hash |-> fresh[i], state |-> "pending"]]]
    /\ UNCHANGED acq

(* claim_next_pending: the lowest claimable attempt becomes submitted.      *)
ClaimNextPending(a, n) ==
    /\ n \in Claimable(a)
    /\ \A m \in Claimable(a) : n <= m
    /\ SetAttempt(a, n, "submitted")
    /\ UNCHANGED acq

(* Mutant: no unique index on live hashes.                                  *)
ClaimAttemptUnindexed(a, n) ==
    /\ n \in DOMAIN attempts[a]
    /\ attempts[a][n].state = "pending"
    /\ SetAttempt(a, n, "submitted")
    /\ UNCHANGED acq

(* claim_attempt: one chosen pending attempt; the unique index on live      *)
(* hashes refuses it while another attempt holds the hash.                  *)
ClaimAttempt(a, n) ==
    /\ n \in Claimable(a)
    /\ SetAttempt(a, n, "submitted")
    /\ UNCHANGED acq

(* transition_attempt: compare-and-set one attempt along an edge.  Only the *)
(* claims take an attempt out of pending.                                   *)
TransitionAttempt(a, n, expected, target) ==
    /\ n \in DOMAIN attempts[a]
    /\ expected # "pending"
    /\ target \in AttemptEdges[expected]
    /\ attempts[a][n].state = expected
    /\ SetAttempt(a, n, target)
    /\ UNCHANGED acq

(* record_progress: an in-flight attempt that moved is downloading.         *)
RecordProgress(a, n) ==
    /\ n \in DOMAIN attempts[a]
    /\ attempts[a][n].state \in InFlightStates
    /\ SetAttempt(a, n, "downloading")
    /\ UNCHANGED acq

(* Time reaches next_action_at.                                             *)
TimerExpires(a) ==
    /\ acq[a].timer = "armed"
    /\ acq' = [acq EXCEPT ![a].timer = "due"]
    /\ UNCHANGED attempts
----------------------------------------------------------------------------
RowStep(a) ==
    \/ \E timer \in Timers : Insert(a, timer) \/ Rearm(a, timer)
    \/ BeginReplacement(a)
    \/ \E expected, target \in AcqStates, timer \in Timers :
          Transition(a, expected, target, timer)
    \/ TimerExpires(a)

AttemptStep(a) ==
    \/ \E fresh \in CandidateLists : AddAttempts(a, fresh)
    \/ \E n \in DOMAIN attempts[a] :
          \/ ClaimNextPending(a, n)
          \/ ClaimAttempt(a, n)
          \/ \E expected, target \in AttemptStates : TransitionAttempt(a, n, expected, target)
          \/ RecordProgress(a, n)

LedgerNext == \E a \in Avids : RowStep(a) \/ AttemptStep(a)

LedgerSpec == LedgerInit /\ [][LedgerNext]_ledgerVars
----------------------------------------------------------------------------
(* At most one attempt in the whole ledger is live for an info hash, so the *)
(* tracker's join on the hash never mixes up two AVIDs: the partial unique  *)
(* index, kept by both claims and by attempts only becoming live in one.    *)
LiveHashUnique ==
    \A a, b \in Avids : \A i \in DOMAIN attempts[a], j \in DOMAIN attempts[b] :
        /\ LiveAt(a, i)
        /\ LiveAt(b, j)
        /\ attempts[a][i].hash = attempts[b][j].hash
        => a = b /\ i = j

(* A hash is never tried twice for an AVID, over however many resolve       *)
(* passes and replacements: add_attempts skips hashes already on the row.   *)
HashTriedOnce ==
    \A a \in Avids : \A i, j \in DOMAIN attempts[a] :
        attempts[a][i].hash = attempts[a][j].hash => i = j

(* Together: a hash stands for one attempt of a title and for one download  *)
(* at a time, so the tracker's join and the count of tried magnets agree.   *)
HashesAccounted == HashTriedOnce /\ LiveHashUnique

(* An attempt held against a replacement's cap, one above the floor, always *)
(* is one recorded after the replacement began: the floor never runs ahead  *)
(* of the attempts there are, and is set only while a replacement is on.    *)
FloorWithinHistory ==
    \A a \in Avids :
        /\ acq[a].floor <= Len(attempts[a])
        /\ acq[a].floor > 0 => acq[a].replacing

(* The rows and attempts are well formed and their floor is right.          *)
RowsAccounted == LedgerTypeOK /\ FloorWithinHistory

(* What the ledger says of titles and of magnets agrees, whoever writes it. *)
LedgerAccounted == HashesAccounted /\ RowsAccounted

(* "The history of what was tried for an AVID is never rewritten": attempts *)
(* are neither removed nor renumbered, and a concluded one stays concluded. *)
AttemptHistoryKept ==
    [][\A a \in Avids : \A i \in DOMAIN attempts[a] :
          /\ i \in DOMAIN attempts'[a]
          /\ attempts'[a][i].hash = attempts[a][i].hash
          /\ attempts[a][i].state \in FinalStates =>
                attempts'[a][i].state = attempts[a][i].state]_ledgerVars

(* An archived title leaves that state in one way, a replacement that knows *)
(* which attempts came before it (the acquisition edges out of ARCHIVED are *)
(* empty; begin_replacement does not go through them).                      *)
ArchivedReopensOnlyToReplace ==
    [][\A a \in Avids :
          acq[a].state = "archived" /\ acq'[a].state # "archived" =>
              /\ acq'[a].state = "discovered"
              /\ acq'[a].replacing
              /\ acq'[a].floor = Len(attempts[a])]_ledgerVars

(* No step rewrites what a title has been through.                          *)
PastKept == AttemptHistoryKept /\ ArchivedReopensOnlyToReplace
============================================================================
