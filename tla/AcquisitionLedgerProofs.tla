---------------------- MODULE AcquisitionLedgerProofs ----------------------
(***************************************************************************)
(* What the acquisition ledger keeps for any titles, any hashes and any    *)
(* number of candidates per resolve pass, whoever calls its operations.    *)
(*                                                                         *)
(* Two lemmas say what a write to attempts does to every attempt there is  *)
(* (SetAttemptEffect, AddAttemptsEffect); each invariant is then carried   *)
(* through one operation at a time.                                        *)
(***************************************************************************)
EXTENDS AcquisitionLedger, TLAPS

----------------------------------------------------------------------------
(* What the operations do to the attempts.                                  *)

(* The state machines' targets are states, a concluded attempt has no edge, *)
(* and no edge other than a claim makes an attempt live.                    *)
LEMMA EdgesStayInStates ==
    /\ \A s \in AcqStates : AcqEdges[s] \subseteq AcqStates
    /\ \A s \in AttemptStates : AttemptEdges[s] \subseteq AttemptStates
    /\ \A s \in FinalStates : AttemptEdges[s] = {}
    /\ \A s \in AttemptStates \ {"pending"} :
          \A t \in AttemptEdges[s] : t \in LiveStates => s \in LiveStates
    /\ AcqEdges["archived"] = {}
    /\ LiveStates \subseteq AttemptStates
BY DEF AcqStates, AcqEdges, AttemptStates, AttemptEdges, FinalStates, LiveStates,
       InFlightStates

(* One attempt changes its state, and nothing else about it or any other.   *)
LEMMA SetAttemptEffect ==
    ASSUME LedgerTypeOK, NEW a \in Avids, NEW n \in DOMAIN attempts[a],
           NEW s \in AttemptStates, SetAttempt(a, n, s)
    PROVE  /\ attempts' \in [Avids -> Seq(Attempt)]
           /\ \A b \in Avids :
                 /\ DOMAIN attempts'[b] = DOMAIN attempts[b]
                 /\ Len(attempts'[b]) = Len(attempts[b])
                 /\ \A i \in DOMAIN attempts[b] :
                       /\ attempts'[b][i].hash = attempts[b][i].hash
                       /\ attempts'[b][i].state =
                             IF b = a /\ i = n THEN s ELSE attempts[b][i].state
<1>1. /\ attempts \in [Avids -> Seq(Attempt)]
      /\ attempts[a] \in Seq(Attempt)
      /\ attempts[a][n] \in Attempt
  BY DEF LedgerTypeOK
<1> DEFINE one  == [attempts[a][n] EXCEPT !.state = s]
           list == [attempts[a] EXCEPT ![n] = one]
<1>2. attempts' = [attempts EXCEPT ![a] = list]
  BY DEF SetAttempt
<1>3. one \in Attempt /\ one.hash = attempts[a][n].hash /\ one.state = s
  BY <1>1 DEF Attempt
<1>4. /\ list \in Seq(Attempt)
      /\ DOMAIN list = DOMAIN attempts[a]
      /\ Len(list) = Len(attempts[a])
      /\ list[n] = one
      /\ \A i \in DOMAIN attempts[a] : i # n => list[i] = attempts[a][i]
  BY <1>1, <1>3
<1> HIDE DEF one, list
<1>5. /\ attempts' \in [Avids -> Seq(Attempt)]
      /\ attempts'[a] = list
      /\ \A b \in Avids : b # a => attempts'[b] = attempts[b]
  BY <1>1, <1>2, <1>4
<1>6. QED
  BY <1>3, <1>4, <1>5

(* Attempts are appended, pending, under hashes the title had not tried.    *)
LEMMA AddAttemptsEffect ==
    ASSUME LedgerTypeOK, NEW a \in Avids, NEW fresh \in CandidateLists,
           AddAttempts(a, fresh)
    PROVE  /\ attempts' \in [Avids -> Seq(Attempt)]
           /\ \A b \in Avids \ {a} : attempts'[b] = attempts[b]
           /\ Len(attempts'[a]) >= Len(attempts[a])
           /\ \A i \in DOMAIN attempts[a] :
                 i \in DOMAIN attempts'[a] /\ attempts'[a][i] = attempts[a][i]
           /\ \A i \in DOMAIN attempts'[a] : i \notin DOMAIN attempts[a] =>
                 /\ attempts'[a][i].state = "pending"
                 /\ \A j \in DOMAIN attempts'[a] :
                       attempts'[a][j].hash = attempts'[a][i].hash => j = i
<1> DEFINE new == [i \in DOMAIN fresh |-> [hash |-> fresh[i], state |-> "pending"]]
           old == attempts[a]
<1>1. attempts \in [Avids -> Seq(Attempt)] /\ old \in Seq(Attempt)
  BY DEF LedgerTypeOK
<1>2. PICK k \in 1..MaxCandidates : fresh \in [1..k -> Hashes]
  BY DEF CandidateLists
<1>3. k \in Nat
  BY <1>2, MaxCandidatesAssumption
<1>4. new \in Seq(Attempt) /\ Len(new) = k /\ DOMAIN new = 1..k
  <2>1. new \in [1..k -> Attempt]
    BY <1>2 DEF Attempt, AttemptStates
  <2>2. QED
    BY <2>1, <1>3
<1>5. /\ attempts' = [attempts EXCEPT ![a] = old \o new]
      /\ \A i \in 1..k : new[i].hash = fresh[i] /\ new[i].state = "pending"
  BY <1>2, <1>4 DEF AddAttempts
<1>6. /\ \A i \in 1..k : \A j \in DOMAIN old : old[j].hash # fresh[i]
      /\ \A i, j \in 1..k : fresh[i] = fresh[j] => i = j
  BY <1>2 DEF AddAttempts, Tried
<1> HIDE DEF new
<1>7. attempts' \in [Avids -> Seq(Attempt)] /\ attempts'[a] = old \o new
  BY <1>1, <1>4, <1>5
<1>8. /\ Len(old \o new) = Len(old) + k
      /\ DOMAIN (old \o new) = 1..(Len(old) + k)
      /\ DOMAIN old = 1..Len(old)
      /\ \A i \in 1..(Len(old) + k) :
            (old \o new)[i] = IF i <= Len(old) THEN old[i] ELSE new[i - Len(old)]
  BY <1>1, <1>3, <1>4
<1>9. \A i \in 1..(Len(old) + k) : i \notin DOMAIN old =>
         i - Len(old) \in 1..k /\ (old \o new)[i] = new[i - Len(old)]
  BY <1>1, <1>3, <1>8
<1>10. ASSUME NEW i \in 1..(Len(old) + k), i \notin DOMAIN old,
              NEW j \in 1..(Len(old) + k), (old \o new)[j].hash = (old \o new)[i].hash
       PROVE  j = i
  <2>1. i - Len(old) \in 1..k /\ (old \o new)[i].hash = fresh[i - Len(old)]
    BY <1>5, <1>9, <1>10
  <2>2. CASE j \in DOMAIN old
    BY <2>1, <2>2, <1>6, <1>8, <1>10
  <2>3. CASE j \notin DOMAIN old
    <3>1. j - Len(old) \in 1..k /\ (old \o new)[j].hash = fresh[j - Len(old)]
      BY <1>5, <1>9, <2>3
    <3>2. j - Len(old) = i - Len(old)
      BY <1>6, <1>10, <2>1, <3>1
    <3>3. QED
      BY <1>1, <1>3, <3>2
  <2>4. QED
    BY <2>2, <2>3
<1>11. \A b \in Avids \ {a} : attempts'[b] = attempts[b]
  BY <1>1, <1>5
<1>12. QED
  BY <1>1, <1>3, <1>5, <1>7, <1>8, <1>9, <1>10, <1>11

(* The operations on one attempt there is: a claim only takes a hash nobody *)
(* live holds, and none of them touches a concluded attempt.                *)
AttemptMove(a, n) ==
    \/ ClaimNextPending(a, n)
    \/ ClaimAttempt(a, n)
    \/ \E expected, target \in AttemptStates : TransitionAttempt(a, n, expected, target)
    \/ RecordProgress(a, n)

LEMMA AttemptMoveEffect ==
    ASSUME LedgerTypeOK, NEW a \in Avids, NEW n \in DOMAIN attempts[a], AttemptMove(a, n)
    PROVE  /\ UNCHANGED acq
           /\ attempts[a][n].state \notin FinalStates
           /\ \E s \in AttemptStates :
                 /\ SetAttempt(a, n, s)
                 /\ s \in LiveStates => LiveAt(a, n) \/ ~HashLive(attempts[a][n].hash)
<1>1. CASE n \in Claimable(a) /\ SetAttempt(a, n, "submitted") /\ UNCHANGED acq
  BY <1>1 DEF Claimable, AttemptStates, FinalStates
<1>2. CASE ClaimNextPending(a, n)
  BY <1>1, <1>2 DEF ClaimNextPending
<1>3. CASE ClaimAttempt(a, n)
  BY <1>1, <1>3 DEF ClaimAttempt
<1>4. ASSUME NEW expected \in AttemptStates, NEW target \in AttemptStates,
             TransitionAttempt(a, n, expected, target)
      PROVE  /\ UNCHANGED acq
             /\ attempts[a][n].state \notin FinalStates
             /\ SetAttempt(a, n, target)
             /\ target \in LiveStates => LiveAt(a, n)
  <2>1. /\ expected \in AttemptStates \ {"pending"}
        /\ target \in AttemptEdges[expected]
        /\ attempts[a][n].state = expected
    BY <1>4 DEF TransitionAttempt
  <2>2. expected \notin FinalStates /\ (target \in LiveStates => expected \in LiveStates)
    BY <2>1, EdgesStayInStates
  <2>3. QED
    BY <1>4, <2>1, <2>2 DEF TransitionAttempt, LiveAt
<1>5. CASE RecordProgress(a, n)
  <2>1. /\ attempts[a][n].state \in InFlightStates
        /\ SetAttempt(a, n, "downloading")
        /\ UNCHANGED acq
    BY <1>5 DEF RecordProgress
  <2>2. LiveAt(a, n) /\ attempts[a][n].state \notin FinalStates
    BY <2>1 DEF LiveAt, LiveStates, InFlightStates, FinalStates
  <2>3. QED
    BY <2>1, <2>2 DEF AttemptStates
<1>6. QED
  BY <1>2, <1>3, <1>4, <1>5 DEF AttemptMove

(* FloorWithinHistory of one row, against the attempts of its title.        *)
FloorOK(row, len) == row.floor <= len /\ (row.floor > 0 => row.replacing)

(* One row changes.                                                         *)
LEMMA RowWrite ==
    ASSUME LedgerTypeOK, NEW a \in Avids, NEW row \in Row, acq' = [acq EXCEPT ![a] = row]
    PROVE  /\ acq' \in [Avids -> Row]
           /\ acq'[a] = row
           /\ \A b \in Avids \ {a} : acq'[b] = acq[b]
BY DEF LedgerTypeOK

(* The operations on a row leave the attempts alone.  The floor is only     *)
(* raised by a replacement, to the attempts there are, and an archived row  *)
(* reopens in no other way.                                                 *)
LEMMA RowStepEffect ==
    ASSUME LedgerTypeOK, NEW a \in Avids, RowStep(a)
    PROVE  /\ UNCHANGED attempts
           /\ acq' \in [Avids -> Row]
           /\ \A b \in Avids \ {a} : acq'[b] = acq[b]
           /\ FloorOK(acq[a], Len(attempts[a])) => FloorOK(acq'[a], Len(attempts[a]))
           /\ acq[a].state = "archived" /\ acq'[a].state # "archived" =>
                 /\ acq'[a].state = "discovered"
                 /\ acq'[a].replacing
                 /\ acq'[a].floor = Len(attempts[a])
<1>1. acq \in [Avids -> Row] /\ acq[a] \in Row /\ Len(attempts[a]) \in Nat
  BY DEF LedgerTypeOK
<1>2. ASSUME NEW timer \in Timers, Insert(a, timer)
      PROVE  /\ UNCHANGED attempts
             /\ acq[a].state = "absent"
             /\ acq' \in [Avids -> Row]
             /\ acq'[a].floor = 0
             /\ \A b \in Avids \ {a} : acq'[b] = acq[b]
  <2> DEFINE row == [state |-> "discovered", timer |-> timer,
                     replacing |-> FALSE, floor |-> 0]
  <2>1. row \in Row /\ row.floor = 0
    BY DEF Row, AcqStates
  <2>2. acq' = [acq EXCEPT ![a] = row] /\ acq[a].state = "absent" /\ UNCHANGED attempts
    BY <1>2 DEF Insert
  <2> HIDE DEF row
  <2>3. QED
    BY <2>1, <2>2, RowWrite
<1>3. CASE \E timer \in Timers : Insert(a, timer)
  BY <1>1, <1>2, <1>3 DEF FloorOK
<1>4. CASE \E timer \in Timers : Rearm(a, timer)
  BY <1>1, <1>4 DEF Rearm, Row, FloorOK
<1>5. CASE BeginReplacement(a)
  BY <1>1, <1>5 DEF BeginReplacement, Row, AcqStates, Timers, FloorOK
<1>6. ASSUME NEW expected \in AcqStates, NEW target \in AcqStates, NEW timer \in Timers,
             Transition(a, expected, target, timer)
      PROVE  /\ UNCHANGED attempts
             /\ acq[a].state # "archived"
             /\ acq' \in [Avids -> Row]
             /\ FloorOK(acq[a], Len(attempts[a])) => FloorOK(acq'[a], Len(attempts[a]))
             /\ \A b \in Avids \ {a} : acq'[b] = acq[b]
  <2> DEFINE row == [state     |-> target,
                     timer     |-> timer,
                     replacing |-> acq[a].replacing /\ target # "archived",
                     floor     |-> IF target = "archived" THEN 0 ELSE acq[a].floor]
  <2>1. /\ UNCHANGED attempts
        /\ acq[a].state # "archived"
        /\ acq' = [acq EXCEPT ![a] = row]
    BY <1>6, EdgesStayInStates DEF Transition
  <2>2. row \in Row
    BY <1>1 DEF Row
  <2>3. CASE target = "archived"
    <3>1. row.floor = 0
      BY <2>3
    <3> HIDE DEF row
    <3>2. QED
      BY <1>1, <2>1, <2>2, <3>1, RowWrite DEF FloorOK
  <2>4. CASE target # "archived"
    <3>1. row.floor = acq[a].floor /\ (acq[a].replacing => row.replacing)
      BY <2>4
    <3> HIDE DEF row
    <3>2. QED
      BY <1>1, <2>1, <2>2, <3>1, RowWrite DEF FloorOK
  <2>5. QED
    BY <2>3, <2>4
<1>7. CASE \E expected, target \in AcqStates, timer \in Timers :
              Transition(a, expected, target, timer)
  BY <1>6, <1>7
<1>8. CASE TimerExpires(a)
  BY <1>1, <1>8 DEF TimerExpires, Row, Timers, FloorOK
<1>9. QED
  BY <1>3, <1>4, <1>5, <1>7, <1>8 DEF RowStep

(* Every step is one of these, or changes nothing.                          *)
LEMMA StepCases ==
    ASSUME [LedgerNext]_ledgerVars
    PROVE  \/ \E a \in Avids : RowStep(a)
           \/ \E a \in Avids : \E fresh \in CandidateLists : AddAttempts(a, fresh)
           \/ \E a \in Avids : \E n \in DOMAIN attempts[a] : AttemptMove(a, n)
           \/ UNCHANGED ledgerVars
BY DEF LedgerNext, AttemptStep, AttemptMove
----------------------------------------------------------------------------
(* The ledger starts empty.                                                 *)
LEMMA InitialLedger ==
    ASSUME LedgerInit
    PROVE  LedgerTypeOK /\ HashTriedOnce /\ FloorWithinHistory /\ LiveHashUnique
<1>1. \A a \in Avids : acq[a] = NoRow /\ attempts[a] = << >>
  BY DEF LedgerInit
<1>2. LedgerTypeOK
  BY DEF LedgerInit, LedgerTypeOK, NoRow, Row, AcqStates, Timers
<1>3. HashTriedOnce /\ FloorWithinHistory /\ LiveHashUnique
  BY <1>1 DEF HashTriedOnce, FloorWithinHistory, LiveHashUnique, NoRow
<1>4. QED
  BY <1>2, <1>3

(* Every operation writes rows and attempts of the kind the tables hold.    *)
LEMMA TypeStep ==
    ASSUME LedgerTypeOK, [LedgerNext]_ledgerVars
    PROVE  LedgerTypeOK'
<1>1. CASE \E a \in Avids : RowStep(a)
  BY <1>1, RowStepEffect DEF LedgerTypeOK
<1>2. CASE \E a \in Avids : \E fresh \in CandidateLists : AddAttempts(a, fresh)
  <2>1. attempts' \in [Avids -> Seq(Attempt)] /\ UNCHANGED acq
    BY <1>2, AddAttemptsEffect DEF AddAttempts
  <2>2. QED
    BY <2>1 DEF LedgerTypeOK
<1>3. CASE \E a \in Avids : \E n \in DOMAIN attempts[a] : AttemptMove(a, n)
  <2>1. attempts' \in [Avids -> Seq(Attempt)] /\ UNCHANGED acq
    BY <1>3, AttemptMoveEffect, SetAttemptEffect
  <2>2. QED
    BY <2>1 DEF LedgerTypeOK
<1>4. CASE UNCHANGED ledgerVars
  BY <1>4 DEF LedgerTypeOK, ledgerVars
<1>5. QED
  BY <1>1, <1>2, <1>3, <1>4, StepCases

(* The rows and attempts of every reachable ledger are well formed: states  *)
(* are states, and an attempt never loses its hash.                         *)
THEOREM LedgerTypeCorrect == LedgerSpec => []LedgerTypeOK
<1>1. LedgerInit => LedgerTypeOK
  BY InitialLedger
<1>2. LedgerTypeOK /\ [LedgerNext]_ledgerVars => LedgerTypeOK'
  BY TypeStep
<1>3. QED
  BY <1>1, <1>2, PTL DEF LedgerSpec
----------------------------------------------------------------------------
(* Only add_attempts adds a hash to a title, and only one it never tried.   *)
LEMMA TriedOnceStep ==
    ASSUME LedgerTypeOK, HashTriedOnce, [LedgerNext]_ledgerVars
    PROVE  HashTriedOnce'
<1>1. CASE \E a \in Avids : RowStep(a)
  BY <1>1, RowStepEffect DEF HashTriedOnce
<1>2. ASSUME NEW a \in Avids, NEW fresh \in CandidateLists, AddAttempts(a, fresh)
      PROVE  HashTriedOnce'
  <2> SUFFICES ASSUME NEW b \in Avids,
                      NEW i \in DOMAIN attempts'[b], NEW j \in DOMAIN attempts'[b],
                      attempts'[b][i].hash = attempts'[b][j].hash
               PROVE  i = j
    BY DEF HashTriedOnce
  <2>1. CASE b # a
    BY <1>2, <2>1, AddAttemptsEffect DEF HashTriedOnce
  <2>2. CASE b = a /\ i \in DOMAIN attempts[a] /\ j \in DOMAIN attempts[a]
    BY <1>2, <2>2, AddAttemptsEffect DEF HashTriedOnce
  <2>3. CASE b = a /\ (i \notin DOMAIN attempts[a] \/ j \notin DOMAIN attempts[a])
    BY <1>2, <2>3, AddAttemptsEffect
  <2>4. QED
    BY <2>1, <2>2, <2>3
<1>3. CASE \E a \in Avids : \E n \in DOMAIN attempts[a] : AttemptMove(a, n)
  BY <1>3, AttemptMoveEffect, SetAttemptEffect DEF HashTriedOnce
<1>4. CASE UNCHANGED ledgerVars
  BY <1>4 DEF HashTriedOnce, ledgerVars
<1>5. QED
  BY <1>1, <1>2, <1>3, <1>4, StepCases

(* add_attempts never records a hash twice for a title: over every resolve  *)
(* pass and replacement, a magnet is tried at most once.                    *)
THEOREM TriedOnce == LedgerSpec => []HashTriedOnce
<1>1. LedgerInit => LedgerTypeOK /\ HashTriedOnce
  BY InitialLedger
<1>2. LedgerTypeOK /\ HashTriedOnce /\ [LedgerNext]_ledgerVars
         => LedgerTypeOK' /\ HashTriedOnce'
  BY TypeStep, TriedOnceStep
<1>3. QED
  BY <1>1, <1>2, PTL DEF LedgerSpec
----------------------------------------------------------------------------
(* The floor is set to the attempts there are, which are never fewer after. *)
LEMMA FloorStep ==
    ASSUME LedgerTypeOK, FloorWithinHistory, [LedgerNext]_ledgerVars
    PROVE  FloorWithinHistory'
<1>1. CASE \E a \in Avids : RowStep(a)
  BY <1>1, RowStepEffect DEF FloorWithinHistory, FloorOK
<1>2. CASE \E a \in Avids : \E fresh \in CandidateLists : AddAttempts(a, fresh)
  <2>1. \A b \in Avids : acq[b].floor \in Nat /\ Len(attempts[b]) \in Nat
    BY DEF LedgerTypeOK, Row
  <2>2. UNCHANGED acq
    BY <1>2 DEF AddAttempts
  <2>3. \A b \in Avids : Len(attempts'[b]) \in Nat /\ Len(attempts'[b]) >= Len(attempts[b])
    BY <1>2, <2>1, AddAttemptsEffect
  <2>4. QED
    BY <2>1, <2>2, <2>3 DEF FloorWithinHistory
<1>3. CASE \E a \in Avids : \E n \in DOMAIN attempts[a] : AttemptMove(a, n)
  BY <1>3, AttemptMoveEffect, SetAttemptEffect DEF FloorWithinHistory
<1>4. CASE UNCHANGED ledgerVars
  BY <1>4 DEF FloorWithinHistory, ledgerVars
<1>5. QED
  BY <1>1, <1>2, <1>3, <1>4, StepCases

(* replace_after_attempt always names attempts that exist, and only while a *)
(* replacement is on: what counts against its cap was made for it.          *)
THEOREM FloorKept == LedgerSpec => []FloorWithinHistory
<1>1. LedgerInit => LedgerTypeOK /\ FloorWithinHistory
  BY InitialLedger
<1>2. LedgerTypeOK /\ FloorWithinHistory /\ [LedgerNext]_ledgerVars
         => LedgerTypeOK' /\ FloorWithinHistory'
  BY TypeStep, FloorStep
<1>3. QED
  BY <1>1, <1>2, PTL DEF LedgerSpec
----------------------------------------------------------------------------
(* An attempt becomes live in a claim only, and a claim needs its hash free *)
(* in the whole ledger.                                                     *)
LEMMA LiveHashStep ==
    ASSUME LedgerTypeOK, LiveHashUnique, [LedgerNext]_ledgerVars
    PROVE  LiveHashUnique'
<1>1. CASE \E a \in Avids : RowStep(a)
  BY <1>1, RowStepEffect DEF LiveHashUnique, LiveAt
<1>2. ASSUME NEW a \in Avids, NEW fresh \in CandidateLists, AddAttempts(a, fresh)
      PROVE  LiveHashUnique'
  <2>1. \A b \in Avids : \A i \in DOMAIN attempts'[b] : LiveAt(b, i)' =>
           /\ i \in DOMAIN attempts[b]
           /\ attempts'[b][i] = attempts[b][i]
    <3> SUFFICES ASSUME NEW b \in Avids, NEW i \in DOMAIN attempts'[b], LiveAt(b, i)'
                 PROVE  i \in DOMAIN attempts[b] /\ attempts'[b][i] = attempts[b][i]
      OBVIOUS
    <3>1. CASE b # a
      BY <1>2, <3>1, AddAttemptsEffect
    <3>2. CASE b = a
      BY <1>2, <3>2, AddAttemptsEffect DEF LiveAt, LiveStates, InFlightStates
    <3>3. QED
      BY <3>1, <3>2
  <2>2. QED
    BY <2>1 DEF LiveHashUnique, LiveAt
<1>3. ASSUME NEW a \in Avids, NEW n \in DOMAIN attempts[a], AttemptMove(a, n)
      PROVE  LiveHashUnique'
  <2>1. PICK s \in AttemptStates :
           /\ SetAttempt(a, n, s)
           /\ s \in LiveStates => LiveAt(a, n) \/ ~HashLive(attempts[a][n].hash)
    BY <1>3, AttemptMoveEffect
  <2>2. \A b \in Avids :
           /\ DOMAIN attempts'[b] = DOMAIN attempts[b]
           /\ \A i \in DOMAIN attempts[b] :
                 /\ attempts'[b][i].hash = attempts[b][i].hash
                 /\ attempts'[b][i].state = IF b = a /\ i = n THEN s ELSE attempts[b][i].state
    BY <2>1, SetAttemptEffect
  <2>3. CASE s \in LiveStates => LiveAt(a, n)
    <3>1. \A b \in Avids : \A i \in DOMAIN attempts[b] : LiveAt(b, i)' => LiveAt(b, i)
      BY <2>2, <2>3 DEF LiveAt
    <3>2. QED
      BY <2>2, <3>1 DEF LiveHashUnique
  <2>4. CASE ~HashLive(attempts[a][n].hash)
    <3>1. \A b \in Avids : \A i \in DOMAIN attempts[b] :
             attempts[b][i].hash = attempts[a][n].hash => ~LiveAt(b, i)
      BY <2>4 DEF HashLive
    <3>2. \A b \in Avids : \A i \in DOMAIN attempts[b] :
             LiveAt(b, i)' => LiveAt(b, i) \/ (b = a /\ i = n)
      BY <2>2 DEF LiveAt
    <3>3. QED
      BY <2>2, <3>1, <3>2 DEF LiveHashUnique
  <2>5. QED
    BY <2>1, <2>3, <2>4
<1>4. CASE UNCHANGED ledgerVars
  BY <1>4 DEF LiveHashUnique, LiveAt, ledgerVars
<1>5. QED
  BY <1>1, <1>2, <1>3, <1>4, StepCases

(* At most one attempt in the ledger is live for an info hash, however many *)
(* titles share magnets and whoever claims them: the tracker's join on the  *)
(* hash finds the attempt the task belongs to.                              *)
THEOREM OneLivePerHash == LedgerSpec => []LiveHashUnique
<1>1. LedgerInit => LedgerTypeOK /\ LiveHashUnique
  BY InitialLedger
<1>2. LedgerTypeOK /\ LiveHashUnique /\ [LedgerNext]_ledgerVars
         => LedgerTypeOK' /\ LiveHashUnique'
  BY TypeStep, LiveHashStep
<1>3. QED
  BY <1>1, <1>2, PTL DEF LedgerSpec
----------------------------------------------------------------------------
(* One step of AttemptHistoryKept.                                          *)
HistoryStep ==
    \A a \in Avids : \A i \in DOMAIN attempts[a] :
        /\ i \in DOMAIN attempts'[a]
        /\ attempts'[a][i].hash = attempts[a][i].hash
        /\ attempts[a][i].state \in FinalStates =>
              attempts'[a][i].state = attempts[a][i].state

LEMMA HistoryStepKept ==
    ASSUME LedgerTypeOK, [LedgerNext]_ledgerVars
    PROVE  HistoryStep
<1>1. CASE \E a \in Avids : RowStep(a)
  BY <1>1, RowStepEffect DEF HistoryStep
<1>2. ASSUME NEW a \in Avids, NEW fresh \in CandidateLists, AddAttempts(a, fresh)
      PROVE  HistoryStep
  <2>1. \A b \in Avids : \A i \in DOMAIN attempts[b] :
           i \in DOMAIN attempts'[b] /\ attempts'[b][i] = attempts[b][i]
    BY <1>2, AddAttemptsEffect
  <2>2. QED
    BY <2>1 DEF HistoryStep
<1>3. CASE \E a \in Avids : \E n \in DOMAIN attempts[a] : AttemptMove(a, n)
  BY <1>3, AttemptMoveEffect, SetAttemptEffect DEF HistoryStep
<1>4. CASE UNCHANGED ledgerVars
  BY <1>4 DEF HistoryStep, ledgerVars
<1>5. QED
  BY <1>1, <1>2, <1>3, <1>4, StepCases

(* The history of what was tried for a title is never rewritten: every      *)
(* operation leaves every attempt its number and its hash, and a concluded  *)
(* one its conclusion.                                                      *)
THEOREM HistoryKept == LedgerSpec => AttemptHistoryKept
<1>1. LedgerTypeOK /\ [LedgerNext]_ledgerVars => [HistoryStep]_ledgerVars
  BY HistoryStepKept
<1>2. QED
  BY <1>1, LedgerTypeCorrect, PTL DEF LedgerSpec, AttemptHistoryKept, HistoryStep

(* One step of ArchivedReopensOnlyToReplace.                                *)
ReopenStep ==
    \A a \in Avids :
        acq[a].state = "archived" /\ acq'[a].state # "archived" =>
            /\ acq'[a].state = "discovered"
            /\ acq'[a].replacing
            /\ acq'[a].floor = Len(attempts[a])

LEMMA ReopenStepKept ==
    ASSUME LedgerTypeOK, [LedgerNext]_ledgerVars
    PROVE  ReopenStep
<1>1. CASE \E a \in Avids : RowStep(a)
  BY <1>1, RowStepEffect DEF ReopenStep
<1>2. CASE UNCHANGED acq
  BY <1>2 DEF ReopenStep
<1>3. CASE \E a \in Avids : \E fresh \in CandidateLists : AddAttempts(a, fresh)
  BY <1>2, <1>3 DEF AddAttempts
<1>4. CASE \E a \in Avids : \E n \in DOMAIN attempts[a] : AttemptMove(a, n)
  BY <1>2, <1>4, AttemptMoveEffect
<1>5. CASE UNCHANGED ledgerVars
  BY <1>2, <1>5 DEF ledgerVars
<1>6. QED
  BY <1>1, <1>3, <1>4, <1>5, StepCases

(* An archived title reopens only as a replacement that remembers how many  *)
(* attempts came before it: no compare-and-set, timer or sighting takes it  *)
(* out of the library's books.                                              *)
THEOREM ArchivedReopens == LedgerSpec => ArchivedReopensOnlyToReplace
<1>1. LedgerTypeOK /\ [LedgerNext]_ledgerVars => [ReopenStep]_ledgerVars
  BY ReopenStepKept
<1>2. QED
  BY <1>1, LedgerTypeCorrect, PTL DEF LedgerSpec, ArchivedReopensOnlyToReplace, ReopenStep

(* Whatever order the callers of the repository come in, a hash is tried    *)
(* once for a title and is live once in the ledger.                         *)
THEOREM HashesStayAccounted == LedgerSpec => []HashesAccounted
  BY TriedOnce, OneLivePerHash, PTL DEF HashesAccounted

(* Rows are well formed and their replacement floors true.                  *)
THEOREM RowsStayAccounted == LedgerSpec => []RowsAccounted
  BY LedgerTypeCorrect, FloorKept, PTL DEF RowsAccounted

(* Both together, as the run checks them of the repository's operations.    *)
THEOREM LedgerStaysAccounted == LedgerSpec => []LedgerAccounted
  BY HashesStayAccounted, RowsStayAccounted, PTL DEF LedgerAccounted

(* What the ledger has concluded stays concluded.                           *)
THEOREM PastStays == LedgerSpec => PastKept
  BY HistoryKept, ArchivedReopens DEF PastKept
============================================================================
